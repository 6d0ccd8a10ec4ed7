-------------------------- MODULE DecisionStatusProofs --------------------------
(***************************************************************************)
(* Theorems about the status column of DecisionLifecycle, for an           *)
(* application whose request went orderly: it only advances, and says      *)
(* DECIDED as soon as there is a decision.                                 *)
(***************************************************************************)
EXTENDS DecisionLifecycleProofs

-------------------------------------------------------------------------------
(* Handlers.                                                               *)

\* A request that was not read yet has nothing in its handler.
NewInv == \A r \in Requests : req[r].pc = "new" => req[r].app = None

RequestInv == AnswerInv /\ NewInv

\* The requests that found an application undecided are those of before and the
\* one that reads it now; none of them goes back to an earlier step.
LEMMA RequeuersStep ==
  ASSUME TypeInv, RequestInv, [Next]_vars
  PROVE  /\ \A a \in Apps : \A r \in Requeuers(a) :
              /\ r \in Requeuers(a)'
              /\ req'[r].pc = "requeue" => req[r].pc = "requeue"
              /\ req'[r].pc = "enqueue" => req[r].pc \in {"requeue", "enqueue"}
         /\ \A a \in Apps : \A r \in Requeuers(a)' :
              r \in Requeuers(a) \/ (status[a] # "ABSENT" /\ req'[r].pc = "requeue")
         /\ NewInv'
<1> USE LifecycleAssumption DEF TypeOK
<1>0. /\ req \in [Requests -> Handlers]
      /\ \A r \in Requests : req[r].pc # "answered" => req[r].code = 0
      /\ \A r \in Requests : req[r].pc = "new" => req[r].app = None
  BY DEF TypeInv, RequestInv, AnswerInv, NewInv
<1>1. CASE UNCHANGED req
  BY <1>0, <1>1 DEF Requeuers, NewInv
<1>2. ASSUME NEW q \in Requests, NEW b \in Apps,
             \A r \in Requests : r # q => req'[r] = req[r],
             req[q].pc = "new", req'[q].pc = "answered", req'[q].code \in {200, 404}
      PROVE  /\ \A a \in Apps : \A r \in Requeuers(a) :
                  /\ r \in Requeuers(a)'
                  /\ req'[r].pc = "requeue" => req[r].pc = "requeue"
                  /\ req'[r].pc = "enqueue" => req[r].pc \in {"requeue", "enqueue"}
             /\ \A a \in Apps : \A r \in Requeuers(a)' :
                  r \in Requeuers(a) \/ (status[a] # "ABSENT" /\ req'[r].pc = "requeue")
             /\ NewInv'
  BY <1>0, <1>2 DEF Requeuers, NewInv
<1>3. ASSUME NEW q \in Requests, NEW b \in Apps, ReceiveUndecided(q, b)
      PROVE  /\ \A a \in Apps : \A r \in Requeuers(a) :
                  /\ r \in Requeuers(a)'
                  /\ req'[r].pc = "requeue" => req[r].pc = "requeue"
                  /\ req'[r].pc = "enqueue" => req[r].pc \in {"requeue", "enqueue"}
             /\ \A a \in Apps : \A r \in Requeuers(a)' :
                  r \in Requeuers(a) \/ (status[a] # "ABSENT" /\ req'[r].pc = "requeue")
             /\ NewInv'
  <2>1. /\ req[q].pc = "new" /\ status[b] # "ABSENT"
        /\ req'[q].pc = "requeue" /\ req'[q].app = b
        /\ \A r \in Requests : r # q => req'[r] = req[r]
    BY <1>0, <1>3 DEF ReceiveUndecided, Handlers
  <2> QED BY <1>0, <2>1 DEF Requeuers, NewInv
<1>4. ASSUME NEW q \in Requests, req[q].pc # "answered",
             req'[q].pc \notin {"new", "requeue"},
             req'[q].pc = "enqueue" => req[q].pc = "requeue",
             req'[q].app = req[q].app, req'[q].code \in {0, 202, 500},
             req[q].pc = "new" => req'[q].app = None,
             \A r \in Requests : r # q => req'[r] = req[r]
      PROVE  /\ \A a \in Apps : \A r \in Requeuers(a) :
                  /\ r \in Requeuers(a)'
                  /\ req'[r].pc = "requeue" => req[r].pc = "requeue"
                  /\ req'[r].pc = "enqueue" => req[r].pc \in {"requeue", "enqueue"}
             /\ \A a \in Apps : \A r \in Requeuers(a)' :
                  r \in Requeuers(a) \/ (status[a] # "ABSENT" /\ req'[r].pc = "requeue")
             /\ NewInv'
  BY <1>0, <1>4 DEF Requeuers, NewInv
<1>5. ASSUME NEW q \in Requests, Handler(q) \/ RequestError(q) \/ RequestLost(q)
      PROVE  /\ req[q].pc # "answered" /\ req'[q].pc \notin {"new", "requeue"}
             /\ req'[q].pc = "enqueue" => req[q].pc = "requeue"
             /\ req'[q].app = req[q].app /\ req'[q].code \in {0, 202, 500}
             /\ req[q].pc = "new" => req'[q].app = None
             /\ \A r \in Requests : r # q => req'[r] = req[r]
  <2>1. CASE Requeue(q)
    BY <1>0, <2>1 DEF Requeue, Handlers
  <2>2. CASE Enqueue(q)
    BY <1>0, <2>2 DEF Enqueue, Handlers
  <2>3. CASE Respond(q)
    BY <1>0, <2>3 DEF Respond
  <2>4. CASE RequestError(q)
    BY <1>0, <2>4 DEF RequestError, Answered
  <2>5. CASE RequestLost(q)
    BY <1>0, <2>5 DEF RequestLost, Handlers
  <2> QED BY <1>5, <2>1, <2>2, <2>3, <2>4, <2>5 DEF Handler
<1>6. ASSUME NEW q \in Requests, NEW b \in Apps,
             ReceiveUnknown(q, b) \/ ReceiveDecided(q, b)
      PROVE  /\ \A r \in Requests : r # q => req'[r] = req[r]
             /\ req[q].pc = "new" /\ req'[q].pc = "answered"
             /\ req'[q].code \in {200, 404}
  BY <1>0, <1>6 DEF ReceiveUnknown, ReceiveDecided, Answered
<1> HIDE DEF TypeOK
<1> QED BY <1>1, <1>2, <1>3, <1>4, <1>5, <1>6, RequestStep

LEMMA RequestInvStep == TypeInv /\ RequestInv /\ [Next]_vars => RequestInv'
  BY RequeuersStep, AnswerStep DEF RequestInv

\* Losing locks and crashing are not undone, nor is a race: an application
\* whose request went orderly up to now did so before.
LEMMA OrderlyStep ==
  ASSUME TypeInv, RequestInv, [Next]_vars, NEW a \in Apps
  PROVE  /\ Raced(a) => Raced(a)'
         /\ Orderly(a)' => Orderly(a)
<1>1. Raced(a) => Raced(a)'
  BY RequeuersStep DEF Raced
<1>2. budget'.lockLosses = 0 => budget.lockLosses = 0
  BY BudgetStep
<1>3. budget.crashes \in Nat /\ budget'.crashes \in Nat /\ budget'.crashes >= budget.crashes
  BY BudgetStep, NextTypeInv DEF TypeInv, TypeOK
<1>4. ThrowsAfterCommit => ThrowsAfterCommit'
  BY <1>3, LifecycleAssumption DEF ThrowsAfterCommit
<1> QED BY <1>1, <1>2, <1>4 DEF Orderly
-------------------------------------------------------------------------------
(* The invariant.                                                          *)

\* A lane that is idle works on nothing.
IdleInv == \A s \in Slots : lane[s].pc = "idle" => lane[s].app = None

\* Nothing has happened to the application but its creation.
Fresh(a) ==
  /\ status[a] \in {"ABSENT", "QUEUED"}
  /\ decision[a] = Undecided
  /\ job[a].state = "none"
  /\ \A s \in Slots : lane[s].app # a
  /\ \A w \in Workers : <<w, a>> \notin marking

\* No request is past its enqueue.
Unasked(a) ==
  ~Raced(a) /\ \A r \in Requeuers(a) : req[r].pc \in {"requeue", "enqueue"}

\* Until the one request that asks for it is past its enqueue, the application
\* is as it was created.
StartInv ==
  \A a \in Apps : /\ status[a] = "ABSENT" => Requeuers(a) = {}
                  /\ Unasked(a) => Fresh(a)

\* Only crashes stall jobs, each at most once.
StallInv ==
  budget.lockLosses = 0 =>
    \A a \in Apps :
      /\ job[a].stalled <= budget.crashes
      /\ job[a].state = "active" /\ (\A s \in Slots : lane[s].app # a) =>
           job[a].stalled + 1 <= budget.crashes
      /\ job[a].deferred => job[a].stalled > MaxStalledCount

GivenUp(a) == status[a] = "FAILED" \/ \E w \in Workers : <<w, a>> \in marking

\* What an attempt may still do to the row it finds.
LaneGood(s, a) ==
  /\ lane[s].pc # "abort"
  /\ lane[s].pc \in {"mark", "commit", "throw"} => decision[a] = Undecided
  /\ lane[s].pc = "commit" => status[a] = "PROCESSING"
  /\ "worker" \in Faults /\ decision[a] # Undecided => lane[s].pc \in {"record", "finish"}

Good(a) ==
  /\ \A s \in Slots : lane[s].app = a => LaneGood(s, a)
  /\ GivenUp(a) => job[a].state \in {"failed", "none"} /\ decision[a] = Undecided
  /\ decision[a] # Undecided => status[a] = "DECIDED"
  /\ "worker" \in Faults /\ decision[a] # Undecided =>
       job[a].state \in {"active", "completed", "none"}

OrderlyInv == \A a \in Apps : Orderly(a) => Good(a)

-------------------------------------------------------------------------------
(* What a step does to one application.                                    *)

\* Nothing that the invariant speaks of.
Quiet(a) ==
  /\ status'[a] = status[a]
  /\ decision'[a] = decision[a]
  /\ job'[a].state = job[a].state
  /\ job'[a].stalled = job[a].stalled
  /\ job'[a].deferred = job[a].deferred
  /\ \A s \in Slots : \/ lane'[s] = lane[s]
                      \/ lane[s].app # a /\ lane'[s].app # a
  /\ \A w \in Workers : <<w, a>> \in marking' => <<w, a>> \in marking

\* Steps of a lane that works on it.
Run(s) == \/ LoadApplication(s) \/ CheckExisting(s) \/ MarkProcessing(s)
          \/ Commit(s) \/ CommitRejected(s) \/ RecordCompletion(s)
          \/ CommitUnacknowledged(s) \/ ProcessorError(s)

Settle(s) == CompleteJob(s) \/ FailAttempt(s) \/ FailStalled(s) \/ SettleRefused(s)

Loud(a) ==
  \/ CreateApplication(a)
  \/ \E r \in Requests : req[r].app = a /\ (Requeue(r) \/ Enqueue(r))
  \/ \E s \in Slots : Take(s, a)
  \/ \E s \in Slots : lane[s].app = a /\ (Run(s) \/ Settle(s))
  \/ Promote(a) \/ RecoverStalled(a) \/ Evict(a)
  \/ \E w \in Workers : MarkFailed(w, a) \/ Crash(w)

LEMMA QuietOrLoud ==
  ASSUME TypeInv, IdleInv, [Next]_vars, NEW a \in Apps
  PROVE  Quiet(a) \/ Loud(a)
<1> USE LifecycleAssumption DEF postgres
<1>0. /\ status \in [Apps -> Statuses] /\ decision \in [Apps -> Verdicts \cup {Undecided}]
      /\ job \in [Apps -> Jobs] /\ lane \in [Slots -> LaneCalls]
      /\ \A s \in Slots : lane[s].pc # "idle" => lane[s].app \in Apps
      /\ \A s \in Slots : lane[s].pc = "idle" => lane[s].app = None
      /\ \A r \in Requests :
           req[r].pc \in {"requeue", "enqueue", "respond"} => req[r].app \in Apps
  BY DEF TypeInv, TypeOK, LaneHolds, HandlerHolds, IdleInv
<1>1. CASE Client
  BY <1>0, <1>1 DEF Client, CreateApplication, UpdateBusiness, ReceiveUnknown,
              ReceiveDecided, ReceiveUndecided, Quiet, Loud
<1>2. ASSUME NEW r \in Requests, Handler(r) PROVE Quiet(a) \/ Loud(a)
  <2>1. CASE Requeue(r)
    BY <1>0, <2>1 DEF Requeue, Quiet, Loud
  <2>2. CASE Enqueue(r)
    BY <1>0, <2>2 DEF Enqueue, AddJob, Quiet, Loud
  <2>3. CASE Respond(r)
    BY <2>3 DEF Respond, Quiet
  <2> QED BY <1>2, <2>1, <2>2, <2>3 DEF Handler
<1>3. ASSUME NEW s \in Slots, NEW b \in Apps, Take(s, b) PROVE Quiet(a) \/ Loud(a)
  <2>1. CASE b = a
    BY <1>3, <2>1 DEF Loud
  <2>2. CASE b # a
    <3>1. lane[s].app # a /\ lane'[s].app # a /\ job'[a] = job[a]
      BY <1>0, <1>3, <2>2 DEF Take
    <3> QED BY <1>0, <1>3, <3>1 DEF Take, Quiet
  <2> QED BY <2>1, <2>2
<1>4. ASSUME NEW s \in Slots, lane[s].app # a, lane[s].pc # "idle",
             \A t \in Slots : t # s => lane'[t] = lane[t],
             lane'[s].app \in {lane[s].app, None},
             status'[a] = status[a], decision'[a] = decision[a], job'[a] = job[a],
             \A w \in Workers : <<w, a>> \in marking' => <<w, a>> \in marking
      PROVE  Quiet(a)
  BY <1>4 DEF Quiet
<1>5. ASSUME NEW s \in Slots, Run(s), lane[s].app # a PROVE Quiet(a)
  <2>1. /\ lane[s].pc # "idle" /\ lane'[s].app = lane[s].app
        /\ \A t \in Slots : t # s => lane'[t] = lane[t]
    BY <1>0, <1>5 DEF Run, LoadApplication, CheckExisting, MarkProcessing, Commit,
         CommitRejected, RecordCompletion, CommitUnacknowledged, ProcessorError,
         Goto, LaneCalls
  <2>2. status'[a] = status[a] /\ decision'[a] = decision[a] /\ UNCHANGED <<job, marking>>
    BY <1>0, <1>5 DEF Run, LoadApplication, CheckExisting, MarkProcessing, Commit,
         CommitRejected, RecordCompletion, CommitUnacknowledged, ProcessorError,
         WriteDecision
  <2> QED BY <1>4, <1>5, <2>1, <2>2
<1>6. ASSUME NEW s \in Slots, Settle(s), lane[s].app # a PROVE Quiet(a)
  <2>1. /\ lane[s].pc # "idle" /\ lane'[s].app = None
        /\ \A t \in Slots : t # s => lane'[t] = lane[t]
    BY <1>0, <1>6 DEF Settle, CompleteJob, FailAttempt, FailStalled, SettleRefused,
         Release, IdleLane
  <2>2. UNCHANGED <<status, decision>> /\ job'[a] = job[a]
    BY <1>0, <1>6 DEF Settle, CompleteJob, FailAttempt, FailStalled, SettleRefused, FailJob
  <2>3. \A w \in Workers : <<w, a>> \in marking' => <<w, a>> \in marking
    BY <1>0, <1>6 DEF Settle, CompleteJob, FailAttempt, FailStalled, SettleRefused,
         FailedHandler
  <2> QED BY <1>4, <1>6, <2>1, <2>2, <2>3
<1>7. ASSUME NEW s \in Slots, Run(s) \/ Settle(s) PROVE Quiet(a) \/ Loud(a)
  BY <1>5, <1>6, <1>7 DEF Loud
<1>8. ASSUME NEW s \in Slots, Processor(s) PROVE Quiet(a) \/ Loud(a)
  BY <1>7, <1>8 DEF Processor, Run, Settle
<1>9. ASSUME NEW b \in Apps, Queue(b) PROVE Quiet(a) \/ Loud(a)
  <2>1. CASE Promote(b)
    BY <1>0, <2>1 DEF Promote, Quiet, Loud
  <2>2. CASE OrphanLockExpires(b)
    BY <1>0, <2>2 DEF OrphanLockExpires, Quiet, Jobs
  <2>3. CASE RecoverStalled(b)
    BY <1>0, <2>3 DEF RecoverStalled, Quiet, Loud
  <2> QED BY <1>9, <2>1, <2>2, <2>3 DEF Queue
<1>10. ASSUME NEW w \in Workers, NEW b \in Apps, MarkFailed(w, b)
       PROVE  Quiet(a) \/ Loud(a)
  BY <1>0, <1>10 DEF MarkFailed, Quiet, Loud
<1>11. CASE Trouble
  <2>1. ASSUME NEW b \in Apps, LockLost(b) PROVE Quiet(a)
    BY <1>0, <2>1 DEF LockLost, Quiet, Jobs
  <2>2. ASSUME NEW b \in Apps, Evict(b) PROVE Quiet(a) \/ Loud(a)
    BY <1>0, <2>2 DEF Evict, Quiet, Loud
  <2>3. ASSUME NEW r \in Requests, RequestError(r) \/ RequestLost(r) PROVE Quiet(a)
    BY <2>3 DEF RequestError, RequestLost, Quiet
  <2>4. ASSUME NEW w \in Workers, NEW b \in Apps, MarkFailedError(w, b) PROVE Quiet(a)
    BY <2>4 DEF MarkFailedError, Quiet
  <2>5. ASSUME NEW w \in Workers, Crash(w) \/ Shutdown(w) PROVE Quiet(a) \/ Loud(a)
    BY <2>5 DEF Shutdown, Quiet, Loud
  <2>6. ASSUME NEW s \in Slots, CommitUnacknowledged(s) \/ ProcessorError(s)
        PROVE  Quiet(a) \/ Loud(a)
    BY <1>7, <2>6 DEF Run
  <2> QED BY <1>11, <2>1, <2>2, <2>3, <2>4, <2>5, <2>6 DEF Trouble
<1>12. CASE UNCHANGED vars
  BY <1>12 DEF vars, Quiet
<1> HIDE DEF postgres
<1> QED BY <1>1, <1>2, <1>3, <1>8, <1>9, <1>10, <1>11, <1>12 DEF Next

\* A lane keeps its application until it is done with it.
LEMMA IdleStep == TypeInv /\ IdleInv /\ [Next]_vars => IdleInv'
<1> SUFFICES ASSUME TypeInv, IdleInv, [Next]_vars PROVE IdleInv'
  OBVIOUS
<1>0. /\ lane \in [Slots -> LaneCalls] /\ None \notin Apps
      /\ \A s \in Slots : lane[s].pc = "idle" => lane[s].app = None
  BY LifecycleAssumption DEF TypeInv, TypeOK, IdleInv
<1>1. CASE UNCHANGED lane
  BY <1>0, <1>1 DEF IdleInv
<1>2. ASSUME NEW s \in Slots, \A t \in Slots : t # s => lane'[t] = lane[t],
             lane'[s].pc # "idle" \/ lane'[s].app = None
      PROVE  IdleInv'
  BY <1>0, <1>2 DEF IdleInv
<1>3. ASSUME NEW s \in Slots, NEW a \in Apps, Take(s, a) PROVE IdleInv'
  <2>1. lane'[s].pc # "idle" /\ \A t \in Slots : t # s => lane'[t] = lane[t]
    BY <1>0, <1>3 DEF Take
  <2> QED BY <1>2, <2>1
<1>4. ASSUME NEW s \in Slots, Run(s) PROVE IdleInv'
  <2>1. lane'[s].pc # "idle" /\ \A t \in Slots : t # s => lane'[t] = lane[t]
    BY <1>0, <1>4 DEF Run, LoadApplication, CheckExisting, MarkProcessing, Commit,
         CommitRejected, RecordCompletion, CommitUnacknowledged, ProcessorError,
         Goto, LaneCalls
  <2> QED BY <1>2, <2>1
<1>5. ASSUME NEW s \in Slots, Settle(s) PROVE IdleInv'
  <2>1. lane'[s].app = None /\ \A t \in Slots : t # s => lane'[t] = lane[t]
    BY <1>0, <1>5 DEF Settle, CompleteJob, FailAttempt, FailStalled, SettleRefused,
         Release, IdleLane
  <2> QED BY <1>2, <2>1
<1>6. ASSUME NEW w \in Workers, Crash(w) PROVE IdleInv'
  BY <1>0, <1>6 DEF Crash, IdleLane, IdleInv
<1>7. CASE Client
  BY <1>1, <1>7 DEF Client, CreateApplication, UpdateBusiness, ReceiveUnknown,
              ReceiveDecided, ReceiveUndecided
<1>8. ASSUME NEW r \in Requests, Handler(r) PROVE IdleInv'
  BY <1>1, <1>8 DEF Handler, Requeue, Enqueue, Respond
<1>9. ASSUME NEW s \in Slots, Processor(s) PROVE IdleInv'
  BY <1>4, <1>5, <1>9 DEF Processor, Run, Settle
<1>10. ASSUME NEW a \in Apps, Queue(a) PROVE IdleInv'
  BY <1>1, <1>10 DEF Queue, Promote, OrphanLockExpires, RecoverStalled
<1>11. ASSUME NEW w \in Workers, NEW a \in Apps, MarkFailed(w, a) PROVE IdleInv'
  BY <1>1, <1>11 DEF MarkFailed
<1>12. CASE Trouble
  <2>1. ASSUME NEW s \in Slots, CommitUnacknowledged(s) \/ ProcessorError(s)
        PROVE  IdleInv'
    BY <1>4, <2>1 DEF Run
  <2> QED BY <1>1, <1>6, <1>12, <2>1 DEF Trouble, RequestError, RequestLost, LockLost,
                                        Evict, MarkFailedError, Shutdown
<1>13. CASE UNCHANGED vars
  BY <1>1, <1>13 DEF vars
<1> QED BY <1>3, <1>7, <1>8, <1>9, <1>10, <1>11, <1>12, <1>13 DEF Next

-------------------------------------------------------------------------------
(* Before the enqueue.                                                     *)

\* An application that was created stays so.
LEMMA AbsentStep ==
  ASSUME TypeInv, IdleInv, [Next]_vars, NEW a \in Apps, status[a] # "ABSENT"
  PROVE  status'[a] # "ABSENT"
<1>0. status \in [Apps -> Statuses]
  BY DEF TypeInv, TypeOK
<1>1. CASE Quiet(a)
  BY <1>1 DEF Quiet
<1>2. CASE Loud(a)
  BY <1>0, <1>2 DEF Loud, CreateApplication, Requeue, Enqueue, Take, Run, LoadApplication,
         CheckExisting, MarkProcessing, Commit, CommitRejected, RecordCompletion,
         CommitUnacknowledged, ProcessorError, WriteDecision, Settle, CompleteJob,
         FailAttempt, FailStalled, SettleRefused, Promote, RecoverStalled, Evict,
         MarkFailed, Crash, postgres
<1> QED BY <1>1, <1>2, QuietOrLoud

\* Only an enqueue starts anything.
LEMMA FreshStep ==
  ASSUME TypeInv, IdleInv, [Next]_vars, NEW a \in Apps, Fresh(a),
         ~\E r \in Requests : req[r].app = a /\ Enqueue(r)
  PROVE  Fresh(a)'
<1> USE DEF Fresh, postgres
<1>0. /\ status \in [Apps -> Statuses]
      /\ lane \in [Slots -> LaneCalls] /\ None # a
  BY LifecycleAssumption DEF TypeInv, TypeOK
<1>1. CASE Quiet(a)
  BY <1>1 DEF Quiet
<1>2. CASE CreateApplication(a)
  BY <1>0, <1>2 DEF CreateApplication
<1>3. ASSUME NEW r \in Requests, req[r].app = a, Requeue(r) PROVE Fresh(a)'
  BY <1>0, <1>3 DEF Requeue
<1>4. ASSUME NEW w \in Workers, Crash(w) PROVE Fresh(a)'
  BY <1>0, <1>4 DEF Crash, IdleLane
<1>5. ASSUME Loud(a)
      PROVE  \/ CreateApplication(a)
             \/ \E r \in Requests : req[r].app = a /\ Requeue(r)
             \/ \E w \in Workers : Crash(w)
  BY <1>5 DEF Loud, Take, Promote, RecoverStalled, Evict, MarkFailed
<1> HIDE DEF Fresh
<1> QED BY <1>1, <1>2, <1>3, <1>4, <1>5, QuietOrLoud

LEMMA StartInvStep ==
  TypeInv /\ RequestInv /\ IdleInv /\ StartInv /\ [Next]_vars => StartInv'
<1> SUFFICES ASSUME TypeInv, RequestInv, IdleInv, StartInv, [Next]_vars, NEW a \in Apps
             PROVE  /\ status'[a] = "ABSENT" => Requeuers(a)' = {}
                    /\ Unasked(a)' => Fresh(a)'
  BY DEF StartInv
<1>1. ASSUME status'[a] = "ABSENT" PROVE Requeuers(a)' = {}
  <2>1. status[a] = "ABSENT" /\ Requeuers(a) = {}
    BY <1>1, AbsentStep DEF StartInv
  <2> QED BY <2>1, RequeuersStep
<1>2. ASSUME Unasked(a)' PROVE Fresh(a)'
  <2>1. Unasked(a)
    BY <1>2, RequeuersStep, OrderlyStep DEF Unasked
  <2>2. Fresh(a)
    BY <2>1 DEF StartInv
  <2>3. ASSUME NEW r \in Requests, req[r].app = a, Enqueue(r) PROVE FALSE
    <3>1. r \in Requeuers(a) /\ req'[r].pc = "respond"
      BY <2>3 DEF Requeuers, Enqueue, RequestInv, AnswerInv, TypeInv, TypeOK
    <3> QED BY <1>2, <3>1, RequeuersStep DEF Unasked
  <2> QED BY <2>2, <2>3, FreshStep
<1> QED BY <1>1, <1>2

-------------------------------------------------------------------------------
(* Stalls.                                                                 *)

\* A stall has a crash of its own behind it: the lane that died.
LEMMA StallInvStep ==
  TypeInv /\ LockInv /\ IdleInv /\ StallInv /\ [Next]_vars => StallInv'
<1> DEFINE Stalls(a) ==
             /\ job[a].stalled <= budget.crashes
             /\ job[a].state = "active" /\ (\A s \in Slots : lane[s].app # a) =>
                  job[a].stalled + 1 <= budget.crashes
             /\ job[a].deferred => job[a].stalled > MaxStalledCount
<1> SUFFICES ASSUME TypeInv, LockInv, IdleInv, StallInv, [Next]_vars,
                    budget'.lockLosses = 0, NEW a \in Apps
             PROVE  Stalls(a)'
  BY DEF StallInv
<1>0. /\ job \in [Apps -> Jobs] /\ lane \in [Slots -> LaneCalls]
      /\ job[a].stalled \in Nat /\ job[a].deferred \in BOOLEAN
      /\ budget.crashes \in Nat /\ budget'.crashes \in Nat /\ budget'.crashes >= budget.crashes
      /\ budget.lockLosses = 0 /\ MaxStalledCount \in Nat /\ None \notin Apps
  BY BudgetStep, NextTypeInv, LifecycleAssumption DEF TypeInv, TypeOK, Jobs
<1>1. Stalls(a)
  BY <1>0 DEF StallInv
<1>2. \A s \in Slots : lane[s].app = a => job[a].lock = s /\ s # None
  BY <1>0, LifecycleAssumption DEF LockInv
<1>3. CASE Quiet(a)
  BY <1>0, <1>1, <1>3 DEF Quiet
<1>4. ASSUME UNCHANGED <<job, lane>> PROVE Stalls(a)'
  BY <1>0, <1>1, <1>4
<1>5. ASSUME job'[a].stalled = job[a].stalled, job'[a].deferred = job[a].deferred,
             job'[a].state # "active" \/ \E s \in Slots : lane'[s].app = a
      PROVE  Stalls(a)'
  BY <1>0, <1>1, <1>5
<1>6. ASSUME NEW r \in Requests, req[r].app = a, Requeue(r) \/ Enqueue(r) PROVE Stalls(a)'
  <2>1. CASE Requeue(r)
    BY <1>4, <2>1 DEF Requeue
  <2>2. CASE Enqueue(r) /\ job[a].state = "none"
    BY <1>0, <1>5, <1>6, <2>2 DEF Enqueue, AddJob, Jobs
  <2>3. CASE Enqueue(r) /\ job[a].state # "none"
    BY <1>4, <1>6, <2>3 DEF Enqueue, AddJob
  <2> QED BY <1>6, <2>1, <2>2, <2>3
<1>7. ASSUME NEW s \in Slots, Take(s, a) PROVE Stalls(a)'
  <2>1. /\ job'[a].stalled = job[a].stalled /\ job'[a].deferred = job[a].deferred
        /\ lane'[s].app = a
    BY <1>0, <1>7 DEF Take, Jobs
  <2> QED BY <1>5, <2>1
<1>8. ASSUME NEW s \in Slots, lane[s].app = a, Run(s) PROVE Stalls(a)'
  <2>1. UNCHANGED job /\ lane'[s].app = a
    BY <1>0, <1>8 DEF Run, LoadApplication, CheckExisting, MarkProcessing, Commit,
         CommitRejected, RecordCompletion, CommitUnacknowledged, ProcessorError,
         Goto, LaneCalls
  <2> QED BY <1>5, <2>1
<1>9. ASSUME NEW s \in Slots, lane[s].app = a, Settle(s) PROVE Stalls(a)'
  <2>1. ~SettleRefused(s)
    BY <1>2, <1>9 DEF SettleRefused
  <2>2. /\ job'[a].stalled = job[a].stalled /\ job'[a].deferred = job[a].deferred
        /\ job'[a].state # "active"
    BY <1>0, <1>9, <2>1 DEF Settle, CompleteJob, FailAttempt, FailStalled, FailJob, Jobs
  <2> QED BY <1>5, <2>2
<1>10. CASE Promote(a)
  <2>1. /\ job'[a].stalled = job[a].stalled /\ job'[a].deferred = job[a].deferred
        /\ job'[a].state = "waiting"
    BY <1>0, <1>10 DEF Promote, Jobs
  <2> QED BY <1>5, <2>1
<1>11. CASE RecoverStalled(a)
  <2>1. job[a].state = "active" /\ \A s \in Slots : lane[s].app # a
    BY <1>2, <1>11 DEF RecoverStalled
  <2>2. /\ job'[a].stalled = job[a].stalled + 1 /\ job'[a].state = "waiting"
        /\ job'[a].deferred = (job[a].stalled + 1 > MaxStalledCount)
        /\ budget' = budget
    BY <1>0, <1>11 DEF RecoverStalled, Jobs
  <2> QED BY <1>0, <1>1, <2>1, <2>2
<1>12. CASE Evict(a)
  <2>1. job'[a].stalled = 0 /\ job'[a].deferred = FALSE /\ job'[a].state = "none"
    BY <1>0, <1>12 DEF Evict, NoJob
  <2> QED BY <1>0, <2>1
<1>13. ASSUME NEW w \in Workers, Crash(w) PROVE Stalls(a)'
  <2>1. UNCHANGED job /\ budget'.crashes = budget.crashes + 1
    BY <1>13 DEF Crash, TypeInv, TypeOK
  <2> QED BY <1>0, <1>1, <2>1
<1>14. CASE Loud(a)
  <2>1. CASE CreateApplication(a)
    BY <1>4, <2>1 DEF CreateApplication
  <2>2. ASSUME NEW w \in Workers, MarkFailed(w, a) PROVE Stalls(a)'
    BY <1>4, <2>2 DEF MarkFailed
  <2> HIDE DEF Stalls
  <2> QED BY <1>6, <1>7, <1>8, <1>9, <1>10, <1>11, <1>12, <1>13, <1>14, <2>1, <2>2 DEF Loud
<1> HIDE DEF Stalls
<1> QED BY <1>3, <1>14, QuietOrLoud

-------------------------------------------------------------------------------
(* An orderly request.                                                     *)

StatusInv == RequestInv /\ LockInv /\ IdleInv /\ StartInv /\ StallInv /\ OrderlyInv

\* A lane on the application holds an active job, so it is alone and nobody has
\* given up.
LEMMA LaneFacts ==
  ASSUME TypeInv, StatusInv, NEW a \in Apps, Orderly(a)
  PROVE  /\ Good(a)
         /\ \A s \in Slots : lane[s].app = a => /\ job[a].lock = s
                                                /\ job[a].state = "active"
                                                /\ ~GivenUp(a)
         /\ \A s, t \in Slots : lane[s].app = a /\ lane[t].app = a => s = t
<1>1. Good(a)
  BY DEF StatusInv, OrderlyInv
<1>2. ASSUME NEW s \in Slots, lane[s].app = a
      PROVE  job[a].lock = s /\ job[a].state = "active"
  BY <1>2, LifecycleAssumption DEF StatusInv, LockInv, Orderly
<1>3. job[a].state = "active" => ~GivenUp(a)
  BY <1>1 DEF Good
<1> QED BY <1>1, <1>2, <1>3

\* The one request that asks finds the application as it was created.
LEMMA AskedFresh ==
  ASSUME TypeInv, StatusInv, NEW a \in Apps, Orderly(a), NEW r \in Requests,
         req[r].app = a, req[r].pc \in {"requeue", "enqueue"}
  PROVE  Fresh(a) /\ status[a] = "QUEUED"
<1>1. r \in Requeuers(a)
  BY DEF StatusInv, RequestInv, AnswerInv, Requeuers
<1>2. Unasked(a)
  BY <1>1 DEF Orderly, Raced, Unasked
<1> QED BY <1>1, <1>2 DEF StatusInv, StartInv, Fresh

\* Untouched, an application is in good order.
LEMMA RestGood ==
  ASSUME NEW a \in Apps, \A s \in Slots : lane[s].app # a, ~GivenUp(a),
         decision[a] = Undecided
  PROVE  Good(a)
  BY DEF Good

LEMMA QuietGood ==
  ASSUME NEW a \in Apps, Good(a), Quiet(a)
  PROVE  Good(a)'
<1>1. GivenUp(a)' => GivenUp(a)
  BY DEF Quiet, GivenUp
<1>2. \A s \in Slots : lane'[s].app = a => LaneGood(s, a)'
  BY DEF Good, LaneGood, Quiet
<1> QED BY <1>1, <1>2 DEF Good, Quiet

LEMMA LaneRunGood ==
  ASSUME TypeInv, StatusInv, NEW a \in Apps, Orderly(a), NEW s \in Slots,
         lane[s].app = a, Run(s)
  PROVE  Good(a)'
<1>0. /\ status \in [Apps -> Statuses] /\ decision \in [Apps -> Verdicts \cup {Undecided}]
      /\ lane \in [Slots -> LaneCalls]
      /\ lane[s].pc = "commit" => lane[s].snapshot \in Profiles
      /\ None \notin Profiles
  BY LifecycleAssumption DEF TypeInv, TypeOK, LaneHolds
<1>1. /\ Good(a) /\ ~GivenUp(a) /\ job[a].state = "active" /\ LaneGood(s, a)
      /\ \A t \in Slots : t # s => lane[t].app # a
  BY LaneFacts DEF Good
<1>2. /\ lane'[s].app = a /\ UNCHANGED <<job, marking>>
      /\ \A t \in Slots : t # s => lane'[t] = lane[t]
  BY <1>0 DEF Run, LoadApplication, CheckExisting, MarkProcessing, Commit,
         CommitRejected, RecordCompletion, CommitUnacknowledged, ProcessorError,
         Goto, LaneCalls
<1>3. ASSUME LaneGood(s, a)', status'[a] # "FAILED",
             decision'[a] # Undecided => status'[a] = "DECIDED"
      PROVE  Good(a)'
  <2>1. ~GivenUp(a)'
    BY <1>1, <1>2, <1>3 DEF GivenUp
  <2>2. \A t \in Slots : lane'[t].app = a => LaneGood(t, a)'
    BY <1>1, <1>2, <1>3
  <2>3. job'[a].state = "active"
    BY <1>1, <1>2
  <2> QED BY <1>3, <2>1, <2>2, <2>3 DEF Good
<1>4. /\ status[a] # "FAILED" /\ (decision[a] # Undecided => status[a] = "DECIDED")
  BY <1>1 DEF Good, GivenUp
<1>5. ASSUME lane'[s].pc \in {"check", "mark", "throw", "record", "finish"},
             UNCHANGED <<status, decision>>,
             lane'[s].pc \in {"mark", "throw"} => decision[a] = Undecided,
             "worker" \in Faults /\ decision[a] # Undecided =>
               lane'[s].pc \in {"record", "finish"}
      PROVE  Good(a)'
  <2>1. LaneGood(s, a)'
    BY <1>5 DEF LaneGood
  <2> QED BY <1>3, <1>4, <1>5, <2>1
<1>6. CASE LoadApplication(s)
  <2>1. lane[s].pc = "load" /\ lane'[s].pc = "check" /\ UNCHANGED <<status, decision>>
    BY <1>0, <1>6 DEF LoadApplication, postgres, LaneCalls
  <2> QED BY <1>1, <1>5, <2>1 DEF LaneGood
<1>7. CASE CheckExisting(s)
  <2>1. /\ lane[s].pc = "check" /\ UNCHANGED <<status, decision>>
        /\ lane'[s].pc = IF decision[a] # Undecided THEN "finish" ELSE "mark"
    BY <1>0, <1>7 DEF CheckExisting, Goto, postgres, LaneCalls
  <2> QED BY <1>1, <1>5, <2>1 DEF LaneGood
<1>8. CASE MarkProcessing(s)
  <2>1. /\ lane[s].pc = "mark" /\ lane'[s].pc = "commit" /\ UNCHANGED decision
        /\ status'[a] = "PROCESSING"
    BY <1>0, <1>8 DEF MarkProcessing, Goto, LaneCalls
  <2>2. decision[a] = Undecided
    BY <1>1, <2>1 DEF LaneGood
  <2>3. LaneGood(s, a)'
    BY <2>1, <2>2 DEF LaneGood
  <2> QED BY <1>3, <2>1, <2>2, <2>3
<1>9. CASE Commit(s)
  <2>1. lane'[s].pc = "record" /\ status'[a] = "DECIDED"
    BY <1>0, <1>9 DEF Commit, WriteDecision, Goto, LaneCalls
  <2>2. LaneGood(s, a)'
    BY <2>1 DEF LaneGood
  <2> QED BY <1>3, <2>1, <2>2
<1>10. CASE CommitRejected(s)
  <2>1. /\ lane[s].pc = "commit" /\ lane'[s].pc = "throw" /\ UNCHANGED <<status, decision>>
    BY <1>0, <1>10 DEF CommitRejected, Goto, postgres, LaneCalls
  <2> QED BY <1>1, <1>5, <2>1 DEF LaneGood
<1>11. CASE RecordCompletion(s)
  <2>1. /\ lane[s].pc = "record" /\ lane'[s].pc = "finish" /\ UNCHANGED <<status, decision>>
    BY <1>0, <1>11 DEF RecordCompletion, Goto, postgres, LaneCalls
  <2> QED BY <1>5, <2>1
<1>12. CASE CommitUnacknowledged(s)
  BY <1>12 DEF CommitUnacknowledged, Orderly, ThrowsAfterCommit
<1>13. CASE ProcessorError(s)
  <2>1. /\ "worker" \in Faults /\ lane[s].pc \notin {"record", "finish"}
        /\ lane'[s].pc = "throw" /\ UNCHANGED <<status, decision>>
    BY <1>0, <1>13 DEF ProcessorError, Goto, postgres, LaneCalls
  <2> QED BY <1>1, <1>5, <2>1 DEF LaneGood
<1> QED BY <1>6, <1>7, <1>8, <1>9, <1>10, <1>11, <1>12, <1>13 DEF Run

LEMMA LaneSettleGood ==
  ASSUME TypeInv, StatusInv, NEW a \in Apps, Orderly(a), NEW s \in Slots,
         lane[s].app = a, Settle(s)
  PROVE  Good(a)'
<1>0. job \in [Apps -> Jobs] /\ lane \in [Slots -> LaneCalls] /\ None # a
  BY LifecycleAssumption DEF TypeInv, TypeOK
<1>1. /\ Good(a) /\ ~GivenUp(a) /\ job[a].state = "active" /\ LaneGood(s, a)
      /\ job[a].lock = s /\ \A t \in Slots : t # s => lane[t].app # a
  BY LaneFacts DEF Good
<1>2. /\ UNCHANGED <<status, decision>> /\ \A t \in Slots : lane'[t].app # a
  BY <1>0, <1>1 DEF Settle, CompleteJob, FailAttempt, FailStalled, SettleRefused,
         Release, IdleLane, postgres
<1>3. CASE CompleteJob(s)
  <2>1. job'[a].state = "completed" /\ UNCHANGED marking
    BY <1>0, <1>3 DEF CompleteJob, Jobs
  <2>2. ~GivenUp(a)'
    BY <1>1, <1>2, <2>1 DEF GivenUp
  <2> QED BY <1>1, <1>2, <2>1, <2>2 DEF Good
<1>4. CASE FailAttempt(s)
  <2>1. decision[a] = Undecided
    BY <1>1, <1>4 DEF FailAttempt, LaneGood
  <2>2. CASE AttemptsExhausted(a)
    <3>1. job'[a].state = "failed"
      BY <1>0, <1>4, <2>2 DEF FailAttempt, FailJob, Jobs
    <3> QED BY <1>1, <1>2, <2>1, <3>1 DEF Good
  <2>3. CASE ~AttemptsExhausted(a)
    <3>1. UNCHANGED marking
      BY <1>4, <2>3 DEF FailAttempt, FailedHandler
    <3>2. ~GivenUp(a)'
      BY <1>1, <1>2, <3>1 DEF GivenUp
    <3> QED BY <1>1, <1>2, <2>1, <3>2 DEF Good
  <2> QED BY <2>2, <2>3
<1>5. ~FailStalled(s) /\ ~SettleRefused(s)
  BY <1>1 DEF FailStalled, SettleRefused, LaneGood
<1> QED BY <1>3, <1>4, <1>5 DEF Settle

LEMMA OrderlyInvStep ==
  ASSUME TypeInv, StatusInv, [Next]_vars, NEW a \in Apps, Orderly(a)'
  PROVE  Good(a)'
<1>0. /\ status \in [Apps -> Statuses] /\ job \in [Apps -> Jobs]
      /\ lane \in [Slots -> LaneCalls] /\ None # a
      /\ budget.crashes \in Nat /\ budget'.crashes \in Nat /\ MaxStalledCount \in Nat
      /\ job[a].stalled \in Nat
  BY NextTypeInv, LifecycleAssumption DEF TypeInv, TypeOK, Jobs
<1>1. Orderly(a) /\ Good(a)
  BY OrderlyStep, LaneFacts DEF StatusInv
<1>2. \A s \in Slots : lane[s].app = a => job[a].lock = s /\ job[a].state = "active"
  BY <1>1, LaneFacts
<1>3. budget.crashes <= MaxStalledCount /\ ("worker" \in Faults => budget'.crashes = 0)
  BY <1>0, <1>1 DEF Orderly, ThrowsAfterCommit
<1>4. /\ job[a].stalled <= budget.crashes
      /\ job[a].state = "active" /\ (\A s \in Slots : lane[s].app # a) =>
           job[a].stalled + 1 <= budget.crashes
      /\ job[a].deferred => job[a].stalled > MaxStalledCount
  BY <1>1 DEF StatusInv, StallInv, Orderly
<1>5. ASSUME \A s \in Slots : lane'[s].app # a, status'[a] # "FAILED",
             \A w \in Workers : <<w, a>> \notin marking', decision'[a] = Undecided
      PROVE  Good(a)'
  BY <1>5 DEF Good, GivenUp
<1>6. CASE CreateApplication(a)
  <2>1. Fresh(a)
    BY <1>6, <1>1 DEF CreateApplication, StatusInv, StartInv, Unasked, Orderly
  <2> QED BY <1>0, <1>5, <1>6, <2>1 DEF CreateApplication, Fresh
<1>7. ASSUME NEW r \in Requests, req[r].app = a, Requeue(r) \/ Enqueue(r)
      PROVE  Good(a)'
  <2>1. Fresh(a)
    BY <1>1, <1>7, AskedFresh DEF Requeue, Enqueue
  <2> QED BY <1>0, <1>5, <1>7, <2>1 DEF Requeue, Enqueue, Fresh, postgres
<1>8. ASSUME NEW s \in Slots, Take(s, a) PROVE Good(a)'
  <2>1. ~job[a].deferred
    BY <1>0, <1>3, <1>4
  <2>2. /\ job[a].state = "waiting" /\ job'[a].state = "active"
        /\ lane'[s].pc = "load" /\ \A t \in Slots : t # s => lane'[t] = lane[t]
        /\ UNCHANGED <<status, decision, marking>>
    BY <1>0, <1>8, <2>1 DEF Take, Jobs, postgres
  <2>3. ~GivenUp(a) /\ ~GivenUp(a)'
    BY <1>1, <2>2 DEF Good, GivenUp
  <2>4. "worker" \in Faults => decision[a] = Undecided
    BY <1>1, <2>2 DEF Good
  <2>5. \A t \in Slots : lane'[t].app = a => t = s
    BY <1>2, <2>2
  <2>6. LaneGood(s, a)'
    BY <2>2, <2>4 DEF LaneGood
  <2> QED BY <1>1, <2>2, <2>3, <2>5, <2>6 DEF Good
<1>9. ASSUME job[a].state \notin {"failed", "none"},
             UNCHANGED <<status, decision, lane, marking>>,
             job'[a].state = "waiting", \A s \in Slots : lane[s].app # a,
             "worker" \in Faults => decision[a] = Undecided
      PROVE  Good(a)'
  <2>1. ~GivenUp(a) /\ ~GivenUp(a)'
    BY <1>1, <1>9 DEF Good, GivenUp
  <2> QED BY <1>1, <1>9, <2>1 DEF Good
<1>10. CASE Promote(a)
  <2>1. /\ job[a].state = "delayed" /\ job'[a].state = "waiting"
        /\ UNCHANGED <<status, decision, lane, marking>>
    BY <1>0, <1>10 DEF Promote, Jobs, postgres
  <2>2. "worker" \in Faults => decision[a] = Undecided
    BY <1>1, <2>1 DEF Good
  <2> QED BY <1>2, <1>9, <2>1, <2>2
<1>11. CASE RecoverStalled(a)
  <2>1. /\ job[a].state = "active" /\ job[a].lock = None /\ job'[a].state = "waiting"
        /\ UNCHANGED <<status, decision, lane, marking, budget>>
    BY <1>0, <1>11 DEF RecoverStalled, Jobs, postgres
  <2>2. \A s \in Slots : lane[s].app # a
    BY <1>2, <2>1, LifecycleAssumption
  <2>3. "worker" \notin Faults
    BY <1>0, <1>3, <1>4, <2>1, <2>2
  <2> QED BY <1>9, <2>1, <2>2, <2>3
<1>12. CASE Evict(a)
  <2>1. /\ job'[a].state = "none" /\ job[a].state # "active"
        /\ UNCHANGED <<status, decision, lane, marking>>
    BY <1>0, <1>12 DEF Evict, NoJob, postgres
  <2>2. GivenUp(a)' => GivenUp(a)
    BY <2>1 DEF GivenUp
  <2> QED BY <1>1, <1>2, <2>1, <2>2 DEF Good
<1>13. ASSUME NEW w \in Workers, MarkFailed(w, a) PROVE Good(a)'
  <2>1. GivenUp(a) /\ UNCHANGED <<decision, job, lane>>
    BY <1>13 DEF MarkFailed, GivenUp
  <2>2. decision[a] = Undecided /\ job[a].state \in {"failed", "none"}
    BY <1>1, <2>1 DEF Good
  <2> QED BY <1>2, <2>1, <2>2 DEF Good
<1>14. ASSUME NEW w \in Workers, Crash(w) PROVE Good(a)'
  <2>1. /\ \A s \in Slots : lane'[s].app = a => lane'[s] = lane[s]
        /\ marking' \subseteq marking /\ UNCHANGED <<status, decision, job>>
    BY <1>0, <1>14 DEF Crash, IdleLane, postgres
  <2>2. GivenUp(a)' => GivenUp(a)
    BY <2>1 DEF GivenUp
  <2>3. \A s \in Slots : lane'[s].app = a => LaneGood(s, a)'
    BY <1>1, <2>1 DEF Good, LaneGood
  <2> QED BY <1>1, <2>1, <2>2, <2>3 DEF Good
<1>15. CASE Loud(a)
  BY <1>1, <1>6, <1>7, <1>8, <1>10, <1>11, <1>12, <1>13, <1>14, <1>15, LaneRunGood,
     LaneSettleGood DEF Loud
<1> QED BY <1>1, <1>15, QuietGood, QuietOrLoud DEF StatusInv

LEMMA StatusInvStep == TypeInv /\ StatusInv /\ [Next]_vars => StatusInv'
<1>1. TypeInv /\ StatusInv /\ [Next]_vars => OrderlyInv'
  BY OrderlyInvStep DEF OrderlyInv
<1> QED BY <1>1, RequestInvStep, LockInvStep, IdleStep, StartInvStep, StallInvStep
        DEF StatusInv

LEMMA InitStatusInv == Init => StatusInv
<1> SUFFICES ASSUME Init PROVE StatusInv
  OBVIOUS
<1> USE LifecycleAssumption DEF Init
<1>1. RequestInv /\ IdleInv
  BY DEF RequestInv, AnswerInv, NewInv, IdleInv, NewReq, IdleLane
<1>2. \A a \in Apps : Requeuers(a) = {} /\ Fresh(a)
  BY DEF Requeuers, Fresh, NewReq, NoJob, IdleLane
<1>3. StartInv
  BY <1>2 DEF StartInv
<1>4. StallInv
  BY DEF StallInv, NoJob
<1>5. OrderlyInv
  BY <1>2, RestGood DEF OrderlyInv, Fresh, GivenUp
<1> QED BY <1>1, <1>3, <1>4, <1>5, InitFailedInv DEF StatusInv

\* A poll that carries a decision says DECIDED, for an application whose request
\* went orderly, however many workers die under it.
THEOREM DecidedIsSaid == Spec => []DecisionMeansDecided
<1>1. StatusInv => DecisionMeansDecided
  BY DEF StatusInv, OrderlyInv, Good, DecisionMeansDecided
<1> QED BY <1>1, InitStatusInv, StatusInvStep, InitTypeInv, NextTypeInv, PTL DEF Spec

\* Every writer of the status of an application, in good order.
LEMMA AdvanceStep ==
  ASSUME TypeInv, StatusInv, DecidedHasDecision, [Next]_vars, NEW a \in Apps, Orderly(a),
         status'[a] # status[a]
  PROVE  status'[a] \in Successors[status[a]]
<1>0. status \in [Apps -> Statuses] /\ lane \in [Slots -> LaneCalls]
  BY DEF TypeInv, TypeOK
<1>1. Good(a) /\ status[a] \in Statuses
  BY <1>0, LaneFacts
<1>2. status[a] = "ABSENT" => Fresh(a)
  BY DEF StatusInv, StartInv, Unasked, Orderly
<1>3. CASE CreateApplication(a)
  BY <1>0, <1>3 DEF CreateApplication, Successors
<1>4. ASSUME NEW r \in Requests, req[r].app = a, Requeue(r) \/ Enqueue(r) PROVE FALSE
  <2>1. status[a] = "QUEUED"
    BY <1>4, AskedFresh DEF Requeue, Enqueue
  <2> QED BY <1>0, <1>4, <2>1 DEF Requeue, Enqueue, postgres
<1>5. ASSUME NEW s \in Slots, lane[s].app = a, Run(s)
      PROVE  status'[a] \in Successors[status[a]]
  <2>1. ~GivenUp(a) /\ LaneGood(s, a) /\ ~Fresh(a)
    BY <1>1, <1>5, LaneFacts DEF Good, Fresh
  <2>2. status[a] \notin {"ABSENT", "FAILED"}
    BY <1>2, <2>1 DEF GivenUp
  <2>3. CASE MarkProcessing(s)
    <3>1. lane[s].pc = "mark" /\ status'[a] = "PROCESSING"
      BY <1>0, <1>5, <2>3 DEF MarkProcessing
    <3>2. status[a] # "DECIDED"
      BY <2>1, <3>1 DEF LaneGood, DecidedHasDecision
    <3>3. status[a] = "QUEUED"
      BY <1>1, <2>2, <3>1, <3>2 DEF Statuses
    <3> QED BY <3>1, <3>3 DEF Successors
  <2>4. CASE Commit(s)
    <3>1. lane[s].pc = "commit" /\ status'[a] = "DECIDED"
      BY <1>0, <1>5, <2>4 DEF Commit, WriteDecision
    <3>2. status[a] = "PROCESSING"
      BY <2>1, <3>1 DEF LaneGood
    <3> QED BY <3>1, <3>2 DEF Successors, Final
  <2>5. ~CommitUnacknowledged(s)
    BY DEF CommitUnacknowledged, Orderly, ThrowsAfterCommit
  <2> QED BY <1>5, <2>3, <2>4, <2>5 DEF Run, LoadApplication, CheckExisting,
             CommitRejected, RecordCompletion, ProcessorError, postgres
<1>6. ASSUME NEW w \in Workers, MarkFailed(w, a) PROVE status'[a] \in Successors[status[a]]
  <2>1. GivenUp(a) /\ ~Fresh(a) /\ status'[a] = "FAILED"
    BY <1>0, <1>6 DEF MarkFailed, GivenUp, Fresh
  <2>2. status[a] # "DECIDED"
    BY <1>1, <2>1 DEF Good, DecidedHasDecision
  <2>3. status[a] \in {"QUEUED", "PROCESSING"}
    BY <1>1, <1>2, <2>1, <2>2 DEF Statuses
  <2> QED BY <2>1, <2>3 DEF Successors, Final
<1>7. CASE Loud(a)
  BY <1>3, <1>4, <1>5, <1>6, <1>7
     DEF Loud, Take, Settle, CompleteJob, FailAttempt, FailStalled, SettleRefused,
         Promote, RecoverStalled, Evict, Crash, postgres
<1>8. ~Quiet(a)
  BY DEF Quiet
<1> QED BY <1>7, <1>8, QuietOrLoud DEF StatusInv

\* The status of an application whose request went orderly only advances, and
\* stays once it is final: what DecisionPolling assumes of its server.
THEOREM StatusOnlyAdvances == Spec => StatusAdvances
<1>1. TypeInv /\ StatusInv /\ DecidedHasDecision /\ [Next]_vars =>
        [\A a \in Apps : Orderly(a) /\ status'[a] # status[a] =>
                           status'[a] \in Successors[status[a]]]_vars
  BY AdvanceStep
<1> QED BY <1>1, InitStatusInv, StatusInvStep, InitTypeInv, NextTypeInv, DecidedIsDecided,
           PTL DEF Spec, StatusAdvances
===============================================================================
