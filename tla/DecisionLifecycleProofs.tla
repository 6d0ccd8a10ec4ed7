------------------------- MODULE DecisionLifecycleProofs -------------------------
(***************************************************************************)
(* Theorems about DecisionLifecycle, for any applications, requests,       *)
(* workers and lanes, any number of attempts, and any amount of trouble.   *)
(***************************************************************************)
EXTENDS DecisionLifecycle, TLAPS

(* What a lane and a handler hold at each step: TypeOK needs it, since a   *)
(* lane writes to the rows of the application it names.                    *)
LaneHolds ==
  \A s \in Slots :
    /\ lane[s].pc # "idle" => lane[s].app \in Apps
    /\ lane[s].pc \in {"check", "mark", "commit"} => lane[s].snapshot \in Profiles

HandlerHolds ==
  \A r \in Requests :
    req[r].pc \in {"requeue", "enqueue", "respond"} => req[r].app \in Apps

TypeInv == TypeOK /\ LaneHolds /\ HandlerHolds

-------------------------------------------------------------------------------
(* Type correctness.                                                       *)

(* Records keep their type when fields are given values of theirs.         *)
LEMMA JobFields ==
  /\ \A x \in Jobs, state \in JobStates : [x EXCEPT !.state = state] \in Jobs
  /\ \A x \in Jobs, lock \in Slots \cup {None} : [x EXCEPT !.lock = lock] \in Jobs
  /\ \A x \in Jobs, state \in JobStates, lock \in Slots \cup {None} :
       [x EXCEPT !.state = state, !.lock = lock] \in Jobs
  /\ \A x \in Jobs, state \in JobStates, lock \in Slots \cup {None}, n \in Nat :
       [x EXCEPT !.state = state, !.lock = lock, !.attemptsMade = n] \in Jobs
  /\ \A x \in Jobs, state \in JobStates, n \in Nat, d \in BOOLEAN :
       [x EXCEPT !.state = state, !.stalled = n, !.deferred = d] \in Jobs
  BY DEF Jobs

LEMMA LaneFields ==
  /\ \A x \in LaneCalls, pc \in LaneSteps : [x EXCEPT !.pc = pc] \in LaneCalls
  /\ \A x \in LaneCalls, pc \in LaneSteps, p \in Profiles :
       [x EXCEPT !.pc = pc, !.snapshot = p] \in LaneCalls
  BY DEF LaneCalls

LEMMA HandlerFields ==
  /\ \A x \in Handlers, pc \in ReqSteps : [x EXCEPT !.pc = pc] \in Handlers
  /\ \A x \in Handlers, pc \in ReqSteps, a \in Apps :
       [x EXCEPT !.pc = pc, !.app = a] \in Handlers
<1> DEFINE Codes == {0, 200, 202, 404, 500}
           Bodies == Statuses \cup {None}
           Results == Verdicts \cup {None}
<1>1. Handlers = [pc : ReqSteps, app : Apps \cup {None}, code : Codes,
                  status : Bodies, decision : Results]
  BY DEF Handlers
<1> HIDE DEF Codes, Bodies, Results
<1>2. \A x \in Handlers, pc \in ReqSteps : [x EXCEPT !.pc = pc] \in Handlers
  BY <1>1
<1>3. \A x \in Handlers, pc \in ReqSteps, a \in Apps :
        [x EXCEPT !.pc = pc, !.app = a] \in Handlers
  BY <1>1
<1> QED BY <1>2, <1>3

(* Moving one lane on, or putting it back to idle, keeps all of lane's     *)
(* invariant that the new step allows.                                     *)
LEMMA GotoTypeInv ==
  ASSUME TypeOK, LaneHolds, NEW s \in Slots, NEW pc \in LaneSteps, Goto(s, pc),
         lane[s].pc # "idle",
         pc \in {"check", "mark", "commit"} =>
           lane[s].pc \in {"check", "mark", "commit"}
  PROVE  lane' \in [Slots -> LaneCalls] /\ LaneHolds'
<1>1. lane' = [lane EXCEPT ![s] = [lane[s] EXCEPT !.pc = pc]]
  BY DEF Goto
<1>2. lane' \in [Slots -> LaneCalls]
  BY <1>1, LaneFields DEF TypeOK
<1>3. /\ lane'[s].pc = pc
      /\ lane'[s].app = lane[s].app
      /\ lane'[s].snapshot = lane[s].snapshot
  BY DEF Goto, TypeOK, LaneCalls
<1>4. \A t \in Slots : t # s => lane'[t] = lane[t]
  BY DEF Goto, TypeOK
<1> QED BY <1>2, <1>3, <1>4 DEF LaneHolds

LEMMA ReleaseTypeInv ==
  ASSUME TypeOK, LaneHolds, NEW s \in Slots, Release(s)
  PROVE  lane' \in [Slots -> LaneCalls] /\ LaneHolds'
  BY DEF TypeOK, LaneHolds, Release, IdleLane, LaneCalls, LaneSteps

LEMMA InitTypeInv == Init => TypeInv
  BY LifecycleAssumption
  DEF Init, TypeInv, TypeOK, LaneHolds, HandlerHolds, NoJob, IdleLane, NewReq,
      Jobs, LaneCalls, Handlers, Statuses, JobStates, LaneSteps, ReqSteps,
      Verdicts, Undecided

LEMMA ClientTypeInv == TypeInv /\ Client => TypeInv'
<1> SUFFICES ASSUME TypeInv, Client PROVE TypeInv'
  OBVIOUS
<1> USE LifecycleAssumption DEF TypeInv, TypeOK, HandlerHolds, postgres
<1>1. ASSUME NEW a \in Apps, CreateApplication(a) PROVE TypeInv'
  BY <1>1 DEF CreateApplication, Statuses, LaneHolds
<1>2. ASSUME NEW b \in Businesses, UpdateBusiness(b) PROVE TypeInv'
  BY <1>2 DEF UpdateBusiness, LaneHolds
<1>3. ASSUME NEW r \in Requests, NEW a \in Apps, ReceiveUnknown(r, a)
      PROVE TypeInv'
  BY <1>3 DEF ReceiveUnknown, Answered, LaneHolds, Handlers, ReqSteps
<1>4. ASSUME NEW r \in Requests, NEW a \in Apps, ReceiveDecided(r, a)
      PROVE TypeInv'
  BY <1>4 DEF ReceiveDecided, LaneHolds, Handlers, ReqSteps, Statuses
<1>5. ASSUME NEW r \in Requests, NEW a \in Apps, ReceiveUndecided(r, a)
      PROVE TypeInv'
  <2>1. req' = [req EXCEPT ![r] = [req[r] EXCEPT !.pc = "requeue", !.app = a]]
    BY <1>5 DEF ReceiveUndecided
  <2>2. "requeue" \in ReqSteps
    BY DEF ReqSteps
  <2>3. req' \in [Requests -> Handlers]
    BY <2>1, <2>2, HandlerFields
  <2>4. HandlerHolds'
    BY <2>1 DEF Handlers
  <2> QED BY <1>5, <2>3, <2>4 DEF ReceiveUndecided, LaneHolds
<1> QED BY <1>1, <1>2, <1>3, <1>4, <1>5 DEF Client

LEMMA HandlerTypeInv ==
  ASSUME NEW r \in Requests, TypeInv, Handler(r) PROVE TypeInv'
<1> USE LifecycleAssumption DEF TypeInv, TypeOK, HandlerHolds, postgres
<1>1. ASSUME NEW pc \in ReqSteps, req' = [req EXCEPT ![r].pc = pc],
             req[r].app \in Apps
      PROVE  req' \in [Requests -> Handlers] /\ HandlerHolds'
  <2>1. req' = [req EXCEPT ![r] = [req[r] EXCEPT !.pc = pc]]
    BY <1>1
  <2>2. [req[r] EXCEPT !.pc = pc] \in Handlers
    BY <1>1, HandlerFields
  <2>3. req' \in [Requests -> Handlers]
    BY <2>1, <2>2
  <2> QED BY <1>1, <2>1, <2>3 DEF Handlers
<1>2. {"enqueue", "respond"} \subseteq ReqSteps
  BY DEF ReqSteps
<1>3. CASE Requeue(r)
  BY <1>1, <1>2, <1>3 DEF Requeue, LaneHolds, Statuses
<1>4. CASE Enqueue(r)
  <2>1. "waiting" \in JobStates /\ req[r].app \in Apps
    BY <1>4 DEF Enqueue, JobStates
  <2>2. job' \in [Apps -> Jobs]
    BY <1>4, <2>1, JobFields DEF Enqueue, AddJob
  <2> QED BY <1>1, <1>2, <1>4, <2>1, <2>2 DEF Enqueue, LaneHolds
<1>5. CASE Respond(r)
  BY <1>5 DEF Respond, Handlers, LaneHolds, ReqSteps, Undecided
<1> QED BY <1>3, <1>4, <1>5 DEF Handler

LEMMA TakeTypeInv ==
  ASSUME NEW s \in Slots, NEW a \in Apps, TypeInv, Take(s, a) PROVE TypeInv'
<1> USE DEF TypeInv, TypeOK, postgres
<1>1. "active" \in JobStates
  BY DEF JobStates
<1>2. job' \in [Apps -> Jobs]
  BY <1>1, JobFields DEF Take
<1>3. lane' \in [Slots -> LaneCalls] /\ LaneHolds'
  BY DEF Take, LaneHolds, LaneCalls, LaneSteps
<1> QED BY <1>2, <1>3 DEF Take, HandlerHolds

LEMMA ProcessorTypeInv ==
  ASSUME NEW s \in Slots, TypeInv, Processor(s) PROVE TypeInv'
<1> USE LifecycleAssumption DEF TypeInv, TypeOK, HandlerHolds, postgres
<1> DEFINE a == lane[s].app
<1>1. lane[s].pc # "idle" => a \in Apps /\ job[a] \in Jobs
  BY DEF LaneHolds
<1>2. /\ {"mark", "commit", "record", "finish", "throw", "check"} \subseteq LaneSteps
      /\ {"completed", "failed", "delayed"} \subseteq JobStates
      /\ {"PROCESSING", "DECIDED"} \subseteq Statuses
  BY DEF LaneSteps, JobStates, Statuses
<1>3. CASE LoadApplication(s)
  <2>1. profile[BusinessOf[a]] \in Profiles
    BY <1>1, <1>3 DEF LoadApplication
  <2>2. lane' = [lane EXCEPT ![s] =
                  [lane[s] EXCEPT !.pc = "check",
                                  !.snapshot = profile[BusinessOf[a]]]]
    BY <1>3 DEF LoadApplication
  <2>3. lane' \in [Slots -> LaneCalls]
    BY <1>2, <2>1, <2>2, LaneFields
  <2>4. LaneHolds'
    BY <1>1, <1>3, <2>1, <2>2 DEF LaneHolds, LaneCalls, LoadApplication
  <2> QED BY <1>3, <2>3, <2>4 DEF LoadApplication
<1>4. CASE CheckExisting(s)
  <2>1. lane' \in [Slots -> LaneCalls] /\ LaneHolds'
    BY <1>2, <1>4, GotoTypeInv DEF CheckExisting
  <2> QED BY <1>4, <2>1 DEF CheckExisting
<1>5. CASE MarkProcessing(s)
  <2>1. lane' \in [Slots -> LaneCalls] /\ LaneHolds'
    BY <1>2, <1>5, GotoTypeInv DEF MarkProcessing
  <2> QED BY <1>2, <1>5, <2>1 DEF MarkProcessing
<1>6. CASE Commit(s)
  <2>1. lane' \in [Slots -> LaneCalls] /\ LaneHolds'
    BY <1>2, <1>6, GotoTypeInv DEF Commit
  <2>2. lane[s].snapshot \in Verdicts
    BY <1>6 DEF Commit, LaneHolds, Verdicts
  <2> QED BY <1>2, <1>6, <2>1, <2>2 DEF Commit, WriteDecision
<1>7. CASE CommitRejected(s)
  <2>1. lane' \in [Slots -> LaneCalls] /\ LaneHolds'
    BY <1>2, <1>7, GotoTypeInv DEF CommitRejected
  <2> QED BY <1>7, <2>1 DEF CommitRejected
<1>8. CASE RecordCompletion(s)
  <2>1. lane' \in [Slots -> LaneCalls] /\ LaneHolds'
    BY <1>2, <1>8, GotoTypeInv DEF RecordCompletion
  <2>2. completions[a] + 1 \in Nat
    BY <1>1, <1>8 DEF RecordCompletion
  <2>3. completions' = [completions EXCEPT ![a] = completions[a] + 1]
    BY <1>8 DEF RecordCompletion
  <2>4. completions' \in [Apps -> Nat]
    BY <2>2, <2>3
  <2> QED BY <1>8, <2>1, <2>4 DEF RecordCompletion
<1>9. CASE CompleteJob(s)
  <2>1. job' \in [Apps -> Jobs]
    BY <1>1, <1>2, <1>9, JobFields DEF CompleteJob
  <2> QED BY <1>9, <2>1, ReleaseTypeInv DEF CompleteJob
<1>10. ASSUME NEW state \in JobStates, lane[s].pc # "idle", FailJob(s, a, state),
              FailedHandler(s, a), Release(s),
              UNCHANGED <<postgres, req, completions, budget>>
       PROVE  TypeInv'
  <2>1. job[a].attemptsMade + 1 \in Nat
    BY <1>1, <1>10 DEF Jobs
  <2>2. job' \in [Apps -> Jobs]
    BY <1>1, <1>10, <2>1, JobFields DEF FailJob
  <2>3. marking' \subseteq Workers \X Apps
    BY <1>1, <1>10 DEF FailedHandler, Slots
  <2> QED BY <1>10, <2>2, <2>3, ReleaseTypeInv
<1>11. CASE FailAttempt(s)
  BY <1>2, <1>10, <1>11 DEF FailAttempt
<1>12. CASE FailStalled(s)
  BY <1>2, <1>10, <1>12 DEF FailStalled
<1>13. CASE SettleRefused(s)
  BY <1>13, ReleaseTypeInv DEF SettleRefused
<1> QED BY <1>3, <1>4, <1>5, <1>6, <1>7, <1>8, <1>9, <1>11, <1>12, <1>13
        DEF Processor

LEMMA QueueTypeInv ==
  ASSUME NEW a \in Apps, TypeInv, Queue(a) PROVE TypeInv'
<1> USE DEF TypeInv, TypeOK, HandlerHolds, postgres
<1>1. "waiting" \in JobStates
  BY DEF JobStates
<1>2. CASE Promote(a)
  BY <1>1, <1>2, JobFields DEF Promote, LaneHolds
<1>3. CASE OrphanLockExpires(a)
  BY <1>3, JobFields DEF OrphanLockExpires, LaneHolds
<1>4. CASE RecoverStalled(a)
  <2>1. job[a].stalled + 1 \in Nat
    BY DEF Jobs
  <2>2. (job[a].stalled + 1 > MaxStalledCount) \in BOOLEAN
    OBVIOUS
  <2>3. job' \in [Apps -> Jobs]
    BY <1>1, <1>4, <2>1, <2>2, JobFields DEF RecoverStalled
  <2> QED BY <1>4, <2>3 DEF RecoverStalled, LaneHolds
<1> QED BY <1>2, <1>3, <1>4 DEF Queue

LEMMA TroubleTypeInv == TypeInv /\ Trouble => TypeInv'
<1> SUFFICES ASSUME TypeInv, Trouble PROVE TypeInv'
  OBVIOUS
<1> USE LifecycleAssumption DEF TypeInv, TypeOK, HandlerHolds, postgres
<1>1. {"throw", "idle"} \subseteq LaneSteps /\ "DECIDED" \in Statuses
  BY DEF LaneSteps, Statuses
<1>2. ASSUME NEW r \in Requests, RequestError(r) PROVE TypeInv'
  BY <1>2 DEF RequestError, Answered, LaneHolds, Handlers, ReqSteps
<1>3. ASSUME NEW r \in Requests, RequestLost(r) PROVE TypeInv'
  <2>1. "lost" \in ReqSteps
    BY DEF ReqSteps
  <2>2. req' = [req EXCEPT ![r] = [req[r] EXCEPT !.pc = "lost"]]
    BY <1>3 DEF RequestLost
  <2>3. req' \in [Requests -> Handlers]
    BY <2>1, <2>2, HandlerFields
  <2> QED BY <1>3, <2>2, <2>3 DEF RequestLost, LaneHolds, Handlers
<1>4. ASSUME NEW s \in Slots, CommitUnacknowledged(s) PROVE TypeInv'
  <2>1. lane' \in [Slots -> LaneCalls] /\ LaneHolds'
    BY <1>1, <1>4, GotoTypeInv DEF CommitUnacknowledged
  <2>2. lane[s].snapshot \in Verdicts
    BY <1>4 DEF CommitUnacknowledged, LaneHolds, Verdicts
  <2> QED BY <1>1, <1>4, <2>1, <2>2 DEF CommitUnacknowledged, WriteDecision
<1>5. ASSUME NEW s \in Slots, ProcessorError(s) PROVE TypeInv'
  <2>1. lane' \in [Slots -> LaneCalls] /\ LaneHolds'
    BY <1>1, <1>5, GotoTypeInv DEF ProcessorError
  <2> QED BY <1>5, <2>1 DEF ProcessorError
<1>6. ASSUME NEW a \in Apps, LockLost(a) PROVE TypeInv'
  <2>1. job' \in [Apps -> Jobs]
    BY <1>6, JobFields DEF LockLost
  <2> QED BY <1>6, <2>1 DEF LockLost, LaneHolds
<1>7. ASSUME NEW a \in Apps, Evict(a) PROVE TypeInv'
  BY <1>7 DEF Evict, LaneHolds, NoJob, Jobs, JobStates
<1>8. ASSUME NEW w \in Workers, NEW a \in Apps, MarkFailedError(w, a)
      PROVE TypeInv'
  BY <1>8 DEF MarkFailedError, LaneHolds
<1>9. ASSUME NEW w \in Workers, Crash(w) PROVE TypeInv'
  <2>1. IdleLane \in LaneCalls
    BY <1>1 DEF IdleLane, LaneCalls
  <2> QED BY <1>9, <2>1 DEF Crash, LaneHolds, IdleLane
<1>10. ASSUME NEW w \in Workers, Shutdown(w) PROVE TypeInv'
  BY <1>10 DEF Shutdown, LaneHolds
<1> QED BY <1>2, <1>3, <1>4, <1>5, <1>6, <1>7, <1>8, <1>9, <1>10 DEF Trouble

LEMMA NextTypeInv == TypeInv /\ [Next]_vars => TypeInv'
<1> SUFFICES ASSUME TypeInv, [Next]_vars PROVE TypeInv'
  OBVIOUS
<1>1. ASSUME NEW w \in Workers, NEW a \in Apps, MarkFailed(w, a) PROVE TypeInv'
  BY <1>1 DEF MarkFailed, TypeInv, TypeOK, LaneHolds, HandlerHolds, Statuses
<1>2. CASE UNCHANGED vars
  BY <1>2 DEF vars, TypeInv, TypeOK, LaneHolds, HandlerHolds
<1> QED BY <1>1, <1>2, ClientTypeInv, HandlerTypeInv, TakeTypeInv,
           ProcessorTypeInv, QueueTypeInv, TroubleTypeInv DEF Next

\* Every variable keeps its type, whatever is crashed, lost or evicted.
THEOREM TypeCorrect == Spec => []TypeOK
<1>1. TypeInv => TypeOK
  BY DEF TypeInv
<1> QED BY <1>1, InitTypeInv, NextTypeInv, PTL DEF Spec

-------------------------------------------------------------------------------
(* A decision is written once.                                             *)

LEMMA DecisionStep ==
  ASSUME TypeInv, [Next]_vars
  PROVE  \/ UNCHANGED decision
         \/ \E s \in Slots : /\ lane[s].pc = "commit"
                             /\ WriteDecision(s)
                             /\ UNCHANGED req
<1>1. CASE Client
  BY <1>1 DEF Client, CreateApplication, UpdateBusiness, ReceiveUnknown,
              ReceiveDecided, ReceiveUndecided, postgres
<1>2. ASSUME NEW r \in Requests, Handler(r) PROVE UNCHANGED decision
  BY <1>2 DEF Handler, Requeue, Enqueue, Respond, postgres
<1>3. ASSUME NEW s \in Slots, NEW a \in Apps, Take(s, a) PROVE UNCHANGED decision
  BY <1>3 DEF Take, postgres
<1>4. ASSUME NEW s \in Slots, Processor(s)
      PROVE  \/ UNCHANGED decision
             \/ lane[s].pc = "commit" /\ WriteDecision(s) /\ UNCHANGED req
  BY <1>4 DEF Processor, LoadApplication, CheckExisting, MarkProcessing, Commit,
              CommitRejected, RecordCompletion, CompleteJob, FailAttempt,
              FailStalled, SettleRefused, postgres
<1>5. ASSUME NEW a \in Apps, Queue(a) PROVE UNCHANGED decision
  BY <1>5 DEF Queue, Promote, OrphanLockExpires, RecoverStalled, postgres
<1>6. ASSUME NEW w \in Workers, NEW a \in Apps, MarkFailed(w, a)
      PROVE  UNCHANGED decision
  BY <1>6 DEF MarkFailed
<1>7. ASSUME Trouble
      PROVE  \/ UNCHANGED decision
             \/ \E s \in Slots : /\ lane[s].pc = "commit"
                                 /\ WriteDecision(s)
                                 /\ UNCHANGED req
  BY <1>7 DEF Trouble, RequestError, RequestLost, CommitUnacknowledged,
              ProcessorError, LockLost, Evict, MarkFailedError, Crash, Shutdown,
              postgres
<1> QED BY <1>1, <1>2, <1>3, <1>4, <1>5, <1>6, <1>7 DEF Next, vars

LEMMA DecisionKeptStep ==
  ASSUME TypeInv, [Next]_vars, NEW a \in Apps, decision[a] # Undecided
  PROVE  decision'[a] = decision[a]
  BY DecisionStep DEF WriteDecision, Committable, TypeInv, TypeOK

\* No step replaces or removes a decision: not a retry, a second lane on the
\* same job, a lane that lost its lock, a crash or a re-post.
THEOREM DecisionsArePermanent == Spec => DecisionKept
<1>1. TypeInv /\ [Next]_vars =>
        [\A a \in Apps : decision[a] # Undecided => decision'[a] = decision[a]]_vars
  BY DecisionKeptStep
<1> QED BY <1>1, InitTypeInv, NextTypeInv, PTL DEF Spec, DecisionKept

-------------------------------------------------------------------------------
(* DECIDED means decided.                                                  *)

\* Who may write DECIDED: the transaction that writes the decision.
LEMMA StatusStep ==
  ASSUME TypeInv, [Next]_vars, NEW b \in Apps, status'[b] = "DECIDED"
  PROVE  status[b] = "DECIDED" \/ decision'[b] # Undecided
<1> USE LifecycleAssumption DEF TypeInv, TypeOK, postgres
<1>1. ASSUME NEW s \in Slots, lane[s].pc = "commit", WriteDecision(s)
      PROVE  status[b] = "DECIDED" \/ decision'[b] # Undecided
  BY <1>1 DEF WriteDecision, LaneHolds, Undecided
<1>2. CASE Client
  BY <1>2 DEF Client, CreateApplication, UpdateBusiness, ReceiveUnknown,
              ReceiveDecided, ReceiveUndecided
<1>3. ASSUME NEW r \in Requests, Handler(r) PROVE status[b] = "DECIDED"
  BY <1>3 DEF Handler, Requeue, Enqueue, Respond
<1>4. ASSUME NEW s \in Slots, NEW a \in Apps, Take(s, a)
      PROVE  status[b] = "DECIDED"
  BY <1>4 DEF Take
<1>5. ASSUME NEW s \in Slots, Processor(s)
      PROVE  status[b] = "DECIDED" \/ decision'[b] # Undecided
  <2>1. CASE Commit(s)
    BY <1>1, <2>1 DEF Commit
  <2>2. CASE MarkProcessing(s)
    BY <2>2 DEF MarkProcessing
  <2>3. CASE ~Commit(s) /\ ~MarkProcessing(s)
    BY <1>5, <2>3 DEF Processor, LoadApplication, CheckExisting, CommitRejected,
         RecordCompletion, CompleteJob, FailAttempt, FailStalled, SettleRefused
  <2> QED BY <2>1, <2>2, <2>3
<1>6. ASSUME NEW a \in Apps, Queue(a) PROVE status[b] = "DECIDED"
  BY <1>6 DEF Queue, Promote, OrphanLockExpires, RecoverStalled
<1>7. ASSUME NEW w \in Workers, NEW a \in Apps, MarkFailed(w, a)
      PROVE  status[b] = "DECIDED"
  BY <1>7 DEF MarkFailed
<1>8. CASE Trouble
  <2>1. ASSUME NEW s \in Slots, CommitUnacknowledged(s)
        PROVE  status[b] = "DECIDED" \/ decision'[b] # Undecided
    BY <1>1, <2>1 DEF CommitUnacknowledged
  <2>2. CASE ~\E s \in Slots : CommitUnacknowledged(s)
    BY <1>8, <2>2 DEF Trouble, RequestError, RequestLost, ProcessorError,
         LockLost, Evict, MarkFailedError, Crash, Shutdown
  <2> QED BY <2>1, <2>2
<1>9. CASE UNCHANGED vars
  BY <1>9 DEF vars
<1> QED BY <1>2, <1>3, <1>4, <1>5, <1>6, <1>7, <1>8, <1>9 DEF Next

\* The status column never says DECIDED of an application without a decision.
THEOREM DecidedIsDecided == Spec => []DecidedHasDecision
<1>1. Init => DecidedHasDecision
  BY DEF Init, DecidedHasDecision
<1>2. TypeInv /\ DecidedHasDecision /\ [Next]_vars => DecidedHasDecision'
  BY StatusStep, DecisionKeptStep DEF DecidedHasDecision
<1> QED BY <1>1, <1>2, InitTypeInv, NextTypeInv, PTL DEF Spec

-------------------------------------------------------------------------------
(* What clients were told stays true.                                      *)

\* A handler has nothing to say before it answers, and a decision it did
\* answer with is the stored one.
AnswerInv ==
  \A r \in Requests :
    /\ req[r].pc # "answered" => req[r].decision = None /\ req[r].code = 0
    /\ req[r].decision # None => /\ req[r].app \in Apps
                                 /\ req[r].decision = decision[req[r].app]

\* Handlers are the only ones to touch their own records, and they touch no
\* decision.
LEMMA RequestStep ==
  ASSUME TypeInv, [Next]_vars
  PROVE  \/ UNCHANGED req
         \/ /\ UNCHANGED decision
            /\ \E r \in Requests :
                 \/ \E a \in Apps : \/ ReceiveUnknown(r, a)
                                    \/ ReceiveDecided(r, a)
                                    \/ ReceiveUndecided(r, a)
                 \/ Handler(r) \/ RequestError(r) \/ RequestLost(r)
<1>1. CASE Client
  BY <1>1 DEF Client, CreateApplication, UpdateBusiness, ReceiveUnknown,
              ReceiveDecided, ReceiveUndecided, postgres
<1>2. ASSUME NEW r \in Requests, Handler(r) PROVE UNCHANGED decision
  BY <1>2 DEF Handler, Requeue, Enqueue, Respond, postgres
<1>3. ASSUME NEW s \in Slots, NEW a \in Apps, Take(s, a) PROVE UNCHANGED req
  BY <1>3 DEF Take
<1>4. ASSUME NEW s \in Slots, Processor(s) PROVE UNCHANGED req
  BY <1>4 DEF Processor, LoadApplication, CheckExisting, MarkProcessing, Commit,
              CommitRejected, RecordCompletion, CompleteJob, FailAttempt,
              FailStalled, SettleRefused
<1>5. ASSUME NEW a \in Apps, Queue(a) PROVE UNCHANGED req
  BY <1>5 DEF Queue, Promote, OrphanLockExpires, RecoverStalled
<1>6. ASSUME NEW w \in Workers, NEW a \in Apps, MarkFailed(w, a)
      PROVE  UNCHANGED req
  BY <1>6 DEF MarkFailed
<1>7. ASSUME NEW r \in Requests, RequestError(r) \/ RequestLost(r)
      PROVE  UNCHANGED decision
  BY <1>7 DEF RequestError, RequestLost, postgres
<1>8. ASSUME Trouble, ~\E r \in Requests : RequestError(r) \/ RequestLost(r)
      PROVE  UNCHANGED req
  BY <1>8 DEF Trouble, CommitUnacknowledged, ProcessorError, LockLost, Evict,
              MarkFailedError, Crash, Shutdown
<1> QED BY <1>1, <1>2, <1>3, <1>4, <1>5, <1>6, <1>7, <1>8 DEF Next, vars

LEMMA AnswerStep == TypeInv /\ AnswerInv /\ [Next]_vars => AnswerInv'
<1> SUFFICES ASSUME TypeInv, AnswerInv, [Next]_vars, NEW q \in Requests
             PROVE  /\ req'[q].pc # "answered" => /\ req'[q].decision = None
                                                  /\ req'[q].code = 0
                    /\ req'[q].decision # None =>
                         /\ req'[q].app \in Apps
                         /\ req'[q].decision = decision'[req'[q].app]
  BY DEF AnswerInv
<1>1. CASE UNCHANGED req
  BY <1>1, DecisionKeptStep DEF AnswerInv, Undecided
<1> USE LifecycleAssumption DEF TypeInv, TypeOK, HandlerHolds
<1>2. ASSUME UNCHANGED decision, NEW r \in Requests, NEW a \in Apps,
             \/ ReceiveUnknown(r, a)
             \/ ReceiveDecided(r, a)
             \/ ReceiveUndecided(r, a)
      PROVE  /\ req'[q].pc # "answered" => /\ req'[q].decision = None
                                           /\ req'[q].code = 0
             /\ req'[q].decision # None =>
                  /\ req'[q].app \in Apps
                  /\ req'[q].decision = decision'[req'[q].app]
  BY <1>2 DEF ReceiveUnknown, ReceiveDecided, ReceiveUndecided, Answered,
              AnswerInv, Handlers
<1>3. ASSUME UNCHANGED decision, NEW r \in Requests,
             Handler(r) \/ RequestError(r) \/ RequestLost(r)
      PROVE  /\ req'[q].pc # "answered" => /\ req'[q].decision = None
                                           /\ req'[q].code = 0
             /\ req'[q].decision # None =>
                  /\ req'[q].app \in Apps
                  /\ req'[q].decision = decision'[req'[q].app]
  BY <1>3 DEF Handler, Requeue, Enqueue, Respond, RequestError, RequestLost,
              Answered, AnswerInv, Handlers
<1> QED BY <1>1, <1>2, <1>3, RequestStep

\* A decision a client has read is the application's decision ever after.
THEOREM AnswersStayTrue == Spec => []AnswersAgree
<1>1. Init => AnswerInv
  BY DEF Init, AnswerInv, NewReq
<1>2. AnswerInv => AnswersAgree
  BY DEF AnswerInv, AnswersAgree
<1> QED BY <1>1, <1>2, AnswerStep, InitTypeInv, NextTypeInv, PTL DEF Spec

-------------------------------------------------------------------------------
(* The machine implements the contract.                                    *)

LEMMA InitRefines == Init => Contract!Init
  BY DEF Init, Contract!Init, Body, NewReq, Undecided

LEMMA StepRefines ==
  ASSUME TypeInv, AnswerInv, [Next]_vars PROVE [Contract!Next]_(Contract!vars)
<1> DEFINE bodies == [r \in Requests |-> Body(r)]
<1> USE LifecycleAssumption DEF TypeInv, TypeOK
<1>1. ASSUME NEW s \in Slots, lane[s].pc = "commit", WriteDecision(s), UNCHANGED req
      PROVE  Contract!Next
  <2>1. lane[s].app \in Apps /\ lane[s].snapshot \in Verdicts
    BY <1>1 DEF LaneHolds, Verdicts
  <2>2. UNCHANGED bodies
    BY <1>1 DEF Body
  <2>3. Contract!Decide(lane[s].app)
    BY <1>1, <2>1, <2>2 DEF WriteDecision, Committable, Contract!Decide, Undecided
  <2> QED BY <2>1, <2>3 DEF Contract!Next
<1>2. CASE UNCHANGED <<decision, req>>
  BY <1>2 DEF Contract!vars, Body
<1>3. ASSUME UNCHANGED decision, NEW r \in Requests, NEW a \in Apps,
             req[r].code = 0,
             req'[r].app = a, req'[r].decision = decision[a],
             req'[r].code \in {200, 202},
             \A q \in Requests : q # r => req'[q] = req[q]
      PROVE  Contract!Next
  <2>1. bodies[r] = None
    BY <1>3 DEF Body
  <2>2. Body(r)' = [app |-> a, decision |-> decision[a]]
    BY <1>3 DEF Body
  <2>3. \A q \in Requests : q # r => Body(q)' = Body(q)
    BY <1>3 DEF Body
  <2>4. bodies' = [bodies EXCEPT ![r] = [app |-> a, decision |-> decision[a]]]
    BY <2>2, <2>3
  <2>5. Contract!Answer(r, a)
    BY <1>3, <2>1, <2>4 DEF Contract!Answer
  <2> QED BY <2>5 DEF Contract!Next
<1>4. ASSUME UNCHANGED decision, NEW r \in Requests, req[r].code = 0,
             req'[r].code \notin {200, 202},
             \A q \in Requests : q # r => req'[q] = req[q]
      PROVE  UNCHANGED Contract!vars
  BY <1>4 DEF Contract!vars, Body
<1>5. \A r \in Requests : req[r].pc # "answered" => req[r].code = 0
  BY DEF AnswerInv
<1>6. ASSUME NEW r \in Requests, NEW a \in Apps, UNCHANGED decision,
             \/ ReceiveUnknown(r, a)
             \/ ReceiveDecided(r, a)
             \/ ReceiveUndecided(r, a)
      PROVE  [Contract!Next]_(Contract!vars)
  <2>1. CASE ReceiveUnknown(r, a)
    BY <1>4, <1>5, <1>6, <2>1 DEF ReceiveUnknown, Answered
  <2>2. CASE ReceiveDecided(r, a)
    BY <1>3, <1>5, <1>6, <2>2 DEF ReceiveDecided
  <2>3. CASE ReceiveUndecided(r, a)
    BY <1>4, <1>5, <1>6, <2>3 DEF ReceiveUndecided, Handlers
  <2> QED BY <1>6, <2>1, <2>2, <2>3
<1>7. ASSUME NEW r \in Requests, UNCHANGED decision,
             Handler(r) \/ RequestError(r) \/ RequestLost(r)
      PROVE  [Contract!Next]_(Contract!vars)
  <2>1. CASE Respond(r)
    BY <1>3, <1>5, <1>7, <2>1 DEF Respond, HandlerHolds
  <2>2. CASE Requeue(r) \/ Enqueue(r) \/ RequestError(r) \/ RequestLost(r)
    BY <1>4, <1>5, <1>7, <2>2
       DEF Requeue, Enqueue, RequestError, RequestLost, Answered, Handlers
  <2> QED BY <1>7, <2>1, <2>2 DEF Handler
<1>8. CASE UNCHANGED req
  BY <1>1, <1>2, <1>8, DecisionStep
<1> QED BY <1>6, <1>7, <1>8, RequestStep

\* Every behaviour of API, Redis, Postgres and workers, with any trouble, is
\* one in which each application is decided once and every answer agrees.
THEOREM ImplementsContract == Spec => MeetsContract
<1>1. Init => AnswerInv
  BY DEF Init, AnswerInv, NewReq
<1> QED BY <1>1, InitRefines, StepRefines, AnswerStep, InitTypeInv, NextTypeInv,
           PTL DEF Spec, MeetsContract, Contract!Spec

-------------------------------------------------------------------------------
(* Redis and the audit trail agree with Postgres.                          *)

\* A lane past its transaction left a decision behind it.
FinishInv ==
  \A s \in Slots : lane[s].pc \in {"record", "finish"} =>
                     decision[lane[s].app] # Undecided

\* Only the lane whose insert succeeded records a completion, and it has not
\* done so yet.
RecordInv ==
  /\ \A s \in Slots : lane[s].pc = "record" => completions[lane[s].app] = 0
  /\ \A s, t \in Slots : /\ lane[s].pc = "record" /\ lane[t].pc = "record"
                         /\ lane[s].app = lane[t].app
                         => s = t
  /\ \A a \in Apps : decision[a] = Undecided => completions[a] = 0
  /\ \A a \in Apps : completions[a] <= 1

LaneInv == FinishInv /\ RecordInv /\ CompletedJobHasDecision

\* What holds of lanes that did not move keeps holding.
LEMMA LanesStill ==
  ASSUME TypeInv, LaneInv, [Next]_vars, UNCHANGED <<lane, completions>>
  PROVE  FinishInv' /\ RecordInv'
<1>1. \A s \in Slots : lane[s].pc # "idle" => lane[s].app \in Apps
  BY DEF TypeInv, LaneHolds
<1>2. \A a \in Apps : decision[a] # Undecided => decision'[a] # Undecided
  BY DecisionKeptStep
<1> QED BY <1>1, <1>2 DEF LaneInv, FinishInv, RecordInv

\* A lane that moves to a step other than record and finish disturbs nothing.
LEMMA LaneElsewhere ==
  ASSUME TypeInv, LaneInv, [Next]_vars, UNCHANGED completions,
         \A t \in Slots : \/ lane'[t] = lane[t]
                          \/ lane'[t].pc \notin {"record", "finish"}
                          \/ /\ lane'[t].pc = "finish"
                             /\ lane'[t].app \in Apps
                             /\ decision[lane'[t].app] # Undecided
  PROVE  FinishInv' /\ RecordInv'
<1>1. \A s \in Slots : lane[s].pc # "idle" => lane[s].app \in Apps
  BY DEF TypeInv, LaneHolds
<1>2. \A a \in Apps : decision[a] # Undecided => decision'[a] # Undecided
  BY DecisionKeptStep
<1> QED BY <1>1, <1>2 DEF LaneInv, FinishInv, RecordInv

LEMMA JobsStill ==
  ASSUME TypeInv, LaneInv, [Next]_vars,
         \A a \in Apps : job'[a].state = "completed" =>
                           \/ job[a].state = "completed"
                           \/ decision[a] # Undecided
  PROVE  CompletedJobHasDecision'
  BY DecisionKeptStep DEF LaneInv, CompletedJobHasDecision

LEMMA LaneInvStep == TypeInv /\ LaneInv /\ [Next]_vars => LaneInv'
<1> SUFFICES ASSUME TypeInv, LaneInv, [Next]_vars PROVE LaneInv'
  OBVIOUS
<1> USE DEF TypeInv, TypeOK, postgres
<1>1. CASE Client
  BY <1>1, LanesStill, JobsStill
     DEF Client, CreateApplication, UpdateBusiness, ReceiveUnknown,
         ReceiveDecided, ReceiveUndecided, LaneInv
<1>2. ASSUME NEW r \in Requests, Handler(r) PROVE LaneInv'
  <2>1. UNCHANGED <<lane, completions>>
    BY <1>2 DEF Handler, Requeue, Enqueue, Respond
  <2>2. \A a \in Apps : job'[a].state = "completed" => job[a].state = "completed"
    <3>1. CASE Requeue(r) \/ Respond(r)
      BY <3>1 DEF Requeue, Respond
    <3>2. CASE Enqueue(r)
      BY <3>2 DEF Enqueue, AddJob, Jobs
    <3> QED BY <1>2, <3>1, <3>2 DEF Handler
  <2> QED BY <2>1, <2>2, LanesStill, JobsStill DEF LaneInv
<1>3. ASSUME NEW s \in Slots, NEW a \in Apps, Take(s, a) PROVE LaneInv'
  BY <1>3, LaneElsewhere, JobsStill DEF Take, LaneInv, LaneCalls, Jobs
<1>4. ASSUME NEW s \in Slots, UNCHANGED <<job, completions>>,
             \/ LoadApplication(s) \/ CheckExisting(s) \/ MarkProcessing(s)
             \/ CommitRejected(s) \/ ProcessorError(s) \/ SettleRefused(s)
             \/ CommitUnacknowledged(s)
      PROVE  LaneInv'
  BY <1>4, LaneElsewhere, JobsStill
     DEF LoadApplication, CheckExisting, MarkProcessing, CommitRejected, Goto,
         ProcessorError, SettleRefused, CommitUnacknowledged, Release, IdleLane,
         LaneInv, LaneCalls, LaneHolds
<1>5. ASSUME NEW s \in Slots, Commit(s) PROVE LaneInv'
  <2>1. /\ lane[s].app \in Apps
        /\ decision[lane[s].app] = Undecided
        /\ decision'[lane[s].app] # Undecided
    BY <1>5, LifecycleAssumption
       DEF Commit, WriteDecision, Committable, LaneHolds, Undecided
  <2>2. /\ lane'[s].pc = "record" /\ lane'[s].app = lane[s].app
        /\ \A t \in Slots : t # s => lane'[t] = lane[t]
    BY <1>5 DEF Commit, Goto, LaneCalls
  <2>3. \A a \in Apps : decision[a] # Undecided => decision'[a] # Undecided
    BY DecisionKeptStep
  <2>4. UNCHANGED <<job, completions>>
    BY <1>5 DEF Commit
  <2>5. FinishInv'
    BY <2>1, <2>2, <2>3 DEF LaneInv, FinishInv, LaneHolds
  <2>6. RecordInv'
    BY <2>1, <2>2, <2>3, <2>4 DEF LaneInv, FinishInv, RecordInv, LaneHolds
  <2> QED BY <2>4, <2>5, <2>6, JobsStill DEF LaneInv
<1>6. ASSUME NEW s \in Slots, RecordCompletion(s) PROVE LaneInv'
  <2>1. lane[s].app \in Apps /\ completions[lane[s].app] = 0
    BY <1>6 DEF RecordCompletion, LaneHolds, LaneInv, RecordInv
  <2>2. /\ lane'[s].pc = "finish" /\ lane'[s].app = lane[s].app
        /\ \A t \in Slots : t # s => lane'[t] = lane[t]
    BY <1>6 DEF RecordCompletion, Goto, LaneCalls
  <2>3. /\ completions'[lane[s].app] = 1
        /\ \A a \in Apps : a # lane[s].app => completions'[a] = completions[a]
    BY <1>6, <2>1 DEF RecordCompletion
  <2>4. UNCHANGED <<job, decision>>
    BY <1>6 DEF RecordCompletion
  <2>5. FinishInv'
    BY <1>6, <2>2, <2>4 DEF LaneInv, FinishInv, RecordCompletion
  <2>6. RecordInv'
    BY <1>6, <2>1, <2>2, <2>3, <2>4
       DEF LaneInv, FinishInv, RecordInv, RecordCompletion
  <2> QED BY <2>4, <2>5, <2>6, JobsStill DEF LaneInv
<1>7. ASSUME NEW s \in Slots, CompleteJob(s) \/ FailAttempt(s) \/ FailStalled(s)
      PROVE  LaneInv'
  <2>1. /\ UNCHANGED completions
        /\ lane' = [lane EXCEPT ![s] = IdleLane]
    BY <1>7 DEF CompleteJob, FailAttempt, FailStalled, Release
  <2>2. FinishInv' /\ RecordInv'
    BY <2>1, LaneElsewhere DEF IdleLane
  <2>3. \A a \in Apps : job'[a].state = "completed" =>
                          job[a].state = "completed" \/ decision[a] # Undecided
    BY <1>7 DEF CompleteJob, FailAttempt, FailStalled, FailJob, LaneInv,
                FinishInv, Jobs
  <2> QED BY <2>2, <2>3, JobsStill DEF LaneInv
<1>8. ASSUME NEW s \in Slots, Processor(s) PROVE LaneInv'
  BY <1>4, <1>5, <1>6, <1>7, <1>8
     DEF Processor, LoadApplication, CheckExisting, MarkProcessing,
         CommitRejected, SettleRefused
<1>9. ASSUME NEW a \in Apps, Queue(a) \/ LockLost(a) \/ Evict(a) PROVE LaneInv'
  <2>1. UNCHANGED <<lane, completions>>
    BY <1>9 DEF Queue, Promote, OrphanLockExpires, RecoverStalled, LockLost, Evict
  <2>2. \A b \in Apps : job'[b].state = "completed" => job[b].state = "completed"
    <3>1. CASE Promote(a)
      BY <3>1 DEF Promote, Jobs
    <3>2. CASE OrphanLockExpires(a) \/ LockLost(a)
      <4>1. job' = [job EXCEPT ![a] = [job[a] EXCEPT !.lock = None]]
        BY <3>2 DEF OrphanLockExpires, LockLost
      <4> QED BY <4>1 DEF Jobs
    <3>3. CASE RecoverStalled(a)
      BY <3>3 DEF RecoverStalled, Jobs
    <3>4. CASE Evict(a)
      BY <3>4 DEF Evict, NoJob
    <3> QED BY <1>9, <3>1, <3>2, <3>3, <3>4 DEF Queue
  <2> QED BY <2>1, <2>2, LanesStill, JobsStill DEF LaneInv
<1>10. ASSUME NEW w \in Workers, NEW a \in Apps,
              MarkFailed(w, a) \/ MarkFailedError(w, a)
       PROVE  LaneInv'
  BY <1>10, LanesStill, JobsStill DEF MarkFailed, MarkFailedError, LaneInv
<1>11. ASSUME NEW w \in Workers, Crash(w) \/ Shutdown(w) PROVE LaneInv'
  BY <1>11, LaneElsewhere, JobsStill DEF Crash, Shutdown, IdleLane, LaneInv
<1>12. ASSUME NEW r \in Requests, RequestError(r) \/ RequestLost(r) PROVE LaneInv'
  BY <1>12, LanesStill, JobsStill DEF RequestError, RequestLost, LaneInv
<1>13. CASE Trouble
  BY <1>4, <1>9, <1>10, <1>11, <1>12, <1>13
     DEF Trouble, ProcessorError, CommitUnacknowledged
<1>14. CASE UNCHANGED vars
  BY <1>14, LanesStill, JobsStill DEF vars, LaneInv
<1> QED BY <1>1, <1>2, <1>3, <1>8, <1>9, <1>10, <1>13, <1>14 DEF Next

LEMMA InitLaneInv == Init => LaneInv
  BY DEF Init, LaneInv, FinishInv, RecordInv, CompletedJobHasDecision, IdleLane,
         NoJob

\* A completed job has its decision in Postgres.
THEOREM CompletedMeansDecided == Spec => []CompletedJobHasDecision
<1>1. LaneInv => CompletedJobHasDecision
  BY DEF LaneInv
<1> QED BY <1>1, InitLaneInv, LaneInvStep, InitTypeInv, NextTypeInv, PTL DEF Spec

\* The audit trail never holds two completions, nor one without a decision.
THEOREM CompletedOnce == Spec => []OneCompletion
<1>1. TypeInv /\ LaneInv => OneCompletion
  BY DEF LaneInv, RecordInv, OneCompletion, TypeInv, TypeOK
<1> QED BY <1>1, InitLaneInv, LaneInvStep, InitTypeInv, NextTypeInv, PTL DEF Spec

-------------------------------------------------------------------------------
(* One lane at a time, while locks are kept.                               *)

\* The lock names the lane that runs the job.  A lane that lost it breaks the
\* second conjunct, and nothing else does.
LockInv ==
  /\ \A a \in Apps : job[a].state # "active" => job[a].lock = None
  /\ budget.lockLosses = 0 =>
       \A s \in Slots : lane[s].app # None => /\ lane[s].app \in Apps
                                              /\ job[lane[s].app].lock = s

\* The job's lock and the lanes stay together when both stay as they are.
LEMMA LocksStill ==
  ASSUME LockInv, TypeInv, UNCHANGED budget,
         \A a \in Apps : /\ job'[a].lock = job[a].lock
                         /\ job'[a].state # job[a].state =>
                              job'[a].state = "active" \/ job[a].lock = None,
         \A s \in Slots : lane'[s].app \in {lane[s].app, None}
  PROVE  LockInv'
  BY DEF LockInv

LEMMA LockInvStep == TypeInv /\ LockInv /\ [Next]_vars => LockInv'
<1> SUFFICES ASSUME TypeInv, LockInv, [Next]_vars PROVE LockInv'
  OBVIOUS
<1> USE LifecycleAssumption DEF TypeInv, TypeOK
<1>1. CASE Client
  BY <1>1, LocksStill
     DEF Client, CreateApplication, UpdateBusiness, ReceiveUnknown,
         ReceiveDecided, ReceiveUndecided
<1>2. ASSUME NEW r \in Requests, Handler(r) PROVE LockInv'
  <2>1. \A a \in Apps : /\ job'[a].lock = job[a].lock
                        /\ job'[a].state # job[a].state => job[a].lock = None
    BY <1>2 DEF Handler, Requeue, Enqueue, Respond, AddJob, Jobs, LockInv
  <2> QED BY <1>2, <2>1, LocksStill DEF Handler, Requeue, Enqueue, Respond
<1>3. ASSUME NEW s \in Slots, NEW a \in Apps, Take(s, a) PROVE LockInv'
  <2>1. job[a].lock = None /\ s # None
    BY <1>3 DEF Take, LockInv
  <2>2. /\ job'[a].lock = s /\ job'[a].state = "active"
        /\ \A b \in Apps : b # a => job'[b] = job[b]
    BY <1>3 DEF Take, Jobs
  <2>3. /\ lane'[s].app = a
        /\ \A t \in Slots : t # s => lane'[t] = lane[t]
    BY <1>3 DEF Take
  <2> QED BY <1>3, <2>1, <2>2, <2>3 DEF Take, LockInv
<1>4. ASSUME NEW s \in Slots, UNCHANGED <<job, budget>>,
             \A t \in Slots : lane'[t].app \in {lane[t].app, None}
      PROVE  LockInv'
  BY <1>4, LocksStill
<1>5. ASSUME NEW s \in Slots, NEW pc \in LaneSteps, Goto(s, pc)
      PROVE  \A t \in Slots : lane'[t].app = lane[t].app
  BY <1>5 DEF Goto, LaneCalls
<1>6. \A s \in Slots : /\ LoadApplication(s) \/ CheckExisting(s)
                            \/ MarkProcessing(s) \/ Commit(s) \/ CommitRejected(s)
                            \/ RecordCompletion(s) \/ SettleRefused(s)
                            \/ CommitUnacknowledged(s) \/ ProcessorError(s)
                       => LockInv'
  <2> SUFFICES ASSUME NEW s \in Slots,
                      LoadApplication(s) \/ CheckExisting(s)
                      \/ MarkProcessing(s) \/ Commit(s) \/ CommitRejected(s)
                      \/ RecordCompletion(s) \/ SettleRefused(s)
                      \/ CommitUnacknowledged(s) \/ ProcessorError(s)
               PROVE  LockInv'
    OBVIOUS
  <2>1. UNCHANGED <<job, budget>>
    BY DEF LoadApplication, CheckExisting, MarkProcessing, Commit, CommitRejected,
           RecordCompletion, SettleRefused, CommitUnacknowledged, ProcessorError
  <2>2. \A t \in Slots : lane'[t].app \in {lane[t].app, None}
    BY DEF LoadApplication, CheckExisting, MarkProcessing, Commit, CommitRejected,
           RecordCompletion, SettleRefused, CommitUnacknowledged, ProcessorError,
           Goto, Release, IdleLane, LaneCalls
  <2> QED BY <1>4, <2>1, <2>2
<1>7. ASSUME NEW s \in Slots, CompleteJob(s) \/ FailAttempt(s) \/ FailStalled(s)
      PROVE  LockInv'
  <2> DEFINE a == lane[s].app
  <2>1. a \in Apps /\ job[a].lock = s /\ s # None
    BY <1>7 DEF CompleteJob, FailAttempt, FailStalled, LaneHolds
  <2>2. /\ job'[a].lock = None
        /\ \A b \in Apps : b # a => job'[b] = job[b]
    <3>1. CASE CompleteJob(s)
      BY <2>1, <3>1 DEF CompleteJob, Jobs
    <3>2. CASE FailAttempt(s)
      BY <2>1, <3>2 DEF FailAttempt, FailJob, Jobs
    <3>3. CASE FailStalled(s)
      BY <2>1, <3>3 DEF FailStalled, FailJob, Jobs
    <3> QED BY <1>7, <3>1, <3>2, <3>3
  <2>3. lane' = [lane EXCEPT ![s] = IdleLane]
    BY <1>7 DEF CompleteJob, FailAttempt, FailStalled, Release
  <2>4. /\ lane'[s].app = None
        /\ \A t \in Slots : t # s => lane'[t] = lane[t]
    BY <2>3 DEF IdleLane
  <2>5. UNCHANGED budget
    BY <1>7 DEF CompleteJob, FailAttempt, FailStalled
  <2> HIDE DEF a, TypeInv, TypeOK
  <2>6. \A t \in Slots : lane[t].app = a /\ budget.lockLosses = 0 => t = s
    BY <2>1 DEF LockInv
  <2> QED BY <2>1, <2>2, <2>4, <2>5, <2>6 DEF LockInv
<1>8. ASSUME NEW s \in Slots, Processor(s) PROVE LockInv'
  BY <1>6, <1>7, <1>8 DEF Processor
<1>9. ASSUME NEW a \in Apps, Queue(a) PROVE LockInv'
  <2>1. CASE Promote(a) \/ RecoverStalled(a)
    <3>1. \A b \in Apps : /\ job'[b].lock = job[b].lock
                          /\ job'[b].state # job[b].state => job[b].lock = None
      BY <2>1 DEF Promote, RecoverStalled, Jobs, LockInv
    <3> QED BY <2>1, <3>1, LocksStill DEF Promote, RecoverStalled
  <2>2. CASE OrphanLockExpires(a)
    <3>1. /\ job'[a].lock = None
          /\ \A b \in Apps : b # a => job'[b] = job[b]
      BY <2>2 DEF OrphanLockExpires, Jobs
    <3>2. job[a].lock \in Slots /\ lane[job[a].lock].app # a
      BY <2>2 DEF OrphanLockExpires, Orphaned, Jobs
    <3> QED BY <2>2, <3>1, <3>2 DEF OrphanLockExpires, LockInv
  <2> QED BY <1>9, <2>1, <2>2 DEF Queue
<1>10. ASSUME NEW a \in Apps, LockLost(a) PROVE LockInv'
  <2>1. /\ job'[a].lock = None
        /\ \A b \in Apps : b # a => job'[b] = job[b]
    BY <1>10 DEF LockLost, Jobs
  <2>2. budget'.lockLosses # 0
    BY <1>10 DEF LockLost
  <2> QED BY <2>1, <2>2 DEF LockInv
<1>11. ASSUME NEW a \in Apps, Evict(a) PROVE LockInv'
  <2>1. /\ job[a].lock = None /\ job'[a] = NoJob
        /\ \A b \in Apps : b # a => job'[b] = job[b]
    BY <1>11 DEF Evict, LockInv
  <2>2. budget'.lockLosses = budget.lockLosses /\ UNCHANGED lane
    BY <1>11 DEF Evict
  <2> QED BY <2>1, <2>2 DEF LockInv, NoJob
<1>12. ASSUME NEW w \in Workers, NEW a \in Apps,
              MarkFailed(w, a) \/ MarkFailedError(w, a)
       PROVE  LockInv'
  BY <1>12, LocksStill DEF MarkFailed, MarkFailedError
<1>13. ASSUME NEW w \in Workers, Crash(w) PROVE LockInv'
  <2>1. /\ budget'.lockLosses = budget.lockLosses
        /\ UNCHANGED job
        /\ \A s \in Slots : lane'[s].app \in {lane[s].app, None}
    BY <1>13 DEF Crash, IdleLane
  <2> QED BY <2>1 DEF LockInv
<1>14. ASSUME NEW w \in Workers, Shutdown(w) PROVE LockInv'
  BY <1>14, LocksStill DEF Shutdown
<1>15. ASSUME NEW r \in Requests, RequestError(r) \/ RequestLost(r) PROVE LockInv'
  BY <1>15, LocksStill DEF RequestError, RequestLost
<1>16. CASE Trouble
  BY <1>6, <1>10, <1>11, <1>12, <1>13, <1>14, <1>15, <1>16 DEF Trouble
<1>17. CASE UNCHANGED vars
  BY <1>17, LocksStill DEF vars
<1> QED BY <1>1, <1>2, <1>3, <1>8, <1>9, <1>12, <1>16, <1>17 DEF Next

\* A double-submit, a retry or a crash never has two lanes evaluate one
\* application; only a lane that outlives its lock can.
THEOREM OneLanePerJob == Spec => []NoDoubleEvaluation
<1>1. Init => LockInv
  BY DEF Init, LockInv, NoJob, IdleLane
<1>2. LockInv => NoDoubleEvaluation
  BY DEF LockInv, NoDoubleEvaluation
<1> QED BY <1>1, <1>2, LockInvStep, InitTypeInv, NextTypeInv, PTL DEF Spec

-------------------------------------------------------------------------------
(* Given up on only when there is nothing left to try.                     *)

\* A markDecisionFailed under way, or done, has a job behind it that is out of
\* attempts and, being kept by Redis, stays so.
FailedInv ==
  budget.evictions = 0 =>
    \A a \in Apps :
      status[a] = "FAILED" \/ (\E w \in Workers : <<w, a>> \in marking) =>
        job[a].state = "failed" /\ job[a].attemptsMade >= MaxAttempts

\* Steps that report no failure of their own, and take no failed job away.
LEMMA FailedStill ==
  ASSUME FailedInv, budget'.evictions = budget.evictions, marking' \subseteq marking,
         \A a \in Apps :
           /\ status'[a] = "FAILED" => \/ status[a] = "FAILED"
                                     \/ \E w \in Workers : <<w, a>> \in marking
           /\ job[a].state = "failed" => /\ job'[a].state = "failed"
                                         /\ job'[a].attemptsMade = job[a].attemptsMade
  PROVE  FailedInv'
  BY DEF FailedInv

\* A failed job has no lock, so no lane moves it.
LEMMA FailJobInv ==
  ASSUME TypeInv, LockInv, FailedInv, NEW s \in Slots, NEW state \in JobStates,
         lane[s].app \in Apps, job[lane[s].app].lock = s,
         AttemptsExhausted(lane[s].app) => state = "failed",
         FailJob(s, lane[s].app, state), FailedHandler(s, lane[s].app),
         UNCHANGED <<postgres, budget>>
  PROVE  FailedInv'
<1> DEFINE a == lane[s].app
           n == job[a].attemptsMade + 1
<1>1. a \in Apps /\ job[a] \in Jobs /\ job[a].attemptsMade \in Nat
  BY DEF TypeInv, TypeOK, Jobs
<1>2. job[a].state # "failed"
  BY <1>1, LifecycleAssumption DEF LockInv
<1>3. /\ job'[a].state = state /\ job'[a].attemptsMade = n
      /\ \A b \in Apps : b # a => job'[b] = job[b]
  BY <1>1 DEF FailJob, TypeInv, TypeOK, Jobs
<1>4. \/ n >= MaxAttempts /\ marking' = marking \cup {<<s[1], a>>}
      \/ marking' = marking
  BY DEF FailedHandler, AttemptsExhausted
<1>5. n >= MaxAttempts => state = "failed"
  BY DEF AttemptsExhausted
<1>6. UNCHANGED <<status, budget>>
  BY DEF postgres
<1> HIDE DEF a, n
<1>7. ASSUME NEW b \in Apps, budget.evictions = 0,
             status'[b] = "FAILED" \/ (\E w \in Workers : <<w, b>> \in marking')
      PROVE  job'[b].state = "failed" /\ job'[b].attemptsMade >= MaxAttempts
  <2>1. CASE status[b] = "FAILED" \/ (\E w \in Workers : <<w, b>> \in marking)
    BY <1>2, <1>3, <1>7, <2>1 DEF FailedInv
  <2>2. CASE ~(status[b] = "FAILED" \/ (\E w \in Workers : <<w, b>> \in marking))
    BY <1>3, <1>4, <1>5, <1>6, <1>7, <2>2
  <2> QED BY <2>1, <2>2
<1> QED BY <1>6, <1>7 DEF FailedInv

LEMMA FailedInvStep == TypeInv /\ LockInv /\ FailedInv /\ [Next]_vars => FailedInv'
<1> SUFFICES ASSUME TypeInv, LockInv, FailedInv, [Next]_vars PROVE FailedInv'
  OBVIOUS
<1> USE DEF TypeOK, postgres
<1>0. /\ TypeOK /\ job \in [Apps -> Jobs]
      /\ \A a \in Apps : job[a].state = "failed" => job[a].lock = None
      /\ \A s \in Slots : lane[s].pc # "idle" => lane[s].app \in Apps
  BY DEF TypeInv, LaneHolds, LockInv
<1>1. CASE Client
  BY <1>0, <1>1, FailedStill
     DEF Client, CreateApplication, UpdateBusiness, ReceiveUnknown,
         ReceiveDecided, ReceiveUndecided
<1>2. ASSUME NEW r \in Requests, Handler(r) PROVE FailedInv'
  <2>1. CASE Requeue(r)
    BY <1>0, <2>1, FailedStill DEF Requeue
  <2>2. CASE Enqueue(r)
    <3>1. \A a \in Apps : job[a].state = "failed" => job'[a] = job[a]
      BY <1>0, <2>2 DEF Enqueue, AddJob
    <3> QED BY <2>2, <3>1, FailedStill DEF Enqueue
  <2>3. CASE Respond(r)
    BY <2>3, FailedStill DEF Respond
  <2> QED BY <1>2, <2>1, <2>2, <2>3 DEF Handler
<1>3. ASSUME NEW s \in Slots, NEW a \in Apps, Take(s, a) PROVE FailedInv'
  <2>1. \A b \in Apps : job[b].state = "failed" => job'[b] = job[b]
    BY <1>0, <1>3 DEF Take
  <2> QED BY <1>3, <2>1, FailedStill DEF Take
<1>4. ASSUME NEW s \in Slots,
             \/ LoadApplication(s) \/ CheckExisting(s) \/ CommitRejected(s)
             \/ RecordCompletion(s) \/ SettleRefused(s) \/ ProcessorError(s)
      PROVE  FailedInv'
  BY <1>4, FailedStill DEF LoadApplication, CheckExisting, CommitRejected,
         RecordCompletion, SettleRefused, ProcessorError
<1>5. ASSUME NEW s \in Slots, MarkProcessing(s) PROVE FailedInv'
  BY <1>0, <1>5, FailedStill DEF MarkProcessing
<1>6. ASSUME NEW s \in Slots, Commit(s) \/ CommitUnacknowledged(s) PROVE FailedInv'
  BY <1>0, <1>6, FailedStill DEF Commit, CommitUnacknowledged, WriteDecision
<1>7. ASSUME NEW s \in Slots, CompleteJob(s) PROVE FailedInv'
  <2>1. job[lane[s].app].lock = s /\ s # None /\ lane[s].app \in Apps
    BY <1>0, <1>7, LifecycleAssumption DEF CompleteJob
  <2>2. \A b \in Apps : job[b].state = "failed" => job'[b] = job[b]
    BY <1>0, <1>7, <2>1 DEF CompleteJob
  <2> QED BY <1>7, <2>2, FailedStill DEF CompleteJob
<1>8. ASSUME NEW s \in Slots, FailAttempt(s) PROVE FailedInv'
  <2>1. {"failed", "delayed"} \subseteq JobStates
    BY DEF JobStates
  <2>2. lane[s].app \in Apps /\ job[lane[s].app].lock = s
    BY <1>0, <1>8 DEF FailAttempt
  <2>3. PICK state \in JobStates : /\ FailJob(s, lane[s].app, state)
                                   /\ AttemptsExhausted(lane[s].app) => state = "failed"
    BY <1>8, <2>1 DEF FailAttempt
  <2> QED BY <1>8, <2>2, <2>3, FailJobInv DEF FailAttempt
<1>9. ASSUME NEW s \in Slots, FailStalled(s) PROVE FailedInv'
  <2>1. "failed" \in JobStates
    BY DEF JobStates
  <2>2. lane[s].app \in Apps /\ job[lane[s].app].lock = s
    BY <1>0, <1>9 DEF FailStalled
  <2> QED BY <1>9, <2>1, <2>2, FailJobInv DEF FailStalled
<1>10. ASSUME NEW a \in Apps, Queue(a) \/ LockLost(a) PROVE FailedInv'
  <2>1. CASE Promote(a)
    BY <1>0, <2>1, FailedStill DEF Promote
  <2>2. CASE OrphanLockExpires(a)
    BY <1>0, <2>2, FailedStill DEF OrphanLockExpires, Orphaned
  <2>3. CASE RecoverStalled(a)
    BY <1>0, <2>3, FailedStill DEF RecoverStalled
  <2>4. CASE LockLost(a)
    BY <1>0, <2>4, FailedStill DEF LockLost
  <2> QED BY <1>10, <2>1, <2>2, <2>3, <2>4 DEF Queue
<1>11. ASSUME NEW a \in Apps, Evict(a) PROVE FailedInv'
  BY <1>0, <1>11 DEF Evict, FailedInv
<1>12. ASSUME NEW w \in Workers, NEW a \in Apps,
              MarkFailed(w, a) \/ MarkFailedError(w, a)
       PROVE  FailedInv'
  BY <1>0, <1>12, FailedStill DEF MarkFailed, MarkFailedError
<1>13. ASSUME NEW w \in Workers, Crash(w) \/ Shutdown(w) PROVE FailedInv'
  BY <1>0, <1>13, FailedStill DEF Crash, Shutdown
<1>14. ASSUME NEW r \in Requests, RequestError(r) \/ RequestLost(r) PROVE FailedInv'
  BY <1>14, FailedStill DEF RequestError, RequestLost
<1>15. CASE UNCHANGED vars
  BY <1>15, FailedStill DEF vars
<1>16. ASSUME NEW s \in Slots, Processor(s) PROVE FailedInv'
  BY <1>4, <1>5, <1>6, <1>7, <1>8, <1>9, <1>16 DEF Processor
<1>17. CASE Trouble
  BY <1>4, <1>6, <1>10, <1>11, <1>12, <1>13, <1>14, <1>17 DEF Trouble
<1> QED BY <1>1, <1>2, <1>3, <1>10, <1>12, <1>15, <1>16, <1>17 DEF Next

LEMMA InitFailedInv == Init => LockInv /\ FailedInv
  BY DEF Init, LockInv, FailedInv, NoJob, IdleLane

\* FAILED is never a guess: as long as Redis keeps the job, the job of a failed
\* application has used up its attempts, whatever crashed or lost its lock.
THEOREM FailedMeansExhausted == Spec => []FailedIsExhausted
<1>1. FailedInv => FailedIsExhausted
  BY DEF FailedInv, FailedIsExhausted
<1> QED BY <1>1, InitFailedInv, FailedInvStep, LockInvStep, InitTypeInv, NextTypeInv,
           PTL DEF Spec

-------------------------------------------------------------------------------
(* A reason only with a failure.                                           *)

\* Who writes a status writes the reason with it, but for MarkProcessing.
LEMMA ReasonStep ==
  ASSUME TypeInv, [Next]_vars, NEW a \in Apps
  PROVE  \/ status'[a] = status[a] /\ failureReason'[a] = failureReason[a]
         \/ failureReason'[a] = FALSE
         \/ status'[a] = "FAILED"
         \/ status[a] = "ABSENT" /\ failureReason'[a] = failureReason[a]
         \/ /\ \E s \in Slots : lane[s].pc = "mark" /\ lane[s].app = a
            /\ failureReason'[a] = failureReason[a]
            /\ UNCHANGED budget
<1> USE DEF TypeOK, postgres
<1>0. TypeOK /\ \A s \in Slots : lane[s].pc # "idle" => lane[s].app \in Apps
  BY DEF TypeInv, LaneHolds
<1>1. CASE Client
  BY <1>0, <1>1 DEF Client, CreateApplication, UpdateBusiness, ReceiveUnknown,
              ReceiveDecided, ReceiveUndecided
<1>2. ASSUME NEW r \in Requests, Handler(r)
      PROVE  \/ status'[a] = status[a] /\ failureReason'[a] = failureReason[a]
             \/ failureReason'[a] = FALSE
  BY <1>0, <1>2 DEF Handler, Requeue, Enqueue, Respond
<1>3. ASSUME NEW s \in Slots, NEW b \in Apps, Take(s, b)
      PROVE  status'[a] = status[a] /\ failureReason'[a] = failureReason[a]
  BY <1>3 DEF Take
<1>4. ASSUME NEW s \in Slots, Commit(s) \/ CommitUnacknowledged(s)
      PROVE  \/ status'[a] = status[a] /\ failureReason'[a] = failureReason[a]
             \/ failureReason'[a] = FALSE
  BY <1>0, <1>4 DEF Commit, CommitUnacknowledged, WriteDecision
<1>5. ASSUME NEW s \in Slots, MarkProcessing(s)
      PROVE  \/ status'[a] = status[a] /\ failureReason'[a] = failureReason[a]
             \/ /\ lane[s].pc = "mark" /\ lane[s].app = a
                /\ failureReason'[a] = failureReason[a]
                /\ UNCHANGED budget
  BY <1>0, <1>5 DEF MarkProcessing
<1>6. ASSUME NEW s \in Slots, Processor(s), ~Commit(s), ~MarkProcessing(s)
      PROVE  status'[a] = status[a] /\ failureReason'[a] = failureReason[a]
  BY <1>6 DEF Processor, LoadApplication, CheckExisting, CommitRejected,
         RecordCompletion, CompleteJob, FailAttempt, FailStalled, SettleRefused
<1>7. ASSUME NEW b \in Apps, Queue(b)
      PROVE  status'[a] = status[a] /\ failureReason'[a] = failureReason[a]
  BY <1>7 DEF Queue, Promote, OrphanLockExpires, RecoverStalled
<1>8. ASSUME NEW w \in Workers, NEW b \in Apps, MarkFailed(w, b)
      PROVE  \/ status'[a] = status[a] /\ failureReason'[a] = failureReason[a]
             \/ status'[a] = "FAILED"
  BY <1>0, <1>8 DEF MarkFailed
<1>9. ASSUME Trouble, ~\E s \in Slots : CommitUnacknowledged(s)
      PROVE  status'[a] = status[a] /\ failureReason'[a] = failureReason[a]
  BY <1>9 DEF Trouble, RequestError, RequestLost, ProcessorError,
         LockLost, Evict, MarkFailedError, Crash, Shutdown
<1>10. CASE UNCHANGED vars
  BY <1>10 DEF vars
<1> QED BY <1>1, <1>2, <1>3, <1>4, <1>5, <1>6, <1>7, <1>8, <1>9, <1>10 DEF Next

\* The bounds only fill up.
LEMMA BudgetStep ==
  ASSUME TypeInv, [Next]_vars
  PROVE  /\ budget'.lockLosses = 0 => budget.lockLosses = 0
         /\ budget'.evictions = 0 => budget.evictions = 0
         /\ budget'.crashes >= budget.crashes
<1> USE DEF TypeOK
<1>0. TypeOK
  BY DEF TypeInv
<1>1. UNCHANGED budget \/ (\E a \in Apps : LockLost(a) \/ Evict(a))
        \/ (\E w \in Workers : Crash(w))
  <2>1. CASE Client
    BY <2>1 DEF Client, CreateApplication, UpdateBusiness, ReceiveUnknown,
                ReceiveDecided, ReceiveUndecided
  <2>2. ASSUME NEW r \in Requests, Handler(r) PROVE UNCHANGED budget
    BY <2>2 DEF Handler, Requeue, Enqueue, Respond
  <2>3. ASSUME NEW s \in Slots, NEW a \in Apps, Take(s, a) PROVE UNCHANGED budget
    BY <2>3 DEF Take
  <2>4. ASSUME NEW s \in Slots, Processor(s) PROVE UNCHANGED budget
    BY <2>4 DEF Processor, LoadApplication, CheckExisting, MarkProcessing, Commit,
                CommitRejected, RecordCompletion, CompleteJob, FailAttempt,
                FailStalled, SettleRefused
  <2>5. ASSUME NEW a \in Apps, Queue(a) PROVE UNCHANGED budget
    BY <2>5 DEF Queue, Promote, OrphanLockExpires, RecoverStalled
  <2>6. ASSUME NEW w \in Workers, NEW a \in Apps, MarkFailed(w, a)
        PROVE  UNCHANGED budget
    BY <2>6 DEF MarkFailed
  <2>7. ASSUME Trouble, ~\E a \in Apps : LockLost(a) \/ Evict(a),
               ~\E w \in Workers : Crash(w)
        PROVE  UNCHANGED budget
    BY <2>7 DEF Trouble, RequestError, RequestLost, CommitUnacknowledged,
                ProcessorError, MarkFailedError, Shutdown
  <2> QED BY <2>1, <2>2, <2>3, <2>4, <2>5, <2>6, <2>7 DEF Next, vars
<1>2. ASSUME NEW a \in Apps, LockLost(a) \/ Evict(a)
      PROVE  /\ budget'.lockLosses = 0 => budget.lockLosses = 0
             /\ budget'.evictions = 0 => budget.evictions = 0
             /\ budget'.crashes >= budget.crashes
  BY <1>0, <1>2 DEF LockLost, Evict
<1>3. ASSUME NEW w \in Workers, Crash(w)
      PROVE  /\ budget'.lockLosses = 0 => budget.lockLosses = 0
             /\ budget'.evictions = 0 => budget.evictions = 0
             /\ budget'.crashes >= budget.crashes
  BY <1>0, <1>3 DEF Crash
<1>4. budget.crashes >= budget.crashes
  BY <1>0
<1> HIDE DEF TypeOK
<1> QED BY <1>1, <1>2, <1>3, <1>4

\* A lane about to mark its application holds the lock of an active job, so the
\* application has not been given up on and there is no reason to leave behind.
LEMMA ReasonInvStep ==
  TypeInv /\ LockInv /\ FailedInv /\ ReasonOnlyWhenFailed /\ [Next]_vars
    => ReasonOnlyWhenFailed'
<1> SUFFICES ASSUME TypeInv, LockInv, FailedInv, ReasonOnlyWhenFailed, [Next]_vars,
                    budget'.lockLosses = 0, budget'.evictions = 0, NEW a \in Apps,
                    failureReason'[a]
             PROVE  status'[a] = "FAILED"
  BY DEF ReasonOnlyWhenFailed
<1>1. budget.lockLosses = 0 /\ budget.evictions = 0
  BY BudgetStep
<1>2. failureReason[a] => status[a] = "FAILED"
  BY <1>1 DEF ReasonOnlyWhenFailed
<1>3. ASSUME NEW s \in Slots, lane[s].pc = "mark", lane[s].app = a
      PROVE  status[a] # "FAILED"
  <2>1. job[a].lock = s /\ s # None
    BY <1>1, <1>3, LifecycleAssumption DEF LockInv
  <2>2. job[a].state # "failed"
    BY <2>1 DEF LockInv
  <2> QED BY <1>1, <2>2 DEF FailedInv
<1> QED BY <1>2, <1>3, ReasonStep

\* A failure reason is only ever read together with FAILED, while jobs are kept
\* and no live lane loses its lock.
THEOREM ReasonsAreOfFailures == Spec => []ReasonOnlyWhenFailed
<1>1. Init => ReasonOnlyWhenFailed
  BY DEF Init, ReasonOnlyWhenFailed
<1> QED BY <1>1, InitFailedInv, ReasonInvStep, FailedInvStep, LockInvStep, InitTypeInv,
           NextTypeInv, PTL DEF Spec
===============================================================================
