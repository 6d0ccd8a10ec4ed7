--------------------------- MODULE DecisionLifecycle ---------------------------
(***************************************************************************)
(* The life of a decision in DECISION_MODE=queue and =embedded: the POST   *)
(* handlers of the API, the rows they share in Postgres, the BullMQ job    *)
(* that carries the application to a worker, the worker lanes that run     *)
(* processDecision, and the 'failed' handler that gives up.                *)
(*                                                                         *)
(* One action is one atomic step of the code: a statement or transaction   *)
(* in Postgres, or a script in Redis.  Everything between two awaits that  *)
(* touches no shared state belongs to the step before it.                  *)
(***************************************************************************)
EXTENDS Naturals, ApplicationStatus

CONSTANTS
  Apps,            \* loan application ids
  Businesses,      \* business profile ids
  BusinessOf,      \* the businessId of each application
  Profiles,        \* the values a business row can hold (revenue above all)
  Requests,        \* POST requests, each used once
  Workers,         \* worker processes
  Lanes,           \* jobs a worker runs at once (concurrency)
  None,            \* null
  Reasonless,      \* <<app, profile>> for which evaluate returns no reason
  Faults,          \* parts whose database calls may fail
  MaxAttempts,     \* defaultJobOptions.attempts
  MaxStalledCount, \* stalls BullMQ tolerates
  MaxCrashes,      \* bound: worker process crashes
  MaxLockLosses,   \* bound: locks lost by a lane that is still running
  MaxEvictions     \* bound: finished jobs removed from Redis

Slots == Workers \X Lanes
Undecided == None
Verdicts == Profiles
FaultSites == {"api", "worker", "commit", "mark", "exit"}

ASSUME LifecycleAssumption ==
  /\ BusinessOf \in [Apps -> Businesses]
  /\ None \notin Apps \cup Profiles \cup Slots
  /\ Reasonless \subseteq Apps \X Profiles
  /\ Faults \subseteq FaultSites
  /\ MaxAttempts \in Nat \ {0}
  /\ MaxStalledCount \in Nat
  /\ MaxCrashes \in Nat
  /\ MaxLockLosses \in Nat
  /\ MaxEvictions \in Nat

VARIABLES
  profile,     \* businesses: the row of each business
  status,      \* loan_applications.status; "ABSENT" before the insert
  failureReason, \* loan_applications.failure_reason is set
  decision,    \* decisions (with their reasons): the profile scored, or None
  job,         \* Redis: the job whose id is the application id
  lane,        \* the processor call each worker lane is in
  marking,     \* markDecisionFailed calls under way, <<worker, app>>
  req,         \* the POST handlers and what they answered
  completions, \* DECISION_COMPLETED events recorded for each application
  budget       \* how much of each bound is used up

vars == <<profile, status, failureReason, decision, job, lane, marking, req,
          completions, budget>>
postgres == <<profile, status, failureReason, decision>>

JobStates == {"none", "waiting", "delayed", "active", "completed", "failed"}
LaneSteps == {"idle", "load", "check", "mark", "commit", "record", "finish",
              "throw", "abort"}
ReqSteps == {"new", "requeue", "enqueue", "respond", "answered", "lost"}

NoJob == [state |-> "none", attemptsMade |-> 0, stalled |-> 0,
          deferred |-> FALSE, lock |-> None]
IdleLane == [pc |-> "idle", app |-> None, snapshot |-> None]
NewReq == [pc |-> "new", app |-> None, code |-> 0, status |-> None,
           decision |-> None]

Jobs == [state : JobStates, attemptsMade : Nat, stalled : Nat,
         deferred : BOOLEAN, lock : Slots \cup {None}]
LaneCalls == [pc : LaneSteps, app : Apps \cup {None},
              snapshot : Profiles \cup {None}]
Handlers == [pc : ReqSteps, app : Apps \cup {None},
             code : {0, 200, 202, 404, 500}, status : Statuses \cup {None},
             decision : Verdicts \cup {None}]

TypeOK ==
  /\ profile \in [Businesses -> Profiles]
  /\ status \in [Apps -> Statuses]
  /\ failureReason \in [Apps -> BOOLEAN]
  /\ decision \in [Apps -> Verdicts \cup {Undecided}]
  /\ job \in [Apps -> Jobs]
  /\ lane \in [Slots -> LaneCalls]
  /\ marking \subseteq Workers \X Apps
  /\ req \in [Requests -> Handlers]
  /\ completions \in [Apps -> Nat]
  /\ budget \in [crashes : Nat, lockLosses : Nat, evictions : Nat]

Init ==
  /\ profile \in [Businesses -> Profiles]
  /\ status = [a \in Apps |-> "ABSENT"]
  /\ failureReason = [a \in Apps |-> FALSE]
  /\ decision = [a \in Apps |-> Undecided]
  /\ job = [a \in Apps |-> NoJob]
  /\ lane = [s \in Slots |-> IdleLane]
  /\ marking = {}
  /\ req = [r \in Requests |-> NewReq]
  /\ completions = [a \in Apps |-> 0]
  /\ budget = [crashes |-> 0, lockLosses |-> 0, evictions |-> 0]

-------------------------------------------------------------------------------
(* The rows the API writes before a decision is asked for.                 *)

\* POST /applications: the row is born QUEUED, with no job behind it.
CreateApplication(a) ==
  /\ status[a] = "ABSENT"
  /\ status' = [status EXCEPT ![a] = "QUEUED"]
  /\ UNCHANGED <<profile, failureReason, decision, job, lane, marking, req,
                 completions, budget>>

\* PUT /businesses/:id: what the next snapshot of this business will read.
UpdateBusiness(b) ==
  /\ \E p \in Profiles \ {profile[b]} : profile' = [profile EXCEPT ![b] = p]
  /\ UNCHANGED <<status, failureReason, decision, job, lane, marking, req,
                 completions, budget>>

-------------------------------------------------------------------------------
(* requestDecision, one handler per request.                               *)

Answered(r, a, code) ==
  req' = [req EXCEPT ![r] = [pc |-> "answered", app |-> a, code |-> code,
                             status |-> None, decision |-> None]]

\* The first read: an unknown application is a 404 ...
ReceiveUnknown(r, a) ==
  /\ req[r].pc = "new"
  /\ status[a] = "ABSENT"
  /\ Answered(r, a, 404)
  /\ UNCHANGED <<postgres, job, lane, marking, completions, budget>>

\* Mutant: the engine is run again on today's profile.
ReceiveDecided_Reevaluates(r, a) ==
  /\ req[r].pc = "new"
  /\ decision[a] # Undecided
  /\ req' = [req EXCEPT ![r] = [pc |-> "answered", app |-> a, code |-> 200,
                                status |-> "DECIDED",
                                decision |-> profile[BusinessOf[a]]]]
  /\ UNCHANGED <<postgres, job, lane, marking, completions, budget>>

\* ... a decided one is answered with the stored decision ...
ReceiveDecided(r, a) ==
  /\ req[r].pc = "new"
  /\ decision[a] # Undecided
  /\ req' = [req EXCEPT ![r] = [pc |-> "answered", app |-> a, code |-> 200,
                                status |-> "DECIDED",
                                decision |-> decision[a]]]
  /\ UNCHANGED <<postgres, job, lane, marking, completions, budget>>

\* ... and any other goes on, on the strength of what was just read.
ReceiveUndecided(r, a) ==
  /\ req[r].pc = "new"
  /\ status[a] # "ABSENT"
  /\ decision[a] = Undecided
  /\ req' = [req EXCEPT ![r].pc = "requeue", ![r].app = a]
  /\ UNCHANGED <<postgres, job, lane, marking, completions, budget>>

\* Mutant: the reason of an earlier failure is left in the row.
Requeue_KeepsReason(r) ==
  /\ req[r].pc = "requeue"
  /\ status' = [status EXCEPT ![req[r].app] = "QUEUED"]
  /\ req' = [req EXCEPT ![r].pc = "enqueue"]
  /\ UNCHANGED <<profile, failureReason, decision, job, lane, marking,
                 completions, budget>>

\* The update has no condition on the status or the decision it overwrites.
Requeue(r) ==
  /\ req[r].pc = "requeue"
  /\ status' = [status EXCEPT ![req[r].app] = "QUEUED"]
  /\ failureReason' = [failureReason EXCEPT ![req[r].app] = FALSE]
  /\ req' = [req EXCEPT ![r].pc = "enqueue"]
  /\ UNCHANGED <<profile, decision, job, lane, marking, completions, budget>>

\* Mutant: no jobId, so the application is queued again whatever runs.
AddJob_NoDeduplication(a) == job' = [job EXCEPT ![a].state = "waiting"]

\* Queue.add: a job that Redis still holds under this id, in any state, makes
\* the call a no-op.
AddJob(a) ==
  job' = IF job[a].state = "none"
         THEN [job EXCEPT ![a].state = "waiting"]
         ELSE job

Enqueue(r) ==
  /\ req[r].pc = "enqueue"
  /\ AddJob(req[r].app)
  /\ req' = [req EXCEPT ![r].pc = "respond"]
  /\ UNCHANGED <<postgres, lane, marking, completions, budget>>

\* getDecisionStatus reads status and decision in one query: the 202 body.
Respond(r) ==
  LET a == req[r].app IN
  /\ req[r].pc = "respond"
  /\ req' = [req EXCEPT ![r] = [pc |-> "answered", app |-> a, code |-> 202,
                                status |-> status[a],
                                decision |-> decision[a]]]
  /\ UNCHANGED <<postgres, job, lane, marking, completions, budget>>

\* A query of the handler throws: 500, and what it had written stays.
RequestError(r) ==
  /\ "api" \in Faults
  /\ req[r].pc \in {"new", "requeue", "respond"}
  /\ Answered(r, req[r].app, 500)
  /\ UNCHANGED <<postgres, job, lane, marking, completions, budget>>

\* The API process dies between two steps of the handler.
RequestLost(r) ==
  /\ "api" \in Faults
  /\ req[r].pc \in {"requeue", "enqueue", "respond"}
  /\ req' = [req EXCEPT ![r].pc = "lost"]
  /\ UNCHANGED <<postgres, job, lane, marking, completions, budget>>

-------------------------------------------------------------------------------
(* The worker: one lane picks a job up and runs processDecision on it.     *)

Goto(s, pc) == lane' = [lane EXCEPT ![s].pc = pc]

\* A job that stalled too often is failed by BullMQ as soon as it is picked
\* up; any other enters the processor.
Take(s, a) ==
  /\ lane[s].pc = "idle"
  /\ job[a].state = "waiting"
  /\ job' = [job EXCEPT ![a].state = "active", ![a].lock = s]
  /\ lane' = [lane EXCEPT
       ![s] = [pc |-> IF job[a].deferred THEN "abort" ELSE "load",
               app |-> a, snapshot |-> None]]
  /\ UNCHANGED <<postgres, marking, req, completions, budget>>

\* getApplicationWithBusiness: the figures the engine will see.
LoadApplication(s) ==
  /\ lane[s].pc = "load"
  /\ lane' = [lane EXCEPT ![s].pc = "check",
                          ![s].snapshot = profile[BusinessOf[lane[s].app]]]
  /\ UNCHANGED <<postgres, job, marking, req, completions, budget>>

\* Mutant: the status is trusted instead of the decisions table.
CheckExisting_TrustsStatus(s) ==
  /\ lane[s].pc = "check"
  /\ Goto(s, IF status[lane[s].app] # "QUEUED" THEN "finish" ELSE "mark")
  /\ UNCHANGED <<postgres, job, marking, req, completions, budget>>

\* Mutant: a stored decision is recorded as completed once more.
CheckExisting_RecordsAgain(s) ==
  /\ lane[s].pc = "check"
  /\ Goto(s, IF decision[lane[s].app] # Undecided THEN "record" ELSE "mark")
  /\ UNCHANGED <<postgres, job, marking, req, completions, budget>>

\* Mutant: no check at all, the unique index is relied on.
CheckExisting_Skipped(s) ==
  /\ lane[s].pc = "check"
  /\ Goto(s, "mark")
  /\ UNCHANGED <<postgres, job, marking, req, completions, budget>>

\* A stored decision ends the processor at once, with the status as it is.
CheckExisting(s) ==
  /\ lane[s].pc = "check"
  /\ Goto(s, IF decision[lane[s].app] # Undecided THEN "finish" ELSE "mark")
  /\ UNCHANGED <<postgres, job, marking, req, completions, budget>>

\* The reason of an earlier failure is not looked at.
MarkProcessing(s) ==
  /\ lane[s].pc = "mark"
  /\ status' = [status EXCEPT ![lane[s].app] = "PROCESSING"]
  /\ Goto(s, "commit")
  /\ UNCHANGED <<profile, failureReason, decision, job, marking, req,
                 completions, budget>>

\* Mutant: the insert is an upsert.
Committable_Upsert(s) == <<lane[s].app, lane[s].snapshot>> \notin Reasonless

\* decisions.application_id is unique, and an insert of no reasons throws.
Committable(s) == /\ decision[lane[s].app] = Undecided
                  /\ <<lane[s].app, lane[s].snapshot>> \notin Reasonless

\* The transaction: decision row, reason rows and status, together.
WriteDecision(s) ==
  /\ Committable(s)
  /\ decision' = [decision EXCEPT ![lane[s].app] = lane[s].snapshot]
  /\ status' = [status EXCEPT ![lane[s].app] = "DECIDED"]
  /\ failureReason' = [failureReason EXCEPT ![lane[s].app] = FALSE]

Commit(s) ==
  /\ lane[s].pc = "commit"
  /\ WriteDecision(s)
  /\ Goto(s, "record")
  /\ UNCHANGED <<profile, job, marking, req, completions, budget>>

\* Mutant: no transaction, and the connection drops between two statements.
CommitUnacknowledged_NoTransaction(s) ==
  /\ "commit" \in Faults
  /\ lane[s].pc = "commit"
  /\ Committable(s)
  /\ status' = [status EXCEPT ![lane[s].app] = "DECIDED"]
  /\ Goto(s, "throw")
  /\ UNCHANGED <<profile, failureReason, decision, job, marking, req,
                 completions, budget>>

\* Postgres commits, and the connection drops before the worker hears of it.
CommitUnacknowledged(s) ==
  /\ "commit" \in Faults
  /\ lane[s].pc = "commit"
  /\ WriteDecision(s)
  /\ Goto(s, "throw")
  /\ UNCHANGED <<profile, job, marking, req, completions, budget>>

\* Mutant: a failed attempt puts the row back to QUEUED for the next one.
CommitRejected_PutsBack(s) ==
  /\ lane[s].pc = "commit"
  /\ ~Committable(s)
  /\ status' = [status EXCEPT ![lane[s].app] = "QUEUED"]
  /\ Goto(s, "throw")
  /\ UNCHANGED <<profile, failureReason, decision, job, marking, req,
                 completions, budget>>

CommitRejected(s) ==
  /\ lane[s].pc = "commit"
  /\ ~Committable(s)
  /\ Goto(s, "throw")
  /\ UNCHANGED <<postgres, job, marking, req, completions, budget>>

\* Any query of the processor may fail; nothing is rolled back but the
\* transaction, so the status stays PROCESSING.
ProcessorError(s) ==
  /\ "worker" \in Faults
  /\ lane[s].pc \in {"load", "check", "mark", "commit"}
  /\ Goto(s, "throw")
  /\ UNCHANGED <<postgres, job, marking, req, completions, budget>>

RecordCompletion(s) ==
  /\ lane[s].pc = "record"
  /\ completions' = [completions EXCEPT ![lane[s].app] = @ + 1]
  /\ Goto(s, "finish")
  /\ UNCHANGED <<postgres, job, marking, req, budget>>

-------------------------------------------------------------------------------
(* BullMQ settles the job, if the lane still holds its lock.               *)

Release(s) == lane' = [lane EXCEPT ![s] = IdleLane]

CompleteJob(s) ==
  LET a == lane[s].app IN
  /\ lane[s].pc = "finish"
  /\ job[a].lock = s
  /\ job' = [job EXCEPT ![a].state = "completed", ![a].lock = None]
  /\ Release(s)
  /\ UNCHANGED <<postgres, marking, req, completions, budget>>

\* moveToFailed, then the 'failed' event in the same process: the handler
\* starts markDecisionFailed, without awaiting it, once attempts are exhausted.
AttemptsExhausted(a) == job[a].attemptsMade + 1 >= MaxAttempts

\* Mutant: every failed attempt is taken for the last.
FailedHandler_EveryAttempt(s, a) == marking' = marking \cup {<<s[1], a>>}

\* Mutant: attemptsMade is compared before it is incremented.
FailedHandler_StaleCount(s, a) ==
  marking' = IF job[a].attemptsMade >= MaxAttempts
             THEN marking \cup {<<s[1], a>>} ELSE marking

FailedHandler(s, a) ==
  marking' = IF AttemptsExhausted(a) THEN marking \cup {<<s[1], a>>}
             ELSE marking

FailJob(s, a, state) ==
  job' = [job EXCEPT ![a].state = state, ![a].lock = None,
                     ![a].attemptsMade = job[a].attemptsMade + 1]

FailAttempt(s) ==
  LET a == lane[s].app IN
  /\ lane[s].pc = "throw"
  /\ job[a].lock = s
  /\ FailJob(s, a, IF AttemptsExhausted(a) THEN "failed" ELSE "delayed")
  /\ FailedHandler(s, a)
  /\ Release(s)
  /\ UNCHANGED <<postgres, req, completions, budget>>

\* An UnrecoverableError: no further attempt, however many are left.
FailStalled(s) ==
  LET a == lane[s].app IN
  /\ lane[s].pc = "abort"
  /\ job[a].lock = s
  /\ FailJob(s, a, "failed")
  /\ FailedHandler(s, a)
  /\ Release(s)
  /\ UNCHANGED <<postgres, req, completions, budget>>

\* Without the lock the script refuses: an 'error' event, no 'failed' one.
SettleRefused(s) ==
  /\ lane[s].pc \in {"finish", "throw", "abort"}
  /\ job[lane[s].app].lock # s
  /\ Release(s)
  /\ UNCHANGED <<postgres, job, marking, req, completions, budget>>

\* The backoff of a failed attempt runs out.
Promote(a) ==
  /\ job[a].state = "delayed"
  /\ job' = [job EXCEPT ![a].state = "waiting"]
  /\ UNCHANGED <<postgres, lane, marking, req, completions, budget>>

Orphaned(a) == /\ job[a].lock # None
               /\ lane[job[a].lock].app # a

\* Nobody renews the lock of a lane that died ...
OrphanLockExpires(a) ==
  /\ Orphaned(a)
  /\ job' = [job EXCEPT ![a].lock = None]
  /\ UNCHANGED <<postgres, lane, marking, req, completions, budget>>

\* ... and a lane that lives may fail to renew its own in time.
LockLost(a) ==
  /\ job[a].lock # None
  /\ ~Orphaned(a)
  /\ budget.lockLosses < MaxLockLosses
  /\ job' = [job EXCEPT ![a].lock = None]
  /\ budget' = [budget EXCEPT !.lockLosses = @ + 1]
  /\ UNCHANGED <<postgres, lane, marking, req, completions>>

\* Mutant: a first stall is already one too many.
RecoverStalled_NoTolerance(a) ==
  /\ job[a].state = "active"
  /\ job[a].lock = None
  /\ job' = [job EXCEPT ![a].state = "waiting",
                        ![a].stalled = job[a].stalled + 1,
                        ![a].deferred = TRUE]
  /\ UNCHANGED <<postgres, lane, marking, req, completions, budget>>

\* The stalled check puts an active job without a lock back in the queue.
RecoverStalled(a) ==
  /\ job[a].state = "active"
  /\ job[a].lock = None
  /\ job' = [job EXCEPT ![a].state = "waiting",
                        ![a].stalled = job[a].stalled + 1,
                        ![a].deferred = job[a].stalled + 1 > MaxStalledCount]
  /\ UNCHANGED <<postgres, lane, marking, req, completions, budget>>

\* removeOnComplete and removeOnFail: other jobs push a finished one out.
Evict(a) ==
  /\ job[a].state \in {"completed", "failed"}
  /\ budget.evictions < MaxEvictions
  /\ job' = [job EXCEPT ![a] = NoJob]
  /\ budget' = [budget EXCEPT !.evictions = @ + 1]
  /\ UNCHANGED <<postgres, lane, marking, req, completions>>

-------------------------------------------------------------------------------
(* Giving up on an application, and losing a worker.                       *)

\* Mutant: a status outside the enum.
MarkFailed_UnknownStatus(w, a) ==
  /\ <<w, a>> \in marking
  /\ status' = [status EXCEPT ![a] = "ERRORED"]
  /\ marking' = marking \ {<<w, a>>}
  /\ UNCHANGED <<profile, failureReason, decision, job, lane, req, completions,
                 budget>>

\* The update asks neither for the status nor for a decision.
MarkFailed(w, a) ==
  /\ <<w, a>> \in marking
  /\ status' = [status EXCEPT ![a] = "FAILED"]
  /\ failureReason' = [failureReason EXCEPT ![a] = TRUE]
  /\ marking' = marking \ {<<w, a>>}
  /\ UNCHANGED <<profile, decision, job, lane, req, completions, budget>>

\* It throws: worker-entry logs the unhandled rejection, nothing retries it.
MarkFailedError(w, a) ==
  /\ "mark" \in Faults
  /\ <<w, a>> \in marking
  /\ marking' = marking \ {<<w, a>>}
  /\ UNCHANGED <<postgres, job, lane, req, completions, budget>>

LanesOf(w) == {w} \X Lanes
MarkingOf(w) == {w} \X Apps

\* The process dies and is started again: its calls end where they stand,
\* its jobs stay active under locks that nobody renews.
Crash(w) ==
  /\ budget.crashes < MaxCrashes
  /\ lane' = [s \in Slots |-> IF s \in LanesOf(w) THEN IdleLane ELSE lane[s]]
  /\ marking' = marking \ MarkingOf(w)
  /\ budget' = [budget EXCEPT !.crashes = @ + 1]
  /\ UNCHANGED <<postgres, job, req, completions>>

\* Graceful shutdown waits for the lanes, not for markDecisionFailed.
Shutdown(w) ==
  /\ "exit" \in Faults
  /\ \A s \in LanesOf(w) : lane[s].pc = "idle"
  /\ marking \cap MarkingOf(w) # {}
  /\ marking' = marking \ MarkingOf(w)
  /\ UNCHANGED <<postgres, job, lane, req, completions, budget>>

-------------------------------------------------------------------------------
Client == \/ \E a \in Apps : CreateApplication(a)
          \/ \E b \in Businesses : UpdateBusiness(b)
          \/ \E r \in Requests, a \in Apps : \/ ReceiveUnknown(r, a)
                                             \/ ReceiveDecided(r, a)
                                             \/ ReceiveUndecided(r, a)

Handler(r) == Requeue(r) \/ Enqueue(r) \/ Respond(r)

Processor(s) == \/ LoadApplication(s)
                \/ CheckExisting(s)
                \/ MarkProcessing(s)
                \/ Commit(s)
                \/ CommitRejected(s)
                \/ RecordCompletion(s)
                \/ CompleteJob(s)
                \/ FailAttempt(s)
                \/ FailStalled(s)
                \/ SettleRefused(s)

Queue(a) == Promote(a) \/ OrphanLockExpires(a) \/ RecoverStalled(a)

Trouble == \/ \E r \in Requests : RequestError(r) \/ RequestLost(r)
           \/ \E s \in Slots : CommitUnacknowledged(s) \/ ProcessorError(s)
           \/ \E a \in Apps : LockLost(a) \/ Evict(a)
           \/ \E w \in Workers, a \in Apps : MarkFailedError(w, a)
           \/ \E w \in Workers : Crash(w) \/ Shutdown(w)

Next == \/ Client
        \/ \E r \in Requests : Handler(r)
        \/ \E s \in Slots, a \in Apps : Take(s, a)
        \/ \E s \in Slots : Processor(s)
        \/ \E a \in Apps : Queue(a)
        \/ \E w \in Workers, a \in Apps : MarkFailed(w, a)
        \/ Trouble

Spec == Init /\ [][Next]_vars

(* What the runtime keeps doing: handlers and processors that were started *)
(* run on, free lanes take waiting jobs, timers fire.  No client need ever *)
(* call and nothing need ever go wrong.                                    *)
Fairness ==
  /\ \A r \in Requests : WF_vars(Handler(r))
  /\ \A s \in Slots : WF_vars(\E a \in Apps : Take(s, a))
  /\ \A s \in Slots : WF_vars(Processor(s))
  /\ \A a \in Apps : WF_vars(Queue(a))
  /\ \A w \in Workers, a \in Apps : WF_vars(MarkFailed(w, a))

FairSpec == Spec /\ Fairness

-------------------------------------------------------------------------------
(* Safety.                                                                 *)

\* processDecision's comment: an application is never left marked DECIDED
\* with no decision row, whichever writers race for the status column.
DecidedHasDecision ==
  \A a \in Apps : status[a] = "DECIDED" => decision[a] # Undecided

\* requestDecision's comment: no retry, crash, duplicate job or second worker
\* produces "a second, possibly different, decision" on an application.
DecisionKept ==
  [][\A a \in Apps : decision[a] # Undecided => decision'[a] = decision[a]]_vars

\* Every answer that carries a decision, 200 or 202, carries the stored one,
\* however long ago it was sent.
AnswersAgree ==
  \A r \in Requests :
    req[r].decision # None => req[r].decision = decision[req[r].app]

\* A job Redis calls completed left a decision in Postgres, across the two
\* stores and whatever was lost between them.
CompletedJobHasDecision ==
  \A a \in Apps : job[a].state = "completed" => decision[a] # Undecided

\* The audit trail holds one DECISION_COMPLETED at most for an application,
\* and none for one without a decision.
OneCompletion ==
  \A a \in Apps : /\ completions[a] <= 1
                  /\ completions[a] = 1 => decision[a] # Undecided

\* enqueueDecisionJob's comment: a double-submit collapses into one job, so
\* two lanes never evaluate one application.  True while no live lane loses
\* its lock.
NoDoubleEvaluation ==
  budget.lockLosses = 0 =>
    \A s, t \in Slots :
      s # t /\ lane[s].app # None => lane[s].app # lane[t].app

\* The 'failed' handler's comment: an application is FAILED only once every
\* attempt was made.  True until the job that says so is evicted.
FailedIsExhausted ==
  \A a \in Apps :
    status[a] = "FAILED" /\ budget.evictions = 0 =>
      job[a].state = "failed" /\ job[a].attemptsMade >= MaxAttempts

\* Requests that found the application undecided.
Requeuers(a) == {r \in Requests : /\ req[r].app = a
                                  /\ req[r].pc # "new"
                                  /\ req[r].code \notin {200, 404}}

\* Two handlers that both read "undecided" race for the status column.
Raced(a) == \E r, t \in Requeuers(a) : r # t

\* An attempt may fail after the decision was stored: its commit goes
\* unacknowledged, or its worker died and the retry cannot read, or workers
\* died so often that BullMQ fails the job unread.
ThrowsAfterCommit == \/ "commit" \in Faults
                     \/ "worker" \in Faults /\ budget.crashes > 0
                     \/ budget.crashes > MaxStalledCount

\* One request asked, no live lane lost its lock, and no attempt fails after
\* the decision was stored; crashes and retries included.
Orderly(a) == budget.lockLosses = 0 /\ ~ThrowsAfterCommit /\ ~Raced(a)

\* getDecisionStatus's comment, "decision is populated only once status is
\* DECIDED", for an application whose request went orderly.
DecisionMeansDecided ==
  \A a \in Apps : Orderly(a) /\ decision[a] # Undecided => status[a] = "DECIDED"

\* The status column of such an application only advances, whoever of the
\* handler, the lanes, their retries and the 'failed' handler writes it, and
\* never leaves a final status: what the browser's polling takes for granted.
StatusAdvances ==
  [][\A a \in Apps :
       Orderly(a) /\ status'[a] # status[a] => status'[a] \in Successors[status[a]]]_vars

\* types.ts on failureReason, "Present only when status is FAILED": no retry or
\* re-post leaves the reason of an earlier failure behind.  True while jobs are
\* kept and no live lane loses its lock: MarkProcessing does not clear it.
ReasonOnlyWhenFailed ==
  budget.lockLosses = 0 /\ budget.evictions = 0 =>
    \A a \in Apps : failureReason[a] => status[a] = "FAILED"

\* What the types and the service say of any poll, with no condition.
DecisionOnlyWhenDecided ==
  \A a \in Apps : decision[a] # Undecided => status[a] = "DECIDED"

\* requestDecision's comment, "a previously failed application is allowed
\* back into the queue": the enqueue leaves a job that some lane will take.
RequeuedRuns ==
  [][\A r \in Requests :
       req[r].pc = "enqueue" /\ req'[r].pc = "respond"
                             /\ decision[req[r].app] = Undecided
       => job'[req[r].app].state \in {"waiting", "delayed", "active"}]_vars

-------------------------------------------------------------------------------
(* Liveness.                                                               *)

Settled(a) == status[a] \in Final

\* README, "so polling terminates": an application with a job gets a final
\* status and keeps it, unless two handlers raced for it or a dying worker
\* took its failure with it.
JobsSettle ==
  \A a \in Apps :
    (job[a].state # "none") ~> [](Settled(a) \/ Raced(a) \/ budget.crashes > 0)

\* With healthy databases, and reasons to give, the job ends in a decision
\* even if a worker dies under it.
JobsDecide ==
  \A a \in Apps :
    (job[a].state # "none" /\ a \notin {pair[1] : pair \in Reasonless})
      ~> [](status[a] = "DECIDED" \/ Raced(a))

\* README, "Worker crash mid-job | Retry x3, then FAILED ... so polling
\* terminates": an application whose job BullMQ gave up on is settled.
DeadJobReported ==
  \A a \in Apps : (job[a].state = "failed") ~> Settled(a)

-------------------------------------------------------------------------------
(* The contract this implements: Postgres rows and answer bodies.          *)

Body(r) == IF req[r].code \in {200, 202}
           THEN [app |-> req[r].app, decision |-> req[r].decision]
           ELSE None

Contract == INSTANCE DecisionContract
              WITH stored <- decision,
                   answered <- [r \in Requests |-> Body(r)]

\* Every step of the machine is a step of the contract or none at all.
MeetsContract == Contract!Spec
===============================================================================
