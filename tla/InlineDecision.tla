---------------------------- MODULE InlineDecision ----------------------------
(***************************************************************************)
(* DECISION_MODE=inline: the handler of POST /applications/:id/decision    *)
(* runs processDecision itself, without a queue, and the audit trail it    *)
(* leaves.  There is no worker, no retry and no markDecisionFailed: an     *)
(* exception goes to the client and what was written before it stays.      *)
(*                                                                         *)
(* One action is one statement or transaction, as in DecisionLifecycle.    *)
(* Audit writes are started and not waited for.                            *)
(***************************************************************************)
EXTENDS Naturals, ApplicationStatus

CONSTANTS
  Apps,       \* applications, created or not
  Requests,   \* POST requests
  Profiles,   \* what a business row may hold
  Reasonless, \* profiles for which evaluate has no reason to give
  None        \* null

ASSUME InlineAssumption == /\ None \notin Apps \cup Profiles
                           /\ Reasonless \subseteq Profiles

VARIABLES
  profile,  \* each application's business row
  status,   \* loan_applications.status
  decision, \* decisions: the profile each was made on, or None
  req,      \* the handlers
  writing,  \* audit writes under way
  trail     \* audit_events

vars == <<profile, status, decision, req, writing, trail>>
postgres == <<profile, status, decision>>
mongo == <<writing, trail>>

Steps == {"new", "requeue", "load", "check", "mark", "commit", "respond",
          "answered", "lost"}
Running == Steps \ {"new", "answered", "lost"}

Handlers == [pc : Steps, app : Apps \cup {None}, snapshot : Profiles \cup {None},
             code : {0, 200, 202, 404, 500}, body : Profiles \cup {None}]
NewHandler == [pc |-> "new", app |-> None, snapshot |-> None, code |-> 0,
               body |-> None]

Event(type, r, a, v) == [type |-> type, by |-> r, app |-> a, verdict |-> v]
Events == [type : {"DECISION_REQUESTED", "DECISION_COMPLETED"}, by : Requests,
           app : Apps, verdict : Profiles \cup {None}]

TypeOK ==
  /\ profile \in [Apps -> Profiles]
  /\ status \in [Apps -> Statuses]
  /\ decision \in [Apps -> Profiles \cup {None}]
  /\ req \in [Requests -> Handlers]
  /\ writing \subseteq Events
  /\ trail \subseteq Events

Init ==
  /\ profile \in [Apps -> Profiles]
  /\ status \in [Apps -> {"ABSENT", "QUEUED"}]
  /\ decision = [a \in Apps |-> None]
  /\ req = [r \in Requests |-> NewHandler]
  /\ writing = {} /\ trail = {}

Goto(r, pc) == req' = [req EXCEPT ![r].pc = pc]
Answer(r, a, code, body) ==
  req' = [req EXCEPT ![r] = [pc |-> "answered", app |-> a, snapshot |-> None,
                             code |-> code, body |-> body]]

UpdateBusiness(a) ==
  /\ \E p \in Profiles \ {profile[a]} : profile' = [profile EXCEPT ![a] = p]
  /\ UNCHANGED <<status, decision, req, mongo>>

-------------------------------------------------------------------------------
(* requestDecision up to the branch on the mode.                           *)

ReceiveUnknown(r, a) ==
  /\ req[r].pc = "new"
  /\ status[a] = "ABSENT"
  /\ Answer(r, a, 404, None)
  /\ UNCHANGED <<postgres, mongo>>

ReceiveDecided(r, a) ==
  /\ req[r].pc = "new"
  /\ decision[a] # None
  /\ Answer(r, a, 200, decision[a])
  /\ UNCHANGED <<postgres, mongo>>

ReceiveUndecided(r, a) ==
  /\ req[r].pc = "new"
  /\ status[a] # "ABSENT"
  /\ decision[a] = None
  /\ req' = [req EXCEPT ![r].pc = "requeue", ![r].app = a]
  /\ UNCHANGED <<postgres, mongo>>

\* The status is overwritten, and the request is recorded.
Requeue(r) ==
  /\ req[r].pc = "requeue"
  /\ status' = [status EXCEPT ![req[r].app] = "QUEUED"]
  /\ Goto(r, "load")
  /\ writing' = writing \cup {Event("DECISION_REQUESTED", r, req[r].app, None)}
  /\ UNCHANGED <<profile, decision, trail>>

-------------------------------------------------------------------------------
(* processDecision, in the handler.                                        *)

\* Mutant: PROCESSING is set first, before a stored decision is looked for.
LoadApplication_Marks(r) ==
  /\ req[r].pc = "load"
  /\ req' = [req EXCEPT ![r].pc = "check", ![r].snapshot = profile[req[r].app]]
  /\ status' = [status EXCEPT ![req[r].app] = "PROCESSING"]
  /\ UNCHANGED <<profile, decision, mongo>>

LoadApplication(r) ==
  /\ req[r].pc = "load"
  /\ req' = [req EXCEPT ![r].pc = "check", ![r].snapshot = profile[req[r].app]]
  /\ UNCHANGED <<postgres, mongo>>

CheckExisting(r) ==
  /\ req[r].pc = "check"
  /\ Goto(r, IF decision[req[r].app] # None THEN "respond" ELSE "mark")
  /\ UNCHANGED <<postgres, mongo>>

\* Mutant: a status of its own for the evaluation.
MarkProcessing_Evaluating(r) ==
  /\ req[r].pc = "mark"
  /\ status' = [status EXCEPT ![req[r].app] = "EVALUATING"]
  /\ Goto(r, "commit")
  /\ UNCHANGED <<profile, decision, mongo>>

MarkProcessing(r) ==
  /\ req[r].pc = "mark"
  /\ status' = [status EXCEPT ![req[r].app] = "PROCESSING"]
  /\ Goto(r, "commit")
  /\ UNCHANGED <<profile, decision, mongo>>

\* Mutant: the insert is an upsert.
Committable_Upsert(r) == req[r].snapshot \notin Reasonless

Committable(r) == /\ decision[req[r].app] = None
                  /\ req[r].snapshot \notin Reasonless

\* Mutant: the status is left out of the transaction.
WriteDecision_NoStatus(r) ==
  /\ Committable(r)
  /\ decision' = [decision EXCEPT ![req[r].app] = req[r].snapshot]
  /\ UNCHANGED status

WriteDecision(r) ==
  /\ Committable(r)
  /\ decision' = [decision EXCEPT ![req[r].app] = req[r].snapshot]
  /\ status' = [status EXCEPT ![req[r].app] = "DECIDED"]

Completed(r) == Event("DECISION_COMPLETED", r, req[r].app, req[r].snapshot)

Commit(r) ==
  /\ req[r].pc = "commit"
  /\ WriteDecision(r)
  /\ Goto(r, "respond")
  /\ writing' = writing \cup {Completed(r)}
  /\ UNCHANGED <<profile, trail>>

\* Postgres commits, and the handler sees an error.
CommitUnacknowledged(r) ==
  /\ req[r].pc = "commit"
  /\ WriteDecision(r)
  /\ Answer(r, req[r].app, 500, None)
  /\ UNCHANGED <<profile, mongo>>

\* Mutant: the completion is recorded before the transaction.
CommitRejected_Recorded(r) ==
  /\ req[r].pc = "commit"
  /\ ~Committable(r)
  /\ Answer(r, req[r].app, 500, None)
  /\ writing' = writing \cup {Completed(r)}
  /\ UNCHANGED <<postgres, trail>>

\* The unique index, or an empty list of reasons: PROCESSING stays behind.
CommitRejected(r) ==
  /\ req[r].pc = "commit"
  /\ ~Committable(r)
  /\ Answer(r, req[r].app, 500, None)
  /\ UNCHANGED <<postgres, mongo>>

-------------------------------------------------------------------------------
Respond(r) ==
  /\ req[r].pc = "respond"
  /\ Answer(r, req[r].app, 202, decision[req[r].app])
  /\ UNCHANGED <<postgres, mongo>>

\* Mutant: an error of processDecision is logged, and the client left to poll.
RequestError_Swallowed(r) ==
  /\ req[r].pc \in Running
  /\ IF req[r].pc \in {"requeue", "respond"}
     THEN Answer(r, req[r].app, 500, None)
     ELSE Goto(r, "respond")
  /\ UNCHANGED <<postgres, mongo>>

\* Any query throws: an error answer, with whatever code.
RequestError(r) ==
  /\ req[r].pc \in Running
  /\ Answer(r, req[r].app, 500, None)
  /\ UNCHANGED <<postgres, mongo>>

\* Mongo takes the write ...
AuditWritten(e) == /\ writing' = writing \ {e}
                   /\ trail' = trail \cup {e}
                   /\ UNCHANGED <<postgres, req>>

\* ... or the error is logged and no one hears of it.
AuditDropped(e) == /\ writing' = writing \ {e}
                   /\ UNCHANGED <<postgres, req, trail>>

\* The API process dies, or is told to stop and exits when its requests are
\* answered or its ten seconds are over: nothing waits for an audit write.
Exit ==
  /\ req' = [r \in Requests |->
               IF req[r].pc \in Running THEN [req[r] EXCEPT !.pc = "lost"]
               ELSE req[r]]
  /\ writing' = {}
  /\ UNCHANGED <<postgres, trail>>

-------------------------------------------------------------------------------
Receive(r, a) == ReceiveUnknown(r, a) \/ ReceiveDecided(r, a) \/ ReceiveUndecided(r, a)
Process(r) == \/ LoadApplication(r) \/ CheckExisting(r) \/ MarkProcessing(r)
              \/ Commit(r) \/ CommitUnacknowledged(r) \/ CommitRejected(r)

Next == \/ \E a \in Apps : UpdateBusiness(a)
        \/ \E r \in Requests, a \in Apps : Receive(r, a)
        \/ \E r \in Requests : Requeue(r) \/ Process(r) \/ Respond(r) \/ RequestError(r)
        \/ \E e \in writing : AuditWritten(e) \/ AuditDropped(e)
        \/ Exit

Spec == Init /\ [][Next]_vars

-------------------------------------------------------------------------------
(* What a request was answered with, as the contract sees it: an error is  *)
(* no answer.                                                              *)
Body(r) == IF req[r].code \in {200, 202}
           THEN [app |-> req[r].app, decision |-> req[r].body]
           ELSE None
Contract == INSTANCE DecisionContract
              WITH Verdicts <- Profiles, stored <- decision,
                   answered <- [r \in Requests |-> Body(r)]

\* config/env.ts: the modes "keep the same public contract".  Without a queue
\* to collapse them, two evaluations of one application still leave one
\* decision, and answers that agree with it.
MeetsContract == Contract!Spec

\* The handler answers after processDecision returned, so what an accepted
\* request reads back is a decision, whoever made it.
AcceptedIsDecided ==
  \A r \in Requests : req[r].code = 202 => req[r].body # None

Completions == {e \in trail \cup writing : e.type = "DECISION_COMPLETED"}

\* No audit event claims a decision that was not stored, or claims it twice,
\* although events are written to another store after the transaction.
TrailIsTrue ==
  \A e \in Completions :
    /\ decision[e.app] = e.verdict
    /\ \A f \in Completions : f.app = e.app => f = e

\* A stored decision under a status that is not DECIDED takes two handlers
\* that both read the application before there was one.
ShadowedByRace ==
  \A a \in Apps :
    decision[a] # None /\ status[a] # "DECIDED" =>
      \E r, s \in Requests : /\ r # s
                             /\ req[r].app = a /\ req[r].code \notin {200, 404}
                             /\ req[s].app = a /\ req[s].code \notin {200, 404}

\* No retry and no failed handler follows an error of processDecision, so a row
\* is left PROCESSING for good; it never is without a client that was answered
\* with an error, or whose connection died with the process, and may ask again.
StuckIsReported ==
  \A a \in Apps :
    status[a] = "PROCESSING" =>
      \E r \in Requests :
        /\ req[r].app = a
        /\ req[r].pc \in Running \cup {"lost"} \/ req[r].code = 500
===============================================================================
