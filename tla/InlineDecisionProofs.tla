------------------------- MODULE InlineDecisionProofs -------------------------
(***************************************************************************)
(* Theorems about InlineDecision, for any applications, any number of      *)
(* requests at once, and any errors and exits.                             *)
(***************************************************************************)
EXTENDS InlineDecision, TLAPS

(* What a handler holds at each step, and what it has seen.                *)
HandlerInv ==
  \A r \in Requests :
    /\ req[r].pc \in Running => req[r].app \in Apps
    /\ req[r].pc \in {"check", "mark", "commit"} => req[r].snapshot \in Profiles
    /\ req[r].pc # "answered" => req[r].code = 0
    /\ req[r].pc = "respond" => decision[req[r].app] # None
    /\ req[r].code = 202 => req[r].body # None

(* An event of a completion was sent after the decision was stored.        *)
TrailInv == /\ TrailIsTrue
            /\ \A e \in Completions : e.verdict # None

Inv == TypeOK /\ HandlerInv /\ TrailInv

-------------------------------------------------------------------------------
(* How the parts of the state move.                                        *)

LEMMA Fields ==
  /\ \A x \in Handlers, pc \in Steps : [x EXCEPT !.pc = pc] \in Handlers
  /\ \A x \in Handlers, pc \in Steps, a \in Apps :
       [x EXCEPT !.pc = pc, !.app = a] \in Handlers
  /\ \A x \in Handlers, pc \in Steps, p \in Profiles :
       [x EXCEPT !.pc = pc, !.snapshot = p] \in Handlers
<1> DEFINE Codes == {0, 200, 202, 404, 500}
           Names == Apps \cup {None}
           Rows == Profiles \cup {None}
<1>1. Handlers = [pc : Steps, app : Names, snapshot : Rows, code : Codes, body : Rows]
  BY DEF Handlers
<1>2. Apps \subseteq Names /\ Profiles \subseteq Rows
  OBVIOUS
<1> HIDE DEF Codes, Names, Rows
<1>3. \A x \in Handlers, pc \in Steps : [x EXCEPT !.pc = pc] \in Handlers
  BY <1>1
<1>4. \A x \in Handlers, pc \in Steps, a \in Apps :
        [x EXCEPT !.pc = pc, !.app = a] \in Handlers
  BY <1>1, <1>2
<1>5. \A x \in Handlers, pc \in Steps, p \in Profiles :
        [x EXCEPT !.pc = pc, !.snapshot = p] \in Handlers
  BY <1>1, <1>2
<1> QED BY <1>3, <1>4, <1>5

(* A step writes one decision, of an application that had none, or none.   *)
LEMMA DecisionStep ==
  ASSUME Inv, [Next]_vars
  PROVE  \/ UNCHANGED decision
         \/ \E r \in Requests :
              /\ req[r].pc = "commit"
              /\ WriteDecision(r)
              /\ Commit(r) \/ CommitUnacknowledged(r)
<1>1. CASE UNCHANGED vars
  BY <1>1 DEF vars
<1>2. ASSUME NEW r \in Requests, Process(r)
      PROVE  \/ UNCHANGED decision
             \/ /\ req[r].pc = "commit"
                /\ WriteDecision(r)
                /\ Commit(r) \/ CommitUnacknowledged(r)
  BY <1>2 DEF Process, LoadApplication, CheckExisting, MarkProcessing, Commit,
              CommitUnacknowledged, CommitRejected, postgres
<1>3. ASSUME NEW r \in Requests, Requeue(r) \/ Respond(r) \/ RequestError(r)
      PROVE  UNCHANGED decision
  BY <1>3 DEF Requeue, Respond, RequestError, postgres
<1>4. ASSUME NEW r \in Requests, NEW a \in Apps, Receive(r, a)
      PROVE  UNCHANGED decision
  BY <1>4 DEF Receive, ReceiveUnknown, ReceiveDecided, ReceiveUndecided, postgres
<1>5. ASSUME NEW a \in Apps, UpdateBusiness(a) PROVE UNCHANGED decision
  BY <1>5 DEF UpdateBusiness
<1>6. ASSUME NEW e \in writing, AuditWritten(e) \/ AuditDropped(e)
      PROVE  UNCHANGED decision
  BY <1>6 DEF AuditWritten, AuditDropped, postgres
<1>7. CASE Exit
  BY <1>7 DEF Exit, postgres
<1> QED BY <1>1, <1>2, <1>3, <1>4, <1>5, <1>6, <1>7 DEF Next

(* A decision once made stays.                                             *)
LEMMA DecisionKeptStep ==
  ASSUME Inv, [Next]_vars
  PROVE  \A a \in Apps : decision[a] # None => decision'[a] = decision[a]
<1>1. CASE UNCHANGED decision
  BY <1>1
<1>2. ASSUME NEW r \in Requests, req[r].pc = "commit", WriteDecision(r)
      PROVE  \A a \in Apps : decision[a] # None => decision'[a] = decision[a]
  BY <1>2 DEF Inv, TypeOK, WriteDecision, Committable
<1> QED BY <1>1, <1>2, DecisionStep

-------------------------------------------------------------------------------
(* Type correctness.                                                       *)

LEMMA NextTypeOK == ASSUME Inv, [Next]_vars PROVE TypeOK'
<1> USE InlineAssumption DEF Inv, TypeOK
<1>1. CASE UNCHANGED vars
  BY <1>1 DEF vars
<1>2. ASSUME NEW r \in Requests, Process(r) PROVE TypeOK'
  <2>1. CASE LoadApplication(r)
    <3>1. profile[req[r].app] \in Profiles
      BY <2>1 DEF LoadApplication, HandlerInv, Running, Steps
    <3> QED BY <2>1, <3>1, Fields DEF LoadApplication, postgres, mongo, Steps
  <2>2. CASE CheckExisting(r)
    BY <2>2, Fields DEF CheckExisting, Goto, postgres, mongo, Steps
  <2>3. CASE MarkProcessing(r)
    BY <2>3, Fields DEF MarkProcessing, Goto, mongo, Steps, Statuses
  <2>4. ASSUME req[r].pc = "commit", WriteDecision(r)
        PROVE  decision' \in [Apps -> Profiles \cup {None}] /\ status' \in [Apps -> Statuses]
    BY <2>4 DEF WriteDecision, HandlerInv, Statuses
  <2>5. CASE Commit(r)
    <3>1. req[r].app \in Apps /\ req[r].snapshot \in Profiles
      BY <2>5 DEF Commit, HandlerInv, Running, Steps
    <3>2. Completed(r) \in Events
      BY <3>1 DEF Completed, Event, Events
    <3>3. req' \in [Requests -> Handlers]
      BY <2>5, Fields DEF Commit, Goto, Steps
    <3> QED BY <2>4, <2>5, <3>2, <3>3 DEF Commit
  <2>6. CASE CommitUnacknowledged(r)
    <3>1. req' \in [Requests -> Handlers]
      BY <2>6 DEF CommitUnacknowledged, Answer, Handlers, Steps
    <3> QED BY <2>4, <2>6, <3>1 DEF CommitUnacknowledged, mongo
  <2>7. CASE CommitRejected(r)
    BY <2>7 DEF CommitRejected, Answer, Handlers, Steps, postgres, mongo
  <2> QED BY <1>2, <2>1, <2>2, <2>3, <2>5, <2>6, <2>7 DEF Process
<1>3. ASSUME NEW r \in Requests, Requeue(r) \/ Respond(r) \/ RequestError(r)
      PROVE  TypeOK'
  <2>1. CASE Requeue(r)
    <3>1. Event("DECISION_REQUESTED", r, req[r].app, None) \in Events
      BY <2>1 DEF Requeue, Event, Events, HandlerInv, Running, Steps
    <3>2. req' \in [Requests -> Handlers]
      BY <2>1, Fields DEF Requeue, Goto, Steps
    <3>3. status' \in [Apps -> Statuses]
      BY <2>1 DEF Requeue, Statuses
    <3> QED BY <2>1, <3>1, <3>2, <3>3 DEF Requeue
  <2>2. CASE Respond(r)
    <3>1. req[r].app \in Apps /\ decision[req[r].app] \in Profiles \cup {None}
      BY <2>2 DEF Respond, HandlerInv, Running, Steps
    <3> QED BY <2>2, <3>1 DEF Respond, Answer, Handlers, Steps, postgres, mongo
  <2>3. CASE RequestError(r)
    BY <2>3 DEF RequestError, Answer, Handlers, Steps, postgres, mongo
  <2> QED BY <1>3, <2>1, <2>2, <2>3
<1>4. ASSUME NEW r \in Requests, NEW a \in Apps, Receive(r, a) PROVE TypeOK'
  <2>1. CASE ReceiveUndecided(r, a)
    BY <2>1, Fields DEF ReceiveUndecided, Steps, postgres, mongo
  <2>2. CASE ReceiveUnknown(r, a)
    BY <2>2 DEF ReceiveUnknown, Answer, Handlers, Steps, postgres, mongo
  <2>3. CASE ReceiveDecided(r, a)
    BY <2>3 DEF ReceiveDecided, Answer, Handlers, Steps, postgres, mongo
  <2> QED BY <1>4, <2>1, <2>2, <2>3 DEF Receive
<1>5. ASSUME NEW a \in Apps, UpdateBusiness(a) PROVE TypeOK'
  BY <1>5 DEF UpdateBusiness, mongo
<1>6. ASSUME NEW e \in writing, AuditWritten(e) \/ AuditDropped(e) PROVE TypeOK'
  BY <1>6 DEF AuditWritten, AuditDropped, postgres
<1>7. CASE Exit
  BY <1>7, Fields DEF Exit, postgres, Steps
<1> QED BY <1>1, <1>2, <1>3, <1>4, <1>5, <1>6, <1>7 DEF Next

-------------------------------------------------------------------------------
(* Handlers.                                                               *)

(* A handler moves alone, or all of them are lost together.                *)
LEMMA HandlerStep ==
  ASSUME Inv, [Next]_vars
  PROVE  \/ UNCHANGED req
         \/ Exit
         \/ \E r \in Requests, a \in Apps : Receive(r, a)
         \/ \E r \in Requests :
              Requeue(r) \/ Process(r) \/ Respond(r) \/ RequestError(r)
<1>1. CASE UNCHANGED vars
  BY <1>1 DEF vars
<1>2. ASSUME NEW a \in Apps, UpdateBusiness(a) PROVE UNCHANGED req
  BY <1>2 DEF UpdateBusiness
<1>3. ASSUME NEW e \in writing, AuditWritten(e) \/ AuditDropped(e)
      PROVE  UNCHANGED req
  BY <1>3 DEF AuditWritten, AuditDropped
<1> QED BY <1>1, <1>2, <1>3 DEF Next

LEMMA NextHandlerInv == ASSUME Inv, [Next]_vars PROVE HandlerInv'
<1> DEFINE Holds(q) ==
      /\ req[q].pc \in Running => req[q].app \in Apps
      /\ req[q].pc \in {"check", "mark", "commit"} => req[q].snapshot \in Profiles
      /\ req[q].pc # "answered" => req[q].code = 0
      /\ req[q].pc = "respond" => decision[req[q].app] # None
      /\ req[q].code = 202 => req[q].body # None
<1> SUFFICES ASSUME NEW q \in Requests PROVE Holds(q)'
  BY DEF HandlerInv
<1> USE InlineAssumption DEF Inv, TypeOK
<1>1. Holds(q)
  BY DEF HandlerInv
<1>2. \A a \in Apps : decision[a] # None => decision'[a] # None
  BY DecisionKeptStep
<1>3. ASSUME req'[q] = req[q] PROVE Holds(q)'
  BY <1>1, <1>2, <1>3 DEF Running, Steps
<1>4. CASE Exit
  <2>1. CASE req[q].pc \in Running
    <3>1. /\ req'[q].pc = "lost"
          /\ req'[q].code = req[q].code
      BY <1>4, <2>1 DEF Exit, Handlers
    <3>2. req[q].code = 0
      BY <1>1, <2>1 DEF Running
    <3> QED BY <3>1, <3>2 DEF Running
  <2>2. CASE req[q].pc \notin Running
    BY <1>3, <1>4, <2>2 DEF Exit
  <2> QED BY <2>1, <2>2
<1>5. ASSUME NEW r \in Requests, NEW a \in Apps, Receive(r, a) PROVE Holds(q)'
  <2>1. CASE q # r
    BY <1>3, <1>5, <2>1 DEF Receive, ReceiveUnknown, ReceiveDecided,
                            ReceiveUndecided, Answer
  <2>2. CASE q = r
    BY <1>1, <1>5, <2>2 DEF Receive, ReceiveUnknown, ReceiveDecided,
                            ReceiveUndecided, Answer, Running, Steps, Handlers
  <2> QED BY <2>1, <2>2
<1>6. ASSUME NEW r \in Requests, Requeue(r) \/ Respond(r) \/ RequestError(r)
      PROVE  Holds(q)'
  <2>1. CASE q # r
    BY <1>3, <1>6, <2>1 DEF Requeue, Respond, RequestError, Goto, Answer
  <2>2. CASE q = r
    BY <1>1, <1>6, <2>2 DEF Requeue, Respond, RequestError, Goto, Answer,
                            Running, Steps, Handlers
  <2> QED BY <2>1, <2>2
<1>7. ASSUME NEW r \in Requests, Process(r) PROVE Holds(q)'
  <2>1. CASE q # r
    BY <1>3, <1>7, <2>1 DEF Process, LoadApplication, CheckExisting,
         MarkProcessing, Commit, CommitUnacknowledged, CommitRejected, Goto, Answer
  <2>2. CASE q = r /\ LoadApplication(r)
    BY <1>1, <2>2 DEF LoadApplication, Running, Steps, Handlers
  <2>3. CASE q = r /\ CheckExisting(r)
    BY <1>1, <2>3 DEF CheckExisting, Goto, postgres, Running, Steps, Handlers
  <2>4. CASE q = r /\ MarkProcessing(r)
    BY <1>1, <2>4 DEF MarkProcessing, Goto, Running, Steps, Handlers
  <2>5. CASE q = r /\ Commit(r)
    <3>1. req[r].app \in Apps /\ req[r].snapshot \in Profiles
      BY <1>1, <2>5 DEF Commit, Running, Steps
    <3>2. decision'[req[r].app] # None
      BY <2>5, <3>1 DEF Commit, WriteDecision
    <3> QED BY <1>1, <2>5, <3>1, <3>2 DEF Commit, Goto, Running, Steps, Handlers
  <2>6. CASE q = r /\ (CommitUnacknowledged(r) \/ CommitRejected(r))
    BY <2>6 DEF CommitUnacknowledged, CommitRejected, Answer, Running, Steps
  <2> QED BY <1>7, <2>1, <2>2, <2>3, <2>4, <2>5, <2>6 DEF Process
<1> QED BY <1>3, <1>4, <1>5, <1>6, <1>7, HandlerStep

-------------------------------------------------------------------------------
(* The trail.                                                              *)

(* The only event of a completion is the one a commit sends.               *)
LEMMA CompletionStep ==
  ASSUME Inv, [Next]_vars
  PROVE  \/ Completions' \subseteq Completions
         \/ \E r \in Requests :
              Commit(r) /\ Completions' = Completions \cup {Completed(r)}
<1>1. CASE UNCHANGED mongo
  BY <1>1 DEF Completions, mongo
<1>2. ASSUME NEW r \in Requests, Requeue(r) PROVE Completions' = Completions
  BY <1>2 DEF Requeue, Event, Completions
<1>3. ASSUME NEW r \in Requests, Commit(r)
      PROVE  Completions' = Completions \cup {Completed(r)}
  BY <1>3 DEF Commit, Completed, Event, Completions
<1>4. ASSUME NEW e \in writing, AuditWritten(e) \/ AuditDropped(e)
      PROVE  Completions' \subseteq Completions
  BY <1>4 DEF AuditWritten, AuditDropped, Completions
<1>5. CASE Exit
  BY <1>5 DEF Exit, Completions
<1>6. ASSUME NEW r \in Requests, Process(r), ~Commit(r) PROVE UNCHANGED mongo
  BY <1>6 DEF Process, LoadApplication, CheckExisting, MarkProcessing,
              CommitUnacknowledged, CommitRejected, mongo
<1>7. ASSUME NEW r \in Requests, Respond(r) \/ RequestError(r)
      PROVE  UNCHANGED mongo
  BY <1>7 DEF Respond, RequestError, mongo
<1>8. ASSUME NEW r \in Requests, NEW a \in Apps, Receive(r, a)
      PROVE  UNCHANGED mongo
  BY <1>8 DEF Receive, ReceiveUnknown, ReceiveDecided, ReceiveUndecided, mongo
<1>9. ASSUME NEW a \in Apps, UpdateBusiness(a) PROVE UNCHANGED mongo
  BY <1>9 DEF UpdateBusiness
<1>10. CASE UNCHANGED vars
  BY <1>1, <1>10 DEF vars, mongo
<1> QED BY <1>1, <1>2, <1>3, <1>4, <1>5, <1>6, <1>7, <1>8, <1>9, <1>10 DEF Next

LEMMA NextTrailInv == ASSUME Inv, [Next]_vars PROVE TrailInv'
<1>1. \A e \in Completions : e.app \in Apps
  BY DEF Inv, TypeOK, Completions, Events
<1>2. \A e \in Completions : /\ decision[e.app] = e.verdict
                             /\ e.verdict # None
                             /\ decision'[e.app] = decision[e.app]
  BY <1>1, DecisionKeptStep DEF Inv, TrailInv, TrailIsTrue
<1>3. CASE Completions' \subseteq Completions
  BY <1>2, <1>3 DEF Inv, TrailInv, TrailIsTrue
<1>4. ASSUME NEW r \in Requests, Commit(r),
             Completions' = Completions \cup {Completed(r)}
      PROVE  TrailInv'
  <2> DEFINE c == Completed(r)
  <2>1. req[r].app \in Apps /\ req[r].snapshot \in Profiles
    BY <1>4 DEF Commit, Inv, HandlerInv, Running, Steps
  <2>2. /\ decision[req[r].app] = None
        /\ decision'[req[r].app] = req[r].snapshot
    BY <1>4, <2>1 DEF Commit, WriteDecision, Committable, Inv, TypeOK
  <2>3. c.app = req[r].app /\ c.verdict = req[r].snapshot
    BY DEF Completed, Event
  <2>4. \A e \in Completions : e.app # c.app
    BY <1>2, <2>2, <2>3
  <2>5. decision'[c.app] = c.verdict /\ c.verdict # None
    BY <2>1, <2>2, <2>3, InlineAssumption
  <2> HIDE DEF c
  <2>6. Completions' = Completions \cup {c}
    BY <1>4 DEF c
  <2> QED BY <1>2, <2>4, <2>5, <2>6 DEF Inv, TrailInv, TrailIsTrue
<1> QED BY <1>3, <1>4, CompletionStep

-------------------------------------------------------------------------------
(* The theorems.                                                           *)

LEMMA InitInv == Init => Inv
<1> SUFFICES ASSUME Init PROVE Inv
  OBVIOUS
<1>1. TypeOK
  BY DEF Init, TypeOK, Statuses, Handlers, NewHandler, Steps
<1>2. HandlerInv
  BY DEF Init, HandlerInv, NewHandler, Running
<1>3. TrailInv
  BY DEF Init, TrailInv, TrailIsTrue, Completions
<1> QED BY <1>1, <1>2, <1>3 DEF Inv

LEMMA NextInv == Inv /\ [Next]_vars => Inv'
  BY NextTypeOK, NextHandlerInv, NextTrailInv DEF Inv

\* The rows, the handlers and the audit events keep their types.
THEOREM InlineTypeCorrect == Spec => []TypeOK
<1>1. Inv => TypeOK
  BY DEF Inv
<1> QED BY <1>1, InitInv, NextInv, PTL DEF Spec

\* A request accepted in inline mode is answered with a decision.
THEOREM InlineAnswersDecision == Spec => []AcceptedIsDecided
<1>1. Inv => AcceptedIsDecided
  BY DEF Inv, HandlerInv, AcceptedIsDecided
<1> QED BY <1>1, InitInv, NextInv, PTL DEF Spec

\* What the audit trail says was completed was, once, and with that verdict.
THEOREM TrailNeverLies == Spec => []TrailIsTrue
<1>1. Inv => TrailIsTrue
  BY DEF Inv, TrailInv
<1> QED BY <1>1, InitInv, NextInv, PTL DEF Spec

-------------------------------------------------------------------------------
(* The contract.                                                           *)

LEMMA InlineInitRefines == Init => Contract!Init
  BY DEF Init, Contract!Init, Body, NewHandler

LEMMA InlineStepRefines ==
  ASSUME Inv, [Next]_vars PROVE [Contract!Next]_(Contract!vars)
<1> DEFINE bodies == [r \in Requests |-> Body(r)]
<1> USE InlineAssumption DEF Inv, TypeOK
<1>1. ASSUME NEW r \in Requests, req[r].pc # "answered", UNCHANGED bodies,
             WriteDecision(r), req[r].pc = "commit"
      PROVE  Contract!Next
  <2>1. req[r].app \in Apps /\ req[r].snapshot \in Profiles
    BY <1>1 DEF HandlerInv, Running, Steps
  <2>2. Contract!Decide(req[r].app)
    BY <1>1, <2>1 DEF WriteDecision, Committable, Contract!Decide
  <2> QED BY <2>1, <2>2 DEF Contract!Next
<1>2. ASSUME NEW r \in Requests, req[r].code \notin {200, 202},
             req'[r].code \notin {200, 202},
             \A q \in Requests : q # r => req'[q] = req[q]
      PROVE  UNCHANGED bodies
  BY <1>2 DEF Body
<1>3. ASSUME UNCHANGED decision, NEW r \in Requests, NEW a \in Apps,
             req[r].code = 0, req'[r].code \in {200, 202},
             req'[r].app = a, req'[r].body = decision[a],
             \A q \in Requests : q # r => req'[q] = req[q]
      PROVE  Contract!Next
  <2>1. bodies[r] = None
    BY <1>3 DEF Body
  <2>2. Body(r)' = [app |-> a, decision |-> decision[a]]
    BY <1>3 DEF Body
  <2>3. \A q \in Requests : q # r => Body(q)' = Body(q)
    BY <1>3 DEF Body
  <2>4. bodies' = [bodies EXCEPT ![r] = [app |-> a, decision |-> decision[a]]]
    BY <2>2, <2>3
  <2>5. Contract!Answer(r, a)
    BY <1>3, <2>1, <2>4 DEF Contract!Answer
  <2> QED BY <2>5 DEF Contract!Next
<1>4. \A r \in Requests : req[r].pc # "answered" => req[r].code = 0
  BY DEF HandlerInv
<1>5. CASE UNCHANGED decision
  <2>1. ASSUME UNCHANGED bodies PROVE UNCHANGED Contract!vars
    BY <1>5, <2>1 DEF Contract!vars
  <2>2. CASE UNCHANGED req
    BY <2>1, <2>2 DEF Body
  <2>3. CASE Exit
    <3>1. \A q \in Requests : Body(q)' = Body(q)
      BY <1>4, <2>3 DEF Exit, Body, Running, Steps, Handlers
    <3> QED BY <2>1, <3>1
  <2>4. ASSUME NEW r \in Requests, NEW a \in Apps, Receive(r, a)
        PROVE  [Contract!Next]_(Contract!vars)
    <3>1. CASE ReceiveUnknown(r, a)
      BY <1>2, <1>4, <2>1, <3>1 DEF ReceiveUnknown, Answer
    <3>2. CASE ReceiveDecided(r, a)
      BY <1>3, <1>4, <1>5, <3>2 DEF ReceiveDecided, Answer
    <3>3. CASE ReceiveUndecided(r, a)
      BY <1>2, <1>4, <2>1, <3>3 DEF ReceiveUndecided, Handlers
    <3> QED BY <2>4, <3>1, <3>2, <3>3 DEF Receive
  <2>5. ASSUME NEW r \in Requests, Respond(r) PROVE Contract!Next
    <3>1. req[r].app \in Apps
      BY <2>5 DEF Respond, HandlerInv, Running, Steps
    <3> QED BY <1>3, <1>4, <1>5, <2>5, <3>1 DEF Respond, Answer
  <2>6. ASSUME NEW r \in Requests, Requeue(r) \/ RequestError(r)
        PROVE  UNCHANGED Contract!vars
    BY <1>2, <1>4, <2>1, <2>6 DEF Requeue, RequestError, Goto, Answer, Running,
                                  Steps, Handlers
  <2>7. ASSUME NEW r \in Requests, Process(r) PROVE UNCHANGED Contract!vars
    BY <1>2, <1>4, <2>1, <2>7 DEF Process, LoadApplication, CheckExisting,
         MarkProcessing, Commit, CommitUnacknowledged, CommitRejected, Goto, Answer,
         Handlers
  <2> QED BY <2>1, <2>2, <2>3, <2>4, <2>5, <2>6, <2>7, HandlerStep
<1>6. ASSUME NEW r \in Requests, req[r].pc = "commit", WriteDecision(r),
             Commit(r) \/ CommitUnacknowledged(r)
      PROVE  Contract!Next
  <2>1. UNCHANGED bodies
    BY <1>2, <1>4, <1>6 DEF Commit, CommitUnacknowledged, Goto, Answer, Handlers
  <2> QED BY <1>1, <1>6, <2>1
<1> QED BY <1>5, <1>6, DecisionStep

\* Inline mode keeps the contract of the queue: any number of handlers at
\* once, errors and exits leave one decision, and answers that agree with it.
THEOREM InlineMeetsContract == Spec => MeetsContract
  BY InlineInitRefines, InlineStepRefines, InitInv, NextInv,
     PTL DEF Spec, MeetsContract, Contract!Spec
-------------------------------------------------------------------------------
(* The status column.                                                      *)

\* A handler that found the application undecided and went on.
Asked(r, a) == /\ req[r].pc # "new"
               /\ req[r].app = a
               /\ req[r].code \notin {200, 404}

\* A handler that is past its transaction.
Past(r) == req[r].pc \in {"respond", "answered", "lost"}

\* Who overwrote what: a decision belongs to a handler that is done with it, a
\* status other than DECIDED over it to another one, and PROCESSING to one
\* that is about to commit or never will.
RaceInv ==
  \A a \in Apps :
    /\ decision[a] # None => \E r \in Requests : Asked(r, a) /\ Past(r)
    /\ decision[a] # None /\ status[a] # "DECIDED" =>
         \E r, s \in Requests : r # s /\ Asked(r, a) /\ Asked(s, a)
    /\ status[a] = "PROCESSING" =>
         \E r \in Requests :
           /\ Asked(r, a)
           /\ req[r].pc \in {"commit", "lost"} \/ req[r].code = 500

(* A handler that asked stays one, and what is over for it stays over.     *)
LEMMA AskedStays ==
  ASSUME Inv, [Next]_vars, NEW q \in Requests, NEW b \in Apps, Asked(q, b)
  PROVE  /\ Asked(q, b)'
         /\ Past(q) => Past(q)'
         /\ req[q].pc = "lost" => req'[q].pc = "lost"
         /\ req[q].code = 500 => req'[q].code = 500
         /\ req[q].pc = "commit" =>
              \/ req'[q].pc \in {"commit", "lost"}
              \/ req'[q].code = 500
              \/ Commit(q)
<1> USE DEF Asked, Past, Inv, TypeOK
<1>1. CASE req'[q] = req[q]
  BY <1>1
<1>2. CASE Exit
  BY <1>2 DEF Exit, HandlerInv, Running, Handlers
<1>3. ASSUME NEW r \in Requests, NEW a \in Apps, Receive(r, a)
      PROVE  req'[q] = req[q]
  BY <1>3 DEF Receive, ReceiveUnknown, ReceiveDecided, ReceiveUndecided, Answer
<1>4. ASSUME NEW r \in Requests, q # r,
             Requeue(r) \/ Process(r) \/ Respond(r) \/ RequestError(r)
      PROVE  req'[q] = req[q]
  BY <1>4 DEF Requeue, Respond, RequestError, Process, LoadApplication,
       CheckExisting, MarkProcessing, Commit, CommitUnacknowledged,
       CommitRejected, Goto, Answer
<1>5. CASE Requeue(q) \/ Respond(q) \/ RequestError(q)
  BY <1>5 DEF Requeue, Respond, RequestError, Goto, Answer, HandlerInv, Running,
              Steps, Handlers
<1>6. CASE Process(q)
  <2>1. CASE LoadApplication(q) \/ CheckExisting(q) \/ MarkProcessing(q)
    BY <2>1 DEF LoadApplication, CheckExisting, MarkProcessing, Goto, HandlerInv,
                Handlers
  <2>2. CASE Commit(q)
    BY <2>2 DEF Commit, Goto, HandlerInv, Handlers
  <2>3. CASE CommitUnacknowledged(q) \/ CommitRejected(q)
    BY <2>3 DEF CommitUnacknowledged, CommitRejected, Answer, HandlerInv
  <2> QED BY <1>6, <2>1, <2>2, <2>3 DEF Process
<1> QED BY <1>1, <1>2, <1>3, <1>4, <1>5, <1>6, HandlerStep

(* The three statements that write the status.                             *)
LEMMA StatusStep ==
  ASSUME Inv, [Next]_vars
  PROVE  \/ UNCHANGED <<status, decision>>
         \/ \E r \in Requests :
              \/ Requeue(r)
              \/ MarkProcessing(r)
              \/ /\ req[r].pc = "commit" /\ WriteDecision(r)
                 /\ Commit(r) \/ CommitUnacknowledged(r)
<1>1. CASE UNCHANGED vars
  BY <1>1 DEF vars
<1>2. ASSUME NEW r \in Requests, Process(r)
      PROVE  \/ UNCHANGED <<status, decision>>
             \/ MarkProcessing(r)
             \/ /\ req[r].pc = "commit" /\ WriteDecision(r)
                /\ Commit(r) \/ CommitUnacknowledged(r)
  BY <1>2 DEF Process, LoadApplication, CheckExisting, Commit,
              CommitUnacknowledged, CommitRejected, postgres
<1>3. ASSUME NEW r \in Requests, Respond(r) \/ RequestError(r)
      PROVE  UNCHANGED <<status, decision>>
  BY <1>3 DEF Respond, RequestError, postgres
<1>4. ASSUME NEW r \in Requests, NEW a \in Apps, Receive(r, a)
      PROVE  UNCHANGED <<status, decision>>
  BY <1>4 DEF Receive, ReceiveUnknown, ReceiveDecided, ReceiveUndecided, postgres
<1>5. ASSUME NEW a \in Apps, UpdateBusiness(a) PROVE UNCHANGED <<status, decision>>
  BY <1>5 DEF UpdateBusiness
<1>6. ASSUME NEW e \in writing, AuditWritten(e) \/ AuditDropped(e)
      PROVE  UNCHANGED <<status, decision>>
  BY <1>6 DEF AuditWritten, AuditDropped, postgres
<1>7. CASE Exit
  BY <1>7 DEF Exit, postgres
<1> QED BY <1>1, <1>2, <1>3, <1>4, <1>5, <1>6, <1>7 DEF Next

LEMMA NextRaceInv == Inv /\ RaceInv /\ [Next]_vars => RaceInv'
<1> SUFFICES ASSUME Inv, RaceInv, [Next]_vars, NEW b \in Apps
             PROVE
      /\ decision'[b] # None => \E r \in Requests : Asked(r, b)' /\ Past(r)'
      /\ decision'[b] # None /\ status'[b] # "DECIDED" =>
           \E r, s \in Requests : r # s /\ Asked(r, b)' /\ Asked(s, b)'
      /\ status'[b] = "PROCESSING" =>
           \E r \in Requests :
             /\ Asked(r, b)'
             /\ req'[r].pc \in {"commit", "lost"} \/ req'[r].code = 500
  BY DEF RaceInv
<1>1. \A q \in Requests : Asked(q, b) =>
        /\ Asked(q, b)'
        /\ Past(q) => Past(q)'
        /\ req[q].pc = "lost" => req'[q].pc = "lost"
        /\ req[q].code = 500 => req'[q].code = 500
        /\ req[q].pc = "commit" => \/ req'[q].pc \in {"commit", "lost"}
                                   \/ req'[q].code = 500
                                   \/ Commit(q)
  BY AskedStays
<1>2. ASSUME NEW q \in Requests, Commit(q), req[q].app = b
      PROVE  status'[b] = "DECIDED"
  BY <1>2 DEF Commit, WriteDecision, Inv, TypeOK
<1>3. CASE status'[b] = status[b] /\ decision'[b] = decision[b]
  <2>1. ASSUME status[b] = "PROCESSING", NEW q \in Requests, Asked(q, b)
        PROVE  ~Commit(q)
    BY <1>2, <1>3, <2>1 DEF Asked
  <2> QED BY <1>1, <1>3, <2>1 DEF RaceInv
<1>4. ASSUME NEW r \in Requests, req[r].app = b, Asked(r, b), ~Past(r),
             decision'[b] = decision[b],
             status'[b] = "PROCESSING" => req'[r].pc = "commit"
      PROVE
      /\ decision'[b] # None => \E q \in Requests : Asked(q, b)' /\ Past(q)'
      /\ decision'[b] # None /\ status'[b] # "DECIDED" =>
           \E q, s \in Requests : q # s /\ Asked(q, b)' /\ Asked(s, b)'
      /\ status'[b] = "PROCESSING" =>
           \E q \in Requests :
             /\ Asked(q, b)'
             /\ req'[q].pc \in {"commit", "lost"} \/ req'[q].code = 500
  <2>1. decision[b] # None => \E q \in Requests : Asked(q, b) /\ Past(q) /\ q # r
    BY <1>4 DEF RaceInv
  <2> QED BY <1>1, <1>4, <2>1
<1>5. ASSUME NEW r \in Requests, Requeue(r), req[r].app = b
      PROVE  /\ Asked(r, b) /\ ~Past(r) /\ decision'[b] = decision[b]
             /\ status'[b] # "PROCESSING"
  BY <1>5 DEF Requeue, Asked, Past, Inv, TypeOK, HandlerInv
<1>6. ASSUME NEW r \in Requests, MarkProcessing(r), req[r].app = b
      PROVE  /\ Asked(r, b) /\ ~Past(r) /\ decision'[b] = decision[b]
             /\ req'[r].pc = "commit"
  BY <1>6 DEF MarkProcessing, Goto, Asked, Past, Inv, TypeOK, HandlerInv, Handlers
<1>7. ASSUME NEW r \in Requests, req[r].pc = "commit", WriteDecision(r),
             Commit(r) \/ CommitUnacknowledged(r), req[r].app = b
      PROVE  status'[b] = "DECIDED" /\ Asked(r, b)' /\ Past(r)'
  <2>1. Asked(r, b)
    BY <1>7 DEF Asked, Inv, HandlerInv
  <2>2. status'[b] = "DECIDED"
    BY <1>7 DEF WriteDecision, Inv, TypeOK
  <2>3. req'[r].pc \in {"respond", "answered"}
    BY <1>7 DEF Commit, CommitUnacknowledged, Goto, Answer, Inv, TypeOK, Handlers
  <2> QED BY <1>1, <2>1, <2>2, <2>3 DEF Past
<1>8. ASSUME NEW r \in Requests, req[r].app # b,
             Requeue(r) \/ MarkProcessing(r) \/ WriteDecision(r)
      PROVE  status'[b] = status[b] /\ decision'[b] = decision[b]
  BY <1>8 DEF Requeue, MarkProcessing, WriteDecision, Inv, TypeOK
<1> QED BY <1>3, <1>4, <1>5, <1>6, <1>7, <1>8, StatusStep

LEMMA InitRaceInv == Init => RaceInv
  BY DEF Init, RaceInv

\* A decision under another status takes two handlers that both found none.
THEOREM ShadowTakesTwo == Spec => []ShadowedByRace
<1>1. RaceInv => ShadowedByRace
  BY DEF RaceInv, ShadowedByRace, Asked
<1> QED BY <1>1, InitInv, NextInv, InitRaceInv, NextRaceInv, PTL DEF Spec

\* A row is never left PROCESSING behind the back of every client that asked.
THEOREM StuckIsKnown == Spec => []StuckIsReported
<1>1. RaceInv => StuckIsReported
  BY DEF RaceInv, StuckIsReported, Asked, Running, Steps
<1> QED BY <1>1, InitInv, NextInv, InitRaceInv, NextRaceInv, PTL DEF Spec
===============================================================================
