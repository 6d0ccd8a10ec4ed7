--------------------------- MODULE DecisionContract ---------------------------
(***************************************************************************)
(* What POST /applications/:id/decision promises, whatever runs the        *)
(* engine: an application receives at most one decision, it keeps it, and  *)
(* every answer that carries a decision carries that one.                  *)
(* (decision.service.ts: "Idempotent by design ... must not be able to     *)
(* produce a second, possibly different, decision".)                       *)
(***************************************************************************)
CONSTANTS
  Apps,      \* loan applications
  Verdicts,  \* what the engine can return for them
  Requests,  \* POST requests, one identity per request id
  None       \* "no decision", "no answer"

VARIABLES
  stored,    \* the decision each application has, or None
  answered   \* the body each request was answered with, or None

vars == <<stored, answered>>

Answers == [app : Apps, decision : Verdicts \cup {None}]

TypeOK == /\ stored \in [Apps -> Verdicts \cup {None}]
          /\ answered \in [Requests -> Answers \cup {None}]

Init == /\ stored = [a \in Apps |-> None]
        /\ answered = [r \in Requests |-> None]

Decide(a) == /\ stored[a] = None
             /\ \E v \in Verdicts : stored' = [stored EXCEPT ![a] = v]
             /\ UNCHANGED answered

Answer(r, a) ==
  /\ answered[r] = None
  /\ answered' = [answered EXCEPT ![r] = [app |-> a, decision |-> stored[a]]]
  /\ UNCHANGED stored

Next == \/ \E a \in Apps : Decide(a)
        \/ \E r \in Requests, a \in Apps : Answer(r, a)

Spec == Init /\ [][Next]_vars
===============================================================================
