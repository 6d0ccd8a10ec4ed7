-------------------------- MODULE MCDecisionLifecycle --------------------------
(* Small instances of DecisionLifecycle for TLC.                           *)
EXTENDS DecisionLifecycle, TLC

CONSTANTS a1, a2, b1, p1, p2

\* All applications belong to one business.
OneBusiness == [a \in Apps |-> b1]

\* The engine has no reason to give for a1.
NoReasonForA1 == {<<a1, p1>>}
NoneReasonless == {}

EveryFault == FaultSites
NoFaults == {}
WorkerFaults == {"worker"}

\* Lanes are interchangeable, and so are requests, and profiles that all have
\* their reasons.
Symmetry == Permutations(Lanes) \cup Permutations(Requests)
              \cup Permutations(Profiles)
===============================================================================
