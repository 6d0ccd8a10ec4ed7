--------------------------- MODULE ApprovableAmount ---------------------------
(***************************************************************************)
(* findMaxApprovableAmount: the binary search for the largest loan an      *)
(* applicant would get at the same tenure, over whatever engine answers    *)
(* Approves(applicant, amount).                                            *)
(***************************************************************************)
EXTENDS Integers

CONSTANTS
  Applicants,     \* everything about an input but its amount
  Amounts,        \* the amounts that may be asked for
  Approves(_, _), \* evaluate({...input, requestedAmount}).outcome = 'APPROVED'
  minAmount,      \* the smallest loan there is
  tolerance,      \* how close the bracket gets
  Thousand,       \* 1 000 rupees: answers are rounded down to a multiple of it
  Null            \* no amount within policy

ASSUME SearchAssumption ==
  /\ minAmount \in Nat
  /\ tolerance \in Nat \ {0}
  /\ Thousand \in Nat \ {0}
  /\ Amounts \subseteq Nat
  /\ \A x \in Amounts : x >= minAmount
  /\ minAmount % Thousand = 0
  /\ Null \notin Nat
  /\ \A p \in Applicants, x \in Amounts : Approves(p, x) \in BOOLEAN

VARIABLES
  applicant,  \* the input ...
  requested,  \* ... and its requestedAmount
  pc,         \* where the function stands
  low, high,  \* the bracket
  answer      \* what it returned

vars == <<applicant, requested, pc, low, high, answer>>
input == <<applicant, requested>>

\* Neither the bracket nor an answer leaves the range from the smallest loan
\* to the request.
TypeOK == /\ applicant \in Applicants
          /\ requested \in Amounts
          /\ pc \in {"start", "search", "done"}
          /\ low \in minAmount..requested
          /\ high \in minAmount..requested
          /\ answer \in (minAmount..requested) \cup {Null}

Init == /\ applicant \in Applicants
        /\ requested \in Amounts
        /\ pc = "start"
        /\ low = minAmount /\ high = requested
        /\ answer = Null

OK(x) == Approves(applicant, x)

Return(x) == pc' = "done" /\ answer' = x

\* Not even the smallest loan.
RefuseAll == /\ pc = "start"
             /\ ~OK(minAmount)
             /\ Return(Null)
             /\ UNCHANGED <<input, low, high>>

\* The request itself would do.
AcceptRequest == /\ pc = "start"
                 /\ OK(minAmount) /\ OK(requested)
                 /\ Return(requested)
                 /\ UNCHANGED <<input, low, high>>

Begin == /\ pc = "start"
         /\ OK(minAmount) /\ ~OK(requested)
         /\ pc' = "search"
         /\ UNCHANGED <<input, low, high, answer>>

\* Mutant: the sum of the ends is not halved.
mid_Sum == low + high

mid == (low + high) \div 2

\* Mutant: the bracket moves the wrong way.
Halve_Swapped ==
  /\ pc = "search"
  /\ high - low > tolerance
  /\ IF OK(mid) THEN high' = mid /\ low' = low
                ELSE low' = mid /\ high' = high
  /\ UNCHANGED <<input, pc, answer>>

\* Mutant: mid is taken for tested and low steps over it.
Halve_PastMid ==
  /\ pc = "search"
  /\ high - low > tolerance
  /\ IF OK(mid) THEN low' = mid + 1 /\ high' = high
                ELSE high' = mid /\ low' = low
  /\ UNCHANGED <<input, pc, answer>>

Halve == /\ pc = "search"
         /\ high - low > tolerance
         /\ IF OK(mid) THEN low' = mid /\ high' = high
                       ELSE high' = mid /\ low' = low
         /\ UNCHANGED <<input, pc, answer>>

\* Mutant: rounded up.
roundedDown_Up(x) == ((x + Thousand - 1) \div Thousand) * Thousand

\* Mutant: rounded to ten thousands.
roundedDown_Coarse(x) == (x \div (10 * Thousand)) * (10 * Thousand)

roundedDown(x) == (x \div Thousand) * Thousand

\* Mutant: the search ends only when the bracket is empty.
Finish_WhenEmpty == /\ pc = "search"
                    /\ high = low
                    /\ Return(roundedDown(low))
                    /\ UNCHANGED <<input, low, high>>

Finish == /\ pc = "search"
          /\ high - low <= tolerance
          /\ Return(roundedDown(low))
          /\ UNCHANGED <<input, low, high>>

Next == RefuseAll \/ AcceptRequest \/ Begin \/ Halve \/ Finish

\* The function runs to its end.
Spec == Init /\ [][Next]_vars /\ WF_vars(Next)

-------------------------------------------------------------------------------
\* The loop keeps an approved amount below and a refused one above: what makes
\* its last bracket an answer.
Bracket == pc = "search" => OK(low) /\ ~OK(high) /\ low < high

\* What is offered, after the rounding too, is within the request and would be
\* approved: the applicant who asks for it is not declined again.
OfferApproved ==
  pc = "done" /\ answer # Null => answer <= requested /\ OK(answer)

\* A larger loan is never approved where a smaller one is refused: what the
\* search takes for granted of the engine.
Monotone ==
  \A p \in Applicants, x, y \in Nat :
    minAmount <= x /\ x <= y /\ Approves(p, y) => Approves(p, x)

\* What is offered cannot be bettered by more than the tolerance and the
\* rounding, and null is answered only when no amount would do.
OfferMaximal ==
  pc = "done" =>
    \/ answer = requested
    \/ answer = Null /\ \A x \in Amounts : ~OK(x)
    \/ answer # Null /\ ~OK(answer + tolerance + Thousand)

\* The loop ends: the bracket shrinks with every turn.
SearchEnds == <>(pc = "done")
===============================================================================
