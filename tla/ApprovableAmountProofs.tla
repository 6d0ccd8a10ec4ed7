------------------------- MODULE ApprovableAmountProofs -------------------------
(***************************************************************************)
(* The search for the largest approvable amount, for every engine, every   *)
(* tolerance and every rounding step.                                      *)
(***************************************************************************)
EXTENDS ApprovableAmount, TLAPS

\* Rounding down to a multiple of Thousand moves by less than one step, and not
\* past a multiple of it.
LEMMA RoundedDown ==
  ASSUME NEW x \in Nat, x >= minAmount
  PROVE  /\ roundedDown(x) \in Nat
         /\ roundedDown(x) <= x
         /\ x < roundedDown(x) + Thousand
         /\ roundedDown(x) >= minAmount
<1> DEFINE q == x \div Thousand
           m == minAmount \div Thousand
<1>1. /\ Thousand \in Nat \ {0} /\ minAmount \in Nat
      /\ minAmount % Thousand = 0
  BY SearchAssumption
<1>2. /\ q \in Nat /\ x = Thousand * q + (x % Thousand)
      /\ x % Thousand \in 0..(Thousand - 1)
  BY <1>1, SMTT(30)
<1>3. m \in Nat /\ minAmount = Thousand * m
  BY <1>1, SMTT(30)
<1> HIDE DEF q, m
<1>4. q * Thousand = Thousand * q /\ q * Thousand \in Nat
  BY <1>1, <1>2
<1>5. m <= q
  <2> SUFFICES ASSUME q + 1 <= m PROVE FALSE
    BY <1>2, <1>3
  <2>1. Thousand * (q + 1) <= Thousand * m
    BY <1>1, <1>2, <1>3
  <2>2. Thousand * (q + 1) = Thousand * q + Thousand
    BY <1>1, <1>2
  <2> QED BY <2>1, <2>2, <1>1, <1>2, <1>3, <1>4
<1>6. Thousand * m <= Thousand * q
  BY <1>1, <1>2, <1>3, <1>5
<1>7. roundedDown(x) = q * Thousand
  BY DEF roundedDown, q
<1> QED BY <1>1, <1>2, <1>3, <1>4, <1>6, <1>7

\* The middle of a bracket wider than the tolerance lies strictly inside it.
LEMMA MidInside ==
  ASSUME low \in Nat, high \in Nat, high - low > tolerance
  PROVE  mid \in Nat /\ low < mid /\ mid < high
<1>1. high - low >= 2
  BY SearchAssumption
<1> QED BY <1>1 DEF mid

\* Until the loop begins the bracket is the whole range.
WholeRange == pc = "start" => low = minAmount /\ high = requested

Inv == TypeOK /\ Bracket /\ WholeRange

LEMMA InitInv == Init => Inv
BY SearchAssumption DEF Init, Inv, TypeOK, Bracket, WholeRange, OK

LEMMA NextInv == Inv /\ [Next]_vars => Inv'
<1> SUFFICES ASSUME Inv, [Next]_vars PROVE Inv'
  OBVIOUS
<1> USE SearchAssumption
<1>0. /\ minAmount \in Nat /\ requested \in Nat /\ minAmount <= requested
      /\ low \in Nat /\ high \in Nat
  BY DEF Inv, TypeOK
<1>1. CASE RefuseAll
  BY <1>1 DEF RefuseAll, Return, Inv, TypeOK, Bracket, WholeRange, OK, input
<1>2. CASE AcceptRequest
  BY <1>0, <1>2 DEF AcceptRequest, Return, Inv, TypeOK, Bracket, WholeRange, OK, input
<1>3. CASE Begin
  <2>1. /\ low = minAmount /\ high = requested /\ low # high /\ low < high
        /\ OK(low) /\ ~OK(high)
    BY <1>0, <1>3 DEF Begin, Inv, WholeRange, OK
  <2>2. TypeOK' /\ WholeRange'
    BY <1>3 DEF Begin, Inv, TypeOK, WholeRange, input
  <2>3. Bracket'
    BY <1>3, <2>1 DEF Begin, Bracket, OK, input
  <2> QED BY <2>2, <2>3 DEF Inv
<1>4. CASE Halve
  <2>1. mid \in Nat /\ low < mid /\ mid < high
    BY <1>0, <1>4, MidInside DEF Halve
  <2>2. /\ low \in minAmount..requested /\ high \in minAmount..requested
        /\ answer \in (minAmount..requested) \cup {Null}
        /\ OK(low) /\ ~OK(high)
    BY <1>4 DEF Halve, Inv, TypeOK, Bracket, WholeRange
  <2>3. mid \in minAmount..requested
    BY <1>0, <2>1, <2>2
  <2>4. /\ applicant' = applicant /\ requested' = requested /\ pc' = pc
        /\ answer' = answer
    BY <1>4 DEF Halve, input
  <2>5. WholeRange' /\ pc = "search"
    BY <1>4, <2>4 DEF Halve, WholeRange
  <2>6. TypeOK
    BY DEF Inv
  <2>7. CASE OK(mid)
    <3>1. low' = mid /\ high' = high
      BY <1>4, <2>7 DEF Halve
    <3>2. low' < high'
      BY <1>0, <2>1, <3>1
    <3>3. Bracket'
      BY <2>2, <2>4, <2>7, <3>1, <3>2 DEF Bracket, OK
    <3> QED BY <2>2, <2>3, <2>4, <2>5, <2>6, <3>1, <3>3 DEF Inv, TypeOK
  <2>8. CASE ~OK(mid)
    <3>1. high' = mid /\ low' = low
      BY <1>4, <2>8 DEF Halve
    <3>2. low' < high'
      BY <1>0, <2>1, <3>1
    <3>3. Bracket'
      BY <2>2, <2>4, <2>8, <3>1, <3>2 DEF Bracket, OK
    <3> QED BY <2>2, <2>3, <2>4, <2>5, <2>6, <3>1, <3>3 DEF Inv, TypeOK
  <2> QED BY <2>7, <2>8
<1>5. CASE Finish
  <2>1. low >= minAmount /\ low <= requested
    BY <1>0 DEF Inv, TypeOK
  <2>2. roundedDown(low) \in minAmount..requested
    BY <1>0, <2>1, RoundedDown
  <2> QED BY <1>5, <2>2 DEF Finish, Return, Inv, TypeOK, Bracket, WholeRange, OK, input
<1>6. CASE UNCHANGED vars
  BY <1>6 DEF vars, input, Inv, TypeOK, Bracket, WholeRange, OK
<1> QED BY <1>1, <1>2, <1>3, <1>4, <1>5, <1>6 DEF Next

\* Neither the bracket nor an answer ever leaves the range that was asked about.
THEOREM SearchTypeCorrect == Spec => []TypeOK
<1>1. Inv => TypeOK BY DEF Inv
<1> QED BY InitInv, NextInv, <1>1, PTL DEF Spec

\* The bracket keeps an approved amount below a refused one, for any engine.
THEOREM BracketKept == Spec => []Bracket
<1>1. Inv => Bracket BY DEF Inv
<1> QED BY InitInv, NextInv, <1>1, PTL DEF Spec

\* Every turn of the loop keeps to the bracket and leaves half of it, give or
\* take the one a floor may: why the loop ends, and after how few evaluations.
THEOREM BracketHalves ==
  Spec => [][pc = "search" /\ pc' = "search" =>
               /\ low <= low' /\ low' < high' /\ high' <= high
               /\ 2 * (high' - low') <= (high - low) + 1
               /\ high' - low' < high - low]_vars
<1>1. Inv /\ [Next]_vars =>
        [pc = "search" /\ pc' = "search" =>
           /\ low <= low' /\ low' < high' /\ high' <= high
           /\ 2 * (high' - low') <= (high - low) + 1
           /\ high' - low' < high - low]_vars
  <2> SUFFICES ASSUME Inv, Next, pc = "search", pc' = "search"
               PROVE  /\ low <= low' /\ low' < high' /\ high' <= high
                      /\ 2 * (high' - low') <= (high - low) + 1
                      /\ high' - low' < high - low
    OBVIOUS
  <2>1. Halve
    BY DEF Next, RefuseAll, AcceptRequest, Begin, Finish, Return
  <2>2. low \in Nat /\ high \in Nat /\ high - low > tolerance
    BY <2>1, SearchAssumption DEF Inv, TypeOK, Halve
  <2>3. mid \in Nat /\ low < mid /\ mid < high
    BY <2>2, MidInside
  <2>4. 2 * mid <= low + high /\ low + high <= 2 * mid + 1
    BY <2>2 DEF mid
  <2>5. (low' = mid /\ high' = high) \/ (high' = mid /\ low' = low)
    BY <2>1 DEF Halve
  <2> QED BY <2>2, <2>3, <2>4, <2>5
<1> QED BY InitInv, NextInv, <1>1, PTL DEF Spec

-------------------------------------------------------------------------------
(* What is offered.                                                        *)

OfferInv == OfferApproved /\ OfferMaximal

LEMMA NextOffer == Monotone /\ Inv /\ OfferInv /\ [Next]_vars => OfferInv'
<1> SUFFICES ASSUME Monotone, Inv, OfferInv, [Next]_vars PROVE OfferInv'
  OBVIOUS
<1> USE SearchAssumption
<1>0. /\ minAmount \in Nat /\ requested \in Nat /\ minAmount <= requested
      /\ low \in Nat /\ high \in Nat /\ applicant \in Applicants
      /\ tolerance \in Nat /\ Thousand \in Nat \ {0}
  BY DEF Inv, TypeOK
<1>1. CASE RefuseAll
  <2>1. \A x \in Amounts : ~Approves(applicant, x)
    BY <1>0, <1>1 DEF RefuseAll, OK, Monotone
  <2> QED
    BY <1>1, <2>1 DEF RefuseAll, Return, OfferInv, OfferApproved, OfferMaximal,
                      OK, input
<1>2. CASE AcceptRequest
  BY <1>0, <1>2 DEF AcceptRequest, Return, OfferInv, OfferApproved, OfferMaximal,
                    OK, input
<1>3. CASE Begin
  BY <1>3 DEF Begin, OfferInv, OfferApproved, OfferMaximal
<1>4. CASE Halve
  BY <1>4 DEF Halve, OfferInv, OfferApproved, OfferMaximal
<1>5. CASE Finish
  <2> DEFINE x == roundedDown(low)
  <2>1. /\ low >= minAmount /\ low <= requested /\ high <= low + tolerance
        /\ Approves(applicant, low) /\ ~Approves(applicant, high)
    BY <1>0, <1>5 DEF Finish, Inv, TypeOK, Bracket, OK
  <2>2. x \in Nat /\ x <= low /\ low < x + Thousand /\ x >= minAmount
    BY <1>0, <2>1, RoundedDown
  <2>3. answer' = x /\ applicant' = applicant /\ requested' = requested
    BY <1>5 DEF Finish, Return, input
  <2> HIDE DEF x
  <2>4. Approves(applicant, x)
    BY <1>0, <2>1, <2>2 DEF Monotone
  <2>5. ~Approves(applicant, x + tolerance + Thousand)
    <3>1. /\ x + tolerance + Thousand \in Nat
          /\ high <= x + tolerance + Thousand
          /\ minAmount <= high
      BY <1>0, <2>1, <2>2 DEF Inv, TypeOK
    <3> QED BY <1>0, <2>1, <3>1 DEF Monotone
  <2>6. x # Null
    BY <2>2
  <2>7. OfferApproved'
    BY <1>0, <2>1, <2>2, <2>3, <2>4 DEF OfferApproved, OK
  <2>8. OfferMaximal'
    BY <2>3, <2>5, <2>6 DEF OfferMaximal, OK
  <2> QED BY <2>7, <2>8 DEF OfferInv
<1>6. CASE UNCHANGED vars
  BY <1>6 DEF vars, input, OfferInv, OfferApproved, OfferMaximal, OK
<1> QED BY <1>1, <1>2, <1>3, <1>4, <1>5, <1>6 DEF Next

LEMMA OfferCorrect ==
  ASSUME Monotone
  PROVE  Spec => []OfferInv
<1>1. Init => OfferInv
  BY DEF Init, OfferInv, OfferApproved, OfferMaximal
<1>2. Inv /\ OfferInv /\ [Next]_vars => OfferInv'
  BY NextOffer
<1> QED BY InitInv, NextInv, <1>1, <1>2, PTL DEF Spec

\* Whatever the engine, if it never approves more where it refuses less, the
\* amount that is offered would be approved when asked for.
THEOREM OfferIsApproved ==
  ASSUME Monotone
  PROVE  Spec => []OfferApproved
<1>1. OfferInv => OfferApproved BY DEF OfferInv
<1> QED BY OfferCorrect, <1>1, PTL

\* ... and no offer could be raised by the tolerance and one rounding step,
\* nor is null answered while some amount would do.
THEOREM OfferIsMaximal ==
  ASSUME Monotone
  PROVE  Spec => []OfferMaximal
<1>1. OfferInv => OfferMaximal BY DEF OfferInv
<1> QED BY OfferCorrect, <1>1, PTL
===============================================================================
