----------------------------- MODULE CreditEngine -----------------------------
(***************************************************************************)
(* The decision engine as a pure function: evaluate(input) of engine/, the *)
(* policy of config/scoring.ts and the instalment of packages/shared.      *)
(*                                                                         *)
(* Money is counted in units of Unit rupees.  Ratios are never divided     *)
(* out: emi / revenue <= 10% is compared as a product of integers.  A      *)
(* reason is its code and its pointsImpact; its message is left out.       *)
(***************************************************************************)
EXTENDS Integers, Sequences, FiniteSets

CONSTANT Unit   \* rupees in one unit of money of the model

ASSUME UnitAssumption == Unit \in Nat \ {0}

BusinessTypes == {"SERVICES", "RETAIL", "MANUFACTURING"}

\* What the engine is given.  pan says how the PAN compares with the surname.
InputOf(revenue, amount, tenure, type, pan) ==
  [revenue |-> revenue, amount |-> amount, tenure |-> tenure, type |-> type,
   pan |-> pan]

PanChecks == {"consistent", "mismatch", "not applicable"}

MIN == 300
MAX == 900
BASE == 500
APPROVAL_THRESHOLD == 650

-------------------------------------------------------------------------------
(* calculateEmi at 18% a year, in fixed point: the growth of one rupee     *)
(* over n months at 1.5%, and the instalment on one rupee, both times 1e5. *)

Scale == 100000
MonthlyRate == 1500
growth[n \in Nat] ==
  IF n = 0 THEN Scale
  ELSE LET g == growth[n - 1] IN g + (g * MonthlyRate) \div Scale
Instalment == [n \in 1..84 |-> (MonthlyRate * growth[n]) \div (growth[n] - Scale)]

\* emi / revenue <= pct / 100, and < pct / 100.
EmiWithin(in, pct) ==
  in.amount * Instalment[in.tenure] <= pct * (Scale \div 100) * in.revenue
EmiBelow(in, pct) ==
  in.amount * Instalment[in.tenure] < pct * (Scale \div 100) * in.revenue

\* amount / revenue <= k
LoanWithin(in, k) == in.amount <= k * in.revenue

\* monthlyRevenue >= rupees
Earns(in, rupees) == in.revenue * Unit >= rupees

-------------------------------------------------------------------------------
(* Reasons.                                                                *)

Severity(code) ==
  CASE code \in {"DATA_INCONSISTENCY", "UNSERVICEABLE_EMI", "LOW_REVENUE",
                 "SCORE_BELOW_THRESHOLD"} -> "CRITICAL"
    [] code \in {"HIGH_EMI_BURDEN", "HIGH_LOAN_RATIO", "SHORT_TENURE_RISK",
                 "LONG_TENURE_RISK", "PAN_NAME_MISMATCH"} -> "WARNING"
    [] OTHER -> "POSITIVE"

Reason(code, points) == [code |-> code, pointsImpact |-> points]
ReasonIf(test, code, points) == IF test THEN {Reason(code, points)} ELSE {}

severityRank == [CRITICAL |-> 0, WARNING |-> 1, POSITIVE |-> 2, INFO |-> 3]
Magnitude(n) == IF n < 0 THEN -n ELSE n

\* CRITICAL first, then the largest impact.
Precedes(a, b) ==
  LET ra == severityRank[Severity(a.code)]
      rb == severityRank[Severity(b.code)]
  IN \/ ra < rb
     \/ ra = rb /\ Magnitude(a.pointsImpact) > Magnitude(b.pointsImpact)

\* Mutant: the largest impact first, whatever its severity.
Before_Unranked(reasons, r) ==
  {q \in reasons : Magnitude(q.pointsImpact) > Magnitude(r.pointsImpact)}

Before(reasons, r) == {q \in reasons : Precedes(q, r)}

\* No two reasons of one evaluation tie, so the order of the pushes is moot:
\* the i-th is the one with i - 1 before it.
sortByImpact(reasons) ==
  [i \in 1..Cardinality(reasons) |->
     CHOOSE r \in reasons : Cardinality(Before(reasons, r)) = i - 1]

-------------------------------------------------------------------------------
(* Stage 2: the hard rules, in the order they are reported.                *)

HardRule(passed, code) == IF passed THEN <<>> ELSE <<Reason(code, 0)>>

evaluateHardRules(in) ==
  HardRule(Earns(in, 25000), "LOW_REVENUE")
    \o HardRule(LoanWithin(in, 36), "DATA_INCONSISTENCY")
    \o HardRule(EmiBelow(in, 100), "UNSERVICEABLE_EMI")

-------------------------------------------------------------------------------
(* Stage 3: the six factors, each its points and the reasons it gives.     *)

\* Mutant: the band up to 50% is scored like the one up to 40%.
EmiPoints_WideBand(in) ==
  CASE EmiWithin(in, 10) -> 150
    [] EmiWithin(in, 20) /\ ~EmiWithin(in, 10) -> 100
    [] EmiWithin(in, 30) /\ ~EmiWithin(in, 20) -> 40
    [] EmiWithin(in, 50) /\ ~EmiWithin(in, 30) -> -40
    [] OTHER -> -220

EmiPoints(in) ==
  CASE EmiWithin(in, 10) -> 150
    [] EmiWithin(in, 20) /\ ~EmiWithin(in, 10) -> 100
    [] EmiWithin(in, 30) /\ ~EmiWithin(in, 20) -> 40
    [] EmiWithin(in, 40) /\ ~EmiWithin(in, 30) -> -40
    [] EmiWithin(in, 50) /\ ~EmiWithin(in, 40) -> -120
    [] OTHER -> -220

emiToRevenueFactor(in) ==
  LET points == EmiPoints(in)
  IN [points |-> points,
      reasons |-> ReasonIf(EmiWithin(in, 10), "STRONG_REVENUE_COVERAGE", points)
             \cup ReasonIf(~EmiWithin(in, 30), "HIGH_EMI_BURDEN", points)]

\* Mutant: the bands up to 12 and up to 24 months of revenue are swapped.
LoanPoints_Swapped(in) ==
  CASE LoanWithin(in, 3) -> 90
    [] LoanWithin(in, 6) /\ ~LoanWithin(in, 3) -> 50
    [] LoanWithin(in, 12) /\ ~LoanWithin(in, 6) -> -80
    [] LoanWithin(in, 24) /\ ~LoanWithin(in, 12) -> 0
    [] OTHER -> -200

LoanPoints(in) ==
  CASE LoanWithin(in, 3) -> 90
    [] LoanWithin(in, 6) /\ ~LoanWithin(in, 3) -> 50
    [] LoanWithin(in, 12) /\ ~LoanWithin(in, 6) -> 0
    [] LoanWithin(in, 24) /\ ~LoanWithin(in, 12) -> -80
    [] OTHER -> -200

loanToRevenueFactor(in) ==
  LET points == LoanPoints(in)
  IN [points |-> points,
      reasons |-> ReasonIf(LoanWithin(in, 3), "COMFORTABLE_LOAN_RATIO", points)
             \cup ReasonIf(~LoanWithin(in, 12), "HIGH_LOAN_RATIO", points)]

tenureFactor(in) ==
  CASE in.tenure \in 12..36 ->
         [points |-> 60, reasons |-> {Reason("HEALTHY_TENURE_FIT", 60)}]
    [] in.tenure < 6 ->
         [points |-> -60, reasons |-> {Reason("SHORT_TENURE_RISK", -60)}]
    [] in.tenure > 48 ->
         [points |-> -70, reasons |-> {Reason("LONG_TENURE_RISK", -70)}]
    [] OTHER -> [points |-> 10, reasons |-> {}]

RevenuePoints(in) ==
  CASE Earns(in, 1000000) -> 80
    [] Earns(in, 500000) /\ ~Earns(in, 1000000) -> 50
    [] Earns(in, 100000) /\ ~Earns(in, 500000) -> 20
    [] Earns(in, 50000) /\ ~Earns(in, 100000) -> 0
    [] OTHER -> -100

revenueScaleFactor(in) ==
  LET points == RevenuePoints(in)
  IN [points |-> points,
      reasons |-> ReasonIf(~Earns(in, 50000), "LOW_REVENUE", points)]

SectorPoints == [SERVICES |-> 20, RETAIL |-> 10, MANUFACTURING |-> 0]
sectorFactor(in) == [points |-> SectorPoints[in.type], reasons |-> {}]

panNameConsistencyFactor(in) ==
  IF in.pan = "mismatch"
  THEN [points |-> -30, reasons |-> {Reason("PAN_NAME_MISMATCH", -30)}]
  ELSE [points |-> 0, reasons |-> {}]

FACTORS(in) ==
  <<emiToRevenueFactor(in), loanToRevenueFactor(in), tenureFactor(in),
    revenueScaleFactor(in), sectorFactor(in), panNameConsistencyFactor(in)>>

-------------------------------------------------------------------------------
(* evaluate: a hard rule rejects at the floor, the scorecard decides else. *)

rawScore(in) ==
  LET f == FACTORS(in)
  IN BASE + f[1].points + f[2].points + f[3].points + f[4].points
          + f[5].points + f[6].points

clamp(n) == CASE n < MIN -> MIN [] n > MAX -> MAX [] OTHER -> n

FactorReasons(in) == UNION {FACTORS(in)[i].reasons : i \in 1..6}

creditScore(in) == clamp(rawScore(in))
passes(in) == creditScore(in) >= APPROVAL_THRESHOLD

Scored(in) ==
  [outcome |-> IF passes(in) THEN "APPROVED" ELSE "REJECTED",
   creditScore |-> creditScore(in),
   reasons |-> sortByImpact(FactorReasons(in)
                 \cup ReasonIf(~passes(in), "SCORE_BELOW_THRESHOLD", 0))]

evaluate(in) ==
  LET failures == evaluateHardRules(in)
  IN IF failures # <<>>
     THEN [outcome |-> "REJECTED", creditScore |-> MIN, reasons |-> failures]
     ELSE Scored(in)

\* outcome = "APPROVED", without the score and the reasons.
Approved(in) == evaluateHardRules(in) = <<>> /\ passes(in)
===============================================================================
