---------------------------- MODULE MCCreditEngine ----------------------------
(***************************************************************************)
(* The engine on a grid of applicants, and the search for the largest      *)
(* approvable amount run over that same engine.  Money is in units of 500  *)
(* rupees; every revenue band, the hard floor, every tenure band and every *)
(* EMI and loan band is met.  Each of them types the form, and one makes   *)
(* every slip there is, two at a time.                                     *)
(***************************************************************************)
EXTENDS ApprovableAmount, LoanIntake

Revenues == {48, 50, 100, 200, 1000, 2000}
Tenures == {3, 8, 12, 24, 40, 60}
Grid == [revenue : Revenues, tenure : Tenures,
         type : {"SERVICES", "MANUFACTURING"}, pan : {"consistent", "mismatch"}]
\* Any applicant there may be; the grid is what TLC has time for.
People == [revenue : Nat \ {0}, tenure : 1..84, type : BusinessTypes, pan : PanChecks]

ASSUME PeopleAssumption == Applicants \subseteq People

\* They ask for what the API accepts.
ASSUME LoanAssumption == \A x \in Amounts : x * Unit >= MinAmount

AmountGrid == {20, 130, 250, 400, 700, 1000, 1450, 2100, 3500, 5900, 9000, 14000,
               20000}

InputFor(p, amount) == InputOf(p.revenue, amount, p.tenure, p.type, p.pan)
EngineApproves(p, amount) == Approved(InputFor(p, amount))

Asked == InputFor(applicant, requested)
Verdict == evaluate(Asked)

-------------------------------------------------------------------------------
(* The forms they type.                                                    *)

Figure(rupees, frac) == [rupees |-> rupees, frac |-> frac]
Typed(kind, n) == [kind |-> kind, value |-> Figure(n, 0)]
Pan(typed, shape, holder) ==
  [kind |-> "text", typed |-> typed, shape |-> shape, holder |-> holder]
Name(padding, letters) ==
  [kind |-> "text", padding |-> padding, letters |-> letters]

\* What p means to ask for, with the PAN and the figures typed so.
FormOf(p, amount, typed, kind) ==
  [ownerName |-> Name(1, 9), pan |-> Pan(typed, TRUE, TRUE),
   businessType |-> "offered",
   monthlyRevenue |-> Typed(kind, p.revenue * Unit),
   requestedAmount |-> Typed(kind, amount * Unit),
   tenureMonths |-> Typed(kind, p.tenure), purpose |-> "offered"]

Typings(p, amount) == {FormOf(p, amount, "normal", "number"),
                       FormOf(p, amount, "lower case", "numeral")}

NoNumber == [kind : Numberless, value : {Figure(0, 0)}]
\* The figures at either end of a range and next to it, to the thousandth.
Edges(min, max) == [rupees : {-1, 0, min - 1, min, max, max + 1}, frac : {0}]
                   \cup [rupees : {min - 1, max - 1}, frac : {999}]
Numerals(min, max) ==
  [kind : {"numeral"}, value : Edges(min, max)]
  \cup [kind : {"number"}, value : [rupees : {0, min, max}, frac : {5, 990, 995}]]

NameSlips ==
  [kind : {"text"}, padding : {0}, letters : {0, 1, 2, MaxName, MaxName + 1}]
  \cup {Name(2, 1), [kind |-> "missing", padding |-> 0, letters |-> 0]}
PanSlips ==
  [kind : {"text"}, typed : {"normal", "padded"}, shape : BOOLEAN, holder : BOOLEAN]
  \cup [kind : {"other"}, typed : {"normal"}, shape : {TRUE}, holder : {TRUE}]

Slips == [ownerName |-> NameSlips, pan |-> PanSlips, businessType |-> {"unknown"},
          monthlyRevenue |-> NoNumber \cup Numerals(MinRevenue, MaxRevenue),
          requestedAmount |-> NoNumber \cup Numerals(MinAmount, MaxAmount),
          tenureMonths |-> NoNumber \cup Numerals(1, MaxTenure),
          purpose |-> {"unknown"}]

Careless == [revenue |-> 48, tenure |-> 12, type |-> "SERVICES",
             pan |-> "consistent"]
Slipped(form) ==
  UNION {{[form EXCEPT ![k] = x, ![l] = y] : x \in Slips[k], y \in Slips[l]} :
           k \in Fields, l \in Fields}

Forms == Typings(applicant, requested)
           \cup IF applicant = Careless /\ requested = minAmount
                THEN Slipped(FormOf(applicant, requested, "normal", "numeral"))
                ELSE {}

\* A form the browser lets through is never refused by the API, whose second
\* refusal would leave the profile written and the application not.
ClientNeverRefused == pc = "start" => \A f \in Forms : NeverRefused(f)

\* Every wrong field is named, once, and none that is right.
ReportsEachField == pc = "start" => \A f \in Forms : ReportedOnce(f)

\* calculateEmi's comment, "the figure on the form is exactly the figure the
\* engine scores": where the form warns of the instalment the engine counts it
\* as a burden, or declines outright; the gauge has room for the score, and
\* its mark is where approval begins.
ScreenAgrees ==
  pc = "start" =>
    /\ \A f \in Typings(applicant, requested) :
         /\ Previewed(f)
         /\ LET codes == {Verdict.reasons[i].code : i \in DOMAIN Verdict.reasons}
            IN /\ evaluateHardRules(Asked) = <<>> =>
                    (PreviewWarns(f) <=> "HIGH_EMI_BURDEN" \in codes)
               /\ "UNSERVICEABLE_EMI" \in codes => PreviewWarns(f)
    /\ Verdict.creditScore \in ScoreGauge.min..ScoreGauge.max
    /\ (Verdict.creditScore >= ScoreGauge.threshold) = (Verdict.outcome = "APPROVED")

-------------------------------------------------------------------------------
\* Asking for less, or earning more, never lowers the score, across six bands
\* of points and three hard rules: what the binary search rests on.
ScoreMonotone ==
  pc = "start" =>
    /\ \A x \in Amounts :
         x <= requested =>
           evaluate(InputFor(applicant, x)).creditScore >= Verdict.creditScore
    /\ \A p \in Applicants :
         p.revenue >= applicant.revenue /\ p = [applicant EXCEPT !.revenue = p.revenue] =>
           evaluate(InputFor(p, requested)).creditScore >= Verdict.creditScore

\* No sum of good factors buys back an instalment above 40% of the revenue,
\* or a loan above two years of it: such a request is always declined.
ApprovalIsAffordable ==
  pc = "start" /\ Verdict.outcome = "APPROVED" =>
    EmiWithin(Asked, 40) /\ LoanWithin(Asked, 24)

\* The critical reasons of a scored input, in the order in which they are read.
Headline(in, outcome) ==
  (IF Earns(in, 50000) THEN <<>> ELSE <<Reason("LOW_REVENUE", -100)>>)
    \o (IF outcome = "REJECTED" THEN <<Reason("SCORE_BELOW_THRESHOLD", 0)>> ELSE <<>>)

\* What an applicant reads first.  The summary of a scored decline leads only
\* for a revenue of 50 000 or more: below that LOW_REVENUE is read before it,
\* and leads an approval too, although engine/index.ts says of a decline "lead
\* with a summary code".  No other reason comes as early, whatever its impact.
\* A hard rule speaks alone, at the floor, and takes no points.
HeadlineReasons ==
  pc = "start" =>
    LET read == Verdict.reasons
        head == Headline(Asked, Verdict.outcome)
    IN IF evaluateHardRules(Asked) = <<>>
       THEN /\ DOMAIN head \subseteq DOMAIN read
            /\ \A k \in DOMAIN read :
                 IF k \in DOMAIN head THEN read[k] = head[k]
                 ELSE Severity(read[k].code) # "CRITICAL"
       ELSE /\ Verdict.outcome = "REJECTED" /\ Verdict.creditScore = MIN
            /\ read # <<>>
            /\ \A k \in DOMAIN read :
                 /\ read[k].code \in {"LOW_REVENUE", "DATA_INCONSISTENCY",
                                      "UNSERVICEABLE_EMI"}
                 /\ read[k].pointsImpact = 0

\* README: "Every decision returns reasons - approvals included".
EveryDecisionHasReasons == pc = "start" => Verdict.reasons # <<>>
===============================================================================
