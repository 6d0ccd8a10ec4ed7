------------------------------ MODULE LoanIntake ------------------------------
(***************************************************************************)
(* The intake form and the two requests it turns into: the schemas that    *)
(* packages/shared gives to the browser and to the API, what the API keeps *)
(* of an accepted request, and what the screen shows of a refused one, of  *)
(* the figures being typed, and of the decision.                           *)
(*                                                                         *)
(* A figure is rupees and thousandths of a rupee; text is counted, not     *)
(* spelled out; a PAN is whether its shape and its fourth character are    *)
(* right.  A message is named after the check it comes from.               *)
(***************************************************************************)
EXTENDS CreditEngine

CONSTANTS
  MinRevenue, MaxRevenue, \* INPUT_LIMITS, in rupees
  MinAmount, MaxAmount,
  MaxTenure,              \* ... in months
  MaxName,                \* ... in characters
  ColumnMax               \* rupees that NUMERIC(14, 2) has no room for

ASSUME LimitsAssumption ==
  /\ {MinRevenue, MaxRevenue, MinAmount, MaxAmount} \subseteq Nat \ {0}
  /\ MaxRevenue < ColumnMax /\ MaxAmount < ColumnMax
  /\ ColumnMax \in Nat
  /\ MaxTenure \in 1..600
  /\ MaxName \in Nat /\ MaxName >= 2

-------------------------------------------------------------------------------
(* What a field may hold, typed into the form or sent by another client.   *)

Figures == [rupees : Int, frac : 0..999]

\* "text" is neither blank nor a number, "50,000" for one; "other" is null,
\* true, a list: what JSON can hold and the form cannot.
Numberless == {"missing", "other", "blank", "text", "infinite"}
Entries == [kind : Numberless \cup {"numeral", "number"}, value : Figures]

Names == [kind : {"missing", "other", "text"}, padding : Nat, letters : Nat]
Pans == [kind : {"missing", "other", "text"},
         typed : {"normal", "lower case", "padded"},
         shape : BOOLEAN, holder : BOOLEAN]
Choices == {"offered", "unknown"}

BusinessFields == {"ownerName", "pan", "businessType", "monthlyRevenue"}
ApplicationFields == {"requestedAmount", "tenureMonths", "purpose"}
Fields == BusinessFields \cup ApplicationFields

RawForms == [ownerName : Names, pan : Pans, businessType : Choices,
             monthlyRevenue : Entries, requestedAmount : Entries,
             tenureMonths : Entries, purpose : Choices]

-------------------------------------------------------------------------------
(* The schemas: the messages each field gets, in order.                    *)

Issue(fails, message) == IF fails THEN <<message>> ELSE <<>>

\* Mutant: chained refinements, which all run.
Failing_All(checks) ==
  LET failing == SelectSeq(checks, LAMBDA check : check[2])
  IN [i \in DOMAIN failing |-> failing[i][1]]

\* The checks of one transform stop at the first that fails.
Failing(checks) ==
  LET failing == {i \in DOMAIN checks : checks[i][2]}
  IN IF failing = {} THEN <<>>
     ELSE LET first == CHOOSE i \in failing : \A j \in failing : i <= j
          IN <<checks[first][1]>>

numericField(e, min, max, integer) ==
  LET n == e.value IN
  Failing(<< <<"required", e.kind \in {"missing", "blank"}>>,
             <<"a number", e.kind \in Numberless>>,
             <<"whole", integer /\ n.frac # 0>>,
             <<"greater than zero", n.rupees < 0 \/ (n.rupees = 0 /\ n.frac = 0)>>,
             <<"at least", n.rupees < min>>,
             <<"not exceed", n.rupees > max \/ (n.rupees = max /\ n.frac # 0)>> >>)

\* Mutant: the length is taken before the blanks are cut off.
trimmed_Not(n) == n.padding + n.letters

trimmed(n) == n.letters

\* The checks of a string all run, on what is left of it after the trim.
ownerNameSchema(n) ==
  IF n.kind # "text" THEN <<"required">>
  ELSE Issue(trimmed(n) < 2, "at least") \o Issue(trimmed(n) > MaxName, "at most")

\* Mutant: the PAN is not put in upper case.
normalised_NotUpper(p) ==
  IF p.typed = "padded" THEN [p EXCEPT !.typed = "normal"] ELSE p

\* Trimmed and in upper case.
normalised(p) == [p EXCEPT !.typed = "normal"]

PAN_REGEX(p) == p.shape /\ p.typed = "normal"

\* The refinement runs on a PAN the regex refused, too.
panSchema(p) ==
  IF p.kind # "text" THEN <<"required">>
  ELSE Issue(~PAN_REGEX(normalised(p)), "shape") \o Issue(~p.holder, "holder type")

enum(c) == Issue(c # "offered", "one of")

createBusinessSchema(f) ==
  [ownerName |-> ownerNameSchema(f.ownerName),
   pan |-> panSchema(f.pan),
   businessType |-> enum(f.businessType),
   monthlyRevenue |-> numericField(f.monthlyRevenue, MinRevenue, MaxRevenue, FALSE)]

\* Its businessId is the id the API has just given to the profile.
createApplicationSchema(f) ==
  [requestedAmount |-> numericField(f.requestedAmount, MinAmount, MaxAmount, FALSE),
   tenureMonths |-> numericField(f.tenureMonths, 1, MaxTenure, TRUE),
   purpose |-> enum(f.purpose)]

\* Mutant: the form has a rule of its own for the tenure.
loanIntakeFormSchema_Drifted(f) ==
  [k \in Fields |->
     IF k \in BusinessFields THEN createBusinessSchema(f)[k]
     ELSE IF k = "tenureMonths"
     THEN numericField(f.tenureMonths, 1, MaxTenure, FALSE)
     ELSE createApplicationSchema(f)[k]]

loanIntakeFormSchema(f) ==
  [k \in Fields |-> IF k \in BusinessFields THEN createBusinessSchema(f)[k]
                    ELSE createApplicationSchema(f)[k]]

Accepted(issues) == \A k \in DOMAIN issues : issues[k] = <<>>

\* What an accepted parse returns, and JSON carries to the API.
parsed(f) ==
  [ownerName |-> [f.ownerName EXCEPT !.padding = 0],
   pan |-> normalised(f.pan),
   businessType |-> f.businessType,
   monthlyRevenue |-> [f.monthlyRevenue EXCEPT !.kind = "number"],
   requestedAmount |-> [f.requestedAmount EXCEPT !.kind = "number"],
   tenureMonths |-> [f.tenureMonths EXCEPT !.kind = "number"],
   purpose |-> f.purpose]

-------------------------------------------------------------------------------
(* The rows.                                                               *)

\* toFixed(2): the nearest paisa; half a paisa may go either way, since what
\* is rounded is the nearest double.
numberToNumeric(n) ==
  LET rest == n.frac % 10
      down == [n EXCEPT !.frac = n.frac - rest]
      up == IF n.frac - rest = 990 THEN [rupees |-> n.rupees + 1, frac |-> 0]
            ELSE [n EXCEPT !.frac = n.frac - rest + 10]
  IN {m \in {down, up} : \/ m = down /\ rest <= 5
                         \/ m = up /\ rest >= 5}

Within(n, min, max) ==
  min <= n.rupees /\ (n.rupees < max \/ (n.rupees = max /\ n.frac = 0))

Fits(n) == n.rupees < ColumnMax

-------------------------------------------------------------------------------
(* The screen.                                                             *)

\* Mutant: the last message of a field is kept.
byField_Last(issues) ==
  [k \in {k \in DOMAIN issues : issues[k] # <<>>} |-> issues[k][Len(issues[k])]]

\* handleSubmitFailure keeps the first message of each field, as zodResolver
\* does with those of the form's own schema.
byField(issues) ==
  [k \in {k \in DOMAIN issues : issues[k] # <<>>} |-> issues[k][1]]

toFiniteNumber(e) == e.kind \in {"numeral", "number"}

Positive(n) == n.rupees > 0 \/ (n.rupees = 0 /\ n.frac > 0)

\* buildPreview returns figures wherever the EMI formula is defined ...
Previewed(f) ==
  /\ toFiniteNumber(f.requestedAmount) /\ Positive(f.requestedAmount.value)
  /\ toFiniteNumber(f.tenureMonths) /\ Positive(f.tenureMonths.value)
  /\ f.tenureMonths.value.frac = 0
  /\ f.tenureMonths.value.rupees <= 600

\* ... here in the engine's units, for figures that are whole ones.
buildPreview(f) ==
  InputOf(f.monthlyRevenue.value.rupees \div Unit,
          f.requestedAmount.value.rupees \div Unit,
          f.tenureMonths.value.rupees, "RETAIL", "not applicable")

\* Mutant: the form warns one band late.
PreviewWarns_Late(f) == ~EmiWithin(buildPreview(f), 40)

PreviewWarns(f) == ~EmiWithin(buildPreview(f), 30)

\* Mutant: the mark is left behind by a retuned policy.
ScoreGauge_Outdated == [min |-> 300, max |-> 900, threshold |-> 600]

\* DecisionResult's copy of the engine's scale.
ScoreGauge == [min |-> 300, max |-> 900, threshold |-> 650]

-------------------------------------------------------------------------------
(* What the shared schemas promise of a form, whatever is typed into it.   *)

\* ApplicationForm's comment, "the client cannot accept anything the server
\* rejects", down to the columns: a form the browser lets through passes both
\* requests, so that no profile is rewritten for an application then refused,
\* and every rounding of its figures is within the limits they passed.
NeverRefused(f) ==
  Accepted(loanIntakeFormSchema(f)) =>
    /\ Accepted(createBusinessSchema(parsed(f)))
    /\ Accepted(createApplicationSchema(parsed(f)))
    /\ \A n \in numberToNumeric(f.monthlyRevenue.value) :
         Fits(n) /\ Within(n, MinRevenue, MaxRevenue)
    /\ \A n \in numberToNumeric(f.requestedAmount.value) :
         Fits(n) /\ Within(n, MinAmount, MaxAmount)

\* What each field ought to hold.
InOrder(f) ==
  [ownerName |-> f.ownerName.kind = "text" /\ f.ownerName.letters \in 2..MaxName,
   pan |-> f.pan.kind = "text" /\ f.pan.shape /\ f.pan.holder,
   businessType |-> f.businessType = "offered",
   monthlyRevenue |-> /\ toFiniteNumber(f.monthlyRevenue)
                      /\ Within(f.monthlyRevenue.value, MinRevenue, MaxRevenue),
   requestedAmount |-> /\ toFiniteNumber(f.requestedAmount)
                       /\ Within(f.requestedAmount.value, MinAmount, MaxAmount),
   tenureMonths |-> /\ toFiniteNumber(f.tenureMonths)
                    /\ Within(f.tenureMonths.value, 1, MaxTenure)
                    /\ f.tenureMonths.value.frac = 0,
   purpose |-> f.purpose = "offered"]

\* README, "every failing field is reported at once" and "one message per
\* field": the screen names the wrong fields and no others, and no field has
\* two messages but a PAN wrong in both ways, whose shape is what is shown.
ReportedOnce(f) ==
  LET issues == loanIntakeFormSchema(f)
      shown == byField(issues)
  IN /\ DOMAIN shown = {k \in Fields : ~InOrder(f)[k]}
     /\ \A k \in Fields \ {"pan"} : Len(issues[k]) <= 1
     /\ Len(issues["pan"]) > 1 => shown["pan"] = "shape"
===============================================================================
