--------------------------- MODULE LoanIntakeProofs ---------------------------
(***************************************************************************)
(* Theorems about LoanIntake, for any limits and whatever a form holds.    *)
(***************************************************************************)
EXTENDS LoanIntake, SequenceTheorems, TLAPS

-------------------------------------------------------------------------------
(* The schemas, field by field.                                            *)

LEMMA FailingIsFirst ==
  ASSUME NEW checks, DOMAIN checks \in SUBSET Nat
  PROVE  /\ Failing(checks) = <<>> <=> \A i \in DOMAIN checks : ~checks[i][2]
         /\ Len(Failing(checks)) <= 1
  BY DEF Failing

\* A numeric field passes when it holds a number of the range, and gets one
\* message when it does not.
LEMMA NumericField ==
  ASSUME NEW e \in Entries, NEW min \in Nat \ {0}, NEW max \in Nat,
         NEW integer \in BOOLEAN
  PROVE  LET issues == numericField(e, min, max, integer) IN
         /\ issues = <<>> <=> /\ toFiniteNumber(e)
                              /\ Within(e.value, min, max)
                              /\ integer => e.value.frac = 0
         /\ Len(issues) <= 1
<1> DEFINE n == e.value
           checks == << <<"required", e.kind \in {"missing", "blank"}>>,
             <<"a number", e.kind \in Numberless>>,
             <<"whole", integer /\ n.frac # 0>>,
             <<"greater than zero", n.rupees < 0 \/ (n.rupees = 0 /\ n.frac = 0)>>,
             <<"at least", n.rupees < min>>,
             <<"not exceed", n.rupees > max \/ (n.rupees = max /\ n.frac # 0)>> >>
<1>1. numericField(e, min, max, integer) = Failing(checks)
  BY DEF numericField
<1>2. /\ n.rupees \in Int /\ n.frac \in Nat
      /\ e.kind \in Numberless \cup {"numeral", "number"}
  BY DEF Entries, Figures
<1>3. /\ DOMAIN checks = 1..6
      /\ checks[1][2] = (e.kind \in {"missing", "blank"})
      /\ checks[2][2] = (e.kind \in Numberless)
      /\ checks[3][2] = (integer /\ n.frac # 0)
      /\ checks[4][2] = (n.rupees < 0 \/ (n.rupees = 0 /\ n.frac = 0))
      /\ checks[5][2] = (n.rupees < min)
      /\ checks[6][2] = (n.rupees > max \/ (n.rupees = max /\ n.frac # 0))
  OBVIOUS
<1> HIDE DEF checks, n
<1>4. (\A i \in DOMAIN checks : ~checks[i][2])
        <=> ~checks[1][2] /\ ~checks[2][2] /\ ~checks[3][2] /\ ~checks[4][2]
              /\ ~checks[5][2] /\ ~checks[6][2]
  BY <1>3
<1>5. toFiniteNumber(e) <=> ~checks[1][2] /\ ~checks[2][2]
  BY <1>2, <1>3 DEF toFiniteNumber, Numberless
<1>6. Within(n, min, max) <=> ~checks[4][2] /\ ~checks[5][2] /\ ~checks[6][2]
  <2>1. checks[4][2] <=> n.rupees < 0 \/ (n.rupees = 0 /\ n.frac = 0)
    BY <1>3, Zenon
  <2>2. checks[5][2] <=> n.rupees < min
    BY <1>3, Zenon
  <2>3. checks[6][2] <=> n.rupees > max \/ (n.rupees = max /\ n.frac # 0)
    BY <1>3, Zenon
  <2> QED BY <1>2, <2>1, <2>2, <2>3 DEF Within
<1>7. DOMAIN checks \in SUBSET Nat
  BY <1>3
<1> QED BY <1>1, <1>3, <1>4, <1>5, <1>6, <1>7, FailingIsFirst DEF n

LEMMA OwnerNameField ==
  ASSUME NEW n \in Names
  PROVE  LET issues == ownerNameSchema(n) IN
         /\ issues = <<>> <=> n.kind = "text" /\ n.letters \in 2..MaxName
         /\ Len(issues) <= 1
  BY LimitsAssumption DEF ownerNameSchema, Names, Issue, trimmed

LEMMA Messages ==
  ASSUME NEW x, NEW y
  PROVE  /\ <<>> \o <<>> = <<>>
         /\ <<x>> \o <<>> = <<x>>
         /\ <<>> \o <<y>> = <<y>>
         /\ Len(<<x>> \o <<y>>) = 2 /\ (<<x>> \o <<y>>)[1] = x
<1> DEFINE S == {x, y}
<1>1. <<x>> \in Seq(S) /\ <<y>> \in Seq(S) /\ <<>> \in Seq(S)
  OBVIOUS
<1>2. /\ <<>> \o <<>> = <<>>
      /\ <<x>> \o <<>> = <<x>>
      /\ <<>> \o <<y>> = <<y>>
  BY <1>1, ConcatEmptySeq
<1>3. Len(<<x>> \o <<y>>) = 2 /\ (<<x>> \o <<y>>)[1] = x
  OBVIOUS
<1> QED BY <1>2, <1>3

LEMMA PanField ==
  ASSUME NEW p \in Pans
  PROVE  LET issues == panSchema(p) IN
         /\ issues = <<>> <=> p.kind = "text" /\ p.shape /\ p.holder
         /\ Len(issues) > 1 => issues[1] = "shape"
<1> DEFINE first == Issue(~p.shape, "shape")
           second == Issue(~p.holder, "holder type")
<1>1. PAN_REGEX(normalised(p)) = p.shape
  BY DEF PAN_REGEX, normalised, Pans
<1>2. panSchema(p) = IF p.kind # "text" THEN <<"required">> ELSE first \o second
  BY <1>1 DEF panSchema
<1>3. /\ p.shape => first = <<>>
      /\ ~p.shape => first = <<"shape">>
      /\ p.holder => second = <<>>
      /\ ~p.holder => second = <<"holder type">>
  BY DEF Issue
<1> HIDE DEF first, second
<1>4. p.shape /\ p.holder => first \o second = <<>>
  BY <1>3, Messages
<1>5. p.shape /\ ~p.holder => first \o second = <<"holder type">>
  BY <1>3, Messages
<1>6. ~p.shape /\ p.holder => first \o second = <<"shape">>
  BY <1>3, Messages
<1> DEFINE both == first \o second
<1>7. ~p.shape /\ ~p.holder => Len(both) = 2 /\ both[1] = "shape"
  <2>1. Len(<<"shape">> \o <<"holder type">>) = 2
    OBVIOUS
  <2>2. (<<"shape">> \o <<"holder type">>)[1] = "shape"
    OBVIOUS
  <2> QED BY <1>3, <2>1, <2>2, Zenon
<1>8. Len(<<"shape">>) = 1 /\ Len(<<"holder type">>) = 1 /\ Len(<<>>) = 0
  OBVIOUS
<1> HIDE DEF both
<1>9. CASE p.kind # "text"
  <2>1. Len(<<"required">>) = 1
    OBVIOUS
  <2> QED BY <1>2, <1>8, <1>9, <2>1
<1>10. CASE p.kind = "text"
  <2>1. panSchema(p) = both
    BY <1>2, <1>10 DEF both
  <2>2. CASE p.shape /\ p.holder
    BY <1>4, <1>8, <1>10, <2>1, <2>2 DEF both
  <2>3. CASE p.shape /\ ~p.holder
    <3>1. panSchema(p) = <<"holder type">>
      BY <1>5, <2>1, <2>3 DEF both
    <3>2. ~(Len(<<"holder type">>) > 1) /\ <<"holder type">> # <<>>
      OBVIOUS
    <3> QED BY <2>3, <3>1, <3>2, Zenon
  <2>4. CASE ~p.shape /\ p.holder
    <3>1. panSchema(p) = <<"shape">>
      BY <1>6, <2>1, <2>4 DEF both
    <3> QED BY <1>8, <2>4, <3>1
  <2>5. CASE ~p.shape /\ ~p.holder
    BY <1>7, <1>8, <1>10, <2>1, <2>5
  <2> QED BY <2>2, <2>3, <2>4, <2>5
<1> QED BY <1>9, <1>10

LEMMA Choice ==
  ASSUME NEW c \in Choices
  PROVE  (enum(c) = <<>> <=> c = "offered") /\ Len(enum(c)) <= 1
  BY DEF enum, Issue

-------------------------------------------------------------------------------
(* The rows.                                                               *)

\* Rounding to a paisa, whichever way a half goes, never crosses a limit: the
\* limits are whole rupees.
LEMMA Rounding ==
  ASSUME NEW v \in Figures, NEW min \in Nat, NEW max \in Nat,
         Within(v, min, max), NEW n \in numberToNumeric(v)
  PROVE  Within(n, min, max)
<1> DEFINE rest == v.frac % 10
           kept == v.frac - rest
           down == [v EXCEPT !.frac = kept]
           up == IF kept = 990 THEN [rupees |-> v.rupees + 1, frac |-> 0]
                 ELSE [v EXCEPT !.frac = kept + 10]
<1>1. v.rupees \in Int /\ v.frac \in 0..999 /\ v = [rupees |-> v.rupees, frac |-> v.frac]
  BY DEF Figures
<1>2. rest \in 0..9 /\ rest <= v.frac /\ kept \in 0..990
  BY <1>1
<1>3. n = down \/ (n = up /\ rest >= 5)
  BY DEF numberToNumeric
<1>4. down.rupees = v.rupees /\ down.frac = kept
  BY <1>1
<1>5. /\ kept = 990 => up.rupees = v.rupees + 1 /\ up.frac = 0
      /\ kept # 990 => up.rupees = v.rupees /\ up.frac = kept + 10
  BY <1>1
<1> HIDE DEF down, up
<1>6. CASE n = down
  BY <1>1, <1>2, <1>4, <1>6 DEF Within
<1>7. CASE n = up /\ rest >= 5
  <2>1. v.frac # 0 /\ v.rupees < max
    BY <1>1, <1>2, <1>7 DEF Within
  <2> HIDE DEF kept, rest
  <2> QED BY <1>1, <1>2, <1>5, <1>7, <2>1 DEF Within
<1> QED BY <1>3, <1>6, <1>7

-------------------------------------------------------------------------------
(* The form.                                                               *)

LEMMA FormSchema ==
  ASSUME NEW f
  PROVE  LET issues == loanIntakeFormSchema(f) IN
         /\ issues["ownerName"] = ownerNameSchema(f.ownerName)
         /\ issues["pan"] = panSchema(f.pan)
         /\ issues["businessType"] = enum(f.businessType)
         /\ issues["monthlyRevenue"]
              = numericField(f.monthlyRevenue, MinRevenue, MaxRevenue, FALSE)
         /\ issues["requestedAmount"]
              = numericField(f.requestedAmount, MinAmount, MaxAmount, FALSE)
         /\ issues["tenureMonths"] = numericField(f.tenureMonths, 1, MaxTenure, TRUE)
         /\ issues["purpose"] = enum(f.purpose)
  BY DEF loanIntakeFormSchema, Fields, BusinessFields, ApplicationFields,
         createBusinessSchema, createApplicationSchema

\* What the fields of a form and the limits of their numbers are.
LEMMA FormTypes ==
  ASSUME NEW f \in RawForms
  PROVE  /\ f.ownerName \in Names /\ f.pan \in Pans
         /\ f.businessType \in Choices /\ f.purpose \in Choices
         /\ f.monthlyRevenue \in Entries /\ f.requestedAmount \in Entries
         /\ f.tenureMonths \in Entries
         /\ MinRevenue \in Nat \ {0} /\ MinAmount \in Nat \ {0}
         /\ MaxRevenue \in Nat /\ MaxAmount \in Nat /\ MaxTenure \in Nat
  BY LimitsAssumption DEF RawForms

\* The schema of the form accepts a field exactly when it holds what it ought.
LEMMA FormField ==
  ASSUME NEW f \in RawForms, NEW k \in Fields
  PROVE  loanIntakeFormSchema(f)[k] = <<>> <=> InOrder(f)[k]
<1> DEFINE issues == loanIntakeFormSchema(f)
<1>1. /\ issues["ownerName"] = ownerNameSchema(f.ownerName)
      /\ issues["pan"] = panSchema(f.pan)
      /\ issues["businessType"] = enum(f.businessType)
      /\ issues["monthlyRevenue"]
           = numericField(f.monthlyRevenue, MinRevenue, MaxRevenue, FALSE)
      /\ issues["requestedAmount"]
           = numericField(f.requestedAmount, MinAmount, MaxAmount, FALSE)
      /\ issues["tenureMonths"] = numericField(f.tenureMonths, 1, MaxTenure, TRUE)
      /\ issues["purpose"] = enum(f.purpose)
  BY FormSchema
<1>2. /\ f.ownerName \in Names /\ f.pan \in Pans
      /\ f.businessType \in Choices /\ f.purpose \in Choices
      /\ f.monthlyRevenue \in Entries /\ f.requestedAmount \in Entries
      /\ f.tenureMonths \in Entries
  BY FormTypes
<1>3. /\ MinRevenue \in Nat \ {0} /\ MinAmount \in Nat \ {0}
      /\ MaxRevenue \in Nat /\ MaxAmount \in Nat /\ MaxTenure \in Nat
  BY FormTypes
<1> HIDE DEF issues
<1>4. issues["ownerName"] = <<>> <=> InOrder(f).ownerName
  BY <1>1, <1>2, OwnerNameField DEF InOrder
<1>5. issues["pan"] = <<>> <=> InOrder(f).pan
  BY <1>1, <1>2, PanField DEF InOrder
<1>6. issues["businessType"] = <<>> <=> InOrder(f).businessType
  BY <1>1, <1>2, Choice DEF InOrder
<1>7. issues["monthlyRevenue"] = <<>> <=> InOrder(f).monthlyRevenue
  <2>1. numericField(f.monthlyRevenue, MinRevenue, MaxRevenue, FALSE) = <<>>
          <=> toFiniteNumber(f.monthlyRevenue) /\ Within(f.monthlyRevenue.value, MinRevenue, MaxRevenue)
    BY <1>2, <1>3, NumericField
  <2> QED BY <1>1, <2>1 DEF InOrder
<1>8. issues["requestedAmount"] = <<>> <=> InOrder(f).requestedAmount
  <2>1. numericField(f.requestedAmount, MinAmount, MaxAmount, FALSE) = <<>>
          <=> toFiniteNumber(f.requestedAmount) /\ Within(f.requestedAmount.value, MinAmount, MaxAmount)
    BY <1>2, <1>3, NumericField
  <2> QED BY <1>1, <2>1 DEF InOrder
<1>9. issues["tenureMonths"] = <<>> <=> InOrder(f).tenureMonths
  <2>1. numericField(f.tenureMonths, 1, MaxTenure, TRUE) = <<>>
          <=> toFiniteNumber(f.tenureMonths) /\ Within(f.tenureMonths.value, 1, MaxTenure) /\ f.tenureMonths.value.frac = 0
    <3>1. 1 \in Nat \ {0} /\ TRUE \in BOOLEAN
      OBVIOUS
    <3>2. numericField(f.tenureMonths, 1, MaxTenure, TRUE) = <<>>
            <=> /\ toFiniteNumber(f.tenureMonths)
                /\ Within(f.tenureMonths.value, 1, MaxTenure)
                /\ TRUE => f.tenureMonths.value.frac = 0
      BY <1>2, <1>3, <3>1, NumericField
    <3> QED BY <3>2
  <2> QED BY <1>1, <2>1 DEF InOrder
<1>10. issues["purpose"] = <<>> <=> InOrder(f).purpose
  BY <1>1, <1>2, Choice DEF InOrder
<1> QED BY <1>4, <1>5, <1>6, <1>7, <1>8, <1>9, <1>10
        DEF Fields, BusinessFields, ApplicationFields, issues

\* It is the two API schemas together, and no more.
LEMMA FormIsBoth ==
  ASSUME NEW f
  PROVE  Accepted(loanIntakeFormSchema(f))
           <=> /\ Accepted(createBusinessSchema(f))
               /\ Accepted(createApplicationSchema(f))
<1> DEFINE business == createBusinessSchema(f)
           application == createApplicationSchema(f)
<1>1. DOMAIN business = BusinessFields /\ DOMAIN application = ApplicationFields
  BY DEF createBusinessSchema, createApplicationSchema, BusinessFields,
         ApplicationFields
<1>2. BusinessFields \cap ApplicationFields = {}
  BY DEF BusinessFields, ApplicationFields
<1> HIDE DEF business, application
<1>3. loanIntakeFormSchema(f)
        = [k \in Fields |-> IF k \in BusinessFields THEN business[k] ELSE application[k]]
  BY DEF loanIntakeFormSchema, business, application
<1>4. Accepted(loanIntakeFormSchema(f)) <=> Accepted(business) /\ Accepted(application)
  BY <1>1, <1>2, <1>3 DEF Accepted, Fields
<1> QED BY <1>4 DEF business, application

\* What the browser sends is in order if what was typed is.
LEMMA ParsedInOrder ==
  ASSUME NEW f \in RawForms, \A k \in Fields : InOrder(f)[k]
  PROVE  parsed(f) \in RawForms /\ \A k \in Fields : InOrder(parsed(f))[k]
<1> DEFINE g == parsed(f)
<1>1. /\ f.ownerName \in Names /\ f.pan \in Pans
      /\ f.businessType \in Choices /\ f.purpose \in Choices
      /\ f.monthlyRevenue \in Entries /\ f.requestedAmount \in Entries
      /\ f.tenureMonths \in Entries
  BY DEF RawForms
<1>2. /\ g.ownerName = [f.ownerName EXCEPT !.padding = 0]
      /\ g.pan = normalised(f.pan)
      /\ g.businessType = f.businessType
      /\ g.monthlyRevenue = [f.monthlyRevenue EXCEPT !.kind = "number"]
      /\ g.requestedAmount = [f.requestedAmount EXCEPT !.kind = "number"]
      /\ g.tenureMonths = [f.tenureMonths EXCEPT !.kind = "number"]
      /\ g.purpose = f.purpose
  BY DEF parsed
<1> HIDE DEF g
<1>3. /\ g.ownerName \in Names
      /\ g.ownerName.kind = f.ownerName.kind /\ g.ownerName.letters = f.ownerName.letters
  BY <1>1, <1>2 DEF Names
<1>4. /\ g.pan \in Pans /\ g.pan.kind = f.pan.kind
      /\ g.pan.shape = f.pan.shape /\ g.pan.holder = f.pan.holder
  BY <1>1, <1>2 DEF Pans, normalised
<1>5. \A e \in Entries : LET d == [e EXCEPT !.kind = "number"] IN
        d \in Entries /\ d.value = e.value /\ toFiniteNumber(d)
  BY DEF Entries, toFiniteNumber
<1>6. /\ g.monthlyRevenue \in Entries /\ g.requestedAmount \in Entries
      /\ g.tenureMonths \in Entries
      /\ g.monthlyRevenue.value = f.monthlyRevenue.value
      /\ g.requestedAmount.value = f.requestedAmount.value
      /\ g.tenureMonths.value = f.tenureMonths.value
      /\ toFiniteNumber(g.monthlyRevenue) /\ toFiniteNumber(g.requestedAmount)
      /\ toFiniteNumber(g.tenureMonths)
  BY <1>1, <1>2, <1>5
<1>7. g.businessType = f.businessType /\ g.purpose = f.purpose
  BY <1>2
<1>8. g \in RawForms
  BY <1>1, <1>3, <1>4, <1>6, <1>7 DEF RawForms, g, parsed
<1>9. /\ InOrder(f)["ownerName"] /\ InOrder(f)["pan"] /\ InOrder(f)["businessType"]
      /\ InOrder(f)["monthlyRevenue"] /\ InOrder(f)["requestedAmount"]
      /\ InOrder(f)["tenureMonths"] /\ InOrder(f)["purpose"]
  BY DEF Fields, BusinessFields, ApplicationFields
<1>10. /\ InOrder(g)["ownerName"] /\ InOrder(g)["pan"] /\ InOrder(g)["businessType"]
       /\ InOrder(g)["purpose"]
  BY <1>3, <1>4, <1>7, <1>9 DEF InOrder
<1>11. /\ InOrder(g)["monthlyRevenue"] /\ InOrder(g)["requestedAmount"]
       /\ InOrder(g)["tenureMonths"]
  BY <1>6, <1>9 DEF InOrder
<1>12. \A k \in Fields : InOrder(g)[k]
  BY <1>10, <1>11 DEF Fields, BusinessFields, ApplicationFields
<1> QED BY <1>8, <1>12 DEF g

\* Whatever is typed, a form the browser lets through is accepted by both
\* requests, and the rows keep its figures within their limits.
THEOREM FormNeverRefused == \A f \in RawForms : NeverRefused(f)
<1> SUFFICES ASSUME NEW f \in RawForms, Accepted(loanIntakeFormSchema(f))
             PROVE  /\ Accepted(createBusinessSchema(parsed(f)))
                    /\ Accepted(createApplicationSchema(parsed(f)))
                    /\ \A n \in numberToNumeric(f.monthlyRevenue.value) :
                         Fits(n) /\ Within(n, MinRevenue, MaxRevenue)
                    /\ \A n \in numberToNumeric(f.requestedAmount.value) :
                         Fits(n) /\ Within(n, MinAmount, MaxAmount)
  BY DEF NeverRefused
<1>1. \A k \in Fields : loanIntakeFormSchema(f)[k] = <<>>
  BY DEF Accepted, loanIntakeFormSchema
<1>2. \A k \in Fields : InOrder(f)[k]
  BY <1>1, FormField
<1>3. \A k \in Fields : loanIntakeFormSchema(parsed(f))[k] = <<>>
  BY <1>2, FormField, ParsedInOrder
<1>4. Accepted(loanIntakeFormSchema(parsed(f)))
  BY <1>3 DEF Accepted, loanIntakeFormSchema
<1>5. /\ Accepted(createBusinessSchema(parsed(f)))
      /\ Accepted(createApplicationSchema(parsed(f)))
  BY <1>4, FormIsBoth
<1>6. /\ f.monthlyRevenue.value \in Figures /\ f.requestedAmount.value \in Figures
      /\ InOrder(f)["monthlyRevenue"] /\ InOrder(f)["requestedAmount"]
  BY <1>2 DEF RawForms, Entries, Fields, BusinessFields, ApplicationFields
<1>7. /\ Within(f.monthlyRevenue.value, MinRevenue, MaxRevenue)
      /\ Within(f.requestedAmount.value, MinAmount, MaxAmount)
  BY <1>6 DEF InOrder
<1>8. /\ \A n \in numberToNumeric(f.monthlyRevenue.value) :
           Within(n, MinRevenue, MaxRevenue)
      /\ \A n \in numberToNumeric(f.requestedAmount.value) :
           Within(n, MinAmount, MaxAmount)
  BY <1>6, <1>7, Rounding, LimitsAssumption
<1>9. ASSUME NEW v \in Figures, NEW n \in numberToNumeric(v)
      PROVE  n.rupees \in Int
  BY <1>9 DEF numberToNumeric, Figures
<1>10. \A v \in Figures : \A n \in numberToNumeric(v), min \in Nat, max \in Nat :
         Within(n, min, max) /\ max < ColumnMax => Fits(n)
  BY <1>9, LimitsAssumption DEF Within, Fits
<1> QED BY <1>5, <1>6, <1>8, <1>10, LimitsAssumption

\* Whatever is typed, the wrong fields and no others are named, once each; a
\* PAN wrong in both ways is told of its shape.
THEOREM EveryFieldReported ==
  \A f \in RawForms : ReportedOnce(f)
<1> SUFFICES ASSUME NEW f \in RawForms PROVE ReportedOnce(f)
  OBVIOUS
<1> DEFINE issues == loanIntakeFormSchema(f)
           shown == byField(issues)
<1>1. DOMAIN issues = Fields
  BY DEF loanIntakeFormSchema
<1>2. DOMAIN shown = {k \in Fields : issues[k] # <<>>}
  BY <1>1 DEF byField
<1>3. DOMAIN shown = {k \in Fields : ~InOrder(f)[k]}
  BY <1>2, FormField
<1>4. \A k \in Fields \ {"pan"} : Len(issues[k]) <= 1
  <2>1. /\ Len(issues["ownerName"]) <= 1 /\ Len(issues["businessType"]) <= 1
        /\ Len(issues["purpose"]) <= 1
    BY FormSchema, FormTypes, OwnerNameField, Choice
  <2>2. Len(issues["monthlyRevenue"]) <= 1
    BY FormSchema, FormTypes, NumericField
  <2>3. Len(issues["requestedAmount"]) <= 1
    BY FormSchema, FormTypes, NumericField
  <2>4. Len(issues["tenureMonths"]) <= 1
    <3>1. 1 \in Nat \ {0} /\ TRUE \in BOOLEAN
      OBVIOUS
    <3>2. Len(numericField(f.tenureMonths, 1, MaxTenure, TRUE)) <= 1
      BY <3>1, FormTypes, NumericField
    <3> QED BY <3>2, FormSchema
  <2> HIDE DEF issues
  <2> QED BY <2>1, <2>2, <2>3, <2>4 DEF Fields, BusinessFields, ApplicationFields
<1>5. Len(issues["pan"]) > 1 => shown["pan"] = "shape"
  <2>1. SUFFICES ASSUME Len(issues["pan"]) > 1 PROVE shown["pan"] = "shape"
    OBVIOUS
  <2>2. issues["pan"][1] = "shape"
    BY <2>1, FormSchema, FormTypes, PanField
  <2>3. issues["pan"] # <<>> /\ "pan" \in Fields
    BY <2>1 DEF Fields, BusinessFields
  <2> HIDE DEF issues
  <2> QED BY <1>1, <2>2, <2>3 DEF byField
<1> QED BY <1>3, <1>4, <1>5 DEF ReportedOnce
===============================================================================
