------------------------ MODULE BusinessProfilesProofs ------------------------
(***************************************************************************)
(* Theorems about BusinessProfiles, for any submissions, any PUTs of other *)
(* clients, and any PANs.                                                  *)
(***************************************************************************)
EXTENDS BusinessProfiles, FiniteSetTheorems, TLAPS

Rows == [pan : Pans \cup {None}, forms : Seq(Callers)]

(* No profile, or one that somebody wrote.                                 *)
WellFormed(x) == x = NoProfile \/ (x.pan \in Pans /\ x.forms # <<>>)

(* A coarser typing than TypeOK's: the number of forms in a row is left    *)
(* out, which counts callers and is not needed.                            *)
RowsInv ==
  /\ pan \in [Callers -> Pans]
  /\ profiles \in [Submissions -> Rows]
  /\ \A b \in Submissions : WellFormed(profiles[b])
  /\ calls \in [Callers -> Calls]
  /\ application \in [Submissions -> Submissions \cup {None}]
  /\ scored \in [Submissions -> Callers \cup {None}]

Addressing == {"find", "owner", "update", "apply", "applied"}

(* A caller past the read of a profile addresses one that exists.          *)
CallsInv ==
  /\ \A c \in Callers :
       /\ calls[c].pc \in Addressing => calls[c].id \in Submissions
       /\ calls[c].pc \in Addressing \ {"find"} => Exists(calls[c].id)
  /\ \A e \in Edits : calls[e].pc \in {"find", "owner", "update", "done", "rejected"}
  /\ \A c \in Submissions : calls[c].pc \in Addressing => Exists(calls[c].id)
  /\ \A c \in Submissions :
       calls[c].pc = "applied" => application[c] = calls[c].id
  /\ \A c \in Submissions : application[c] # None => Exists(application[c])

Inv == RowsInv /\ CallsInv

-------------------------------------------------------------------------------
LEMMA CallFields ==
  /\ \A x \in Calls, pc \in Steps : [x EXCEPT !.pc = pc] \in Calls
  /\ \A pc \in Steps, b \in Submissions : [pc |-> pc, id |-> b] \in Calls
  BY DEF Calls

LEMMA RowFields ==
  \A x \in Rows, p \in Pans, c \in Callers :
    LET y == [x EXCEPT !.pan = p, !.forms = Append(x.forms, c)]
    IN y \in Rows /\ y.pan = p /\ y.forms = Append(x.forms, c)
<1> DEFINE Names == Pans \cup {None}
           Lists == Seq(Callers)
<1>1. Rows = [pan : Names, forms : Lists]
  BY DEF Rows
<1> SUFFICES ASSUME NEW x \in Rows, NEW p \in Pans, NEW c \in Callers
             PROVE  LET y == [x EXCEPT !.pan = p, !.forms = Append(x.forms, c)]
                    IN y \in Rows /\ y.pan = p /\ y.forms = Append(x.forms, c)
  OBVIOUS
<1>2. x.forms \in Lists
  BY <1>1
<1>3. Append(x.forms, c) \in Lists
  BY <1>2
<1>4. p \in Names
  OBVIOUS
<1> DEFINE z == Append(x.forms, c)
<1> HIDE DEF Names, Lists, z
<1>5. z \in Lists
  BY <1>3 DEF z
<1>6. /\ [x EXCEPT !.pan = p, !.forms = z] \in Rows
      /\ [x EXCEPT !.pan = p, !.forms = z].pan = p
      /\ [x EXCEPT !.pan = p, !.forms = z].forms = z
  BY <1>1, <1>4, <1>5
<1> QED BY <1>6 DEF z

(* The two writes of a profile, and what every other step leaves alone.    *)
Inserts(c) == /\ calls[c].pc = "insert"
              /\ Unique(c, pan[c])
              /\ profiles' = [profiles EXCEPT ![c] = [pan |-> pan[c], forms |-> <<c>>]]

Writes(c) == LET b == calls[c].id IN
             /\ calls[c].pc = "update"
             /\ b \in Submissions
             /\ Unique(b, pan[c])
             /\ profiles'[b] \in Rows
             /\ profiles'[b].pan = pan[c]
             /\ profiles'[b].forms = Append(profiles[b].forms, c)
             /\ \A d \in Submissions : d # b => profiles'[d] = profiles[d]
             /\ profiles' \in [Submissions -> Rows]

LEMMA UpdateWrites ==
  ASSUME Inv, NEW c \in Callers, Update(c) PROVE Writes(c)
<1> DEFINE b == calls[c].id
           y == [profiles[b] EXCEPT !.pan = pan[c],
                                    !.forms = Append(profiles[b].forms, c)]
<1>1. b \in Submissions
  BY DEF Update, Inv, CallsInv, Addressing
<1>2. profiles[b] \in Rows /\ pan[c] \in Pans
  BY <1>1 DEF Inv, RowsInv
<1>3. y \in Rows /\ y.pan = pan[c] /\ y.forms = Append(profiles[b].forms, c)
  BY <1>2, RowFields
<1>4. profiles' = [profiles EXCEPT ![b] = y]
  BY <1>1 DEF Update, Inv, RowsInv
<1> HIDE DEF y
<1>5. profiles' \in [Submissions -> Rows] /\ profiles'[b] = y
  BY <1>1, <1>3, <1>4 DEF Inv, RowsInv
<1> QED BY <1>1, <1>3, <1>4, <1>5 DEF Writes, Update, Inv, RowsInv

LEMMA ProfileStep ==
  ASSUME Inv, [Next]_vars
  PROVE  \/ UNCHANGED profiles
         \/ \E c \in Submissions : Inserts(c) /\ Insert(c)
         \/ \E c \in Callers : Writes(c) /\ Update(c)
<1>1. CASE UNCHANGED vars
  BY <1>1 DEF vars
<1>2. ASSUME NEW c \in Submissions, Intake(c), ~Insert(c) PROVE UNCHANGED profiles
  BY <1>2 DEF Intake, FindFree, FindTaken, InsertRefused, Apply, Score, SetUnchanged
<1>3. ASSUME NEW c \in Submissions, Insert(c) PROVE Inserts(c)
  BY <1>3 DEF Insert, Inserts
<1>4. ASSUME NEW c \in Callers, Put(c), ~Update(c) PROVE UNCHANGED profiles
  BY <1>4 DEF Put, FindMissing, FindById, CheckOwner, UpdateRefused, SetUnchanged
<1>5. ASSUME NEW c \in Callers, LoseAnswer(c) PROVE UNCHANGED profiles
  BY <1>5 DEF LoseAnswer, SetUnchanged
<1> QED BY <1>1, <1>2, <1>3, <1>4, <1>5, UpdateWrites DEF Next

(* Profiles are never deleted, and stay well formed.                       *)
LEMMA RowsStep ==
  ASSUME Inv, [Next]_vars
  PROVE  /\ profiles' \in [Submissions -> Rows]
         /\ \A b \in Submissions : WellFormed(profiles'[b])
         /\ \A b \in Submissions : Exists(b) => Exists(b)'
<1> USE ProfilesAssumption DEF Inv, RowsInv
<1>1. NoProfile.pan = None
  BY DEF NoProfile
<1>2. CASE UNCHANGED profiles
  BY <1>2 DEF Exists
<1>3. ASSUME NEW c \in Submissions, Inserts(c)
      PROVE  /\ profiles' \in [Submissions -> Rows]
             /\ \A b \in Submissions : WellFormed(profiles'[b])
             /\ \A b \in Submissions : Exists(b) => Exists(b)'
  <2> DEFINE y == [pan |-> pan[c], forms |-> <<c>>]
  <2>1. pan[c] \in Pans /\ <<c>> \in Seq(Callers)
    BY DEF Callers
  <2>2. y \in Rows /\ y.pan \in Pans /\ y.forms # <<>>
    BY <2>1 DEF Rows
  <2>3. profiles' = [profiles EXCEPT ![c] = y]
    BY <1>3 DEF Inserts
  <2>4. y # NoProfile
    BY <1>1, <2>2
  <2> HIDE DEF y
  <2> QED BY <2>2, <2>3, <2>4 DEF Exists, WellFormed
<1>4. ASSUME NEW c \in Callers, Writes(c)
      PROVE  /\ profiles' \in [Submissions -> Rows]
             /\ \A b \in Submissions : WellFormed(profiles'[b])
             /\ \A b \in Submissions : Exists(b) => Exists(b)'
  <2>1. pan[c] \in Pans
    OBVIOUS
  <2>2. profiles'[calls[c].id].pan \in Pans /\ profiles'[calls[c].id] # NoProfile
    BY <1>1, <1>4, <2>1 DEF Writes
  <2>3. profiles[calls[c].id].forms \in Seq(Callers)
    BY <1>4 DEF Writes, Rows
  <2>4. Append(profiles[calls[c].id].forms, c) # <<>>
    <3> DEFINE f == profiles[calls[c].id].forms
    <3>1. f \in Seq(Callers)
      BY <2>3
    <3> HIDE DEF f
    <3>2. /\ Len(Append(f, c)) = Len(f) + 1
          /\ Len(f) \in Nat
      BY <3>1
    <3> DEFINE g == Append(f, c)
    <3>3. Len(g) # 0
      BY <3>2
    <3> HIDE DEF g
    <3>4. g # <<>>
      BY <3>3
    <3> QED BY <3>4 DEF f, g
  <2>5. profiles'[calls[c].id].forms # <<>>
    BY <1>4, <2>4 DEF Writes
  <2> QED BY <1>4, <2>2, <2>5 DEF Writes, Exists, WellFormed
<1> QED BY <1>2, <1>3, <1>4, ProfileStep

LEMMA HoldersExist ==
  ASSUME Inv, NEW p \in Pans, NEW b \in Holders(p)
  PROVE  b \in Submissions /\ Exists(b)
  BY ProfilesAssumption DEF Holders, Exists, NoProfile, Inv, RowsInv

LEMMA NextInv == ASSUME Inv, [Next]_vars PROVE Inv'
<1> USE ProfilesAssumption
<1> USE DEF Inv
<1>1. CASE UNCHANGED vars
  BY <1>1 DEF vars, RowsInv, CallsInv, Exists, Addressing
<1>2. /\ profiles' \in [Submissions -> Rows]
      /\ \A b \in Submissions : WellFormed(profiles'[b])
  BY RowsStep
<1>3. \A b \in Submissions : profiles[b] # NoProfile => profiles'[b] # NoProfile
  BY RowsStep DEF Exists
<1> USE DEF Exists
\* Steps that move one caller and leave its profile, its application and the
\* scores alone.
<1>5. ASSUME NEW c \in Callers, NEW to \in Steps,
             calls' = [calls EXCEPT ![c].pc = to],
             to \in Addressing => /\ calls[c].id \in Submissions
                                  /\ to # "find"
                                  /\ profiles'[calls[c].id] # NoProfile,
             to # "applied",
             c \in Edits => to \in {"find", "owner", "update", "done", "rejected"},
             UNCHANGED <<pan, application, scored>>
      PROVE  Inv'
  <2>1. calls' \in [Callers -> Calls]
    BY <1>5, CallFields DEF RowsInv
  <2>2. RowsInv'
    BY <1>2, <1>5, <2>1 DEF RowsInv
  <2>3. calls'[c].pc = to /\ calls'[c].id = calls[c].id
    BY <1>5 DEF RowsInv, Calls
  <2>4. \A d \in Callers : d # c => calls'[d] = calls[d]
    BY <1>5 DEF RowsInv
  <2>5. CallsInv'
    BY <1>3, <1>5, <2>3, <2>4 DEF CallsInv, RowsInv, Addressing, Callers
  <2> QED BY <2>2, <2>5
\* Steps that also give it another profile.
<1>6. ASSUME NEW c \in Submissions, NEW to \in Steps, NEW b \in Submissions,
             calls' = [calls EXCEPT ![c] = [pc |-> to, id |-> b]],
             profiles'[b] # NoProfile, to # "applied",
             UNCHANGED <<pan, application, scored>>
      PROVE  Inv'
  <2>0. c \in Callers /\ c \notin Edits
    BY DEF Callers
  <2>1. calls' \in [Callers -> Calls]
    BY <1>6, <2>0, CallFields DEF RowsInv
  <2>2. RowsInv'
    BY <1>2, <1>6, <2>1 DEF RowsInv
  <2>3. calls'[c].pc = to /\ calls'[c].id = b
    BY <1>6, <2>0 DEF RowsInv
  <2>4. \A d \in Callers : d # c => calls'[d] = calls[d]
    BY <1>6, <2>0 DEF RowsInv
  <2>5. CallsInv'
    BY <1>3, <1>6, <2>0, <2>3, <2>4 DEF CallsInv, RowsInv, Addressing, Callers
  <2> QED BY <2>2, <2>5
<1>7. ASSUME NEW c \in Submissions, FindFree(c) \/ InsertRefused(c) PROVE Inv'
  BY <1>5, <1>7 DEF FindFree, InsertRefused, Go, SetUnchanged, Callers, Steps, Addressing
<1>8. ASSUME NEW c \in Submissions, FindTaken(c) PROVE Inv'
  <2>1. PICK b \in Holders(pan[c]) : GoWith(c, "find", b)
    BY <1>8 DEF FindTaken
  <2>2. b \in Submissions /\ Exists(b)
    BY HoldersExist DEF RowsInv, Callers
  <2>3. profiles'[b] # NoProfile /\ UNCHANGED <<pan, application, scored>>
    BY <1>8, <1>3, <2>2 DEF FindTaken, SetUnchanged
  <2> QED BY <1>6, <2>1, <2>2, <2>3 DEF GoWith, Steps
<1>9. ASSUME NEW c \in Submissions, Insert(c) PROVE Inv'
  <2>1. profiles'[c].pan = pan[c] /\ pan[c] # None
    BY <1>9 DEF Insert, RowsInv, Callers
  <2>2. profiles'[c] # NoProfile
    BY <2>1 DEF NoProfile
  <2> QED BY <1>6, <1>9, <2>2 DEF Insert, GoWith, Steps
<1>10. ASSUME NEW c \in Submissions, Apply(c) PROVE Inv'
  <2>1. c \in Callers /\ calls[c].id \in Submissions /\ Exists(calls[c].id)
    BY <1>10 DEF Apply, CallsInv, Addressing, Callers
  <2>2. calls' \in [Callers -> Calls]
    BY <1>10, <2>1, CallFields DEF Apply, Go, RowsInv, Steps
  <2>3. RowsInv'
    BY <1>2, <1>10, <2>1, <2>2 DEF Apply, RowsInv
  <2>4. /\ calls'[c].pc = "applied" /\ calls'[c].id = calls[c].id
        /\ \A d \in Callers : d # c => calls'[d] = calls[d]
    BY <1>10, <2>1 DEF Apply, Go, RowsInv, Calls
  <2>5. /\ application'[c] = calls[c].id
        /\ \A d \in Submissions : d # c => application'[d] = application[d]
    BY <1>10 DEF Apply, RowsInv
  <2>6. CallsInv'
    BY <1>3, <1>10, <2>1, <2>4, <2>5 DEF CallsInv, RowsInv, Addressing, Callers
  <2> QED BY <2>3, <2>6
<1>11. ASSUME NEW c \in Callers, Put(c) \/ LoseAnswer(c) PROVE Inv'
  <2>1. CASE FindMissing(c) \/ UpdateRefused(c) \/ LoseAnswer(c)
    BY <1>5, <2>1 DEF FindMissing, UpdateRefused, LoseAnswer, Go, SetUnchanged,
                      Steps, Addressing
  <2>2. CASE FindById(c)
    <3> DEFINE to == IF profiles[calls[c].id].pan = pan[c] THEN "update" ELSE "owner"
    <3>1. calls[c].id \in Submissions
      BY <2>2 DEF FindById, CallsInv, Addressing
    <3>2. profiles'[calls[c].id] # NoProfile
      BY <1>3, <2>2, <3>1 DEF FindById
    <3>3. to \in {"update", "owner"}
      OBVIOUS
    <3>4. calls' = [calls EXCEPT ![c].pc = to] /\ UNCHANGED <<pan, application, scored>>
      BY <2>2 DEF FindById, Go, SetUnchanged
    <3> HIDE DEF to
    <3> QED BY <1>5, <3>1, <3>2, <3>3, <3>4 DEF Steps
  <2>3. CASE CheckOwner(c)
    <3> DEFINE to == IF Holders(pan[c]) \subseteq {calls[c].id} THEN "update"
                     ELSE "rejected"
    <3>1. calls[c].id \in Submissions /\ Exists(calls[c].id)
      BY <2>3 DEF CheckOwner, CallsInv, Addressing
    <3>2. profiles'[calls[c].id] # NoProfile
      BY <1>3, <3>1
    <3>3. to \in {"update", "rejected"}
      OBVIOUS
    <3>4. calls' = [calls EXCEPT ![c].pc = to] /\ UNCHANGED <<pan, application, scored>>
      BY <2>3 DEF CheckOwner, Go, SetUnchanged
    <3> HIDE DEF to
    <3> QED BY <1>5, <3>1, <3>2, <3>3, <3>4 DEF Steps
  <2>4. CASE Update(c)
    <3> DEFINE to == IF c \in Submissions THEN "apply" ELSE "done"
    <3>1. calls[c].id \in Submissions /\ Exists(calls[c].id)
      BY <2>4 DEF Update, CallsInv, Addressing
    <3>2. profiles'[calls[c].id] # NoProfile
      BY <1>3, <3>1
    <3>3. to \in {"apply", "done"} /\ (c \in Edits => to = "done")
      OBVIOUS
    <3>4. calls' = [calls EXCEPT ![c].pc = to] /\ UNCHANGED <<pan, application, scored>>
      BY <2>4 DEF Update, Go
    <3> HIDE DEF to
    <3> QED BY <1>5, <3>1, <3>2, <3>3, <3>4 DEF Steps
  <2> QED BY <1>11, <2>1, <2>2, <2>3, <2>4 DEF Put
<1>12. ASSUME NEW c \in Submissions, Score(c) PROVE Inv'
  <2>1. c \in Callers
    BY DEF Callers
  <2>2. calls' \in [Callers -> Calls]
    BY <1>12, <2>1, CallFields DEF Score, Go, RowsInv, Steps
  <2> DEFINE b == application[c]
             forms == profiles[b].forms
  <2>6. b \in Submissions /\ Exists(b)
    BY <1>12, <2>1 DEF Score, CallsInv, Addressing
  <2>7. forms \in Seq(Callers) /\ forms # <<>>
    BY <2>6 DEF RowsInv, WellFormed, Rows
  <2>8. Last(forms) \in Callers
    BY <2>7 DEF Last
  <2>9. scored' \in [Submissions -> Callers \cup {None}]
    BY <1>12, <2>8 DEF Score, RowsInv
  <2>3. RowsInv'
    BY <1>2, <1>12, <2>2, <2>9 DEF Score, RowsInv
  <2>4. /\ calls'[c].pc = "done"
        /\ \A d \in Callers : d # c => calls'[d] = calls[d]
    BY <1>12, <2>1 DEF Score, Go, RowsInv, Calls
  <2>5. CallsInv'
    BY <1>3, <1>12, <2>1, <2>4 DEF Score, CallsInv, RowsInv, Addressing, Callers
  <2> QED BY <2>3, <2>5
<1> QED BY <1>1, <1>7, <1>8, <1>9, <1>10, <1>11, <1>12 DEF Next, Intake

LEMMA InitInv == Init => Inv
<1> SUFFICES ASSUME Init PROVE Inv
  OBVIOUS
<1> USE ProfilesAssumption DEF Init
<1>1. NoProfile \in Rows
  BY DEF NoProfile, Rows
<1>2. RowsInv
  BY <1>1 DEF RowsInv, WellFormed
<1>3. \A e \in Edits : calls[e].pc = "find" /\ calls[e].id \in Submissions
  BY DEF Calls, Callers
<1>4. CallsInv
  BY <1>3 DEF CallsInv, Addressing, Callers, Exists
<1> QED BY <1>2, <1>4 DEF Inv

-------------------------------------------------------------------------------
(* What a step does to one caller.                                         *)

(* A caller moves alone.                                                   *)
LEMMA Alone ==
  ASSUME Inv, NEW q \in Callers,
         \/ \E c \in Submissions : c # q /\ Intake(c)
         \/ \E c \in Callers : c # q /\ (Put(c) \/ LoseAnswer(c))
  PROVE  /\ calls'[q] = calls[q]
         /\ q \in Submissions => /\ application'[q] = application[q]
                                 /\ scored'[q] = scored[q]
<1> USE DEF Inv, RowsInv
<1>1. ASSUME NEW c \in Submissions, c # q, Intake(c)
      PROVE  /\ calls'[q] = calls[q]
             /\ q \in Submissions => /\ application'[q] = application[q]
                                     /\ scored'[q] = scored[q]
  BY <1>1 DEF Intake, FindFree, FindTaken, Insert, InsertRefused, Apply, Score,
              Go, GoWith, SetUnchanged
<1>2. ASSUME NEW c \in Callers, c # q, Put(c) \/ LoseAnswer(c)
      PROVE  /\ calls'[q] = calls[q]
             /\ q \in Submissions => /\ application'[q] = application[q]
                                     /\ scored'[q] = scored[q]
  BY <1>2 DEF Put, FindMissing, FindById, CheckOwner, Update, UpdateRefused,
              LoseAnswer, Go, SetUnchanged
<1> QED BY <1>1, <1>2

(* PANs stay, and a caller that was answered stays so.                     *)
LEMMA DoneStays ==
  ASSUME Inv, [Next]_vars
  PROVE  /\ UNCHANGED pan
         /\ \A c \in Callers : calls[c].pc = "done" => calls'[c].pc = "done"
<1> USE DEF Inv, RowsInv
<1>1. CASE UNCHANGED vars
  BY <1>1 DEF vars
<1>2. ASSUME NEW c \in Submissions, Intake(c)
      PROVE  UNCHANGED pan /\ calls[c].pc # "done"
  BY <1>2 DEF Intake, FindFree, FindTaken, Insert, InsertRefused, Apply, Score, SetUnchanged
<1>3. ASSUME NEW c \in Callers, Put(c) \/ LoseAnswer(c)
      PROVE  UNCHANGED pan /\ calls[c].pc # "done"
  BY <1>3 DEF Put, FindMissing, FindById, CheckOwner, Update, UpdateRefused,
              LoseAnswer, SetUnchanged
<1> QED BY <1>1, <1>2, <1>3, Alone DEF Next, Callers

(* How a submission comes to address a profile, and to be past its write.  *)
LEMMA SubmissionStep ==
  ASSUME Inv, [Next]_vars, NEW c \in Submissions
  PROVE  /\ calls'[c].pc \in {"create", "insert"} => calls[c].pc \in {"create", "insert"}
         /\ calls'[c].pc \in Addressing =>
              \/ calls[c].pc \in Addressing /\ calls'[c].id = calls[c].id
              \/ FindTaken(c) /\ calls'[c].id \in Holders(pan[c])
              \/ Insert(c) /\ calls'[c].id = c
         /\ calls'[c].pc \in {"apply", "applied"} =>
              \/ calls[c].pc \in {"apply", "applied"} /\ calls'[c].id = calls[c].id
              \/ Insert(c) /\ calls'[c].id = c
              \/ Update(c) /\ calls'[c].id = calls[c].id
         /\ application'[c] # application[c] =>
              calls[c].pc = "apply" /\ application'[c] = calls[c].id
         /\ scored'[c] # scored[c] => Score(c)
<1> DEFINE Moves ==
      /\ calls'[c].pc \in {"create", "insert"} => calls[c].pc \in {"create", "insert"}
      /\ calls'[c].pc \in Addressing =>
           \/ calls[c].pc \in Addressing /\ calls'[c].id = calls[c].id
           \/ FindTaken(c) /\ calls'[c].id \in Holders(pan[c])
           \/ Insert(c) /\ calls'[c].id = c
      /\ calls'[c].pc \in {"apply", "applied"} =>
           \/ calls[c].pc \in {"apply", "applied"} /\ calls'[c].id = calls[c].id
           \/ Insert(c) /\ calls'[c].id = c
           \/ Update(c) /\ calls'[c].id = calls[c].id
      /\ application'[c] # application[c] =>
           calls[c].pc = "apply" /\ application'[c] = calls[c].id
      /\ scored'[c] # scored[c] => Score(c)
<1> USE DEF Inv, RowsInv
<1>0. c \in Callers /\ calls[c] \in Calls
  BY DEF Callers
<1>1. ASSUME calls'[c] = calls[c], application'[c] = application[c],
             scored'[c] = scored[c]
      PROVE  Moves
  BY <1>1 DEF Addressing
<1>2. CASE UNCHANGED vars
  BY <1>1, <1>2 DEF vars
<1>3. CASE FindFree(c) \/ InsertRefused(c)
  BY <1>0, <1>3 DEF FindFree, InsertRefused, Go, SetUnchanged, Calls, Addressing
<1>4. CASE FindTaken(c)
  <2>1. PICK b \in Holders(pan[c]) : GoWith(c, "find", b)
    BY <1>4 DEF FindTaken
  <2>2. calls'[c].pc = "find" /\ calls'[c].id = b
    BY <1>0, <2>1 DEF GoWith
  <2>3. application'[c] = application[c] /\ scored'[c] = scored[c]
    BY <1>4 DEF FindTaken, SetUnchanged
  <2> QED BY <1>4, <2>1, <2>2, <2>3
<1>5. CASE Insert(c)
  BY <1>0, <1>5 DEF Insert, GoWith
<1>6. CASE Apply(c)
  BY <1>0, <1>6 DEF Apply, Go, Calls, Addressing
<1>7. CASE Score(c)
  BY <1>0, <1>7 DEF Score, Go, Calls, Addressing
<1>8. CASE FindMissing(c) \/ FindById(c) \/ CheckOwner(c) \/ UpdateRefused(c)
           \/ LoseAnswer(c)
  BY <1>0, <1>8 DEF FindMissing, FindById, CheckOwner, UpdateRefused, LoseAnswer,
                    Go, SetUnchanged, Calls, Addressing
<1>9. CASE Update(c)
  BY <1>0, <1>9 DEF Update, Go, Calls, Addressing
<1>10. ASSUME \/ \E d \in Submissions : d # c /\ Intake(d)
              \/ \E d \in Callers : d # c /\ (Put(d) \/ LoseAnswer(d))
       PROVE  Moves
  BY <1>0, <1>1, <1>10, Alone
<1>11. Moves
  BY <1>2, <1>3, <1>4, <1>5, <1>6, <1>7, <1>8, <1>9, <1>10 DEF Next, Intake, Put
<1> QED BY <1>11

-------------------------------------------------------------------------------
(* One profile per PAN.                                                    *)

LEMMA OnePerPanStep ==
  ASSUME Inv, OnePerPan, [Next]_vars PROVE OnePerPan'
<1> USE DEF Inv, RowsInv
<1>1. CASE UNCHANGED profiles
  BY <1>1 DEF OnePerPan, Exists
<1>2. ASSUME NEW c \in Submissions, Inserts(c) PROVE OnePerPan'
  <2>1. profiles'[c].pan = pan[c] /\ \A d \in Submissions : d # c => profiles'[d] = profiles[d]
    BY <1>2 DEF Inserts
  <2>2. \A d \in Submissions : d # c => profiles[d].pan # pan[c]
    BY <1>2 DEF Inserts, Unique, Holders
  <2> QED BY <2>1, <2>2 DEF OnePerPan, Exists
<1>3. ASSUME NEW c \in Callers, Writes(c) PROVE OnePerPan'
  <2> DEFINE b == calls[c].id
  <2>1. /\ profiles'[b].pan = pan[c]
        /\ \A d \in Submissions : d # b => profiles'[d] = profiles[d]
    BY <1>3 DEF Writes
  <2>2. \A d \in Submissions : d # b => profiles[d].pan # pan[c]
    BY <1>3 DEF Writes, Unique, Holders
  <2> QED BY <2>1, <2>2 DEF OnePerPan, Exists
<1> QED BY <1>1, <1>2, <1>3, ProfileStep

\* A PAN never has two profiles, however checks and writes interleave.
THEOREM ProfilesAreUnique == Spec => []OnePerPan
<1>1. Init => OnePerPan
  BY DEF Init, OnePerPan, Exists
<1> QED BY <1>1, InitInv, NextInv, OnePerPanStep, PTL DEF Spec

-------------------------------------------------------------------------------
(* Applications are filed for their borrower.                              *)

Undisturbed == \A e \in Edits : calls[e].pc # "done"

(* What a submission addresses carries its PAN, until a PUT moves it.      *)
BorrowerInv ==
  Undisturbed =>
    \A c \in Submissions :
      /\ calls[c].pc \in Addressing => profiles[calls[c].id].pan = pan[c]
      /\ application[c] # None => profiles[application[c]].pan = pan[c]

(* A submission that has not written yet has no profile of its own.        *)
FreshInv ==
  \A c \in Submissions : calls[c].pc \in {"create", "insert"} => profiles[c] = NoProfile

LEMMA FreshStep ==
  ASSUME Inv, FreshInv, [Next]_vars PROVE FreshInv'
<1> USE DEF Inv
<1> SUFFICES ASSUME NEW c \in Submissions, calls'[c].pc \in {"create", "insert"}
             PROVE  profiles'[c] = NoProfile
  BY DEF FreshInv
<1>1. profiles[c] = NoProfile
  BY SubmissionStep DEF FreshInv
<1>2. CASE UNCHANGED profiles
  BY <1>1, <1>2
<1>3. ASSUME NEW d \in Submissions, Inserts(d), Insert(d)
      PROVE  profiles'[c] = profiles[c]
  <2>1. d # c
    <3>1. calls'[d].pc = "apply"
      BY <1>3 DEF Insert, GoWith, RowsInv, Callers
    <3> QED BY <3>1
  <2> QED BY <1>3, <2>1 DEF Inserts, RowsInv
<1>4. ASSUME NEW d \in Callers, Writes(d) PROVE profiles'[c] = profiles[c]
  <2>1. calls[d].id # c
    BY <1>1, <1>4 DEF Writes, CallsInv, Addressing, Exists
  <2> QED BY <1>4, <2>1 DEF Writes
<1> QED BY <1>1, <1>2, <1>3, <1>4, ProfileStep

(* Without a PUT of others, no profile that exists changes its PAN.        *)
LEMMA PansStay ==
  ASSUME Inv, FreshInv, BorrowerInv, [Next]_vars, Undisturbed'
  PROVE  /\ Undisturbed
         /\ \A b \in Submissions : Exists(b) => profiles'[b].pan = profiles[b].pan
<1> USE DEF Inv, RowsInv
<1>1. Undisturbed
  BY DoneStays DEF Undisturbed, Callers
<1>2. CASE UNCHANGED profiles
  BY <1>1, <1>2
<1>3. ASSUME NEW c \in Submissions, Inserts(c), NEW b \in Submissions, Exists(b)
      PROVE  profiles'[b].pan = profiles[b].pan
  <2>1. b # c
    BY <1>3 DEF Inserts, FreshInv, Exists
  <2> QED BY <1>3, <2>1 DEF Inserts
<1>4. ASSUME NEW c \in Callers, Writes(c), Update(c), NEW b \in Submissions, Exists(b)
      PROVE  profiles'[b].pan = profiles[b].pan
  <2>1. c \in Submissions
    <3>1. SUFFICES ASSUME c \notin Submissions PROVE FALSE
      OBVIOUS
    <3>2. calls'[c].pc = "done" /\ c \in Edits
      BY <1>4, <3>1 DEF Update, Go, Calls, Callers
    <3> QED BY <3>2 DEF Undisturbed
  <2>2. profiles[calls[c].id].pan = pan[c]
    BY <1>1, <1>4, <2>1 DEF Writes, BorrowerInv, Addressing
  <2> QED BY <1>4, <2>2 DEF Writes
<1> QED BY <1>1, <1>2, <1>3, <1>4, ProfileStep

LEMMA BorrowerStep ==
  ASSUME Inv, FreshInv, BorrowerInv, [Next]_vars PROVE BorrowerInv'
<1> USE DEF Inv
<1> SUFFICES ASSUME Undisturbed', NEW c \in Submissions
             PROVE  /\ calls'[c].pc \in Addressing => profiles'[calls'[c].id].pan = pan'[c]
                    /\ application'[c] # None => profiles'[application'[c]].pan = pan'[c]
  BY DEF BorrowerInv
<1>1. Undisturbed /\ \A b \in Submissions : Exists(b) => profiles'[b].pan = profiles[b].pan
  BY PansStay
<1>2. pan' = pan /\ pan[c] \in Pans
  BY DoneStays DEF RowsInv, Callers
<1>3. calls[c].pc \in Addressing =>
        /\ calls[c].id \in Submissions /\ Exists(calls[c].id)
        /\ profiles'[calls[c].id].pan = pan[c]
  BY <1>1 DEF BorrowerInv, CallsInv, Callers
<1>4. ASSUME calls'[c].pc \in Addressing PROVE profiles'[calls'[c].id].pan = pan[c]
  <2>1. CASE calls[c].pc \in Addressing /\ calls'[c].id = calls[c].id
    BY <1>3, <2>1
  <2>2. CASE calls'[c].id \in Holders(pan[c])
    <3>1. calls'[c].id \in Submissions /\ Exists(calls'[c].id)
      BY <1>2, <2>2, HoldersExist
    <3> QED BY <1>1, <2>2, <3>1 DEF Holders
  <2>3. CASE Insert(c) /\ calls'[c].id = c
    BY <2>3 DEF Insert, RowsInv
  <2> QED BY <1>4, <2>1, <2>2, <2>3, SubmissionStep
<1>5. ASSUME application'[c] # None PROVE profiles'[application'[c]].pan = pan[c]
  <2>1. CASE application'[c] = application[c]
    <3>1. application[c] \in Submissions /\ Exists(application[c])
      BY <1>5, <2>1 DEF CallsInv, RowsInv
    <3> QED BY <1>1, <1>5, <2>1, <3>1 DEF BorrowerInv
  <2>2. CASE application'[c] # application[c]
    BY <1>3, <2>2, SubmissionStep DEF Addressing
  <2> QED BY <2>1, <2>2
<1> QED BY <1>2, <1>4, <1>5

\* An application is filed for a profile that exists, and for its borrower's as
\* long as no other client's PUT was answered.
THEOREM ApplicationsBelong == Spec => []FiledForBorrower
<1>1. Init => FreshInv /\ BorrowerInv
  BY DEF Init, FreshInv, BorrowerInv, Addressing
<1>2. Inv /\ BorrowerInv => FiledForBorrower
  BY DEF Inv, CallsInv, BorrowerInv, Undisturbed, FiledForBorrower
<1> QED
  BY <1>1, <1>2, InitInv, NextInv, FreshStep, BorrowerStep, PTL DEF Spec

-------------------------------------------------------------------------------
(* What is scored.                                                         *)

(* A submission past its write is among the forms of the profile that it   *)
(* addresses, and is scored once.                                          *)
WrittenInv ==
  \A c \in Submissions :
    /\ calls[c].pc \in {"apply", "applied"} =>
         LET forms == profiles[calls[c].id].forms IN \E i \in DOMAIN forms : forms[i] = c
    /\ scored[c] # None => calls[c].pc = "done" /\ application[c] # None

(* The forms of a profile that exists are only added to.                   *)
LEMMA FormsGrow ==
  ASSUME Inv, FreshInv, [Next]_vars, NEW b \in Submissions, Exists(b),
         NEW i \in DOMAIN profiles[b].forms
  PROVE  i \in DOMAIN profiles'[b].forms /\ profiles'[b].forms[i] = profiles[b].forms[i]
<1> USE DEF Inv, RowsInv
<1>1. CASE profiles'[b] = profiles[b]
  BY <1>1
<1>2. ASSUME NEW c \in Submissions, Inserts(c) PROVE profiles'[b] = profiles[b]
  BY <1>2 DEF Inserts, FreshInv, Exists
<1>3. ASSUME NEW c \in Callers, Writes(c), calls[c].id = b
      PROVE  i \in DOMAIN profiles'[b].forms /\ profiles'[b].forms[i] = profiles[b].forms[i]
  <2> DEFINE f == profiles[b].forms
  <2>1. f \in Seq(Callers)
    BY DEF Rows
  <2>2. profiles'[b].forms = Append(f, c)
    BY <1>3 DEF Writes
  <2> HIDE DEF f
  <2>3. \A k \in DOMAIN f : k \in DOMAIN Append(f, c) /\ Append(f, c)[k] = f[k]
    BY <2>1
  <2> QED BY <2>2, <2>3 DEF f
<1>4. ASSUME NEW c \in Callers, Writes(c), calls[c].id # b PROVE profiles'[b] = profiles[b]
  BY <1>4 DEF Writes
<1> QED BY <1>1, <1>2, <1>3, <1>4, ProfileStep

LEMMA WrittenStep ==
  ASSUME Inv, FreshInv, WrittenInv, [Next]_vars PROVE WrittenInv'
<1> USE DEF Inv
<1> SUFFICES ASSUME NEW c \in Submissions
             PROVE  /\ calls'[c].pc \in {"apply", "applied"} =>
                         \E i \in DOMAIN profiles'[calls'[c].id].forms :
                            profiles'[calls'[c].id].forms[i] = c
                    /\ scored'[c] # None => calls'[c].pc = "done" /\ application'[c] # None
  BY DEF WrittenInv
<1>0. c \in Callers /\ calls[c] \in Calls
  BY DEF Callers, RowsInv
<1>1. ASSUME calls'[c].pc \in {"apply", "applied"}
      PROVE  \E i \in DOMAIN profiles'[calls'[c].id].forms :
                profiles'[calls'[c].id].forms[i] = c
  <2>1. CASE calls[c].pc \in {"apply", "applied"} /\ calls'[c].id = calls[c].id
    <3>1. calls[c].id \in Submissions /\ Exists(calls[c].id)
      BY <1>0, <2>1 DEF CallsInv, Addressing
    <3>2. PICK i \in DOMAIN profiles[calls[c].id].forms : profiles[calls[c].id].forms[i] = c
      BY <2>1 DEF WrittenInv
    <3> QED BY <2>1, <3>1, <3>2, FormsGrow
  <2>2. CASE Insert(c) /\ calls'[c].id = c
    <3>1. profiles'[c].forms = <<c>>
      BY <2>2 DEF Insert, RowsInv
    <3>2. 1 \in DOMAIN <<c>> /\ <<c>>[1] = c
      OBVIOUS
    <3> QED BY <2>2, <3>1, <3>2
  <2>3. CASE Update(c) /\ calls'[c].id = calls[c].id
    <3> DEFINE f == profiles[calls[c].id].forms
               n == Len(f) + 1
    <3>1. Writes(c)
      BY <1>0, <2>3, UpdateWrites
    <3>2. f \in Seq(Callers)
      BY <3>1 DEF Writes, RowsInv, Rows
    <3>3. profiles'[calls[c].id].forms = Append(f, c)
      BY <3>1 DEF Writes
    <3> HIDE DEF f
    <3>4. n \in DOMAIN Append(f, c) /\ Append(f, c)[n] = c
      BY <3>2
    <3> QED BY <2>3, <3>3, <3>4
  <2> QED BY <1>1, <2>1, <2>2, <2>3, SubmissionStep
<1>2. ASSUME scored'[c] # None PROVE calls'[c].pc = "done" /\ application'[c] # None
  <2>1. CASE scored'[c] = scored[c]
    <3>1. calls[c].pc = "done" /\ application[c] # None
      BY <1>2, <2>1 DEF WrittenInv
    <3> QED BY <1>0, <3>1, DoneStays, SubmissionStep
  <2>2. CASE Score(c)
    BY <1>0, <2>2, ProfilesAssumption
       DEF Score, Go, RowsInv, Calls, CallsInv, Addressing
  <2> QED BY <2>1, <2>2, SubmissionStep
<1> QED BY <1>1, <1>2

LEMMA NothingLeftOverStep ==
  ASSUME Inv, FreshInv, WrittenInv, NothingLeftOver, [Next]_vars PROVE NothingLeftOver'
<1> USE DEF Inv
<1> DEFINE After(forms, c, s) ==
      \E i \in DOMAIN forms, j \in DOMAIN forms : i <= j /\ forms[i] = c /\ forms[j] = s
<1> SUFFICES ASSUME NEW c \in Submissions, scored'[c] # None
             PROVE  After(profiles'[application'[c]].forms, c, scored'[c])
  BY DEF NothingLeftOver
<1>1. CASE scored'[c] = scored[c]
  <2>1. calls[c].pc = "done" /\ application[c] # None /\ application'[c] = application[c]
    BY <1>1, SubmissionStep DEF WrittenInv
  <2>2. application[c] \in Submissions /\ Exists(application[c])
    BY <2>1 DEF CallsInv, RowsInv
  <2>3. After(profiles[application[c]].forms, c, scored[c])
    BY <1>1 DEF NothingLeftOver
  <2> QED BY <1>1, <2>1, <2>2, <2>3, FormsGrow
<1>2. CASE Score(c)
  <2> DEFINE f == profiles[application[c]].forms
  <2>1. /\ c \in Callers /\ calls[c].pc = "applied" /\ application[c] = calls[c].id
        /\ application[c] \in Submissions
        /\ Exists(application[c])
    BY <1>2 DEF Score, CallsInv, Addressing, Callers
  <2>2. f \in Seq(Callers)
    BY <2>1 DEF RowsInv, Rows
  <2>3. \E i \in DOMAIN f : f[i] = c
    BY <2>1 DEF WrittenInv
  <2>4. scored'[c] = Last(f)
    BY <1>2 DEF Score, RowsInv
  <2>5. profiles' = profiles /\ application' = application
    BY <1>2 DEF Score
  <2> HIDE DEF f
  <2>6. PICK i \in DOMAIN f : f[i] = c
    BY <2>3
  <2>7. i <= Len(f) /\ Len(f) \in DOMAIN f /\ Last(f) = f[Len(f)]
    BY <2>2, <2>6 DEF Last
  <2>8. After(f, c, scored'[c])
    BY <2>4, <2>6, <2>7
  <2> QED BY <2>5, <2>8 DEF f
<1> QED BY <1>1, <1>2, SubmissionStep

\* What is scored was written with this submission or after it, never before.
THEOREM FiguresAreCurrent == Spec => []NothingLeftOver
<1>1. Init => FreshInv /\ WrittenInv /\ NothingLeftOver
  BY DEF Init, FreshInv, WrittenInv, NothingLeftOver
<1> QED
  BY <1>1, InitInv, NextInv, FreshStep, WrittenStep, NothingLeftOverStep, PTL DEF Spec

-------------------------------------------------------------------------------
(* The length of a history.                                                *)

Unwritten == {"create", "insert", "find", "owner", "update"}

Lists(b, c) == \E i \in DOMAIN profiles[b].forms : profiles[b].forms[i] = c

(* A form is written once at most: a caller that has yet to write is in no  *)
(* history, and no history holds a form twice.                             *)
OnceInv ==
  \A b \in Submissions :
    /\ \A c \in Callers : calls[c].pc \in Unwritten => ~Lists(b, c)
    /\ \A i, j \in DOMAIN profiles[b].forms :
         profiles[b].forms[i] = profiles[b].forms[j] => i = j

(* No caller goes back to a step before its write.                         *)
LEMMA UnwrittenStep ==
  ASSUME Inv, [Next]_vars, NEW c \in Callers, calls'[c].pc \in Unwritten
  PROVE  calls[c].pc \in Unwritten
<1> USE DEF Inv, RowsInv, Unwritten
<1>0. calls[c] \in Calls
  OBVIOUS
<1>1. CASE UNCHANGED vars
  BY <1>1 DEF vars
<1>2. CASE \/ \E d \in Submissions : d # c /\ Intake(d)
           \/ \E d \in Callers : d # c /\ (Put(d) \/ LoseAnswer(d))
  BY <1>2, Alone
<1>3. CASE c \in Submissions /\ Intake(c)
  <2>1. CASE FindFree(c) \/ InsertRefused(c)
    BY <1>0, <2>1 DEF FindFree, InsertRefused, Go, Calls
  <2>2. CASE FindTaken(c) \/ Insert(c)
    BY <1>0, <2>2 DEF FindTaken, Insert, GoWith
  <2>3. CASE Apply(c) \/ Score(c)
    BY <1>0, <2>3 DEF Apply, Score, Go, Calls
  <2> QED BY <1>3, <2>1, <2>2, <2>3 DEF Intake
<1>4. CASE Put(c) \/ LoseAnswer(c)
  <2>1. CASE FindMissing(c) \/ FindById(c) \/ CheckOwner(c) \/ UpdateRefused(c)
    BY <1>0, <2>1 DEF FindMissing, FindById, CheckOwner, UpdateRefused, Go, Calls
  <2>2. CASE Update(c) \/ LoseAnswer(c)
    BY <1>0, <2>2 DEF Update, LoseAnswer, Go, Calls
  <2> QED BY <1>4, <2>1, <2>2 DEF Put
<1> QED BY <1>1, <1>2, <1>3, <1>4 DEF Next

LEMMA OnceStep ==
  ASSUME Inv, FreshInv, OnceInv, [Next]_vars PROVE OnceInv'
<1> USE DEF Inv, RowsInv
<1> SUFFICES ASSUME NEW b \in Submissions
             PROVE  /\ \A c \in Callers : calls'[c].pc \in Unwritten => ~Lists(b, c)'
                    /\ \A i, j \in DOMAIN profiles'[b].forms :
                         profiles'[b].forms[i] = profiles'[b].forms[j] => i = j
  BY DEF OnceInv
<1>1. ASSUME profiles'[b] = profiles[b]
      PROVE  /\ \A c \in Callers : calls'[c].pc \in Unwritten => ~Lists(b, c)'
             /\ \A i, j \in DOMAIN profiles'[b].forms :
                  profiles'[b].forms[i] = profiles'[b].forms[j] => i = j
  BY <1>1, UnwrittenStep DEF OnceInv, Lists
<1>2. ASSUME NEW d \in Submissions, Inserts(d), Insert(d)
      PROVE  /\ \A c \in Callers : calls'[c].pc \in Unwritten => ~Lists(b, c)'
             /\ \A i, j \in DOMAIN profiles'[b].forms :
                  profiles'[b].forms[i] = profiles'[b].forms[j] => i = j
  <2>1. CASE b # d
    BY <1>1, <1>2, <2>1 DEF Inserts
  <2>2. CASE b = d
    <3>1. profiles'[b].forms = <<d>>
      BY <1>2, <2>2 DEF Inserts
    <3>2. DOMAIN <<d>> = {1} /\ <<d>>[1] = d
      OBVIOUS
    <3>3. calls'[d].pc \notin Unwritten
      BY <1>2 DEF Insert, GoWith, Callers, Unwritten
    <3> QED BY <3>1, <3>2, <3>3 DEF Lists
  <2> QED BY <2>1, <2>2
<1>3. ASSUME NEW d \in Callers, Writes(d), Update(d)
      PROVE  /\ \A c \in Callers : calls'[c].pc \in Unwritten => ~Lists(b, c)'
             /\ \A i, j \in DOMAIN profiles'[b].forms :
                  profiles'[b].forms[i] = profiles'[b].forms[j] => i = j
  <2>1. CASE b # calls[d].id
    BY <1>1, <1>3, <2>1 DEF Writes
  <2>2. CASE b = calls[d].id
    <3> DEFINE f == profiles[b].forms
               g == Append(f, d)
               n == Len(f) + 1
    <3>1. f \in Seq(Callers)
      BY DEF Rows
    <3>2. profiles'[b].forms = g
      BY <1>3, <2>2 DEF Writes
    <3>3. calls[d].pc \in Unwritten /\ calls'[d].pc \notin Unwritten
      BY <1>3 DEF Update, Go, Calls, Unwritten
    <3>4. \A i \in DOMAIN f : f[i] # d
      BY <3>3 DEF OnceInv, Lists
    <3>5. \A i, j \in DOMAIN f : f[i] = f[j] => i = j
      BY DEF OnceInv
    <3>6. \A c \in Callers : calls'[c].pc \in Unwritten => \A i \in DOMAIN f : f[i] # c
      BY UnwrittenStep DEF OnceInv, Lists
    <3> HIDE DEF f
    <3>7. /\ \A i \in DOMAIN g : i \in DOMAIN f \/ i = n
          /\ \A i \in DOMAIN f : g[i] = f[i]
          /\ g[n] = d
      BY <3>1
    <3> HIDE DEF g, n
    <3>8. \A c \in Callers : calls'[c].pc \in Unwritten => \A i \in DOMAIN g : g[i] # c
      BY <3>3, <3>6, <3>7
    <3>9. \A i, j \in DOMAIN g : g[i] = g[j] => i = j
      BY <3>4, <3>5, <3>7
    <3> QED BY <3>2, <3>8, <3>9 DEF Lists
  <2> QED BY <2>1, <2>2
<1> QED BY <1>1, <1>2, <1>3, ProfileStep

LEMMA HistoryBound ==
  ASSUME NEW f \in Seq(Callers), \A i, j \in DOMAIN f : f[i] = f[j] => i = j
  PROVE  f \in SeqOf(Callers, Cardinality(Callers))
<1> DEFINE n == Len(f)
<1>1. n \in Nat /\ f \in [1..n -> Callers]
  OBVIOUS
<1>2. f \in Injection(1..n, Callers)
  BY <1>1 DEF Injection, IsInjective
<1>3. Cardinality(1..n) = n
  BY <1>1, FS_Interval
<1>4. Cardinality(Callers) \in Nat
  BY CallersAssumption, FS_CardinalityType
<1>5. n <= Cardinality(Callers)
  BY <1>2, <1>3, CallersAssumption, FS_Injection
<1> HIDE DEF n
<1> QED BY <1>1, <1>4, <1>5 DEF SeqOf

\* No history outgrows the number of callers: no retry, conflict or lost
\* answer makes the client write its form a second time.
THEOREM ProfileTypes == Spec => []TypeOK
<1>1. Init => FreshInv /\ OnceInv
  BY DEF Init, FreshInv, OnceInv, Lists, NoProfile
<1>2. ASSUME Inv, OnceInv PROVE TypeOK
  <2>1. ASSUME NEW b \in Submissions PROVE profiles[b] \in Profiles \cup {NoProfile}
    <3>1. CASE profiles[b] = NoProfile
      BY <3>1
    <3>2. CASE profiles[b] # NoProfile
      <4> DEFINE x == profiles[b]
      <4>1. x \in Rows /\ x.pan \in Pans
        BY <1>2, <3>2 DEF Inv, RowsInv, WellFormed
      <4>2. x.forms \in Seq(Callers) /\ x = [pan |-> x.pan, forms |-> x.forms]
        BY <4>1 DEF Rows
      <4>3. \A i, j \in DOMAIN x.forms : x.forms[i] = x.forms[j] => i = j
        BY <1>2 DEF OnceInv
      <4>4. x.forms \in SeqOf(Callers, Cardinality(Callers))
        BY <4>2, <4>3, HistoryBound
      <4> HIDE DEF x
      <4>5. x \in Profiles
        BY <4>1, <4>2, <4>4 DEF Profiles
      <4> QED BY <4>5 DEF x
    <3> QED BY <3>1, <3>2
  <2>2. profiles \in [Submissions -> Profiles \cup {NoProfile}]
    BY <1>2, <2>1 DEF Inv, RowsInv
  <2> QED BY <1>2, <2>2 DEF TypeOK, Inv, RowsInv
<1> QED
  BY <1>1, <1>2, InitInv, NextInv, FreshStep, OnceStep, PTL DEF Spec
===============================================================================
