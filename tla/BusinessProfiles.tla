--------------------------- MODULE BusinessProfiles ---------------------------
(***************************************************************************)
(* Business profiles and the web client's intake: createBusiness and       *)
(* updateBusiness with their reads and writes apart, upsertBusiness and    *)
(* submitApplication over them, and the worker that reads the profile.     *)
(*                                                                         *)
(* A submission stands for the form it sends, its revenue above all: two   *)
(* submissions never give the same figures.  A profile's id is the         *)
(* submission that created it.                                             *)
(***************************************************************************)
EXTENDS FiniteSets, Sequences, SequencesExt

CONSTANTS
  Submissions, \* forms sent by the web client
  Edits,       \* PUT requests of other clients
  Pans,        \* PANs
  None         \* null

ASSUME ProfilesAssumption == /\ None \notin Submissions \cup Edits \cup Pans
                             /\ Submissions \cap Edits = {}

Callers == Submissions \cup Edits

\* A server has answered finitely many requests.
ASSUME CallersAssumption == IsFiniteSet(Callers)

VARIABLES
  pan,         \* the PAN each caller gives
  profiles,    \* businesses, by id: the PAN, and the forms written to the row,
               \* of which the last is what it holds
  calls,       \* where each caller stands, and the profile it addresses
  application, \* the profile each submission's application refers to
  scored       \* the form whose figures its decision was made on

vars == <<pan, profiles, calls, application, scored>>

NoProfile == [pan |-> None, forms |-> <<>>]
Profiles == [pan : Pans, forms : SeqOf(Callers, Cardinality(Callers))]
Steps == {"create", "insert", "find", "owner", "update", "apply", "applied",
          "done", "rejected"}
Calls == [pc : Steps, id : Submissions \cup {None}]

TypeOK ==
  /\ pan \in [Callers -> Pans]
  /\ profiles \in [Submissions -> Profiles \cup {NoProfile}]
  /\ calls \in [Callers -> Calls]
  /\ application \in [Submissions -> Submissions \cup {None}]
  /\ scored \in [Submissions -> Callers \cup {None}]

Init ==
  /\ pan \in [Callers -> Pans]
  /\ profiles = [b \in Submissions |-> NoProfile]
  /\ calls \in [Callers -> Calls]
  /\ \A c \in Submissions : calls[c] = [pc |-> "create", id |-> None]
  /\ \A e \in Edits : calls[e].pc = "find" /\ calls[e].id # None
  /\ application = [c \in Submissions |-> None]
  /\ scored = [c \in Submissions |-> None]

Exists(b) == profiles[b] # NoProfile
Holders(p) == {b \in Submissions : profiles[b].pan = p}

Go(c, pc) == calls' = [calls EXCEPT ![c].pc = pc]
GoWith(c, pc, b) == calls' = [calls EXCEPT ![c] = [pc |-> pc, id |-> b]]
SetUnchanged == UNCHANGED <<pan, profiles, application, scored>>

-------------------------------------------------------------------------------
(* createBusiness.                                                         *)

\* findByPan: free ...
FindFree(c) == /\ calls[c].pc = "create"
               /\ Holders(pan[c]) = {}
               /\ Go(c, "insert")
               /\ SetUnchanged

\* Mutant: the client takes the profile as it is found.
FindTaken_NoPut(c) == /\ calls[c].pc = "create"
                      /\ \E b \in Holders(pan[c]) : GoWith(c, "apply", b)
                      /\ SetUnchanged

\* ... or a 409 with the profile's id, which upsertBusiness answers by a PUT.
FindTaken(c) == /\ calls[c].pc = "create"
                /\ \E b \in Holders(pan[c]) : GoWith(c, "find", b)
                /\ SetUnchanged

\* Mutant: no unique index behind the check.
Unique_NoIndex(b, p) == TRUE

\* businesses.pan is unique.
Unique(b, p) == Holders(p) \subseteq {b}

Insert(c) ==
  /\ calls[c].pc = "insert"
  /\ Unique(c, pan[c])
  /\ profiles' = [profiles EXCEPT ![c] = [pan |-> pan[c], forms |-> <<c>>]]
  /\ GoWith(c, "apply", c)
  /\ UNCHANGED <<pan, application, scored>>

\* The index refuses: an error without the id, so the client cannot recover.
InsertRefused(c) ==
  /\ calls[c].pc = "insert"
  /\ ~Unique(c, pan[c])
  /\ Go(c, "rejected")
  /\ SetUnchanged

-------------------------------------------------------------------------------
(* updateBusiness.                                                         *)

FindMissing(c) == /\ calls[c].pc = "find"
                  /\ ~Exists(calls[c].id)
                  /\ Go(c, "rejected")
                  /\ SetUnchanged

FindById(c) ==
  LET b == calls[c].id IN
  /\ calls[c].pc = "find"
  /\ Exists(b)
  /\ Go(c, IF profiles[b].pan = pan[c] THEN "update" ELSE "owner")
  /\ SetUnchanged

\* The PAN moves: is it another profile's?  A conflict of the PUT itself is
\* not recovered from.
CheckOwner(c) ==
  /\ calls[c].pc = "owner"
  /\ Go(c, IF Holders(pan[c]) \subseteq {calls[c].id} THEN "update" ELSE "rejected")
  /\ SetUnchanged

\* Mutant: the PUT is sent again although it was answered.
Update_Resent(c) ==
  LET b == calls[c].id IN
  /\ calls[c].pc = "update"
  /\ Unique(b, pan[c])
  /\ profiles' = [profiles EXCEPT ![b].pan = pan[c],
                                 ![b].forms = Append(@, c)]
  /\ Go(c, IF c \in Submissions THEN "apply" ELSE "find")
  /\ UNCHANGED <<pan, application, scored>>

Update(c) ==
  LET b == calls[c].id IN
  /\ calls[c].pc = "update"
  /\ Unique(b, pan[c])
  /\ profiles' = [profiles EXCEPT ![b].pan = pan[c],
                                 ![b].forms = Append(@, c)]
  /\ Go(c, IF c \in Submissions THEN "apply" ELSE "done")
  /\ UNCHANGED <<pan, application, scored>>

UpdateRefused(c) ==
  /\ calls[c].pc = "update"
  /\ ~Unique(calls[c].id, pan[c])
  /\ Go(c, "rejected")
  /\ SetUnchanged

-------------------------------------------------------------------------------
(* The rest of submitApplication, and the worker.                          *)

\* Mutant: the application is filed under the client's own id.
Apply_OwnId(c) ==
  /\ calls[c].pc = "apply"
  /\ application' = [application EXCEPT ![c] = c]
  /\ Go(c, "applied")
  /\ UNCHANGED <<pan, profiles, scored>>

Apply(c) ==
  /\ calls[c].pc = "apply"
  /\ application' = [application EXCEPT ![c] = calls[c].id]
  /\ Go(c, "applied")
  /\ UNCHANGED <<pan, profiles, scored>>

\* processDecision reads the profile as it is by then.
Score(c) ==
  /\ calls[c].pc = "applied"
  /\ scored' = [scored EXCEPT ![c] = Last(profiles[application[c]].forms)]
  /\ Go(c, "done")
  /\ UNCHANGED <<pan, profiles, application>>

\* An answer is lost, before or after the server acted: the form reports it.
LoseAnswer(c) ==
  /\ calls[c].pc \in {"create", "find", "apply"}
  /\ Go(c, "rejected")
  /\ SetUnchanged

Intake(c) == \/ FindFree(c) \/ FindTaken(c) \/ Insert(c) \/ InsertRefused(c)
             \/ Apply(c) \/ Score(c)

Put(c) == FindMissing(c) \/ FindById(c) \/ CheckOwner(c) \/ Update(c)
            \/ UpdateRefused(c)

Next == \/ \E c \in Submissions : Intake(c)
        \/ \E c \in Callers : Put(c) \/ LoseAnswer(c)

Spec == Init /\ [][Next]_vars

-------------------------------------------------------------------------------
\* createBusiness's comment: a second profile under one PAN never comes to be,
\* though both checks are made before, and apart from, the writes they guard.
OnePerPan ==
  \A b, d \in Submissions :
    Exists(b) /\ Exists(d) /\ b # d => profiles[b].pan # profiles[d].pan

\* An application is filed for a profile that exists, and for the borrower who
\* submitted it as long as no other client has rewritten a profile.
FiledForBorrower ==
  \A c \in Submissions :
    application[c] # None =>
      /\ Exists(application[c])
      /\ (\A e \in Edits : calls[e].pc # "done")
           => profiles[application[c]].pan = pan[c]

\* upsertBusiness's comment, "not a figure left over from a previous
\* application": what is scored was written with this submission or after it.
NothingLeftOver ==
  \A c \in Submissions :
    scored[c] # None =>
      LET forms == profiles[application[c]].forms IN
      \E i \in DOMAIN forms, j \in DOMAIN forms :
        i <= j /\ forms[i] = c /\ forms[j] = scored[c]

\* ... and its other half, "scored against the revenue submitted now".
ScoredAsSubmitted ==
  \A c \in Submissions : scored[c] # None => scored[c] = c
===============================================================================
