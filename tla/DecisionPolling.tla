---------------------------- MODULE DecisionPolling ----------------------------
(***************************************************************************)
(* The browser's side of a decision: App's submit and start-over, and the  *)
(* two effects of useDecisionPolling, whose interval fires a fetch every   *)
(* second without waiting for the last one.                                *)
(*                                                                         *)
(* A React update and the effects that run after it are one action.  The   *)
(* server is a status that only advances, which is what StatusAdvances of  *)
(* DecisionLifecycle says of the one request this client makes; what is in *)
(* question is what the browser makes of answers that take their time.     *)
(***************************************************************************)
EXTENDS Naturals, ApplicationStatus

CONSTANTS
  Apps,        \* applications; each is submitted once
  PollTimeout, \* POLL_TIMEOUT_MS in intervals of POLL_INTERVAL_MS
  None         \* null

ASSUME PollingAssumption == PollTimeout \in Nat /\ None \notin Apps

VARIABLES
  server,      \* the status of each application in the API
  submission,  \* App's submitApplication call
  submitted,   \* App: the application on screen, or None for the form
  shown,       \* the hook's status
  error,       \* the hook's error is set
  isPolling,   \* the hook's isPolling
  settledRef,  \* the hook's settledRef
  cancelled,   \* polls whose cleanup has run
  ticking,     \* polls whose interval is alive
  elapsed,     \* intervals since startedAt, for each poll
  fetches      \* requests under way, answered or not

vars == <<server, submission, submitted, shown, error, isPolling, settledRef,
          cancelled, ticking, elapsed, fetches>>
hook == <<submitted, shown, error, isPolling, settledRef, cancelled, ticking,
          elapsed>>

Reported == Live \cup Final   \* the statuses an answer can carry

Shown(a, s) == [app |-> a, status |-> s]
NoStatus == Shown(None, "none")
NoSubmission == [pc |-> "form", app |-> None, status |-> "none"]

Resources == [app : Apps, status : Reported] \cup {NoStatus}
Submissions == [pc : {"form", "sent", "accepted", "answered"},
                app : Apps \cup {None}, status : Reported \cup {"none"}]
Fetches == [app : Apps, tick : Nat, answer : Reported \cup {"awaited"}]

TypeOK ==
  /\ server \in [Apps -> Statuses]
  /\ submission \in Submissions
  /\ submitted \in Apps \cup {None}
  /\ shown \in Resources
  /\ error \in BOOLEAN /\ isPolling \in BOOLEAN /\ settledRef \in BOOLEAN
  /\ cancelled \subseteq Apps /\ ticking \subseteq Apps
  /\ elapsed \in [Apps -> Nat]
  /\ fetches \subseteq Fetches

Init ==
  /\ server = [a \in Apps |-> "ABSENT"]
  /\ submission = NoSubmission
  /\ submitted = None
  /\ shown = NoStatus
  /\ error = FALSE /\ isPolling = FALSE /\ settledRef = FALSE
  /\ cancelled = {} /\ ticking = {}
  /\ elapsed = [a \in Apps |-> 0]
  /\ fetches = {}

-------------------------------------------------------------------------------
(* The API, as the browser sees it.                                        *)

\* Mutant: the decision is asked for before the application is stored.
Accept_NotStored(a) ==
  /\ submission.pc = "sent"
  /\ server[a] = "ABSENT"
  /\ submission' = [submission EXCEPT !.pc = "accepted", !.app = a]
  /\ UNCHANGED <<server, hook, fetches>>

\* The business and the application are created and the decision asked for.
Accept(a) ==
  /\ submission.pc = "sent"
  /\ server[a] = "ABSENT"
  /\ server' = [server EXCEPT ![a] = "QUEUED"]
  /\ submission' = [submission EXCEPT !.pc = "accepted", !.app = a]
  /\ UNCHANGED <<hook, fetches>>

\* A worker takes the application on, or settles it.
Advance(a) ==
  /\ server[a] # "ABSENT"
  /\ \E t \in Successors[server[a]] : server' = [server EXCEPT ![a] = t]
  /\ UNCHANGED <<submission, hook, fetches>>

AnswerSubmission ==
  /\ submission.pc = "accepted"
  /\ submission' = [submission EXCEPT !.pc = "answered",
                                      !.status = server[submission.app]]
  /\ UNCHANGED <<server, hook, fetches>>

AnswerFetch(f) ==
  /\ f.answer = "awaited"
  /\ fetches' = (fetches \ {f}) \cup {[f EXCEPT !.answer = server[f.app]]}
  /\ UNCHANGED <<server, submission, hook>>

-------------------------------------------------------------------------------
(* App.                                                                    *)

\* The form is there only while nothing is submitted, and locked while it is.
HandleSubmit ==
  /\ submitted = None
  /\ submission.pc = "form"
  /\ submission' = [submission EXCEPT !.pc = "sent"]
  /\ UNCHANGED <<server, hook, fetches>>

\* One of the calls fails: the form again, with a message.
SubmitFails ==
  /\ submission.pc \in {"sent", "accepted"}
  /\ submission' = NoSubmission
  /\ UNCHANGED <<server, hook, fetches>>

\* Mutant: the ref is never reset.
settledBy_Sticky(s) == settledRef \/ s \in Final

\* First effect: a new application or a new initial status starts afresh ...
settledBy(s) == s \in Final

\* ... second effect: and is polled, unless that settled it already.
SubmitSucceeds ==
  LET a == submission.app
      s == submission.status
  IN /\ submission.pc = "answered"
     /\ submission' = NoSubmission
     /\ submitted' = a
     /\ shown' = Shown(a, s)
     /\ error' = FALSE
     /\ settledRef' = settledBy(s)
     /\ isPolling' = ~settledRef'
     /\ ticking' = IF settledRef' THEN ticking ELSE ticking \cup {a}
     /\ UNCHANGED <<server, cancelled, elapsed, fetches>>

Spinner == submitted # None /\ ~error /\ shown.status \in Live
Result == submitted # None /\ shown.status = "DECIDED"
Failure == submitted # None /\ (shown.status = "FAILED" \/ (error /\ ~Result))

\* Only a result or a failure has the button.
HandleStartOver ==
  /\ Result \/ Failure
  /\ submitted' = None
  /\ shown' = NoStatus
  /\ error' = FALSE
  /\ settledRef' = settledBy("none")
  /\ isPolling' = FALSE
  /\ cancelled' = cancelled \cup {submitted}
  /\ ticking' = ticking \ {submitted}
  /\ UNCHANGED <<server, submission, elapsed, fetches>>

-------------------------------------------------------------------------------
(* The interval of the second effect.                                      *)

\* Date.now() - startedAt > POLL_TIMEOUT_MS
TimedOut(a) == elapsed[a] + 1 > PollTimeout

\* Mutant: the interval is cleared and isPolling forgotten.
GiveUp_StillPolling(a) ==
  /\ a \in ticking
  /\ TimedOut(a)
  /\ ticking' = ticking \ {a}
  /\ error' = TRUE
  /\ UNCHANGED <<server, submission, submitted, shown, isPolling, settledRef,
                 cancelled, elapsed, fetches>>

GiveUp(a) ==
  /\ a \in ticking
  /\ TimedOut(a)
  /\ ticking' = ticking \ {a}
  /\ isPolling' = FALSE
  /\ error' = TRUE
  /\ UNCHANGED <<server, submission, submitted, shown, settledRef, cancelled,
                 elapsed, fetches>>

\* The next fetch goes out whether or not the last one is back.
Fetch(a) ==
  /\ a \in ticking
  /\ ~TimedOut(a)
  /\ elapsed' = [elapsed EXCEPT ![a] = @ + 1]
  /\ fetches' = fetches \cup {[app |-> a, tick |-> elapsed[a], answer |-> "awaited"]}
  /\ UNCHANGED <<server, submission, submitted, shown, error, isPolling,
                 settledRef, cancelled, ticking>>

Tick(a) == GiveUp(a) \/ Fetch(a)

\* A failed poll is logged; the next tick is the retry.
FetchFails(f) ==
  /\ fetches' = fetches \ {f}
  /\ UNCHANGED <<server, submission, hook>>

\* The answer of a poll that was cleaned up is dropped ...
ReceiveCancelled(f) ==
  /\ f.answer # "awaited"
  /\ f.app \in cancelled
  /\ fetches' = fetches \ {f}
  /\ UNCHANGED <<server, submission, hook>>

\* Mutant: the poll is settled, its interval is not cleared.
Settle_KeepsTicking(a, s) ==
  /\ settledRef' = (settledRef \/ s \in Final)
  /\ isPolling' = (isPolling /\ s \notin Final)
  /\ UNCHANGED ticking

Settle(a, s) ==
  /\ settledRef' = (settledRef \/ s \in Final)
  /\ isPolling' = (isPolling /\ s \notin Final)
  /\ ticking' = IF s \in Final THEN ticking \ {a} ELSE ticking

\* Mutant: no look at the cancelled flag after the await.
Receive_Cancelled(f) ==
  /\ f.answer # "awaited"
  /\ shown' = Shown(f.app, f.answer)
  /\ Settle(f.app, f.answer)
  /\ fetches' = fetches \ {f}
  /\ UNCHANGED <<server, submission, submitted, error, cancelled, elapsed>>

\* ... any other is shown, whatever is shown already.
Receive(f) ==
  /\ f.answer # "awaited"
  /\ f.app \notin cancelled
  /\ shown' = Shown(f.app, f.answer)
  /\ Settle(f.app, f.answer)
  /\ fetches' = fetches \ {f}
  /\ UNCHANGED <<server, submission, submitted, error, cancelled, elapsed>>

-------------------------------------------------------------------------------
Next == \/ HandleSubmit \/ SubmitFails \/ AnswerSubmission \/ SubmitSucceeds
        \/ HandleStartOver
        \/ \E a \in Apps : Accept(a) \/ Advance(a) \/ Tick(a)
        \/ \E f \in fetches : \/ AnswerFetch(f) \/ FetchFails(f)
                              \/ Receive(f) \/ ReceiveCancelled(f)

(* Intervals fire, workers go on, and what was asked for is answered and   *)
(* received; the user need do nothing, and no fetch need fail.             *)
Fairness ==
  /\ \A a \in Apps : WF_vars(Tick(a)) /\ WF_vars(Advance(a))
  /\ WF_vars(\E f \in fetches : AnswerFetch(f))
  /\ WF_vars(\E f \in fetches : Receive(f) \/ ReceiveCancelled(f))

Spec == Init /\ [][Next]_vars /\ Fairness

-------------------------------------------------------------------------------
\* No answer for an application the user has left is ever put on screen: what
\* is shown, and settles a poll, belongs to the application submitted last.
ShowsOwnApplication == shown # NoStatus => shown.app = submitted

\* What the screen calls final is final, and polling is off for a settled
\* application only because the API has settled it.
SettledIsTrue ==
  /\ shown.status \in Final => server[shown.app] = shown.status
  /\ submitted # None /\ settledRef => server[submitted] \in Final

\* The interval, isPolling, settledRef and error agree: one interval at most is
\* alive, for the application on screen, and it ends by a final status or the
\* timeout and for no other reason.
StoppedForAReason ==
  /\ ticking = IF isPolling THEN {submitted} ELSE {}
  /\ isPolling => submitted # None /\ ~settledRef /\ ~error
  /\ submitted # None /\ ~isPolling => settledRef \/ error

\* Polling comes to an end, even if every fetch fails or none is answered.
PollingEnds == isPolling ~> ~isPolling

\* The hook's comment: a stuck job "surfaces as an error the user can act on
\* rather than an indefinite spinner"; and one that is not stuck as its result.
SpinnerEnds == Spinner ~> ~Spinner
===============================================================================
