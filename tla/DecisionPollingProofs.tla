------------------------- MODULE DecisionPollingProofs -------------------------
(***************************************************************************)
(* Theorems about DecisionPolling, for any applications, any timeout and   *)
(* any number of fetches under way.                                        *)
(***************************************************************************)
EXTENDS DecisionPolling, TLAPS

-------------------------------------------------------------------------------
(* The invariant.                                                          *)

\* A call under way is about an application that nobody polls yet.
SubmissionInv ==
  /\ submission.pc # "form" => submitted = None
  /\ submission.pc \in {"accepted", "answered"} =>
       /\ submission.app \in Apps \ cancelled
       /\ server[submission.app] # "ABSENT"
       /\ \A f \in fetches : f.app # submission.app
  /\ submission.pc = "answered" =>
       /\ submission.status \in Reported
       /\ submission.status \in Final => server[submission.app] = submission.status

\* With the form on screen the hook is at rest; without it, what is shown is
\* of the submitted application.
ScreenInv ==
  /\ submitted = None =>
       shown = NoStatus /\ ~isPolling /\ ~settledRef
  /\ submitted # None =>
       /\ submitted \in Apps \ cancelled
       /\ server[submitted] # "ABSENT"
       /\ shown.app = submitted
       /\ settledRef => server[submitted] \in Final

\* Answers are about an application that was left or that is on screen, and a
\* final one is still true when it arrives.
FetchInv ==
  \A f \in fetches :
    /\ f.app \in cancelled \/ f.app = submitted
    /\ server[f.app] # "ABSENT"
    /\ f.answer \in Final => server[f.app] = f.answer

\* Nobody knows an application that does not exist.
AbsentInv == \A a \in cancelled : server[a] # "ABSENT"

Inv == /\ TypeOK /\ SubmissionInv /\ ScreenInv /\ FetchInv /\ AbsentInv
       /\ SettledIsTrue /\ StoppedForAReason

-------------------------------------------------------------------------------
LEMMA StatusFacts ==
  /\ Live = {"QUEUED", "PROCESSING"} /\ Final = {"DECIDED", "FAILED"}
  /\ Reported = {"QUEUED", "PROCESSING", "DECIDED", "FAILED"}
  /\ Statuses = Reported \cup {"ABSENT"}
  BY DEF Live, Final, Reported, Statuses

\* An application the API knows stays known, and a final status stays.
LEMMA ServerAdvances ==
  ASSUME TypeOK, NEW a \in Apps, Advance(a)
  PROVE  /\ server' \in [Apps -> Statuses]
         /\ \A b \in Apps :
              /\ server[b] # "ABSENT" => server'[b] # "ABSENT"
              /\ server[b] \in Final => server'[b] = server[b]
<1>1. PICK t \in Successors[server[a]] : server' = [server EXCEPT ![a] = t]
  BY DEF Advance
<1>2. server[a] \in Statuses /\ server[a] # "ABSENT"
  BY DEF TypeOK, Advance
<1>3. t \in Reported /\ server[a] \notin Final
  BY <1>1, <1>2 DEF Successors, Statuses, Final, Reported, Live
<1> QED BY <1>1, <1>3, StatusFacts DEF TypeOK

\* What depends on the server only survives its advance.
LEMMA AdvanceInv ==
  ASSUME Inv, NEW a \in Apps, Advance(a) PROVE Inv'
<1>1. /\ server' \in [Apps -> Statuses]
      /\ \A b \in Apps : /\ server[b] # "ABSENT" => server'[b] # "ABSENT"
                         /\ server[b] \in Final => server'[b] = server[b]
  BY ServerAdvances DEF Inv
<1>2. UNCHANGED <<submission, submitted, shown, error, isPolling, settledRef,
                  cancelled, ticking, elapsed, fetches>>
  BY DEF Advance, hook
<1>3. \A f \in fetches : f.app \in Apps
  BY DEF Inv, TypeOK, Fetches
<1>4. cancelled \subseteq Apps
  BY DEF Inv, TypeOK
<1>5. TypeOK'
  BY <1>1, <1>2 DEF Inv, TypeOK
<1>6. SubmissionInv'
  BY <1>1, <1>2 DEF Inv, SubmissionInv
<1>7. ScreenInv'
  BY <1>1, <1>2 DEF Inv, ScreenInv
<1>8. FetchInv'
  BY <1>1, <1>2, <1>3 DEF Inv, FetchInv
<1>9. AbsentInv'
  BY <1>1, <1>2, <1>4 DEF Inv, AbsentInv
<1>10. SettledIsTrue'
  <2>1. shown.status \in Final => shown.app \in Apps
    BY StatusFacts DEF Inv, TypeOK, Resources, NoStatus, Shown
  <2> QED BY <1>1, <1>2, <2>1 DEF Inv, SettledIsTrue, ScreenInv
<1>11. StoppedForAReason'
  BY <1>2 DEF Inv, StoppedForAReason
<1> QED BY <1>5, <1>6, <1>7, <1>8, <1>9, <1>10, <1>11 DEF Inv

\* The request is sent, dropped or stored.
LEMMA SubmissionStepInv ==
  ASSUME Inv, HandleSubmit \/ SubmitFails \/ AnswerSubmission \/ (\E a \in Apps : Accept(a))
  PROVE  Inv'
<1>1. CASE HandleSubmit
  <2>1. submission \in Submissions /\ submission.pc = "form" /\ submitted = None
        /\ submission' = [submission EXCEPT !.pc = "sent"]
    BY <1>1 DEF HandleSubmit, Inv, TypeOK
  <2>2. submission' \in Submissions /\ submission'.pc = "sent"
    BY <2>1 DEF Submissions
  <2>3. UNCHANGED <<server, submitted, shown, error, isPolling, settledRef, cancelled,
                    ticking, elapsed, fetches>>
    BY <1>1 DEF HandleSubmit, hook
  <2>4. TypeOK'
    BY <2>2, <2>3 DEF Inv, TypeOK
  <2>5. SubmissionInv'
    BY <2>1, <2>2, <2>3 DEF SubmissionInv
  <2> QED BY <2>3, <2>4, <2>5 DEF Inv, ScreenInv, FetchInv, AbsentInv, SettledIsTrue,
                                  StoppedForAReason
<1>2. CASE SubmitFails
  <2>1. submission' = NoSubmission /\ NoSubmission \in Submissions
        /\ NoSubmission.pc = "form"
    BY <1>2 DEF SubmitFails, NoSubmission, Submissions
  <2>2. UNCHANGED <<server, submitted, shown, error, isPolling, settledRef, cancelled,
                    ticking, elapsed, fetches>>
    BY <1>2 DEF SubmitFails, hook
  <2>3. TypeOK'
    BY <2>1, <2>2 DEF Inv, TypeOK
  <2>4. SubmissionInv'
    BY <2>1, <2>2 DEF SubmissionInv
  <2> QED BY <2>2, <2>3, <2>4 DEF Inv, ScreenInv, FetchInv, AbsentInv, SettledIsTrue,
                                  StoppedForAReason
<1>3. CASE AnswerSubmission
  <2>1. submission \in Submissions /\ submission.pc = "accepted"
        /\ submission' = [submission EXCEPT !.pc = "answered",
                                            !.status = server[submission.app]]
    BY <1>3 DEF AnswerSubmission, Inv, TypeOK
  <2>2. submission.app \in Apps /\ server[submission.app] \in Reported
    BY <2>1, StatusFacts DEF Inv, SubmissionInv, TypeOK
  <2>3. /\ submission' \in Submissions
        /\ submission'.pc = "answered" /\ submission'.app = submission.app
        /\ submission'.status = server[submission.app]
    BY <2>1, <2>2 DEF Submissions
  <2>4. UNCHANGED <<server, submitted, shown, error, isPolling, settledRef, cancelled,
                    ticking, elapsed, fetches>>
    BY <1>3 DEF AnswerSubmission, hook
  <2>5. TypeOK'
    BY <2>3, <2>4 DEF Inv, TypeOK
  <2>6. SubmissionInv'
    BY <2>1, <2>2, <2>3, <2>4 DEF Inv, SubmissionInv
  <2> QED BY <2>4, <2>5, <2>6 DEF Inv, ScreenInv, FetchInv, AbsentInv, SettledIsTrue,
                                  StoppedForAReason
<1>4. ASSUME NEW a \in Apps, Accept(a) PROVE Inv'
  <2>1. /\ submission \in Submissions /\ submission.pc = "sent"
        /\ submission' = [submission EXCEPT !.pc = "accepted", !.app = a]
        /\ server \in [Apps -> Statuses] /\ server[a] = "ABSENT"
        /\ server' = [server EXCEPT ![a] = "QUEUED"]
    BY <1>4 DEF Accept, Inv, TypeOK
  <2>2. /\ submission' \in Submissions
        /\ submission'.pc = "accepted" /\ submission'.app = a
    BY <2>1 DEF Submissions
  <2>3. /\ server' \in [Apps -> Statuses] /\ server'[a] = "QUEUED"
        /\ \A b \in Apps : server[b] # "ABSENT" => server'[b] = server[b]
    BY <2>1, StatusFacts
  <2>4. UNCHANGED <<submitted, shown, error, isPolling, settledRef, cancelled,
                    ticking, elapsed, fetches>>
    BY <1>4 DEF Accept, hook
  <2>5. a \notin cancelled /\ submitted = None
    BY <2>1 DEF Inv, AbsentInv, SubmissionInv
  <2>6. \A f \in fetches : f.app \in Apps /\ f.app # a
    BY <2>1 DEF Inv, FetchInv, TypeOK, Fetches
  <2>7. TypeOK'
    BY <2>2, <2>3, <2>4 DEF Inv, TypeOK
  <2>8. SubmissionInv'
    BY <2>2, <2>3, <2>4, <2>5, <2>6 DEF Inv, SubmissionInv
  <2>9. ScreenInv'
    BY <2>4, <2>5 DEF Inv, ScreenInv
  <2>10. FetchInv'
    BY <2>3, <2>4, <2>6 DEF Inv, FetchInv
  <2>11. AbsentInv'
    BY <2>3, <2>4 DEF Inv, AbsentInv, TypeOK
  <2>12. SettledIsTrue'
    <3>1. shown = NoStatus
      BY <2>5 DEF Inv, ScreenInv
    <3> QED BY <3>1, <2>4, <2>5, StatusFacts DEF SettledIsTrue, NoStatus, Shown
  <2> QED BY <2>4, <2>7, <2>8, <2>9, <2>10, <2>11, <2>12 DEF Inv, StoppedForAReason
<1> QED BY <1>1, <1>2, <1>3, <1>4

\* The application is put on screen, and polled unless it is settled.
LEMMA SubmitSucceedsInv ==
  ASSUME Inv, SubmitSucceeds PROVE Inv'
<1> DEFINE a == submission.app
           s == submission.status
<1>1. /\ submission.pc = "answered" /\ submission' = NoSubmission
      /\ submitted' = a /\ shown' = Shown(a, s) /\ error' = FALSE
      /\ settledRef' = (s \in Final) /\ isPolling' = ~settledRef'
      /\ ticking' = IF settledRef' THEN ticking ELSE ticking \cup {a}
      /\ UNCHANGED <<server, cancelled, elapsed, fetches>>
  BY DEF SubmitSucceeds, settledBy
<1>2. /\ submitted = None /\ a \in Apps \ cancelled /\ server[a] # "ABSENT"
      /\ s \in Reported /\ (s \in Final => server[a] = s) /\ a # None
  BY <1>1, PollingAssumption DEF Inv, SubmissionInv
<1>3. ticking = {}
  BY <1>2 DEF Inv, ScreenInv, StoppedForAReason
<1>4. /\ NoSubmission \in Submissions /\ NoSubmission.pc = "form"
      /\ Shown(a, s) \in Resources /\ Shown(a, s).app = a /\ Shown(a, s).status = s
  BY <1>2 DEF NoSubmission, Submissions, Shown, Resources
<1>5. \A f \in fetches : f.app \in cancelled
  BY <1>2, PollingAssumption DEF Inv, FetchInv, TypeOK, Fetches
<1> HIDE DEF a, s
<1>6. \/ s \in Final /\ settledRef' = TRUE /\ isPolling' = FALSE /\ ticking' = {}
      \/ s \notin Final /\ settledRef' = FALSE /\ isPolling' = TRUE /\ ticking' = {a}
  <2>1. CASE s \in Final
    <3>1. (s \in Final) = TRUE
      BY <2>1
    <3>2. settledRef' = TRUE
      BY <1>1, <3>1, Zenon
    <3>3. isPolling' = FALSE
      BY <1>1, <3>2, Zenon
    <3>4. ticking' = {}
      BY <1>1, <1>3, <3>2
    <3> QED BY <2>1, <3>2, <3>3, <3>4
  <2>2. CASE s \notin Final
    <3>1. (s \in Final) = FALSE
      BY <2>2
    <3>2. settledRef' = FALSE
      BY <1>1, <3>1, Zenon
    <3>3. isPolling' = TRUE
      BY <1>1, <3>2, Zenon
    <3>4. ticking' = {a}
      BY <1>1, <1>3, <3>2
    <3> QED BY <2>2, <3>2, <3>3, <3>4
  <2> QED BY <2>1, <2>2
<1>7. TypeOK'
  <2>1. settledRef' \in BOOLEAN /\ isPolling' \in BOOLEAN /\ error' \in BOOLEAN
    BY <1>1, <1>6
  <2>2. ticking' \subseteq Apps /\ cancelled' \subseteq Apps
    BY <1>1, <1>2, <1>6 DEF Inv, TypeOK
  <2> QED BY <1>1, <1>2, <1>4, <2>1, <2>2 DEF Inv, TypeOK
<1>8. SubmissionInv'
  BY <1>1, <1>4 DEF SubmissionInv
<1>9. ScreenInv'
  BY <1>1, <1>2, <1>4 DEF ScreenInv
<1>10. FetchInv'
  BY <1>1, <1>5 DEF Inv, FetchInv
<1>11. AbsentInv'
  BY <1>1 DEF Inv, AbsentInv
<1>12. SettledIsTrue'
  BY <1>1, <1>2, <1>4 DEF SettledIsTrue
<1>13. StoppedForAReason'
  BY <1>1, <1>2, <1>6 DEF StoppedForAReason
<1> QED BY <1>7, <1>8, <1>9, <1>10, <1>11, <1>12, <1>13 DEF Inv

\* The application is left: what is still on its way is cancelled with it.
LEMMA StartOverInv ==
  ASSUME Inv, HandleStartOver PROVE Inv'
<1>1. /\ submitted # None /\ submitted' = None /\ shown' = NoStatus /\ error' = FALSE
      /\ settledRef' = FALSE /\ isPolling' = FALSE
      /\ cancelled' = cancelled \cup {submitted} /\ ticking' = ticking \ {submitted}
      /\ UNCHANGED <<server, submission, elapsed, fetches>>
  <2>1. ("none" \in Final) = FALSE
    BY StatusFacts
  <2> QED BY <2>1 DEF HandleStartOver, settledBy, Result, Failure
<1>2. submission.pc = "form"
  BY <1>1 DEF Inv, SubmissionInv
<1>3. submitted \in Apps /\ server[submitted] # "ABSENT"
  BY <1>1 DEF Inv, ScreenInv
<1>4. TypeOK'
  BY <1>1, <1>3 DEF Inv, TypeOK, Resources
<1>5. SubmissionInv'
  BY <1>1, <1>2 DEF SubmissionInv
<1>6. ScreenInv'
  BY <1>1 DEF ScreenInv
<1>7. FetchInv'
  BY <1>1 DEF Inv, FetchInv
<1>8. AbsentInv'
  BY <1>1, <1>3 DEF Inv, AbsentInv
<1>9. SettledIsTrue'
  BY <1>1, StatusFacts DEF SettledIsTrue, NoStatus, Shown
<1>10. StoppedForAReason'
  BY <1>1 DEF Inv, StoppedForAReason
<1> QED BY <1>4, <1>5, <1>6, <1>7, <1>8, <1>9, <1>10 DEF Inv

\* The interval fires.
LEMMA TickInv ==
  ASSUME Inv, NEW a \in Apps, Tick(a) PROVE Inv'
<1>1. a \in ticking
  BY DEF Tick, GiveUp, Fetch
<1>2. isPolling /\ a = submitted /\ submitted # None /\ ticking = {submitted}
  BY <1>1 DEF Inv, StoppedForAReason
<1>3. CASE GiveUp(a)
  <2>1. /\ ticking' = ticking \ {a} /\ isPolling' = FALSE /\ error' = TRUE
        /\ UNCHANGED <<server, submission, submitted, shown, settledRef, cancelled,
                       elapsed, fetches>>
    BY <1>3 DEF GiveUp
  <2>2. TypeOK'
    BY <2>1 DEF Inv, TypeOK
  <2>3. ScreenInv'
    BY <2>1 DEF Inv, ScreenInv
  <2>4. StoppedForAReason'
    BY <1>2, <2>1 DEF StoppedForAReason
  <2> QED BY <2>1, <2>2, <2>3, <2>4 DEF Inv, SubmissionInv, FetchInv, AbsentInv,
                                        SettledIsTrue
<1>4. CASE Fetch(a)
  <2> DEFINE g == [app |-> a, tick |-> elapsed[a], answer |-> "awaited"]
  <2>1. /\ elapsed' = [elapsed EXCEPT ![a] = elapsed[a] + 1]
        /\ fetches' = fetches \cup {g}
        /\ UNCHANGED <<server, submission, submitted, shown, error, isPolling,
                       settledRef, cancelled, ticking>>
    BY <1>4 DEF Fetch
  <2>2. g \in Fetches /\ g.app = a /\ g.answer = "awaited"
    BY DEF Inv, TypeOK, Fetches
  <2>3. elapsed' \in [Apps -> Nat]
    BY <2>1 DEF Inv, TypeOK
  <2> HIDE DEF g
  <2>4. TypeOK'
    BY <2>1, <2>2, <2>3 DEF Inv, TypeOK
  <2>5. submission.pc = "form"
    BY <1>2 DEF Inv, SubmissionInv
  <2>6. SubmissionInv'
    BY <2>1, <2>5 DEF Inv, SubmissionInv
  <2>7. FetchInv'
    BY <1>2, <2>1, <2>2, StatusFacts DEF Inv, FetchInv, ScreenInv
  <2> QED BY <2>1, <2>4, <2>6, <2>7 DEF Inv, ScreenInv, AbsentInv, SettledIsTrue,
                                        StoppedForAReason
<1> QED BY <1>3, <1>4 DEF Tick

\* A fetch fails, or its answer is dropped: nothing but the fetch goes.
LEMMA FetchGoneInv ==
  ASSUME Inv, NEW f \in fetches, FetchFails(f) \/ ReceiveCancelled(f) PROVE Inv'
<1>1. /\ fetches' = fetches \ {f}
      /\ UNCHANGED <<server, submission, submitted, shown, error, isPolling, settledRef,
                     cancelled, ticking, elapsed>>
  BY DEF FetchFails, ReceiveCancelled, hook
<1>2. TypeOK'
  BY <1>1 DEF Inv, TypeOK
<1>3. SubmissionInv'
  BY <1>1 DEF Inv, SubmissionInv
<1>4. FetchInv'
  BY <1>1 DEF Inv, FetchInv
<1> QED BY <1>1, <1>2, <1>3, <1>4 DEF Inv, ScreenInv, AbsentInv, SettledIsTrue,
                                      StoppedForAReason

\* The API answers with the status it has now.
LEMMA AnswerFetchInv ==
  ASSUME Inv, NEW f \in fetches, AnswerFetch(f) PROVE Inv'
<1> DEFINE g == [f EXCEPT !.answer = server[f.app]]
<1>1. /\ fetches' = (fetches \ {f}) \cup {g}
      /\ UNCHANGED <<server, submission, submitted, shown, error, isPolling, settledRef,
                     cancelled, ticking, elapsed>>
  BY DEF AnswerFetch, hook
<1>2. f \in Fetches /\ server[f.app] \in Reported
  BY StatusFacts DEF Inv, TypeOK, FetchInv, Fetches
<1>3. g \in Fetches /\ g.app = f.app /\ g.answer = server[f.app]
  BY <1>2 DEF Fetches
<1> HIDE DEF g
<1>4. TypeOK'
  BY <1>1, <1>3 DEF Inv, TypeOK
<1>5. SubmissionInv'
  BY <1>1, <1>3 DEF Inv, SubmissionInv
<1>6. FetchInv'
  BY <1>1, <1>3 DEF Inv, FetchInv
<1> QED BY <1>1, <1>4, <1>5, <1>6 DEF Inv, ScreenInv, AbsentInv, SettledIsTrue,
                                      StoppedForAReason

\* An answer that is shown is about the application on screen.
LEMMA ReceiveInv ==
  ASSUME Inv, NEW f \in fetches, Receive(f) PROVE Inv'
<1> DEFINE s == f.answer
<1>1. /\ s # "awaited" /\ f.app \notin cancelled /\ shown' = Shown(f.app, s)
      /\ settledRef' = (settledRef \/ s \in Final)
      /\ isPolling' = (isPolling /\ s \notin Final)
      /\ ticking' = IF s \in Final THEN ticking \ {f.app} ELSE ticking
      /\ fetches' = fetches \ {f}
      /\ UNCHANGED <<server, submission, submitted, error, cancelled, elapsed>>
  BY DEF Receive, Settle
<1>2. /\ f.app \in Apps /\ f.app = submitted /\ s \in Reported
      /\ s \in Final => server[submitted] = s
  BY <1>1 DEF Inv, FetchInv, TypeOK, Fetches
<1>3. submitted # None
  BY <1>2, PollingAssumption
<1>4. Shown(f.app, s) \in Resources /\ Shown(f.app, s).app = submitted
      /\ Shown(f.app, s).status = s
  BY <1>2 DEF Shown, Resources
<1> HIDE DEF s
<1>5. TypeOK'
  BY <1>1, <1>4 DEF Inv, TypeOK
<1>6. SubmissionInv'
  BY <1>1 DEF Inv, SubmissionInv
<1>7. ScreenInv'
  BY <1>1, <1>2, <1>3, <1>4 DEF Inv, ScreenInv
<1>8. FetchInv'
  BY <1>1 DEF Inv, FetchInv
<1>9. AbsentInv'
  BY <1>1 DEF Inv, AbsentInv
<1>10. SettledIsTrue'
  BY <1>1, <1>2, <1>4 DEF Inv, SettledIsTrue
<1>11. StoppedForAReason'
  BY <1>1, <1>2, <1>3 DEF Inv, TypeOK, StoppedForAReason
<1> QED BY <1>5, <1>6, <1>7, <1>8, <1>9, <1>10, <1>11 DEF Inv

-------------------------------------------------------------------------------
LEMMA InitInv == Init => Inv
<1> SUFFICES ASSUME Init PROVE Inv
  OBVIOUS
<1>1. NoSubmission \in Submissions /\ NoSubmission.pc = "form"
  BY DEF NoSubmission, Submissions
<1>2. NoStatus.status \notin Final
  BY StatusFacts DEF NoStatus, Shown
<1> QED BY <1>1, <1>2, StatusFacts
        DEF Init, Inv, TypeOK, SubmissionInv, ScreenInv, FetchInv, AbsentInv,
            SettledIsTrue, StoppedForAReason, Resources

LEMMA NextInv == Inv /\ [Next]_vars => Inv'
<1> SUFFICES ASSUME Inv, [Next]_vars PROVE Inv'
  OBVIOUS
<1>1. CASE HandleSubmit \/ SubmitFails \/ AnswerSubmission
  BY <1>1, SubmissionStepInv
<1>2. CASE SubmitSucceeds
  BY <1>2, SubmitSucceedsInv
<1>3. CASE HandleStartOver
  BY <1>3, StartOverInv
<1>4. ASSUME NEW a \in Apps, Accept(a) PROVE Inv'
  BY <1>4, SubmissionStepInv
<1>5. ASSUME NEW a \in Apps, Advance(a) PROVE Inv'
  BY <1>5, AdvanceInv
<1>6. ASSUME NEW a \in Apps, Tick(a) PROVE Inv'
  BY <1>6, TickInv
<1>7. ASSUME NEW f \in fetches, AnswerFetch(f) PROVE Inv'
  BY <1>7, AnswerFetchInv
<1>8. ASSUME NEW f \in fetches, FetchFails(f) \/ ReceiveCancelled(f) PROVE Inv'
  BY <1>8, FetchGoneInv
<1>9. ASSUME NEW f \in fetches, Receive(f) PROVE Inv'
  BY <1>9, ReceiveInv
<1>10. CASE UNCHANGED vars
  BY <1>10 DEF vars, Inv, TypeOK, SubmissionInv, ScreenInv, FetchInv, AbsentInv,
                SettledIsTrue, StoppedForAReason
<1> QED BY <1>1, <1>2, <1>3, <1>4, <1>5, <1>6, <1>7, <1>8, <1>9, <1>10 DEF Next

LEMMA InvHolds == Spec => []Inv
  BY InitInv, NextInv, PTL DEF Spec

\* The browser's state keeps its shape: a call, a screen, the polls.
THEOREM PollingTypes == Spec => []TypeOK
<1>1. Inv => TypeOK
  BY DEF Inv
<1> QED BY <1>1, InvHolds, PTL

\* However many applications are submitted, left and submitted again, and
\* however late the answers: none is shown under another application.
THEOREM ScreenIsOwn == Spec => []ShowsOwnApplication
<1>1. Inv => ShowsOwnApplication
  BY DEF Inv, ScreenInv, ShowsOwnApplication
<1> QED BY <1>1, InvHolds, PTL

\* A result or a failure on screen is the API's, also when answers overtake
\* each other.
THEOREM FinalIsTrue == Spec => []SettledIsTrue
<1>1. Inv => SettledIsTrue
  BY DEF Inv
<1> QED BY <1>1, InvHolds, PTL

\* The interval, the flag and the ref agree after every step of the hook.
THEOREM OneIntervalWithReason == Spec => []StoppedForAReason
<1>1. Inv => StoppedForAReason
  BY DEF Inv
<1> QED BY <1>1, InvHolds, PTL
===============================================================================
