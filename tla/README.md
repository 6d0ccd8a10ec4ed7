# Formal model of the loan decision system

This directory holds a TLA+ model of the lending decision system in this
repository, the TLC runs that check it and TLAPS proofs about it. It follows
the code under `apps/api`, `apps/web` and `packages/shared`; where a comment or
the repository's README disagrees with the code, the model follows the code and
a run shows the difference.

## The system

A browser form creates a business profile and an application and asks for a
decision. The API stores rows in Postgres and puts a BullMQ job in Redis; a
worker evaluates the application with a pure engine and writes the decision;
the browser polls. Audit events go to Mongo, best effort.

| Component | State | Operations | Correct when |
|---|---|---|---|
| Decision lifecycle (`modules/decision`) | `loan_applications.status`, `decisions`, `decision_reasons` | `requestDecision`, `getDecisionStatus`, `processDecision`, `markDecisionFailed` | one decision per application, never replaced; every answer agrees with it; the status tells the truth and ends in DECIDED or FAILED |
| Queue and worker (`queue/`, `worker-entry.ts`) | the BullMQ job (state, attempts, stalls, lock), the lanes of each worker | add, take, complete, fail, retry after backoff, stalled recovery, crash, shutdown | a double submit is one job; a job that is given up is reported |
| Engine (`engine/`, `config/scoring.ts`, `packages/shared/src/emi.ts`) | none | `evaluate` | a larger loan or a lower revenue never scores better; what is read first is what the policy makes it |
| Largest approvable amount (`engine/index.ts`) | the bracket | `findMaxApprovableAmount` | the offer would be approved and cannot be bettered |
| Business profiles (`modules/business`) | `businesses` | create, get, update | one profile per PAN, also when checks and writes interleave |
| Application intake (`modules/application`) | `loan_applications` | create, get | an application is born QUEUED, without a job |
| Polling hook (`apps/web/src/hooks`) | status, error, isPolling, settledRef, interval | two effects, ticks, answers | the user ends with a decision, a failure or an error, never a spinner |
| Web intake (`apps/web/src/lib/api.ts`) | none between calls | `upsertBusiness`, `submitApplication` | the revenue scored is the one submitted |
| Audit trail (`lib/audit.ts`, `db/mongo.ts`) | `audit_events` | `recordAuditEvent` | one DECISION_COMPLETED per decision; never fails a request |
| Process lifecycle (`server.ts`) | listening server, embedded worker | boot, shutdown, forced exit | running jobs drain |
| Shared vocabulary and validation (`packages/shared`) | none | the schemas, the limits, the status enum | what the browser accepts the API never refuses; every wrong field is named once |
| HTTP layer (`app.ts`, `middleware/`, `lib/`) | none | validation of a body, errors, serialization, routing | a refusal reaches the client as the fields it is about |
| Web components (`apps/web/src/components`) | the form's fields | form, preview, result, gauge | the figures on screen are the engine's |
| Health, configuration | none of their own | probes, parsing of the environment | out of scope, see below |

**Interactions.** The API and the workers share the Postgres rows and nothing
else but the job. `requestDecision` is three awaits long: it reads the
application with its decision, updates the status, enqueues. `processDecision`
runs in a lane of a worker: read application and business, read the decision,
set PROCESSING, evaluate, then one transaction. BullMQ settles the job when the
processor returns or throws, and calls the `failed` handler in the worker's
process; the handler starts `markDecisionFailed` and does not wait for it.

**What is hard.** No `UPDATE` of the status has a condition on the old status or
on the decision, so every writer can overwrite every other. The two stores are
never written together. A job is picked up again after a crash or a lost lock,
at any point of the previous attempt. Finished jobs stay in Redis under the
application's id. The failed handler counts attempts, while BullMQ can give a
job up for stalls. `PROJECT.json` lists each hazard at its line.

## Modules

| Module | What it is |
|---|---|
| `ApplicationStatus` | The status enum the API, the worker and the browser share, and the order in which one request moves it. |
| `DecisionContract` | The promise of `POST /applications/:id/decision`: an application gets at most one decision, and an answer carries that decision or none. |
| `DecisionLifecycle` | The machine: handlers, rows, job, lanes, `markDecisionFailed`, and every fault. Its `Contract` instance maps `decision` and the bodies of the requests to the contract's variables. |
| `DecisionLifecycleProofs` | The inductive invariants of the lifecycle and ten theorems. |
| `DecisionStatusProofs` | The status column of an application whose request went orderly: its invariant and two theorems. |
| `MCDecisionLifecycle` | Values for the constants of the lifecycle. |
| `CreditEngine` | `evaluate` as operators: metrics, hard rules, factors, score, outcome, ordered reasons. |
| `ApprovableAmount` | `findMaxApprovableAmount` as a state machine over any engine `Approves(applicant, amount)`. |
| `ApprovableAmountProofs` | The search is correct for every engine that is monotone in the amount, and its bracket halves for any engine. |
| `LoanIntake` | The form, the schemas of `packages/shared` as the browser and the API run them, what the rows keep of a request, and the figures the screen derives. |
| `LoanIntakeProofs` | Two theorems about every form there is and any limits. |
| `MCCreditEngine` | A grid of applicants and amounts, the forms they type, the search run over `CreditEngine`, and the properties of the engine and of the screen. |
| `CreditEngineProofs` | Twelve theorems about the engine, the order of its reasons, the search over it, and what forms and screen make of it, for every applicant and amount. |
| `InlineDecision` | `DECISION_MODE=inline`: `processDecision` in the request handler, and the audit events it sends to Mongo. Meets the same `DecisionContract`. |
| `InlineDecisionProofs` | Its inductive invariant and six theorems. |
| `BusinessProfiles` | `createBusiness`, `updateBusiness` and the client's `submitApplication` over one table with a unique PAN, up to the worker's read of the profile. |
| `BusinessProfilesProofs` | Its inductive invariant and four theorems. |
| `DecisionPolling` | `App` and `useDecisionPolling`: submit, poll, time out, settle, start over. |
| `DecisionPollingProofs` | Its inductive invariant and four theorems. |

### DecisionLifecycle and the code

One action is one statement or transaction of Postgres, or one script of
Redis; what the code does between two of them without touching shared state
belongs to the earlier action.

| Code | Actions |
|---|---|
| `createApplication`, `updateBusiness` | `CreateApplication`, `UpdateBusiness` |
| `requestDecision`: the read | `ReceiveUnknown` (404), `ReceiveDecided` (200), `ReceiveUndecided` |
| ... `UPDATE status = QUEUED`, enqueue, final read | `Requeue`, `Enqueue` (`AddJob`), `Respond` (202) |
| the handler throws, or its process dies | `RequestError` (500), `RequestLost` |
| a lane takes the job | `Take` |
| `processDecision` in order | `LoadApplication`, `CheckExisting`, `MarkProcessing`, `Commit` or `CommitRejected`, `RecordCompletion` |
| a query of it throws; the commit's answer is lost | `ProcessorError`, `CommitUnacknowledged` |
| the worker's outcome | `CompleteJob`, `FailAttempt`, `FailStalled` (each with `FailedHandler`), `SettleRefused` |
| `markDecisionFailed` | `MarkFailed`, `MarkFailedError` |
| BullMQ | `Promote` (backoff over), `OrphanLockExpires`, `LockLost`, `RecoverStalled`, `Evict` |
| the worker process | `Crash`, `Shutdown` |

A decision is represented by the *profile it was computed from*: the engine is
pure, an application's amount and tenure never change, so two decisions on one
application differ only if their profiles do. `Reasonless` holds the pairs for
which `evaluate` returns no reason: their insert throws. The delay between
PROCESSING and the transaction, the failure reason's text (that there is one is
`failureReason`) and all log output are left out. A read of one row is one step; the transaction is atomic, and the
unique index on `application_id` decides which of two succeeds. An `UPDATE` of a
status that was sent by a process which then died is one that happened before
it died. BullMQ is modelled from the way the code uses it and marked external
in the map: an `add` with an id Redis still holds is ignored, only the holder of
a job's lock can settle it, a job whose lock is gone is put back by the stalled
check, and a job that stalled more than `MaxStalledCount` times (1, the
default) fails when it is next picked up, whatever attempts are left.

### CreditEngine and the code

Operators keep the names of the code (`evaluateHardRules`, `tenureFactor`,
`sortByImpact`, `clamp`...). Money is counted in units of 500 rupees in the
runs. Ratios are compared as products of integers; the instalment on one rupee
is a table in fixed point (five decimals) built from the same formula as
`calculateEmi`. The table is truncated, which puts an instalment at most 0.04% off (the
worst is 84 months, 0.02101 for 0.0210178), and the code rounds an instalment to paise,
which the model leaves out; so an edge of an EMI band lies up to 0.04% of the amount
away from the code's, some 400 rupees in ten lakh. Neither can reorder two amounts of one
tenure, since each is monotone in the amount, and on the grid of the runs every EMI
comparison comes out as with the exact formula rounded to paise. The reasons of the factors are a set, and
`sortByImpact` puts at each place the reason with as many before it; that no two
of them tie, so that the order of the pushes and the stability of the sort never
show, is proved (`NoTies`). A PAN is reduced to the outcome of its
comparison with the surname. Messages and the score breakdown are left out.

### LoanIntake and the code

| Code | Definitions |
|---|---|
| `schemas.ts`: `numericField`, `panSchema`, the owner's name, the enums | `numericField`, `panSchema`, `ownerNameSchema`, `enum`: the messages a field gets, in order |
| `createBusinessSchema`, `createApplicationSchema`, `loanIntakeFormSchema` | the same names, a message list for each field |
| `transform`, `trim`, `toUpperCase`, then JSON and `validateBody` | `parsed`, what the second parse is given |
| `numberToNumeric` and the `NUMERIC(14, 2)` columns | `numberToNumeric` (a set: half a paisa may go either way), `Fits` |
| `zodResolver`, `handleSubmitFailure` | `byField`, the one message shown |
| `buildPreview` and its warning; the constants of the gauge | `Previewed`, `buildPreview`, `PreviewWarns`, `ScoreGauge` |

The checks of one zod `transform` stop at the first issue (`Failing`), while the
checks of a string all run, and a refinement runs on what a regex refused: a
malformed PAN has two messages, of which the shape comes first. A figure is
rupees and thousandths of a rupee, which is finer than the paise that are
stored and coarse enough to be enumerated; text is counted in characters, and a
PAN is whether its shape and its fourth character are right, and how it was
typed. `"text"` is an entry that is no number, such as one with a thousands
separator; `"other"` is what only JSON can hold.

### InlineDecision and the code

The handler's steps are those of `DecisionLifecycle` without a job: `Receive*`,
`Requeue`, then `LoadApplication`, `CheckExisting`, `MarkProcessing` and
`Commit`/`CommitRejected` in the handler, then `Respond`. Any exception becomes
an error answer; its exact status is not distinguished (500). `recordAuditEvent` only adds to
`writing`; `AuditWritten` and `AuditDropped` are Mongo's side of it, in any
order. `Exit` is a crash, a shutdown that has drained its requests or the forced
exit after ten seconds: no code path waits for an audit write. An event counts
as sent together with the transaction, since nothing is awaited in between.

### BusinessProfiles and the code

| Code | Actions |
|---|---|
| `createBusiness`: `findByPan` | `FindFree`, `FindTaken` (409, after which `upsertBusiness` sends a PUT) |
| ... the insert and the unique index | `Insert`, `InsertRefused` |
| `updateBusiness`: `findById`, owner of the new PAN, update | `FindMissing`, `FindById`, `CheckOwner`, `Update`, `UpdateRefused` |
| `createApplication` | `Apply` |
| `getApplicationWithBusiness` in the worker | `Score` |
| a request or its answer is lost | `LoseAnswer` |

A submission stands for the form it sends, and a profile remembers the forms
written to it, so that "which revenue" is a question about that list. The check
of `createApplication` that the business exists and its insert are one step:
nothing deletes a profile.

### DecisionPolling and the code

| Code | Actions |
|---|---|
| `handleSubmit`, `submitApplication` | `HandleSubmit`, `Accept`, `AnswerSubmission`, `SubmitSucceeds`, `SubmitFails` |
| the two effects | `SubmitSucceeds` (a new application), `HandleStartOver` (cleanup) |
| the interval | `GiveUp` (timeout) and `Fetch` |
| after `await fetchDecisionStatus` | `Receive`, `ReceiveCancelled`, `FetchFails` |

React runs an update and its effects without letting a timer or an answer in
between, so they are one action. `Spinner`, `Result` and `Failure` are the
conditions under which `App` renders those views. The API's status takes only
the steps of `ApplicationStatus.Successors` here, and `StatusAdvances` of
`DecisionLifecycle` (proved as `StatusOnlyAdvances`) is the other half of that
assumption: a request that went orderly moves the status along `Successors` and
in no other way. This client asks once for each
application; `DecisionLifecycle` shows what else can happen to the status (a lost lock or
acknowledgement, a second request).

## Runs

| Run | Expect | What it shows |
|---|---|---|
| `everything` | pass | One application, two requests, two lanes, two profiles, two attempts, one crash, one lost lock, one eviction and every fault site. DECIDED always has a decision; a decision is never replaced; every answer agrees with it; a completed job has a decision; one completion is recorded; FAILED only after the last attempt; a failure reason goes with FAILED only; the contract is met. |
| `recovery` | pass | Two applications, two workers, a crash, fairness. No application is in two lanes; a decision means DECIDED unless requests raced, and the status only advances, along `Successors`; jobs settle; with a reason to give, jobs end in a decision even across a crash. |
| `requeue_failed` | violation | Asking again for a FAILED application sets QUEUED and enqueues nothing. |
| `late_requeue` | violation | Two requests, no fault: the second overwrites DECIDED with QUEUED for good. |
| `stalled_twice` | violation | Two crashes: BullMQ fails the job, nobody marks the application FAILED. |
| `credit_engine` | pass | 144 applicants times 13 amounts: the score is monotone in amount and revenue, an approval means an instalment within 40% and a loan within 24 months of revenue, the critical reasons are read first, in an order that is known, and a hard rule speaks alone, and the search over this engine is correct. Each of them types the form: what the browser lets through is never refused by either request nor by a column, each wrong field is named once, and the warning and the gauge agree with the engine. |
| `no_reasons` | violation | Revenue 50 000, 40 months, 2 lakh: approved with no reason. `processDecision` then fails on the empty insert. |
| `inline` | pass | Two handlers on one application, three profiles of which one gives no reasons, errors at every step and exits at any time: the contract is met, accepted requests are answered with a decision, the trail claims nothing that did not happen, a decision under another status than DECIDED takes two handlers, and a row left PROCESSING had a request that failed or was lost. |
| `profiles` | pass | Three submissions and a foreign PUT over two PANs: a PAN has one profile although checks and writes are apart, applications are filed for their borrower, and what is scored is never older than the submission. |
| `other_revenue` | violation | Two submissions: the first is scored on the second's revenue. |
| `polling` | pass | Two applications in turn, two fetches under way for each, lost and out of order: the screen never shows the application that was left, final means final, polling stops for a reason and always stops. |
| `spinner` | violation | PROCESSING arrives after FAILED or DECIDED: the spinner turns for ever. |

**Bounds.** Two requests are enough for each race of the API, because a third
could only repeat the second's step; two lanes are enough for each race of
processors, since a lane that has lost its job can only affect the job of one
other. The code makes three attempts and so do the runs of single scenarios; the two
large runs make two, so that there is an attempt that is retried and one that is
the last. One crash and one lost lock make
one stall, the most that is tolerated; the second crash of `stalled_twice` goes
past it. One eviction lets a job be added again after it was settled. The runs
that expect a pass do not check for deadlock: when every request is answered and
no job is left, the system rests. Lanes, requests and, where each has
its reasons, profiles are interchangeable, so `everything` is reduced by that symmetry; runs with liveness are not.

The engine's grid has a revenue below the hard floor, one on it and one on the edge
of every band, a tenure in each of the four tenure bands
and amounts from the smallest loan to past the 36 month rule. Every applicant
types the form twice, with figures as numbers and as text; one applicant also
makes every slip at every field, two at a time: each field stands alone in the
schemas, so a pair is what it takes for one slip to hide another. The figures
of a slip sit on both sides of each limit by a rupee, a paisa and half a paisa.
`ColumnMax` is 2 x 10^9 where the column has 10^12, because TLC's integers
end there; both are above the largest figure that is accepted.

`inline` has two handlers, as many as a race needs; a third could only lose as
the second does. `profiles` has two submissions that can share a PAN, a third
that takes another or waits for the outcome, and one PUT that can move a profile
between both PANs. `polling` has a timeout of two intervals, so that there is one answer
to overtake and one to be overtaken, and a second application to disturb.

**Fairness** (`FairSpec`). Handlers and processors that were started run on,
idle lanes take waiting jobs, and Redis' timers fire: each is what the Node
runtime and BullMQ do as long as their process and their databases are up. No
client is obliged to call, and no fault is obliged to happen or not to. The
search's steps are those of a synchronous function, which runs to its end. In
`DecisionPolling` the interval fires, workers go on, requests are answered and
answers are received; no user has to act and no fetch has to fail or succeed
first.

**Conditions in the properties.** `NoDoubleEvaluation` and
`DecisionMeansDecided` hold while no live lane loses its lock, which BullMQ
cannot rule out; `DecisionMeansDecided` also excludes two handlers that read the
same undecided row, and attempts that fail after their commit. Each
condition names a way in which the code really loses the property:
`late_requeue` shows the first, and dropping the others in turn makes TLC find
a processor without a lock that puts PROCESSING over DECIDED, and a last attempt
that puts FAILED over it. An attempt can fail after its commit because the
acknowledgement is lost, because a retry cannot read, or because workers died
so often that BullMQ fails the job unread; the three disjuncts of
`ThrowsAfterCommit` are these. `StatusAdvances` is stated under the same three
conditions. `FailedIsExhausted` and `ReasonOnlyWhenFailed` hold while Redis
keeps the job; the second also needs the locks, since `MarkProcessing` does not
clear the reason. `JobsSettle` excludes the same race, and jobs that a
crash touched, for the reason shown by `stalled_twice` and because a crash may
take `markDecisionFailed` with it. What needs no condition is stated without
one: the decision row itself, the answers, the completions and the contract.

## Proofs

`DecisionLifecycleProofs` proves, for any sets of applications, requests,
workers and lanes and for any bounds, under `LifecycleAssumption` alone:
`TypeCorrect`, `DecidedIsDecided`, `DecisionsArePermanent`, `AnswersStayTrue`,
`CompletedMeansDecided`, `CompletedOnce`, `OneLanePerJob`,
`FailedMeansExhausted`, `ReasonsAreOfFailures` and `ImplementsContract`. The argument:

* The decision is written by `WriteDecision` only, under `Committable`, which
  requires that there is none; so it is permanent, and whatever has copied it
  into an answer stays right. Every other writer of DECIDED is that same
  transaction. The refinement follows: a commit is the contract's `Decide`, an
  answer with a body is its `Answer`, every other step stutters.
* For the completed job the invariant must speak of lanes: a lane that is about
  to record or to finish has seen a decision of its application, so the script
  that completes the job comes after it.
* For the completions, a lane about to record is the one that committed, no
  other lane is about to record for the same application, and nothing has been
  recorded for it yet.
* For `OneLanePerJob` a lane that is in a call holds the lock of its job as long
  as no lock of a live lane was lost; a lock has one holder, and a job is only
  taken when it is waiting, which it is not while a lane that lives holds it.
* For `FailedMeansExhausted` the invariant must cover the time between the
  `failed` event and the update it starts: a `markDecisionFailed` under way
  (`marking`) already has a failed job out of attempts behind it (`FailedInv`),
  and a failed job, having no lock, is moved by no lane.
* `ReasonsAreOfFailures` follows from the last two: every writer of the status
  writes the reason with it except `MarkProcessing`, and a lane about to mark
  holds the lock of an active job, whose application is thus not FAILED.

`DecisionStatusProofs` proves `DecidedIsSaid` (`DecisionMeansDecided`) and
`StatusOnlyAdvances` (`StatusAdvances`) from the same assumption. Its invariant,
`StatusInv`, adds three things to those above:

* `StartInv`: until the one request for an application is past its enqueue, the
  application is as it was created, so the handler's QUEUED changes nothing.
* `StallInv`: as long as no live lane loses its lock, only crashes stall a job,
  and each crash stalls it once; so a job is given up for stalls only after more
  crashes than `MaxStalledCount`, which is one disjunct of `ThrowsAfterCommit`.
* `OrderlyInv`: what each attempt may still do to the row it finds. A lane that
  is about to mark, to commit or to fail has no decision behind it, none is
  about to commit to a row that is not PROCESSING, and a `markDecisionFailed` is
  under way only for a failed job without a decision.

Each step is shown to leave an application alone (`Quiet`) or to be one of the
few that write it (`Loud`), and only the latter need the invariant.

`InlineDecisionProofs` proves `InlineTypeCorrect`, `InlineAnswersDecision`,
`TrailNeverLies`, `InlineMeetsContract`, `ShadowTakesTwo` and `StuckIsKnown` for any number of applications and
requests. The invariant says that a handler about to respond has seen a stored
decision, and that no event carries an empty verdict: a commit needs an
application without a decision, for which there is thus no event yet. The last
two need to know who left a row as it is: behind every PROCESSING stands a
request that marked it and has not committed, and behind every overwritten
DECIDED a second one that had read the application before the decision.

`DecisionPollingProofs` proves `PollingTypes`, `ScreenIsOwn`, `FinalIsTrue` and
`OneIntervalWithReason` for any number of applications, any timeout and any
number of fetches under way. Three parts strengthen them: a call under way is
about an application that nobody polls yet (`SubmissionInv`), what is on screen
is of the application submitted (`ScreenInv`), and an answer under way is about
an application that is on screen or was left, and, when final, is still true
when it arrives (`FetchInv`), since the API's status leaves no final one.

`LoanIntakeProofs` proves `FormNeverRefused` and `EveryFieldReported` for every
form in `RawForms` and any limits that satisfy `LimitsAssumption`. The heart of
the first is that a parse of what was parsed finds the same value, and that a
rounding to paise cannot leave limits that are whole rupees. `ClientNeverRefused`
and `ReportsEachField`, which TLC evaluates on the forms of `MCCreditEngine`,
follow for any applicants, amounts and limits (`ClientIsNeverRefused`,
`WrongFieldsAreReported` in `CreditEngineProofs`): what an applicant types, with
two slips or none, is one of the `RawForms`.

`ApprovableAmountProofs` proves that the search stays in range and keeps its
bracket (`SearchTypeCorrect`, `BracketKept`) for any engine whatever, and that
its answer is approved and maximal (`OfferIsApproved`, `OfferIsMaximal`) for
every engine that is `Monotone`. The invariant needs one strengthening: before
the loop begins the bracket is the whole range. `BracketHalves` is an action
property of the loop, again for any engine: a turn that goes on moves one end of
the bracket only, and leaves less of it and at most half, rounded up. It is the
variant that ends the loop; that it does end is `SearchEnds`, which TLC checks.

`CreditEngineProofs` takes the grid away: for every applicant in `People`, with
any revenue and any term of up to 84 months, and any amounts, it proves
`ScoreIsMonotone` and `ApprovalsAreAffordable`. A better input meets every
comparison the worse one meets (products of naturals are monotone), a comparison
met puts a factor into the same band or a better one, and the three other
factors depend on neither amount nor revenue. `EngineIsMonotone` is then the
assumption of the search, so `EngineOffersAreBest` has none left about the
engine: what is offered after a decline would be approved, and nothing above it
by more than the tolerance and a rounding step would. `OffersCanBeAskedFor` adds
that the form and the API accept that amount when it is asked for, if the least
amount of the search and the largest loan are within the limits of a request.
The other theorems, on the same applicants and amounts:

* `InstalmentDefined`: the recursion that defines the table of instalments has a
  solution, and its values are naturals; everything above uses only that. The
  induction, which the library states with an operator as a parameter, is made
  here on a set of naturals from the least number not in it (`Induction`): for
  each n there is a table of the first n powers, two such tables agree, so
  together they are the function, which grows by 1500 a month at least.
* `NoTies`, `ReasonsRead`: the reasons of one evaluation stand at different
  places of one scale (`Standing`, the rank of the severity and then the size of
  the impact), and the comparator is the order of that scale. So they are finitely
  many, as many come before each as its place says, and what is read holds every
  reason given, once, in that order. `Ranking` and `SortedByImpact` are the lemmas for any
  finite set with a key that tells its members apart.
* `HeadlinesAreRead` (`HeadlineReasons`): a scored verdict is read as LOW_REVENUE
  (-100) if the revenue is below 50 000, then the summary if it is a decline, and
  nothing critical after that (`CriticalReasons`: those two stand at -100 and 0, every
  other reason above 0); a hard rule speaks alone, at the floor, without points.
* `ScreenMatchesEngine` (`ScreenAgrees`): the warning of the preview is the
  comparison with which the engine gives HIGH_EMI_BURDEN or refuses an
  instalment above the revenue, and every score is on the gauge.

An applicant of `People` has a positive revenue, as the schemas demand.
`PeopleAssumption` (the applicants of a configuration are such) and
`LoanAssumption` (they ask for no less than the smallest loan the API accepts)
are evaluated by TLC with the configuration.

`BusinessProfilesProofs` proves `ProfilesAreUnique`, `ApplicationsBelong`,
`FiguresAreCurrent` (`OnePerPan`, `FiledForBorrower`, `NothingLeftOver`) and
`ProfileTypes` (`TypeOK`) for any number of submissions, PUTs and PANs;
`ProfilesAssumption` is all they assume, and for the last `CallersAssumption`,
that there are finitely many callers. On top of a typing of rows and callers
(`Inv`), the
strengthening has three parts. `FreshInv`: a
submission that has not written has no row, so an insert never replaces one.
`BorrowerInv`: until a PUT of another client is answered, a profile that a
submission addresses carries its PAN, because a PAN moves only by a PUT. `WrittenInv`:
a submission past its write is in the history of the profile it addresses; as
histories only grow (`FormsGrow`), what is read last was written no earlier.
`TypeOK` also says that no history is longer than there are callers. That rests
on `OnceInv`: a caller that has yet to write is in no history, no caller goes
back to a step before its write (`UnwrittenStep`), so a form is in a history once.

Every safety property of a run that passes is stated by a theorem. Only
model-checked are the liveness properties: `JobsSettle`, `JobsDecide`, `SearchEnds` and
`PollingEnds`; temporal reasoning under fairness is outside the prover's reach.

## Findings

1. `queue.ts:65` with `decision.service.ts:97`: a failed application that is
   requested again stays QUEUED (`requeue_failed`).
2. `decision.service.ts:99`: a late QUEUED overwrites DECIDED (`late_requeue`).
3. `worker.ts:54`: a job given up for stalls is not reported (`stalled_twice`).
4. `engine/index.ts:74`: an approval without a reason, which then cannot be
   stored (`no_reasons`).
5. `hooks/useDecisionPolling.ts:75`: a late answer of an older poll undoes a
   settled screen (`spinner`).
6. `lib/api.ts:165`: a resubmission changes the revenue an earlier application
   is scored on (`other_revenue`).
7. `engine/index.ts:88`: the summary of a decline is put first and then sorted
   behind LOW_REVENUE, whose impact is larger. Line 72 says "On a decline, lead
   with a summary code", and `tests/engine.spec.ts:417` is named "puts
   SCORE_BELOW_THRESHOLD first on a scorecard decline"; its one input has a revenue of
   100 000. With 25 000, 1.25 lakh over 24 months, SERVICES, the score is 570 and
   LOW_REVENUE leads. No run expects a violation here: `HeadlineReasons` in
   `credit_engine` states which of the two leads, and when.

Also seen while modelling, without a run of their own:

* In inline mode the handler that loses the race to insert has put PROCESSING
  over DECIDED and answers with an error; nothing repairs the status. Dropping
  the race from `ShadowedByRace` shows it. `config/env.ts:78` says that all modes
  "keep the same public contract".
* The 409 of an insert refused by the index (`InsertRefused`) carries no
  `businessId`, which the repository's `README.md:390` promises; the submission fails.
* LOW_REVENUE is CRITICAL, and `revenueScaleFactor` gives it to a revenue
  between 25 000 and 50 000, which may be approved, with LOW_REVENUE read first;
  `packages/shared/src/types.ts:14` calls it enough to decline.
* After a lost lock or an evicted job, `failureReason` accompanies PROCESSING,
  although `packages/shared/src/types.ts:122` says "Present only when status is
  FAILED": `processDecision` sets the status without clearing the reason.
* A malformed PAN gets two messages where the repository's `README.md:544` says
  one for each field; the screen shows the first.
* For an amount with more than two decimals the preview is computed on what was
  typed and the engine scores what was stored, a difference of less than a paisa.
* An entry of the CORS allow-list with its default port spelled out passes the
  check at boot and matches no browser's `Origin`.
* A second SIGTERM runs the shutdown again and closes the connections under the
  requests the first one waits for.

## Not modelled, and the plan

Not modelled: health probes and the parsing of the environment, which keep no
state and end before anything else begins (what is left of the latter is how
origins are spelled); routing, CORS, rate limits, request ids and the envelope
of an answer; layout and wording on screen; the audit events other than the two
of a decision; the connection pools and migrations; the reads by id, which no
property is about; the order in which a shutdown closes its connections, which
the model takes as a crash of whatever is still running: a request cut off by
it is `RequestLost`, a job `Crash`. Five hazards in `PROJECT.json` have no property. The code
promises nothing about three: the order of reasons without `ORDER BY`, a command that
waits for a Redis that is down, and a lost answer to a creation. The other two, a
second signal during a shutdown and the spelling of an allowed origin, are in parts left out here.

The plan, most important first:

1. `DecisionContract`, `DecisionLifecycle`, its runs and its proofs (done).
2. `CreditEngine`, `ApprovableAmount`, their runs and proofs (done).
3. `DecisionPolling`, its runs and its proofs (done).
4. `BusinessProfiles`, its runs and its proofs (done).
5. `InlineDecision`, its run and its proofs (done).
6. `LoanIntake`, its properties in `credit_engine` and its proofs (done).
7. Proofs of `StatusAdvances` and `DecisionMeansDecided`, and of the
   monotonicity of the engine, which discharges the assumption of
   `OfferIsApproved` and `OfferIsMaximal` (done).
8. Proofs of what TLC alone checked: the reasons that are read first and their order,
   the screen, the forms of the applicants, the types of `BusinessProfiles`; and
   of what was assumed of the instalment table (done).
9. Left: a refinement of `InlineDecision` or `DecisionLifecycle` to the status
   machine of `ApplicationStatus` under the conditions of `StatusAdvances`; the
   leads-to chains of `JobsSettle` and `PollingEnds` as action properties that can be
   proved without fairness, such as a measure that every step of theirs lowers.
