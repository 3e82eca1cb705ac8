# Mi Propósito 2.0, modelled in TLA+

The backend is a set of Go microservices behind an HTTP gateway. Each service
owns a SQL Server database (or a Redis) and serves gRPC. A request runs one SQL
statement after another, mostly outside a transaction, on any of several
replicas, so almost everything that is hard about this code happens *between*
two statements of a handler. That is the grain of these models: one action per
statement, any request between any two, any statement may fail.

Contents: 1 the system, 2 the models, 3 how a module corresponds to the code,
4 the runs, 5 bounds, 6 fairness and deadlock, 7 what is proved, 8 disagreements
between code and docs, 9 what is not modelled, 10 the plan.

## 1. The system

| Component | State it keeps | Operations | Talks to | Hard because of |
|---|---|---|---|---|
| gateway (`gateway/`) | none; a counter per IP and minute in Redis | ~150 HTTP routes, JWT check, rate limit, password guard, assistant | every service, an LLM | sequences of calls of which one fails; Incr and Expire are two commands, and a request is served when Redis does not answer |
| keys_service (`keys_service/`) | `[key]`, `key_usage` | Generate, Update, Deactivate, Resync, Validate, IncrementUsage | hubspot_service, best effort | seats counted in one table and admitted in another; one active LAN key; whole-row updates |
| exams_service: attempts | `exam_attempt`, `attempt_answer` | StartAttempt, Answer, FinishAttempt | keys_service | the seat is in another database; READ COMMITTED; grading beside answers |
| exams_service: catalogue | `exam`, `exam_question`, `question`, `question_option` | Create, Update, Publish, Deactivate, Reactivate, Clone, Add, Remove, Reorder | - | published exams are immutable, by a check made earlier; versions |
| users_service: sessions | `refresh_token`, `users.active` | Login, Refresh, Logout, Deactivate, Reactivate | - | rotation by two statements |
| users_service: student access | `users`, `user_permission_group`, `otp_token` | RegisterStudentWithKey, RequestStudentOTP, VerifyStudentOTP | mail, hubspot_service | one code at a time, single use, three attempts, expiry |
| users_service: accounts | `users`, a Redis cache of 15 minutes | Create, Update, ChangePassword, ResetPassword, Get | hubspot_service | cache-aside against writers |
| users_service: permissions | groups and their members; caches of 30 s elsewhere | Assign, Revoke, Create/Delete group | every service asks | revocation against cached lists |
| users_service: assignments, schools, leads, visits | `assignment` (valid_from, valid_to), `school`, `lead`, `visita` | Reassign, AddSource, RevokeSource, CRUD | - | one current row per target, without an index that says so |
| hubspot_service: requests engine | a channel, goroutines, a GCRA per token in Redis | Do, Close | HubSpot | contexts that expire, shutdown, retries, a rate shared by replicas |
| hubspot_service: sync and jobs | the asynq queues in Redis | upserts, SendOTP, jobs with five retries | HubSpot | search-then-create, job ids, results out of order |
| satisfaction_service | `survey`, `survey_key`, `survey_question`, `survey_response` | Create, Update, Publish, Clone, Submit | - | publish against edits, double submission |
| analytics_service | a Redis cache | dashboards, Excel | users, exams, keys | reads only |
| migrator (copied in four services) | `__schema_migrations` | Run | - | replicas that start together |

Interactions: gateway → users (register, OTP, login), gateway → keys (validate) →
users (register with that key), gateway → exams (start) → keys (Validate,
IncrementUsage), keys/users/gateway → hubspot (best effort, in goroutines),
hubspot server → asynq → hubspot worker → the requests engine → HubSpot.

What makes each part correct:

- *keys*: seats cover the students admitted; a retry of an admitted student is
  admitted; a window is never stored inverted; at most one LAN campaign is active.
- *attempts*: an attempt under a key has a seat, a seat buys an attempt; an
  acknowledged answer is graded; a grade is final; late answers are refused.
- *catalogue*: a published exam has questions and does not change; versions grow.
- *sessions*: a rotated token is dead, a revocation is final, an inactive user
  gets nothing.
- *access*: codes only for registered students of the school, older codes spent
  before newer ones are sent, attempts counted, spent codes refused.
- *engine*: tasks are neither lost nor doubled, answers are true, everyone
  waiting is served, Close returns, the rate of a token is bounded.
- *contacts*: a mail is built from the code of its request, or of one in flight
  beside it, never from an older one; losing the race to create a contact is no
  failure. *jobs*: an accepted job is applied, dropped or archived; older data of
  one id does not follow newer data of it.
- *surveys*: what is served asks something, a response sent again is refused,
  metrics hold all answers of the responses they count.
- *accounts*: a cached account is behind its row only in the ways the code
  allows; a reset password holds. *permissions*: a membership that was
  acknowledged stays, a revocation holds from the next request on.
  *assignments*: the last word counts, and a failure half-way loses nobody.
- *gateway*: in any minute in which Redis loses no counter, at most twice the
  limit and the requests that Redis did not answer. *migrator*: every migration
  takes effect once, in order, and as it is recorded.

## 2. The models

| Module | Models | Composes / refines |
|---|---|---|
| `KeyService` | keys_service, every command that writes, statement by statement, and the HubSpot goroutine | implements `SeatLedger` |
| `SeatLedger` | abstract: limits, seats taken below the limit in force, students admitted while seats cover them | - |
| `AttemptService` | exams_service: attempts, with what it sees of keys_service | implements `SeatLedger` |
| `ExamCatalog` | exams_service: exams, their questions, clones | - |
| `RefreshTokens` | users_service: Login, Refresh, Logout and activation | - |
| `StudentAccess` | users_service: registration, codes, verification | - |
| `KeyPool` | the rate limiter of hubspot_service | - |
| `RateWindow` | what `KeyPool` grants in a second | extends `KeyPool` |
| `RequestsEngine` | Do, workers, retries, Close | extends `KeyPool`, implements `RequestBook` |
| `RequestBook` | abstract: calls taken on, tried a bounded number of times, one true verdict, none after Close | - |
| `HubspotSync` | the calls on HubSpot's contacts and keys that a caller waits for | - |
| `SyncJobs` | asynq's tasks, their retries and archive | extends `HubspotSync`, over the same contacts |
| `SurveyService` | satisfaction_service: surveys, questions, keys, responses, metrics | - |
| `OfficeCalls` | what the three next ones share: the calls that are served | - |
| `UserAccounts` | users_service: an account and its cache entry | extends `OfficeCalls` |
| `PermissionGroups` | users_service: groups, grants, members, the check of a request | extends `OfficeCalls` |
| `Assignments` | users_service: advisers and coordinators of schools | extends `OfficeCalls`, implements `Roster` |
| `Roster` | abstract: the assignments in force, which a request changes at one moment, wholly or not at all | - |
| `BackOffice` | one of the three at a time | extends all three |
| `GatewayRateLimit` | gateway: the counter of an address in Redis | - |
| `Migrator` | the migrator of the services, in several replicas | - |
| `Scoring` | exams_service: the grade of a sheet, and the question bank | - |
| `SmallParts` | one of `ExamCatalog`, `Scoring`, `RateWindow`, `GatewayRateLimit`, `Migrator` at a time | extends all five |
| `KeyServiceProofs`, `AttemptServiceProofs`, `StudentAccessProofs`, `RefreshTokensProofs`, `SurveyServiceProofs` | the proofs about the module each is named after | extends that module |
| `HubspotProofs` | the proofs about `RequestsEngine`, `HubspotSync` and `SyncJobs` | extends all three |
| `BackOfficeProofs` | the proofs about `UserAccounts`, `PermissionGroups`, `Assignments` and the three together | extends `BackOffice` |
| `SmallPartsProofs` | the proofs about the five parts of `SmallParts`, and the five together | extends `SmallParts` |
| `MC...` | the small instances for TLC | - |

`BackOffice` and `SmallParts` put side by side components that share no state. A
variable `part`, chosen at first, says which of them runs, so that a run explores
the sum of their states and not the product.

## 3. How a module corresponds to the code

Conventions of all modules:

- A *request* is an element of a constant set (`Reqs`, `Calls`, `Starts`,
  `Refreshes`, ...) with a record of its local variables: `pc` is the statement
  it runs next, the other fields are what the handler holds. It is made once; a
  client's retry is another element. The rows a request inserts are named by it.
- One *action* is one SQL statement (SQL Server runs it atomically), one call to
  another service, or one operation of a Go channel, with the Go code up to the
  next one. Early returns are `result`s.
- A statement may fail, or the pod die, at any point: the `...Fails` actions.
  What was written stays; compensation happens only where the code does it.
- An optional value is a set of at most one element.
- A field that is *history* (`before`, `missed`, `passed`, `seen`, `stale`, ...)
  is read by properties and never by a guard. `before` is the set of calls that
  had ended when a call came in: two calls of which neither is in the `before` of
  the other overlapped.
- `Variant:` definitions are deliberately wrong forms of the definition after
  them. No specification uses them; replacing the right one with it makes the
  named property fail, which shows that the property depends on that code.

**KeyService.** `key` is table `[key]`, `usage` table `key_usage`, a row for each
call that stored one (nothing makes them unique per key and student), `adm` the requests Generate/Update/Deactivate/Resync, `call` the
IncrementUsage requests, `crm` what HubSpot was last told. `Increment` is the
`UPDATE ... WHERE active, window, cap, NOT EXISTS` of `IncrementUses`; `rows`
is its RowsAffected, which decides between saving `key_usage` and asking
`ExistsByKeyUser`. `GenerateNumber` is `NextLanNumber`; `DeactivateOtherLans`
is its own statement, after the row was written. `UpdateWrite` writes the whole
row that `UpdateRead` read, as the code does.

**AttemptService.** `attempt` is `exam_attempt` with its filtered unique index
(one active attempt per student and exam); `answer` is `attempt_answer`.
StartAttempt validates the key, counts submitted attempts, reads the exam,
counts participants, calls IncrementUsage, inserts. keys_service appears as
`taken`, `holders` and `usable`, and IncrementUsage as its two statements that
write: `StartConsume` takes the seat (where ExistsByKeyUser follows, nothing
changed in between that it does not see, so it is the same step), `StartUsage`
stores the row of `key_usage`. Two calls of one student may thus take two seats,
or the second be refused, as in `KeyService`; both modules implement `SeatLedger`,
which is what the two services agree on. `ReplaceAnswer` is a
transaction under READ COMMITTED: its DELETE waits for rows another open
transaction deleted or inserted, and locks nothing where there are no rows.
`grade` stands for the score: the answers the score was computed from. `there`
and `spent` are history: the attempts a start found when it came in, and those
of them that were submitted.

**ExamCatalog.** `exam` and `link` are the tables; `racing` and the fields
`before` and `overtook` are history. Add and Remove check that the exam is a
draft in one statement and write in a later one; `Update` writes back the row.
Clone reads the maximum version of the family, looks for a free code (or draws
a suffix), saves, and copies the questions, as four statements.

**Scoring.** `kind` and `option` are the columns of `question` and
`question_option` that grading reads, `grader` the Finish requests, `editor` the
requests on the bank, which no published exam freezes. `ReadKind` and `ReadKey`
are the two statements the loop runs for a question; a question passed over or
without a mark needs the first only. The score is kept as the grade of each
question, of which points are a figure. `kinds` and `keys` are history: what each
question was since the Finish came in. `marks` is what AttemptService calls
`grade`: the answers that were read.

**RefreshTokens.** `token` is the table, a jti is named by the request that
minted it. `Revoked` is the UPDATE with `revoked_at IS NULL`. Refresh reads the
row, reads the user, stores the new token and revokes the old one; an inactive
user has its whole family revoked, an error of which is ignored.

**StudentAccess.** `school`, `active` and `student` are `users` and the group,
`otp` the codes. A send invalidates, stores, mails, and consumes the code if the
mail failed. Verify finds the newest live code, compares, and counts or consumes
by a statement of its own. The key itself was validated by the gateway.

**KeyPool, RateWindow, RequestsEngine.** `tasks` is the buffered channel,
`closed` whether Close closed it, `worker` the goroutines, `respC` the buffer of
one answer in each task. `EnqueueClosed` is the panic of a send on the closed
channel, which a handler left running by the forced stop of `main.go` meets, and
which the recovery interceptor turns into an error. `Retry` is the end of an
attempt. Time is in ticks of 1/RPS seconds; `backlog` is how far the GCRA's
theoretical arrival time lies ahead.

**HubspotSync.** `contact` is HubSpot's object of an e-mail (or of a key's code)
and what its search sees of it, which lags until `Index`; its `code` is the request
whose `otp_estudiante` it holds, which every upsert of a SendOTP replaces
(`Merged`). `linked` are the associations with a company or an adviser, `recorded`
the users whose `hubspot_record_id` came back. A request of `Syncs` goes through
`search`, `update` or `create`, and on a conflict (409, or 400) through `rewrite`,
when the error names the object, or `research`, when it does not. Only the upsert
by e-mail recovers; the others answer the error. A call may fail without a trace
(`SyncFails`); a write may be executed and its answer lost, after which the engine
sends it again or the call fails (`SyncUnanswered`); and a caller may give up a
write that the engine still holds (`SyncGivesUp`, `late`) and comes to later, more
than once, or never (`SyncLate`). `beside` is history: the pairs of SendOTP of one
e-mail that were in flight at once, where a request that left a write in the engine
still is. At the webhook, the last call, the contact holds the code of the request,
or of one it was in flight with: `MailedIsStored` names that exception, and
`MailedIsOwn` of section 8 is the promise without it.

**SyncJobs.** `post` is a call of Enqueue, `task` what asynq has under it, `held`
whose data the object has. asynq refuses an id while a task with it exists, also
an archived one (`IdFree`). The id is that of the attempt, the school or the
adviser, but the worker finds the object by an e-mail (`workers.go:71`), which
nothing makes unique among schools: `ObjectOf` may give two ids one object.
`SchoolsGoForward` is therefore about the data of one id. A task fails `MaxRetry`
times before it is archived; `RunTask` is the Retry of the administrator,
`GiveBack` the worker's shutdown. A handler whose context ends leaves its request
in the engine: `stray`, sent later or never (`Deliver`). `RequestsEngine` shows why
it may still be sent.

**SurveyService.** `survey` is the table, `keyed` `survey_key` (unique per key),
`owner`, `live` and `required` `survey_question`. The responses are the calls of
`submit` that ended well, with their answers. Publish lists questions, looks for
keys and sets `published` in three statements; Update writes the row back as it
was read; Clone saves, then copies one question at a time; GetMetrics counts,
reads answers, reads questions.

**UserAccounts.** One row of `users`, of which a column's value *is* the call
that wrote it: two values are equal only when one call wrote both, which is all
a lost update, a stale cache or an undone password needs. `entry` is the Redis
entry. Get reads the cache, then the row, then sets; a writer writes, then
deletes. `missed` and `passed` record which writes an entry does not have.

**PermissionGroups.** `group`, `grants` and `joined` are the three tables with
their cascades; a request of the permission middleware reads the user and then
the codes. DeleteGroup counts members in one statement and deletes in another.

**Assignments.** `rows` is the table `assignment`, a row named by the call that
inserts it; `holds` are the row locks of an open transaction. `Close` waits for
the locked rows it comes across, readers see what is committed. `Roll` is the
table as they see it, which `Roster` is about: the rows a transaction closed are
there until its COMMIT, the one it inserted is not.

**GatewayRateLimit.** `count` is the counter of the minute of the clock, `left`
its time to live (none when EXPIRE never ran), `phase` how much of the minute is
over. `Hit` is a request that Redis counts. `HitUnchecked` is one that it does not
answer, or not within 100 ms: the code serves it (`ratelimit.go:43-47`), and Redis
may have counted it. `CountedTwice` is the retry of the client of Redis, which counts
one request as two. `Forget` is Redis starting again from what it saved, or evicting
the key (the chart runs it with `--save 60 1000 --appendonly no` and `allkeys-lru`).
`spell` is any minute an observer opens, in which Redis loses nothing, with what
was served in it and how much of that unchecked. Two assumptions: the pods' clocks
agree, and a request is of the minute in which it named its key.

**Migrator.** `image` is the files each replica carries, `recorded` the rows of
`__schema_migrations`, `effects` the scripts that took effect. A transaction's
script and row are its own until `MigrationCommit`; `Record` waits for another
transaction's row with the same primary key, and fails if that one committed.

## 4. The runs

| Run | Module, cfg | Question | Answer |
|---|---|---|---|
| `key_usage` | MCKeyService, KeyUsage | Do seats, usage rows and answers agree when calls overlap, fail and are retried while the key is edited? (`SeatsSpec`, `RetriesAdmitted`, `SeatSettles`) | yes; the service implements `SeatLedger`; every counted seat ends in a row or a reported failure |
| `key_admin` | MCKeyService, KeyAdmin | When can two LAN keys be active? (`LanExclusive`) | only in the named circumstances |
| `key_double_seat` | MCKeyService, KeyDoubleSeat | May a student take two seats? (`OneSeatPerStudent`) | yes: disagreement |
| `attempt_starts` | MCAttemptService, AttemptStarts | Do attempts and seats account for each other, and do the limits bind who comes in after they were reached? (`AttemptsHoldSeats`, `SeatsBuyAttempts`, `SeatsLedger`, `LimitsBind`) | yes; the starts keep to `SeatLedger`; they do, unless the attempt that was open hid the count and was submitted meanwhile |
| `attempt_answers` | MCAttemptService, AttemptAnswers | Are acknowledged answers graded, grades final, late answers refused, and does nobody wait for ever? (`GradeKeepsAnswers`, `GradeFinal`, `LateAnswersRefused`, `AnswersSettle`) | yes |
| `token_rotation` | MCRefreshTokens, TokenRotation | Are rotated, logged out, expired tokens and inactive users refused, for good? (`RotatedIsDead`, `RevocationFinal`, `InactiveGetsNothing`) | yes |
| `access_codes` | MCStudentAccess, AccessCodes | What happens to older and to spent codes? (`OlderCodesSpent`, `SpentCodeRefused`) | spent before a newer one goes out; refused |
| `engine` | RequestsEngine | Are tasks lost or doubled; are answers true; does everyone waiting, and Close, end? (`InOnePlace`, `BookSpec`, `AcceptedIsServed`, `CloseReturns`) | neither; the engine implements `RequestBook`; they end |
| `small_parts` | MCSmallParts, SmallParts | Catalogue: is what is published frozen and not empty, do versions grow (`PublishedIsFrozen`, `PublishedHasQuestions`, `VersionsGrow`)? Scoring: is each question graded by what it was (`GradedAsItWas`)? Limits: how much gets through (`RateBounded`, `MinuteBounded`)? Migrator: once, in order, as recorded (`MigratedOnce`)? | yes, but for requests that overlapped the Publish; yes, by a kind and a key it had while the Finish ran; 2·RPS − 1 a second, twice the limit a minute and what Redis did not answer for; yes |
| `hubspot_jobs` | MCSyncJobs, SyncJobs | Whose code may a mail carry? Are lost races recovered from, jobs settled, is the data of an id never set back? (`MailedIsStored`, `EmailUpsertRecovers`, `JobsSettle`, `SchoolsGoForward`) | its own, or that of a SendOTP in flight beside it; yes; yes; only by a request that a handler abandoned in the engine |
| `surveys` | MCSurveyService, Surveys | Does a published survey ask something, is a response refused the second time, are metrics complete? (`PublishedAsks`, `ResubmissionsRefused`, `MetricsComplete`) | yes, but for the overlaps the properties name |
| `back_office` | MCBackOffice, BackOffice | What may the cache miss; do a reset password, a membership, a revocation, the last assignment hold; does an assignment happen wholly or not at all? (`StaleExplained`, `ResetHolds`, `MembersSurvive`, `RevokedIsDenied`, `RosterSpec`) | only what overlapping writers and failed Deletes explain; they hold; the assignments implement `Roster` |

`key_double_seat` checks one sentence of a comment and ends in a
counterexample; section 8 has the others. Several properties name the
circumstances in which the plain promise fails (`LanExclusive`, `PublishedAsks`,
`StaleExplained`, `SchoolsGoForward`, ...): they say that nothing else breaks it.

Invariants that hold, and that no run repeats, because they are proved (the type
invariants of the proved modules, `CodesForStudents`, `SpentByAttempts`, `PublishedIsLive`,
and `SeatsCoverStudents`, `OutcomeTrue`, `AdviserNotLost` and `CurrentIsLatest`, which the refinements
of `SeatLedger`, `RequestBook` and `Roster` say more than)
or close to the code (the other type invariants, `WindowsOrdered`,
`ReuseRefused`), can be added to the cfg of their module.

## 5. Bounds, and why they are enough

- *Requests.* The hazards are races of two requests, so each run has two
  requests of every racing kind, and three where a third may repair or hide what
  two did (two LAN keys and a deactivation; two clones and a publish; two starts
  of which one finished). AccessCodes has five requests of which at most
  `MaxRequests` = 3 come in, any three. In Surveys and BackOffice each of three
  calls may be any operation, and `MaxInFlight` = 2 run at one time: two race,
  and one comes before, between or after.
- *Data.* Two students, one or two keys of one or two seats or without limit.
  Starts: an exam for two participants and a key of one seat and one attempt for
  each student, so that three starts and two Finish reach every limit and one
  more. Sheets: two questions (one of options, one of free text), two options
  (one or both). Codes: two schools. Surveys: a survey and its clone, two
  questions (one of them for the clone), a key. BackOffice: a member, two groups
  and a permission; a school, an owner, two people and an earlier row. More
  values of a kind only repeat what two that differ can do.
- *SmallParts.* Three exams (a draft and room for two clones) and three
  requests; a Finish of one question of two options, and two requests that edit
  it, so that its kind and its key may change between any two statements (the
  questions of an exam are graded apart, and the theorem is about any number of
  them); two tokens of RPS 3; three a minute with `Minute` = 2 and `Ttl` = 3
  ticks, the 60 and 90 seconds of the code, and `MaxUnchecked` = 2 requests of a
  spell that Redis does not answer (the theorem is about any number); two replicas, images of up to two
  files with either of two checksums.
- *Jobs.* One student with two attempts, two schools with one e-mail, of which one
  has its data sent twice, one request of every kind and two for one key; any `MaxRequests` = 2 of these,
  which is every pair. `MaxRetry` = 2 (the code has 5): a first failure, one more,
  and the archive. `MaxRestarts` and `MaxRuns` are 1.
- *Time.* `MaxTime` of 1 or 2 instants with lifetimes of 1: before, exactly at
  and after a deadline. Every run without deadlines has `MaxTime` = 0.
- *Attempts and retries.* `MaxAttempts` = 2 for codes (the code has 3) and
  `MaxRetries` = 1 for the engine (the code has 3): a first, and a last.
- *Engine.* A channel of one with two calls is full; two workers; RPS = 2 leaves
  room between full and empty. `MaxOthers` caps the slots other replicas take.
- *Symmetry* is used only in runs without liveness, over sets whose elements no
  definition tells apart.

## 6. Fairness and deadlock

`FairSpec` (KeyService, AttemptService) and `Spec` of RequestsEngine give weak
fairness to every *started* request or worker step: a statement that is not
blocked ends or fails, because the driver, gRPC and the HTTP client have
deadlines. The failure action is part of the fair step, so nothing is assumed to
succeed. No client has to call, retry, close or give up; contexts need not
expire. In the engine, time passes (WF of `Tick`), and other replicas take a
bounded number of slots: under endless traffic of others the limiter has no
queue and a worker might wait for ever, which the code does not prevent.

`JobsSpec` gives weak fairness to the steps of each task: asynq's worker
takes what is pending or due, and a handler ends or runs into its timeout, which
is a failed try. The administrator need not retry, HubSpot's index need not
catch up, and an abandoned request need not be sent. The other modules state no
liveness property and no fairness.

Every cfg says `CHECK_DEADLOCK FALSE`: requests are made once, and when all have
been answered the system of the model stops, as it should. That nobody is stuck
before is what the liveness properties say, where the code has something to
wait for (`AnswersSettle`, `AcceptedIsServed`, `CloseReturns`, `JobsSettle`).

## 7. What is proved

TLAPS proves these for every value of the constants, under the named
assumptions of the modules (finite `Calls`, typed drafts and edits, a `RPS` above
zero, a time to live of at least a minute, ...). Each proof rests on an inductive
invariant, kept by one lemma per action (or per group of actions that touch the
same things), because no property is inductive alone.

`KeyServiceProofs`:

- `TypeCorrect`: `Spec => []TypeOK`. The statements that write use the id a
  request holds, so `TypeInv` adds `Started`, that a request past its first
  statement holds an id.
- `SeatsCoverStudentsTheorem`: `Spec => []SeatsCoverStudents`. The invariant
  `SeatInv` says that `uses` of a key *is* the number of calls whose UPDATE
  counted there (`UsesCountCalls`), that every usage row belongs to such a call
  for the same student, that calls and drafts are about keys that are, or are
  not, stored. The students of a key then inject into its counted calls.
- `LanExclusiveTheorem`: `Spec => []LanExclusive`. `LanInv` adds that requests
  hold the mode of the row they name and write `active` as asked; the proof goes
  action by action, and finds for each pair of active LAN keys the request that
  accounts for it.
- `SeatsRefinement`: `Spec => SeatsSpec`: with `cap`, `uses` and the students of
  `usage` for the variables of `SeatLedger`, every step is a step of the ledger
  or a stutter.
- `RetriesTheorem`: `Spec => RetriesAdmitted`. The usage row a call found is never
  deleted and no answer is given before the last statement, so `Admitted`, once
  true of a call, stays: it is never refused, and its UPDATE never counts a seat.

`AttemptServiceProofs` (`AttemptsInvariant`; `AttemptsHoldSeatsTheorem`,
`SeatsBuyAttemptsTheorem`, `SeatsLedgerTheorem`, `GradeTheorem` for `GradeFinal`, `LimitsTheorem` for
`LimitsBind`). `AttemptInv` says
what a start holds at each statement (`Ready`: nothing is inserted for whom holds
no seat, a seat taken is not refused afterwards) and that a row is inserted by
its own start, last (`Rowed`). `CountInv` adds the figures: the students of a key,
and the starts that took a seat and are yet to store its row (`Storing`), are
together no more than the seats, and the seats no more than the starts that took
one or were served (`Spenders`). The second half is `SeatsBuyAttempts`; by the first,
a start that stores its row admits its student while the seats cover it, which is
the one step of `SeatsLedgerTheorem` that is not immediate (`SeatMoves` finds the
others). `LimitInv` adds that what a start saw when it came
in is still there, and still submitted (`Known`), and what its two counts have
established by then (`Limited`): the student was below the limit of the key, or
an attempt of the exam was open and kept the count from being made (`Excuse`),
which must be submitted by the time the start inserts, for the index admits one
that is open; and the participants seen were fewer than the limit. To compare the
figures of both, finitely many starts are assumed (`StartsAssumption`).

`StudentAccessProofs` (`AccessInvariant`; `OlderCodesTheorem`, `SpentCodeTheorem`,
`StudentsTheorem` for `CodesForStudents`, `AttemptsTheorem` for `SpentByAttempts`).
`AccessInv` says who is registered (`Registrations`), what a send has
established when it stores a code and what it has spent (`Sending`), and that a
verification that came in with a dead code does not hold it (`Verifying`). Two
lemmas carry it: a step that keeps what nothing undoes (`Kept`) keeps the
invariant of the calls that do not move.

`RefreshTokensProofs` (`TokensInvariant`; `RotatedTheorem`, `RevocationTheorem`,
`InactiveTheorem` for `InactiveGetsNothing`, `ReuseTheorem` for `ReuseRefused`).
A Save would undo a revocation if it met a row; `OfLogin` and `OfRefresh` say
that a request has no row before its own Save, and that what a client was handed
has one. The last two follow a request from the state the property names on: one
of a user who is inactive stays `Stopped`, one with a dead token `Refused`.

`HubspotProofs`, in three sections. The engine (`EngineInvariant`;
`InOnePlaceTheorem`, `OutcomeTrueTheorem`, `BookTheorem`): `Placed` says where the
task of each call can be and that a call that was not made left no trace; `AtWork`
that the attempts of a worker bound what was sent. `BookTheorem` is the refinement
`Spec => BookSpec`: the verdict of a call is what its worker is about to answer or
has put into the buffer of the task, the calls taken on are those with a task, and
the channel, the limiter, `Take`, `Answer` and `Exit` are stutters. It says that a
call is never tried again after its verdict. The upserts (`SyncInvariant`;
`MailedTheorem` for `MailedIsStored`, `RecoversTheorem` for `EmailUpsertRecovers`):
past its upsert a request has a contact that is there (`OfSync`), whose code is its
own or that of one it has met (`Stored`). `CodeInv` says besides that a request which
may still write and one of its e-mail that is not over have met, so that a code is
only ever replaced by that of a request in `beside`. The jobs (`JobsInvariant`; `SchoolsTheorem` for `SchoolsGoForward`):
while a task exists, no post of its id was accepted after it (`Latest`), for the
queue refuses the id, so that what a task writes is the newest of its id. Nothing
is assumed of which object an id stands for. Finitely many posts are
assumed, since the rank of a post counts those before it.

`SmallPartsProofs`, a section per part. For RateWindow (`TypeCorrect`,
`RateTheorem` for `RateBounded`), what the window counted of a token is at most its backlog
plus the age of the window, since a tick leaks at most one slot and ages the
window by one. The backlog is at most RPS, the age RPS − 1. For
GatewayRateLimit (`LimitInvariant`; `MinuteTheorem` for `MinuteBounded`), a
counter that was given a time to live outlives its minute (`Outlives`), so what
was served in a spell is at most the counter of its minute, or the limit plus
the counter of the next one, and in both cases the requests that were served
unchecked (`Straddles`). The theorem is about spells in which Redis loses no
counter, of any number of unchecked requests. For Migrator (`MigratorInvariant`;
`MigratedOnceTheorem`), what a replica read stays true, files it has passed are
recorded as they are in its image (`Passed`), two open transactions never have a
row of one version (`RowsApart`), and the scripts that took effect are those
recorded, in order (`InOrder`). For Scoring (`ScoringInvariant`; `GradedTheorem`
for `GradedAsItWas`), `OfGrader` says that the history of a request at work holds
what the bank is now, that a question yet to come has no grade, and that one
which is past has a grade some kind and some key of its history give
(`Justified`); edits only add to the history (`NotedInv`). `AllMarkedExact` is the
fact about the code's comparison of a multiple choice: to count the correct
options and to look for each among the marks is to compare the two sets, for
options are finitely many (`ChoicesAssumption`).

For ExamCatalog (`CatalogInvariant`; `PublishedExamsHaveQuestions`,
`PublishedExamsAreFrozen`, `CloneVersionsGrow`, `PublishedExamsAreLive`), none of
the four holds by itself at every statement, so `CatalogInv` says of each request
which operation it can be at (`OpAt`), that the exam it names and the family it
saw are still there (`Named`), that a version it drew is above that family
(`Drawn`), that it was in flight when an exam it may yet change was published
(`Raced`), and that questions Publish listed are gone only by a Remove that
overtook it (`Listed`). `Later` is what no step undoes: a stored exam keeps its
root and version, a published one stays so. It carries the parts of the requests
that do not move (`RequestStays`), so that each action has only its own to keep.

`SurveyServiceProofs` (`SurveyInvariant`; `PublishedAsksTheorem` for
`PublishedAsks`, `ResubmissionsTheorem` for `ResubmissionsRefused`,
`MetricsCompleteTheorem` for `MetricsComplete`). The last write of Publish and of
Remove may each be the one that leaves a published survey without questions, so
`SurveyInv` keeps the excuse at both: a Publish that listed questions which are
gone was overlapped by the Remove (`Lists`), a Remove that found a draft which is
published by the Publish (`Removes`). The call that ends last supplies it: the
other was not over when it came in, for `before` holds ended calls only. `Checked`
says that a response at its transaction is blocked by none that was over before,
`AnswersLive` is the foreign key, and `Counted` follows the responses counted first
through the two reads after. Most steps take nothing from the tables (`Tables`)
and one lemma (`StepInv`) serves them; `Delete` and `SetPublished` have their own.

`BackOfficeProofs`, in three sections:

- Accounts (`AccountsInvariant`; `StaleTheorem` for `StaleExplained`,
  `ResetTheorem` for `ResetHolds`). `OfAccount` says that a reader about to cache
  a row has missed writes only of calls that answer for the entry or are about to
  (`Answers`), so that what it caches is explained when it does; and that the
  password a ChangePassword compared with is the row's, or was replaced by a call
  that had not ended when it came in.
- Permissions (`PermissionsInvariant`; `MembersTheorem` for `MembersSurvive`,
  `RevokedTheorem` for `RevokedIsDenied`). `OfPermit` says that a deletion which
  is past its check has seen every earlier member of the group gone, and
  `RevokedOrBack` that a revoked membership is there only where a later
  assignment put it back. A check that finds a membership then has its witness.
- Assignments (`AssignmentsInvariant`; `LatestTheorem` for `CurrentIsLatest`,
  `AdviserTheorem` for `AdviserNotLost`, `RosterTheorem` for `RosterSpec`). `Holds`
  says what a transaction has locked, its own row and those it closed, which are
  all in its scope, and that no two lock one row. `Gone`
  is what no step undoes: a row that is neither current nor locked, whose own
  call ended. `OnItsWay` follows the rows a call has to close: first seen or
  gone, then locked or gone, and all gone when it is acknowledged. Readers see
  other rows after a Commit only, which is the one case of `AdviserNotLost` and of
  the refinement: `Commit` is `Perform` of `Roster`, by `Holds` (what it takes out)
  and `OnItsWay` (nothing that was settled before is left); `RollStays` serves the
  other statements, and a rollback is `Leave`. It assumes that the names of old
  rows are no calls (`AssignmentsAssumption`).

The theorems about parts of `SmallParts` and of `BackOffice` are about the part's
own specification (`Spec` of RateWindow, `LimitSpec`, `MigratorSpec`, `BankSpec`,
`CatalogSpec`, `AccountsSpec`, `PermissionsSpec`, `AssignmentsSpec`). `PartsTheorem`
and `OfficeTheorem` conclude the same of `PartsSpec` and `OfficeSpec`, the
specifications of the runs: a behaviour of the composition is, read in the variables
of a part, one of that part (`FiveParts`, `OfficeParts`).

Only model-checked: liveness (`SeatSettles`, `AnswersSettle`, `AcceptedIsServed`,
`CloseReturns`, `JobsSettle`), which needs ENABLED, out of the prover's reach. No module uses
RECURSIVE operators, and no statement needs induction over data.

## 8. Disagreements

The code does one thing and a doc, comment or test says another.
`OneSeatPerStudent` has a run (`key_double_seat`). Each of the others is a
definition in its module, refuted by TLC when added as an INVARIANT (or, where
marked P, a PROPERTY) to the cfg named, with the changes named.

- `OneSeatPerStudent` (KeyService; KeyDoubleSeat). The NOT EXISTS looks for a key_usage row that only a later statement inserts (key.go:354), so two concurrent requests of one student both affect the row and take two seats. keys_service/internal/adapters/outbound/mssql/key_repo.go:293 says: "El NOT EXISTS dentro del UPDATE evita race condition entre dos requests concurrentes del mismo usuario."
- `OneActiveLan` (KeyService; KeyAdmin). An Update without `active` writes back the active=1 it read before another LAN key deactivated it, and does not call DeactivateOtherLans: two LAN keys stay active. keys_service/internal/adapters/outbound/mssql/key_repo.go:157 says: "Garantiza la invariante "una sola LAN activa a la vez"."
- `NilLeavesAlone` (KeyService; KeyAdmin, without SYMMETRY; P). The UPDATE writes every editable column from a row read in an earlier statement, so a request without landing_config undoes what another request stored in between. keys_service/internal/adapters/inbound/grpc/key_handler.go:70 says: "nil=no tocar, *=setear contenido landing".
- `AttemptLimit` (AttemptService; AttemptStarts; ExamOf <- OneExam, KeyOf <- OneTryKey; or, on two exams, Exams = {e1, e2}, ExamOf <- TwoExams, KeyOf <- OneTryKey, Users = {u1}, Starts = {s1, s2}). StartAttempt counts submitted attempts only, and the INSERT that follows checks no more than one active attempt per exam, so two starts (on two exams of the key, or one that counted before another attempt was created and finished) exceed the limit. README.md:333 says exams_service "Aplica el límite de **intentos por estudiante** de la llave", README.md:359 "Los reintentos de un mismo alumno están gobernados por este campo".
- `ReusedSpendsNothing` (AttemptService; AttemptStarts). A start that loses the INSERT to a concurrent one has already called IncrementUsage and then answers Reused; with another key the seat it took there buys no attempt. exams_service/internal/adapters/inbound/grpc/attempt_handler.go:78 says "si el user ya tiene un attempt activo, Start devuelve Reused y NO consume plaza".
- `ExamLimit` (AttemptService; AttemptStarts; ExamOf <- LimitedExam, Keys = {}, KeyOf <- NoKeys). CountActiveByExam and the INSERT are two statements and nothing ties them, so concurrent starts without a key exceed MaxParticipants. exams_service/internal/core/command/attempt.go:18 says "Start verifica que ... aforo no esté lleno".
- `OneAnswerPerQuestion` (AttemptService; AttemptAnswers; Questions = {q1}, Inputs <- PlainInputs, OptionsOf <- PlainOptions). Under READ COMMITTED the DELETE of a question without rows locks nothing, so two concurrent first answers with different options both INSERT and the single-choice question keeps both; the score looks at the first. exams_service/internal/core/command/attempt.go:22 says "un attempt elige UNA opción por pregunta. Si ya había respuesta para esa pregunta, se sobreescribe".
- `FinishIdempotent` (AttemptService; AttemptAnswers). The second of two concurrent Finish calls passes the SubmittedAt check, its UPDATE affects no row and it answers ErrAttemptNotFound. exams_service/internal/core/command/attempt.go:241 says "idempotente: ya estaba finalizado".
- `AlwaysSubmits` (AttemptService; AttemptAnswers). ListAnswers scans question_option_id into a string, but the row of a free text answer has NULL there (attempt_repo.go:184), so the Scan fails and so does every Finish of the attempt. exams_service/internal/core/command/attempt.go:194 says "Finish NO se gatea: el alumno siempre puede enviar lo que ya tenga respondido".
- `VersionsUnique` (ExamCatalog; SmallParts). MaxVersionInFamily and Save are two statements with no unique index on the version: of two clones that read the same maximum, the one that looks for its code after the other was saved draws a random suffix and is saved with the same version. exams_service/internal/core/command/exam.go:250 says "cada clon (incluyendo clones del mismo src) obtiene una version unica monotona".
- `FlawlessIsMax` (Scoring; SmallParts). The maximum is the points of every question, of SCALE and OPEN_TEXT ones too, which are never scored: in an exam that has one, no sheet reaches it. exams_service/internal/core/command/attempt.go:267 says "maxScore = mejor caso (todas correctas)". It is not the best case either where a blank is worth more than a right answer, which nothing rules out.
- `UnnamedKindKept` (Scoring; SmallParts; P). Update writes back the kind it read in an earlier statement, over what another Update stored meanwhile. exams_service/internal/core/command/question.go:57 says "Kind vacio = no cambiar el actual".
- `FamilyRevoked` (RefreshTokens; TokenRotation). RevokeAllForUser revokes the tokens stored by then; a refresh or login that found the user active a moment before stores a live one afterwards, which works again after a Reactivate. users_service/internal/core/command/auth.go:188 says "si el user fue desactivado, revocar TODA su familia de refreshes".
- `OneActiveCode` (StudentAccess; AccessCodes). InvalidateAllForUser and Save are two statements: two requests that overlap both invalidate first and then both store, and the older code is still alive once the newer one is consumed. README.md:322 says "solo hay un OTP activo por usuario"; users_service/db/migrations/015_otp_token.sql:12 says "Solo se permite UN OTP activo por usuario simultáneamente".
- `SingleUse` (StudentAccess; AccessCodes). FindActiveByUser and Consume are two statements and the rows Consume affected are not looked at, so two verifications with one code both open a session. users_service/internal/core/domain/otp.go:5 says "un código de un solo uso".
- `AttemptsBounded` (StudentAccess; AccessCodes; MaxAttempts = 1). The code is read before the attempt is counted, so every verification in flight when the last attempt is counted is still compared. README.md:321 says "permite 3 intentos incorrectos antes de invalidarse".
- `SignupIdempotent` (StudentAccess; AccessCodes). When the user is stored and its group is not, every retry finds an e-mail that is no student and answers "exists" without a code. users_service/internal/core/command/auth.go:378 says "Idempotente para emails ya existentes que pertenezcan al mismo colegio".
- `AbandonedNotSent` (RequestsEngine; RequestsEngine; P). process sends with context.Background(), so a task whose caller gave up is still sent and retried. hubspot_service/internal/shared/requestsengine/engine.go:83 says "Si ctx expira mientras un worker procesa, el worker cancela el HTTP request".
- `RatePerKey` (RateWindow; SmallParts). PerSecond(RPS) has a burst of RPS besides the rate, so a token may send up to 2 * RPS - 1 requests in one second. hubspot_service/internal/shared/requestsengine/config.go:6 says "HubSpot acepta máx 10 rps POR API key".
- `SubmittedIsClosed` (AttemptService; AttemptAnswers; P). ReplaceAnswer does not look at submitted_at, which Answer read two statements before: an answer is stored, and acknowledged, after the attempt was graded. exams_service/internal/core/command/attempt.go:25 says "Una vez submitted_at != NULL, no se puede ni Answer ni Finish".
- `OneSuccessor` (RefreshTokens; TokenRotation). FindByJTI and Revoke are two statements and the rows Revoke affected are ignored, so two concurrent refreshes with one token both answer tokens, and the second successor is recorded nowhere. README.md:305 says "tokens nuevos (rotación: el viejo queda revocado)" and README.md:310 "rotado en cada uso".
- `NothingDropped` (SyncJobs; SyncJobs). handleSyncResult returns nil when the search finds no contact with the DNI, so the job ends well and the result is in neither HubSpot nor the archive. hubspot_service/internal/core/command/sync.go:23 says of results "se encolan con backoff exponencial (5 intentos, 1s/2s/4s/8s/16s) → DLQ".
- `ObjectsGoForward` (SyncJobs; SyncJobs, MaxRequests = 3; P). The results of two attempts of one student are two tasks, run in either order, and the contact keeps the one written last. Two schools with one e-mail are two tasks of one object likewise: the Colegio is upserted by its e-mail (workers.go:71), the id is the school's (enqueuer.go:80), and school.email is not unique (users_service/db/migrations/028_school_email_phone.sql). No sentence of the repository promises the contrary; it is what `SchoolsGoForward` does not say.
- `MailedIsOwn` (HubspotSync; SyncJobs). Between the upsert of a SendOTP and its webhook the upsert of another SendOTP of the e-mail, or a write that one left in the engine, replaces otp_estudiante, from which the mail is built by that comment: it carries the other's code (the webhook is given the code as well; what HubSpot's Automation makes of it is outside the repository). hubspot_service/internal/core/command/sync.go:58 says "Garantizamos que el contacto exista con otp_estudiante seteado", and hubspot_service/internal/core/command/sync.go:103 "El Workflow de Automation lee esa prop para armar el cuerpo del email".
- `ReactivatedIsDraft` (SurveyService; Surveys; P). Reactivate sets active alone and answers a draft that the row is not: a published survey that was paused is offered to students again at once. satisfaction_service/internal/core/command/survey.go:150 says "Reactivate vuelve un survey paused (active=false) a draft activo. NO republica".
- `OneResponsePerAttempt` (SurveyService; Surveys). The check and the INSERT are two statements with no unique index, so two submissions of one attempt that overlap are both stored. satisfaction_service/internal/core/command/response.go:26 says "post_test: unico por (user, survey, exam_attempt)".
- `OmittedIsKept` (UserAccounts; BackOffice; P). Update writes back the fields it was not given as it read them, over what another call wrote since. users_service/internal/core/command/user.go:127 says "Update aplica cambios parciales (campos vacíos no se tocan)".
- `DeletedWasEmpty` (PermissionGroups; BackOffice; P). The check is outside the transaction, and the foreign key cascades to the members that came since. users_service/internal/adapters/outbound/mssql/permission_repo.go:157 says "si el grupo tiene users asignados (user_permission_group) NO se borra".
- `OneAdviser` (Assignments; BackOffice). Two reassignments of an owner without an adviser that overlap close nothing of each other, and both rows are current. users_service/internal/adapters/outbound/mssql/assignment_repo.go:20 says "Reassign cierra la asignación vigente (si existe) e inserta una nueva".
- `SlidingBounded` (GatewayRateLimit; SmallParts). The counter is of the minute of the clock, so the requests on both sides of its turn are up to twice the limit within one minute, even when Redis answers all of them. gateway/internal/middleware/ratelimit.go:13 says "sliding window con INCR + EXPIRE".

## 9. What is not modelled, and why

- Analytics, queries, search, the gateway's handlers: they read, format and
  forward; a read is one statement or a sequence without an effect. The cache of
  analytics is never invalidated, only expires, and promises no more.
- The assistant: text of a language model over read-only calls.
- Mail, bcrypt, JWT signatures, protobuf, SQL text and helm: libraries or
  configuration. A mail is sent or fails; a signature is right.
- Transactions other than those named run as one action: the code has few.
- The points of a score, the figures of survey metrics and the validation of each
  type of answer: loops without state over what one request read. Order of
  questions and options: layout. Leads and visits: one
  statement each, that no check of another statement precedes.
- `math/rand` shared without a lock in `pool.go`: a data race whose outcomes,
  any token with room, are all in the model; a panic inside it is not.
- Generated code: some 32 000 lines of protobuf and gRPC stubs. Most of the rest
  of the implementation translates between HTTP, gRPC and rows.

Hazards known, without a property of their own: the SyncKey goroutines of two
requests on one key are not ordered, nor does anything repeat one that was lost
(`crm` in KeyService shows both); a new owner of a school leaves the adviser and
the coordinators with the old one (`UpdateSchool` in Assignments); an INCR whose
EXPIRE failed leaves a counter in Redis for good (`left` = 0 in
GatewayRateLimit); ListFailed asked for page zero; a school key named "LAN n" by
hand, which makes every later automatic name collide until it is renamed; the
result of an older attempt written over a newer one, and the data of a school
over that of another with its e-mail (`ObjectsGoForward`); the code of a SendOTP
replaced by that of another before its mail (`MailedIsOwn`).

## 10. What is left

- `Admission`: gateway, `StudentAccess`, `KeyService` and `AttemptService`
  composed, against an abstract "a student takes an exam once per seat". The
  three meet at IncrementUsage. `KeyService` and `AttemptService` implement one
  `SeatLedger` each, which is as far as they are joined; the product of their
  states is beyond a run of a few minutes.
