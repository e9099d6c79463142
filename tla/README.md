# Cherry badminton: a TLA+ model of the server

Cherry badminton is a NestJS server over Postgres (TypeORM), Redis and a Bull
queue. Players create badminton sessions, ask to join them, play matches for
small stakes and settle them; accounts are verified by one-time codes sent by
mail. This directory holds TLA+ modules translated from the source, the TLC
instances that check them, and theorems checked by TLAPS.

The repository has no tests. What is hard about it is not in any single
handler: **no handler opens a transaction over its queries**, every awaited
query is a point where any other request may run, and a query that fails or a
process that dies leaves what was written before. The models therefore make
every awaited query one action, and check what remains true between them.

1. [Inventory](#1-inventory)
2. [How the models are built](#2-how-the-models-are-built)
3. [Modules and their code](#3-modules-and-their-code)
4. [Runs](#4-runs)
5. [Bounds, fairness, deadlock](#5-bounds-fairness-deadlock)
6. [Proofs](#6-proofs)
7. [Where code and text disagree](#7-where-code-and-text-disagree)
8. [What is not modelled](#8-what-is-not-modelled)
9. [Plan](#9-plan)

Paths below are relative to `src/src/`; `BS` is `modules/badminton-session`.

## 1. Inventory

| component | code | state | operations | what makes it correct |
|---|---|---|---|---|
| Session membership | `BS/services/{badminton-session,member,request}.service.ts` | tables `badminton_sessions`, `members`, `requests` | insert / change / remove of each | an accepted request has a member; a guest is on the roster once; the roster is fixed after the start; a session is finished only when started and paid |
| Matches | `BS/services/match.service.ts`, `BS/validators` | `matches`, `teams`, `participants`, `members.winningAmount` | insert, change (edit, start, finish), remove | bets reach the members before a result shows; money is neither made nor lost; a finished match is final |
| One-time codes | `modules/auth/consumers`, `base/otp`, `base/mail`, `base/queue` | queue `send-mail`, key `global:sendMail:<email>`, the clock | add job, take, mail, crash | while a key suppresses mails, its code is accounted for and still works, but for as long as its SET came late; the queue drains |
| Accounts | `modules/auth`, `modules/user` | table `users`, key `auth:refreshToken:<email>` | register, verifyEmail, resetPassword, login, logout, refreshToken, changePassword, updateInfo | a revoked version never comes back; tokens only for verified accounts; an answered token is usable |
| Uploaded files | `app.service.ts`, `user.service.ts`, `badminton-session.service.ts` | directory `UPLOAD_PATH`, columns `avatar`, `coverImage`, the timer of the sweep | upload, replace, nightly sweep, start of a process | no referenced file is swept; every orphan is, by a process that has been restarted too |
| Lists and pagination | `base/api/services/list.service.ts`, `base/util/fetch.utils.ts`, the lists of six controllers | none | listWithPage: filter, sort, page, count | a client that pages through sees every row once, in order, and only rows of its scope |
| Generic writes | `base/api/services` | none | create, update, delete: no caller | - |
| Notifications, device tokens | `modules/notification`, `modules/user/services/fcm-token.service.ts` | `fcm-tokens`, `notification-details`, `notification-histories` | upsert and remove a token; send, read, read-all | after a logout no send finds a token; a message that a device gets leaves a history and its detail; unread until its receiver reads it |
| Responses | `base/api/exception`, `base/api/api.schemas.ts`, `base/middleware`, `base/api/services/generic.service.ts` | none | envelope of a result, exceptions, filters | a client is told of every failure: in the envelope, but for the rate limiter's 429, which is plain text |
| Scheduler | `base/schedule` | timers by name, in memory | add, change, delete | one timer per name, set again by every process |
| Sockets | `base/socket` | rooms, kept by socket.io | join, leave, forward | - |
| The rest of the HTTP plumbing, configuration, utilities, migrations | `main.ts`, `config`, `base/util`, `migrations` ... | none that handlers share | - | - |

**Interactions.** Controllers call one service method per request, after the
JWT guard has loaded the user (`modules/auth/guards/jwt.guard.ts`). Services
share tables: RequestService and BadmintonSessionService write `members`,
MatchService reads the roster and writes `members.winningAmount`, logout of
AuthService calls FcmTokenService, AppService reads `users` and
`badminton_sessions` to decide which files go. AuthService talks to the mail
consumer only through the queue and Redis.

**Hard behaviours.** Overlapping requests over the same rows; copies of rows
that are saved after an await; several saves that belong together and are not
one transaction; jobs that a crash gives out again; key expiry against code
expiry; a cleaning job that runs against uploads. `PROJECT.json` lists each at
its line under `hazards`, with the properties that watch it.

## 2. How the models are built

*One action per awaited query.* A handler is a chain of actions. What it has
read is in `inflight[c]`, a partial function from the calls under way to a
record with the place where the call waits (`op` or `at`) and what it holds. A
handler that refuses a request before writing anything takes no step. `Abort`
or `Fail` ends a call at any await: a query that fails or a process that dies.

*Tables* (`Tables.tla`) are partial functions from ids to rows. `Put`,
`PutAll`, `Drop` and `Column` are what TypeORM does, which is not under `src/`
and is modelled from its use:

- `repository.save(entity)` of an entity that has an id is **two** steps. It
  reads the row, then writes, in one transaction, the columns in which the
  entity differs *from what this read returned*: `Column(current, seen, want)`.
  A column another call has changed since is overwritten only if the copy
  differed from the row as read.
- The copy has `deletedAt = null`, so saving a copy of a row that was
  soft-deleted in the meantime brings the row back.
- Finds and joins skip soft-deleted rows, unique indexes do not
  (`device_token_lost` is about that).
- Validated bodies come from small sets with what the class-validator rules
  guarantee and nothing more.

*Data* is reduced to what the properties tell apart: a password is a model
value, a token is the version it was signed for, a one-time code is the number
of its time step, a file is a name.

*History variables* record what the tables forget: `everStarted`, `admitted`
(Membership), `settled` (Matches), `mailed`, `lost` and the `set` of `key` (MailOtp),
`issued`, `revoked`, `stamps` (Accounts), `used`, `kept` (Uploads), `resolved`,
`pushes`, `lost`, `signedOut`, `opened` (Notifications), `shown`, `start`, `writes`
(Listing). Two more name a known weakness so that a property can be stated for
everything else: `carried` (Accounts) collects the columns a save has overwritten from a
stale copy, `exposed` (Uploads) is set by a failure between unlink and save or by a file
swept, or a path turned into a URL, behind a call's back. They are set at the step that
does the damage and nowhere else, so a property guarded by them says: *there is no other
way to break this*. No guard of any action reads a history variable, except for the
bound `settled < MaxSettled` and fresh names (from `used`; from `resolved` and `lost` in
`Send`). `stale` in `inflight` is such a mark of one call of Accounts.

## 3. Modules and their code

| module | models | EXTENDS |
|---|---|---|
| `Tables` | tables and TypeORM's writes | |
| `Lemmas` | lemmas about `Put`, `PutAll`, `Drop` and about sums over finite sets, with proofs | Tables, TLAPS |
| `Membership` | rosters: session, member and request services | Tables |
| `RosterSpec` | abstract: what sessions promise guests | Tables |
| `MembershipProofs` | its theorems, the refinement of RosterSpec among them | Membership, Lemmas |
| `Matches` | match service, with session and roster as environment | Tables |
| `Settlement` | abstract: what matches promise players | |
| `MatchesProofs` | its theorems, the refinement of Settlement among them | Matches, Lemmas |
| `MailOtp` | queue, workers, key, codes, clock | Tables |
| `MailOtpProofs` | its theorems | MailOtp, Lemmas |
| `Accounts` | accounts and tokens | Tables |
| `AccountsProofs` | its theorems | Accounts, Lemmas |
| `Uploads` | avatars, covers, the sweep | Tables |
| `UploadsProofs` | its theorems | Uploads, Lemmas |
| `Notifications` | device tokens, pushes, histories | Tables |
| `NotificationsProofs` | its theorems | Notifications, Lemmas |
| `Responses` | envelopes, exceptions and exception filters | Tables |
| `Listing` | lists, page after page, against writes, and the answers a client has of them | Responses |
| `ListingProofs` | its theorems | Listing, Lemmas |
| `MC...` | instances for TLC: symmetry, bodies, restricted next-state | the module of that name |

`PROJECT.json` under `map` gives the lines behind every definition. In short:

**Membership.** `SessionInsert -> SessionInsertReject | SessionInsertMembers` is
`BadmintonSessionService.insert`: the session is saved first, then the ids are looked
up. `SessionChange -> [SessionFindUnpaid ->] SessionSaveRead -> SessionSaveWrite` is
`change`; `remove` is no action, since it reads `createdBy.id` of a session whose
creator it has not joined and throws. `MemberInsert/Change/Remove` and their second
halves are MemberService. Its `change` ends in an `update` of the body and `totalFee`: a
body that names a `paymentType` makes TypeORM throw before it sends a query, since the
entity has no such property, and is one of the calls that fail; any other body writes at
most surcharge and fee, which no model has (`MemberChangeUpdate`). `paymentStatus` is
set by neither. `RequestChange -> [RequestAccept ->] RequestSaveRead ->
RequestSaveWrite` decides a request; `RequestRemove(c, u, q, r)` has two request ids
because the query that should load `r` has no WHERE and returns some `q`.

`RosterSpec` is the abstract specification of all this: a session has a status
and a set of guests (users other than its creator), a request one answer, and
every call takes effect at one instant or not at all. Guests join and leave
while a session is PENDING only, no status is skipped, an answer is final, a
withdrawn request stays so, a session ends without guests since nobody can be
marked PAID, and, as the code has it, deciding a request admits nobody. The
refinement mapping is `Shown` in Membership: a row of the creator is no
guest, a soft-deleted request is WITHDRAWN. With one call at a time `Spec`
implements it, whichever queries fail.

**Matches.** `MatchInsert -> FindPlayers -> Save`, `MatchEdit -> DeleteTeams ->
FindPlayers -> Save`, `MatchStart -> Save`, `MatchFinish -> FindMembers ->
ReadMembers -> WriteMembers -> Save`, `MatchRemove -> Delete`. The last save,
shared by four of them, is `MatchSaveRead -> MatchSaveWrite` with its cascade:
teams of the entity are inserted or updated, teams in the table that the entity
does not list lose their match. `SessionMoves` and `MemberLeaves` are the
Membership handlers as seen from here: any of their steps, without their
guards on the creator. `ValidTeams` and `BetsOf` are the class-validator rules
and transforms of `BS/validators/validator.decorator.ts`.

`Settlement` is the abstract specification: a match has no sides or two, by name, which
map players to stakes and may change until it starts. A user may stand on both sides:
the creator of a session gets a member row per accepted request. There is then one
payment between the two sides, made at once, by the stakes of the two; then the result.
What the code leaves open, `Settlement` does too: a payment may be given up before its
result is shown (`GiveUp`), and the match be paid again. The mapping is `SettlementView`
in Matches: a side is a team as a function from its users to what their orders are
worth, a match is `due` while a call that has written the members waits for the save of
the match, and the balance of a user is the sum over its member rows. So
`ImplementsSettlement` says of four queries and a cascade that they are as good as
*arrange, start, pay, finish*.

**MailOtp.** `Request` is any of register, resendEmail and forgotPassword
adding a job; `Take, Swallow, Generate, SetKey, SendMail, Complete` are
`SendMailConsumer`; two `@Process` methods mean two workers. `Fail` drops a job
(attempts is 1), `Crash` puts jobs back at most once each
(`maxStalledCount` is 1). `Tick` is the clock of the process and of Redis, in
milliseconds. It may run on between any two steps and for any time: `RedisService`
connects anew for each call (`base/db/redis/redis.service.ts:30`), so nothing bounds
how long after `Generate` the SET arrives, and the ttl counts from there.

**Accounts.** One row of `users` and every call that writes it. `SaveRead ->
SaveWrite` is `user.save()` for all of them; `Assigned(kind)` is what the
handler assigns by design, anything else a save changes goes to `carried`.
`Stamp` is `refreshAuthVersion`, the clock in milliseconds.

**Uploads.** `Upload` is multer, before the handler; `UpdateInfo...` and
`Session...` are the handlers that store paths and unlink; `CronAvatars ->
CronCovers -> CronSweep` is the nightly job. `cron` has one entry per night,
since nothing keeps a job that hangs from running into the next one. `Boot` is
`AppService.onModuleInit` with `ScheduleService.addCronJob`; `Crash` ends the
process with every call and job under way, also where a query of the job fails:
`void this.removeFileNotUsed()` leaves a rejection nobody handles. The timer is
in memory, so that nothing is swept until the next `Boot`, and nothing ever
where `SCHEDULE_ENABLE` is off.

**Notifications.** `UpsertFind -> [SaveRead -> SaveWrite ->] UpsertInsert` is
`FcmTokenService.upsert`, which goes on to insert whether it has found a row or not;
`RemoveFind -> RemoveSoftDelete` is `remove`, the step at which a logout of Accounts
waits. `SendFind -> SendMulticast | SendRejected` is `send`; `sendMulticast` of Firebase
resolves whether or not the device was reached, and nobody looks at the BatchResponse
(`notification.service.ts:51`): the step `SendMulticast` adds the message to `resolved`,
to `pushes` or not as it happens (`Push`), answers the caller and leaves `InsertDetail
-> InsertReceiver -> InsertHistory` behind, for which nobody waits: `Fail` may not end
it, only `Crash`, since a rejection without a handler ends the process.

**Responses.** No state: `BaseException` builds the payload of an exception,
`HttpException` adds status and default text of its class, `handleDbError` is
what the generic services make of a rejected query, `Thrown` what the exception
filters answer, `ResponseTransformInterceptor` what a result is wrapped into.
`TooManyRequests` is the answer of the rate limiter of `main.ts:51`, which comes before
guards, pipes and filters: a text, and no envelope (`Enveloped`). A
code is a module and a number, since `getMessageFromCode` looks for the code
that another one *ends* with.

**Listing.** A client asks for the first page (`Ask`) and for the next as long as
`meta.totalPages` tells of more (`AskNext`). A page is `FindPage [-> LoadPage] ->
CountRows`: with joins TypeORM asks for the distinct ids of the page first, ordered by
the sort and then by the id, and then for the rows of these ids, by the sort alone.
`Answers` is every order the database may give rows that tie. `OrderBys` is what
`addOrderBy` makes of a sort that names a column more than once: the column keeps its
place and takes the last direction. `Selected` has filters and the search. A key of a
filter is a column and a suffix; what else a client may write there is not modelled
(section 8). `Forced` is the column that a controller puts over the filter, `BaseJoins`
and `Included` the joins. The requests a user has RECEIVED are selected by the joined
session: since neither the session of a request nor the creator of a session ever
changes, `ListRequests` has this as a column of the request. A request may be refused
(`Refuse`), by the rate limiter too, and each of its queries may fail (`QueryFails`);
then the client asks again (`AskAgain`). It knows of either by `answer` alone, by what
the envelope says or by there being none. `Insert`, `Remove` and `Change` are whatever
else writes the table. `disablePagination` is no input: the transform of its query
parameter runs twice and never leaves `true`.

## 4. Runs

Passing runs, with the distinct states TLC finds:

| run | instance | shows |
|---|---|---|
| `membership_serial` | 2 users, 3 member ids, 2 requests, capacities 1 and 2, one call (853,903 states) | with calls one at a time, any of which may fail half-way: Membership implements `RosterSpec`, a guest has one membership, a session is finished only when paid |
| `membership_concurrent` | 2 users, 2 member ids, 1 request, two calls | with overlap: an accepted request has the member its acceptance saved; FINISHED implies once STARTED |
| `matches_serial` | 3 member rows, two of them of one user, 2 matches, 4 teams, one call | a finished match has one winner and one loser and is final, line-ups are fixed after the start, money is zero-sum for even line-ups, balances equal bets and results, and all of it implements `Settlement` (745,944 states) |
| `matches_concurrent` | 2 members, 1 match, two calls | with overlap: no result is visible before the bets have reached the members |
| `mail_otp` | steps of 2 instants, window 2, 2 workers, 3 jobs, clock to 9 (403,176 states) | a live key's code verifies, but for as long as its SET came after the end of the code's step, and is accounted for; the queue drains |
| `accounts` | 2 passwords, two calls, clock to 2 | revoked versions stay revoked, tokens only for verified accounts, state and stages agree, answered tokens are usable |
| `uploads` | 2 files, 1 session, two calls, two nights (930,035 states) | the sweep spares what is referenced, an avatar is there, orphans are swept, over crashes and restarts and with sweeps that overlap |
| `notifications` | 2 users, 2 devices, 1 notification, two calls (275,720 states) | who has signed out has no live token row that a send could find; every message a device got leaves a history and every history is of a message that Firebase has answered for; histories have details, whatever fails; rows are unread until their receiver reads them |
| `listing` | 3 rows, 2 scopes, 2 keys, pages of 1 and 2 and none named, a filter or a search (10.6 million states) | a walk misses nothing under inserts and repeats nothing under removes, pages asked for again included, is sorted when nobody writes, and keeps to its scope whichever columns the client filters or searches by; every failure is told, in the envelope but for the rate limiter |

`MCListing` also has TLC evaluate laws of operators, as ASSUMEs: what filter
suffixes mean against each other, which direction of a repeated column counts, that
whatever is thrown answers as a failure
with a text, and (`IncludeLaws`, over all lists of up to three relations of
relations) which lists of relations `addIncludedEntities` joins without a clash.

Violation runs check one property each, which a message or a declaration of
the code states and the code does not keep: section 7.

Every property of a passing run has a mutant in `PROJECT.json`: a plausible
slip in one modelled definition, after which TLC finds the property violated.
Mutated forms stand next to the definition they alter and begin with
"Mutant"; nothing else refers to them.

**What did not survive.** These were tried and fail for the code as it is, one
call at a time unless said otherwise. They are not stated as properties, since
no text of the repository claims them:

- the creator is on the roster once (the creator may be among `memberIds`, and
  every accepted request adds the creator again);
- a session has at most `numberOfPeople` members (accepting does not compare);
- a FINISHED session stays paid (a body may take it back to PENDING, where
  members join again);
- a match has exactly two teams (an edit that is refused after the delete
  leaves none; two overlapping edits leave four);
- zero-sum money for uneven line-ups (an order that only one team has);
- a stake that belongs to the type of the match (an edit without a bet keeps
  the old one);
- with overlap: OneMembershipPerGuest, FinishedWhenPaid, the refinement of
  RosterSpec, FinishedIsFinal and LineupFixedAfterStart;
- no push after a logout: a send whose find came before the logout still pushes
  to the token it has found;
- a history only of what a device has got: `sendMulticast` resolves where it reached
  nobody, too (`modules/notification/services/notification.service.ts:51`);
- a live key whose code is accepted to the end of its life: see `Late` of MailOtp;
- a match is settled once: a failure between the save of the members and that
  of the match lets it be settled again, 'Match has finished'
  (`BS/services/match.service.ts:116`) notwithstanding;
- the complete and repetition-free walk of a list that joins nothing (users)
  and is sorted by a column that ties, or not at all: the database may order
  ties anew on every page;
- a walk without `pageSize`: the default is put in after `totalPages` has been
  divided by it, so `totalPages` is NaN, null in the answer, and a client cannot
  tell whether there is more (`base/api/services/list.service.ts:40`);
- an error code that tells success from failure: `NotFound({ message })` and its
  like carry '000000', the code of success (`base/api/exception/exception.resolver.ts:78`),
  so `FailureIsTold` goes by `success`; a `BadRequest` with neither text nor code
  would count as success, but nobody throws one;
- any list of relations that a request includes: two children of a parent that
  is not named join the parent twice, a parent named after its child comes too
  late, and what a list joins anyhow (`notificationDetail`) cannot be included;
- a walk that misses nothing while rows are removed, or repeats nothing while
  rows are inserted: pages are offsets.

## 5. Bounds, fairness, deadlock

*Bounds.* Ids, users and calls are sets of the instance; a table that is full cannot
take a row, as if no further insert arrived. `MaxMatches`, `MaxTeams`, `MaxMoney`,
`MaxSettled` (Matches), `MaxTime`, `MaxJobs` (MailOtp), `MaxTime` (Accounts), `Files`
(Uploads), `Nights` (Uploads), `Notes` (Notifications) and `MaxId` (Listing) bound what
would grow for ever. They are enough for the interesting cases: two overlapping calls
are enough for every lost update, since each property is about one row or one pair of
rows; three member ids admit a creator, a guest and a duplicate; two requests let the
missing WHERE hit the wrong one; two matches let money of one be seen against the other;
nine instants are two lives of a key of four, with room for a SET that comes late; three
jobs let a third come between two that race; two milliseconds let two stamps coincide or
not; two files let an avatar be replaced; two nights let one sweep run into another.
`uploads` has also been run with three files, one night and no restarts (1.65 million
states). Three rows make three pages of one or two of two, with a row on either side of
a boundary to shift. `ErrorCodes` has a code that `handleDbError` knows and one it does
not, `Selections` a filter that names the forced column and a search, `SomeSorts` a
column named twice, `SinglesSheets` a match of a user against itself, `TypesResent` an
edit that changes the type of a match without a bet. The instance of MailOtp has steps
of 2 instants and a window of 2 for 60,000 ms and 3; the theorems cover every step and
window.

*Symmetry* permutes users, ids and calls in runs without liveness only.

*Fairness.* MailOtp: weak fairness of `Work(w)` per worker, since the event loop
keeps running what is ready; `Request`, `Fail`, `Crash` and `Tick` are not fair.
Crashes need no bound: each takes a job's second chance away. Uploads: weak
fairness of `Boot`, since a process that ends is started again; strong fairness
of `CronAvatars` (midnight comes while a process is up), `CronCovers` and
`CronSweep` of whichever night: a process may die, or a query hang, in the middle
of the job on any night, but not on every night. `Crash` is not fair and needs no
bound. Handlers are not fair: calls may hang for ever, and a file in the hands of
a call is no orphan.

*Deadlock* is checked except in `mail_otp`, where the model stops when all jobs
are done and the clock is at its bound.

## 6. Proofs

The theorems hold for every value of the constants that satisfies the ASSUMEs
of their module: any users, sessions, matches, devices, files and rows, any
number of overlapping calls, and whatever the bounds of the model are. The
ASSUMEs are what the columns and validators guarantee: typed rows, validated
bodies and page sizes, `NoFile` is no file; and, for Listing, that the keys of filters
are columns with suffixes, which the code does not check (section 8).

| theorem | states |
|---|---|
| `MembershipProofs!TypeCorrect` | `Spec => []TypeOK` |
| `MembershipProofs!AcceptanceIsBacked` | `Spec => []AcceptedHasMembership` |
| `MembershipProofs!FinishFollowsStart` | `Spec => []FinishedWasStarted` |
| `MembershipProofs!GuestOnce` | one call at a time: `Spec => []OneMembershipPerGuest` |
| `MembershipProofs!PaidBeforeFinish` | one call at a time: `Spec => FinishedWhenPaid` |
| `MembershipProofs!CallsAreAtomic` | one call at a time: `Spec => ImplementsRoster`, the refinement of RosterSpec |
| `MatchesProofs!TypeCorrect` | `Spec => []TypeOK` |
| `MatchesProofs!SettledFirst` | `Spec => []ResultsAreSettled` |
| `MatchesProofs!WinnerAndLoser` | one call at a time: `Spec => []FinishedHasResults` |
| `MatchesProofs!FinishedForGood` | one call at a time: `Spec => FinishedIsFinal` |
| `MatchesProofs!LineupIsFixed` | one call at a time: `Spec => LineupFixedAfterStart` |
| `MatchesProofs!NoMoneyIsMade` | one call at a time: `Spec => []MoneyIsZeroSum` |
| `MatchesProofs!BalancesMatch` | one call at a time that resends no bets: `Spec => []BalanceMatchesResults` |
| `MatchesProofs!SettlementIsImplemented` | one call at a time: `Spec => ImplementsSettlement`, the refinement of Settlement |
| `MailOtpProofs!TypeCorrect` | `Spec => []TypeOK` |
| `MailOtpProofs!LiveKeyAccepted` | `Spec => []LiveKeyVerifies` |
| `MailOtpProofs!LiveKeyAccounted` | `Spec => []LiveKeyIsAccountedFor` |
| `AccountsProofs!TypeCorrect` | `Spec => []TypeOK` |
| `AccountsProofs!RevokedForGood` | `Spec => []RevokedStaysRevoked` |
| `AccountsProofs!TokensAreForVerified` | `Spec => []TokensOnlyForVerified` |
| `AccountsProofs!StoryIsOne` | `Spec => []StagesFollowState` |
| `AccountsProofs!AnswersAreUsable` | `Spec => []AnswerIsUsable` |
| `UploadsProofs!TypeCorrect` | `Spec => []TypeOK` |
| `UploadsProofs!AvatarStays` | `Spec => []AvatarIsThere` |
| `UploadsProofs!SweepIsSafe` | `Spec => SweepSparesReferenced` |
| `NotificationsProofs!TypeCorrect` | `Spec => []TypeOK` |
| `NotificationsProofs!LogoutIsKept` | `Spec => []SignedOutHasNoToken` |
| `NotificationsProofs!HistoryIsTrue` | `Spec => []HistoryTellsPushes` |
| `NotificationsProofs!DetailComesFirst` | `Spec => []HistoryHasDetail` |
| `NotificationsProofs!OnlyReceiverReads` | `Spec => []UnreadUntilOpened` |
| `ListingProofs!TypeCorrect` | `Spec => []TypeOK` |
| `ListingProofs!ScopeStays` | `Spec => []ScopeIsKept` |
| `ListingProofs!FailuresAreTold` | `Spec => []FailureIsTold` |
| `ListingProofs!NothingMissed` | `Spec => []WalkMissesNothing` |
| `ListingProofs!NothingTwice` | `Spec => []WalkRepeatsNothing` |
| `ListingProofs!PagesAreSorted` | `Spec => []WalkIsSorted` |

Each `*Proofs` module has the same shape: an inductive invariant `IInv` made of
named parts, a theorem that it holds at first, one lemma per action that it
stays, and the properties as consequences. All of them say *what a call that
waits may still rely on*, since that is what the next query of another call
takes away or not. TLC has checked each `IInv`, `SerialInv`, `LedgerInv` and
`LineupInv` on the instance of its module.

**One call at a time** is the hypothesis `OneAtATime == \A c, d \in Calls : c = d`
of the theorems that overlap does break (section 4). Failures and crashes are
included: the one call may stop at any await and be sent again. One theorem
about money needs one hypothesis more. `NothingResent` (no body that finishes a
match repeats a `moneyBet` field) is where `BalanceMatchesResults` stops: such a
body turns the stored bets to null after they were paid, and `matches_serial` sets
`BetsResent` accordingly. No theorem asks how many member rows a user has.

**Membership.** Neither property of the overlapping calls is inductive: whether
a save may write ACCEPTED or FINISHED depends on what the call established before,
possibly many steps of others ago. `Justified(c)` says what a waiting call may
rely on: the rows it names exist, a session it is to finish is in `everStarted`,
a request it is to save as ACCEPTED has its member row. `IInv` is TypeOK, the two
properties with `RowsRefer` and `StartedIsRecorded`, and `Justified` of every
call. The argument that overlap is harmless is `Grows`: no step removes a row,
moves one to another session or forgets history, hence (`JustifiedStays`) no step
of another call takes a justification away. Each action then has to justify its
own call only; `AwaitStep` and `AnswerStep` do that once for all actions.

For one call at a time, `SerialInv` adds to it that nobody has paid
(`NobodyHasPaid`: no call can record a payment), that a guest has one membership,
and, for a waiting call, that what it has read is still so: the session
it saves is as it read it (`SerialSession`), a member it is about to add is
not on the roster (`SerialMember`), a request it decides is PENDING
(`SerialRequest`). `Effect` then goes through the actions: a step is a stutter of
RosterSpec or the one step of it that the call promises (`JoinEffect`,
`LeaveEffect`, `AskedEffect`, `OpenEffect`, `StatusEffect`).

**Matches.** `Good(k)` ties a waiting call to its match: a call past the save
of the members has settled its match, and one that writes a result is past it.
`settled` only grows, so no other call takes this away. `SerialInv` adds `PairOf`
(a FINISHED match has exactly the winner and the loser) and `ResultsOf` (no other
match shows a result), and for the waiting call that row and teams are those it
read (`Current`, `Saving`, `Decided`, `Fresh`).

The money takes three more invariants, each on top of `SerialInv`.

- `LedgerInv` says what a waiting call is about to pay: the teams it keeps are
  those of the tables but for their results (`Played`), and the amounts it holds
  are, for one member row of each player, what is in that row and the result of its
  user added (`Owed`). The payment then adds to the balance of every user exactly
  `ResultOf` the two sides (`BalancePaid`), which is zero over all users if the
  sides play at the same orders (`EvenSides`, `SharesAddUp`, `TotalPaid`); no other
  step moves money (`UnpaidStays`), and line-ups that are even now have been even
  (`EvenBefore`). This is `NoMoneyIsMade`.
- `BooksInv` keeps the balances against the FINISHED matches. Between the save of
  the members and that of the match they differ, by exactly the result that the
  call has in hand (`Billed`); a call that fails there leaves a match that is
  settled but not FINISHED, which the premise of `BalanceMatchesResults` excludes
  from then on. `Kept` is what every step but the two saves leaves alone.
- `LineupInv` says that every team has players (`NewSides`, from the count of
  members that the validators ask for), so that a match that is shown has two sides
  (`OpposedSides`); a user with two member rows may be on both. The steps are then
  taken to those of Settlement one by one:
  the save of a new match, the delete of old teams and the save of new ones are
  `Arrange`, the save of a start is `Start`, the delete `Withdraw`, the save of the
  members `Pay`, the save of the result `Finish`, a failure between the last two
  `GiveUp`; everything else shows nothing (`ViewStep`).

`SumFunction` is a CHOOSE of a function recursive over subsets. `Lemmas` proves that
there is just one such function and what one knows of sums: adding and removing
an element, sums of sums, summing group by group (`SumGroups`). Induction over the
subsets of a finite set (`SubsetInduction`) is had without a predicate as a
parameter, by way of a minimal counterexample in the well-founded order of
strict subsets.

**MailOtp.** `JobsInv`: a worker about to SET holds the code of a step that has
begun, however long ago. `KeyInv`: so does the key, and it expires at most `TTL`
after the instant of its SET. `Late` is how long after the end of the step of its code
this was; the end of the step is at most `Step * Window` before the key expires
`Late` milliseconds early, and this is within `Window` steps of the code
(`KeyInvVerifies`, by the arithmetic of `StepBounds` and `StepBelow`). No assumption on
how long GET, SET or a mail take is needed; the ttl has no slack for it, which is what
the property says. One clock serves the process and Redis.

**Accounts.** The invariant of a call has five parts. `Shape`: what it holds.
`Usable`: a token it is about to answer is of the version in the row, unless
another call has written since (`stale`). `Verified` and `Told`: who holds, or has
seen, an ACTIVE row is right about it as long as no save has carried over a
state. `Stamped`: a stamp it has not written yet is nobody's version and was never
revoked. `StampsInv` keeps the stamps of two calls apart. What survives an
overlapping save rests on `Merge`: a column is either assigned by the handler,
or left as it is, or in `carried`.

**Uploads.** Ownership: a file is in the hands of one call (`HandInv`), or
referred to by an avatar or by covers, never two of these (`RefsInv`); while
nothing is `exposed`, what calls hold is on the disk (`IntactInv`). `SweepInv`:
the paths a job has read so far contain every file that has been referred to since
it began, which is why the sweep may compare with an old list.

**Notifications.** `RowsStay` and `SignedOutIsQuiet` say that a user who has
signed out has no upsert under way, so no stale copy that could bring the token
back. `InsertsAreResolved` ties the insert nobody waits for to the message it belongs
to; the three properties of histories then follow insert by insert.

**Listing.** The walk is described by one number: `Rank(r)`, how many selected
rows come before `r` in the order asked for. `PositionInv`: what has been shown
has a rank below the rows passed so far; `MissesInv`: what has not been shown
and was there at the start has one at or above. A removal lowers ranks and an
insert raises them, which is why a walk repeats nothing under the first and
misses nothing under the second; `CeilCovers` is the arithmetic of
`totalPages`. Where the sort leaves ties, only `PrecedesWeakly` of ranks is used,
so that `WalkIsSorted` needs no assumption on ties. This takes four assumptions
on the constants: sorts are by columns of the rows
(`SortsAssumption`; a sort by another name is a rejected query), page sizes are
validated, keys and scopes are numbers, selections are a filter, whose keys are columns
with suffixes, and a search. `ScopeStays` is about such filters and no others.
`FailuresAreTold` is about queries that are rejected and about every refusal; of
the rate limiter's it says that there is no envelope and that the status is its own.

**Only model-checked.** Liveness (`QueueDrains`, `OrphansAreSwept`), which is
beyond the prover. All other properties of the passing runs are proved, as the
table says. The proofs use SMT, Zenon and PTL.

## 7. Where code and text disagree

| run | what TLC shows |
|---|---|
| `removed_by_other` | 'You are not the owner of this request' (`BS/services/request.service.ts:119`) is decided on whichever request a query without WHERE returns; another user's request is then deleted |
| `decided_twice` | 'Request is not in pending status' (`BS/services/request.service.ts:95`) goes by a status read before the save of the member: two overlapping decisions both pass, and the later one replaces the answer of the first |
| `device_token_lost` | 'Upsert fcm token about me': after a logout the soft-deleted row blocks every later insert |

Nobody can be marked PAID, so no session with a guest can be finished: the
`paymentType` of `UpdateMemberDto` goes to `update` under that name
(`BS/services/member.service.ts:129`), the entity has `paymentStatus` only, TypeORM
throws, and the client is answered with an error. No text claims otherwise, so this is
no run; it is why `FinishedWhenPaid` and RosterSpec end sessions without guests.

One setting is at odds with the code: `send` asks Firebase for the app without a
name (`modules/notification/services/notification.service.ts:25`), `main.ts:35`
registers one under `FIREBASE_APP_NAME`, which defaults to `app-me`. As
configured `send` always throws; the instance of Notifications names the app
`[DEFAULT]`, since otherwise nothing would ever be pushed.

`GET /members` cannot be answered: `MemberService.extendFindAllQuery` selects
`member.paymentType` (`BS/services/member.service.ts:38`), a column the entity
does not have, so the database rejects the query; `ListMembers` of Listing is
therefore never `sound`.

`FIXED_STATUS_CODE` is read from the variable `SENTRY_LOG`
(`config/config.service.ts:63`): by default, and wherever Sentry is on, every failure
has status 200, but for the errors that `UnknownExceptionsFilter` always answers with
500 and for the rate limiter's 429. The instance of Listing has it on, since a client then has the body only.

`addInterval` and `addTimeout` of ScheduleService set their timer before the
registry can refuse a name that is taken, and `SCHEDULE_ENABLE` does not disable
them (`base/schedule/schedule.service.ts:88`); neither has a caller.

One comment is off without a run: `config/config.service.ts:115` gives
`total time = step * window` as the life of a code. A code is accepted for
`Window` whole steps after its own, so for up to almost `Step * (Window + 1)`
seconds. The ttl of the key, which the comment also describes, is `step * window`
from the SET: a key whose SET came after the end of its code's step outlives the code
by as long as that.

## 8. What is not modelled

- *Details of one row* (`GET :id`): no state; the joins a handler decides by are
  part of its action.
- *In lists*: the keys of filters that are not a column and a suffix. Any key of the
  JSON is taken as the text of an expression, with dots for joined rows, and
  the conditions are joined by `andWhere` without brackets
  (`base/api/services/list.service.ts:130`), so that what such a key selects is
  what the text means in SQL; `ScopeIsKept` does not hold of an arbitrary text. Also the
  suffixes DAY, MONTH and YEAR, names in a sort that are no columns, the choice of
  fields, the sessions a user has joined (a filter on a joined row that does come
  and go) and the query by which the list of
  users leaves out the members of a session, but for its refusal.
- *Fees*: `change` of a member of a session with a fixed cost stores surcharge and
  `totalFee` where the body has a surcharge and no `paymentType`; for sessions of
  another kind it needs the members of the session, which it has not joined, and
  throws. Some lists show what is stored, no handler decides by it.
- *Generic writes* of `base/api/services`: no controller calls them. `getEntity`
  is part of the actions that use it.
- *Scheduler*: `addCronJob` and its registry are in Uploads, for the one job there
  is; to change or delete a job, intervals and timeouts have no caller.
- *Callers of `send`* of Notifications: no handler calls it yet; the model does.
- *Sockets*: rooms are kept by socket.io, and no service emits anything.
- *Validation pipe, morgan, logging, documentation, mail templates, AWS,
  conversions, migrations*: I/O and formatting without shared state. The context
  and Sentry interceptors, `ApiResolver` and the auth middleware are installed by
  nothing. What validation guarantees of a body is part of the sets of bodies.
- *The shuttle count* of a member: overwritten by each settlement.
- *Phone numbers* of two accounts: decided by the unique column.
- *Clocks*: process and Redis are taken to have one.
- Several server processes: the deployment runs one.

## 9. Plan

Done, in this order: Tables, Membership with RosterSpec and its proofs, Matches,
MailOtp with its proofs, Accounts, Uploads, Notifications, Listing; then
Settlement, the process and the scheduler of Uploads, Responses with what a
client of Listing is answered, search and included relations. To do:

1. *Composition*: `Club`, in which the environment of Matches is Membership, to
   check the settlement against a roster that really changes by its guards.
   (`SessionMoves` and `MemberLeaves` make these steps already, without their
   guards.)
2. *More of the system*: fees as a function, the filters of lists by parts of a
   date and by joined rows that change.
3. *Theorems*: what two overlapping calls of MatchService still promise about
   money when they are about different matches and share no player. All safety
   properties of the passing runs are proved.
