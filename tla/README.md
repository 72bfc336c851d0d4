# OpenCard in TLA+

OpenCard is a self-hosted server for digital business cards: one Express
application over PostgreSQL (Prisma), usually run as two web instances that
share the database. There is no queue and no worker. What happens besides
answering requests happens in promises nobody waits for, in timers in memory, and
in an hourly tick, so most of the interesting behaviour is in interleavings of
requests, in calls to other services that fail or time out, and in processes
that die between two statements. This project models those parts, checks them
with TLC on small instances and proves the main safety properties with TLAPS for
every value of the constants.

Paths below are relative to the repository's `src/` directory of TypeScript
sources unless they start with `docs/` or `prisma/`.

## Inventory

| Component | State | Operations | Hard behaviour | What makes it correct |
|---|---|---|---|---|
| Hourly tick (`joblock.ts`, `server.ts`, `reports.ts`, `digest.ts`, `notify.ts`) | advisory lock, `Org.digestCadence`, `digestEmails`, `digestLastSentAt` | tick, digests, four pruning jobs, settings form | two instances, a lock with a time limit, mail accepted but not recorded, a job that throws | one tick at a time, no digest twice, none forgotten, no job starved |
| Outgoing webhooks (`webhooks.ts`, `webhook-retention.ts`) | endpoints, delivery log, timers in memory | emit, deliver, retry, replay, test, create, delete, prune | late and lost posts, timers lost in a crash, deleted endpoints, swallowed errors | bounded posts, none after success, a log that is true |
| CRM synchronisation (`crmsync.ts`, `crmsync-dispatch.ts`) | integrations, sync logs | sync on capture, send test, retry, create, delete | retries side by side on one log, an integration deleted under way, a loop that ends early | "sent" is true, "dead" is exhausted, nobody skipped |
| Leads (`routes/cards.ts`, `routes/assets.ts`, `routes/admin/leads.ts`, `leadstatus.ts`, `retention-prune.ts`) | lead, status, events, duplicate link | capture, status, assign, note, erase, prune | check then write, erasure in two statements, pruning beside everything | a trail that explains the status, stray steps explained, no orphan history |
| Cards and turnover (`routes/admin/cards.ts`, `turnover.ts`, `slug.ts`, `routes/api.ts`) | card, active, slug, owner, redirect, leads of the card | create, edit, offboard, transfer, replace, delete, switch | several statements without a transaction, redirects checked earlier than used, forms that write back what they showed | leads are moved and not lost, no redirect in a circle, nobody gets a card back, unique slugs |
| Provisioning (`routes/scim.ts`, `jit.ts`, `dirimport.ts`, `csvimport.ts`, `routes/admin/console.ts`) | users and their cards | SCIM create, change and delete, first sign-in, imports, directory check | lookups and inserts apart, repeated creates, an import that stops half-way | nobody gets a second card, users and cards in step, a finished import is complete |
| Backup and restore (`backups.ts`) | dump files, offsite copies, staging database, live rows | manual backup, restore of one workspace | failure at any step, swap without foreign keys, exclusive lock with a limit | nothing old survives, no broken reference, a failure leaves nothing |
| Admin accounts (`account.ts`, `routes/admin/auth.ts`, `routes/admin/security.ts`) | tokens, sessions, recovery codes, passwords | request, consume, reset, sign in, revoke | two statements per token, read and write back of codes | newest link only, codes used once, reset ends sessions |
| Employee sign-in (`routes/selfservice.ts`, `selfauth.ts`, `saml-cache.ts`) | SAML request ids, the employee's cookie | request, consume, prune, single sign-on | look up and consume apart | an id is used once |
| Rate limiting (`rate-limit-store.ts`, `middleware/hardening.ts`) | buckets in the database, fallback in memory | hit, prune | two stores, window boundary | never more than the limit in a window |
| Roles and scoping (`rbac.ts`, `apiauth.ts`, `tenant*.ts`) | none of their own | checks on a request | | a table of who may do what |
| Analytics, audit, rendering | append-only rows, none | inserts, aggregation, formatting | | not modelled |

How they interact: a captured lead goes to webhooks, to the CRM loop and to a
mail or chat notice, each without waiting. The hourly tick prunes leads, SAML
ids, rate-limit buckets and webhook deliveries. Card changes of every origin
(console, API, SCIM, import, first sign-in, self-service) emit webhooks.
Provisioning and turnover share the slug search. A restore
replaces rows all the others work on.

`PROJECT.json` lists the components with their status and, under `hazards`,
each place where this code could go wrong in a way a unit test would hardly
reach, with the properties that watch it, or why none does.

## Modules

| Module | Models | Used by |
|---|---|---|
| `JobLock` | what the advisory lock promises to the jobs under it (abstract) | `HourlyTick`, `BackupRestore` |
| `HourlyTick` | the tick, its lock and the digests, refining `JobLock` | `MCHourlyTick`, `HourlyTick_proofs` |
| `DeliveryContract` | what a sender of messages promises (abstract) | `WebhookDelivery` |
| `WebhookDelivery` | outgoing webhooks, refining `DeliveryContract` | `MCWebhookDelivery`, `WebhookDelivery_proofs` |
| `CrmSync` | sync of leads to CRM systems | `MCCrmSync`, `CrmSync_proofs` |
| `LeadLifecycle` | capture, status, history, erasure and retention of leads | `MCLeadLifecycle`, `LeadLifecycle_proofs` |
| `Provisioning` | how employees come to have users and cards, and lose them | `MCProvisioning`, `Provisioning_proofs` |
| `CardTurnover` | the cards of a location and their leads when employees leave | `MCCardTurnover`, `CardTurnover_proofs` |
| `AdminAccounts` | links, sessions, second factor, recovery codes, SAML ids | `MCAdminAccounts`, `AdminAccounts_proofs` |
| `RestoreContract` | what backups and restores promise about the rows (abstract) | `BackupRestore` |
| `BackupRestore` | manual backups, restores and their lock, beside writers, refining `RestoreContract` and `JobLock` | `MCBackupRestore`, `BackupRestore_proofs` |

### HourlyTick

A *tick slot* is one call of `tick()`; `Host` says which instance it runs in, and
an instance may have two open, since `setInterval` does not wait. `lock` is the
holder of the transaction-scoped advisory lock. `pc` follows the code from one
await to the next: `scan` (the query of `runDueDigests`), `pick` (the loop),
`smtp` (inside `sendMail`), `mark` (the update of `digestLastSentAt`), one value
per pruning job, and `commit`. Every call that can fail has a failing action
that goes where the nearest `catch` leads: a failed scan or mark ends the digest
job, a failed `sendDigest` only skips its org, a failed pruning job skips nothing.
`LockExpires` is the ten minute limit of the transaction (`joblock.ts:36`): the
database frees the lock, the job, on other connections, goes on. `Crash` stops
every tick of an instance and drops its lock. `accepted` and `lost` are history:
what the mail server took in, and which of it was never recorded; `SmtpFails`
may add to both, for a mail whose confirmation got lost. Time is a coarse clock
from 1 to `MaxTime`; 0 is the null of a column that was never written.

`JobLock` says what the two functions of `joblock.ts` promise, whoever calls them:
a job begins only while nobody holds the lock, and one that has outlived the
transaction that held it goes on without taking anything from the next holder.
`Turns` instantiates it here with the ticks that run and in `BackupRestore` with
the restores under way.

### WebhookDelivery and DeliveryContract

A *job* is the delivery of an event to an endpoint, or a *shot*: a replay or a
test event, posted once. `phase` follows `deliver` from await to await. A post
is put on `wire` when it is made and may arrive (`Hear`) at any time, also after
the sender's eight seconds are over, or never; `PostAcknowledged` needs it to
have arrived, `PostFails` does not care. `InsertRow` may do nothing, because
`logDelivery` swallows its errors, and must do nothing when the endpoint is
gone, because of the foreign key. `RetryFires` is the timer; it lives in memory,
so `Crash` loses it. The endpoint a retry posts to is the one that was read at
first, registered or not.

`DeliveryContract` states the promise without any of that: a message is opened,
posted at most `MaxPosts` times, never after an acknowledgement, given up only
after the last post, or lost with the process. `Contract` instantiates it with
the outcome computed from `phase` and the posts counted by `attempt`; TLC checks
and TLAPS proves that `Spec` implements it.

### CrmSync

A *run* is one call of `syncLeadToCrm` for a captured lead, or of `sendTestSync`
for a sample; a *retry* is one request to retry a log. `step` follows the loop
and `attempt`: `next` (top of the loop), `sending`, `recording`. A log is known
by its run and integration. `prior` is the attempt count a process read before
it sent; what it writes is computed from that, which is where concurrent retries
lose updates. The retry button is shown beside failed logs only
(`views/admin.ts`), hence the guard of `Click`; what the log is by the time the
handler reads it is not looked at (`ReadLog`). `RecordFails` is always possible
and is all that is possible once the integration is gone; it ends the loop, as
the exception does.

Its two requests to HubSpot (create, then update if the contact exists) are one
step with one outcome; a refused request may have been taken in all the same,
which covers a lost answer to either.

### LeadLifecycle

`capture` follows the handler of a submission: `search` and `insert` are the two
halves of its transaction, which read committed data and may therefore
interleave with any other; `stored` is the moment between the commit and the
calls that announce the lead, which a crash can lose. `Alike` is
`findDuplicate`: who shares a normalised e-mail or phone number with whom.
`MatchExists` is the foreign key of the duplicate link. A *request* is one
admin request or one run of the pruning job; `about` are the leads it read.
`ReadForChange`/`Change` and `ReadForRemark`/`Remark` are the two halves of the
status, assignment and note handlers; `BeginErasure` or `BeginPruning`,
`DeleteEvents` and `DeleteLeads` are three statements of their own, and `Abandon`
may end a request before any of them; between the last two it leaves the lead
without its history (`halfway`), which `HalfErased` recalls. Deleting a lead deletes its events and
clears the links to it (`prisma/schema.prisma:507, 535`).

`trail` keeps the status events in the order they were committed. The console
sorts by `createdAt`, which for two overlapping changes need not be that order;
the model says nothing of clocks beyond `aged` (older than the 30 days of the
duplicate search) and `expired` (older than the retention period), both of which
may come about at any time. `born`, `horizon` and `count` are history.

### Provisioning

Every way of making an employee looks for users, then for cards, and inserts in a
later statement: `Ask*`, `FindUser`/`ReadUsers`, `FindCard`/`FindNoCard` or
`Screen` (which drops from an import whom it has found), then `Insert` for the one
transaction of SCIM and of the first sign-in, `InsertRow` for each row of an
import. SCIM looks for a user only and takes the address as it is sent (`Sent`);
the others compare cards in either case (`Low`). `InsertFails` is the unique index,
a slug that was taken meanwhile or any other error, and ends the request, an import
with all that is left of it: the branches that answer from what is there or skip
a row are for the limit error, which nothing throws any more. `SetActive` is SCIM's replace,
patch and delete, which switch the user and its card together; `SetCardActive`,
`SetOwner`, `Offboard`, `InsertByHand` and the deletion are the API, the editor,
turnover, the card form and the console. The check against the directory lists
cards on one page and switches off those that were ticked on another request.
`late` is history: the cards that came to be somebody's while a request was under
way. Every property that excuses a race names it by `late`. A row number bounded
by `MaxCards` stands for the id of a card.

### CardTurnover

A *request* is a turnover, a creation, an opened editor, a submission of the lead
form, a deletion or a call of the API; each is made once and what it makes bears
its name. A turnover checks the redirect it was given (`CheckRedirect`), finds the
card to hand the leads to (`FindTarget`), moves them (`MoveLeads`), switches the
card off with the redirect and without an owner (`Offboard`) and may go on to a
replacement through the search for a slug (`ProbeNext`, `ProbeFree`, `Insert`).
`Stop` ends a request between any two of these. Employees are namesakes, which is
when the search has something to do; the number is the slug. `OpenEditor` keeps
the owner that the page showed and `SaveCard` writes it back. `Connect` and
`StoreLead` are the halves of a capture. `met` says which requests were under
way together; `by`, `arrived`, `stray` and `woken` say who did what. Turnover
leaves the employee's user as it is; `Provisioning` has that half.

### AdminAccounts

One admin's account. `login` goes through the password, the code or recovery code
and `CreateSession`; `Forgot`, `ClearLinks` and `CreateLink` are the request for a
link, `OpenLink`, `SpendLink`, `FindAccount`, `SetPassword` and `RevokeAll` its
use, each a statement of its own. `FindCode` and `BurnCode` are the read and the
write of the list of recovery codes. `MfaStart`, `MfaVerify`, `MfaEnable` are
enrolment, `SaveAccount`, `CreateAccount`, `DeleteAccount` the owner's pages and
`MakeAdmin` the script. A SAML id is stored, found and consumed by three
statements, as the library calls the cache. Things expire whenever they like
(`LinkExpires`, `SamlIdExpires`, `EndSession`, `CookieEnds`), which covers every
lifetime. What a request makes bears its name: an old password and a new one are
different names, so "the account as it was" can be said.

### BackupRestore

Of the nineteen tables a restore swaps, two kinds matter: those that others refer
to (cards) and those that refer to them (leads). A restore goes through `fill`
(pg_restore into the staging database), `swap`, `leads` and `cards` (a DELETE
that has begun; it sees the rows committed when it began, and waits where another
transaction has deleted them), `between`, `load`, `commit`, `clean` and `unlock`.
The rows it has deleted (`gone`) go from `rows` when it commits. Requests insert
and delete with foreign keys on: a lead's insert waits for the card's lock.
`LockExpires` is the limit of an hour of the transaction that holds the lock
(`joblock.ts:63`). `Commit(r, FALSE)` is a COMMIT whose answer is lost.
`excused` collects what was struck by a fault from outside; every property that
needs the excuse names it. A backup reserves both files, fills one after the
other and removes both if either fails; a dump may be chosen while it is written,
since the page lists it. The removal may fail with one file or both still there
(`RemovalFails`), and a dump removed when whole is `unlinked`: no longer listed,
yet readable to the restore that has it open. A crash of the program need not end
the pg_dump or tar it waits for, so the file may still be finished
(`BackupCrashes`).

`RestoreContract` says the same without files, tables, locks and staging
databases: a backup is the rows of one moment; a restore fetches a whole one and
in a single later step puts all of it in the place of the rows, where only what
others wrote during its swap may outlast it; or it is given up and the rows are
as they were. `Contract` reads the stage of a restore off `pc`, and what it has
fetched off the dump it loads.

## Runs

| Run | Checks | Bounds | States |
|---|---|---|---|
| `tick_safety` | the lock's contract and digest safety | 2 instances, 2 slots, 1 org, a week of 2 units, clock to 4, 1 expiry, 1 crash | 1.3 million |
| `tick_live` | no job is starved, a due digest is sent | the same, a week of 1, clock to 2, no expiry | 3,464 |
| `tick_overlap` | the claim that ticks cannot overlap: **violated** | | |
| `webhooks` | contract, truth of the log, settling | 2 events, one of which nobody wants, 1 endpoint, 1 shot, 3 attempts, 1 crash | 45,000 |
| `crm` | what a log means | 1 lead, 1 sample, 2 integrations, 2 retries, 2 attempts, 1 crash | 1.9 million |
| `crm_sent_is_done` | the claim that "sent" is done: **violated** | the same | |
| `leads` | trail, links, duplicates | 2 submissions of one person, 3 requests | 2.0 million |
| `leads_table` | the claim that steps follow the table: **violated** | 1 submission, 2 requests | |
| `provisioning` | second cards, refusals, users and cards in step, imports | 2 people, one in two spellings, 2 requests at a time, 2 cards | 1.5 million |
| `turnover` | leads left behind, circles, owners, slugs | 2 cards, 3 requests | 0.9 million |
| `accounts` | links, sessions, codes, second factor, SAML ids | 1 account, 3 requests, 2 codes in a set | 0.6 million |
| `restore` | the contract, what a swap leaves, what breaks, what a failure leaves | 2 restores, 2 requests, 1 card, 1 earlier and 1 new backup, 1 fault | 1.2 million |

Why the bounds are enough. *Tick*: an overlap needs two ticks, a duplicate needs
a digest, a second tick within the week and one fault; four time units let a
digest become due a second time. Orgs are handled independently but for a
failed mark that ends the loop, which the proofs cover for any number.
*Webhooks*: deliveries share nothing but the log and the endpoint, so one event,
one endpoint and a shot show every way they meet; three attempts are the code's
own. *CRM*: two retries beside the run make three writers to one log, and with
two attempts a log can become dead and be overwritten afterwards; two
integrations make a loop that can be cut short. *Leads*: a link needs two
leads, a step off the table two changes, and the third request lets an erasure,
a pruning or another change fall between them; requests about different leads do
not touch. *Provisioning*: two requests side by side race for one person, a third is
what `SetActive`, turnover and the API do in one step; requests that leave nothing
behind may be made again. *Turnover*: two turnovers that overlap close a circle,
and the third request brings the lead, the editor or the deletion in between.
*Accounts*: a reset, a login and a third request that falls between their
statements. *Restore*: two restores meet once a lock has run out, one request
writes a card and the other a lead on it; with two faults (4.2 million states)
nothing else comes up. Retries, integrations, submissions, requests, restores,
cards and codes are interchangeable, so those runs use symmetry; runs with
liveness properties do not. Deadlock is checked only for the tick, whose timers
never stop: every other job ends, and such a system may come to rest.

Fairness. `TimerFairness`: the timers keep firing, and a running tick keeps
running, since each of its awaits ends in a result or an error. It says nothing
of which. `ServiceFairness`, a premise of `DueDigestIsSent` only, is that a
database or mail call tried again and again succeeds in the end. `FairSpec` of
`WebhookDelivery` lets each delivery take its next step: a post ends by its
answer or by `AbortSignal.timeout`, and a timer fires. Nothing is assumed of the
receiver, the admin or the clock.

Each property is paired in `PROJECT.json` with a mutant, an alternative body of
one definition such as a plausible bug would give it, under which TLC finds the
property violated in the same run. The mutants stand in the modules beside the
definitions they vary.

### Findings

* `joblock.ts:21` says that ticks cannot overlap. They can, once a tick takes
  longer than the limit of its lock transaction (`TicksNeverOverlap`). What does
  hold is `OverlapOnlyAfterExpiry`, and duplicates of a digest are then possible.
* `crmsync.ts:130` says that a sent log is done and only failed ones are retried.
  `retrySync` does not check it, `isRetryable` is called by nobody, and of two
  retries of a failed log the one that fails may write last (`SentIsDone`).
  What does hold: a log that says "sent" is about a lead the CRM has, and a dead
  one has used up its attempts.
* `leadstatus.ts:14` calls the table of transitions a state machine and its test
  says that `canTransition` enforces it. It enforces it on the status a request
  has read: of two admins, one archiving and one marking as sent, the second
  takes the lead from "archived" to "sent" (`StepsFollowTable`). What does hold:
  such a step is always one of a request whose reading is stale, and the trail
  still ends in the lead's status, though its events no longer join up.

What the code does beside what it says, seen while modelling it. The properties
named are what holds instead; the difference itself is in the model, as an
exception the property spells out.

* Two overlapping requests for a link leave two that work, though `account.ts:24`
  says only the newest does (`OnlyNewestLink`). Two SAML responses that arrive
  together may both use one id (`saml-cache.ts:11`, `SingleUse`).
* A login that overlaps another writes back the list of recovery codes it read:
  codes that were used or replaced work again (`security.ts:81`, `CodesStayDead`).
* Switching on the second factor beside its reset leaves it on without a secret
  (`FactorWasVerified`). The make-admin script sets a password and ends no
  session. Links are kept by address and outlive the account.
* An import stops at a row whose user was created meanwhile, although
  `routes/admin/console.ts:120` says that existing emails stay skipped either way; a
  SCIM create repeated before the first has committed fails, although the comment
  at `routes/scim.ts:192` means to preserve idempotency (`RefusalIsRace`).
  SCIM's replace without `active` switches an offboarded card on again, and its
  replace and delete fail for a user whose card was deleted by hand.
* The card editor shows no switch that would undo what a directory check has
  switched off, though `routes/admin/console.ts:269` calls that reversible. A card
  that was given another owner while the page of the check was open is switched off
  with the rest; the admin has ticked it, and no property rules it out.
* Redirects can lead in a circle after two overlapping turnovers or a card
  switched on by the API (`prisma/schema.prisma:441`, `LoopsNeedOverlap`). The card
  that the leads go to is not checked to be active, and a target that is switched
  off later stays the target. An editor opened before a
  turnover gives the card back to who has left (`OwnerStaysGone`), and the slug of
  a deleted card goes to the next namesake.
* A lead captured between the two DELETEs of a restore keeps a card that is gone,
  and a dump with such a row cannot be restored any more: its foreign key fails
  (`DanglingNeedsOverlap`). A restore that takes longer than an hour, or whose COMMIT
  is not heard, is reported as failed and has taken effect
  (`FailureLeavesNoTrace`). A restore brings back API keys as they were, those
  revoked since included, beside the care `backups.ts:129` takes of credentials.

## Proofs

All are proved from the named assumptions on the constants only
(`TickAssumption`, `WebhookAssumption`, `CrmAssumption`, `LeadAssumption`,
`ProvisioningAssumption`, `CardTurnoverAssumption`, `AdminAccountsAssumption`,
`BackupRestoreAssumption`), which TLC evaluates on the runs' values. The external
services behave in the proofs as they do in the models: what is assumed of
PostgreSQL stands in the actions.

*HourlyTick_proofs.* `TypeCorrect` is inductive alone. The lock properties follow
from `LockInv`, that a tick runs exactly while it holds the lock or has outlived
it: `OverlapNeedsExpiry` is a consequence, and with it each step is one of
`JobLock` or a stutter (`TicksTakeTheirTurns`).
`MarksFollowAcceptance` adds to its property that a tick about to mark has had
its digest accepted. `DuplicatesNeedLoss` needs `DigestInv`: as long as no lock
has expired, every accepted digest is either lost, covered by `digestLastSentAt`,
or about to be marked; and what a running tick has yet to send is still due,
since nobody else can have moved the date in between. `TicksEnd` is the half of
the liveness properties that needs no fairness: each step of a tick takes it to a
later place of the tick, or back to the loop with strictly fewer orgs to handle
(`TicksRunDown`, for which the org in hand must be one of those, `HandInv`).

*WebhookDelivery_proofs.* `TypeCorrect` includes `RetryInv`, that a timer only
runs where another post is allowed and that an event is fanned out once; without
it the attempt counter has no bound. `TruthOfLog` follows by a
simple strengthening. `PromiseHolds` shows that each step of `Spec` is, for each
message, a step or a stutter of the contract: the step is first classified by
how it moves `phase` and `attempt`, then matched with the contract's action.
`DeliveriesEnd` has a measure, `StepsLeft`, of at most 3 * `MaxAttempts`
(`StepsLeftBound`): each step of `deliver` lowers it, nothing else raises it, and
a delivery that has settled is not moved again.

*CrmSync_proofs.* `CountInv`: a log counts no more attempts than were made, nor
will the write of any process under way make it so; with it a dead log has seen
its attempts although concurrent writes overwrite one another. `AcceptInv`: a
process about to record success has had its lead taken in. `LoopInv`: during a
run each integration found is still to do, in hand, deleted or logged.
`NobodyRetriesUnasked` and `OnlyRetriesUndoSent` share `BegunInv`: a log that a
run has yet to write has seen no request, and nobody can have asked for its retry.
The second says all there is to the violation of `SentIsDone`: only a retry of that
very log, refused by the CRM, undoes "sent".

*LeadLifecycle_proofs.* `ErasureIsComplete` is inductive as it stands.
`TrailIsTrue`, which allows a lead without its history only where an erasure or a
pruning is or was broken off between its two statements, needs that no request is
about a lead that was not yet stored and that such a lead is new and has no history
(`TrailInv`); `StrayStepsAreStale`
that the step a request is about to take was legal from the status it read
(`ChangeInv`); `MissedDuplicatesOverlap` that a search without a result saw every
recent lead stored before it (`SearchInv`). `TrailsFollowTable` shows the other
side of the finding about the table: whatever statuses do, every event of the
history is a step of the table, since it says what the request had read; no single
event gives a stray step away. `LinksLeadBack` needs that whatever is searched,
found or linked was stored before, and counted (`LinkInv`); it makes following the
links a walk that ends.

*Provisioning_proofs.* `NoSecondCard` carries the lookup forward: whoever a
request has yet to insert had no user and no card when it looked, so that a card
it now finds is in `late`. `RefusalsAreRaces` does the same for users through the
card each comes with. `UserAndCardInStep` is inductive once it is known that a held
card is its user's only one (`OneCardInv`). `NobodyHasTwoCards` states that part
by itself: the unique index on `Card.userId` never refuses an insert of the model,
which therefore need not ask it. `FinishedImportsAreComplete` follows from what
remains of a list: who is off it has a user.

*CardTurnover_proofs.* `Basics` joins the types, what each step says of its
request, and that meeting is mutual. `NoLeadsLeftBehind` needs the leads in two
more places: those still on the card of a turnover that has moved them (`MovedInv`)
and those about to be stored (`StoreInv`). `LoopsTakeOverlap` holds for circles
of any length: `TargetsMet` says that a turnover whose target has come to redirect
met whoever made it do so, and the last card to redirect closes the circle with one
that was active when it was checked. `OwnersStayGone` and `ClashesAreRaces` follow
the editor and the search from what they read. `SearchesLeaveNoGap`: a search only
goes past numbers that a card has or had (`GapInv`, which needs that a card gets its
slug once). `SearchesAreShort` counts them: if the cards are finitely many, the loop
of `uniqueSlug`, which is `while (true)`, ends after at most one look-up for each,
and one more.

*AdminAccounts_proofs.* The same base, `Basics`. `NewestLinks`: a link alive was
made after, or beside, the clearing of the others. `NoStaleSessions`: from the
password that a login compared to the session it creates, a reset either has
ended it or was under way with it. `DeadCodes` follows a code through the lists
read and to be written back, which takes the longest proof here.
`VerifiedFactors` needs that a secret is replaced only by requests of four kinds.
`SessionsAreOfTheAccount`: an account and its sessions end together and only a login
that is over has one (`SessionInv`), so that an account made later with the same
address is not opened by an old session. `WhatEndedStays` is the action property
beside it: sessions that are over, links used or expired and SAML ids answered
never come back.

*BackupRestore_proofs.* `TypeInv` adds to the types what keeps ids unique while
restores load: the dump a restore swaps in no longer changes, has no broken
reference, and is apart from what is there and from what other restores load.
`NoTrace` needs that a restore without a fault holds the lock while it runs
(`FailInv`); so of two under way at once one has met with a fault
(`RestoresAreAlone`), and each step is one of `JobLock` (`TurnsAreTaken`, by
`TurnInv`: whoever holds the lock is under way).
`NothingOld` follows the old rows: seen by the DELETE, then deleted, table by
table, until none is left at the commit (`OldInv`). `DanglingLeads` turns that
round (`MeetInv`): a lead a swap has not deleted was written beside it, and swaps
under way at once know of each other. `RestoresAreOneStep` is the refinement of
`RestoreContract`. It needs of the cards what `MeetInv` says of the leads, that a
swap has met only those which took effect or are under way, and that a backup has
its dump whole before its archive (`BesideInv`); each step is then classified by
what it does to the rows, the dumps and the stage of one restore (`StageStep`,
`StageStays`). `SuccessMeansDone` is the other half of `NoTrace`: what is reported as
done took effect. `SuccessesAreApart`: those that still hold the lock, or have
ended well, never swapped beside each other (`ApartInv`), so that two restores, both
reported as done, came one after the other even if a lock ran out between them.

`OverlapOnlyAfterExpiry`, which the contract of the lock implies, and
`AnnouncedWasStored` are stated by theorems and not run besides. `RestoresTakeTurns`
is a theorem too; the run checks the same contract on the ticks. The other theorems
without a property in `PROJECT.json` are consequences and measures that came up in
the proofs; their statements stand in the `_proofs` modules, before them.

What could not be stated as a theorem here stays a matter of the runs. Only
model-checked: the liveness properties (`EveryPruneJobRuns`,
`DueDigestIsSent`, `EveryDeliverySettles`), since the prover does not reason about
`ENABLED` and fairness. `TicksEnd` and `DeliveriesEnd` prove what they rest on beside
fairness: a tick and a delivery cannot run in a circle. The three claims that
runs refute (`TicksNeverOverlap`, `SentIsDone`, `StepsFollowTable`) have their true
counterparts among the theorems.

## Size and coverage

The models are shorter than the code they stand for where the code has control
to speak of; the map names the statements each definition translates and none of
the markup, parsing, validation and wording around them. Those are most of this
program: the views alone are a quarter of its lines, and branding, layouts, widgets,
analytics pages, signatures and ID cards, which keep no state of their own, are
most of the rest. The share of lines that the map covers, about an eighth, is
therefore small. What is left to model (below) would add little to it; the rest
could only be raised by calling formatting a model.

## Not modelled, and why

* *Rate limiting*: a counter per window, incremented by one atomic statement. What
  is open, the change to the counter in memory while the database is away, is
  deliberate and bounded only by the number of instances.
* *Roles and scoping*: checks of a request against rows, without a state of their
  own; a model would be the table again.
* *Pure algorithms* (duplicate scores, layouts, field maps, bulk tools): functions
  of their input with unit tests. The slug search is in `CardTurnover`, because it
  races; the normal forms that decide duplicates are `Alike` of `LeadLifecycle`.
* *Analytics and the audit log*: inserts nobody reads back for a decision.
* *Rendering, branding, QR codes, signatures, wallet passes, ID cards*: stateless
  formatting. Signing of webhooks, mapping of fields, mail texts and CSV are
  conversions no property here depends on.
* *Data bundle and exports* (`data-bundle.ts`, `dataexport.ts`): reads.
* *Deployment scripts and the web site* are outside the program.
* Within the modelled parts, each entry of `components` in `PROJECT.json` says what
  is left out. The components are modelled beside each other and meet where the
  code makes them meet: a turnover is in `CardTurnover` (its leads) and in
  `Provisioning` (its user), a deleted card in both, a restore beside writers that
  stand for all the others. One model of everything would not be checked to the
  end, and what they share is the rows, each change of which is one statement.
