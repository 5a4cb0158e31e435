# TLA+ models of the SaaS boilerplate

This directory holds TLA+ modules of the parts of the repository that keep state
shared by concurrent requests, workers and scheduled passes, the TLC
configurations that check them on small instances, and proofs for every instance
that the TLA+ proof system checks. `PROJECT.json` maps every definition to the
source lines it models and lists runs, mutants, hazards, findings and theorems.

How to run, inside this directory:

    tlc -workers 2 -config JobQueue_safety.cfg MCJobQueue
    tlapm MessagingProofs.tla

## The system

A Next.js application and a background worker share one relational database
(Postgres or PGlite). Everything stateful goes through
`packages/db/src/client.ts`, which offers two things the models build on:

* `runtime.execute(sql)` runs **one autocommitted statement**;
* `runtime.transaction(fn)` runs the statements of `fn` in **one transaction**.

Between two of these a request may be overtaken by another request, and its
process may die. That is the granularity of every model: an action is one
transaction, one autocommitted statement, or a call to a provider between two of
them. Statements of one transaction are one action when the transaction takes the
locks or the guarded `UPDATE ... WHERE` that make it so.

### Inventory

| Part | State it keeps | Operations | Interacts with | What is hard |
|---|---|---|---|---|
| jobs (`packages/jobs`) | `background_jobs`, `cron_schedules` | `enqueueJob`, `registerCronSchedule`, `materializeDueCronJobs`, `claimNextJob`, `reclaimStaleJobs`, `completeJob`, `failJob`, the loop of `worker.ts` | handlers of emails, storage, auth | leases that run out under a live worker, updates by id alone, crashes, several workers on one schedule |
| emails (`packages/emails`) | `outbox_events`, `message_deliveries`, audit events | `queueEmail`, `dispatchOutbox`, `sendDelivery` | jobs run its handlers; auth and tenant emit events; an e-mail provider | at-least-once delivery over two kinds of locks, crash between send and record |
| tenant (`packages/tenant`) | `organizations`, `organization_memberships`, `organization_invitations`, flags, limits and quotas, API keys, impersonation sessions, audit events | invite, accept, reject, cancel, update, remove, `ensurePersonalOrganization`, settings, keys, impersonation | auth (users), emails (events), api (keys) | checks and writes in separate statements |
| storage (`packages/storage`) | `storage_files`, `storage_file_variants`, `storage_upload_intents`, `storage_usage_records`, the quota; objects at a provider | `createUploadIntent`, `completeUploadIntent`, `uploadFile`, `deleteFile`, three cleanup passes | jobs (passes), api (mobile uploads), a provider | two stores without a common transaction |
| auth (`packages/auth`) | users, sessions, tokens, factors, login attempts, OAuth states, challenges | sign-in four ways, lockout, TOTP and recovery codes, refresh rotation, reset, account deletion | api (mobile sessions), emails (outbox), web (cookies) | read-check-write over sessions and one-use rows, lockout counts |
| billing (`packages/billing`) | subscriptions, entitlements, usage, invoices, refunds, payment methods, webhook events; providers, plans, prices, coupons, a tenant's settings, checkout sessions | `handleWebhook`, `recordUsage`, `requestRefund`, checkout, change of plan, the administration of what is on offer | payment providers, tenant, the mock checkout of the site | events out of order, repeated or half processed; sums read before they change; prices and coupons edited while a checkout is open; records that name each other's tenant |
| api (`packages/api`) | idempotency keys, events, mobile devices, mobile sessions, mobile upload intents, webhook endpoints, audit and usage rows | `authenticateApiKey`, `withIdempotency`, `createEvent`, mobile endpoints | storage, auth | rows of two services without a common transaction; retries of requests that failed half way |
| security (`packages/security`) | rate-limit buckets, security events | `consumeRateLimit`, origin and CSRF checks | web | counting across window borders |
| db (`packages/db`) | migrations table, content tables | `updateContentSnapshot`, `ensureContentDatabase`, `resetContentDatabase`, `runMigrations` | web, everything | actions that read without the lock what they write with it; concurrent start-up |
| observability, config, localization, ui, docs | logs, constants, none | logging, parsing, rendering | - | nothing another part reads |
| web (`apps/web`) | cookies, one promise per process | routes and server actions | all packages | its concurrency is that of the requests above |

What makes each part correct:

* **jobs** - a handler starts at most as often as the job's budget; a job that is
  inserted is settled in the end; a completed job was really handled; a schedule
  does not fire twice for an interval.
* **emails** - one delivery per event, no event lost, no message sent again
  without a reason the code cannot avoid, no more calls of the provider than the budget.
* **tenant** - an organization keeps an owner, an invitation is used once by the
  person it was sent to, nobody gets in otherwise; what is changed is justified by
  a right, a key or an impersonation that the request could still rely on, and audited.
* **storage** - the quota is what the files hold, an available file has its
  bytes, a reservation is given back or used.
* **auth** - one winner per refresh token and one-use token, nothing outlives a
  reset, parallel guesses do not pass the lockout.
* **billing** - an event is applied once whatever is repeated, refunds never
  exceed what was paid, entitlements are those of the subscriptions; no record
  changes its tenant, and what a tenant is sold is what it was offered.
* **api, security** - a key maps to one effect; the rows of the API follow those of
  the services it calls; no window admits more than its limit.
* **content** - no acknowledged message or version disappears without a reset.

## Modules

| Module | Models | Composition |
|---|---|---|
| `JobQueue` | the job table, schedules and workers | - |
| `JobLedger` | what the queue promises of a job | refined by `JobQueue` (`LedgerSpec`) |
| `Messaging` | outbox, deliveries, the two job handlers | extends `JobQueue`: its workers run the handlers |
| `MessageLedger` | what the messaging service promises of an event and of its delivery | refined by `Messaging` (`PromiseSpec`) |
| `TenantMembership` | members, roles and invitations of one organization | - |
| `TenantAccess` | settings, keys, impersonation, and requests with a key | extends `TenantMembership`: who asks is a member or not |
| `StorageFiles` | files, intents, quota and provider objects of one tenant | - |
| `AuthSessions` | credentials, factors and sessions of one account | - |
| `MobileSessions` | devices and sessions of the mobile API | extends `AuthSessions`: its requests call it |
| `Billing` | webhook inbox, entitlements, usage, refunds, a coupon | - |
| `BillingScope` | the tenant of each record of a payment provider | - |
| `BillingOffers` | providers, plans, prices, a coupon, a tenant's choice, checkout and change of plan, the mock checkout | beside the others in `MCSite` |
| `ApiRequests` | mobile uploads, events under idempotency keys | extends `StorageFiles`: its requests call it |
| `RateLimits` | the windows of `consumeRateLimit` | - |
| `ContentStore` | managed pages, settings, the contact form | extends `RateLimits`: the form is behind its gate |
| `Accounts` | users, addresses, invitations, legal acceptances, providers, passkeys | beside `ContentStore` in `MCSite`, whose legal pages it abstracts |
| `MessagingProofs` | theorems about `JobQueue` and `Messaging` | extends the second |
| `TenantProofs`, `AuthProofs` | theorems about `TenantMembership` and `TenantAccess`; `AuthSessions` and `MobileSessions` | extend the second of the two |
| `SumFacts` | lemmas about sums over the rows of a table | - |
| `StorageProofs` | theorems about `StorageFiles` and `ApiRequests` | extends the second and `SumFacts` |
| `BillingProofs` | theorems about `Billing` | extends it and `SumFacts` |
| `SiteProofs` | theorems about `RateLimits`, `ContentStore`, `BillingScope`, `BillingOffers` | extends the last three |
| `AccountsProofs` | theorems about `Accounts` | extends it |
| `MCJobQueue`, `MCMessaging`, `MCTenantMembership`, `MCTenantAccess`, `MCStorageFiles`, `MCApiRequests`, `MCAuthSessions`, `MCBilling`, `MCSite`, `MCLiveness` | instances for TLC | - |

### JobQueue

One variable per column of `background_jobs` that a guard reads; `pc` and `held`
say where a worker is in the loop of `worker.ts` and `runWorkerOnce`. Time is
relative to now: `due`, `age` and `nextIn` are differences that stop counting
where no comparison can tell them apart any more (`OverdueCap`, `StaleAfter`, 0),
so time needs no bound. `now = new Date()` is a default argument of
`materializeDueCronJobs`, `claimNextJob` and `failJob`: it is read before the wait for
the lock on the tables, so what these compare and write may be old by a `lag` of at most
`MaxLag`. (`enqueueJob` and `registerCronSchedule` read theirs before a statement too;
their row is as one that was inserted sooner and has waited.) `CronCadence` is about the
`created_at` of a schedule's jobs, which is that reading. `Materialize`, `ClaimJob` and `ClaimNothing` are single
steps because their transactions take exclusive locks first. `reclaimStaleJobs`
runs inside the claim, so its effect is part of both claim actions.

`CompleteRaises` is a completion whose answer is lost: the row changed or did
not, and the loop goes on to `failJob` with the same id. `Crash` is per worker;
in the repository one process runs two loops, whose joint death is two crashes.
The callers never change `enabled` or `deleted_at` of a schedule, so these are
not modelled; job rows are never deleted; equal `created_at` leave the order of
jobs of one priority open; the upserts of `Register` are one step; each job id is
used once, so a finite set of ids bounds how many jobs are inserted.

### Messaging

`Messaging` extends `JobQueue`: a worker whose `pc` is `handling` is inside
`dispatchOutbox` or `sendDelivery`, and `stage` says at which statement. A send
job belongs to one delivery (`SendJob`, the id `message-delivery:<id>`), a cron job
is a dispatcher. `Kinds` separates what the code distinguishes of a payload:
fine, invalid recipient (the delivery is refused), or a row that is missing.
`doubt` and `slow` record the two situations in which the code cannot know
whether a message went out. Events of one batch are dispatched in any order
(the code goes by `created_at`), and `LIMIT 25` is above the number of events.
A statement of a handler that raises (`DbError`, `DbErrorThrown`) did so before or after
it took effect: `RejectRaises`, `MarkDispatchedRaises`, `DispatchRaises`, `ClaimLost`,
`ExpireLost` (its audit insert included) and `MarkSentRaises`. What an old
reading of the clock does to the queue is checked in `JobQueue_safety`; here `MaxLag` is 0.
Suppression lists and preferences are not reached by the events that
`dispatchOutbox` handles and are left out, as are in-app notifications.

### TenantMembership

A request authorises (`requireMembership`), counts owners if the code does, and
writes: `at` is where it is and `args` what it was called with. Concurrent
requests interleave between these steps. Invitations are claimed by a guarded
`UPDATE`, the membership is upserted in the next statement; a crash can fall in
between. `DeleteAccount` belongs to auth: it leaves the membership, so a deleted
account still counts as an owner. Its caller is the effective user; domains are left
out; the founder is assumed to be in no other organization when
`ensurePersonalOrganization` looks.

### TenantAccess

`access` is a request that changes something of the organization or uses a key, at
one statement: `context` and `check` are the two times `requireMembership` runs, for
the page's context and in the service. `held` collects what the request could have
relied on since it began (rights of those it acts for, its key, its impersonation),
and a change is `unjustified` when its operation needed more. Every change is
followed by its audit event in another statement, requests with a key by their
`api_audit_events` and `api_usage_records`. `Operators` may impersonate without being
members. Settings, flags, limits and quotas are told apart by who wrote them last.
A scope with `:*` (`Wildcard`) would be sufficient, but no catalogue has one and
`assertValidApiScopes` refuses it. `auth_users.disabled_at` is read, with `deleted_at`, at
sign-in and by keys; no statement of the repository writes it, so that it is always NULL
here and in `AuthSessions`.

### StorageFiles

A process runs one operation. A file goes `none -> pending -> available ->
deleted -> purged` or `pending -> abandoned`; its intent goes `pending ->
processing -> completed` or `expired`. The provider's objects are separate state:
each call to the provider, and each failing call that may have had its effect, is
an action. `Undo` and `Reopen`/`Release` are the catch block of
`completeUploadIntent`, `PassErase`/`PassSettle` a row of a cleanup pass. The
ages that the purge and orphan passes compare are left open: a pass may select any
subset of the rows. `late` marks an intent claimed after it expired (the clock is
read before the claim), `doubt` a commit whose answer was lost. `updateQuota`
changes only the limit and is left out; access grants, reads and audit events
change nothing the properties speak of.

### AuthSessions

One account. `req` says which operation a request runs, at which statement it is
and what it has found out; every action is one autocommitted statement with the
checks that lead to it. Passwords are version numbers (-1 is a wrong one), refresh
tokens are numbered as they are made. `factor` is the set of states that the rows of
`auth_mfa_factors` have: `createTotpEnrollment` inserts a row whatever there is, so that
others may be pending beside an enabled one. One-use rows (`auth_tokens`,
`auth_oauth_states`, `auth_challenges`) are `Links` with a kind. Expiry is an action
of its own for links, access tokens, refresh tokens, rotation results and failures
that leave the lockout's window. Three things are one step because they commit
together: the `UPDATE` of a rotation with its result row, the writes of
`finalizeOAuthCallback`, and those of `deleteAccount`, whose only caller runs it
in a transaction. `Poll` stands for the four looks of a loser at the winner's result.
`proved`, `raced`, `half` and `answers` are history.

### MobileSessions

`AuthStep` is a step of the auth service, on behalf of the API or not; a request of
the API that waits (`call`) goes on with what the operation returned (`Returned`),
and its own rows follow in later statements. `late` and `missed` name the sessions a
revocation of their device cannot have known.

### Billing

Transactions are READ COMMITTED and split where another transaction can come
between their statements: `ReadGrace`, `Upsert`, `Recompute`, `Disable` and `Write` are
the subscription event. `ReadGrace` reads the end of a grace period that the row keeps,
`Upsert` waits for whoever has written the row, and what it writes may have ended since
(`Row`). `Disable` takes the rows that exist when its `UPDATE` begins, and when another
transaction holds one of them goes on with these after it (`DisableLate`). A
`gracePeriodEndsAt` in the payload is left out, since no adapter sends one. Locks are guards that look at who holds them. The provider is
external: it changes subscriptions, takes payments and refunds, and delivers every
event any number of times in any order (`Claim`); `doubt` marks commits whose answer
was lost. Amounts are small numbers, refunds are added up as the code adds them.
`older` is what the order by `updated_at` says: which subscriptions were updated before
each. The last row of `recomputeEntitlements`' SELECT is the one whose name a feature's
row keeps: `Named`, the one of `Giving` that none of the others is older than.

### BillingScope

What `Billing` leaves out because it has one tenant. `Receive` is `handleWebhook` up
to `resolveTenantScope`, which reads who owns the record, what it refers to and its
customer; `ReadCustomer` and `UpsertCustomer` are `upsertCustomer`, `Commit` the upsert
of the record with the end of the transaction. Nothing a transaction writes is visible
before it commits; the `INSERT ... ON CONFLICT` of a customer locks the row, which
`UpsertCustomer` says by looking at who else is past it. `ParentAllowed` is the trigger
`billing_validate_tenant_reference` of migration 0014 on invoices and refunds. The
provider is external: an event may name any tenant, customer and parent. An event that
raises may be delivered again, so it leaves nothing but the count. The rows of invoice
items, discounts and the audit events are left out: they take the tenant of their parent.

### BillingOffers

Three parties interleave, statement by statement: administrators edit the catalogue
(`UpdatePaymentProvider`, `UpsertPlan`, `UpsertPrice`, `CallUpsertCoupon` to
`SaveCoupon`), a manager reads and saves the settings, checks out (`CallCheckout`,
`ReadProvider`, `ReadPrice`, `ReadCoupon`, `OpenCheckout`, `InsertSession`,
`InsertDiscount`; the capabilities asked for on the way are those of the row that
`ReadProvider` found) and changes the plan, and
whoever knows a mock session visits it. `Visit` to `Unapplied` is the page of the mock
checkout, which posts up to three events to `handleWebhook` one after the other and
sends the visitor to the success page. Another provider (`Sell`, `HearOfSubscription`)
sells what the session named and reports it in order; out of order events are in
`Billing`. `made` is the coupon at the provider: the adapter of Stripe-compatible
providers uses the code as its id, so that a second one is refused, and neither adapter
updates one; with one code per instance, `coupon` is its row. `price` and `plan` keep
the columns that a checkout reads. `basis`, `agreed`, `promised` and `answered` are
history. Currencies, the translations of plans and the redemption count (in
`Billing`) are left out.

### ApiRequests

A process of `StorageFiles` serves a request of the API. `StorageStep` is any step of
the storage service, and a request in it goes on when it returns (`Succeeded`) or
ends when it raises. `direct` are files of other callers, whose tokens the API does
not know; `forgotten` and `abandoned` are requests that ended between two services or
two statements. Keys stand for key, tenant and scope together; `Bodies` are what the
stored hash tells apart. Keys are not purged anywhere in `src/`.

### RateLimits

Time is the number of the current window. `Purge` and `Count` are the `DELETE` of
expired buckets and the upsert; a call takes the time once, so that both can be late.
The gate of server actions consumes the limit of the identity and then that of the
address, whatever the first one says. A count above the limit is not told apart.

### ContentStore

`updateContentSnapshot` locks all tables before it reads them, so `StorePage`,
`StoreSettings`, `StoreMessage` are single steps. What an action of the site has read
before (`ReadPages`, `ReadSections`, `ReadSettings`) it has read without the lock and
table by table. `ready` is the promise each server process keeps, also when it was
rejected. `resetContentDatabase`, which tests alone call, is two transactions;
`SeedScript` is the seed script. A page is identified with its id, which is made from
its slug; a row is named by the write it is from. Pricing plans and contact fields are
whole rows written under the same lock and left out, like the audit log.

### Accounts

`client` is a request that is served, at one statement; sign-up, the provider's
callback, the deletion and the export are single steps because their routes run them
in one transaction, which a taken address makes raise. `link` is `auth_tokens` with
the `auth_invitations` row of the same token; an e-mail is a pair of link and address,
and who opens a link has read that mailbox (`confirmed`). `document` are the legal
pages, a version standing for text and state; `agreed` is what the state of a flow
stores of them. `public` and `origin` are history: what was published while a request
ran, and how each person's row was made. The indexes that make a statement raise are
guards (`Having`, `AccountOf`). Sessions are in `AuthSessions`, and so is the use of a
link that sets a password; that the caller of a settings page was signed in is
assumed when the request comes. `CheckEmailChange` is the two lookups of
`requestEmailChange`, `RequestEmailChange` its token and message. A locale that is not
enabled is refused by the actions of sign-up, profile and the provider's callback before
they change anything; so may any request here end (`DieInClient`). `updateProfile` changes nothing that is read here.

## Runs

| Run | What it asks | Instance |
|---|---|---|
| `JobQueue_safety` | budget, lease, settled rows, cadence, refinement of `JobLedger` | 2 workers, a producer's job with 2 attempts and two cron jobs with one, 1 crash or 1 lost answer, readings of the clock old by 1 tick at most |
| `Messaging_safety` | one delivery per event, no loss, sends bounded and not repeated without need, refinement of `MessageLedger` | 2 workers, 1 event, 2 delivery ids, and either one lost answer of `completeJob` or one crash and one failing statement of a handler (a crash after a lost answer is met in `Liveness`) |
| `Messaging_stranded` | fails: a delivery can stay `sending` for ever | 1 crash |
| `Tenant_safety` | owners, invitations, members; changes justified and audited | 2 requests, 2 users, 1 invitation, custom permissions; 1 key, 1 impersonation, 1 endpoint, at most 2 changes with server actions and 3 with keys |
| `Site_safety` | rate limits; contact messages; pages; what accounts are founded on; tenants of billing records; offers, settings, coupons and sales | 2 requests, 2 identities, 1 address, 2 windows, limit 1; 2 servers, 2 pages, 2 edits, 2 messages, 1 reset, 1 death; 2 people, 2 mailboxes, 2 links, 1 flow, 1 subject, 1 challenge, 1 edit of a legal page; 2 tenants, 2 customers, 5 records, 3 events; 2 providers, 2 plans, 3 prices, 1 sale, 2 edits (3 of a coupon), 1 death |
| `Tenant_lastowner` | fails: two owners leave at once | 2 requests, 2 users, 1 invitation |
| `StorageFiles_safety` | quota, objects, single completer, file and intent agree; uploads and events of the API | 2 processes, a file with variants and one without, 2 faults; 1 key, 2 bodies, 3 events |
| `Liveness` | every job is settled in the end; reservations are released, stranded intents excepted | of queue or storage: 2 workers, a handled job and one without handler, 1 crash, 1 lost answer; 2 processes, 1 file, 2 faults |
| `StorageFiles_stranded` | fails: an intent can stay `processing` for ever | 2 processes, 1 file, 1 fault |
| `AuthSessions_safety` | lockout, sessions of a replaced password, second factor, rotation, revoked devices | 2 requests, 2 sessions, 2 devices, 1 link, 1 recovery code, 1 coordinator, lockout after 1 failure, 3 refresh tokens, 1 fault; one of seven mixes of operations |
| `Billing_safety` | events applied once, entitlements, usage, refunds, coupon | 2 requests, 2 subscriptions, 2 plans, 2 subscription events, 1 use, 3 refunds of an invoice of 2, 3 discounts, 1 fault |
| `Billing_grace` | fails: an active subscription may entitle to nothing | 1 request, 2 subscriptions |

Why the bounds are enough: every hazard listed needs two actors at most (two
workers, two requests, a completion and a pass) and one row they meet on, plus at
most two faults (for instance a lost answer and a crash). The two file types
differ only in having variants; both together exceed the limit with them, so
the quota is refused in some behaviours. Two budgets (`DeliveryBudget` and the
job's) are both reached. `StaleAfter`, `RetryDelay` and `ClaimTimeout` are one or
two ticks: a lease needs to run out before, at and after the tick a worker acts,
and more ticks add only waiting. `MaxDowns`, `MaxErrors` and `MaxFaults` bound crashes,
failing statements of message handlers and failures elsewhere, `OverdueCap` how far an overdue job is counted, `MaxLag` how
old a reading of the clock is: one tick is enough to read it before an end that has passed when it is used.

Some instances restrict what one behaviour does, since operations that read no
common state only multiply states: `MCNext` in `MCJobQueue` allows one crash or one lost answer, `about` in `MCTenantAccess`, `MCSite`,
`MCBilling` and `MCLiveness` picks the component or the operations, `mix` in `MCAuthSessions` the
operations of a behaviour (each pair of operations that share a row is in a mix). In
`MCTenantAccess` a change of settings or keys meets one demotion, removal, deletion or
revocation by the owner, and no one is an operator (`Operators = {}`): an operator
passes the check that a member must pass. In `MCSite` a behaviour about messages has
one reset or one edit of a page; one about billing records has two kinds that refer to
each other (a payment method refers to nothing); one about sales through the mock
checkout edits one price, sells one piece of it, has a coupon of typed id that first
takes a percentage and then an amount, and no session expires; of two links or people
that are alike the first is used first. Other bounds: `MaxChanges` the changes made, `MaxTokens` and
`TokenBound` the refresh tokens made, `SessionBound` the sessions, `MaxFailed` the
lockout, `FailedRefunds` refunds that fail at the provider, `MaxEvents` subscription
events sent, `MaxReceived` events about records, `MaxRevisions`
edits of the catalogue, `MaxLosses` requests that die, `MaxCalls` the limit of a window, `LastWindow` the windows, `MaxEdits`
writes of pages, `MaxVersion` edits of legal
documents, `MaxResets` and `MaxDeaths`. Two of each is what a race needs; a
second window is what a late purge needs; a third discount and a third refund are
what passes a limit of one and of two.

Symmetry permutes workers, requests or processes, which no guard tells apart, and
is used in runs without liveness properties only.

Deadlock is checked for the job queue and the messaging runs. It is not for the
others: when all invitations, files, tokens, events or edits of the instance are
used up and no request is at work, the finite ids leave nothing to do.

### Fairness

* `JobQueue!FairSpec`: weak fairness of time and of each worker's next step: a
  worker loop polls for ever, its handlers return or throw, and a worker that went
  down is started again (the deployment restarts it). Crashes are not fair and are bounded.
* `StorageFiles!FairSpec`: intents expire, a process that started an operation goes
  on with it, and the cron schedule starts the pass over expired intents again and
  again - on some process, not on each.

`MCLiveness` checks both in one run: its specification conjoins the two, each over
the behaviours that are about its component.

No other specification assumes fairness: a request of a client may never be
repeated, and nothing in the code makes an event of a provider arrive.

## What the code does not keep

* **Stranded deliveries** (`Messaging_stranded`). When a sender dies after claiming
  a delivery, the reclaimed job finds it claimed and throws; attempts used up before
  the claim times out leave it `sending` with a failed job. Nothing looks at it again,
  although `packages/emails/README.md:9` promises at-least-once delivery.
* **Last owner** (`Tenant_lastowner`). `assertOwnerWillRemain` counts in one statement,
  the demotion or removal is another. What does hold is `OwnerLostOnlyByRace`:
  an owner is lost only so, or because an owner accepted an invitation to a
  lower role, which `acceptInvitation` writes over the membership without counting.
* **Stranded reservations** (`StorageFiles_stranded`). A completion that dies, or
  fails after the intent expired, leaves it `processing`. The expiry pass selects
  `pending` intents only and the orphan pass skips `processing` ones, so the bytes
  stay reserved, although `packages/storage/README.md:45` says otherwise. A related
  observation: `IntentAgrees` shows that `cleanupOrphanedFiles` never finds a row,
  except for intents claimed late.

* **Grace periods** (`Billing_grace`). A feature's row names one subscription, the one
  updated the longest ago of those that give it. When that one was in its grace
  period and the period ends, `hasEntitlement` says no, although another
  subscription is active, until an event recomputes the rows.

What the passing properties except by name are behaviours of the code too:

* `AccessJustified`: a right lost after it was checked still serves the request. A
  tenant key acts for its organization whoever made it, also after its maker has left:
  `authorizeTenantAccess` (`packages/api/src/service.ts:888`) looks at memberships for
  personal tokens only, where `packages/api/README.md:31` speaks of all tenant-scoped
  operations.
* `TrailTellsChanges`: a change whose process dies before its audit event has none.
  Events of changes under an impersonation name the member alone; only those of its
  start and end name who acts.
* `LockoutBounded`: parallel sign-ins pass the lockout by their number less one;
  two sign-ins that read a recovery code as unused both use it.
* `PasswordOfLiveSession`: a sign-in that checked the old password may make its
  session after a reset; a reset that dies between its statements leaves the sessions.
* `DeviceRevocation`: a sign-in that has its device may add a session to it after it
  was revoked.
* `EntitlementsFollow`: of two subscription events handled at once the later commit
  may write what it read before the earlier one; events are applied in the order in
  which they arrive.
* `RefundsWithinPaid`: a refund the provider has made and nobody here knows of yet
  is not in the sum.
* `CouponRedemptions`: checkouts at the same time pass the coupon's limit.
* `UsageExact`: a use recorded before the feature has a row is not counted.
* `EventsIdempotent`: a key whose request died has no response, and every retry is
  an error. Keys are never purged, although `packages/api/README.md:33` speaks of a
  configured lifetime.
* `RateLimited`: a call that took the time before its window ended counts from one
  again when another call has purged the bucket.
* `PagesFollowEdits`: `createManagedPageAction` with a slug that exists has the same
  id and overwrites the page, since only pages with other ids are compared.
* `AccountsGrounded`: an invitation's link is spent when it is opened: the process
  that dies before it made the user, or an address taken since, leaves an invitation
  that cannot be accepted any more. A link of a change whose address someone has taken is spent by
  the `UPDATE` that raises. `auth_accounts` has one row per provider and address and
  keeps those of deleted users and of addresses that were changed: a sign-up with such
  an address raises and is rolled back, an administrator's or an invitation leaves a
  user without account and message.
* `ScopeEstablished`: the customer is read by `resolveTenantScope` and again by
  `upsertCustomer`, but its upsert does not look at the tenant it finds: two first events
  of one customer handled at once may store a record under another tenant than its
  customer's. So may an event whose record another event inserts in between, since the
  update keeps the tenant and takes the customer.
* `OffersKept`: of the coupon whose id was typed in nothing is known here. The
  default that `getTenantSettingsRow` inserts has no `ON CONFLICT`: the second of two
  first readers raises.
* `SoldAsOffered`: the mock checkout shows and invoices the price and the coupon as
  they are when it is visited; a price whose id at the provider was moved to another
  row makes the subscription one for that row; a visitor whose event another visit is
  still applying is sent on as if it were done.
* `ContactMessagesKept` speaks of visitors who were given an id: one whom the bot
  check declines is answered as if the message were stored.

## Proofs

Theorems hold for every value of the constants that satisfies the assumptions of the
module: `ConstantsAssumption`, `MessagingAssumption`, `TenantAssumption`,
`AccessAssumption`, `StorageAssumption`, `ApiAssumption`, `AuthAssumption`,
`MobileAssumption`, `LimitAssumption`, `ContentAssumption`, `AccountsAssumption`,
`ScopeAssumption`, `BillingAssumption`, `OffersAssumption`. They ask only for what the types of the columns and the
configuration give: finite sets of workers and requests, positive budgets and
intervals, null values that are no ids, one send job for each delivery, a seeded
catalogue that its unique index and foreign keys allow. TLC evaluates them in each run.

An invariant of the runs is rarely inductive: a request acts on what it read
statements ago. Each proof therefore states, for every place a request can be in,
what it still relies on there, and shows with one lemma per action (or per group of
actions that leave the same rows alone) that the step keeps it.

**MessagingProofs**, the queue. The inductive invariant `IInv` has the parts: `RowInv` (what
the status of a row says about its counters), `HeldInv` (what a worker knows of
the job it holds, however late it is), `StartInv` (every handler call, and every
call a worker is about to make, is paid for by an attempt), `LeaseInv` (while no
worker overran its lease, the holder is the owner and its lock is fresh, or its
completion took effect unseen), and the cadence of each schedule. `AttemptBudget`
alone is not inductive: a worker between claim and call has not started the
handler yet, and `StartInv` counts it. The refinement theorem
`QueueImplementsLedger` shows, action by action, that each job makes one move of
`JobLedger` or none.

**MessagingProofs**, the messages. `MessagingUsesQueue` shows that every step of the composition is a
step of the queue or a stutter, with the rows that a handler inserts as the
producers' steps, so that `Messaging` implements `JobQueue` and each theorem above
holds of it. `MsgInv` is the queue's `IInv` with `HolderInv` (which job a handler at a
stage is inside), `JobRows` (a delivery and its send job come from one transaction),
`DeliveryRows` and `EventInv` (an event that is dispatched, or about to be marked, has
its delivery); `OneDeliveryPerEvent` follows. The other three have an invariant each on
top of it: `SendRule` (each call of the provider, made or about to be made, is paid for by a claim
that counted an attempt), `ClaimRule` with `AcceptRule` (while nobody was slow or in
doubt one worker is inside a delivery, and it has not been accepted), and `SettleRule`
(a handler that is to complete its job leaves a delivery nobody has to look at again).

**MessagingProofs**, the promises. `MessagingKeepsPromises` shows that each step of the
composition, a crash or a failing statement included, lets each event wait, be emitted or end a turn
and each delivery rest, be placed, tried, called, sent or given up, as `MessageLedger`
allows. On top of `MsgInv` and the invariants of the other theorems this needs
`TodoRule` (what a dispatcher has in hand was emitted) and `AnswerRule` (a sender has a
claim behind it, and the provider's word when it is about to record it). The lemma
`AcceptedIsHeld` is the core: what was accepted for a delivery that is not shaken is
marked sent, or in the hand of the one worker inside it, whose claim nobody can take
yet; so nobody tries it again or gives it up. `SendsBounded` compares the counters of a
state; the ledger says which step may move which of them, and from what.

**TenantProofs.** `CountInv` says that a request about to demote or remove an
owner has another owner to rely on unless someone raced it; `GrantInv` that the
request which claimed an invitation is alone in granting it. From these follow
`OwnerLostOnlyByRace`, `InvitationSettlesOnce` and `InvitedMembersOnly`. They hold of
`TenantAccess` too, whose steps are steps of `TenantMembership` or leave it alone
(`AccessSpec => Spec`). `AccessInv` adds `RowRule` (whoever made a key or impersonates
is a user) and `Knows`: what a request holds of rights, key and impersonation at each
of its statements, which a revocation in between does not take back. `AccessJustified`
compares a change with it at the write; `TrailInv` says that a request which
is about to record its event has made the change the event tells of.

**StorageProofs.** `IInv` says, for each place a process can be in, what it
still relies on when it acts: where a process of each kind can be (`StageInv`),
what the columns of one file say together (`RowInv`, `IntentAgrees`), that a
completing call owns its pending file until the commit whose answer it lost
(`CompleteInv`), that no other call touches the file of an upload (`UploadInv`),
that the rows a pass or a deletion has in hand can no longer become available
(`HandInv`), and that what is about to be committed is at the provider
(`ObjectInv`). `AvailableHasObject` alone is not inductive: a pass deletes an
object long after it selected the row, so the invariant has to carry what the
selection still guarantees at that moment. One lemma per action
(`ClaimKeeps`, `CommitKeeps`, ...) proves the step; `Moved`, `MovedUndone` and
`Left` reduce the update of the process record to its fields. `IInv` is checked
by TLC on the instance of `StorageFiles_safety` too (857,545 states).

**SumFacts.** The quota and the refunds are sums over rows. The modules write them with
`SumFunctionOnSet` of the community modules, whose fold is a `CHOOSE` of a function on
the subsets of the rows. `FoldingExists` shows that there is such a function (by the
least size for which there would be none), `SumOfAny` that the order in which it takes
the rows does not matter (by the smallest set for which it would: `SmallestSet`, from
the well-foundedness of strict inclusion among finite sets); so induction is done
without the theorems that have an operator parameter. The proofs then cite `SumUpdate`
(a row changes), `SumBounds` (rows that are no larger), `SumNat`, `SumSame` and `SumZero`.

**StorageProofs**, the quota. `QuotaIsExact` needs, besides the sum, only that the size of
the variants is given back as it was charged (`MadeAt`): the transaction that deletes a
file charges by what an earlier read found, and nothing makes variants in between
because `IInv` lets nobody complete a file that is available. `QuotaMoves` relates one
file's change to the counter's, and each of the statements that charge or give back is an
instance of it.

**StorageProofs**, the API in front. `ApiInv` is the storage service's `IInv` with
`IdemInv` and `FileInv`.
`IdemInv`: a key without response is owned by the one request that wrote it (`KeyRule`),
what an owner is about to answer is the event that it logged (`CallRule`), responses
are those of the key's row (`ReplyRule`), and no two events have one key (`EventRule`).
`FileInv`: which file the request of the API and the call of the storage service that
serves it are about, and that the row of the one follows when the other returns
(`RequestRule`, `ServeRule`). `StorageBehindApi`
carries the theorems about the files and the quota over.

**AuthProofs.** Every step of the API is a step of the auth service, a statement of its
own that fails, or one the service does not see (`AnyStep`), so that each invariant is
proved of `Spec` and of `MobileSpec` at once. `ReqInv` says what a request has found out
at each statement, `TokenInv` that sessions share no refresh token and that a loser of a
rotation looks for the result of one that happened. `LockInv` counts the sign-ins that
may yet record a failure with the failures there are: one that passes the check of the
lockout adds one to their sum, and what it read bounds the sum only as long as all
requests are counted, hence the bound by the number of requests. `MobileInv` adds what a
request of the API knows of its session and device (`CallRule`), that a row is revoked
exactly with its device if it is in time (`RowRule`), and that a session of a revoked
device is over, an exception or about to be ended (`EndRule`).

**SiteProofs.** `LimitInv` counts a window's calls until it ends (`WindowRule`), and
those that come late with the visits that still hold its time (`LateRule`).
`ContentInv` says that a write not stored yet has a number that no page and no reader
knows (`EditRule`), so that a row with the number a save has read is the row it read and
has the date it goes on with (`ReadRule`), also when a reset brought the seed back; that a
page that is not there has no version (`EmptyRule`); and that what is about to be
acknowledged was stored (`AnswerRule`). `ScopeInv`: a record has a tenant; what a
delivery relies on is of its tenant unless a commit has overtaken it (`HandlingInv`); one
transaction at a time is past the upsert of a customer (`CustomerLocked`), which is the
row lock of its `INSERT ... ON CONFLICT`. `OffersInv` (`CatalogueOffersKept`) adds that
a coupon which its provider has made for a request that has not saved it yet has that
request's terms (`MadeRule`). `SalesInv` (`SalesAsOffered`) says what a request for a checkout, a change of
plan and a visit of a mock checkout rely on at each statement: that the price they have
read is as it was, unless the sale is marked as edited (`AskRule`, `ChangeRule`,
`VisitRule`), and that one request makes a sale and one applies an event (`AloneRule`).
A sale is backed by a price of its basis with the id its provider bills
(`SaleRule`); since that id is unique in the catalogue, the subscription that comes back
can be for no other price. A promise has the coupon's terms (`TermsRule`), and an event
that was processed has had its effect (`EffectRule`).

**AccountsProofs.** `AccountsInv` (`PeopleStayGrounded`) says what each request holds at each of its
statements: ids of rows that are there (`Holds`); the versions of documents that all
were public while it ran (`ReaderRule`); that it opens the link it was sent, and that
nobody came from a link it has consumed but not used yet (`OpenRule`); that no passkey
answers the challenge it has consumed (`AnswerChallenge`). `OnceRule` makes it the only
request with that link or challenge: without it two people could come from one
invitation. `PersonRule`, `LinkRule` and `PasskeyRule` are what the rows say together;
an address is confirmed only by a link of its own row, so a link of a verification
names the address of a person who is not verified yet. One lemma, `NewPersonStep`,
covers the four ways a person's row is made; rows that are there only change as
`RowsKept` allows, so that what the other requests hold stays true. `AccountsInv` is
checked by TLC on the account topics of `MCSite` too (164,564 states).

**BillingProofs.** On `TypeInv`, which fixes the statements of each operation and that
`older` is an order, four invariants stand next to each other. `WorkRule`: an event that
is `processing` has one request, or the request died. `UsageInv`: the uses recorded and
not counted are those of requests about to count, each once (`Counters`). `CouponInv`:
redemptions and checkouts under way together pass the limit by no more than the
requests less one. `EntInv`: a transaction that has read the subscriptions writes what
they give, unless another one has committed since (`ReadRule`), and then the rows are
right whenever nobody raced (`EntitledRule`). `RefundInv` is about three sums that differ:
what was paid, what the provider has refunded, and what the rows here know of it. Under
the invoice's lock one request at a time asks (`Locked`); what it is about to ask for fits
with the refunds that are known (`Known`), so that the provider's sum can pass what was
paid only with a refund that no row knew of, which is what `blind` records. An event
that is late or comes twice cannot raise either sum, since it only copies what the
provider has already decided (a row is failed only if the refund is). `RefundInv` is
checked by TLC on the instance of `Billing_safety` too.

Type correctness is proved for `JobQueue`, `TenantMembership` and `TenantAccess`
(`TypeOK`, `AccessTypeOK`), `StorageFiles` (`StorageTypeOK`), `Messaging` (`MsgTypeOK`),
`AuthSessions` (`AuthTypeOK`), `Billing` (`BillingTypeOK`), `BillingOffers`
(`OffersTypeOK`), and `Accounts` (`AccountsTypeOK`). No run lists a type invariant.

Every invariant that a passing run lists is a theorem, and so are the action properties
and the two refinements. Only model-checked are the two liveness properties, `QueueDrains` and
`ReservationsReleased`, which need ENABLED and fairness; and of course the four
properties that a run shows to be violated.

## Not modelled, and the plan

Parts whose state changes are not actions of a module yet, the most rewarding first:

1. billing: tax settings, exchange and tax rates, currencies, translations of plans:
   rows of one statement each that no other row depends on.
2. db: the one-time upgrade in `runMigrations`; emails: preferences and suppressions;
   tenant: custom domains; api: push subscriptions.

Never in scope: rendering, media processing and validation of bytes, adapters of
providers (external; modelled as calls that succeed, fail, or fail after taking
effect), cryptography, configuration, observability, ui and documentation.
