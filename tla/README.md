# TLA+ specifications of the QR-code feedback backend

The program is a NestJS server on Postgres. A visitor scans a QR code and sends
feedback; the server stores it and opens a ticket for it in ClickUp, retrying
until it succeeds or gives up. Around that core stand the dashboard (clients,
sites, media, inventory, users), the ClickUp connection and Supabase's
authentication. One process serves everything; concurrency comes from `await`:
requests, crons and dashboard calls interleave at every one of them.

Paths below are relative to the repository (`src/` there is `src/src/` here).

## 1. Inventory

| Component | State | Operations | Interacts with |
|---|---|---|---|
| Feedback submission (`feedback/feedback.service.ts`) | `feedback_submissions`, `feedback_media` | `submit`: replay check, media verification, insert, first attempt | jobs, ClickUp, Cloudinary |
| Integration jobs and retry worker (`integration-jobs/`) | `integration_jobs`: status, attempts, `nextAttemptAt`, `externalId` | `createInitialJob`, `recordSuccess`, `recordFailure`, `findDueRetries`, `resetForRetry`; cron `processRetries` every minute | submission rows (same transaction), ClickUp |
| Reconciliation (`admin-feedback/feedback-reconciliation.service.ts`) | none of its own | cron `reconcile` every ten minutes: recover stuck submissions, remove those whose ticket is gone | jobs, ClickUp, dashboard's `remove` |
| Dashboard feedback (`admin-feedback/admin-feedback.service.ts`) | none of its own | `retry`, `remove`, listings | jobs, ClickUp, Cloudinary |
| ClickUp tickets (`clickup/clickup.service.ts`, `clickup-api.client.ts`) | five-minute cache of missing Companies | `createTicket`, the search for an earlier ticket, `ticketExists`, `deleteTicket`, `resolveClientEntityId` | ClickUp, connection |
| ClickUp connection (`clickup-connection.service.ts`, `clickup.controller.ts`, `railway-env-sync.service.ts`) | `clickup_connections`, environment token | boot upsert, OAuth callback, setup, `reconnectToken`, `markReconnectRequired` | every ClickUp call, Railway |
| Authentication (`auth/`) | thirty-second cache, in-flight map | `canActivate`, `verifyToken`, `invalidateUser` | Supabase, `admin_users` |
| Admin users (`admin-users/`) | `admin_users`, Supabase accounts | create, update, remove, reset password, inactivity cron | Supabase, auth cache |
| Clients and sites (`clients/`, `sites/`) | `clients`, `sites`, site codes | create, update, full removal | feedback removal, Cloudinary |
| CSV import (`csv-import/`) | batches, row results, counters | `processFile` per row | clients, sites |
| Inventory (`inventory/`) | items, each with the values it had before, ten rows if updates do not overlap | create, update, remove | - |
| Media (`cloudinary/`, `admin-media/`) | Cloudinary assets, `feedback_media`, usage cache with its promise | `verifyResource`, `destroy`, `getUsage`, `remove` | feedback |
| QR codes (`qr/`) | rendering cache and map of promises | `getOrRender` | sites |
| Public lookup (`public/`) | - | `resolveSlug` | sites |

What makes the system hard:

* **No claims.** Request, retry worker and reconciliation never lock a
  submission. They keep apart by the status of its job alone, and a tick that
  runs for more than a minute overlaps the next one.
* **Two systems without a transaction.** A ticket exists in ClickUp before its
  id is recorded; the answer may be lost, the process may die in between, a
  later step of the same call may throw.
* **Values read before an await.** The removal, the dashboard's Retry, the
  batch of a tick and the check of a ticket all act on what they read earlier.
* **Idempotency by search.** A retry looks for the ticket of a lost attempt by
  title and creation time, and only the first retry looks.

What makes each component correct:

* delivery: no two attempts at once, no ticket for what is delivered, row and
  job agree, exactly the allowed number of attempts, a recorded ticket is a
  real and fitting one, every job settles, a deletion in ClickUp comes back;
* connection: a stored token fits its workspace, a refused one is noticed and
  replaced, a fresh one is not downgraded for an old one's sake;
* authentication: a changed role or a deactivation takes effect at once or
  within the cache's life; users: at least one active Admin, both systems agree;
* catalog: unique site codes, a removal leaves nothing or everything;
* import: counters add up; inventory: the history is the end of the sequence of
  overwritten values, and does not grow; media: limits hold for what is
  accepted, rows and assets agree; Company lookup: no guessing, and a Company
  that was added is found; shared results: one making at a time, nobody waits
  for a promise that was dropped.

`PROJECT.json` lists the hazards at their lines, with the properties that
cover them.

## 2. Modules

| Module | What it is |
|---|---|
| `DeliveryPromise` | Abstract: what the feedback pipeline promises of one submission. |
| `FeedbackDelivery` | Detailed: submission, jobs, retry worker, reconciliation, dashboard Retry and Delete, and ClickUp. |
| `MCFeedbackDelivery` | Instances for TLC. |
| `FeedbackDelivery_proofs` | Its inductive invariant and theorems. |
| `ClickupConnection` | The stored connection: boot, OAuth, reconnect, setup, the calls that use it and the downgrade. |
| `MCClickupConnection` | Instances for TLC. |
| `ClickupConnection_proofs` | Its inductive invariant and theorems. |
| `AdminAccess` | Who may use the dashboard: Supabase's accounts, `admin_users`, the guard and its cache, creating, changing and removing users. |
| `MCAdminAccess` | Instances for TLC. |
| `AdminAccess_proofs` | Its inductive invariant and theorems. |
| `Catalog` | Clients and sites: creation, CSV import and removal while feedback arrives. |
| `MCCatalog` | Instances for TLC. |
| `Catalog_proofs` | Its inductive invariant and theorems. |
| `InventoryHistory` | Inventory items and their history under overlapping transactions. |
| `InventoryHistory_proofs` | Its inductive invariants and theorems. |
| `Attachments` | Photos and videos: which are accepted, and how rows and assets go. |
| `Attachments_proofs` | Its inductive invariant and theorems, and what its loop computes. |
| `CompanyMatch` | The lookup of a client's Company, over pages, with its cache of misses. |
| `CompanyMatch_proofs` | Its inductive invariant and theorems. |
| `SingleFlight` | Results several callers wait for: QR codes and Cloudinary's usage. |
| `SingleFlight_proofs` | Its invariant and theorems. |
| `MCParts` | Instances of `InventoryHistory`, `Attachments`, `CompanyMatch` and `SingleFlight`, side by side in one run. |

### FeedbackDelivery: state and code

* `status`, `taskId`, `submittedAt`, `job` are the two tables. `job[f] = NoJob`
  while a submission has none; removing a row cascades to its job.
* `creator`, `createdAt`, `live` are ClickUp's tickets; `creator` is the
  submission whose attempt created a ticket, which ClickUp itself does not know.
  `up` is false while calls fail (outage, or no usable connection).
* `att[p]` is a delivery attempt between two awaits: of the request
  (`deliverToClickup`), of reconciliation (`recoverStuckSubmission`) or of tick
  `k` of the worker. `pc` says which await comes next: `job` (createInitialJob),
  `search`, `create` (POST of the task), `link` (Company lookup inside
  `createTicket`, after the ticket exists), `succeed`, `fail`, and `adopt`
  (recording in reconciliation, where an error skips instead of failing).
  What happens inside `link` is `CompanyMatch`'s.
* `batch[k]` is what tick `k` snapshotted with `findDueRetries` and has not
  reached yet, with the number of attempts *as snapshotted*.
* `removal[r]` is a call of `remove()`, by the dashboard or by reconciliation:
  `exists` (asking ClickUp), `read`, `ticket` (deleting it), `row`.
* `resetting[a]` is a Retry request between its status check and its write.
* A `$transaction` is one action. Everything a handler does up to its next
  await is one action, with what it reads kept in the variables above.

Abstractions, all named in the module:

* *Time.* `nextAttemptAt` becomes a flag that some step sets; the search window
  of thirty minutes either side becomes equality of periods, and `Gap` passes to
  the next one. Reconciliation's threshold of five minutes becomes "the
  request is no longer in flight": all calls of a request time out long before.
* *Submissions* are named by idempotency key. A key whose row was removed is
  not submitted again: a request that verifies its media while a competing one
  is delivered and its row removed finds the key free in the code and inserts
  another row, of another id; here it fails. That row would be another submission
  of the same site, as `delivery` has two of. The site and client are active.
* *Reconciliation* runs per submission rather than in passes of batches; a
  submission is not taken up twice at once. Its check of the delivered ticket
  runs concurrently with everything else.
* *Tickets* are ids from `Ticket`, taken in a fixed order (`FreshTicket`);
  which id ClickUp gives does not matter.
* *Database errors* are modelled where the code's control depends on them
  (creating the job, saving a Company match, recording an outcome). Elsewhere an error ends a handler
  that then has changed nothing, as not taking the step does.

### DeliveryPromise

A submission is absent, open, delivered, given up or removed. It is delivered
with a ticket that existed before, only from open; a given-up one may be
reopened; whatever is delivered stays so until removed. `FeedbackDelivery`
implements it when ticks do not overlap and one Retry request is in flight at a
time. With two overlapping ticks TLC finds that it does not: the second tick's late failure
takes a DELIVERED submission back to DELIVERY_PENDING or DELIVERY_FAILED, because
`recordFailure` writes by id without looking at the status. Two concurrent Retry
requests do the same, and either can make reconciliation remove a submission whose
ticket is there. `PromiseKept` and `ReconcileRemovesOnlyGone` are therefore claimed for
`Tick = {k1}` and `Admin = {a1}` only, `OneAttemptAtATime` and
`NoTicketAfterDelivery` for `Tick = {k1}` and any number of admins; the other safety
properties for any number of both.

### ClickupConnection: state and code

`FeedbackDelivery` sees of the connection only whether calls succeed (`up`);
this module is what is behind it. It shares no variables with the other.

* `row` is `clickup_connections`, `upserts` the clock its `connectedAt` is read
  from: the order is all `findFirst ... orderBy connectedAt desc` looks at. That
  all lists and fields are configured is one flag.
* `variable` is `CLICKUP_API_TOKEN` as Railway will give it to the next process;
  `process` and `boot` are `onModuleInit`, which Nest awaits before it serves
  anything.
* `call[c]` holds what `getReadyConnection` gave a ClickUp call; `runClickupCall`
  takes it to `refused` on a `ClickupAuthError`, and the `updateMany` is a step
  of its own. Tickets' calls, the crons' and the dashboard's are the same here.
* `req[a]` is a request of the dashboard between two awaits: `teams`, `store`
  and `sync` of `reconnectToken`, `callback` of the OAuth flow, `fields` and
  `configure` of setup.
* `Crash` forgets everything but the table and Railway's variable. `Revoke` and
  `EditVariable` are people using ClickUp and Railway.

Left out: the signature of the OAuth `state`, encryption of the stored token,
the lists' and fields' ids, and what ClickUp is asked (`IsAuthError` is about the
answer only). A token once refused stays so.

### AdminAccess: state and code

* `account` is Supabase's `auth.users`, `profile` is `admin_users`; `recent` says
  whether the last login is less than 21 days old. The foreign key of
  `admin_users` cascades: `DeleteAuthUser` takes the profile with the account.
* `cache` is the `AuthCacheService`: the role of the cached row (only active rows
  are cached) and the ticks until the entry expires. `verify[t]` is the promise in
  the guard's `inFlight` map: `asked`, then `read` or `refused` when the database
  has answered and the continuation is still to run.
* `act[x]` is what a request, or the cron, does next: `waiting` for a promise,
  `in` the controller, and then the next await of `recordLogin` (`login`),
  `update` (`find`, `count`, `write`), `remove` (`toRemove`, `unaccount`,
  `unprofile`) or `create` (`email`, `account`, `profile`, `undo`). `forget` is
  `invalidateUser`, which runs when the answer to the write has arrived.
* `queue` is the cron's list as it was read; each user on it goes through
  `remove` like the dashboard's.
* `missed`, of a reading and of an entry, is not in the code: it remembers that
  the user was invalidated after the row was read and before it was cached.

Abstractions: SUPERVISOR, MANAGER and ADMIN_SUPPORT have the same rights (every
`@Roles` names ADMIN) and are one role, STAFF;
tokens are genuine and do not expire; a name changes nothing; an account id is
given once; the next night's sweep does not start before the last has ended
(the cron awaits users one by one, a day apart). Resetting a password touches
neither access nor the tables and is left out. `RolesGuard` runs on the role the
guard attached to the request, so `MayManageUsers` looks at `act`, not at
`profile`. A second Admin is never created or promoted (the DTOs exclude the role and
`uq_admin_users_single_admin` forbids it); `assertNotLastActiveAdmin` therefore
always refuses, and the Admin stays.

### Catalog: state and code

* `client`, `site`, `siteOf`, `batch`, `rows` are the tables `clients`, `sites`,
  `feedback_submissions`, `csv_import_batches` and `csv_import_rows`, with the
  unique keys and foreign keys the code relies on: a site's code is unique for
  its client, a client's deletion cascades to its sites, and feedback restricts
  the deletion of its site. A site's code is a number; its slug is its id.
* `add[x]` is a creation of a site between two awaits, of a dashboard request
  (`SitesService.create`) or of an import's row: `code` (`nextSiteCode`) and
  `insert` are the same for both; before them an import finds its client
  (`row`, `touchClient`, `newClient`) and looks for the site (`findSite`,
  `touchSite`), after them it writes the row's result (`saved`, `error`).
* `import[i]` has the row `processFile` is at and its two counters, which reach
  the batch only at its end.
* `removal[r]` is `ClientsService.remove`: `sites` and `next` are its queries,
  `read` and `delete` those of `AdminFeedbackService.remove`, `clear` is
  `deleteMany`, `client` the last delete. It is `aborted` when it has thrown.
* `raced`, `beaten` and `disturbed` are not in the code; they remember what the
  properties speak of.

Abstractions: names of clients, addresses and statuses are left out, and with
them the updates from the dashboard; a renamed site would be a new name to an
import. Parsing is the difference between valid and invalid rows. Why a submission is
accepted at a site is `FeedbackDelivery`'s and the guard's business; here it
only needs the row of the site. Ids are not given twice.

### InventoryHistory: state and code

* `item`, `value`, `history` are `inventory_items` and `inventory_history`; a
  history row is `changedAt` and the value before. `quantity`, `status` and
  `notes`, which a row keeps together, are one value.
* `edit[e]` is a request between two queries: `insert` of `create`; `begin`,
  `prune` and `write` of `update`, the transaction's statements after `findOne`;
  `delete` of `remove`.
* The transaction runs at READ COMMITTED, Postgres' and Prisma's default. Its
  row and its deletions become visible with `WriteUpdate`, which commits;
  `PruneHistory` sees what others have committed by then. The row it added
  references the item, so that a deletion of the item waits (`KeptByUpdate`).
  `changedAt` is `now()`, which Postgres reads when the transaction begins.
* `trail` and `raced` are not in the code: all values that were overwritten, and
  the items that were overwritten by an update that had read an older value.

### Attachments: state and code

* `form[f]` is what the DTO lets through, in order; `asset` is Cloudinary.
* `request[f]` is `submit` between its awaits: the verification (`new`), the
  insert of the row with its media (`insert`), the delivery (`deliver`). How the
  delivery goes is `FeedbackDelivery`'s; here it only takes time.
* `Accepted` is the loop with its two counters, as a recursive function.
* `discard[r]` is `AdminMediaService.remove` or `AdminFeedbackService.remove`
  after its read. Both destroy assets one after the other, ignore what goes wrong
  there, and then delete the row. The removal of the ticket before it is not
  repeated here.
* `spared` and `cutShort` are not in the code: assets whose destruction failed,
  and attachments of a removal that did not get to its rows.

Sizes are in units; a format is allowed or not.

### CompanyMatch: state and code

* `companies` and `card` are ClickUp's list: its order, and each Company's CLIENT
  ID and name. `PageOf` is what ClickUp answers to a page at that moment.
* `clientName` and `entity` are the client's name and `clickupEntityId`, `missFor`
  the `noMatchCache` as the ticks a miss is still trusted, `clientIdField` whether the
  connection has a `companyClientIdFieldId`.
* `link[c]` is a `createTicket` after its task exists: `resolve`, `page`, `save`
  (`cacheMatch`), `link`. `known` and `name` are the client's `clickupEntityId` and
  name as the delivery had read them (`createTicket` gets the client by value), `byId`
  the connection as the lookup read it. A call that throws ends it, which is `FeedbackDelivery`'s
  `LinkCompanyFails`.
* `EditCompanies` is people at work in ClickUp, `RenameClient` is
  `ClientsService.update`, `Setup` a repeated `POST /clickup/setup` after the CLIENT ID
  field came or went. None of them touches `noMatchCache` or a lookup under way.
* `edited` and `outdated` are not in the code: the list was edited during a lookup;
  and, since the lookup that ended in a miss began, the list was edited, the client
  renamed or the setup repeated.

A setup that chooses another Companies list is not modelled: to a lookup it is a list
edited throughout. A client's `clientId` never changes (`UpdateClientDto` has none).

### SingleFlight: state and code

`getOrRender` (a map by format and slug that never expires) and `getUsage` (one
entry for a minute) are the same protocol: `cached` is the entry, `inFlight` the
promise that is kept, `making` counts the renderings or fetches there really are,
`made` those that succeeded and whose result is not cached yet, `failed` holds the
results whose kept promise has rejected, and `asks` says who waits. A caller with a
good entry is answered at once and is not modelled. What follows a settled promise
(`then`, `finally`, the code after the `await`) is a step of its own: `CacheResult`
caches the entry and forgets the promise, `ForgetFailed` forgets a rejected one.
Whoever asks before that joins the settled promise and hears with the others; a
rejected promise that was never forgotten would reject every later caller, and
`AskedForIsMade` denies that. In `getOrRender` caching and forgetting are two
callbacks, one after the other; between them the entry answers whoever asks, so that
they are one step here, as in `getUsage`.

## 3. Runs

| Run | Instance | What it shows |
|---|---|---|
| `delivery` | 1 submission, 2 competing requests with its key, 1 tick, 1 admin, each kind of trouble once; or 2 submissions of one site with an outage, a lost answer, a gap and up to 3 tickets (~500,000 states) | Types; attempts never overlap; nothing is created for a delivered submission; reconciliation removes only what is gone; a recorded ticket is one its submission could have created; `DeliveryPromise` is implemented. |
| `delivery_overlapping_ticks` | 1 submission, 2 overlapping ticks, outage, crash, database error, external deletion, under fairness (~280,000 states) | Row and job agree, the budget is exact, every job settles, a deletion in ClickUp is noticed. |
| `duplicate_ticket` | 1 submission, 2 outages | Violation, see below. |
| `shared_ticket` | 2 submissions of one site, 1 outage | Violation, see below. |
| `removal_drift` | 1 submission, nothing fails | Violation, see below. |
| `stuck_submission` | 1 submission, 1 crash, fairness | Violation, see below. |
| `connection` | 2 workspaces, 2 tokens (one authorized for both), 2 admins, 1 call, everything once and two reconnects, fairness (~670,000 states) | A stored token is authorized for its workspace; a connection is marked only after a refusal; a revoked token in use does not go unnoticed. |
| `stale_refusal` | 1 call, 1 reconnect, 1 revocation | Violation, see below. |
| `catalog` | 1 client, 2 sites, 1 submission, 2 imports with different rows, 1 dashboard request, 1 removal, 1 failure (~6,000,000 states) | Site codes collide only with creations that came first; imports that do not race do not create a site twice; their counters fit their rows; a removal stops half-way only if disturbed. |
| `side_parts` | 1 item, 2 editors, a limit of 2 rows, 5 updates; 1 submission with every form of up to 4 attachments out of 7 kinds, 2 removals, a failure; 1 client, 2 tickets, 2 Companies on pages of one, an edit of the list, a rename or a setup, a failure; 2 results, 3 callers, 3 failures; fairness (~690,000 states) | The history is the end of the trail and near its limit; what is accepted is within the limits, and only what does not fit is refused; reasons fit; rows and assets agree; a match is the only one, a miss was right, a lasting match is found; a result is made once at a time and not while it is cached, and one that is asked for is made in the end. |
| `access` | The Admin and a staff member who is created in the run, 2 requests and the cron, a token each, each trouble once (~2,500,000 states, symmetric) | The Admin remains; the cache is out of date only in the cases `StaleOnlyIfOverlapped` names; accounts lose their profile by failures only. |
| `access_live` | The same, the staff member there from the start, a database error and a crash, fairness (~205,000 states) | Outdated access ends; a failed verification keeps nobody out. |

**Bounds.** `Budget[k]` bounds how often the environment does each thing
(outages, lost answers, database errors, crashes, external deletions, presses
of Retry, gaps); `MaxRequests` the requests of a key before its insert; `Ticket`
the tickets ever created. Submissions interact in three ways only: they share
the ticks' batches, the outages, and the search by title. One submission is
therefore enough for everything but the search, which gets two of one site:
the action constraint `AloneOrTogether` of `delivery` lets the second one come only
where nothing but outages, lost answers and gaps has happened, and leaves one that
stays alone every kind of trouble. Two
ticks and two competing requests are the smallest number that overlap. The
supply of tickets is large enough that `create` is never blocked in the liveness
runs. With one of each trouble every pair of failures can meet, and an attempt
can fail in each of the ways there are; `MAX_DELIVERY_ATTEMPTS` has its real
value, 3. `BATCH_SIZE` is 2 where the code has 20: with at most two submissions
a tick takes all that is due in either. `CHECK_DEADLOCK` is off: when every
submission is removed or given up and nobody presses Retry there is nothing left
to do.

The connection needs two workspaces for a token to be wrong for one of them,
two tokens for one to replace the other, and two admins for reconnects to
compete; one call suffices, as calls touch each other only through the row.

In `AdminAccess` requests meet at a user's rows and at a token's promise and
entry: two of them, beside the cron, are enough for a change to overlap a
verification, for two waiters of one promise, and for a removal between an
update's check and its write. The Admin and one other user are all the roles
there are. `TTL` is two ticks, so that an entry can age without expiring.
Nothing stops there: deadlock is checked.

In `Catalog` creators meet at one client's codes, so one client and two sites are
enough for a collision, for a taken code after a removal, and for two sites of
one name; three creators (two imports, one request) can beat one of them twice,
which is all of `MAX_CREATE_ATTEMPTS`, 2 where the code has 5. `MaxFailures` is a
query that fails or a restart. Ids run out, so deadlock is not checked. That a
code is used again by another client row, and that two removals compete, is
beyond this instance.

`MCParts` runs four modules that share no variable. A behaviour belongs to one of
them (`part`), and the others stay as they began: the state space is the sum of the
four, not their product. In `InventoryHistory` two editors are the least that
overlap, and five updates fill a history of two rows, prune it, overlap, and prune
again. Four attachments out of `Files` (at and beyond each limit, one of another
format) meet every pair of limits in every order; the code's five add one more that
is refused for a reason there already is. Long or large forms are not removed again,
as sizes do not matter to a removal. Pages of one Company and two Companies are the
least that an edit can come between; `MaxEdits` allows one edit, rename or setup, which
each part of two lookups and of a trusted miss can meet. The client begins with either
name as well, so with one. Deadlock is not checked: everybody may be done.

**Fairness.** Only weak fairness, and only of what the running process does by
itself: handlers continue after an await, the crons keep firing, a backoff ends.
One assumption is about the world: an outage ends. Nobody is obliged to submit,
retry, delete or break anything, and crashes are limited by the budget: a
process that restarts for ever delivers nothing. `ClickupConnection` adds that
there is always another call to make (the crons ask ClickUp every few minutes
while there is feedback): an unused token is not noticed to be revoked.
`AdminAccess` assumes that time passes, that every query is answered or fails
(Prisma and the Supabase client time out) and that handlers go on. `MCParts`
assumes that clients keep getting tickets and their lookups go on, that misses age,
that a rendering or a fetch ends, and that what follows a settled promise runs:
failing calls and restarts are bounded.

`Catalog` claims nothing that needs fairness.

### What the code does not guarantee

Five statements of the repository's comments are refuted. Each run checks just
that statement.

1. `AtMostOneTicket` (`duplicate_ticket`). `schema.prisma:401` promises one task
   per key and `clickup.service.ts:91-98` that nothing throws after a task is
   created. `resolveClientEntityId` (line 116) is awaited outside any try:
   when the Company lookup throws, the attempt counts as failed. If that was
   the second attempt, the third does not search and creates another ticket.
   No crash, lost answer or overlap is needed.
2. `TicketsAreNotShared` (`shared_ticket`). The search takes any single ticket of
   the same title in the window, also one another submission is recorded with.
   One of two submissions of a site is then marked DELIVERED without a ticket
   of its own.
3. `RemovalReachesClickup` (`removal_drift`). `remove()` deletes the ticket it
   read; a delivery in flight at that moment leaves a ticket no row names.
4. `EverySubmissionSettles` (`stuck_submission`). Between the insert and
   `createInitialJob` there is a gap; a restart there leaves a SUBMITTED row
   without a job, which no cron and no Retry picks up.

5. `ReconnectedIsSpared` (`stale_refusal`). `clickup-connection.service.ts:133-136`
   says the guard on CONNECTED avoids downgrading a connection reconnected a
   moment ago. The upsert of the reconnect sets CONNECTED again, so the guard at
   line 140 lets the late downgrade of the old token's call through and the fresh
   token is marked.

The properties of `Catalog` name what the code does not prevent: imports that look
for a site at the same time create it twice (`raced`), a row whose site is
removed before its result is written counts as success and as error, and
feedback that arrives during a removal makes `deleteMany` fail after part of the
feedback, with its tickets, is gone.

So do those of the other modules:

* Ten history rows are not a limit that holds. Two transactions that prune at the
  same time do not see each other's row and leave eleven, against
  `inventory.service.ts:131`; `HistoryNearLimit` is the bound there is, and TLC
  reaches it. An update over a value it had not read (`existing` comes from outside
  the transaction, line 137) records the older value twice and the newer one never;
  `HistoryIsTrail` excepts such items (`raced`).
* Reasons are paired with rows by index after the delivery. An attachment removed
  from the dashboard during it shifts them; `ReasonsFit` speaks of complete answers.
* `clickup.service.ts:142` says that a miss is never cached; lines 47 and 163 cache it
  for five minutes. `LastingMatchIsFound` is what remains true. A list edited between
  two of its pages can hide a Company or show it twice (`edited`). Nothing clears a miss
  early either: a client renamed in the dashboard (`clients.service.ts:112`) to the name
  of a Company that has long been there, or a setup that finds the CLIENT ID field,
  waits for the miss to expire; `MissWasRight` excepts both (`outdated`). A lookup that
  a rename overtakes saves the match of the old name, for good.

`EveryJobSettles` is the liveness that does hold: once the job exists, the
submission settles.

## 4. What is proved

Every safety property that a passing run checks, the action properties and the
refinement included, is also a theorem. All theorems are about the modules'
specifications as TLC runs them, for every value of the constants that satisfies
the named assumption of the module; TLC evaluates the assumptions on the runs'
instances.

### FeedbackDelivery

`FeedbackDelivery_proofs` proves, with TLAPS, for every value of the constants
that satisfies `DeliveryAssumption` (any sets of submissions, tickets, ticks and
admins, any titles, any `MAX_DELIVERY_ATTEMPTS >= 2`, any budget):

* `TypeCorrect`: `Spec => []TypeOK`.
* `RowAndJobAgree`: `Spec => []JobMirrorsSubmission`. Overlapping ticks and stale
  retries can make a submission go back, but never tear row and job apart.
* `BudgetIsExact`: `Spec => []AttemptBudget`.
* `RecordedIsAMatch`: `Spec => []RecordedTicketMatches`.
* `AttemptsDoNotOverlap`: `Spec => []OneAttemptAtATime`, assuming `OneTick`.
* `DeliveredGetNoTicket`: `Spec => NoTicketAfterDelivery`, assuming `OneTick`.
* `ReconciliationIsRight`: `Spec => ReconcileRemovesOnlyGone`, assuming `OneTick`
  and `OneAdmin`.
* `PipelineKeepsPromise`: `Spec => PromiseKept`, assuming `OneTick` and `OneAdmin`:
  `FeedbackDelivery` implements `DeliveryPromise`.

`OneTick` says that there is at most one tick (`\A k, l \in Tick : k = l`),
`OneAdmin` the same of Retry requests. They restrict the instance, not the
behaviours: a cron pass that takes longer than its minute and two administrators
who press Retry at once are possible in the code. With two ticks TLC finds all four
statements violated, with two Retry requests the last two (section 2,
DeliveryPromise): each theorem has just the hypotheses it needs.

None of these is inductive alone. The inductive invariant `IInv` adds

* `AttemptsInFlight`: an attempt belongs to an inserted submission, counts from
  one, and the ticket it carries matches. Without it nothing is known of what
  `recordSuccess` writes.
* `BatchesInserted`: a tick's batch names inserted submissions. Attempts come
  from batches, and `Insert` sets `submittedAt`: an attempt of a submission
  inserted later would lose its match.
* `NoJobYet`: until the request has created its job, the row is as inserted, or
  removed. `createInitialJob` may then make it PROCESSING without looking.
* `LiveAreCreated`: what a search finds was created by some attempt.
* `RecordedMatches`: the match of a recorded ticket, as attempts carry it.

The argument: each transaction leaves behind a row, job and ticket that `Agree`
(lemma `RowWritten`); a step that only moves an attempt on keeps the rest
(`AttemptOnly`); a new ticket disturbs none there was (`NewTicketFrame`); one
lemma per action shows that the action is one of these; `NextIInv` puts them
together.

The theorems about a single tick rest on a second inductive invariant, `Hands`:
a submission is in one hand at a time, and which hand it is can be told from its
job. `Claims` says what lets a hand have it: the request is about to create the job,
or the job is PROCESSING; for reconciliation it is PROCESSING; for a tick, which has
it in its batch or in flight, it is RETRYING; or the row is gone.
`Exclusive` says that no two processes have one submission, `OwnSubmission` that
the request and reconciliation have none but their own, `BatchDistinct` that a tick has a
submission once, and `ResetsAreOld` that a Retry request between check and write is
about a submission that the request has long let go of. With one tick the
batch is read again only when it has been worked off; this is where two ticks
break it.

With one Retry request at a time `Settling` holds in addition: what a Retry request
has read as FAILED is still so when it writes (`ResetsAreCurrent`), only DELIVERED rows
name a ticket (`OnlyDeliveredHasTicket`), and what reconciliation knows between
asking ClickUp and deleting the row is still so (`ReconcilerKnows`). The refinement
follows step by step: `RowMoves` lists what a step may do to the rows; one lemma per
action shows that it does one of these, and each of them is a step of the
promise or leaves its state alone.

### ClickupConnection

`ClickupConnection_proofs` proves, for all values that satisfy
`ConnectionAssumption` (any workspaces, tokens, teams, calls and admins):

* `TypeCorrect`: `Spec => []TypeOK`.
* `StoredTokensFit`: `Spec => []TokenFitsWorkspace`.
* `NoFalseAlarm`: `Spec => MarkedOnlyAfterRefusal`.

Its invariant adds what is known between check and use: what a booting process
(`BootFits`) or a request (`RequestsFit`) is about to store was checked for that
workspace, a setup configures a row that exists (an `update` would throw
otherwise; rows are never deleted), and a call taken for refused carries a
revoked token (`RefusedAreRevoked`).

### AdminAccess

`AdminAccess_proofs` proves, for all values that satisfy `AccessAssumption` (any
users, tokens, requests, TTL and budget):

* `TypeCorrect`: `Spec => []TypeOK`.
* `TheAdminRemains`: `Spec => []AdminRemains`. Needs `RootSpared`: no update of
  the Admin past its check takes role or status, and no removal past its own is
  of the Admin. The role is checked awaits before the deletion, and this is
  why it is still right then: nobody changes the Admin's role meanwhile.
* `CacheIsCoherent`: `Spec => []StaleOnlyIfOverlapped`. Needs `ReadsAreTracked`,
  the same of a row that was read and is not cached yet.
* `NoOrphansWithoutFailure`: `Spec => []OrphansComeFromFailures`. Needs
  `AccountGoesFirst`, that at a removal's last step the account is gone unless
  Supabase failed, and `IdsAreFresh`, that it cannot come back.

### Catalog

`Catalog_proofs` proves, for all values that satisfy `CatalogAssumption` (any
clients, a finite number of sites, any feedback, any number of dashboard requests,
imports of any files and removals at once, any number of attempts and failures):

* `TypesOfCatalog`: `Spec => []TypeOK`.
* `NoAttemptIsWasted`: `Spec => []CollisionsNeedCreations`. Needs `CodeFits`: a code
  that was picked and not yet inserted is larger than all codes of the client,
  unless others were created since. That the largest code plus one is larger than
  all is a lemma about `Max` of a finite set (`NextSiteCodeIsNew`).
* `RepeatedImportsReuse`: `Spec => []ImportsReuseSites`. Needs `LookupHolds`: what an
  import did not find is still not there when it inserts, or the race is on record.
* `CountersAgree`: `Spec => []CountersFitRows`. Needs `ImportsFit`: what the counters
  of an import are between two of its rows, and that a result may be counted ahead of
  its row only after a loss.
* `RemovalsGetThrough`: `Spec => []AbortsOnlyIfDisturbed`. Needs `RemovalsFit`: an
  undisturbed removal has all that is left of the client's feedback before it, in its
  site list or in the list at hand, and all it has before it exists.

### InventoryHistory

`InventoryHistory_proofs` proves, for all values that satisfy `InventoryAssumption`
(any items and values, any limit of at least one row, any finite number of
requests at once, any number of updates):

* `TypeCorrect`: `InventorySpec => []InventoryTypeOK`. The part that is not about
  types is that an item that is gone has no history: it needs `OpenEditsFit`, that
  the item of a transaction past its first statement is there, which the foreign key
  ensures.
* `HistoriesKeepTheLimit`: `InventorySpec => []HistoryNearLimit`. The bound is about
  committed rows, and a commit adds one while it deletes what an older read found
  in excess; it is not inductive. `OutcomesNearLimit` is: *whichever* of the pending
  transactions of an item are committed, the history they leave (`Outcome`) keeps the
  bound. A transaction that prunes adds itself to the pending ones, and what all of
  them leave is at most what this one keeps (`KeptAreFew`: never more than the limit)
  and one row for each other; a commit only moves a transaction from the pending ones to
  the past. It needs `TimesDiffer`, that no two rows, committed or pending, have the
  same `changedAt`, and that nobody deletes a row that is not committed yet.
* `HistoriesAreTrails`: `InventorySpec => []HistoryIsTrail`. Needs
  `UnmissedIsCurrent`: a request that missed no commit knows the item's value, is newer
  than all its rows, and deletes what is in excess now. A lemma about rows and
  sequences (`TrailGoesOn`) does the rest: to add a newest row to the end of a trail and
  to delete what is in excess gives the end of the longer trail.

### Attachments

`Attachments_proofs` proves, for all values that satisfy the module's assumption (any
submissions, limits and files, so forms of any length, any number of removals):

* `TypesOfAttachments`: `AttachmentSpec => []AttachmentTypeOK`.
* `LimitsAreKept`: `AttachmentSpec => []StoredWithinLimits`.
* `FirstComeFirstServed`: `AttachmentSpec => []RefusedOnlyIfNoRoom`.
* `ReasonsAreWithTheRefused`: `AttachmentSpec => []ReasonsFit`.
* `RowsAgreeWithAssets`: `AttachmentSpec => []RowsAndAssetsAgree`.

The second and third are about what a recursive function computes for every form.
The library's induction theorems cannot be used (they take an operator as
parameter), but induction over a *set* of numbers can: the positions up to which the
loop's counters are what they should be are a set, it holds zero and with each
number the next, and a least number outside it would contradict that (`WFMin`).
The same is done for the sum of the library over a finite set. The invariant adds
that what a request has verified is what the loop accepts of what it found
(`RequestsFit`), that rows say so (`RowsFit`), and that a removal has left no asset
of what it is done with, unless destroying it failed (`DiscardsFit`).

### CompanyMatch

`CompanyMatch_proofs` proves, for all values that satisfy the module's assumption
(any clients and names, any finite number of Companies, pages of any size):

* `TypesOfCompanies`: `CompanySpec => []CompanyTypeOK`.
* `OnlyTheOneFittingIsSaved`: `CompanySpec => []MatchIsTheOnlyOne`.
* `MissesWereRight`: `CompanySpec => []MissWasRight`. A trusted miss denies no Company
  that fits, unless the list was edited, the client renamed or the setup repeated
  since its lookup began.

The invariant is `PagesAreTheList`: what an unedited lookup has read is the
beginning of the list, each Company once and as it is now. A page that is not full is
the list's end, so what fits among the Companies read is what fits among all. What a
lookup saves is judged by the name and the field it has read itself, what it leaves as
a miss by those there are now: they are the same unless the client is `outdated`.

### SingleFlight

`SingleFlight_proofs` proves `TypeCorrect` and `MadeOnceAtATime`,
`FlightSpec => []OneMakingAtATime`, for any results and any finite set of callers.
Its invariant is `OnePromiseEach`: a promise is kept exactly from the beginning of one
making until its result is cached or its failure forgotten, with `NotWhileCached`: what
has a promise has no good entry.

### Model-checked only

The liveness properties (`EveryJobSettles`, `DeletionInClickupPropagates`,
`RevocationSurfaces`, `StaleAccessEnds`, `ActiveGetIn`, `LastingMatchIsFound`,
`AskedForIsMade`): they need fairness and ENABLED, which are outside the prover's
reach. The five statements of section 3 that do not hold have counterexamples and no
theorems.

## 5. Plan

All modules planned are written, with proofs of all their safety properties. Left,
in the order of what they would say about the system:

1. Safety cores of the liveness properties, that can be proved for any number of
   actors where the liveness is checked for few: of `EveryJobSettles`, that a job
   which is PROCESSING or RETRYING is in somebody's hands or will be seen by the next tick or
   reconciliation; of `AskedForIsMade`, that whoever waits does so for a promise
   that is being kept (done: `SingleFlight_proofs!TypeCorrect`).
2. A weaker promise that overlapping ticks and Retry requests keep: what may be
   taken back, and by whom.
3. The Railway variable, which two concurrent reconnects can leave behind the table;
   statuses of clients and sites, and what names mean outside the Company lookup.

## 6. Not modelled

Renaming a site and (de)activating clients and sites: an update of one row. Names
matter to the modelled properties in three places. To the Company lookup, where a
client's rename is modelled (`CompanyMatch!RenameClient`). To the title by which a retry
searches for its ticket: `FeedbackDelivery` keeps titles as they are, so what it says
of tickets holds between renames. And to an import, which finds sites by name:
`Catalog` leaves names as they are. Resetting a password. The public lookup of a slug, one read with the guard that
`Submit` has.
Not at all: rendering of QR codes and listing queries (pure I/O or pure
formatting), signatures and URLs, the throttler and other framework glue, and the
inspections tables, which have no service code.

## 7. Running

    tlc -workers 2 -config Delivery.cfg MCFeedbackDelivery
    tlc -workers 2 -config Connection.cfg MCClickupConnection
    tlc -workers 2 -config Access.cfg MCAdminAccess
    tlc -workers 2 -config Catalog.cfg MCCatalog
    tlc -workers 2 -config Parts.cfg MCParts
    tlapm FeedbackDelivery_proofs.tla
    tlapm ClickupConnection_proofs.tla
    tlapm AdminAccess_proofs.tla
    tlapm Catalog_proofs.tla
    tlapm InventoryHistory_proofs.tla
    tlapm Attachments_proofs.tla
    tlapm CompanyMatch_proofs.tla
    tlapm SingleFlight_proofs.tla
