# Quipthread: a TLA+ verification development

Quipthread is a comment widget with a moderation dashboard, self-hosted or as a
managed cloud.  This directory holds TLA+ models of the parts of its Go backend
(`src/backend/`) where concurrency, failures and time meet, TLC configurations
that check them on small instances, and TLAPS proofs of what must hold for every
value of the constants.

Contents: [inventory](#inventory), [modules](#modules),
[correspondence](#correspondence-with-the-code), [runs](#runs),
[bounds](#bounds-and-why-they-suffice), [fairness](#fairness),
[proofs](#what-is-proved), [findings](#findings),
[what is not modelled](#what-is-not-modelled), [plan](#plan).

## Inventory

### Digest outbox store (`db/notification_outbox*.go`, `db/comment_outbox.go`, `db/site_digest_materialization.go`)

* **State.** In the tenant's SQLite or libSQL database: one `notification_outbox`
  row per digest (a site's pending comments of one time window), one
  `notification_outbox_channels` row per digest and channel, the membership
  table `notification_outbox_comments`, and `comments`.  A row is pending,
  leased or terminal; it has an owner, a lease expiry, an `available_at`, and a
  claim counter that serves as the generation of its lease.
* **Operations.** Create a pending comment together with its digest; claim due
  digests; materialize a claimed digest; ensure, claim, acknowledge, retry and
  skip channels; finalize a claimed digest.  Each is one immediate transaction,
  repeated while the database is busy.
* **Interaction.** The comment handlers write comments and membership, the
  delivery worker does the rest, moderators change and delete comments in
  between, triggers remove the membership of a deleted comment.
* **Hard.** Leases that expire under their holder; claims that race at the
  expiry; timestamps read before a transaction that then waits; late comments;
  a comment put back to pending after its digest was skipped.
* **Correct when** nothing sent is undone, under a live lease only its holder
  decides, no pending comment is dropped without a notification, each comment belongs to
  the one digest of its window, and a claimed digest never grows.

### Legacy digest reconciliation (`db/legacy_digest_reconciliation.go`)

Digests that predate the membership table are claimed by an operator, then
reconciled (membership written, digest reopened) or retired.  Their channels may
be in any state and the regular worker claims the same rows.  Correct when it
touches no initialized digest, takes no comment of another digest and undoes no
channel that was sent.

### Cloud delivery worker (`notifications/cloud_delivery.go`, `cloud_delivery_worker.go`)

* **State.** None that persists: a pass has a deadline, a lease owner, the
  claimed digests, the snapshot of the configured channels.
* **Operations.** Every minute a pass walks all tenants; per tenant it claims
  due digests and takes each through materialize, list or ensure channels, claim
  channels, issue tokens, send, acknowledge or retry, finalize.
* **Interaction.** Calls the outbox store through a leased tenant store, and
  mail or webhook providers.
* **Hard.** A provider that accepts a batch and whose answer is lost; a crash
  between any two calls; passes of several processes; a pass that outlives its
  leases; moderation between materialization and the send; a channel
  configuration that changes between retries.
* **Correct when** it calls the store as the store expects, one pass delivers a
  digest at a time, nothing is marked sent that was not accepted, duplicates
  need a failure, and every digest that can be read is finalized in the end.

### Tenant store cache (`middleware/tenant.go`)

* **State.** A map and a recency list of open stores, a lease count per store,
  the opens under way (singleflight).
* **Operations.** Get or open, release, evict, close; expiry and capacity
  eviction happen inside them.
* **Interaction.** Requests, approval links and the delivery worker borrow
  stores from it.
* **Hard.** Retirement of borrowed stores, cancellation of the caller whose
  context the shared open uses, an account whose storage moves, shutdown during
  opens.
* **Correct when** no borrowed store is closed, every store is closed exactly
  once, a caller gets the store of its own account and location, concurrent
  callers share an open, and every call is answered unless its store is displaced
  over and over.

### Cloud delivery pass (`notifications/cloud_delivery.go`, `cloud_delivery_worker.go`, `main.go`)

* **State.** The worker's loop and `active` flag, the pass under way with its
  page cursor, its job channel and its goroutines, the store leases they hold.
* **Operations.** A tick starts a pass unless one is active; the pass collects
  the accounts page by page, hands them to a bounded number of goroutines and
  waits for them; `Stop` cancels and waits, up to its own deadline.
* **Hard.** Accounts created and removed between pages, calls that fail, a
  cancellation while a job is handed over, a server that stops meanwhile.
* **Correct when** every borrowed store is returned before the pass is over, no
  account that was there is skipped or taken twice, a shutdown drains, and
  every account is visited again and again.

### Comments, moderation and the self-hosted dispatcher (`handlers/comments.go`, `admin.go`, `import.go`, `notifications/dispatcher.go`)

* **State.** The rows of `comments`, shadow-bans, `sites.last_notified_at`.
* **Operations.** A post is screened, compared with recent ones, given a status
  and inserted, in as many statements; moderators write statuses, reply, import,
  delete and ban; a dispatcher pass reads the cutoff, counts and lists pending
  comments, sends one batch and moves the cutoff.
* **Hard.** Decisions taken on rows read earlier; a cutoff that moves after a
  send during which comments arrive; failed statements between the two.
* **Correct when** what the cutoff passed was mailed, nothing is mailed twice
  unless the cutoff did not come to cover it, and readers see only authors a moderator vetted.

### Rules and reactions (`middleware/blocklist.go`, `handlers/modrules.go`, `db/shared.go`)

* **State.** A tenant's blocked terms, the process-wide cache of each tenant's
  terms, votes and flags with their counters.
* **Hard.** A refetch that an edit overtakes; a counter beside its rows, foreign
  keys that only one connection enforces.
* **Correct when** a check after an edit that was flushed uses the edited terms,
  and a counter is the number of its rows.

### Accounts and sessions (`handlers/auth/`, `handlers/account.go`, `middleware/auth.go`, `session/`)

* **State.** Users, login methods, e-mail tokens, and in each user a session
  generation per audience; the sessions themselves are signed tokens in
  browsers.
* **Operations.** Registration, verification, login, reset, callbacks of
  providers, password change, disconnection, logout everywhere, roles and bans.
* **Hard.** Each is several statements without a transaction, and a token is
  signed from a row read before.
* **Correct when** a session that authenticates carries the role its user has
  now, none survives a ban, and a changed password ends what the old one opened.

### Approval links (`db/site_digest_approval_tokens.go`, `handlers/approve.go`)

* **State.** Token rows in the tenant's store; in the cloud also a locator per
  token and a registration per site in the control plane.
* **Operations.** A pass mints or retains one token per comment, publishes the
  locators, mails; a request resolves the link, decides and cleans up, in one
  transaction in the cloud and in three statements self-hosted.
* **Hard.** Two databases without a common transaction, retried digests,
  overlapping requests, sites deleted under a link.
* **Correct when** a mailed link works until it expires, decides or loses its
  comment, a comment has one link, and a link decides its own comment, in the
  cloud at most once.

### Schema migration (`migration/`)

* **State.** A lease per account and process, the database with its revisions,
  the Atlas process.
* **Hard.** Callers that give up waiting, a reference-counted lease, databases
  of historical releases that are completed before they are adopted, an Atlas
  process that outlives its server.
* **Correct when** a process migrates an account once at a time, the revisions
  tell the database's history, and an outcome claims no more than what happened.

### Tenant resolution and site registry (`middleware/tenant.go`, `embed_site.go`, `handlers/admin.go`)

* **State.** A site's row in its tenant's store and its registration (reserved,
  active, inactive) in the control plane; embed tokens in browsers; the tenant
  that a public request was resolved to.
* **Operations.** Create and delete a site, each with writes to both databases;
  resolve a public request by its site, verify the site, authenticate its
  token, check the origin, then read or write comments.
* **Hard.** Failures between the writes, a deletion that overtakes a creation,
  sites and comments that change under a request, ids that two stores share.
* **Correct when** a handler is reached with the store, the site and the token
  of the site's own account, a site keeps its registration while it has a row,
  and what serves has a row.

### The other components

| Component | State | Hard behaviour | Why it has no module |
|---|---|---|---|
| Rate limiting (`middleware/ratelimit.go`), spam heuristics | a window of timestamps per key | | under one mutex, or a function of one request |
| Control plane (`cloud/store.go`) | accounts, registrations, locators | external | an interface; `ApprovalLinks`, `DeliveryPass` and `Tenancy` model what its contract allows |
| Plans and quotas (`db/cloud_quota.go`, `plans/`) | limits per plan, comments per month | limits reached in a batch, two definitions of the plan | triggers of the database compare and count in the statement that inserts |
| Invitations (`handlers/invitations.go`) | in the control plane | external | calls to that interface |
| Import and export files | | sequential | conversion |
| Server, configuration, providers, user interfaces | | I/O | wiring |

`PROJECT.json` lists every component with its status and every hazard with the
line where it bites and the properties that cover it.

## Modules

| Module | Content |
|---|---|
| `DigestOutbox`, `MCDigestOutbox` | the outbox store, legacy reconciliation included: one action per store operation, called with any owner, any generation and any recent timestamp.  It is the abstract specification of what the store promises to its callers |
| `DigestDelivery`, `MCDigestDelivery` | EXTENDS `DigestOutbox`: passes of the worker over one tenant, the provider, failures; composed with the store it implements `DigestOutbox!Spec` (`ImplementsOutbox`) |
| `DigestProofs` | in three parts: the types, safety and action properties of the outbox; the worker implements the outbox; the safety of the worker |
| `DeliveryPass`, `MCDeliveryPass`, `DeliveryPassProofs` | the pass over all tenants, its goroutines, the tick and the shutdown; a call of a goroutine stands for one tenant of `DigestDelivery` under a lease of `StoreCache` |
| `StoreCache`, `MCStoreCache`, `StoreCacheProofs` | the tenant store cache: callers, singleflight opens, leases, retirement, shutdown |
| `Moderation`, `MCModeration` | comments of a self-hosted site and its dispatcher |
| `Readers`, `MCReaders`, `ReadersProofs` | blocked terms and their cache, votes and flags |
| `Accounts`, `MCAccounts`, `AccountsProofs` | users, logins, tokens, sessions |
| `ApprovalLink` | the abstract specification: what a link promises the moderator it was mailed to |
| `ApprovalLinks`, `MCApprovalLinks`, `ApprovalLinksProofs` | tokens, locators and requests in both deployments; implements `ApprovalLink` (`ImplementsLink`) |
| `Migrations`, `MCMigrations`, `MigrationsProofs` | the migration runner, adoption of old databases, Atlas |
| `Tenancy`, `MCTenancy` | sites in two databases, and the public requests that are resolved by them |
| `SitesProofs` | proofs about `Moderation` and about `Tenancy`, which share nothing |

Operators whose names begin with `Bug` are mutants: the definition they are
named for, with a plausible bug.  Nothing uses them, except that for every
property of every passing run `PROJECT.json` names one that breaks it.

## Correspondence with the code

`PROJECT.json`, under `map`, gives for each definition the lines it stands for.

### DigestOutbox

A step is one transaction.  SQLite serializes immediate transactions, and a
transaction that meets a busy database is rolled back and repeated, so that only
its commit is visible.  What survives of the waiting is the age of the
timestamps: callers read the clock, then wait.  Every operation therefore takes
a time `t` that lies up to `MaxStale` in the past.

* `parents[d]` is the `notification_outbox` row of digest `d`, where
  `d = <<interval, start>>` is the aggregate key; `channels[d][ch]` the channel
  rows; `members[d]` the membership; `comments[c]` the comment rows.  Absent
  rows have status `"absent"`, or `"none"` for a comment.  `untouched` is a
  history variable: nobody moderated or deleted this comment yet.
* `attempts` is the generation that fences the lease.
* `version` is `digest_membership_version`: 0 for legacy digests.
* `CreatePendingComment` includes the upsert of the digest; a digest that is
  leased, sent or uninitialized refuses, and the transaction is rolled back.
* `UpdateComment` is a moderator's PATCH, and the approval link; it writes any
  status.
* `interval` is the site's row; `DeleteSite` leaves `NoSite`, which comments and
  digests survive.
* `Materializable` stands for the checks of `MaterializeClaimedSiteDigest`,
  which skip and finalize repeat inside their own transactions; `Loadable` adds
  the site's row, which materialization and finalization read and a skip does
  not.
* `EnsureNotificationOutboxChannels` stamps the new rows with a captured time
  like every other operation: the code reads the clock before the transaction
  may have to wait.
* `Init` includes the upgrade of a tenant: legacy digests at `LegacyStarts`,
  pending or sent, with channels in every state, and comments without a digest.

### DigestDelivery

`pass[o]` is a pass over the tenant whose lease owner is `o`; every pass has an
owner of its own (a UUID), so a restarted process is another owner.  `pc` names
the next store or provider call; `at` is the captured `options.now()`, which the
code reads once per digest and again (`GoNow`) when a send is answered, before a
retry and before the last finalization; the call that uses it may come later.
Claims of digests and inserts of channels capture a time of their own.
`At(o, pc)` is the guard that the tenant's context is alive.  Every call that fails leaves the digest leased (`LeaveLeased`), as
`retryCloudParentAt` does.

The provider is external: a request may be accepted, rejected, accepted without
an answer, or accepted after its sender gave up.  `accepts` and `delivered`
record what it did.  `Fault` steps are failures of a send or of a store call, a
lost answer of a committed acknowledgement, and the end of a pass anywhere
(crash, deadline, shutdown); `MaxFaults` bounds them.

### StoreCache

A step is one critical section of `StoreCache.mu`, one of the singleflight
group, or one `Close` of a store, which the code calls outside the lock and which
may therefore be late.  `caller[p]` is one call of `GetOrOpenContext` from the
lookup to the release of its lease; `flight[p]` the open it started, if any, and
`flight[p].orphan` the closure variable in which the open leaves a store that
lost its slot.  `store[s]` joins the store with its `storeCacheEntry`;
`closing[s]` counts the calls of `Close` that were decided and are still to be
made.  A target is an account with a storage fingerprint.  `Forget`, a step of
`FairSpec` only, makes a closed store that nobody names unopened again: it is
another connection under a recycled name, so that a finite set of stores admits
any number of opens.

### DeliveryPass

A step is one receive, send or select on a channel, or one call.  `pass.pc`
follows `RunCloudTenantDeliveryPass`; `pass.queue` holds the accounts that
were collected and not yet handed over, and `slots[s]` a goroutine of `processCloudTenantDeliveryPage`.  A
select between a done context and a ready channel is a choice, as in Go.
`Pages(rest)` are the answers of `ListAccountLocators` that
`validateCloudDeliveryLocatorPage` accepts; one that it refuses ends the listing
as an error does (`ListFails`).  What is done with a store is one
call that comes back (`Tenant`): `DigestDelivery` says what it does.

### Moderation

`post[p]` is a request that posts a comment, with the status it has decided on
before it inserts; `pass` the dispatcher's pass, between whose statements posts
and moderators run.  `mailed`, `unmarked`, `slipped`, `vetted`, `wasShadowed`
are history.  `unmarked[c]` counts the deliveries of a comment that
`last_notified_at` did not come to cover: the update was lost, or the comment's
`created_at` lies in the future.  `slipped` are the comments that, the last time
they became pending, no listing was bound to see (`Behind`: the cutoff has passed
them, or a batch without them is under way), and those of a batch whose failure
was swallowed; a listing that takes them clears it.  `Import` inserts any status
with any time, of the future too, as `ImportComments` does.

### Readers

`check[r]` holds the mutex of `termsCache` from the miss to the store, and the
fetch is a step of its own, because editors change the table without it.
`edit[e]` is a request of `ModRulesHandler` between its statement, the answer of
it, which may be an error although the row is there (`"answer"`), and
`InvalidateBlockedTermsCache` (`"flush"`); `changed` are its terms, and
`unflushed` those whose request failed before the flush.  Votes and flags work alike, so one relation with
its counter stands for both.

### Accounts

`request[r]` is a handler between two statements, `request[r].pc` its next one.
`sessions` are the tokens browsers hold: the user, the role, the audience and
the generation that were signed, and history about the password and the bans at
the time.  `Valid(s)` is what `authenticate` checks.  `unbumped` names users
whose password change lost its second statement.

### ApprovalLinks

A step is one statement, transaction or call.  `issued[t]` is what the row of
`t` holds, `rows` and `locators` say where it is.  The cloud's decision is the
transaction of `ConsumeApprovalToken`, split at its read, because the read does
not take SQLite's write lock; `click[r].pc` names the call still to be made.
`deployment` is chosen in the initial state.  In the refinement, a request that
was let through and has not decided is *asked*; `Mint` and `CreateToken` issue,
`ConsumeWrite` and `WriteComment` decide, ends of requests and restarts drop.

### Migrations

A step is one critical section of `accountLocks`, one transaction, or one file
that Atlas applies.  `leases[l].token` is who holds the lease's channel.
`db[a].missing` are the tables and columns a historical release lacks; `atlas[a]`
who runs Atlas, which may be an `Orphan` whose server is gone.  Atlas is
external: that it records a file in the transaction that executes it, and that
it locks the database, are assumptions.

### Tenancy

A step is one call of a store or of the control plane.  `request[r].pc` is the
next call of a public request: `"verify"` and `"origin"` are its two readings of
the site's row, `"handle"` is the handler before its first call, `"write"` the
one between the check of a comment and its change.  A request that carries a
token carries any that was issued.  The checks that can only end a request are
not modelled one by one: `GiveUp` ends it anywhere, which includes users,
origins, plans, limits, and the lease of the store (`StoreCache`).
`operation[o]` is a creation or deletion; `Abandon` is each of its failures, and
a crash.  Dashboard requests act on the account of their session with one call
(`ImportComment`, `DashboardDelete`).  `owner` is a history variable, the account
a site id was made for.

The control plane is external.  `cloud/store.go` says that a reservation never
changes the owner and that transitions apply to an entry of the same account; it
does not say whether an inactive entry can be activated, so `ActivateSite` does
it and records the site in `overtaken`, the exception of `ActiveSitesExist`.  A
connection that does not enforce foreign keys deletes a site with comments and
takes comments of any site.

## Runs

Passing runs check all their properties on the full bounded state space; each
violation run checks one statement of the repository that the code contradicts
(see [findings](#findings)).

| Run | Checks | Shows |
|---|---|---|
| `outbox` | `FinalizedIsComplete`, `NoSilentDrop`, `MembershipInWindow`, `TerminalRowsStay`, `MembershipFrozen` | a caller that may be stale acts on overlapping digests, legacy ones included, while comments arrive at window ends and late, and are moderated |
| `delivery` | `ImplementsOutbox`, `OneWorkerPerDigest`, `SentWasDelivered`, `HolderDecides`, `SendsUnderLease`, `ChannelSetFixed` | overlapping passes over one tenant with a failure anywhere, comments moderated and the site deleted meanwhile, configurations that differ |
| `delivery_live` | `EventuallyFinalized`, `DuplicatesNeedFaults` | five passes, two failures or interruptions by moderators, who write known and unknown statuses and may delete the site: every open digest that can be read is finalized, and a batch is accepted again only after a failure |
| `delivery_first_pass` | `FirstPassDelivers` (violated) | the first pass over a digest cannot claim the channels it inserts |
| `delivery_pass` | `LeasesAreReturned`, `PassIsComplete`, `ShutdownDrains`, `AccountsAreRevisited` | three accounts, pages of one, two goroutines; accounts come and go, calls fail, the server stops |
| `store_cache` | `BorrowedStaysOpen`, `ClosedOnce`, `RightStore`, `OnlyAbandonedStoresLeak`, `OpensDeduplicated`, `Answered`, `ShutdownClosesAll` | the cache with one slot for which three targets compete any number of times, an account that moved, a caller that is cancelled |
| `moderation` | `PassedWasMailed`, `MailedOnce`, `VisibleWasVetted` | posts, moderators, imports of any time and the dispatcher interleave statement by statement |
| `readers` | `CachedTermsCurrent`, `CountersFollowRows` | two editors, whose requests may fail after the change, against two checks; a reader against deletions |
| `accounts` | `ValidSessionsAreCurrent`, `OldPasswordsAreRevoked` | requests of every kind interleave and stop anywhere |
| `links` | `MailedLinksWork`, `OneLinkPerComment`, `ImplementsLink` | two passes and two requests, in both deployments |
| `migrations` | `OneMigrationAtATime`, `RevisionsAreHistory`, `OutcomesAreHonest` | three callers in two processes on a database of every age |
| `tenancy` | `ServedFromOwnTenant`, `SitesAreClaimed`, `ActiveSitesExist` | a public request with the tokens of two accounts, two sites that are created and deleted by two operations, a comment under one id in two stores |

Type invariants are theorems and not checked again by runs.  Deadlock is checked
in `tenancy`.  The other configurations say `CHECK_DEADLOCK FALSE`: their models
end where a bound is reached and every call has been made, which is not a
deadlock of the program.

## Bounds, and why they suffice

* **Time** is counted in units in which leases, deadlines, lifetimes and windows
  are 1 or 2 long.  Every comparison of the code is between sums of these and a
  reading of the clock, so what matters is their order: before, at and after an
  expiry all occur, and `MaxTime` leaves room for a lease to expire and its
  successor to run.  `ParentLease = ChildLease = TenantTimeout` is the tightest
  choice that `normalizeCloudTenantDeliveryOptions` accepts.
* **Attempts** (`MaxAttempts`) of 2 or 3 let a row be taken over; a third
  generation adds no new relation between a stale and a current holder.
* **Owners, passes, requests, callers**: two, because the races of the code are
  between two parties; three callers in `migrations`, so that one waits while
  another gives up and a third holds; five owners in `delivery_live`.  The pass
  that inserts a digest's channels cannot send it, so two owners are one send: a
  duplicate takes a third pass, and the exceptions of `EventuallyFinalized` two
  more.  Deliveries that are accepted twice and three times do arise there.  An
  interruption by a moderator counts as a failure in that run, which makes its
  bound on duplicates wider than that of `DuplicatesAreFaults`, where moderators
  act freely and only failures count.
* **Comments, channels, tokens**: two of a kind where a property relates two of
  them (one sent and one skipped channel, an old and a new token), one
  otherwise.
* **Moderators' statuses**: in `delivery_live` the three documented ones and an
  unknown one; in `delivery` an approval and its withdrawal, which are all that
  membership and batches tell apart.
* **Deliveries** (`MaxMails` in `moderation`): two, the second being the one that
  needs an excuse.  Times are 0 to 2, and imports may carry those still to come.
* **Windows**: intervals 1 and 2 make windows that overlap and differ.
* **Accounts of a pass**: three with pages of one make two page boundaries, so
  an account can appear or vanish before, at and behind the cursor.
* **Generations and passwords**: a generation of 2 has one ban or change before
  and one after it; `MaxRequests` of 5 admits a registration, a login and the
  change, the ban and the reset that run into them.
* **Tenancy**: two accounts, two sites and one comment id that both stores may
  hold are what a request can confuse; a login of one request makes the token of
  the next.  Two operations let a deletion meet a creation, or another deletion.
  There is no site from before the registry in the run.
* **Failures and crashes** (`MaxFaults`, `MaxCrashes`): one where one changes
  the outcome, two in the liveness runs.
* **Cache**: one slot and three targets make every insertion an eviction and
  every move of `a1` a mismatch; two stores are the opens two calls make at a
  time, and `Forget` recycles them, so that the loop of `GetOrOpenContext` can
  displace and reopen without end: the run has those behaviours, and `Answered`
  would fail without its exception.

The proofs remove these bounds from everything they cover; a constant such as
`MaxFaults` is then any natural number.  Two claims of one row and two channels
of one digest are beyond the bounds of `outbox`; `delivery` makes them, and the
theorems about the outbox cover them for every caller.
Elements that are only compared for equality are symmetric where no liveness is
checked.  In `delivery` channels are left out of the symmetry, because
configurations are sets of channels given by an operator.

## Fairness

`PunctualSpec` (for `EventuallyFinalized`) assumes weak fairness of

* each step of a pass: a goroutine that is not blocked runs, and SQLite calls
  return;
* the start of a pass when a digest is due and no pass is active: the ticker of
  `CloudTenantDeliveryWorker.loop`;
* the provider's processing of a request, and the clock.

It also says that the clock does not run ahead of the worker (`PunctualClock`):
calls take no time on the scale of a lease, except that a send may take long
within the deadline and two readings of the clock differ.  Without that a
digest need not be finalized: a worker that is always slower than its deadline
starts over for ever.  Failures are not fair and are bounded.  Moderators act
freely between the passes.  What they do under one may cost it the digest, and
moderators who do so in every pass delay the digest for ever; `RoomLeft` counts
those interruptions with the failures, and is the only place where the property
refers to a bound.

`DeliveryPass` assumes that the loop ticks, that each goroutine runs, that the
call about a tenant comes back (its context has a deadline), that a listing
answers or fails, and that a goroutine does not prefer one branch of a select
for ever.  Signals, failures and changes of accounts are not fair.  `Stop` may
give up at its own deadline; `ShutdownDrains` says that the worker ends all the
same.

`FairSpec` of the cache assumes that goroutines run, that openers return, that
`Close` calls are made once they were decided, and that handlers return, which
releases their leases.  Calls, cancellations, eviction, shutdown and time are
not fair: they need not happen.  No fairness of the code ends the contest of two
targets for one place, so `Answered` exempts a caller whose store is taken out of
its slot again and again while it waits (`Displaced`), and promises an answer to
every other.

## What is proved

TLAPS checks the following for every value of the constants that the `ASSUME`s
allow (those say little more than that counts and times are naturals, that
leases cover the deadline, and that null values are not members of their sets).
Every module but the abstract `ApprovalLink` has a theorem that its variables
keep their types; the others are these.

* **Outbox** (`DigestProofs`, part I): `FinalizedDigestsAreComplete`,
  `NoCommentIsSilentlyDropped`, `MembersBelongToTheWindow`, and the action
  properties `TerminalRowsNeverChange`, `ClaimedMembershipIsFrozen`,
  `LiveLeasesAreKept`.  The inductive invariant `IInv` adds what a finalized
  digest must have been before: an untouched member comment is pending, no
  channel is skipped while its digest is open, is uninitialized, or has an
  untouched member, and a comment belongs to one window.  `NoSilentDrop` alone
  is not inductive: a state in which a digest with an untouched comment has a
  skipped channel satisfies it until the digest is finalized.
* **Worker** (`DigestProofs`, part II): `WorkerImplementsOutbox`, every step of
  the worker is a step of `DigestOutbox` or leaves the store alone.  The
  invariant is `ArgumentsSound` (theorem `WorkerArguments`): whatever claim,
  generation and captured time a pass carries denotes a call that the outbox
  allows; it needs the deadline, because only a live context keeps the captured
  time recent.  `WorkerDropsNothing` and `WorkerKeepsLeases` carry `NoSilentDrop`
  and `LiveLeaseKept` over to the worker by refinement.
* **Safety of the worker** (`DigestProofs`, part III), from four invariants.
  * `LeasesInv` gives `OneWorker`, `SendsHoldLeases`, `OnlyHoldersDecide` and
    `ChannelsAreChosenOnce`: a pass that has time left holds the leases, with
    their generations, of every digest it claimed (`ClaimsHeld`) and of every
    channel it claimed for the current one (`ChildrenHeld`), and a digest it is
    about to insert channels for has none (`NoRowsYet`).  That two passes do not
    work on one digest is not inductive without it: nothing would relate what a
    pass remembers of a claim to the row that another pass claims.  That the
    deadline is no longer than a lease is used here.  `OnlyHoldersDecide` is an
    action property of both kinds of row: `ParentChange` and `ChannelDecided` say
    which steps change one under a live lease, and that each is its holder's
    finalization, acknowledgement, retry or skip.
  * `SentInv` gives `SentIsDelivered`: the batch of a pass holds every member that
    nobody moderated (`BatchesComplete`), and what the provider accepted, or a
    pass is about to acknowledge, was shipped with the batch
    (`AcceptedWasShipped`).  `RowsOfClaimed`, that only claimed digests have
    channels, keeps later members out.
  * `BlameInv` gives `DuplicatesAreFaults`, a count for any number of sends:
    acceptances and requests still on their way are at most the failures, plus
    the passes that are overdue, plus one.  The one is excused while a pass may
    still acknowledge it, or it was acknowledged.
  * `FirstRowsInv` gives `FirstPassNeverSends`: rows inserted under a digest's
    first claim are available only after the time that every pass able to claim
    them carries.

  `WindowFence` says that the worker, legacy digests included, leaves a digest at
  the end of its window.
* **Pass** (`DeliveryPassProofs`): `LeasesComeBack` and `PassMissesNobody`.  The
  invariant says that leases are those of the goroutines (`Loads`), which
  goroutines run in which phase of the pass (`Phases`), that the queue is in
  order and not yet taken (`QueueSound`), and that an account that stayed is
  ahead of the cursor, in the queue, or was taken (`Complete`).
* **Cache** (`StoreCacheProofs`): `NoBorrowedStoreIsClosed`,
  `NoStoreIsClosedTwice`, `CallersGetTheirStore`, `CacheStaysConsistent`,
  `NoOtherStoreLeaks`.  `IInv` keeps the books of each store (`StoreInv`): its
  lease count is the number of its borrowers; a cached store has no `Close` made
  or decided; a retired one has exactly one as soon as nobody borrows it, and
  none before; any other opened store has at most one, and while it has none it
  is the orphan of an open.  `SlotInv` says that the map and the recency list
  name the same stores, `OrphanInv` where an orphan may be.
  `ConcurrentCallersShareAnOpen` needs two facts more: no two opens of one
  target are under way, and a target that is being opened is not live in the
  cache.
* **Readers** (`ReadersProofs`): `CacheFollowsTerms` and `CountersAgreeWithRows`.
  Two facts make the first inductive: one check at a time holds the mutex
  (`OneCheck`), and what it fetched is, term by term, what the table holds, unless
  a request that changed the term has still to flush, or failed before it
  (`FetchedIsCurrent`, `Excused`).
* **Accounts** (`AccountsProofs`): `SessionsCarryCurrentRights` and
  `OldPasswordsDie`.  The property says nothing of sessions that do not
  authenticate, so the invariant compares generations: none is ahead of its
  user's, and a session that is level with it has the current role, ban count
  and password (`SessionsSound`).  That rests on what rows and requests say of
  users that exist (`RowsSound`, `RequestsSound`), and on nobody but
  administrators knowing a user that is being created (`NewUsersAreAlone`).
* **Links** (`ApprovalLinksProofs`): `LinksAreUnique`, `MailedLinksKeepWorking`
  and the refinement `LinksImplementLink`.  `MailedLinksWork` is not inductive: a
  pass must hold on to its tokens before they are mailed.  `PassesSound` says
  that each token of a pass that may still decide has its row, and its locator
  or the pass is about to publish it; `ClicksSound` that a request that deletes a
  row or a locator has decided, or found the comment gone; `SpentGone`, that in
  the cloud no row is left of a link that decided, is what makes it single-use.
* **Migrations** (`MigrationsProofs`): `MigrationsAreExclusive`,
  `RevisionsTellTheHistory`, `OutcomesTellTheTruth`, `ForeignDatabasesStay`.
  `LeaseInv` counts: the references of a lease are the calls that have joined
  it, so that it leaves the table only when nobody can take it any more.
  `WorkInv` says what a call has established about its database by the time it
  makes the next step.
* **Moderation** (`SitesProofs`): `PassesSkipNothing`, `RepeatsAreUnmarked`,
  `VisibilityIsEarned`.  The first speaks of `last_notified_at`, which moves only
  at the end of a pass; `NothingForgotten` says what holds on the way, that a
  pending comment behind the listing's cutoff is in the batch or covered.  Both
  hold of comments with any `created_at`.  `MarksCount` says that the cutoff is
  never of the future, and that a comment that may be listed again was mailed for
  `unmarked` deliveries only, and `ApprovalsEarned` extends the property from what is visible to what is approved,
  and to posts that have passed the screen but are not inserted yet.
* **Tenancy** (`SitesProofs`): `RequestsStayWithTenant`, `RowsAreClaimed`,
  `ServedSitesExist`.  `PlaneInv` relates the two databases through the operations
  between them: registrations, rows and operations are those of the account the
  site was made for (`RegistrationsOwned`, `RowsOwned`, `OperationsOwned`), and
  what an operation found or did still holds when it makes its next call
  (`OperationsInStep`), in particular a row about to be inserted is of a site that
  no other operation knows.  A request keeps the account that its site was
  resolved to, and past authentication the token is of both (`RequestsOwned`);
  the comment it is about to change is its site's (`TargetsRead`).

Only model-checked: the liveness properties (`EventuallyFinalized`,
`ShutdownDrains`, `AccountsAreRevisited`, `Answered`, `ShutdownClosesAll`), which
are beyond the prover.  Every invariant and every action property of the passing
runs is a theorem.

## Findings

**The first pass over a digest never sends it** (`delivery_first_pass`).  A
pass reads its time, then inserts the channel rows with a later `available_at`,
then claims them with the earlier time, and finds none.  The digest waits for
the expiry of its lease.  The test that expects a send in the first pass sets
the pass's clock a minute ahead.  `FirstPassNeverSends` proves it of every
digest, whatever the number of passes, comments and channels: a digest with a
leased or sent channel has been claimed twice.  `EventuallyFinalized` holds
nevertheless.

Other behaviour that the models show and that a maintainer may want to know:

* The moderator's PATCH stores any non-empty status.  A status outside the
  documented three makes every digest with that comment fail materialization as
  malformed, for all its other comments too, until it is repaired.  A deleted
  site does the same to its digests for good: they are claimed
  again and again and never finalized.  `EventuallyFinalized` names both (`Readable`).
* Two accounts, or two locations of one, that want the last place of the store
  cache can displace each other's store between the open and the next look into
  the cache, and nothing in `GetOrOpenContext` ends that loop (`Answered`);
  `middleware/tenant.go:138` says that a cold burst invokes the opener exactly
  once, which holds of opens of one target at a time (`OpensDeduplicated`).
* A rule that is added is read back (`db/shared.go:1286`); if that read fails,
  the request ends with an error and before `InvalidateBlockedTermsCache`
  (`handlers/modrules.go:117-121`), although the rule is stored.  The comment at
  `middleware/blocklist.go:82` asks to call it "after any blocked_terms
  mutation".  Checks then go on without the rule until the cached entry expires,
  after a minute.  `CachedTermsCurrent` exempts exactly those terms (`unflushed`)
  and no other.
* A pending comment that is imported with a `created_at` in the future is mailed
  by every pass until that time has come, because each sets `last_notified_at` to
  its own; `notifications/dispatcher.go:67` says that the cutoff "prevents
  re-notifying for the same comments on every subsequent dispatch cycle".
  WordPress's local times are read as UTC, so the last hours of a site
  east of Greenwich meet this without anybody's mistake.  `MailedOnce` counts
  those deliveries (`unmarked`).
* Two administrators who change one user read the row and write it back
  (`handlers/admin.go:195`): the later write restores what the earlier one
  changed.  The generation rises all the same, so no session is left that
  `ValidSessionsAreCurrent` would complain of; the ban is lost.
* Whether a comment needs a moderator is decided from approvals that are counted
  before the insert (`handlers/comments.go:368`).  One that is withdrawn in
  between publishes the comment all the same; `VisibleWasVetted` asks for an
  approval at some time and does not see it.
* The orphan of an open is closed by the caller that started it only; when that
  caller stops waiting, nobody closes the store.  `OnlyAbandonedStoresLeak`
  shows that there is no other leak.
* Self-hosted, a link may decide twice: both requests read the token before
  either deletes it.  `ApprovalLink` calls this deployment not single-use.
* A comment that becomes pending while the dispatcher sends is older than the
  next cutoff and is not mailed, and neither is one that is put back to pending,
  or imported, behind the cutoff; `NotifyBatch` returns no error when its channels
  fail.  `PassedWasMailed` names these as its exceptions (`slipped`).
* The password of a login and the generation that ends its sessions are written
  by two statements; between them, and if the second fails, older sessions
  remain valid (`unbumped`, `Changing`).
* `DELETE` of a site can overtake its creation: it finds the row, deactivates
  the reservation, and if the control plane activates inactive entries the
  creation then activates a site whose row goes (`overtaken`).  A public request
  for it fails at `VerifySite`.
* A creation that the quota refuses leaves a reserved registration behind, under
  an id that no later creation uses: each makes a new one.
* Comments that are imported anew between a request's check of a comment and its
  write put another comment under the same id (`replaced`);
  `ServedFromOwnTenant` exempts that request.
* An Atlas process that outlives its server is seen by `OutcomesAreHonest`
  alone; `OneMigrationAtATime` is about the leases of a process.
* `ChannelSetFixed` is about channel configurations that differ between passes;
  in production e-mail is the only channel a digest can have today, and the
  property guards the schema rather than a present hazard.
* The account page refuses to disconnect the only login method
  (`handlers/account.go:174`), but counts before it deletes, and deletes every
  login of the provider: two requests, or one for a provider that was linked
  twice, leave a user with none.

## What is not modelled

* Payloads, formatting, HTML, logging, and the schema's SQL beyond what the
  predicates of the operations say.
* Ties in claim order (`created_at`, `id`): any of the tied rows may be taken.
* The generic enqueue, acknowledgement and retry of a parent row, which nothing
  in production calls for a digest.
* Listing, paging and editing of comments, profiles, site settings other than
  the notification interval.
* OAuth state and the providers' protocols; what bcrypt and the signatures do: a
  password matches or not, a token cannot be forged.
* What opening a store does, and a `Close` that fails.
* The rate limiter, one critical section per request, and the spam heuristics.
* Plans and quotas.
* Deleted accounts and team membership in the resolution of a tenant, and how an
  origin is matched with a domain.
* The control plane, Atlas and the notification providers, except for the
  answers they may give.
* 64-bit overflow of window arithmetic: times are natural numbers.
* Configuration, routing and the user interfaces.

## Plan

Done: `DigestOutbox`, `DigestDelivery`, `StoreCache`, then `Moderation`,
`Readers`, `Accounts`, `ApprovalLinks` under `ApprovalLink`, `Migrations`,
`DeliveryPass` and `Tenancy`, each with its run and its proofs.

Left, in this order:

1. The composition of `DeliveryPass` with `StoreCache`: the shutdown of the
   worker before the one of the cache.
2. The rate limiter against the definition "at most `count` in any period", and
   the int64 arithmetic of `siteDigestWindow`.
