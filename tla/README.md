# A verification project for Hamkari

Hamkari is a single-server Node.js application (Node 24, `node:sqlite`) in
which an organisation runs its projects: public calls for contributions,
cap table and share transfers, meetings and resolutions, double-entry
accounting, operations, documents and notifications.  This directory holds
TLA+ specifications of its core logic, TLC configurations that check them on
small instances, and proofs, checked by TLAPS, of what matters most for every
instance.  Paths in this file are relative to the root of the repository.

Contents: [the system](#1-the-system), [how it is modelled](#2-how-it-is-modelled),
[the modules](#3-the-modules), [runs and bounds](#4-runs-and-bounds),
[what the code does not do](#5-where-the-code-departs-from-what-it-says),
[proofs](#6-proofs), [what is left](#7-what-is-not-modelled-and-the-plan).

## 1. The system

Most store functions run in one `IMMEDIATE` SQLite transaction
(`withTransaction`, `src/database.js:36`); several of `src/platform-store.js` and
`src/identity-store.js` write without one.  The connection is synchronous and the process
has one thread, so that, with the exceptions noted below, an operation is atomic to the
others of its process either way.  What
makes the system hard lies between operations: long sequences of legal calls,
decisions that rest on state read earlier, work that is awaited outside any
transaction (providers, request bodies, event streams), crashes between a commit
and what follows it, and other processes that open the same database (operator
tools, backup and restore, a second server during a restart).

| Component | Source | State | Operations | Hard behaviour |
|---|---|---|---|---|
| Notification outbox | `src/notification-worker.js`, `src/enterprise-hub-store.js`, `scripts/manual-notification.js` | rows with status, attempts, lease, next attempt | enqueue; claim, send, mark; confirm, retry, cancel; manual reveal | provider awaited outside the transaction, leases, crashes, three kinds of process |
| Double-entry ledger | `src/enterprise-finance-store.js` | accounts, periods, entries and lines | draft, add line, post, reverse; open, close, reopen | drafts outlive the state they were checked in; reversal of reversals |
| Invoices and payments | same | invoices, payment intents | issue, void; create, confirm | an intent is confirmed long after its invoice was looked at |
| Order of needs | `src/store.js` | position and status of each need | create, edit, archive, reorder | range updates of many rows, limit on active needs |
| Proposals | `src/store.js` | proposals, keys, decisions | submit, patch, track | several proposals for one need, repeated requests |
| Identity cases | `src/enterprise-finance-store.js` | cases and checks | open, check, decide | expiry by the passing of time only |
| Distributions | same | previews, allocations, payments | preview, approve, pay | holders whose identity changes between runs; idempotent posting |
| Event streams | `src/sse.js` | sets of streams per room | subscribe, publish, close | close callbacks bound to a set that has been replaced |
| Share register and transfers | `src/platform-store.js`, `src/enterprise-finance-store.js` | class, ledger, offers, transfers, evidence, certificates | issue, offer, draft, submit, approve, certify | four eyes, evidence used once, votes that freeze ownership |
| Corporate actions, rights | `src/enterprise-finance-store.js` | actions, snapshots, rights | create, approve, execute; exercise, waive | stale previews, expiry |
| Governance | `src/platform-store.js`, `src/enterprise-finance-store.js` | meetings, resolutions, votes, proxies | open, vote, close, finalize | weights at a record date, outcomes computed again |
| Identity | `src/identity-store.js` | users, sessions, tokens, memberships | log in, second factor, invite, reset | one-time tokens, last owner |
| Operations | `src/operations-store.js` | phases, tasks, dependencies, time, allocations, risks, indicators, budgets | create, patch, archive, depend, approve | acyclic dependencies, capacity, one approved budget |
| Documents | `src/document-store.js` | documents, versions | create, add version, link | quotas |
| Decision actions | `src/decision-action-store.js` | workflow status beside the old one | create, patch, transition | two columns kept in step |
| Portfolio, old entries | `src/platform-store.js`, `src/enterprise-schema.js` | projects, goals, milestones; financial entries | create, patch, archive; post, reverse, copy to the journal | one default project; two tables that tell the same |
| Audit chain | `src/enterprise-audit.js` | chained events | append, verify | appended by two processes, inside and outside transactions |
| Hub | `src/enterprise-hub-store.js` | comments, preferences, keys, integrations, listings | create, patch, revoke | keys that outlive permissions |
| HTTP layer, limiter | `src/app.js`, `src/http.js`, `src/rate-limit.js`, routes | request context, buckets | authorize, read body, call a store, publish | authorization before an `await`, state change after it |
| Database and scripts | `src/database.js`, `scripts/*.js` | schema version, files | migrate, back up, restore | two processes, crash between renames |
| Front end | `public/*.js` | page state | render, submit | none of its own: the server decides |

Components interact in four ways.  They *share tables*: invoices, distributions
and legacy entries all post to the one ledger; offers, transfers, issuance and
corporate actions all write the share ledger.  They *ask each other* before they
act: transfers and distributions ask for a current identity case, transfers for
the outcome of a resolution and for a settled payment, every change of ownership
for an open vote.  They *bind* evidence so that it is used once: a resolution or a
payment to a transfer, an idempotency key to a request.  And they *tell others
afterwards*: a store enqueues rows for the worker, and a route publishes to the
event streams once the transaction is committed.

What makes each component correct is what its properties say; they are listed
with the hazards they are aimed at in `PROJECT.json`, and described below.

## 2. How it is modelled

* **One action per operation.**  A store function is one action: its early
  returns and conditions are the guard, what it writes is the primed variables.
  A request that is refused, or answered from a receipt, changes nothing and is
  not an action.  Where an operation is not atomic (the worker and the operator's
  tool, the cleanup of a stream) it is split where the code lets others in.
* **Data is abstract.**  Titles, descriptions, money formats, tokens and ids are
  left out or are model values; amounts and dates are small numbers.
* **Mutants.**  Operators introduced by a comment `Mutant: ...` stand before the
  definition they would replace.  No specification uses them: each is a plausible
  error in the code, and the property it is listed with in `PROJECT.json` is
  violated when it is put in place.
* **Abstract specifications.**  `MessageLifecycle`, `SealedBooks`, `OrderedList`
  and `OwnershipLedger` state in a few lines what the outbox, the ledger, the needs
  and the share register promise.  The detailed modules give the mapping
  (`INSTANCE ... WITH`) and `Implements...` is checked, and proved.

## 3. The modules

```
MessageLifecycle <== NotificationOutbox        SealedBooks <== JournalLedger <-- Receivables
OrderedList <======= NeedOrder <-- ProposalWorkflow
                                               KycCases <-- Distributions
OwnershipLedger <=== ShareTransfers --> ShareRegister <-- CorporateActions       Governance
ProjectPlan <-- Resourcing     ProjectControls     LegacyFinance     DecisionActions     Portfolio
Memberships   Credentials   Documents   Hub   AuditChain   RateLimiter   SseBroker   DatabaseFile
```
`A <== B`: B implements A.  `A <-- B`: B extends A.  `Nullable` has what the
later modules share: columns that may be empty, the next free number, paths
through a relation.  The `...Proofs` modules extend the ones they prove things of (section 6), and
`SumTheorems`, the lemmas on finite sums.  The `MC...` modules give the instances that TLC checks;
where one of them joins modules that share no state, a variable `part` chooses which
of them moves, so that the instances are explored next to one another and not
multiplied.

### Outbox, books, participation

**NotificationOutbox**.  A row carries its status, attempts, age since
`updated_at` and time until `next_attempt_at`; both times are saturated, so that a
state says only what the code compares.  `Poll` is one poll of the worker (recover
expired claims, pick the due rows, claim one under a lease); the provider answers later
(`Answer`), and the result is recorded by compare-and-swap on status, attempts and
`updated_at`, which fails if the row was taken over.  `ProviderAccepts` is the
moment the provider takes the message, which may come without an answer.
`Crash` loses a worker's claims.  An administrator confirms, retries and cancels; the
operator's tool marks a manual row sent in one transaction and reveals its secret
afterwards (`Reveal`), and may crash in between.

**JournalLedger** and **Receivables**.  A line is an account with a signed amount.
Drafts gain lines while accounts are retyped and deactivated and periods are closed;
posting checks everything again; a reversal is a new entry with the lines
negated.  `SyncLegacy` is the second writer of these tables, `syncLegacyFinance`
(`src/enterprise-schema.js:35`), which runs after every old entry that is recorded or
reversed and at each start: it makes accounts and a period of its own, `Migration`,
inserted closed and later stretched, and posts into it a copy (`legacy`) of each old
entry that has none.  It looks neither at the status of a period nor at other
periods nor at accounts, and neither does the action: any copies, at any time.  That is more than
the routes allow, as they keep the old postings to the time before the first owner and the
ledger's operations to the time after it; the properties do not rest on that.  A call that
fails, because an account has taken the code of one of its own, is no step.  `Receivables` adds issuing (posts), voiding (posts a reversal),
payment intents and their confirmation (posts the settlement).

**NeedOrder**, **ProposalWorkflow**.  The numbers of the needs under range
updates; on top of it, the workflow of the proposals for these needs, with the message
the applicant sees and what the tracking page shows while needs are archived and the
project is unpublished.

**KycCases**, **Distributions**.  Cases expire by the passing of days only.  A
distribution is allocated by largest remainders with ties broken by the order of the
ids, approved, and paid in repeated runs that pay whoever is verified on that day.

### Capital

**ShareRegister**, **ShareTransfers**.  The register keeps one class, the sum of
the ledger for each holder, members, votes and certificates; the lock of
`assertVotingRecordDateUnlocked` is `Unlocked`.  Transfers go from draft to pending to
approved with an offer, a resolution and a payment, whose binding
(`bound`, `consumed`, the purpose of a payment) survives the transfer.  `governed`
turns on the enterprise policy (four eyes, evidence) at any moment, as the first
owner is set up.

**CorporateActions**.  An action has a plan (issuance, capital increase, split,
reverse split, rights issue) and goes from draft to approved, with a snapshot of
what the register would become (`Snapshot`, the hash of the preview), to completed,
if the snapshot is still the same.  A reverse split takes the units of a certificate
away and revokes it.  A rights issue makes rights in proportion to the holdings,
which are exercised in parts, waived, or pass their date.  An action does not look for an
open vote, in the code as in the model.

**Governance**.  A meeting with attendance, resolutions, ballots cast in person
or by proxy, and the outcome.  A ballot is weighed when it is cast and the quorum is reckoned
at the record date with whoever is there then: both computations are in the model as the code
has them, over a register that the operations with the lock write.

### Work

**ProjectPlan** and **Resourcing**.  Phases and trees of tasks, four types of
dependencies, time entries whose sum is kept on the task, reports of progress that move the
task, and the peak of what is allocated of a resource
to tasks and phases.  **ProjectControls**.  Risks, indicators with measurements that arrive
out of order, and versions of a budget with trees of lines that are copied.
**LegacyFinance**.  The old entries with their receipts and reversals, and `syncLegacyFinance`
copying them to the journal under numbers of its own, where no other account has taken the code of
one of its accounts (then the call fails).  What the copies do to the books is the matter of `JournalLedger`.  **DecisionActions**.  The two
columns of status, the stamps, the history and the upgrade of an older database.
**Portfolio**.  Projects with one default, goals and milestones with their weights.

### Services

**Memberships**.  Members, roles in the organisation and a project, invitations, API keys, the first
owner.  A request is authorized (`Authorize`) and stays in `awaiting` until its body
arrives; what it was allowed to do is decided at the first moment, what it does at the
second.  **Credentials**.  One user: password, sessions, reset links, one-time codes by their
time step, backup codes by series, and requests in flight with a session.
**Documents**.  Uploads under a limit of versions and two quotas; contracts whose parties sign a
document; valuations under an idempotency key.  **Hub**.  Listings, a reader who goes from page to page
by cursor, and connections to services.  **AuditChain**.  The last hash is read in one step
and the event inserted in the next, by the server and by the command, in and out of a
transaction.  **RateLimiter**.  A window, a sweep and a clock.  **SseBroker**.  `clients`
maps rooms to Sets, which are numbered so that the cleanup of a stream can name
the Set it was bound to although the room has another.  **DatabaseFile**.  The file of the
database: migrations one by one, a backup that reads while the server writes, and a
restore step by step (stage, move the live file away, install, verify, or undo), each of which may fail or be
killed; `written` is what the server has acknowledged.

## 4. Runs and bounds

All bounds are CONSTANTS of the modules, given in the `.cfg` files, or named in the
`...Focused` definitions of the MC module, which say in a comment what they cut.

| Run | Instance | Shows |
|---|---|---|
| `outbox_rolling` | 1 row, 2 workers, 2 operators, lease of 2, 2 attempts, 1 retry, 1 crash | no two claims are mistaken for each other; sent means accepted; manual rows are never sent by a worker; a secret is shown once; implements `MessageLifecycle`, where outcomes are final |
| `outbox_single` | the module itself: 2 rows, 1 worker | attempts are bounded; every row of an automatic provider is settled in the end |
| `finance` | the ledger: 2 accounts of one type, 2 periods, 2 days, 3 entries of 2 lines or 2 of up to 3; or the accounts and the period of the copies and 1 more period, old entries of 0 or 1; or 1 invoice, 2 intents, 3 entries, 1 period | what is posted or copied balances, whatever changed since the draft; one reversal, that cancels its entry; implements `SealedBooks`, where closed periods do not move but for copies in their own; the paid amount is the sum of the confirmed payments |
| `cases` | 4 needs, at most 3 active, positions up to 5, 2 proposals under 2 keys; or a distribution of 4 to 3 holders with 0 to 2 shares each, or to 2 with 2 identity cases on 2 days | implements `OrderedList`; one accepted proposal per need, decision and message agree, tracking tells the truth, a key makes one proposal; one active case a person, verified only on passed checks; shares add up, cash posted is what the allocations say; settled exactly when paid; runs never conflict with an earlier posting |
| `transfers` | 2 transfers of 1 unit, at most one dropped, 2 resolutions, 1 payment, 2 users; or 1 offer, 2 transfers of 1 or 2 units, 2 prices, 2 days | every approval in a governed organisation was earned; ownership stands still during a vote (of members and weights, which do not change in this instance, `VotesFreezeOwnership` proves it); an offer is never oversold; implements `OwnershipLedger` |
| `capital` | 2 actions of 5 kinds, 2 holders, 2 users, 1 resolution, 3 days; or 2 voters, 2 resolutions, 2 proxies, 2 days | the register stays within the authorized units, certificates within holdings and rights within what was planned; an action is executed on the register its approver saw; voted, used once, four eyes; ballots match the register, quorum counts nobody twice |
| `work` | 3 tasks in trees and chains, or 2 with phases, progress and 2 time entries; 2 resources and allocations on 2 days; 3 budget versions of 2 lines, 3 measurements; 3 old entries with 2 keys; 1 action with 2 meetings; 3 projects of 2 organisations | no task waits for itself, minutes add up; whatever starts a task asks what it waits for; no resource is overallocated; the newest measurement counts, one budget is in force, lines form trees; both accounts tell the same; both columns tell the same; the default project is never an archived one and weights keep to their bound |
| `services` | 3 people, 2 invitations, 1 key; 2 sessions, 2 links, 1 backup code; 2 documents of 2 versions, 1 contract of 2 parties; 3 listings; 4 audit events of 2 processes; a window of 3 instants; 4 streams of 2 rooms; 1 backup, 2 restores, 2 schema versions, 2 writes | an owner stays; memberships, invitations and keys agree; every way in is current and used once; quotas and signatures hold; pages miss nothing; transactions chain; limits hold; nothing acknowledged is lost by restoring |

The other four runs are expected to be violated; see section 5.

*Why the bounds are enough.*  Each instance is the smallest in which its
conflict can happen, with one more actor or object where a bystander matters.  Two workers
and a crash give every kind of takeover of a claim, and attempts beyond the second
repeat it.  Three entries give a reversal of a reversal, and a third line takes a draft out
of balance; beside a copy they are an entry of the finance store in the period of the copies, and its reversal.  Four needs with three active give insertions and moves before, at and after
every position, archived neighbours and the limit.  Two proposals compete for one need or
go to two.  Two cases give one after a rejected one, or one for each of two holders who are
paid in different runs.  Three holders give leftovers of one and two units, with equal and
different remainders.  Two transfers with two resolutions and one payment give every way
to share evidence; two actions give one that makes the other stale, or competes for its resolution.
Two proxies of one grantor, for the meeting and for a resolution, are what can be
counted twice.  Three tasks close a cycle through a bystander; three versions give a copy of
one that has been replaced.  Three people are two owners and one who is neither, and two requests in flight are two owners
who remove each other.  Two rooms and four streams fill a room, overflow it and refill a
replaced Set.  Two restores are one after another was killed at any step.
What the proofs cover does not rest on these bounds at all.

*Bounds that cut.*  `AttemptBound`, `MaxRetries`, `MaxCrashes` limit repetition in
the outbox; `NEntries`, `NInvoices`, `NIntents`, `NCases`, `NDistributions`, `NRows`, `MaxEntries`,
`MaxOthers`, `MaxHistory`, `MaxEvents`, `MaxWrites`, `MaxPasswords`, `MaxSeries` how often something is
made; `MaxLines` the lines of a draft; `MaxOrderNo` the positions an administrator may
type; `LastDay`, `Horizon`, `LastDate`, `LastWorkday`, `MaxClock`, `MaxNow`, `MaxInstant` end calendars and
clocks; `Leavers` limits who may be archived or lose clearance: nobody in `transfers`, which has one weight for
a vote as well.  The `...Focused` definitions keep two
dimensions of an instance from growing together: `LedgerFocused` keeps accounts to one type, so that the lock of
the type of a used account is exercised in the part with the invoices only; `CopiesFocused` keeps the accounts of
the copies in use.

*Deadlock.*  Runs whose system may really stop (all entries used, all decided, all
streams closed) say `CHECK_DEADLOCK FALSE`.

*Fairness.*  Only `NotificationOutbox` has a liveness property.  `FairSpec` assumes
that time passes, that the worker's interval timer keeps polling (`setInterval`, restarted
with the process) and that a call of the adapter settles, with or without success.  The
last one is an assumption on the adapters a deployment brings: the worker itself sets no
timeout, and an adapter that never answers would hold up the queue of its process.
Nothing is assumed of administrators and operators or of what providers answer, and manual
rows are therefore not promised an end.  Nothing else in the program goes on by
itself: every other change of state is somebody's request.

## 5. Where the code departs from what it says

Each of these runs checks one property that a document, a comment, a message or a
test states, and TLC finds it violated.

| Run | What happens |
|---|---|
| `closed_period_posting` | an old entry is copied, posted, into the period of the copies, which is closed, although `docs/PLATFORM_MODEL.md:118` has closing restrict posting |
| `invoice_void` | an intent made before its invoice was voided is confirmed afterwards, and the void invoice becomes paid |
| `sse_shutdown` | the late cleanup of a refused stream drops the new Set of its room; its streams get no updates and are not ended at shutdown |
| `outcome_history` | the outcome of a closed resolution is finalized again after ownership has changed, and becomes another |

The models show more that no run checks.

*Books.*
* `ReversedExactlyOnce` holds of the ledger alone.  `voidInvoice`
  (`src/enterprise-finance-store.js:2494`) does not look for an earlier reversal of the
  invoice's entry and posts a second one, which `reverseJournal` would refuse.
* The hub's trial balance (`src/enterprise-hub-store.js:1274`) counts posted entries only,
  while `docs/PLATFORM_MODEL.md:109` has reports count reversed ones too, as
  `accountTotals` does: a reversed entry shows as its negative.
* An old entry of amount zero becomes a posted journal entry without lines
  (`src/enterprise-schema.js:35`), which `BooksBalance` names as the exception.
* The period of the copies is stretched without a look at other periods
  (`src/enterprise-schema.js:66`), so that a day may come to be covered by two, and a request that
  names no period is then refused as ambiguous (`AMBIGUOUS_FISCAL_PERIOD`).  `OnePeriodPerDay` and
  `ClosedBooksFrozen` are about the other periods (`OwnPeriods`), and `ImplementsSealedBooks`
  about what the finance store posts in any period, and the copies in any but their own.
* A verified identity case that has expired still refuses a new case
  (`src/enterprise-finance-store.js:3458`), and nothing ends it.

*Capital.*
* A sale leaves the certificates of the seller active (`src/platform-store.js:3052`), so
  that they may certify more than he holds.
* A draft may exchange its resolution (`src/platform-store.js:2905`), but the first one
  stays bound to the transfer, which then can never be submitted (`:2335`).
* Executing an action and exercising a right do not take the lock of open votes that the
  operations of `src/platform-store.js:953` take.  `StillWhileVoting` and `VotesAddUp` are therefore
  about those operations.
* An approved action whose preview has become stale can be neither executed nor approved
  again (`src/enterprise-finance-store.js:4191`).
* One settled payment can be named by any number of exercised rights (`:4474`).
* A ballot weighs what the register says when it is cast, while the quorum is reckoned at the record date;
  the quorum counts a proxy on its last instant, on which it cannot vote; and proxies of different
  scopes may form a cycle (`:4879`).

*Work.*
* Progress of 100 reported on a cancelled task brings it back (`src/operations-store.js:2681`); a parent or a phase that is cancelled by an edit leaves active children.
* A budget of which a line stands, in the order the users gave, before its parent cannot be revised: lines are copied in that order
  (`src/operations-store.js:3414`) and the table refuses a child without its parent (`src/enterprise-schema.js:650`).  The
  model has the revisions that succeed.
* An archived project can be published again by an edit.  The index that allows one default
  project is over all organisations, the statement that clears the old default is not: the
  default of another organisation makes the edit fail.

*Services.*
* Events appended outside a transaction (`updateProfile`, `src/identity-store.js:638`) may fork the chain when
  the operator's command appends at the same time, and are lost by a crash after the change they tell of.
  `TransactionsChain` is about the others.
* A request that waits for its body keeps the permissions it was authorized with; `OwnerStays` holds all the same.
* A suspended member comes back by accepting an invitation that was still open.
* A new integration in the mode `live` can never become healthy.
* A signature names a contract and not a version of its document, and a version may be
  added while signatures are collected.
* A restore that is killed between its two renames leaves no live file, and the next start of the server makes
  an empty one in its place (`scripts/restore.js:149`, `src/database.js:2200`).  Nothing is lost, as `StorageSound` says:
  the database lies under its rollback name.  Only a restore that fails undoes itself.

## 6. Proofs

TLAPS checks the theorems in eight modules: 53 that `PROJECT.json` lists and the lemmas
they rest on.  Every invariant, action property and refinement that a passing run checks is
stated by one of them, for every value of the constants; the one liveness property is not (see
below).  Each invariant is proved by an inductive invariant that implies it: it holds at the
start, every action keeps it (one lemma an action, or one for those that change the same
thing), and a last step in temporal logic puts the two together.

**SumTheorems** has what the others need of sums: what `SumFunctionOnSet` is of no element, of one more
or less, of a changed element, of a union, of a larger set, of multiples; and that a
finite set of numbers has a greatest one.  The sum is a fold, and a fold a recursive
function over sets.  As induction over data cannot be instantiated, `SumsExist` and `SumsAgree` argue by a least
counterexample instead: of the subsets of a finite set on which the partial sums are not
determined there would be a least one, and taking the element the fold chooses out of it gives a
smaller.

**NotificationOutboxProofs**
* `TypeCorrect`, `FinalForever`; and, from `OutboxInv`, `ClaimsAreDistinct`, `SentWasAccepted`,
  `ManualStaysManual` and `RevealIsOnce`.  `OutboxInv` adds to these properties
  `ClaimKnown`: a row that is claimed or was accepted exists, and what a claim knows of an
  acceptance is true.  Without it a new row could appear under a number that a claim
  already holds.
* `OutboxImplementsLifecycle` maps each step to a step of `MessageLifecycle` or a stutter.
* `RetriesStop`, for one worker.  `BudgetInv` counts what attempts are left by the status of the row: a
  row that waits has used one less than it may, a row that is processed is either attended, by
  a claim that stands, or was left behind by a crash that has been counted.  That is why a second worker is
  excluded, as the property says: it may take over a row whose worker lives, so that an
  attempt is spent that neither a retry nor a crash pays for.

**JournalLedgerProofs**
* All operations that touch the books, of the ledger, of the receivables and of the copying of old
  entries, are shown to be a
  `BookStep`: counted entries are kept, and those that become counted are balanced and either belong to
  one period, which is open and stays so in that step, or are copies, in the period of copies.
  `BooksAlwaysBalance`, `ClosedPeriodsFrozen`
  (nothing moves the balances of a closed period but that of the copies) and the two refinements of `SealedBooks` follow
  from that alone.  What the code does in the period of the copies is excepted by name in the
  statements, not left out of the specification.  `DayHasOnePeriod` and the type theorems are inductive as they stand.
* `PaidIsConfirmed`.  `PaidInv` adds that an intent is for an invoice that exists: otherwise issuing
  an invoice could find payments already confirmed for it.
* `ReversalsAreSound`.  `ReversalInv` says what a reversal is at any time: counted, with the lines of the entry
  it reverses negated, and that entry marked.  That the two cancel on every account is then a
  fact about sums (`MirrorCancels`).

**DistributionsProofs**
* `KycIsSound`, `DecisionsAreFinal`; that distributions leave the cases alone
  (`CasesImplemented`), and, from an invariant that says for each status what of a distribution
  has been posted, `NoPaymentConflict` and `PaidMeansSettled`.
* `MoneyIsSound`.  The largest remainders: the whole shares leave less than one unit a
  holder, the remainders add up to what is left, and as many holders are rounded up as units are left,
  because the order of the remainders, with ties broken by the ids, gives every eligible
  holder a rank of his own.  `MoneyInv` says that whatever has been sent is a part of the
  allocation and went to those who are marked paid.
* `ProposalsAreSound`, from an invariant over each proposal, its decision and what was told.
* `PlacesAreDense`, `NeedsImplementList`, `WorkflowImplementsList`.  `NeedInv` says that the numbers of the active needs are 1, 2, ...
  each once; of the request to reorder, that as many different ids as there are active needs, among
  them all of these, name no other.  Each operation is then an insertion, a deletion or a
  rearrangement of `OrderedList`, compared place by place.

**ShareTransfersProofs**
* `TypeCorrect` needs that holdings never go below zero, so it contains `HasUnits`.  `ApprovalsAreEarned`
  rests on `WellFormed` (a transfer that exists is between two people) and `MakersKnown` (a
  transfer that holds a resolution has a maker, since only a governed organisation binds one);
  every step of a draft is shown to be a `DraftStep`, which touches one transfer that is not
  approved and releases no evidence.  `VotesFreezeOwnership` and `OwnershipImplemented` use the same lemmas.
* `OffersAreSound`.  `OfferInv` adds `OffersKnown`: a transfer is under an offer that exists, or an offer
  could be made with units already taken.

**CapitalProofs**
* `RegisterIsSound`: units authorized, certified and promised stay within what there is
  through every plan, divisions included; a split multiplies, where the preview lets a
  split pass, everything it divides divides exactly.
* `CompletedIsVoted`, from `VotedInv`: an action approved under governance holds a resolution that is
  bound to it and carries its plan, and nothing that is bound or spent is given back.
  `ExecutionIsAsApproved` is an action property of its own.
* `VotesAreSound`.  `LedgerInv`: what a voter holds at any record date is never negative and nothing is
  entered for days to come; `BallotInv`: while a resolution is open a ballot weighs what its voter has now, because
  the lock keeps ownership still.  The quorum counts nobody twice since grantors who are
  represented and voters who are present are disjoint sets whose weights are summed once.

**WorkProofs**
* `PlanIsSound` (`PlanInv`): acyclicity is stated as *every set of tasks has one that depends on
  none of them*, which a new edge keeps unless there was a path back, that is unless the
  checked set of descendants contains it; the minutes of a task are the sum of its entries.  `TasksStartInOrder` is an action
  property from the same invariant.
* `ResourcesSuffice` (`ResourceInv`): the code looks at the days on which an allocation begins only;
  the load is greatest on one of those, so that it suffices.  `ResourceInv` adds that allocations are of resources
  that exist.
* `ControlsStaySound` (`ControlsInv`), `AccountsAgree` (`LegacyInv`: of the old entries that are to be copied
  either none has been or all have, under numbers no other entry has), `StoryIsKept` (`DecisionInv`: before the upgrade there is no
  history, after it every row continues it), `PortfolioIsSound` (`PortfolioInv`).

**ServicesProofs**
* `AuditIsChained` (`ChainInv`: what the command has read in its transaction is still the last event).
* `WaysInAreCurrent`; `AccessIsSound`; `OwnerRemains`, an action property over requests that were authorized
  earlier: each way to change a role or a membership looks for another owner at the moment of the change.
* `StorageIsSound` (`FileInv`): for each step of a restore, where the file is that was live,
  and that the files kept under rollback names hold what the server has acknowledged.
* `DocumentsAreSound` (`DocumentInv`, `ContractInv`): sums of sizes within the quotas; the stage of a contract says
  what its signatures are.
* `PagesAreComplete` (`HubInv`): a listing keeps the instant it was first published, hence its place; what is
  shown is never behind the cursor, what is shown all the while is seen or behind it, and of those behind it one
  comes first.
* `LimiterKeeps` (`LimiterInv`): besides the requests of the window that has not ended, those at
  the end of the window before are fewer than the limit, since that window began with a request of its own.
* `RegistryIsTidy` (`SseInv`): a registered stream names its room and its Set, so that no two rooms share one;
  there are more numbers than streams, so that a Set is always new when a room needs one
  (`NewSetIsNew`, by counting); a late cleanup takes its stream only from the Set the stream names.
* `LimitsAlwaysHold`: the last two side by side with all other services, as the run `services` has them.

*Assumptions.*  Those on constants, named `...Assumption` in the modules that declare them; TLC evaluates
them in the runs.  Sets of rows that are summed or counted are finite (holders, certificates, transfers,
entries, keys, versions, allocations, voters, proxies, needs, listings, streams), as tables are; sets of numbers
are numbers; `None`, `NULL` and `Nobody` are no elements of the sets they are added to; bounds are natural, and a calendar has a first
day.  `RetriesStop` alone has a hypothesis of its own, one worker, which is the instance of its run.

*Only model-checked.*  `EventuallySettled`, as TLAPS does not prove liveness under fairness.  The four
violated properties of section 5 have counterexamples, of course, and no proofs.

## 7. What is not modelled, and the plan

*Not modelled.*  The front end, which decides nothing; the development scripts; parsing, headers, cookies,
cryptography and configuration, whose results are inputs of the models; what each migration does to the rows of
releases that are gone, and demonstration data.  The returns of a project (`src/enterprise-finance-store.js:1905`) are reports
by bisection on real numbers.  Comments, preferences, saved listings and reports are records that no
other operation reads, links of documents likewise.  Several organisations of one user, attempts at log-in,
the timer that forces connections shut and a second server process are left out; two
servers that start at once on an old file would both read its version before they migrate it
(`src/database.js:1605`).

*Limits of what is modelled.*  One share class and one currency; totals within safe integers, except where a
bound is the point; the ballots of one meeting; one project for plans, resources and controls; one process for all
modules but the outbox, the audit chain and the database file, whose transactions would serialise a second one.

*Proofs to add*.  What the departures of section 5 leave true: that a void invoice
stays void if none of its intents was open when it was voided, that every stream is ended at
shutdown if no late cleanup dropped a newer Set, and that an outcome stays if ownership does.
Each would say exactly how far the departure reaches.  The theorems on components
whose runs join several could be restated for the joined specification, as `LimitsAlwaysHold` is.
