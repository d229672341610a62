# Verification of the conversation allocation backend

The backend keeps the conversations of a tenant, and decides which operator
handles which of them. It is a NestJS application over PostgreSQL (TypeORM);
any number of instances may run, and the requests of one instance interleave at
every `await`. No handler opens a transaction and no table has a version column,
so the questions worth asking are about statements of several requests in every
order. This directory models the handlers statement by statement, checks them
with TLC on small instances, and proves with TLAPS, for instances of every size,
nearly every safety property it states.

Line numbers refer to the repository: `allocation.service.ts` is
`src/allocation/allocation.service.ts`, `ARCHITECTURE.md` and the other documents
are at its root.

## 1. Inventory

| Component | State | Operations that change it | Modelled by |
|---|---|---|---|
| Allocation (`allocation/`) | `conversation_refs`: `state`, `assigned_operator_id`, `inbox_id`, `priority_score` | allocate, claim, resolve, deallocate, reassign, move-inbox | `Allocation` |
| Conversations (`conversations/`) | `conversation_refs`: existence, `inbox_id`, `message_count`, `last_message_at` | upsert (orchestrator), updateMetadata | `Allocation`, over `ConversationStore` |
| Priority (`priority-config.service.ts`, `scoreAndSortCandidates`) | none; reads environment and clock | choice of the next conversation | `Priority` |
| Operator status (`operator-status.service.ts`) | `operator_statuses`, `grace_period_assignments` | setStatus | `GracePeriod`, `Workforce` |
| Grace period sweep (`grace-period.service.ts`, `.scheduler.ts`) | deletes entries, saves conversations | processExpiredGracePeriods, every 30 s and on request | `GracePeriod` |
| Status queue (`operator-status.queue.ts`) | in memory: `queue`, `isRunning`, timers | enqueue, runLoop, processQueue, retry | `OperatorStatusQueue`, `Workforce` |
| Operators (`operators.service.ts`) | `operators` | create (then enqueue), update, remove | `Operators`, `Workforce` |
| Labels (`labels.service.ts`) | `labels`, `conversation_labels` | create, update, delete, attach, detach | `Labels` |
| Inboxes (`inboxes.service.ts`) | `inboxes` | create, update, remove | `Inboxes` |
| Subscriptions (`operator-inbox-subscriptions/`) | `operator_inbox_subscriptions` | create, remove | `Subscriptions` |
| Tokens and guards (`auth/`, `tokens/`) | `token` | signup, login (registerToken); canActivate reads | `Sessions` |
| Tenants, configuration, logging, migrations | - | - | not modelled, see section 8 |

How they interact. Allocation reads inboxes, subscriptions and the status of the
caller, and writes conversations; the conversations service writes the same rows
for the orchestrator; the sweep writes them too, for operators whose grace
entries, made by setStatus, have expired. createOperator calls the status queue,
whose loop calls setStatus; signup is createOperator followed by a token, which the
guard then looks up, with its operator, for every request. Labels read the inbox of
a conversation, which allocation (move-inbox) and ingestion change.

What is hard. Every handler reads, decides and saves in separate statements.
`save()` itself is a SELECT and an UPDATE of the columns that differ, so a save
can write half of what it was asked to, or write back what somebody else has
just changed. setStatus and the sweep are longer sequences, can be lost half-way,
and work from lists that grow stale. The queue depends on the order in which
callbacks and timers run, and is lost with the process. The scores are
normalised over the current candidates, with degenerate ranges.

What correctness means, per component:

* conversations: only the transitions the service offers, each decided on the
  row it is applied to; `state` and operator of a row agree; a race may change
  who gets a conversation, not leave a row that makes no sense;
* status and grace: an operator who is back loses nothing; what an operator held
  when he left is released in the end; a sweep that fails is made good by another;
* queue: a job is never lost while the process lives, never in two places, never
  tried more than three times;
* the first status of an operator: when his job is done it is complete, and no
  retry comes after what he has said himself;
* subscriptions: an operator gets conversations of his inboxes only, as far as the
  subscription and the row stay where they were when they were read;
* tokens: a token that was given away works from then on;
* labels, inboxes, operators: keys stay unique, links stay within an inbox,
  removed rows stay removed, as far as requests do not overlap;
* priority: the choice respects both features, in every degenerate case.

`PROJECT.json` lists the hazards at their lines, each with the properties that
would catch it going wrong.

## 2. Modules

```
ConversationLifecycle      abstract: the legal transitions of a conversation
      ^ refines
ConversationStore  <-  Allocation  <-  AllocationClaims, AllocationProofs, MCAllocation
  (table, save())        ^
                         |-- Subscriptions  <-  SubscriptionsProofs, MCSubscriptions
                         |-- GracePeriod  <-  GracePeriodProofs, GracePeriodClaims, MCGracePeriod
DeferredJobs               ^
      ^ refines            |  abstract: jobs that are done or given up
OperatorStatusQueue  <-  Workforce  <-  Service  <-  WorkforceProofs, MCService
      ^                                   ^-- Subscriptions
Operators  <-  Sessions  <-  OperatorsProofs  ->  OperatorStatusQueueProofs
Catalogue                  abstract: requests on inboxes and labels are atomic
      ^ refines
Inboxes  <-  Labels  <-  LabelsProofs
               ^-- LabelClaims  <-  MCLabels
Priority  <-  PriorityProofs, MCPriority
```

`A <- B`: B is built on A. `Workforce` composes `GracePeriod` and the queue, `Service`
composes `Workforce` and `Subscriptions`.

### ConversationStore and Allocation

`conv[c]` is the row of conversation `c` (state, assignee, inbox), `NoRow` before
its INSERT. `call[k]` is the request that caller `k` is serving: operation,
operator, conversation, the statement that comes next (`pc`), the entity it is
about to save and the columns the UPDATE will set (`dirty`). A handler is:

| Code | Actions |
|---|---|
| allocate: status and subscriptions, candidate query, second read, save | `AllocateStart`, `AllocateQuery`, `AllocateFresh`, then `SaveLoad`, `SaveWrite` |
| claim: status, read and checks, save | `ClaimStart`, `ClaimRead`, `SaveLoad`, `SaveWrite` |
| resolve, deallocate, reassign, move-inbox: read and checks, save | one action each, `SaveLoad`, `SaveWrite` |
| upsert, updateMetadata | `Upsert`, `UpdateMetadata`, then `SaveLoad`, `SaveWrite` or `SaveInsert` |
| exception, lost process | `Crash` |

Reads of tables that nothing in this model changes (operators, inboxes, and, until
`Subscriptions`, subscriptions) are merged with the statement next to them. A refused request
leaves no trace; it is a step only if an earlier statement of it was one.
The conversation chosen by allocate is any candidate here; how it is chosen is
the subject of `Priority`. `Workload` selects the kinds of request clients send.

`raced` is a history variable: the conversations on which a second
read-decide-save section was opened while one was open. Nothing in the code
prevents that (`// TODO` at allocation.service.ts:84 and :116), and it is the exact
limit of what the code guarantees: the theorems say that everything is right on a
row that is not raced, and the claims (section 5) show what happens on one
that is. One property, `RacesLeaveSoundRows`, holds of raced rows
too, in the part of the service (`TakingSpec`) whose requests return no conversation to
the queue: allocate, claim, resolve, reassign. It lets a race reopen a resolved
conversation, which is what the code does and not what the documents say (section 5).

`ConversationLifecycle` is the abstract specification: a conversation changes by
one legal transition at a time; a raced row may be anything. The refinement
mapping is the identity on `conv` and `raced`; `call` is hidden.

### Subscriptions

Adds the table to `Allocation`: `rows[<<o, i>>]` counts the rows of a pair, since no key
forbids a second one and DELETE removes one. allocate lists the inboxes of its
operator before the candidate query, claim and reassign look for one pair after they
have read the row; each is the action `ListSubscriptions`, a statement of its own, and
what it found is `seen[k]`. `ServeInScope` lets a handler of `Allocation` go on only with
what it has listed. The constant `Subscribed` is here the set of pairs that may ever
have rows, which makes every behaviour one of `Allocation`: its theorems carry over.
Two histories say when the promise is off: `lapsed` requests, whose listing no longer
holds for the row, and conversations `adrift`, given by such a request, filed elsewhere
by an upsert, or left to an operator who was unsubscribed.

### GracePeriod

Extends `Allocation` with `status[o][r]` (the rows of operator `o`; the table has no
unique key on the operator, so two first requests make two rows), `grace[<<c, o>>]`
(`none`, `running`, `expired`), the set-status requests and the sweeps. A
set-status request is `SetStart` (SELECT), `SetSave`, then `SetFind` and
`SetUpsertGrace` for OFFLINE or `SetDeleteGrace` for AVAILABLE. `SetSave` merges the
SELECT and the UPDATE of that `save()`: the row has one column that matters. A sweep
is a caller of `ConversationStore`: `SweepStart` lists expired entries, then for each
`SweepRead`, the statements of `save()`, and `SweepDelete` by id. `gone` holds the
listed entries whose id has been deleted since; a renewed entry keeps its id.
`EnsureOperatorAvailable` guards the start of allocate and claim.

Histories: `late` are conversations given to an operator who was already OFFLINE
(by reassign, which does not look, or by a claim that overlaps the status request);
`mixed` are operators whose requests overlapped or of whom one was lost half-way,
until an AVAILABLE request has run alone. A lone OFFLINE request does not
repair the situation, which TLC found: a sweep that has listed an entry left
behind still deletes it by id after the request has renewed it. `gone` also bounds
what the sweep may do without looking at the status: `ReleasesAreOfOffline` says that
its operator is OFFLINE from its read to its save, unless the entry was deleted meanwhile.

### OperatorStatusQueue and Operators

JavaScript runs one callback at a time, so the actions are callbacks: `Enqueue`,
`JobDone`, `JobFailed` (the continuation of `processQueue`), `LoopEnded` (the
`finally` of `runLoop`), `TimerFires`, `Restart`. `memory` is the queue object with the
place where its loop stands. `outcome` and `failed` are histories. It implements
`DeferredJobs`, with its fairness: a job is pending exactly as long as it is in the
queue, in the loop or in a timer. `Operators` adds the rows of operators, the gap
between INSERT and `enqueue()`, and updates that overlap a removal.

### Sessions

Extends `Operators` with sign-up and login (`visit[v]`, one action per statement), the
rows of the table `token`, and `CanActivate`, the look-up the guard makes. A token is the
record of what its text says; two logins may make the same text, because its time is
in seconds and nothing reads it. Sign-up shares `InsertOperator` and `EnqueueCreated`
with POST /operators. `answered` is a history: the tokens clients have been given.

### Workforce

Extends `GracePeriod` with an instance of `OperatorStatusQueue` whose operators are the
`Newcomers`: a job of the queue *is* a set-status request (the setter `Loop`), whose
statements interleave with requests of clients, of sweeps, and of the operator himself.
`AttemptFails` may come before any statement, the first one included; what was written
stays, and the next attempt starts again from the beginning. `JobDone` of the queue is
part of the last statement, or `JobFailed`, when that statement is committed and its answer
is lost. `RemoveOperator` makes `findOne` fail for setStatus and
reassign and leaves the rest as it is; `RestartProcess` ends the queue and every request
and sweep at once (one instance of the application). `spoke` is a history: operators
who have sent a status request themselves.

### Service

`Workforce` and `Subscriptions` extend one `Allocation`, so a statement of a request is a
step of both: `ServeSubscribed` is `ServeStaff` (status and existence of operators) with
`Note` (what was listed, and whether it still holds). `ListForRequest` and
`ChangeSubscription` are those of `Subscriptions`, which leave the rest alone; a new operator
has no rows yet, and the foreign key refuses rows of an operator who does not exist. Status
requests, jobs and sweeps neither read nor write subscriptions (`WorkUnsubscribed`). A
restart keeps the table and loses what requests had listed (`RestartService`).

### Inboxes and Labels

One action per statement; `req[k]` says which comes next and what the request has
read. INSERTs and UPDATEs respect the unique indexes of the migrations, which,
unlike the checks of the services, see deleted rows. `astray` is a history: links
whose conversation was moved after attach had read it. Both implement `Catalogue`, in
which a request is one step: each has one statement at which it takes effect, the write, and
what it found before that is either still so or guarded by an index. The mapping is the
identity on the tables; `req` is hidden.

### Priority

`queued[c]` is the metadata of a queued conversation. `Windows` are the results the
candidate query may return (`ORDER BY last_message_at DESC` puts NULL first; ties in any
order; `LIMIT`). Scores are computed over a common denominator, so they are exact
where the code rounds. `Weights` follows `getWeights`: a configured value that is
not a finite number counts as the default. What comes from the environment is a
string, so with the code as it is the configured weights never take effect
(`Number.isFinite("0.7")` is false); the model keeps the numeric cases that
`getWeights` handles, beside that one.

## 3. Runs

| Run | Instance | States | Asks |
|---|---|---|---|
| `alloc_one` | `Subscriptions`: 2 callers, 1 conversation, 2 operators (one manager), 2 inboxes, 2 rows per pair, all requests | 218 k (symmetry) | `TypeOK`, `RowsWhole`, `IInv`, `AllocatedInScope`, `ScopeInv`, `WritesAreWhatWasChecked`, `ImplementsLifecycle` |
| `taking` | `Allocation`, its part `TakingSpec`: 4 callers, 1 conversation | 546 k (symmetry) | `RacesLeaveSoundRows`, `TakingInv` |
| `service` | `Service`: 1 client (claim, reassign), 1 set-status request beside the loop, 1 sweep, 2 operators (one created, subscribed, unsubscribed, removed and sending requests), 1 inbox, 2 attempts, 1 loss, restart or removal | 663 k | `GraceTypeOK`, `AvailableHasNoGrace`, `OfflineHasGrace`, `ReleasesAreOfOffline`, `FirstStatusIsWhole`, `StatusIsHisOwn`, `AllocatedInScope` |
| `grace_live` | `GracePeriod`: 1 client (claim, updateMetadata), 2 sweeps, 1 operator, 1 loss | 88 k | `NotStuck`, `ExpiredIsProcessed`, `WritesAreWhatWasChecked`, `ImplementsLifecycle` |
| `queue` | `Sessions`: 2 operators, 3 attempts, 1 restart, 1 update, 1 sign-up or login at a time | 400 k | queue invariants, `SessionsTypeOK`, `AnsweredTokensWork`, `ImplementsDeferredJobs`, `NewOperatorGetsStatus`, `RemovedOperatorsStay` |
| `labels` | `Labels`: 2 callers, 2 inboxes, numbers, labels and names, 1 conversation | 211 k (symmetry) | uniqueness, `LinksAreInScope`, `DeletedLabelsAreFrozen`, `ImplementsCatalogue` |
| `priority` | `Priority`: 4 conversations, window of 3, clock and counts up to 2 | 52 k (symmetry) | `ChosenIsUndominated`, `SomethingIsChosen`, `ScoreIsAFraction`, `TimeKeepsOrder` |
| `claim_*` | the smallest instance that shows it | - | one sentence of the documents each, violated (section 5) |

Why the bounds are enough. Every section concerns one conversation, and a race
needs two sections: two callers and one conversation meet every pair of handlers
in every order; `taking`, where a race does not end what is asked, has four requests on it:
one that takes it, two that overlap on what was taken, and one that comes late. Two operators and two inboxes with an
asymmetric subscription table (`o1` both, `o2` one) let owner, manager and
stranger differ and a move leave the caller's inboxes; two rows of a pair let one of
them be removed. In `service` one client, one request, the loop and one sweep are
one of each kind of actor: the request overlaps the attempts of the job, and `Handle` of
other kinds touches neither status nor grace. Two attempts are a half-done one and its
retry, after which the job is given up; `queue` has the three of MAX_ATTEMPTS, and
two jobs, the fewest for which a retry overtakes a job. A window of 3 out of
4 candidates has a cut, a degenerate and a spread range, and an inner element for
`TimeKeepsOrder`. Callers are interchangeable; symmetry is used only in runs without
liveness.

Two runs have a constraint. `Unraced` (`alloc_one`) stops where sections have overlapped
on the only conversation, because each of its properties exempts raced rows; what is
said of raced rows is asked in `taking`, which has no constraint. `OneFaultUnraced`
(`service`) does the same, and admits one fault, a loss, a restart or the removal of an
operator, in a behaviour (failed attempts of a job are not counted). It follows a removal
while the operator's job is pending: after that a removed operator only has more of his
requests refused, so that nothing happens which may not happen without the removal. It also
stops once a subscription is gone that a request or the conversation rests on, which
`AllocatedInScope` exempts and `alloc_one` explores. The `VIEW` of `service` leaves out `failed`, a history no action and no property of
that run reads. None of this limits the theorems.

Deadlock checking is off where the system may come to rest: when nothing is
queued and no request arrives (`Workload` restricted, operators all created, clock at
its bound, the one fault used up). In `labels` and `priority` it is on.

Bounds that are not in the code: `MaxCrashes` (lost set-status requests and sweeps;
losing a client's request, `Crash`, is unbounded), `MaxRestarts`, `MaxRows` (rows of a
subscription pair), `StatusRows`, `Watched` (operators who send status requests or are
removed), `MaxTime`, `MaxCount`, the numbers of callers, visitors, updates and sweeps.

## 4. Fairness

* `GracePeriod`: weak fairness of each started set-status request and sweep (the
  event loop resumes a handler whose statement was answered), of starting a
  sweep while something is expired (the scheduler's 30 s interval) and of
  `GraceExpires` (clocks run). No fairness for clients, and none for losses.
* `OperatorStatusQueue` and `Sessions`: weak fairness of the continuation of `handleJob`
  (setStatus settles), of `finally`, of each timer; in `Operators` also of the answer
  of the INSERT. No fairness for clients, logins, restarts, or success over failure.
* `Subscriptions`, `Workforce` and `Service` have safety properties only, and no fairness.

An operator who repeats OFFLINE again and again renews `expires_at` each time; with
a fair `GraceExpires` the model expires an entry between two renewals, which a
client faster than the grace period could prevent for ever. Clock values are
left to the plan.

## 5. Where documents and code disagree

Each is a run that TLC must find violated:

* `claim_double`: "Allocation is atomic; no double assignment" (ARCHITECTURE.md:304). Two
  claims read QUEUED, both save, both callers are told they have the conversation.
* `claim_ingest`: ConversationsModule "Does _not_ change `state` or assignment"
  (DESIGN_DECISION.md:165). updateMetadata that overlaps a claim saves the entity it
  loaded, and undoes the claim.
* `claim_still_offline`: the sweep releases "if the operator is still OFFLINE"
  (DESIGN_DECISION.md:271, ARCHITECTURE.md:237). It does not read the status.
* `claim_stuck`: "conversations do not stay stuck on offline operators"
  (ARCHITECTURE.md:384). A claim saved after setStatus has looked for conversations
  has no grace entry, and stays.
* `claim_label_scope`: links only to labels of the conversation's inbox
  (DESIGN_DECISION.md:90). move-inbox and upsert leave the links.

Noted while reading, and modelled as the code does it, without a run:

* move-inbox puts a conversation in QUEUED from every state, RESOLVED included
  (compare API.md:135 and ARCHITECTURE.md:339);
* a message for a RESOLVED conversation leaves it RESOLVED (ARCHITECTURE.md:260);
* reassign does not read the status of the new operator (ARCHITECTURE.md:80);
* allocate that loses its first choice answers nothing instead of trying the next
  candidate (API.md:105), and looks at the state only when it reads the row
  again, so that a row moved meanwhile may be allocated to an operator who is not
  subscribed to its inbox (DESIGN_DECISION.md:77); hence the weaker `Allocated` beside
  `Claimed` in `ConversationLifecycle`;
* an assignment that overlaps a resolve reopens the conversation: "Disallowed examples:
  ... `RESOLVED` → `ALLOCATED`" (ARCHITECTURE.md:224), and after a resolve it is "no
  longer eligible for allocation" (ARCHITECTURE.md:339). A reassign, or a claim or
  allocate that comes late, checks the row before the resolve is saved and saves after it, and
  ALLOCATED is among the columns its own save finds changed. `RacesLeaveSoundRows`
  says who can do this (a request that overlapped another on the row) and to what
  (a row ALLOCATED or RESOLVED with a subscribed operator), not that it cannot happen. On
  a row nobody raced for, only move-inbox takes a conversation out of RESOLVED
  (`ImplementsLifecycle`);
* `ConversationsService.findById` and the operators' `findOperatorById` and
  `getOperatorById` look a row up by its id alone (conversations.service.ts:75-79,
  operators.service.ts:43-55), and claim, resolve, deallocate, reassign and move-inbox read the
  conversation so and never compare its tenant, while "All queries are scoped by
  `tenantId`" (ARCHITECTURE.md:232);
* an operator may have two status rows (DESIGN_DECISION.md:244);
* updateInbox, and numbers and names of removed inboxes and deleted labels, give
  the database's error in place of the friendly one (DESIGN_DECISION.md, 4.2);
* `priority_score` is stored by allocate and not by upsert (README.md:178,
  ARCHITECTURE.md:261).

## 6. Proofs

`AllocationProofs` proves, for all sets of conversations, operators, managers,
inboxes and callers, every subscription table and every workload (the
assumptions are those of `ConversationStore` and `Allocation`: `None` is not an id,
subscriptions are pairs, managers are operators):

| Theorem | States |
|---|---|
| `TypeCorrect` | `Spec => []TypeOK` |
| `SectionsExclude` | `Spec => []IInv` |
| `RowsStayWhole` | `Spec => []RowsWhole` |
| `ChecksHoldAtWrite` | `Spec => WritesAreWhatWasChecked` |
| `ServiceImplementsLifecycle` | `Spec => Lifecycle!Spec` |
| `TakingStaysInScope` | `TakingSpec => []TakingInv` |
| `TakingRacesAreSound` | `TakingSpec => RacesLeaveSoundRows` |

The argument. None of the results is inductive. Whether a write is right depends
on what its handler read some statements ago. `IInv` carries that over: on a
conversation that is not raced at most one section is open (`OneSection`), and the
entity it holds is what the request asks for (`Asked`) of the row *as it still is*,
with `dirty` the difference between the two (`SnapshotIsCurrent`). So a write makes the
row equal to the entity (`OverwriteLemma`), which is one legal transition
(`AskedIsLegal`) to a whole row (`AskedKeepsWhole`). The thirteen actions are first shown to
be one of five kinds of step (`KindsOfStep`): quiet, opening a section, or one of the
three statements of `save()`; everything after that is a case split over five.

`RacesLeaveSoundRows` is about rows that are raced, where the entity of a request may have
nothing to do with the row it overwrites, so `IInv` says nothing. Another invariant does,
`TakingInv`: what every request is about to save is taken (ALLOCATED or RESOLVED, with an
operator subscribed to its inbox), in the inbox the row has; and a save that leaves out state
or assignee, because it found it unchanged, found a row that was taken, and rows of
`TakingSpec` stay so. Columns of two taken rows in one inbox make a taken row. A queued row
becomes ALLOCATED and not RESOLVED, because who resolves has found the row taken, so
that it was taken before. That a resolved row is changed only after a race needs `IInv` once
more: on an unraced row the snapshot is current, and no handler of `TakingSpec` asks anything
of a resolved one (`ResolvedIsLeft`). With
deallocate or move-inbox it is false: a save may then mix a queued row and a taken one.

### Subscriptions

`SubscriptionsProofs`, for all of the above, every table of pairs and every bound on
their rows:

| Theorem | States |
|---|---|
| `ScopeIsAllocation` | `ScopeSpec => Spec` |
| `ScopeKeepsContract` | `ScopeSpec => []IInv /\ WritesAreWhatWasChecked /\ ImplementsLifecycle` |
| `ListingsHold` | `ScopeSpec => []ScopeInv` |
| `AllocationsInScope` | `ScopeSpec => []AllocatedInScope` |

A step in which a request lists its subscriptions and finds none is a request that is
lost (`Crash`), and the others are steps of `Allocation` or leave its variables alone; so
every theorem of `AllocationProofs` holds here. `ListingHolds` says, for each place a
request can be in, that what it has listed covers the entity it is about to save, and
is there still unless the request has `lapsed`; the write then gives a conversation to
an operator who is subscribed, or it is `adrift`.

### Grace periods

`GracePeriodProofs`, for any number of conversations, operators, clients, sweeps that
overlap, set-status requests that overlap, status rows and lost requests:

| Theorem | States |
|---|---|
| `SweepsAreHarmless` | `GraceSafetySpec => []GraceInv` |
| `GraceTypeCorrect` | `GraceSafetySpec => []GraceTypeOK` |
| `AvailableIsClear` | `GraceSafetySpec => []AvailableHasNoGrace` |
| `OfflineIsCovered` | `GraceSafetySpec => []OfflineHasGrace` |
| `SweepsTakeFromOffline` | `GraceSafetySpec => []ReleasesAreOfOffline` |
| `SweepsKeepContract` | `GraceSafetySpec => ImplementsLifecycle /\ WritesAreWhatWasChecked` |

The difficulty is the sweep that works from an old list and deletes by id: why can it
not delete the entry of a conversation that needs one? Say an operator is `Orderly` while
he has one status row at most and is not `mixed`, and `Returning` while an AVAILABLE
request of his is in progress. For an orderly operator who is not returning, `GraceInv`
says that he is OFFLINE as long as he has an entry (`EntriesOfOffline`) or is in a list
of a sweep that can still delete it, `gone` ids excepted (`ListedOfOffline`). Being
OFFLINE he gets no conversation but late ones (`WatchLemma`), so what the sweep has found
not his, or has released, is not due when the entry goes (`ProcessedIsFree`). If he comes
back, `SetDeleteGrace` removes his entries and makes every listed id `gone`. On the other
side `Phases` says that a request which has looked has found all that is due, so that
`DueHaveGrace` holds when it ends. `IInv` is a part of `GraceInv`, because a sweep is one
more caller of the store (`GraceKindsOfStep`); so the contract of `Allocation` carries over.

### The status queue, operators and sessions

`OperatorStatusQueueProofs`, of the queue alone (`SafetySpec`), for every set of operators
and every number of attempts (at least one) and restarts:

| Theorem | States |
|---|---|
| `QueueTypeCorrect` | `SafetySpec => []QueueTypeOK` |
| `NoWakeupIsLost` | `SafetySpec => []NoLostWakeup` |
| `JobsAreInOnePlace` | `SafetySpec => []EachJobOnce` |
| `QueueDefersJobs` | `SafetySpec => Deferred!SafetySpec`, the safety part of `ImplementsDeferredJobs` |

The callbacks are compositions of four functions on the queue object (`Push`,
`Iterate`, `RunLoop`, `Stopped`), so there is one lemma for what each does to it.
`QueueInv` has three parts. `Tidy` is what is left of "one place only" in the middle of a
callback. `Awake` (a job that is queued has a loop) holds between callbacks only:
`Push` breaks it, and `RunLoop` or the `finally` restores it. The third part ties the
histories to the object: an operator is `pending` exactly if the object knows a
job of his, which carries as many attempts as have failed; without it a retry
could not be told from a new job, and neither `EachJobOnce` nor the refinement is
inductive.

`OperatorsProofs`, of the modules that use the queue, for all sets of operators, roles,
updates and visitors:

| Theorem | States |
|---|---|
| `OperatorsTypeCorrect` | `OperatorsSpec => []OperatorsTypeOK` |
| `RemovalIsFinal` | `OperatorsSpec => RemovedOperatorsStay` |
| `SessionsAreOperators` | `SessionsSpec => OperatorsSpec` |
| `SessionsRunTheQueue` | `SessionsSpec => Deferred!SafetySpec /\ [](QueueTypeOK /\ NoLostWakeup /\ EachJobOnce)` |
| `SessionsTypeCorrect` | `SessionsSpec => []SessionsTypeOK` |
| `TokensKeepWorking` | `SessionsSpec => []AnsweredTokensWork` |

`RemovalIsFinal` rests on `PersonInv`: an update in progress works on a row that exists.
That an update which had found an operator brings him back after his removal is what the code
does (operators.service.ts:75-76); the property bounds it: each such update once, and none
that starts later. `DeletedLabelsAreFrozen` does the same for labels (labels.service.ts:131),
and `DeletionIsFinal` proves it from the frame of each statement.
The results about the queue reach `Operators` because each of its steps is a step of
the queue or leaves it alone, and `Sessions` because it refines `Operators`, fairness
included. `TokensKeepWorking` rests on a token being stored between `RegisterToken` and the
answer, and on each stored row belonging to the operator its text names.

### The queue and the grace periods together

`WorkforceProofs`, for all constants of both modules, every choice of newcomers and of
operators who speak for themselves:

| Theorem | States |
|---|---|
| `WorkforceRunsTheQueue` | `WorkSpec => Deferred!SafetySpec /\ [](NoLostWakeup /\ EachJobOnce)`, of its queue |
| `WorkforceKeepsGrace` | `WorkSpec => [](GraceTypeOK /\ AvailableHasNoGrace /\ OfflineHasGrace /\ ReleasesAreOfOffline)` |
| `WorkforceKeepsContract` | `WorkSpec => ImplementsLifecycle /\ WritesAreWhatWasChecked` |
| `OwnStatusStays` | `WorkSpec => StatusIsHisOwn` |
| `FirstStatusHolds` | `WorkSpec => []FirstStatusIsWhole` |

`WorkSpec` does not refine `GraceSafetySpec` (restarts end all requests at once, and failed
attempts are unbounded), but each of its steps keeps `GraceInv`; the lemmas of
`GracePeriodProofs` are about steps and are used again, with `RestartKeeps` for restarts and
`SettingLost` for attempts that fail. The queue is an instance, so its theorems are
cited for it. `LoopWorks` ties the two together: the setter of the loop works for the
job that the queue handles, which is pending (`LoopIsPending`); that gives `OwnStatusStays`.

`FirstStatusHolds` cannot come from `GraceInv`, which says nothing of an operator whose
attempt failed half-way: he is `mixed`. `Fresh` replaces it for a newcomer who has not
spoken: entries of his, listed entries, an attempt past its save, and a finished job are
each there only when he is OFFLINE (`Touched`), and from then on nothing ends that. So
what failed attempts leave behind does no harm, and the attempt that succeeds covers
everything that is due.

### The whole service

`WorkforceProofs` ends with `Service`, for all constants of all its parts:

| Theorem | States |
|---|---|
| `ServiceIsWorkforce` | `ServiceSpec => WorkSpec` |
| `ServiceKeepsScope` | `ServiceSpec => []AllocatedInScope` |
| `ServiceKeepsPromises` | `ServiceSpec =>` entries, releases, first status, own status, lifecycle and checked writes |

A request that is refused for want of a subscription is, for `Workforce`, one that is lost; a
change of the table is a stutter, for which the history `late` has to be shown
unchanged (`NothingNewIsLate`, from `LateAreHeld`). So what is proved of `Workforce` holds.
The scope does not come from `Subscriptions` in that way, as sweeps are not requests of
`ScopeSpec`; but `ScopeInv` is kept by every step of `Service`. For requests the lemmas of
`SubscriptionsProofs` are used again (`ServiceKeepsListings`); a sweep is a caller that
lists nothing (`SweepersListNothing`) and saves entities that are released, so it gives
nobody a conversation (`SweepKeepsScope`, with the invariant `SweepsRelease` of the sweeps).

### Labels and inboxes

`LabelsProofs`, for all sets of callers, inboxes, numbers, labels, names and
conversations (`None` is none of them, and no row):

| Theorem | States |
|---|---|
| `LabelTypeCorrect` | `LabelSpec => []LabelTypeOK` |
| `PhonesAreUnique` | `LabelSpec => []OneInboxPerPhone` |
| `NamesAreUnique` | `LabelSpec => []OneLabelPerName` |
| `AttachKeepsScope` | `LabelSpec => []LinksAreInScope` |
| `DeletionIsFinal` | `LabelSpec => DeletedLabelsAreFrozen` |
| `RequestsAreAtomic` | `LabelSpec => Book!Spec`, that is `ImplementsCatalogue` |

`LabelInv` adds to the properties what each request in progress may rely on
(`Founded`): the rows it found still exist, the entity of an update has the inbox of its
label, and attach's comparison of inboxes still holds unless its pair is `astray`. This
is the assumption under which AttachInsert keeps links in scope; it survives the
other requests because no statement takes a row away or changes the inbox of a
label (`RowsStay`). Most statements are `Progress` of one request that writes no
table; the others write one table each. `DeletionIsFinal` then needs no further
invariant: a request that can touch the label or its links is one of `WorkersOn(l)`, it
leaves them when it does so (`EndedKeepsFrozen`), and none joins them once the label is
deleted (`OngoingKeepsFrozen`).

`RequestsAreAtomic` shows of every write that it is one step of `Catalogue`, whose guards
are about the tables as they are then. Those guards are what `Founded` carries from the
read to the write: the inbox of a label about to be inserted exists, the entity of an
update is not a deleted one, the conversation of a link is filed. Where nothing carries
over, because another request may have come in between, the unique index refuses the
write (`Unlisted`, `Unnamed`), or `Catalogue` has to admit the effect: an edit revives
a label deleted meanwhile, a link may be `astray`.

### Priorities

`PriorityProofs`, for any number of conversations, any window and any finite or
unusable configuration; `MaxTime` and `MaxCount` are arbitrary:

| Theorem | States |
|---|---|
| `PriorityTypeCorrect` | `PrioritySpec => []PriorityTypeOK` |
| `ChoiceIsUndominated` | `PrioritySpec => []ChosenIsUndominated` |
| `AChoiceExists` | `PrioritySpec => []SomethingIsChosen` |
| `ScoresAreFractions` | `PrioritySpec => []ScoreIsAFraction` |
| `WaitingKeepsOrder` | `PrioritySpec => TimeKeepsOrder` |

Type correctness is the invariant; the rest holds of every well-typed state. The
features of a window are natural numbers with a least element (by the
well-foundedness of `<`) and, being bounded, a greatest one, so a span is positive
and no feature is further from the least than a span (`SpanBounds`). A dominating
conversation has a greater product in one feature and no smaller one in the other
(`ProductOrder`). A window without a first candidate would have a least part without one,
by finiteness, which taking away one element contradicts, because the comparison is total and
transitive; and a queue has windows of each size, found by dropping the least
recent candidate (`WindowExists`). That, and counting a queue larger than the window, is why
`Conversations` is assumed finite. A clock tick shifts all delays by one, which changes no span
(`ShiftedSpan`). What is proved is about exact fractions, not the code's rounding.

## 7. Model-checked only

All liveness under fairness: `NotStuck`, `ExpiredIsProcessed`, `NewOperatorGetsStatus` and
the fairness part of `ImplementsDeferredJobs`; liveness is outside the prover's reach.
Every safety property of the passing runs has a theorem, and the inductive invariants
`IInv`, `TakingInv` and `ScopeInv` are checked by TLC as well.

## 8. What is not modelled

* Tenants: one insert and one list. One tenant is modelled: most queries filter
  by tenant, and those by id alone are listed in section 5. There is no ValidationPipe, so
  inputs are not restricted further than by foreign keys.
* The role of a caller is an input of the requests of `Allocation`; `Sessions` says where
  it comes from. That a token keeps the role it was made with is modelled, and no
  document says what should follow from it.
* `grace-period.cron.ts` is registered nowhere and never runs.
* Lists, history and contact are reads. Configuration, logging, error wording,
  bootstrap are left out; the migrations are used for keys and indexes.
* Columns no property is about: phone numbers and timestamps of conversations,
  colours, display names. Every save of a conversation changes `updated_at`, so its
  UPDATE is always issued.
* Restarts of one of several instances in `Workforce` and `Sessions`: a restart there ends
  everything, so one process is modelled. `GracePeriod` and `Allocation`, where requests
  are lost one by one, are of any number of instances.

## 9. Plan

1. Clock values for grace entries, so that renewal and expiry can race, and an
   operator who renews for ever can be told from one whose entries expire.
2. An abstract specification of `Operators` and `Sessions`, as `Catalogue` is of labels.
3. `Allocation` with the choice of `Priority`, and more than one instance of the queue.
