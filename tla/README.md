# TLA+ models of brainz

brainz keeps one private knowledge base ("brain") per tenant, each in a Postgres
database of its own, fills it from connectors and from MCP clients, and
consolidates it with a fleet of worker processes. This directory holds TLA+
models of the parts whose correctness depends on the order in which processes,
statements, crashes, deliveries and timers interleave, TLC configurations
that check small instances of them, and TLAPS proofs of what holds for every
instance. Paths below are relative to the repository's `src/`, where its code is
(tests are in `test/`, decisions in `docs/`).

## Inventory

The parts, the state each keeps, and what makes each of them correct:

| part | state | operations | what must hold |
| --- | --- | --- | --- |
| durable job queue: `worker/queue.ts`, `jobs.ts`, `locks.ts`, `control/connector-lanes.ts` | `control.job`, three columns of `control.tenant` | enqueue, claim, heartbeat, complete, fail, reclaim, clearDeadLetter, reviveDeadLane, discardConnectorLanes | one open row per lane, one process able to write a row, a bounded ladder, nothing lost |
| job runner: `worker/runner.ts`, `serve.ts` | `passInFlight`, the map of running leases | runOnce, beat, tick | attempts end, lanes drain whatever crashes |
| scheduler and signals: `worker/scheduler.ts`, `mcp/control-signals.ts` | the tick's selection; `pending_debt`, `last_activity`, `last_cycle_at`, `next_due_at` | selectDueTenants, stampMissingDueTimes, runSchedulerTick, the sink's flush | no signal lost, cycles spaced, no tenant forgotten |
| consolidation: `worker/consolidate/` | `consolidation_run`, `consolidation_checkpoint` in the tenant's database | openRun, phase loop, completePhase, finishRun; the phases' own writes | no phase paid twice, none skipped forever, `dreamt` is true |
| export and purge lanes: `worker/export.ts`, `purge.ts` | rows of the queue | enqueueDue…, the purge's batches | as the scheduler; the backlog drains |
| connector links: `control/connector-pg.ts`, `ingest/pipedream/reconcile.ts`, `web/app.ts` | `control.connector_link`: account, intent, fence; the vendor's accounts | connect, reconcile, disconnect | a disconnect wins, a connection keeps its account, a closed tab converges |
| connector pulls: `ingest/pipedream/pull.ts`, its sources and sweep, `worker/connectors.ts` | the cursor in the link's state, pages | runPull: list, fetch, gate, ingest, sweep, save | the cursor covers only banked work, no source is wedged |
| provisioning: `control/provision.ts`, `control-store.ts`, `neon-api.ts`, `secrets.ts` | the tenant's row with its lease, the vendor's projects, the tenant's entry in the secret store | provisionTenant (insert or claim, clean up, create, apply, verify, mint, put, ready), superseded | one run goes on, the row is legal and says what exists, `ready` routes to what is there, no project is left unnamed |
| warm pool, residue, migration: `control/pool.ts`, `reconcile.ts`, `migrate.ts` | pooled projects, the schema version | claim, refill, reconcile, the schema sweep | a pooled project goes to one tenant |
| OAuth server: `mcp/oauth.ts`, `mcp/server.ts`, `mcp/dispatch.ts`, `control/oauth-pg.ts` | codes, refresh tokens, revocations | authorize, redeem, rotate, revoke, sweep, authenticate | one line of descent per consent; revoked is neither renewed nor served |
| billing: `control/checkout.ts`, `billing.ts`, `tier.ts`, the webhook and checkout of `web/app.ts` | `account.subscription`, `account.billing_event`; `control.tenant.tier` | checkout, webhook, operator's grant and revoke | the newest event rules, an answered event landed, the two readers of a tier agree |
| accounts and sessions: `control/accounts.ts`, `web/` | users, sessions | sign up, sign in, attachBrain | unique by index |
| forgetting: `mcp/tombstone.ts`, `core/lifecycle/` | `deleted_at` and `superseded_by` of seven tables, `retraction` | forget, undo, purge; sever, erase | an undo finds its rows, the purge drains, what is forgotten does not answer |
| write path and search: `core/write/`, `core/search/` | content | write, merge, link; ranked reads | single transactions; pure ranking functions |
| model gateway: `ai/` | spend | route, call, charge | a call's budget is not exceeded |
| web application, MCP tools: `web/`, `mcp/` | — | handlers over the above | — |

Processes talk to the control plane and to each tenant's database by single
statements and short transactions; nothing is held across an `await` but a
lease. The control plane, the account database and the tenant databases share
no transaction. So the hard behaviours are: a lease that is stolen while its
holder lives, a statement whose answer is lost, a decision taken from a row
something has overtaken, a kill between two statements, two databases moved one
after the other, a delivery that is repeated or arrives late, and a timer that
does not wait for its previous run. `PROJECT.json` lists them one by one, at
their lines.

## Modules

| module | models | instance |
| --- | --- | --- |
| `JobQueue` | the tables and every statement of the queue, one operator each | — |
| `JobRunner` (extends `JobQueue`) | worker processes, the reaper, operators, time; `Spec`, `LiveSpec` | `MCJobRunner` |
| `LeasedWork` | the abstract promise of the queue | implemented by `JobRunner` |
| `Scheduler` (extends `JobRunner`) | ticks that select and enqueue due tenants, signals, history of selections | `MCScheduler` |
| `ConsolidationRun` | runs and checkpoints of one brain under cycles that are killed or robbed of their lease | `MCConsolidationRun` |
| `Provisioning` | runs of provisionTenant for one tenant, one step per await, over the row, the vendor and the secret store | `MCProvisioning` |
| `OAuthGrants` | code, redemption, rotation, revocation, sweep and the check of a call | `MCOAuthGrants` |
| `ConnectorLink` | connect, reconcile and disconnect over the link's row and the vendor | `MCConnectorLink` |
| `ConnectorPull` | pulls of one source over the provider's feed, the pages and the cursor | `MCConnectorPull` |
| `Forgetting` | retraction, undo and purge among writes, extraction and dedup | `MCForgetting` |
| `Subscription` | checkout, webhook and grant over two databases | `MCSubscription` |
| `JobRunner_proofs`, `ConsolidationRun_proofs`, `Provisioning_proofs`, `OAuthGrants_proofs`, `ConnectorLink_proofs`, `ConnectorPull_proofs`, `Forgetting_proofs`, `Subscription_proofs` | the theorems about the module of that name; those about `Scheduler` are with the queue's, on whose invariant they stand | — |

**The queue and who works it.** `job` is `control.job`, one record per row; the
four lease columns are one Boolean with the two deadlines, which the CHECKs
`running_jobs_hold_a_lease` and `released_jobs_hold_no_lease` justify (and
`TypeOK` restates). A lane is a triple (tenant, kind, target). `tenant` has the
columns a completion settles and the scheduler reads. A timestamp is kept as its
distance from now, so one action, the tick of the clock, moves them all, and a
statement that works with an older `now` (the tick's) carries a `lag`.

Each action is one statement or one transaction, because that is what commits.
`enqueue` is two: its `NOT EXISTS` and `EXISTS` read the snapshot the INSERT
began with, while `ON CONFLICT` arbitrates when the index entry is made;
`inserting` holds the INSERTs between the two. `reclaim` is one: its rows are
locked until it commits. In `ConsolidationRun` every `await` of `openRun` and
`finishRun` is a step (`cycle[w].at` says which is next), so a kill or a stolen
lease falls between any two of them. `Steal` takes the lease away whether the
process lives or not; the process goes on, because nothing in the tenant's
database looks at the lease.

**Provisioning.** A run is suspended at the `await` its `at` names, and every
other run may move there. `local` is what the run's closure holds: the row it
read (`existing`), its lease, the id it was given. A patch is the record it
writes; `Owned` is the WHERE clause of the fenced UPDATE and `Superseded` what a
run does when that UPDATE finds no row. Start times are one set: `stale` holds
the runs that began longer ago than the stale window. A stale run is past its
deadline too, since provisionTenant refuses a stale window that is not longer
(`provision.ts:594`), so it passes no `stopped()` check; past the last one it
may still be at work, and that is where stragglers come from. Projects carry
the name of the run that asked for them; `Stray` stands for every project whose
id no run learns (a POST repeated after a 5xx), and `NoSilentOrphan` is silent on
it, as on a project whose run died with the id in hand or whose deletion failed in
`superseded`, which swallows the failure. `straddled` is history: the row
was claimed while some run was inside a call that carries no lease, the cleanup
or `secrets.put`, whose window `provision.ts:896-902` accepts.

**OAuth.** A request reads the clock once, when it begins, and decides every
expiry against that reading (`req[p].at`); each statement of the store is a step.
A grant is the unit of revocation, as in the code: a replayed code or refresh
token is refused and revokes nothing. Access tokens are self-contained, so
`access` is the set of those signed; client, redirect, scope and PKCE checks are
one nondeterministic refusal. `revokedAt` and `served` are history.

**Connector links.** One tenant and one source. Accounts at the vendor are
numbered in the order of `createdAt`, which is what a pass picks by. A pass and a
disconnect are suspended between the vendor's answer and the row's statement. The
intent's age is one of fresh and lapsed. `hasty` is history: a connect was
recorded while a disconnect had moved the fence and not yet told the vendor.

**Connector pulls.** The provider is a log of events, and the content of an item
is the position it was fetched at, so a page is current exactly when it carries
its item's last position. A pull captures the change token, lists, fetches,
gates, ingests, sweeps and saves, one step each; it fails or dies anywhere, and
is not stopped by losing its lane (`holder`), because runPull never looks at the
lease. `crowded` is history: a pull started beside another.

**Forgetting.** `page` and `fact` stand for the seven tombstoned tables, with the
two kinds of reference between them (ON DELETE CASCADE, and `superseded_by`
without an action). A tombstone is the instant of the retraction that set it;
time enters as two marks, `undo` (past the 72 hours) and `cut` (past the grace as
well). What a write or a phase reads before its transaction is a step of its own.
`took` and `overtaken` are history: the rows each retraction has still to give
back, and the pages that a rewrite retired after they had been forgotten.

**Subscription.** One account and its brain. A delivery is one step per statement
(claim the event, find the account, move the subscription, move the tenant) in
several containers at once, and may throw, which releases the claim, or die,
which does not. The vendor repeats what was not answered, in any order. `landed`
and `lost` are history; so is `astray`, why the two databases may differ at the
moment, with four reasons that are described below. A reason is withdrawn by the
next delivery that lands alone.

**Left out inside these modules.** Failure codes and timestamps no statement
reads back, which kind or target a lane is (beyond `CycleLanes` and
`ConnectorLanes`), the content of handlers and phases, money (only which phases
ran under which run), the batch limits of the sweeps, the deletion of a tenant
with its rows, and the order of the lanes inside a tick: each is a step of its
own, which allows more than the code does. In `Provisioning`: request validation,
the attempts counter, rows in state `deleting` (nothing in `src/` writes it), the
sibling names a search returns, and the warm pool. In `ConnectorPull`: approvals,
suppression, the junk gate, the import window and the budget's arithmetic; and of
what a pull writes off only the items that are gone, not those that are there and
answer a permanent 4xx (`sources/types.ts:142-183`) or cannot be parsed
(`gmail.ts:254-260`): the cursor passes them, and `CursorCoversBankedWork` says
nothing of them. In `Forgetting`: facts that are on no page, and the reach of a
document's cascade through `fact_source` to facts of another page
(`tombstone.ts:400-411`). In `Subscription`: the signature and the timestamp tolerance, which are checked
before any state is touched, the status, the period end and the spending cap.

## Runs

| run | shows | distinct states |
| --- | --- | --- |
| `job_runner` | two processes, two rows in one lane, operators who revive dead rows, under `LiveSpec`: `TypeOK`, `OneOpenPerLane`, `OneLiveHolder`, `LadderHasATop`, `OnlyTheHolderFinishes`, `ImplementsLeasedWork`, `AttemptsEnd`, `LanesDrain` | 269,528 |
| `scheduler` | signals, ticks and cycles of one tenant, up to two signals pending: `MidCycleSignalsSurvive`, `CyclesAreSpaced`, `TenantsComeDue` | 574,776 |
| `consolidation_run` | two processes, two metered phases: `TypeOK`, `ThriftIsEarned`, `DreamtMeansWorked`, `AdoptedOnce`, `NeverRepaid` | 2,567,419 |
| `consolidation_freeze` | a free phase in front: `NoFreeze` | 83,880 |
| `provisioning` | three runs, two languages: `OneHolderPerLease`, `RowIsLegal`, `ReadySpeaksItsLanguage`, `ReadyRoutes`, `NoSilentOrphan`, `OnlyAnEarlierReadReopens` | 3,034,346 |
| `oauth_grants` | two requests that retry, race and hang around one grant: `OneLineage`, `RevokedIsNotRenewed`, `RevokedIsNotServed` | 655,613 |
| `connector_link` | two accounts, two disconnects, passes of both fleets: `ConnectionHasAccount`, `OneConnectionPerFence`, `ClosedTabConverges` | 253,334 |
| `connector_pull` | a pull that fails or dies anywhere, a disconnect: `CursorCoversBankedWork`, `CursorsKeepToTheirConnection`, `CatchesUp` | 135,041 |
| `connector_pull_straggler` | **violated**: `StragglersCorruptNothing`, two pulls | — |
| `forgetting` | two pages, two facts, two retractions: `TypeOK`, `UndoFindsItsRows`, `PointersOutliveTheirTarget`, `BacklogDrains` | 415,687 |
| `forgetting_late` | **violated**: `NothingForgottenAnswers` | — |
| `subscription` | two events, two containers, two tabs: `EventsFindTheirAccount`, `NewestRules`, `AnsweredMeansLanded`, `ReadersAgree` | 931,761 |

The type invariants of `Provisioning`, `OAuthGrants`, `ConnectorLink`,
`ConnectorPull` and `Subscription` are proved, so their runs do not repeat them.

Deadlock is checked except where the instance really stops: in `provisioning`
every run of provisionTenant ends, and in `oauth_grants`, `forgetting` and
`forgetting_late` the bounded clock or the bounded instants run out. Elsewhere
time passes, or a cycle, a pull or a delivery can start, in every state.

**Bounds.** Two rows in one lane are what a race inside a lane needs (a third
adds more of the same; lanes share nothing but a tenant). Two attempts make a
retry, an exhausted row and a terminal failure differ. `LeaseTtl = 1`,
`StealGrace = 1`, `AttemptBudget = 2` keep the order the code demands (a budget
longer than a lease) and let a lease lapse, be renewed past its attempt's
deadline, and be born with its life spent (`MaxLag = 1`). `MaxToken` bounds
revivals, which the code does not: a row is revived only while two whole ladders
fit under the bound (`MayRevive`). In `job_runner` (5, two attempts) a row that
died terminally at its first claim is requeued or revived and may climb its ladder
again; in `scheduler` (2, one attempt) no dead row comes back, which only the proofs
cover there. `MaxDebt = 2` lets a signal land on a debt that a cycle is working
off, so that its settlement subtracts a part. `MaxPicks`, `AgeCap` and `QuietCap`
bound selections in flight and the ages that are told apart; with `Quiet = 0` every
debt is ripe for the debounce at once, which leaves `MinInterval` alone to space the
cycles. What no statement reads again is not kept: the `run_at` of a row that is
not due, and the debt of a finished one. Job ids (`Recycle`) and run ids (`Unused`) are reused
when nothing refers to them, so behaviours have no end. Three runs of
provisionTenant are a holder that hangs, a retry that takes over and fails, and
the one that succeeds both; two languages tell an inherited one from the one
asked for. In `oauth_grants` the three lives keep their order with the least
numbers (2, 3, 3, a request's patience 1), and the horizon of 8 lets a revocation
be swept while a token of the grant could still be thought alive; three tokens
are a redemption and two rotations. Two accounts and two disconnects are what a
pass needs to adopt the wrong one. Three events on two items make an item change,
go and come back around a listing. Two pages and two facts with a batch of one
put a row and what points at it in different batches. Two events suffice for
`subscription`, where an older and a newer delivery cross, since a delivery that
throws comes again. Symmetry is used where identities are only compared (job ids,
processes, runs, requests, deliveries) and only in runs without liveness.

**Fairness.** `Fairness` of `JobRunner`: the clock; the interval timer of each
process starts passes and every tick's reclaim reaches each stealable row; an
INSERT past its snapshot ends; the control plane answers some of an endless
series of claims (strong fairness, since the tick repeats it and a lost answer
is a legal outcome of each). No handler is assumed to return; `LanesDrain`
says what follows if every process's hand empties again and again, since
`passInFlight` holds a process to its slowest handler. `Scheduler`: the timer
ticks, and not every enqueue of a tenant is lost to a tick that throws.
`ConsolidationRun` needs none: `NoFreeze` compares two infinities.
`ConnectorLink`: the tick and the poll of the page keep starting passes; of an
endless series of them the vendor answers some, and some of those live to write
(strong fairness, a refusal being legal each time). `ConnectorPull`: the source
is offered again at its cadence, and a pull that does not hang takes its steps;
`CatchesUp` is conditional on faults stopping. `Forgetting`: the purge's batch is
run again, which holds where the operator has set `BRAINZ_PURGE_ENABLED`
(`worker/purge.ts:165`) and not elsewhere. `Provisioning`, `OAuthGrants` and
`Subscription` state no liveness and assume no fairness.

## What the violated runs show

* `connector_pull_straggler`. `worker/runner.ts:51-53` says that a handler which
  ignores the loss of its lease cannot corrupt anything, because every write it
  could make is fenced. The pages a pull ingests are not. A pull that hangs past
  its lease with an old version in hand ingests it over the one its successor
  banked; the cursor is past both. `CursorCoversBankedWork` is what does hold: it
  is claimed of a source that never had two pulls at once.
* `forgetting_late`. `mcp/tombstone.ts:400-402` says that its cascade leaves no
  fact of a retracted document answering. `runExtractPhase` selects a live page,
  calls the model, and inserts (`model-phases.ts:527`) without looking at the page
  again; a retraction in between does not see the fact. A test of the page's
  `deleted_at` in that INSERT closes it.

## Where the code does less than a comment says

These were met while modelling. The properties state what does hold, with a
history variable where one history has to be set apart.

* `reviveDeadLane` (`worker/queue.ts:599`) counts on one dead row per lane. An
  INSERT that took its snapshot while the row was running lands after the row's
  death. With two dead rows the revival rolls itself back and answers
  `already_open` for a lane with nothing open; an operator who discards one row
  by id gets out of it.
* `schema.sql:428-430` and `queue.ts:346-350` promise that a completion discards
  nothing that arrived mid-cycle. A tick's selection carries the debt it read; if
  the running cycle settles that debt before the tick enqueues
  (`scheduler.ts:432-443`), the next cycle subtracts it a second time.
  `MidCycleSignalsSurvive` and `CyclesAreSpaced` hold for every cycle whose
  selection no settlement overtook (`outdated`).
* `tombstone.ts:867-874` refuses an undo rather than restore a part and report
  success. `commitWrite` stamps the page it replaces whatever its `deleted_at`
  (`write-path.ts:356`; the facts and chunks above it are asked). A document
  that is forgotten while its rewrite waits for the gateway loses the instant of
  the retraction on its page alone. The undo goes by that instant: it succeeds,
  and gives back the facts and chunks without their page. `UndoFindsItsRows` sets
  such pages apart (`overtaken`); a test of `deleted_at` in that UPDATE closes it.
* `checkpoint.ts:26` says that an open run means a killed cycle. It also means
  one whose lease was stolen. `ThriftIsEarned`, `DreamtMeansWorked` and
  `AdoptedOnce` survive such stragglers; `NeverRepaid` does not, and is stated
  for cycles that never overlapped (`crowded`).
* `provision.ts:39-43` calls `ready` an absolute stop and says that a lease
  enforces it. The claim compares the lease alone (`control-store.ts:216`), and
  becoming ready does not change it. A retry that read the row of a late run
  takes the tenant over after that run has made it ready, and its cleanup, which
  tests the snapshot, deletes the project. `OnlyAnEarlierReadReopens` is what
  does hold: no other step touches a ready row. It needs a tenant id that is
  provisioned again, which the contract of provisionTenant allows and no caller
  in `src/` does today (`createBrainProvisioner` mints an id per call).
* `reconcile.ts` says that a disconnect wins every race. A connect recorded
  between a disconnect's two halves starts an intent at the new fence, which a
  pass can satisfy with the account the disconnect is about to remove (`hasty`).
* `billing.ts:44` puts the recency test inside the UPDATE, where two racing
  containers cannot both win, and `account-schema.sql:335` says the two tiers are
  kept in step. The UPDATE decides the subscription only: two overlapping
  deliveries can move the tenant in the opposite order (`crossed`).
* `billing.ts:372` calls deduping a delivery whose effect never landed the one
  failure the ledger must not produce. A process that dies between the halves
  keeps its claim, and a duplicate that was answered while its claimer then failed
  is not sent again (`lost`, `cut`).
* `billing.ts:663` says that a revoke undoes exactly what a grant did. A grant
  over `paid` followed by a revoke leaves the tenant `free` (`revoked`).
* A subscription paid before the brain exists moves no tenant; the tenant stays
  free until the next event (`early`).
* Every checkout start mints a customer at the vendor, so an abandoned first
  checkout makes the next answer `checkout_conflict` (`web/app.ts:2261`). It is
  the price of `EventsFindTheirAccount`.

## Proofs

Each proof module proves its theorems for every value of the constants that
satisfies the assumptions its base module names. In all of them the safety
properties are not inductive alone; `IInv` is the strengthening, shown by
`Init => IInv`, `IInv /\ [Next]_vars => IInv'` and `IInv => property`. TLC has
checked the strengthenings of `ConsolidationRun`, `Provisioning` and `Forgetting`
on the instances of their runs.

`JobRunner_proofs`, for every set of rows, lanes, tenants and processes, every
budget per lane and every lease arithmetic under `LaneAssumption`,
`TimeAssumption` and `RunnerAssumption`:

    Spec => []TypeOK              TypeCorrect
    Spec => []OneOpenPerLane      LanesAreExclusive
    Spec => []LadderHasATop       LadderIsBounded
    Spec => []OneLiveHolder       FenceIsExclusive
    Spec => OnlyTheHolderFinishes FinishedByItsHolder
    Spec => ImplementsLeasedWork  ImplementsWork

`IInv` adds that no lease in hand is ahead of its row's token (`TokensAreSpent`),
no two processes hold the same job at the same token (`HoldersDiffer`; a claim's
token is one more than any spent), and an INSERT in flight names a row that does
not exist, alone (`InsertionsAreNew`). The proof sorts the steps of `Next` by what
they do to a row (`RowStep`) and to a hand: a step either claims one row for one
process or takes nothing into a hand (`NextStep`); each conjunct follows from that
shape. That a lane stays exclusive needs one more fact: only an INSERT and a
revival open a row, and both find the lane closed (`OnlyFleetOpens`).

`ImplementsWork` is the refinement: whatever a step does to a row, together with
what it does to the processes able to write it, is a step of the item of
`LeasedWork` (`RowsStepLikeItems`). Who is able to write it are the processes with
its latest lease in hand (`LiveHoldersHoldTheLatest`); the fence makes them one at
most, a claim makes its process the one, and every other step leaves them or makes
them none.

About the scheduler, for every threshold under `SchedulerAssumption` as well, the
same module proves

    SchedulerSpec => CyclesAreSpaced         CyclesKeepTheirDistance
    SchedulerSpec => MidCycleSignalsSurvive  SignalsSurvive

`SchedulerIInv` is the queue's `IInv`, which the scheduler's own steps and the
recycling of ids keep, and what a selection may rely on from the tick's snapshot to
the end of its cycle: the tenant has rested, and owes no less than was selected, plus
what was signalled since the claim once the row runs (`PicksStand`, `InsertsStand`,
`RowsStand`, all in terms of `Fresh`). A step of the queue leaves that to every
tenant it does not settle (`UnsettledKeepTheirRest`). The one that settles a tenant
finishes the only open row the tenant has (`OneOpenPerTenant`: one lane of cycles,
one open row in it), and everything else that was selected before is marked as
outdated (`SettledRowsAreMarked`). TLC has checked `SchedulerIInv` on the instance of
the run.

`Provisioning_proofs`, for any number of runs and any languages, under
`ProvisioningAssumption`:

    Spec => []TypeOK                    TypeCorrect
    Spec => []OneHolderPerLease         LeaseFences
    Spec => []RowIsLegal                RowStoredIsLegal
    Spec => []ReadySpeaksItsLanguage    LanguageIsKept
    Spec => OnlyAnEarlierReadReopens    OnlyEarlierReads
    Spec => []ReadyRoutes               RoutesWhereReady
    Spec => []NoSilentOrphan            NoOrphans

`IInv` adds that the row gave out every lease and snapshot anybody has
(`LeasesAreGiven`), that the run which closed the row has ended, so a closed
row has no writer left (`ClosedRowsAreLeft`), what a claim was decided on
(`ClaimsAreDecided`), that each artifact the row records was made by the run
that holds it (`RowFollowsItsHolder`), and that a verified language stays
(`LanguagesStay`). The argument has two halves. First, every action is a sound
step: it leaves the row alone and lets its run claim nothing new (`Quiet`), or
writes it under the lease (`Writes`), or takes it with a lease above all others
(`Takes`). Then each part of `IInv` follows from those three shapes, mostly from
`HolderWritesAlone` and `TakerIsAlone`.

`ReadyRoutes` and `NoSilentOrphan` relate the row to the vendor and the secret
store, and take a second induction on top, `Routed`. The row says whose it is
(`Recorded`); a project is asked for only once the row is clean, and its id is
known only once it has landed (`Known`); who undoes has lost the row
(`UndoIsDisowned`); who cleans up finds what the row records before anything is
built anew (`CleanupFinds`); a project whose id reached its run is the one the row
records, or is in hand (`Accounted`). The calls that carry no lease are why
`HolderIsUndisturbed` is conditional: while no takeover straddled one, whoever is
inside such a call holds the row, so nobody else deletes the holder's project or
replaces its grant. Each step is described by its effect on the vendor, the row's
columns and the grant (`Effects`), and each part follows from those effects.

`ConsolidationRun_proofs`, for any number of processes and runs and any order of
phases, under `CycleAssumption`:

    Spec => []TypeOK             TypeCorrect
    Spec => []ThriftIsEarned     Thrift
    Spec => []DreamtMeansWorked  Dreamt
    Spec => AdoptedOnce          OneAdoption
    Spec => NeverRepaid          NothingRepaid

Cycles that were robbed of their lease go on beside their successors, so the
invariant is about what one cycle may rely on whatever the others do (`Fits`): its
run is there, and stamped if it was resumed; what it may skip was banked by the
run's opener; what lies behind it was worked. Steps of other cycles only add to
what `Fits` reads. A run that two cycles want is resumed by one (`OneRide`,
because the stamp is a compare-and-set), and a checkpoint that names a run was
banked by its opener or by the one cycle that resumed it, which had read its
checkpoints by then (`BankedBy`): that is why no straggler can slip a phase it did
not run into what another may skip. The open runs have a newest, in the order of
the identity column (`Ordered`). `NothingRepaid` adds `Alone`: while no two cycles
overlapped, there is one open run and its checkpoints stay until they are read.

`OAuthGrants_proofs`, for any grants and requests and all lives of codes and
tokens that satisfy `OAuthAssumption`:

    Spec => []TypeOK                TypeCorrect
    Spec => []OneLineage            SingleUse
    Spec => []RevokedIsNotRenewed   RetentionCoversRenewal
    Spec => []RevokedIsNotServed    RetentionCoversCalls

`Lineage` adds that a redeemed grant has a spent code. `Bounds` measures every
expiry of a grant from `Until`: now, and once it is revoked the revocation, after
which nothing of it may begin. No step moves `Until` back, so each bound is shown
where its quantity is created, and the retention of a revocation exceeds them all.
The assumption says what that takes: a code lives, a code and one request fit into
an access token's life, and that into a refresh token's. The defaults (60 s, 1 h,
30 days) satisfy it; the code states it nowhere.

`ConnectorLink_proofs`, for every set of passes, pulls and requests:

    Spec => []TypeOK                 TypeCorrect
    Spec => []ConnectionHasAccount   DisconnectWins
    Spec => OneConnectionPerFence    ConnectionsStay

A fence never runs ahead of the row, and while it is the row's a pull's account is
the row's (`Pulled`, `Listed`); a pass with the row's fence holds an account that
is still attached, and while a disconnect has the vendor to tell nobody holds the
row's fence (`Intact`).

`ConnectorPull_proofs`, for every set of items and attempts:

    Spec => []TypeOK                        TypeCorrect
    Spec => []CursorCoversBankedWork        CursorIsHonest
    Spec => CursorsKeepToTheirConnection    CursorsStayHome

The argument follows the one pull that runs (`OnePull`): while the connection it
read is here, the row's cursor is the one it read (`Tied`); nothing it is about to
write or sweep has been passed by that cursor (`Unpassed`); and what its next
cursor passes is banked or in its hands as the provider has it (`Promise`), so
nothing is left to bank when it saves.

`Forgetting_proofs`, for any number of pages, facts and instants, any batch and any
grant, under `ForgettingAssumption`:

    Spec => []TypeOK                       TypeCorrect
    Spec => []UndoFindsItsRows             UndoIsComplete
    Spec => PointersOutliveTheirTarget     PointersLast

Every step does one of four things to a row that carries a tombstone
(`RowsStand`): it leaves the tombstone, clears it as the undo of its very instant,
erases the row because its tombstone is behind the cutoff or its page goes, or is
the rewrite of a forgotten page, which `overtaken` records. An undo on offer is of
an instant ahead of the cutoff, and one that was admitted stays ahead of it
(`InFlightOutlasts`: the grace is longer than the undo may take), so only that
rewrite, and the loss of a fact's own page, take a row from it. A fact keeps its page even when erased (`OnAPage`,
`TookFacts`), which is how that second exception is told. A pointer
is cleared only in the batch that erases its target (`PointersStand`).

`Subscription_proofs`, for any number of events, containers, tabs and customers:

    Spec => []TypeOK                   TypeCorrect
    Spec => []EventsFindTheirAccount   OwnersAreFound
    Spec => []NewestRules              RecencyRules
    Spec => []AnsweredMeansLanded      AnswersAreHonest
    Spec => []ReadersAgree             TiersAgree

A customer with a payment page is the one on record (`Bound`); a claim is underway
or explained by what became of it (`Held`, `HeldOnce`, `Accounted`); an answered
event is claimed, landed or lost (`Answered`). `TiersAgree` takes a second
induction on top, `InSync`: a delivery between its halves carries what the
subscription says, and a tenant that differs without a reason has an event
pending that will repair it.

**Only model-checked.** Liveness (`AttemptsEnd`, `LanesDrain`, `TenantsComeDue`,
`NoFreeze`, `ClosedTabConverges`, `CatchesUp`, `BacklogDrains`), since the prover
does not handle `ENABLED` and fairness. Every safety property of a passing run is
proved. The two violated runs are counterexamples.

## Not modelled

* **Tenant schema migration** (`control/migrate.ts`): a ladder of rungs, each one
  transaction that also moves the version, re-run by a sweep. What a rung does to
  a schema half a ladder behind is its SQL.
* **Warm pool and residue**: the pool hands a project out by one compare-and-set over a
  locked row, and its default size is 0; `reconcile` is run by an operator, and
  tears down through the erasure of an account, which is idempotent by leg.
* **Accounts, sessions, imports, media**: single statements under unique indexes,
  and batches over the write path, with no concurrency of their own.
  `attachBrain` is an action of `Subscription`.
* **Search and the deterministic phases**: read-only or pure functions over
  content; their value is in the content, which these models abstract away.
* **Model gateway**: a budget belongs to one call or cycle, in the memory of one
  process; a call reserves from it synchronously and settles what it cost. The
  amounts are estimates, whose arithmetic is all there is to it.
* **Of forgetting**: the other five tombstoned tables (they follow `page` or
  `fact`), the archive of severed aliases, severance of an origin and the erasure
  of a subject.
* **Of the scheduler**: the batch limit, so a refused tenant that keeps sorting
  first is a hazard without a property.
* **OAuth registration, web pages, MCP tools, probes, scripts**: handlers and
  I/O. They are most of the repository's lines, and the reason why the models
  speak of a small share of them.

## Plan

Severance and erasure in `Forgetting`; the batch limit in `Scheduler`; the claim of a
pooled project beside `Provisioning`. The theorems would extend along the same
invariants.
