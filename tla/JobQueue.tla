------------------------------ MODULE JobQueue ------------------------------
(***************************************************************************)
(* The durable job queue of the control plane: the rows of control.job,    *)
(* the scheduling columns of control.tenant that a completion settles, and *)
(* one operator per statement (or transaction) of src/worker/queue.ts and  *)
(* src/control/connector-lanes.ts.  A row belongs to a lane, the triple    *)
(* (tenant_id, kind, target); a partial unique index allows one open row   *)
(* (due or running) per lane.                                              *)
(*                                                                         *)
(* The module has no next-state relation of its own: JobRunner drives the  *)
(* statements from worker processes, Scheduler from the scheduler's tick.  *)
(*                                                                         *)
(* Time.  A timestamp column t is kept relative to the present, as t - now,*)
(* and every such field falls by one when the clock advances, down to a    *)
(* floor below which no statement tells two values apart.  A statement     *)
(* given a "now" captured lag units ago sees t <= now - lag as             *)
(* tIn <= -lag.  Nothing bounds the length of a behaviour.                 *)
(***************************************************************************)
EXTENDS Integers, FiniteSets

CONSTANTS
    Jobs,           \* job ids: a row is inserted once and never deleted
    Lanes,          \* (tenant, kind, target) triples
    Tenants,
    TenantOf,       \* the tenant of a lane
    CycleLanes,     \* the lanes whose kind is consolidate
    ConnectorLanes, \* the lanes whose kind is ingest_pull
    MaxAttempts,    \* the max_attempts of a lane's kind (RETRY_POLICY)
    LeaseTtl,       \* leaseTtlMs
    StealGrace,     \* stealGraceMs
    AttemptBudget,  \* maxAttemptMs
    BackoffBase,    \* baseMs of the retry ladder
    BackoffMax,     \* maxMs of the retry ladder
    Ceiling,        \* ceilingMs, the period of the staggered slots
    MaxLag,         \* bound: a captured "now" older than this is not told apart
    AgeCap,         \* bound: a rest longer than this is not told apart
    QuietCap,       \* bound: nor is a longer silence of a tenant's users
    MaxToken        \* bound: no revival that could take a token past this

\* A cycle's one target is the whole brain, so a tenant has one such lane.
ASSUME LaneAssumption ==
    /\ Lanes # {}
    /\ TenantOf \in [Lanes -> Tenants]
    /\ CycleLanes \subseteq Lanes
    /\ \A l, m \in CycleLanes : TenantOf[l] = TenantOf[m] => l = m
    /\ ConnectorLanes \subseteq Lanes
    /\ MaxAttempts \in [Lanes -> Nat \ {0}]

\* What assertLeaseConfig demands of the lease arithmetic, in coarser units,
\* and what the retry ladder and the ceiling need to be meaningful.
ASSUME TimeAssumption ==
    /\ LeaseTtl \in Nat \ {0}
    /\ StealGrace \in Nat
    /\ AttemptBudget \in Nat
    /\ AttemptBudget > LeaseTtl
    /\ BackoffBase \in Nat
    /\ BackoffMax \in Nat
    /\ Ceiling \in Nat \ {0}
    /\ MaxLag \in Nat
    /\ AgeCap \in Nat /\ QuietCap \in Nat
    /\ MaxToken \in Nat

VARIABLES
    job,       \* control.job, by job id
    tenant,    \* the scheduling columns of control.tenant, by tenant id
    inserting  \* INSERT statements of enqueue past their snapshot

queueVars == <<job, tenant, inserting>>

JobState == {"absent", "due", "running", "done", "dead", "discarded"}

\* leased stands for the four lease columns being non-NULL. What no
\* statement reads again is not kept: the run_at of a row that is not due, the
\* debt of a finished one.
Row == [state: JobState, lane: Lanes, attempts: Nat, debt: Nat, runIn: Int,
        token: Nat, leased: BOOLEAN, expiresIn: Int, deadlineIn: Int]

\* active is "last_activity IS NOT NULL AND last_activity > last_cycle_at";
\* an age at its cap stands for a longer one and for a NULL stamp.
TenantRow == [ready: BOOLEAN, debt: Nat, active: BOOLEAN, quietFor: Nat,
              restedFor: Nat, dueSet: BOOLEAN, dueIn: Int, slotIn: 1..Ceiling]

\* An INSERT ... SELECT ... WHERE NOT EXISTS, between snapshot and insertion.
Insertion == [job: Jobs, lane: Lanes, runIn: Int, debt: Nat]

\* What a claimant holds: attempts and debtObserved are copies of columns that
\* cannot change while the token it carries is the row's.
Lease == [job: Jobs, token: Nat]

\* A row as INSERT leaves it; every row that does not exist yet looks alike.
NewRow(state, l, runIn, debt) ==
    [state |-> state, lane |-> l, attempts |-> 0, debt |-> debt, runIn |-> runIn,
     token |-> 0, leased |-> FALSE, expiresIn |-> 0, deadlineIn |-> 0]
AnyLane == CHOOSE l \in Lanes : TRUE

QueueInit ==
    /\ job = [j \in Jobs |-> NewRow("absent", AnyLane, 0, 0)]
    /\ tenant \in [Tenants -> {[ready |-> TRUE, debt |-> 0, active |-> FALSE,
                                quietFor |-> QuietCap, restedFor |-> AgeCap,
                                dueSet |-> FALSE, dueIn |-> 0, slotIn |-> s] :
                               s \in 1..Ceiling}]
    /\ inserting = {}

-----------------------------------------------------------------------------
(* Lanes and the retry ladder. *)

IsOpen(r) == r.state \in {"due", "running"}

OpenRows(l) == {j \in Jobs : job[j].lane = l /\ IsOpen(job[j])}
DeadRows(l) == {j \in Jobs : job[j].lane = l /\ job[j].state = "dead"}

\* backoffMs: half of the delay is fixed and half is random.
BackoffCeiling(attempts) ==
    LET step == BackoffBase * (2 ^ (IF attempts > 1 THEN attempts - 1 ELSE 0))
    IN  IF step < BackoffMax THEN step ELSE BackoffMax
BackoffMs(attempts) ==
    (BackoffCeiling(attempts) \div 2) .. BackoffCeiling(attempts)

\* Slip: the ladder ends one attempt late.
ExhaustedOneLate(r) == r.attempts > MaxAttempts[r.lane]

Exhausted(r) == r.attempts >= MaxAttempts[r.lane]

\* Slip: the lease columns are left behind.
ReleasedStillLeased(r, state, runIn) ==
    [r EXCEPT !.state = state, !.runIn = runIn]

\* The row as a statement that gives up its lease leaves it.
Released(r, state, runIn) ==
    [state |-> state, lane |-> r.lane, attempts |-> r.attempts, debt |-> r.debt,
     runIn |-> runIn, token |-> r.token,
     leased |-> FALSE, expiresIn |-> 0, deadlineIn |-> 0]
Finished(r, state) == [Released(r, state, 0) EXCEPT !.debt = 0]

-----------------------------------------------------------------------------
(* enqueue.  One INSERT, but its two subqueries read the snapshot the       *)
(* statement began with, while ON CONFLICT arbitrates against the rows      *)
(* committed when the index entry is made: two steps.                       *)

EnqueueSnapshot(j, l, delay, debt) ==
    /\ job[j].state = "absent"
    /\ \A i \in inserting : i.job # j
    /\ DeadRows(l) = {}
    /\ tenant[TenantOf[l]].ready
    /\ inserting' = inserting \cup
           {[job |-> j, lane |-> l, runIn |-> delay, debt |-> debt]}
    /\ UNCHANGED <<job, tenant>>

\* Slip: no partial unique index for ON CONFLICT to arbitrate with.
EnqueueUnindexed(i) ==
    /\ i \in inserting
    /\ inserting' = inserting \ {i}
    /\ job' = [job EXCEPT ![i.job] = NewRow("due", i.lane, i.runIn, i.debt)]
    /\ UNCHANGED tenant

EnqueueCommit(i) ==
    /\ i \in inserting
    /\ inserting' = inserting \ {i}
    /\ job' = IF OpenRows(i.lane) # {}
              THEN job
              ELSE [job EXCEPT ![i.job] =
                       NewRow("due", i.lane, i.runIn, i.debt)]
    /\ UNCHANGED tenant

-----------------------------------------------------------------------------
(* claim, heartbeat, complete, fail. *)

\* A due row of a ready tenant whose run_at has come.  The ORDER BY run_at
\* does not restrict which one: SKIP LOCKED passes over a row another
\* statement is holding.
Claimable(j, lag) ==
    /\ job[j].state = "due"
    /\ job[j].runIn <= -lag
    /\ tenant[TenantOf[job[j].lane]].ready

ClaimedRow(r, lag) ==
    [state |-> "running", lane |-> r.lane, attempts |-> r.attempts + 1,
     debt |-> r.debt, runIn |-> 0, token |-> r.token + 1, leased |-> TRUE,
     expiresIn |-> LeaseTtl - lag, deadlineIn |-> AttemptBudget - lag]

ClaimStatement(j, lag) ==
    /\ Claimable(j, lag)
    /\ job' = [job EXCEPT ![j] = ClaimedRow(@, lag)]
    /\ UNCHANGED <<tenant, inserting>>

\* Slips: a fence that reads only the state, or only the token.
FencedByState(lease) == job[lease.job].state = "running"
FencedByToken(lease) == job[lease.job].token = lease.token

\* The fence of every write a lease holder makes.
Fenced(lease) ==
    /\ job[lease.job].token = lease.token
    /\ job[lease.job].state = "running"

HeartbeatStatement(lease) ==
    /\ Fenced(lease)
    /\ job' = [job EXCEPT ![lease.job].expiresIn = LeaseTtl]
    /\ UNCHANGED <<tenant, inserting>>

\* Slip: the debt is reset
SettledToZero(t, debt) ==
    [ready |-> t.ready, debt |-> 0, active |-> FALSE, quietFor |-> t.quietFor,
     restedFor |-> 0, dueSet |-> TRUE, dueIn |-> t.slotIn, slotIn |-> t.slotIn]

\* What complete settles on the tenant row, in the completion's transaction.
Settled(t, debt) ==
    [ready |-> t.ready, debt |-> IF debt < t.debt THEN t.debt - debt ELSE 0,
     active |-> FALSE, quietFor |-> t.quietFor, restedFor |-> 0,
     dueSet |-> TRUE, dueIn |-> t.slotIn, slotIn |-> t.slotIn]

CompleteTx(lease) ==
    LET r == job[lease.job] IN
    /\ Fenced(lease)
    /\ job' = [job EXCEPT ![lease.job] = Finished(@, "done")]
    /\ tenant' = IF r.lane \in CycleLanes
                 THEN [tenant EXCEPT ![TenantOf[r.lane]] = Settled(@, r.debt)]
                 ELSE tenant
    /\ UNCHANGED inserting

\* The row after a failed or reclaimed attempt that asks for a retry at delay.
RetriedRow(r, dead, delay) ==
    IF dead THEN Released(r, "dead", r.runIn) ELSE Released(r, "due", delay)

FailStatement(lease, terminal, delay) ==
    LET r == job[lease.job] IN
    /\ Fenced(lease)
    /\ delay \in BackoffMs(r.attempts)
    /\ job' = [job EXCEPT ![lease.job] =
                  RetriedRow(r, terminal \/ Exhausted(r), delay)]
    /\ UNCHANGED <<tenant, inserting>>

-----------------------------------------------------------------------------
(* reclaim. *)

\* Slip: no attempt deadline behind the lease.
StealableByLease(r) == r.state = "running" /\ r.expiresIn <= -StealGrace

\* isStealable and the WHERE clause it mirrors.
Stealable(r) ==
    /\ r.state = "running"
    /\ r.expiresIn <= -StealGrace \/ r.deadlineIn <= 0

ReclaimedRow(r, delay) ==
    [RetriedRow(r, Exhausted(r), delay) EXCEPT !.token = @ + 1]

\* Slip: the sweep asks for a retry, and skips the rows that have none left.
ReclaimRetriable(S, delay) ==
    /\ S # {}
    /\ \A j \in S :
          /\ Stealable(job[j])
          /\ ~Exhausted(job[j])
          /\ delay[j] \in BackoffMs(job[j].attempts)
    /\ job' = [j \in Jobs |-> IF j \in S THEN ReclaimedRow(job[j], delay[j])
                                         ELSE job[j]]
    /\ UNCHANGED <<tenant, inserting>>

\* One sweep takes, in one transaction, whichever stealable rows are not
\* locked, up to its LIMIT.
ReclaimTx(S, delay) ==
    /\ S # {}
    /\ \A j \in S : Stealable(job[j]) /\ delay[j] \in BackoffMs(job[j].attempts)
    /\ job' = [j \in Jobs |-> IF j \in S THEN ReclaimedRow(job[j], delay[j])
                                         ELSE job[j]]
    /\ UNCHANGED <<tenant, inserting>>

-----------------------------------------------------------------------------
(* Dead letters, and a disconnected connector. *)

\* A dead row holds no lease; its token stays.
RevivedRow(r) == [NewRow("due", r.lane, 0, r.debt) EXCEPT !.token = r.token]

DiscardDeadLetter(j) ==
    /\ job[j].state = "dead"
    /\ job' = [job EXCEPT ![j] = Finished(@, "discarded")]
    /\ UNCHANGED <<tenant, inserting>>

\* Bound on revivals: the token can still grow by a whole ladder.
MayRevive(j) == job[j].token + 2 * MaxAttempts[job[j].lane] <= MaxToken

\* Slip: a requeue that does not ask whether the row is dead.
RequeueAnyRow(j) ==
    /\ job[j].state # "absent"
    /\ MayRevive(j)
    /\ OpenRows(job[j].lane) = {}
    /\ job' = [job EXCEPT ![j] = RevivedRow(@)]
    /\ UNCHANGED <<tenant, inserting>>

\* The unique index refuses a requeue beside an open row: nothing changes.
RequeueDeadLetter(j) ==
    /\ job[j].state = "dead"
    /\ MayRevive(j)
    /\ OpenRows(job[j].lane) = {}
    /\ job' = [job EXCEPT ![j] = RevivedRow(@)]
    /\ UNCHANGED <<tenant, inserting>>

\* reviveDeadLane updates every dead row of the lane; with two of them, or
\* beside an open row, the unique index rolls the statement back.
ReviveDeadLane(l) ==
    \E j \in Jobs :
        /\ DeadRows(l) = {j}
        /\ OpenRows(l) = {}
        /\ MayRevive(j)
        /\ job' = [job EXCEPT ![j] = RevivedRow(@)]
        /\ UNCHANGED <<tenant, inserting>>

DiscardConnectorLane(l) ==
    /\ l \in ConnectorLanes
    /\ OpenRows(l) \cup DeadRows(l) # {}
    /\ job' = [j \in Jobs |-> IF j \in OpenRows(l) \cup DeadRows(l)
                              THEN Finished(job[j], "discarded")
                              ELSE job[j]]
    /\ UNCHANGED <<tenant, inserting>>

-----------------------------------------------------------------------------
(* The environment of the queue: tenants leave and rejoin service, as the   *)
(* control plane's patches of their state have it, and time passes.         *)

TenantMoves(t) ==
    /\ tenant' = [tenant EXCEPT ![t].ready = ~@]
    /\ UNCHANGED <<job, inserting>>

Fall(x, floor) == IF x > floor THEN x - 1 ELSE x
Rise(x, cap) == IF x < cap THEN x + 1 ELSE x

AgedRow(r) ==
    [state |-> r.state, lane |-> r.lane, attempts |-> r.attempts, debt |-> r.debt,
     runIn |-> IF r.state = "due" THEN Fall(r.runIn, -MaxLag) ELSE 0,
     token |-> r.token, leased |-> r.leased,
     expiresIn |-> IF r.leased THEN Fall(r.expiresIn, -StealGrace) ELSE 0,
     deadlineIn |-> IF r.leased THEN Fall(r.deadlineIn, 0) ELSE 0]

AgedTenant(t) ==
    [ready |-> t.ready, debt |-> t.debt, active |-> t.active,
     quietFor |-> Rise(t.quietFor, QuietCap), restedFor |-> Rise(t.restedFor, AgeCap),
     dueSet |-> t.dueSet, dueIn |-> IF t.dueSet THEN Fall(t.dueIn, -MaxLag) ELSE 0,
     slotIn |-> IF t.slotIn = 1 THEN Ceiling ELSE t.slotIn - 1]

QueueTick ==
    /\ job' = [j \in Jobs |-> AgedRow(job[j])]
    /\ tenant' = [t \in Tenants |-> AgedTenant(tenant[t])]
    /\ inserting' = {[i EXCEPT !.runIn = Fall(@, -MaxLag)] : i \in inserting}
=============================================================================
