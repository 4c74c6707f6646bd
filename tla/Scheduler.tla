------------------------------ MODULE Scheduler ------------------------------
(***************************************************************************)
(* Who is due: the trigger set of src/worker/scheduler.ts over the queue   *)
(* of JobRunner, and the signals of src/mcp/control-signals.ts it reads.   *)
(* A tick selects the due tenants in one statement and enqueues them one   *)
(* by one afterwards; ticks overlap (the timer does not wait, and two      *)
(* deployments may run at once), the runner completes cycles meanwhile,    *)
(* and signals land at any moment.  Only the scheduler enqueues cycles.    *)
(*                                                                         *)
(* A tick works with a "now" captured before its statements; here it is    *)
(* the moment of the statement, which selects no fewer tenants.            *)
(***************************************************************************)
EXTENDS JobRunner

CONSTANTS
    MinDebt,      \* minDebt: debt below this is not worth a cycle
    Quiet,        \* quietMs
    MinInterval,  \* minIntervalMs
    MaxDebt,      \* bound: no signal that would take a debt past this
    MaxPicks      \* bound: selections waiting to be enqueued

ASSUME SchedulerAssumption ==
    /\ MinDebt \in Nat
    /\ Quiet \in 0..QuietCap
    /\ MinInterval \in 0..AgeCap
    /\ MaxDebt \in Nat
    /\ MaxPicks \in Nat \ {0}

VARIABLES
    picked,      \* due tenants that ticks have selected and not enqueued yet
    outdated,    \* history: jobs selected before their tenant's latest settlement
    sinceClaim   \* history: debt signalled while the tenant's cycle is running

schedulerVars == <<picked, outdated, sinceClaim>>
allVars == <<job, tenant, inserting, pass, held, picked, outdated, sinceClaim>>

\* current: no cycle of the tenant has settled since the selection (history).
Pick == [tenant: Tenants, debt: Nat, current: BOOLEAN]

CycleLane(t) == CHOOSE l \in CycleLanes : TenantOf[l] = t

SchedulerInit ==
    /\ Init
    /\ picked = {}
    /\ outdated = {}
    /\ sinceClaim = [t \in Tenants |-> 0]

-----------------------------------------------------------------------------
(* selectDueTenants. *)

\* Somebody was here, has left debt worth a cycle, and has gone quiet.
Debounced(x) == x.debt >= MinDebt /\ x.active /\ x.quietFor >= Quiet
Ceilinged(x) == x.dueSet /\ x.dueIn <= 0

\* Slip: no floor between two cycles.
DueUnrested(x) == x.ready /\ (Debounced(x) \/ Ceilinged(x))

Due(x) ==
    /\ x.ready
    /\ x.restedFor >= MinInterval
    /\ Debounced(x) \/ Ceilinged(x)

Select(t) ==
    /\ Due(tenant[t])
    /\ Cardinality(picked) < MaxPicks
    /\ picked' = picked \cup {[tenant |-> t, debt |-> tenant[t].debt, current |-> TRUE]}
    /\ UNCHANGED <<vars, outdated, sinceClaim>>

\* The enqueue of a selected tenant, past the refusals its snapshot decides.
EnqueueDue(p, j) ==
    /\ p \in picked
    /\ \E l \in CycleLanes :
          TenantOf[l] = p.tenant /\ EnqueueSnapshot(j, l, 0, p.debt)
    /\ picked' = picked \ {p}
    /\ outdated' = IF p.current THEN outdated \ {j} ELSE outdated \cup {j}
    /\ UNCHANGED <<runnerVars, sinceClaim>>

\* The enqueue is refused, or the tick throws before it gets there.
EnqueueRefused(p) ==
    /\ p \in picked
    /\ picked' = picked \ {p}
    /\ UNCHANGED <<vars, outdated, sinceClaim>>

-----------------------------------------------------------------------------
(* stampMissingDueTimes, and the signals. *)

\* Slip: only tenants that have cycled before are stamped.
StampCycled(t) ==
    /\ tenant[t].ready
    /\ ~tenant[t].dueSet
    /\ tenant[t].restedFor < AgeCap
    /\ tenant' = [tenant EXCEPT ![t].dueSet = TRUE, ![t].dueIn = tenant[t].slotIn]
    /\ UNCHANGED <<job, inserting, runnerVars, schedulerVars>>

\* A tenant without a due time has never cycled (a completion sets both), so
\* its slot is the next one from now.
Stamp(t) ==
    /\ tenant[t].ready
    /\ ~tenant[t].dueSet
    /\ tenant' = [tenant EXCEPT ![t].dueSet = TRUE, ![t].dueIn = tenant[t].slotIn]
    /\ UNCHANGED <<job, inserting, runnerVars, schedulerVars>>

\* One flush of the sink: debt is added, and a user-originated stamp of some
\* age moves last_activity forward only.  Of a stamp and a completion in the
\* same unit of time, either may be the later one.
Stamped(x, age, newer) ==
    [x EXCEPT !.quietFor = IF x.active /\ x.quietFor < age THEN x.quietFor ELSE age,
              !.active = x.active \/ age < x.restedFor \/ (age = x.restedFor /\ newer)]

Runs(t) == \E j \in Jobs : job[j].state = "running" /\ TenantOf[job[j].lane] = t

Signal(t, debt, byUser, age, newer) ==
    /\ tenant[t].debt + debt <= MaxDebt
    /\ LET x == [tenant[t] EXCEPT !.debt = @ + debt] IN
       tenant' = [tenant EXCEPT ![t] = IF byUser THEN Stamped(x, age, newer) ELSE x]
    /\ sinceClaim' = IF Runs(t)
                     THEN [sinceClaim EXCEPT ![t] = @ + debt] ELSE sinceClaim
    /\ UNCHANGED <<job, inserting, runnerVars, picked, outdated>>

\* What the sink flushes: a user's activity, with debt or without, or debt alone.
Flush(t) ==
    \/ \E debt \in 0..1, newer \in BOOLEAN : Signal(t, debt, TRUE, 0, newer)
    \/ Signal(t, 1, FALSE, 0, FALSE)

-----------------------------------------------------------------------------
(* The queue's own steps, with the history they leave. *)

Claims(j) == job[j].state = "due" /\ job'[j].state = "running"
Completes(j) == job[j].state = "running" /\ job'[j].state = "done"
SettledTenants == {TenantOf[job[j].lane] : j \in {i \in Jobs : Completes(i)}}

\* Every selection a settlement overtakes is outdated: those not enqueued yet,
\* those past the snapshot of their INSERT, and dead rows of the lane, which an
\* operator may put back into service.
History ==
    /\ picked' = {IF p.tenant \in SettledTenants THEN [p EXCEPT !.current = FALSE]
                                                 ELSE p : p \in picked}
    /\ outdated' = outdated
           \cup {i.job : i \in {k \in inserting : TenantOf[k.lane] \in SettledTenants}}
           \cup {j \in Jobs : /\ job[j].state = "dead"
                              /\ TenantOf[job[j].lane] \in SettledTenants}
    /\ sinceClaim' = [t \in Tenants |-> IF Runs(t) /\ Runs(t)' THEN sinceClaim[t]
                                        ELSE 0]

QueueStep ==
    /\ \/ \E w \in Workers : WorkerStep(w)
       \/ \E i \in inserting : Insert(i)
       \/ \E S \in SUBSET Jobs : Reaping(S)
       \/ Operate
       \/ \E t \in Tenants : Move(t)
       \/ Tick
    /\ History

\* Bound: job ids are reused, for the fresh id every enqueue mints, once the
\* row is finished and nobody holds a lease on it.
Recycle(j) ==
    /\ job[j].state \in {"done", "discarded"}
    /\ \A w \in Workers : \A lease \in held[w] : lease.job # j
    /\ job' = [job EXCEPT ![j] = NewRow("absent", AnyLane, 0, 0)]
    /\ outdated' = outdated \ {j}
    /\ UNCHANGED <<tenant, inserting, runnerVars, picked, sinceClaim>>

SchedulerNext ==
    \/ QueueStep
    \/ \E t \in Tenants : Select(t)
    \/ \E p \in picked : EnqueueRefused(p) \/ \E j \in Jobs : EnqueueDue(p, j)
    \/ \E t \in Tenants : Stamp(t)
    \/ \E t \in Tenants : Flush(t)
    \/ \E j \in Jobs : Recycle(j)

SchedulerSpec == SchedulerInit /\ [][SchedulerNext]_allVars

(***************************************************************************)
(* Fairness.  The timer keeps ticking: each tick stamps and selects, and   *)
(* not every enqueue is lost to a tick that throws.  Nothing is assumed of *)
(* workers, handlers, operators or users.                                  *)
(***************************************************************************)
SchedulerFairness ==
    /\ WF_allVars(Tick /\ History)
    /\ \A j \in Jobs : WF_allVars(Recycle(j)) /\ WF_allVars(InsertEnds(j) /\ History)
    /\ \A t \in Tenants :
          /\ WF_allVars(Stamp(t))
          /\ WF_allVars(Select(t))
          /\ SF_allVars(\E p \in picked, j \in Jobs : p.tenant = t /\ EnqueueDue(p, j))

SchedulerLiveSpec == SchedulerSpec /\ SchedulerFairness

-----------------------------------------------------------------------------
(* Properties. *)

\* The completion of a cycle subtracts the debt it was enqueued to work off
\* and no more: what was signalled while the cycle ran is still pending, if no
\* settlement came between the cycle's selection and its claim.
MidCycleSignalsSurvive ==
    [][\A j \in Jobs : LET t == TenantOf[job[j].lane] IN
          (Completes(j) /\ j \notin outdated) => tenant'[t].debt >= sinceClaim[t]]_allVars

\* Two cycles of a tenant are never closer than the minimum interval: no cycle
\* starts its first attempt on a tenant that has not rested since the latest
\* settlement, if it was selected after that settlement.
CyclesAreSpaced ==
    [][\A j \in Jobs :
          (Claims(j) /\ j \notin outdated) =>
              tenant[TenantOf[job[j].lane]].restedFor >= MinInterval]_allVars

\* No ready tenant is forgotten: one whose lane is closed gets an open row, a
\* dead letter or leaves service, though nobody ever signals anything.
TenantsComeDue ==
    \A t \in Tenants :
        []<>(\/ ~tenant[t].ready
             \/ OpenRows(CycleLane(t)) # {}
             \/ DeadRows(CycleLane(t)) # {})
=============================================================================
