------------------------------ MODULE JobRunner ------------------------------
(***************************************************************************)
(* The worker processes that drain the queue: src/worker/runner.ts inside  *)
(* the tick of src/worker/serve.ts, the renewal beat on its connection of  *)
(* its own, the reaper, the callers of enqueue and the operators who clear *)
(* dead letters.  A process claims a pass of jobs, starts a handler on     *)
(* each, and writes each handler's outcome back under the fence.  It may   *)
(* be killed at any moment, and any statement's answer may be lost.        *)
(***************************************************************************)
EXTENDS JobQueue

CONSTANTS
    Workers,     \* worker processes
    Concurrency  \* the concurrency bound of a pass

ASSUME RunnerAssumption == Concurrency \in Nat \ {0}

VARIABLES
    pass,  \* the runner of each process: its phase and how old its "now" is
    held   \* the leases each process has in hand

runnerVars == <<pass, held>>
vars == <<job, tenant, inserting, pass, held>>

Phase == {"idle", "claiming", "running"}
Idle == [phase |-> "idle", lag |-> 0]

RunnerInit ==
    /\ pass = [w \in Workers |-> Idle]
    /\ held = [w \in Workers |-> {}]

Init == QueueInit /\ RunnerInit

-----------------------------------------------------------------------------
(* A pass.  passInFlight is phase # "idle": runOnce throws on an overlapping *)
(* call and changes nothing.                                                *)

\* The tick captured its "now" before the scheduler, the schema sweep and the
\* connector lanes ran; runOnce claims with it.
StartPass(w, lag) ==
    /\ pass[w].phase = "idle"
    /\ pass' = [pass EXCEPT ![w] = [phase |-> "claiming", lag |-> lag]]
    /\ UNCHANGED <<queueVars, held>>

Claim(w, j) ==
    /\ pass[w].phase = "claiming"
    /\ Cardinality(held[w]) < Concurrency
    /\ ClaimStatement(j, pass[w].lag)
    /\ held' = [held EXCEPT ![w] = @ \cup {[job |-> j, token |-> job'[j].token]}]
    /\ UNCHANGED pass

\* The claim commits and its answer is lost: nobody holds the lease, and the
\* loop stops claiming.
ClaimAnswerLost(w, j) ==
    /\ pass[w].phase = "claiming"
    /\ Cardinality(held[w]) < Concurrency
    /\ ClaimStatement(j, pass[w].lag)
    /\ pass' = [pass EXCEPT ![w] = [phase |-> "running", lag |-> 0]]
    /\ UNCHANGED held

\* The loop ends: no headroom, nothing to claim, or a store error.  Every
\* claimed job's handler starts.
RunHandlers(w) ==
    /\ pass[w].phase = "claiming"
    /\ pass' = [pass EXCEPT ![w] = [phase |-> "running", lag |-> 0]]
    /\ UNCHANGED <<queueVars, held>>

\* Every handler of the pass has settled.
EndPass(w) ==
    /\ pass[w].phase = "running"
    /\ held[w] = {}
    /\ pass' = [pass EXCEPT ![w] = Idle]
    /\ UNCHANGED <<queueVars, held>>

-----------------------------------------------------------------------------
(* The end of a handler.  The lease leaves the process's hands first; a     *)
(* write the fence refuses, or one that fails in the store, changes no row. *)

LetGo(w, lease) ==
    /\ pass[w].phase = "running"
    /\ lease \in held[w]
    /\ held' = [held EXCEPT ![w] = @ \ {lease}]
    /\ UNCHANGED pass

HandlerReturns(w, lease) ==
    /\ LetGo(w, lease)
    /\ CompleteTx(lease)

HandlerThrows(w, lease, terminal, delay) ==
    /\ LetGo(w, lease)
    /\ FailStatement(lease, terminal, delay)

Superseded(w, lease) ==
    /\ LetGo(w, lease)
    /\ ~Fenced(lease)
    /\ UNCHANGED queueVars

StoreError(w, lease) ==
    /\ LetGo(w, lease)
    /\ UNCHANGED queueVars

\* A renewal the fence refuses aborts the handler as a courtesy only.
Beat(w, lease) ==
    /\ pass[w].phase = "running"
    /\ lease \in held[w]
    /\ HeartbeatStatement(lease)
    /\ UNCHANGED runnerVars

\* The container is killed and another takes its place.
Crash(w) ==
    /\ pass[w].phase # "idle"
    /\ pass' = [pass EXCEPT ![w] = Idle]
    /\ held' = [held EXCEPT ![w] = {}]
    /\ UNCHANGED queueVars

-----------------------------------------------------------------------------
(* The rest of the fleet. *)

Enqueue(j, l) == EnqueueSnapshot(j, l, 0, 0) /\ UNCHANGED runnerVars
Insert(i) == EnqueueCommit(i) /\ UNCHANGED runnerVars
Reclaim(S, delay) == ReclaimTx(S, delay) /\ UNCHANGED runnerVars
Operate ==
    /\ \/ \E j \in Jobs : DiscardDeadLetter(j) \/ RequeueDeadLetter(j)
       \/ \E l \in Lanes : ReviveDeadLane(l) \/ DiscardConnectorLane(l)
    /\ UNCHANGED runnerVars
Move(t) == TenantMoves(t) /\ UNCHANGED runnerVars

Tick ==
    /\ QueueTick
    /\ pass' = [w \in Workers |->
                   IF pass[w].phase = "claiming" /\ pass[w].lag < MaxLag
                   THEN [pass[w] EXCEPT !.lag = @ + 1] ELSE pass[w]]
    /\ UNCHANGED held

WorkerStep(w) ==
    \/ \E lag \in 0..MaxLag : StartPass(w, lag)
    \/ \E j \in Jobs : Claim(w, j) \/ ClaimAnswerLost(w, j)
    \/ RunHandlers(w)
    \/ EndPass(w)
    \/ \E lease \in held[w] :
          \/ HandlerReturns(w, lease)
          \/ \E terminal \in BOOLEAN, delay \in 0..BackoffMax :
                HandlerThrows(w, lease, terminal, delay)
          \/ Superseded(w, lease)
          \/ StoreError(w, lease)
          \/ Beat(w, lease)
    \/ Crash(w)

Reaping(S) == \E delay \in [S -> 0..BackoffMax] : Reclaim(S, delay)

FleetStep ==
    \/ \E j \in Jobs, l \in Lanes : Enqueue(j, l)
    \/ \E i \in inserting : Insert(i)
    \/ \E S \in SUBSET Jobs : Reaping(S)
    \/ Operate
    \/ \E t \in Tenants : Move(t)

Next ==
    \/ \E w \in Workers : WorkerStep(w)
    \/ FleetStep
    \/ Tick

Spec == Init /\ [][Next]_vars

(***************************************************************************)
(* Fairness.  Time passes; the interval timer starts passes and the reaper *)
(* of every tick reaches each stealable row; an INSERT past its snapshot   *)
(* finishes; and the control plane answers a claim again and again.        *)
(* Nothing obliges a handler to return: a wedged handler is a behaviour.   *)
(***************************************************************************)
PassGoesOn(w) == StartPass(w, 0) \/ RunHandlers(w) \/ EndPass(w)
InsertEnds(j) == \E i \in inserting : i.job = j /\ Insert(i)
ReaperReaches(j) == \E S \in SUBSET Jobs : j \in S /\ Reaping(S)

Fairness ==
    /\ WF_vars(Tick)
    /\ \A j \in Jobs : WF_vars(InsertEnds(j)) /\ WF_vars(ReaperReaches(j))
    /\ \A w \in Workers :
           /\ WF_vars(PassGoesOn(w))
           /\ SF_vars(\E j \in Jobs : Claim(w, j))

LiveSpec == Spec /\ Fairness

-----------------------------------------------------------------------------
(* Properties. *)

\* Types, with the CHECKs of control.job: a row carries a lease exactly while
\* it is running (running_jobs_hold_a_lease, released_jobs_hold_no_lease).
TypeOK ==
    /\ job \in [Jobs -> Row]
    /\ \A j \in Jobs : job[j].leased <=> job[j].state = "running"
    /\ tenant \in [Tenants -> TenantRow]
    /\ inserting \subseteq Insertion
    /\ pass \in [Workers -> [phase: Phase, lag: Nat]]
    /\ held \in [Workers -> SUBSET Lease]

\* One open row per lane, whatever order enqueues, retries, reclaims and
\* operators' revivals commit in.
OneOpenPerLane ==
    \A l \in Lanes : \A j, k \in OpenRows(l) : j = k

\* Stealing is safe because it fences: of all the processes that ever claimed
\* a job and have not let go of it, at most one can still write its row.
OneLiveHolder ==
    \A v, w \in Workers : \A a \in held[v], b \in held[w] :
        (a.job = b.job /\ Fenced(a) /\ Fenced(b)) => (v = w /\ a = b)

\* The retry ladder has a top: attempts never exceed the kind's budget, and a
\* row that waits for another attempt has one left, however its earlier
\* attempts ended (thrown, stolen, crashed or lost).
LadderHasATop ==
    \A j \in Jobs :
        /\ job[j].attempts <= MaxAttempts[job[j].lane]
        /\ job[j].state = "due" => ~Exhausted(job[j])

\* A row becomes done only in the step in which the process that made the
\* row's latest claim gives its lease back; finished rows stay finished.
OnlyTheHolderFinishes ==
    [][\A j \in Jobs :
          /\ job'[j].state = "done" /\ job[j].state # "done" =>
                \E w \in Workers :
                    [job |-> j, token |-> job[j].token] \in held[w] \ held'[w]
          /\ job[j].state \in {"done", "discarded"} => job'[j].state = job[j].state
      ]_vars

\* The attempt deadline is the stall backstop: what runs in a lane does not run
\* forever, though its handler is wedged and its process renews the lease.
RunningRows(l) == {j \in OpenRows(l) : job[j].state = "running"}
AttemptsEnd == \A l \in Lanes : RunningRows(l) # {} ~> RunningRows(l) = {}

\* If every process gets back to an empty hand again and again, a lane with an
\* open row gets rid of it (done, dead or discarded) or goes out of service,
\* whatever crashes and lost answers there are.
LanesDrain ==
    (\A w \in Workers : []<>(held[w] = {})) =>
        \A l \in Lanes : OpenRows(l) # {} ~>
            (OpenRows(l) = {} \/ ~tenant[TenantOf[l]].ready)

-----------------------------------------------------------------------------
(* The inductive strengthening of the safety properties. *)

\* Every lease in hand names a row that was claimed with its token or later.
TokensAreSpent ==
    /\ \A w \in Workers : \A lease \in held[w] :
          1 <= lease.token /\ lease.token <= job[lease.job].token
    /\ \A j \in Jobs : job[j].state = "absent" => job[j].token = 0

\* No two processes hold the same job at the same token.
HoldersDiffer ==
    \A v, w \in Workers : held[v] \cap held[w] # {} => v = w

\* The INSERTs in flight are for different rows, none of which exists yet.
InsertionsAreNew ==
    /\ \A i \in inserting : job[i.job].state = "absent"
    /\ \A i, k \in inserting : i.job = k.job => i = k

IInv ==
    /\ TypeOK
    /\ OneOpenPerLane
    /\ LadderHasATop
    /\ TokensAreSpent
    /\ HoldersDiffer
    /\ InsertionsAreNew

\* The queue implements LeasedWork: an item's stage is its row's state, and its
\* holders are the processes whose writes the fence would still accept.
LiveHolders(j) ==
    {w \in Workers : \E lease \in held[w] : lease.job = j /\ Fenced(lease)}

Work == INSTANCE LeasedWork WITH
    Items <- Jobs,
    Holders <- Workers,
    stage <- [j \in Jobs |-> job[j].state],
    holders <- [j \in Jobs |-> LiveHolders(j)]

ImplementsLeasedWork == Work!Spec
=============================================================================
