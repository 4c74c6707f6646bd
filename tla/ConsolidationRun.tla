-------------------------- MODULE ConsolidationRun --------------------------
(***************************************************************************)
(* One brain's consolidation cycles and the run they bank their progress   *)
(* in: openRun, completePhase and finishRun of                             *)
(* src/worker/consolidate/checkpoint.ts under the phase loop of cycle.ts.  *)
(* A cycle is the handler of a consolidate job.  Its statements commit one *)
(* by one in the tenant's database, which the job's fence does not reach:  *)
(* a process may be killed between any two of them, and one whose lease    *)
(* was stolen keeps writing beside the cycle that succeeded it.            *)
(*                                                                         *)
(* What a phase does to the brain is left out; money is the only subject   *)
(* of a checkpoint, so what is kept is which phases ran to their end under *)
(* which run.                                                              *)
(***************************************************************************)
EXTENDS Naturals, Sequences, FiniteSets

CONSTANTS
    Workers,      \* worker processes
    Nobody,       \* no worker
    Runs,         \* bound: run ids, reused once nothing refers to the run
    NoRun,        \* no run
    CyclePhases,  \* the phases in the order of CYCLE_PHASES
    ModelPhases   \* the metered ones

PhaseSet == {CyclePhases[i] : i \in 1..Len(CyclePhases)}

ASSUME CycleAssumption ==
    /\ Nobody \notin Workers
    /\ NoRun \notin Runs
    /\ CyclePhases \in Seq(PhaseSet)
    /\ ModelPhases \subseteq PhaseSet
    \* assertPhaseOrder: every phase once, the free ones first
    /\ \A i, k \in 1..Len(CyclePhases) :
          /\ CyclePhases[i] = CyclePhases[k] => i = k
          /\ CyclePhases[i] \in ModelPhases /\ i < k => CyclePhases[k] \in ModelPhases

VARIABLES
    run,         \* consolidation_run
    checkpoint,  \* consolidation_checkpoint: the run a phase is banked against
    cycle,       \* the cycle each process is in
    holder,      \* who holds the lease of the brain's consolidate job
    worked,      \* history: model phases that ran to their end under a run
    byOpener,    \* history: those of them run by the cycle that opened it
    crowded      \* history: a second cycle has begun beside a first

vars == <<run, checkpoint, cycle, holder, worked, byOpener, crowded>>
history == <<worked, byOpener, crowded>>

\* What stops a cycle before the end of the loop: the clock or the lease's abort
\* signal, between two phases or inside one, and the cap inside a model phase.
AttemptStop == {"out_of_time", "cancelled"}

\* older is the order of the identity column: the open runs inserted before it.
\* Of the record of how a run ended, whether it dreamt is kept.
RunRow == [state: {"absent", "open", "finished"}, resumed: BOOLEAN, dreamt: BOOLEAN,
           older: SUBSET Runs]
NoRow == [state |-> "absent", resumed |-> FALSE, dreamt |-> FALSE, older |-> {}]

At == {"idle", "look", "adopt", "keep", "drop", "read", "close", "clear", "create",
       "phases", "bank", "sweep"}
Cycle == [at: At, run: Runs \cup {NoRun}, paid: BOOLEAN, resumed: BOOLEAN,
          done: SUBSET PhaseSet, next: 1..(Len(CyclePhases) + 1), failed: BOOLEAN]
NoCycle == [at |-> "idle", run |-> NoRun, paid |-> FALSE, resumed |-> FALSE,
            done |-> {}, next |-> 1, failed |-> FALSE]

Init ==
    /\ run = [r \in Runs |-> NoRow]
    /\ checkpoint = [p \in PhaseSet |-> NoRun]
    /\ cycle = [w \in Workers |-> NoCycle]
    /\ holder = Nobody
    /\ worked = [r \in Runs |-> {}]
    /\ byOpener = [r \in Runs |-> {}]
    /\ crowded = FALSE

-----------------------------------------------------------------------------
(* The job's lease.  A claim needs the row released; a steal releases it    *)
(* whether or not the process behind it is alive.                           *)

Live(w) == cycle[w].at # "idle"

Start(w, paid) ==
    /\ holder = Nobody
    /\ ~Live(w)
    /\ holder' = w
    /\ cycle' = [cycle EXCEPT ![w] = [NoCycle EXCEPT !.at = "look", !.paid = paid]]
    /\ crowded' = (crowded \/ \E v \in Workers : Live(v))
    /\ UNCHANGED <<run, checkpoint, worked, byOpener>>

Steal ==
    /\ holder # Nobody
    /\ holder' = Nobody
    /\ UNCHANGED <<run, checkpoint, cycle, history>>

\* The process dies, or a statement throws and takes the handler with it.
Kill(w) ==
    /\ Live(w)
    /\ cycle' = [cycle EXCEPT ![w] = NoCycle]
    /\ UNCHANGED <<run, checkpoint, holder, history>>

-----------------------------------------------------------------------------
(* openRun. *)

IsOpen(r) == run[r].state = "open"
Goes(w, at) == cycle' = [cycle EXCEPT ![w].at = at]

\* ORDER BY run_id DESC LIMIT 1 of the open runs nobody has adopted.
Resumable == {r \in Runs : IsOpen(r) /\ ~run[r].resumed}
Newest(R) == CHOOSE r \in R : \A q \in R : q # r => q \in run[r].older

Look(w) ==
    /\ cycle[w].at = "look"
    /\ cycle' = [cycle EXCEPT ![w].at = IF Resumable = {} THEN "close" ELSE "adopt",
                              ![w].run = IF Resumable = {} THEN NoRun
                                         ELSE Newest(Resumable)]
    /\ UNCHANGED <<run, checkpoint, holder, history>>

\* Slip: the adoption leaves no stamp.
AdoptUnstamped(w) ==
    /\ cycle[w].at = "adopt"
    /\ cycle' = [cycle EXCEPT ![w].at = "keep", ![w].resumed = TRUE]
    /\ UNCHANGED <<run, checkpoint, holder, history>>

\* Slip: the ride is stamped without asking whether it is spent.
AdoptStamped(w) ==
    /\ cycle[w].at = "adopt"
    /\ run' = [run EXCEPT ![cycle[w].run].resumed = TRUE]
    /\ cycle' = [cycle EXCEPT ![w].at = "keep", ![w].resumed = TRUE]
    /\ UNCHANGED <<checkpoint, holder, history>>

\* The conditional UPDATE: the loser of a race starts a run of its own.
Adopt(w) ==
    /\ cycle[w].at = "adopt"
    /\ IF run[cycle[w].run].resumed
       THEN /\ cycle' = [cycle EXCEPT ![w].at = "close", ![w].run = NoRun]
            /\ UNCHANGED run
       ELSE /\ run' = [run EXCEPT ![cycle[w].run].resumed = TRUE]
            /\ cycle' = [cycle EXCEPT ![w].at = "keep", ![w].resumed = TRUE]
    /\ UNCHANGED <<checkpoint, holder, history>>

\* closeOpenRunsExcept: debris is recorded as cancelled.
Closed(row, dreamt) ==
    [row EXCEPT !.state = "finished", !.dreamt = dreamt, !.older = {}]
CloseOpenRunsExcept(keep) ==
    run' = [r \in Runs |-> IF IsOpen(r) /\ r # keep THEN Closed(run[r], FALSE)
                                                   ELSE run[r]]

Keep(w) ==
    /\ cycle[w].at = "keep"
    /\ CloseOpenRunsExcept(cycle[w].run)
    /\ Goes(w, "drop")
    /\ UNCHANGED <<checkpoint, holder, history>>

\* Slip: the adopted run's checkpoints go with the debris.
DropAll(w) ==
    /\ cycle[w].at = "drop"
    /\ checkpoint' = [p \in PhaseSet |-> NoRun]
    /\ Goes(w, "read")
    /\ UNCHANGED <<run, holder, history>>

Drop(w) ==
    /\ cycle[w].at = "drop"
    /\ checkpoint' = [p \in PhaseSet |-> IF checkpoint[p] = cycle[w].run
                                         THEN checkpoint[p] ELSE NoRun]
    /\ Goes(w, "read")
    /\ UNCHANGED <<run, holder, history>>

\* Slip: every checkpoint is honoured, whichever run it belongs to.
ReadAny(w) ==
    /\ cycle[w].at = "read"
    /\ cycle' = [cycle EXCEPT ![w].at = "phases",
                              ![w].done = {p \in PhaseSet : checkpoint[p] # NoRun}]
    /\ UNCHANGED <<run, checkpoint, holder, history>>

Read(w) ==
    /\ cycle[w].at = "read"
    /\ cycle' = [cycle EXCEPT ![w].at = "phases",
                              ![w].done = {p \in PhaseSet :
                                               checkpoint[p] = cycle[w].run}]
    /\ UNCHANGED <<run, checkpoint, holder, history>>

Close(w) ==
    /\ cycle[w].at = "close"
    /\ CloseOpenRunsExcept(NoRun)
    /\ Goes(w, "clear")
    /\ UNCHANGED <<checkpoint, holder, history>>

Clear(w) ==
    /\ cycle[w].at = "clear"
    /\ checkpoint' = [p \in PhaseSet |-> NoRun]
    /\ Goes(w, "create")
    /\ UNCHANGED <<run, holder, history>>

\* A new identity, or (bound) that of a finished run nothing refers to.
Unused(r) ==
    /\ ~IsOpen(r)
    /\ \A w \in Workers : cycle[w].run # r
    /\ \A p \in PhaseSet : checkpoint[p] # r

Create(w, r) ==
    /\ cycle[w].at = "create"
    /\ Unused(r)
    /\ run' = [q \in Runs |->
                  IF q = r THEN [NoRow EXCEPT !.state = "open",
                                              !.older = {o \in Runs : IsOpen(o)}]
                  ELSE [run[q] EXCEPT !.older = @ \ {r}]]
    /\ cycle' = [cycle EXCEPT ![w].at = "phases", ![w].run = r]
    /\ worked' = [worked EXCEPT ![r] = {}]
    /\ byOpener' = [byOpener EXCEPT ![r] = {}]
    /\ UNCHANGED <<checkpoint, holder, crowded>>

-----------------------------------------------------------------------------
(* The phase loop of runConsolidationCycle. *)

InLoop(w) == cycle[w].at = "phases" /\ cycle[w].next <= Len(CyclePhases)
Phase(w) == CyclePhases[cycle[w].next]
Advance(w) == cycle' = [cycle EXCEPT ![w].next = @ + 1, ![w].at = "phases"]

\* The model tier of a free brain.
FreeTier(w) ==
    /\ InLoop(w)
    /\ Phase(w) \in ModelPhases
    /\ ~cycle[w].paid
    /\ Advance(w)
    /\ UNCHANGED <<run, checkpoint, holder, history>>

\* A model phase banked against the adopted run is skipped.
Skip(w) ==
    /\ InLoop(w)
    /\ Phase(w) \in ModelPhases
    /\ cycle[w].paid
    /\ Phase(w) \in cycle[w].done
    /\ Advance(w)
    /\ UNCHANGED <<run, checkpoint, holder, history>>

\* The deterministic prefix has spent its share, before the phase or inside it.
Yield(w) ==
    /\ InLoop(w)
    /\ Phase(w) \notin ModelPhases
    /\ Advance(w)
    /\ UNCHANGED <<run, checkpoint, holder, history>>

Runnable(w) ==
    /\ InLoop(w)
    /\ Phase(w) \in ModelPhases => cycle[w].paid /\ Phase(w) \notin cycle[w].done

\* The phase runs to its end: its work is in the database, not yet banked.
RunPhase(w) ==
    /\ Runnable(w)
    /\ Goes(w, "bank")
    /\ worked' = [worked EXCEPT ![cycle[w].run] = @ \cup ({Phase(w)} \cap ModelPhases)]
    /\ UNCHANGED <<run, checkpoint, holder, byOpener, crowded>>

\* completePhase: an upsert on the phase.
Bank(w) ==
    /\ cycle[w].at = "bank"
    /\ checkpoint' = [checkpoint EXCEPT ![Phase(w)] = cycle[w].run]
    /\ byOpener' = IF cycle[w].resumed THEN byOpener
                   ELSE [byOpener EXCEPT ![cycle[w].run] =
                                  @ \cup ({Phase(w)} \cap ModelPhases)]
    /\ Advance(w)
    /\ UNCHANGED <<run, holder, worked, crowded>>

\* A model seat fails: recorded, and the loop goes on to the next seat.
PhaseFails(w) ==
    /\ Runnable(w)
    /\ Phase(w) \in ModelPhases
    /\ cycle' = [cycle EXCEPT ![w].failed = TRUE, ![w].next = @ + 1]
    /\ UNCHANGED <<run, checkpoint, holder, history>>

-----------------------------------------------------------------------------
(* finishRun: every cycle that returns closes its run, whatever stopped it. *)

\* Slip: the record is written and the run left open, to be resumed.
RecordProgress(w, dreamt) ==
    /\ run' = [run EXCEPT ![cycle[w].run].dreamt = dreamt]
    /\ Goes(w, "sweep")
    /\ UNCHANGED <<checkpoint, holder, history>>

Record(w, dreamt) ==
    /\ run' = [run EXCEPT ![cycle[w].run] = Closed(@, dreamt)]
    /\ Goes(w, "sweep")
    /\ UNCHANGED <<checkpoint, holder, history>>

\* Stopped short: between two phases, or part-way through one.
FinishStopped(w, reason) ==
    /\ InLoop(w)
    /\ reason = "budget_exhausted" => Runnable(w) /\ Phase(w) \in ModelPhases
    /\ Record(w, FALSE)

\* Slip: dreamt is read before the failure of a phase is folded in.
FinishForgetful(w) ==
    /\ cycle[w].at = "phases"
    /\ ~InLoop(w)
    /\ Record(w, cycle[w].paid)

\* The end of the loop: a free cycle, or one with a failed phase behind it, does
\* not say complete.
Finish(w) ==
    /\ cycle[w].at = "phases"
    /\ ~InLoop(w)
    /\ Record(w, cycle[w].paid /\ ~cycle[w].failed)

\* The finished run's checkpoints go, and the job is completed under its fence.
Sweep(w) ==
    /\ cycle[w].at = "sweep"
    /\ checkpoint' = [p \in PhaseSet |-> IF checkpoint[p] = cycle[w].run
                                         THEN NoRun ELSE checkpoint[p]]
    /\ cycle' = [cycle EXCEPT ![w] = NoCycle]
    /\ holder' = IF holder = w THEN Nobody ELSE holder
    /\ UNCHANGED <<run, history>>

OpenStep(w) ==
    \/ Look(w)
    \/ Adopt(w)
    \/ Keep(w)
    \/ Drop(w)
    \/ Read(w)
    \/ Close(w)
    \/ Clear(w)
    \/ \E r \in Runs : Create(w, r)

LoopStep(w) ==
    \/ FreeTier(w)
    \/ Skip(w)
    \/ Yield(w)
    \/ RunPhase(w)
    \/ Bank(w)
    \/ PhaseFails(w)
    \/ \E reason \in AttemptStop \cup {"budget_exhausted"} : FinishStopped(w, reason)

Next ==
    \/ \E w \in Workers :
          \/ \E paid \in BOOLEAN : Start(w, paid)
          \/ OpenStep(w)
          \/ LoopStep(w)
          \/ Finish(w)
          \/ Sweep(w)
          \/ Kill(w)
    \/ Steal

Spec == Init /\ [][Next]_vars

-----------------------------------------------------------------------------
(* Properties. *)

\* Types, with what relates the tables: only a finished run has dreamt, and a
\* phase is banked against a run that exists (the foreign key).
TypeOK ==
    /\ run \in [Runs -> RunRow]
    /\ \A r \in Runs : run[r].dreamt => run[r].state = "finished"
    /\ checkpoint \in [PhaseSet -> Runs \cup {NoRun}]
    /\ \A p \in PhaseSet : checkpoint[p] \in Runs => run[checkpoint[p]].state # "absent"
    /\ cycle \in [Workers -> Cycle]
    /\ holder \in Workers \cup {Nobody}
    /\ worked \in [Runs -> SUBSET ModelPhases]
    /\ byOpener \in [Runs -> SUBSET ModelPhases]
    /\ crowded \in BOOLEAN

\* A run is adopted at most once, though two cycles look at it before either
\* stamps it: the second of them starts a run of its own.
AdoptedOnce ==
    [][\A w \in Workers :
          (cycle'[w].resumed /\ ~cycle[w].resumed) => ~run[cycle'[w].run].resumed]_vars

\* Thrift is earned: a phase a cycle may skip was run to its end and banked by
\* the cycle that opened the adopted run, whatever other cycles are writing
\* the same checkpoints.
ThriftIsEarned ==
    \A w \in Workers : cycle[w].done \cap ModelPhases \subseteq
        (IF cycle[w].resumed THEN byOpener[cycle[w].run] ELSE {})

\* A killed cycle's model calls are not paid for again by the cycle that adopts
\* its run, as long as no two cycles have overlapped.
NeverRepaid ==
    [][\A w \in Workers :
          /\ ~crowded
          /\ cycle[w].at = "phases" /\ cycle'[w].at = "bank"
          /\ cycle[w].resumed
          /\ Phase(w) \in ModelPhases
          => Phase(w) \notin byOpener[cycle[w].run]]_vars

\* A run that says it dreamt had every model phase run to its end under it, by
\* this cycle or the killed one it resumed.
DreamtMeansWorked ==
    \A r \in Runs : run[r].dreamt => ModelPhases \subseteq worked[r]

\* Forward progress, the freeze of the header: a model phase that cycles keep
\* skipping is also run again and again, though every cycle is killed.
NoFreeze ==
    \A p \in ModelPhases :
        []<><<\E w \in Workers : Skip(w) /\ Phase(w) = p>>_vars =>
            []<><<\E w \in Workers : RunPhase(w) /\ Phase(w) = p>>_vars
=============================================================================
