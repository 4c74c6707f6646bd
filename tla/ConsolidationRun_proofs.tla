------------------------ MODULE ConsolidationRun_proofs ------------------------
(***************************************************************************)
(* The safety of ConsolidationRun for any number of processes and runs and *)
(* any order of phases that satisfies CycleAssumption.                     *)
(*                                                                         *)
(* Fits says what one cycle may rely on, wherever it stands; nearly every  *)
(* step of another cycle only adds to the tables Fits reads (Grows), so it *)
(* stays.  Beside it stand what relates two cycles, the run they may both  *)
(* want to resume (OneRide), and what relates the tables: the order of the *)
(* open runs, and who banked a checkpoint (BankedBy).  Alone is the case   *)
(* of cycles that never overlapped, in which a resumed run's checkpoints   *)
(* are all in place until they are read.                                   *)
(***************************************************************************)
EXTENDS ConsolidationRun, TLAPS

tables == <<run, checkpoint, worked, byOpener>>

OpenRuns == {r \in Runs : IsOpen(r)}

\* The identity column orders the open runs: any of them have a newest.
Ordered ==
    \A R \in SUBSET OpenRuns : R # {} => \E r \in R : \A q \in R : q # r => q \in run[r].older

Opening == {"keep", "drop", "read"}
Working == {"phases", "bank"}
HasRun == {"adopt", "sweep", "keep", "drop", "read", "phases", "bank"}
Resuming == {"sweep", "keep", "drop", "read", "phases", "bank"}

\* What a cycle relies on: its run is there, and stamped if it was resumed; what
\* it may skip its opener banked; what is behind it, unless a phase failed, was
\* worked under its run.
Fits(c) ==
    /\ c.at \in HasRun => c.run \in Runs /\ run[c.run].state # "absent"
    /\ c.at \notin HasRun => c.run = NoRun
    /\ c.at \in Opening => c.resumed
    /\ c.resumed => c.at \in Resuming /\ run[c.run].resumed
    /\ c.done \cap ModelPhases \subseteq (IF c.resumed THEN byOpener[c.run] ELSE {})
    /\ c.at \notin Working \cup {"sweep"} => c.next = 1
    /\ c.at = "bank" =>
         /\ c.next <= Len(CyclePhases)
         /\ CyclePhases[c.next] \in ModelPhases => CyclePhases[c.next] \in worked[c.run]
    /\ c.at \in Working /\ c.paid /\ ~c.failed =>
         \A i \in 1..(c.next - 1) :
            CyclePhases[i] \in ModelPhases => CyclePhases[i] \in worked[c.run]

AllFit == \A w \in Workers : Fits(cycle[w])

\* Nobody else resumed a run that a cycle resumed.
OneRide ==
    \A v, w \in Workers :
      cycle[v].resumed /\ cycle[w].resumed /\ cycle[v].run = cycle[w].run => v = w

\* A phase banked against a run was banked by its opener, or by the cycle that
\* resumed it, which has read its checkpoints by then.
BankedBy ==
    \A p \in ModelPhases : checkpoint[p] \in Runs =>
      \/ p \in byOpener[checkpoint[p]]
      \/ /\ run[checkpoint[p]].resumed
         /\ \A w \in Workers : cycle[w].at \in Opening => cycle[w].run # checkpoint[p]

\* What an opener banked was worked.
BankedIsWorked == \A r \in Runs : byOpener[r] \subseteq worked[r]

\* What the tables promise a cycle that has no other beside it.
Sole(c) ==
    /\ c.at \in {"clear", "create", "sweep"} => OpenRuns = {}
    /\ c.at \in {"adopt"} \cup Opening => IsOpen(c.run)
    /\ c.at \in Working => OpenRuns \subseteq {c.run}
    /\ c.at \in Working /\ c.resumed => byOpener[c.run] \subseteq c.done

Alone ==
    ~crowded =>
      /\ \A v, w \in Workers : Live(v) /\ Live(w) => v = w
      /\ \A q, r \in OpenRuns : q = r
      /\ \A r \in OpenRuns : \A p \in byOpener[r] : checkpoint[p] = r
      /\ \A w \in Workers : Sole(cycle[w])

IInv ==
    /\ TypeOK /\ Ordered /\ AllFit /\ OneRide /\ BankedBy /\ BankedIsWorked
    /\ DreamtMeansWorked /\ Alone

-----------------------------------------------------------------------------
(* The phases, and a step of one cycle.                                    *)

LEMMA PhaseFacts ==
    /\ Len(CyclePhases) \in Nat
    /\ \A i \in 1..Len(CyclePhases) : CyclePhases[i] \in PhaseSet
    /\ ModelPhases \subseteq PhaseSet
    /\ \A p \in PhaseSet : \E i \in 1..Len(CyclePhases) : p = CyclePhases[i]
BY CycleAssumption DEF PhaseSet

\* One cycle moves, and no other.
Moved(w, c) ==
    /\ cycle' \in [Workers -> Cycle]
    /\ cycle'[w] = c
    /\ \A v \in Workers : v # w => cycle'[v] = cycle[v]

LEMMA MovesOne ==
    ASSUME NEW w \in Workers, NEW c \in Cycle, cycle \in [Workers -> Cycle],
           cycle' = [cycle EXCEPT ![w] = c]
    PROVE  Moved(w, c)
BY DEF Moved

LEMMA NoCycleTyped == NoCycle \in Cycle
BY PhaseFacts DEF NoCycle, Cycle, At

LEMMA GoesOn ==
    ASSUME NEW w \in Workers, cycle \in [Workers -> Cycle], NEW at \in At, Goes(w, at)
    PROVE  Moved(w, [cycle[w] EXCEPT !.at = at])
BY DEF Moved, Goes, Cycle

LEMMA Advances ==
    ASSUME NEW w \in Workers, cycle \in [Workers -> Cycle],
           cycle[w].next <= Len(CyclePhases), Advance(w)
    PROVE  Moved(w, [cycle[w] EXCEPT !.next = @ + 1, !.at = "phases"])
<1>1. cycle[w].next \in 1..Len(CyclePhases)
    BY PhaseFacts DEF Cycle
<1>2. cycle[w].next + 1 \in 1..(Len(CyclePhases) + 1)
    BY <1>1, PhaseFacts
<1>3. [cycle[w] EXCEPT !.next = @ + 1, !.at = "phases"] \in Cycle
    BY <1>2 DEF Cycle, At
<1> QED
    BY <1>3, MovesOne DEF Advance

\* For every cycle but w's, the tables lose nothing it relies on.
Grows(w) ==
    \A v \in Workers \ {w} : cycle[v].run \in Runs =>
      LET r == cycle[v].run IN
      /\ run[r].state # "absent" => run'[r].state # "absent"
      /\ run[r].resumed => run'[r].resumed
      /\ byOpener[r] \subseteq byOpener'[r]
      /\ worked[r] \subseteq worked'[r]

LEMMA OthersFit ==
    ASSUME IInv, NEW w \in Workers, NEW c \in Cycle, Moved(w, c), Grows(w), Fits(c)'
    PROVE  AllFit'
<1> SUFFICES ASSUME NEW v \in Workers PROVE Fits(cycle[v])'
    BY DEF AllFit
<1>1. CASE v = w
    BY <1>1 DEF Moved, Fits
<1>2. CASE v # w
  <2>1. Fits(cycle[v]) /\ cycle'[v] = cycle[v]
    BY <1>2 DEF IInv, AllFit, Moved
  <2>2. cycle[v].resumed => cycle[v].run \in Runs
    BY <2>1 DEF Fits, Resuming, HasRun
  <2>3. cycle[v].at \in Working => cycle[v].run \in Runs
    BY <2>1 DEF Fits, Working, HasRun
  <2> QED
    BY <1>2, <2>1, <2>2, <2>3 DEF Grows, Fits, Working
<1> QED
    BY <1>1, <1>2

-----------------------------------------------------------------------------
(* Steps that leave the tables alone.                                      *)

LEMMA Quiet ==
    ASSUME IInv, NEW w \in Workers, NEW c \in Cycle, Moved(w, c), UNCHANGED tables,
           holder' \in Workers \cup {Nobody}, crowded' \in BOOLEAN, Fits(c),
           c.resumed => cycle[w].resumed /\ c.run = cycle[w].run,
           c.at \in Opening => cycle[w].at \in Opening /\ c.run = cycle[w].run,
           ~crowded' => /\ ~crowded /\ Sole(c)
                        /\ c.at = "idle" \/ \A v \in Workers \ {w} : ~Live(v)
    PROVE  IInv'
<1>1. TypeOK'
    BY DEF IInv, TypeOK, Moved, tables
<1>2. AllFit'
  <2>1. Grows(w) /\ Fits(c)'
    BY DEF Grows, Fits, tables
  <2> QED
    BY <2>1, OthersFit
<1>3. OneRide'
    BY DEF IInv, OneRide, Moved
<1>4. BankedBy'
  <2>1. \A v \in Workers : cycle'[v].at \in Opening => cycle[v].at \in Opening /\ cycle'[v].run = cycle[v].run
    BY DEF Moved
  <2> QED
    BY <2>1 DEF IInv, BankedBy, tables
<1>5. Ordered' /\ BankedIsWorked' /\ DreamtMeansWorked'
    BY DEF IInv, Ordered, OpenRuns, IsOpen, BankedIsWorked, DreamtMeansWorked, tables
<1>6. Alone'
  <2>1. CASE crowded'
    BY <2>1 DEF Alone
  <2>2. CASE ~crowded'
    <3>1. \A u, v \in Workers : Live(u)' /\ Live(v)' => u = v
      BY <2>2 DEF IInv, Alone, Moved, Live
    <3>2. OpenRuns' = OpenRuns
      BY DEF OpenRuns, IsOpen, tables
    <3>3. \A v \in Workers : Sole(cycle[v])'
      BY <2>2, <3>2 DEF IInv, Alone, Moved, Sole, IsOpen, tables
    <3> QED
      BY <2>2, <3>1, <3>2, <3>3 DEF IInv, Alone, tables
  <2> QED
    BY <2>1, <2>2
<1> QED
    BY <1>1, <1>2, <1>3, <1>4, <1>5, <1>6 DEF IInv

LEMMA StartKeeps ==
    ASSUME IInv, NEW w \in Workers, NEW paid \in BOOLEAN, Start(w, paid)
    PROVE  IInv'
<1> DEFINE c == [NoCycle EXCEPT !.at = "look", !.paid = paid]
<1>1. c \in Cycle
    BY NoCycleTyped DEF Cycle, At, NoCycle
<1>2. Moved(w, c)
    BY <1>1, MovesOne DEF IInv, TypeOK, Start
<1>3. Fits(c) /\ Sole(c) /\ ~c.resumed /\ c.at = "look"
    BY DEF Fits, Sole, NoCycle, Opening, Working, HasRun
<1>4. UNCHANGED tables /\ holder' \in Workers \cup {Nobody} /\ crowded' \in BOOLEAN
    BY DEF IInv, TypeOK, Start, tables
<1>5. ~crowded' => ~crowded /\ \A v \in Workers \ {w} : ~Live(v)
    BY DEF Start
<1> QED
    BY <1>1, <1>2, <1>3, <1>4, <1>5, Quiet DEF Opening

LEMMA KillKeeps ==
    ASSUME IInv, NEW w \in Workers, Kill(w)
    PROVE  IInv'
<1>1. Moved(w, NoCycle)
    BY NoCycleTyped, MovesOne DEF IInv, TypeOK, Kill
<1>2. Fits(NoCycle) /\ Sole(NoCycle) /\ ~NoCycle.resumed /\ NoCycle.at = "idle"
    BY DEF Fits, Sole, NoCycle, Opening, Working, HasRun
<1>3. UNCHANGED <<tables, holder, crowded>>
    BY DEF Kill, tables, history
<1> QED
    BY <1>1, <1>2, <1>3, NoCycleTyped, Quiet DEF Opening, IInv, TypeOK

\* The newest of some open runs is one of them.
LEMMA NewestIsOne ==
    ASSUME Ordered, Resumable # {}
    PROVE  Newest(Resumable) \in Resumable
<1>1. Resumable \in SUBSET OpenRuns
    BY DEF Resumable, OpenRuns
<1> QED
    BY <1>1 DEF Ordered, Newest

\* While cycles do not overlap, the one that moves has nobody beside it.
LEMMA NobodyBeside ==
    ASSUME IInv, NEW w \in Workers, Live(w), ~crowded
    PROVE  \A v \in Workers \ {w} : ~Live(v)
BY DEF IInv, Alone

LEMMA LookKeeps ==
    ASSUME IInv, NEW w \in Workers, Look(w)
    PROVE  IInv'
<1> DEFINE c == [cycle[w] EXCEPT !.at = IF Resumable = {} THEN "close" ELSE "adopt",
                                 !.run = IF Resumable = {} THEN NoRun
                                         ELSE Newest(Resumable)]
<1>1. cycle[w] \in Cycle /\ Fits(cycle[w]) /\ cycle[w].at = "look"
    BY DEF IInv, TypeOK, AllFit, Look
<1>2. Resumable # {} => /\ Newest(Resumable) \in Runs
                        /\ IsOpen(Newest(Resumable))
    BY NewestIsOne DEF IInv, Resumable
<1>3. c \in Cycle
    BY <1>1, <1>2 DEF Cycle, At
<1>4. Moved(w, c)
    BY <1>1, <1>3, MovesOne DEF IInv, TypeOK, Look, Cycle
<1>5. ~c.resumed /\ c.at \in {"close", "adopt"}
    BY <1>1, <1>3 DEF Fits, Cycle, Resuming
<1>6. Fits(c)
    BY <1>1, <1>2, <1>5 DEF Fits, Cycle, Opening, Working, HasRun, Resuming, IsOpen
<1>7. Sole(c)
    BY <1>1, <1>2 DEF Sole, Cycle, Opening, Working
<1>8. UNCHANGED <<tables, holder, crowded>> /\ Live(w)
    BY <1>1 DEF Look, tables, history, Live
<1> QED
    BY <1>3, <1>4, <1>5, <1>6, <1>7, <1>8, Quiet, NobodyBeside DEF Opening, IInv, TypeOK

LEMMA ReadKeeps ==
    ASSUME IInv, NEW w \in Workers, Read(w)
    PROVE  IInv'
<1> DEFINE done == {p \in PhaseSet : checkpoint[p] = cycle[w].run}
           c == [cycle[w] EXCEPT !.at = "phases", !.done = done]
<1>1. cycle[w] \in Cycle /\ Fits(cycle[w]) /\ cycle[w].at = "read"
    BY DEF IInv, TypeOK, AllFit, Read
<1>2. cycle[w].resumed /\ cycle[w].run \in Runs /\ cycle[w].next = 1
    BY <1>1 DEF Fits, Opening, HasRun, Working
<1>3. done \cap ModelPhases \subseteq byOpener[cycle[w].run]
    BY <1>1, <1>2 DEF IInv, BankedBy, Opening
<1>4. c \in Cycle
    BY <1>1 DEF Cycle, At
<1>5. Moved(w, c)
    BY <1>1, <1>4, MovesOne DEF IInv, TypeOK, Read, Cycle
<1>6. Fits(c)
    BY <1>1, <1>2, <1>3 DEF Fits, Cycle, Opening, Working, HasRun, Resuming
<1>7. ~crowded => Sole(c)
  <2> SUFFICES ASSUME ~crowded PROVE Sole(c)
    OBVIOUS
  <2>1. cycle[w].run \in OpenRuns
    BY <1>1, <1>2 DEF IInv, Alone, Sole, Opening, OpenRuns
  <2>2. OpenRuns \subseteq {cycle[w].run}
    BY <2>1 DEF IInv, Alone
  <2>3. byOpener[cycle[w].run] \subseteq done
    BY <1>2, <2>1, PhaseFacts DEF IInv, TypeOK, Alone
  <2> QED
    BY <1>1, <2>2, <2>3 DEF Sole, Cycle, Opening
<1>8. UNCHANGED <<tables, holder, crowded>> /\ Live(w)
    BY <1>1 DEF Read, tables, history, Live
<1>9. c.run = cycle[w].run /\ c.at = "phases"
    BY <1>1 DEF Cycle
<1> QED
    BY <1>2, <1>4, <1>5, <1>6, <1>7, <1>8, <1>9, Quiet, NobodyBeside DEF Opening, IInv, TypeOK

\* The next phase, past one that was worked or need not be.
LEMMA AdvanceKeeps ==
    ASSUME IInv, NEW w \in Workers, InLoop(w), Advance(w),
           UNCHANGED <<run, checkpoint, holder, history>>,
           cycle[w].paid /\ Phase(w) \in ModelPhases => Phase(w) \in worked[cycle[w].run]
    PROVE  IInv'
<1> DEFINE c == [cycle[w] EXCEPT !.next = @ + 1, !.at = "phases"]
<1>1. cycle[w] \in Cycle /\ Fits(cycle[w]) /\ cycle[w].at = "phases"
    BY DEF IInv, TypeOK, AllFit, InLoop
<1>2. cycle[w].next \in 1..Len(CyclePhases) /\ cycle[w].next + 1 \in 1..(Len(CyclePhases) + 1)
  <2>1. cycle[w].next \in 1..Len(CyclePhases)
    BY <1>1, PhaseFacts DEF Cycle, InLoop
  <2> QED
    BY <2>1, PhaseFacts
<1>3. c \in Cycle
    BY <1>1, <1>2 DEF Cycle, At
<1>4. Moved(w, c)
    BY Advances DEF IInv, TypeOK, InLoop
<1>5. /\ c.at = "phases" /\ c.run = cycle[w].run /\ c.resumed = cycle[w].resumed
      /\ c.done = cycle[w].done /\ c.paid = cycle[w].paid /\ c.failed = cycle[w].failed
      /\ c.next = cycle[w].next + 1
    BY <1>1 DEF Cycle
<1>6. Fits(c)
  <2> HIDE DEF c
  <2>1. ASSUME c.paid, ~c.failed, NEW i \in 1..(c.next - 1), CyclePhases[i] \in ModelPhases
        PROVE  CyclePhases[i] \in worked[c.run]
    <3>1. i \in 1..(cycle[w].next - 1) \/ i = cycle[w].next
      BY <1>2, <1>5
    <3> QED
      BY <1>1, <1>5, <2>1, <3>1 DEF Fits, Working, Phase
  <2> QED
    BY <1>1, <1>5, <2>1 DEF Fits, Opening, Working, HasRun, Resuming
<1>7. ~crowded => Sole(c)
  <2> HIDE DEF c
  <2> QED
    BY <1>1, <1>5 DEF IInv, Alone, Sole, Opening, Working
<1>8. UNCHANGED <<tables, holder, crowded>> /\ Live(w)
    BY <1>1 DEF tables, history, Live
<1> QED
    BY <1>3, <1>4, <1>5, <1>6, <1>7, <1>8, Quiet, NobodyBeside DEF Opening, IInv, TypeOK

\* What a paid cycle skips its opener worked.
LEMMA PassesKeep ==
    ASSUME IInv, NEW w \in Workers, FreeTier(w) \/ Skip(w) \/ Yield(w)
    PROVE  IInv'
<1>1. InLoop(w) /\ Advance(w) /\ UNCHANGED <<run, checkpoint, holder, history>>
    BY DEF FreeTier, Skip, Yield
<1>2. Fits(cycle[w]) /\ cycle[w].at = "phases"
    BY <1>1 DEF IInv, AllFit, InLoop
<1>3. cycle[w].run \in Runs
    BY <1>2 DEF Fits, HasRun
<1>4. cycle[w].done \cap ModelPhases \subseteq worked[cycle[w].run]
    BY <1>2, <1>3 DEF IInv, BankedIsWorked, Fits
<1>5. cycle[w].paid /\ Phase(w) \in ModelPhases => Phase(w) \in worked[cycle[w].run]
    BY <1>4 DEF FreeTier, Skip, Yield
<1> QED
    BY <1>1, <1>5, AdvanceKeeps

LEMMA PhaseFailsKeeps ==
    ASSUME IInv, NEW w \in Workers, PhaseFails(w)
    PROVE  IInv'
<1> DEFINE c == [cycle[w] EXCEPT !.failed = TRUE, !.next = @ + 1]
<1>1. cycle[w] \in Cycle /\ Fits(cycle[w]) /\ InLoop(w)
    BY DEF IInv, TypeOK, AllFit, PhaseFails, Runnable
<1>2. cycle[w].next \in 1..Len(CyclePhases) /\ cycle[w].next + 1 \in 1..(Len(CyclePhases) + 1)
  <2>1. cycle[w].next \in 1..Len(CyclePhases)
    BY <1>1, PhaseFacts DEF Cycle, InLoop
  <2> QED
    BY <2>1, PhaseFacts
<1>3. c \in Cycle
    BY <1>1, <1>2 DEF Cycle, At
<1>4. Moved(w, c)
    BY <1>1, <1>3, MovesOne DEF IInv, TypeOK, PhaseFails, Cycle
<1>5. /\ c.at = "phases" /\ c.run = cycle[w].run /\ c.resumed = cycle[w].resumed
      /\ c.done = cycle[w].done /\ c.failed
    BY <1>1 DEF Cycle, InLoop
<1>6. Fits(c) /\ (~crowded => Sole(c))
  <2> HIDE DEF c
  <2> QED
    BY <1>1, <1>5 DEF IInv, Alone, Sole, Fits, Opening, Working, HasRun, Resuming, InLoop
<1>7. UNCHANGED <<tables, holder, crowded>> /\ Live(w)
    BY <1>1 DEF PhaseFails, InLoop, tables, history, Live
<1> QED
    BY <1>3, <1>4, <1>5, <1>6, <1>7, Quiet, NobodyBeside DEF Opening, IInv, TypeOK

-----------------------------------------------------------------------------
(* Steps that write the tables.                                            *)

\* What is left to show of the step of a cycle that writes.
LEMMA Writes ==
    ASSUME IInv, NEW w \in Workers, NEW c \in Cycle, Moved(w, c), Live(w), Grows(w),
           crowded' = crowded, TypeOK', Ordered', Fits(c)',
           BankedBy', BankedIsWorked', DreamtMeansWorked',
           c.resumed => \A v \in Workers \ {w} : cycle[v].resumed => cycle[v].run # c.run,
           ~crowded => /\ Sole(c)'
                       /\ \A q, r \in OpenRuns' : q = r
                       /\ \A r \in OpenRuns' : \A p \in byOpener'[r] : checkpoint'[p] = r
    PROVE  IInv'
<1>1. AllFit'
    BY OthersFit
<1>2. OneRide'
    BY DEF IInv, OneRide, Moved
<1>3. Alone'
  <2>1. CASE crowded
    BY <2>1 DEF Alone
  <2>2. CASE ~crowded
    <3>1. \A v \in Workers \ {w} : cycle'[v].at = "idle"
      BY <2>2, NobodyBeside DEF Moved, Live
    <3>2. \A u, v \in Workers : Live(u)' /\ Live(v)' => u = v
      BY <3>1 DEF Live
    <3>3. \A v \in Workers : Sole(cycle[v])'
      BY <2>2, <3>1 DEF Sole, Moved, Opening, Working
    <3> QED
      BY <2>2, <3>2, <3>3 DEF Alone
  <2> QED
    BY <2>1, <2>2
<1> QED
    BY <1>1, <1>2, <1>3 DEF IInv

\* The loser of the race for a run.
LEMMA AdoptLost ==
    ASSUME IInv, NEW w \in Workers, Adopt(w), run[cycle[w].run].resumed
    PROVE  IInv'
<1> DEFINE c == [cycle[w] EXCEPT !.at = "close", !.run = NoRun]
<1>1. cycle[w] \in Cycle /\ Fits(cycle[w]) /\ cycle[w].at = "adopt"
    BY DEF IInv, TypeOK, AllFit, Adopt
<1>2. c \in Cycle
    BY <1>1 DEF Cycle, At
<1>3. Moved(w, c)
  <2>1. cycle' = [cycle EXCEPT ![w].at = "close", ![w].run = NoRun] /\ cycle \in [Workers -> Cycle]
    BY DEF Adopt, IInv, TypeOK
  <2> QED
    BY <1>1, <1>2, <2>1, MovesOne DEF Cycle
<1>4. ~c.resumed
    BY <1>1 DEF Fits, Cycle, Resuming
<1>5. Fits(c) /\ Sole(c) /\ c.at = "close"
    BY <1>1, <1>4 DEF Fits, Sole, Cycle, Opening, Working, HasRun, Resuming
<1>6. UNCHANGED <<tables, holder, crowded>> /\ Live(w)
    BY <1>1 DEF Adopt, tables, history, Live
<1> QED
    BY <1>2, <1>3, <1>4, <1>5, <1>6, Quiet, NobodyBeside DEF Opening, IInv, TypeOK

\* Its winner: whatever is banked against the run is its opener's.
LEMMA AdoptWon ==
    ASSUME IInv, NEW w \in Workers, Adopt(w), ~run[cycle[w].run].resumed
    PROVE  IInv'
<1>1. cycle[w] \in Cycle /\ Fits(cycle[w]) /\ cycle[w].at = "adopt"
    BY DEF IInv, TypeOK, AllFit, Adopt
<1>2. PICK c : c = [cycle[w] EXCEPT !.at = "keep", !.resumed = TRUE]
    OBVIOUS
<1>3. c \in Cycle
    BY <1>1, <1>2 DEF Cycle, At
<1>4. Moved(w, c)
  <2>1. cycle' = [cycle EXCEPT ![w].at = "keep", ![w].resumed = TRUE] /\ cycle \in [Workers -> Cycle]
    BY DEF Adopt, IInv, TypeOK
  <2> QED
    BY <1>1, <1>2, <1>3, <2>1, MovesOne DEF Cycle
<1>5. PICK r \in Runs : r = cycle[w].run
    BY <1>1 DEF Fits, HasRun
<1>6. /\ c.at = "keep" /\ c.run = r /\ c.resumed /\ c.done = cycle[w].done
      /\ c.next = cycle[w].next
    BY <1>1, <1>2, <1>5 DEF Cycle
<1>7. /\ \A q \in Runs : /\ run'[q].state = run[q].state /\ run'[q].dreamt = run[q].dreamt
                         /\ run'[q].older = run[q].older
                         /\ run'[q].resumed = (run[q].resumed \/ q = r)
      /\ run' \in [Runs -> RunRow]
  <2>1. run' = [run EXCEPT ![r].resumed = TRUE] /\ run \in [Runs -> RunRow]
    BY <1>5 DEF Adopt, IInv, TypeOK
  <2>2. \A q \in Runs : run'[q] = IF q = r THEN [run[q] EXCEPT !.resumed = TRUE] ELSE run[q]
    BY <2>1
  <2>3. \A row \in RunRow : [row EXCEPT !.resumed = TRUE] \in RunRow
    BY DEF RunRow
  <2>4. run' \in [Runs -> RunRow]
    BY <2>1, <2>3
  <2> QED
    BY <2>2, <2>3, <2>4 DEF RunRow
<1>8. UNCHANGED <<checkpoint, worked, byOpener, crowded, holder>>
    BY DEF Adopt, history
<1>9. OpenRuns' = OpenRuns
    BY <1>7 DEF OpenRuns, IsOpen
<1>10. TypeOK'
    BY <1>4, <1>7, <1>8 DEF IInv, TypeOK, Moved
<1>11. Ordered'
    BY <1>7, <1>9 DEF IInv, Ordered, OpenRuns
<1>12. Grows(w)
    BY <1>7, <1>8 DEF Grows
<1>13. cycle[w].done \cap ModelPhases = {} /\ c.next = 1 /\ run[r].state # "absent"
    BY <1>1, <1>5, <1>6 DEF Fits, Resuming, Working, HasRun
<1>14. Fits(c)'
    BY <1>6, <1>7, <1>13 DEF Fits, Opening, Working, HasRun, Resuming
<1>15. \A v \in Workers : cycle[v].resumed => cycle[v].run # r
    BY <1>5 DEF IInv, AllFit, Fits, Adopt
<1>16. BankedBy'
  <2> SUFFICES ASSUME NEW p \in ModelPhases, checkpoint[p] \in Runs
               PROVE  \/ p \in byOpener[checkpoint[p]]
                      \/ /\ run'[checkpoint[p]].resumed
                         /\ \A v \in Workers : cycle'[v].at \in Opening => cycle'[v].run # checkpoint[p]
    BY <1>8 DEF BankedBy
  <2>1. CASE checkpoint[p] = r
    BY <2>1, <1>5 DEF IInv, BankedBy
  <2>2. CASE checkpoint[p] # r
    <3>1. \A v \in Workers : cycle'[v].at \in Opening /\ cycle'[v].run = checkpoint[p] =>
                               cycle[v].at \in Opening /\ cycle[v].run = checkpoint[p]
      BY <2>2, <1>4, <1>6 DEF Moved
    <3>2. run[checkpoint[p]].resumed => run'[checkpoint[p]].resumed
      BY <1>7
    <3> QED
      BY <3>1, <3>2 DEF IInv, BankedBy
  <2> QED
    BY <2>1, <2>2
<1>17. BankedIsWorked' /\ DreamtMeansWorked'
    BY <1>7, <1>8 DEF IInv, BankedIsWorked, DreamtMeansWorked
<1>18. ~crowded => /\ Sole(c)'
                   /\ \A q, s \in OpenRuns' : q = s
                   /\ \A q \in OpenRuns' : \A p \in byOpener'[q] : checkpoint'[p] = q
    BY <1>1, <1>5, <1>6, <1>7, <1>8, <1>9 DEF IInv, Alone, Sole, Opening, Working, IsOpen
<1> QED
    BY <1>1, <1>3, <1>4, <1>6, <1>8, <1>10, <1>11, <1>12, <1>14, <1>15, <1>16, <1>17, <1>18,
       Writes DEF Live

\* Closing runs leaves their stamps, and the order of those left open.
LEMMA ClosedRow ==
    ASSUME NEW row \in RunRow, NEW dreamt \in BOOLEAN
    PROVE  /\ Closed(row, dreamt) \in RunRow
           /\ Closed(row, dreamt).state = "finished"
           /\ Closed(row, dreamt).dreamt = dreamt
           /\ Closed(row, dreamt).resumed = row.resumed
BY DEF Closed, RunRow

LEMMA FewerOpen ==
    ASSUME Ordered, OpenRuns' \subseteq OpenRuns,
           \A r \in OpenRuns' : run'[r].older = run[r].older
    PROVE  Ordered'
BY DEF Ordered

LEMMA ClosesDebris ==
    ASSUME TypeOK, NEW keep, CloseOpenRunsExcept(keep)
    PROVE  /\ run' \in [Runs -> RunRow]
           /\ \A q \in Runs : /\ run'[q].resumed = run[q].resumed
                              /\ run'[q].state = "absent" <=> run[q].state = "absent"
                              /\ run'[q].dreamt => run[q].dreamt /\ run'[q].state = "finished"
           /\ OpenRuns' = OpenRuns \cap {keep}
           /\ \A q \in OpenRuns' : run'[q].older = run[q].older
<1>1. \A q \in Runs : run[q] \in RunRow /\ Closed(run[q], FALSE) \in RunRow
    BY ClosedRow DEF TypeOK
<1>2. \A q \in Runs : run'[q] = IF IsOpen(q) /\ q # keep THEN Closed(run[q], FALSE) ELSE run[q]
    BY DEF CloseOpenRunsExcept
<1>3. run' \in [Runs -> RunRow]
    BY <1>1 DEF CloseOpenRunsExcept
<1>4. \A q \in Runs : Closed(run[q], FALSE).state = "finished" /\ ~Closed(run[q], FALSE).dreamt
                      /\ Closed(run[q], FALSE).resumed = run[q].resumed
    BY <1>1, ClosedRow
<1>5. \A q \in Runs : IsOpen(q)' <=> IsOpen(q) /\ q = keep
    BY <1>2, <1>4 DEF IsOpen
<1> QED
    BY <1>2, <1>3, <1>4, <1>5 DEF TypeOK, OpenRuns, IsOpen

\* What a cycle that closes runs, or records the end of its own, has to show.
LEMMA ClosingKeeps ==
    ASSUME IInv, NEW w \in Workers, NEW at \in {"drop", "clear", "sweep"}, Live(w), Goes(w, at),
           cycle[w].at \in (IF at = "drop" THEN {"keep"} ELSE IF at = "clear" THEN {"close"} ELSE Working),
           UNCHANGED <<checkpoint, holder, history>>,
           run' \in [Runs -> RunRow],
           \A q \in Runs : /\ run'[q].resumed = run[q].resumed
                           /\ run[q].state # "absent" => run'[q].state # "absent"
                           /\ run'[q].dreamt => run'[q].state = "finished" /\ ModelPhases \subseteq worked[q],
           OpenRuns' \subseteq OpenRuns,
           \A q \in OpenRuns' : run'[q].older = run[q].older,
           ~crowded => IF at = "drop" THEN cycle[w].run \in OpenRuns' ELSE OpenRuns' = {}
    PROVE  IInv'
<1>1. cycle[w] \in Cycle /\ Fits(cycle[w])
    BY DEF IInv, TypeOK, AllFit
<1>2. PICK c : c = [cycle[w] EXCEPT !.at = at]
    OBVIOUS
<1>3. c \in Cycle /\ c.at = at /\ c.run = cycle[w].run /\ c.resumed = cycle[w].resumed
      /\ c.done = cycle[w].done /\ c.next = cycle[w].next
    BY <1>1, <1>2 DEF Cycle, At
<1>4. Moved(w, c)
    BY <1>2, GoesOn DEF IInv, TypeOK, At
<1>5. TypeOK'
    BY <1>4 DEF IInv, TypeOK, Moved, history
<1>6. Ordered'
    BY FewerOpen DEF IInv
<1>7. Grows(w)
    BY DEF Grows, history
<1>8. Fits(c)'
    BY <1>1, <1>3 DEF Fits, Opening, Working, HasRun, Resuming, history
<1>9. BankedBy'
  <2>1. \A v \in Workers : cycle'[v].at \in Opening => cycle[v].at \in Opening /\ cycle'[v].run = cycle[v].run
    BY <1>3, <1>4 DEF Moved, Opening, Working
  <2> QED
    BY <2>1 DEF IInv, BankedBy, history
<1>10. BankedIsWorked' /\ DreamtMeansWorked'
    BY DEF IInv, BankedIsWorked, DreamtMeansWorked, history
<1>11. \A v \in Workers \ {w} : c.resumed /\ cycle[v].resumed => cycle[v].run # c.run
    BY <1>3 DEF IInv, OneRide
<1>12. ~crowded => /\ Sole(c)'
                   /\ \A q, s \in OpenRuns' : q = s
                   /\ \A q \in OpenRuns' : \A p \in byOpener'[q] : checkpoint'[p] = q
    BY <1>3 DEF IInv, Alone, Sole, Opening, Working, OpenRuns, history
<1> QED
    BY <1>3, <1>4, <1>5, <1>6, <1>7, <1>8, <1>9, <1>10, <1>11, <1>12, Writes DEF history

LEMMA KeepKeeps ==
    ASSUME IInv, NEW w \in Workers, Keep(w)
    PROVE  IInv'
<1>1. cycle[w].at = "keep" /\ Goes(w, "drop") /\ CloseOpenRunsExcept(cycle[w].run)
      /\ UNCHANGED <<checkpoint, holder, history>>
    BY DEF Keep
<1>2. ~crowded => cycle[w].run \in OpenRuns
    BY <1>1 DEF IInv, AllFit, Fits, HasRun, Alone, Sole, Opening, OpenRuns
<1> QED
    BY <1>1, <1>2, ClosesDebris, ClosingKeeps DEF IInv, Live, DreamtMeansWorked

LEMMA CloseKeeps ==
    ASSUME IInv, NEW w \in Workers, Close(w)
    PROVE  IInv'
<1>1. cycle[w].at = "close" /\ Goes(w, "clear") /\ CloseOpenRunsExcept(NoRun)
      /\ UNCHANGED <<checkpoint, holder, history>>
    BY DEF Close
<1>2. OpenRuns \cap {NoRun} = {}
    BY CycleAssumption DEF OpenRuns
<1> QED
    BY <1>1, <1>2, ClosesDebris, ClosingKeeps DEF IInv, Live, DreamtMeansWorked

\* The end of a cycle: it says complete only of a run that was worked.
LEMMA RecordKeeps ==
    ASSUME IInv, NEW w \in Workers, NEW dreamt \in BOOLEAN, cycle[w].at = "phases",
           Record(w, dreamt), dreamt => ModelPhases \subseteq worked[cycle[w].run]
    PROVE  IInv'
<1>1. Fits(cycle[w]) /\ Goes(w, "sweep") /\ UNCHANGED <<checkpoint, holder, history>>
    BY DEF IInv, AllFit, Record
<1>2. PICK r \in Runs : r = cycle[w].run
    BY <1>1 DEF Fits, HasRun
<1>3. \A q \in Runs : run'[q] = IF q = r THEN Closed(run[r], dreamt) ELSE run[q]
    BY <1>2 DEF Record, IInv, TypeOK
<1>4. /\ run[r] \in RunRow /\ Closed(run[r], dreamt) \in RunRow
      /\ Closed(run[r], dreamt).state = "finished" /\ Closed(run[r], dreamt).dreamt = dreamt
      /\ Closed(run[r], dreamt).resumed = run[r].resumed
    BY ClosedRow DEF IInv, TypeOK
<1>5. run' \in [Runs -> RunRow]
    BY <1>2, <1>4 DEF Record, IInv, TypeOK
<1>6. \A q \in Runs : /\ run'[q].resumed = run[q].resumed
                      /\ run[q].state # "absent" => run'[q].state # "absent"
                      /\ run'[q].dreamt => run'[q].state = "finished" /\ ModelPhases \subseteq worked[q]
    BY <1>2, <1>3, <1>4 DEF IInv, TypeOK, DreamtMeansWorked
<1>7. OpenRuns' = OpenRuns \ {r} /\ \A q \in OpenRuns' : run'[q].older = run[q].older
    BY <1>3, <1>4 DEF OpenRuns, IsOpen
<1>8. ~crowded => OpenRuns' = {}
    BY <1>2, <1>7 DEF IInv, Alone, Sole, Working
<1> QED
    BY <1>1, <1>5, <1>6, <1>7, <1>8, ClosingKeeps DEF Live, Working

LEMMA FinishKeeps ==
    ASSUME IInv, NEW w \in Workers, Finish(w)
    PROVE  IInv'
<1>1. cycle[w] \in Cycle /\ Fits(cycle[w]) /\ cycle[w].at = "phases"
    BY DEF IInv, TypeOK, AllFit, Finish
<1>2. Record(w, cycle[w].paid /\ ~cycle[w].failed) /\ cycle[w].next - 1 = Len(CyclePhases)
    BY <1>1, PhaseFacts DEF Finish, InLoop, Cycle
<1>3. cycle[w].paid /\ ~cycle[w].failed => ModelPhases \subseteq worked[cycle[w].run]
    BY <1>1, <1>2, PhaseFacts DEF Fits, Working
<1>4. (cycle[w].paid /\ ~cycle[w].failed) \in BOOLEAN
    BY <1>1 DEF Cycle
<1> QED
    BY <1>1, <1>2, <1>3, <1>4, RecordKeeps

LEMMA FinishStoppedKeeps ==
    ASSUME IInv, NEW w \in Workers, NEW reason, FinishStopped(w, reason)
    PROVE  IInv'
BY RecordKeeps DEF FinishStopped, InLoop

\* Taking checkpoints away hurts only an open run that nobody resumed yet.
LEMMA UnbankingKeeps ==
    ASSUME IInv, NEW w \in Workers, NEW c \in Cycle, Moved(w, c), Live(w),
           UNCHANGED <<run, history>>, holder' \in Workers \cup {Nobody},
           checkpoint' \in [PhaseSet -> Runs \cup {NoRun}],
           \A p \in PhaseSet : checkpoint'[p] \in {checkpoint[p], NoRun},
           Fits(c), c.resumed => cycle[w].resumed /\ c.run = cycle[w].run,
           c.at \in Opening => cycle[w].at \in Opening /\ c.run = cycle[w].run,
           ~crowded => /\ Sole(c)
                       /\ \A p \in PhaseSet : checkpoint[p] \in OpenRuns =>
                                                checkpoint'[p] = checkpoint[p]
    PROVE  IInv'
<1>1. TypeOK'
    BY CycleAssumption DEF IInv, TypeOK, Moved, history
<1>2. Ordered' /\ BankedIsWorked' /\ DreamtMeansWorked'
    BY DEF IInv, Ordered, OpenRuns, IsOpen, BankedIsWorked, DreamtMeansWorked, history
<1>3. Grows(w) /\ Fits(c)'
    BY DEF Grows, Fits, history
<1>4. BankedBy'
  <2>1. \A v \in Workers : cycle'[v].at \in Opening => cycle[v].at \in Opening /\ cycle'[v].run = cycle[v].run
    BY DEF Moved
  <2>2. \A p \in ModelPhases : checkpoint'[p] \in Runs => checkpoint'[p] = checkpoint[p]
    BY CycleAssumption
  <2> QED
    BY <2>1, <2>2 DEF IInv, BankedBy, history
<1>5. \A v \in Workers \ {w} : c.resumed /\ cycle[v].resumed => cycle[v].run # c.run
    BY DEF IInv, OneRide
<1>6. OpenRuns' = OpenRuns /\ (~crowded => Sole(c)')
    BY DEF OpenRuns, IsOpen, Sole, history
<1>7. ~crowded => \A r \in OpenRuns : \A p \in byOpener[r] : checkpoint'[p] = r
  <2> SUFFICES ASSUME ~crowded, NEW r \in OpenRuns, NEW p \in byOpener[r]
               PROVE  checkpoint'[p] = r
    OBVIOUS
  <2>1. p \in PhaseSet
    BY PhaseFacts DEF IInv, TypeOK, OpenRuns
  <2> QED
    BY <2>1 DEF IInv, Alone
<1>8. ~crowded => \A q, r \in OpenRuns : q = r
    BY DEF IInv, Alone
<1> QED
    BY <1>1, <1>2, <1>3, <1>4, <1>5, <1>6, <1>7, <1>8, Writes DEF history

LEMMA DropKeeps ==
    ASSUME IInv, NEW w \in Workers, Drop(w)
    PROVE  IInv'
<1>1. cycle[w] \in Cycle /\ Fits(cycle[w]) /\ cycle[w].at = "drop" /\ Goes(w, "read")
      /\ UNCHANGED <<run, holder, history>> /\ cycle \in [Workers -> Cycle]
    BY DEF IInv, TypeOK, AllFit, Drop
<1>2. PICK c : c = [cycle[w] EXCEPT !.at = "read"]
    OBVIOUS
<1>3. c \in Cycle /\ c.at = "read" /\ c.run = cycle[w].run /\ c.resumed = cycle[w].resumed
      /\ c.done = cycle[w].done /\ c.next = cycle[w].next
    BY <1>1, <1>2 DEF Cycle, At
<1>4. Moved(w, c)
    BY <1>1, <1>2, GoesOn DEF At
<1>5. Fits(c)
    BY <1>1, <1>3 DEF Fits, Opening, Working, HasRun, Resuming
<1>6. /\ checkpoint' \in [PhaseSet -> Runs \cup {NoRun}]
      /\ \A p \in PhaseSet : /\ checkpoint'[p] \in {checkpoint[p], NoRun}
                             /\ checkpoint[p] = cycle[w].run => checkpoint'[p] = checkpoint[p]
    BY DEF IInv, TypeOK, Drop
<1>7. ~crowded => Sole(c) /\ OpenRuns \subseteq {cycle[w].run}
    BY <1>1, <1>3 DEF IInv, Alone, Sole, Opening, Working, OpenRuns, Fits, HasRun
<1> QED
    BY <1>1, <1>3, <1>4, <1>5, <1>6, <1>7, UnbankingKeeps DEF IInv, TypeOK, Live, Opening

LEMMA ClearKeeps ==
    ASSUME IInv, NEW w \in Workers, Clear(w)
    PROVE  IInv'
<1>1. cycle[w] \in Cycle /\ Fits(cycle[w]) /\ cycle[w].at = "clear" /\ Goes(w, "create")
      /\ UNCHANGED <<run, holder, history>> /\ cycle \in [Workers -> Cycle]
    BY DEF IInv, TypeOK, AllFit, Clear
<1>2. PICK c : c = [cycle[w] EXCEPT !.at = "create"]
    OBVIOUS
<1>3. c \in Cycle /\ c.at = "create" /\ c.run = cycle[w].run /\ c.resumed = cycle[w].resumed
      /\ c.done = cycle[w].done /\ c.next = cycle[w].next
    BY <1>1, <1>2 DEF Cycle, At
<1>4. Moved(w, c)
    BY <1>1, <1>2, GoesOn DEF At
<1>5. Fits(c) /\ ~c.resumed
    BY <1>1, <1>3 DEF Fits, Opening, Working, HasRun, Resuming
<1>6. /\ checkpoint' \in [PhaseSet -> Runs \cup {NoRun}]
      /\ \A p \in PhaseSet : checkpoint'[p] \in {checkpoint[p], NoRun}
    BY DEF Clear
<1>7. ~crowded => Sole(c) /\ OpenRuns = {}
    BY <1>1, <1>3 DEF IInv, Alone, Sole, Opening, Working
<1> QED
    BY <1>1, <1>3, <1>4, <1>5, <1>6, <1>7, UnbankingKeeps DEF IInv, TypeOK, Live, Opening

LEMMA SweepKeeps ==
    ASSUME IInv, NEW w \in Workers, Sweep(w)
    PROVE  IInv'
<1>1. cycle[w].at = "sweep" /\ UNCHANGED <<run, history>> /\ cycle \in [Workers -> Cycle]
      /\ cycle' = [cycle EXCEPT ![w] = NoCycle] /\ holder' \in Workers \cup {Nobody}
    BY DEF IInv, TypeOK, Sweep
<1>2. Moved(w, NoCycle)
    BY <1>1, NoCycleTyped, MovesOne
<1>3. Fits(NoCycle) /\ Sole(NoCycle) /\ ~NoCycle.resumed /\ NoCycle.at = "idle"
    BY DEF Fits, Sole, NoCycle, Opening, Working, HasRun
<1>4. /\ checkpoint' \in [PhaseSet -> Runs \cup {NoRun}]
      /\ \A p \in PhaseSet : checkpoint'[p] \in {checkpoint[p], NoRun}
    BY DEF Sweep, IInv, TypeOK
<1>5. ~crowded => OpenRuns = {}
    BY <1>1 DEF IInv, Alone, Sole
<1> QED
    BY <1>1, <1>2, <1>3, <1>4, <1>5, NoCycleTyped, UnbankingKeeps DEF Live, Opening

LEMMA RunPhaseKeeps ==
    ASSUME IInv, NEW w \in Workers, RunPhase(w)
    PROVE  IInv'
<1>1. cycle[w] \in Cycle /\ Fits(cycle[w]) /\ cycle[w].at = "phases" /\ Goes(w, "bank")
      /\ UNCHANGED <<run, checkpoint, holder, byOpener, crowded>>
      /\ cycle[w].next <= Len(CyclePhases)
    BY DEF IInv, TypeOK, AllFit, RunPhase, Runnable, InLoop
<1>2. PICK c : c = [cycle[w] EXCEPT !.at = "bank"]
    OBVIOUS
<1>3. /\ c \in Cycle /\ c.at = "bank" /\ c.run = cycle[w].run /\ c.resumed = cycle[w].resumed
      /\ c.done = cycle[w].done /\ c.next = cycle[w].next /\ c.paid = cycle[w].paid
      /\ c.failed = cycle[w].failed
    BY <1>1, <1>2 DEF Cycle, At
<1>4. Moved(w, c)
    BY <1>1, <1>2, GoesOn DEF At, IInv, TypeOK
<1>5. PICK r \in Runs : r = cycle[w].run
    BY <1>1 DEF Fits, HasRun
<1>6. /\ worked' \in [Runs -> SUBSET ModelPhases]
      /\ \A q \in Runs : worked[q] \subseteq worked'[q]
      /\ Phase(w) \in ModelPhases => Phase(w) \in worked'[r]
    BY <1>5 DEF RunPhase, IInv, TypeOK
<1>7. TypeOK'
    BY <1>1, <1>4, <1>6 DEF IInv, TypeOK, Moved
<1>8. Ordered' /\ OpenRuns' = OpenRuns
    BY <1>1 DEF IInv, Ordered, OpenRuns, IsOpen
<1>9. Grows(w)
    BY <1>1, <1>6 DEF Grows
<1>10. Fits(c)'
  <2>1. c.paid /\ ~c.failed => \A i \in 1..(c.next - 1) :
            CyclePhases[i] \in ModelPhases => CyclePhases[i] \in worked'[c.run]
    BY <1>1, <1>3, <1>5, <1>6 DEF Fits, Working
  <2> QED
    BY <1>1, <1>3, <1>5, <1>6, <2>1 DEF Fits, Opening, Working, HasRun, Resuming, Phase
<1>11. BankedBy'
  <2>1. \A v \in Workers : cycle'[v].at \in Opening => cycle[v].at \in Opening /\ cycle'[v].run = cycle[v].run
    BY <1>3, <1>4 DEF Moved, Opening
  <2> QED
    BY <1>1, <2>1 DEF IInv, BankedBy
<1>12. BankedIsWorked' /\ DreamtMeansWorked'
    BY <1>1, <1>6 DEF IInv, BankedIsWorked, DreamtMeansWorked
<1>13. \A v \in Workers \ {w} : c.resumed /\ cycle[v].resumed => cycle[v].run # c.run
    BY <1>3 DEF IInv, OneRide
<1>14. ~crowded => /\ Sole(c)'
                   /\ \A q, s \in OpenRuns : q = s
                   /\ \A q \in OpenRuns : \A p \in byOpener[q] : checkpoint[p] = q
    BY <1>1, <1>3, <1>8 DEF IInv, Alone, Sole, Opening, Working
<1> QED
    BY <1>1, <1>3, <1>4, <1>7, <1>8, <1>9, <1>10, <1>11, <1>12, <1>13, <1>14, Writes DEF Live

LEMMA BankKeeps ==
    ASSUME IInv, NEW w \in Workers, Bank(w)
    PROVE  IInv'
<1>1. cycle[w] \in Cycle /\ Fits(cycle[w]) /\ cycle[w].at = "bank" /\ Advance(w)
      /\ UNCHANGED <<run, holder, worked, crowded>> /\ cycle[w].next <= Len(CyclePhases)
    BY DEF IInv, TypeOK, AllFit, Bank, Fits
<1>2. cycle[w].next \in 1..Len(CyclePhases) /\ cycle[w].next + 1 \in 1..(Len(CyclePhases) + 1)
  <2>1. cycle[w].next \in 1..Len(CyclePhases)
    BY <1>1, PhaseFacts DEF Cycle
  <2> QED
    BY <2>1, PhaseFacts
<1>3. PICK c : c = [cycle[w] EXCEPT !.next = @ + 1, !.at = "phases"]
    OBVIOUS
<1>4. /\ c \in Cycle /\ c.at = "phases" /\ c.run = cycle[w].run /\ c.resumed = cycle[w].resumed
      /\ c.done = cycle[w].done /\ c.paid = cycle[w].paid /\ c.failed = cycle[w].failed
      /\ c.next = cycle[w].next + 1
    BY <1>1, <1>2, <1>3 DEF Cycle, At
<1>5. Moved(w, c)
    BY <1>1, <1>3, Advances DEF IInv, TypeOK
<1>6. PICK r \in Runs : r = cycle[w].run
    BY <1>1 DEF Fits, HasRun
<1>7. PICK p \in PhaseSet : p = Phase(w)
    BY <1>2, PhaseFacts DEF Phase
<1>8. run[r].state # "absent" /\ (p \in ModelPhases => p \in worked[r])
    BY <1>1, <1>6, <1>7 DEF Fits, HasRun, Phase
<1>9. /\ checkpoint' \in [PhaseSet -> Runs \cup {NoRun}]
      /\ \A q \in PhaseSet : checkpoint'[q] = IF q = p THEN r ELSE checkpoint[q]
    BY <1>6, <1>7 DEF Bank, IInv, TypeOK
<1>10. /\ byOpener' \in [Runs -> SUBSET ModelPhases]
       /\ \A q \in Runs : byOpener'[q] = IF q = r /\ ~c.resumed
                                         THEN byOpener[q] \cup ({p} \cap ModelPhases)
                                         ELSE byOpener[q]
    BY <1>4, <1>6, <1>7 DEF Bank, IInv, TypeOK
<1>11. TypeOK'
    BY <1>1, <1>5, <1>8, <1>9, <1>10 DEF IInv, TypeOK, Moved
<1>12. Ordered' /\ OpenRuns' = OpenRuns
    BY <1>1 DEF IInv, Ordered, OpenRuns, IsOpen
<1>13. Grows(w)
    BY <1>1, <1>10 DEF Grows
<1>14. Fits(c)'
  <2>1. ASSUME c.paid, ~c.failed, NEW i \in 1..(c.next - 1), CyclePhases[i] \in ModelPhases
        PROVE  CyclePhases[i] \in worked'[c.run]
    <3>1. i \in 1..(cycle[w].next - 1) \/ i = cycle[w].next
      BY <1>2, <1>4
    <3> QED
      BY <1>1, <1>4, <1>6, <1>7, <1>8, <2>1, <3>1 DEF Fits, Working, Phase
  <2> QED
    BY <1>1, <1>4, <1>6, <1>10, <2>1 DEF Fits, Opening, Working, HasRun, Resuming
<1>15. BankedBy'
  <2>1. \A v \in Workers : cycle'[v].at \in Opening =>
          v # w /\ cycle[v].at \in Opening /\ cycle'[v].run = cycle[v].run
    BY <1>4, <1>5 DEF Moved, Opening
  <2> SUFFICES ASSUME NEW q \in ModelPhases, checkpoint'[q] \in Runs
               PROVE  \/ q \in byOpener'[checkpoint'[q]]
                      \/ /\ run[checkpoint'[q]].resumed
                         /\ \A v \in Workers : cycle'[v].at \in Opening => cycle'[v].run # checkpoint'[q]
    BY <1>1 DEF BankedBy
  <2>2. q \in PhaseSet
    BY PhaseFacts
  <2>3. CASE q # p
    BY <2>1, <2>2, <2>3, <1>9, <1>10 DEF IInv, BankedBy
  <2>4. CASE q = p /\ ~c.resumed
    BY <2>2, <2>4, <1>9, <1>10
  <2>5. CASE q = p /\ c.resumed
    <3>1. checkpoint'[q] = r /\ run[r].resumed
      BY <1>1, <1>4, <1>6, <1>9, <2>2, <2>5 DEF Fits
    <3>2. \A v \in Workers : v # w /\ cycle[v].at \in Opening => cycle[v].run # r
      BY <1>4, <1>6, <2>5 DEF IInv, OneRide, AllFit, Fits
    <3> QED
      BY <2>1, <3>1, <3>2
  <2> QED
    BY <2>3, <2>4, <2>5
<1>16. BankedIsWorked' /\ DreamtMeansWorked'
    BY <1>1, <1>8, <1>10 DEF IInv, BankedIsWorked, DreamtMeansWorked
<1>17. \A v \in Workers \ {w} : c.resumed /\ cycle[v].resumed => cycle[v].run # c.run
    BY <1>4 DEF IInv, OneRide
<1>18. ~crowded => /\ Sole(c)'
                   /\ \A q, s \in OpenRuns : q = s
                   /\ \A q \in OpenRuns : \A x \in byOpener'[q] : checkpoint'[x] = q
  <2> SUFFICES ASSUME ~crowded
               PROVE  /\ Sole(c)'
                      /\ \A q, s \in OpenRuns : q = s
                      /\ \A q \in OpenRuns : \A x \in byOpener'[q] : checkpoint'[x] = q
    OBVIOUS
  <2>1. OpenRuns \subseteq {r} /\ (c.resumed => byOpener[r] \subseteq c.done)
    BY <1>1, <1>4, <1>6 DEF IInv, Alone, Sole, Working
  <2>2. Sole(c)'
    BY <1>4, <1>6, <1>10, <1>12, <2>1 DEF Sole, Opening, Working
  <2>3. ASSUME NEW x \in byOpener'[r], r \in OpenRuns PROVE checkpoint'[x] = r
    <3>1. x \in PhaseSet
      BY <1>10, <2>3, PhaseFacts
    <3>2. x = p \/ checkpoint[x] = r
      BY <1>10, <2>3 DEF IInv, Alone
    <3> QED
      BY <1>9, <3>1, <3>2
  <2> QED
    BY <2>1, <2>2, <2>3
<1> QED
    BY <1>1, <1>4, <1>5, <1>11, <1>12, <1>13, <1>14, <1>15, <1>16, <1>17, <1>18, Writes DEF Live

\* A run's identity is new: no cycle and no checkpoint knows it.
LEMMA CreateKeeps ==
    ASSUME IInv, NEW w \in Workers, NEW r \in Runs, Create(w, r)
    PROVE  IInv'
<1>1. cycle[w] \in Cycle /\ Fits(cycle[w]) /\ cycle[w].at = "create" /\ Unused(r)
      /\ UNCHANGED <<checkpoint, holder, crowded>>
    BY DEF IInv, TypeOK, AllFit, Create
<1>2. PICK c : c = [cycle[w] EXCEPT !.at = "phases", !.run = r]
    OBVIOUS
<1>3. ~cycle[w].resumed /\ cycle[w].next = 1 /\ cycle[w].done \cap ModelPhases = {}
    BY <1>1 DEF Fits, Resuming, Working
<1>4. /\ c \in Cycle /\ c.at = "phases" /\ c.run = r /\ ~c.resumed /\ c.done = cycle[w].done
      /\ c.next = 1
    BY <1>1, <1>2, <1>3 DEF Cycle, At
<1>5. Moved(w, c)
  <2>1. cycle' = [cycle EXCEPT ![w].at = "phases", ![w].run = r] /\ cycle \in [Workers -> Cycle]
    BY DEF Create, IInv, TypeOK
  <2> QED
    BY <1>1, <1>2, <1>4, <2>1, MovesOne DEF Cycle
<1>6. /\ run' \in [Runs -> RunRow]
      /\ run'[r].state = "open" /\ ~run'[r].dreamt /\ ~run'[r].resumed
      /\ run'[r].older = OpenRuns
      /\ \A q \in Runs : q # r =>
           /\ run'[q].state = run[q].state /\ run'[q].dreamt = run[q].dreamt
           /\ run'[q].resumed = run[q].resumed /\ run'[q].older = run[q].older \ {r}
  <2>1. run' = [q \in Runs |-> IF q = r THEN [NoRow EXCEPT !.state = "open", !.older = OpenRuns]
                               ELSE [run[q] EXCEPT !.older = @ \ {r}]]
    BY DEF Create, OpenRuns
  <2>2. /\ [NoRow EXCEPT !.state = "open", !.older = OpenRuns] \in RunRow
        /\ \A row \in RunRow : [row EXCEPT !.older = @ \ {r}] \in RunRow
    BY DEF RunRow, NoRow, OpenRuns
  <2>3. \A q \in Runs : run[q] \in RunRow
    BY DEF IInv, TypeOK
  <2>4. run' \in [Runs -> RunRow]
    BY <2>1, <2>2, <2>3
  <2> QED
    BY <2>1, <2>3, <2>4 DEF RunRow, NoRow
<1>7. /\ worked' \in [Runs -> SUBSET ModelPhases] /\ worked'[r] = {}
      /\ byOpener' \in [Runs -> SUBSET ModelPhases] /\ byOpener'[r] = {}
      /\ \A q \in Runs : q # r => worked'[q] = worked[q] /\ byOpener'[q] = byOpener[q]
    BY DEF Create, IInv, TypeOK
<1>8. (\A p \in PhaseSet : checkpoint[p] # r) /\ r \notin OpenRuns
      /\ \A v \in Workers : cycle[v].run # r
    BY <1>1 DEF Unused, OpenRuns
<1>9. OpenRuns' = OpenRuns \cup {r}
    BY <1>6 DEF OpenRuns, IsOpen
<1>10. TypeOK'
    BY <1>1, <1>5, <1>6, <1>7, <1>8 DEF IInv, TypeOK, Moved
<1>11. Ordered'
  <2> SUFFICES ASSUME NEW R \in SUBSET OpenRuns', R # {}
               PROVE  \E s \in R : \A q \in R : q # s => q \in run'[s].older
    BY DEF Ordered
  <2>1. CASE r \in R
    BY <1>6, <1>9, <2>1
  <2>2. CASE r \notin R
    <3>1. R \in SUBSET OpenRuns
      BY <1>9, <2>2
    <3>2. PICK s \in R : \A q \in R : q # s => q \in run[s].older
      BY <3>1 DEF IInv, Ordered
    <3> QED
      BY <1>6, <2>2, <3>1, <3>2 DEF OpenRuns
  <2> QED
    BY <2>1, <2>2
<1>12. Grows(w)
    BY <1>6, <1>7, <1>8 DEF Grows
<1>13. Fits(c)'
    BY <1>3, <1>4, <1>6 DEF Fits, Opening, Working, HasRun, Resuming
<1>14. BankedBy'
  <2>1. \A v \in Workers : cycle'[v].at \in Opening => cycle[v].at \in Opening /\ cycle'[v].run = cycle[v].run
    BY <1>4, <1>5 DEF Moved, Opening
  <2>2. \A p \in ModelPhases : checkpoint[p] # r
    BY <1>8, PhaseFacts
  <2> QED
    BY <1>1, <1>6, <1>7, <2>1, <2>2 DEF IInv, BankedBy
<1>15. BankedIsWorked' /\ DreamtMeansWorked'
    BY <1>6, <1>7 DEF IInv, BankedIsWorked, DreamtMeansWorked
<1>16. ~crowded => /\ Sole(c)'
                   /\ \A q, s \in OpenRuns' : q = s
                   /\ \A q \in OpenRuns' : \A p \in byOpener'[q] : checkpoint'[p] = q
  <2>1. ~crowded => OpenRuns' = {r}
    BY <1>1, <1>9 DEF IInv, Alone, Sole
  <2> QED
    BY <1>4, <1>7, <2>1 DEF Sole, Opening, Working
<1> QED
    BY <1>1, <1>4, <1>5, <1>10, <1>11, <1>12, <1>13, <1>14, <1>15, <1>16, Writes DEF Live, Create

LEMMA StealKeeps ==
    ASSUME IInv, Steal
    PROVE  IInv'
<1>1. TypeOK'
    BY DEF IInv, TypeOK, Steal, history
<1>2. AllFit' /\ OneRide' /\ BankedBy' /\ BankedIsWorked' /\ DreamtMeansWorked'
    BY DEF IInv, AllFit, Fits, OneRide, BankedBy, BankedIsWorked, DreamtMeansWorked, Steal, history
<1>3. Ordered' /\ Alone'
    BY DEF IInv, Ordered, OpenRuns, IsOpen, Alone, Live, Sole, Steal, history
<1> QED
    BY <1>1, <1>2, <1>3 DEF IInv

LEMMA StutterKeeps ==
    ASSUME IInv, UNCHANGED vars
    PROVE  IInv'
<1>1. TypeOK'
    BY DEF IInv, TypeOK, vars
<1>2. AllFit' /\ OneRide' /\ BankedBy' /\ BankedIsWorked' /\ DreamtMeansWorked'
    BY DEF IInv, AllFit, Fits, OneRide, BankedBy, BankedIsWorked, DreamtMeansWorked, vars
<1>3. Ordered' /\ Alone'
    BY DEF IInv, Ordered, OpenRuns, IsOpen, Alone, Live, Sole, vars
<1> QED
    BY <1>1, <1>2, <1>3 DEF IInv

LEMMA Initially ==
    ASSUME Init
    PROVE  IInv
<1>1. /\ \A r \in Runs : run[r] = NoRow /\ worked[r] = {} /\ byOpener[r] = {}
      /\ \A p \in PhaseSet : checkpoint[p] = NoRun
      /\ \A w \in Workers : cycle[w] = NoCycle
    BY DEF Init
<1>2. TypeOK
    BY NoCycleTyped, CycleAssumption DEF Init, TypeOK, RunRow, NoRow
<1>3. OpenRuns = {}
    BY <1>1 DEF OpenRuns, IsOpen, NoRow
<1>4. Ordered
    BY <1>3 DEF Ordered
<1>5. Fits(NoCycle) /\ Sole(NoCycle)
    BY DEF Fits, Sole, NoCycle, Opening, Working, HasRun
<1>6. AllFit /\ OneRide
    BY <1>1, <1>5 DEF AllFit, OneRide, NoCycle
<1>7. BankedBy
    BY <1>1, PhaseFacts, CycleAssumption DEF BankedBy
<1>8. BankedIsWorked /\ DreamtMeansWorked
    BY <1>1 DEF BankedIsWorked, DreamtMeansWorked, NoRow
<1>9. Alone
    BY <1>1, <1>3, <1>5 DEF Alone, Live, NoCycle
<1> QED
    BY <1>2, <1>4, <1>6, <1>7, <1>8, <1>9 DEF IInv

LEMMA StepKeeps ==
    ASSUME IInv, [Next]_vars
    PROVE  IInv'
<1>1. CASE UNCHANGED vars
    BY <1>1, StutterKeeps
<1>2. CASE Steal
    BY <1>2, StealKeeps
<1>3. ASSUME NEW w \in Workers, NEW paid \in BOOLEAN, Start(w, paid)
      PROVE  IInv'
    BY <1>3, StartKeeps
<1>4. ASSUME NEW w \in Workers, OpenStep(w)
      PROVE  IInv'
  <2>1. ASSUME Adopt(w) PROVE IInv'
      BY <2>1, AdoptLost, AdoptWon
  <2> QED
      BY <1>4, <2>1, LookKeeps, KeepKeeps, DropKeeps, ReadKeeps, CloseKeeps, ClearKeeps,
         CreateKeeps DEF OpenStep
<1>5. ASSUME NEW w \in Workers, LoopStep(w)
      PROVE  IInv'
    BY <1>5, PassesKeep, RunPhaseKeeps, BankKeeps, PhaseFailsKeeps, FinishStoppedKeeps DEF LoopStep
<1>6. ASSUME NEW w \in Workers, Finish(w) \/ Sweep(w) \/ Kill(w)
      PROVE  IInv'
    BY <1>6, FinishKeeps, SweepKeeps, KillKeeps
<1> QED
    BY <1>1, <1>2, <1>3, <1>4, <1>5, <1>6 DEF Next

\* The inductive invariant.
THEOREM Invariance == Spec => []IInv
BY Initially, StepKeeps, PTL DEF Spec

\* Types hold in every reachable state, and with them what relates the tables:
\* only a finished run has dreamt, and checkpoint.ts's foreign key.
THEOREM TypeCorrect == Spec => []TypeOK
<1>1. IInv => TypeOK
    BY DEF IInv
<1> QED
    BY <1>1, Invariance, PTL

\* The thrift openRun's header claims: whatever a resumed cycle skips was run to
\* its end and banked by the cycle that opened the run, for any number of cycles
\* writing the same checkpoints and any order of the phases.
THEOREM Thrift == Spec => []ThriftIsEarned
<1>1. IInv => ThriftIsEarned
    BY DEF IInv, AllFit, Fits, ThriftIsEarned
<1> QED
    BY <1>1, Invariance, PTL

\* finishRun records that a run dreamt only if every model phase ran to its end
\* under it, in this cycle or in the killed one it resumed.
THEOREM Dreamt == Spec => []DreamtMeansWorked
<1>1. IInv => DreamtMeansWorked
    BY DEF IInv
<1> QED
    BY <1>1, Invariance, PTL

\* Which step takes a run for resumption, and which one pays for a phase.
LEMMA Turns ==
    ASSUME IInv, [Next]_vars, NEW w \in Workers
    PROVE  /\ cycle'[w].resumed /\ ~cycle[w].resumed => Adopt(w)
           /\ cycle[w].at = "phases" /\ cycle'[w].at = "bank" => RunPhase(w)
<1> DEFINE Turned == /\ cycle'[w].resumed /\ ~cycle[w].resumed => Adopt(w)
                     /\ cycle[w].at = "phases" /\ cycle'[w].at = "bank" => RunPhase(w)
<1>1. cycle \in [Workers -> Cycle] /\ \A v \in Workers : cycle[v] \in Cycle
    BY DEF IInv, TypeOK
<1>2. CASE UNCHANGED vars \/ Steal
    BY <1>2 DEF vars, Steal
<1>3. ASSUME NEW v \in Workers, NEW paid \in BOOLEAN, Start(v, paid)
      PROVE  Turned
    BY <1>1, <1>3 DEF Start, NoCycle
<1>4. ASSUME NEW v \in Workers, OpenStep(v)
      PROVE  Turned
  <2>1. CASE Look(v)
    BY <1>1, <2>1 DEF Look, Cycle
  <2>2. CASE Adopt(v)
    BY <1>1, <2>2 DEF Adopt, Cycle
  <2>3. CASE Keep(v) \/ Drop(v) \/ Close(v) \/ Clear(v)
    BY <1>1, <2>3 DEF Keep, Drop, Close, Clear, Goes, Cycle
  <2>4. CASE Read(v)
    BY <1>1, <2>4 DEF Read, Cycle
  <2>5. ASSUME NEW r \in Runs, Create(v, r) PROVE Turned
    BY <1>1, <2>5 DEF Create, Cycle
  <2> QED
    BY <1>4, <2>1, <2>2, <2>3, <2>4, <2>5 DEF OpenStep
<1>5. ASSUME NEW v \in Workers, LoopStep(v)
      PROVE  Turned
  <2>1. CASE FreeTier(v) \/ Skip(v) \/ Yield(v) \/ Bank(v)
    BY <1>1, <2>1 DEF FreeTier, Skip, Yield, Bank, Advance, Cycle
  <2>2. CASE RunPhase(v)
    BY <1>1, <2>2 DEF RunPhase, Goes, Cycle
  <2>3. CASE PhaseFails(v)
    BY <1>1, <2>3 DEF PhaseFails, Cycle
  <2>4. ASSUME NEW reason, FinishStopped(v, reason) PROVE Turned
    BY <1>1, <2>4 DEF FinishStopped, Record, Goes, Cycle
  <2> QED
    BY <1>5, <2>1, <2>2, <2>3, <2>4 DEF LoopStep
<1>6. ASSUME NEW v \in Workers, Finish(v) \/ Sweep(v) \/ Kill(v)
      PROVE  Turned
    BY <1>1, <1>6 DEF Finish, Record, Goes, Sweep, Kill, NoCycle, Cycle
<1> QED
    BY <1>2, <1>3, <1>4, <1>5, <1>6 DEF Next

\* openRun's conditional update lets one cycle have a run to resume, whoever else
\* looked at it meanwhile.
THEOREM OneAdoption == Spec => AdoptedOnce
<1>1. ASSUME IInv, [Next]_vars, NEW w \in Workers, cycle'[w].resumed, ~cycle[w].resumed
      PROVE  ~run[cycle'[w].run].resumed
  <2>1. Adopt(w) /\ cycle \in [Workers -> Cycle] /\ cycle[w] \in Cycle
    BY <1>1, Turns DEF IInv, TypeOK
  <2>2. ~run[cycle[w].run].resumed
    BY <1>1, <2>1 DEF Adopt, Cycle
  <2>3. cycle'[w].run = cycle[w].run
    BY <2>1, <2>2 DEF Adopt, Cycle
  <2> QED
    BY <2>2, <2>3
<1>2. IInv /\ [Next]_vars =>
        [\A w \in Workers : (cycle'[w].resumed /\ ~cycle[w].resumed) =>
                              ~run[cycle'[w].run].resumed]_vars
    BY <1>1
<1> QED
    BY <1>2, Invariance, PTL DEF Spec, AdoptedOnce

\* A killed cycle's model calls are not paid for again by the cycle that adopts
\* its run, as long as no two cycles have overlapped: everything its opener
\* banked is among what the adopter skips.
THEOREM NothingRepaid == Spec => NeverRepaid
<1>1. ASSUME IInv, [Next]_vars, NEW w \in Workers, ~crowded, cycle[w].at = "phases",
             cycle'[w].at = "bank", cycle[w].resumed, Phase(w) \in ModelPhases
      PROVE  Phase(w) \notin byOpener[cycle[w].run]
  <2>1. Phase(w) \notin cycle[w].done
    BY <1>1, Turns DEF RunPhase, Runnable
  <2> QED
    BY <1>1, <2>1 DEF IInv, Alone, Sole, Working
<1>2. IInv /\ [Next]_vars =>
        [\A w \in Workers :
          /\ ~crowded
          /\ cycle[w].at = "phases" /\ cycle'[w].at = "bank"
          /\ cycle[w].resumed
          /\ Phase(w) \in ModelPhases
          => Phase(w) \notin byOpener[cycle[w].run]]_vars
    BY <1>1
<1> QED
    BY <1>2, Invariance, PTL DEF Spec, NeverRepaid
=============================================================================
