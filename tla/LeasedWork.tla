------------------------------ MODULE LeasedWork ------------------------------
(***************************************************************************)
(* What the queue promises, with no rows, tokens or clocks: an item of     *)
(* work is offered, taken by at most one holder at a time, and finished    *)
(* once, by the holder it has.  A holder can lose its item at any moment   *)
(* and is never asked: from then on nothing it does concerns the item.     *)
(* Several items may move in one step (a sweep, a crash of their holder).  *)
(***************************************************************************)
CONSTANTS Items, Holders

VARIABLES
    stage,   \* where each item is in its life
    holders  \* who can still move the item: nobody, or one holder

workVars == <<stage, holders>>

Stages == {"absent", "due", "running", "done", "dead", "discarded"}

Init ==
    /\ stage = [i \in Items |-> "absent"]
    /\ holders = [i \in Items |-> {}]

Goes(i, from, to) == stage[i] \in from /\ stage'[i] = to
NobodyHolds(i) == holders'[i] = {}

Rests(i) == stage'[i] = stage[i] /\ holders'[i] = holders[i]
Offer(i) == Goes(i, {"absent"}, "due") /\ NobodyHolds(i)

\* The taker's answer may be lost: then the item runs with nobody behind it.
Take(i) ==
    /\ Goes(i, {"due"}, "running")
    /\ NobodyHolds(i) \/ \E h \in Holders : holders'[i] = {h}

Finish(i) == holders[i] # {} /\ Goes(i, {"running"}, "done") /\ NobodyHolds(i)
Return(i) == Goes(i, {"running"}, "due") /\ NobodyHolds(i)
Bury(i) == Goes(i, {"running"}, "dead") /\ NobodyHolds(i)
Abandon(i) == Goes(i, {"running"}, "running") /\ NobodyHolds(i)
Revive(i) == Goes(i, {"dead"}, "due") /\ NobodyHolds(i)
Withdraw(i) == Goes(i, {"due", "running", "dead"}, "discarded") /\ NobodyHolds(i)

ItemStep(i) ==
    \/ Rests(i)
    \/ Offer(i)
    \/ Take(i)
    \/ Finish(i)
    \/ Return(i)
    \/ Bury(i)
    \/ Abandon(i)
    \/ Revive(i)
    \/ Withdraw(i)

Next == \A i \in Items : ItemStep(i)

Spec == Init /\ [][Next]_workVars
=============================================================================
