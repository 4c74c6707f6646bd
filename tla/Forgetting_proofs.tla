-------------------------- MODULE Forgetting_proofs --------------------------
(***************************************************************************)
(* The safety of Forgetting for any number of pages, facts and instants,   *)
(* any batch and any grant.                                                *)
(*                                                                         *)
(* Every step treats a row that carries a tombstone in one of four ways    *)
(* (RowsStand): it leaves the tombstone; it clears it as the undo of its   *)
(* very instant, which then has nothing left to give back; it erases the   *)
(* row because its tombstone is behind the cutoff or its page goes; or it  *)
(* is the rewrite of a forgotten page, which `overtaken` records. An undo  *)
(* on offer is of an instant ahead of the cutoff, so only the last of the  *)
(* four, and the loss of a fact's own page, take a row from it.            *)
(***************************************************************************)
EXTENDS Forgetting, TLAPS

PageRow == [st : {"none", "row", "erased"}, del : 0 .. MaxNow]
FactRow == [st : {"none", "row", "erased"}, page : Pages \cup {NoRow},
            del : 0 .. MaxNow, by : Facts \cup {NoRow}]

\* An admitted undo ends before its instant may be purged.
InFlightOutlasts == restorer.at # "idle" => restorer.instant > cut

\* An erased fact keeps the page it was on.
OnAPage == \A f \in Facts : fact[f].st # "none" => fact[f].page \in Pages
TookFacts == \A r \in Instants : Offered(r) => \A f \in took[r].facts : fact[f].st # "none"

IInv == TypeOK /\ UndoFindsItsRows /\ InFlightOutlasts /\ OnAPage /\ TookFacts

-----------------------------------------------------------------------------
(* What a step does to the rows that stand.                                *)

Stands(old, new) ==
  new.st = "row" /\ (old.del \in {new.del, Live} \/ took'[old.del] = NothingTaken)
Due(row) == row.del # Live /\ row.del <= cut

RowsStand ==
  /\ overtaken \subseteq overtaken'
  /\ \A p \in Pages :
       /\ page[p].st = "erased" => page'[p].st = "erased"
       /\ page[p].st = "row" => \/ Stands(page[p], page'[p])
                                \/ p \in overtaken'
                                \/ page'[p].st = "erased" /\ Due(page[p])
  /\ \A f \in Facts :
       /\ fact[f].st = "none" => fact'[f].st # "erased"
       /\ fact[f].st # "none" => fact'[f].st # "none" /\ fact'[f].page = fact[f].page
       /\ fact[f].st = "row" => \/ Stands(fact[f], fact'[f])
                                \/ Due(fact[f])
                                \/ page'[fact[f].page].st = "erased"

\* The offers after a step were there before it, and have as much to give back
\* or nothing, or the step has just stamped what they took.
OffersStand ==
  \A r \in Instants : Offered(r)' =>
    \/ Offered(r) /\ took'[r] \in {took[r], NothingTaken}
    \/ /\ \A p \in took'[r].pages : Recoverable(page'[p], r)
       /\ \A f \in took'[r].facts : Recoverable(fact'[f], r)

\* A pointer that stands is moved only if it pointed nowhere or its target goes.
PointersStand ==
  \A f \in Facts : fact[f].st = "row" /\ fact'[f].st = "row" =>
    fact'[f].by = fact[f].by \/ fact[f].by = NoRow \/ fact'[fact[f].by].st = "erased"

LEMMA ClockFacts ==
    ASSUME TypeOK
    PROVE  /\ MaxNow \in Nat /\ MaxPage \in Nat /\ MaxFact \in Nat
           /\ now \in Nat /\ undo \in Nat /\ cut \in Nat /\ cut <= undo /\ undo <= now
           /\ restorer.instant \in Nat /\ restorer.instant <= now
           /\ page \in [Pages -> PageRow] /\ fact \in [Facts -> FactRow]
BY ForgettingAssumption DEF TypeOK, PageRow, FactRow

\* An undo on offer is of an instant the purge has not come to.
LEMMA OfferedIsAhead ==
    ASSUME IInv, NEW r \in Instants, Offered(r)
    PROVE  r > cut /\ r <= now
BY ClockFacts DEF IInv, TypeOK, Instants, Offered, InFlightOutlasts

LEMMA StepKeepsRows ==
    ASSUME IInv, TypeOK', InFlightOutlasts', RowsStand, OffersStand
    PROVE  IInv'
<1>1. OnAPage'
  <2> SUFFICES ASSUME NEW f \in Facts, fact'[f].st # "none" PROVE fact'[f].page \in Pages
    BY DEF OnAPage
  <2>1. CASE fact[f].st = "none"
    <3>1. f \in FactRows'
      BY <2>1 DEF RowsStand, FactRows, TypeOK
    <3> QED
      BY <3>1 DEF TypeOK, PageRows
  <2>2. CASE fact[f].st # "none"
    BY <2>2 DEF IInv, OnAPage, RowsStand
  <2> QED
    BY <2>1, <2>2
<1>2. ASSUME NEW r \in Instants, Offered(r)'
      PROVE  /\ \A p \in took'[r].pages : Recoverable(page'[p], r) \/ p \in overtaken'
             /\ \A f \in took'[r].facts : /\ fact'[f].st # "none"
                                          /\ Recoverable(fact'[f], r) \/ page'[fact'[f].page].st = "erased"
  <2>1. CASE Offered(r) /\ took'[r] = took[r] /\ took[r] # NothingTaken
    <3>1. r > cut /\ r <= now /\ r \in Nat /\ now \in Nat /\ cut \in Nat
      BY <2>1, OfferedIsAhead, ClockFacts DEF IInv, Instants
    <3>2. took[r].pages \subseteq Pages /\ took[r].facts \subseteq Facts
      BY DEF IInv, TypeOK
    <3>3. ASSUME NEW p \in took[r].pages PROVE Recoverable(page'[p], r) \/ p \in overtaken'
      <4>1. p \in Pages /\ (Recoverable(page[p], r) \/ p \in overtaken)
        BY <2>1, <3>2 DEF IInv, UndoFindsItsRows
      <4>2. CASE p \in overtaken
        BY <4>2 DEF RowsStand
      <4>3. CASE Recoverable(page[p], r)
        <5>1. ~Due(page[p])
          BY <3>1, <4>3 DEF Due, Recoverable
        <5>2. Stands(page[p], page'[p]) \/ p \in overtaken'
          BY <4>1, <4>3, <5>1 DEF RowsStand, Recoverable
        <5>3. Stands(page[p], page'[p]) => Recoverable(page'[p], r)
          BY <2>1, <3>1, <4>3 DEF Stands, Recoverable, Live
        <5> QED
          BY <5>2, <5>3
      <4> QED
        BY <4>1, <4>2, <4>3
    <3>4. ASSUME NEW f \in took[r].facts
          PROVE  /\ fact'[f].st # "none"
                 /\ Recoverable(fact'[f], r) \/ page'[fact'[f].page].st = "erased"
      <4>1. /\ f \in Facts /\ fact[f].st # "none" /\ fact[f].page \in Pages
            /\ Recoverable(fact[f], r) \/ page[fact[f].page].st = "erased"
        BY <2>1, <3>2 DEF IInv, UndoFindsItsRows, TookFacts, OnAPage
      <4>2. fact'[f].st # "none" /\ fact'[f].page = fact[f].page
        BY <4>1 DEF RowsStand
      <4>3. CASE page[fact[f].page].st = "erased"
        BY <4>1, <4>2, <4>3 DEF RowsStand
      <4>4. CASE Recoverable(fact[f], r)
        <5>1. ~Due(fact[f])
          BY <3>1, <4>4 DEF Due, Recoverable
        <5>2. Stands(fact[f], fact'[f]) \/ page'[fact[f].page].st = "erased"
          BY <4>1, <4>4, <5>1 DEF RowsStand, Recoverable
        <5>3. Stands(fact[f], fact'[f]) => Recoverable(fact'[f], r)
          BY <2>1, <3>1, <4>4 DEF Stands, Recoverable, Live
        <5> QED
          BY <4>2, <5>2, <5>3
      <4> QED
        BY <4>1, <4>2, <4>3, <4>4
    <3> QED
      BY <2>1, <3>3, <3>4
  <2>2. CASE /\ \A p \in took'[r].pages : Recoverable(page'[p], r)
             /\ \A f \in took'[r].facts : Recoverable(fact'[f], r)
    BY <2>2 DEF Recoverable
  <2>3. CASE took'[r] = NothingTaken
    BY <2>3 DEF NothingTaken
  <2> QED
    BY <1>2, <2>1, <2>2, <2>3 DEF OffersStand
<1>3. UndoFindsItsRows' /\ TookFacts'
    BY <1>2 DEF UndoFindsItsRows, TookFacts
<1> QED
    BY <1>1, <1>3 DEF IInv

-----------------------------------------------------------------------------
(* Stamping, and removing.                                                 *)

LEMMA StampedPages ==
    ASSUME NEW t \in [Pages -> PageRow], NEW keys, NEW r \in 0 .. MaxNow
    PROVE  /\ Stamped(t, keys, r) \in [Pages -> PageRow]
           /\ \A p \in Pages : /\ Stamped(t, keys, r)[p].st = t[p].st
                               /\ Stamped(t, keys, r)[p].del = IF p \in keys THEN r ELSE t[p].del
<1>1. \A p \in Pages : t[p] \in PageRow
    OBVIOUS
<1>2. \A row \in PageRow : /\ [row EXCEPT !.del = r] \in PageRow
                           /\ [row EXCEPT !.del = r].st = row.st
                           /\ [row EXCEPT !.del = r].del = r
    BY DEF PageRow
<1> QED
    BY <1>1, <1>2 DEF Stamped

LEMMA StampedFacts ==
    ASSUME NEW t \in [Facts -> FactRow], NEW keys, NEW r \in 0 .. MaxNow
    PROVE  /\ Stamped(t, keys, r) \in [Facts -> FactRow]
           /\ \A f \in Facts : /\ Stamped(t, keys, r)[f].st = t[f].st
                               /\ Stamped(t, keys, r)[f].page = t[f].page
                               /\ Stamped(t, keys, r)[f].by = t[f].by
                               /\ Stamped(t, keys, r)[f].del = IF f \in keys THEN r ELSE t[f].del
<1>1. \A f \in Facts : t[f] \in FactRow
    OBVIOUS
<1>2. \A row \in FactRow : /\ [row EXCEPT !.del = r] \in FactRow
                           /\ [row EXCEPT !.del = r].st = row.st
                           /\ [row EXCEPT !.del = r].page = row.page
                           /\ [row EXCEPT !.del = r].by = row.by
                           /\ [row EXCEPT !.del = r].del = r
    BY DEF FactRow
<1> QED
    BY <1>1, <1>2 DEF Stamped

\* Steps that leave the rows alone and offer nothing new.
LEMMA RowsUnchanged ==
    ASSUME IInv, UNCHANGED <<rows, overtaken>>
    PROVE  RowsStand
BY DEF IInv, TypeOK, rows, RowsStand, Stands

LEMMA RetractKeeps ==
    ASSUME IInv, NEW pages \in SUBSET LivePages, NEW facts \in SUBSET UndeletedFacts,
           Retract(pages, facts)
    PROVE  IInv' /\ PointersStand
<1>1. /\ now + 1 \in Instants /\ now' = now + 1 /\ now + 1 > now /\ now \in Nat /\ cut \in Nat
      /\ now + 1 \in 0 .. MaxNow
      /\ page \in [Pages -> PageRow] /\ fact \in [Facts -> FactRow]
  <2>1. now < MaxNow /\ now' = now + 1
    BY DEF Retract
  <2> QED
    BY <2>1, ClockFacts DEF IInv, Instants
<1>2. page' = Stamped(page, pages, now + 1) /\ fact' = Stamped(fact, facts, now + 1)
      /\ UNCHANGED <<undo, cut, overtaken, flights>> /\ ledger' = ledger \cup {now + 1}
      /\ took' = [took EXCEPT ![now + 1] = [pages |-> pages, facts |-> facts]]
    BY DEF Retract
<1>3. /\ page' \in [Pages -> PageRow]
      /\ \A p \in Pages : /\ page'[p].st = page[p].st
                          /\ page'[p].del = IF p \in pages THEN now + 1 ELSE page[p].del
    BY <1>1, <1>2, StampedPages
<1>4. /\ fact' \in [Facts -> FactRow]
      /\ \A f \in Facts : /\ fact'[f].st = fact[f].st /\ fact'[f].page = fact[f].page
                          /\ fact'[f].by = fact[f].by
                          /\ fact'[f].del = IF f \in facts THEN now + 1 ELSE fact[f].del
    BY <1>1, <1>2, StampedFacts
<1>5. pages \subseteq Pages /\ facts \subseteq Facts
      /\ (\A p \in pages : page[p].st = "row") /\ \A f \in facts : fact[f].st = "row"
    BY DEF LivePages, PageRows, UndeletedFacts, FactRows
<1>6. took' \in [Instants -> [pages : SUBSET Pages, facts : SUBSET Facts]]
      /\ took'[now + 1] = [pages |-> pages, facts |-> facts]
      /\ \A r \in Instants : r # now + 1 => took'[r] = took[r]
    BY <1>1, <1>2, <1>5 DEF IInv, TypeOK
<1>7. TypeOK'
  <2>1. PageRows' = PageRows /\ FactRows' = FactRows
    BY <1>3, <1>4 DEF PageRows, FactRows
  <2>2. now' \in 0 .. MaxNow /\ undo' \in 0 .. now' /\ cut' \in 0 .. undo'
    BY <1>1, <1>2, ClockFacts DEF IInv, TypeOK
  <2>4. ledger' \subseteq 1 .. now'
    <3>1. ledger \subseteq 1 .. now /\ now + 1 \in 1 .. (now + 1)
      BY <1>1 DEF IInv, TypeOK
    <3>2. 1 .. now \subseteq 1 .. (now + 1)
      BY <1>1
    <3> QED
      BY <1>1, <1>2, <3>1, <3>2
  <2>3. restorer' \in [at : {"idle", "admitted", "restored"}, instant : 0 .. now']
    BY <1>1, <1>2, ClockFacts DEF IInv, TypeOK, flights
  <2>5. \A f \in FactRows' : fact'[f].page \in PageRows' /\ fact'[f].by \in FactRows' \cup {NoRow}
    BY <1>4, <2>1 DEF IInv, TypeOK, FactRows
  <2>6. writer' = writer /\ cycle' = cycle /\ overtaken' = overtaken
    BY <1>2 DEF flights
  <2> QED
    BY <1>3, <1>4, <1>6, <2>2, <2>3, <2>4, <2>5, <2>6 DEF IInv, TypeOK, PageRow, FactRow
<1>8. RowsStand
  <2>1. overtaken' = overtaken
    BY <1>2
  <2>2. \A p \in pages : page[p].del = Live
    BY DEF LivePages
  <2>3. \A f \in facts : fact[f].del = Live
    BY DEF UndeletedFacts
  <2> QED
    BY <1>3, <1>4, <2>1, <2>2, <2>3 DEF RowsStand, Stands
<1>9. OffersStand
  <2>1. ASSUME NEW r \in Instants, Offered(r)', r # now + 1
        PROVE  Offered(r) /\ took'[r] = took[r]
    BY <1>2, <1>6, <2>1 DEF Offered, flights
  <2>2. \A p \in pages : Recoverable(page'[p], now + 1)
    BY <1>1, <1>3, <1>5 DEF Recoverable
  <2>3. \A f \in facts : Recoverable(fact'[f], now + 1)
    BY <1>1, <1>4, <1>5 DEF Recoverable
  <2> QED
    BY <1>6, <2>1, <2>2, <2>3 DEF OffersStand
<1>10. InFlightOutlasts'
    BY <1>2 DEF IInv, InFlightOutlasts, flights
<1>11. PointersStand
    BY <1>4 DEF PointersStand
<1> QED
    BY <1>7, <1>8, <1>9, <1>10, <1>11, StepKeepsRows

LEMMA RetractionKeeps ==
    ASSUME IInv, Retraction
    PROVE  IInv' /\ PointersStand
<1>1. ASSUME NEW p \in Pages, ForgetDoc(p) PROVE IInv' /\ PointersStand
  <2>1. PICK facts \in Covered(FactsOn(p) \cap UndeletedFacts) : Retract({p} \cap LivePages, facts)
    BY <1>1 DEF ForgetDoc
  <2>2. facts \in SUBSET UndeletedFacts
    BY DEF Covered
  <2> QED
    BY <2>1, <2>2, RetractKeeps
<1>2. ASSUME NEW f \in Facts, ForgetFact(f) PROVE IInv' /\ PointersStand
    BY <1>2, RetractKeeps DEF ForgetFact
<1> QED
    BY <1>1, <1>2 DEF Retraction

LEMMA RestoreKeeps ==
    ASSUME IInv, Restore
    PROVE  IInv' /\ PointersStand
<1> DEFINE pages == {p \in PageRows : page[p].del = restorer.instant}
           facts == {f \in FactRows : fact[f].del = restorer.instant}
<1>1. /\ restorer.at = "admitted" /\ UNCHANGED <<clock, ledger, overtaken, writer, cycle>>
      /\ page' = Stamped(page, pages, Live) /\ fact' = Stamped(fact, facts, Live)
      /\ restorer' = [restorer EXCEPT !.at = "restored"]
      /\ took' = [took EXCEPT ![restorer.instant] = NothingTaken]
    BY DEF Restore
<1>2. page \in [Pages -> PageRow] /\ fact \in [Facts -> FactRow] /\ Live \in 0 .. MaxNow
    BY ClockFacts DEF IInv, Live
<1>3. /\ page' \in [Pages -> PageRow]
      /\ \A p \in Pages : /\ page'[p].st = page[p].st
                          /\ page'[p].del = page[p].del \/ page[p].del = restorer.instant
    BY <1>1, <1>2, StampedPages
<1>4. /\ fact' \in [Facts -> FactRow]
      /\ \A f \in Facts : /\ fact'[f].st = fact[f].st /\ fact'[f].page = fact[f].page
                          /\ fact'[f].by = fact[f].by
                          /\ fact'[f].del = fact[f].del \/ fact[f].del = restorer.instant
    BY <1>1, <1>2, StampedFacts
<1>5. restorer' \in [at : {"idle", "admitted", "restored"}, instant : 0 .. now]
      /\ restorer'.at = "restored" /\ restorer'.instant = restorer.instant
      /\ took' \in [Instants -> [pages : SUBSET Pages, facts : SUBSET Facts]]
      /\ took'[restorer.instant] = NothingTaken
      /\ \A r \in Instants : took'[r] \in {took[r], NothingTaken}
  <2>1. restorer.instant \in Instants
    BY <1>1, ClockFacts DEF IInv, InFlightOutlasts, TypeOK, Instants
  <2>2. NothingTaken \in [pages : SUBSET Pages, facts : SUBSET Facts]
    BY DEF NothingTaken
  <2> QED
    BY <1>1, <2>1, <2>2 DEF IInv, TypeOK
<1>6. TypeOK'
  <2>1. PageRows' = PageRows /\ FactRows' = FactRows
    BY <1>3, <1>4 DEF PageRows, FactRows
  <2>2. \A f \in FactRows' : fact'[f].page \in PageRows' /\ fact'[f].by \in FactRows' \cup {NoRow}
    BY <1>4, <2>1 DEF IInv, TypeOK, FactRows
  <2>3. UNCHANGED <<now, undo, cut, ledger, overtaken, writer, cycle>>
    BY <1>1 DEF clock
  <2> QED
    BY <1>3, <1>4, <1>5, <2>2, <2>3 DEF IInv, TypeOK, PageRow, FactRow
<1>7. RowsStand
    BY <1>1, <1>3, <1>4, <1>5 DEF RowsStand, Stands
<1>8. OffersStand
    BY <1>1, <1>5 DEF OffersStand, Offered, clock
<1>9. InFlightOutlasts'
    BY <1>1, <1>5 DEF IInv, InFlightOutlasts, clock
<1>10. PointersStand
    BY <1>4 DEF PointersStand
<1> QED
    BY <1>6, <1>7, <1>8, <1>9, <1>10, StepKeepsRows

\* The steps of an undo, of the sweep and of the clock that touch no row.
LEMMA TidyKeeps ==
    ASSUME IInv,
           \/ \E r \in Instants : Admit(r)
           \/ MarkRestored \/ RestorerDies \/ SweepRetractions \/ WindowCloses \/ CutoffMoves
    PROVE  IInv' /\ PointersStand
<1>1. UNCHANGED <<rows, overtaken>> /\ UNCHANGED <<writer, cycle, now>>
    BY DEF Unlist, records, Admit, MarkRestored, RestorerDies, SweepRetractions, WindowCloses, CutoffMoves,
           flights, clock
<1>2. RowsStand
    BY <1>1, RowsUnchanged
<1>3. PointersStand
    BY <1>1 DEF PointersStand, rows
<1>4. ASSUME NEW r \in Instants, Admit(r) PROVE TypeOK' /\ OffersStand /\ InFlightOutlasts'
  <2>1. r \in Nat /\ r > cut /\ r <= now
    BY <1>4, ClockFacts DEF IInv, TypeOK, Admit, Instants
  <2>2. TypeOK'
    BY <1>4, <2>1, ClockFacts DEF IInv, TypeOK, Admit, rows, clock, records, PageRows, FactRows
  <2>3. OffersStand
    BY <1>4 DEF Admit, OffersStand, Offered, clock, records, NoRestore
  <2> QED
    BY <1>4, <2>1, <2>2, <2>3 DEF Admit, InFlightOutlasts, clock
<1>5. ASSUME NEW gone \in SUBSET Instants, Unlist(gone), restorer' \in {restorer, NoRestore},
             UNCHANGED <<rows, clock, writer, cycle>>,
             \A r \in gone : restorer'.at = "admitted" => restorer'.instant # r
      PROVE  TypeOK' /\ OffersStand /\ InFlightOutlasts'
  <2>1. /\ ledger' \subseteq ledger
        /\ took' \in [Instants -> [pages : SUBSET Pages, facts : SUBSET Facts]]
        /\ \A r \in Instants : r \notin gone => took'[r] = took[r]
        /\ overtaken' = overtaken
    BY <1>5 DEF Unlist, NothingTaken, IInv, TypeOK
  <2>2. NoRestore \in [at : {"idle", "admitted", "restored"}, instant : 0 .. now]
    BY ClockFacts DEF IInv, NoRestore
  <2>3. TypeOK'
    BY <1>5, <2>1, <2>2 DEF IInv, TypeOK, rows, clock, PageRows, FactRows
  <2>4. OffersStand
    BY <1>5, <2>1 DEF OffersStand, Offered, clock, NoRestore, Unlist
  <2> QED
    BY <1>5, <2>3, <2>4 DEF IInv, InFlightOutlasts, clock, NoRestore
<1>6. CASE MarkRestored
  <2>1. Unlist({restorer.instant}) /\ restorer' = NoRestore /\ UNCHANGED <<rows, clock, writer, cycle>>
    BY <1>6 DEF MarkRestored
  <2>2. restorer.instant \in Instants
    BY <1>6, ClockFacts DEF MarkRestored, IInv, InFlightOutlasts, TypeOK, Instants
  <2> QED
    BY <1>2, <1>5, <1>3, <2>1, <2>2, StepKeepsRows DEF NoRestore
<1>7. CASE SweepRetractions
  <2>1. /\ Unlist({r \in ledger : r <= cut}) /\ UNCHANGED <<rows, clock, flights>>
    BY <1>7 DEF SweepRetractions
  <2>2. {r \in ledger : r <= cut} \in SUBSET Instants
    <3>1. ledger \subseteq 1 .. now /\ now \in Nat /\ MaxNow \in Nat /\ now <= MaxNow
      BY ClockFacts DEF IInv, TypeOK
    <3>2. \A r \in ledger : r \in Instants
      BY <3>1 DEF Instants
    <3> QED
      BY <3>2
  <2>3. \A r \in {q \in ledger : q <= cut} : restorer'.at = "admitted" => restorer'.instant # r
    BY <2>1, ClockFacts DEF IInv, InFlightOutlasts, flights, TypeOK
  <2> QED
    BY <1>2, <1>5, <1>3, <2>1, <2>2, <2>3, StepKeepsRows DEF flights
<1>8. CASE RestorerDies
  <2>1. TypeOK'
    BY <1>8, ClockFacts DEF IInv, TypeOK, RestorerDies, NoRestore, rows, clock, records, PageRows, FactRows
  <2>2. OffersStand /\ InFlightOutlasts'
    BY <1>8 DEF RestorerDies, OffersStand, Offered, InFlightOutlasts, NoRestore, clock, records
  <2> QED
    BY <1>2, <1>3, <2>1, <2>2, StepKeepsRows
<1>9. CASE WindowCloses \/ CutoffMoves
  <2>1. /\ undo' \in Nat /\ undo' >= undo /\ undo' <= now /\ cut' \in 0 .. undo'
        /\ UNCHANGED <<now, rows, records, flights>>
        /\ restorer.at # "idle" => restorer.instant > cut'
    BY <1>9, ClockFacts DEF IInv, InFlightOutlasts, WindowCloses, CutoffMoves, Outlasts
  <2>2. undo' \in 0 .. now'
    BY <2>1, ClockFacts DEF IInv
  <2>3. TypeOK'
    BY <2>1, <2>2 DEF IInv, TypeOK, rows, records, flights, PageRows, FactRows
  <2>4. \A r \in Instants : r > undo' => r > undo
    BY <2>1, ClockFacts DEF IInv, Instants
  <2>5. OffersStand
    BY <2>1, <2>4 DEF OffersStand, Offered, records, flights
  <2>6. InFlightOutlasts'
    BY <2>1 DEF InFlightOutlasts, flights
  <2> QED
    BY <1>2, <1>3, <2>3, <2>5, <2>6, StepKeepsRows
<1> QED
  <2>1. ASSUME NEW r \in Instants, Admit(r) PROVE IInv'
    BY <1>2, <1>4, <2>1, StepKeepsRows
  <2> QED
    BY <1>6, <1>7, <1>8, <1>9, <1>3, <2>1

\* A batch takes what is due, and the facts of the pages it takes.
LEMMA RunPurgeBatchKeeps ==
    ASSUME IInv, RunPurgeBatch
    PROVE  IInv' /\ PointersStand
<1>1. PICK pages \in SUBSET PageRows, facts \in SUBSET FactRows :
        /\ \A p \in pages : Due(page[p])
        /\ \A f \in facts : Due(fact[f])
        /\ page' = [p \in Pages |-> IF p \in pages THEN Erased(page[p]) ELSE page[p]]
        /\ fact' = [f \in Facts |->
                      IF f \in Removed(pages, facts) THEN [Erased(fact[f]) EXCEPT !.by = NoRow]
                      ELSE IF f \in Unpointed(pages, facts) THEN [fact[f] EXCEPT !.by = NoRow]
                      ELSE fact[f]]
  <2> DEFINE pages == Claimed(page, PageRows)
             facts == Claimed(fact, FactRows)
  <2>1. pages \in SUBSET PageRows /\ facts \in SUBSET FactRows
        /\ (\A p \in pages : Due(page[p])) /\ \A f \in facts : Due(fact[f])
    BY DEF Claimed, Expired, Due
  <2> QED
    BY <2>1 DEF RunPurgeBatch
<1>2. UNCHANGED <<clock, records, flights>>
    BY DEF RunPurgeBatch
<1>3. /\ page \in [Pages -> PageRow] /\ fact \in [Facts -> FactRow]
      /\ pages \subseteq Pages /\ facts \subseteq Facts
      /\ \A p \in pages : page[p].st = "row"
    BY <1>1, ClockFacts DEF IInv, PageRows, FactRows
<1>4. /\ page' \in [Pages -> PageRow]
      /\ \A p \in Pages : IF p \in pages THEN page'[p].st = "erased" ELSE page'[p] = page[p]
  <2>1. \A row \in PageRow : Erased(row) \in PageRow /\ Erased(row).st = "erased"
    <3>1. 0 \in 0 .. MaxNow
      BY ForgettingAssumption
    <3> QED
      BY <3>1 DEF Erased, PageRow, Live
  <2>2. \A p \in Pages : page[p] \in PageRow
    BY <1>3
  <2> QED
    BY <1>1, <1>3, <2>1, <2>2
<1>5. PICK gone : gone = Removed(pages, facts)
    OBVIOUS
<1>6. /\ gone = facts \cup {f \in FactRows : fact[f].page \in pages}
      /\ gone \subseteq FactRows /\ gone \subseteq Facts
    BY <1>1, <1>5 DEF Removed, FactRows
<1>7. /\ fact' \in [Facts -> FactRow]
      /\ \A f \in Facts :
           IF f \in gone THEN fact'[f].st = "erased" /\ fact'[f].page = fact[f].page /\ fact'[f].by = NoRow
           ELSE /\ fact'[f].st = fact[f].st /\ fact'[f].page = fact[f].page
                /\ fact'[f].del = fact[f].del
                /\ fact'[f].by = IF f \in FactRows /\ fact[f].by \in gone THEN NoRow ELSE fact[f].by
  <2>1. \A row \in FactRow : LET new == [Erased(row) EXCEPT !.by = NoRow] IN
           new \in FactRow /\ new.st = "erased" /\ new.page = row.page /\ new.by = NoRow
    <3>1. 0 \in 0 .. MaxNow
      BY ForgettingAssumption
    <3> QED
      BY <3>1 DEF Erased, FactRow, Live
  <2>2. \A row \in FactRow : LET new == [row EXCEPT !.by = NoRow] IN
           new \in FactRow /\ new.st = row.st /\ new.page = row.page /\ new.del = row.del /\ new.by = NoRow
    BY DEF FactRow
  <2>3. \A f \in Facts : fact[f] \in FactRow
    BY <1>3
  <2>4. \A f \in Facts : fact'[f] =
                      IF f \in gone THEN [Erased(fact[f]) EXCEPT !.by = NoRow]
                      ELSE IF f \in FactRows /\ fact[f].by \in gone THEN [fact[f] EXCEPT !.by = NoRow]
                      ELSE fact[f]
    BY <1>1, <1>5 DEF Unpointed
  <2>5. fact' = [f \in Facts |->
                      IF f \in gone THEN [Erased(fact[f]) EXCEPT !.by = NoRow]
                      ELSE IF f \in FactRows /\ fact[f].by \in gone THEN [fact[f] EXCEPT !.by = NoRow]
                      ELSE fact[f]]
    BY <1>1, <1>5 DEF Unpointed
  <2>6. fact' \in [Facts -> FactRow]
    BY <2>1, <2>2, <2>3, <2>5
  <2>7. ASSUME NEW f \in Facts, f \in gone
        PROVE  fact'[f].st = "erased" /\ fact'[f].page = fact[f].page /\ fact'[f].by = NoRow
    BY <2>1, <2>3, <2>4, <2>7
  <2>8. ASSUME NEW f \in Facts, f \notin gone
        PROVE  /\ fact'[f].st = fact[f].st /\ fact'[f].page = fact[f].page
               /\ fact'[f].del = fact[f].del
               /\ fact'[f].by = IF f \in FactRows /\ fact[f].by \in gone THEN NoRow ELSE fact[f].by
    <3>1. CASE f \in FactRows /\ fact[f].by \in gone
      <4>1. fact'[f] = [fact[f] EXCEPT !.by = NoRow]
        BY <2>4, <2>8, <3>1
      <4> QED
        BY <2>2, <2>3, <3>1, <4>1
    <3>2. CASE ~(f \in FactRows /\ fact[f].by \in gone)
      BY <2>4, <2>8, <3>2
    <3> QED
      BY <3>1, <3>2
  <2> QED
    BY <2>6, <2>7, <2>8
<1>8. FactRows' = FactRows \ gone /\ PageRows' = PageRows \ pages
    BY <1>4, <1>6, <1>7 DEF FactRows, PageRows
<1>9. \A f \in FactRows' : fact'[f].page \in PageRows' /\ fact'[f].by \in FactRows' \cup {NoRow}
    BY <1>6, <1>7, <1>8 DEF IInv, TypeOK, FactRows
<1>10. TypeOK'
  <2>1. UNCHANGED <<now, undo, cut, ledger, took, overtaken, restorer, writer, cycle>>
    BY <1>2 DEF clock, records, flights
  <2> QED
    BY <1>4, <1>7, <1>9, <2>1 DEF IInv, TypeOK, PageRow, FactRow
<1>11. RowsStand
  <2>1. \A f \in Facts : fact[f].st = "none" => fact'[f].st # "erased"
    BY <1>6, <1>7 DEF FactRows
  <2>2. \A p \in pages : page'[p].st = "erased"
    BY <1>3, <1>4
  <2> QED
    BY <1>1, <1>2, <1>3, <1>4, <1>6, <1>7, <2>1, <2>2 DEF RowsStand, Stands, FactRows, records
<1>12. OffersStand /\ InFlightOutlasts'
    BY <1>2 DEF IInv, InFlightOutlasts, OffersStand, Offered, clock, records, flights
<1>13. PointersStand
    BY <1>6, <1>7 DEF PointersStand
<1> QED
    BY <1>10, <1>11, <1>12, <1>13, StepKeepsRows

\* What is read before a transaction, or given up.
LEMMA ReadingKeeps ==
    ASSUME IInv,
           \/ \E p \in Pages : ReadPage(p) \/ SelectCandidate(p)
           \/ \E m \in Facts \cup {NoRow} : Classify(m)
           \/ \E keeper, loser \in Facts : ReadDuplicates(keeper, loser)
           \/ WriteFails \/ PhaseFails
    PROVE  IInv' /\ PointersStand
<1> DEFINE ReadsTyped ==
             /\ writer' \in [at : {"idle", "read", "classified"}, replaces : Pages \cup {NoRow},
                            matched : Facts \cup {NoRow}]
             /\ cycle' \in [at : {"idle", "extract", "dedup"}, page : Pages \cup {NoRow},
                           keeper : Facts \cup {NoRow}, loser : Facts \cup {NoRow}]
<1>1. UNCHANGED <<page, fact, now, undo, cut, ledger, took, overtaken, restorer>>
    BY DEF ReadPage, SelectCandidate, Classify, ReadDuplicates, WriteFails, PhaseFails,
           rows, clock, records
<1>2. ReadsTyped
  <2>1. ASSUME NEW p \in Pages, ReadPage(p) PROVE ReadsTyped
    BY <2>1 DEF ReadPage, NoWrite, IInv, TypeOK
  <2>2. ASSUME NEW m \in Facts \cup {NoRow}, Classify(m) PROVE ReadsTyped
    BY <2>2 DEF Classify, IInv, TypeOK
  <2>3. ASSUME NEW p \in Pages, SelectCandidate(p) PROVE ReadsTyped
    BY <2>3 DEF SelectCandidate, NoCycle, IInv, TypeOK
  <2>4. ASSUME NEW keeper \in Facts, NEW loser \in Facts, ReadDuplicates(keeper, loser) PROVE ReadsTyped
    BY <2>4 DEF ReadDuplicates, NoCycle, IInv, TypeOK
  <2>5. CASE WriteFails \/ PhaseFails
    BY <2>5 DEF WriteFails, PhaseFails, NoWrite, NoCycle, IInv, TypeOK
  <2> QED
    BY <2>1, <2>2, <2>3, <2>4, <2>5
<1>3. TypeOK'
    BY <1>1, <1>2 DEF IInv, TypeOK, PageRows, FactRows
<1>4. RowsStand
    BY <1>1, RowsUnchanged DEF rows
<1>5. OffersStand /\ InFlightOutlasts'
    BY <1>1 DEF IInv, OffersStand, Offered, InFlightOutlasts
<1>6. PointersStand
    BY <1>1 DEF PointersStand
<1> QED
    BY <1>3, <1>4, <1>5, <1>6, StepKeepsRows

LEMMA InsertExtractedKeeps ==
    ASSUME IInv, NEW f \in Facts, InsertExtracted(f)
    PROVE  IInv' /\ PointersStand
<1>1. PICK new : new = [st |-> "row", page |-> cycle.page, del |-> Live, by |-> NoRow]
    OBVIOUS
<1>2. /\ cycle.page \in PageRows /\ fact[f].st = "none"
      /\ fact' = [fact EXCEPT ![f] = new] /\ cycle' = NoCycle
      /\ UNCHANGED <<page, now, undo, cut, ledger, took, overtaken, restorer, writer>>
    BY <1>1 DEF InsertExtracted, NextFact, clock, records
<1>3. new \in FactRow /\ new.st = "row" /\ new.page = cycle.page /\ new.by = NoRow
  <2>1. 0 \in 0 .. MaxNow
    BY ForgettingAssumption
  <2> QED
    BY <1>1, <1>2, <2>1 DEF FactRow, PageRows, Live
<1>4. /\ fact \in [Facts -> FactRow] /\ fact' \in [Facts -> FactRow] /\ fact'[f] = new
      /\ \A k \in Facts : k # f => fact'[k] = fact[k]
    BY <1>2, <1>3, ClockFacts DEF IInv
<1>5. FactRows' = FactRows \cup {f} /\ PageRows' = PageRows
    BY <1>2, <1>3, <1>4 DEF FactRows, PageRows
<1>6. \A k \in FactRows' : fact'[k].page \in PageRows' /\ fact'[k].by \in FactRows' \cup {NoRow}
    BY <1>2, <1>3, <1>4, <1>5 DEF IInv, TypeOK, FactRows
<1>7. TypeOK'
    BY <1>2, <1>4, <1>6 DEF IInv, TypeOK, FactRow, NoCycle
<1>8. RowsStand
    BY <1>2, <1>3, <1>4 DEF RowsStand, Stands
<1>9. OffersStand /\ InFlightOutlasts'
    BY <1>2 DEF IInv, OffersStand, Offered, InFlightOutlasts
<1>10. PointersStand
    BY <1>2, <1>4 DEF PointersStand
<1> QED
    BY <1>7, <1>8, <1>9, <1>10, StepKeepsRows

\* Pointing facts at a successor leaves everything else of them.
Repointed(t, keys, g) == [k \in Facts |-> IF k \in keys THEN [t[k] EXCEPT !.by = g] ELSE t[k]]

LEMMA RepointedFacts ==
    ASSUME NEW t \in [Facts -> FactRow], NEW keys, NEW g, keys # {} => g \in Facts
    PROVE  /\ Repointed(t, keys, g) \in [Facts -> FactRow]
           /\ \A k \in Facts : /\ Repointed(t, keys, g)[k].st = t[k].st
                               /\ Repointed(t, keys, g)[k].page = t[k].page
                               /\ Repointed(t, keys, g)[k].del = t[k].del
                               /\ Repointed(t, keys, g)[k].by = IF k \in keys THEN g ELSE t[k].by
<1>1. ASSUME NEW k \in Facts, k \in keys
      PROVE  LET new == [t[k] EXCEPT !.by = g] IN
             new \in FactRow /\ new.st = t[k].st /\ new.page = t[k].page /\ new.del = t[k].del /\ new.by = g
  <2>1. t[k] \in FactRow /\ g \in Facts
    BY <1>1
  <2> QED
    BY <2>1 DEF FactRow
<1>2. \A k \in Facts : t[k] \in FactRow
    OBVIOUS
<1>3. Repointed(t, keys, g) \in [Facts -> FactRow]
    BY <1>1, <1>2 DEF Repointed
<1>4. \A k \in Facts : Repointed(t, keys, g)[k] = IF k \in keys THEN [t[k] EXCEPT !.by = g] ELSE t[k]
    BY DEF Repointed
<1> QED
    BY <1>1, <1>3, <1>4

LEMMA CollapseKeeps ==
    ASSUME IInv, Collapse
    PROVE  IInv' /\ PointersStand
<1>1. PICK loses : loses = {f \in FactRows \cap {cycle.loser} : fact[f].by = NoRow}
    OBVIOUS
<1>2. /\ loses # {} => cycle.keeper \in FactRows
      /\ fact' = Repointed(fact, loses, cycle.keeper) /\ cycle' = NoCycle
      /\ UNCHANGED <<page, now, undo, cut, ledger, took, overtaken, restorer, writer>>
    BY <1>1 DEF Collapse, Repointed, clock, records
<1>3. fact \in [Facts -> FactRow] /\ (loses # {} => cycle.keeper \in Facts) /\ loses \subseteq FactRows
    BY <1>1, <1>2, ClockFacts DEF IInv, FactRows
<1>4. /\ fact' \in [Facts -> FactRow]
      /\ \A k \in Facts : /\ fact'[k].st = fact[k].st /\ fact'[k].page = fact[k].page
                          /\ fact'[k].del = fact[k].del
                          /\ fact'[k].by = IF k \in loses THEN cycle.keeper ELSE fact[k].by
    BY <1>2, <1>3, RepointedFacts
<1>5. FactRows' = FactRows /\ PageRows' = PageRows
    BY <1>2, <1>4 DEF FactRows, PageRows
<1>6. \A k \in FactRows' : fact'[k].page \in PageRows' /\ fact'[k].by \in FactRows' \cup {NoRow}
    BY <1>2, <1>4, <1>5 DEF IInv, TypeOK, FactRows
<1>7. TypeOK'
    BY <1>2, <1>4, <1>6 DEF IInv, TypeOK, FactRow, NoCycle
<1>8. RowsStand
    BY <1>2, <1>4 DEF RowsStand, Stands
<1>9. OffersStand /\ InFlightOutlasts'
    BY <1>2 DEF IInv, OffersStand, Offered, InFlightOutlasts
<1>10. PointersStand
    BY <1>1, <1>4 DEF PointersStand
<1> QED
    BY <1>7, <1>8, <1>9, <1>10, StepKeepsRows

\* A rewrite stamps the old page and its facts with an instant of its own.
LEMMA CommitWriteKeeps ==
    ASSUME IInv, NEW p \in Pages, NEW f \in Facts \cup {NoRow}, CommitWrite(p, f)
    PROVE  IInv' /\ PointersStand
<1> DEFINE old == writer.replaces
           at == IF old = NoRow THEN now ELSE now + 1
           lost == {k \in FactRows \cap {writer.matched} : fact[k].by = NoRow}
           facts == IF f = NoRow THEN fact ELSE Superseding(writer.matched, f)
           kept == Stamped(facts, FactsOn(old) \cap UndeletedFacts, at)
           new == [st |-> "row", page |-> p, del |-> Live, by |-> NoRow]
           stamped == Stamped(page, Retired(old), at)
<1>1. /\ at <= MaxNow /\ page[p].st = "none" /\ (f # NoRow => fact[f].st = "none")
      /\ page' = [stamped EXCEPT ![p] = [st |-> "row", del |-> Live]]
      /\ fact' = IF f = NoRow THEN kept ELSE [kept EXCEPT ![f] = new]
      /\ now' = at /\ writer' = NoWrite
      /\ overtaken' = overtaken \cup (Retired(old) \ LivePages)
      /\ UNCHANGED <<undo, cut, ledger, took, restorer, cycle>>
    BY DEF CommitWrite, NextPage, NextFact
<1>2. /\ page \in [Pages -> PageRow] /\ fact \in [Facts -> FactRow]
      /\ at \in 0 .. MaxNow /\ now \in Nat /\ now <= at /\ 0 \in 0 .. MaxNow
      /\ NoRow \notin Pages /\ NoRow \notin Facts
      /\ old # NoRow => at > now
    BY <1>1, ClockFacts DEF IInv, NoRow, Pages, Facts
<1>3. /\ facts \in [Facts -> FactRow]
      /\ \A k \in Facts : /\ facts[k].st = fact[k].st /\ facts[k].page = fact[k].page
                          /\ facts[k].del = fact[k].del
                          /\ facts[k].by = IF f # NoRow /\ k \in lost THEN f ELSE fact[k].by
  <2>1. CASE f = NoRow
    BY <1>2, <2>1
  <2>2. CASE f # NoRow
    <3>1. facts = Repointed(fact, lost, f)
      BY <2>2 DEF Superseding, Repointed
    <3> HIDE DEF lost, facts
    <3> QED
      BY <1>2, <2>2, <3>1, RepointedFacts
  <2> QED
    BY <2>1, <2>2
<1>4. /\ kept \in [Facts -> FactRow]
      /\ \A k \in Facts : /\ kept[k].st = facts[k].st /\ kept[k].page = facts[k].page
                          /\ kept[k].by = facts[k].by
                          /\ kept[k].del = IF k \in FactsOn(old) \cap UndeletedFacts THEN at ELSE facts[k].del
  <2> HIDE DEF facts, at
  <2> QED
    BY <1>2, <1>3, StampedFacts
<1>5. /\ stamped \in [Pages -> PageRow]
      /\ \A q \in Pages : /\ stamped[q].st = page[q].st
                          /\ stamped[q].del = IF q \in Retired(old) THEN at ELSE page[q].del
  <2> HIDE DEF at
  <2> QED
    BY <1>2, StampedPages
<1>6. /\ page' \in [Pages -> PageRow] /\ page'[p].st = "row"
      /\ \A q \in Pages : q # p => /\ page'[q].st = page[q].st
                                   /\ page'[q].del = IF q \in Retired(old) THEN at ELSE page[q].del
  <2> HIDE DEF stamped, at
  <2>1. [st |-> "row", del |-> Live] \in PageRow
    BY <1>2 DEF PageRow, Live
  <2> QED
    BY <1>1, <1>5, <2>1
<1>7. new \in FactRow
    BY <1>2 DEF FactRow, Live
<1>8. /\ fact' \in [Facts -> FactRow]
      /\ f # NoRow => fact'[f] = new
      /\ \A k \in Facts : k # f => fact'[k] = kept[k]
  <2> HIDE DEF kept, new
  <2> QED
    BY <1>1, <1>4, <1>7
<1>9. PageRows' = PageRows \cup {p}
    BY <1>1, <1>6 DEF PageRows
<1>10. FactRows' = FactRows \cup ({f} \ {NoRow})
  <2> HIDE DEF kept, facts, lost
  <2> QED
    BY <1>1, <1>2, <1>3, <1>4, <1>8 DEF FactRows
<1>11. \A k \in FactRows' : fact'[k].page \in PageRows' /\ fact'[k].by \in FactRows' \cup {NoRow}
  <2> SUFFICES ASSUME NEW k \in FactRows'
               PROVE  fact'[k].page \in PageRows' /\ fact'[k].by \in FactRows' \cup {NoRow}
    OBVIOUS
  <2>1. CASE k = f
    BY <1>2, <1>8, <1>9, <2>1 DEF FactRows
  <2>2. CASE k # f
    <3> HIDE DEF kept, facts, lost
    <3>1. k \in FactRows /\ k \in Facts
      BY <1>10, <2>2 DEF FactRows
    <3>2. fact'[k].page = fact[k].page /\ fact'[k].by \in {f, fact[k].by}
      BY <1>3, <1>4, <1>8, <2>2, <3>1
    <3> QED
      BY <1>9, <1>10, <3>1, <3>2 DEF IInv, TypeOK
  <2> QED
    BY <2>1, <2>2
<1>12. TypeOK'
  <2> HIDE DEF kept, facts, lost, new, stamped
  <2>1. /\ now' \in 0 .. MaxNow /\ undo' \in 0 .. now' /\ cut' \in 0 .. undo'
        /\ restorer' \in [at : {"idle", "admitted", "restored"}, instant : 0 .. now']
    BY <1>1, <1>2, ClockFacts DEF IInv, TypeOK
  <2>2. ledger' \subseteq 1 .. now'
    <3>1. ledger \subseteq 1 .. now /\ 1 .. now \subseteq 1 .. at
      BY <1>2 DEF IInv, TypeOK
    <3> QED
      BY <1>1, <3>1
  <2>3. writer' \in [at : {"idle", "read", "classified"}, replaces : Pages \cup {NoRow},
                     matched : Facts \cup {NoRow}]
    BY <1>1 DEF NoWrite
  <2>4. overtaken' \subseteq Pages
    BY <1>1 DEF IInv, TypeOK, Retired, PageRows
  <2> QED
    BY <1>1, <1>6, <1>8, <1>11, <2>1, <2>2, <2>3, <2>4 DEF IInv, TypeOK, PageRow, FactRow
<1>13. RowsStand
  <2>1. ASSUME NEW q \in Pages, page[q].st # "none"
        PROVE  /\ page'[q].st = page[q].st
               /\ page'[q].del = page[q].del \/ page[q].del = Live \/ q \in overtaken'
    <3> HIDE DEF stamped, at
    <3>1. q # p
      BY <1>1, <2>1
    <3>2. q \in Retired(old) => page[q].del = Live \/ q \in overtaken'
      BY <1>1 DEF Retired, LivePages
    <3> QED
      BY <1>6, <3>1, <3>2
  <2>2. ASSUME NEW k \in Facts, fact[k].st # "none"
        PROVE  /\ fact'[k].st = fact[k].st /\ fact'[k].page = fact[k].page
               /\ fact'[k].del = fact[k].del \/ fact[k].del = Live
    <3>1. k # f
      BY <1>1, <1>2, <2>2
    <3>2. k \in UndeletedFacts => fact[k].del = Live
      BY DEF UndeletedFacts
    <3> HIDE DEF kept, facts, lost, at
    <3> QED
      BY <1>3, <1>4, <1>8, <3>1, <3>2
  <2>3. ASSUME NEW k \in Facts, fact[k].st = "none" PROVE fact'[k].st # "erased"
    <3> HIDE DEF kept, facts, lost, at
    <3>1. CASE k = f
      BY <1>2, <1>8, <3>1
    <3>2. CASE k # f
      BY <1>3, <1>4, <1>8, <2>3, <3>2
    <3> QED
      BY <3>1, <3>2
  <2> QED
    BY <1>1, <2>1, <2>2, <2>3 DEF RowsStand, Stands
<1>14. OffersStand /\ InFlightOutlasts'
    BY <1>1 DEF IInv, OffersStand, Offered, InFlightOutlasts
<1>15. PointersStand
  <2> SUFFICES ASSUME NEW k \in Facts, fact[k].st = "row"
               PROVE  fact'[k].by = fact[k].by \/ fact[k].by = NoRow
    BY DEF PointersStand
  <2>1. k # f /\ (k \in lost => fact[k].by = NoRow)
    BY <1>1, <1>2
  <2> HIDE DEF kept, facts, lost
  <2> QED
    BY <1>3, <1>4, <1>8, <2>1
<1> QED
    BY <1>12, <1>13, <1>14, <1>15, StepKeepsRows

-----------------------------------------------------------------------------
(* The invariant, and what it proves.                                      *)

LEMMA Initially ==
    ASSUME Init
    PROVE  IInv
<1>1. /\ \A p \in Pages : page[p].st = "none"
      /\ \A f \in Facts : fact[f].st = "none"
      /\ ledger = {} /\ restorer.at = "idle"
    BY DEF Init, NoRestore
<1>2. 0 \in 0 .. MaxNow /\ 0 \in 0 .. 0
    BY ForgettingAssumption
<1>3. PageRows = {} /\ FactRows = {}
    BY <1>1 DEF PageRows, FactRows
<1>4. TypeOK
    BY <1>2, <1>3 DEF Init, TypeOK, Live, NothingTaken, NoRestore, NoWrite, NoCycle
<1>5. UndoFindsItsRows /\ InFlightOutlasts /\ OnAPage /\ TookFacts
    BY <1>1 DEF UndoFindsItsRows, Offered, InFlightOutlasts, OnAPage, TookFacts
<1> QED
    BY <1>4, <1>5 DEF IInv

LEMMA StutterKeeps ==
    ASSUME IInv, UNCHANGED vars
    PROVE  IInv' /\ PointersStand
BY DEF IInv, TypeOK, PageRows, FactRows, UndoFindsItsRows, Offered, InFlightOutlasts, OnAPage,
       TookFacts, PointersStand, vars

LEMMA StepKeeps ==
    ASSUME IInv, [Next]_vars
    PROVE  IInv' /\ PointersStand
<1>1. CASE UNCHANGED vars
    BY <1>1, StutterKeeps
<1>2. CASE Retraction
    BY <1>2, RetractionKeeps
<1>3. CASE Undo
    BY <1>3, RestoreKeeps, TidyKeeps DEF Undo
<1>4. CASE Purge
    BY <1>4, RunPurgeBatchKeeps, TidyKeeps DEF Purge
<1>5. CASE Writing
    BY <1>5, ReadingKeeps, CommitWriteKeeps DEF Writing
<1>6. CASE Consolidation
    BY <1>6, ReadingKeeps, InsertExtractedKeeps, CollapseKeeps DEF Consolidation
<1>7. CASE WindowCloses \/ CutoffMoves
    BY <1>7, TidyKeeps
<1> QED
    BY <1>1, <1>2, <1>3, <1>4, <1>5, <1>6, <1>7 DEF Next

\* The inductive invariant.
THEOREM Invariance == Spec => []IInv
BY Initially, StepKeeps, PTL DEF Spec

\* Types hold in every reachable state, and with them the two foreign keys of
\* v2-knowledge-core.sql: a fact's page and its successor have a row.
THEOREM TypeCorrect == Spec => []TypeOK
<1>1. IInv => TypeOK
    BY DEF IInv
<1> QED
    BY <1>1, Invariance, PTL

\* What restoreForgotten promises inside its window: whatever is written, purged,
\* collapsed or rewritten meanwhile, the rows a retraction took and no undo has
\* returned carry its instant, but for a page that a rewrite retired after it was
\* forgotten and a fact whose own page went first.
THEOREM UndoIsComplete == Spec => []UndoFindsItsRows
<1>1. IInv => UndoFindsItsRows
    BY DEF IInv
<1> QED
    BY <1>1, Invariance, PTL

\* The batch of purgeExpiredTombstones clears a pointer only as it erases its
\* target, and a supersession is never overwritten: no superseded fact becomes
\* current again while its successor has a row.
THEOREM PointersLast == Spec => PointersOutliveTheirTarget
<1>1. IInv /\ [Next]_vars =>
        [\A f \in Facts : fact[f].st = "row" /\ fact'[f].st = "row" /\ fact'[f].by # fact[f].by
           => fact[f].by = NoRow \/ fact'[fact[f].by].st = "erased"]_vars
    BY StepKeeps DEF PointersStand
<1> QED
    BY <1>1, Invariance, PTL DEF Spec, PointersOutliveTheirTarget
=============================================================================
