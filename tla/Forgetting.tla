----------------------------- MODULE Forgetting -----------------------------
(***************************************************************************)
(* Retraction, its undo and the purge (mcp/tombstone.ts), and the writes    *)
(* that meet them in a tenant's database: documents rewritten               *)
(* (core/write/write-path.ts), facts extracted from a page by a model and   *)
(* duplicate facts collapsed (worker/consolidate/).                         *)
(*                                                                          *)
(* Two tables stand for the seven that are tombstoned: page, and fact,      *)
(* which references its page ON DELETE CASCADE and another fact through     *)
(* superseded_by with no action (v2-knowledge-core.sql). A transaction is   *)
(* one step; what is read before one opens is a step of its own. Every live *)
(* page is the document of a reference of its own.                          *)
(*                                                                          *)
(* A tombstone is the instant of the retraction that set it, and no two     *)
(* retractions share an instant. The clock enters through two marks:        *)
(* instants up to undo are past their 72 hours and cannot be taken back,    *)
(* instants up to cut are past the grace band too and may be purged.        *)
(***************************************************************************)
EXTENDS Integers, FiniteSets

CONSTANTS
  MaxPage,   \* bound: pages ever written
  MaxFact,   \* bound: facts ever written
  MaxNow,    \* bound: instants at which something is retracted or rewritten
  Batch,     \* rowsPerBatch: roots of each kind that one purge batch claims
  Partial    \* whether a grant may cover a page and not all of its facts

ASSUME ForgettingAssumption ==
  /\ {MaxPage, MaxFact, MaxNow} \subseteq Nat
  /\ Batch \in Nat \ {0}
  /\ Partial \in BOOLEAN

VARIABLES
  page,      \* the page rows
  fact,      \* the fact rows
  now,       \* the last instant used
  undo,      \* instants up to here are past FORGET_TTL_HOURS
  cut,       \* the purge's cutoff: past PURGE_GRACE_HOURS as well
  ledger,    \* the instants with a row in the retraction table
  took,      \* history: the rows each retraction with a ledger row has to give back
  overtaken, \* history: the pages a rewrite retired after they were forgotten
  restorer,  \* the undo in flight
  writer,    \* what the document write in flight has read
  cycle      \* what the consolidation phase in flight has read

vars == <<page, fact, now, undo, cut, ledger, took, overtaken, restorer, writer, cycle>>
rows == <<page, fact>>
clock == <<now, undo, cut>>
records == <<ledger, took, overtaken>>
flights == <<restorer, writer, cycle>>

Pages == 1 .. MaxPage
Facts == 1 .. MaxFact
Instants == 1 .. MaxNow
NoRow == 0
Live == 0    \* deleted_at IS NULL

NothingTaken == [pages |-> {}, facts |-> {}]
NoRestore == [at |-> "idle", instant |-> 0]
NoWrite == [at |-> "idle", replaces |-> NoRow, matched |-> NoRow]
NoCycle == [at |-> "idle", page |-> NoRow, keeper |-> NoRow, loser |-> NoRow]

Init ==
  /\ page = [p \in Pages |-> [st |-> "none", del |-> Live]]
  /\ fact = [f \in Facts |-> [st |-> "none", page |-> NoRow, del |-> Live, by |-> NoRow]]
  /\ now = 0 /\ undo = 0 /\ cut = 0
  /\ ledger = {}
  /\ took = [r \in Instants |-> NothingTaken] /\ overtaken = {}
  /\ restorer = NoRestore /\ writer = NoWrite /\ cycle = NoCycle

-----------------------------------------------------------------------------
PageRows == {p \in Pages : page[p].st = "row"}
FactRows == {f \in Facts : fact[f].st = "row"}
LivePages == {p \in PageRows : page[p].del = Live}
UndeletedFacts == {f \in FactRows : fact[f].del = Live}
LiveFacts == {f \in UndeletedFacts : fact[f].by = NoRow}
FactsOn(p) == {f \in FactRows : fact[f].page = p}

(* The next identity a table's sequence gives out.                          *)
NextPage(p) == page[p].st = "none" /\ \A q \in Pages : q < p => page[q].st # "none"
NextFact(f) == fact[f].st = "none" /\ \A g \in Facts : g < f => fact[g].st # "none"

Stamped(table, keys, r) == [k \in DOMAIN table |->
                              IF k \in keys THEN [table[k] EXCEPT !.del = r] ELSE table[k]]

-----------------------------------------------------------------------------
(* Time passes: the window of a retraction closes, and a grace band later   *)
(* its rows become purgeable. The two clocks are hours; an undo that was    *)
(* admitted ends well within the band, and a write within the window, so    *)
(* neither is in flight when what it is about to stamp falls due.           *)
WindowCloses ==
  /\ undo < now /\ undo' = undo + 1
  /\ UNCHANGED <<rows, now, cut, records, flights>>

(* mutant of Outlasts: the purge takes what has just left its window        *)
OutlastsWithoutGrace(r) == writer.replaces # NoRow => page[writer.replaces].del # r

Outlasts(r) ==
  /\ restorer.at # "idle" => restorer.instant > r
  /\ writer.replaces # NoRow => page[writer.replaces].del # r

CutoffMoves ==
  /\ cut < undo /\ Outlasts(cut + 1) /\ cut' = cut + 1
  /\ UNCHANGED <<rows, now, undo, records, flights>>

-----------------------------------------------------------------------------
(* forgetRecord: the rows still standing are stamped and the ledger row is  *)
(* written in one transaction, also when nothing was left to stamp. A page  *)
(* is stamped whatever its facts, a fact only where the grant covers it.    *)
(* Facts are on one page each: those reached through the chunks of another  *)
(* (fact_source), and those on none, are left out.                          *)
Covered(facts) == IF Partial THEN SUBSET facts ELSE {facts}

Retract(pages, facts) ==
  /\ now < MaxNow
  /\ now' = now + 1
  /\ page' = Stamped(page, pages, now + 1)
  /\ fact' = Stamped(fact, facts, now + 1)
  /\ ledger' = ledger \cup {now + 1}
  /\ took' = [took EXCEPT ![now + 1] = [pages |-> pages, facts |-> facts]]
  /\ UNCHANGED <<undo, cut, overtaken, flights>>

ForgetDoc(p) ==
  /\ p \in PageRows
  /\ \E facts \in Covered(FactsOn(p) \cap UndeletedFacts) : Retract({p} \cap LivePages, facts)

ForgetFact(f) == f \in FactRows /\ Retract({}, {f} \cap UndeletedFacts)

-----------------------------------------------------------------------------
(* restoreForgotten, behind the membership test of the restore surface: the *)
(* window is tested first, then every row that carries the instant is taken *)
(* back in one transaction. The ledger row goes in a step of its own.       *)
Admit(r) ==
  /\ restorer = NoRestore
  /\ r \in ledger /\ r > undo
  /\ restorer' = [at |-> "admitted", instant |-> r]
  /\ UNCHANGED <<rows, clock, records, writer, cycle>>

Restore ==
  /\ restorer.at = "admitted"
  /\ page' = Stamped(page, {p \in PageRows : page[p].del = restorer.instant}, Live)
  /\ fact' = Stamped(fact, {f \in FactRows : fact[f].del = restorer.instant}, Live)
  /\ took' = [took EXCEPT ![restorer.instant] = NothingTaken]
  /\ restorer' = [restorer EXCEPT !.at = "restored"]
  /\ UNCHANGED <<clock, ledger, overtaken, writer, cycle>>

Unlist(instants) ==
  /\ ledger' = ledger \ instants
  /\ took' = [r \in Instants |-> IF r \in instants THEN NothingTaken ELSE took[r]]
  /\ UNCHANGED overtaken

MarkRestored ==
  /\ restorer.at = "restored"
  /\ Unlist({restorer.instant})
  /\ restorer' = NoRestore
  /\ UNCHANGED <<rows, clock, writer, cycle>>

RestorerDies ==
  /\ restorer.at # "idle" /\ restorer' = NoRestore
  /\ UNCHANGED <<rows, clock, records, writer, cycle>>

-----------------------------------------------------------------------------
(* purgeExpiredTombstones: each batch claims the oldest expired rows of     *)
(* each kind, clears the pointers into what it is about to remove and       *)
(* deletes, in one transaction. A page takes its facts with it. A deleted   *)
(* fact that something still points at fails the foreign key, and the batch *)
(* with it. The ledger is swept up to the same cutoff after the batches.    *)
Expired(table, keys) == {k \in keys : table[k].del # Live /\ table[k].del <= cut}

Claimed(table, keys) ==
  LET Before(j, k) == \/ table[j].del < table[k].del
                      \/ table[j].del = table[k].del /\ j < k
      expired == Expired(table, keys)
  IN {k \in expired : Cardinality({j \in expired : Before(j, k)}) < Batch}

(* mutant of Removed: a page that goes leaves its facts behind              *)
RemovedWithoutCascade(pages, facts) == facts

Removed(pages, facts) == facts \cup {f \in FactRows : fact[f].page \in pages}

(* mutants of Unpointed: only the pointers into the facts that were claimed *)
(* are cleared; those into every fact that will ever be removed are         *)
UnpointedIfClaimed(pages, facts) == {f \in FactRows : fact[f].by \in facts}
UnpointedIfDoomed(pages, facts) ==
  {f \in FactRows : fact[f].by \in Removed(Expired(page, PageRows), Expired(fact, FactRows))}

Unpointed(pages, facts) == {f \in FactRows : fact[f].by \in Removed(pages, facts)}

Erased(row) == [row EXCEPT !.st = "erased", !.del = Live]

RunPurgeBatch ==
  LET pages == Claimed(page, PageRows)
      facts == Claimed(fact, FactRows)
      gone == Removed(pages, facts)
      cleared == Unpointed(pages, facts)
  IN /\ pages \cup facts # {}
     /\ \A f \in (FactRows \ gone) \ cleared : fact[f].by \notin gone
     /\ page' = [p \in Pages |-> IF p \in pages THEN Erased(page[p]) ELSE page[p]]
     /\ fact' = [f \in Facts |-> IF f \in gone THEN [Erased(fact[f]) EXCEPT !.by = NoRow]
                                 ELSE IF f \in cleared THEN [fact[f] EXCEPT !.by = NoRow]
                                 ELSE fact[f]]
     /\ UNCHANGED <<clock, records, flights>>

SweepRetractions ==
  /\ \E r \in ledger : r <= cut
  /\ Unlist({r \in ledger : r <= cut})
  /\ UNCHANGED <<rows, clock, flights>>

-----------------------------------------------------------------------------
(* ingestDocument: the page to replace is read before the call to the       *)
(* gateway and the fact the claim is matched with after it; a document that *)
(* replaces none begins with the second. commitWrite then retires the old   *)
(* page and its facts, inserts the new ones and points the matched fact at  *)
(* its successor, and looks again at neither of the two it read.            *)
ReadPage(p) ==
  /\ writer = NoWrite
  /\ p \in LivePages
  /\ writer' = [NoWrite EXCEPT !.at = "read", !.replaces = p]
  /\ UNCHANGED <<rows, clock, records, restorer, cycle>>

Classify(m) ==
  /\ writer.at # "classified"
  /\ m \in {NoRow} \cup (LiveFacts \ FactsOn(writer.replaces))
  /\ writer' = [writer EXCEPT !.at = "classified", !.matched = m]
  /\ UNCHANGED <<rows, clock, records, restorer, cycle>>

WriteFails ==
  /\ writer.at # "idle" /\ writer' = NoWrite
  /\ UNCHANGED <<rows, clock, records, restorer, cycle>>

Retired(p) == PageRows \cap {p}

Superseding(m, f) == [k \in Facts |->
                        IF k \in FactRows \cap {m} /\ fact[k].by = NoRow
                          THEN [fact[k] EXCEPT !.by = f]
                          ELSE fact[k]]

CommitWrite(p, f) ==
  LET old == writer.replaces
      at == IF old = NoRow THEN now ELSE now + 1
      facts == IF f = NoRow THEN fact ELSE Superseding(writer.matched, f)
      kept == Stamped(facts, FactsOn(old) \cap UndeletedFacts, at)
      new == [st |-> "row", page |-> p, del |-> Live, by |-> NoRow]
  IN /\ writer.at = "classified" /\ at <= MaxNow
     /\ NextPage(p) /\ (f # NoRow => NextFact(f))
     /\ page' = [Stamped(page, Retired(old), at) EXCEPT ![p] = [st |-> "row", del |-> Live]]
     /\ fact' = IF f = NoRow THEN kept ELSE [kept EXCEPT ![f] = new]
     /\ now' = at
     /\ overtaken' = overtaken \cup (Retired(old) \ LivePages)
     /\ writer' = NoWrite
     /\ UNCHANGED <<undo, cut, ledger, took, restorer, cycle>>

-----------------------------------------------------------------------------
(* The phases of a consolidation cycle, one at a time. Extraction selects a *)
(* live page, calls a model and then the gateway, and inserts the fact if   *)
(* the page still has a row, forgotten or not. Dedup reads two live facts   *)
(* that state the same claim and points the later at the earlier, unless    *)
(* something superseded it in between; a keeper purged meanwhile fails the  *)
(* foreign key. Neither opens a transaction around what it read.            *)
SelectCandidate(p) ==
  /\ cycle = NoCycle /\ p \in LivePages
  /\ cycle' = [NoCycle EXCEPT !.at = "extract", !.page = p]
  /\ UNCHANGED <<rows, clock, records, restorer, writer>>

InsertExtracted(f) ==
  /\ cycle.at = "extract" /\ cycle.page \in PageRows /\ NextFact(f)
  /\ fact' = [fact EXCEPT ![f] = [st |-> "row", page |-> cycle.page, del |-> Live, by |-> NoRow]]
  /\ cycle' = NoCycle
  /\ UNCHANGED <<page, clock, records, restorer, writer>>

ReadDuplicates(keeper, loser) ==
  /\ cycle = NoCycle
  /\ {keeper, loser} \subseteq LiveFacts /\ keeper < loser
  /\ cycle' = [NoCycle EXCEPT !.at = "dedup", !.keeper = keeper, !.loser = loser]
  /\ UNCHANGED <<rows, clock, records, restorer, writer>>

Collapse ==
  LET loses == {f \in FactRows \cap {cycle.loser} : fact[f].by = NoRow}
  IN /\ cycle.at = "dedup"
     /\ loses # {} => cycle.keeper \in FactRows
     /\ fact' = [f \in Facts |-> IF f \in loses THEN [fact[f] EXCEPT !.by = cycle.keeper] ELSE fact[f]]
     /\ cycle' = NoCycle
     /\ UNCHANGED <<page, clock, records, restorer, writer>>

PhaseFails ==
  /\ cycle.at # "idle" /\ cycle' = NoCycle
  /\ UNCHANGED <<rows, clock, records, restorer, writer>>

-----------------------------------------------------------------------------
Retraction == (\E p \in Pages : ForgetDoc(p)) \/ (\E f \in Facts : ForgetFact(f))
Undo == (\E r \in Instants : Admit(r)) \/ Restore \/ MarkRestored \/ RestorerDies
Purge == RunPurgeBatch \/ SweepRetractions
Writing ==
  \/ \E p \in Pages : ReadPage(p)
  \/ \E m \in Facts \cup {NoRow} : Classify(m)
  \/ \E p \in Pages, f \in Facts \cup {NoRow} : CommitWrite(p, f)
  \/ WriteFails
Consolidation ==
  \/ \E p \in Pages : SelectCandidate(p)
  \/ \E f \in Facts : InsertExtracted(f)
  \/ \E keeper, loser \in Facts : ReadDuplicates(keeper, loser)
  \/ Collapse \/ PhaseFails

Next == Retraction \/ Undo \/ Purge \/ Writing \/ Consolidation \/ WindowCloses \/ CutoffMoves

Spec == Init /\ [][Next]_vars

(* Where the operator has turned the purge lane on, its job comes back with *)
(* the tenant's slot for as long as anything is expired.                    *)
LiveSpec == Spec /\ WF_vars(RunPurgeBatch)

-----------------------------------------------------------------------------
(* Every variable ranges over what the schema and the code allow it.        *)
TypeOK ==
  /\ page \in [Pages -> [st : {"none", "row", "erased"}, del : 0 .. MaxNow]]
  /\ fact \in [Facts -> [st : {"none", "row", "erased"}, page : Pages \cup {NoRow},
                         del : 0 .. MaxNow, by : Facts \cup {NoRow}]]
  /\ now \in 0 .. MaxNow /\ undo \in 0 .. now /\ cut \in 0 .. undo
  /\ ledger \subseteq 1 .. now
  /\ took \in [Instants -> [pages : SUBSET Pages, facts : SUBSET Facts]]
  /\ overtaken \subseteq Pages
  /\ restorer \in [at : {"idle", "admitted", "restored"}, instant : 0 .. now]
  /\ writer \in [at : {"idle", "read", "classified"}, replaces : Pages \cup {NoRow},
                 matched : Facts \cup {NoRow}]
  /\ cycle \in [at : {"idle", "extract", "dedup"}, page : Pages \cup {NoRow},
                keeper : Facts \cup {NoRow}, loser : Facts \cup {NoRow}]
  /\ \A f \in FactRows : /\ fact[f].page \in PageRows
                         /\ fact[f].by \in FactRows \cup {NoRow}

(* While the undo of a retraction is offered, or has been admitted and not  *)
(* yet committed, every row the retraction took and no undo has returned    *)
(* carries its instant, by which restoreForgotten finds it: no second       *)
(* retraction has stamped it anew and the purge has not erased it. An undo  *)
(* can miss two kinds of row: a page that a rewrite in flight retired after *)
(* it was forgotten (commitWrite does not ask whether it still stands), and *)
(* a fact whose page was forgotten before it and went first.                *)
Offered(r) == (r \in ledger /\ r > undo) \/ (restorer.at = "admitted" /\ restorer.instant = r)
Recoverable(row, r) == row.st = "row" /\ row.del = r
UndoFindsItsRows ==
  \A r \in Instants : Offered(r) =>
    /\ \A p \in took[r].pages : Recoverable(page[p], r) \/ p \in overtaken
    /\ \A f \in took[r].facts : Recoverable(fact[f], r) \/ page[fact[f].page].st = "erased"

(* A fact that was superseded becomes current again only in the very        *)
(* transaction that erases its successor: no batch of the purge clears a    *)
(* pointer and leaves its target to a later batch, where the older claim    *)
(* would answer beside the newer one, or in its place after an undo.        *)
PointersOutliveTheirTarget ==
  [][\A f \in Facts : fact[f].st = "row" /\ fact'[f].st = "row" /\ fact'[f].by # fact[f].by
       => fact[f].by = NoRow \/ fact'[fact[f].by].st = "erased"]_vars

(* The backlog of what is past its window and its grace band is worked off  *)
(* again and again: no row that something still points at makes the batch   *)
(* that must take it, and with it every later batch, fail.                  *)
Backlog == Expired(page, PageRows) \cup Expired(fact, FactRows)
BacklogDrains == []<>(Backlog = {})

(* What forgetRecord says of its cascade: with a grant that covers the      *)
(* facts too, no fact of a forgotten page still answers.                    *)
NothingForgottenAnswers == \A f \in UndeletedFacts : page[fact[f].page].del = Live

=============================================================================
