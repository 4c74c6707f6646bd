------------------------ MODULE ConnectorPull_proofs ------------------------
(***************************************************************************)
(* Proofs about ConnectorPull, for every set of items and of attempts and   *)
(* every bound: what a cursor has passed is banked as long as one pull runs *)
(* at a time, and a connection only ever gets its own pulls' cursors.       *)
(*                                                                         *)
(* The argument follows one pull. Alone: nobody else runs. Tied: while the  *)
(* connection it read is still here, the row's cursor is the one it read,   *)
(* and afterwards the row has none. Unpassed: what it is about to write or  *)
(* to sweep is nothing the row's cursor has passed, so CursorCovers is not  *)
(* disturbed. Promise: what its next cursor passes is either banked or      *)
(* still in its hands as it is, so nothing is left to bank when it saves.   *)
(***************************************************************************)
EXTENDS ConnectorPull, SequenceTheorems, TLAPS

(* head is the last event of each item.                                     *)
Upstream ==
  /\ \A n \in 1 .. Len(log) : n <= head[log[n].item]
  /\ \A i \in Items : head[i] # 0 => head[i] \in 1 .. Len(log) /\ log[head[i]].item = i

(* A cursor points into the log, and a place in the feed has no rest.       *)
WellFormed(c) ==
  /\ c.pos <= Len(log) /\ (c.kind = "backfill" => c.base = c.pos)
  /\ (c.kind = "delta" => c.rest = {})

Cursors ==
  /\ WellFormed(link.cursor)
  /\ \A p \in Pulls : WellFormed(pull[p].cursor) /\ WellFormed(pull[p].next)

Busy(p) == ~At(p, "idle")
Alone == \A p, q \in Pulls : Busy(p) /\ Busy(q) => p = q

Tied(p) ==
  /\ pull[p].fence <= link.fence
  /\ pull[p].fence = link.fence => link.conn
  /\ link.cursor = IF Lands(p) THEN pull[p].cursor ELSE NoCursor

Hands(p) == pull[p].todo \cup pull[p].gone \cup Pending(p)

PassedBy(c, i) == c.kind # "none" /\ i \notin c.rest /\ head[i] <= c.pos

Unpassed(p) == \A i \in Hands(p) : ~PassedBy(pull[p].cursor, i)

Listed(p) == pull[p].at \in {"fetch", "gate", "ingest", "save"}

\* The pull knows, of what its next cursor passes, what the provider does.
Kept(p, i) ==
  /\ i \in pull[p].todo => Live(i)
  /\ i \in pull[p].gone => ~Live(i)
  /\ i \in Pending(p) => Live(i) /\ pull[p].got[i] = head[i]
  /\ i \notin Hands(p) => Mirrors(i, pull[p].next.base)

Promise(p) ==
  Listed(p) /\ ~pull[p].hold /\ Lands(p) =>
    \A i \in Items : PassedBy(pull[p].next, i) => Kept(p, i)

\* What is known of an attempt from where it is.
Steps(p) ==
  /\ At(p, "list") /\ pull[p].cursor.kind = "none"
     => pull[p].next.kind = "backfill" /\ pull[p].next.rest = {}
  /\ ~Listed(p) => Hands(p) = {} /\ ~pull[p].hold
  /\ Listed(p) /\ ~pull[p].hold => pull[p].next.kind # "none"
  /\ pull[p].at \in {"gate", "ingest", "save"} => pull[p].todo = {} /\ pull[p].gone = {}
  /\ At(p, "save") => Hands(p) = {}

Covers == \A i \in Items : PassedBy(link.cursor, i) => Mirrors(i, link.cursor.base)

OnePull ==
  /\ Alone /\ Covers
  /\ \A p \in Pulls : Busy(p) => Tied(p) /\ Unpassed(p) /\ Promise(p)

IInv == TypeOK /\ Upstream /\ Cursors /\ (\A p \in Pulls : Steps(p)) /\ (~crowded => OnePull)

-----------------------------------------------------------------------------
(* What a step writes into the acting attempt's record, field by field: the *)
(* proofs below cite these facts and keep the record itself closed.         *)
Puts(p, at, fence, cursor, next, todo, got, gone, hold) ==
  /\ pull' \in [Pulls -> Attempt]
  /\ \A q \in Pulls \ {p} : pull'[q] = pull[q]
  /\ pull'[p].at = at /\ pull'[p].fence = fence /\ pull'[p].cursor = cursor /\ pull'[p].next = next
  /\ pull'[p].todo = todo /\ pull'[p].got = got /\ pull'[p].gone = gone /\ pull'[p].hold = hold

Attempts == pull \in [Pulls -> Attempt]

LEMMA Fields ==
  ASSUME NEW x \in Attempt
  PROVE  /\ x.fence \in 0 .. MaxFence /\ x.cursor \in Cursor /\ x.next \in Cursor
         /\ x.todo \subseteq Items /\ x.gone \subseteq Items
         /\ x.got \in [Items -> Positions] /\ x.hold \in BOOLEAN
         /\ x.at \in {"idle", "token", "list", "fetch", "gate", "ingest", "save"}
BY DEF Attempt

LEMMA Marks ==
  ASSUME NEW c \in Cursor
  PROVE  /\ c.kind \in {"none", "backfill", "delta"} /\ c.pos \in Positions /\ c.base \in Positions
         /\ c.rest \subseteq Items /\ c.pos \in Int /\ c.base \in Int
BY DEF Cursor, Positions

LEMMA Marked ==
  /\ NoCursor \in Cursor
  /\ \A n, b \in Positions, rest \in SUBSET Items :
       Delta(n, b) \in Cursor /\ Backfill(n, rest) \in Cursor /\ After(n, rest) \in Cursor
BY PullAssumption DEF Cursor, NoCursor, Delta, Backfill, After, Positions

LEMMA Blank == Nothing \in [Items -> Positions] /\ Idle \in Attempt
BY PullAssumption, Marked DEF Nothing, Positions, Idle, Attempt

LEMMA Putting ==
  ASSUME Attempts, NEW p \in Pulls, NEW x \in Attempt, Becomes(p, x)
  PROVE  Puts(p, x.at, x.fence, x.cursor, x.next, x.todo, x.got, x.gone, x.hold)
BY DEF Attempts, Becomes, Puts

(* The ways a step rewrites the record of its attempt, each by name, with    *)
(* what it leaves in every field.                                           *)
WithEntry(w, a, f, c) == [w EXCEPT !.at = a, !.fence = f, !.cursor = c]
LEMMA PatchEntry ==
  ASSUME NEW w \in Attempt, NEW a \in {"token", "list"}, NEW f \in 0 .. MaxFence, NEW c \in Cursor
  PROVE  /\ WithEntry(w, a, f, c) \in Attempt /\ WithEntry(w, a, f, c).at = a
         /\ WithEntry(w, a, f, c).fence = f /\ WithEntry(w, a, f, c).cursor = c
         /\ WithEntry(w, a, f, c).next = w.next
         /\ WithEntry(w, a, f, c).todo = w.todo /\ WithEntry(w, a, f, c).got = w.got
         /\ WithEntry(w, a, f, c).gone = w.gone /\ WithEntry(w, a, f, c).hold = w.hold
BY DEF Attempt, WithEntry

WithCursor(w, c) == [w EXCEPT !.cursor = c, !.at = "token"]
LEMMA PatchCursor ==
  ASSUME NEW w \in Attempt, NEW c \in Cursor
  PROVE  /\ WithCursor(w, c) \in Attempt /\ WithCursor(w, c).at = "token"
         /\ WithCursor(w, c).fence = w.fence /\ WithCursor(w, c).cursor = c
         /\ WithCursor(w, c).next = w.next
         /\ WithCursor(w, c).todo = w.todo /\ WithCursor(w, c).got = w.got
         /\ WithCursor(w, c).gone = w.gone /\ WithCursor(w, c).hold = w.hold
BY DEF Attempt, WithCursor

WithNext(w, c) == [w EXCEPT !.next = c, !.at = "list"]
LEMMA PatchNext ==
  ASSUME NEW w \in Attempt, NEW c \in Cursor
  PROVE  /\ WithNext(w, c) \in Attempt /\ WithNext(w, c).at = "list"
         /\ WithNext(w, c).fence = w.fence /\ WithNext(w, c).cursor = w.cursor
         /\ WithNext(w, c).next = c
         /\ WithNext(w, c).todo = w.todo /\ WithNext(w, c).got = w.got
         /\ WithNext(w, c).gone = w.gone /\ WithNext(w, c).hold = w.hold
BY DEF Attempt, WithNext

WithStop(w) == [w EXCEPT !.hold = TRUE, !.gone = {}, !.got = Nothing, !.at = "save"]
LEMMA PatchStop ==
  ASSUME NEW w \in Attempt
  PROVE  /\ WithStop(w) \in Attempt /\ WithStop(w).at = "save" /\ WithStop(w).fence = w.fence
         /\ WithStop(w).cursor = w.cursor /\ WithStop(w).next = w.next
         /\ WithStop(w).todo = w.todo /\ WithStop(w).got = Nothing /\ WithStop(w).gone = {}
         /\ WithStop(w).hold = TRUE
BY Blank DEF Attempt, WithStop

WithSlice(w, c, S) == [w EXCEPT !.todo = S, !.at = "fetch", !.next = c]
LEMMA PatchSlice ==
  ASSUME NEW w \in Attempt, NEW c \in Cursor, NEW S \in SUBSET Items
  PROVE  /\ WithSlice(w, c, S) \in Attempt /\ WithSlice(w, c, S).at = "fetch"
         /\ WithSlice(w, c, S).fence = w.fence /\ WithSlice(w, c, S).cursor = w.cursor
         /\ WithSlice(w, c, S).next = c
         /\ WithSlice(w, c, S).todo = S /\ WithSlice(w, c, S).got = w.got
         /\ WithSlice(w, c, S).gone = w.gone /\ WithSlice(w, c, S).hold = w.hold
BY DEF Attempt, WithSlice

WithPage(w, c, S, G) == [w EXCEPT !.todo = S, !.gone = G, !.next = c, !.at = "fetch"]
LEMMA PatchPage ==
  ASSUME NEW w \in Attempt, NEW c \in Cursor, NEW S \in SUBSET Items, NEW G \in SUBSET Items
  PROVE  /\ WithPage(w, c, S, G) \in Attempt /\ WithPage(w, c, S, G).at = "fetch"
         /\ WithPage(w, c, S, G).fence = w.fence /\ WithPage(w, c, S, G).cursor = w.cursor
         /\ WithPage(w, c, S, G).next = c
         /\ WithPage(w, c, S, G).todo = S /\ WithPage(w, c, S, G).got = w.got
         /\ WithPage(w, c, S, G).gone = G /\ WithPage(w, c, S, G).hold = w.hold
BY DEF Attempt, WithPage

WithFetched(w, i, n) == [w EXCEPT !.todo = @ \ {i}, !.got[i] = n]
LEMMA PatchFetched ==
  ASSUME NEW w \in Attempt, NEW i \in Items, NEW n \in Positions
  PROVE  /\ WithFetched(w, i, n) \in Attempt /\ WithFetched(w, i, n).at = w.at
         /\ WithFetched(w, i, n).fence = w.fence /\ WithFetched(w, i, n).cursor = w.cursor
         /\ WithFetched(w, i, n).next = w.next
         /\ WithFetched(w, i, n).todo = w.todo \ {i}
         /\ WithFetched(w, i, n).got = [w.got EXCEPT ![i] = n] /\ WithFetched(w, i, n).gone = w.gone
         /\ WithFetched(w, i, n).hold = w.hold
BY DEF Attempt, WithFetched

WithMissing(w, i) == [w EXCEPT !.todo = @ \ {i}]
LEMMA PatchMissing ==
  ASSUME NEW w \in Attempt, NEW i \in Items
  PROVE  /\ WithMissing(w, i) \in Attempt /\ WithMissing(w, i).at = w.at
         /\ WithMissing(w, i).fence = w.fence /\ WithMissing(w, i).cursor = w.cursor
         /\ WithMissing(w, i).next = w.next
         /\ WithMissing(w, i).todo = w.todo \ {i} /\ WithMissing(w, i).got = w.got
         /\ WithMissing(w, i).gone = w.gone /\ WithMissing(w, i).hold = w.hold
BY DEF Attempt, WithMissing

WithUnfetched(w, i) == [w EXCEPT !.todo = @ \ {i}, !.hold = TRUE]
LEMMA PatchUnfetched ==
  ASSUME NEW w \in Attempt, NEW i \in Items
  PROVE  /\ WithUnfetched(w, i) \in Attempt /\ WithUnfetched(w, i).at = w.at
         /\ WithUnfetched(w, i).fence = w.fence /\ WithUnfetched(w, i).cursor = w.cursor
         /\ WithUnfetched(w, i).next = w.next
         /\ WithUnfetched(w, i).todo = w.todo \ {i} /\ WithUnfetched(w, i).got = w.got
         /\ WithUnfetched(w, i).gone = w.gone /\ WithUnfetched(w, i).hold = TRUE
BY DEF Attempt, WithUnfetched

WithSwept(w) == [w EXCEPT !.gone = {}, !.at = "gate"]
LEMMA PatchSwept ==
  ASSUME NEW w \in Attempt
  PROVE  /\ WithSwept(w) \in Attempt /\ WithSwept(w).at = "gate" /\ WithSwept(w).fence = w.fence
         /\ WithSwept(w).cursor = w.cursor /\ WithSwept(w).next = w.next
         /\ WithSwept(w).todo = w.todo /\ WithSwept(w).got = w.got /\ WithSwept(w).gone = {}
         /\ WithSwept(w).hold = w.hold
BY DEF Attempt, WithSwept

WithAt(w, a) == [w EXCEPT !.at = a]
LEMMA PatchAt ==
  ASSUME NEW w \in Attempt, NEW a \in {"ingest", "save"}
  PROVE  /\ WithAt(w, a) \in Attempt /\ WithAt(w, a).at = a /\ WithAt(w, a).fence = w.fence
         /\ WithAt(w, a).cursor = w.cursor /\ WithAt(w, a).next = w.next
         /\ WithAt(w, a).todo = w.todo /\ WithAt(w, a).got = w.got /\ WithAt(w, a).gone = w.gone
         /\ WithAt(w, a).hold = w.hold
BY DEF Attempt, WithAt

WithIngested(w, i, n) == [w EXCEPT !.got[i] = n]
LEMMA PatchIngested ==
  ASSUME NEW w \in Attempt, NEW i \in Items, NEW n \in Positions
  PROVE  /\ WithIngested(w, i, n) \in Attempt /\ WithIngested(w, i, n).at = w.at
         /\ WithIngested(w, i, n).fence = w.fence /\ WithIngested(w, i, n).cursor = w.cursor
         /\ WithIngested(w, i, n).next = w.next
         /\ WithIngested(w, i, n).todo = w.todo
         /\ WithIngested(w, i, n).got = [w.got EXCEPT ![i] = n]
         /\ WithIngested(w, i, n).gone = w.gone /\ WithIngested(w, i, n).hold = w.hold
BY DEF Attempt, WithIngested

WithLost(w, i, n) == [w EXCEPT !.got[i] = n, !.hold = TRUE]
LEMMA PatchLost ==
  ASSUME NEW w \in Attempt, NEW i \in Items, NEW n \in Positions
  PROVE  /\ WithLost(w, i, n) \in Attempt /\ WithLost(w, i, n).at = w.at
         /\ WithLost(w, i, n).fence = w.fence /\ WithLost(w, i, n).cursor = w.cursor
         /\ WithLost(w, i, n).next = w.next
         /\ WithLost(w, i, n).todo = w.todo /\ WithLost(w, i, n).got = [w.got EXCEPT ![i] = n]
         /\ WithLost(w, i, n).gone = w.gone /\ WithLost(w, i, n).hold = TRUE
BY DEF Attempt, WithLost

-----------------------------------------------------------------------------
(* What each action puts into the record of its attempt.                    *)
LEMMA StartPuts ==
  ASSUME TypeOK, NEW p \in Pulls, Start(p)
  PROVE  Puts(p, Entry(link.cursor), link.fence, link.cursor, NoCursor, {}, Nothing, {}, FALSE)
<1> DEFINE y == WithEntry(Idle, Entry(link.cursor), link.fence, link.cursor)
<1>1. Attempts /\ Idle \in Attempt
  BY Blank DEF TypeOK, Attempts
<1>2. Becomes(p, y)
  BY DEF Start, WithEntry
<1>z. Entry(link.cursor) \in {"token", "list"} /\ link.fence \in 0 .. MaxFence /\ link.cursor \in Cursor
  BY DEF TypeOK, Entry
<1>3. /\ y \in Attempt /\ y.at = Entry(link.cursor) /\ y.fence = link.fence
      /\ y.cursor = link.cursor /\ y.next = Idle.next
         /\ y.todo = Idle.todo /\ y.got = Idle.got /\ y.gone = Idle.gone /\ y.hold = Idle.hold
  BY <1>1, <1>z, PatchEntry
<1> HIDE DEF y
<1>4. Puts(p, y.at, y.fence, y.cursor, y.next, y.todo, y.got, y.gone, y.hold)
  BY <1>1, <1>2, <1>3, Putting
<1> QED BY <1>3, <1>4 DEF Idle

LEMMA ExpirePuts ==
  ASSUME TypeOK, NEW p \in Pulls, Expire(p)
  PROVE  Puts(p, "token", pull[p].fence, NoCursor, pull[p].next, pull[p].todo, pull[p].got,
              pull[p].gone, pull[p].hold)
<1> DEFINE y == WithCursor(pull[p], NoCursor)
<1>1. Attempts /\ pull[p] \in Attempt
  BY Blank DEF TypeOK, Attempts
<1>2. Becomes(p, y)
  BY DEF Expire, WithCursor
<1>3. /\ y \in Attempt /\ y.at = "token" /\ y.fence = pull[p].fence /\ y.cursor = NoCursor
      /\ y.next = pull[p].next
         /\ y.todo = pull[p].todo /\ y.got = pull[p].got /\ y.gone = pull[p].gone
         /\ y.hold = pull[p].hold
  BY <1>1, Marked, PatchCursor
<1> HIDE DEF y
<1>4. Puts(p, y.at, y.fence, y.cursor, y.next, y.todo, y.got, y.gone, y.hold)
  BY <1>1, <1>2, <1>3, Putting
<1> QED BY <1>3, <1>4

LEMMA CapturePuts ==
  ASSUME TypeOK, NEW p \in Pulls, Capture(p)
  PROVE  Puts(p, "list", pull[p].fence, pull[p].cursor, Backfill(Len(log), {}), pull[p].todo,
              pull[p].got, pull[p].gone, pull[p].hold)
<1> DEFINE y == WithNext(pull[p], Backfill(Len(log), {}))
<1>1. Attempts /\ pull[p] \in Attempt
  BY Blank DEF TypeOK, Attempts
<1>2. Becomes(p, y)
  BY DEF Capture, WithNext
<1>z. Backfill(Len(log), {}) \in Cursor
  <2>1. Len(log) \in Positions
    BY PullAssumption DEF TypeOK, Positions
  <2> QED BY <2>1, Marked
<1>3. /\ y \in Attempt /\ y.at = "list" /\ y.fence = pull[p].fence /\ y.cursor = pull[p].cursor
      /\ y.next = Backfill(Len(log), {})
         /\ y.todo = pull[p].todo /\ y.got = pull[p].got /\ y.gone = pull[p].gone
         /\ y.hold = pull[p].hold
  BY <1>1, <1>z, Marked, PatchNext
<1> HIDE DEF y
<1>4. Puts(p, y.at, y.fence, y.cursor, y.next, y.todo, y.got, y.gone, y.hold)
  BY <1>1, <1>2, <1>3, Putting
<1> QED BY <1>3, <1>4

LEMMA FetchPuts ==
  ASSUME TypeOK, NEW p \in Pulls, NEW i \in Items, Fetch(p, i)
  PROVE  Puts(p, pull[p].at, pull[p].fence, pull[p].cursor, pull[p].next, pull[p].todo \ {i},
              [pull[p].got EXCEPT ![i] = head[i]], pull[p].gone, pull[p].hold)
<1> DEFINE y == WithFetched(pull[p], i, head[i])
<1>1. Attempts /\ pull[p] \in Attempt
  BY Blank DEF TypeOK, Attempts
<1>2. Becomes(p, y)
  BY DEF Fetch, WithFetched
<1>z. head[i] \in Positions
  BY DEF TypeOK
<1>3. /\ y \in Attempt /\ y.at = pull[p].at /\ y.fence = pull[p].fence /\ y.cursor = pull[p].cursor
      /\ y.next = pull[p].next
         /\ y.todo = pull[p].todo \ {i} /\ y.got = [pull[p].got EXCEPT ![i] = head[i]]
         /\ y.gone = pull[p].gone /\ y.hold = pull[p].hold
  BY <1>1, <1>z, PatchFetched
<1> HIDE DEF y
<1>4. Puts(p, y.at, y.fence, y.cursor, y.next, y.todo, y.got, y.gone, y.hold)
  BY <1>1, <1>2, <1>3, Putting
<1> QED BY <1>3, <1>4

LEMMA MissingPuts ==
  ASSUME TypeOK, NEW p \in Pulls, NEW i \in Items, Missing(p, i)
  PROVE  Puts(p, pull[p].at, pull[p].fence, pull[p].cursor, pull[p].next, pull[p].todo \ {i},
              pull[p].got, pull[p].gone, pull[p].hold)
<1> DEFINE y == WithMissing(pull[p], i)
<1>1. Attempts /\ pull[p] \in Attempt
  BY Blank DEF TypeOK, Attempts
<1>2. Becomes(p, y)
  BY DEF Missing, WithMissing
<1>3. /\ y \in Attempt /\ y.at = pull[p].at /\ y.fence = pull[p].fence /\ y.cursor = pull[p].cursor
      /\ y.next = pull[p].next
         /\ y.todo = pull[p].todo \ {i} /\ y.got = pull[p].got /\ y.gone = pull[p].gone
         /\ y.hold = pull[p].hold
  BY <1>1, PatchMissing
<1> HIDE DEF y
<1>4. Puts(p, y.at, y.fence, y.cursor, y.next, y.todo, y.got, y.gone, y.hold)
  BY <1>1, <1>2, <1>3, Putting
<1> QED BY <1>3, <1>4

LEMMA FetchFailsPuts ==
  ASSUME TypeOK, NEW p \in Pulls, NEW i \in Items, FetchFails(p, i)
  PROVE  Puts(p, pull[p].at, pull[p].fence, pull[p].cursor, pull[p].next, pull[p].todo \ {i},
              pull[p].got, pull[p].gone, TRUE)
<1> DEFINE y == WithUnfetched(pull[p], i)
<1>1. Attempts /\ pull[p] \in Attempt
  BY Blank DEF TypeOK, Attempts
<1>2. Becomes(p, y)
  BY DEF FetchFails, WithUnfetched
<1>3. /\ y \in Attempt /\ y.at = pull[p].at /\ y.fence = pull[p].fence /\ y.cursor = pull[p].cursor
      /\ y.next = pull[p].next
         /\ y.todo = pull[p].todo \ {i} /\ y.got = pull[p].got /\ y.gone = pull[p].gone /\ y.hold = TRUE
  BY <1>1, PatchUnfetched
<1> HIDE DEF y
<1>4. Puts(p, y.at, y.fence, y.cursor, y.next, y.todo, y.got, y.gone, y.hold)
  BY <1>1, <1>2, <1>3, Putting
<1> QED BY <1>3, <1>4

LEMMA SweepPuts ==
  ASSUME TypeOK, NEW p \in Pulls, Sweep(p)
  PROVE  Puts(p, "gate", pull[p].fence, pull[p].cursor, pull[p].next, pull[p].todo, pull[p].got, {},
              pull[p].hold)
<1> DEFINE y == WithSwept(pull[p])
<1>1. Attempts /\ pull[p] \in Attempt
  BY Blank DEF TypeOK, Attempts
<1>2. Becomes(p, y)
  BY DEF Sweep, WithSwept
<1>3. /\ y \in Attempt /\ y.at = "gate" /\ y.fence = pull[p].fence /\ y.cursor = pull[p].cursor
      /\ y.next = pull[p].next
         /\ y.todo = pull[p].todo /\ y.got = pull[p].got /\ y.gone = {} /\ y.hold = pull[p].hold
  BY <1>1, PatchSwept
<1> HIDE DEF y
<1>4. Puts(p, y.at, y.fence, y.cursor, y.next, y.todo, y.got, y.gone, y.hold)
  BY <1>1, <1>2, <1>3, Putting
<1> QED BY <1>3, <1>4

LEMMA AdmitPuts ==
  ASSUME TypeOK, NEW p \in Pulls, Admit(p)
  PROVE  Puts(p, "ingest", pull[p].fence, pull[p].cursor, pull[p].next, pull[p].todo, pull[p].got,
              pull[p].gone, pull[p].hold)
<1> DEFINE y == WithAt(pull[p], "ingest")
<1>1. Attempts /\ pull[p] \in Attempt
  BY Blank DEF TypeOK, Attempts
<1>2. Becomes(p, y)
  BY DEF Admit, WithAt
<1>3. /\ y \in Attempt /\ y.at = "ingest" /\ y.fence = pull[p].fence /\ y.cursor = pull[p].cursor
      /\ y.next = pull[p].next
         /\ y.todo = pull[p].todo /\ y.got = pull[p].got /\ y.gone = pull[p].gone
         /\ y.hold = pull[p].hold
  BY <1>1, PatchAt
<1> HIDE DEF y
<1>4. Puts(p, y.at, y.fence, y.cursor, y.next, y.todo, y.got, y.gone, y.hold)
  BY <1>1, <1>2, <1>3, Putting
<1> QED BY <1>3, <1>4

LEMMA IngestPuts ==
  ASSUME TypeOK, NEW p \in Pulls, NEW i \in Items, Ingest(p, i)
  PROVE  Puts(p, pull[p].at, pull[p].fence, pull[p].cursor, pull[p].next, pull[p].todo,
              [pull[p].got EXCEPT ![i] = 0], pull[p].gone, pull[p].hold)
<1> DEFINE y == WithIngested(pull[p], i, 0)
<1>1. Attempts /\ pull[p] \in Attempt
  BY Blank DEF TypeOK, Attempts
<1>2. Becomes(p, y)
  BY DEF Ingest, WithIngested
<1>z. 0 \in Positions
  BY PullAssumption DEF Positions
<1>3. /\ y \in Attempt /\ y.at = pull[p].at /\ y.fence = pull[p].fence /\ y.cursor = pull[p].cursor
      /\ y.next = pull[p].next
         /\ y.todo = pull[p].todo /\ y.got = [pull[p].got EXCEPT ![i] = 0] /\ y.gone = pull[p].gone
         /\ y.hold = pull[p].hold
  BY <1>1, <1>z, PatchIngested
<1> HIDE DEF y
<1>4. Puts(p, y.at, y.fence, y.cursor, y.next, y.todo, y.got, y.gone, y.hold)
  BY <1>1, <1>2, <1>3, Putting
<1> QED BY <1>3, <1>4

LEMMA IngestFailsPuts ==
  ASSUME TypeOK, NEW p \in Pulls, NEW i \in Items, IngestFails(p, i)
  PROVE  Puts(p, pull[p].at, pull[p].fence, pull[p].cursor, pull[p].next, pull[p].todo,
              [pull[p].got EXCEPT ![i] = 0], pull[p].gone, TRUE)
<1> DEFINE y == WithLost(pull[p], i, 0)
<1>1. Attempts /\ pull[p] \in Attempt
  BY Blank DEF TypeOK, Attempts
<1>2. Becomes(p, y)
  BY DEF IngestFails, WithLost
<1>z. 0 \in Positions
  BY PullAssumption DEF Positions
<1>3. /\ y \in Attempt /\ y.at = pull[p].at /\ y.fence = pull[p].fence /\ y.cursor = pull[p].cursor
      /\ y.next = pull[p].next
         /\ y.todo = pull[p].todo /\ y.got = [pull[p].got EXCEPT ![i] = 0] /\ y.gone = pull[p].gone
         /\ y.hold = TRUE
  <2> DEFINE w == pull[p]
  <2>1. w \in Attempt
    BY <1>1
  <2> HIDE DEF w
  <2>2. /\ WithLost(w, i, 0) \in Attempt /\ WithLost(w, i, 0).at = w.at /\ WithLost(w, i, 0).fence = w.fence
        /\ WithLost(w, i, 0).cursor = w.cursor /\ WithLost(w, i, 0).next = w.next
        /\ WithLost(w, i, 0).todo = w.todo /\ WithLost(w, i, 0).got = [w.got EXCEPT ![i] = 0]
        /\ WithLost(w, i, 0).gone = w.gone /\ WithLost(w, i, 0).hold = TRUE
    BY <2>1, <1>z, PatchLost
  <2> QED BY <2>2 DEF w
<1> HIDE DEF y
<1>4. Puts(p, y.at, y.fence, y.cursor, y.next, y.todo, y.got, y.gone, y.hold)
  BY <1>1, <1>2, <1>3, Putting
<1> QED BY <1>3, <1>4

LEMMA EmbedPuts ==
  ASSUME TypeOK, NEW p \in Pulls, Embed(p)
  PROVE  Puts(p, "save", pull[p].fence, pull[p].cursor, pull[p].next, pull[p].todo, pull[p].got,
              pull[p].gone, pull[p].hold)
<1> DEFINE y == WithAt(pull[p], "save")
<1>1. Attempts /\ pull[p] \in Attempt
  BY Blank DEF TypeOK, Attempts
<1>2. Becomes(p, y)
  BY DEF Embed, WithAt
<1>3. /\ y \in Attempt /\ y.at = "save" /\ y.fence = pull[p].fence /\ y.cursor = pull[p].cursor
      /\ y.next = pull[p].next
         /\ y.todo = pull[p].todo /\ y.got = pull[p].got /\ y.gone = pull[p].gone
         /\ y.hold = pull[p].hold
  BY <1>1, PatchAt
<1> HIDE DEF y
<1>4. Puts(p, y.at, y.fence, y.cursor, y.next, y.todo, y.got, y.gone, y.hold)
  BY <1>1, <1>2, <1>3, Putting
<1> QED BY <1>3, <1>4

LEMMA StopsPuts ==
  ASSUME TypeOK, NEW p \in Pulls, Stops(p)
  PROVE  Puts(p, "save", pull[p].fence, pull[p].cursor, pull[p].next, pull[p].todo, Nothing, {}, TRUE)
<1> DEFINE y == WithStop(pull[p])
<1>1. Attempts /\ pull[p] \in Attempt
  BY Blank DEF TypeOK, Attempts
<1>2. Becomes(p, y)
  BY DEF Stops, WithStop
<1>3. /\ y \in Attempt /\ y.at = "save" /\ y.fence = pull[p].fence /\ y.cursor = pull[p].cursor
      /\ y.next = pull[p].next
         /\ y.todo = pull[p].todo /\ y.got = Nothing /\ y.gone = {} /\ y.hold = TRUE
  BY <1>1, PatchStop
<1> HIDE DEF y
<1>4. Puts(p, y.at, y.fence, y.cursor, y.next, y.todo, y.got, y.gone, y.hold)
  BY <1>1, <1>2, <1>3, Putting
<1> QED BY <1>3, <1>4

LEMMA IdlePuts ==
  ASSUME TypeOK, NEW p \in Pulls, Becomes(p, Idle)
  PROVE  Puts(p, "idle", 0, NoCursor, NoCursor, {}, Nothing, {}, FALSE)
BY Putting, Blank DEF TypeOK, Attempts, Idle

LEMMA SlicePuts ==
  ASSUME TypeOK, NEW p \in Pulls, NEW slice \in SUBSET Items, NEW c \in Cursor,
         Becomes(p, [pull[p] EXCEPT !.todo = slice, !.at = "fetch", !.next = c])
  PROVE  Puts(p, "fetch", pull[p].fence, pull[p].cursor, c, slice, pull[p].got, pull[p].gone, pull[p].hold)
<1> DEFINE y == WithSlice(pull[p], c, slice)
<1>1. Attempts /\ pull[p] \in Attempt
  BY DEF TypeOK, Attempts
<1>2. Becomes(p, y)
  BY DEF WithSlice
<1>3. /\ y \in Attempt /\ y.at = "fetch" /\ y.fence = pull[p].fence /\ y.cursor = pull[p].cursor
      /\ y.next = c
         /\ y.todo = slice /\ y.got = pull[p].got /\ y.gone = pull[p].gone /\ y.hold = pull[p].hold
  BY <1>1, PatchSlice
<1> HIDE DEF y
<1>4. Puts(p, y.at, y.fence, y.cursor, y.next, y.todo, y.got, y.gone, y.hold)
  BY <1>1, <1>2, <1>3, Putting
<1> QED BY <1>3, <1>4

LEMMA PagePuts ==
  ASSUME TypeOK, NEW p \in Pulls, NEW S \in SUBSET Items, NEW G \in SUBSET Items, NEW c \in Cursor,
         Becomes(p, [pull[p] EXCEPT !.todo = S, !.gone = G, !.next = c, !.at = "fetch"])
  PROVE  Puts(p, "fetch", pull[p].fence, pull[p].cursor, c, S, pull[p].got, G, pull[p].hold)
<1> DEFINE y == WithPage(pull[p], c, S, G)
<1>1. Attempts /\ pull[p] \in Attempt
  BY DEF TypeOK, Attempts
<1>2. Becomes(p, y)
  BY DEF WithPage
<1>3. /\ y \in Attempt /\ y.at = "fetch" /\ y.fence = pull[p].fence /\ y.cursor = pull[p].cursor
      /\ y.next = c
         /\ y.todo = S /\ y.got = pull[p].got /\ y.gone = G /\ y.hold = pull[p].hold
  BY <1>1, PatchPage
<1> HIDE DEF y
<1>4. Puts(p, y.at, y.fence, y.cursor, y.next, y.todo, y.got, y.gone, y.hold)
  BY <1>1, <1>2, <1>3, Putting
<1> QED BY <1>3, <1>4

-----------------------------------------------------------------------------
(* One lemma per invariant, one step per action.                            *)
LEMMA SliceStep ==
  ASSUME TypeOK, NEW p \in Pulls, ListSlice(p)
  PROVE  \E slice \in SUBSET Offered(p) :
           Puts(p, "fetch", pull[p].fence, pull[p].cursor, After(Token(p), Offered(p) \ slice), slice,
                pull[p].got, pull[p].gone, pull[p].hold)
<1>1. PICK slice \in SUBSET Offered(p) :
        Becomes(p, [pull[p] EXCEPT !.todo = slice, !.at = "fetch",
                                   !.next = After(Token(p), Offered(p) \ slice)])
  BY DEF ListSlice
<1>2. pull[p] \in Attempt
  BY DEF TypeOK
<1>3. Token(p) \in Positions
  BY <1>2, Fields, Marks DEF Token
<1>4. Offered(p) \subseteq Items
  BY <1>2, Fields, Marks DEF Offered
<1>5. After(Token(p), Offered(p) \ slice) \in Cursor
  BY <1>3, <1>4, Marked
<1> QED BY <1>1, <1>4, <1>5, SlicePuts

LEMMA PageStep ==
  ASSUME TypeOK, NEW p \in Pulls, ListChanges(p)
  PROVE  \E to \in pull[p].cursor.pos .. Len(log) :
           Puts(p, "fetch", pull[p].fence, pull[p].cursor, Resume(p, to),
                {i \in Changed(p, to) : Settles(p, i, to)}, pull[p].got,
                {i \in Changed(p, to) : ~Settles(p, i, to)}, pull[p].hold)
<1>1. PICK to \in pull[p].cursor.pos .. Len(log) :
        Becomes(p, [pull[p] EXCEPT !.todo = {i \in Changed(p, to) : Settles(p, i, to)},
                                   !.gone = {i \in Changed(p, to) : ~Settles(p, i, to)},
                                   !.next = Resume(p, to), !.at = "fetch"])
  BY DEF ListChanges
<1>2. pull[p] \in Attempt
  BY DEF TypeOK
<1>3. to \in Positions /\ pull[p].cursor.base \in Positions
  <2>1. pull[p].cursor.pos \in Positions /\ pull[p].cursor.base \in Positions
    BY <1>2, Fields, Marks
  <2> QED BY <2>1, PullAssumption DEF TypeOK, Positions
<1>4. Resume(p, to) \in Cursor
  BY <1>3, Marked DEF Resume
<1>5. Changed(p, to) \subseteq Items
  BY DEF Changed
<1>6. {i \in Changed(p, to) : Settles(p, i, to)} \in SUBSET Items
      /\ {i \in Changed(p, to) : ~Settles(p, i, to)} \in SUBSET Items
  BY <1>5
<1> QED BY <1>1, <1>4, <1>6, PagePuts

LEMMA NextTypeOK ==
  ASSUME TypeOK, [Next]_vars
  PROVE  TypeOK'
<1>1. ASSUME NEW i \in Items, NEW live \in BOOLEAN, Happens(i, live) PROVE TypeOK'
  <2>1. log' \in Seq([item : Items, live : BOOLEAN]) /\ Len(log') = Len(log) + 1
    BY <1>1 DEF Happens, TypeOK
  <2>2. Len(log) + 1 \in Positions /\ Len(log') <= MaxEvents
    BY <1>1, <2>1, PullAssumption DEF Happens, TypeOK, Positions
  <2> QED BY <1>1, <2>1, <2>2 DEF Happens, TypeOK
<1>2. CASE Steal
  BY <1>2 DEF Steal, TypeOK
<1>3. CASE Disconnect
  BY <1>3, Marked, PullAssumption DEF Disconnect, TypeOK
<1>4. CASE Reconnect
  BY <1>4 DEF Reconnect, TypeOK
<1>5. ASSUME NEW p \in Pulls, Start(p) PROVE TypeOK'
  BY <1>5, StartPuts DEF Start, Puts, TypeOK
<1>6. ASSUME NEW p \in Pulls, Capture(p) PROVE TypeOK'
  BY <1>6, CapturePuts DEF Capture, Puts, TypeOK
<1>7. ASSUME NEW p \in Pulls, ListSlice(p) PROVE TypeOK'
  BY <1>7, SliceStep DEF ListSlice, Puts, TypeOK
<1>8. ASSUME NEW p \in Pulls, ListChanges(p) PROVE TypeOK'
  BY <1>8, PageStep DEF ListChanges, Puts, TypeOK
<1>9. ASSUME NEW p \in Pulls, NEW i \in Items, Fetch(p, i) PROVE TypeOK'
  BY <1>9, FetchPuts DEF Fetch, Puts, TypeOK
<1>10. ASSUME NEW p \in Pulls, NEW i \in Items, Missing(p, i) PROVE TypeOK'
  BY <1>10, MissingPuts DEF Missing, Puts, TypeOK
<1>11. ASSUME NEW p \in Pulls, NEW i \in Items, Ingest(p, i) PROVE TypeOK'
  <2>1. pull[p].got[i] \in Positions
    BY Fields DEF TypeOK
  <2> QED BY <1>11, <2>1, IngestPuts DEF Ingest, Puts, TypeOK
<1>12. ASSUME NEW p \in Pulls, Sweep(p) PROVE TypeOK'
  <2>1. pull' \in [Pulls -> Attempt]
    BY <1>12, SweepPuts DEF Puts
  <2>2. brain' \in [Items -> Positions]
    BY <1>12, PullAssumption DEF Sweep, TypeOK, Positions
  <2> QED BY <1>12, <2>1, <2>2 DEF Sweep, TypeOK
<1>13. ASSUME NEW p \in Pulls, Admit(p) PROVE TypeOK'
  BY <1>13, AdmitPuts DEF Admit, Puts, TypeOK
<1>14. ASSUME NEW p \in Pulls, Embed(p) PROVE TypeOK'
  BY <1>14, EmbedPuts DEF Embed, Puts, TypeOK
<1>15. ASSUME NEW p \in Pulls, Save(p) PROVE TypeOK'
  <2>1. pull' \in [Pulls -> Attempt]
    BY <1>15, IdlePuts DEF Save, Puts
  <2>2. pull[p].cursor \in Cursor /\ pull[p].next \in Cursor
    BY Fields DEF TypeOK
  <2> QED BY <1>15, <2>1, <2>2 DEF Save, TypeOK, Release, Writes, Lands
<1>16. ASSUME NEW p \in Pulls, Expire(p) PROVE TypeOK'
  <2>1. pull' \in [Pulls -> Attempt]
    BY <1>16, ExpirePuts DEF Puts
  <2> QED BY <1>16, <2>1, Marked DEF Expire, TypeOK, Writes, Lands
<1>17. ASSUME NEW p \in Pulls, ListFails(p) PROVE TypeOK'
  BY <1>17, StopsPuts DEF ListFails, Puts, TypeOK
<1>18. ASSUME NEW p \in Pulls, IdentityChanged(p) PROVE TypeOK'
  BY <1>18, StopsPuts DEF IdentityChanged, Puts, TypeOK
<1>19. ASSUME NEW p \in Pulls, Refuse(p) PROVE TypeOK'
  BY <1>19, StopsPuts DEF Refuse, Puts, TypeOK
<1>20. ASSUME NEW p \in Pulls, EmbedFails(p) PROVE TypeOK'
  BY <1>20, StopsPuts DEF EmbedFails, Puts, TypeOK
<1>21. ASSUME NEW p \in Pulls, Exhaust(p) PROVE TypeOK'
  BY <1>21, StopsPuts DEF Exhaust, Puts, TypeOK
<1>22. ASSUME NEW p \in Pulls, Die(p) PROVE TypeOK'
  BY <1>22, IdlePuts DEF Die, Puts, TypeOK, Release
<1>23. ASSUME NEW p \in Pulls, NEW i \in Items, FetchFails(p, i) PROVE TypeOK'
  BY <1>23, FetchFailsPuts DEF FetchFails, Puts, TypeOK
<1>24. ASSUME NEW p \in Pulls, NEW i \in Items, IngestFails(p, i) PROVE TypeOK'
  BY <1>24, IngestFailsPuts DEF IngestFails, Puts, TypeOK
<1>25. CASE UNCHANGED vars
  BY <1>25 DEF vars, TypeOK
<1> QED BY <1>1, <1>2, <1>3, <1>4, <1>5, <1>6, <1>7, <1>8, <1>9, <1>10, <1>11, <1>12, <1>13,
          <1>14, <1>15, <1>16, <1>17, <1>18, <1>19, <1>20, <1>21, <1>22, <1>23, <1>24, <1>25
       DEF Next, Provider, Works, Fails

LEMMA NextUpstream ==
  ASSUME TypeOK, Upstream, [Next]_vars
  PROVE  Upstream'
<1>1. ASSUME NEW i \in Items, NEW live \in BOOLEAN, Happens(i, live) PROVE Upstream'
  <2>1. log' \in Seq([item : Items, live : BOOLEAN]) /\ Len(log') = Len(log) + 1
        /\ log'[Len(log) + 1].item = i /\ \A m \in 1 .. Len(log) : log'[m] = log[m]
    BY <1>1 DEF Happens, TypeOK
  <2>2. head' = [head EXCEPT ![i] = Len(log) + 1] /\ head \in [Items -> Int] /\ Len(log) \in Nat
    BY <1>1 DEF Happens, TypeOK, Positions
  <2>3. \A m \in 1 .. Len(log) : log[m].item \in Items /\ head[log[m].item] \in 1 .. Len(log)
    <3>1. \A m \in 1 .. Len(log) : log[m].item \in Items
      <4>1. log \in Seq([item : Items, live : BOOLEAN])
        BY DEF TypeOK
      <4>2. \A m \in 1 .. Len(log) : log[m] \in [item : Items, live : BOOLEAN]
        BY <4>1, ElementOfSeq
      <4> QED BY <4>2
    <3>2. \A m \in 1 .. Len(log) : m <= head[log[m].item]
      BY DEF Upstream
    <3> QED BY <2>2, <3>1, <3>2 DEF Upstream
  <2>4. \A m \in 1 .. Len(log') : m <= head'[log'[m].item]
    <3> SUFFICES ASSUME NEW m \in 1 .. Len(log') PROVE m <= head'[log'[m].item]
      OBVIOUS
    <3>1. CASE m = Len(log) + 1
      BY <2>1, <2>2, <3>1
    <3>2. CASE m \in 1 .. Len(log)
      BY <2>1, <2>2, <2>3, <3>2 DEF Upstream
    <3> QED BY <2>1, <2>2, <3>1, <3>2
  <2>5. \A j \in Items : head'[j] # 0 => head'[j] \in 1 .. Len(log') /\ log'[head'[j]].item = j
    <3> SUFFICES ASSUME NEW j \in Items, head'[j] # 0
                 PROVE  head'[j] \in 1 .. Len(log') /\ log'[head'[j]].item = j
      OBVIOUS
    <3>1. CASE j = i
      BY <2>1, <2>2, <3>1
    <3>2. CASE j # i
      BY <2>1, <2>2, <3>2 DEF Upstream
    <3> QED BY <3>1, <3>2
  <2> QED BY <2>4, <2>5 DEF Upstream
<1>2. CASE Steal
  BY <1>2 DEF Steal, Upstream
<1>3. CASE Disconnect
  BY <1>3 DEF Disconnect, Upstream
<1>4. CASE Reconnect
  BY <1>4 DEF Reconnect, Upstream
<1>5. ASSUME NEW p \in Pulls, Start(p) PROVE Upstream'
  BY <1>5 DEF Start, Upstream
<1>6. ASSUME NEW p \in Pulls, Capture(p) PROVE Upstream'
  BY <1>6 DEF Capture, Upstream
<1>7. ASSUME NEW p \in Pulls, ListSlice(p) PROVE Upstream'
  BY <1>7 DEF ListSlice, Upstream
<1>8. ASSUME NEW p \in Pulls, ListChanges(p) PROVE Upstream'
  BY <1>8 DEF ListChanges, Upstream
<1>9. ASSUME NEW p \in Pulls, NEW i \in Items, Fetch(p, i) PROVE Upstream'
  BY <1>9 DEF Fetch, Upstream
<1>10. ASSUME NEW p \in Pulls, NEW i \in Items, Missing(p, i) PROVE Upstream'
  BY <1>10 DEF Missing, Upstream
<1>11. ASSUME NEW p \in Pulls, NEW i \in Items, Ingest(p, i) PROVE Upstream'
  BY <1>11 DEF Ingest, Upstream
<1>12. ASSUME NEW p \in Pulls, Sweep(p) PROVE Upstream'
  BY <1>12 DEF Sweep, Upstream
<1>13. ASSUME NEW p \in Pulls, Admit(p) PROVE Upstream'
  BY <1>13 DEF Admit, Upstream
<1>14. ASSUME NEW p \in Pulls, Embed(p) PROVE Upstream'
  BY <1>14 DEF Embed, Upstream
<1>15. ASSUME NEW p \in Pulls, Save(p) PROVE Upstream'
  BY <1>15 DEF Save, Upstream
<1>16. ASSUME NEW p \in Pulls, Expire(p) PROVE Upstream'
  BY <1>16 DEF Expire, Upstream
<1>17. ASSUME NEW p \in Pulls, ListFails(p) PROVE Upstream'
  BY <1>17 DEF ListFails, Upstream
<1>18. ASSUME NEW p \in Pulls, IdentityChanged(p) PROVE Upstream'
  BY <1>18 DEF IdentityChanged, Upstream
<1>19. ASSUME NEW p \in Pulls, Refuse(p) PROVE Upstream'
  BY <1>19 DEF Refuse, Upstream
<1>20. ASSUME NEW p \in Pulls, EmbedFails(p) PROVE Upstream'
  BY <1>20 DEF EmbedFails, Upstream
<1>21. ASSUME NEW p \in Pulls, Exhaust(p) PROVE Upstream'
  BY <1>21 DEF Exhaust, Upstream
<1>22. ASSUME NEW p \in Pulls, Die(p) PROVE Upstream'
  BY <1>22 DEF Die, Upstream
<1>23. ASSUME NEW p \in Pulls, NEW i \in Items, FetchFails(p, i) PROVE Upstream'
  BY <1>23 DEF FetchFails, Upstream
<1>24. ASSUME NEW p \in Pulls, NEW i \in Items, IngestFails(p, i) PROVE Upstream'
  BY <1>24 DEF IngestFails, Upstream
<1>25. CASE UNCHANGED vars
  BY <1>25 DEF vars, Upstream
<1> QED BY <1>1, <1>2, <1>3, <1>4, <1>5, <1>6, <1>7, <1>8, <1>9, <1>10, <1>11, <1>12, <1>13,
          <1>14, <1>15, <1>16, <1>17, <1>18, <1>19, <1>20, <1>21, <1>22, <1>23, <1>24, <1>25
       DEF Next, Provider, Works, Fails

LEMMA WellMarked ==
  ASSUME TypeOK
  PROVE  /\ WellFormed(NoCursor)
         /\ \A n, b \in Positions, rest \in SUBSET Items :
              n <= Len(log) => WellFormed(Delta(n, b)) /\ WellFormed(Backfill(n, rest)) /\ WellFormed(After(n, rest))
BY DEF TypeOK, WellFormed, NoCursor, Delta, Backfill, After

LEMMA Longer ==
  ASSUME TypeOK, Cursors, Len(log') >= Len(log), Len(log') \in Nat, link'.cursor \in {link.cursor, NoCursor}, pull' = pull
  PROVE  Cursors'
<1>1. link.cursor \in Cursor /\ Len(log) \in Nat
  BY DEF TypeOK
<1>2. \A c \in Cursor : WellFormed(c) => WellFormed(c)'
  BY <1>1, Marks DEF WellFormed
<1>3. WellFormed(NoCursor)
  BY WellMarked
<1>4. \A p \in Pulls : pull[p].cursor \in Cursor /\ pull[p].next \in Cursor
  BY Fields DEF TypeOK
<1>5. WellFormed(NoCursor)'
  BY <1>2, <1>3, Marked
<1>6. WellFormed(link.cursor) => (link'.cursor = link.cursor => WellFormed(link.cursor)')
  BY <1>1, <1>2 DEF WellFormed
<1> QED BY <1>1, <1>2, <1>4, <1>5, <1>6 DEF Cursors, WellFormed

LEMMA CursorsStep ==
  ASSUME NEW p \in Pulls, Cursors, log' = log, \A q \in Pulls \ {p} : pull'[q] = pull[q],
         WellFormed(link'.cursor), WellFormed(pull'[p].cursor), WellFormed(pull'[p].next)
  PROVE  Cursors'
<1>1. \A q \in Pulls : WellFormed(pull'[q].cursor) /\ WellFormed(pull'[q].next)
  BY DEF Cursors
<1> QED BY <1>1 DEF Cursors, WellFormed

LEMMA NextCursors ==
  ASSUME TypeOK, Cursors, [Next]_vars
  PROVE  Cursors'
<1>1. ASSUME NEW i \in Items, NEW live \in BOOLEAN, Happens(i, live) PROVE Cursors'
  BY <1>1, Longer DEF Happens, TypeOK
<1>2. CASE Steal
  BY <1>2, Longer DEF Steal, TypeOK
<1>3. CASE Disconnect
  BY <1>3, Longer DEF Disconnect, TypeOK
<1>4. CASE Reconnect
  BY <1>4, Longer DEF Reconnect, TypeOK
<1>5. ASSUME NEW p \in Pulls, Start(p) PROVE Cursors'
  <2>1. log' = log /\ \A q \in Pulls \ {p} : pull'[q] = pull[q]
    BY <1>5, StartPuts DEF Start, Puts
  <2>2. /\ WellFormed(pull[p].cursor) /\ WellFormed(pull[p].next)
        /\ WellFormed(link.cursor) /\ WellFormed(NoCursor)
    BY WellMarked DEF Cursors
  <2>3. WellFormed(link'.cursor)
    BY <1>5, <2>2 DEF Start
  <2>4. WellFormed(pull'[p].cursor) /\ WellFormed(pull'[p].next)
    BY <1>5, <2>2, StartPuts DEF Start, Puts
  <2> QED BY <2>1, <2>3, <2>4, CursorsStep
<1>6. ASSUME NEW p \in Pulls, Capture(p) PROVE Cursors'
  <2>1. Len(log) \in Positions
    BY PullAssumption DEF TypeOK, Positions
  <2>2. WellFormed(Backfill(Len(log), {}))
    BY <2>1, WellMarked
  <2> QED BY <1>6, <2>2, CapturePuts, CursorsStep DEF Capture, Puts, Cursors
<1>7. ASSUME NEW p \in Pulls, ListSlice(p) PROVE Cursors'
  <2>1. PICK slice \in SUBSET Offered(p) :
          Puts(p, "fetch", pull[p].fence, pull[p].cursor, After(Token(p), Offered(p) \ slice), slice,
               pull[p].got, pull[p].gone, pull[p].hold)
    BY <1>7, SliceStep
  <2>2. Token(p) \in Positions /\ Token(p) <= Len(log)
    BY Fields, Marks DEF TypeOK, Token, Cursors, WellFormed
  <2>3. Offered(p) \subseteq Items
    BY Fields, Marks DEF TypeOK, Offered
  <2>4. WellFormed(After(Token(p), Offered(p) \ slice))
    BY <2>2, <2>3, WellMarked
  <2> QED BY <1>7, <2>1, <2>4, CursorsStep DEF ListSlice, Puts, Cursors
<1>8. ASSUME NEW p \in Pulls, ListChanges(p) PROVE Cursors'
  <2>1. PICK to \in pull[p].cursor.pos .. Len(log) :
          Puts(p, "fetch", pull[p].fence, pull[p].cursor, Resume(p, to),
               {i \in Changed(p, to) : Settles(p, i, to)}, pull[p].got,
               {i \in Changed(p, to) : ~Settles(p, i, to)}, pull[p].hold)
    BY <1>8, PageStep
  <2>2. pull[p].cursor.pos \in Positions /\ pull[p].cursor.base \in Positions
    BY Fields, Marks DEF TypeOK
  <2>3. to \in Positions /\ to <= Len(log)
    BY <2>1, <2>2, PullAssumption DEF TypeOK, Positions
  <2>4. WellFormed(Resume(p, to))
    BY <2>2, <2>3, WellMarked DEF Resume
  <2> QED BY <1>8, <2>1, <2>4, CursorsStep DEF ListChanges, Puts, Cursors
<1>9. ASSUME NEW p \in Pulls, NEW i \in Items, Fetch(p, i) PROVE Cursors'
  <2>1. log' = log /\ \A q \in Pulls \ {p} : pull'[q] = pull[q]
    BY <1>9, FetchPuts DEF Fetch, Puts
  <2>2. /\ WellFormed(pull[p].cursor) /\ WellFormed(pull[p].next)
        /\ WellFormed(link.cursor) /\ WellFormed(NoCursor)
    BY WellMarked DEF Cursors
  <2>3. WellFormed(link'.cursor)
    BY <1>9, <2>2 DEF Fetch
  <2>4. WellFormed(pull'[p].cursor) /\ WellFormed(pull'[p].next)
    BY <1>9, <2>2, FetchPuts DEF Fetch, Puts
  <2> QED BY <2>1, <2>3, <2>4, CursorsStep
<1>10. ASSUME NEW p \in Pulls, NEW i \in Items, Missing(p, i) PROVE Cursors'
  <2>1. log' = log /\ \A q \in Pulls \ {p} : pull'[q] = pull[q]
    BY <1>10, MissingPuts DEF Missing, Puts
  <2>2. /\ WellFormed(pull[p].cursor) /\ WellFormed(pull[p].next)
        /\ WellFormed(link.cursor) /\ WellFormed(NoCursor)
    BY WellMarked DEF Cursors
  <2>3. WellFormed(link'.cursor)
    BY <1>10, <2>2 DEF Missing
  <2>4. WellFormed(pull'[p].cursor) /\ WellFormed(pull'[p].next)
    BY <1>10, <2>2, MissingPuts DEF Missing, Puts
  <2> QED BY <2>1, <2>3, <2>4, CursorsStep
<1>11. ASSUME NEW p \in Pulls, NEW i \in Items, Ingest(p, i) PROVE Cursors'
  <2>1. log' = log /\ \A q \in Pulls \ {p} : pull'[q] = pull[q]
    BY <1>11, IngestPuts DEF Ingest, Puts
  <2>2. /\ WellFormed(pull[p].cursor) /\ WellFormed(pull[p].next)
        /\ WellFormed(link.cursor) /\ WellFormed(NoCursor)
    BY WellMarked DEF Cursors
  <2>3. WellFormed(link'.cursor)
    BY <1>11, <2>2 DEF Ingest
  <2>4. WellFormed(pull'[p].cursor) /\ WellFormed(pull'[p].next)
    BY <1>11, <2>2, IngestPuts DEF Ingest, Puts
  <2> QED BY <2>1, <2>3, <2>4, CursorsStep
<1>12. ASSUME NEW p \in Pulls, Sweep(p) PROVE Cursors'
  <2>1. log' = log /\ \A q \in Pulls \ {p} : pull'[q] = pull[q]
    BY <1>12, SweepPuts DEF Sweep, Puts
  <2>2. /\ WellFormed(pull[p].cursor) /\ WellFormed(pull[p].next)
        /\ WellFormed(link.cursor) /\ WellFormed(NoCursor)
    BY WellMarked DEF Cursors
  <2>3. WellFormed(link'.cursor)
    BY <1>12, <2>2 DEF Sweep
  <2>4. WellFormed(pull'[p].cursor) /\ WellFormed(pull'[p].next)
    BY <1>12, <2>2, SweepPuts DEF Sweep, Puts
  <2> QED BY <2>1, <2>3, <2>4, CursorsStep
<1>13. ASSUME NEW p \in Pulls, Admit(p) PROVE Cursors'
  <2>1. log' = log /\ \A q \in Pulls \ {p} : pull'[q] = pull[q]
    BY <1>13, AdmitPuts DEF Admit, Puts
  <2>2. /\ WellFormed(pull[p].cursor) /\ WellFormed(pull[p].next)
        /\ WellFormed(link.cursor) /\ WellFormed(NoCursor)
    BY WellMarked DEF Cursors
  <2>3. WellFormed(link'.cursor)
    BY <1>13, <2>2 DEF Admit
  <2>4. WellFormed(pull'[p].cursor) /\ WellFormed(pull'[p].next)
    BY <1>13, <2>2, AdmitPuts DEF Admit, Puts
  <2> QED BY <2>1, <2>3, <2>4, CursorsStep
<1>14. ASSUME NEW p \in Pulls, Embed(p) PROVE Cursors'
  <2>1. log' = log /\ \A q \in Pulls \ {p} : pull'[q] = pull[q]
    BY <1>14, EmbedPuts DEF Embed, Puts
  <2>2. /\ WellFormed(pull[p].cursor) /\ WellFormed(pull[p].next)
        /\ WellFormed(link.cursor) /\ WellFormed(NoCursor)
    BY WellMarked DEF Cursors
  <2>3. WellFormed(link'.cursor)
    BY <1>14, <2>2 DEF Embed
  <2>4. WellFormed(pull'[p].cursor) /\ WellFormed(pull'[p].next)
    BY <1>14, <2>2, EmbedPuts DEF Embed, Puts
  <2> QED BY <2>1, <2>3, <2>4, CursorsStep
<1>15. ASSUME NEW p \in Pulls, Save(p) PROVE Cursors'
  <2>1. log' = log /\ \A q \in Pulls \ {p} : pull'[q] = pull[q]
    BY <1>15, IdlePuts DEF Save, Puts
  <2>2. /\ WellFormed(pull[p].cursor) /\ WellFormed(pull[p].next)
        /\ WellFormed(link.cursor) /\ WellFormed(NoCursor)
    BY WellMarked DEF Cursors
  <2>3. WellFormed(link'.cursor)
    BY <1>15, <2>2 DEF Save, Writes, Lands
  <2>4. WellFormed(pull'[p].cursor) /\ WellFormed(pull'[p].next)
    BY <1>15, <2>2, IdlePuts DEF Save, Puts
  <2> QED BY <2>1, <2>3, <2>4, CursorsStep
<1>16. ASSUME NEW p \in Pulls, Expire(p) PROVE Cursors'
  <2>1. log' = log /\ \A q \in Pulls \ {p} : pull'[q] = pull[q]
    BY <1>16, ExpirePuts DEF Expire, Puts
  <2>2. /\ WellFormed(pull[p].cursor) /\ WellFormed(pull[p].next)
        /\ WellFormed(link.cursor) /\ WellFormed(NoCursor)
    BY WellMarked DEF Cursors
  <2>3. WellFormed(link'.cursor)
    BY <1>16, <2>2 DEF Expire, Writes, Lands
  <2>4. WellFormed(pull'[p].cursor) /\ WellFormed(pull'[p].next)
    BY <1>16, <2>2, ExpirePuts DEF Expire, Puts
  <2> QED BY <2>1, <2>3, <2>4, CursorsStep
<1>17. ASSUME NEW p \in Pulls, ListFails(p) PROVE Cursors'
  <2>1. log' = log /\ \A q \in Pulls \ {p} : pull'[q] = pull[q]
    BY <1>17, StopsPuts DEF ListFails, Puts
  <2>2. /\ WellFormed(pull[p].cursor) /\ WellFormed(pull[p].next)
        /\ WellFormed(link.cursor) /\ WellFormed(NoCursor)
    BY WellMarked DEF Cursors
  <2>3. WellFormed(link'.cursor)
    BY <1>17, <2>2 DEF ListFails
  <2>4. WellFormed(pull'[p].cursor) /\ WellFormed(pull'[p].next)
    BY <1>17, <2>2, StopsPuts DEF ListFails, Puts
  <2> QED BY <2>1, <2>3, <2>4, CursorsStep
<1>18. ASSUME NEW p \in Pulls, IdentityChanged(p) PROVE Cursors'
  <2>1. log' = log /\ \A q \in Pulls \ {p} : pull'[q] = pull[q]
    BY <1>18, StopsPuts DEF IdentityChanged, Puts
  <2>2. /\ WellFormed(pull[p].cursor) /\ WellFormed(pull[p].next)
        /\ WellFormed(link.cursor) /\ WellFormed(NoCursor)
    BY WellMarked DEF Cursors
  <2>3. WellFormed(link'.cursor)
    BY <1>18, <2>2 DEF IdentityChanged
  <2>4. WellFormed(pull'[p].cursor) /\ WellFormed(pull'[p].next)
    BY <1>18, <2>2, StopsPuts DEF IdentityChanged, Puts
  <2> QED BY <2>1, <2>3, <2>4, CursorsStep
<1>19. ASSUME NEW p \in Pulls, Refuse(p) PROVE Cursors'
  <2>1. log' = log /\ \A q \in Pulls \ {p} : pull'[q] = pull[q]
    BY <1>19, StopsPuts DEF Refuse, Puts
  <2>2. /\ WellFormed(pull[p].cursor) /\ WellFormed(pull[p].next)
        /\ WellFormed(link.cursor) /\ WellFormed(NoCursor)
    BY WellMarked DEF Cursors
  <2>3. WellFormed(link'.cursor)
    BY <1>19, <2>2 DEF Refuse
  <2>4. WellFormed(pull'[p].cursor) /\ WellFormed(pull'[p].next)
    BY <1>19, <2>2, StopsPuts DEF Refuse, Puts
  <2> QED BY <2>1, <2>3, <2>4, CursorsStep
<1>20. ASSUME NEW p \in Pulls, EmbedFails(p) PROVE Cursors'
  <2>1. log' = log /\ \A q \in Pulls \ {p} : pull'[q] = pull[q]
    BY <1>20, StopsPuts DEF EmbedFails, Puts
  <2>2. /\ WellFormed(pull[p].cursor) /\ WellFormed(pull[p].next)
        /\ WellFormed(link.cursor) /\ WellFormed(NoCursor)
    BY WellMarked DEF Cursors
  <2>3. WellFormed(link'.cursor)
    BY <1>20, <2>2 DEF EmbedFails
  <2>4. WellFormed(pull'[p].cursor) /\ WellFormed(pull'[p].next)
    BY <1>20, <2>2, StopsPuts DEF EmbedFails, Puts
  <2> QED BY <2>1, <2>3, <2>4, CursorsStep
<1>21. ASSUME NEW p \in Pulls, Exhaust(p) PROVE Cursors'
  <2>1. log' = log /\ \A q \in Pulls \ {p} : pull'[q] = pull[q]
    BY <1>21, StopsPuts DEF Exhaust, Puts
  <2>2. /\ WellFormed(pull[p].cursor) /\ WellFormed(pull[p].next)
        /\ WellFormed(link.cursor) /\ WellFormed(NoCursor)
    BY WellMarked DEF Cursors
  <2>3. WellFormed(link'.cursor)
    BY <1>21, <2>2 DEF Exhaust
  <2>4. WellFormed(pull'[p].cursor) /\ WellFormed(pull'[p].next)
    BY <1>21, <2>2, StopsPuts DEF Exhaust, Puts
  <2> QED BY <2>1, <2>3, <2>4, CursorsStep
<1>22. ASSUME NEW p \in Pulls, Die(p) PROVE Cursors'
  <2>1. log' = log /\ \A q \in Pulls \ {p} : pull'[q] = pull[q]
    BY <1>22, IdlePuts DEF Die, Puts
  <2>2. /\ WellFormed(pull[p].cursor) /\ WellFormed(pull[p].next)
        /\ WellFormed(link.cursor) /\ WellFormed(NoCursor)
    BY WellMarked DEF Cursors
  <2>3. WellFormed(link'.cursor)
    BY <1>22, <2>2 DEF Die
  <2>4. WellFormed(pull'[p].cursor) /\ WellFormed(pull'[p].next)
    BY <1>22, <2>2, IdlePuts DEF Die, Puts
  <2> QED BY <2>1, <2>3, <2>4, CursorsStep
<1>23. ASSUME NEW p \in Pulls, NEW i \in Items, FetchFails(p, i) PROVE Cursors'
  <2>1. log' = log /\ \A q \in Pulls \ {p} : pull'[q] = pull[q]
    BY <1>23, FetchFailsPuts DEF FetchFails, Puts
  <2>2. /\ WellFormed(pull[p].cursor) /\ WellFormed(pull[p].next)
        /\ WellFormed(link.cursor) /\ WellFormed(NoCursor)
    BY WellMarked DEF Cursors
  <2>3. WellFormed(link'.cursor)
    BY <1>23, <2>2 DEF FetchFails
  <2>4. WellFormed(pull'[p].cursor) /\ WellFormed(pull'[p].next)
    BY <1>23, <2>2, FetchFailsPuts DEF FetchFails, Puts
  <2> QED BY <2>1, <2>3, <2>4, CursorsStep
<1>24. ASSUME NEW p \in Pulls, NEW i \in Items, IngestFails(p, i) PROVE Cursors'
  <2>1. log' = log /\ \A q \in Pulls \ {p} : pull'[q] = pull[q]
    BY <1>24, IngestFailsPuts DEF IngestFails, Puts
  <2>2. /\ WellFormed(pull[p].cursor) /\ WellFormed(pull[p].next)
        /\ WellFormed(link.cursor) /\ WellFormed(NoCursor)
    BY WellMarked DEF Cursors
  <2>3. WellFormed(link'.cursor)
    BY <1>24, <2>2 DEF IngestFails
  <2>4. WellFormed(pull'[p].cursor) /\ WellFormed(pull'[p].next)
    BY <1>24, <2>2, IngestFailsPuts DEF IngestFails, Puts
  <2> QED BY <2>1, <2>3, <2>4, CursorsStep
<1>25. CASE UNCHANGED vars
  BY <1>25, Longer DEF vars, TypeOK
<1> QED BY <1>1, <1>2, <1>3, <1>4, <1>5, <1>6, <1>7, <1>8, <1>9, <1>10, <1>11, <1>12, <1>13,
          <1>14, <1>15, <1>16, <1>17, <1>18, <1>19, <1>20, <1>21, <1>22, <1>23, <1>24, <1>25
       DEF Next, Provider, Works, Fails

LEMMA OthersStep ==
  ASSUME NEW p \in Pulls, \A q \in Pulls \ {p} : pull'[q] = pull[q], \A q \in Pulls : Steps(q), Steps(p)'
  PROVE  \A q \in Pulls : Steps(q)'
<1> SUFFICES ASSUME NEW q \in Pulls, q # p PROVE Steps(q)'
  OBVIOUS
<1>1. pull'[q] = pull[q] /\ Steps(q)
  OBVIOUS
<1> QED BY <1>1 DEF Steps, At, Listed, Hands, Pending

LEMMA StopsSteps ==
  ASSUME TypeOK, NEW p \in Pulls, Stops(p), pull[p].todo = {}
  PROVE  Steps(p)' /\ \A q \in Pulls \ {p} : pull'[q] = pull[q]
<1>1. Puts(p, "save", pull[p].fence, pull[p].cursor, pull[p].next, {}, Nothing, {}, TRUE)
  BY StopsPuts
<1>2. Hands(p)' = {}
  BY <1>1 DEF Puts, Hands, Pending, Nothing
<1> QED BY <1>1, <1>2 DEF Puts, Steps, At, Listed

LEMMA NextSteps ==
  ASSUME TypeOK, \A q \in Pulls : Steps(q), [Next]_vars
  PROVE  \A q \in Pulls : Steps(q)'
<1>1. ASSUME NEW i \in Items, NEW live \in BOOLEAN, Happens(i, live) PROVE \A q \in Pulls : Steps(q)'
  BY <1>1 DEF Happens, Steps, At, Listed, Hands, Pending
<1>2. CASE Steal
  BY <1>2 DEF Steal, Steps, At, Listed, Hands, Pending
<1>3. CASE Disconnect
  BY <1>3 DEF Disconnect, Steps, At, Listed, Hands, Pending
<1>4. CASE Reconnect
  BY <1>4 DEF Reconnect, Steps, At, Listed, Hands, Pending
<1>5. ASSUME NEW p \in Pulls, Start(p) PROVE \A q \in Pulls : Steps(q)'
  <2>1. Hands(p)' = {} /\ ~(pull'[p].hold)
    BY <1>5, StartPuts DEF Puts, Hands, Pending, Nothing
  <2>2. Steps(p)'
    <3>1. pull'[p].at \in {"token", "list"}
      BY <1>5, StartPuts DEF Puts, Entry
    <3>2. At(p, "list")' /\ pull'[p].cursor.kind = "none"
          => pull'[p].next.kind = "backfill" /\ pull'[p].next.rest = {}
      BY <1>5, StartPuts DEF Puts, Entry, At, Backfill
    <3> QED BY <2>1, <3>1, <3>2 DEF Steps, At, Listed
  <2>3. \A q \in Pulls \ {p} : pull'[q] = pull[q]
    BY <1>5, StartPuts DEF Start, Puts
  <2> QED BY <2>2, <2>3, OthersStep
<1>6. ASSUME NEW p \in Pulls, Capture(p) PROVE \A q \in Pulls : Steps(q)'
  <2>0. Hands(p) = {} /\ ~pull[p].hold
    BY <1>6 DEF Capture, Steps, At, Listed
  <2>1. Hands(p)' = {} /\ ~(pull'[p].hold)
    BY <1>6, <2>0, CapturePuts DEF Puts, Hands, Pending, Nothing
  <2>2. Steps(p)'
    <3>1. pull'[p].at \in {"token", "list"}
      BY <1>6, CapturePuts DEF Puts, Entry
    <3>2. At(p, "list")' /\ pull'[p].cursor.kind = "none"
          => pull'[p].next.kind = "backfill" /\ pull'[p].next.rest = {}
      BY <1>6, CapturePuts DEF Puts, Entry, At, Backfill
    <3> QED BY <2>1, <3>1, <3>2 DEF Steps, At, Listed
  <2>3. \A q \in Pulls \ {p} : pull'[q] = pull[q]
    BY <1>6, CapturePuts DEF Capture, Puts
  <2> QED BY <2>2, <2>3, OthersStep
<1>7. ASSUME NEW p \in Pulls, ListSlice(p) PROVE \A q \in Pulls : Steps(q)'
  <2>1. PICK slice \in SUBSET Offered(p) :
          Puts(p, "fetch", pull[p].fence, pull[p].cursor, After(Token(p), Offered(p) \ slice), slice,
               pull[p].got, pull[p].gone, pull[p].hold)
    BY <1>7, SliceStep
  <2>2. Steps(p)'
    BY <2>1 DEF Puts, Steps, At, Listed, After, Delta, Backfill
  <2>3. \A q \in Pulls \ {p} : pull'[q] = pull[q]
    BY <2>1 DEF Puts
  <2> QED BY <2>2, <2>3, OthersStep
<1>8. ASSUME NEW p \in Pulls, ListChanges(p) PROVE \A q \in Pulls : Steps(q)'
  <2>1. PICK to \in pull[p].cursor.pos .. Len(log) :
          Puts(p, "fetch", pull[p].fence, pull[p].cursor, Resume(p, to),
               {i \in Changed(p, to) : Settles(p, i, to)}, pull[p].got,
               {i \in Changed(p, to) : ~Settles(p, i, to)}, pull[p].hold)
    BY <1>8, PageStep
  <2>2. Steps(p)'
    BY <2>1 DEF Puts, Steps, At, Listed, Resume, Delta
  <2>3. \A q \in Pulls \ {p} : pull'[q] = pull[q]
    BY <2>1 DEF Puts
  <2> QED BY <2>2, <2>3, OthersStep
<1>9. ASSUME NEW p \in Pulls, NEW i \in Items, Fetch(p, i) PROVE \A q \in Pulls : Steps(q)'
  <2>1. Steps(p)'
    BY <1>9, FetchPuts DEF Fetch, Puts, Steps, At, Listed, Hands, Pending, Nothing
  <2>2. \A q \in Pulls \ {p} : pull'[q] = pull[q]
    BY <1>9, FetchPuts DEF Fetch, Puts
  <2> QED BY <2>1, <2>2, OthersStep
<1>10. ASSUME NEW p \in Pulls, NEW i \in Items, Missing(p, i) PROVE \A q \in Pulls : Steps(q)'
  <2>1. Steps(p)'
    BY <1>10, MissingPuts DEF Missing, Puts, Steps, At, Listed, Hands, Pending, Nothing
  <2>2. \A q \in Pulls \ {p} : pull'[q] = pull[q]
    BY <1>10, MissingPuts DEF Missing, Puts
  <2> QED BY <2>1, <2>2, OthersStep
<1>11. ASSUME NEW p \in Pulls, NEW i \in Items, Ingest(p, i) PROVE \A q \in Pulls : Steps(q)'
  <2>1. Steps(p)'
    BY <1>11, IngestPuts DEF Ingest, Puts, Steps, At, Listed, Hands, Pending, Nothing
  <2>2. \A q \in Pulls \ {p} : pull'[q] = pull[q]
    BY <1>11, IngestPuts DEF Ingest, Puts
  <2> QED BY <2>1, <2>2, OthersStep
<1>12. ASSUME NEW p \in Pulls, Sweep(p) PROVE \A q \in Pulls : Steps(q)'
  <2>1. Steps(p)'
    BY <1>12, SweepPuts DEF Sweep, Puts, Steps, At, Listed, Hands, Pending, Nothing
  <2>2. \A q \in Pulls \ {p} : pull'[q] = pull[q]
    BY <1>12, SweepPuts DEF Sweep, Puts
  <2> QED BY <2>1, <2>2, OthersStep
<1>13. ASSUME NEW p \in Pulls, Admit(p) PROVE \A q \in Pulls : Steps(q)'
  <2>1. Steps(p)'
    BY <1>13, AdmitPuts DEF Admit, Puts, Steps, At, Listed, Hands, Pending, Nothing
  <2>2. \A q \in Pulls \ {p} : pull'[q] = pull[q]
    BY <1>13, AdmitPuts DEF Admit, Puts
  <2> QED BY <2>1, <2>2, OthersStep
<1>14. ASSUME NEW p \in Pulls, Embed(p) PROVE \A q \in Pulls : Steps(q)'
  <2>1. Steps(p)'
    BY <1>14, EmbedPuts DEF Embed, Puts, Steps, At, Listed, Hands, Pending, Nothing
  <2>2. \A q \in Pulls \ {p} : pull'[q] = pull[q]
    BY <1>14, EmbedPuts DEF Embed, Puts
  <2> QED BY <2>1, <2>2, OthersStep
<1>15. ASSUME NEW p \in Pulls, Save(p) PROVE \A q \in Pulls : Steps(q)'
  <2>1. Steps(p)'
    BY <1>15, IdlePuts DEF Save, Puts, Steps, At, Listed, Hands, Pending, Nothing
  <2>2. \A q \in Pulls \ {p} : pull'[q] = pull[q]
    BY <1>15, IdlePuts DEF Save, Puts
  <2> QED BY <2>1, <2>2, OthersStep
<1>16. ASSUME NEW p \in Pulls, Expire(p) PROVE \A q \in Pulls : Steps(q)'
  <2>0. Hands(p) = {} /\ ~pull[p].hold
    BY <1>16 DEF Expire, Steps, At, Listed
  <2>1. Hands(p)' = {} /\ ~(pull'[p].hold)
    BY <1>16, <2>0, ExpirePuts DEF Puts, Hands, Pending, Nothing
  <2>2. Steps(p)'
    <3>1. pull'[p].at \in {"token", "list"}
      BY <1>16, ExpirePuts DEF Puts, Entry
    <3>2. At(p, "list")' /\ pull'[p].cursor.kind = "none"
          => pull'[p].next.kind = "backfill" /\ pull'[p].next.rest = {}
      BY <1>16, ExpirePuts DEF Puts, Entry, At, Backfill
    <3> QED BY <2>1, <3>1, <3>2 DEF Steps, At, Listed
  <2>3. \A q \in Pulls \ {p} : pull'[q] = pull[q]
    BY <1>16, ExpirePuts DEF Expire, Puts
  <2> QED BY <2>2, <2>3, OthersStep
<1>17. ASSUME NEW p \in Pulls, ListFails(p) PROVE \A q \in Pulls : Steps(q)'
  <2>1. Stops(p) /\ pull[p].todo = {}
    BY <1>17 DEF ListFails, Steps, At, Listed, Hands
  <2> QED BY <2>1, StopsSteps, OthersStep
<1>18. ASSUME NEW p \in Pulls, IdentityChanged(p) PROVE \A q \in Pulls : Steps(q)'
  <2>1. Stops(p) /\ pull[p].todo = {}
    BY <1>18 DEF IdentityChanged, Steps, At, Listed, Hands
  <2> QED BY <2>1, StopsSteps, OthersStep
<1>19. ASSUME NEW p \in Pulls, Refuse(p) PROVE \A q \in Pulls : Steps(q)'
  <2>1. Stops(p) /\ pull[p].todo = {}
    BY <1>19 DEF Refuse, Steps, At, Listed, Hands
  <2> QED BY <2>1, StopsSteps, OthersStep
<1>20. ASSUME NEW p \in Pulls, EmbedFails(p) PROVE \A q \in Pulls : Steps(q)'
  <2>1. Stops(p) /\ pull[p].todo = {}
    BY <1>20 DEF EmbedFails, Steps, At, Listed, Hands
  <2> QED BY <2>1, StopsSteps, OthersStep
<1>21. ASSUME NEW p \in Pulls, Exhaust(p) PROVE \A q \in Pulls : Steps(q)'
  <2>1. Stops(p) /\ pull[p].todo = {}
    BY <1>21 DEF Exhaust, Steps, At, Listed, Hands
  <2> QED BY <2>1, StopsSteps, OthersStep
<1>22. ASSUME NEW p \in Pulls, Die(p) PROVE \A q \in Pulls : Steps(q)'
  <2>1. Steps(p)'
    BY <1>22, IdlePuts DEF Die, Puts, Steps, At, Listed, Hands, Pending, Nothing
  <2>2. \A q \in Pulls \ {p} : pull'[q] = pull[q]
    BY <1>22, IdlePuts DEF Die, Puts
  <2> QED BY <2>1, <2>2, OthersStep
<1>23. ASSUME NEW p \in Pulls, NEW i \in Items, FetchFails(p, i) PROVE \A q \in Pulls : Steps(q)'
  <2>1. Steps(p)'
    BY <1>23, FetchFailsPuts DEF FetchFails, Puts, Steps, At, Listed, Hands, Pending, Nothing
  <2>2. \A q \in Pulls \ {p} : pull'[q] = pull[q]
    BY <1>23, FetchFailsPuts DEF FetchFails, Puts
  <2> QED BY <2>1, <2>2, OthersStep
<1>24. ASSUME NEW p \in Pulls, NEW i \in Items, IngestFails(p, i) PROVE \A q \in Pulls : Steps(q)'
  <2>1. Steps(p)'
    BY <1>24, IngestFailsPuts DEF IngestFails, Puts, Steps, At, Listed, Hands, Pending, Nothing
  <2>2. \A q \in Pulls \ {p} : pull'[q] = pull[q]
    BY <1>24, IngestFailsPuts DEF IngestFails, Puts
  <2> QED BY <2>1, <2>2, OthersStep
<1>25. CASE UNCHANGED vars
  BY <1>25 DEF vars, Steps, At, Listed, Hands, Pending
<1> QED BY <1>1, <1>2, <1>3, <1>4, <1>5, <1>6, <1>7, <1>8, <1>9, <1>10, <1>11, <1>12, <1>13,
          <1>14, <1>15, <1>16, <1>17, <1>18, <1>19, <1>20, <1>21, <1>22, <1>23, <1>24, <1>25
       DEF Next, Provider, Works, Fails

-----------------------------------------------------------------------------
(* OnePull, one lemma per action. With one pull running, only the acting    *)
(* attempt is to be looked at.                                              *)
LEMMA OnlyMine ==
  ASSUME TypeOK, OnePull, NEW p \in Pulls, Busy(p), \A q \in Pulls \ {p} : pull'[q] = pull[q],
         Covers', Busy(p)' => Tied(p)' /\ Unpassed(p)' /\ Promise(p)'
  PROVE  OnePull'
<1>1. \A q \in Pulls \ {p} : ~Busy(q)
  BY DEF OnePull, Alone
<1>2. \A q \in Pulls \ {p} : ~(Busy(q)')
  BY <1>1 DEF Busy, At
<1> QED BY <1>2 DEF OnePull, Alone

\* A step of a pull that leaves the world alone keeps what it has read, and holds no more than it did.
LEMMA Quiet ==
  ASSUME TypeOK, OnePull, NEW p \in Pulls, Busy(p), UNCHANGED <<log, head, link, brain>>,
         \A q \in Pulls \ {p} : pull'[q] = pull[q],
         pull'[p].fence = pull[p].fence, pull'[p].cursor = pull[p].cursor,
         Hands(p)' \subseteq Hands(p), Promise(p)'
  PROVE  OnePull'
<1>1. Covers /\ Tied(p) /\ Unpassed(p)
  BY DEF OnePull
<1>2. Covers'
  BY <1>1 DEF Covers, PassedBy, Mirrors, Live
<1>3. Tied(p)'
  BY <1>1 DEF Tied, Lands
<1>4. Unpassed(p)'
  BY <1>1 DEF Unpassed, PassedBy
<1> QED BY <1>2, <1>3, <1>4, OnlyMine

\* Nothing is promised of a cursor that will be held.
LEMMA Holding ==
  ASSUME TypeOK, OnePull, NEW p \in Pulls, Busy(p), Steps(p), pull[p].todo = {}, Stops(p),
         UNCHANGED <<log, head, link, brain>>
  PROVE  OnePull'
<1>1. Puts(p, "save", pull[p].fence, pull[p].cursor, pull[p].next, {}, Nothing, {}, TRUE)
  BY StopsPuts
<1>2. Hands(p)' = {}
  BY <1>1 DEF Puts, Hands, Pending, Nothing
<1>3. Promise(p)'
  BY <1>1 DEF Puts, Promise
<1>4. pull'[p].fence = pull[p].fence /\ pull'[p].cursor = pull[p].cursor
      /\ \A q \in Pulls \ {p} : pull'[q] = pull[q]
  BY <1>1 DEF Puts
<1> QED BY <1>2, <1>3, <1>4, Quiet

LEMMA EventKept ==
  ASSUME TypeOK, Upstream, OnePull, Cursors, NEW i \in Items, NEW live \in BOOLEAN, Happens(i, live)
  PROVE  OnePull'
<1>1. head' = [head EXCEPT ![i] = Len(log) + 1] /\ head \in [Items -> Int] /\ Len(log) \in Nat
  BY DEF Happens, TypeOK, Positions
<1>2. \A m \in 1 .. Len(log) : log'[m] = log[m]
  BY DEF Happens, TypeOK
<1>3. UNCHANGED <<link, brain, pull>>
  BY DEF Happens
<1>4. \A j \in Items : j # i => head'[j] = head[j] /\ Live(j)' = Live(j)
  <2> SUFFICES ASSUME NEW j \in Items, j # i PROVE head'[j] = head[j] /\ Live(j)' = Live(j)
    OBVIOUS
  <2>1. head'[j] = head[j]
    BY <1>1
  <2>2. head[j] # 0 => head[j] \in 1 .. Len(log)
    BY DEF Upstream
  <2> QED BY <1>2, <2>1, <2>2 DEF Live
<1>5. \A c \in Cursor : WellFormed(c) =>
        \A j \in Items : (PassedBy(c, j)' => j # i) /\ (PassedBy(c, j)' => PassedBy(c, j)) /\ (j # i => PassedBy(c, j)' = PassedBy(c, j))
  <2> SUFFICES ASSUME NEW c \in Cursor, WellFormed(c), NEW j \in Items
               PROVE  (PassedBy(c, j)' => j # i) /\ (PassedBy(c, j)' => PassedBy(c, j))
                      /\ (j # i => PassedBy(c, j)' = PassedBy(c, j))
    OBVIOUS
  <2>1. c.pos <= Len(log) /\ c.pos \in Int
    BY Marks DEF WellFormed
  <2>2. CASE j = i
    BY <1>1, <2>1, <2>2 DEF PassedBy
  <2>3. CASE j # i
    BY <1>4, <2>3 DEF PassedBy
  <2> QED BY <2>2, <2>3
<1>6. link.cursor \in Cursor /\ WellFormed(link.cursor)
  BY DEF TypeOK, Cursors
<1>7. Covers'
  <2> SUFFICES ASSUME NEW j \in Items, PassedBy(link.cursor, j)' PROVE Mirrors(j, link.cursor.base)'
    BY DEF Covers
  <2>1. j # i /\ PassedBy(link.cursor, j)
    BY <1>3, <1>5, <1>6
  <2> QED BY <1>3, <1>4, <2>1 DEF OnePull, Covers, Mirrors
<1>8. ASSUME NEW q \in Pulls, Busy(q)' PROVE Tied(q)' /\ Unpassed(q)' /\ Promise(q)'
  <2>1. Busy(q) /\ Tied(q) /\ Unpassed(q) /\ Promise(q)
    BY <1>3, <1>8 DEF OnePull, Busy, At
  <2>2. Tied(q)'
    BY <1>3, <2>1 DEF Tied, Lands
  <2>3. pull[q].cursor \in Cursor /\ pull[q].next \in Cursor /\ WellFormed(pull[q].cursor) /\ WellFormed(pull[q].next)
    BY Fields DEF TypeOK, Cursors
  <2>4. Hands(q)' = Hands(q) /\ Pending(q)' = Pending(q) /\ Hands(q) \subseteq Items
    <3>1. Hands(q)' = Hands(q) /\ Pending(q)' = Pending(q)
      BY <1>3 DEF Hands, Pending
    <3>2. pull[q] \in Attempt
      BY DEF TypeOK
    <3> QED BY <3>1, <3>2, Fields DEF Hands, Pending
  <2>5. Unpassed(q)'
    BY <1>3, <1>5, <2>1, <2>3, <2>4 DEF Unpassed
  <2>6. Promise(q)'
    <3> SUFFICES ASSUME Listed(q), ~pull[q].hold, Lands(q), NEW j \in Items, PassedBy(pull[q].next, j)'
                 PROVE  Kept(q, j)'
      BY <1>3 DEF Promise, Listed, Lands
    <3>1. j # i /\ PassedBy(pull[q].next, j)
      BY <1>3, <1>5, <2>3
    <3>2. Kept(q, j)
      BY <2>1, <3>1 DEF Promise
    <3> QED BY <1>3, <1>4, <2>4, <3>1, <3>2 DEF Kept, Mirrors
  <2> QED BY <2>2, <2>5, <2>6
<1> QED BY <1>3, <1>7, <1>8 DEF OnePull, Alone, Busy, At

LEMMA DisconnectKept ==
  ASSUME TypeOK, OnePull, Disconnect
  PROVE  OnePull'
<1>1. UNCHANGED <<log, head, brain, pull>> /\ link'.cursor = NoCursor /\ link'.fence = link.fence + 1
  BY DEF Disconnect
<1>2. Covers'
  BY <1>1 DEF Covers, PassedBy, NoCursor
<1>3. ASSUME NEW q \in Pulls, Busy(q)' PROVE Tied(q)' /\ Unpassed(q)' /\ Promise(q)'
  <2>1. Busy(q) /\ Tied(q) /\ Unpassed(q)
    BY <1>1, <1>3 DEF OnePull, Busy, At
  <2>2. pull[q].fence \in Int /\ link.fence \in Int
    BY Fields DEF TypeOK
  <2>3. pull'[q].fence < link'.fence
    BY <1>1, <2>1, <2>2 DEF Tied
  <2>4. ~(Lands(q)')
    BY <1>1, <2>2, <2>3 DEF Lands
  <2>5. Tied(q)'
    BY <1>1, <2>2, <2>3, <2>4 DEF Tied
  <2>6. Unpassed(q)'
    BY <1>1, <2>1 DEF Unpassed, Hands, Pending, PassedBy
  <2> QED BY <2>4, <2>5, <2>6 DEF Promise
<1> QED BY <1>1, <1>2, <1>3 DEF OnePull, Alone, Busy, At

LEMMA ReconnectKept ==
  ASSUME TypeOK, OnePull, Reconnect
  PROVE  OnePull'
<1>1. UNCHANGED <<log, head, brain, pull>> /\ link'.cursor = link.cursor /\ link'.fence = link.fence
      /\ link'.conn = TRUE /\ ~link.conn
  BY DEF Reconnect, TypeOK
<1>2. Covers'
  BY <1>1 DEF OnePull, Covers, PassedBy, Mirrors, Live
<1>3. ASSUME NEW q \in Pulls, Busy(q)' PROVE Tied(q)' /\ Unpassed(q)' /\ Promise(q)'
  <2>1. Busy(q) /\ Tied(q) /\ Unpassed(q)
    BY <1>1, <1>3 DEF OnePull, Busy, At
  <2>2. pull[q].fence # link.fence /\ ~Lands(q)
    BY <1>1, <2>1 DEF Tied, Lands
  <2>3. ~(Lands(q)')
    BY <1>1, <2>2 DEF Lands
  <2>4. Tied(q)'
    BY <1>1, <2>1, <2>2, <2>3 DEF Tied
  <2>5. Unpassed(q)'
    BY <1>1, <2>1 DEF Unpassed, Hands, Pending, PassedBy
  <2> QED BY <2>3, <2>4, <2>5 DEF Promise
<1> QED BY <1>1, <1>2, <1>3 DEF OnePull, Alone, Busy, At

LEMMA StartKept ==
  ASSUME TypeOK, OnePull, NEW p \in Pulls, Start(p), ~(crowded')
  PROVE  OnePull'
<1>1. Puts(p, Entry(link.cursor), link.fence, link.cursor, NoCursor, {}, Nothing, {}, FALSE)
  BY StartPuts
<1>2. UNCHANGED <<log, head, link, brain>> /\ link.conn /\ \A q \in Pulls \ {p} : ~Busy(q)
  BY DEF Start, Busy
<1>3. Covers'
  BY <1>2 DEF OnePull, Covers, PassedBy, Mirrors, Live
<1>4. Tied(p)'
  BY <1>1, <1>2 DEF Puts, Tied, Lands, TypeOK
<1>5. Hands(p)' = {}
  BY <1>1 DEF Puts, Hands, Pending, Nothing
<1>6. ~(Listed(p)')
  BY <1>1 DEF Puts, Listed, Entry
<1>7. \A q \in Pulls \ {p} : ~(Busy(q)')
  BY <1>1, <1>2 DEF Puts, Busy, At
<1> QED BY <1>3, <1>4, <1>5, <1>6, <1>7 DEF OnePull, Alone, Unpassed, Promise

LEMMA ExpireKept ==
  ASSUME TypeOK, OnePull, NEW p \in Pulls, Steps(p), Expire(p)
  PROVE  OnePull'
<1>1. Puts(p, "token", pull[p].fence, NoCursor, pull[p].next, pull[p].todo, pull[p].got,
           pull[p].gone, pull[p].hold)
  BY ExpirePuts
<1>2. Busy(p) /\ Tied(p)
  BY DEF Expire, OnePull, Busy, At
<1>3. link'.cursor = NoCursor /\ link'.conn = link.conn /\ link'.fence = link.fence
  BY <1>2 DEF Expire, Writes, Lands, Tied, TypeOK
<1>4. Covers'
  BY <1>3 DEF Covers, PassedBy, NoCursor
<1>5. Tied(p)'
  BY <1>1, <1>2, <1>3 DEF Puts, Tied, Lands
<1>6. Unpassed(p)'
  BY <1>1 DEF Puts, Unpassed, PassedBy, NoCursor
<1>7. ~(Listed(p)')
  BY <1>1 DEF Puts, Listed
<1>8. \A q \in Pulls \ {p} : pull'[q] = pull[q]
  BY <1>1 DEF Puts
<1> QED BY <1>2, <1>4, <1>5, <1>6, <1>7, <1>8, OnlyMine DEF Promise

LEMMA SliceKept ==
  ASSUME TypeOK, OnePull, Cursors, NEW p \in Pulls, Steps(p), ListSlice(p)
  PROVE  OnePull'
<1>1. PICK slice \in SUBSET Offered(p) :
        Puts(p, "fetch", pull[p].fence, pull[p].cursor, After(Token(p), Offered(p) \ slice), slice,
             pull[p].got, pull[p].gone, pull[p].hold)
  BY SliceStep
<1>2. Busy(p) /\ Hands(p) = {} /\ ~pull[p].hold /\ pull[p].cursor.kind # "delta"
  BY DEF ListSlice, Busy, At, Steps, Listed
<1>3. Covers /\ Tied(p)
  BY <1>2 DEF OnePull
<1>4. UNCHANGED <<log, head, link, brain>> /\ \A q \in Pulls \ {p} : pull'[q] = pull[q]
  BY <1>1 DEF ListSlice, Puts
<1>5. Hands(p)' = slice /\ pull'[p].todo = slice /\ pull'[p].gone = {} /\ Pending(p)' = {}
  BY <1>1, <1>2 DEF Puts, Hands, Pending
<1>6. pull[p].cursor \in Cursor /\ WellFormed(pull[p].cursor) /\ pull[p].next \in Cursor
      /\ \A j \in Items : head[j] \in Int
  BY Fields DEF TypeOK, Cursors, Positions
<1>7. Unpassed(p)'
  <2> SUFFICES ASSUME NEW j \in slice PROVE ~PassedBy(pull[p].cursor, j)
    BY <1>1, <1>4, <1>5 DEF Puts, Unpassed, PassedBy
  <2> QED BY <1>2 DEF Offered, PassedBy
<1>8. Promise(p)'
  <2> DEFINE next == After(Token(p), Offered(p) \ slice)
  <2> SUFFICES ASSUME Lands(p), NEW j \in Items, PassedBy(next, j)
               PROVE  Kept(p, j)'
    BY <1>1, <1>4 DEF Puts, Promise, Lands, PassedBy
  <2>1. j \notin Offered(p) \ slice /\ head[j] <= Token(p) /\ next.base = Token(p)
    BY DEF PassedBy, After, Delta, Backfill
  <2>2. ASSUME j \in slice PROVE Live(j)
    BY <2>2 DEF Offered
  <2>3. ASSUME j \notin slice PROVE Mirrors(j, next.base)
    <3>1. CASE ~Live(j)
      BY <2>1, <3>1 DEF Mirrors
    <3>2. CASE Live(j)
      <4>1. pull[p].cursor.kind # "none" /\ j \notin pull[p].cursor.rest
        BY <2>1, <2>3, <3>2 DEF Offered
      <4>2. PassedBy(link.cursor, j)
        BY <1>3, <2>1, <4>1 DEF Tied, PassedBy, Token
      <4> QED BY <1>3, <3>2, <4>2 DEF Covers, Mirrors
    <3> QED BY <3>1, <3>2
  <2>4. pull'[p].next = next
    BY <1>1 DEF Puts
  <2> QED BY <1>4, <1>5, <2>2, <2>3, <2>4 DEF Kept, Mirrors, Live
<1>9. Tied(p)' /\ Covers'
  BY <1>1, <1>3, <1>4 DEF Puts, Tied, Lands, Covers, PassedBy, Mirrors, Live
<1> QED BY <1>2, <1>4, <1>7, <1>8, <1>9, OnlyMine

LEMMA PageKept ==
  ASSUME TypeOK, Upstream, OnePull, Cursors, NEW p \in Pulls, Steps(p), ListChanges(p)
  PROVE  OnePull'
<1>1. PICK to \in pull[p].cursor.pos .. Len(log) :
        Puts(p, "fetch", pull[p].fence, pull[p].cursor, Resume(p, to),
             {i \in Changed(p, to) : Settles(p, i, to)}, pull[p].got,
             {i \in Changed(p, to) : ~Settles(p, i, to)}, pull[p].hold)
  BY PageStep
<1> DEFINE pos == pull[p].cursor.pos
           todo == {i \in Changed(p, to) : Settles(p, i, to)}
           gone == {i \in Changed(p, to) : ~Settles(p, i, to)}
<1>2. Busy(p) /\ Hands(p) = {} /\ ~pull[p].hold /\ pull[p].cursor.kind = "delta"
  BY DEF ListChanges, Busy, At, Steps, Listed
<1>3. Covers /\ Tied(p)
  BY <1>2 DEF OnePull
<1>4. UNCHANGED <<log, head, link, brain>> /\ \A q \in Pulls \ {p} : pull'[q] = pull[q]
  BY <1>1 DEF ListChanges, Puts
<1>5. Hands(p)' = todo \cup gone /\ pull'[p].todo = todo /\ pull'[p].gone = gone /\ Pending(p)' = {}
  BY <1>1, <1>2 DEF Puts, Hands, Pending
<1>6. pull[p].cursor.rest = {} /\ pos \in Nat /\ Len(log) \in Nat /\ to \in Nat
      /\ \A j \in Items : head[j] \in Int
  <2>1. pull[p].cursor \in Cursor /\ WellFormed(pull[p].cursor)
    BY Fields DEF TypeOK, Cursors
  <2> QED BY <1>1, <1>2, <2>1 DEF Cursor, Positions, WellFormed, TypeOK
<1>7. ASSUME NEW j \in Changed(p, to)
      PROVE  /\ j \in Items /\ head[j] > pos
             /\ head[j] <= to => head[j] \in Events(j, pos, to) /\ (Settles(p, j, to) <=> Live(j))
  <2>1. PICK n \in Events(j, pos, to) : TRUE
    BY <1>7 DEF Changed
  <2>2. n \in 1 .. Len(log) /\ log[n].item = j /\ n > pos /\ j \in Items
    BY <1>1, <1>6, <1>7, <2>1 DEF Events, Changed
  <2>3. head[j] >= n
    BY <1>6, <2>2 DEF Upstream
  <2>4. head[j] > pos /\ head[j] # 0 /\ head[j] \in 1 .. Len(log) /\ log[head[j]].item = j
    BY <1>6, <2>2, <2>3 DEF Upstream
  <2>5. ASSUME head[j] <= to PROVE head[j] \in Events(j, pos, to)
    BY <1>6, <2>4, <2>5 DEF Events
  <2>6. \A m \in Events(j, pos, to) : m \in Int /\ m <= head[j]
    BY <1>1, <1>6 DEF Events, Upstream
  <2>7. ASSUME head[j] <= to PROVE Settles(p, j, to) <=> Live(j)
    <3>1. ASSUME NEW m \in Events(j, pos, to), \A k \in Events(j, pos, to) : k <= m PROVE m = head[j]
      BY <1>6, <2>2, <2>5, <2>6, <2>7, <3>1
    <3> QED BY <2>4, <2>5, <2>6, <2>7, <3>1 DEF Settles, Live
  <2> QED BY <2>2, <2>4, <2>5, <2>7
<1>8. Unpassed(p)'
  <2> SUFFICES ASSUME NEW j \in Changed(p, to) PROVE ~PassedBy(pull[p].cursor, j)
    BY <1>1, <1>4, <1>5 DEF Puts, Unpassed, PassedBy
  <2>1. head[j] > pos /\ head[j] \in Int
    BY <1>6, <1>7
  <2> QED BY <1>6, <2>1 DEF PassedBy
<1>9. Promise(p)'
  <2> SUFFICES ASSUME Lands(p), NEW j \in Items, PassedBy(Resume(p, to), j)
               PROVE  Kept(p, j)'
    BY <1>1, <1>4 DEF Puts, Promise, Lands, PassedBy
  <2>1. head[j] <= to /\ pull'[p].next.base = pull[p].cursor.base
    BY <1>1 DEF PassedBy, Resume, Delta, Puts
  <2>2. ASSUME j \in todo PROVE Live(j)
    BY <1>7, <2>1, <2>2
  <2>3. ASSUME j \in gone PROVE ~Live(j)
    BY <1>7, <2>1, <2>3
  <2>4. ASSUME j \notin todo \cup gone PROVE Mirrors(j, pull[p].cursor.base)
    <3>1. Events(j, pos, to) = {}
      BY <2>4 DEF Changed
    <3>2. head[j] <= pos
      <4> SUFFICES ASSUME head[j] > pos PROVE FALSE
        BY <1>6
      <4>1. head[j] # 0 /\ head[j] \in 1 .. Len(log) /\ log[head[j]].item = j
        BY <1>6 DEF Upstream
      <4> QED BY <1>6, <2>1, <3>1, <4>1 DEF Events
    <3>3. PassedBy(link.cursor, j)
      BY <1>2, <1>3, <1>6, <3>2 DEF Tied, PassedBy
    <3> QED BY <1>3, <3>3 DEF Covers, Tied
  <2> QED BY <1>4, <1>5, <2>1, <2>2, <2>3, <2>4 DEF Kept, Mirrors, Live
<1>10. Tied(p)' /\ Covers'
  BY <1>1, <1>3, <1>4 DEF Puts, Tied, Lands, Covers, PassedBy, Mirrors, Live
<1> QED BY <1>2, <1>4, <1>8, <1>9, <1>10, OnlyMine

LEMMA FetchKept ==
  ASSUME TypeOK, OnePull, NEW p \in Pulls, NEW i \in Items, Fetch(p, i)
  PROVE  OnePull'
<1>1. Puts(p, pull[p].at, pull[p].fence, pull[p].cursor, pull[p].next, pull[p].todo \ {i},
           [pull[p].got EXCEPT ![i] = head[i]], pull[p].gone, pull[p].hold)
  BY FetchPuts
<1>2. Busy(p) /\ i \in pull[p].todo /\ UNCHANGED <<log, head, link, brain>>
  BY DEF Fetch, Busy, At
<1>3. Promise(p)
  BY <1>2 DEF OnePull
<1>4. pull[p].got \in [Items -> Positions]
  BY Fields DEF TypeOK
<1>5. \A j \in Items : pull'[p].got[j] = IF j = i THEN head[i] ELSE pull[p].got[j]
  BY <1>1, <1>4 DEF Puts
<1>6. Hands(p)' \subseteq Hands(p) /\ \A j \in Items : j # i => (j \in Hands(p)' <=> j \in Hands(p))
  BY <1>1, <1>2, <1>5 DEF Puts, Hands, Pending
<1>7. Promise(p)'
  <2> SUFFICES ASSUME Listed(p), ~pull[p].hold, Lands(p), NEW j \in Items, PassedBy(pull[p].next, j)
               PROVE  Kept(p, j)'
    BY <1>1, <1>2 DEF Puts, Promise, Listed, Lands, PassedBy
  <2>1. Kept(p, j)
    BY <1>3 DEF Promise
  <2>2. CASE j = i
    <3>1. Live(i) /\ head[i] # 0
      BY <1>2, <2>1, <2>2 DEF Kept, Live
    <3>2. i \in Pending(p)' /\ i \notin pull'[p].todo /\ pull'[p].gone = pull[p].gone /\ i \in Hands(p)'
      BY <1>1, <1>5, <3>1 DEF Puts, Pending, Hands
    <3> QED BY <1>2, <1>5, <2>1, <2>2, <3>1, <3>2 DEF Kept, Live
  <2>3. CASE j # i
    <3>1. /\ j \in pull'[p].todo <=> j \in pull[p].todo
          /\ j \in pull'[p].gone <=> j \in pull[p].gone
          /\ j \in Pending(p)' <=> j \in Pending(p)
          /\ pull'[p].got[j] = pull[p].got[j] /\ pull'[p].next = pull[p].next
      BY <1>1, <1>5, <2>3 DEF Puts, Pending
    <3> QED BY <1>2, <1>6, <2>1, <2>3, <3>1 DEF Kept, Live, Mirrors
  <2> QED BY <2>2, <2>3
<1>8. pull'[p].fence = pull[p].fence /\ pull'[p].cursor = pull[p].cursor
      /\ \A q \in Pulls \ {p} : pull'[q] = pull[q]
  BY <1>1 DEF Puts
<1> QED BY <1>2, <1>6, <1>7, <1>8, Quiet

LEMMA MissingKept ==
  ASSUME TypeOK, OnePull, NEW p \in Pulls, NEW i \in Items, Missing(p, i)
  PROVE  OnePull'
<1>1. Puts(p, pull[p].at, pull[p].fence, pull[p].cursor, pull[p].next, pull[p].todo \ {i},
           pull[p].got, pull[p].gone, pull[p].hold)
  BY MissingPuts
<1>2. Busy(p) /\ i \in pull[p].todo /\ ~Live(i) /\ UNCHANGED <<log, head, link, brain>>
  BY DEF Missing, Busy, At
<1>3. Promise(p)
  BY <1>2 DEF OnePull
<1>4. Pending(p)' = Pending(p)
  BY <1>1 DEF Puts, Pending
<1>5. Hands(p)' \subseteq Hands(p) /\ \A j \in Items : j # i => (j \in Hands(p)' <=> j \in Hands(p))
  BY <1>1, <1>4 DEF Puts, Hands
<1>6. Promise(p)'
  <2> SUFFICES ASSUME Listed(p), ~pull[p].hold, Lands(p), NEW j \in Items, PassedBy(pull[p].next, j)
               PROVE  Kept(p, j)'
    BY <1>1, <1>2 DEF Puts, Promise, Listed, Lands, PassedBy
  <2>1. Kept(p, j)
    BY <1>3 DEF Promise
  <2>2. j # i
    BY <1>2, <2>1 DEF Kept
  <2> QED BY <1>1, <1>2, <1>4, <1>5, <2>1, <2>2 DEF Puts, Kept, Live, Mirrors
<1>7. pull'[p].fence = pull[p].fence /\ pull'[p].cursor = pull[p].cursor
      /\ \A q \in Pulls \ {p} : pull'[q] = pull[q]
  BY <1>1 DEF Puts
<1> QED BY <1>2, <1>5, <1>6, <1>7, Quiet

LEMMA SweepKept ==
  ASSUME TypeOK, OnePull, NEW p \in Pulls, Sweep(p)
  PROVE  OnePull'
<1>1. Puts(p, "gate", pull[p].fence, pull[p].cursor, pull[p].next, pull[p].todo, pull[p].got, {}, pull[p].hold)
  BY SweepPuts
<1>2. Busy(p) /\ UNCHANGED <<log, head, link>> /\ pull[p].todo = {}
      /\ \A j \in Items : brain'[j] = IF j \in pull[p].gone THEN 0 ELSE brain[j]
  BY DEF Sweep, Busy, At
<1>3. Covers /\ Tied(p) /\ Unpassed(p) /\ Promise(p)
  BY <1>2 DEF OnePull
<1>4. Pending(p)' = Pending(p) /\ Hands(p)' \subseteq Hands(p) /\ Hands(p) = Hands(p)' \cup pull[p].gone
  BY <1>1 DEF Puts, Pending, Hands
<1>5. \A j \in Items : PassedBy(link.cursor, j) => j \notin pull[p].gone
  BY <1>3 DEF Tied, Unpassed, PassedBy, Hands, NoCursor
<1>6. Covers'
  BY <1>2, <1>3, <1>5 DEF Covers, PassedBy, Mirrors, Live
<1>7. Tied(p)' /\ Unpassed(p)'
  BY <1>1, <1>2, <1>3, <1>4 DEF Puts, Tied, Lands, Unpassed, PassedBy
<1>8. Promise(p)'
  <2> SUFFICES ASSUME Listed(p), ~pull[p].hold, Lands(p), NEW j \in Items, PassedBy(pull[p].next, j)
               PROVE  Kept(p, j)'
    <3>1. Listed(p)
      BY <1>2 DEF Sweep, At, Listed
    <3> QED BY <1>1, <1>2, <3>1 DEF Puts, Promise, Lands, PassedBy
  <2>1. Kept(p, j)
    BY <1>3 DEF Promise
  <2>2. ASSUME j \notin Hands(p)' PROVE Mirrors(j, pull[p].next.base)'
    <3>1. CASE j \in pull[p].gone
      BY <1>1, <1>2, <2>1, <3>1 DEF Puts, Kept, Mirrors, Live
    <3>2. CASE j \notin pull[p].gone
      BY <1>1, <1>2, <1>4, <2>1, <2>2, <3>2 DEF Puts, Kept, Mirrors, Live
    <3> QED BY <3>1, <3>2
  <2> QED BY <1>1, <1>2, <1>4, <2>1, <2>2 DEF Puts, Kept, Mirrors, Live
<1>9. \A q \in Pulls \ {p} : pull'[q] = pull[q]
  BY <1>1 DEF Puts
<1> QED BY <1>2, <1>6, <1>7, <1>8, <1>9, OnlyMine

LEMMA IngestKept ==
  ASSUME TypeOK, OnePull, NEW p \in Pulls, Steps(p), NEW i \in Items, Ingest(p, i)
  PROVE  OnePull'
<1>1. Puts(p, pull[p].at, pull[p].fence, pull[p].cursor, pull[p].next, pull[p].todo,
           [pull[p].got EXCEPT ![i] = 0], pull[p].gone, pull[p].hold)
  BY IngestPuts
<1>2. Busy(p) /\ UNCHANGED <<log, head, link>> /\ i \in Pending(p) /\ pull[p].todo = {} /\ pull[p].gone = {}
      /\ \A j \in Items : brain'[j] = IF j = i THEN pull[p].got[i] ELSE brain[j]
  BY DEF Ingest, Busy, At, Steps, TypeOK
<1>3. Covers /\ Tied(p) /\ Unpassed(p) /\ Promise(p)
  BY <1>2 DEF OnePull
<1>4. pull[p].got \in [Items -> Positions]
  BY Fields DEF TypeOK
<1>5. \A j \in Items : pull'[p].got[j] = IF j = i THEN 0 ELSE pull[p].got[j]
  BY <1>1, <1>4 DEF Puts
<1>6. Pending(p)' = Pending(p) \ {i} /\ Hands(p)' = Pending(p)' /\ Hands(p) = Pending(p)
  BY <1>1, <1>2, <1>5 DEF Puts, Hands, Pending
<1>7. ~PassedBy(link.cursor, i)
  BY <1>2, <1>3, <1>6 DEF Tied, Unpassed, PassedBy, NoCursor
<1>8. Covers'
  BY <1>2, <1>3, <1>7 DEF Covers, PassedBy, Mirrors, Live
<1>9. Tied(p)' /\ Unpassed(p)'
  BY <1>1, <1>2, <1>3, <1>6 DEF Puts, Tied, Lands, Unpassed, PassedBy
<1>10. Promise(p)'
  <2> SUFFICES ASSUME Listed(p), ~pull[p].hold, Lands(p), NEW j \in Items, PassedBy(pull[p].next, j)
               PROVE  Kept(p, j)'
    BY <1>1, <1>2 DEF Puts, Promise, Listed, Lands, PassedBy
  <2>1. Kept(p, j)
    BY <1>3 DEF Promise
  <2>2. CASE j = i
    BY <1>1, <1>2, <1>5, <1>6, <2>1, <2>2 DEF Puts, Kept, Mirrors, Live
  <2>3. CASE j # i
    BY <1>1, <1>2, <1>5, <1>6, <2>1, <2>3 DEF Puts, Kept, Mirrors, Live
  <2> QED BY <2>2, <2>3
<1>11. \A q \in Pulls \ {p} : pull'[q] = pull[q]
  BY <1>1 DEF Puts
<1> QED BY <1>2, <1>8, <1>9, <1>10, <1>11, OnlyMine

\* A pull that saves leaves the row with a cursor whose promise has been kept, or the one it had.
LEMMA SaveKept ==
  ASSUME TypeOK, OnePull, NEW p \in Pulls, Steps(p), Save(p)
  PROVE  OnePull'
<1>1. Puts(p, "idle", 0, NoCursor, NoCursor, {}, Nothing, {}, FALSE)
  BY IdlePuts DEF Save
<1>2. Busy(p) /\ Hands(p) = {} /\ Listed(p) /\ UNCHANGED <<log, head, brain>>
  BY DEF Save, Busy, At, Steps, Listed
<1>3. Covers /\ Tied(p) /\ Promise(p)
  BY <1>2 DEF OnePull
<1>4. ASSUME ~(Lands(p) /\ ~pull[p].hold) PROVE Covers'
  <2>1. link'.cursor = link.cursor
    <3>1. Lands(p) => pull[p].cursor = link.cursor
      BY <1>3 DEF Tied
    <3> QED BY <1>4, <3>1 DEF Save, Writes, TypeOK
  <2> SUFFICES ASSUME NEW j \in Items, PassedBy(link.cursor, j)' PROVE Mirrors(j, link.cursor.base)'
    BY DEF Covers
  <2>2. Mirrors(j, link.cursor.base)
    BY <1>2, <1>3, <2>1 DEF Covers, PassedBy
  <2> QED BY <1>2, <2>1, <2>2 DEF Mirrors, Live
<1>5. ASSUME Lands(p) /\ ~pull[p].hold PROVE Covers'
  <2>1. link'.cursor = pull[p].next
    BY <1>5 DEF Save, Writes, TypeOK
  <2> SUFFICES ASSUME NEW j \in Items, PassedBy(link.cursor, j)' PROVE Mirrors(j, link.cursor.base)'
    BY DEF Covers
  <2>2. PassedBy(pull[p].next, j)
    BY <1>2, <2>1 DEF PassedBy
  <2>3. Mirrors(j, pull[p].next.base)
    BY <1>2, <1>3, <1>5, <2>2 DEF Promise, Kept
  <2> QED BY <1>2, <2>1, <2>3 DEF Mirrors, Live
<1>6. Covers'
  BY <1>4, <1>5
<1>7. ~(Busy(p)') /\ \A q \in Pulls \ {p} : pull'[q] = pull[q]
  BY <1>1 DEF Puts, Busy, At
<1> QED BY <1>2, <1>6, <1>7, OnlyMine

LEMMA DieKept ==
  ASSUME TypeOK, OnePull, NEW p \in Pulls, Die(p)
  PROVE  OnePull'
<1>1. Puts(p, "idle", 0, NoCursor, NoCursor, {}, Nothing, {}, FALSE)
  BY IdlePuts DEF Die
<1>2. Busy(p) /\ UNCHANGED <<log, head, link, brain>>
  BY DEF Die, Busy
<1>3. Covers'
  BY <1>2 DEF OnePull, Covers, PassedBy, Mirrors, Live
<1>4. ~(Busy(p)') /\ \A q \in Pulls \ {p} : pull'[q] = pull[q]
  BY <1>1 DEF Puts, Busy, At
<1> QED BY <1>2, <1>3, <1>4, OnlyMine

\* The steps that change only where the pull is, or that give an item up and hold the cursor.
LEMMA CaptureKept ==
  ASSUME TypeOK, OnePull, NEW p \in Pulls, Steps(p), Capture(p)
  PROVE  OnePull'
<1>1. Puts(p, "list", pull[p].fence, pull[p].cursor, Backfill(Len(log), {}), pull[p].todo, pull[p].got,
           pull[p].gone, pull[p].hold)
  BY CapturePuts
<1>2. Busy(p) /\ UNCHANGED <<log, head, link, brain>>
  BY DEF Capture, Busy, At
<1>3. Hands(p)' = Hands(p) /\ ~(Listed(p)')
  BY <1>1 DEF Puts, Hands, Pending, Listed
<1>4. pull'[p].fence = pull[p].fence /\ pull'[p].cursor = pull[p].cursor
      /\ \A q \in Pulls \ {p} : pull'[q] = pull[q]
  BY <1>1 DEF Puts
<1> QED BY <1>2, <1>3, <1>4, Quiet DEF Promise

LEMMA MovedKept ==
  ASSUME TypeOK, OnePull, NEW p \in Pulls, Admit(p) \/ Embed(p)
  PROVE  OnePull'
<1>1. PICK at \in {"ingest", "save"} :
        Puts(p, at, pull[p].fence, pull[p].cursor, pull[p].next, pull[p].todo, pull[p].got, pull[p].gone, pull[p].hold)
  BY AdmitPuts, EmbedPuts
<1>2. Busy(p) /\ Listed(p) /\ UNCHANGED <<log, head, link, brain>>
  BY DEF Admit, Embed, Busy, At, Listed
<1>3. Hands(p)' = Hands(p) /\ Pending(p)' = Pending(p)
  BY <1>1 DEF Puts, Hands, Pending
<1>4. Promise(p)
  BY <1>2 DEF OnePull
<1>5. Promise(p)'
  BY <1>1, <1>2, <1>3, <1>4 DEF Puts, Promise, Lands, PassedBy, Kept, Mirrors, Live
<1>6. pull'[p].fence = pull[p].fence /\ pull'[p].cursor = pull[p].cursor
      /\ \A q \in Pulls \ {p} : pull'[q] = pull[q]
  BY <1>1 DEF Puts
<1> QED BY <1>2, <1>3, <1>5, <1>6, Quiet

LEMMA FetchFailsKept ==
  ASSUME TypeOK, OnePull, NEW p \in Pulls, NEW i \in Items, FetchFails(p, i)
  PROVE  OnePull'
<1>1. Puts(p, pull[p].at, pull[p].fence, pull[p].cursor, pull[p].next, pull[p].todo \ {i},
           pull[p].got, pull[p].gone, TRUE)
  BY FetchFailsPuts
<1>2. Busy(p) /\ UNCHANGED <<log, head, link, brain>>
  BY DEF FetchFails, Busy, At
<1>3. Hands(p)' \subseteq Hands(p) /\ Promise(p)'
  BY <1>1 DEF Puts, Hands, Pending, Promise
<1>4. pull'[p].fence = pull[p].fence /\ pull'[p].cursor = pull[p].cursor
      /\ \A q \in Pulls \ {p} : pull'[q] = pull[q]
  BY <1>1 DEF Puts
<1> QED BY <1>2, <1>3, <1>4, Quiet

LEMMA IngestFailsKept ==
  ASSUME TypeOK, OnePull, NEW p \in Pulls, NEW i \in Items, IngestFails(p, i)
  PROVE  OnePull'
<1>1. Puts(p, pull[p].at, pull[p].fence, pull[p].cursor, pull[p].next, pull[p].todo,
           [pull[p].got EXCEPT ![i] = 0], pull[p].gone, TRUE)
  BY IngestFailsPuts
<1>2. Busy(p) /\ UNCHANGED <<log, head, link, brain>>
  BY DEF IngestFails, Busy, At
<1>3. pull[p].got \in [Items -> Positions]
  BY Fields DEF TypeOK
<1>4. Pending(p)' \subseteq Pending(p)
  BY <1>1, <1>3 DEF Puts, Pending
<1>5. Hands(p)' \subseteq Hands(p) /\ Promise(p)'
  BY <1>1, <1>4 DEF Puts, Hands, Promise
<1>6. pull'[p].fence = pull[p].fence /\ pull'[p].cursor = pull[p].cursor
      /\ \A q \in Pulls \ {p} : pull'[q] = pull[q]
  BY <1>1 DEF Puts
<1> QED BY <1>2, <1>5, <1>6, Quiet

LEMMA StopsKept ==
  ASSUME TypeOK, OnePull, NEW p \in Pulls, Steps(p),
         ListFails(p) \/ IdentityChanged(p) \/ Refuse(p) \/ EmbedFails(p) \/ Exhaust(p)
  PROVE  OnePull'
<1>1. Busy(p) /\ pull[p].todo = {} /\ Stops(p) /\ UNCHANGED <<log, head, link, brain>>
  BY DEF ListFails, IdentityChanged, Refuse, EmbedFails, Exhaust, Busy, At, Steps, Listed, Hands
<1> QED BY <1>1, Holding

LEMMA NextOnePull ==
  ASSUME TypeOK, Upstream, Cursors, \A q \in Pulls : Steps(q), ~crowded => OnePull, [Next]_vars, ~(crowded')
  PROVE  OnePull'
<1>0. OnePull
  <2>1. crowded => crowded'
    BY DEF Next, Provider, Works, Fails, vars, Happens, Steal, Disconnect, Reconnect, Start, Expire, Capture,
           ListFails, ListSlice, ListChanges, Fetch, Missing, FetchFails, IdentityChanged, Sweep, Admit, Refuse,
           Ingest, IngestFails, Embed, EmbedFails, Exhaust, Save, Die
  <2> QED BY <2>1
<1>1. CASE Provider
  BY <1>0, <1>1, EventKept DEF Provider
<1>2. CASE Steal \/ UNCHANGED vars
  BY <1>0, <1>2 DEF Steal, vars, OnePull, Alone, Busy, At, Covers, PassedBy, Mirrors, Live, Tied, Lands, Unpassed,
       Hands, Pending, Promise, Listed, Kept
<1>3. CASE Disconnect \/ Reconnect
  BY <1>0, <1>3, DisconnectKept, ReconnectKept
<1>4. ASSUME NEW p \in Pulls, Works(p) PROVE OnePull'
  BY <1>0, <1>4, StartKept, CaptureKept, SliceKept, PageKept, FetchKept, MissingKept, IngestKept, SweepKept,
     MovedKept, SaveKept DEF Works
<1>5. ASSUME NEW p \in Pulls, Fails(p) PROVE OnePull'
  BY <1>0, <1>5, ExpireKept, StopsKept, DieKept, FetchFailsKept, IngestFailsKept DEF Fails
<1> QED BY <1>1, <1>2, <1>3, <1>4, <1>5 DEF Next

-----------------------------------------------------------------------------
LEMMA Beginning == ASSUME Init PROVE IInv
<1>1. TypeOK
  <2>1. 0 \in Positions /\ 0 \in 0 .. MaxFence
    BY PullAssumption DEF Positions
  <2>2. log \in Seq([item : Items, live : BOOLEAN]) /\ Len(log) <= MaxEvents
    BY PullAssumption DEF Init
  <2>3. link \in [conn : BOOLEAN, fence : 0 .. MaxFence, cursor : Cursor]
    BY <2>1, Marked DEF Init
  <2>4. brain \in [Items -> Positions] /\ head \in [Items -> Positions] /\ pull \in [Pulls -> Attempt]
    BY Blank DEF Init
  <2> QED BY <2>2, <2>3, <2>4 DEF TypeOK, Init
<1>2. Upstream
  BY DEF Init, Upstream, Nothing
<1>3. Cursors
  BY DEF Init, Cursors, WellFormed, NoCursor, Idle
<1>4. \A p \in Pulls : Hands(p) = {} /\ At(p, "idle") /\ ~pull[p].hold
  BY DEF Init, Hands, Pending, Idle, Nothing, At
<1>5. \A p \in Pulls : Steps(p)
  BY <1>4 DEF Steps, At, Listed
<1>6. OnePull
  BY <1>4 DEF OnePull, Alone, Busy, Covers, Init, PassedBy, NoCursor
<1> QED BY <1>1, <1>2, <1>3, <1>5, <1>6 DEF IInv

LEMMA Inductive == ASSUME IInv, [Next]_vars PROVE IInv'
BY NextTypeOK, NextUpstream, NextCursors, NextSteps, NextOnePull DEF IInv

LEMMA Invariance == Spec => []IInv
BY Beginning, Inductive, PTL DEF Spec

\* The type invariant: the states and the attempts are of the kinds the code writes.
THEOREM TypeCorrect == Spec => []TypeOK
<1>1. IInv => TypeOK
  BY DEF IInv
<1> QED BY <1>1, Invariance, PTL

\* While one pull runs at a time, what the cursor has passed is what the brain holds: a crash, a refusal, a held
\* cursor, an expired one or a reconnection never leaves behind an item the provider will not offer again (pull.ts).
THEOREM CursorIsHonest == Spec => []CursorCoversBankedWork
<1>1. IInv => CursorCoversBankedWork
  BY DEF IInv, OnePull, Covers, PassedBy, Passed, CursorCoversBankedWork
<1> QED BY <1>1, Invariance, PTL

\* A connection only ever gets the cursor of a pull that read it, however many are running: the fenced write of
\* control/connector-pg.ts, and the null a disconnect leaves.
THEOREM CursorsStayHome == Spec => CursorsKeepToTheirConnection
<1> DEFINE Home == link'.cursor \notin {link.cursor, NoCursor}
                   => \E p \in Pulls : ~At(p, "idle") /\ pull[p].fence = link'.fence
<1>1. ASSUME TypeOK, [Next]_vars PROVE Home
  <2>1. CASE Provider \/ Steal \/ Disconnect \/ Reconnect \/ UNCHANGED vars
    <3>1. link'.cursor \in {link.cursor, NoCursor}
      <4>1. CASE Disconnect
        BY <4>1 DEF Disconnect
      <4>2. CASE Reconnect
        BY <1>1, <4>2 DEF Reconnect, TypeOK
      <4>3. CASE UNCHANGED link
        BY <4>3
      <4> QED BY <2>1, <4>1, <4>2, <4>3 DEF Provider, Happens, Steal, vars
    <3> QED BY <3>1
  <2>2. ASSUME NEW p \in Pulls, NEW c, Writes(p, c), ~At(p, "idle") PROVE Home
    BY <1>1, <2>2 DEF Writes, Lands, TypeOK
  <2>3. ASSUME NEW p \in Pulls, Works(p) PROVE Home
    <3>1. CASE Save(p)
      BY <2>2, <3>1 DEF Save, At
    <3>2. CASE UNCHANGED link
      BY <3>2
    <3> QED BY <2>3, <3>1, <3>2 DEF Works, Start, Capture, ListSlice, ListChanges, Fetch, Missing, Ingest, Sweep,
                                 Admit, Embed
  <2>4. ASSUME NEW p \in Pulls, Fails(p) PROVE Home
    <3>1. CASE Expire(p)
      BY <2>2, <3>1 DEF Expire, At
    <3>2. CASE UNCHANGED link
      BY <3>2
    <3> QED BY <2>4, <3>1, <3>2 DEF Fails, ListFails, IdentityChanged, Refuse, EmbedFails, Exhaust, Die, FetchFails,
                                 IngestFails
  <2> QED BY <1>1, <2>1, <2>3, <2>4 DEF Next
<1>2. TypeOK /\ [Next]_vars => [Home]_vars
  BY <1>1
<1> QED BY <1>2, TypeCorrect, PTL DEF Spec, CursorsKeepToTheirConnection
=============================================================================
