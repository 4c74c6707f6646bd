--------------------------- MODULE ConnectorPull ---------------------------
(***************************************************************************)
(* The pull of one connected source: runPull (ingest/pipedream/pull.ts),    *)
(* the listings of its adapters (ingest/pipedream/sources), the sweep of    *)
(* upstream deletions (ingest/pipedream/tombstone.ts) and the cursor it     *)
(* keeps in control.connector_link (control/connector-pg.ts).               *)
(*                                                                          *)
(* The provider is a log of events: at position n an item was written, or   *)
(* removed. The content of an item is the position it was fetched at, so    *)
(* that a page of the brain is current exactly when it carries the last     *)
(* position of its item. Every item is inside the import window and makes   *)
(* prose; what the junk gate and an erasure do to one is left out.          *)
(*                                                                          *)
(* A pull runs under the lease of its source's lane, but nothing in runPull *)
(* looks at the lease: a pull whose lease was reclaimed, or whose lane a    *)
(* disconnect discarded, runs on beside its successor. Only its writes of   *)
(* the connector's state are fenced, and by the connection, not the lease.  *)
(***************************************************************************)
EXTENDS Integers, Sequences, FiniteSets

CONSTANTS
  Items,       \* the provider's items: messages, files, events
  Pulls,       \* the attempts that may be running at one time
  MaxEvents,   \* bound: events at the provider
  MaxFence     \* bound: disconnections

ASSUME PullAssumption == MaxEvents \in Nat /\ MaxFence \in Nat

VARIABLES
  log,       \* the provider's events, oldest first
  head,      \* the last event of each item, 0 for an item that never was
  link,      \* the connector_link row: connected, its fence and its cursor
  brain,     \* the position each item's live page was fetched at; 0 for no page
  holder,    \* the pull that holds the lane's lease, or Free
  pull,      \* what each attempt knows
  crowded    \* history: a pull was started while another one was running

vars == <<log, head, link, brain, holder, pull, crowded>>

Free == "free"
Positions == 0 .. MaxEvents

(* A cursor: none, a listing to continue (rest is what its page token still *)
(* offers, pos the change token captured before it), or a place in the      *)
(* change feed. base is the change token the last full listing began with.  *)
Cursor == [kind : {"none", "backfill", "delta"}, pos : Positions, base : Positions, rest : SUBSET Items]
NoCursor == [kind |-> "none", pos |-> 0, base |-> 0, rest |-> {}]
Delta(pos, base) == [kind |-> "delta", pos |-> pos, base |-> base, rest |-> {}]
Backfill(pos, rest) == [kind |-> "backfill", pos |-> pos, base |-> pos, rest |-> rest]

Nothing == [i \in Items |-> 0]
Attempt == [at : {"idle", "token", "list", "fetch", "gate", "ingest", "save"},
            fence : 0 .. MaxFence, cursor : Cursor, next : Cursor, todo : SUBSET Items,
            got : [Items -> Positions], gone : SUBSET Items, hold : BOOLEAN]
Idle == [at |-> "idle", fence |-> 0, cursor |-> NoCursor, next |-> NoCursor,
         todo |-> {}, got |-> Nothing, gone |-> {}, hold |-> FALSE]

Events(i, from, to) == {n \in from + 1 .. to : log[n].item = i}
Live(i) == head[i] # 0 /\ log[head[i]].live

Init ==
  /\ log = <<>>
  /\ head = Nothing
  /\ link = [conn |-> TRUE, fence |-> 0, cursor |-> NoCursor]
  /\ brain = Nothing
  /\ holder = Free
  /\ pull = [p \in Pulls |-> Idle]
  /\ crowded = FALSE

-----------------------------------------------------------------------------
(* The provider: items appear, change, go to the bin and come back.         *)
Happens(i, live) ==
  /\ Len(log) < MaxEvents
  /\ live \/ Live(i)
  /\ log' = Append(log, [item |-> i, live |-> live])
  /\ head' = [head EXCEPT ![i] = Len(log) + 1]
  /\ UNCHANGED <<link, brain, holder, pull, crowded>>

-----------------------------------------------------------------------------
(* A write of the connector's state: it lands while the connection that was *)
(* read is still the one here, and is dropped silently otherwise.           *)
(* mutant of Lands: the write asks only that something is connected         *)
LandsAnywhere(p) == link.conn

Lands(p) == link.conn /\ link.fence = pull[p].fence
Writes(p, cursor) == link' = IF Lands(p) THEN [link EXCEPT !.cursor = cursor] ELSE link

At(p, step) == pull[p].at = step
Becomes(p, x) == pull' = [pull EXCEPT ![p] = x]
(* The page is dropped, and the cursor will be held where it was.           *)
Stops(p) == Becomes(p, [pull[p] EXCEPT !.hold = TRUE, !.gone = {}, !.got = Nothing, !.at = "save"])
(* A backfill that continues no listing takes the change token first.       *)
Entry(cursor) == IF cursor.kind = "none" THEN "token" ELSE "list"

(* The lane's job is claimed and the state is read, with its fence.         *)
Start(p) ==
  /\ At(p, "idle") /\ holder = Free /\ link.conn
  /\ holder' = p
  /\ Becomes(p, [Idle EXCEPT !.at = Entry(link.cursor), !.fence = link.fence,
                               !.cursor = link.cursor])
  /\ crowded' = (crowded \/ \E q \in Pulls \ {p} : ~At(q, "idle"))
  /\ UNCHANGED <<log, head, link, brain>>

(* The provider no longer honours the cursor: it is discarded at once, and  *)
(* the pull goes on as a first import.                                      *)
Expire(p) ==
  /\ At(p, "list") /\ pull[p].cursor.kind # "none"
  /\ Writes(p, NoCursor)
  /\ Becomes(p, [pull[p] EXCEPT !.cursor = NoCursor, !.at = "token"])
  /\ UNCHANGED <<log, head, brain, holder, crowded>>

Capture(p) ==
  /\ At(p, "token")
  /\ Becomes(p, [pull[p] EXCEPT !.next = Backfill(Len(log), {}), !.at = "list"])
  /\ UNCHANGED <<log, head, link, brain, holder, crowded>>

(* A refused listing stamps the attempt and leaves the cursor.              *)
ListFails(p) ==
  /\ At(p, "token") \/ At(p, "list")
  /\ Stops(p)
  /\ UNCHANGED <<log, head, link, brain, holder, crowded>>

Offered(p) == {i \in IF pull[p].cursor.kind = "none" THEN Items ELSE pull[p].cursor.rest : Live(i)}
Token(p) == IF pull[p].cursor.kind = "none" THEN pull[p].next.pos ELSE pull[p].cursor.pos
After(token, rest) == IF rest = {} THEN Delta(token, token) ELSE Backfill(token, rest)

(* One slice of a first import: some of what is live, the rest behind the   *)
(* page token. What is gone is not named by anything.                       *)
ListSlice(p) ==
  /\ At(p, "list") /\ pull[p].cursor.kind # "delta"
  /\ \E slice \in SUBSET Offered(p) :
       /\ slice = {} => Offered(p) = {}
       /\ Becomes(p, [pull[p] EXCEPT !.todo = slice, !.at = "fetch",
                                     !.next = After(Token(p), Offered(p) \ slice)])
  /\ UNCHANGED <<log, head, link, brain, holder, crowded>>

Changed(p, to) == {i \in Items : Events(i, pull[p].cursor.pos, to) # {}}
Settles(p, i, to) ==
  LET page == Events(i, pull[p].cursor.pos, to)
  IN  \E n \in page : log[n].live /\ \A m \in page : m <= n
(* mutant of Resume: the mailbox's current id, taken with pages outstanding *)
ResumesAtNow(p, to) == Delta(Len(log), pull[p].cursor.base)

Resume(p, to) == Delta(to, pull[p].cursor.base)

(* One page of the change feed, ending anywhere: an item is live or gone by *)
(* the last event the page has of it.                                       *)
ListChanges(p) ==
  /\ At(p, "list") /\ pull[p].cursor.kind = "delta"
  /\ \E to \in pull[p].cursor.pos .. Len(log) :
       /\ to = pull[p].cursor.pos => to = Len(log)
       /\ Becomes(p, [pull[p] EXCEPT !.todo = {i \in Changed(p, to) : Settles(p, i, to)},
                                     !.gone = {i \in Changed(p, to) : ~Settles(p, i, to)},
                                     !.next = Resume(p, to), !.at = "fetch"])
  /\ UNCHANGED <<log, head, link, brain, holder, crowded>>

(* What is fetched is what the item is now; one in the bin still answers.   *)
Fetch(p, i) ==
  /\ At(p, "fetch") /\ i \in pull[p].todo
  /\ Becomes(p, [pull[p] EXCEPT !.todo = @ \ {i}, !.got[i] = head[i]])
  /\ UNCHANGED <<log, head, link, brain, holder, crowded>>

(* mutant of Missing: an item that is gone counts as retryable              *)
MissingHolds(p, i) ==
  /\ At(p, "fetch") /\ i \in pull[p].todo /\ ~Live(i)
  /\ Becomes(p, [pull[p] EXCEPT !.todo = @ \ {i}, !.hold = TRUE])
  /\ UNCHANGED <<log, head, link, brain, holder, crowded>>

(* It is no longer there: a failure the cursor may move past.  The code      *)
(* writes off as well an item that is there and answers a permanent 4xx, or *)
(* that it cannot parse; those are left out.                                *)
Missing(p, i) ==
  /\ At(p, "fetch") /\ i \in pull[p].todo /\ ~Live(i)
  /\ Becomes(p, [pull[p] EXCEPT !.todo = @ \ {i}])
  /\ UNCHANGED <<log, head, link, brain, holder, crowded>>

(* A rate limit, an outage, or an item beyond the pull's ceiling: retryable,*)
(* so the cursor will be held.                                              *)
FetchFails(p, i) ==
  /\ At(p, "fetch") /\ i \in pull[p].todo
  /\ Becomes(p, [pull[p] EXCEPT !.todo = @ \ {i}, !.hold = TRUE])
  /\ UNCHANGED <<log, head, link, brain, holder, crowded>>

(* The listing is of another account than the one adopted: nothing of it is *)
(* used, its deletions least of all.                                        *)
IdentityChanged(p) ==
  /\ At(p, "fetch") /\ pull[p].todo = {}
  /\ Stops(p)
  /\ UNCHANGED <<log, head, link, brain, holder, crowded>>

(* The deletions, before the gate.                                          *)
Sweep(p) ==
  /\ At(p, "fetch") /\ pull[p].todo = {}
  /\ brain' = [i \in Items |-> IF i \in pull[p].gone THEN 0 ELSE brain[i]]
  /\ Becomes(p, [pull[p] EXCEPT !.gone = {}, !.at = "gate"])
  /\ UNCHANGED <<log, head, link, holder, crowded>>

Admit(p) ==
  /\ At(p, "gate")
  /\ Becomes(p, [pull[p] EXCEPT !.at = "ingest"])
  /\ UNCHANGED <<log, head, link, brain, holder, crowded>>

(* The gate refuses the page, or cannot price it: nothing is written, and   *)
(* the cursor stays.                                                        *)
Refuse(p) ==
  /\ At(p, "gate")
  /\ Stops(p)
  /\ UNCHANGED <<log, head, link, brain, holder, crowded>>

Pending(p) == {i \in Items : pull[p].got[i] # 0}

Ingest(p, i) ==
  /\ At(p, "ingest") /\ i \in Pending(p)
  /\ brain' = [brain EXCEPT ![i] = pull[p].got[i]]
  /\ Becomes(p, [pull[p] EXCEPT !.got[i] = 0])
  /\ UNCHANGED <<log, head, link, holder, crowded>>

(* The write lost the item for a reason that is not the item's.             *)
IngestFails(p, i) ==
  /\ At(p, "ingest") /\ i \in Pending(p)
  /\ Becomes(p, [pull[p] EXCEPT !.got[i] = 0, !.hold = TRUE])
  /\ UNCHANGED <<log, head, link, brain, holder, crowded>>

(* The items are done: the chunk pass runs, over every source's backlog.    *)
Embed(p) ==
  /\ At(p, "ingest") /\ Pending(p) = {}
  /\ Becomes(p, [pull[p] EXCEPT !.at = "save"])
  /\ UNCHANGED <<log, head, link, brain, holder, crowded>>

EmbedFails(p) ==
  /\ At(p, "ingest") /\ Pending(p) = {}
  /\ Stops(p)
  /\ UNCHANGED <<log, head, link, brain, holder, crowded>>

(* The budget is gone: processing stops where it is.                        *)
Exhaust(p) ==
  /\ At(p, "ingest") /\ Pending(p) # {}
  /\ Stops(p)
  /\ UNCHANGED <<log, head, link, brain, holder, crowded>>

Release(p) == holder' = IF holder = p THEN Free ELSE holder

(* The state, written whole: the next cursor when every item is banked, and *)
(* otherwise the cursor this pull read.                                     *)
Save(p) ==
  /\ At(p, "save")
  /\ Writes(p, IF pull[p].hold THEN pull[p].cursor ELSE pull[p].next)
  /\ Becomes(p, Idle)
  /\ Release(p)
  /\ UNCHANGED <<log, head, brain, crowded>>

(* The process dies, or a statement throws.                                 *)
Die(p) ==
  /\ ~At(p, "idle")
  /\ Becomes(p, Idle)
  /\ Release(p)
  /\ UNCHANGED <<log, head, link, brain, crowded>>

(* The lease lapses under a pull that hangs, and is reclaimed.              *)
Steal ==
  /\ holder # Free
  /\ holder' = Free
  /\ UNCHANGED <<log, head, link, brain, pull, crowded>>

(* mutant of Disconnect: the sealed state is left where it was              *)
DisconnectKeepsCursor ==
  /\ link.conn /\ link.fence < MaxFence
  /\ link' = [link EXCEPT !.conn = FALSE, !.fence = @ + 1]
  /\ holder' = Free
  /\ UNCHANGED <<log, head, brain, pull, crowded>>

(* The user disconnects: the fence moves and the lane is discarded.         *)
Disconnect ==
  /\ link.conn /\ link.fence < MaxFence
  /\ link' = [conn |-> FALSE, fence |-> link.fence + 1, cursor |-> NoCursor]
  /\ holder' = Free
  /\ UNCHANGED <<log, head, brain, pull, crowded>>

Reconnect ==
  /\ ~link.conn
  /\ link' = [link EXCEPT !.conn = TRUE]
  /\ UNCHANGED <<log, head, brain, holder, pull, crowded>>

-----------------------------------------------------------------------------
Works(p) ==
  \/ Start(p) \/ Capture(p) \/ ListSlice(p) \/ ListChanges(p)
  \/ \E i \in Items : Fetch(p, i) \/ Missing(p, i) \/ Ingest(p, i)
  \/ Sweep(p) \/ Admit(p) \/ Embed(p) \/ Save(p)

Fails(p) ==
  \/ Expire(p) \/ ListFails(p) \/ IdentityChanged(p) \/ Refuse(p) \/ EmbedFails(p) \/ Exhaust(p) \/ Die(p)
  \/ \E i \in Items : FetchFails(p, i) \/ IngestFails(p, i)

Provider == \E i \in Items, live \in BOOLEAN : Happens(i, live)

Next ==
  \/ Provider
  \/ \E p \in Pulls : Works(p) \/ Fails(p)
  \/ Steal \/ Disconnect \/ Reconnect

Spec == Init /\ [][Next]_vars
(* The tick offers the source again at its cadence, and a pull that does    *)
(* not hang takes its steps.                                                *)
LiveSpec == Spec /\ WF_vars(Reconnect) /\ \A p \in Pulls : WF_vars(Works(p))

-----------------------------------------------------------------------------
(* The type invariant: the state and the attempts are records of the kinds  *)
(* the code writes, and only a connected source has a cursor.               *)
TypeOK ==
  /\ log \in Seq([item : Items, live : BOOLEAN]) /\ Len(log) <= MaxEvents
  /\ link \in [conn : BOOLEAN, fence : 0 .. MaxFence, cursor : Cursor]
  /\ brain \in [Items -> Positions] /\ head \in [Items -> Positions]
  /\ holder \in Pulls \cup {Free}
  /\ pull \in [Pulls -> Attempt]
  /\ crowded \in BOOLEAN
  /\ ~link.conn => link.cursor = NoCursor

(* The cursor has passed the last thing that happened to i: the provider    *)
(* will not offer it again.                                                 *)
Passed(i) ==
  link.cursor.kind # "none" /\ i \notin link.cursor.rest /\ head[i] <= link.cursor.pos

(* The brain holds what the provider last said of i. A deletion that a full *)
(* listing stepped over is the one thing no cursor can repair: a listing    *)
(* names what exists, never what is gone.                                   *)
Mirrors(i, floor) ==
  IF Live(i) THEN brain[i] = head[i] ELSE brain[i] = 0 \/ head[i] <= floor

(* What the cursor has passed is what the brain holds, at every moment and  *)
(* across crashes, refusals, held cursors and reconnections: "The cursor    *)
(* advances last, and only over banked work" (pull.ts). It is claimed of a  *)
(* source that never had two pulls running at once.                         *)
CursorCoversBankedWork == crowded \/ \A i \in Items : Passed(i) => Mirrors(i, link.cursor.base)

(* The same of every history, once no pull is running: "a handler that      *)
(* ignores [its lost lease] cannot corrupt anything, because every write it *)
(* could make is fenced" (worker/runner.ts). runPull ignores it, and its    *)
(* pages are not fenced.                                                    *)
StragglersCorruptNothing ==
  (\A p \in Pulls : At(p, "idle")) => \A i \in Items : Passed(i) => Mirrors(i, link.cursor.base)

(* A cursor is only ever given to a connection by a pull that read that     *)
(* connection: what a pull learned of a connection the user has since       *)
(* removed never becomes the cursor of the one that replaced it.            *)
CursorsKeepToTheirConnection ==
  [][link'.cursor \notin {link.cursor, NoCursor}
     => \E p \in Pulls : ~At(p, "idle") /\ pull[p].fence = link'.fence]_vars

(* Once faults stop, the brain comes to hold what the provider holds, and   *)
(* keeps it: no item, however often it went and came back while a page was  *)
(* read, wedges the source behind a cursor that is held for ever.           *)
FaultsStop == <>[][Provider \/ Reconnect \/ \E p \in Pulls : Works(p)]_vars
CatchesUp ==
  (FaultsStop /\ []~crowded) => <>[](\A i \in Items : Mirrors(i, link.cursor.base))
=============================================================================
