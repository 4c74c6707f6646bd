------------------------- MODULE Provisioning_proofs -------------------------
(***************************************************************************)
(* Proofs about the provisioning of a tenant, for every number of runs,    *)
(* every set of languages and every vendor.                                *)
(***************************************************************************)
EXTENDS Provisioning, TLAPS

-----------------------------------------------------------------------------
(* What the patches of the row and of a run's memory do. *)

\* A write under the lease keeps whose row it is; most leave its state alone.
SameHolder(c) == c \in Row /\ c.lease = row.lease /\ c.lang = row.lang
SameState(c) ==
    c.state = row.state /\ c.readyAt = row.readyAt /\ c.code = row.code

\* The rows that an insert and a claim write.
LEMMA TakenRows ==
    ASSUME NEW r \in Runs, row \in Row, local \in [Runs -> Local]
    PROVE  /\ NoRow \in Row /\ NoRow.lease = 0
           /\ Inserted(r) \in Row
           /\ Inserted(r).state = "provisioning" /\ Inserted(r).lease = 1
           /\ Inserted(r).lang = local[r].lang /\ ~Inserted(r).readyAt
           /\ Retaken(r) \in Row
           /\ Retaken(r).state = "provisioning"
           /\ Retaken(r).lease = local[r].seen.lease + 1
           /\ Retaken(r).lang = local[r].lang /\ ~Retaken(r).readyAt
<1>1. local[r].seen.lease + 1 \in Nat /\ local[r].lang \in Languages
  BY DEF Local, Row
<1>2. QED BY <1>1 DEF Row, NoProject, NoRow, Inserted, Retaken

\* The row a run writes when it clears the row, and when it makes it ready.
LEMMA ClosingRows ==
    ASSUME row \in Row
    PROVE  /\ SameHolder(Cleared) /\ SameState(Cleared)
           /\ SameHolder(Served)
           /\ Served.state = "ready" /\ Served.readyAt
           /\ Served.project = row.project /\ Served.prefix = row.prefix
           /\ Served.database = row.database /\ Served.schema = row.schema
           /\ Served.refs = row.refs
BY DEF SameHolder, SameState, Row, NoProject, Cleared, Served

\* The rows with one more artifact.
LEMMA BankedRows ==
    ASSUME row \in Row, NEW p \in Runs
    PROVE  /\ LET c == [row EXCEPT !.prefix = TRUE]
              IN  /\ SameHolder(c) /\ SameState(c)
                  /\ c.prefix /\ c.project = row.project /\ c.database = row.database
                  /\ c.schema = row.schema /\ c.refs = row.refs
           /\ LET c == [row EXCEPT !.project = p]
              IN  /\ SameHolder(c) /\ SameState(c)
                  /\ c.prefix = row.prefix /\ c.project = p /\ c.database = row.database
                  /\ c.schema = row.schema /\ c.refs = row.refs
           /\ LET c == [row EXCEPT !.database = TRUE]
              IN  /\ SameHolder(c) /\ SameState(c)
                  /\ c.prefix = row.prefix /\ c.project = row.project /\ c.database
                  /\ c.schema = row.schema /\ c.refs = row.refs
           /\ LET c == [row EXCEPT !.schema = TRUE]
              IN  /\ SameHolder(c) /\ SameState(c)
                  /\ c.prefix = row.prefix /\ c.project = row.project
                  /\ c.database = row.database /\ c.schema /\ c.refs = row.refs
           /\ LET c == [row EXCEPT !.refs = TRUE]
              IN  /\ SameHolder(c) /\ SameState(c)
                  /\ c.prefix = row.prefix /\ c.project = row.project
                  /\ c.database = row.database /\ c.schema = row.schema /\ c.refs
           /\ LET c == [row EXCEPT !.state = "failed", !.code = TRUE]
              IN  SameHolder(c) /\ c.state = "failed" /\ c.code /\ c.readyAt = row.readyAt
BY DEF SameHolder, SameState, Row

\* Patches of a run's memory: the snapshot, the list to sweep, the lease, the project.
Sees(r, v) == [local EXCEPT ![r].seen = v]
Finds(r, S) == [local EXCEPT ![r].sweep = S, ![r].seen = NoRow]
Leaves(r, S) == [local EXCEPT ![r].sweep = S]
Holds(r, v) == [local EXCEPT ![r].lease = v]
Creates(r) == [local EXCEPT ![r].created = r]

\* They leave the language alone, and the other runs.
Remembers(r, m) ==
    /\ m \in [Runs -> Local]
    /\ m[r].lang = local[r].lang
    /\ \A q \in Runs \ {r} : m[q] = local[q]

\* A run that takes a snapshot, or forgets it.
LEMMA SeenSnapshot ==
    ASSUME NEW r \in Runs, local \in [Runs -> Local], NEW v \in Row
    PROVE  /\ Remembers(r, Sees(r, v)) /\ Sees(r, v)[r].seen = v
           /\ Sees(r, v)[r].lease = local[r].lease
           /\ Sees(r, v)[r].created = local[r].created
BY DEF Local, Remembers, Sees

\* A run that lists the projects to sweep, sweeps one, or is given its own.
LEMMA PatchedMemory ==
    ASSUME NEW r \in Runs, local \in [Runs -> Local], NoRow \in Row,
           NEW S \in SUBSET Projects
    PROVE  /\ Remembers(r, Finds(r, S)) /\ Finds(r, S)[r].seen = NoRow
           /\ Finds(r, S)[r].lease = local[r].lease
           /\ Finds(r, S)[r].created = local[r].created
           /\ Remembers(r, Leaves(r, S)) /\ Leaves(r, S)[r].seen = local[r].seen
           /\ Leaves(r, S)[r].lease = local[r].lease
           /\ Leaves(r, S)[r].created = local[r].created
           /\ Remembers(r, Creates(r)) /\ Creates(r)[r].seen = local[r].seen
           /\ Creates(r)[r].lease = local[r].lease
           /\ Creates(r)[r].created = r
BY DEF Local, Remembers, Finds, Leaves, Creates

\* A run that is given a lease.
LEMMA HeldLease ==
    ASSUME NEW r \in Runs, local \in [Runs -> Local], NEW n \in Nat
    PROVE  /\ Remembers(r, Holds(r, n)) /\ Holds(r, n)[r].seen = local[r].seen
           /\ Holds(r, n)[r].lease = n
           /\ Holds(r, n)[r].created = local[r].created
BY DEF Local, Remembers, Holds

\* A run that goes on is where it went, and nobody else has moved.
LEMMA Going ==
    ASSUME NEW r \in Runs, at \in [Runs -> Awaits], NEW to \in Awaits, Goes(r, to)
    PROVE  /\ at' \in [Runs -> Awaits]
           /\ at'[r] = to
           /\ \A q \in Runs \ {r} : at'[q] = at[q]
BY DEF Goes

-----------------------------------------------------------------------------
(* The three kinds of step, in the terms the invariant is stated in. *)

\* A step of a run leaves the others where they are, and asks for no other language.
Alone(r) ==
    /\ local'[r].lang = local[r].lang
    /\ at[r] \in Ended => at'[r] \in Ended /\ spoken'[r] = spoken[r]
    /\ \A q \in Runs \ {r} :
          at'[q] = at[q] /\ local'[q] = local[q] /\ spoken'[q] = spoken[q]

\* A step that leaves the row alone: a run records nothing it has not recorded.
Quiet(r) ==
    /\ row' = row
    /\ local'[r].lease = local[r].lease
    /\ at'[r] \in HasPrefix => at[r] \in HasPrefix
    /\ at'[r] \in HasProject => at[r] \in HasProject
    /\ at'[r] \in HasDatabase => at[r] \in HasDatabase
    /\ at'[r] \in HasSchema => at[r] \in HasSchema
    /\ at'[r] \in HasRefs => at[r] \in HasRefs
    /\ at'[r] \in Speaks => \/ spoken'[r] = local[r].lang
                            \/ at[r] \in Speaks /\ spoken'[r] = spoken[r]
    /\ \/ local'[r].seen = local[r].seen /\ (at'[r] = "claim" => at[r] = "claim")
       \/ local'[r].seen = NoRow /\ at'[r] # "claim"
       \/ local'[r].seen = row /\ row.state \in {"provisioning", "failed"}

\* A fenced write of the run that holds the row.
Writes(r) ==
    /\ Owned(r)
    /\ at[r] \notin Ended
    /\ at'[r] # "claim"
    /\ local' = local
    /\ SameHolder(row')
    /\ at'[r] \in HasPrefix => row'.prefix
    /\ at'[r] \in HasProject => row'.project = r
    /\ at'[r] \in HasDatabase => row'.database
    /\ at'[r] \in HasSchema => row'.schema
    /\ at'[r] \in HasRefs => row'.refs
    /\ at'[r] \in Speaks => at[r] \in Speaks /\ spoken'[r] = spoken[r]
    /\ \/ SameState(row')
       \/ /\ at'[r] \in Ended
          /\ row'.state = "failed" /\ row'.code /\ row'.readyAt = row.readyAt
       \/ /\ at'[r] \in Ended /\ at[r] \in HasRefs /\ spoken'[r] = spoken[r]
          /\ row'.state = "ready" /\ row'.readyAt
          /\ row'.project = row.project /\ row'.prefix = row.prefix
          /\ row'.database = row.database /\ row'.schema = row.schema
          /\ row'.refs = row.refs

\* A run takes the row, which nobody has, or which the run read when it decided to.
Takes(r) ==
    /\ row.state = "absent" \/ (at[r] = "claim" /\ local[r].seen.lease = row.lease)
    /\ row' \in Row
    /\ row'.state = "provisioning" /\ row'.lease = row.lease + 1
    /\ row'.lang = local[r].lang /\ ~row'.readyAt
    /\ local'[r].lease = row'.lease /\ local'[r].seen = local[r].seen
    /\ at'[r] \notin HasPrefix \cup {"claim"}

Step(r) == Alone(r) /\ (Quiet(r) \/ Writes(r) \/ Takes(r))

\* Where a step leaves a well-typed state in which the row follows its holder.
Sound(r) == TypeOK' /\ Step(r)

\* In what follows the sets of awaits are known for what they hold.
USE DEF Awaits, Cleanup, Calls, Building, Ended, HasPrefix, HasProject, HasDatabase, HasSchema,
        HasRefs, Speaks

\* A run claims the row, or learns that it may not.
LEMMA TakesOverSoundly ==
    ASSUME TypeOK, LeasesAreGiven, RowFollowsItsHolder, NEW r \in Runs, TakesOver(r)
    PROVE  Sound(r)
<1>1. CASE Get(r)
  <2>1. CASE Goes(r, "claim")
    <3>1. row.state \in {"provisioning", "failed"} /\ local' = Sees(r, row)
      BY <1>1, <2>1 DEF Get, Goes, TypeOK, MayBeLive, Sees
    <3>2. /\ Remembers(r, local') /\ local'[r].seen = row
          /\ local'[r].lease = local[r].lease /\ local'[r].created = local[r].created
      BY <3>1, SeenSnapshot DEF TypeOK
    <3>3. at' \in [Runs -> Awaits] /\ at'[r] = "claim" /\ \A q \in Runs \ {r} : at'[q] = at[q]
      BY <2>1, Going DEF TypeOK
    <3>4. QED BY <1>1, <3>1, <3>2, <3>3
       DEF Get, Sound, TypeOK, Step, Alone, Quiet, Remembers, vendor
  <2>2. CASE ~Goes(r, "claim")
    BY <1>1, <2>2 DEF Get, Goes, Sound, TypeOK, Step, Alone, Quiet, Remembers, vendor
  <2>3. QED BY <2>1, <2>2
<1>2. CASE Insert(r)
  <2>1. CASE row.state = "absent"
    <3>1. local' = Holds(r, 1)
      BY <1>2, <2>1 DEF Insert, Holds
    <3>2. /\ Remembers(r, local') /\ local'[r].seen = local[r].seen
          /\ local'[r].lease = 1 /\ local'[r].created = local[r].created
      BY <3>1, HeldLease DEF TypeOK
    <3>3. at' \in [Runs -> Awaits] /\ at'[r] = "prefix" /\ \A q \in Runs \ {r} : at'[q] = at[q]
      BY <1>2, <2>1, Going DEF Insert, TypeOK
    <3>4. /\ row' \in Row /\ row'.state = "provisioning" /\ row'.lease = row.lease + 1
          /\ row'.lease = 1 /\ row'.lang = local[r].lang /\ ~row'.readyAt
      BY <1>2, <2>1, TakenRows DEF Insert, TypeOK, LeasesAreGiven
    <3>5. QED BY <1>2, <2>1, <3>2, <3>3, <3>4
       DEF Insert, Sound, TypeOK, Step, Alone, Quiet, Takes, LeasesAreGiven, Remembers,
           vendor
  <2>2. CASE row.state # "absent"
    BY <1>2, <2>2 DEF Insert, Goes, Sound, TypeOK, Step, Alone, Quiet, Remembers, vendor
  <2>3. QED BY <2>1, <2>2
<1>3. CASE Claim(r)
  <2>1. CASE Fenced(local[r].seen.lease)
    <3>1. local[r].seen.lease + 1 \in Nat
      BY DEF TypeOK, Local, Row
    <3>2. local' = Holds(r, local[r].seen.lease + 1)
      BY <1>3, <2>1 DEF Claim, Holds
    <3>3. /\ Remembers(r, local') /\ local'[r].seen = local[r].seen
          /\ local'[r].lease = local[r].seen.lease + 1
          /\ local'[r].created = local[r].created
      BY <3>1, <3>2, HeldLease DEF TypeOK
    <3>4. CleanupStarts(local[r].seen) \in {"done", "drop", "search"}
      BY DEF CleanupStarts
    <3>5. /\ at' \in [Runs -> Awaits] /\ at'[r] \in {"done", "drop", "search"}
          /\ \A q \in Runs \ {r} : at'[q] = at[q]
      BY <1>3, <2>1, <3>4, Going DEF Claim, TypeOK
    <3>6. /\ row' \in Row /\ row'.state = "provisioning"
          /\ row'.lease = row.lease + 1 /\ row.lease = local[r].seen.lease
          /\ row'.lang = local[r].lang /\ ~row'.readyAt
      BY <1>3, <2>1, TakenRows DEF Claim, Fenced, TypeOK
    <3>7. straddled' \in BOOLEAN
      BY <1>3, <2>1 DEF Claim, TypeOK
    <3>8. QED BY <1>3, <3>3, <3>5, <3>6, <3>7
       DEF Claim, Sound, TypeOK, Step, Alone, Quiet, Takes, LeasesAreGiven, Remembers,
           vendor
  <2>2. CASE ~Fenced(local[r].seen.lease)
    <3>1. local' = Sees(r, NoRow)
      BY <1>3, <2>2 DEF Claim, Forgets, Sees
    <3>2. /\ Remembers(r, local') /\ local'[r].seen = NoRow
          /\ local'[r].lease = local[r].lease /\ local'[r].created = local[r].created
      BY <3>1, SeenSnapshot, TakenRows DEF TypeOK
    <3>3. /\ at' \in [Runs -> Awaits] /\ at'[r] = "done"
          /\ \A q \in Runs \ {r} : at'[q] = at[q]
      BY <1>3, <2>2, Going DEF Claim, TypeOK
    <3>4. QED BY <1>3, <2>2, <3>2, <3>3
       DEF Claim, Sound, TypeOK, Step, Alone, Quiet, Remembers, vendor
  <2>3. QED BY <2>1, <2>2
<1>4. QED BY <1>1, <1>2, <1>3 DEF TakesOver

\* A run cleans up after the attempt before it.
LEMMA CleansUpSoundly ==
    ASSUME TypeOK, LeasesAreGiven, RowFollowsItsHolder, NEW r \in Runs, CleansUp(r)
    PROVE  Sound(r)
<1>1. CASE Drop(r)
  BY <1>1, Going
     DEF Drop, Sound, TypeOK, Step, Alone, Quiet, Writes, Takes, SameHolder, SameState,
         LeasesAreGiven, RowFollowsItsHolder, vendor, Goes, Owned, Fenced
<1>2. CASE Search(r)
  <2>1. AfterSweeping(projects) \in Cleanup
    BY DEF AfterSweeping
  <2>2. local' = Finds(r, projects) /\ projects \in SUBSET Projects
    BY <1>2 DEF Search, Finds, TypeOK, Projects
  <2>3. /\ Remembers(r, local') /\ local'[r].seen = NoRow
        /\ local'[r].lease = local[r].lease /\ local'[r].created = local[r].created
    BY <2>2, PatchedMemory, TakenRows DEF TypeOK
  <2>4. /\ at' \in [Runs -> Awaits] /\ at'[r] \in Cleanup
        /\ \A q \in Runs \ {r} : at'[q] = at[q]
    BY <1>2, <2>1, Going DEF Search, TypeOK
  <2>5. QED BY <1>2, <2>3, <2>4
     DEF Search, Sound, TypeOK, Step, Alone, Quiet, Remembers, vendor
<1>3. CASE Sweep(r)
  <2>1. PICK p \in local[r].sweep :
            /\ projects' = projects \ {p}
            /\ local' = Leaves(r, local[r].sweep \ {p})
            /\ Goes(r, AfterSweeping(local[r].sweep \ {p}))
    BY <1>3 DEF Sweep, Leaves
  <2>2. AfterSweeping(local[r].sweep \ {p}) \in Cleanup
    BY DEF AfterSweeping
  <2>3. local[r].sweep \ {p} \in SUBSET Projects
    BY DEF TypeOK, Local
  <2>4. /\ Remembers(r, local') /\ local'[r].seen = local[r].seen
        /\ local'[r].lease = local[r].lease /\ local'[r].created = local[r].created
    BY <2>1, <2>3, PatchedMemory, TakenRows DEF TypeOK
  <2>5. /\ at' \in [Runs -> Awaits] /\ at'[r] \in Cleanup
        /\ \A q \in Runs \ {r} : at'[q] = at[q]
    BY <2>1, <2>2, Going DEF TypeOK
  <2>6. QED BY <1>3, <2>1, <2>4, <2>5
     DEF Sweep, Sound, TypeOK, Step, Alone, Quiet, Remembers, vendor
<1>4. CASE Revoke(r)
  BY <1>4, Going
     DEF Revoke, Sound, TypeOK, Step, Alone, Quiet, Writes, Takes, SameHolder,
         SameState, LeasesAreGiven, RowFollowsItsHolder, vendor, Goes, Owned, Fenced
<1>5. CASE Clear(r)
  BY <1>5, Going, ClosingRows
     DEF Clear, Sound, TypeOK, Step, Alone, Quiet, Writes, Takes, SameHolder,
         SameState, LeasesAreGiven, RowFollowsItsHolder, vendor, Goes, Owned, Fenced
<1>6. QED BY <1>1, <1>2, <1>3, <1>4, <1>5 DEF CleansUp

\* A run builds the substrate.
LEMMA BuildsSoundly ==
    ASSUME TypeOK, LeasesAreGiven, RowFollowsItsHolder, NEW r \in Runs, Builds(r)
    PROVE  Sound(r)
<1>1. CASE BankPrefix(r)
  <2>1. CASE Superseded(r)
    BY <1>1, <2>1
       DEF BankPrefix, Superseded, Goes, Sound, TypeOK, Step, Alone, Quiet, Remembers,
           vendor
  <2>2. CASE ~Superseded(r)
    <3>1. Owned(r) /\ row' = [row EXCEPT !.prefix = TRUE]
      BY <1>1, <2>2 DEF BankPrefix, Banks
    <3>2. /\ SameHolder(row') /\ SameState(row')
          /\ row'.prefix /\ row'.project = row.project
          /\ row'.database = row.database /\ row'.schema = row.schema /\ row'.refs = row.refs
      BY <3>1, BankedRows DEF TypeOK
    <3>3. /\ at' \in [Runs -> Awaits] /\ at'[r] \in {"create", "fail"}
          /\ \A q \in Runs \ {r} : at'[q] = at[q]
      BY <1>1, <2>2, Going DEF BankPrefix, Banks, Proceeds, TypeOK
    <3>4. QED BY <1>1, <3>1, <3>2, <3>3
       DEF BankPrefix, Sound, TypeOK, Step, Alone, Quiet, Writes, SameHolder,
           SameState, LeasesAreGiven, RowFollowsItsHolder, vendor
  <2>3. QED BY <2>1, <2>2
<1>2. CASE Repost(r)
  BY <1>2, Going
     DEF Repost, Sound, TypeOK, Step, Alone, Quiet, Writes, Takes, SameHolder,
         SameState, LeasesAreGiven, RowFollowsItsHolder, vendor, Goes, Owned, Fenced
<1>3. CASE VendorCreates(r)
  BY <1>3, Going
     DEF VendorCreates, Sound, TypeOK, Step, Alone, Quiet, Writes, Takes, SameHolder,
         SameState, LeasesAreGiven, RowFollowsItsHolder, vendor, Goes, Owned, Fenced
<1>4. CASE CreateReturns(r)
  <2>1. local' = Creates(r)
    BY <1>4 DEF CreateReturns, Creates
  <2>2. /\ Remembers(r, local') /\ local'[r].seen = local[r].seen
        /\ local'[r].lease = local[r].lease /\ local'[r].created = r
    BY <2>1, PatchedMemory, TakenRows DEF TypeOK
  <2>3. /\ at' \in [Runs -> Awaits] /\ at'[r] = "bankProject"
        /\ \A q \in Runs \ {r} : at'[q] = at[q]
    BY <1>4, Going DEF CreateReturns, TypeOK
  <2>4. QED BY <1>4, <2>2, <2>3
     DEF CreateReturns, Sound, TypeOK, Step, Alone, Quiet, Remembers, vendor
<1>5. CASE BankProject(r)
  <2>1. CASE Superseded(r)
    BY <1>5, <2>1
       DEF BankProject, Superseded, Goes, Sound, TypeOK, Step, Alone, Quiet, Remembers,
           vendor
  <2>2. CASE ~Superseded(r)
    <3>1. Owned(r) /\ row' = [row EXCEPT !.project = local[r].created]
      BY <1>5, <2>2 DEF BankProject, Banks
    <3>2. local[r].created = r
      BY <1>5 DEF BankProject, TypeOK
    <3>3. /\ SameHolder(row') /\ SameState(row')
          /\ row'.prefix = row.prefix /\ row'.project = r
          /\ row'.database = row.database /\ row'.schema = row.schema /\ row'.refs = row.refs
      BY <1>5, <3>1, <3>2, BankedRows DEF TypeOK
    <3>4. /\ at' \in [Runs -> Awaits] /\ at'[r] \in {"role", "fail"}
          /\ \A q \in Runs \ {r} : at'[q] = at[q]
      BY <1>5, <2>2, Going DEF BankProject, Banks, Proceeds, TypeOK
    <3>5. QED BY <1>5, <3>1, <3>3, <3>4
       DEF BankProject, Sound, TypeOK, Step, Alone, Quiet, Writes, SameHolder,
           SameState, LeasesAreGiven, RowFollowsItsHolder, vendor
  <2>3. QED BY <2>1, <2>2
<1>6. CASE CreateRoleAndDatabase(r)
  <2>1. CASE Superseded(r)
    BY <1>6, <2>1
       DEF CreateRoleAndDatabase, Superseded, Goes, Sound, TypeOK, Step, Alone, Quiet,
           Remembers, vendor
  <2>2. CASE ~Superseded(r)
    <3>1. Owned(r) /\ row' = [row EXCEPT !.database = TRUE]
      BY <1>6, <2>2 DEF CreateRoleAndDatabase, Banks
    <3>2. /\ SameHolder(row') /\ SameState(row')
          /\ row'.prefix = row.prefix /\ row'.project = row.project
          /\ row'.database /\ row'.schema = row.schema /\ row'.refs = row.refs
      BY <3>1, BankedRows DEF TypeOK
    <3>3. /\ at' \in [Runs -> Awaits] /\ at'[r] \in {"apply", "fail"}
          /\ \A q \in Runs \ {r} : at'[q] = at[q]
      BY <1>6, <2>2, Going DEF CreateRoleAndDatabase, Banks, Proceeds, TypeOK
    <3>4. QED BY <1>6, <3>1, <3>2, <3>3
       DEF CreateRoleAndDatabase, Sound, TypeOK, Step, Alone, Quiet, Writes,
           SameHolder, SameState, LeasesAreGiven, RowFollowsItsHolder, vendor
  <2>3. QED BY <2>1, <2>2
<1>7. CASE ApplySchema(r)
  <2>1. CASE Superseded(r)
    BY <1>7, <2>1
       DEF ApplySchema, Superseded, Goes, Sound, TypeOK, Step, Alone, Quiet, Remembers,
           vendor
  <2>2. CASE ~Superseded(r)
    <3>1. Owned(r) /\ row' = [row EXCEPT !.schema = TRUE]
      BY <1>7, <2>2 DEF ApplySchema, Banks
    <3>2. /\ SameHolder(row') /\ SameState(row')
          /\ row'.prefix = row.prefix /\ row'.project = row.project
          /\ row'.database = row.database /\ row'.schema /\ row'.refs = row.refs
      BY <3>1, BankedRows DEF TypeOK
    <3>3. /\ at' \in [Runs -> Awaits] /\ at'[r] \in {"verify", "fail"}
          /\ \A q \in Runs \ {r} : at'[q] = at[q]
      BY <1>7, <2>2, Going DEF ApplySchema, Banks, Proceeds, TypeOK
    <3>4. /\ spoken' \in [Runs -> Languages \cup {Unset}]
          /\ \A q \in Runs \ {r} : spoken'[q] = spoken[q]
      BY <1>7 DEF ApplySchema, TypeOK
    <3>5. QED BY <1>7, <3>1, <3>2, <3>3, <3>4
       DEF ApplySchema, Sound, TypeOK, Step, Alone, Quiet, Writes, SameHolder,
           SameState, LeasesAreGiven, RowFollowsItsHolder, vendor
  <2>3. QED BY <2>1, <2>2
<1>8. CASE VerifyFirstQuery(r)
  BY <1>8, Going
     DEF VerifyFirstQuery, Proceeds, Answers, Sound, TypeOK, Step, Alone, Quiet,
         Writes, Takes, SameHolder, SameState, LeasesAreGiven, RowFollowsItsHolder,
         vendor, Goes, Owned, Fenced
<1>9. QED BY <1>1, <1>2, <1>3, <1>4, <1>5, <1>6, <1>7, <1>8 DEF Builds

\* A run stores the grant and marks the tenant ready.
LEMMA FinishesSoundly ==
    ASSUME TypeOK, LeasesAreGiven, RowFollowsItsHolder, NEW r \in Runs, Finishes(r)
    PROVE  Sound(r)
<1>1. CASE ProbeLease(r)
  BY <1>1, Going
     DEF ProbeLease, Superseded, Sound, TypeOK, Step, Alone, Quiet, Writes, Takes,
         SameHolder, SameState, LeasesAreGiven, RowFollowsItsHolder, vendor, Goes,
         Owned, Fenced
<1>2. CASE PutSecret(r)
  BY <1>2, Going
     DEF PutSecret, Sound, TypeOK, Step, Alone, Quiet, Writes, Takes, SameHolder,
         SameState, LeasesAreGiven, RowFollowsItsHolder, vendor, Goes, Owned, Fenced
<1>3. CASE BankRefs(r)
  <2>1. CASE Superseded(r)
    BY <1>3, <2>1
       DEF BankRefs, Superseded, Goes, Sound, TypeOK, Step, Alone, Quiet, Remembers,
           vendor
  <2>2. CASE ~Superseded(r)
    <3>1. Owned(r) /\ row' = [row EXCEPT !.refs = TRUE]
      BY <1>3, <2>2 DEF BankRefs
    <3>2. /\ SameHolder(row') /\ SameState(row')
          /\ row'.prefix = row.prefix /\ row'.project = row.project
          /\ row'.database = row.database /\ row'.schema = row.schema /\ row'.refs
      BY <3>1, BankedRows DEF TypeOK
    <3>3. /\ at' \in [Runs -> Awaits] /\ at'[r] \in {"ready"}
          /\ \A q \in Runs \ {r} : at'[q] = at[q]
      BY <1>3, <2>2, Going DEF BankRefs, Proceeds, TypeOK
    <3>4. QED BY <1>3, <3>1, <3>2, <3>3
       DEF BankRefs, Sound, TypeOK, Step, Alone, Quiet, Writes, SameHolder, SameState,
           LeasesAreGiven, RowFollowsItsHolder, vendor
  <2>3. QED BY <2>1, <2>2
<1>4. CASE BankReady(r)
  BY <1>4, Going, ClosingRows
     DEF BankReady, Superseded, Sound, TypeOK, Step, Alone, Quiet, Writes, Takes,
         SameHolder, SameState, LeasesAreGiven, RowFollowsItsHolder, vendor, Goes,
         Owned, Fenced
<1>5. QED BY <1>1, <1>2, <1>3, <1>4 DEF Finishes

\* A run fails, is undone, hangs or dies.
LEMMA StopsSoundly ==
    ASSUME TypeOK, LeasesAreGiven, RowFollowsItsHolder, NEW r \in Runs, Stops(r)
    PROVE  Sound(r)
<1>1. CASE CallFails(r)
  BY <1>1, Going
     DEF CallFails, Sound, TypeOK, Step, Alone, Quiet, Writes, Takes, SameHolder,
         SameState, LeasesAreGiven, RowFollowsItsHolder, vendor, Goes, Owned, Fenced
<1>2. CASE Fail(r)
  <2>1. CASE Superseded(r)
    BY <1>2, <2>1
       DEF Fail, Superseded, Goes, Sound, TypeOK, Step, Alone, Quiet, Remembers, vendor
  <2>2. CASE ~Superseded(r)
    <3>1. Owned(r) /\ row' = [row EXCEPT !.state = "failed", !.code = TRUE]
      BY <1>2, <2>2 DEF Fail
    <3>2. /\ SameHolder(row') /\ row'.state = "failed"
          /\ row'.code /\ row'.readyAt = row.readyAt
      BY <3>1, BankedRows DEF TypeOK
    <3>3. /\ at' \in [Runs -> Awaits] /\ at'[r] \in {"done"}
          /\ \A q \in Runs \ {r} : at'[q] = at[q]
      BY <1>2, <2>2, Going DEF Fail, Proceeds, TypeOK
    <3>4. QED BY <1>2, <3>1, <3>2, <3>3
       DEF Fail, Sound, TypeOK, Step, Alone, Quiet, Writes, SameHolder, SameState,
           LeasesAreGiven, RowFollowsItsHolder, vendor
  <2>3. QED BY <2>1, <2>2
<1>3. CASE Undo(r)
  BY <1>3, Going
     DEF Undo, Sound, TypeOK, Step, Alone, Quiet, Writes, Takes, SameHolder, SameState,
         LeasesAreGiven, RowFollowsItsHolder, vendor, Goes, Owned, Fenced
<1>4. CASE Tick(r)
  BY <1>4, Going
     DEF Tick, Sound, TypeOK, Step, Alone, Quiet, Writes, Takes, SameHolder, SameState,
         LeasesAreGiven, RowFollowsItsHolder, vendor, Goes, Owned, Fenced
<1>5. CASE Die(r)
  BY <1>5, Going
     DEF Die, Sound, TypeOK, Step, Alone, Quiet, Writes, Takes, SameHolder, SameState,
         LeasesAreGiven, RowFollowsItsHolder, vendor, Goes, Owned, Fenced
<1>6. QED BY <1>1, <1>2, <1>3, <1>4, <1>5 DEF Stops

HIDE DEF Awaits, Cleanup, Calls, Building, Ended, HasPrefix, HasProject, HasDatabase, HasSchema,
         HasRefs, Speaks

-----------------------------------------------------------------------------
(* Each part of the invariant is kept by a sound step. *)

\* The leases of the row, of a run and of a snapshot are numbers.
LEMMA LeasesAreNumbers ==
    ASSUME TypeOK, NEW r \in Runs
    PROVE  row.lease \in Nat /\ local[r].lease \in Nat /\ local[r].seen.lease \in Nat
BY DEF TypeOK, Row, Local

\* Only the run that holds the row writes it, and only until it closes it.
LEMMA HolderWritesAlone ==
    ASSUME IInv, NEW r \in Runs, Writes(r)
    PROVE  /\ row.state = "provisioning" /\ row.lease > 0
           /\ \A q \in Runs : local[q].lease = row.lease => q = r
<1>1. row.state # "absent" /\ local[r].lease = row.lease /\ at[r] \notin Ended
  BY DEF Writes, Owned, Fenced
<1>2. row.state \in {"absent", "provisioning", "ready", "failed"} /\ row.lease > 0
  BY <1>1 DEF IInv, TypeOK, Row, LeasesAreGiven
<1>3. row.state \notin {"ready", "failed"}
  BY <1>1 DEF IInv, ClosedRowsAreLeft
<1>4. ASSUME NEW q \in Runs, local[q].lease = row.lease PROVE q = r
  BY <1>1, <1>2, <1>4, LeasesAreNumbers DEF IInv, OneHolderPerLease
<1>5. QED BY <1>1, <1>2, <1>3, <1>4

\* A step that takes the row is given a lease nobody has, or has read.
LEMMA TakerIsAlone ==
    ASSUME IInv, NEW r \in Runs, Sound(r), Takes(r)
    PROVE  /\ local'[r].lease = row'.lease /\ row'.lease > 0
           /\ local'[r].seen.lease < row'.lease
           /\ \A q \in Runs \ {r} :
                 /\ local'[q] = local[q]
                 /\ local[q].lease < row'.lease /\ local[q].seen.lease < row'.lease
<1>1. row'.lease = row.lease + 1 /\ local'[r].lease = row'.lease /\ local'[r].seen = local[r].seen
  BY DEF Takes
<1>2. ASSUME NEW q \in Runs
      PROVE  local[q].lease < row'.lease /\ local[q].seen.lease < row'.lease
  <2>1. local[q].lease <= row.lease /\ local[q].seen.lease <= row.lease
    BY DEF IInv, LeasesAreGiven
  <2>2. row.lease \in Nat /\ local[q].lease \in Nat /\ local[q].seen.lease \in Nat
    BY LeasesAreNumbers DEF IInv
  <2>3. QED BY <1>1, <2>1, <2>2
<1>3. row'.lease > 0
  BY <1>1, LeasesAreNumbers DEF IInv
<1>4. \A q \in Runs \ {r} : local'[q] = local[q]
  BY DEF Sound, Step, Alone
<1>5. QED BY <1>1, <1>2, <1>3, <1>4

\* Leases are given out once.
LEMMA LeasesStayGiven ==
    ASSUME IInv, NEW r \in Runs, Sound(r)
    PROVE  LeasesAreGiven'
<1>1. \A q \in Runs \ {r} : local'[q] = local[q]
  BY DEF Sound, Step, Alone
<1>2. CASE Quiet(r)
  <2>1. local'[r].seen.lease <= row.lease
    BY <1>2, LeasesAreNumbers DEF Quiet, IInv, LeasesAreGiven, NoRow
  <2>2. QED BY <1>1, <1>2, <2>1 DEF Quiet, IInv, LeasesAreGiven
<1>3. CASE Writes(r)
  BY <1>3, HolderWritesAlone DEF Writes, SameHolder, SameState, IInv, LeasesAreGiven
<1>4. CASE Takes(r)
  <2>1. row'.state # "absent"
    BY <1>4 DEF Takes
  <2>2. row' \in Row /\ row'.lease \in Nat
    BY <1>4 DEF Takes, Row
  <2>3. ASSUME NEW q \in Runs
        PROVE  local'[q].lease <= row'.lease /\ local'[q].seen.lease <= row'.lease
    <3>1. local'[q].lease \in Nat /\ local'[q].seen.lease \in Nat
      BY DEF Sound, TypeOK, Local, Row
    <3>2. QED BY <1>4, <2>2, <3>1, TakerIsAlone
  <2>4. QED BY <1>4, <2>1, <2>3, TakerIsAlone DEF LeasesAreGiven
<1>5. QED BY <1>2, <1>3, <1>4 DEF Sound, Step

\* No two runs come to hold the same lease.
LEMMA LeasesStayUnique ==
    ASSUME IInv, NEW r \in Runs, Sound(r)
    PROVE  OneHolderPerLease'
<1>1. \A q \in Runs \ {r} : local'[q] = local[q]
  BY DEF Sound, Step, Alone
<1>2. CASE Quiet(r) \/ Writes(r)
  BY <1>1, <1>2 DEF Quiet, Writes, IInv, OneHolderPerLease
<1>3. CASE Takes(r)
  <2>1. \A q \in Runs \ {r} : local'[q].lease # local'[r].lease
    BY <1>3, TakerIsAlone, LeasesAreNumbers DEF IInv, Sound, TypeOK, Row
  <2>2. QED BY <1>1, <2>1 DEF IInv, OneHolderPerLease
<1>4. QED BY <1>2, <1>3 DEF Sound, Step

\* A closed row is left to whoever takes it over.
LEMMA ClosedRowsStayLeft ==
    ASSUME IInv, NEW r \in Runs, Sound(r)
    PROVE  ClosedRowsAreLeft'
<1>1. \A q \in Runs \ {r} : local'[q] = local[q] /\ at'[q] = at[q]
  BY DEF Sound, Step, Alone
<1>2. CASE Quiet(r)
  BY <1>1, <1>2 DEF Sound, Step, Alone, Quiet, IInv, ClosedRowsAreLeft
<1>3. CASE Writes(r)
  <2>1. CASE SameState(row')
    BY <1>3, <2>1, HolderWritesAlone DEF SameState, ClosedRowsAreLeft
  <2>2. CASE at'[r] \in Ended
    BY <1>3, <2>2, HolderWritesAlone DEF Writes, SameHolder, ClosedRowsAreLeft
  <2>3. QED BY <1>3, <2>1, <2>2 DEF Writes
<1>4. CASE Takes(r)
  BY <1>4 DEF Takes, ClosedRowsAreLeft
<1>5. QED BY <1>2, <1>3, <1>4 DEF Sound, Step

\* What a claim was decided on stays what is left if nobody claimed since.
LEMMA ClaimsStayDecided ==
    ASSUME IInv, NEW r \in Runs, Sound(r)
    PROVE  ClaimsAreDecided'
<1>1. \A q \in Runs \ {r} : local'[q] = local[q] /\ at'[q] = at[q]
  BY DEF Sound, Step, Alone
<1>2. CASE Quiet(r)
  BY <1>1, <1>2 DEF Quiet, IInv, ClaimsAreDecided
<1>3. CASE Writes(r)
  BY <1>1, <1>3, HolderWritesAlone DEF Writes, SameHolder, SameState, IInv, ClaimsAreDecided
<1>4. CASE Takes(r)
  <2>1. at'[r] # "claim"
    BY <1>4 DEF Takes
  <2>2. \A q \in Runs \ {r} : local[q].seen.lease # row'.lease
    BY <1>4, TakerIsAlone, LeasesAreNumbers DEF IInv, Sound, TypeOK, Row
  <2>3. QED BY <1>1, <2>1, <2>2 DEF IInv, ClaimsAreDecided
<1>5. QED BY <1>2, <1>3, <1>4 DEF Sound, Step

\* The row goes on following its holder.
LEMMA RowStaysWithItsHolder ==
    ASSUME IInv, NEW r \in Runs, Sound(r)
    PROVE  RowFollowsItsHolder'
<1>1. /\ \A q \in Runs \ {r} : local'[q] = local[q] /\ at'[q] = at[q]
      /\ local'[r].lang = local[r].lang
  BY DEF Sound, Step, Alone
<1>2. CASE Quiet(r)
  BY <1>1, <1>2 DEF Quiet, IInv, RowFollowsItsHolder, Owned, Fenced
<1>3. CASE Writes(r)
  <2>1. ASSUME NEW q \in Runs, Owned(q)' PROVE q = r
    BY <1>1, <1>3, <2>1, HolderWritesAlone DEF Writes, SameHolder, Owned, Fenced
  <2>2. row'.lang = local'[r].lang
    BY <1>1, <1>3 DEF Writes, SameHolder, IInv, RowFollowsItsHolder
  <2>3. QED BY <1>3, <2>1, <2>2 DEF Writes, RowFollowsItsHolder
<1>4. CASE Takes(r)
  <2>1. ASSUME NEW q \in Runs, Owned(q)' PROVE q = r
    BY <1>1, <1>4, <2>1, TakerIsAlone, LeasesAreNumbers
       DEF IInv, Sound, TypeOK, Row, Owned, Fenced
  <2>2. at'[r] \notin HasPrefix /\ row'.lang = local'[r].lang
    BY <1>1, <1>4 DEF Takes
  <2>3. QED BY <2>1, <2>2 DEF RowFollowsItsHolder, HasPrefix, HasProject, HasDatabase,
     HasSchema, Speaks, HasRefs
<1>5. QED BY <1>2, <1>3, <1>4 DEF Sound, Step

\* Whoever makes the row ready has recorded every artifact, and verified the language.
LEMMA ReadyIsEarned ==
    ASSUME IInv, NEW r \in Runs, Writes(r), at[r] \in HasRefs
    PROVE  /\ row.project = r /\ row.prefix /\ row.database /\ row.schema /\ row.refs
           /\ spoken[r] = row.lang
BY DEF IInv, RowFollowsItsHolder, LanguagesStay, Writes, HasPrefix, HasProject, HasDatabase,
   HasSchema, Speaks, HasRefs

\* A verified language stays verified, and a ready row's project is left alone.
LEMMA LanguagesStayPut ==
    ASSUME IInv, NEW r \in Runs, Sound(r)
    PROVE  LanguagesStay'
<1>1. /\ \A q \in Runs \ {r} : local'[q] = local[q] /\ at'[q] = at[q] /\ spoken'[q] = spoken[q]
      /\ local'[r].lang = local[r].lang
      /\ at[r] \in Ended => at'[r] \in Ended
  BY DEF Sound, Step, Alone
<1>2. CASE Quiet(r)
  BY <1>1, <1>2 DEF Quiet, IInv, LanguagesStay
<1>3. CASE Writes(r)
  <2>1. at'[r] \in Speaks => spoken'[r] = local'[r].lang
    BY <1>1, <1>3 DEF Writes, IInv, LanguagesStay
  <2>2. row'.state = "ready" => row'.project = r /\ at'[r] \in Ended
    BY <1>3, HolderWritesAlone, ReadyIsEarned DEF Writes, SameState
  <2>3. QED BY <1>1, <2>1, <2>2 DEF IInv, LanguagesStay
<1>4. CASE Takes(r)
  BY <1>1, <1>4 DEF Takes, IInv, LanguagesStay, HasPrefix, HasProject, HasDatabase,
     HasSchema, Speaks, HasRefs
<1>5. QED BY <1>2, <1>3, <1>4 DEF Sound, Step

\* The row stays one the database would store.
LEMMA RowStaysLegal ==
    ASSUME IInv, NEW r \in Runs, Sound(r)
    PROVE  RowIsLegal'
<1>1. CASE Quiet(r)
  BY <1>1 DEF Quiet, IInv, RowIsLegal
<1>2. CASE Writes(r)
  <2>1. row.state = "provisioning" /\ ~row.readyAt
    BY <1>2, HolderWritesAlone DEF IInv, RowIsLegal
  <2>2. CASE SameState(row')
    BY <2>1, <2>2 DEF SameState, RowIsLegal
  <2>3. CASE row'.state = "failed" /\ row'.code /\ row'.readyAt = row.readyAt
    BY <2>1, <2>3 DEF RowIsLegal
  <2>4. CASE ~SameState(row') /\ row'.state # "failed"
    <3>1. /\ at[r] \in HasRefs /\ row'.state = "ready" /\ row'.readyAt
          /\ row'.project = row.project /\ row'.prefix = row.prefix
          /\ row'.database = row.database /\ row'.schema = row.schema
          /\ row'.refs = row.refs
      BY <1>2, <2>4 DEF Writes
    <3>2. r # NoProject
      BY ProvisioningAssumption DEF NoProject
    <3>3. QED BY <1>2, <3>1, <3>2, ReadyIsEarned DEF RowIsLegal
  <2>5. QED BY <1>2, <2>2, <2>3, <2>4 DEF Writes
<1>3. CASE Takes(r)
  BY <1>3 DEF Takes, RowIsLegal
<1>4. QED BY <1>1, <1>2, <1>3 DEF Sound, Step

\* A ready row records the language its database speaks.
LEMMA ReadyKeepsItsLanguage ==
    ASSUME IInv, NEW r \in Runs, Sound(r)
    PROVE  ReadySpeaksItsLanguage'
<1>1. CASE Quiet(r)
  BY <1>1 DEF Quiet, IInv, LanguagesStay, ReadySpeaksItsLanguage, Sound, Step, Alone
<1>2. CASE Writes(r)
  BY <1>2, HolderWritesAlone, ReadyIsEarned
     DEF Writes, SameState, SameHolder, ReadySpeaksItsLanguage
<1>3. CASE Takes(r)
  BY <1>3 DEF Takes, ReadySpeaksItsLanguage
<1>4. QED BY <1>1, <1>2, <1>3 DEF Sound, Step

-----------------------------------------------------------------------------
(* The theorems. *)

\* The invariant holds before the tenant's first run has asked for the row.
LEMMA InitIsSound == Init => IInv
<1> SUFFICES ASSUME Init PROVE IInv
  OBVIOUS
<1>1. NoRow \in Row /\ NoRow.state = "absent" /\ NoRow.lease = 0 /\ ~NoRow.readyAt
  BY DEF NoRow, Row, NoProject
<1>2. /\ local \in [Runs -> Local]
      /\ \A r \in Runs : local[r].lease = 0 /\ local[r].seen = NoRow
  BY <1>1 DEF Init, Local, NoProject
<1>3. \A r \in Runs : at[r] = "get"
  BY DEF Init
<1>4. TypeOK
  BY <1>1, <1>2, <1>3 DEF Init, TypeOK, Awaits, Building
<1>5. row = NoRow
  BY DEF Init
<1>6. OneHolderPerLease /\ LeasesAreGiven
  BY <1>1, <1>2, <1>5 DEF OneHolderPerLease, LeasesAreGiven
<1>7. ClosedRowsAreLeft /\ RowIsLegal /\ ReadySpeaksItsLanguage
  BY <1>1, <1>5 DEF ClosedRowsAreLeft, RowIsLegal, ReadySpeaksItsLanguage, NoRow
<1>8. ClaimsAreDecided
  BY <1>3 DEF ClaimsAreDecided
<1>9. RowFollowsItsHolder
  BY <1>1, <1>5 DEF RowFollowsItsHolder, Owned, Fenced
<1>10. LanguagesStay
  BY <1>1, <1>3, <1>5 DEF LanguagesStay, Speaks, HasRefs
<1>11. QED BY <1>4, <1>6, <1>7, <1>8, <1>9, <1>10 DEF IInv

\* Every step of every run leaves a well-typed state and the row to its holder.
LEMMA NextIsSound ==
    ASSUME IInv, Next
    PROVE  \E r \in Runs : Sound(r)
<1>1. PICK r \in Runs : TakesOver(r) \/ CleansUp(r) \/ Builds(r) \/ Finishes(r) \/ Stops(r)
  BY DEF Next
<1>2. TypeOK /\ LeasesAreGiven /\ RowFollowsItsHolder
  BY DEF IInv
<1>3. Sound(r)
  BY <1>1, <1>2, TakesOverSoundly, CleansUpSoundly, BuildsSoundly, FinishesSoundly, StopsSoundly
<1>4. QED BY <1>3

\* A sound step keeps every part of the invariant, and so does no step at all.
LEMMA SoundStepKeepsIInv ==
    ASSUME IInv, NEW r \in Runs, Sound(r)
    PROVE  IInv'
<1>1. TypeOK'
  BY DEF Sound
<1>2. QED
  BY <1>1, LeasesStayGiven, LeasesStayUnique, ClosedRowsStayLeft, ClaimsStayDecided,
     RowStaysWithItsHolder, LanguagesStayPut, RowStaysLegal, ReadyKeepsItsLanguage DEF IInv

LEMMA StutterKeepsIInv ==
    ASSUME IInv, UNCHANGED vars
    PROVE  IInv'
BY DEF vars, IInv, TypeOK, OneHolderPerLease, LeasesAreGiven, ClosedRowsAreLeft,
   ClaimsAreDecided, RowFollowsItsHolder, LanguagesStay, RowIsLegal,
   ReadySpeaksItsLanguage, Owned, Fenced

\* Whatever runs of provisionTenant interleave, hang, fail and die, on a tenant's row
\* every part of the invariant holds at every await.
THEOREM Inductive == Spec => []IInv
<1>1. Init => IInv
  BY InitIsSound
<1>2. IInv /\ [Next]_vars => IInv'
  <2> SUFFICES ASSUME IInv, [Next]_vars PROVE IInv'
    OBVIOUS
  <2>1. CASE Next
    BY <2>1, NextIsSound, SoundStepKeepsIInv
  <2>2. CASE UNCHANGED vars
    BY <2>2, StutterKeepsIInv
  <2>3. QED BY <2>1, <2>2
<1>3. QED BY <1>1, <1>2, PTL DEF Spec

\* The values of every variable are of their types at every await.
THEOREM TypeCorrect == Spec => []TypeOK
<1>1. IInv => TypeOK
  BY DEF IInv
<1>2. QED BY <1>1, Inductive, PTL

\* The lease is a fencing token: no two runs ever hold the same one.
THEOREM LeaseFences == Spec => []OneHolderPerLease
<1>1. IInv => OneHolderPerLease
  BY DEF IInv
<1>2. QED BY <1>1, Inductive, PTL

\* The CHECK constraints of control.tenant never reject a run's write.
THEOREM RowStoredIsLegal == Spec => []RowIsLegal
<1>1. IInv => RowIsLegal
  BY DEF IInv
<1>2. QED BY <1>1, Inductive, PTL

\* A ready tenant's database stems in the language its row records.
THEOREM LanguageIsKept == Spec => []ReadySpeaksItsLanguage
<1>1. IInv => ReadySpeaksItsLanguage
  BY DEF IInv
<1>2. QED BY <1>1, Inductive, PTL

\* A ready row changes only under a run that read it, stale, before it was ready.
THEOREM OnlyEarlierReads == Spec => OnlyAnEarlierReadReopens
<1> DEFINE Reopens(r) == /\ at[r] = "claim"
                         /\ local[r].seen.state = "provisioning"
                         /\ local[r].seen.lease = row.lease
                         /\ row'.lease = row.lease + 1
<1>1. ASSUME IInv, [Next]_vars, row.state = "ready", row' # row
      PROVE  \E r \in Runs : Reopens(r)
  <2>1. Next
    BY <1>1 DEF vars
  <2>2. PICK r \in Runs : Sound(r)
    BY <1>1, <2>1, NextIsSound
  <2>3. Takes(r)
    BY <1>1, <2>2, HolderWritesAlone DEF Sound, Step, Quiet
  <2>4. at[r] = "claim" /\ local[r].seen.lease = row.lease /\ row'.lease = row.lease + 1
    BY <1>1, <2>3 DEF Takes
  <2>5. local[r].seen.state = "provisioning"
    BY <1>1, <2>4 DEF IInv, ClaimsAreDecided
  <2>6. QED BY <2>4, <2>5
<1>2. IInv /\ [Next]_vars =>
         [row.state = "ready" /\ row' # row => \E r \in Runs : Reopens(r)]_vars
  BY <1>1
<1>3. QED BY <1>2, Inductive, PTL DEF Spec, OnlyAnEarlierReadReopens

-----------------------------------------------------------------------------
(* The strengthening of what a ready row routes to, and of what is left of *)
(* the projects it does not.                                               *)

Early == {"get", "insert", "claim", "clear", "prefix"} \cup Cleanup

\* The row records whose it is.
Recorded == \A r \in Runs : Owned(r) => row.by = r

\* A project is asked for once the row is clean, and known once it is there.
Known ==
    /\ \A r \in posted : at[r] \notin Early
    /\ \A r \in Runs : local[r].created \in {NoProject, r}
                       /\ (local[r].created = r => r \in landed)
    /\ row.project # NoProject => row.project \in landed

\* A run that undoes has lost the row, and is not the one it routes to.
UndoIsDisowned == \A r \in Runs : at[r] = "undo" => ~Owned(r) /\ row.project # r

\* Who cleans up finds what the row records, before anything is built anew.
CleanupFinds ==
    \A r \in Runs : Owned(r) =>
        /\ at[r] = "sweep" /\ row.project \in projects => row.project \in local[r].sweep
        /\ at[r] \in {"revoke", "clear"} => row.project \notin projects
        /\ at[r] \in {"prefix", "create", "bankProject"} => row.project = NoProject

\* A project whose id reached its run is the one the row records, or is in hand.
Accounted ==
    \A r \in Runs :
        /\ r \in projects /\ local[r].created = r
        /\ at[r] \notin {"bankProject", "undo", "stranding"}
        => row.project = r

\* A ready row is the one of the run it routes to.
ReadyIsHeld ==
    row.state = "ready" =>
        row.project \in Runs /\ row.by = row.project /\ Owned(row.project)

\* While no takeover straddled an unfenced call, those calls are the holder's own.
HolderIsUndisturbed ==
    ~straddled =>
        \A r \in Runs :
            /\ at[r] \in Unfenced => Owned(r)
            /\ Owned(r) /\ r \in landed => r \in projects
            /\ Owned(r) /\ (at[r] \in {"refs", "ready"} \/ row.state = "ready") => entry = r

Routed ==
    /\ IInv /\ Recorded /\ Known /\ UndoIsDisowned /\ CleanupFinds /\ Accounted
    /\ ReadyIsHeld /\ HolderIsUndisturbed

-----------------------------------------------------------------------------
(* What a step of a run does to the vendor, the row's columns, the grant   *)
(* and the calls that carry no lease.                                      *)

Projecting(r) ==
    /\ posted \subseteq posted' /\ posted' \subseteq posted \cup {r}
    /\ r \in posted' => r \in posted \/ at'[r] = "create"
    /\ landed \subseteq landed' /\ landed' \subseteq landed \cup {r}
    /\ r \in landed' => r \in landed \/ r \in projects'
    /\ \A x \in projects' : x \in projects \/ x = Stray \/ (x = r /\ r \notin landed)
    /\ \A x \in projects : \/ x \in projects' \/ at[r] \in {"drop", "sweep"}
                           \/ at[r] = "undo" /\ x = local[r].created

Moving(r) ==
    /\ at'[r] \in Early => at[r] \in Early
    /\ at[r] = "stranding" => at'[r] = "stranding"
    /\ at[r] = "bankProject" => \/ at'[r] \in {"bankProject", "undo", "stranding"}
                                \/ row'.project = local[r].created
    /\ at[r] = "undo" => /\ row' = row
                         /\ at'[r] \in {"undo", "stranding"} \/ local[r].created \notin projects'
    /\ at'[r] = "undo" => \/ at[r] = "undo"
                          \/ /\ ~Owned(r) /\ row' = row
                             /\ local[r].created \notin {NoProject, row.project}
    /\ \/ local'[r].created = local[r].created
       \/ local'[r].created = r /\ r \in landed /\ at'[r] = "bankProject"

Recording(r) ==
    /\ IF row'.lease = row.lease THEN row'.by = row.by
       ELSE row'.by = r /\ at[r] \in {"insert", "claim"}
    /\ \/ row'.project = row.project
       \/ row'.project = NoProject /\ (row.state = "absent" \/ (at[r] = "clear" /\ Owned(r)))
       \/ row'.project = r /\ at[r] = "bankProject" /\ Owned(r) /\ local[r].created = r
    /\ row'.state = "ready" =>
         row' = row \/ (at[r] = "ready" /\ Owned(r) /\ row'.project = row.project)

Granting(r) ==
    /\ entry' = entry \/ at[r] = "revoke" \/ (at[r] = "put" /\ entry' = r)
    /\ at'[r] \in {"refs", "ready"} => \/ at[r] \in {"refs", "ready"}
                                       \/ at[r] = "put" /\ entry' = r
    /\ straddled => straddled'
    /\ \/ straddled' \/ row'.lease = row.lease \/ row.state = "absent"
       \/ \A q \in Runs : at[q] \notin Unfenced
    /\ at'[r] \in Unfenced => Owned(r)' \/ (at[r] \in Unfenced /\ row' = row)

Cleaning(r) ==
    /\ at'[r] \in {"sweep", "revoke", "clear"} => row' = row
    /\ at'[r] = "sweep" => \A x \in projects' \cap projects :
         x \in local'[r].sweep \/ (at[r] = "sweep" /\ x \notin local[r].sweep)
    /\ at'[r] \in {"revoke", "clear"} => \A x \in projects' \cap projects :
         at[r] \in {"revoke", "clear"} \/ (at[r] = "sweep" /\ x \notin local[r].sweep)
    /\ at'[r] \in {"prefix", "create", "bankProject"} =>
         \/ row'.project = NoProject
         \/ at[r] \in {"prefix", "create", "bankProject"} /\ row'.project = row.project

Effects(r) == Projecting(r) /\ Moving(r) /\ Recording(r) /\ Granting(r) /\ Cleaning(r)

\* The columns a patch leaves alone: whose row it is, mostly what it records.
Recorder(c) == c.by = row.by /\ c.lease = row.lease
SameColumns(c) == Recorder(c) /\ c.project = row.project /\ c.state = row.state

\* Every patch leaves the row to its holder.
LEMMA PatchedColumns ==
    ASSUME row \in Row, NEW p \in Runs
    PROVE  /\ SameColumns([row EXCEPT !.prefix = TRUE])
           /\ SameColumns([row EXCEPT !.database = TRUE])
           /\ SameColumns([row EXCEPT !.schema = TRUE])
           /\ SameColumns([row EXCEPT !.refs = TRUE])
           /\ LET c == [row EXCEPT !.project = p]
              IN  Recorder(c) /\ c.project = p /\ c.state = row.state
           /\ LET c == [row EXCEPT !.state = "failed", !.code = TRUE]
              IN  Recorder(c) /\ c.project = row.project /\ c.state = "failed"
           /\ Recorder(Cleared) /\ Cleared.project = NoProject /\ Cleared.state = row.state
           /\ Recorder(Served) /\ Served.project = row.project
BY DEF Row, Cleared, Served, SameColumns, Recorder

\* A run that is to record a project records its own.
LEMMA BuilderHasItsProject ==
    ASSUME TypeOK, NEW r \in Runs, at[r] = "bankProject"
    PROVE  local[r].created = r
BY DEF TypeOK, Building

USE DEF Early, Unfenced, Awaits, Cleanup, Calls, Building, Ended

\* A step that leaves the row, the vendor and the secret store alone.
LEMMA SupersededEffects ==
    ASSUME TypeOK, NEW r \in Runs, Superseded(r), at[r] \in {"prefix", "fail"} \cup Building,
           UNCHANGED <<local, posted, landed, projects, entry, straddled>>
    PROVE  Effects(r)
<1>1. at'[r] \in {"undo", "done"} /\ row' = row
  BY Going DEF Superseded, TypeOK
<1>2. at'[r] = "undo" => ~Owned(r) /\ local[r].created \notin {NoProject, row.project}
  BY Going DEF Superseded, TypeOK
<1>3. at[r] = "bankProject" => at'[r] = "undo" \/ row.project = local[r].created
  BY Going, ProvisioningAssumption DEF Superseded, TypeOK, NoProject
<1>4. QED BY <1>1, <1>2, <1>3 DEF Effects, Projecting, Moving, Recording, Granting, Cleaning

\* A run asks for the row, or takes it over.
LEMMA TakesOverEffects ==
    ASSUME IInv, NEW r \in Runs, TakesOver(r)
    PROVE  Effects(r)
<1>1. CASE Get(r)
  <2>1. row' = row /\ UNCHANGED <<vendor, entry, straddled>> /\ at[r] = "get"
        /\ at'[r] \in {"insert", "done", "claim"}
    BY <1>1, Going DEF Get, IInv, TypeOK
  <2>2. local'[r].created = local[r].created
    BY <1>1 DEF Get, IInv, TypeOK, Local
  <2>3. QED BY <2>1, <2>2 DEF Effects, Projecting, Moving, Recording, Granting, Cleaning, vendor
<1>2. CASE Insert(r)
  <2>1. /\ UNCHANGED <<vendor, entry, straddled>>
        /\ at[r] = "insert" /\ at'[r] \in {"done", "prefix"}
    BY <1>2, Going DEF Insert, IInv, TypeOK
  <2>2. local'[r].created = local[r].created
    BY <1>2 DEF Insert, IInv, TypeOK, Local
  <2>3. \/ row' = row /\ at'[r] = "done"
        \/ /\ row'.by = r /\ row'.lease = 1 /\ row'.project = NoProject
           /\ row'.state = "provisioning" /\ row.state = "absent" /\ row.lease = 0
    BY <1>2, Going DEF Insert, Inserted, IInv, TypeOK, LeasesAreGiven, NoRow
  <2>4. QED BY <2>1, <2>2, <2>3
     DEF Effects, Projecting, Moving, Recording, Granting, Cleaning, vendor
<1>3. CASE Claim(r)
  <2>1. UNCHANGED <<vendor, entry>> /\ at[r] = "claim"
    BY <1>3 DEF Claim
  <2>2. local'[r].created = local[r].created
    BY <1>3 DEF Claim, Forgets, IInv, TypeOK, Local
  <2>3. CASE Fenced(local[r].seen.lease)
    <3>1. /\ row'.by = r /\ row'.lease = local[r].seen.lease + 1 /\ row'.project = row.project
          /\ row'.state = "provisioning" /\ row.lease = local[r].seen.lease
      BY <1>3, <2>3 DEF Claim, Retaken, Fenced
    <3>2. row.lease \in Nat /\ row'.lease # row.lease
      BY <3>1, LeasesAreNumbers DEF IInv
    <3>3. ~local[r].seen.readyAt => at'[r] \in {"drop", "search"}
      BY <1>3, <2>3, Going DEF Claim, CleanupStarts, IInv, TypeOK
    <3>4. at'[r] \in {"done", "drop", "search"}
      BY <1>3, <2>3, Going DEF Claim, CleanupStarts, IInv, TypeOK
    <3>5. local'[r].lease = local[r].seen.lease + 1
      BY <1>3, <2>3 DEF Claim, IInv, TypeOK, Local
    <3>6. Owned(r)'
      BY <3>1, <3>5 DEF Owned, Fenced
    <3>7. straddled' = (straddled \/ \E q \in Runs : at[q] \in Unfenced)
      BY <1>3, <2>3 DEF Claim
    <3>8. QED BY <2>1, <2>2, <3>1, <3>2, <3>4, <3>6, <3>7
       DEF Effects, Projecting, Moving, Recording, Granting, Cleaning, vendor
  <2>4. CASE ~Fenced(local[r].seen.lease)
    <3>1. UNCHANGED <<row, straddled>> /\ at'[r] = "done"
      BY <1>3, <2>4, Going DEF Claim, IInv, TypeOK
    <3>2. QED BY <2>1, <2>2, <3>1
       DEF Effects, Projecting, Moving, Recording, Granting, Cleaning, vendor
  <2>5. QED BY <2>3, <2>4
<1>4. QED BY <1>1, <1>2, <1>3 DEF TakesOver

\* A run cleans up after the attempt before it.
LEMMA CleansUpEffects ==
    ASSUME IInv, NEW r \in Runs, CleansUp(r)
    PROVE  Effects(r)
<1>1. CASE Drop(r)
  BY <1>1, Going
     DEF Drop, IInv, TypeOK, Effects, Projecting, Moving, Recording, Granting, Cleaning
<1>2. CASE Search(r)
  <2>1. row' = row /\ UNCHANGED <<vendor, entry, straddled>> /\ at[r] = "search"
    BY <1>2 DEF Search
  <2>2. at'[r] \in {"revoke", "sweep"} /\ (at'[r] = "revoke" => projects = {})
    BY <1>2, Going DEF Search, AfterSweeping, IInv, TypeOK
  <2>3. local'[r].created = local[r].created /\ local'[r].sweep = projects
    BY <1>2 DEF Search, IInv, TypeOK, Local
  <2>4. QED BY <2>1, <2>2, <2>3
     DEF Effects, Projecting, Moving, Recording, Granting, Cleaning, vendor
<1>3. CASE Sweep(r)
  <2>1. PICK p \in local[r].sweep :
            /\ projects' = projects \ {p}
            /\ local' = [local EXCEPT ![r].sweep = @ \ {p}]
            /\ Goes(r, AfterSweeping(local[r].sweep \ {p}))
    BY <1>3 DEF Sweep
  <2>2. row' = row /\ UNCHANGED <<posted, landed, entry, straddled>> /\ at[r] = "sweep"
    BY <1>3 DEF Sweep
  <2>3. at'[r] \in {"revoke", "sweep"} /\ (at'[r] = "revoke" => local[r].sweep \ {p} = {})
    BY <2>1, Going DEF AfterSweeping, IInv, TypeOK
  <2>4. local'[r].created = local[r].created /\ local'[r].sweep = local[r].sweep \ {p}
    BY <2>1 DEF IInv, TypeOK, Local
  <2>5. QED BY <2>1, <2>2, <2>3, <2>4
     DEF Effects, Projecting, Moving, Recording, Granting, Cleaning
<1>4. CASE Revoke(r)
  BY <1>4, Going
     DEF Revoke, vendor, IInv, TypeOK, Effects, Projecting, Moving, Recording, Granting, Cleaning
<1>5. CASE Clear(r)
  <2>1. UNCHANGED <<local, vendor, entry, straddled>> /\ at[r] = "clear"
    BY <1>5 DEF Clear
  <2>2. \/ row' = row /\ at'[r] = "done"
        \/ /\ at'[r] = "prefix" /\ Owned(r) /\ row'.by = row.by /\ row'.lease = row.lease
           /\ row'.project = NoProject /\ row'.state = row.state
    BY <1>5, Going, PatchedColumns DEF Clear, Recorder, IInv, TypeOK
  <2>3. Owned(r) => row.state # "ready"
    BY <2>1 DEF Owned, Fenced, IInv, ClosedRowsAreLeft
  <2>4. QED BY <2>1, <2>2, <2>3
     DEF Effects, Projecting, Moving, Recording, Granting, Cleaning, vendor
<1>6. QED BY <1>1, <1>2, <1>3, <1>4, <1>5 DEF CleansUp

\* A fenced write of a run that goes on building, or gives up.
LEMMA BankedEffects ==
    ASSUME IInv, NEW r \in Runs, Owned(r),
           at[r] \in {"prefix", "role", "apply", "mint", "refs", "fail"},
           Recorder(row'), row'.project = row.project, row'.state # "ready",
           at'[r] \in {"create", "apply", "verify", "ready", "fail", "done"},
           at'[r] = "create" => at[r] = "prefix", at'[r] = "ready" => at[r] = "refs",
           posted' = posted \/ (at'[r] = "create" /\ posted' = posted \cup {r}),
           UNCHANGED <<local, landed, projects, entry, straddled>>
    PROVE  Effects(r)
BY DEF Recorder, Effects, Projecting, Moving, Recording, Granting, Cleaning

\* A run builds the substrate, or the vendor does what it asked.
LEMMA BuildsEffects ==
    ASSUME IInv, NEW r \in Runs, Builds(r)
    PROVE  Effects(r)
<1>1. Owned(r) /\ at[r] \notin Ended => row.state \notin {"ready", "absent"}
  BY DEF Owned, Fenced, IInv, ClosedRowsAreLeft
<1>2. CASE BankPrefix(r)
  <2>1. CASE Superseded(r) /\ UNCHANGED posted
    BY <1>2, <2>1, SupersededEffects DEF BankPrefix, IInv
  <2>2. CASE ~(Superseded(r) /\ UNCHANGED posted)
    <3>1. /\ Owned(r) /\ row' = [row EXCEPT !.prefix = TRUE] /\ at[r] = "prefix"
          /\ UNCHANGED <<local, landed, projects, entry, straddled>>
          /\ at'[r] \in {"create", "fail"}
          /\ posted' = IF at'[r] = "create" THEN posted \cup {r} ELSE posted
      BY <1>2, <2>2, Going DEF BankPrefix, Proceeds, IInv, TypeOK
    <3>2. QED BY <1>1, <3>1, PatchedColumns, BankedEffects DEF SameColumns, Recorder, IInv, TypeOK
  <2>3. QED BY <2>1, <2>2
<1>3. CASE Repost(r)
  BY <1>3 DEF Repost, Effects, Projecting, Moving, Recording, Granting, Cleaning
<1>4. CASE VendorCreates(r)
  BY <1>4 DEF VendorCreates, Effects, Projecting, Moving, Recording, Granting, Cleaning
<1>5. CASE CreateReturns(r)
  <2>1. local'[r].created = r /\ at'[r] = "bankProject" /\ r \in landed /\ at[r] = "create"
    BY <1>5, Going DEF CreateReturns, IInv, TypeOK, Local
  <2>2. QED BY <1>5, <2>1
     DEF CreateReturns, vendor, Effects, Projecting, Moving, Recording, Granting, Cleaning
<1>6. CASE BankProject(r)
  <2>1. CASE Superseded(r)
    BY <1>6, <2>1, SupersededEffects DEF BankProject, vendor, IInv
  <2>2. CASE ~Superseded(r)
    <3>1. /\ Owned(r) /\ row' = [row EXCEPT !.project = r]
          /\ at[r] = "bankProject" /\ local[r].created = r
      <4>1. at[r] = "bankProject" /\ Owned(r) /\ row' = [row EXCEPT !.project = local[r].created]
        BY <1>6, <2>2 DEF BankProject, Banks
      <4>2. local[r].created = r
        BY <4>1, BuilderHasItsProject DEF IInv
      <4>3. QED BY <4>1, <4>2
    <3>2. /\ at'[r] \in {"role", "fail"}
          /\ UNCHANGED <<local, posted, landed, projects, entry, straddled>>
      BY <1>6, <2>2, Going DEF BankProject, Banks, Proceeds, vendor, IInv, TypeOK
    <3>3. row'.by = row.by /\ row'.project = r /\ row'.lease = row.lease /\ row'.state = row.state
      BY <3>1, PatchedColumns DEF Recorder, IInv, TypeOK
    <3>4. QED BY <1>1, <3>1, <3>2, <3>3
       DEF Effects, Projecting, Moving, Recording, Granting, Cleaning
  <2>3. QED BY <2>1, <2>2
<1>7. CASE CreateRoleAndDatabase(r)
  <2>1. CASE Superseded(r)
    BY <1>7, <2>1, SupersededEffects DEF CreateRoleAndDatabase, vendor, IInv
  <2>2. CASE ~Superseded(r)
    <3>1. /\ Owned(r) /\ row' = [row EXCEPT !.database = TRUE]
          /\ at[r] = "role" /\ at'[r] \in {"apply", "fail"}
          /\ UNCHANGED <<local, posted, landed, projects, entry, straddled>>
      BY <1>7, <2>2, Going DEF CreateRoleAndDatabase, Banks, Proceeds, vendor, IInv, TypeOK
    <3>2. QED BY <1>1, <3>1, PatchedColumns, BankedEffects DEF SameColumns, Recorder, IInv, TypeOK
  <2>3. QED BY <2>1, <2>2
<1>8. CASE ApplySchema(r)
  <2>1. CASE Superseded(r)
    BY <1>8, <2>1, SupersededEffects DEF ApplySchema, IInv
  <2>2. CASE ~Superseded(r)
    <3>1. /\ Owned(r) /\ row' = [row EXCEPT !.schema = TRUE]
          /\ at[r] = "apply" /\ at'[r] \in {"verify", "fail"}
          /\ UNCHANGED <<local, posted, landed, projects, entry, straddled>>
      BY <1>8, <2>2, Going DEF ApplySchema, Banks, Proceeds, IInv, TypeOK
    <3>2. QED BY <1>1, <3>1, PatchedColumns, BankedEffects DEF SameColumns, Recorder, IInv, TypeOK
  <2>3. QED BY <2>1, <2>2
<1>9. CASE VerifyFirstQuery(r)
  <2>1. at'[r] \in {"mint", "fail"}
    BY <1>9, Going DEF VerifyFirstQuery, Proceeds, IInv, TypeOK
  <2>2. QED BY <1>9, <2>1
     DEF VerifyFirstQuery, vendor, Effects, Projecting, Moving, Recording, Granting, Cleaning
<1>10. QED BY <1>2, <1>3, <1>4, <1>5, <1>6, <1>7, <1>8, <1>9 DEF Builds

\* A run stores the grant and makes the row ready.
LEMMA FinishesEffects ==
    ASSUME IInv, NEW r \in Runs, Finishes(r)
    PROVE  Effects(r)
<1>1. Owned(r) /\ at[r] \notin Ended => row.state \notin {"ready", "absent"}
  BY DEF Owned, Fenced, IInv, ClosedRowsAreLeft
<1>2. CASE ProbeLease(r)
  <2>1. CASE Superseded(r)
    BY <1>2, <2>1, SupersededEffects DEF ProbeLease, vendor, IInv
  <2>2. CASE ~Superseded(r)
    <3>1. Owned(r) /\ row' = row /\ at[r] = "mint" /\ at'[r] = "put"
          /\ UNCHANGED <<local, posted, landed, projects, entry, straddled>>
      BY <1>2, <2>2, Going DEF ProbeLease, vendor, IInv, TypeOK
    <3>2. Owned(r)'
      BY <3>1 DEF Owned, Fenced
    <3>3. QED BY <3>1, <3>2 DEF Effects, Projecting, Moving, Recording, Granting, Cleaning
  <2>3. QED BY <2>1, <2>2
<1>3. CASE PutSecret(r)
  <2>1. at'[r] = "refs"
    BY <1>3, Going DEF PutSecret, IInv, TypeOK
  <2>2. QED BY <1>3, <2>1
     DEF PutSecret, vendor, Effects, Projecting, Moving, Recording, Granting, Cleaning
<1>4. CASE BankRefs(r)
  <2>1. CASE Superseded(r)
    BY <1>4, <2>1, SupersededEffects DEF BankRefs, vendor, IInv
  <2>2. CASE ~Superseded(r)
    <3>1. Owned(r) /\ row' = [row EXCEPT !.refs = TRUE] /\ at[r] = "refs" /\ at'[r] = "ready"
          /\ UNCHANGED <<local, posted, landed, projects, entry, straddled>>
      BY <1>4, <2>2, Going DEF BankRefs, vendor, IInv, TypeOK
    <3>2. QED BY <1>1, <3>1, PatchedColumns, BankedEffects DEF SameColumns, Recorder, IInv, TypeOK
  <2>3. QED BY <2>1, <2>2
<1>5. CASE BankReady(r)
  <2>1. CASE Superseded(r)
    BY <1>5, <2>1, SupersededEffects DEF BankReady, vendor, IInv
  <2>2. CASE ~Superseded(r)
    <3>1. Owned(r) /\ row' = Served /\ at[r] = "ready" /\ at'[r] = "done"
          /\ UNCHANGED <<local, posted, landed, projects, entry, straddled>>
      BY <1>5, <2>2, Going DEF BankReady, vendor, IInv, TypeOK
    <3>2. row'.by = row.by /\ row'.project = row.project /\ row'.lease = row.lease
      BY <3>1, PatchedColumns DEF Recorder, IInv, TypeOK
    <3>3. QED BY <3>1, <3>2 DEF Effects, Projecting, Moving, Recording, Granting, Cleaning
  <2>3. QED BY <2>1, <2>2
<1>6. QED BY <1>2, <1>3, <1>4, <1>5 DEF Finishes

\* A run fails, undoes, dies, or grows stale.
LEMMA StopsEffects ==
    ASSUME IInv, NEW r \in Runs, Stops(r)
    PROVE  Effects(r)
<1>1. Owned(r) /\ at[r] \notin Ended => row.state \notin {"ready", "absent"}
  BY DEF Owned, Fenced, IInv, ClosedRowsAreLeft
<1>2. CASE CallFails(r)
  <2>1. at'[r] = "fail"
    BY <1>2, Going DEF CallFails, IInv, TypeOK
  <2>2. QED BY <1>2, <2>1
     DEF CallFails, vendor, Effects, Projecting, Moving, Recording, Granting, Cleaning
<1>3. CASE Fail(r)
  <2>1. CASE Superseded(r)
    BY <1>3, <2>1, SupersededEffects DEF Fail, vendor, IInv
  <2>2. CASE ~Superseded(r)
    <3>1. Owned(r) /\ row' = [row EXCEPT !.state = "failed", !.code = TRUE] /\ at[r] = "fail"
          /\ at'[r] = "done" /\ UNCHANGED <<local, posted, landed, projects, entry, straddled>>
      BY <1>3, <2>2, Going DEF Fail, vendor, IInv, TypeOK
    <3>2. QED BY <1>1, <3>1, PatchedColumns, BankedEffects DEF SameColumns, Recorder, IInv, TypeOK
  <2>3. QED BY <2>1, <2>2
<1>4. CASE Undo(r)
  <2>1. at[r] = "undo" /\ row' = row /\ UNCHANGED <<local, posted, landed, spoken, entry, straddled>>
    BY <1>4 DEF Undo
  <2>2. \/ at'[r] = "done" /\ projects' = projects \ {local[r].created}
        \/ at'[r] = "stranding" /\ projects' = projects
    BY <1>4, Going DEF Undo, IInv, TypeOK
  <2>3. QED BY <2>1, <2>2 DEF Effects, Projecting, Moving, Recording, Granting, Cleaning
<1>5. CASE Tick(r)
  BY <1>5 DEF Tick, vendor, Effects, Projecting, Moving, Recording, Granting, Cleaning
<1>6. CASE Die(r)
  <2>1. /\ at[r] \notin Ended
        /\ at'[r] = IF at[r] \in {"bankProject", "undo"} THEN "stranding" ELSE "done"
    BY <1>6, Going DEF Die, IInv, TypeOK
  <2>2. QED BY <1>6, <2>1
     DEF Die, vendor, Effects, Projecting, Moving, Recording, Granting, Cleaning
<1>7. QED BY <1>2, <1>3, <1>4, <1>5, <1>6 DEF Stops

HIDE DEF Awaits, Cleanup, Calls, Building, Ended

-----------------------------------------------------------------------------
(* Each part is kept. *)

\* Another run holds the row after a step only if it held it before, and then the
\* step left the row alone.
LEMMA OtherHolder ==
    ASSUME IInv, NEW r \in Runs, Sound(r), NEW q \in Runs, q # r, Owned(q)'
    PROVE  Owned(q) /\ row' = row /\ ~Owned(r)
<1>1. local'[q] = local[q]
  BY DEF Sound, Step, Alone
<1>2. ~Takes(r)
  BY <1>1, TakerIsAlone, LeasesAreNumbers DEF Owned, Fenced, Sound, TypeOK, Row
<1>3. ~Writes(r)
  BY <1>1, HolderWritesAlone DEF Owned, Fenced, Writes, SameHolder
<1>4. row' = row
  BY <1>2, <1>3 DEF Sound, Step, Quiet
<1>5. Owned(q) /\ row.lease > 0
  BY <1>1, <1>4 DEF Owned, Fenced, IInv, LeasesAreGiven
<1>6. ~Owned(r)
  BY <1>5, LeasesAreNumbers DEF Owned, Fenced, IInv, OneHolderPerLease
<1>7. QED BY <1>4, <1>5, <1>6

\* The run that moves holds the row after a step because it held it, or took it.
LEMMA SameHolderOrTaken ==
    ASSUME IInv, NEW r \in Runs, Sound(r), Owned(r)'
    PROVE  \/ Owned(r) /\ row'.lease = row.lease
           \/ Takes(r) /\ row'.lease # row.lease
<1>1. CASE Quiet(r)
  BY <1>1 DEF Quiet, Owned, Fenced
<1>2. CASE Writes(r)
  BY <1>2 DEF Writes, SameHolder
<1>3. CASE Takes(r)
  BY <1>3, LeasesAreNumbers DEF Takes, IInv
<1>4. QED BY <1>1, <1>2, <1>3 DEF Sound, Step

\* The row goes on recording whose it is.
LEMMA RecordedStays ==
    ASSUME IInv, Recorded, NEW r \in Runs, Sound(r), Effects(r)
    PROVE  Recorded'
<1> SUFFICES ASSUME NEW q \in Runs, Owned(q)' PROVE row'.by = q
  BY DEF Recorded
<1>1. CASE q # r
  BY <1>1, OtherHolder DEF Recorded
<1>2. CASE q = r
  BY <1>2, SameHolderOrTaken DEF Recorded, Effects, Recording
<1>3. QED BY <1>1, <1>2

\* Nobody asks for a project before the row is clean, or learns of one before it is there.
LEMMA KnownStays ==
    ASSUME IInv, Known, NEW r \in Runs, Sound(r), Effects(r)
    PROVE  Known'
<1>1. \A q \in Runs \ {r} : at'[q] = at[q] /\ local'[q] = local[q]
  BY DEF Sound, Step, Alone
<1>2. posted' \subseteq Runs
  BY DEF Sound, TypeOK
<1>3. \A q \in posted' : at'[q] \notin Early
  BY <1>1, <1>2 DEF Known, Effects, Projecting, Moving, Cleanup
<1>4. ASSUME NEW q \in Runs
      PROVE  local'[q].created \in {NoProject, q} /\ (local'[q].created = q => q \in landed')
  BY <1>1, ProvisioningAssumption DEF Known, Effects, Projecting, Moving, NoProject
<1>5. row'.project # NoProject => row'.project \in landed'
  BY ProvisioningAssumption DEF Known, Effects, Projecting, Recording, NoProject
<1>6. QED BY <1>3, <1>4, <1>5 DEF Known

\* Who undoes has lost the row for good, and the row never routes to its project.
LEMMA UndoStaysDisowned ==
    ASSUME IInv, Known, UndoIsDisowned, NEW r \in Runs, Sound(r), Effects(r)
    PROVE  UndoIsDisowned'
<1> SUFFICES ASSUME NEW q \in Runs, at'[q] = "undo" PROVE ~Owned(q)' /\ row'.project # q
  BY DEF UndoIsDisowned
<1>1. CASE q # r
  <2>1. at[q] = "undo" /\ ~Owned(q) /\ row.project # q
    BY <1>1 DEF Sound, Step, Alone, UndoIsDisowned
  <2>2. ~Owned(q)'
    BY <1>1, <2>1, OtherHolder
  <2>3. q # NoProject
    BY ProvisioningAssumption DEF NoProject
  <2>4. QED BY <1>1, <2>1, <2>2, <2>3 DEF Effects, Recording
<1>2. CASE q = r
  <2>1. row' = row /\ ~Owned(r) /\ row.project # r
    BY <1>2 DEF Effects, Moving, Known, UndoIsDisowned
  <2>2. ~Owned(r)'
    BY <2>1, SameHolderOrTaken
  <2>3. QED BY <1>2, <2>1, <2>2
<1>3. QED BY <1>1, <1>2

\* What the row records is found and deleted before anything is built anew.
LEMMA CleanupStillFinds ==
    ASSUME IInv, Known, CleanupFinds, NEW r \in Runs, Sound(r), Effects(r)
    PROVE  CleanupFinds'
<1> SUFFICES ASSUME NEW q \in Runs, Owned(q)'
             PROVE  /\ at'[q] = "sweep" /\ row'.project \in projects'
                          => row'.project \in local'[q].sweep
                    /\ at'[q] \in {"revoke", "clear"} => row'.project \notin projects'
                    /\ at'[q] \in {"prefix", "create", "bankProject"} => row'.project = NoProject
  BY DEF CleanupFinds
<1>1. row' = row /\ row.project \in projects' => row.project \in projects
  BY ProvisioningAssumption DEF IInv, TypeOK, Row, Known, Effects, Projecting, NoProject
<1>2. CASE q # r
  <2>1. Owned(q) /\ row' = row /\ at'[q] = at[q] /\ local'[q] = local[q]
    BY <1>2, OtherHolder DEF Sound, Step, Alone
  <2>2. QED BY <1>1, <2>1 DEF CleanupFinds
<1>3. CASE q = r
  <2>1. CASE Owned(r)
    BY <1>1, <1>3, <2>1 DEF CleanupFinds, Effects, Cleaning
  <2>2. CASE ~Owned(r)
    <3>1. Takes(r) /\ row' # row /\ row'.lease # row.lease
      BY <1>3, <2>2, SameHolderOrTaken
    <3>2. at'[r] \notin {"create", "bankProject", "sweep", "revoke", "clear"}
      BY <3>1 DEF Takes, HasPrefix, Effects, Cleaning
    <3>3. at'[r] = "prefix" => row'.project = NoProject
      BY <3>1 DEF Effects, Recording, Cleaning
    <3>4. QED BY <1>3, <3>2, <3>3
  <2>3. QED BY <2>1, <2>2
<1>4. QED BY <1>2, <1>3

\* A project whose id reached its run stays in hand, or on the row.
LEMMA AccountedStays ==
    ASSUME IInv, Known, CleanupFinds, Accounted, NEW r \in Runs, Sound(r), Effects(r)
    PROVE  Accounted'
<1> SUFFICES ASSUME NEW q \in Runs, q \in projects', local'[q].created = q,
                    at'[q] \notin {"bankProject", "undo", "stranding"}
             PROVE  row'.project = q
  BY DEF Accounted
<1>1. q # NoProject /\ q # Stray
  BY ProvisioningAssumption DEF NoProject
<1>2. ASSUME q \in projects, row.project = q PROVE row'.project = q
  <2>1. row.state # "absent"
    BY <1>1, <1>2 DEF IInv, LeasesAreGiven, NoRow
  <2>2. ~(at[r] = "clear" /\ Owned(r))
    BY <1>2 DEF CleanupFinds
  <2>3. ~(at[r] = "bankProject" /\ Owned(r))
    BY <1>1, <1>2 DEF CleanupFinds
  <2>4. QED BY <1>2, <2>1, <2>2, <2>3 DEF Effects, Recording
<1>3. CASE q # r
  <2>1. at'[q] = at[q] /\ local'[q] = local[q]
    BY <1>3 DEF Sound, Step, Alone
  <2>2. q \in projects
    BY <1>1, <1>3 DEF Effects, Projecting
  <2>3. QED BY <1>2, <2>1, <2>2 DEF Accounted
<1>4. CASE q = r
  <2>1. local[r].created = r
    BY <1>4 DEF Effects, Moving
  <2>2. r \in projects
    BY <1>1, <1>4, <2>1 DEF Known, Effects, Projecting
  <2>3. at[r] = "bankProject" => row'.project = r
    BY <1>4, <2>1 DEF Effects, Moving
  <2>4. at[r] \notin {"undo", "stranding"}
    BY <1>4, <2>1 DEF Effects, Moving
  <2>5. at[r] # "bankProject" => row.project = r
    BY <2>1, <2>2, <2>4 DEF Accounted
  <2>6. QED BY <1>2, <1>4, <2>2, <2>3, <2>5
<1>5. QED BY <1>3, <1>4

\* Nobody's lease changes but that of a run that takes the row.
LEMMA LeaseIsKept ==
    ASSUME NEW r \in Runs, Sound(r), ~Takes(r), NEW q \in Runs
    PROVE  local'[q].lease = local[q].lease
BY DEF Sound, Step, Alone, Quiet, Writes

\* A ready row is still the one of the run it routes to.
LEMMA ReadyStaysHeld ==
    ASSUME IInv, Recorded, ReadyIsHeld, NEW r \in Runs, Sound(r), Effects(r)
    PROVE  ReadyIsHeld'
<1> SUFFICES ASSUME row'.state = "ready"
             PROVE  \E q \in Runs : row'.project = q /\ row'.by = q /\ Owned(q)'
  BY DEF ReadyIsHeld, Owned, Fenced
<1>1. ~Takes(r)
  BY DEF Takes
<1>2. CASE row' = row
  <2>1. row.project \in Runs /\ row.by = row.project /\ Owned(row.project)
    BY <1>2 DEF ReadyIsHeld
  <2>2. local'[row.project].lease = local[row.project].lease
    BY <1>1, <2>1, LeaseIsKept
  <2>3. QED BY <1>2, <2>1, <2>2 DEF Owned, Fenced
<1>3. CASE row' # row
  <2>1. Writes(r) /\ row'.lease = row.lease
    BY <1>1, <1>3 DEF Sound, Step, Quiet, Writes, SameHolder
  <2>2. at[r] = "ready" /\ Owned(r) /\ row'.project = row.project /\ row'.by = row.by
    BY <1>3, <2>1 DEF Effects, Recording
  <2>3. row.project = r /\ row.by = r
    BY <2>2 DEF Recorded, IInv, RowFollowsItsHolder, HasProject, HasDatabase, HasSchema, Speaks,
       HasRefs
  <2>4. local'[r].lease = local[r].lease
    BY <1>1, LeaseIsKept
  <2>5. Owned(r)'
    BY <2>1, <2>2, <2>4 DEF Owned, Fenced
  <2>6. QED BY <2>2, <2>3, <2>5
<1>4. QED BY <1>2, <1>3

\* The calls that carry no lease are still the holder's own.
LEMMA CallsStayTheHolders ==
    ASSUME IInv, HolderIsUndisturbed, NEW r \in Runs, Sound(r), Effects(r), ~straddled',
           NEW q \in Runs, at'[q] \in Unfenced
    PROVE  Owned(q)'
<1>1. CASE Owned(r)' /\ q = r
  BY <1>1
<1>2. CASE ~(Owned(r)' /\ q = r)
  <2>1. at[q] \in Unfenced
    BY <1>2 DEF Sound, Step, Alone, Effects, Granting
  <2>2. ~straddled /\ Owned(q)
    BY <2>1 DEF HolderIsUndisturbed, Effects, Granting
  <2>3. row'.lease = row.lease
    BY <2>1, <2>2 DEF Owned, Fenced, Effects, Granting
  <2>4. ~Takes(r)
    BY <2>3, LeasesAreNumbers DEF Takes, IInv
  <2>5. local'[q].lease = local[q].lease
    BY <2>4, LeaseIsKept
  <2>6. row.lease > 0 /\ row.lease \in Nat
    BY <2>2, LeasesAreNumbers DEF Owned, Fenced, IInv, LeasesAreGiven
  <2>7. row'.state # "absent"
    BY <2>3, <2>6, LeasesStayGiven DEF LeasesAreGiven, NoRow
  <2>8. QED BY <2>2, <2>3, <2>5, <2>7 DEF Owned, Fenced
<1>3. QED BY <1>1, <1>2

\* The project that the holder was given is still there.
LEMMA ProjectStaysThere ==
    ASSUME IInv, Known, UndoIsDisowned, HolderIsUndisturbed, NEW r \in Runs, Sound(r), Effects(r),
           ~straddled', NEW q \in Runs, Owned(q)', q \in landed'
    PROVE  q \in projects'
<1>1. ~straddled /\ (at[r] \in {"drop", "sweep"} => Owned(r))
  BY DEF Effects, Granting, HolderIsUndisturbed, Cleanup
<1>2. CASE q # r
  <2>1. Owned(q) /\ ~Owned(r)
    BY <1>2, OtherHolder
  <2>2. q \in landed /\ q \in projects
    BY <1>1, <1>2, <2>1 DEF Effects, Projecting, HolderIsUndisturbed
  <2>3. local[r].created # q
    BY <1>2, ProvisioningAssumption DEF Known, NoProject
  <2>4. QED BY <1>1, <2>1, <2>2, <2>3 DEF Effects, Projecting
<1>3. CASE q = r /\ r \notin landed
  BY <1>3 DEF Effects, Projecting
<1>4. CASE q = r /\ r \in landed
  <2>1. at[r] \notin Early
    BY <1>4 DEF Known, IInv, TypeOK
  <2>2. Owned(r)
    BY <1>4, <2>1, SameHolderOrTaken DEF Effects, Recording
  <2>3. r \in projects /\ at[r] # "undo" /\ at[r] \notin {"drop", "sweep"}
    BY <1>1, <1>4, <2>1, <2>2 DEF UndoIsDisowned, HolderIsUndisturbed, Cleanup
  <2>4. QED BY <1>4, <2>3 DEF Effects, Projecting
<1>5. QED BY <1>2, <1>3, <1>4

\* The grant in the secret store is still the holder's.
LEMMA EntryStaysTheHolders ==
    ASSUME IInv, HolderIsUndisturbed, NEW r \in Runs, Sound(r), Effects(r), ~straddled',
           NEW q \in Runs, Owned(q)', at'[q] \in {"refs", "ready"} \/ row'.state = "ready"
    PROVE  entry' = q
<1>1. ~straddled /\ (at[r] \in {"revoke", "put"} => Owned(r))
  BY DEF Effects, Granting, HolderIsUndisturbed, Cleanup
<1>2. CASE q # r
  <2>1. Owned(q) /\ row' = row /\ ~Owned(r)
    BY <1>2, OtherHolder
  <2>2. at'[q] = at[q]
    BY <1>2 DEF Sound, Step, Alone
  <2>3. entry = q
    BY <1>1, <2>1, <2>2 DEF HolderIsUndisturbed
  <2>4. QED BY <1>1, <2>1, <2>3 DEF Effects, Granting
<1>3. CASE q = r /\ ~(at[r] = "put" /\ entry' = r)
  <2>1. at'[r] \in {"refs", "ready"} => at[r] \in {"refs", "ready"}
    BY <1>3 DEF Effects, Granting
  <2>2. ~Takes(r)
    BY <1>3 DEF Takes, HasPrefix, HasProject, HasDatabase, HasSchema, Speaks, HasRefs
  <2>3. Owned(r)
    BY <1>3, <2>2, SameHolderOrTaken
  <2>4. at[r] \in {"refs", "ready"} \/ (row.state = "ready" /\ at[r] \in Ended)
    <3>1. at[r] \in {"refs", "ready"} \/ row.state = "ready"
      BY <1>3, <2>1 DEF Effects, Recording
    <3>2. row.state = "ready" => at[r] \in Ended
      BY <2>3 DEF Owned, Fenced, IInv, ClosedRowsAreLeft
    <3>3. QED BY <3>1, <3>2
  <2>5. entry = r /\ at[r] \notin {"revoke", "put"}
    BY <1>1, <2>3, <2>4 DEF HolderIsUndisturbed, Ended
  <2>6. QED BY <1>3, <2>5 DEF Effects, Granting
<1>4. QED BY <1>2, <1>3

\* The three together.
LEMMA HolderStaysUndisturbed ==
    ASSUME IInv, Known, UndoIsDisowned, HolderIsUndisturbed, NEW r \in Runs, Sound(r), Effects(r)
    PROVE  HolderIsUndisturbed'
<1> SUFFICES ASSUME ~straddled', NEW q \in Runs
             PROVE  /\ at'[q] \in Unfenced => Owned(q)'
                    /\ Owned(q)' /\ q \in landed' => q \in projects'
                    /\ Owned(q)' /\ (at'[q] \in {"refs", "ready"} \/ row'.state = "ready")
                          => entry' = q
  BY DEF HolderIsUndisturbed
<1>1. QED BY CallsStayTheHolders, ProjectStaysThere, EntryStaysTheHolders

HIDE DEF Early, Unfenced

\* Nobody has asked for the row, or for a project.
LEMMA InitIsRouted == Init => Routed
<1> SUFFICES ASSUME Init PROVE Routed
  OBVIOUS
<1>1. IInv
  BY InitIsSound
<1>2. \A r \in Runs : at[r] = "get" /\ local[r].created = NoProject /\ r # NoProject
  <2>1. \A r \in Runs : at[r] = "get" /\ r # NoProject
    BY ProvisioningAssumption DEF Init, NoProject
  <2>2. ASSUME NEW r \in Runs PROVE local[r].created = NoProject
    <3>1. local[r] \in {[seen |-> NoRow, lang |-> l, lease |-> 0,
                         created |-> NoProject, sweep |-> {}] : l \in Languages}
      BY DEF Init
    <3>2. QED BY <3>1
  <2>3. QED BY <2>1, <2>2
<1>3. /\ row.state = "absent" /\ row.project = NoProject
      /\ posted = {} /\ projects = {} /\ ~straddled
  BY DEF Init, NoRow
<1>4. \A r \in Runs : ~Owned(r)
  BY <1>3 DEF Owned, Fenced
<1>5. QED BY <1>1, <1>2, <1>3, <1>4
   DEF Routed, Recorded, Known, UndoIsDisowned, CleanupFinds, Accounted, ReadyIsHeld,
       HolderIsUndisturbed, Unfenced, Cleanup

\* Every step is a sound step of a run, with the effects above.
LEMMA NextHasEffects ==
    ASSUME IInv, Next
    PROVE  \E r \in Runs : Sound(r) /\ Effects(r)
<1>1. PICK r \in Runs : TakesOver(r) \/ CleansUp(r) \/ Builds(r) \/ Finishes(r) \/ Stops(r)
  BY DEF Next
<1>2. TypeOK /\ LeasesAreGiven /\ RowFollowsItsHolder
  BY DEF IInv
<1>3. Sound(r)
  BY <1>1, <1>2, TakesOverSoundly, CleansUpSoundly, BuildsSoundly, FinishesSoundly, StopsSoundly
<1>4. Effects(r)
  BY <1>1, TakesOverEffects, CleansUpEffects, BuildsEffects, FinishesEffects, StopsEffects
<1>5. QED BY <1>3, <1>4

\* The runs and the vendor leave what a ready row routes to alone, and what they leave
\* behind is accounted for, until a takeover straddles a call that carries no lease.
THEOREM RoutedInductive == Spec => []Routed
<1>1. Init => Routed
  BY InitIsRouted
<1>2. Routed /\ [Next]_vars => Routed'
  <2> SUFFICES ASSUME Routed, [Next]_vars PROVE Routed'
    OBVIOUS
  <2>1. CASE Next
    <3>1. /\ IInv /\ Recorded /\ Known /\ UndoIsDisowned /\ CleanupFinds /\ Accounted
          /\ ReadyIsHeld /\ HolderIsUndisturbed
      BY DEF Routed
    <3>2. PICK r \in Runs : Sound(r) /\ Effects(r)
      BY <2>1, <3>1, NextHasEffects
    <3>3. IInv'
      BY <3>1, <3>2, SoundStepKeepsIInv
    <3>4. QED
      BY <3>1, <3>2, <3>3, RecordedStays, KnownStays, UndoStaysDisowned, CleanupStillFinds,
         AccountedStays, ReadyStaysHeld, HolderStaysUndisturbed DEF Routed
  <2>2. CASE UNCHANGED vars
    <3>1. IInv'
      BY <2>2, StutterKeepsIInv DEF Routed
    <3>2. QED BY <2>2, <3>1 DEF vars, Routed, Recorded, Known, UndoIsDisowned, CleanupFinds,
       Accounted, ReadyIsHeld, HolderIsUndisturbed, Owned, Fenced
  <2>3. QED BY <2>1, <2>2
<1>3. QED BY <1>1, <1>2, PTL DEF Spec

\* What a ready row routes to is there, unless a takeover straddled an unfenced call.
THEOREM RoutesWhereReady == Spec => []ReadyRoutes
<1>1. Routed => ReadyRoutes
  <2> SUFFICES ASSUME Routed, row.state = "ready", ~straddled
               PROVE  row.project \in projects /\ entry = row.by
    BY DEF ReadyRoutes
  <2>1. row.project \in Runs /\ row.by = row.project /\ Owned(row.project)
    BY DEF Routed, ReadyIsHeld
  <2>2. row.project \in landed
    BY <2>1, ProvisioningAssumption DEF Routed, Known, NoProject
  <2>3. QED BY <2>1, <2>2 DEF Routed, HolderIsUndisturbed
<1>2. QED BY <1>1, RoutedInductive, PTL

\* Beside a ready row, a project whose run was told of it is about to be undone, or that
\* run died with the id in hand.
THEOREM NoOrphans == Spec => []NoSilentOrphan
<1>1. Routed => NoSilentOrphan
  <2> SUFFICES ASSUME Routed, NEW r \in projects \ {row.project, Stray}, local[r].created = r
               PROVE  at[r] \in {"bankProject", "undo", "stranding"}
    BY DEF NoSilentOrphan
  <2>1. r \in Runs
    BY DEF Routed, IInv, TypeOK
  <2>2. QED BY <2>1 DEF Routed, Accounted
<1>2. QED BY <1>1, RoutedInductive, PTL
=============================================================================
