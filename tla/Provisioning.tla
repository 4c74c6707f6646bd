---------------------------- MODULE Provisioning ----------------------------
(***************************************************************************)
(* Provisioning one tenant: provisionTenant and its cleanup                *)
(* (src/control/provision.ts) over the control-plane row                   *)
(* (control-store.ts), the Neon API (neon-api.ts) and the tenant's entry   *)
(* in the secret store (secrets.ts).                                       *)
(*                                                                         *)
(* A run is one call of provisionTenant, suspended at the await its at     *)
(* names.  Runs of the same tenant interleave at every await; a run may    *)
(* hang at one for any time, and may die there (a crash, or a throw of a   *)
(* store, of a delete or of the secret store, which no catch sees).  A     *)
(* call whose effect nobody but its run can see is one step with the row   *)
(* write that follows it.                                                  *)
(***************************************************************************)
EXTENDS Naturals

CONSTANTS
    Runs,       \* bound: calls of provisionTenant for the tenant
    NoRun,      \* no run
    Languages,  \* text-search languages a run may ask for
    Unset,      \* a database with no schema yet
    Stray       \* the projects whose id no run ever learns; one stands for all

ASSUME ProvisioningAssumption ==
    /\ NoRun \notin Runs
    /\ Stray \notin Runs
    /\ Stray # NoRun
    /\ Unset \notin Languages

VARIABLES
    row,        \* the tenant's row in control.tenant
    at,         \* the await each run is suspended at
    local,      \* what each run holds in memory
    stale,      \* runs that started longer ago than the stale window
    posted,     \* runs that have sent the vendor a create request
    landed,     \* those whose request the vendor has carried out
    projects,   \* the projects that exist under the tenant's name
    spoken,     \* the language of the schema in a run's project
    entry,      \* whose connection string and grant the secret store holds
    straddled   \* history: the row was taken over beside an unfenced call

vars == <<row, at, local, stale, posted, landed, projects, spoken, entry, straddled>>
vendor == <<posted, landed, projects, spoken>>

\* A project is named by the run whose request created it.
Projects == Runs \cup {Stray}
NoProject == NoRun

\* by is the run whose start provisioning_started_at records; a column the
\* steps set together is one field, and a column nothing decides on is a flag.
Row == [state: {"absent", "provisioning", "ready", "failed"}, lease: Nat,
        by: Runs \cup {NoRun}, lang: Languages \cup {Unset},
        project: Runs \cup {NoProject}, prefix: BOOLEAN, database: BOOLEAN,
        schema: BOOLEAN, refs: BOOLEAN, readyAt: BOOLEAN, code: BOOLEAN]
NoRow == [state |-> "absent", lease |-> 0, by |-> NoRun, lang |-> Unset,
          project |-> NoProject, prefix |-> FALSE, database |-> FALSE,
          schema |-> FALSE, refs |-> FALSE, readyAt |-> FALSE, code |-> FALSE]

\* existing, ftsLanguage, lease, createdProjectId, and the candidates to sweep.
Local == [seen: Row, lang: Languages, lease: Nat,
          created: Runs \cup {NoProject}, sweep: SUBSET Projects]

Cleanup == {"drop", "search", "sweep", "revoke"}
Calls == {"prefix", "create", "role", "apply", "verify", "mint", "put"}
Building == {"bankProject", "role", "apply", "verify", "mint", "put", "refs", "ready"}
Ended == {"done", "stranding"}
Awaits == {"get", "insert", "claim", "clear", "bankProject", "refs", "ready",
           "fail", "undo"} \cup Cleanup \cup Calls \cup Ended

Init ==
    /\ row = NoRow
    /\ at = [r \in Runs |-> "get"]
    /\ local \in [Runs -> {[seen |-> NoRow, lang |-> l, lease |-> 0,
                            created |-> NoProject, sweep |-> {}] : l \in Languages}]
    /\ stale = {}
    /\ posted = {}
    /\ landed = {}
    /\ projects = {}
    /\ spoken = [r \in Runs |-> Unset]
    /\ entry = NoRun
    /\ straddled = FALSE

Goes(r, to) == at' = [at EXCEPT ![r] = to]

-----------------------------------------------------------------------------
(* Time, and the ways a run ends without deciding to. *)

\* Start times are read at the top of a run.  Time passes for an ended run too,
\* and somebody can tell while the row records its start.
Tick(r) ==
    /\ r \notin stale
    /\ at[r] \notin Ended \/ row.by = r
    /\ stale' = stale \cup {r}
    /\ UNCHANGED <<row, at, local, vendor, entry, straddled>>

\* A run that dies holding a project nobody else can name strands it.
Die(r) ==
    /\ at[r] \notin Ended
    /\ Goes(r, IF at[r] \in {"bankProject", "undo"} THEN "stranding" ELSE "done")
    /\ UNCHANGED <<row, local, stale, vendor, entry, straddled>>

-----------------------------------------------------------------------------
(* The control-plane store. *)

\* Slip: a patch keyed on the tenant alone
FencedByTenant(lease) == row.state # "absent"

\* WHERE tenant_id = $1 AND provisioning_lease = $2
Fenced(lease) == row.state # "absent" /\ row.lease = lease
Owned(r) == Fenced(local[r].lease)

\* stopped(): asked before each call of the substrate, never after the grant is minted.  A run
\* may be cancelled or past its deadline at any time, and a stale one is, because
\* provisionTenant demands a stale window longer than the deadline.
Proceeds(r, to) == (r \notin stale /\ Goes(r, to)) \/ Goes(r, "fail")

\* Slip: a superseded run leaves what it created behind
SupersededSilently(r) == ~Owned(r) /\ Goes(r, "done") /\ UNCHANGED row

\* superseded(): undo what is provably this run's own, and report.
Superseded(r) ==
    /\ ~Owned(r)
    /\ Goes(r, IF local[r].created \notin {NoProject, row.project} THEN "undo" ELSE "done")
    /\ UNCHANGED row

-----------------------------------------------------------------------------
(* Phase B: claim the row, or triage the one already there. *)

\* The row is presumed to belong to a run that may still be going.
MayBeLive == row.state = "provisioning" /\ row.by \notin stale

Get(r) ==
    /\ at[r] = "get"
    /\ \/ row.state = "absent" /\ Goes(r, "insert") /\ UNCHANGED local
       \/ (row.state = "ready" \/ MayBeLive) /\ Goes(r, "done") /\ UNCHANGED local
       \/ /\ row.state = "failed" \/ (row.state = "provisioning" /\ ~MayBeLive)
          /\ Goes(r, "claim")
          /\ local' = [local EXCEPT ![r].seen = row]
    /\ UNCHANGED <<row, stale, vendor, entry, straddled>>

Inserted(r) ==
    [state |-> "provisioning", lease |-> 1, by |-> r, lang |-> local[r].lang,
     project |-> NoProject, prefix |-> FALSE, database |-> FALSE, schema |-> FALSE,
     refs |-> FALSE, readyAt |-> FALSE, code |-> FALSE]

\* INSERT ... ON CONFLICT DO NOTHING: the loser stops.
Insert(r) ==
    /\ at[r] = "insert"
    /\ IF row.state = "absent"
       THEN /\ row' = Inserted(r)
            /\ local' = [local EXCEPT ![r].lease = 1]
            /\ Goes(r, "prefix")
       ELSE Goes(r, "done") /\ UNCHANGED <<row, local>>
    /\ UNCHANGED <<stale, vendor, entry, straddled>>

\* Slip: the claim keeps the language the attempt before it asked for
RetakenUnspoken(r) ==
    [state |-> "provisioning", lease |-> local[r].seen.lease + 1, by |-> r, lang |-> row.lang,
     project |-> row.project, prefix |-> row.prefix, database |-> row.database,
     schema |-> row.schema, refs |-> row.refs, readyAt |-> FALSE, code |-> FALSE]

\* What the row records of the attempt before stays until it is cleaned up.
Retaken(r) ==
    [state |-> "provisioning", lease |-> local[r].seen.lease + 1, by |-> r,
     lang |-> local[r].lang, project |-> row.project, prefix |-> row.prefix,
     database |-> row.database, schema |-> row.schema, refs |-> row.refs,
     readyAt |-> FALSE, code |-> FALSE]

\* The snapshot is not read again.
Forgets(r) == [local EXCEPT ![r].seen = NoRow]

\* The calls that change what another run owns and carry no lease.
Unfenced == Cleanup \cup {"put"}

\* Where cleanUpAfterFailedAttempt begins for a snapshot of the row.
CleanupStarts(seen) ==
    IF seen.readyAt THEN "done" ELSE IF seen.project # NoProject THEN "drop" ELSE "search"

Claim(r) ==
    /\ at[r] = "claim"
    /\ IF Fenced(local[r].seen.lease)
       THEN /\ row' = Retaken(r)
            /\ local' = [local EXCEPT ![r].lease = local[r].seen.lease + 1]
            /\ Goes(r, CleanupStarts(local[r].seen))
            /\ straddled' = (straddled \/ \E q \in Runs : at[q] \in Unfenced)
       ELSE /\ local' = Forgets(r)
            /\ Goes(r, "done")
            /\ UNCHANGED <<row, straddled>>
    /\ UNCHANGED <<stale, vendor, entry>>

-----------------------------------------------------------------------------
(* cleanUpAfterFailedAttempt: by the id in the pre-claim snapshot, then by the *)
(* deterministic name, then the grant.  None of its calls carries the lease.   *)

Drop(r) ==
    /\ at[r] = "drop"
    /\ projects' = projects \ {local[r].seen.project}
    /\ Goes(r, "search")
    /\ UNCHANGED <<row, local, stale, posted, landed, spoken, entry, straddled>>

AfterSweeping(left) == IF left = {} THEN "revoke" ELSE "sweep"

\* Names that only contain the tenant's are filtered out.
Search(r) ==
    /\ at[r] = "search"
    /\ local' = [local EXCEPT ![r].sweep = projects, ![r].seen = NoRow]
    /\ Goes(r, AfterSweeping(projects))
    /\ UNCHANGED <<row, stale, vendor, entry, straddled>>

Sweep(r) ==
    /\ at[r] = "sweep"
    /\ \E p \in local[r].sweep :
          /\ projects' = projects \ {p}
          /\ local' = [local EXCEPT ![r].sweep = @ \ {p}]
          /\ Goes(r, AfterSweeping(local[r].sweep \ {p}))
    /\ UNCHANGED <<row, stale, posted, landed, spoken, entry, straddled>>

Revoke(r) ==
    /\ at[r] = "revoke"
    /\ entry' = NoRun
    /\ Goes(r, "clear")
    /\ UNCHANGED <<row, local, stale, vendor, straddled>>

Cleared ==
    [state |-> row.state, lease |-> row.lease, by |-> row.by, lang |-> row.lang,
     project |-> NoProject, prefix |-> FALSE, database |-> FALSE, schema |-> FALSE,
     refs |-> FALSE, readyAt |-> row.readyAt, code |-> row.code]

Clear(r) ==
    /\ at[r] = "clear"
    /\ IF Owned(r)
       THEN row' = Cleared /\ Goes(r, "prefix")
       ELSE Goes(r, "done") /\ UNCHANGED row
    /\ UNCHANGED <<local, stale, vendor, entry, straddled>>

-----------------------------------------------------------------------------
(* Phases C and D: the prefix, the project, its role and database. *)

BankPrefix(r) ==
    /\ at[r] = "prefix"
    /\ \/ /\ Owned(r)
          /\ row' = [row EXCEPT !.prefix = TRUE]
          /\ Proceeds(r, "create")
          /\ posted' = IF at'[r] = "create" THEN posted \cup {r} ELSE posted
       \/ Superseded(r) /\ UNCHANGED posted
    /\ UNCHANGED <<local, stale, landed, projects, spoken, entry, straddled>>

\* A request the vendor carried out may be answered with a retryable status, and
\* is then sent again.
Repost(r) ==
    /\ at[r] = "create"
    /\ r \notin stale
    /\ projects' = projects \cup {Stray}
    /\ UNCHANGED <<row, at, local, stale, posted, landed, spoken, entry, straddled>>

\* The vendor carries a request out: before its answer, or after nobody waits.
VendorCreates(r) ==
    /\ r \in posted \ landed
    /\ landed' = landed \cup {r}
    /\ projects' = projects \cup {r}
    /\ UNCHANGED <<row, at, local, stale, posted, spoken, entry, straddled>>

\* Slip: the run does not keep the id it was given.
CreateReturnsNameless(r) ==
    /\ at[r] = "create"
    /\ r \in landed
    /\ Goes(r, "bankProject")
    /\ UNCHANGED <<row, local, stale, vendor, entry, straddled>>

CreateReturns(r) ==
    /\ at[r] = "create"
    /\ r \in landed
    /\ local' = [local EXCEPT ![r].created = r]
    /\ Goes(r, "bankProject")
    /\ UNCHANGED <<row, stale, vendor, entry, straddled>>

\* A fenced write and what follows it; the rest of the step is the run's own.
Banks(r, patched, to) ==
    \/ Owned(r) /\ row' = patched /\ Proceeds(r, to)
    \/ Superseded(r)

BankProject(r) ==
    /\ at[r] = "bankProject"
    /\ Banks(r, [row EXCEPT !.project = local[r].created], "role")
    /\ UNCHANGED <<local, stale, vendor, entry, straddled>>

\* A database answers while its project exists.
Answers(r) == local[r].created \in projects

CreateRoleAndDatabase(r) ==
    /\ at[r] = "role"
    /\ Answers(r)
    /\ Banks(r, [row EXCEPT !.database = TRUE], "apply")
    /\ UNCHANGED <<local, stale, vendor, entry, straddled>>

-----------------------------------------------------------------------------
(* Phase E: the schema, and the language the database itself reports. *)

\* The applier may leave the database under a language nobody asked for.
ApplySchema(r) ==
    /\ at[r] = "apply"
    /\ Answers(r)
    /\ \E l \in Languages : spoken' = [spoken EXCEPT ![r] = l]
    /\ Banks(r, [row EXCEPT !.schema = TRUE], "verify")
    /\ UNCHANGED <<local, stale, posted, landed, projects, entry, straddled>>

VerifyFirstQuery(r) ==
    /\ at[r] = "verify"
    /\ Answers(r)
    /\ IF spoken[r] = local[r].lang THEN Proceeds(r, "mint") ELSE Goes(r, "fail")
    /\ UNCHANGED <<row, local, stale, vendor, entry, straddled>>

-----------------------------------------------------------------------------
(* Phases F and G: the grant, stored before the row says ready. *)

\* Slip: the grant is written without asking who holds the row
ProbeNothing(r) ==
    /\ at[r] = "mint"
    /\ Goes(r, "put")
    /\ UNCHANGED <<row, local, stale, vendor, entry, straddled>>

\* The empty patch: does this run still hold the row?
ProbeLease(r) ==
    /\ at[r] = "mint"
    /\ \/ Owned(r) /\ Goes(r, "put") /\ UNCHANGED row
       \/ Superseded(r)
    /\ UNCHANGED <<local, stale, vendor, entry, straddled>>

\* Slip: ready follows the write of the grant, the references do not
PutUnreferenced(r) ==
    /\ at[r] = "put"
    /\ entry' = r
    /\ Goes(r, "ready")
    /\ UNCHANGED <<row, local, stale, vendor, straddled>>

PutSecret(r) ==
    /\ at[r] = "put"
    /\ entry' = r
    /\ Goes(r, "refs")
    /\ UNCHANGED <<row, local, stale, vendor, straddled>>

BankRefs(r) ==
    /\ at[r] = "refs"
    /\ \/ Owned(r) /\ row' = [row EXCEPT !.refs = TRUE] /\ Goes(r, "ready")
       \/ Superseded(r)
    /\ UNCHANGED <<local, stale, vendor, entry, straddled>>

Served ==
    [state |-> "ready", lease |-> row.lease, by |-> row.by, lang |-> row.lang,
     project |-> row.project, prefix |-> row.prefix, database |-> row.database,
     schema |-> row.schema, refs |-> row.refs, readyAt |-> TRUE, code |-> FALSE]

BankReady(r) ==
    /\ at[r] = "ready"
    /\ \/ /\ Owned(r)
          /\ row' = Served
          /\ Goes(r, "done")
       \/ Superseded(r)
    /\ UNCHANGED <<local, stale, vendor, entry, straddled>>

-----------------------------------------------------------------------------
(* Failure. *)

\* A call throws or refuses, for the vendor's reasons or because it was aborted;
\* what was sent to the vendor may still be carried out.
CallFails(r) ==
    /\ at[r] \in Calls
    /\ Goes(r, "fail")
    /\ UNCHANGED <<row, local, stale, vendor, entry, straddled>>

\* Slip: a failure is recorded unconditionally
FailUnfenced(r) ==
    /\ at[r] = "fail"
    /\ row.state # "absent"
    /\ row' = [row EXCEPT !.state = "failed", !.code = TRUE]
    /\ Goes(r, "done")
    /\ UNCHANGED <<local, stale, vendor, entry, straddled>>

Fail(r) ==
    /\ at[r] = "fail"
    /\ \/ /\ Owned(r)
          /\ row' = [row EXCEPT !.state = "failed", !.code = TRUE]
          /\ Goes(r, "done")
       \/ Superseded(r)
    /\ UNCHANGED <<local, stale, vendor, entry, straddled>>

\* What superseded does about the project its run created: a deletion that fails
\* is swallowed, and strands it like a death.
Undo(r) ==
    /\ at[r] = "undo"
    /\ \/ projects' = projects \ {local[r].created} /\ Goes(r, "done")
       \/ UNCHANGED projects /\ Goes(r, "stranding")
    /\ UNCHANGED <<row, local, stale, posted, landed, spoken, entry, straddled>>

-----------------------------------------------------------------------------

TakesOver(r) == Get(r) \/ Insert(r) \/ Claim(r)
CleansUp(r) == Drop(r) \/ Search(r) \/ Sweep(r) \/ Revoke(r) \/ Clear(r)
Builds(r) ==
    \/ BankPrefix(r) \/ Repost(r) \/ VendorCreates(r) \/ CreateReturns(r) \/ BankProject(r)
    \/ CreateRoleAndDatabase(r) \/ ApplySchema(r) \/ VerifyFirstQuery(r)
Finishes(r) == ProbeLease(r) \/ PutSecret(r) \/ BankRefs(r) \/ BankReady(r)
Stops(r) == CallFails(r) \/ Fail(r) \/ Undo(r) \/ Tick(r) \/ Die(r)

Next == \E r \in Runs : TakesOver(r) \/ CleansUp(r) \/ Builds(r) \/ Finishes(r) \/ Stops(r)

Spec == Init /\ [][Next]_vars

-----------------------------------------------------------------------------
(* Properties. *)

TypeOK ==
    /\ row \in Row
    /\ at \in [Runs -> Awaits]
    /\ local \in [Runs -> Local]
    /\ stale \subseteq Runs
    /\ posted \subseteq Runs
    /\ landed \subseteq posted
    /\ projects \subseteq landed \cup {Stray}
    /\ spoken \in [Runs -> Languages \cup {Unset}]
    /\ entry \in Runs \cup {NoRun}
    /\ straddled \in BOOLEAN
    /\ \A r \in Runs : at[r] \in Building => local[r].created = r

\* The lease is a fencing token: no two runs ever hold the same one, so two
\* retries of a failed row never both go on to create a project.
OneHolderPerLease ==
    \A r, q \in Runs : local[r].lease = local[q].lease /\ local[r].lease # 0 => r = q

\* The CHECK constraints of control.tenant: a run never asks for a row that the
\* database would refuse to store, whatever the attempts before it left behind.
RowIsLegal ==
    /\ row.state = "ready" =>
          row.project # NoProject /\ row.database /\ row.schema /\ row.prefix /\ row.refs
    /\ row.state = "failed" => row.code
    /\ row.readyAt <=> row.state = "ready"

\* A ready tenant's database stems in the language its row records, though an
\* earlier attempt asked for another and the applier may fall back silently.
ReadySpeaksItsLanguage ==
    row.state = "ready" => spoken[row.project] = row.lang

\* What a ready row routes to is there: its project exists and the secret store
\* holds the grant of the run that made it ready.  Unless the row was once taken
\* over while a run was inside one of the calls that carry no lease.
ReadyRoutes ==
    row.state = "ready" /\ ~straddled => row.project \in projects /\ entry = row.by

\* Once the tenant is ready nothing will sweep it again, so what is left must be
\* accounted for: a project that is not the tenant's and whose id reached its
\* run is about to be undone by it, unless that run died with the id in hand or
\* the vendor refused the deletion.  A project whose id no run learned (Stray, or
\* one that lands after its caller has gone) is outside this promise.
NoSilentOrphan ==
    row.state = "ready" =>
        \A r \in projects \ {row.project, Stray} :
            local[r].created = r => at[r] \in {"bankProject", "undo", "stranding"}

\* What the lease enforces of "ready is an absolute stop": a ready row changes
\* only under a run that read it before it was ready, when it was the stale row
\* of a run that then woke up and finished, and that takes it over now.
OnlyAnEarlierReadReopens ==
    [][row.state = "ready" /\ row' # row =>
          \E r \in Runs : /\ at[r] = "claim"
                          /\ local[r].seen.state = "provisioning"
                          /\ local[r].seen.lease = row.lease
                          /\ row'.lease = row.lease + 1]_vars
-----------------------------------------------------------------------------
(* The inductive strengthening of the properties about the row. *)

\* A lease is given out by the row, once.
LeasesAreGiven ==
    /\ row.state = "absent" => row = NoRow
    /\ row.state # "absent" => row.lease > 0
    /\ \A r \in Runs : local[r].lease <= row.lease /\ local[r].seen.lease <= row.lease

\* A run that closed the row and kept the lease never writes again.
ClosedRowsAreLeft ==
    row.state \in {"ready", "failed"} =>
        \A r \in Runs : local[r].lease = row.lease => at[r] \in Ended

\* What a claim was decided on, and what is left of it if nobody claimed since.
ClaimsAreDecided ==
    \A r \in Runs : at[r] = "claim" =>
        /\ local[r].seen.state \in {"provisioning", "failed"}
        /\ local[r].seen.state = "failed" /\ local[r].seen.lease = row.lease
              => row.state = "failed"

\* The awaits of a run that has recorded an artifact.
HasRefs == {"ready"}
Speaks == HasRefs \cup {"mint", "put", "refs"}
HasSchema == Speaks \cup {"verify"}
HasDatabase == HasSchema \cup {"apply"}
HasProject == HasDatabase \cup {"role"}
HasPrefix == HasProject \cup {"create", "bankProject"}

\* What the row records of the run that holds it is what that run has done.
RowFollowsItsHolder ==
    \A r \in Runs : Owned(r) =>
        /\ row.lang = local[r].lang
        /\ at[r] \in HasPrefix => row.prefix
        /\ at[r] \in HasProject => row.project = r
        /\ at[r] \in HasDatabase => row.database
        /\ at[r] \in HasSchema => row.schema
        /\ at[r] \in HasRefs => row.refs

\* A language that was verified is the one asked for, and stays.
LanguagesStay ==
    /\ \A r \in Runs : at[r] \in Speaks => spoken[r] = local[r].lang
    /\ row.state = "ready" => row.project \in Runs /\ at[row.project] \in Ended

IInv ==
    /\ TypeOK
    /\ OneHolderPerLease
    /\ LeasesAreGiven
    /\ ClosedRowsAreLeft
    /\ ClaimsAreDecided
    /\ RowFollowsItsHolder
    /\ LanguagesStay
    /\ RowIsLegal
    /\ ReadySpeaksItsLanguage
=============================================================================
