--------------------------- MODULE JobRunner_proofs ---------------------------
(***************************************************************************)
(* Proofs about the job queue and its workers, for every set of jobs,      *)
(* lanes and processes, every lease arithmetic and every retry ladder, and *)
(* about the scheduler that feeds it, for every threshold.                 *)
(***************************************************************************)
EXTENDS Scheduler, TLAPS

(***************************************************************************)
(* What the operators that build a row do to its columns.                  *)
(***************************************************************************)
\* A released row is a row, unleased, in the state it was released to.
LEMMA RowAfterRelease ==
    ASSUME NEW r \in Row, NEW state \in JobState, NEW runIn \in Int
    PROVE  LET c == Released(r, state, runIn)
           IN  /\ c \in Row
               /\ c.state = state /\ c.leased = FALSE /\ c.lane = r.lane
               /\ c.attempts = r.attempts /\ c.token = r.token /\ c.debt = r.debt
BY DEF Row, Released

\* A finished row is a row that no lease is on any more, in its last state.
LEMMA RowAfterFinish ==
    ASSUME NEW r \in Row, NEW state \in JobState
    PROVE  LET c == Finished(r, state)
           IN  /\ c \in Row
               /\ c.state = state /\ c.leased = FALSE /\ c.lane = r.lane
               /\ c.attempts = r.attempts /\ c.token = r.token
<1> DEFINE c == Released(r, state, 0)
<1>1. /\ c \in Row
      /\ c.state = state /\ c.leased = FALSE /\ c.lane = r.lane
      /\ c.attempts = r.attempts /\ c.token = r.token
  BY DEF Row, Released
<1>2. Finished(r, state) = [c EXCEPT !.debt = 0]
  BY DEF Finished
<1> HIDE DEF c
<1>3. QED BY <1>1, <1>2 DEF Row

\* A fresh row is a row with no attempt and no token behind it.
LEMMA RowAfterInsert ==
    ASSUME NEW state \in JobState, NEW l \in Lanes, NEW runIn \in Int, NEW debt \in Nat
    PROVE  LET c == NewRow(state, l, runIn, debt)
           IN  /\ c \in Row
               /\ c.state = state /\ c.leased = FALSE /\ c.lane = l
               /\ c.attempts = 0 /\ c.token = 0 /\ c.debt = debt
BY DEF Row, NewRow

\* A claimed row runs under a lease, one attempt and one token further on.
LEMMA RowAfterClaim ==
    ASSUME NEW r \in Row, NEW lag \in Nat
    PROVE  LET c == ClaimedRow(r, lag)
           IN  /\ c \in Row
               /\ c.state = "running" /\ c.leased = TRUE /\ c.lane = r.lane
               /\ c.attempts = r.attempts + 1 /\ c.token = r.token + 1 /\ c.debt = r.debt
BY TimeAssumption DEF Row, ClaimedRow, JobState

\* A retried row is dead, or due with an attempt left when that is what kept
\* it from dying.
LEMMA RowAfterRetry ==
    ASSUME NEW r \in Row, NEW dead, NEW delay \in Int
    PROVE  /\ RetriedRow(r, dead, delay) \in Row
           /\ RetriedRow(r, dead, delay).state \in {"due", "dead"}
           /\ RetriedRow(r, dead, delay).state = "due" => ~dead
           /\ RetriedRow(r, dead, delay).leased = FALSE
           /\ RetriedRow(r, dead, delay).lane = r.lane
           /\ RetriedRow(r, dead, delay).attempts = r.attempts
           /\ RetriedRow(r, dead, delay).token = r.token
           /\ RetriedRow(r, dead, delay).debt = r.debt
<1>1. CASE dead
  BY <1>1 DEF Row, RetriedRow, Released, JobState
<1>2. CASE ~dead
  BY <1>2 DEF Row, RetriedRow, Released, JobState
<1>3. QED BY <1>1, <1>2

\* A reclaimed row is a retried one whose token has moved past its holder's.
LEMMA RowAfterReclaim ==
    ASSUME NEW r \in Row, NEW delay \in Int
    PROVE  /\ ReclaimedRow(r, delay) \in Row
           /\ ReclaimedRow(r, delay).state \in {"due", "dead"}
           /\ ReclaimedRow(r, delay).state = "due" => ~Exhausted(r)
           /\ ReclaimedRow(r, delay).leased = FALSE
           /\ ReclaimedRow(r, delay).lane = r.lane
           /\ ReclaimedRow(r, delay).attempts = r.attempts
           /\ ReclaimedRow(r, delay).token = r.token + 1
           /\ ReclaimedRow(r, delay).debt = r.debt
<1> DEFINE c == RetriedRow(r, Exhausted(r), delay)
<1>1. /\ c \in Row
      /\ c.state \in {"due", "dead"}
      /\ c.state = "due" => ~Exhausted(r)
      /\ c.leased = FALSE /\ c.lane = r.lane
      /\ c.attempts = r.attempts /\ c.token = r.token /\ c.debt = r.debt
  <2>1. CASE Exhausted(r)
    BY <2>1 DEF Row, RetriedRow, Released, JobState
  <2>2. CASE ~Exhausted(r)
    BY <2>2 DEF Row, RetriedRow, Released, JobState
  <2>3. QED BY <2>1, <2>2
<1>2. ReclaimedRow(r, delay) = [c EXCEPT !.token = @ + 1]
  BY DEF ReclaimedRow
<1> HIDE DEF c
<1>3. QED BY <1>1, <1>2 DEF Row

\* A revived row waits with a whole ladder ahead and keeps its token.
LEMMA RowAfterRevival ==
    ASSUME NEW r \in Row
    PROVE  LET c == RevivedRow(r)
           IN  /\ c \in Row
               /\ c.state = "due" /\ c.leased = FALSE /\ c.lane = r.lane
               /\ c.attempts = 0 /\ c.token = r.token /\ c.debt = r.debt
<1> DEFINE c == NewRow("due", r.lane, 0, r.debt)
<1>1. /\ c \in Row
      /\ c.state = "due" /\ c.leased = FALSE /\ c.lane = r.lane
      /\ c.attempts = 0 /\ c.token = 0 /\ c.debt = r.debt
  BY DEF Row, NewRow, JobState
<1>2. RevivedRow(r) = [c EXCEPT !.token = r.token]
  BY DEF RevivedRow
<1> HIDE DEF c
<1>3. QED BY <1>1, <1>2 DEF Row

\* The passage of time touches nothing but the clocks of a row.
LEMMA RowAfterTick ==
    ASSUME NEW r \in Row
    PROVE  LET c == AgedRow(r)
           IN  /\ c \in Row
               /\ c.state = r.state /\ c.leased = r.leased /\ c.lane = r.lane
               /\ c.attempts = r.attempts /\ c.token = r.token /\ c.debt = r.debt
BY TimeAssumption DEF Row, AgedRow, Fall

\* Settling or ageing the scheduling columns of a tenant keeps their types.
LEMMA TenantRowFacts ==
    ASSUME NEW t \in TenantRow
    PROVE  /\ AgedTenant(t) \in TenantRow
           /\ \A debt \in Nat : Settled(t, debt) \in TenantRow
           /\ [t EXCEPT !.ready = ~@] \in TenantRow
<1>1. AgedTenant(t) \in TenantRow
  BY TimeAssumption DEF TenantRow, AgedTenant, Fall, Rise
<1>2. \A debt \in Nat : Settled(t, debt) \in TenantRow
  BY TimeAssumption DEF TenantRow, Settled
<1>3. [t EXCEPT !.ready = ~@] \in TenantRow
  BY DEF TenantRow
<1>4. QED BY <1>1, <1>2, <1>3

(***************************************************************************)
(* One step of one row, by the columns the safety properties read.  Every  *)
(* action is a set of such steps; the invariants then follow from the      *)
(* shape of the steps and not from the actions.                            *)
(***************************************************************************)
Ends(r, s) == s.lane = r.lane /\ s.attempts = r.attempts /\ s.token = r.token
Keeps(r, s) == Ends(r, s) /\ s.debt = r.debt

RowStep(r, s) ==
    \/ s.state = r.state /\ Keeps(r, s)
    \/ r.state = "absent" /\ s.state = "due" /\ s.attempts = 0 /\ s.token = 0
    \/ /\ r.state = "due" /\ s.state = "running" /\ s.lane = r.lane /\ s.debt = r.debt
       /\ s.attempts = r.attempts + 1 /\ s.token = r.token + 1
    \/ r.state = "running" /\ s.state = "done" /\ Ends(r, s)
    \/ /\ r.state = "running" /\ s.state \in {"due", "dead"}
       /\ s.state = "due" => ~Exhausted(r)
       /\ s.lane = r.lane /\ s.debt = r.debt /\ s.attempts = r.attempts
       /\ s.token \in {r.token, r.token + 1}
    \/ /\ r.state = "dead" /\ s.state = "due"
       /\ s.lane = r.lane /\ s.debt = r.debt /\ s.attempts = 0 /\ s.token = r.token
    \/ r.state \in {"due", "running", "dead"} /\ s.state = "discarded" /\ Ends(r, s)

RowsOK(f) ==
    /\ f \in [Jobs -> Row]
    /\ \A j \in Jobs : f[j].leased <=> f[j].state = "running"

\* The type of the queue's variables survives every statement, and every row
\* a statement touches makes a RowStep.
LEMMA EnqueueSteps ==
    ASSUME TypeOK, NEW j \in Jobs, NEW l \in Lanes, EnqueueSnapshot(j, l, 0, 0)
    PROVE  job' = job /\ tenant' = tenant /\ inserting' \subseteq Insertion
BY DEF TypeOK, EnqueueSnapshot, Insertion

\* The second half of enqueue inserts at most one row, due and unleased.
LEMMA InsertSteps ==
    ASSUME TypeOK, NEW i \in inserting, job[i.job].state = "absent", EnqueueCommit(i)
    PROVE  /\ RowsOK(job') /\ tenant' = tenant /\ inserting' \subseteq Insertion
           /\ \A j \in Jobs : RowStep(job[j], job'[j])
<1> DEFINE new == NewRow("due", i.lane, i.runIn, i.debt)
<1>1. /\ i.job \in Jobs /\ i.lane \in Lanes
      /\ job \in [Jobs -> Row]
  BY DEF TypeOK, Insertion
<1>2. /\ new \in Row /\ new.state = "due" /\ new.leased = FALSE
      /\ new.attempts = 0 /\ new.token = 0
  BY DEF TypeOK, Insertion, NewRow, Row, JobState
<1> HIDE DEF new
<1>3. CASE job' = job
  BY <1>3 DEF EnqueueCommit, TypeOK, RowsOK, RowStep, Keeps, Ends
<1>4. CASE job' = [job EXCEPT ![i.job] = new]
  BY <1>1, <1>2, <1>4 DEF EnqueueCommit, TypeOK, RowsOK, RowStep, Keeps, Ends
<1>5. QED BY <1>3, <1>4 DEF EnqueueCommit, new

\* A claim moves one row, and moves it the way a RowStep allows.
LEMMA ClaimSteps ==
    ASSUME TypeOK, NEW j \in Jobs, NEW lag \in Nat, ClaimStatement(j, lag)
    PROVE  /\ RowsOK(job') /\ UNCHANGED <<tenant, inserting>>
           /\ \A k \in Jobs : RowStep(job[k], job'[k])
           /\ job'[j].token = job[j].token + 1
           /\ \A k \in Jobs : k # j => job'[k] = job[k]
<1> DEFINE new == ClaimedRow(job[j], lag)
<1>1. /\ new \in Row /\ new.state = "running" /\ new.leased = TRUE
      /\ new.lane = job[j].lane /\ new.debt = job[j].debt
      /\ new.attempts = job[j].attempts + 1 /\ new.token = job[j].token + 1
  BY RowAfterClaim DEF TypeOK
<1>2. job' = [job EXCEPT ![j] = new] /\ job[j].state = "due"
  BY DEF ClaimStatement, Claimable
<1> HIDE DEF new
<1>3. QED BY <1>1, <1>2 DEF ClaimStatement, TypeOK, RowsOK, RowStep, Keeps, Ends

\* A heartbeat moves a deadline of one row and nothing else.
LEMMA HeartbeatSteps ==
    ASSUME TypeOK, NEW lease \in Lease, HeartbeatStatement(lease)
    PROVE  /\ RowsOK(job') /\ UNCHANGED <<tenant, inserting>>
           /\ \A j \in Jobs : RowStep(job[j], job'[j])
<1>1. lease.job \in Jobs /\ LeaseTtl \in Int
  BY TimeAssumption DEF Lease
<1> DEFINE new == [job[lease.job] EXCEPT !.expiresIn = LeaseTtl]
<1>2. /\ new \in Row /\ Keeps(job[lease.job], new)
      /\ new.state = job[lease.job].state /\ new.leased = job[lease.job].leased
  BY <1>1 DEF TypeOK, Row, Keeps, Ends
<1>3. job' = [job EXCEPT ![lease.job] = new]
  BY DEF HeartbeatStatement
<1> HIDE DEF new
<1>4. QED BY <1>1, <1>2, <1>3 DEF HeartbeatStatement, TypeOK, RowsOK, RowStep, Keeps, Ends

\* A completion finishes one row and settles at most one tenant.
LEMMA CompleteSteps ==
    ASSUME TypeOK, NEW lease \in Lease, CompleteTx(lease)
    PROVE  /\ RowsOK(job') /\ tenant' \in [Tenants -> TenantRow]
           /\ UNCHANGED inserting
           /\ \A j \in Jobs : RowStep(job[j], job'[j])
           /\ \A j \in Jobs : job'[j] # job[j] =>
                  /\ j = lease.job /\ job[j].token = lease.token
                  /\ job[j].state = "running"
<1>1. lease.job \in Jobs /\ job[lease.job] \in Row
  BY DEF Lease, TypeOK
<1> DEFINE new == Finished(job[lease.job], "done")
<1>2. /\ new \in Row /\ Ends(job[lease.job], new)
      /\ new.state = "done" /\ new.leased = FALSE
  BY <1>1, RowAfterFinish DEF Ends, JobState
<1>3. /\ job' = [job EXCEPT ![lease.job] = new]
      /\ job[lease.job].state = "running" /\ job[lease.job].token = lease.token
  BY DEF CompleteTx, Fenced
<1> HIDE DEF new
<1>4. /\ RowsOK(job')
      /\ \A j \in Jobs : RowStep(job[j], job'[j])
      /\ \A j \in Jobs : job'[j] # job[j] =>
             /\ j = lease.job /\ job[j].token = lease.token
             /\ job[j].state = "running"
  BY <1>1, <1>2, <1>3 DEF TypeOK, RowsOK, RowStep, Keeps, Ends
<1>5. tenant' \in [Tenants -> TenantRow]
  <2> DEFINE t == TenantOf[job[lease.job].lane]
             settled == Settled(tenant[t], job[lease.job].debt)
  <2>1. t \in Tenants /\ job[lease.job].debt \in Nat
    BY <1>1, LaneAssumption DEF Row
  <2>2. settled \in TenantRow
    BY <2>1, TenantRowFacts DEF TypeOK
  <2>3. tenant' = tenant \/ tenant' = [tenant EXCEPT ![t] = settled]
    BY DEF CompleteTx
  <2> HIDE DEF t, settled
  <2>4. QED BY <2>1, <2>2, <2>3 DEF TypeOK
<1>6. QED BY <1>4, <1>5 DEF CompleteTx

\* A failed attempt returns one row to the ladder or buries it.
LEMMA FailSteps ==
    ASSUME TypeOK, NEW lease \in Lease, NEW terminal \in BOOLEAN, NEW delay \in Int,
           FailStatement(lease, terminal, delay)
    PROVE  /\ RowsOK(job') /\ UNCHANGED <<tenant, inserting>>
           /\ \A j \in Jobs : RowStep(job[j], job'[j])
<1>1. lease.job \in Jobs /\ job[lease.job] \in Row
  BY DEF Lease, TypeOK
<1> DEFINE r == job[lease.job]
           new == RetriedRow(r, terminal \/ Exhausted(r), delay)
<1>2. /\ new \in Row /\ Keeps(r, new) /\ new.leased = FALSE
      /\ new.state \in {"due", "dead"}
      /\ new.state = "due" => ~Exhausted(r)
  <2>1. CASE terminal \/ Exhausted(r)
    BY <1>1, <2>1 DEF Row, RetriedRow, Released, Keeps, Ends, JobState
  <2>2. CASE ~(terminal \/ Exhausted(r))
    BY <1>1, <2>2 DEF Row, RetriedRow, Released, Keeps, Ends, JobState
  <2>3. QED BY <2>1, <2>2
<1>3. job' = [job EXCEPT ![lease.job] = new] /\ r.state = "running"
  BY DEF FailStatement, Fenced
<1> HIDE DEF new
<1>4. QED BY <1>1, <1>2, <1>3 DEF FailStatement, TypeOK, RowsOK, RowStep, Keeps, Ends

\* A sweep moves each row it takes the way a RowStep allows.
LEMMA ReclaimSteps ==
    ASSUME TypeOK, NEW S \in SUBSET Jobs, NEW delay \in [S -> Int],
           ReclaimTx(S, delay)
    PROVE  /\ RowsOK(job') /\ UNCHANGED <<tenant, inserting>>
           /\ \A j \in Jobs : RowStep(job[j], job'[j])
<1>1. ASSUME NEW j \in Jobs
      PROVE  /\ job'[j] \in Row
             /\ job'[j].leased <=> job'[j].state = "running"
             /\ RowStep(job[j], job'[j])
  <2>1. CASE j \notin S
    BY <2>1 DEF ReclaimTx, TypeOK, RowStep, Keeps, Ends
  <2>2. CASE j \in S
    <3> DEFINE new == ReclaimedRow(job[j], delay[j])
    <3>1. job'[j] = new /\ job[j].state = "running"
      BY <2>2 DEF ReclaimTx, Stealable
    <3>2. job[j] \in Row /\ delay[j] \in Int
      BY <2>2 DEF TypeOK
    <3>3. /\ new \in Row /\ new.leased = FALSE /\ new.lane = job[j].lane
          /\ new.debt = job[j].debt
          /\ new.state \in {"due", "dead"}
          /\ new.state = "due" => ~Exhausted(job[j])
          /\ new.attempts = job[j].attempts /\ new.token = job[j].token + 1
      BY <3>2, RowAfterReclaim
    <3> HIDE DEF new
    <3>4. QED BY <3>1, <3>3 DEF RowStep
  <2>3. QED BY <2>1, <2>2
<1>2. job' \in [Jobs -> Row]
  <2>1. job' = [j \in Jobs |-> job'[j]]
    BY DEF ReclaimTx
  <2>2. QED BY <1>1, <2>1
<1>3. QED BY <1>1, <1>2 DEF ReclaimTx, RowsOK

\* What operators do to dead letters and connector lanes is made of RowSteps.
LEMMA OperateSteps ==
    ASSUME TypeOK, Operate
    PROVE  /\ RowsOK(job') /\ UNCHANGED <<tenant, inserting>>
           /\ \A j \in Jobs : RowStep(job[j], job'[j])
<1>1. ASSUME NEW j \in Jobs, DiscardDeadLetter(j)
      PROVE  RowsOK(job') /\ \A k \in Jobs : RowStep(job[k], job'[k])
  <2> DEFINE new == Finished(job[j], "discarded")
  <2>1. /\ new \in Row /\ Ends(job[j], new) /\ new.state = "discarded"
        /\ new.leased = FALSE
    BY RowAfterFinish DEF TypeOK, Ends, JobState
  <2>2. job' = [job EXCEPT ![j] = new] /\ job[j].state = "dead"
    BY <1>1 DEF DiscardDeadLetter
  <2> HIDE DEF new
  <2>3. QED BY <2>1, <2>2 DEF TypeOK, RowsOK, RowStep, Keeps, Ends
<1>2. ASSUME NEW j \in Jobs, job[j].state = "dead",
             job' = [job EXCEPT ![j] = RevivedRow(@)]
      PROVE  RowsOK(job') /\ \A k \in Jobs : RowStep(job[k], job'[k])
  <2> DEFINE new == RevivedRow(job[j])
  <2>1. /\ new \in Row /\ new.state = "due" /\ new.leased = FALSE
        /\ new.lane = job[j].lane /\ new.debt = job[j].debt
        /\ new.attempts = 0 /\ new.token = job[j].token
    BY RowAfterRevival DEF TypeOK
  <2>2. job' = [job EXCEPT ![j] = new]
    BY <1>2
  <2> HIDE DEF new
  <2>3. QED BY <1>2, <2>1, <2>2 DEF TypeOK, RowsOK, RowStep, Keeps, Ends
<1>3. ASSUME NEW l \in Lanes, DiscardConnectorLane(l)
      PROVE  RowsOK(job') /\ \A k \in Jobs : RowStep(job[k], job'[k])
  <2> DEFINE S == OpenRows(l) \cup DeadRows(l)
             new(k) == Finished(job[k], "discarded")
  <2>1. job' = [k \in Jobs |-> IF k \in S THEN new(k) ELSE job[k]]
    BY <1>3 DEF DiscardConnectorLane
  <2>2. \A k \in S : k \in Jobs /\ job[k].state \in {"due", "running", "dead"}
    BY DEF OpenRows, DeadRows, IsOpen
  <2>3. ASSUME NEW k \in Jobs
        PROVE  /\ new(k) \in Row /\ Ends(job[k], new(k))
               /\ new(k).state = "discarded" /\ new(k).leased = FALSE
    <3>1. job[k] \in Row
      BY DEF TypeOK
    <3>2. QED BY <3>1, RowAfterFinish DEF Ends, JobState
  <2> HIDE DEF new, S
  <2>4. QED BY <2>1, <2>2, <2>3 DEF TypeOK, RowsOK, RowStep, Keeps, Ends
<1>4. ASSUME NEW l \in Lanes, ReviveDeadLane(l)
      PROVE  RowsOK(job') /\ \A k \in Jobs : RowStep(job[k], job'[k])
  BY <1>2, <1>4 DEF ReviveDeadLane, DeadRows
<1>5. QED
  BY <1>1, <1>2, <1>3, <1>4
     DEF Operate, RequeueDeadLetter, DiscardDeadLetter, ReviveDeadLane,
         DiscardConnectorLane

\* A tick of the clock keeps every type and moves no row.
LEMMA TickSteps ==
    ASSUME TypeOK, QueueTick
    PROVE  /\ RowsOK(job') /\ tenant' \in [Tenants -> TenantRow]
           /\ inserting' \subseteq Insertion
           /\ \A j \in Jobs : RowStep(job[j], job'[j])
<1>1. ASSUME NEW j \in Jobs
      PROVE  /\ job'[j] \in Row
             /\ job'[j].leased <=> job'[j].state = "running"
             /\ RowStep(job[j], job'[j])
  <2> DEFINE new == AgedRow(job[j])
  <2>1. job'[j] = new
    BY DEF QueueTick
  <2>2. /\ new \in Row /\ Keeps(job[j], new)
        /\ new.state = job[j].state /\ new.leased = job[j].leased
    BY RowAfterTick DEF TypeOK, Keeps, Ends
  <2> HIDE DEF new
  <2>3. QED BY <2>1, <2>2 DEF TypeOK, RowStep
<1>2. RowsOK(job')
  BY <1>1 DEF QueueTick, RowsOK
<1>3. tenant' \in [Tenants -> TenantRow]
  BY TenantRowFacts DEF QueueTick, TypeOK
<1>4. inserting' \subseteq Insertion
  <2>1. ASSUME NEW i \in Insertion
        PROVE  [i EXCEPT !.runIn = Fall(@, -MaxLag)] \in Insertion
    BY TimeAssumption DEF Insertion, Fall
  <2>2. QED BY <2>1 DEF QueueTick, TypeOK
<1>5. QED BY <1>1, <1>2, <1>3, <1>4

(***************************************************************************)
(* One lemma per kind of step of the fleet, from which the invariants of   *)
(* IInv are re-established: the rows make RowSteps, and every lease a      *)
(* process has in hand after the step was in its hand before it, but for   *)
(* the one a claim has just taken.                                         *)
(***************************************************************************)
NothingClaimed == \A w \in Workers : held'[w] \subseteq held[w]

StepOK ==
    /\ RowsOK(job')
    /\ tenant' \in [Tenants -> TenantRow]
    /\ inserting' \subseteq Insertion
    /\ \A j \in Jobs : RowStep(job[j], job'[j])

RunnerOK ==
    /\ pass' \in [Workers -> [phase: Phase, lag: Nat]]
    /\ held' \in [Workers -> SUBSET Lease]

\* A step that leaves the queue alone is of the first kind.
LEMMA QuietStep ==
    ASSUME TypeOK, UNCHANGED queueVars
    PROVE  StepOK
BY DEF TypeOK, queueVars, StepOK, RowsOK, RowStep, Keeps, Ends

\* The lease a claim hands out carries the token of the row it claimed.
LEMMA ClaimedLease ==
    ASSUME TypeOK, NEW w \in Workers, NEW j \in Jobs, Claim(w, j)
    PROVE  /\ StepOK /\ RunnerOK /\ UNCHANGED inserting
           /\ \A k \in Jobs : k # j => job'[k] = job[k]
           /\ job'[j].token = job[j].token + 1
           /\ held' = [held EXCEPT ![w] = @ \cup {[job |-> j, token |-> job[j].token + 1]}]
<1>1. pass[w].lag \in Nat /\ ClaimStatement(j, pass[w].lag)
  BY DEF TypeOK, Claim
<1>2. /\ RowsOK(job') /\ UNCHANGED <<tenant, inserting>>
      /\ \A k \in Jobs : RowStep(job[k], job'[k])
      /\ job'[j].token = job[j].token + 1
      /\ \A k \in Jobs : k # j => job'[k] = job[k]
  BY <1>1, ClaimSteps
<1>3. StepOK
  BY <1>2 DEF StepOK, TypeOK
<1>4. held' = [held EXCEPT ![w] = @ \cup {[job |-> j, token |-> job[j].token + 1]}]
  BY <1>2 DEF Claim
<1>5. [job |-> j, token |-> job[j].token + 1] \in Lease
  <2>1. job[j].token \in Nat
    BY DEF TypeOK, Row
  <2>2. QED BY <2>1 DEF Lease
<1>6. RunnerOK
  BY <1>4, <1>5 DEF Claim, RunnerOK, TypeOK
<1>7. QED BY <1>2, <1>3, <1>4, <1>6

\* The end of a handler, and a renewal, only take leases out of a hand.
LEMMA HandlerStep ==
    ASSUME TypeOK, NEW w \in Workers, NEW lease \in held[w],
           \/ HandlerReturns(w, lease)
           \/ \E terminal \in BOOLEAN, delay \in 0..BackoffMax :
                 HandlerThrows(w, lease, terminal, delay)
           \/ Superseded(w, lease)
           \/ StoreError(w, lease)
           \/ Beat(w, lease)
    PROVE  StepOK /\ RunnerOK /\ NothingClaimed /\ UNCHANGED inserting
<1>1. lease \in Lease
  BY DEF TypeOK
<1>2. ASSUME LetGo(w, lease)
      PROVE  RunnerOK /\ NothingClaimed
  BY <1>2 DEF LetGo, RunnerOK, TypeOK, NothingClaimed
<1>3. CASE HandlerReturns(w, lease)
  <2>1. LetGo(w, lease) /\ CompleteTx(lease)
    BY <1>3 DEF HandlerReturns
  <2>2. StepOK /\ UNCHANGED inserting
    BY <1>1, <2>1, CompleteSteps DEF StepOK, TypeOK
  <2>3. QED BY <1>2, <2>1, <2>2
<1>4. ASSUME NEW terminal \in BOOLEAN, NEW delay \in 0..BackoffMax,
             HandlerThrows(w, lease, terminal, delay)
      PROVE  StepOK /\ RunnerOK /\ NothingClaimed /\ UNCHANGED inserting
  <2>1. FailStatement(lease, terminal, delay) /\ delay \in Int
    BY <1>4 DEF HandlerThrows
  <2>2. /\ RowsOK(job') /\ UNCHANGED <<tenant, inserting>>
        /\ \A j \in Jobs : RowStep(job[j], job'[j])
    BY <1>1, <2>1, FailSteps
  <2>3. QED BY <1>2, <1>4, <2>2 DEF HandlerThrows, StepOK, TypeOK
<1>5. CASE Superseded(w, lease) \/ StoreError(w, lease)
  BY <1>2, <1>5, QuietStep DEF Superseded, StoreError, queueVars
<1>6. CASE Beat(w, lease)
  <2>1. /\ RowsOK(job') /\ UNCHANGED <<tenant, inserting>>
        /\ \A j \in Jobs : RowStep(job[j], job'[j])
    BY <1>1, <1>6, HeartbeatSteps DEF Beat
  <2>2. QED BY <1>6, <2>1 DEF Beat, runnerVars, StepOK, RunnerOK, NothingClaimed, TypeOK
<1>7. QED BY <1>3, <1>4, <1>5, <1>6

\* The steps of a pass that claim nothing take nothing into a hand.
LEMMA PassStep ==
    ASSUME TypeOK, NEW w \in Workers,
           \/ \E lag \in 0..MaxLag : StartPass(w, lag)
           \/ \E j \in Jobs : ClaimAnswerLost(w, j)
           \/ RunHandlers(w)
           \/ EndPass(w)
           \/ Crash(w)
    PROVE  StepOK /\ RunnerOK /\ NothingClaimed /\ UNCHANGED inserting
<1>1. CASE \E lag \in 0..MaxLag : StartPass(w, lag)
  BY <1>1, QuietStep, TimeAssumption
     DEF StartPass, queueVars, RunnerOK, NothingClaimed, TypeOK, Phase
<1>2. ASSUME NEW j \in Jobs, ClaimAnswerLost(w, j)
      PROVE  StepOK /\ RunnerOK /\ NothingClaimed /\ UNCHANGED inserting
  <2>1. pass[w].lag \in Nat /\ ClaimStatement(j, pass[w].lag)
    BY <1>2 DEF TypeOK, ClaimAnswerLost
  <2>2. /\ RowsOK(job') /\ UNCHANGED <<tenant, inserting>>
        /\ \A k \in Jobs : RowStep(job[k], job'[k])
    BY <2>1, ClaimSteps
  <2>3. RunnerOK /\ NothingClaimed
    BY <1>2 DEF ClaimAnswerLost, RunnerOK, NothingClaimed, TypeOK, Phase
  <2>4. QED BY <2>2, <2>3 DEF StepOK, TypeOK
<1>3. CASE RunHandlers(w) \/ EndPass(w) \/ Crash(w)
  BY <1>3, QuietStep
     DEF RunHandlers, EndPass, Crash, Idle, queueVars, RunnerOK, NothingClaimed,
         TypeOK, Phase
<1>4. QED BY <1>1, <1>2, <1>3

\* What the rest of the fleet does leaves every hand alone.
LEMMA FleetSteps ==
    ASSUME TypeOK, InsertionsAreNew, FleetStep \/ Tick
    PROVE  StepOK /\ RunnerOK /\ NothingClaimed
<1>1. ASSUME UNCHANGED runnerVars
      PROVE  RunnerOK /\ NothingClaimed
  BY <1>1 DEF runnerVars, RunnerOK, NothingClaimed, TypeOK
<1>2. ASSUME NEW j \in Jobs, NEW l \in Lanes, Enqueue(j, l)
      PROVE  StepOK /\ UNCHANGED runnerVars
  <2>1. job' = job /\ tenant' = tenant /\ inserting' \subseteq Insertion
    BY <1>2, EnqueueSteps DEF Enqueue
  <2>2. QED BY <1>2, <2>1 DEF Enqueue, StepOK, RowsOK, RowStep, Keeps, Ends, TypeOK
<1>3. ASSUME NEW i \in inserting, Insert(i)
      PROVE  StepOK /\ UNCHANGED runnerVars
  BY <1>3, InsertSteps DEF Insert, InsertionsAreNew, StepOK, TypeOK
<1>4. ASSUME NEW S \in SUBSET Jobs, Reaping(S)
      PROVE  StepOK /\ UNCHANGED runnerVars
  <2>1. PICK delay \in [S -> 0..BackoffMax] : Reclaim(S, delay)
    BY <1>4 DEF Reaping
  <2>2. delay \in [S -> Int]
    OBVIOUS
  <2>3. QED BY <2>1, <2>2, ReclaimSteps DEF Reclaim, StepOK, TypeOK
<1>5. ASSUME Operate
      PROVE  StepOK /\ UNCHANGED runnerVars
  <2>1. UNCHANGED runnerVars
    BY <1>5 DEF Operate
  <2>2. QED BY <1>5, <2>1, OperateSteps DEF StepOK, TypeOK
<1>6. ASSUME NEW t \in Tenants, Move(t)
      PROVE  StepOK /\ UNCHANGED runnerVars
  <2>1. [tenant[t] EXCEPT !.ready = ~@] \in TenantRow
    BY TenantRowFacts DEF TypeOK
  <2>2. tenant' = [tenant EXCEPT ![t] = [tenant[t] EXCEPT !.ready = ~@]]
    BY <1>6 DEF Move, TenantMoves
  <2>3. QED
    BY <1>6, <2>1, <2>2 DEF Move, TenantMoves, StepOK, RowsOK, RowStep, Keeps, Ends, TypeOK
<1>7. ASSUME Tick
      PROVE  StepOK /\ RunnerOK /\ NothingClaimed
  <2>1. StepOK
    BY <1>7, TickSteps DEF Tick, StepOK
  <2>2. RunnerOK /\ NothingClaimed
    BY <1>7 DEF Tick, RunnerOK, NothingClaimed, TypeOK
  <2>3. QED BY <2>1, <2>2
<1>8. QED BY <1>1, <1>2, <1>3, <1>4, <1>5, <1>6, <1>7 DEF FleetStep

\* Every step of the system is one of the two kinds.
LEMMA NextStep ==
    ASSUME TypeOK, InsertionsAreNew, [Next]_vars
    PROVE  /\ StepOK /\ RunnerOK
           /\ \/ NothingClaimed
              \/ \E w \in Workers, j \in Jobs : Claim(w, j)
<1>1. CASE UNCHANGED vars
  BY <1>1, QuietStep DEF vars, queueVars, RunnerOK, NothingClaimed, TypeOK
<1>2. ASSUME NEW w \in Workers, WorkerStep(w)
      PROVE  /\ StepOK /\ RunnerOK
             /\ NothingClaimed \/ \E j \in Jobs : Claim(w, j)
  <2>1. CASE \E j \in Jobs : Claim(w, j)
    BY <2>1, ClaimedLease
  <2>2. CASE \E lease \in held[w] :
                \/ HandlerReturns(w, lease)
                \/ \E terminal \in BOOLEAN, delay \in 0..BackoffMax :
                      HandlerThrows(w, lease, terminal, delay)
                \/ Superseded(w, lease)
                \/ StoreError(w, lease)
                \/ Beat(w, lease)
    BY <2>2, HandlerStep
  <2>3. CASE \/ \E lag \in 0..MaxLag : StartPass(w, lag)
             \/ \E j \in Jobs : ClaimAnswerLost(w, j)
             \/ RunHandlers(w)
             \/ EndPass(w)
             \/ Crash(w)
    BY <2>3, PassStep
  <2>4. QED BY <1>2, <2>1, <2>2, <2>3 DEF WorkerStep
<1>3. QED BY <1>1, <1>2, FleetSteps DEF Next

(***************************************************************************)
(* Each conjunct of the inductive invariant, from the shape of the step.   *)
(***************************************************************************)
\* Types survive a step of either kind.
LEMMA TypePreserved ==
    ASSUME TypeOK, StepOK, RunnerOK
    PROVE  TypeOK'
BY DEF TypeOK, StepOK, RowsOK, RunnerOK

\* No step takes a row past its budget or leaves it waiting without an attempt.
LEMMA LadderPreserved ==
    ASSUME TypeOK, LadderHasATop, StepOK
    PROVE  LadderHasATop'
<1>1. ASSUME NEW j \in Jobs
      PROVE  /\ job'[j].attempts <= MaxAttempts[job'[j].lane]
             /\ job'[j].state = "due" => ~Exhausted(job'[j])
  <2>1. /\ job[j] \in Row /\ job'[j] \in Row
        /\ MaxAttempts[job[j].lane] \in Nat \ {0}
        /\ MaxAttempts[job'[j].lane] \in Nat \ {0}
    BY LaneAssumption DEF TypeOK, StepOK, RowsOK, Row
  <2>2. /\ job[j].attempts \in Nat /\ job'[j].attempts \in Nat
        /\ job[j].attempts <= MaxAttempts[job[j].lane]
        /\ job[j].state = "due" => job[j].attempts < MaxAttempts[job[j].lane]
    BY <2>1 DEF LadderHasATop, Exhausted, Row
  <2>3. RowStep(job[j], job'[j])
    BY DEF StepOK
  <2>4. QED BY <2>1, <2>2, <2>3 DEF RowStep, Keeps, Ends, Exhausted
<1>2. QED BY <1>1 DEF LadderHasATop, Exhausted

\* Tokens only grow, so a lease that was in hand stays behind its row.
LEMMA TokensGrow ==
    ASSUME TypeOK, TokensAreSpent, StepOK, NEW j \in Jobs
    PROVE  /\ job'[j].token >= job[j].token
           /\ job'[j].state = "absent" => job'[j].token = 0
<1>1. job[j] \in Row /\ job'[j] \in Row /\ RowStep(job[j], job'[j])
  BY DEF TypeOK, StepOK, RowsOK
<1>2. job[j].token \in Nat /\ job'[j].token \in Nat
  BY <1>1 DEF Row
<1>3. job[j].state = "absent" => job[j].token = 0
  BY DEF TokensAreSpent
<1>4. QED BY <1>1, <1>2, <1>3 DEF RowStep, Keeps, Ends

\* No lease in hand gets ahead of the row it names.
LEMMA TokensPreserved ==
    ASSUME TypeOK, TokensAreSpent, StepOK, RunnerOK,
           NothingClaimed \/ \E w \in Workers, j \in Jobs : Claim(w, j)
    PROVE  TokensAreSpent'
<1>1. ASSUME NEW w \in Workers, NEW lease \in held'[w]
      PROVE  1 <= lease.token /\ lease.token <= job'[lease.job].token
  <2>1. /\ lease.job \in Jobs /\ lease.token \in Nat
        /\ job[lease.job].token \in Nat /\ job'[lease.job].token \in Nat
    BY DEF RunnerOK, Lease, TypeOK, StepOK, RowsOK, Row
  <2>2. CASE lease \in held[w]
    <3>1. 1 <= lease.token /\ lease.token <= job[lease.job].token
      BY <2>2 DEF TokensAreSpent
    <3>2. job'[lease.job].token >= job[lease.job].token
      BY <2>1, TokensGrow
    <3>3. QED BY <2>1, <3>1, <3>2
  <2>3. CASE lease \notin held[w]
    <3>1. PICK v \in Workers, j \in Jobs : Claim(v, j)
      BY <2>3 DEF NothingClaimed
    <3>2. /\ held' = [held EXCEPT ![v] = @ \cup {[job |-> j, token |-> job[j].token + 1]}]
          /\ job'[j].token = job[j].token + 1
      BY <3>1, ClaimedLease
    <3>3. lease = [job |-> j, token |-> job[j].token + 1]
      BY <2>3, <3>2 DEF TypeOK
    <3>4. job[j].token \in Nat
      BY DEF TypeOK, Row
    <3>5. QED BY <3>2, <3>3, <3>4
  <2>4. QED BY <2>2, <2>3
<1>2. QED BY <1>1, TokensGrow DEF TokensAreSpent

\* A claim's token is ahead of every lease on the job, so it is nobody else's.
LEMMA HoldersPreserved ==
    ASSUME TypeOK, TokensAreSpent, HoldersDiffer,
           NothingClaimed \/ \E w \in Workers, j \in Jobs : Claim(w, j)
    PROVE  HoldersDiffer'
<1>1. CASE NothingClaimed
  BY <1>1 DEF NothingClaimed, HoldersDiffer
<1>2. ASSUME NEW u \in Workers, NEW j \in Jobs, Claim(u, j)
      PROVE  HoldersDiffer'
  <2> DEFINE new == [job |-> j, token |-> job[j].token + 1]
  <2>1. held' = [held EXCEPT ![u] = @ \cup {new}]
    BY <1>2, ClaimedLease
  <2>2. \A w \in Workers : new \notin held[w]
    <3>1. job[j].token \in Nat /\ new.job = j /\ new.token = job[j].token + 1
      BY DEF TypeOK, Row
    <3>2. QED BY <3>1 DEF TokensAreSpent
  <2> HIDE DEF new
  <2>3. QED BY <2>1, <2>2 DEF HoldersDiffer, TypeOK
<1>3. QED BY <1>1, <1>2

\* Only an insertion and an operator's revival open a row, and each of them
\* opens one row, in a lane that has no open row.
OpensAlone(j) ==
    /\ \A k \in Jobs : k # j => job'[k] = job[k]
    /\ \A k \in Jobs : job[k].lane = job'[j].lane => ~IsOpen(job[k])

\* A lane is opened by an INSERT or a revival, which find it closed; every other
\* step leaves the set of open rows as it was or makes it smaller.
LEMMA OnlyFleetOpens ==
    ASSUME TypeOK, InsertionsAreNew, [Next]_vars,
           NEW j \in Jobs, ~IsOpen(job[j]), IsOpen(job'[j])
    PROVE  OpensAlone(j)
<1>1. /\ job \in [Jobs -> Row] /\ job'[j] # job[j]
      /\ \A k \in Jobs : job[k] = job[k]
  BY DEF TypeOK
<1>2. ASSUME NEW i \in inserting, EnqueueCommit(i)
      PROVE  OpensAlone(j)
  <2> DEFINE new == NewRow("due", i.lane, i.runIn, i.debt)
  <2>1. OpenRows(i.lane) = {} /\ job' = [job EXCEPT ![i.job] = new]
    BY <1>1, <1>2 DEF EnqueueCommit
  <2>2. i.job = j /\ new.lane = i.lane
    BY <1>1, <2>1 DEF NewRow
  <2> HIDE DEF new
  <2>3. job'[j].lane = i.lane
    BY <1>1, <2>1, <2>2
  <2>4. QED BY <1>1, <2>1, <2>2, <2>3 DEF OpensAlone, OpenRows
<1>3. ASSUME NEW k \in Jobs, OpenRows(job[k].lane) = {},
             job' = [job EXCEPT ![k] = RevivedRow(@)]
      PROVE  OpensAlone(j)
  <2>1. k = j /\ job[j] \in Row
    BY <1>1, <1>3
  <2>2. job'[j].lane = job[j].lane
    <3>1. job'[j] = RevivedRow(job[j])
      BY <1>1, <1>3, <2>1
    <3>2. QED BY <2>1, <3>1, RowAfterRevival
  <2>3. QED BY <1>1, <1>3, <2>1, <2>2 DEF OpensAlone, OpenRows
<1>4. ASSUME Operate
      PROVE  OpensAlone(j)
  <2>1. ASSUME NEW k \in Jobs, DiscardDeadLetter(k)
        PROVE  FALSE
    <3> DEFINE new == Finished(job[k], "discarded")
    <3>1. job' = [job EXCEPT ![k] = new] /\ new.state = "discarded"
      BY <2>1 DEF DiscardDeadLetter, Finished, Released
    <3> HIDE DEF new
    <3>2. QED BY <1>1, <3>1 DEF IsOpen
  <2>2. ASSUME NEW l \in Lanes, DiscardConnectorLane(l)
        PROVE  FALSE
    <3>1. job'[j] = Finished(job[j], "discarded")
      BY <1>1, <2>2 DEF DiscardConnectorLane
    <3>2. job'[j].state = "discarded"
      BY <3>1 DEF Finished, Released
    <3>3. QED BY <3>2 DEF IsOpen
  <2>3. ASSUME NEW k \in Jobs, RequeueDeadLetter(k)
        PROVE  OpensAlone(j)
    BY <1>3, <2>3 DEF RequeueDeadLetter
  <2>4. ASSUME NEW l \in Lanes, ReviveDeadLane(l)
        PROVE  OpensAlone(j)
    <3>1. PICK k \in Jobs : /\ DeadRows(l) = {k} /\ OpenRows(l) = {}
                            /\ job' = [job EXCEPT ![k] = RevivedRow(@)]
      BY <2>4 DEF ReviveDeadLane
    <3>2. job[k].lane = l
      BY <3>1 DEF DeadRows
    <3>3. QED BY <1>3, <3>1, <3>2
  <2>5. QED BY <1>4, <2>1, <2>2, <2>3, <2>4 DEF Operate
<1>5. CASE Tick
  <2>1. job'[j] = AgedRow(job[j])
    BY <1>5 DEF Tick, QueueTick
  <2>2. job'[j].state = job[j].state
    BY <1>1, <2>1, RowAfterTick
  <2>3. QED BY <2>2 DEF IsOpen
<1>6. ASSUME NEW S \in SUBSET Jobs, NEW delay, ReclaimTx(S, delay)
      PROVE  FALSE
  <2>1. j \in S
    BY <1>1, <1>6 DEF ReclaimTx
  <2>2. job[j].state = "running"
    BY <1>6, <2>1 DEF ReclaimTx, Stealable
  <2>3. QED BY <2>2 DEF IsOpen
<1>7. ASSUME FleetStep
      PROVE  OpensAlone(j)
  BY <1>1, <1>2, <1>4, <1>6, <1>7
     DEF FleetStep, Enqueue, EnqueueSnapshot, Insert, Reaping, Reclaim, Move, TenantMoves
<1>8. ASSUME NEW w \in Workers, WorkerStep(w)
      PROVE  FALSE
  <2>1. ASSUME NEW lease \in held[w], Fenced(lease), NEW new,
               job' = [job EXCEPT ![lease.job] = new]
        PROVE  FALSE
    BY <1>1, <2>1 DEF Fenced, IsOpen
  <2>2. ASSUME NEW k \in Jobs, NEW lag, ClaimStatement(k, lag)
        PROVE  FALSE
    BY <1>1, <2>2 DEF ClaimStatement, Claimable, IsOpen
  <2>3. QED
    BY <1>1, <1>8, <2>1, <2>2
       DEF WorkerStep, StartPass, Claim, ClaimAnswerLost, RunHandlers, EndPass,
           HandlerReturns, CompleteTx, HandlerThrows, FailStatement, Superseded,
           StoreError, Beat, HeartbeatStatement, Crash, queueVars
<1>9. QED BY <1>1, <1>5, <1>7, <1>8 DEF Next, vars

\* One open row per lane survives every step.
LEMMA LanesPreserved ==
    ASSUME TypeOK, OneOpenPerLane, InsertionsAreNew, StepOK, [Next]_vars
    PROVE  OneOpenPerLane'
<1>1. SUFFICES ASSUME NEW j \in Jobs, NEW k \in Jobs,
                      IsOpen(job'[j]), IsOpen(job'[k]), job'[j].lane = job'[k].lane
               PROVE  j = k
  BY DEF OneOpenPerLane, OpenRows
<1>2. ASSUME NEW i \in Jobs, IsOpen(job[i]), IsOpen(job'[i])
      PROVE  job'[i].lane = job[i].lane
  BY <1>2 DEF StepOK, RowStep, Keeps, Ends, IsOpen
<1>3. CASE IsOpen(job[j]) /\ IsOpen(job[k])
  <2>1. job[j].lane = job[k].lane /\ job[j].lane \in Lanes
    BY <1>1, <1>2, <1>3 DEF TypeOK, Row
  <2>2. QED BY <1>3, <2>1 DEF OneOpenPerLane, OpenRows
<1>4. ASSUME NEW a \in Jobs, NEW b \in Jobs, ~IsOpen(job[a]), IsOpen(job'[a]),
             IsOpen(job'[b]), job'[a].lane = job'[b].lane, a # b
      PROVE  FALSE
  <2>1. OpensAlone(a)
    BY <1>4, OnlyFleetOpens
  <2>2. QED BY <1>4, <2>1 DEF OpensAlone
<1>5. QED BY <1>1, <1>3, <1>4

\* A row that does not exist comes into existence by its own INSERT alone.
LEMMA OnlyInsertCreates ==
    ASSUME TypeOK, [Next]_vars, ~(\E i \in inserting : Insert(i)),
           NEW j \in Jobs, job[j].state = "absent"
    PROVE  job'[j].state = "absent"
<1>1. job \in [Jobs -> Row]
  BY DEF TypeOK
<1>2. ASSUME Operate
      PROVE  job'[j].state = "absent"
  <2>1. ASSUME NEW k \in Jobs, NEW new, job[k].state = "dead",
               job' = [job EXCEPT ![k] = new]
        PROVE  job'[j].state = "absent"
    BY <1>1, <2>1
  <2>2. ASSUME NEW l \in Lanes, DiscardConnectorLane(l)
        PROVE  job'[j].state = "absent"
    <3>1. j \notin OpenRows(l) \cup DeadRows(l)
      BY DEF OpenRows, DeadRows, IsOpen
    <3>2. QED BY <2>2, <3>1 DEF DiscardConnectorLane
  <2>3. ASSUME NEW l \in Lanes, ReviveDeadLane(l)
        PROVE  job'[j].state = "absent"
    BY <2>1, <2>3 DEF ReviveDeadLane, DeadRows
  <2>4. ASSUME NEW k \in Jobs, DiscardDeadLetter(k) \/ RequeueDeadLetter(k)
        PROVE  job'[j].state = "absent"
    <3>1. job[k].state = "dead" /\ k # j
      BY <2>4 DEF DiscardDeadLetter, RequeueDeadLetter
    <3>2. job'[j] = job[j]
      BY <1>1, <2>4, <3>1 DEF DiscardDeadLetter, RequeueDeadLetter
    <3>3. QED BY <3>2
  <2>5. QED BY <1>2, <2>2, <2>3, <2>4 DEF Operate
<1>3. CASE Tick
  <2>1. job'[j] = AgedRow(job[j])
    BY <1>3 DEF Tick, QueueTick
  <2>2. QED BY <1>1, <2>1, RowAfterTick
<1>4. ASSUME NEW S \in SUBSET Jobs, NEW delay, ReclaimTx(S, delay)
      PROVE  job'[j].state = "absent"
  <2>1. j \notin S
    BY <1>4 DEF ReclaimTx, Stealable
  <2>2. QED BY <1>4, <2>1 DEF ReclaimTx
<1>5. CASE FleetStep
  BY <1>2, <1>4, <1>5
     DEF FleetStep, Enqueue, EnqueueSnapshot, Reaping, Reclaim, Move, TenantMoves
<1>6. ASSUME NEW w \in Workers, WorkerStep(w)
      PROVE  job'[j].state = "absent"
  <2>1. ASSUME NEW lease \in held[w], Fenced(lease)
        PROVE  lease.job # j
    BY <2>1 DEF Fenced
  <2>2. ASSUME NEW k \in Jobs, NEW lag, ClaimStatement(k, lag)
        PROVE  job'[j].state = "absent"
    BY <1>1, <2>2 DEF ClaimStatement, Claimable
  <2>3. QED
    BY <1>1, <1>6, <2>1, <2>2
       DEF WorkerStep, StartPass, Claim, ClaimAnswerLost, RunHandlers, EndPass,
           HandlerReturns, CompleteTx, HandlerThrows, FailStatement, Superseded,
           StoreError, Beat, HeartbeatStatement, Crash, queueVars
<1>7. QED BY <1>3, <1>5, <1>6 DEF Next, vars

\* An INSERT in flight keeps naming a row that does not exist, alone.
LEMMA InsertionsPreserved ==
    ASSUME TypeOK, InsertionsAreNew, [Next]_vars
    PROVE  InsertionsAreNew'
<1>1. CASE UNCHANGED inserting /\ ~(\E i \in inserting : Insert(i))
  <2>1. \A i \in inserting : i.job \in Jobs
    BY DEF TypeOK, Insertion
  <2>2. QED BY <1>1, <2>1, OnlyInsertCreates DEF InsertionsAreNew
<1>2. ASSUME NEW j \in Jobs, NEW l \in Lanes, Enqueue(j, l)
      PROVE  InsertionsAreNew'
  <2> DEFINE new == [job |-> j, lane |-> l, runIn |-> 0, debt |-> 0]
  <2>1. /\ inserting' = inserting \cup {new} /\ job' = job /\ new.job = j
        /\ job[j].state = "absent" /\ \A i \in inserting : i.job # j
    BY <1>2 DEF Enqueue, EnqueueSnapshot
  <2> HIDE DEF new
  <2>2. QED BY <2>1 DEF InsertionsAreNew
<1>3. ASSUME NEW i \in inserting, Insert(i)
      PROVE  InsertionsAreNew'
  <2>1. inserting' = inserting \ {i} /\ i.job \in Jobs
    BY <1>3 DEF Insert, EnqueueCommit, TypeOK, Insertion
  <2>2. \A j \in Jobs : j # i.job => job'[j] = job[j]
    BY <1>3 DEF Insert, EnqueueCommit, TypeOK
  <2>3. ASSUME NEW k \in inserting'
        PROVE  k \in inserting /\ k.job # i.job /\ k.job \in Jobs
    BY <2>1, <2>3 DEF InsertionsAreNew, TypeOK, Insertion
  <2>4. QED BY <2>2, <2>3 DEF InsertionsAreNew
<1>4. ASSUME Tick
      PROVE  InsertionsAreNew'
  <2> DEFINE aged(i) == [i EXCEPT !.runIn = Fall(@, -MaxLag)]
  <2>1. inserting' = {aged(i) : i \in inserting}
    BY <1>4 DEF Tick, QueueTick
  <2>2. \A i \in inserting : aged(i).job = i.job /\ i.job \in Jobs
    BY DEF TypeOK, Insertion
  <2>3. \A j \in Jobs : job[j].state = "absent" => job'[j].state = "absent"
    BY <1>4, RowAfterTick DEF Tick, QueueTick, TypeOK
  <2> HIDE DEF aged
  <2>4. QED BY <2>1, <2>2, <2>3 DEF InsertionsAreNew
<1>5. CASE \E w \in Workers : WorkerStep(w)
  <2>1. UNCHANGED inserting
    BY <1>5 DEF WorkerStep, StartPass, Claim, ClaimStatement, ClaimAnswerLost,
           RunHandlers, EndPass, HandlerReturns, CompleteTx, HandlerThrows,
           FailStatement, Superseded, StoreError, Beat, HeartbeatStatement, Crash,
           queueVars
  <2>2. QED BY <1>1, <1>3, <2>1
<1>6. CASE FleetStep
  <2>1. CASE \E S \in SUBSET Jobs : Reaping(S)
    BY <1>1, <1>3, <2>1 DEF Reaping, Reclaim, ReclaimTx
  <2>2. CASE Operate
    <3>1. UNCHANGED inserting
      BY <2>2 DEF Operate, DiscardDeadLetter, RequeueDeadLetter, ReviveDeadLane,
             DiscardConnectorLane
    <3>2. QED BY <1>1, <1>3, <3>1
  <2>3. CASE \E t \in Tenants : Move(t)
    BY <1>1, <1>3, <2>3 DEF Move, TenantMoves
  <2>4. QED BY <1>2, <1>3, <1>6, <2>1, <2>2, <2>3 DEF FleetStep
<1>7. CASE UNCHANGED vars
  BY <1>1, <1>3, <1>7 DEF vars
<1>8. QED BY <1>4, <1>5, <1>6, <1>7 DEF Next

-----------------------------------------------------------------------------

\* The inductive invariant holds of an empty queue.
LEMMA InitIInv == ASSUME Init PROVE IInv
<1> DEFINE r == NewRow("absent", AnyLane, 0, 0)
<1>1. AnyLane \in Lanes
  BY LaneAssumption DEF AnyLane
<1>2. /\ r \in Row /\ r.state = "absent" /\ r.leased = FALSE
      /\ r.attempts = 0 /\ r.token = 0 /\ r.lane = AnyLane
  BY <1>1 DEF Row, NewRow, JobState
<1>3. job = [j \in Jobs |-> r] /\ inserting = {}
  BY DEF Init, QueueInit
<1> HIDE DEF r
<1>4. tenant \in [Tenants -> TenantRow]
  <2>1. \A s \in 1..Ceiling :
           [ready |-> TRUE, debt |-> 0, active |-> FALSE, quietFor |-> QuietCap,
            restedFor |-> AgeCap, dueSet |-> FALSE, dueIn |-> 0, slotIn |-> s]
           \in TenantRow
    BY TimeAssumption DEF TenantRow
  <2>2. QED BY <2>1 DEF Init, QueueInit
<1>5. TypeOK
  BY <1>2, <1>3, <1>4 DEF Init, RunnerInit, Idle, Phase, TypeOK
<1>6. OneOpenPerLane /\ InsertionsAreNew
  BY <1>2, <1>3 DEF OneOpenPerLane, OpenRows, IsOpen, InsertionsAreNew
<1>7. LadderHasATop
  BY <1>1, <1>2, <1>3, LaneAssumption DEF LadderHasATop
<1>8. TokensAreSpent /\ HoldersDiffer
  BY <1>2, <1>3 DEF Init, RunnerInit, TokensAreSpent, HoldersDiffer
<1>9. QED BY <1>5, <1>6, <1>7, <1>8 DEF IInv

\* The inductive invariant survives every step and every stutter.
LEMMA NextIInv == ASSUME IInv, [Next]_vars PROVE IInv'
<1>1. /\ StepOK /\ RunnerOK
      /\ NothingClaimed \/ \E w \in Workers, j \in Jobs : Claim(w, j)
  BY NextStep DEF IInv
<1>2. TypeOK'
  BY <1>1, TypePreserved DEF IInv
<1>3. OneOpenPerLane'
  BY <1>1, LanesPreserved DEF IInv
<1>4. LadderHasATop'
  BY <1>1, LadderPreserved DEF IInv
<1>5. TokensAreSpent'
  BY <1>1, TokensPreserved DEF IInv
<1>6. HoldersDiffer'
  BY <1>1, HoldersPreserved DEF IInv
<1>7. InsertionsAreNew'
  BY InsertionsPreserved DEF IInv
<1>8. QED BY <1>2, <1>3, <1>4, <1>5, <1>6, <1>7 DEF IInv

\* The inductive invariant holds in every reachable state.
THEOREM Inductive == Spec => []IInv
BY InitIInv, NextIInv, PTL DEF Spec

\* Type correctness, with the two CHECKs that tie a row's lease to its state.
THEOREM TypeCorrect == Spec => []TypeOK
<1>1. IInv => TypeOK
  BY DEF IInv
<1>2. QED BY <1>1, Inductive, PTL

\* However many enqueues, retries, reclaims, revivals and crashes interleave, a
\* lane never has two open rows.
THEOREM LanesAreExclusive == Spec => []OneOpenPerLane
<1>1. IInv => OneOpenPerLane
  BY DEF IInv
<1>2. QED BY <1>1, Inductive, PTL

\* The ladder has a top for every kind's budget, crashes and lost answers
\* included.
THEOREM LadderIsBounded == Spec => []LadderHasATop
<1>1. IInv => LadderHasATop
  BY DEF IInv
<1>2. QED BY <1>1, Inductive, PTL

\* The fence leaves at most one process able to write a job's row.
THEOREM FenceIsExclusive == Spec => []OneLiveHolder
<1>1. IInv => OneLiveHolder
  <2>1. SUFFICES ASSUME IInv, NEW v \in Workers, NEW w \in Workers,
                        NEW a \in held[v], NEW b \in held[w],
                        a.job = b.job, Fenced(a), Fenced(b)
                 PROVE  v = w /\ a = b
    BY DEF OneLiveHolder
  <2>2. a \in Lease /\ b \in Lease
    BY <2>1 DEF IInv, TypeOK
  <2>3. a.token = b.token
    BY <2>1 DEF Fenced
  <2>4. a = b
    BY <2>1, <2>2, <2>3 DEF Lease
  <2>5. v = w
    BY <2>1, <2>4 DEF IInv, HoldersDiffer
  <2>6. QED BY <2>4, <2>5
<1>2. QED BY <1>1, Inductive, PTL

\* Nothing but a completion makes a row done.
LEMMA OnlyCompletionFinishes ==
    ASSUME TypeOK, [Next]_vars,
           NEW j \in Jobs, job[j].state # "done", job'[j].state = "done"
    PROVE  \E w \in Workers : \E lease \in held[w] :
               HandlerReturns(w, lease) /\ lease.job = j
<1>1. job \in [Jobs -> Row] /\ job'[j] # job[j]
  BY DEF TypeOK
<1>2. ASSUME NEW k \in Jobs, NEW new, new.state # "done",
             job' = [job EXCEPT ![k] = new]
      PROVE  FALSE
  BY <1>1, <1>2
<1>3. ASSUME NEW l, NEW runIn, NEW debt
      PROVE  NewRow("due", l, runIn, debt).state # "done"
  BY DEF NewRow
<1>4. ASSUME NEW r
      PROVE  RevivedRow(r).state # "done"
  BY DEF RevivedRow, NewRow
<1>5. ASSUME NEW r
      PROVE  Finished(r, "discarded").state # "done"
  BY DEF Finished, Released
<1>6. ASSUME NEW r, NEW dead, NEW delay
      PROVE  RetriedRow(r, dead, delay).state # "done"
  BY DEF RetriedRow, Released
<1>7. ASSUME Operate
      PROVE  FALSE
  <2>1. ASSUME NEW k \in Jobs, DiscardDeadLetter(k)
        PROVE  FALSE
    <3> DEFINE new == Finished(job[k], "discarded")
    <3>1. job' = [job EXCEPT ![k] = new] /\ new.state = "discarded"
      BY <2>1 DEF DiscardDeadLetter, Finished, Released
    <3> HIDE DEF new
    <3>2. QED BY <1>2, <3>1
  <2>2. ASSUME NEW l \in Lanes, DiscardConnectorLane(l)
        PROVE  FALSE
    <3>1. job'[j] = Finished(job[j], "discarded")
      BY <1>1, <2>2 DEF DiscardConnectorLane
    <3>2. QED BY <1>5, <3>1
  <2>3. ASSUME NEW k \in Jobs, RequeueDeadLetter(k)
        PROVE  FALSE
    BY <1>2, <1>4, <2>3 DEF RequeueDeadLetter
  <2>4. ASSUME NEW l \in Lanes, ReviveDeadLane(l)
        PROVE  FALSE
    BY <1>2, <1>4, <2>4 DEF ReviveDeadLane
  <2>5. QED BY <1>7, <2>1, <2>2, <2>3, <2>4 DEF Operate
<1>8. CASE Tick
  <2>1. job'[j] = AgedRow(job[j])
    BY <1>8 DEF Tick, QueueTick
  <2>2. job'[j].state = job[j].state
    BY <1>1, <2>1, RowAfterTick
  <2>3. QED BY <2>2
<1>9. ASSUME NEW S \in SUBSET Jobs, NEW delay, ReclaimTx(S, delay)
      PROVE  FALSE
  <2>1. job'[j] = ReclaimedRow(job[j], delay[j])
    BY <1>1, <1>9 DEF ReclaimTx
  <2>2. ReclaimedRow(job[j], delay[j]).state
          = RetriedRow(job[j], Exhausted(job[j]), delay[j]).state
    BY DEF ReclaimedRow, RetriedRow, Released
  <2>3. QED BY <1>6, <2>1, <2>2
<1>10. ASSUME NEW i \in inserting, EnqueueCommit(i)
       PROVE  FALSE
  <2>1. i.job \in Jobs
    BY DEF TypeOK, Insertion
  <2>2. QED BY <1>1, <1>2, <1>3, <1>10, <2>1 DEF EnqueueCommit
<1>11. ASSUME FleetStep
       PROVE  FALSE
  <2>1. CASE \E S \in SUBSET Jobs : Reaping(S)
    BY <1>9, <2>1 DEF Reaping, Reclaim
  <2>2. CASE \E i \in inserting : Insert(i)
    BY <1>10, <2>2 DEF Insert
  <2>3. CASE \E k \in Jobs, l \in Lanes : Enqueue(k, l)
    BY <1>1, <2>3 DEF Enqueue, EnqueueSnapshot
  <2>4. CASE \E t \in Tenants : Move(t)
    BY <1>1, <2>4 DEF Move, TenantMoves
  <2>5. QED BY <1>7, <1>11, <2>1, <2>2, <2>3, <2>4 DEF FleetStep
<1>12. ASSUME NEW w \in Workers, WorkerStep(w)
       PROVE  \E lease \in held[w] : HandlerReturns(w, lease) /\ lease.job = j
  <2>1. ASSUME NEW k \in Jobs, NEW lag, ClaimStatement(k, lag)
        PROVE  FALSE
    <3>1. ClaimedRow(job[k], lag).state # "done"
      BY DEF ClaimedRow
    <3>2. QED BY <1>2, <2>1, <3>1 DEF ClaimStatement
  <2>2. ASSUME NEW lease \in held[w], NEW terminal, NEW delay,
               FailStatement(lease, terminal, delay)
        PROVE  FALSE
    <3>1. lease.job \in Jobs
      BY DEF TypeOK, Lease
    <3>2. QED BY <1>2, <1>6, <2>2, <3>1 DEF FailStatement
  <2>3. ASSUME NEW lease \in held[w], HeartbeatStatement(lease)
        PROVE  FALSE
    <3>1. /\ lease.job \in Jobs /\ job[lease.job].state = "running"
          /\ job' = [job EXCEPT ![lease.job] = [job[lease.job] EXCEPT !.expiresIn = LeaseTtl]]
      BY <2>3 DEF TypeOK, Lease, HeartbeatStatement, Fenced
    <3>2. [job[lease.job] EXCEPT !.expiresIn = LeaseTtl].state = "running"
      BY <1>1, <3>1 DEF Row
    <3>3. QED BY <1>2, <3>1, <3>2
  <2>4. ASSUME NEW lease \in held[w], HandlerReturns(w, lease)
        PROVE  lease.job = j
    BY <1>1, <2>4 DEF HandlerReturns, CompleteTx
  <2>5. QED
    BY <1>1, <1>12, <2>1, <2>2, <2>3, <2>4
       DEF WorkerStep, StartPass, Claim, ClaimAnswerLost, RunHandlers, EndPass,
           HandlerThrows, Superseded, StoreError, Beat, Crash, queueVars
<1>13. QED BY <1>1, <1>8, <1>11, <1>12 DEF Next, vars

\* A row is finished by the holder of its latest claim, in the step in which
\* that process lets go of it, and a finished row never moves again.
THEOREM FinishedByItsHolder == Spec => OnlyTheHolderFinishes
<1> DEFINE Finishes ==
      \A j \in Jobs :
          /\ job'[j].state = "done" /\ job[j].state # "done" =>
                \E w \in Workers :
                    [job |-> j, token |-> job[j].token] \in held[w] \ held'[w]
          /\ job[j].state \in {"done", "discarded"} => job'[j].state = job[j].state
<1>1. ASSUME IInv, [Next]_vars
      PROVE  Finishes
  <2>1. SUFFICES ASSUME NEW j \in Jobs
                 PROVE  /\ job'[j].state = "done" /\ job[j].state # "done" =>
                              \E w \in Workers :
                                  [job |-> j, token |-> job[j].token]
                                      \in held[w] \ held'[w]
                        /\ job[j].state \in {"done", "discarded"} =>
                              job'[j].state = job[j].state
    OBVIOUS
  <2>2. StepOK
    BY <1>1, NextStep DEF IInv
  <2>3. job[j].state \in {"done", "discarded"} => job'[j].state = job[j].state
    BY <2>2 DEF StepOK, RowStep
  <2>4. ASSUME job'[j].state = "done", job[j].state # "done"
        PROVE  \E w \in Workers :
                   [job |-> j, token |-> job[j].token] \in held[w] \ held'[w]
    <3>1. PICK w \in Workers : \E lease \in held[w] :
                                  HandlerReturns(w, lease) /\ lease.job = j
      BY <1>1, <2>4, OnlyCompletionFinishes DEF IInv
    <3>2. PICK lease \in held[w] : HandlerReturns(w, lease) /\ lease.job = j
      BY <3>1
    <3>3. lease.token = job[j].token /\ lease \in Lease
      BY <1>1, <3>2 DEF HandlerReturns, CompleteTx, Fenced, IInv, TypeOK
    <3>4. lease = [job |-> j, token |-> job[j].token]
      BY <3>2, <3>3 DEF Lease
    <3>5. lease \notin held'[w]
      BY <1>1, <3>2 DEF HandlerReturns, LetGo, IInv, TypeOK
    <3>6. QED BY <3>2, <3>4, <3>5
  <2>5. QED BY <2>3, <2>4
<1>2. QED BY <1>1, Inductive, PTL DEF Spec, OnlyTheHolderFinishes

-----------------------------------------------------------------------------
(* The queue implements LeasedWork. *)

\* The lease that the row would accept a write under.
LatestLease(j) == [job |-> j, token |-> job[j].token]

\* A row's live holders have its latest lease in hand, and only while it runs.
HeldLatest(j) ==
    IF job[j].state = "running" THEN {w \in Workers : LatestLease(j) \in held[w]} ELSE {}

LiveIsLatest == TypeOK => \A j \in Jobs : LiveHolders(j) = HeldLatest(j)

LEMMA LiveHoldersHoldTheLatest == LiveIsLatest
<1> SUFFICES ASSUME TypeOK, NEW j \in Jobs PROVE LiveHolders(j) = HeldLatest(j)
  BY DEF LiveIsLatest
<1>1. ASSUME NEW w \in Workers, NEW lease \in held[w], lease.job = j, Fenced(lease)
      PROVE  lease = LatestLease(j) /\ job[j].state = "running"
  <2>1. lease \in Lease
    BY DEF TypeOK
  <2>2. QED BY <1>1, <2>1 DEF Lease, Fenced, LatestLease
<1>2. ASSUME job[j].state = "running"
      PROVE  LatestLease(j).job = j /\ Fenced(LatestLease(j))
  BY <1>2 DEF Fenced, LatestLease
<1>3. QED BY <1>1, <1>2 DEF LiveHolders, HeldLatest

\* No two processes hold a row.
LEMMA OneHolderAtMost ==
    ASSUME TypeOK, HoldersDiffer, NEW j \in Jobs,
           NEW v \in LiveHolders(j), NEW w \in LiveHolders(j)
    PROVE  v = w
BY LiveHoldersHoldTheLatest DEF LiveIsLatest, HoldersDiffer, HeldLatest

\* While a row runs on, it keeps its holder or nobody holds it any more.
LEMMA HoldersOfARunningRow ==
    ASSUME IInv, [Next]_vars, NEW j \in Jobs,
           job[j].state = "running", job'[j].state = "running"
    PROVE  HeldLatest(j)' = HeldLatest(j) \/ HeldLatest(j)' = {}
<1>1. /\ TypeOK /\ HoldersDiffer /\ StepOK
      /\ NothingClaimed \/ \E w \in Workers, k \in Jobs : Claim(w, k)
  BY NextStep DEF IInv
<1>2. job'[j].token = job[j].token
  BY <1>1 DEF StepOK, RowStep, Keeps, Ends
<1>3. LatestLease(j)' = LatestLease(j)
  BY <1>2 DEF LatestLease
<1>4. CASE NothingClaimed
  <2>1. HeldLatest(j)' \subseteq HeldLatest(j)
    BY <1>3, <1>4 DEF NothingClaimed, HeldLatest
  <2>2. \A v, w \in HeldLatest(j) : v = w
    BY <1>1, OneHolderAtMost, LiveHoldersHoldTheLatest DEF LiveIsLatest
  <2>3. QED BY <2>1, <2>2
<1>5. ASSUME NEW w \in Workers, NEW k \in Jobs, Claim(w, k)
      PROVE  HeldLatest(j)' = HeldLatest(j)
  <2> DEFINE new == [job |-> k, token |-> job[k].token + 1]
  <2>1. held' = [held EXCEPT ![w] = @ \cup {new}] /\ job'[k].token = job[k].token + 1
    BY <1>1, <1>5, ClaimedLease
  <2>2. job[k].token \in Nat
    BY <1>1 DEF TypeOK, Row
  <2>3. LatestLease(j) # new
    BY <1>2, <2>1, <2>2 DEF LatestLease
  <2> HIDE DEF new
  <2>4. \A v \in Workers : LatestLease(j) \in held'[v] <=> LatestLease(j) \in held[v]
    BY <1>1, <2>1, <2>3 DEF TypeOK
  <2>5. QED BY <1>3, <2>4 DEF HeldLatest
<1>6. QED BY <1>1, <1>4, <1>5

\* A row that starts to run is held by the process that claimed it, or by nobody.
LEMMA HoldersOfAClaimedRow ==
    ASSUME IInv, [Next]_vars, NEW j \in Jobs,
           job[j].state = "due", job'[j].state = "running"
    PROVE  HeldLatest(j)' = {} \/ \E w \in Workers : HeldLatest(j)' = {w}
<1>1. /\ TypeOK /\ TokensAreSpent /\ StepOK
      /\ NothingClaimed \/ \E w \in Workers, k \in Jobs : Claim(w, k)
  BY NextStep DEF IInv
<1>2. job'[j].token = job[j].token + 1 /\ job[j].token \in Nat
  BY <1>1 DEF StepOK, RowStep, Keeps, Ends, TypeOK, Row
<1>3. LatestLease(j)' = [job |-> j, token |-> job[j].token + 1]
  BY <1>2 DEF LatestLease
<1>4. \A v \in Workers : LatestLease(j)' \notin held[v]
  BY <1>1, <1>2, <1>3 DEF TokensAreSpent
<1>5. CASE NothingClaimed
  BY <1>4, <1>5 DEF NothingClaimed, HeldLatest
<1>6. ASSUME NEW w \in Workers, NEW k \in Jobs, Claim(w, k)
      PROVE  HeldLatest(j)' = {w}
  <2>1. /\ held' = [held EXCEPT ![w] = @ \cup {[job |-> k, token |-> job[k].token + 1]}]
        /\ \A i \in Jobs : i # k => job'[i] = job[i]
    BY <1>1, <1>6, ClaimedLease
  <2>2. k = j
    BY <2>1
  <2>3. held' = [held EXCEPT ![w] = @ \cup {LatestLease(j)'}]
    BY <1>3, <2>1, <2>2
  <2>4. \A v \in Workers : LatestLease(j)' \in held'[v] <=> v = w
    BY <1>1, <1>4, <2>3 DEF TypeOK
  <2>5. QED BY <2>4 DEF HeldLatest
<1>7. QED BY <1>1, <1>5, <1>6

\* What happens to a row and to its holders in a step is a step of its item.
LEMMA RowsStepLikeItems ==
    ASSUME IInv, [Next]_vars, NEW j \in Jobs
    PROVE  Work!ItemStep(j)
<1>1. TypeOK /\ TypeOK' /\ RowStep(job[j], job'[j])
  BY NextIInv, NextStep DEF IInv, StepOK
<1> DEFINE from == job[j].state
           to == job'[j].state
           before == HeldLatest(j)
           after == HeldLatest(j)'
<1>2. LiveHolders(j) = before
  BY <1>1, LiveHoldersHoldTheLatest DEF LiveIsLatest
<1>3. LiveHolders(j)' = after
  <2>1. LiveIsLatest'
    BY LiveHoldersHoldTheLatest, PTL
  <2>2. QED BY <1>1, <2>1 DEF LiveIsLatest
<1>4. /\ to # "running" => after = {}
      /\ from # "running" => before = {}
  BY DEF HeldLatest
<1>5. /\ Work!Rests(j) <=> to = from /\ after = before
      /\ Work!NobodyHolds(j) <=> after = {}
      /\ Work!Offer(j) <=> from = "absent" /\ to = "due" /\ after = {}
      /\ Work!Take(j) <=> /\ from = "due" /\ to = "running"
                          /\ after = {} \/ \E w \in Workers : after = {w}
      /\ Work!Finish(j) <=> from = "running" /\ to = "done" /\ before # {} /\ after = {}
      /\ Work!Return(j) <=> from = "running" /\ to = "due" /\ after = {}
      /\ Work!Bury(j) <=> from = "running" /\ to = "dead" /\ after = {}
      /\ Work!Abandon(j) <=> from = "running" /\ to = "running" /\ after = {}
      /\ Work!Revive(j) <=> from = "dead" /\ to = "due" /\ after = {}
      /\ Work!Withdraw(j) <=> /\ from \in {"due", "running", "dead"} /\ to = "discarded"
                              /\ after = {}
  <2> HIDE DEF from, to, before, after
  <2>1. [i \in Jobs |-> job[i].state][j] = from /\ [i \in Jobs |-> LiveHolders(i)][j] = before
    BY <1>2 DEF from
  <2>2. [i \in Jobs |-> job'[i].state][j] = to /\ [i \in Jobs |-> LiveHolders(i)'][j] = after
    BY <1>3 DEF to
  <2>3. QED
    BY <2>1, <2>2 DEF Work!Rests, Work!NobodyHolds, Work!Goes, Work!Offer, Work!Take, Work!Finish,
       Work!Return, Work!Bury, Work!Abandon, Work!Revive, Work!Withdraw
<1>6. from = "running" /\ to = "running" => after = before \/ after = {}
  BY HoldersOfARunningRow
<1>7. from = "due" /\ to = "running" => after = {} \/ \E w \in Workers : after = {w}
  BY HoldersOfAClaimedRow
<1>8. from = "running" /\ to = "done" => before # {}
  <2> SUFFICES ASSUME from = "running", to = "done" PROVE before # {}
    OBVIOUS
  <2>1. PICK w \in Workers : \E lease \in held[w] : HandlerReturns(w, lease) /\ lease.job = j
    BY <1>1, OnlyCompletionFinishes
  <2>2. PICK lease \in held[w] : HandlerReturns(w, lease) /\ lease.job = j
    BY <2>1
  <2>3. w \in LiveHolders(j)
    BY <2>2 DEF HandlerReturns, CompleteTx, LiveHolders
  <2>4. QED BY <1>2, <2>3
<1>9. \/ to = from
      \/ from = "absent" /\ to = "due"
      \/ from = "due" /\ to = "running"
      \/ from = "running" /\ to \in {"done", "due", "dead"}
      \/ from = "dead" /\ to = "due"
      \/ from \in {"due", "running", "dead"} /\ to = "discarded"
  BY <1>1 DEF RowStep
<1> HIDE DEF from, to, before, after
<1>10. QED BY <1>4, <1>5, <1>6, <1>7, <1>8, <1>9 DEF Work!ItemStep

\* The queue and its workers implement LeasedWork: whatever they do to a row is what the
\* life of an item allows, and a process that lost a row never moves it again.
THEOREM ImplementsWork == Spec => ImplementsLeasedWork
<1>1. Init => Work!Init
  <2> SUFFICES ASSUME Init PROVE Work!Init
    OBVIOUS
  <2>1. \A j \in Jobs : job[j].state = "absent"
    BY DEF Init, QueueInit, NewRow
  <2>2. \A j \in Jobs : LiveHolders(j) = {}
    BY DEF Init, RunnerInit, LiveHolders
  <2>3. QED BY <2>1, <2>2 DEF Work!Init
<1>2. IInv /\ [Next]_vars => [Work!Next]_(Work!workVars)
  BY RowsStepLikeItems DEF Work!Next
<1>3. QED BY <1>1, <1>2, Inductive, PTL DEF Spec, ImplementsLeasedWork, Work!Spec

-----------------------------------------------------------------------------
(* The scheduler on top of the queue. Its invariant says what a selection  *)
(* may rely on from the moment it is made to the end of its cycle, unless  *)
(* a settlement overtakes it: the tenant has rested, and owes no less than *)
(* the selection saw, plus what was signalled while the cycle runs.        *)

HistoryTypes ==
    /\ picked \subseteq Pick
    /\ outdated \subseteq Jobs
    /\ sinceClaim \in [Tenants -> Nat]

\* Only the scheduler enqueues.
OnlyCycles ==
    /\ \A i \in inserting : i.lane \in CycleLanes
    /\ \A j \in Jobs : job[j].state # "absent" => job[j].lane \in CycleLanes

Fresh(t, debt) == tenant[t].restedFor >= MinInterval /\ debt <= tenant[t].debt

PicksStand == \A p \in picked : p.current => Fresh(p.tenant, p.debt)
InsertsStand == \A i \in inserting : i.job \notin outdated => Fresh(TenantOf[i.lane], i.debt)
RowStands(j) ==
    LET t == TenantOf[job[j].lane] IN
    /\ job[j].state \in {"due", "dead"} => Fresh(t, job[j].debt)
    /\ job[j].state = "running" => Fresh(t, job[j].debt + sinceClaim[t])
RowsStand == \A j \in Jobs \ outdated : RowStands(j)

SchedulerIInv ==
    IInv /\ HistoryTypes /\ OnlyCycles /\ PicksStand /\ InsertsStand /\ RowsStand

\* What the queue does beneath the scheduler is a step of the queue.
LEMMA QueueStepIsNext == ASSUME QueueStep PROVE Next
BY DEF QueueStep, Next, FleetStep

\* A tenant has one open row, since it has one lane for cycles.
LEMMA OneOpenPerTenant ==
    ASSUME IInv, OnlyCycles, NEW j \in Jobs, NEW k \in Jobs, IsOpen(job[j]), IsOpen(job[k]),
           TenantOf[job[j].lane] = TenantOf[job[k].lane]
    PROVE  j = k
<1>1. job[j].lane \in CycleLanes /\ job[k].lane \in CycleLanes
  BY DEF OnlyCycles, IsOpen
<1>2. job[j].lane = job[k].lane /\ job[j].lane \in Lanes
  BY <1>1, LaneAssumption
<1>3. QED BY <1>2 DEF IInv, OneOpenPerLane, OpenRows

\* A row that a step of the queue brings about is what its INSERT said.
LEMMA CreatedByItsInsert ==
    ASSUME IInv, QueueStep, NEW j \in Jobs, job[j].state = "absent", job'[j].state # "absent"
    PROVE  \E i \in inserting : /\ i.job = j /\ job'[j].state = "due"
                                /\ job'[j].lane = i.lane /\ job'[j].debt = i.debt
<1>1. TypeOK /\ Next
  BY QueueStepIsNext DEF IInv
<1>2. PICK i \in inserting : Insert(i)
  BY <1>1, OnlyInsertCreates
<1> DEFINE new == NewRow("due", i.lane, i.runIn, i.debt)
<1>3. new.state = "due" /\ new.lane = i.lane /\ new.debt = i.debt
  BY DEF NewRow
<1>4. job' = job \/ job' = [job EXCEPT ![i.job] = new]
  BY <1>2 DEF Insert, EnqueueCommit
<1> HIDE DEF new
<1>5. job' = [job EXCEPT ![i.job] = new] /\ i.job = j
  BY <1>1, <1>4 DEF TypeOK
<1>6. QED BY <1>1, <1>3, <1>5 DEF TypeOK

\* Any other row keeps its lane, and its debt until it is finished.
LEMMA RowsKeepTheirDebt ==
    ASSUME IInv, QueueStep, NEW j \in Jobs, job[j].state # "absent"
    PROVE  /\ RowStep(job[j], job'[j])
           /\ job'[j].lane = job[j].lane
           /\ job'[j].state \notin {"done", "discarded"} => job'[j].debt = job[j].debt
<1>1. RowStep(job[j], job'[j])
  BY QueueStepIsNext, NextStep DEF IInv, StepOK
<1>2. QED BY <1>1 DEF RowStep, Keeps, Ends

\* A step of the queue starts no INSERT.
LEMMA InsertsGoOn ==
    ASSUME IInv, QueueStep, NEW k \in inserting'
    PROVE  \E i \in inserting : k.job = i.job /\ k.lane = i.lane /\ k.debt = i.debt
<1>1. CASE UNCHANGED inserting
  BY <1>1
<1>2. ASSUME NEW i \in inserting, Insert(i)
      PROVE  inserting' \subseteq inserting
  BY <1>2 DEF Insert, EnqueueCommit
<1>3. CASE Tick
  <2>1. PICK i \in inserting : k = [i EXCEPT !.runIn = Fall(@, -MaxLag)]
    BY <1>3 DEF Tick, QueueTick
  <2>2. k.job = i.job /\ k.lane = i.lane /\ k.debt = i.debt
    BY <2>1 DEF IInv, TypeOK, Insertion
  <2>3. QED BY <2>2
<1>4. ASSUME NEW w \in Workers, WorkerStep(w)
      PROVE  UNCHANGED inserting
  BY <1>4 DEF WorkerStep, StartPass, Claim, ClaimStatement, ClaimAnswerLost, RunHandlers,
     EndPass, HandlerReturns, CompleteTx, HandlerThrows, FailStatement, Superseded,
     StoreError, Beat, HeartbeatStatement, Crash, queueVars
<1>5. ASSUME NEW S \in SUBSET Jobs, Reaping(S)
      PROVE  UNCHANGED inserting
  BY <1>5 DEF Reaping, Reclaim, ReclaimTx
<1>6. ASSUME Operate
      PROVE  UNCHANGED inserting
  BY <1>6 DEF Operate, DiscardDeadLetter, RequeueDeadLetter, ReviveDeadLane,
     DiscardConnectorLane
<1>7. ASSUME NEW t \in Tenants, Move(t)
      PROVE  UNCHANGED inserting
  BY <1>7 DEF Move, TenantMoves
<1>8. QED BY <1>1, <1>2, <1>3, <1>4, <1>5, <1>6, <1>7 DEF QueueStep

\* A completion subtracts from its tenant what its row says, and finishes its row.
LEMMA CompletionSettles ==
    ASSUME IInv, OnlyCycles, QueueStep, NEW j \in Jobs, Completes(j)
    PROVE  LET t == TenantOf[job[j].lane]
           IN  t \in Tenants /\ tenant'[t] = Settled(tenant[t], job[j].debt)
<1>1. TypeOK /\ Next
  BY QueueStepIsNext DEF IInv
<1>2. PICK w \in Workers : \E lease \in held[w] : HandlerReturns(w, lease) /\ lease.job = j
  BY <1>1, OnlyCompletionFinishes DEF Completes
<1>3. CompleteTx([job |-> j, token |-> job[j].token])
  <2>1. PICK lease \in held[w] : HandlerReturns(w, lease) /\ lease.job = j
    BY <1>2
  <2>2. lease = [job |-> j, token |-> job[j].token]
    BY <1>1, <2>1 DEF HandlerReturns, CompleteTx, Fenced, TypeOK, Lease
  <2>3. QED BY <2>1, <2>2 DEF HandlerReturns
<1>4. job[j].lane \in CycleLanes /\ TenantOf[job[j].lane] \in Tenants
  BY <1>1, LaneAssumption DEF OnlyCycles, Completes, TypeOK, Row
<1>5. QED BY <1>1, <1>3, <1>4 DEF CompleteTx, TypeOK

\* A step of the queue takes no rest and no debt from a tenant it does not settle.
LEMMA UnsettledKeepTheirRest ==
    ASSUME IInv, QueueStep, NEW t \in Tenants, t \notin SettledTenants,
           NEW debt \in Nat, Fresh(t, debt)
    PROVE  Fresh(t, debt)'
<1>1. /\ TypeOK /\ tenant[t] \in TenantRow
      /\ AgeCap \in Nat /\ MinInterval \in 0..AgeCap
  BY TimeAssumption, SchedulerAssumption DEF IInv, TypeOK
<1> SUFFICES /\ tenant'[t].debt = tenant[t].debt
             /\ tenant'[t].restedFor >= MinInterval
  BY DEF Fresh
<1>2. tenant[t].restedFor >= MinInterval
  BY DEF Fresh
<1>3. CASE UNCHANGED tenant
  BY <1>2, <1>3
<1>4. CASE Tick
  <2>1. tenant'[t] = AgedTenant(tenant[t])
    BY <1>4 DEF Tick, QueueTick
  <2>2. AgedTenant(tenant[t]).debt = tenant[t].debt
        /\ AgedTenant(tenant[t]).restedFor = Rise(tenant[t].restedFor, AgeCap)
    BY DEF AgedTenant
  <2>3. tenant[t].restedFor \in Nat
    BY <1>1 DEF TenantRow
  <2>4. QED BY <1>1, <1>2, <2>1, <2>2, <2>3 DEF Rise
<1>5. ASSUME NEW u \in Tenants, Move(u)
      PROVE  tenant'[t].debt = tenant[t].debt /\ tenant'[t].restedFor = tenant[t].restedFor
  <2> DEFINE moved == [tenant[u] EXCEPT !.ready = ~@]
  <2>1. moved.debt = tenant[u].debt /\ moved.restedFor = tenant[u].restedFor
    BY <1>1 DEF TypeOK, TenantRow
  <2>2. tenant' = [tenant EXCEPT ![u] = moved]
    BY <1>5 DEF Move, TenantMoves
  <2> HIDE DEF moved
  <2>3. QED BY <1>1, <2>1, <2>2 DEF TypeOK
<1>6. ASSUME NEW w \in Workers, NEW lease \in held[w], HandlerReturns(w, lease)
      PROVE  tenant'[t] = tenant[t]
  <2>1. lease.job \in Jobs /\ CompleteTx(lease)
    BY <1>1, <1>6 DEF HandlerReturns, TypeOK, Lease
  <2>2. Completes(lease.job)
    <3>1. job'[lease.job] = Finished(job[lease.job], "done")
      BY <1>1, <2>1 DEF CompleteTx, TypeOK
    <3>2. job'[lease.job].state = "done"
      BY <3>1 DEF Finished, Released
    <3>3. QED BY <2>1, <3>2 DEF CompleteTx, Fenced, Completes
  <2>3. TenantOf[job[lease.job].lane] # t
    BY <2>1, <2>2 DEF SettledTenants
  <2>4. QED BY <1>1, <2>1, <2>3 DEF CompleteTx, TypeOK
<1>7. ASSUME NEW w \in Workers, WorkerStep(w)
      PROVE  tenant'[t] = tenant[t]
  BY <1>6, <1>7 DEF WorkerStep, StartPass, Claim, ClaimStatement, ClaimAnswerLost,
     RunHandlers, EndPass, HandlerThrows, FailStatement, Superseded, StoreError, Beat,
     HeartbeatStatement, Crash, queueVars
<1>8. ASSUME NEW i \in inserting, Insert(i)
      PROVE  UNCHANGED tenant
  BY <1>8 DEF Insert, EnqueueCommit
<1>9. ASSUME NEW S \in SUBSET Jobs, Reaping(S)
      PROVE  UNCHANGED tenant
  BY <1>9 DEF Reaping, Reclaim, ReclaimTx
<1>10. ASSUME Operate
       PROVE  UNCHANGED tenant
  BY <1>10 DEF Operate, DiscardDeadLetter, RequeueDeadLetter, ReviveDeadLane,
     DiscardConnectorLane
<1>11. QED BY <1>2, <1>3, <1>4, <1>5, <1>7, <1>8, <1>9, <1>10 DEF QueueStep

\* The history a step of the queue leaves.
LEMMA HistoryKeepsTypes ==
    ASSUME IInv, HistoryTypes, QueueStep
    PROVE  HistoryTypes' /\ outdated \subseteq outdated'
<1>1. History /\ inserting \subseteq Insertion
  BY DEF QueueStep, IInv, TypeOK
<1>2. picked' \subseteq Pick
  <2>1. \A p \in Pick : [p EXCEPT !.current = FALSE] \in Pick
    BY DEF Pick
  <2>2. QED BY <1>1, <2>1 DEF History, HistoryTypes
<1>3. outdated' \subseteq Jobs /\ outdated \subseteq outdated'
  BY <1>1 DEF History, HistoryTypes, Insertion
<1>4. sinceClaim' \in [Tenants -> Nat]
  BY <1>1 DEF History, HistoryTypes
<1>5. QED BY <1>2, <1>3, <1>4 DEF HistoryTypes

\* What is enqueued and what is open stays in the lanes of cycles.
LEMMA QueueKeepsToCycles ==
    ASSUME IInv, OnlyCycles, QueueStep
    PROVE  OnlyCycles'
<1>1. \A i \in inserting' : i.lane \in CycleLanes
  BY InsertsGoOn DEF OnlyCycles
<1>2. ASSUME NEW j \in Jobs, job'[j].state # "absent"
      PROVE  job'[j].lane \in CycleLanes
  <2>1. CASE job[j].state = "absent"
    BY <1>2, <2>1, CreatedByItsInsert DEF OnlyCycles
  <2>2. CASE job[j].state # "absent"
    BY <2>2, RowsKeepTheirDebt DEF OnlyCycles
  <2>3. QED BY <2>1, <2>2
<1>3. QED BY <1>1, <1>2 DEF OnlyCycles

\* A selection not enqueued yet stands until a settlement overtakes it, and is marked
\* when that happens.
LEMMA QueueKeepsPicks ==
    ASSUME SchedulerIInv, QueueStep
    PROVE  PicksStand'
<1> SUFFICES ASSUME NEW p \in picked', p.current PROVE Fresh(p.tenant, p.debt)'
  BY DEF PicksStand
<1>1. picked \subseteq Pick /\ History
  BY DEF SchedulerIInv, HistoryTypes, QueueStep
<1>2. p \in picked /\ p.tenant \notin SettledTenants
  BY <1>1 DEF History, Pick
<1>3. p.tenant \in Tenants /\ p.debt \in Nat
  BY <1>1, <1>2 DEF Pick
<1>4. Fresh(p.tenant, p.debt)
  BY <1>2 DEF SchedulerIInv, PicksStand
<1>5. QED BY <1>2, <1>3, <1>4, UnsettledKeepTheirRest DEF SchedulerIInv

\* The same of a selection past the snapshot of its INSERT.
LEMMA QueueKeepsInserts ==
    ASSUME SchedulerIInv, QueueStep
    PROVE  InsertsStand'
<1> SUFFICES ASSUME NEW k \in inserting', k.job \notin outdated'
             PROVE  Fresh(TenantOf[k.lane], k.debt)'
  BY DEF InsertsStand
<1>1. PICK i \in inserting : k.job = i.job /\ k.lane = i.lane /\ k.debt = i.debt
  BY InsertsGoOn DEF SchedulerIInv
<1>2. TenantOf[i.lane] \notin SettledTenants /\ i.job \notin outdated
  BY <1>1, HistoryKeepsTypes DEF QueueStep, History, SchedulerIInv
<1>3. TenantOf[i.lane] \in Tenants /\ i.debt \in Nat
  BY LaneAssumption DEF SchedulerIInv, IInv, TypeOK, Insertion
<1>4. Fresh(TenantOf[i.lane], i.debt)
  BY <1>2 DEF SchedulerIInv, InsertsStand
<1>5. Fresh(TenantOf[i.lane], i.debt)'
  BY <1>2, <1>3, <1>4, UnsettledKeepTheirRest DEF SchedulerIInv
<1>6. QED BY <1>1, <1>5

\* No row of a tenant that is being settled stands by what it saw before: the open one
\* is done, the others are marked.
LEMMA SettledRowsAreMarked ==
    ASSUME SchedulerIInv, QueueStep, NEW j \in Jobs, j \notin outdated',
           job'[j].state \in {"due", "dead", "running"}
    PROVE  TenantOf[job'[j].lane] \notin SettledTenants
<1> SUFFICES ASSUME NEW c \in Jobs, Completes(c), TenantOf[job[c].lane] = TenantOf[job'[j].lane]
             PROVE  FALSE
  BY DEF SettledTenants
<1>1. TenantOf[job'[j].lane] \in SettledTenants /\ History
  BY DEF SettledTenants, QueueStep
<1>2. CASE job[j].state = "absent"
  <2>1. PICK i \in inserting : i.job = j /\ job'[j].lane = i.lane
    BY <1>2, CreatedByItsInsert DEF SchedulerIInv
  <2>2. QED BY <1>1, <2>1 DEF History
<1>3. CASE job[j].state # "absent"
  <2>1. job'[j].lane = job[j].lane /\ RowStep(job[j], job'[j])
    BY <1>3, RowsKeepTheirDebt DEF SchedulerIInv
  <2>2. job[j].state # "dead"
    BY <1>1, <2>1 DEF History
  <2>3. IsOpen(job[j])
    BY <1>3, <2>1, <2>2 DEF RowStep, IsOpen
  <2>4. IsOpen(job[c]) /\ job'[c].state = "done"
    BY DEF Completes, IsOpen
  <2>5. j = c
    BY <2>1, <2>3, <2>4, OneOpenPerTenant DEF SchedulerIInv
  <2>6. QED BY <2>4, <2>5
<1>4. QED BY <1>2, <1>3

\* A row stands until a settlement of its tenant overtakes it; what is signalled while it
\* runs is counted from its claim.
LEMMA QueueKeepsRows ==
    ASSUME SchedulerIInv, QueueStep
    PROVE  RowsStand'
<1> SUFFICES ASSUME NEW j \in Jobs, j \notin outdated',
                    job'[j].state \in {"due", "dead", "running"}
             PROVE  RowStands(j)'
  BY DEF RowsStand, RowStands
<1>1. /\ TypeOK /\ TypeOK' /\ HistoryTypes /\ HistoryTypes' /\ History
      /\ outdated \subseteq outdated'
  BY QueueStepIsNext, NextIInv, HistoryKeepsTypes DEF SchedulerIInv, IInv, QueueStep
<1>2. TenantOf[job'[j].lane] \in Tenants \ SettledTenants /\ job'[j].debt \in Nat
  BY <1>1, LaneAssumption, SettledRowsAreMarked DEF TypeOK, Row
<1> SUFFICES ASSUME NEW t \in Tenants \ SettledTenants, t = TenantOf[job'[j].lane],
                    NEW debt \in Nat, debt = job'[j].debt
             PROVE  /\ job'[j].state \in {"due", "dead"} => Fresh(t, debt)'
                    /\ job'[j].state = "running" => Fresh(t, debt + sinceClaim[t])'
  BY <1>2 DEF RowStands, Fresh
<1>3. sinceClaim[t] \in Nat /\ sinceClaim'[t] = IF Runs(t) /\ Runs(t)' THEN sinceClaim[t] ELSE 0
  BY <1>1 DEF HistoryTypes, History
<1>4. \A d \in Nat : Fresh(t, d) => Fresh(t, d)'
  BY UnsettledKeepTheirRest DEF SchedulerIInv
<1>5. CASE job[j].state = "absent"
  <2>1. PICK i \in inserting : /\ i.job = j /\ job'[j].state = "due"
                               /\ job'[j].lane = i.lane /\ job'[j].debt = i.debt
    BY <1>5, CreatedByItsInsert DEF SchedulerIInv
  <2>2. Fresh(t, debt)
    BY <1>1, <2>1 DEF SchedulerIInv, InsertsStand
  <2>3. QED BY <1>2, <1>4, <2>1, <2>2
<1>6. CASE job[j].state # "absent"
  <2>1. /\ job[j].lane = job'[j].lane /\ debt = job[j].debt
        /\ RowStep(job[j], job'[j]) /\ RowStands(j)
    BY <1>1, <1>6, RowsKeepTheirDebt DEF SchedulerIInv, RowsStand
  <2>2. t = TenantOf[job[j].lane]
    BY <2>1
  <2>3. /\ job[j].state \in {"due", "dead"} => Fresh(t, debt)
        /\ job[j].state = "running" => Fresh(t, debt + sinceClaim[t])
    BY <2>1, <2>2 DEF RowStands
  <2>4. Fresh(t, debt + sinceClaim[t]) => Fresh(t, debt)
    <3>1. tenant[t].debt \in Nat
      BY <1>1, <1>2 DEF TypeOK, TenantRow
    <3>2. QED BY <1>2, <1>3, <3>1 DEF Fresh
  <2>5. CASE job'[j].state \in {"due", "dead"}
    <3>1. job[j].state \in {"due", "dead", "running"}
      BY <1>6, <2>1, <2>5 DEF RowStep
    <3>2. QED BY <1>2, <1>4, <2>3, <2>4, <2>5, <3>1
  <2>6. CASE job'[j].state = "running" /\ job[j].state = "running"
    <3>1. Runs(t) /\ Runs(t)'
      BY <2>2, <2>6 DEF Runs
    <3>2. Fresh(t, debt + sinceClaim[t])' /\ sinceClaim'[t] = sinceClaim[t]
      BY <1>2, <1>3, <1>4, <2>3, <2>6, <3>1
    <3>3. QED BY <2>6, <3>2
  <2>7. CASE job'[j].state = "running" /\ job[j].state # "running"
    <3>1. job[j].state = "due"
      BY <1>6, <2>1, <2>7 DEF RowStep
    <3>2. ~Runs(t)
      <4>1. SUFFICES ASSUME NEW k \in Jobs, job[k].state = "running",
                            TenantOf[job[k].lane] = TenantOf[job[j].lane]
                     PROVE  FALSE
        BY <2>2 DEF Runs
      <4>2. k = j
        BY <3>1, <4>1, OneOpenPerTenant DEF SchedulerIInv, IsOpen
      <4>3. QED BY <3>1, <4>1, <4>2
    <3>3. sinceClaim'[t] = 0 /\ debt + 0 = debt
      BY <1>2, <1>3, <3>2
    <3>4. QED BY <1>2, <1>4, <2>3, <2>7, <3>1, <3>3
  <2>8. QED BY <2>5, <2>6, <2>7
<1>7. QED BY <1>5, <1>6

\* The invariant of the scheduler survives what happens in the queue beneath it.
LEMMA QueueKeepsSchedulerIInv ==
    ASSUME SchedulerIInv, QueueStep
    PROVE  SchedulerIInv'
BY QueueStepIsNext, NextIInv, HistoryKeepsTypes, QueueKeepsToCycles, QueueKeepsPicks,
   QueueKeepsInserts, QueueKeepsRows DEF SchedulerIInv

\* What is written of a tenant alone leaves the invariant of the queue.
LEMMA TenantColumnsAreFree ==
    ASSUME IInv, UNCHANGED <<job, inserting, pass, held>>, tenant' \in [Tenants -> TenantRow]
    PROVE  IInv'
BY DEF IInv, TypeOK, OneOpenPerLane, OpenRows, LadderHasATop, TokensAreSpent, HoldersDiffer,
   InsertionsAreNew

\* A selection is made of a tenant that has rested, with the debt it has.
LEMMA SelectKeeps ==
    ASSUME SchedulerIInv, NEW t \in Tenants, Select(t)
    PROVE  SchedulerIInv'
<1> DEFINE new == [tenant |-> t, debt |-> tenant[t].debt, current |-> TRUE]
<1>1. /\ picked' = picked \cup {new} /\ UNCHANGED <<outdated, sinceClaim>>
      /\ UNCHANGED <<job, inserting, pass, held, tenant>>
  BY DEF Select, vars
<1>2. tenant[t].debt \in Nat
  BY DEF SchedulerIInv, IInv, TypeOK, TenantRow
<1>3. new \in Pick /\ Fresh(new.tenant, new.debt)
  BY <1>2 DEF Select, Due, Pick, Fresh
<1> HIDE DEF new
<1>4. IInv'
  BY <1>1, TenantColumnsAreFree DEF SchedulerIInv, IInv, TypeOK
<1>5. HistoryTypes' /\ OnlyCycles'
  BY <1>1, <1>3 DEF SchedulerIInv, HistoryTypes, OnlyCycles
<1>6. PicksStand'
  BY <1>1, <1>3 DEF SchedulerIInv, PicksStand, Fresh
<1>7. InsertsStand' /\ RowsStand'
  BY <1>1 DEF SchedulerIInv, InsertsStand, RowsStand, RowStands, Fresh
<1>8. QED BY <1>4, <1>5, <1>6, <1>7 DEF SchedulerIInv

\* A selection that comes to nothing takes nothing with it.
LEMMA RefusalKeeps ==
    ASSUME SchedulerIInv, NEW p \in picked, EnqueueRefused(p)
    PROVE  SchedulerIInv'
<1>1. /\ picked' \subseteq picked /\ UNCHANGED <<outdated, sinceClaim>>
      /\ UNCHANGED <<job, inserting, pass, held, tenant>>
  BY DEF EnqueueRefused, vars
<1>2. IInv'
  BY <1>1, TenantColumnsAreFree DEF SchedulerIInv, IInv, TypeOK
<1>3. HistoryTypes' /\ OnlyCycles' /\ PicksStand'
  BY <1>1 DEF SchedulerIInv, HistoryTypes, OnlyCycles, PicksStand, Fresh
<1>4. InsertsStand' /\ RowsStand'
  BY <1>1 DEF SchedulerIInv, InsertsStand, RowsStand, RowStands, Fresh
<1>5. QED BY <1>2, <1>3, <1>4 DEF SchedulerIInv

\* An enqueue hands on what its selection saw, to a row that nothing else speaks of.
LEMMA EnqueueKeeps ==
    ASSUME SchedulerIInv, NEW p \in picked, NEW j \in Jobs, EnqueueDue(p, j)
    PROVE  SchedulerIInv'
<1>1. PICK l \in CycleLanes : TenantOf[l] = p.tenant /\ EnqueueSnapshot(j, l, 0, p.debt)
  BY DEF EnqueueDue
<1> DEFINE new == [job |-> j, lane |-> l, runIn |-> 0, debt |-> p.debt]
<1>2. /\ inserting' = inserting \cup {new}
      /\ job[j].state = "absent" /\ \A i \in inserting : i.job # j
      /\ picked' \subseteq picked
      /\ UNCHANGED <<job, tenant, pass, held, sinceClaim>>
      /\ outdated' = IF p.current THEN outdated \ {j} ELSE outdated \cup {j}
  BY <1>1 DEF EnqueueDue, EnqueueSnapshot, runnerVars
<1>3. p \in Pick /\ l \in Lanes
  BY LaneAssumption DEF SchedulerIInv, HistoryTypes
<1>4. new \in Insertion /\ new.job = j /\ new.lane = l /\ new.debt = p.debt
  BY <1>3 DEF Insertion, Pick
<1> HIDE DEF new
<1>5. TypeOK'
  BY <1>2, <1>4 DEF SchedulerIInv, IInv, TypeOK
<1>6. InsertionsAreNew'
  BY <1>2, <1>4 DEF SchedulerIInv, IInv, InsertionsAreNew
<1>7. IInv'
  BY <1>2, <1>5, <1>6 DEF SchedulerIInv, IInv, OneOpenPerLane, OpenRows, LadderHasATop,
     TokensAreSpent, HoldersDiffer
<1>8. HistoryTypes' /\ OnlyCycles' /\ PicksStand'
  BY <1>1, <1>2, <1>4 DEF SchedulerIInv, HistoryTypes, OnlyCycles, PicksStand, Fresh
<1>9. p.current => Fresh(p.tenant, p.debt)
  BY DEF SchedulerIInv, PicksStand
<1>10. InsertsStand'
  BY <1>1, <1>2, <1>4, <1>9 DEF SchedulerIInv, InsertsStand, Fresh
<1>11. RowsStand'
  BY <1>2 DEF SchedulerIInv, RowsStand, RowStands, Fresh
<1>12. QED BY <1>7, <1>8, <1>10, <1>11 DEF SchedulerIInv

\* Stamping a due time touches neither rest nor debt.
LEMMA StampKeeps ==
    ASSUME SchedulerIInv, NEW t \in Tenants, Stamp(t)
    PROVE  SchedulerIInv'
<1> DEFINE new == [tenant[t] EXCEPT !.dueSet = TRUE, !.dueIn = tenant[t].slotIn]
<1>1. /\ tenant' = [tenant EXCEPT ![t] = new]
      /\ UNCHANGED <<job, inserting, pass, held, picked, outdated, sinceClaim>>
  BY DEF Stamp, runnerVars, schedulerVars
<1>2. tenant \in [Tenants -> TenantRow] /\ tenant[t].slotIn \in Int
  BY TimeAssumption DEF SchedulerIInv, IInv, TypeOK, TenantRow
<1>3. new \in TenantRow /\ new.debt = tenant[t].debt /\ new.restedFor = tenant[t].restedFor
  BY <1>2 DEF TenantRow
<1> HIDE DEF new
<1>4. IInv'
  BY <1>1, <1>2, <1>3, TenantColumnsAreFree DEF SchedulerIInv
<1>5. \A u, debt : Fresh(u, debt) => Fresh(u, debt)'
  BY <1>1, <1>2, <1>3 DEF Fresh
<1>6. HistoryTypes' /\ OnlyCycles' /\ PicksStand'
  BY <1>1, <1>5 DEF SchedulerIInv, HistoryTypes, OnlyCycles, PicksStand
<1>7. InsertsStand' /\ RowsStand'
  BY <1>1, <1>5 DEF SchedulerIInv, InsertsStand, RowsStand, RowStands
<1>8. QED BY <1>4, <1>6, <1>7 DEF SchedulerIInv

\* A signal adds to what the tenant owes, and to what its running cycle will leave it, alike.
LEMMA SignalKeeps ==
    ASSUME SchedulerIInv, NEW t \in Tenants, NEW debt \in 0..1, NEW byUser \in BOOLEAN,
           NEW newer \in BOOLEAN, Signal(t, debt, byUser, 0, newer)
    PROVE  SchedulerIInv'
<1> DEFINE x == [tenant[t] EXCEPT !.debt = @ + debt]
           new == IF byUser THEN Stamped(x, 0, newer) ELSE x
<1>1. /\ tenant' = [tenant EXCEPT ![t] = new]
      /\ sinceClaim' = IF Runs(t) THEN [sinceClaim EXCEPT ![t] = @ + debt] ELSE sinceClaim
      /\ UNCHANGED <<job, inserting, pass, held, picked, outdated>>
  BY DEF Signal, runnerVars
<1>2. /\ TypeOK /\ tenant \in [Tenants -> TenantRow] /\ tenant[t] \in TenantRow
      /\ HistoryTypes /\ sinceClaim \in [Tenants -> Nat]
  BY DEF SchedulerIInv, IInv, TypeOK, HistoryTypes
<1>3. x \in TenantRow /\ x.debt = tenant[t].debt + debt /\ x.restedFor = tenant[t].restedFor
  BY <1>2 DEF TenantRow
<1> HIDE DEF x
<1>4. new \in TenantRow /\ new.debt = tenant[t].debt + debt
      /\ new.restedFor = tenant[t].restedFor
  BY <1>3 DEF Stamped, TenantRow
<1> HIDE DEF new
<1>5. IInv'
  BY <1>1, <1>2, <1>4, TenantColumnsAreFree DEF SchedulerIInv
<1>6. \A u \in Tenants : tenant[u].debt \in Nat
  BY <1>2 DEF TenantRow
<1>7. \A u \in Tenants, d \in Nat : Fresh(u, d) => Fresh(u, d)'
  BY <1>1, <1>2, <1>4, <1>6 DEF Fresh
<1>8. HistoryTypes' /\ OnlyCycles'
  <2>1. sinceClaim' \in [Tenants -> Nat]
    BY <1>1, <1>2
  <2>2. QED BY <1>1, <2>1 DEF SchedulerIInv, HistoryTypes, OnlyCycles
<1>9. PicksStand' /\ InsertsStand'
  <2>1. \A p \in picked : p.tenant \in Tenants /\ p.debt \in Nat
    BY <1>2 DEF HistoryTypes, Pick
  <2>2. \A i \in inserting : TenantOf[i.lane] \in Tenants /\ i.debt \in Nat
    BY <1>2, LaneAssumption DEF TypeOK, Insertion
  <2>3. QED BY <1>1, <1>7, <2>1, <2>2 DEF SchedulerIInv, PicksStand, InsertsStand
<1>10. ASSUME NEW j \in Jobs \ outdated
       PROVE  RowStands(j)'
  <2> DEFINE u == TenantOf[job[j].lane]
  <2>1. u \in Tenants /\ job[j].debt \in Nat /\ RowStands(j)
    BY <1>2, LaneAssumption DEF SchedulerIInv, RowsStand, TypeOK, Row
  <2>2. job[j].state \in {"due", "dead"} =>
           tenant'[u].restedFor >= MinInterval /\ job[j].debt <= tenant'[u].debt
    BY <1>7, <2>1 DEF RowStands, Fresh
  <2>3. ASSUME job[j].state = "running"
        PROVE  tenant'[u].restedFor >= MinInterval
               /\ job[j].debt + sinceClaim'[u] <= tenant'[u].debt
    <3>1. Runs(u) /\ Fresh(u, job[j].debt + sinceClaim[u])
      BY <2>1, <2>3 DEF Runs, RowStands
    <3>2. CASE u = t
      <4>1. sinceClaim'[u] = sinceClaim[u] + debt /\ tenant'[u] = new
        BY <1>1, <1>2, <3>1, <3>2
      <4>2. /\ sinceClaim[u] \in Nat /\ tenant[u].debt \in Nat
            /\ tenant'[u].debt = tenant[u].debt + debt
            /\ tenant'[u].restedFor = tenant[u].restedFor
        BY <1>2, <1>4, <1>6, <2>1, <3>2, <4>1
      <4>3. QED BY <2>1, <3>1, <4>1, <4>2 DEF Fresh
    <3>3. CASE u # t
      <4>1. sinceClaim'[u] = sinceClaim[u] /\ tenant'[u] = tenant[u]
        BY <1>1, <1>2, <2>1, <3>3
      <4>2. QED BY <3>1, <4>1 DEF Fresh
    <3>4. QED BY <3>2, <3>3
  <2>4. job' = job
    BY <1>1
  <2>5. QED BY <2>2, <2>3, <2>4 DEF RowStands, Fresh
<1>11. RowsStand'
  BY <1>1, <1>10 DEF RowsStand
<1>12. QED BY <1>5, <1>8, <1>9, <1>11 DEF SchedulerIInv

\* A finished row that becomes a fresh id stood by nothing.
LEMMA RecycleKeeps ==
    ASSUME SchedulerIInv, NEW j \in Jobs, Recycle(j)
    PROVE  SchedulerIInv'
<1> DEFINE new == NewRow("absent", AnyLane, 0, 0)
<1>1. /\ job' = [job EXCEPT ![j] = new] /\ job[j].state \in {"done", "discarded"}
      /\ outdated' = outdated \ {j}
      /\ \A w \in Workers : \A lease \in held[w] : lease.job # j
      /\ UNCHANGED <<tenant, inserting, pass, held, picked, sinceClaim>>
  BY DEF Recycle, runnerVars
<1>2. AnyLane \in Lanes
  BY LaneAssumption DEF AnyLane
<1>3. new \in Row /\ new.state = "absent" /\ new.leased = FALSE /\ new.lane \in Lanes
      /\ new.attempts = 0 /\ new.token = 0
  BY <1>2 DEF NewRow, Row, JobState
<1> HIDE DEF new
<1>4. TypeOK /\ job \in [Jobs -> Row]
  BY DEF SchedulerIInv, IInv, TypeOK
<1>5. job'[j] = new /\ \A k \in Jobs : k # j => job'[k] = job[k]
  BY <1>1, <1>4
<1>6. TypeOK'
  BY <1>1, <1>3, <1>4 DEF TypeOK
<1>7. OneOpenPerLane'
  BY <1>3, <1>5 DEF SchedulerIInv, IInv, OneOpenPerLane, OpenRows, IsOpen
<1>8. LadderHasATop'
  <2>1. MaxAttempts[new.lane] >= 0
    BY <1>3, LaneAssumption
  <2>2. QED BY <1>3, <1>5, <2>1 DEF SchedulerIInv, IInv, LadderHasATop, Exhausted
<1>9. TokensAreSpent' /\ HoldersDiffer'
  <2>1. \A w \in Workers : \A lease \in held[w] : lease.job \in Jobs
    BY <1>4 DEF TypeOK, Lease
  <2>2. QED BY <1>1, <1>3, <1>5, <2>1 DEF SchedulerIInv, IInv, TokensAreSpent, HoldersDiffer
<1>10. \A i \in inserting : i.job # j /\ i.job \in Jobs
  BY <1>1, <1>4 DEF SchedulerIInv, IInv, InsertionsAreNew, TypeOK, Insertion
<1>11. InsertionsAreNew'
  BY <1>1, <1>5, <1>10 DEF SchedulerIInv, IInv, InsertionsAreNew
<1>12. HistoryTypes' /\ OnlyCycles' /\ PicksStand'
  BY <1>1, <1>3, <1>5 DEF SchedulerIInv, HistoryTypes, OnlyCycles, PicksStand, Fresh
<1>13. InsertsStand'
  BY <1>1, <1>10 DEF SchedulerIInv, InsertsStand, Fresh
<1>14. RowsStand'
  BY <1>1, <1>3, <1>5 DEF SchedulerIInv, RowsStand, RowStands, Fresh
<1>15. QED
  BY <1>6, <1>7, <1>8, <1>9, <1>11, <1>12, <1>13, <1>14 DEF SchedulerIInv, IInv

\* Whatever the scheduler, its queue and its signals do, the invariant stays.
LEMMA NextSchedulerIInv ==
    ASSUME SchedulerIInv, [SchedulerNext]_allVars
    PROVE  SchedulerIInv'
<1>1. CASE UNCHANGED allVars
  <2>1. UNCHANGED <<job, tenant, inserting, pass, held, picked, outdated, sinceClaim>>
    BY <1>1 DEF allVars
  <2>2. IInv'
    BY <2>1, TenantColumnsAreFree DEF SchedulerIInv, IInv, TypeOK
  <2>3. QED
    BY <2>1, <2>2 DEF SchedulerIInv, HistoryTypes, OnlyCycles, PicksStand, InsertsStand,
       RowsStand, RowStands, Fresh
<1>2. CASE QueueStep
  BY <1>2, QueueKeepsSchedulerIInv
<1>3. CASE \E t \in Tenants : Select(t)
  BY <1>3, SelectKeeps
<1>4. CASE \E p \in picked : EnqueueRefused(p) \/ \E j \in Jobs : EnqueueDue(p, j)
  BY <1>4, RefusalKeeps, EnqueueKeeps
<1>5. CASE \E t \in Tenants : Stamp(t)
  BY <1>5, StampKeeps
<1>6. CASE \E t \in Tenants : Flush(t)
  <2>1. PICK t \in Tenants : Flush(t)
    BY <1>6
  <2>2. 1 \in 0..1 /\ TRUE \in BOOLEAN /\ FALSE \in BOOLEAN
    OBVIOUS
  <2>3. CASE \E debt \in 0..1, newer \in BOOLEAN : Signal(t, debt, TRUE, 0, newer)
    BY <2>2, <2>3, SignalKeeps
  <2>4. CASE Signal(t, 1, FALSE, 0, FALSE)
    BY <2>2, <2>4, SignalKeeps
  <2>5. QED BY <2>1, <2>3, <2>4 DEF Flush
<1>7. CASE \E j \in Jobs : Recycle(j)
  BY <1>7, RecycleKeeps
<1>8. QED BY <1>1, <1>2, <1>3, <1>4, <1>5, <1>6, <1>7 DEF SchedulerNext

\* Nothing is selected, enqueued or signalled at the start.
LEMMA InitSchedulerIInv == ASSUME SchedulerInit PROVE SchedulerIInv
<1>1. IInv
  BY InitIInv DEF SchedulerInit
<1>2. /\ \A j \in Jobs : job[j].state = "absent"
      /\ inserting = {} /\ picked = {} /\ outdated = {}
      /\ sinceClaim = [t \in Tenants |-> 0]
  BY DEF SchedulerInit, Init, QueueInit, NewRow
<1>3. QED
  BY <1>1, <1>2 DEF SchedulerIInv, HistoryTypes, OnlyCycles, PicksStand, InsertsStand,
     RowsStand, RowStands

\* The invariant of the scheduler, and with it that of the queue under recycled ids and
\* debts of any size, holds in every reachable state.
THEOREM SchedulerInductive == SchedulerSpec => []SchedulerIInv
BY InitSchedulerIInv, NextSchedulerIInv, PTL DEF SchedulerSpec

\* No cycle selected since the latest settlement starts on a tenant that has not rested.
THEOREM CyclesKeepTheirDistance == SchedulerSpec => CyclesAreSpaced
<1>1. SchedulerIInv =>
        \A j \in Jobs :
          (Claims(j) /\ j \notin outdated) =>
              tenant[TenantOf[job[j].lane]].restedFor >= MinInterval
  BY DEF SchedulerIInv, RowsStand, RowStands, Fresh, Claims
<1>2. SchedulerIInv /\ [SchedulerNext]_allVars =>
        [\A j \in Jobs :
          (Claims(j) /\ j \notin outdated) =>
              tenant[TenantOf[job[j].lane]].restedFor >= MinInterval]_allVars
  BY <1>1
<1>3. QED BY <1>2, SchedulerInductive, PTL DEF SchedulerSpec, CyclesAreSpaced

\* A completion subtracts nothing that was signalled while its cycle ran, unless a
\* settlement came between the cycle's selection and its claim.
THEOREM SignalsSurvive == SchedulerSpec => MidCycleSignalsSurvive
<1>1. ASSUME SchedulerIInv, [SchedulerNext]_allVars, NEW j \in Jobs,
             Completes(j), j \notin outdated
      PROVE  LET t == TenantOf[job[j].lane] IN tenant'[t].debt >= sinceClaim[t]
  <2> DEFINE t == TenantOf[job[j].lane]
  <2>1. QueueStep
    <3>1. job'[j].state # job[j].state /\ job[j].state = "running"
      BY <1>1 DEF Completes
    <3>2. job' # job
      BY <3>1
    <3>3. ~\E k \in Jobs : Recycle(k)
      <4>1. SUFFICES ASSUME NEW k \in Jobs, Recycle(k) PROVE FALSE
        OBVIOUS
      <4>2. k # j /\ job' = [job EXCEPT ![k] = NewRow("absent", AnyLane, 0, 0)]
        BY <3>1, <4>1 DEF Recycle
      <4>3. QED BY <1>1, <3>1, <4>2 DEF SchedulerIInv, IInv, TypeOK
    <3>4. QED
      BY <1>1, <3>2, <3>3 DEF SchedulerNext, allVars, vars, Select, Flush, EnqueueRefused, EnqueueDue,
         EnqueueSnapshot, Stamp, Signal
  <2>2. t \in Tenants /\ tenant'[t] = Settled(tenant[t], job[j].debt)
    BY <1>1, <2>1, CompletionSettles DEF SchedulerIInv
  <2>3. job[j].debt + sinceClaim[t] <= tenant[t].debt
    BY <1>1 DEF SchedulerIInv, RowsStand, RowStands, Fresh, Completes
  <2>4. job[j].debt \in Nat /\ sinceClaim[t] \in Nat /\ tenant[t].debt \in Nat
    BY <1>1, <2>2 DEF SchedulerIInv, IInv, TypeOK, Row, TenantRow, HistoryTypes
  <2>5. tenant'[t].debt = IF job[j].debt < tenant[t].debt THEN tenant[t].debt - job[j].debt ELSE 0
    BY <2>2 DEF Settled
  <2>6. QED BY <2>3, <2>4, <2>5
<1>2. SchedulerIInv /\ [SchedulerNext]_allVars =>
        [\A j \in Jobs : LET t == TenantOf[job[j].lane] IN
          (Completes(j) /\ j \notin outdated) => tenant'[t].debt >= sinceClaim[t]]_allVars
  BY <1>1
<1>3. QED BY <1>2, SchedulerInductive, PTL DEF SchedulerSpec, MidCycleSignalsSurvive
=============================================================================
