------------------------- MODULE OAuthGrants_proofs -------------------------
(***************************************************************************)
(* Proofs about OAuthGrants, for every set of grants and requests and      *)
(* every choice of the TTLs that satisfies OAuthAssumption.                *)
(*                                                                         *)
(* Lineage is OneLineage spelled out pair by pair, with what makes it      *)
(* inductive: a grant whose code was redeemed has a spent code.  Bounds    *)
(* measures every expiry of a grant from Until, the moment after which     *)
(* nothing of the grant may begin: now, and from its revocation on, the    *)
(* revocation.  No step moves Until back, so each bound only has to be     *)
(* shown where its quantity is created.                                    *)
(***************************************************************************)
EXTENDS OAuthGrants, TLAPS

Holds(p) == req[p].step \in {"check", "issue"}

Lineage ==
    /\ \A r \in refresh : code[r.grant] = Spent
    /\ \A p \in Requests : Holds(p) => code[req[p].grant] = Spent
    /\ \A r, s \in refresh : r.grant = s.grant => r = s
    /\ \A p \in Requests : Holds(p) => \A r \in refresh : r.grant # req[p].grant
    /\ \A p, q \in Requests :
         Holds(p) /\ Holds(q) /\ req[p].grant = req[q].grant => p = q

Until(g) == IF revokedAt[g] = Never THEN now ELSE revokedAt[g]

\* The readings of the clock, and the revocation rows.
Clocks ==
    /\ \A p \in Requests : Busy(p) => req[p].at <= now /\ now <= req[p].at + Patience
    /\ \A g \in Grants : revocation[g] # Never => revokedAt[g] # Never /\ revokedAt[g] <= revocation[g]
    /\ \A g \in Grants : revokedAt[g] <= now
    /\ \A g \in Grants : revokedAt[g] # Never => code[g] # Never
    /\ \A g \in Grants : revokedAt[g] # Never /\ revocation[g] = Never
                           => revokedAt[g] + Retention < now

\* How long after Until anything of a grant still counts.
Stored ==
    /\ \A g \in Grants : code[g] \in Time => code[g] <= Until(g) + CodeTtl
    /\ \A r \in refresh : r.expires <= Until(r.grant) + CodeTtl + RefreshTtl
    /\ \A a \in access : a.expires <= Until(a.grant) + CodeTtl + AccessTtl
    /\ \A g \in Grants : served[g] <= Until(g)

Limit(step) ==
    CodeTtl + (IF step = "check" THEN RefreshTtl ELSE IF step = "call" THEN AccessTtl ELSE 0)

Held ==
    \A p \in Requests :
      /\ req[p].step = "redeem" => req[p].token = NoToken
      /\ req[p].step \in {"rotate", "check"} => req[p].token # NoToken
      /\ req[p].step \in {"check", "issue", "call"}
           => req[p].at < Until(req[p].grant) + Limit(req[p].step)
      /\ req[p].step = "issue" /\ req[p].token # NoToken
           => req[p].at <= Until(req[p].grant)

Bounds == Clocks /\ Stored /\ Held

IInv == TypeOK /\ Lineage /\ Bounds

-----------------------------------------------------------------------------
(* Type correctness *)

LEMMA InitTypeOK == Init => TypeOK
BY OAuthAssumption DEF Init, TypeOK, Moment, Time, Never, Idle

\* Every step keeps every variable within the values the schema admits.
LEMMA NextTypeOK == TypeOK /\ [Next]_vars => TypeOK'
<1> SUFFICES ASSUME TypeOK, [Next]_vars PROVE TypeOK'
    OBVIOUS
<1> USE OAuthAssumption DEF TypeOK, Moment, Time, Never, Spent, Token, Signed,
                            Request, NoToken, history, tokens, Ends
<1>1. CASE UNCHANGED vars
    BY <1>1 DEF vars
<1>2. CASE Tick
    BY <1>2 DEF Tick
<1>3. ASSUME NEW g \in Grants, Authorize(g) PROVE TypeOK'
    BY <1>3 DEF Authorize
<1>4. ASSUME NEW g \in Grants, Revoke(g) PROVE TypeOK'
    BY <1>4 DEF Revoke
<1>5. ASSUME NEW p \in Requests, NEW g \in Grants, AskForCode(p, g) PROVE TypeOK'
    BY <1>5 DEF AskForCode, Starts
<1>6. ASSUME NEW p \in Requests, NEW t \in 0..(minted - 1), AskForRotation(p, t) PROVE TypeOK'
    BY <1>6 DEF AskForRotation, Starts
<1>7. ASSUME NEW p \in Requests, TakeCode(p) PROVE TypeOK'
    BY <1>7 DEF TakeCode, TakesCode, Moves, Idle
<1>8. ASSUME NEW p \in Requests, TakeRefresh(p) PROVE TypeOK'
    BY <1>8 DEF TakeRefresh, TakesRefresh, Moves, Idle
<1>9. ASSUME NEW p \in Requests, Refuse(p) PROVE TypeOK'
    BY <1>9 DEF Refuse
<1>10. ASSUME NEW p \in Requests, CheckRevocation(p) PROVE TypeOK'
    BY <1>10 DEF CheckRevocation, Moves, Idle
<1>11. ASSUME NEW p \in Requests, IssueTokens(p) PROVE TypeOK'
    BY <1>11 DEF IssueTokens, Idle
<1>12. ASSUME NEW p \in Requests, Call(p) PROVE TypeOK'
    BY <1>12 DEF Call, Starts
<1>13. ASSUME NEW p \in Requests, Serve(p) PROVE TypeOK'
    BY <1>13 DEF Serve, Idle
<1>14. ASSUME NEW p \in Requests, Abandon(p) PROVE TypeOK'
    BY <1>14 DEF Abandon
<1>15. ASSUME NEW read \in 0..now, Sweep(read) PROVE TypeOK'
    BY <1>15 DEF Sweep, SweepCodes, SweepRefresh, SweepRevocations
<1> QED
    BY <1>1, <1>2, <1>3, <1>4, <1>5, <1>6, <1>7, <1>8, <1>9, <1>10, <1>11,
       <1>12, <1>13, <1>14, <1>15 DEF Next, Handles

-----------------------------------------------------------------------------
(* One line of descent *)

LEMMA InitLineage == Init => Lineage
BY DEF Init, Lineage, Holds, Idle

\* A step that stores no token and takes none leaves the lineage alone.
LEMMA NextLineage == TypeOK /\ Lineage /\ [Next]_vars => Lineage'
<1> SUFFICES ASSUME TypeOK, Lineage, [Next]_vars PROVE Lineage'
    OBVIOUS
<1> USE OAuthAssumption DEF TypeOK, Lineage, Holds, Moment, Time, Never, Spent, Token,
                            Request, NoToken, history, tokens, Ends, Idle
<1>1. CASE UNCHANGED vars
    BY <1>1 DEF vars
<1>2. CASE Tick
    BY <1>2 DEF Tick
<1>3. ASSUME NEW g \in Grants, Authorize(g) PROVE Lineage'
    BY <1>3 DEF Authorize
<1>4. ASSUME NEW g \in Grants, Revoke(g) PROVE Lineage'
    BY <1>4 DEF Revoke
<1>5. ASSUME NEW p \in Requests, NEW g \in Grants, AskForCode(p, g) PROVE Lineage'
    BY <1>5 DEF AskForCode, Starts, Busy
<1>6. ASSUME NEW p \in Requests, NEW t \in 0..(minted - 1), AskForRotation(p, t) PROVE Lineage'
    BY <1>6 DEF AskForRotation, Starts, Busy
<1>7. ASSUME NEW p \in Requests, TakeCode(p) PROVE Lineage'
    BY <1>7 DEF TakeCode, TakesCode, Moves
<1>8. ASSUME NEW p \in Requests, TakeRefresh(p) PROVE Lineage'
    BY <1>8 DEF TakeRefresh, TakesRefresh, Moves
<1>9. ASSUME NEW p \in Requests, Refuse(p) PROVE Lineage'
    BY <1>9 DEF Refuse
<1>10. ASSUME NEW p \in Requests, CheckRevocation(p) PROVE Lineage'
    BY <1>10 DEF CheckRevocation, Moves
<1>11. ASSUME NEW p \in Requests, IssueTokens(p) PROVE Lineage'
    BY <1>11 DEF IssueTokens
<1>12. ASSUME NEW p \in Requests, Call(p) PROVE Lineage'
    BY <1>12 DEF Call, Starts, Busy, Signed
<1>13. ASSUME NEW p \in Requests, Serve(p) PROVE Lineage'
    BY <1>13 DEF Serve
<1>14. ASSUME NEW p \in Requests, Abandon(p) PROVE Lineage'
    BY <1>14 DEF Abandon
<1>15. ASSUME NEW read \in 0..now, Sweep(read) PROVE Lineage'
    BY <1>15 DEF Sweep, SweepCodes, SweepRefresh, SweepRevocations
<1> QED
    BY <1>1, <1>2, <1>3, <1>4, <1>5, <1>6, <1>7, <1>8, <1>9, <1>10, <1>11,
       <1>12, <1>13, <1>14, <1>15 DEF Next, Handles

LEMMA LineageIsOne == TypeOK /\ Lineage => OneLineage
<1> SUFFICES ASSUME TypeOK, Lineage, NEW g \in Grants, NEW x \in Heirs(g), NEW y \in Heirs(g)
             PROVE x = y
    BY DEF OneLineage
<1>1. \A z \in Heirs(g) :
        \/ code[g] \in Time /\ z = <<"code", g>>
        \/ \E r \in refresh : r.grant = g /\ z = <<"token", r.id>>
        \/ \E p \in Requests : Holds(p) /\ req[p].grant = g /\ z = <<"request", p>>
    BY DEF Heirs, Holds
<1> QED
    BY <1>1 DEF Lineage, Spent, Time

-----------------------------------------------------------------------------
(* Revocation *)

LEMMA InitBounds == Init => Bounds
BY OAuthAssumption DEF Init, Bounds, Clocks, Stored, Held, Busy, Until, Never, Idle, Time

LEMMA NextClocks == TypeOK /\ Clocks /\ [Next]_vars => Clocks'
<1> SUFFICES ASSUME TypeOK, Clocks, [Next]_vars PROVE Clocks'
    OBVIOUS
<1> USE OAuthAssumption DEF TypeOK, Clocks, Moment, Time, Never, Spent,
                            Request, history, tokens, Ends, Idle, Busy
<1>1. CASE UNCHANGED vars
    BY <1>1 DEF vars
<1>2. CASE Tick
    BY <1>2 DEF Tick, Retention
<1>3. ASSUME NEW g \in Grants, Authorize(g) PROVE Clocks'
    BY <1>3 DEF Authorize
<1>4. ASSUME NEW g \in Grants, Revoke(g) PROVE Clocks'
    BY <1>4 DEF Revoke, Revoked
<1>5. ASSUME NEW p \in Requests, NEW g \in Grants, AskForCode(p, g) PROVE Clocks'
    BY <1>5 DEF AskForCode, Starts
<1>6. ASSUME NEW p \in Requests, NEW t \in 0..(minted - 1), AskForRotation(p, t) PROVE Clocks'
    BY <1>6 DEF AskForRotation, Starts
<1>7. ASSUME NEW p \in Requests, TakeCode(p) PROVE Clocks'
    BY <1>7 DEF TakeCode, TakesCode, Moves
<1>8. ASSUME NEW p \in Requests, TakeRefresh(p) PROVE Clocks'
    BY <1>8 DEF TakeRefresh, TakesRefresh, Moves
<1>9. ASSUME NEW p \in Requests, Refuse(p) PROVE Clocks'
    BY <1>9 DEF Refuse
<1>10. ASSUME NEW p \in Requests, CheckRevocation(p) PROVE Clocks'
    BY <1>10 DEF CheckRevocation, Moves
<1>11. ASSUME NEW p \in Requests, IssueTokens(p) PROVE Clocks'
    BY <1>11 DEF IssueTokens
<1>12. ASSUME NEW p \in Requests, Call(p) PROVE Clocks'
    BY <1>12 DEF Call, Starts
<1>13. ASSUME NEW p \in Requests, Serve(p) PROVE Clocks'
    BY <1>13 DEF Serve
<1>14. ASSUME NEW p \in Requests, Abandon(p) PROVE Clocks'
    BY <1>14 DEF Abandon
<1>15. ASSUME NEW read \in 0..now, Sweep(read) PROVE Clocks'
    BY <1>15 DEF Sweep, SweepCodes, SweepRefresh, SweepRevocations, Retention
<1> QED
    BY <1>1, <1>2, <1>3, <1>4, <1>5, <1>6, <1>7, <1>8, <1>9, <1>10, <1>11,
       <1>12, <1>13, <1>14, <1>15 DEF Next, Handles

\* A check that finds no revocation of a revoked grant came after the sweep,
\* too late for any request that may live then.
LEMMA SweptIsLate ==
    ASSUME TypeOK, Clocks, NEW p \in Requests, Busy(p), ~Revoked(req[p].grant),
           revokedAt[req[p].grant] # Never
    PROVE  req[p].at >= Until(req[p].grant) + CodeTtl + RefreshTtl
BY OAuthAssumption DEF TypeOK, Clocks, Busy, Revoked, Until, Retention, Request, Idle,
                       Moment, Time, Never

\* No step moves Until back.
LEMMA UntilAdvances ==
    ASSUME TypeOK, Clocks, [Next]_vars, NEW g \in Grants
    PROVE  Until(g) \in Int /\ Until(g)' \in Int /\ Until(g) <= Until(g)'
<1> USE DEF TypeOK, Moment, Time, Never, Clocks, Until, history
<1>1. /\ now' \in Int /\ now <= now'
      /\ revokedAt'[g] = revokedAt[g] \/ (revokedAt[g] = Never /\ revokedAt'[g] = now)
    BY DEF Next, Handles, Sweep, vars, Tick, Authorize, Revoke, AskForCode, AskForRotation,
           TakeCode, TakeRefresh, Refuse, CheckRevocation, IssueTokens, Call, Serve,
           Abandon, SweepCodes, SweepRefresh, SweepRevocations
<1> QED
    BY <1>1

LEMMA NextStored == TypeOK /\ Bounds /\ [Next]_vars => Stored'
<1> SUFFICES ASSUME TypeOK, Clocks, Stored, Held, [Next]_vars PROVE Stored'
    BY DEF Bounds
<1>0. \A g \in Grants : Until(g) \in Int /\ Until(g)' \in Int /\ Until(g) <= Until(g)'
    BY UntilAdvances
<1> USE <1>0, OAuthAssumption DEF TypeOK, Stored, Moment, Time, Never, Spent, Token,
                            Signed, Request, history, tokens, Idle
<1>1. CASE UNCHANGED <<code, refresh, access, served>>
    BY <1>1
<1>2. ASSUME NEW g \in Grants, Authorize(g) PROVE Stored'
    <2>1. Until(g) = now
        BY <1>2 DEF Authorize, Clocks, Until
    <2> QED
        BY <1>2, <2>1 DEF Authorize
<1>3. ASSUME NEW p \in Requests, TakeCode(p) PROVE Stored'
    BY <1>3 DEF TakeCode, TakesCode
<1>4. ASSUME NEW p \in Requests, TakeRefresh(p) PROVE Stored'
    BY <1>4 DEF TakeRefresh, TakesRefresh
<1>5. ASSUME NEW p \in Requests, IssueTokens(p) PROVE Stored'
    <2>1. req[p].at < Until(req[p].grant) + CodeTtl
        BY <1>5 DEF IssueTokens, Held, Limit
    <2> QED
        BY <1>5, <2>1 DEF IssueTokens
<1>6. ASSUME NEW p \in Requests, Serve(p) PROVE Stored'
    <2>1. CASE Revoked(req[p].grant)
        BY <1>6, <2>1 DEF Serve
    <2>2. CASE ~Revoked(req[p].grant)
        <3>1. Busy(p)
            BY <1>6 DEF Serve, Busy
        <3>2. revokedAt[req[p].grant] = Never
            BY <1>6, <2>2, <3>1, SweptIsLate DEF Serve, Held, Limit
        <3>3. req[p].at <= Until(req[p].grant)
            BY <1>6, <3>1, <3>2 DEF Serve, Clocks, Until
        <3> QED
            BY <1>6, <2>2, <3>3 DEF Serve
    <2> QED
        BY <2>1, <2>2
<1>7. ASSUME NEW read \in 0..now, Sweep(read) PROVE Stored'
    BY <1>7 DEF Sweep, SweepCodes, SweepRefresh, SweepRevocations
<1> QED
    BY <1>1, <1>2, <1>3, <1>4, <1>5, <1>6, <1>7
       DEF Next, Handles, vars, Tick, Revoke, AskForCode, AskForRotation,
           Refuse, CheckRevocation, Call, Abandon

LEMMA NextHeld == TypeOK /\ Bounds /\ [Next]_vars => Held'
<1> SUFFICES ASSUME TypeOK, Clocks, Stored, Held, [Next]_vars PROVE Held'
    BY DEF Bounds
<1>0. \A g \in Grants : Until(g) \in Int /\ Until(g)' \in Int /\ Until(g) <= Until(g)'
    BY UntilAdvances
<1> USE <1>0, OAuthAssumption DEF TypeOK, Held, Limit, Moment, Time, Never, Spent, Token,
                            Signed, Request, NoToken, history, tokens, Idle, Ends
<1>1. CASE UNCHANGED req
    BY <1>1
<1>2. ASSUME NEW p \in Requests, Ends(p) PROVE Held'
    BY <1>2
<1>3. ASSUME NEW p \in Requests, NEW g \in Grants, AskForCode(p, g) PROVE Held'
    BY <1>3 DEF AskForCode, Starts
<1>4. ASSUME NEW p \in Requests, NEW t \in 0..(minted - 1), AskForRotation(p, t) PROVE Held'
    BY <1>4 DEF AskForRotation, Starts
<1>5. ASSUME NEW p \in Requests, TakeCode(p) PROVE Held'
    <2>1. CASE Ends(p)
        BY <2>1, <1>2
    <2>2. CASE code[req[p].grant] > req[p].at /\ Moves(p, "issue", req[p].grant)
        BY <1>5, <2>2 DEF TakeCode, Moves, Stored
    <2> QED
        BY <1>5, <2>1, <2>2 DEF TakeCode
<1>6. ASSUME NEW p \in Requests, TakeRefresh(p) PROVE Held'
    <2>1. CASE Ends(p)
        BY <2>1, <1>2
    <2>2. ASSUME NEW r \in refresh, r.expires > req[p].at, Moves(p, "check", r.grant)
          PROVE  Held'
        BY <1>6, <2>2 DEF TakeRefresh, Moves, Stored
    <2> QED
        BY <1>6, <2>1, <2>2 DEF TakeRefresh
<1>7. ASSUME NEW p \in Requests, CheckRevocation(p) PROVE Held'
    <2>1. CASE Revoked(req[p].grant)
        BY <1>7, <2>1, <1>2 DEF CheckRevocation
    <2>2. CASE ~Revoked(req[p].grant)
        <3>1. Busy(p)
            BY <1>7 DEF CheckRevocation, Busy
        <3>2. revokedAt[req[p].grant] = Never
            BY <1>7, <2>2, <3>1, SweptIsLate DEF CheckRevocation
        <3>3. req[p].at <= Until(req[p].grant)
            BY <1>7, <3>1, <3>2 DEF CheckRevocation, Clocks, Until
        <3> QED
            BY <1>7, <2>2, <3>3 DEF CheckRevocation, Moves
    <2> QED
        BY <2>1, <2>2
<1>8. ASSUME NEW p \in Requests, Call(p) PROVE Held'
    BY <1>8 DEF Call, Starts, Stored
<1> QED
    BY <1>1, <1>2, <1>3, <1>4, <1>5, <1>6, <1>7, <1>8
       DEF Next, Handles, vars, Tick, Authorize, Revoke, Refuse, IssueTokens, Serve,
           Abandon, Sweep, SweepCodes, SweepRefresh, SweepRevocations

-----------------------------------------------------------------------------
(* The theorems *)

LEMMA Inductive == Spec => []IInv
<1>1. Init => IInv
    BY InitTypeOK, InitLineage, InitBounds DEF IInv
<1>2. IInv /\ [Next]_vars => IInv'
    BY NextTypeOK, NextLineage, NextClocks, NextStored, NextHeld DEF IInv, Bounds
<1> QED
    BY <1>1, <1>2, PTL DEF Spec

\* The store only ever holds rows, and a request only ever holds a record, of
\* the types the schema and the handlers declare.
THEOREM TypeCorrect == Spec => []TypeOK
<1>1. IInv => TypeOK
    BY DEF IInv
<1> QED
    BY <1>1, Inductive, PTL

\* However many requests race for a code or a refresh token, a consent has at
\* most one live line of descent (takeCode, takeRefresh, issueTokens).
THEOREM SingleUse == Spec => []OneLineage
<1>1. IInv => OneLineage
    BY LineageIsOne DEF IInv
<1> QED
    BY <1>1, Inductive, PTL

\* REVOCATION_RETENTION_SECONDS is long enough for every rotation, whatever
\* the TTLs, as long as a code's life and a request's together are no longer
\* than an access token's.
THEOREM RetentionCoversRenewal == Spec => []RevokedIsNotRenewed
<1>1. IInv => RevokedIsNotRenewed
    BY DEF IInv, TypeOK, Bounds, Held, RevokedIsNotRenewed, Until, Request, Idle
<1> QED
    BY <1>1, Inductive, PTL

\* and for every call that begins after the revocation.
THEOREM RetentionCoversCalls == Spec => []RevokedIsNotServed
<1>1. IInv => RevokedIsNotServed
    BY DEF IInv, Bounds, Stored, RevokedIsNotServed, Until
<1> QED
    BY <1>1, Inductive, PTL
=============================================================================
