---------------------------- MODULE OAuthGrants ----------------------------
(***************************************************************************)
(* The life of an OAuth grant: the authorization code, its redemption,     *)
(* refresh rotation, revocation and the sweep of expired state             *)
(* (src/mcp/oauth.ts and src/mcp/server.ts over src/control/oauth-pg.ts),  *)
(* and the check every tool call makes of it (src/mcp/dispatch.ts).        *)
(*                                                                         *)
(* A request reads the clock once, when it starts, and decides every       *)
(* expiry against that reading; each statement of the store is a step of   *)
(* its own, and a request may hang or die between any two.  Tokens are     *)
(* opaque: a client may present any code or refresh token that was ever    *)
(* minted, however often, which is what a retry after a lost answer does.  *)
(***************************************************************************)
EXTENDS Integers

CONSTANTS
    Grants,     \* grant ids a mint may produce
    Requests,   \* requests in flight at once
    CodeTtl,    \* DEFAULT_CODE_TTL_SECONDS
    AccessTtl,  \* DEFAULT_ACCESS_TOKEN_TTL_SECONDS
    RefreshTtl, \* DEFAULT_REFRESH_TOKEN_TTL_SECONDS
    Patience,   \* how long a request lives at most: its connection, or its process
    Horizon,    \* bound: the clock
    MaxTokens   \* bound: refresh tokens minted

\* 60 s, 3600 s and 30 days.  That a code's life and a request's fit into an
\* access token's is stated nowhere; the retention of a revocation needs it.
ASSUME OAuthAssumption ==
    /\ {CodeTtl, AccessTtl, RefreshTtl, Patience, Horizon, MaxTokens} \subseteq Nat
    /\ Grants # {}
    /\ CodeTtl > 0
    /\ CodeTtl + Patience <= AccessTtl
    /\ AccessTtl <= RefreshTtl

VARIABLES
    now,        \* the clock
    code,       \* control.oauth_code: the expiry of the grant's code
    refresh,    \* control.oauth_refresh
    access,     \* access tokens signed: self-contained, held by nobody here
    revocation, \* control.oauth_revocation: revoked_at of the grant
    minted,     \* refresh tokens minted so far
    req,        \* the requests in flight
    revokedAt,  \* history: when the grant was first revoked
    served      \* history: when the last call served for the grant began

vars == <<now, code, refresh, access, revocation, minted, req, revokedAt, served>>
tokens == <<refresh, access, minted>>
history == <<revokedAt, served>>

Time == Nat
Never == -1
Spent == -2
Moment == Time \cup {Never}

NoToken == -1
Token == [id: Nat, grant: Grants, expires: Time]
Signed == [grant: Grants, expires: Time]

\* What a request holds: the reading of the clock, and the record it took.
Idle == [step |-> "idle"]
Request == [step: {"redeem", "rotate", "check", "issue", "call"},
            grant: Grants, token: Nat \cup {NoToken}, at: Time]

Init ==
    /\ now = 0
    /\ code = [g \in Grants |-> Never]
    /\ refresh = {}
    /\ access = {}
    /\ revocation = [g \in Grants |-> Never]
    /\ minted = 0
    /\ req = [p \in Requests |-> Idle]
    /\ revokedAt = revocation
    /\ served = revocation

-----------------------------------------------------------------------------
(* Time, and requests that do not come back. *)

Busy(p) == req[p] # Idle

Tick ==
    /\ now < Horizon
    /\ \A p \in Requests : Busy(p) => now < req[p].at + Patience
    /\ now' = now + 1
    /\ UNCHANGED <<code, tokens, revocation, req, history>>

Starts(p, step, g, t) ==
    /\ ~Busy(p)
    /\ req' = [req EXCEPT ![p] = [step |-> step, grant |-> g, token |-> t, at |-> now]]

\* Slip: the clock is read again for every expiry
MovesUndated(p, step, g) ==
    req' = [req EXCEPT ![p] = [step |-> step, grant |-> g, token |-> @.token]]

Moves(p, step, g) ==
    req' = [req EXCEPT ![p] = [step |-> step, grant |-> g, token |-> @.token, at |-> @.at]]

Ends(p) == req' = [req EXCEPT ![p] = Idle]

\* The process dies, or a store or the secret store throws: nothing is undone.
Abandon(p) ==
    /\ Busy(p)
    /\ Ends(p)
    /\ UNCHANGED <<now, code, tokens, revocation, history>>

-----------------------------------------------------------------------------
(* The authorization endpoint. *)

\* The clock is read before the client is looked up and the code is banked.
Authorize(g) ==
    /\ code[g] = Never
    /\ \E read \in 0..now :
        /\ now <= read + Patience
        /\ code' = [code EXCEPT ![g] = read + CodeTtl]
    /\ UNCHANGED <<now, tokens, revocation, req, history>>

-----------------------------------------------------------------------------
(* The token endpoint. *)

AskForCode(p, g) ==
    /\ code[g] # Never
    /\ Starts(p, "redeem", g, NoToken)
    /\ UNCHANGED <<now, code, tokens, revocation, history>>

\* The grant is not known yet: any stands for none.
AskForRotation(p, t) ==
    /\ Starts(p, "rotate", CHOOSE g \in Grants : TRUE, t)
    /\ UNCHANGED <<now, code, tokens, revocation, history>>

\* DELETE FROM control.oauth_code ... RETURNING: whether or not it is redeemed
TakesCode(g) == code' = [code EXCEPT ![g] = Spent]

\* The code is not redeemed when it has expired, or the client, the redirect or
\* the verifier is not the one it was issued for.
TakeCode(p) ==
    LET g == req[p].grant IN
    /\ req[p].step = "redeem"
    /\ code[g] \in Time
    /\ TakesCode(g)
    /\ \/ code[g] > req[p].at /\ Moves(p, "issue", g)
       \/ Ends(p)
    /\ UNCHANGED <<now, tokens, revocation, history>>

\* Slip: the old token stays until its successor is stored
LeavesRefresh(r) == refresh' = refresh

\* DELETE FROM control.oauth_refresh ... RETURNING
TakesRefresh(r) == refresh' = refresh \ {r}

TakeRefresh(p) ==
    /\ req[p].step = "rotate"
    /\ \E r \in refresh :
        /\ r.id = req[p].token
        /\ TakesRefresh(r)
        /\ \/ r.expires > req[p].at /\ Moves(p, "check", r.grant)
           \/ Ends(p)
    /\ UNCHANGED <<now, code, access, revocation, minted, history>>

\* The row is gone: used already, swept, or never stored.
Refuse(p) ==
    /\ \/ req[p].step = "redeem" /\ code[req[p].grant] \notin Time
       \/ req[p].step = "rotate" /\ \A r \in refresh : r.id # req[p].token
    /\ Ends(p)
    /\ UNCHANGED <<now, code, tokens, revocation, history>>

Revoked(g) == revocation[g] # Never

CheckRevocation(p) ==
    /\ req[p].step = "check"
    /\ IF Revoked(req[p].grant) THEN Ends(p) ELSE Moves(p, "issue", req[p].grant)
    /\ UNCHANGED <<now, code, tokens, revocation, history>>

\* issueTokens: both expiries count from the reading the request began with.
IssueTokens(p) ==
    LET g == req[p].grant IN
    /\ req[p].step = "issue"
    /\ minted < MaxTokens
    /\ minted' = minted + 1
    /\ refresh' = refresh \cup
         {[id |-> minted, grant |-> g, expires |-> req[p].at + RefreshTtl]}
    /\ access' = access \cup {[grant |-> g, expires |-> req[p].at + AccessTtl]}
    /\ Ends(p)
    /\ UNCHANGED <<now, code, revocation, history>>

-----------------------------------------------------------------------------
(* Revocation, and the sweep of expired rows. *)

\* ON CONFLICT DO NOTHING.  Nobody can name a grant that has no code yet.
Revoke(g) ==
    /\ code[g] # Never
    /\ ~Revoked(g)
    /\ revocation' = [revocation EXCEPT ![g] = now]
    /\ revokedAt' = [revokedAt EXCEPT ![g] = IF @ = Never THEN now ELSE @]
    /\ UNCHANGED <<now, code, tokens, req, served>>

\* Slip: the retention of the refresh token alone
ShortRetention == RefreshTtl

\* REVOCATION_RETENTION_SECONDS
Retention == RefreshTtl + AccessTtl

\* One sweep is four statements with the clock of the tick that began it; a
\* sweep that dies, or is overtaken by the next, leaves any of them out.
SweepCodes(read) ==
    /\ code' = [g \in Grants |->
                  IF code[g] \in Time /\ code[g] < read THEN Spent ELSE code[g]]
    /\ UNCHANGED <<now, tokens, revocation, req, history>>

SweepRefresh(read) ==
    /\ refresh' = {r \in refresh : r.expires >= read}
    /\ UNCHANGED <<now, code, access, revocation, minted, req, history>>

SweepRevocations(read) ==
    /\ revocation' = [g \in Grants |->
                        IF revocation[g] < read - Retention THEN Never ELSE revocation[g]]
    /\ UNCHANGED <<now, code, tokens, req, history>>

-----------------------------------------------------------------------------
(* A tool call, or a resource read: authenticate. *)

\* The clock is read first; the token's own expiry is decided against it.
Call(p) ==
    /\ \E a \in access : a.expires > now /\ Starts(p, "call", a.grant, NoToken)
    /\ UNCHANGED <<now, code, tokens, revocation, history>>

Serve(p) ==
    LET g == req[p].grant IN
    /\ req[p].step = "call"
    /\ served' = IF Revoked(g) THEN served ELSE [served EXCEPT ![g] = req[p].at]
    /\ Ends(p)
    /\ UNCHANGED <<now, code, tokens, revocation, revokedAt>>

-----------------------------------------------------------------------------
Handles(p) ==
    \/ \E g \in Grants : AskForCode(p, g)
    \/ \E t \in 0..(minted - 1) : AskForRotation(p, t)
    \/ TakeCode(p)
    \/ TakeRefresh(p)
    \/ Refuse(p)
    \/ CheckRevocation(p)
    \/ IssueTokens(p)
    \/ Call(p)
    \/ Serve(p)
    \/ Abandon(p)

Sweep(read) == SweepCodes(read) \/ SweepRefresh(read) \/ SweepRevocations(read)

Next ==
    \/ Tick
    \/ \E g \in Grants : Authorize(g) \/ Revoke(g)
    \/ \E p \in Requests : Handles(p)
    \/ \E read \in 0..now : Sweep(read)

Spec == Init /\ [][Next]_vars

-----------------------------------------------------------------------------
(* Properties *)

\* Every variable keeps to the values the schema admits.
TypeOK ==
    /\ now \in Time
    /\ code \in [Grants -> Moment \cup {Spent}]
    /\ refresh \subseteq Token
    /\ access \subseteq Signed
    /\ revocation \in [Grants -> Moment]
    /\ minted \in Nat
    /\ req \in [Requests -> Request \cup {Idle}]
    /\ revokedAt \in [Grants -> Moment]
    /\ served \in [Grants -> Moment]

\* What can still become the next refresh token of a grant.
Heirs(g) ==
    {<<"code", g>> : c \in {code[g]} \cap Time}
      \cup {<<"token", r.id>> : r \in {x \in refresh : x.grant = g}}
      \cup {<<"request", p>> : p \in {x \in Requests :
              req[x].step \in {"check", "issue"} /\ req[x].grant = g}}

\* A consent has one line of descent: of its code, its refresh token and the
\* requests that have taken either, at most one exists, whatever is retried,
\* raced or swept (the DELETE ... RETURNING of takeCode and takeRefresh).
OneLineage ==
    \A g \in Grants : \A x, y \in Heirs(g) : x = y

\* A rotation that goes on to issue began before its grant was revoked: the row
\* its check reads is swept only when no refresh token of the grant, nor any
\* request holding one, is left (REVOCATION_RETENTION_SECONDS).
RevokedIsNotRenewed ==
    \A p \in Requests :
        req[p].step = "issue" /\ req[p].token # NoToken
          => revokedAt[req[p].grant] = Never \/ req[p].at <= revokedAt[req[p].grant]

\* No call that began after its grant was revoked is served, also once the
\* revocation itself has been swept.
RevokedIsNotServed ==
    \A g \in Grants : revokedAt[g] # Never => served[g] <= revokedAt[g]
=============================================================================
