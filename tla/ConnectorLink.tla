--------------------------- MODULE ConnectorLink ---------------------------
(***************************************************************************)
(* How an authorization at the vendor becomes a connection, and how a       *)
(* disconnect ends one: a row of control.connector_link                     *)
(* (control/connector-pg.ts, connector-store.sql), the reconciliation       *)
(* passes of both fleets (ingest/pipedream/reconcile.ts), the web           *)
(* application's connect and disconnect (web/app.ts) and the writes of the  *)
(* pulls that poll the source (ConnectorPull has what they do besides).     *)
(*                                                                          *)
(* One tenant and one source. The accounts attached at the vendor under     *)
(* that source's external user are numbered in the order of createdAt; the  *)
(* refusal of a listing that carries no dates is among those of Refused.    *)
(***************************************************************************)
EXTENDS Integers, FiniteSets

CONSTANTS
  Passes,       \* reconciliation passes that may run at one time
  Pulls,        \* pulls that may run at one time
  Requests,     \* connect and disconnect requests that may be in flight
  MaxAccounts,  \* bound: accounts ever attached
  MaxFence      \* bound: disconnects

ASSUME LinkAssumption == MaxAccounts \in Nat /\ MaxFence \in Nat

VARIABLES
  link,      \* the row: connected to an account, the intent, the fence
  accounts,  \* what the vendor has attached
  claim,     \* whether a connect link that can still attach is outstanding
  pass,      \* what each reconciliation pass holds
  pull,      \* what each pull read
  web,       \* where each request is
  hasty      \* history: a connect was recorded while a disconnect had still to tell the vendor

vars == <<link, accounts, claim, pass, pull, web, hasty>>

Accounts == 1 .. MaxAccounts
Fences == 0 .. MaxFence
NoAccount == 0

Absent(fence) == [conn |-> FALSE, account |-> NoAccount, pending |-> "none", fence |-> fence]
NoPass == [at |-> "idle", fence |-> 0, account |-> NoAccount]
NoPull == [at |-> "idle", fence |-> 0, account |-> NoAccount]

Init ==
  /\ link = Absent(0)
  /\ accounts = [a \in Accounts |-> "unused"]
  /\ claim = FALSE
  /\ pass = [r \in Passes |-> NoPass]
  /\ pull = [p \in Pulls |-> NoPull]
  /\ web = [w \in Requests |-> "idle"]
  /\ hasty = FALSE

-----------------------------------------------------------------------------
(* The user, at the vendor: an account is attached through a link, or its   *)
(* grant is withdrawn at the provider and the vendor marks it dead.         *)
Attach(a) ==
  /\ claim /\ accounts[a] = "unused" /\ \A b \in Accounts : b < a => accounts[b] # "unused"
  /\ accounts' = [accounts EXCEPT ![a] = "live"]
  /\ UNCHANGED <<link, claim, pass, pull, web, hasty>>

Withdraw(a) ==
  /\ accounts[a] = "live"
  /\ accounts' = [accounts EXCEPT ![a] = "dead"]
  /\ UNCHANGED <<link, claim, pass, pull, web, hasty>>

ClaimLapses ==
  /\ claim
  /\ claim' = FALSE
  /\ UNCHANGED <<link, accounts, pass, pull, web, hasty>>

(* The intent is older than PENDING_WINDOW_MS.                              *)
IntentLapses ==
  /\ link.pending = "fresh"
  /\ link' = [link EXCEPT !.pending = "lapsed"]
  /\ UNCHANGED <<accounts, claim, pass, pull, web, hasty>>

-----------------------------------------------------------------------------
(* Connect: the link is minted, then the intent is recorded, and only then  *)
(* is the link handed over; a connected row is not disturbed.               *)
Mint(w) ==
  /\ web[w] = "idle"
  /\ web' = [web EXCEPT ![w] = "minted"]
  /\ UNCHANGED <<link, accounts, claim, pass, pull, hasty>>

MarkConnectPending(w) ==
  /\ web[w] = "minted"
  /\ link' = IF link.conn THEN link ELSE [link EXCEPT !.pending = "fresh"]
  /\ claim' = TRUE
  /\ web' = [web EXCEPT ![w] = "idle"]
  /\ hasty' = (hasty \/ \E d \in Requests : web[d] = "deleting")
  /\ UNCHANGED <<accounts, pass, pull>>

(* Disconnect: the row first, then the vendor.                              *)
FenceConnectorLink(w) ==
  /\ web[w] = "idle" /\ link.fence < MaxFence
  /\ link' = Absent(link.fence + 1)
  /\ web' = [web EXCEPT ![w] = "deleting"]
  /\ UNCHANGED <<accounts, claim, pass, pull, hasty>>

DeleteExternalUser(w) ==
  /\ web[w] = "deleting"
  /\ accounts' = [a \in Accounts |-> IF accounts[a] = "unused" THEN "unused" ELSE "gone"]
  /\ web' = [web EXCEPT ![w] = "idle"]
  /\ UNCHANGED <<link, claim, pass, pull, hasty>>

(* The vendor refuses, or the request dies between its steps.               *)
RequestFails(w) ==
  /\ web[w] # "idle"
  /\ web' = [web EXCEPT ![w] = "idle"]
  /\ UNCHANGED <<link, accounts, claim, pass, pull, hasty>>

-----------------------------------------------------------------------------
(* A reconciliation pass: the pending row with its fence, the vendor's      *)
(* answer, and a write conditioned on the fence that was read.              *)
ReadPending(r) ==
  /\ pass[r].at = "idle" /\ ~link.conn /\ link.pending = "fresh"
  /\ pass' = [pass EXCEPT ![r] = [at |-> "listing", fence |-> link.fence, account |-> NoAccount]]
  /\ UNCHANGED <<link, accounts, claim, pull, web, hasty>>

Candidates == {a \in Accounts : accounts[a] = "live"}

(* mutant of ChooseAccount: two live accounts are never told apart          *)
ChooseOnlyAccount(a) == Candidates = {a}

ChooseAccount(a) == a \in Candidates /\ \A b \in Candidates : b <= a

ListAccounts(r) ==
  /\ pass[r].at = "listing"
  /\ \E a \in Accounts :
       /\ ChooseAccount(a)
       /\ pass' = [pass EXCEPT ![r] = [at |-> "adopting", fence |-> pass[r].fence, account |-> a]]
  /\ UNCHANGED <<link, accounts, claim, pull, web, hasty>>

(* The tier, an empty or undated listing, a vendor error; or the process    *)
(* dies with the answer in hand.                                            *)
Refused(r) ==
  /\ pass[r].at # "idle"
  /\ pass' = [pass EXCEPT ![r] = NoPass]
  /\ UNCHANGED <<link, accounts, claim, pull, web, hasty>>

(* mutant of Adopts: create-only, without the fence                         *)
AdoptsUnfenced(r) == ~link.conn

Adopts(r) == ~link.conn /\ link.fence = pass[r].fence

(* mutant of Connected: the intent is left standing                         *)
ConnectedStillPending(account, fence) ==
  [conn |-> TRUE, account |-> account, pending |-> link.pending, fence |-> fence]

Connected(account, fence) ==
  [conn |-> TRUE, account |-> account, pending |-> "none", fence |-> fence]

Adopt(r) ==
  /\ pass[r].at = "adopting"
  /\ link' = IF Adopts(r) THEN Connected(pass[r].account, link.fence) ELSE link
  /\ pass' = [pass EXCEPT ![r] = NoPass]
  /\ UNCHANGED <<accounts, claim, pull, web, hasty>>

-----------------------------------------------------------------------------
(* A pull reads the state and writes it back whole, account and all.        *)
Read(p) ==
  /\ pull[p].at = "idle" /\ link.conn
  /\ pull' = [pull EXCEPT ![p] = [at |-> "pulling", fence |-> link.fence, account |-> link.account]]
  /\ UNCHANGED <<link, accounts, claim, pass, web, hasty>>

(* mutant of Lands: "state IS NOT NULL" alone                               *)
LandsOnAny(p) == link.conn

Lands(p) == link.conn /\ link.fence = pull[p].fence

Write(p) ==
  /\ pull[p].at = "pulling"
  /\ link' = IF Lands(p) THEN Connected(pull[p].account, link.fence) ELSE link
  /\ pull' = [pull EXCEPT ![p] = NoPull]
  /\ UNCHANGED <<accounts, claim, pass, web, hasty>>

PullDies(p) ==
  /\ pull[p].at = "pulling"
  /\ pull' = [pull EXCEPT ![p] = NoPull]
  /\ UNCHANGED <<link, accounts, claim, pass, web, hasty>>

-----------------------------------------------------------------------------
AtVendor == ClaimLapses \/ \E a \in Accounts : Attach(a) \/ Withdraw(a)
Request(w) ==
  Mint(w) \/ MarkConnectPending(w) \/ FenceConnectorLink(w) \/ DeleteExternalUser(w) \/ RequestFails(w)
Reconcile(r) == ReadPending(r) \/ ListAccounts(r) \/ Refused(r) \/ Adopt(r)
Poll(p) == Read(p) \/ Write(p) \/ PullDies(p)

Next ==
  \/ AtVendor \/ IntentLapses
  \/ \E w \in Requests : Request(w)
  \/ \E r \in Passes : Reconcile(r)
  \/ \E p \in Pulls : Poll(p)

Spec == Init /\ [][Next]_vars

(* Ticks keep coming, the vendor answers some of them, and some pass that   *)
(* was answered lives to write.                                             *)
Fairness ==
  \A r \in Passes : WF_vars(ReadPending(r)) /\ SF_vars(ListAccounts(r)) /\ SF_vars(Adopt(r))
LiveSpec == Spec /\ Fairness

-----------------------------------------------------------------------------
(* The type invariant, with the two CHECKs of the row: a connected source   *)
(* is not also waiting to be connected, and one that is not holds nothing.  *)
TypeOK ==
  /\ link \in [conn : BOOLEAN, account : Accounts \cup {NoAccount},
               pending : {"none", "fresh", "lapsed"}, fence : Fences]
  /\ accounts \in [Accounts -> {"unused", "live", "dead", "gone"}]
  /\ claim \in BOOLEAN /\ hasty \in BOOLEAN
  /\ pass \in [Passes -> [at : {"idle", "listing", "adopting"}, fence : Fences,
                          account : Accounts \cup {NoAccount}]]
  /\ pull \in [Pulls -> [at : {"idle", "pulling"}, fence : Fences,
                         account : Accounts \cup {NoAccount}]]
  /\ web \in [Requests -> {"idle", "minted", "deleting"}]
  /\ IF link.conn THEN link.pending = "none" /\ link.account # NoAccount
                  ELSE link.account = NoAccount

(* A connection is to one account until a disconnect moves the fence:       *)
(* neither a second reconciliation, nor a pull that read an earlier         *)
(* connection, ever turns a live connection into another one.               *)
OneConnectionPerFence ==
  [][(link.conn /\ link'.conn) => (link'.account = link.account /\ link'.fence = link.fence)]_vars

(* "Disconnect wins every race" (reconcile.ts, ruling 3): no connection     *)
(* stands whose account a disconnect has removed at the vendor. The order   *)
(* of the two halves of a disconnect and the fence give it, but for one     *)
(* history: a connect recorded between those halves, in a second tab or     *)
(* while the vendor is slow, starts an intent at the new fence that a pass  *)
(* can satisfy with the very account the disconnect is about to remove.     *)
ConnectionHasAccount ==
  (link.conn /\ ~hasty) => accounts[link.account] \in {"live", "dead"}

(* A tab that is closed converges: an intent whose account is attached does *)
(* not stand unanswered for ever. It ends connected, or because it lapsed,  *)
(* the user took it back or the account went.                               *)
Wanted == link.pending = "fresh" /\ Candidates # {}
ClosedTabConverges == Wanted ~> ~Wanted
=============================================================================
