------------------------ MODULE ConnectorLink_proofs ------------------------
(***************************************************************************)
(* Proofs about ConnectorLink, for every set of passes, pulls and requests *)
(* and every bound.                                                        *)
(*                                                                         *)
(* Pulled and Listed say what a fence is worth to who holds one: it never  *)
(* runs ahead of the row, and while it is the row's a pull's account is    *)
(* the row's. Intact is ConnectionHasAccount made inductive: a pass with   *)
(* the row's fence holds an account that is still attached, and while a    *)
(* disconnect has the vendor to tell nobody holds the row's fence and      *)
(* nobody can come to hold it.                                             *)
(***************************************************************************)
EXTENDS ConnectorLink, TLAPS

Attached(a) == accounts[a] \in {"live", "dead"}

Pulled ==
  \A p \in Pulls : pull[p].at = "pulling" =>
    /\ pull[p].account \in Accounts /\ pull[p].fence <= link.fence
    /\ pull[p].fence = link.fence => link.conn /\ link.account = pull[p].account

Listed ==
  \A r \in Passes :
    /\ pass[r].at # "idle" => pass[r].fence <= link.fence
    /\ pass[r].at = "adopting" => pass[r].account \in Accounts

\* What holds while a disconnect stands between its two halves.
Standing ==
  (\E w \in Requests : web[w] = "deleting") =>
    /\ ~link.conn /\ link.pending = "none"
    /\ \A r \in Passes : pass[r].at # "idle" => pass[r].fence # link.fence

Intact ==
  ~hasty =>
    /\ link.conn => Attached(link.account)
    /\ \A r \in Passes :
         pass[r].at = "adopting" /\ pass[r].fence = link.fence => Attached(pass[r].account)
    /\ Standing

IInv == TypeOK /\ Pulled /\ Listed /\ Intact

-----------------------------------------------------------------------------
\* Nothing is connected, asked for or in flight.
LEMMA InitIInv == Init => IInv
<1> SUFFICES ASSUME Init PROVE IInv
    OBVIOUS
<1> USE LinkAssumption DEF Init, Absent, NoPass, NoPull, Accounts, Fences, NoAccount
<1>1. TypeOK
  <2>1. /\ link \in [conn : BOOLEAN, account : Accounts \cup {NoAccount},
                     pending : {"none", "fresh", "lapsed"}, fence : Fences]
        /\ ~link.conn /\ link.account = NoAccount
    OBVIOUS
  <2>2. pass \in [Passes -> [at : {"idle", "listing", "adopting"}, fence : Fences,
                            account : Accounts \cup {NoAccount}]]
    OBVIOUS
  <2>3. pull \in [Pulls -> [at : {"idle", "pulling"}, fence : Fences,
                           account : Accounts \cup {NoAccount}]]
    OBVIOUS
  <2>4. /\ accounts \in [Accounts -> {"unused", "live", "dead", "gone"}]
        /\ claim \in BOOLEAN /\ hasty \in BOOLEAN
        /\ web \in [Requests -> {"idle", "minted", "deleting"}]
    OBVIOUS
  <2> QED
    BY <2>1, <2>2, <2>3, <2>4 DEF TypeOK
<1>2. Pulled /\ Listed
    BY DEF Pulled, Listed
<1>3. Intact
    BY DEF Intact, Standing
<1> QED
    BY <1>1, <1>2, <1>3 DEF IInv

\* Every step keeps the row within its CHECKs and every value within its type.
LEMMA NextTypeOK == IInv /\ [Next]_vars => TypeOK'
<1> SUFFICES ASSUME IInv, [Next]_vars PROVE TypeOK'
    OBVIOUS
<1> USE LinkAssumption DEF IInv, TypeOK, Pulled, Listed, Accounts, Fences, NoAccount
<1>1. CASE UNCHANGED vars
    BY <1>1 DEF vars
<1>2. CASE ClaimLapses
    BY <1>2 DEF ClaimLapses
<1>3. CASE IntentLapses
    BY <1>3 DEF IntentLapses
<1>4. ASSUME NEW a \in Accounts, Attach(a) PROVE TypeOK'
    BY <1>4 DEF Attach
<1>5. ASSUME NEW a \in Accounts, Withdraw(a) PROVE TypeOK'
    BY <1>5 DEF Withdraw
<1>6. ASSUME NEW w \in Requests, Mint(w) PROVE TypeOK'
    BY <1>6 DEF Mint
<1>7. ASSUME NEW w \in Requests, MarkConnectPending(w) PROVE TypeOK'
    BY <1>7 DEF MarkConnectPending
<1>8. ASSUME NEW w \in Requests, FenceConnectorLink(w) PROVE TypeOK'
    BY <1>8 DEF FenceConnectorLink, Absent
<1>9. ASSUME NEW w \in Requests, DeleteExternalUser(w) PROVE TypeOK'
    BY <1>9 DEF DeleteExternalUser
<1>10. ASSUME NEW w \in Requests, RequestFails(w) PROVE TypeOK'
    BY <1>10 DEF RequestFails
<1>11. ASSUME NEW r \in Passes, ReadPending(r) PROVE TypeOK'
    BY <1>11 DEF ReadPending
<1>12. ASSUME NEW r \in Passes, ListAccounts(r) PROVE TypeOK'
    BY <1>12 DEF ListAccounts, ChooseAccount, Candidates
<1>13. ASSUME NEW r \in Passes, Refused(r) PROVE TypeOK'
    BY <1>13 DEF Refused, NoPass
<1>14. ASSUME NEW r \in Passes, Adopt(r) PROVE TypeOK'
    BY <1>14 DEF Adopt, Adopts, Connected, NoPass
<1>15. ASSUME NEW p \in Pulls, Read(p) PROVE TypeOK'
    BY <1>15 DEF Read
<1>16. ASSUME NEW p \in Pulls, Write(p) PROVE TypeOK'
    BY <1>16 DEF Write, Lands, Connected, NoPull
<1>17. ASSUME NEW p \in Pulls, PullDies(p) PROVE TypeOK'
    BY <1>17 DEF PullDies, NoPull
<1> QED
    BY <1>1, <1>2, <1>3, <1>4, <1>5, <1>6, <1>7, <1>8, <1>9,
       <1>10, <1>11, <1>12, <1>13, <1>14, <1>15, <1>16, <1>17
       DEF Next, AtVendor, Request, Reconcile, Poll

\* A pull's fence is worth what its account is.
LEMMA NextPulled == IInv /\ [Next]_vars => Pulled'
<1> SUFFICES ASSUME IInv, [Next]_vars PROVE Pulled'
    OBVIOUS
<1> USE LinkAssumption DEF IInv, TypeOK, Pulled, Listed, Accounts, Fences, NoAccount
<1>1. CASE UNCHANGED vars
    BY <1>1 DEF vars
<1>2. CASE ClaimLapses
    BY <1>2 DEF ClaimLapses
<1>3. CASE IntentLapses
    BY <1>3 DEF IntentLapses
<1>4. ASSUME NEW a \in Accounts, Attach(a) PROVE Pulled'
    BY <1>4 DEF Attach
<1>5. ASSUME NEW a \in Accounts, Withdraw(a) PROVE Pulled'
    BY <1>5 DEF Withdraw
<1>6. ASSUME NEW w \in Requests, Mint(w) PROVE Pulled'
    BY <1>6 DEF Mint
<1>7. ASSUME NEW w \in Requests, MarkConnectPending(w) PROVE Pulled'
    BY <1>7 DEF MarkConnectPending
<1>8. ASSUME NEW w \in Requests, FenceConnectorLink(w) PROVE Pulled'
    BY <1>8 DEF FenceConnectorLink, Absent
<1>9. ASSUME NEW w \in Requests, DeleteExternalUser(w) PROVE Pulled'
    BY <1>9 DEF DeleteExternalUser
<1>10. ASSUME NEW w \in Requests, RequestFails(w) PROVE Pulled'
    BY <1>10 DEF RequestFails
<1>11. ASSUME NEW r \in Passes, ReadPending(r) PROVE Pulled'
    BY <1>11 DEF ReadPending
<1>12. ASSUME NEW r \in Passes, ListAccounts(r) PROVE Pulled'
    BY <1>12 DEF ListAccounts, ChooseAccount, Candidates
<1>13. ASSUME NEW r \in Passes, Refused(r) PROVE Pulled'
    BY <1>13 DEF Refused, NoPass
<1>14. ASSUME NEW r \in Passes, Adopt(r) PROVE Pulled'
    BY <1>14 DEF Adopt, Adopts, Connected, NoPass
<1>15. ASSUME NEW p \in Pulls, Read(p) PROVE Pulled'
    BY <1>15 DEF Read
<1>16. ASSUME NEW p \in Pulls, Write(p) PROVE Pulled'
    BY <1>16 DEF Write, Lands, Connected, NoPull
<1>17. ASSUME NEW p \in Pulls, PullDies(p) PROVE Pulled'
    BY <1>17 DEF PullDies, NoPull
<1> QED
    BY <1>1, <1>2, <1>3, <1>4, <1>5, <1>6, <1>7, <1>8, <1>9,
       <1>10, <1>11, <1>12, <1>13, <1>14, <1>15, <1>16, <1>17
       DEF Next, AtVendor, Request, Reconcile, Poll

\* A pass never holds a fence the row has not reached.
LEMMA NextListed == IInv /\ [Next]_vars => Listed'
<1> SUFFICES ASSUME IInv, [Next]_vars PROVE Listed'
    OBVIOUS
<1> USE LinkAssumption DEF IInv, TypeOK, Pulled, Listed, Accounts, Fences, NoAccount
<1>1. CASE UNCHANGED vars
    BY <1>1 DEF vars
<1>2. CASE ClaimLapses
    BY <1>2 DEF ClaimLapses
<1>3. CASE IntentLapses
    BY <1>3 DEF IntentLapses
<1>4. ASSUME NEW a \in Accounts, Attach(a) PROVE Listed'
    BY <1>4 DEF Attach
<1>5. ASSUME NEW a \in Accounts, Withdraw(a) PROVE Listed'
    BY <1>5 DEF Withdraw
<1>6. ASSUME NEW w \in Requests, Mint(w) PROVE Listed'
    BY <1>6 DEF Mint
<1>7. ASSUME NEW w \in Requests, MarkConnectPending(w) PROVE Listed'
    BY <1>7 DEF MarkConnectPending
<1>8. ASSUME NEW w \in Requests, FenceConnectorLink(w) PROVE Listed'
    BY <1>8 DEF FenceConnectorLink, Absent
<1>9. ASSUME NEW w \in Requests, DeleteExternalUser(w) PROVE Listed'
    BY <1>9 DEF DeleteExternalUser
<1>10. ASSUME NEW w \in Requests, RequestFails(w) PROVE Listed'
    BY <1>10 DEF RequestFails
<1>11. ASSUME NEW r \in Passes, ReadPending(r) PROVE Listed'
    BY <1>11 DEF ReadPending
<1>12. ASSUME NEW r \in Passes, ListAccounts(r) PROVE Listed'
    BY <1>12 DEF ListAccounts, ChooseAccount, Candidates
<1>13. ASSUME NEW r \in Passes, Refused(r) PROVE Listed'
    BY <1>13 DEF Refused, NoPass
<1>14. ASSUME NEW r \in Passes, Adopt(r) PROVE Listed'
    BY <1>14 DEF Adopt, Adopts, Connected, NoPass
<1>15. ASSUME NEW p \in Pulls, Read(p) PROVE Listed'
    BY <1>15 DEF Read
<1>16. ASSUME NEW p \in Pulls, Write(p) PROVE Listed'
    BY <1>16 DEF Write, Lands, Connected, NoPull
<1>17. ASSUME NEW p \in Pulls, PullDies(p) PROVE Listed'
    BY <1>17 DEF PullDies, NoPull
<1> QED
    BY <1>1, <1>2, <1>3, <1>4, <1>5, <1>6, <1>7, <1>8, <1>9,
       <1>10, <1>11, <1>12, <1>13, <1>14, <1>15, <1>16, <1>17
       DEF Next, AtVendor, Request, Reconcile, Poll

\* No step lets a pass adopt what a disconnect is about to remove.
LEMMA NextIntact == IInv /\ [Next]_vars => Intact'
<1> SUFFICES ASSUME IInv, [Next]_vars PROVE Intact'
    OBVIOUS
<1> USE LinkAssumption DEF IInv, TypeOK, Pulled, Listed, Intact, Standing, Attached, Accounts, Fences, NoAccount
<1>1. CASE UNCHANGED vars
    BY <1>1 DEF vars
<1>2. CASE ClaimLapses
    BY <1>2 DEF ClaimLapses
<1>3. CASE IntentLapses
    BY <1>3 DEF IntentLapses
<1>4. ASSUME NEW a \in Accounts, Attach(a) PROVE Intact'
    BY <1>4 DEF Attach
<1>5. ASSUME NEW a \in Accounts, Withdraw(a) PROVE Intact'
    BY <1>5 DEF Withdraw
<1>6. ASSUME NEW w \in Requests, Mint(w) PROVE Intact'
    BY <1>6 DEF Mint
<1>7. ASSUME NEW w \in Requests, MarkConnectPending(w) PROVE Intact'
    BY <1>7 DEF MarkConnectPending
<1>8. ASSUME NEW w \in Requests, FenceConnectorLink(w) PROVE Intact'
    BY <1>8 DEF FenceConnectorLink, Absent
<1>9. ASSUME NEW w \in Requests, DeleteExternalUser(w) PROVE Intact'
    BY <1>9 DEF DeleteExternalUser
<1>10. ASSUME NEW w \in Requests, RequestFails(w) PROVE Intact'
    BY <1>10 DEF RequestFails
<1>11. ASSUME NEW r \in Passes, ReadPending(r) PROVE Intact'
    BY <1>11 DEF ReadPending
<1>12. ASSUME NEW r \in Passes, ListAccounts(r) PROVE Intact'
    BY <1>12 DEF ListAccounts, ChooseAccount, Candidates
<1>13. ASSUME NEW r \in Passes, Refused(r) PROVE Intact'
    BY <1>13 DEF Refused, NoPass
<1>14. ASSUME NEW r \in Passes, Adopt(r) PROVE Intact'
    BY <1>14 DEF Adopt, Adopts, Connected, NoPass
<1>15. ASSUME NEW p \in Pulls, Read(p) PROVE Intact'
    BY <1>15 DEF Read
<1>16. ASSUME NEW p \in Pulls, Write(p) PROVE Intact'
    BY <1>16 DEF Write, Lands, Connected, NoPull
<1>17. ASSUME NEW p \in Pulls, PullDies(p) PROVE Intact'
    BY <1>17 DEF PullDies, NoPull
<1> QED
    BY <1>1, <1>2, <1>3, <1>4, <1>5, <1>6, <1>7, <1>8, <1>9,
       <1>10, <1>11, <1>12, <1>13, <1>14, <1>15, <1>16, <1>17
       DEF Next, AtVendor, Request, Reconcile, Poll

LEMMA Inductive == IInv /\ [Next]_vars => IInv'
BY NextTypeOK, NextPulled, NextListed, NextIntact DEF IInv

-----------------------------------------------------------------------------
\* The row keeps its CHECKs, and every variable its type (connector-store.sql).
THEOREM TypeCorrect == Spec => []TypeOK
<1>1. IInv => TypeOK
    BY DEF IInv
<1> QED
    BY InitIInv, Inductive, <1>1, PTL DEF Spec

\* A connection stands on an account the vendor still has, unless a connect
\* was recorded between the two halves of a disconnect (web/app.ts).
THEOREM DisconnectWins == Spec => []ConnectionHasAccount
<1>1. IInv => ConnectionHasAccount
    BY DEF IInv, Intact, Attached, ConnectionHasAccount
<1> QED
    BY InitIInv, Inductive, <1>1, PTL DEF Spec

\* A live connection is never turned into another one, by a second pass or by
\* the late write of a pull (connector-pg.ts).
THEOREM ConnectionsStay == Spec => OneConnectionPerFence
<1>1. IInv /\ [Next]_vars =>
        [(link.conn /\ link'.conn) => (link'.account = link.account /\ link'.fence = link.fence)]_vars
  <2> SUFFICES ASSUME IInv, [Next]_vars, link.conn, link'.conn
               PROVE link'.account = link.account /\ link'.fence = link.fence
      OBVIOUS
  <2> USE LinkAssumption DEF IInv, TypeOK, Pulled, Accounts, Fences, NoAccount
  <2>1. CASE UNCHANGED vars
      BY <2>1 DEF vars
  <2>2. CASE ClaimLapses
      BY <2>2 DEF ClaimLapses
  <2>3. CASE IntentLapses
      BY <2>3 DEF IntentLapses
  <2>4. ASSUME NEW a \in Accounts, Attach(a) PROVE link'.account = link.account /\ link'.fence = link.fence
      BY <2>4 DEF Attach
  <2>5. ASSUME NEW a \in Accounts, Withdraw(a) PROVE link'.account = link.account /\ link'.fence = link.fence
      BY <2>5 DEF Withdraw
  <2>6. ASSUME NEW w \in Requests, Mint(w) PROVE link'.account = link.account /\ link'.fence = link.fence
      BY <2>6 DEF Mint
  <2>7. ASSUME NEW w \in Requests, MarkConnectPending(w) PROVE link'.account = link.account /\ link'.fence = link.fence
      BY <2>7 DEF MarkConnectPending
  <2>8. ASSUME NEW w \in Requests, FenceConnectorLink(w) PROVE link'.account = link.account /\ link'.fence = link.fence
      BY <2>8 DEF FenceConnectorLink, Absent
  <2>9. ASSUME NEW w \in Requests, DeleteExternalUser(w) PROVE link'.account = link.account /\ link'.fence = link.fence
      BY <2>9 DEF DeleteExternalUser
  <2>10. ASSUME NEW w \in Requests, RequestFails(w) PROVE link'.account = link.account /\ link'.fence = link.fence
      BY <2>10 DEF RequestFails
  <2>11. ASSUME NEW r \in Passes, ReadPending(r) PROVE link'.account = link.account /\ link'.fence = link.fence
      BY <2>11 DEF ReadPending
  <2>12. ASSUME NEW r \in Passes, ListAccounts(r) PROVE link'.account = link.account /\ link'.fence = link.fence
      BY <2>12 DEF ListAccounts, ChooseAccount, Candidates
  <2>13. ASSUME NEW r \in Passes, Refused(r) PROVE link'.account = link.account /\ link'.fence = link.fence
      BY <2>13 DEF Refused, NoPass
  <2>14. ASSUME NEW r \in Passes, Adopt(r) PROVE link'.account = link.account /\ link'.fence = link.fence
      BY <2>14 DEF Adopt, Adopts, Connected, NoPass
  <2>15. ASSUME NEW p \in Pulls, Read(p) PROVE link'.account = link.account /\ link'.fence = link.fence
      BY <2>15 DEF Read
  <2>16. ASSUME NEW p \in Pulls, Write(p) PROVE link'.account = link.account /\ link'.fence = link.fence
      BY <2>16 DEF Write, Lands, Connected, NoPull
  <2>17. ASSUME NEW p \in Pulls, PullDies(p) PROVE link'.account = link.account /\ link'.fence = link.fence
      BY <2>17 DEF PullDies, NoPull
  <2> QED
      BY <2>1, <2>2, <2>3, <2>4, <2>5, <2>6, <2>7, <2>8, <2>9,
         <2>10, <2>11, <2>12, <2>13, <2>14, <2>15, <2>16, <2>17
         DEF Next, AtVendor, Request, Reconcile, Poll
<1> QED
    BY InitIInv, Inductive, <1>1, PTL DEF Spec, OneConnectionPerFence
=============================================================================
