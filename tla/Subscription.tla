---------------------------- MODULE Subscription ----------------------------
(***************************************************************************)
(* A tier in two databases: the checkout that binds a vendor's customer to *)
(* the account (src/control/checkout.ts, handleCheckout of                 *)
(* src/web/app.ts), the deliveries that move account.subscription and then *)
(* control.tenant (src/control/billing.ts), the operator's grant, and the  *)
(* two readers of the result (src/control/tier.ts, effectiveTierOf).       *)
(*                                                                         *)
(* One account and its brain.  The vendor delivers any event at any time,  *)
(* in any order and as often as it likes, to several containers at once;   *)
(* a delivery is one step per statement, and may throw or die in between.  *)
(***************************************************************************)
EXTENDS Integers

CONSTANTS
    Events,       \* the vendor's event ids
    Deliveries,   \* deliveries in flight at once
    Tabs,         \* checkouts in flight at once
    MaxCustomers  \* bound: customers the vendor mints for this account

ASSUME SubscriptionAssumption == MaxCustomers \in Nat

VARIABLES
    minted,   \* vendor: customers minted for this account
    payable,  \* vendor: the customers whose payment page somebody has
    sent,     \* vendor: what each event says
    moment,   \* vendor: `created` of the newest event
    acked,    \* vendor: the events some answer calls done
    tab,      \* the checkouts in flight
    sub,      \* account.subscription
    ledger,   \* account.billing_event: the outcome under each event id
    linked,   \* account.brain names the tenant
    tier,     \* control.tenant.tier
    delivery, \* the deliveries in flight
    landed,   \* history: the events that moved the subscription
    lost,     \* history: the events given up before they could
    astray    \* history: why the two halves may differ now

vars == <<minted, payable, sent, moment, acked, tab, sub, ledger, linked, tier,
          delivery, landed, lost, astray>>
vendor == <<minted, payable, sent, moment>>

Tier == {"free", "paid"}
Customer == 1..MaxCustomers
Nobody == 0

Unsent == [customer |-> Nobody, created |-> 0, says |-> "nothing"]
Message == [customer: Customer, created: Nat \ {0}, says: Tier \cup {"checkout"}]

Unclaimed == "unclaimed"
Outcome == {"applied", "ignored", "superseded", "unknown_customer"}

\* last_event_created_at starts NULL: 0 here, which every event is newer than.
Row == [customer: Customer \cup {Nobody}, tier: Tier, last: Nat]
NewRow == [customer |-> Nobody, tier |-> "free", last |-> 0]

Closed == [at |-> "closed", customer |-> Nobody]
Asked == [at |-> "asked", customer |-> Nobody]
Started == [at: {"started"}, customer: Customer]

Idle == [at |-> "idle"]
InFlight == [at: {"claimed", "owned", "moved"}, event: Events]

Reasons == {"crossed", "cut", "early", "revoked"}

Init ==
    /\ minted = 0 /\ payable = {} /\ moment = 0 /\ acked = {}
    /\ sent = [e \in Events |-> Unsent]
    /\ tab = [t \in Tabs |-> Closed]
    /\ sub = NewRow
    /\ ledger = [e \in Events |-> Unclaimed]
    /\ linked = FALSE
    /\ tier = "free"
    /\ delivery = [d \in Deliveries |-> Idle]
    /\ landed = {} /\ lost = {} /\ astray = {}

-----------------------------------------------------------------------------
(* Checkout.                                                               *)

OpenCheckout(t) ==
    /\ tab[t] = Closed
    /\ sub.tier # "paid"
    /\ tab' = [tab EXCEPT ![t] = Asked]
    /\ UNCHANGED <<minted, payable>>

\* Every start mints a customer of its own; it is there even when the session
\* is refused or the answer does not come back.
VendorStarts(t) ==
    /\ tab[t] = Asked
    /\ minted < MaxCustomers
    /\ minted' = minted + 1
    /\ \E outcome \in {[at |-> "started", customer |-> minted + 1], Closed}:
         tab' = [tab EXCEPT ![t] = outcome]
    /\ UNCHANGED payable

VendorRefuses(t) ==
    /\ tab[t] = Asked
    /\ tab' = [tab EXCEPT ![t] = Closed]
    /\ UNCHANGED <<minted, payable>>

\* A mutant: the record follows the last tab.
MayBindAny(customer) == TRUE

\* The WHERE of recordCheckoutCustomer.
MayBind(customer) == sub.customer \in {Nobody, customer}

\* The payment page is handed over after the customer is on record; the answer
\* that carries it may be lost, and a refused one carries none.
RecordCheckoutCustomer(t) ==
    LET c == tab[t].customer IN
    /\ tab[t].at = "started"
    /\ tab' = [tab EXCEPT ![t] = Closed]
    /\ \/ /\ MayBind(c)
          /\ sub' = [sub EXCEPT !.customer = c]
          /\ payable' \in {payable, payable \cup {c}}
       \/ ~MayBind(c) /\ UNCHANGED <<sub, payable>>
    /\ UNCHANGED minted

\* What the vendor says of somebody who has a page to pay on.  Two events in a
\* row may carry the same second.
VendorSends(e) ==
    /\ sent[e] = Unsent
    /\ \E c \in payable, s \in Tier \cup {"checkout"}, at \in {moment, moment + 1} \ {0}:
         /\ sent' = [sent EXCEPT ![e] = [customer |-> c, created |-> at, says |-> s]]
         /\ moment' = at
    /\ UNCHANGED <<minted, payable, tab, sub>>

-----------------------------------------------------------------------------
(* The webhook: applyBillingEvent, one step per statement.                 *)

Moves(d, record) == delivery' = [delivery EXCEPT ![d] = record]

\* A 2xx; the vendor may never see it.
Answers(d, e) ==
    /\ Moves(d, Idle)
    /\ acked' \in {acked, acked \cup {e}}

Marks(e, outcome) == ledger' = [ledger EXCEPT ![e] = outcome]

\* The INSERT that claims the event id, ON CONFLICT DO NOTHING.
Claim(d, e) ==
    /\ delivery[d] = Idle
    /\ sent[e] # Unsent
    /\ \/ /\ ledger[e] = Unclaimed
          /\ Marks(e, "applied")
          /\ Moves(d, [at |-> "claimed", event |-> e])
          /\ UNCHANGED acked
       \/ /\ ledger[e] # Unclaimed
          /\ Answers(d, e)
          /\ UNCHANGED ledger
    /\ UNCHANGED <<sub, tier, landed, lost, astray>>

Owned(e) == sub.customer = sent[e].customer

\* A completed checkout says that a customer exists, and moves no tier.
Lookup(d) ==
    LET e == delivery[d].event IN
    /\ delivery[d].at = "claimed"
    /\ \/ /\ Owned(e) /\ sent[e].says # "checkout"
          /\ Moves(d, [at |-> "owned", event |-> e])
          /\ UNCHANGED <<ledger, acked>>
       \/ /\ Owned(e) /\ sent[e].says = "checkout"
          /\ Marks(e, "ignored")
          /\ Answers(d, e)
       \/ /\ ~Owned(e)
          /\ Marks(e, "unknown_customer")
          /\ Answers(d, e)
    /\ UNCHANGED <<sub, tier, landed, lost, astray>>

\* Mutants: no ordering, and an ordering that refuses a retry.
AnyOrder(e) == TRUE
StrictlyNewer(e) == sub.last < sent[e].created

\* The WHERE of the UPDATE.
InOrder(e) == sub.last <= sent[e].created

\* A delivery that finds no other between its two halves sets both, whatever
\* they were: it takes every earlier reason away.
MoveSubscription(d) ==
    LET e == delivery[d].event IN
    /\ delivery[d].at = "owned"
    /\ \/ /\ InOrder(e)
          /\ sub' = [sub EXCEPT !.tier = sent[e].says, !.last = sent[e].created]
          /\ landed' = landed \cup {e}
          /\ astray' = IF \E other \in Deliveries : delivery[other].at = "moved"
                       THEN astray \cup {"crossed"} ELSE {}
          /\ Moves(d, [at |-> "moved", event |-> e])
          /\ UNCHANGED <<ledger, acked>>
       \/ /\ ~InOrder(e)
          /\ Marks(e, "superseded")
          /\ Answers(d, e)
          /\ UNCHANGED <<sub, landed, astray>>
    /\ UNCHANGED <<tier, lost>>

\* The other half, in the other database, if the account has a brain by now.
MoveTenant(d) ==
    LET e == delivery[d].event IN
    /\ delivery[d].at = "moved"
    /\ Answers(d, e)
    /\ \/ linked /\ tier' = sent[e].says /\ UNCHANGED astray
       \/ ~linked /\ astray' = astray \cup {"early"} /\ UNCHANGED tier
    /\ UNCHANGED <<sub, ledger, landed, lost>>

\* Nobody will deliver the event again to finish what was begun.
GivesUp(e) ==
    /\ lost' = lost \cup ({e} \ landed)
    /\ astray' = IF e \in landed THEN astray \cup {"cut"} ELSE astray

InTheMiddle(d) == delivery[d].at \in {"claimed", "owned", "moved"}

\* A mutant: the claim outlives the failure.
KeepsClaim(e) == UNCHANGED ledger

Release(e) == Marks(e, Unclaimed)

\* A statement throws: the claim is released and the answer is a 5xx.  If a
\* duplicate was answered meanwhile, the vendor has nothing left to retry.
Throws(d) ==
    LET e == delivery[d].event IN
    /\ InTheMiddle(d)
    /\ Release(e)
    /\ Moves(d, Idle)
    /\ IF e \in acked THEN GivesUp(e) ELSE UNCHANGED <<lost, astray>>
    /\ UNCHANGED <<acked, sub, tier, landed>>

\* The process dies, or the release itself fails: the claim stays.
Dies(d) ==
    /\ InTheMiddle(d)
    /\ Moves(d, Idle)
    /\ GivesUp(delivery[d].event)
    /\ UNCHANGED <<acked, sub, ledger, tier, landed>>

-----------------------------------------------------------------------------
(* The brain and the operator.                                             *)

\* attachBrain; provisioning has made the tenant, and made it free.
LinkBrain ==
    /\ ~linked
    /\ linked' = TRUE
    /\ UNCHANGED <<tier, astray>>

\* Any ready tenant will do, linked to an account or not yet.
GrantOperatorTier ==
    /\ tier' = "internal"
    /\ UNCHANGED <<linked, astray>>

\* The grant did not keep what it wrote over.
RevokeOperatorTier ==
    /\ tier = "internal"
    /\ tier' = "free"
    /\ astray' = IF sub.tier = "paid" THEN astray \cup {"revoked"} ELSE astray
    /\ UNCHANGED linked

-----------------------------------------------------------------------------
Pays ==
    \/ /\ \E t \in Tabs : OpenCheckout(t) \/ VendorStarts(t) \/ VendorRefuses(t)
       /\ UNCHANGED <<sent, moment, sub>>
    \/ /\ \E t \in Tabs : RecordCheckoutCustomer(t)
       /\ UNCHANGED <<sent, moment>>
    \/ \E e \in Events : VendorSends(e)

Delivers ==
    \E d \in Deliveries :
        \/ \E e \in Events : Claim(d, e)
        \/ Lookup(d) \/ MoveSubscription(d) \/ MoveTenant(d) \/ Throws(d) \/ Dies(d)

Operates == LinkBrain \/ GrantOperatorTier \/ RevokeOperatorTier

Next ==
    \/ Pays /\ UNCHANGED <<acked, ledger, linked, tier, delivery, landed, lost, astray>>
    \/ Delivers /\ UNCHANGED <<vendor, tab, linked>>
    \/ Operates /\ UNCHANGED <<vendor, acked, tab, sub, ledger, delivery, landed, lost>>

Spec == Init /\ [][Next]_vars

-----------------------------------------------------------------------------
(* What the component promises.                                            *)

\* Every variable stays in its type: a delivery in flight holds the claim of
\* an event the vendor did send.
TypeOK ==
    /\ minted \in 0..MaxCustomers
    /\ payable \subseteq Customer
    /\ sent \in [Events -> Message \cup {Unsent}]
    /\ moment \in Nat
    /\ acked \subseteq Events
    /\ tab \in [Tabs -> Started \cup {Asked, Closed}]
    /\ sub \in Row
    /\ ledger \in [Events -> Outcome \cup {Unclaimed}]
    /\ linked \in BOOLEAN
    /\ tier \in Tier \cup {"internal"}
    /\ delivery \in [Deliveries -> InFlight \cup {Idle}]
    /\ landed \subseteq Events
    /\ lost \subseteq Events
    /\ astray \subseteq Reasons

\* Whatever two tabs, lost answers and early deliveries do, the vendor never
\* speaks of a customer the account cannot be found by: the payment page is
\* only given out once the customer is on record, and the record is never
\* pointed elsewhere.  What the header of checkout.ts is there for.
EventsFindTheirAccount ==
    \A e \in Events : ledger[e] # "unknown_customer"

\* The subscription says what the newest event that reached it said, in
\* whatever order and however often the events came: no older one took it back.
NewestRules ==
    IF landed = {} THEN sub.tier = "free" /\ sub.last = 0
    ELSE /\ \A e \in landed : sent[e].created <= sub.last
         /\ \E e \in landed : sent[e].created = sub.last /\ sent[e].says = sub.tier

Underway(e) == \E d \in Deliveries : InTheMiddle(d) /\ delivery[d].event = e

\* The vendor stops delivering what was answered.  By then the event is in the
\* subscription, or a newer one is, unless the process that held its claim died
\* or failed after its duplicate had been answered.
AnsweredMeansLanded ==
    \A e \in acked \ lost :
        \/ Underway(e)
        \/ sent[e].says = "checkout"
        \/ sent[e].created <= sub.last

\* consolidationTierOf: what the consolidation cycle runs at.
CycleTier == IF tier = "free" THEN "free" ELSE "paid"

\* effectiveTierOf: what the connector gate is shown.
GateTier == IF sub.tier = "paid" \/ tier = "internal" THEN "paid" ELSE "free"

\* When nothing is in flight and the vendor has an answer to all it sent, the
\* two readers see one tier, through failures between the halves and their
\* retries, stale deliveries and grants.  The ways out are the four reasons of
\* `astray`, and the next delivery that lands alone repairs them all.
ReadersAgree ==
    (/\ linked
     /\ \A d \in Deliveries : delivery[d] = Idle
     /\ \A e \in Events : sent[e] # Unsent => e \in acked
     /\ astray = {})
        => CycleTier = GateTier
=============================================================================
