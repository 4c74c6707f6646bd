------------------------- MODULE Subscription_proofs -------------------------
(***************************************************************************)
(* The safety of Subscription for any number of events, containers, tabs   *)
(* and customers.                                                          *)
(*                                                                         *)
(* The properties are not inductive.  What carries them: a customer that   *)
(* can pay is the one on record; a claim is either underway or explained   *)
(* by what became of it; an answered event is claimed, landed or lost.     *)
(***************************************************************************)
EXTENDS Subscription, TLAPS

\* A customer with a payment page, and so one the vendor speaks of, is the one
\* on record.
Bound ==
    /\ \A c \in payable : c = sub.customer
    /\ \A e \in Events : sent[e] # Unsent => sent[e].customer \in payable

\* A delivery in flight holds the claim of an event that was sent.
Held ==
    \A d \in Deliveries : InTheMiddle(d) =>
        /\ delivery[d] \in InFlight
        /\ sent[delivery[d].event] # Unsent
        /\ ledger[delivery[d].event] = "applied"
        /\ delivery[d].at # "claimed" => sent[delivery[d].event].says # "checkout"
        /\ delivery[d].at = "moved" => delivery[d].event \in landed

HeldOnce ==
    \A d1, d2 \in Deliveries :
        InTheMiddle(d1) /\ InTheMiddle(d2) /\ delivery[d1].event = delivery[d2].event
            => d1 = d2

\* What became of a claim.
Accounted ==
    \A e \in Events : ledger[e] # Unclaimed =>
        /\ sent[e] # Unsent
        /\ ledger[e] # "unknown_customer"
        /\ \/ Underway(e)
           \/ e \in lost
           \/ sent[e].says = "checkout"
           \/ sent[e].created <= sub.last

LandedBefore ==
    \A e \in landed :
        sent[e] # Unsent /\ sent[e].says # "checkout" /\ sent[e].created <= sub.last

Newest ==
    \/ landed = {} /\ sub.tier = "free" /\ sub.last = 0
    \/ \E e \in landed : sent[e].created = sub.last /\ sent[e].says = sub.tier

Answered == \A e \in acked : ledger[e] # Unclaimed \/ e \in lost \/ e \in landed

IInv ==
    /\ TypeOK /\ Bound /\ Held /\ HeldOnce /\ Accounted
    /\ LandedBefore /\ Newest /\ Answered

-----------------------------------------------------------------------------
(* What each step does to the deliveries, stated without EXCEPT.           *)

\* A delivery that moves leaves every other where it was.
LEMMA MovesOne ==
    ASSUME TypeOK, NEW d \in Deliveries, NEW r \in InFlight \cup {Idle}, Moves(d, r)
    PROVE  /\ delivery' \in [Deliveries -> InFlight \cup {Idle}]
           /\ delivery'[d] = r
           /\ \A other \in Deliveries : other # d => delivery'[other] = delivery[other]
BY DEF TypeOK, Moves

\* A mark on one event leaves the outcome of every other.
LEMMA MarksOne ==
    ASSUME TypeOK, NEW e \in Events, NEW o \in Outcome \cup {Unclaimed}, Marks(e, o)
    PROVE  /\ ledger' \in [Events -> Outcome \cup {Unclaimed}]
           /\ ledger'[e] = o
           /\ \A f \in Events : f # e => ledger'[f] = ledger[f]
BY DEF TypeOK, Marks

\* A delivery in the middle has an event; an idle one is not in the middle.
LEMMA MiddleHasEvent ==
    ASSUME TypeOK, NEW d \in Deliveries
    PROVE  /\ InTheMiddle(d) => delivery[d] \in InFlight /\ delivery[d].event \in Events
           /\ InTheMiddle(d) <=> delivery[d] # Idle
BY DEF TypeOK, InTheMiddle, InFlight, Idle

LEMMA MiddleHasEventNext ==
    ASSUME TypeOK', NEW d \in Deliveries
    PROVE  /\ InTheMiddle(d)' => delivery'[d] \in InFlight /\ delivery'[d].event \in Events
           /\ InTheMiddle(d)' <=> delivery'[d] # Idle
BY DEF TypeOK, InTheMiddle, InFlight, Idle

\* What was sent is a message, and no message looks like none.
LEMMA SentIsMessage ==
    ASSUME TypeOK, NEW e \in Events, sent[e] # Unsent
    PROVE  sent[e] \in Message
BY DEF TypeOK

-----------------------------------------------------------------------------
(* Checkout and the vendor.                                                *)

billing == <<acked, ledger, linked, tier, delivery, landed, lost, astray>>

\* Opening a checkout, and whatever the vendor makes of it, binds nobody.
LEMMA TabsKeep ==
    ASSUME SubscriptionAssumption, IInv, NEW t \in Tabs,
           OpenCheckout(t) \/ VendorStarts(t) \/ VendorRefuses(t),
           UNCHANGED <<sent, moment, sub>>, UNCHANGED billing
    PROVE  IInv'
<1>1. UNCHANGED payable
  BY DEF OpenCheckout, VendorStarts, VendorRefuses
<1>2. minted' \in 0..MaxCustomers
  BY DEF OpenCheckout, VendorStarts, VendorRefuses, IInv, TypeOK, SubscriptionAssumption
<1>3. tab' \in [Tabs -> Started \cup {Asked, Closed}]
  BY DEF OpenCheckout, VendorStarts, VendorRefuses, IInv, TypeOK, Started, Asked, Closed,
         Customer, SubscriptionAssumption
<1>4. TypeOK'
  BY <1>1, <1>2, <1>3 DEF IInv, TypeOK, billing
<1>. QED
  BY <1>1, <1>4 DEF IInv, Bound, Held, HeldOnce, Accounted, LandedBefore, Newest, Answered,
         Underway, InTheMiddle, billing

\* A record keeps the tier and never leaves a customer that can pay.
LEMMA RecordKeeps ==
    ASSUME IInv, NEW t \in Tabs, RecordCheckoutCustomer(t),
           UNCHANGED <<sent, moment>>, UNCHANGED billing
    PROVE  IInv'
<1>. DEFINE c == tab[t].customer
<1>1. c \in Customer /\ c # Nobody
  BY DEF IInv, TypeOK, RecordCheckoutCustomer, Started, Asked, Closed, Customer, Nobody
<1>2. sub' \in Row /\ sub'.tier = sub.tier /\ sub'.last = sub.last
  BY <1>1 DEF IInv, TypeOK, RecordCheckoutCustomer, Row
<1>3. payable \subseteq payable' /\ payable' \subseteq Customer
  BY <1>1 DEF IInv, TypeOK, RecordCheckoutCustomer
<1>4. \A k \in payable' : k = sub'.customer
  <2>1. CASE ~MayBind(c)
    BY <2>1 DEF RecordCheckoutCustomer, IInv, Bound
  <2>2. CASE MayBind(c)
    <3>1. sub'.customer = c /\ payable' \subseteq payable \cup {c}
      BY <2>2 DEF RecordCheckoutCustomer, IInv, TypeOK, Row
    <3>2. \A k \in payable : k = c
      BY <2>2, <1>1 DEF MayBind, IInv, Bound, TypeOK, Customer, Nobody
    <3>. QED
      BY <3>1, <3>2
  <2>. QED
    BY <2>1, <2>2
<1>5. TypeOK'
  BY <1>2, <1>3 DEF IInv, TypeOK, RecordCheckoutCustomer, billing
<1>6. Bound'
  BY <1>3, <1>4 DEF IInv, Bound
<1>. QED
  BY <1>2, <1>5, <1>6 DEF IInv, Held, HeldOnce, Accounted, LandedBefore, Newest, Answered,
         Underway, InTheMiddle, billing

\* The vendor speaks of an event once, before anything here knows of it.
LEMMA VendorKeeps ==
    ASSUME IInv, NEW e \in Events, VendorSends(e), UNCHANGED billing
    PROVE  IInv'
<1>1. PICK c \in payable, s \in Tier \cup {"checkout"}, at \in {moment, moment + 1} \ {0} :
        /\ sent' = [sent EXCEPT ![e] = [customer |-> c, created |-> at, says |-> s]]
        /\ moment' = at
  BY DEF VendorSends
<1>2. sent[e] = Unsent /\ UNCHANGED <<minted, payable, tab, sub>>
  BY DEF VendorSends
<1>3. at \in Nat \ {0}
  BY DEF IInv, TypeOK
<1>4. /\ sent' \in [Events -> Message \cup {Unsent}]
      /\ sent'[e].customer = c
      /\ \A f \in Events : f # e => sent'[f] = sent[f]
  BY <1>1, <1>3 DEF IInv, TypeOK, Message
<1>5. TypeOK'
  BY <1>1, <1>2, <1>3, <1>4 DEF IInv, TypeOK, billing
<1>6. Bound'
  BY <1>2, <1>4 DEF IInv, Bound
<1>7. ledger[e] = Unclaimed /\ e \notin landed
  BY <1>2 DEF IInv, Accounted, LandedBefore
<1>8. \A d \in Deliveries : InTheMiddle(d) => delivery[d].event \in Events \ {e}
  BY <1>2, MiddleHasEvent DEF IInv, Held
<1>9. Held' /\ HeldOnce'
  BY <1>4, <1>8 DEF IInv, Held, HeldOnce, InTheMiddle, billing
<1>10. Accounted'
  BY <1>2, <1>4, <1>7 DEF IInv, Accounted, Underway, InTheMiddle, billing
<1>11. LandedBefore' /\ Newest' /\ Answered'
  BY <1>2, <1>4, <1>7 DEF IInv, TypeOK, LandedBefore, Newest, Answered, billing
<1>. QED
  BY <1>5, <1>6, <1>9, <1>10, <1>11 DEF IInv
-----------------------------------------------------------------------------
(* A delivery.                                                             *)

elsewhere == <<vendor, tab, linked>>

\* Nothing a delivery does binds a customer.
LEMMA BoundStays ==
    ASSUME IInv, sub'.customer = sub.customer, UNCHANGED elsewhere
    PROVE  Bound'
BY DEF IInv, Bound, elsewhere, vendor

\* A claim is taken only where there was none, so nobody else works on it.
LEMMA ClaimKeeps ==
    ASSUME IInv, NEW d \in Deliveries, NEW e \in Events, Claim(d, e), UNCHANGED elsewhere
    PROVE  IInv'
<1>1. delivery[d] = Idle /\ sent[e] # Unsent /\ UNCHANGED <<sub, tier, landed, lost, astray>>
  BY DEF Claim
<1>2. UNCHANGED sent /\ Bound'
  BY <1>1, BoundStays DEF elsewhere, vendor
<1>3. CASE ledger[e] = Unclaimed /\ Marks(e, "applied")
           /\ Moves(d, [at |-> "claimed", event |-> e]) /\ UNCHANGED acked
  <2>. DEFINE r == [at |-> "claimed", event |-> e]
  <2>0. r \in InFlight
    BY DEF InFlight
  <2>1. /\ delivery' \in [Deliveries -> InFlight \cup {Idle}]
        /\ delivery'[d] = r
        /\ \A other \in Deliveries : other # d => delivery'[other] = delivery[other]
    BY <1>3, <2>0, MovesOne DEF IInv
  <2>2. /\ ledger' \in [Events -> Outcome \cup {Unclaimed}]
        /\ ledger'[e] = "applied"
        /\ \A f \in Events : f # e => ledger'[f] = ledger[f]
    BY <1>3, MarksOne DEF IInv, Outcome
  <2>3. TypeOK'
    BY <1>1, <1>3, <2>1, <2>2 DEF IInv, TypeOK, elsewhere, vendor
  <2>4. \A other \in Deliveries : InTheMiddle(other) => delivery[other].event \in Events \ {e}
    BY <1>3, MiddleHasEvent DEF IInv, Held, Unclaimed
  <2>5. Held'
    BY <1>1, <1>2, <2>0, <2>1, <2>2, <2>4 DEF IInv, Held, InTheMiddle
  <2>6. HeldOnce'
    BY <2>1, <2>4 DEF IInv, HeldOnce, InTheMiddle
  <2>7. \A f \in Events : Underway(f) => Underway(f)'
    BY <1>1, <2>1 DEF Underway, InTheMiddle, Idle
  <2>8. Underway(e)'
    BY <2>1 DEF Underway, InTheMiddle
  <2>9. Accounted'
    BY <1>1, <1>2, <2>2, <2>7, <2>8 DEF IInv, Accounted
  <2>10. LandedBefore' /\ Newest' /\ Answered'
    BY <1>1, <1>2, <1>3, <2>2 DEF IInv, TypeOK, LandedBefore, Newest, Answered, Unclaimed
  <2>. QED
    BY <1>2, <2>3, <2>5, <2>6, <2>9, <2>10 DEF IInv
<1>4. CASE ledger[e] # Unclaimed /\ Answers(d, e) /\ UNCHANGED ledger
  <2>1. delivery' = delivery
    BY <1>1, <1>4 DEF IInv, TypeOK, Answers, Moves
  <2>2. TypeOK'
    BY <1>1, <1>4, <2>1 DEF IInv, TypeOK, Answers, elsewhere, vendor
  <2>3. Answered'
    BY <1>1, <1>4 DEF IInv, Answered, Answers
  <2>. QED
    BY <1>1, <1>2, <1>4, <2>1, <2>2, <2>3
       DEF IInv, Held, HeldOnce, Accounted, LandedBefore, Newest, Underway, InTheMiddle
<1>. QED
  BY <1>3, <1>4 DEF Claim

\* A delivery that ends with its claim in place, its event explained, leaves
\* the invariant: the same for an ignored, a stale and a finished one.
LEMMA EndingKeeps ==
    ASSUME IInv, NEW d \in Deliveries, InTheMiddle(d), NEW e \in Events,
           e = delivery[d].event, Answers(d, e),
           ledger'[e] # Unclaimed, ledger'[e] # "unknown_customer",
           ledger' \in [Events -> Outcome \cup {Unclaimed}],
           \A f \in Events : f # e => ledger'[f] = ledger[f],
           sent[e].says = "checkout" \/ sent[e].created <= sub.last,
           UNCHANGED <<sub, landed, lost>>, UNCHANGED elsewhere,
           tier' \in Tier \cup {"internal"}, astray' \subseteq Reasons
    PROVE  IInv'
<1>1. /\ delivery' \in [Deliveries -> InFlight \cup {Idle}]
      /\ delivery'[d] = Idle
      /\ \A other \in Deliveries : other # d => delivery'[other] = delivery[other]
  BY MovesOne DEF IInv, Answers
<1>2. UNCHANGED sent /\ Bound'
  BY BoundStays DEF elsewhere, vendor
<1>3. TypeOK'
  BY <1>1 DEF IInv, TypeOK, Answers, elsewhere, vendor
<1>4. \A other \in Deliveries \ {d} : InTheMiddle(other) => delivery[other].event \in Events \ {e}
  BY MiddleHasEvent DEF IInv, HeldOnce
<1>5. \A other \in Deliveries :
        InTheMiddle(other)' => other # d /\ InTheMiddle(other) /\ delivery'[other] = delivery[other]
  BY <1>1 DEF InTheMiddle, Idle
<1>6. Held'
  BY <1>2, <1>4, <1>5 DEF IInv, Held
<1>7. HeldOnce'
  BY <1>5 DEF IInv, HeldOnce
<1>8. \A f \in Events \ {e} : Underway(f) => Underway(f)'
  BY <1>1 DEF Underway, InTheMiddle
<1>9. sent[e] # Unsent
  BY DEF IInv, Held
<1>10. Accounted'
  BY <1>2, <1>8, <1>9 DEF IInv, Accounted
<1>11. LandedBefore' /\ Newest' /\ Answered'
  BY <1>2 DEF IInv, TypeOK, LandedBefore, Newest, Answered, Answers
<1>. QED
  BY <1>2, <1>3, <1>6, <1>7, <1>10, <1>11 DEF IInv

\* A delivery that goes on to its next statement.
LEMMA GoingOnKeepsHeld ==
    ASSUME IInv, NEW d \in Deliveries, InTheMiddle(d), NEW at \in {"owned", "moved"},
           Moves(d, [at |-> at, event |-> delivery[d].event]),
           sent[delivery[d].event].says # "checkout",
           at = "moved" => delivery[d].event \in landed',
           landed \subseteq landed', UNCHANGED <<sent, ledger>>
    PROVE  /\ delivery' \in [Deliveries -> InFlight \cup {Idle}]
           /\ Held' /\ HeldOnce'
           /\ \A f \in Events : Underway(f) => Underway(f)'
<1>. DEFINE r == [at |-> at, event |-> delivery[d].event]
<1>0. r \in InFlight /\ r.event = delivery[d].event /\ r.at = at
  BY MiddleHasEvent DEF IInv, InFlight
<1>1. /\ delivery' \in [Deliveries -> InFlight \cup {Idle}]
      /\ delivery'[d] = r
      /\ \A other \in Deliveries : other # d => delivery'[other] = delivery[other]
  BY <1>0, MovesOne DEF IInv
<1>2. \A other \in Deliveries :
        /\ InTheMiddle(other)' <=> InTheMiddle(other)
        /\ InTheMiddle(other) => delivery'[other].event = delivery[other].event
        /\ other # d => delivery'[other] = delivery[other]
  <2>1. InTheMiddle(d)'
    BY <1>0, <1>1 DEF InTheMiddle
  <2>. QED
    BY <2>1, <1>0, <1>1 DEF InTheMiddle
<1>3. Held'
  BY <1>0, <1>1, <1>2 DEF IInv, Held
<1>4. HeldOnce'
  BY <1>2 DEF IInv, HeldOnce
<1>5. \A f \in Events : Underway(f) => Underway(f)'
  BY <1>2 DEF Underway
<1>. QED
  BY <1>1, <1>3, <1>4, <1>5
\* The owner is always found: the vendor's customer is the one on record.
LEMMA OwnerIsFound ==
    ASSUME IInv, NEW d \in Deliveries, InTheMiddle(d)
    PROVE  Owned(delivery[d].event)
BY MiddleHasEvent DEF IInv, Held, Bound, Owned

LEMMA LookupKeeps ==
    ASSUME IInv, NEW d \in Deliveries, Lookup(d), UNCHANGED elsewhere
    PROVE  IInv'
<1>. DEFINE e == delivery[d].event
<1>1. InTheMiddle(d) /\ UNCHANGED <<sub, tier, landed, lost, astray>>
  BY DEF Lookup, InTheMiddle
<1>2. e \in Events /\ Owned(e)
  BY <1>1, MiddleHasEvent, OwnerIsFound DEF IInv
<1>3. CASE /\ sent[e].says # "checkout"
           /\ Moves(d, [at |-> "owned", event |-> e])
           /\ UNCHANGED <<ledger, acked>>
  <2>1. UNCHANGED sent /\ Bound'
    BY <1>1, BoundStays DEF elsewhere, vendor
  <2>2. /\ delivery' \in [Deliveries -> InFlight \cup {Idle}]
        /\ Held' /\ HeldOnce'
        /\ \A f \in Events : Underway(f) => Underway(f)'
    BY <1>1, <1>3, <2>1, GoingOnKeepsHeld
  <2>3. TypeOK'
    BY <1>1, <1>3, <2>2 DEF IInv, TypeOK, elsewhere, vendor
  <2>. QED
    BY <1>1, <1>3, <2>1, <2>2, <2>3 DEF IInv, Accounted, LandedBefore, Newest, Answered
<1>4. CASE sent[e].says = "checkout" /\ Marks(e, "ignored") /\ Answers(d, e)
  <2>1. /\ ledger' \in [Events -> Outcome \cup {Unclaimed}]
        /\ ledger'[e] = "ignored"
        /\ \A f \in Events : f # e => ledger'[f] = ledger[f]
    BY <1>2, <1>4, MarksOne DEF IInv, Outcome
  <2>2. tier' \in Tier \cup {"internal"} /\ astray' \subseteq Reasons
    BY <1>1 DEF IInv, TypeOK
  <2>. QED
    BY <1>1, <1>2, <1>4, <2>1, <2>2, EndingKeeps DEF Unclaimed
<1>. QED
  BY <1>2, <1>3, <1>4 DEF Lookup

\* An event that moves the subscription becomes the newest that did.
LEMMA MoveSubscriptionKeeps ==
    ASSUME IInv, NEW d \in Deliveries, MoveSubscription(d), UNCHANGED elsewhere
    PROVE  IInv'
<1>. DEFINE e == delivery[d].event
<1>1. InTheMiddle(d) /\ delivery[d].at = "owned" /\ UNCHANGED <<tier, lost>>
  BY DEF MoveSubscription, InTheMiddle
<1>2. e \in Events /\ sent[e] # Unsent /\ sent[e].says # "checkout"
  BY <1>1, MiddleHasEvent DEF IInv, Held
<1>3. sent[e].says \in Tier /\ sent[e].created \in Nat /\ sub.last \in Nat
  BY <1>2, SentIsMessage DEF IInv, TypeOK, Message, Row
<1>4. CASE /\ InOrder(e)
           /\ sub' = [sub EXCEPT !.tier = sent[e].says, !.last = sent[e].created]
           /\ landed' = landed \cup {e}
           /\ astray' \in {astray \cup {"crossed"}, {}}
           /\ Moves(d, [at |-> "moved", event |-> e])
           /\ UNCHANGED <<ledger, acked>>
  <2>1. /\ sub' \in Row /\ sub'.customer = sub.customer
        /\ sub'.tier = sent[e].says /\ sub'.last = sent[e].created
    BY <1>3, <1>4 DEF IInv, TypeOK, Row
  <2>2. UNCHANGED sent /\ Bound'
    BY <2>1, BoundStays DEF elsewhere, vendor
  <2>3. /\ delivery' \in [Deliveries -> InFlight \cup {Idle}]
        /\ Held' /\ HeldOnce'
        /\ \A f \in Events : Underway(f) => Underway(f)'
    BY <1>1, <1>2, <1>4, <2>2, GoingOnKeepsHeld
  <2>4. TypeOK'
    BY <1>1, <1>2, <1>4, <2>1, <2>3 DEF IInv, TypeOK, Reasons, elsewhere, vendor
  <2>5. \A f \in Events :
          sent[f] # Unsent /\ sent[f].created <= sub.last => sent[f].created <= sub'.last
    BY <1>3, <1>4, <2>1, SentIsMessage DEF InOrder, IInv, Message
  <2>6. Accounted'
    BY <1>1, <1>4, <2>2, <2>3, <2>5 DEF IInv, Accounted
  <2>7. LandedBefore'
    BY <1>2, <1>3, <1>4, <2>1, <2>2, <2>5 DEF IInv, TypeOK, LandedBefore
  <2>8. Newest' /\ Answered'
    BY <1>1, <1>4, <2>1, <2>2 DEF IInv, Newest, Answered
  <2>. QED
    BY <2>2, <2>3, <2>4, <2>6, <2>7, <2>8 DEF IInv
<1>5. CASE /\ ~InOrder(e) /\ Marks(e, "superseded") /\ Answers(d, e)
           /\ UNCHANGED <<sub, landed, astray>>
  <2>1. /\ ledger' \in [Events -> Outcome \cup {Unclaimed}]
        /\ ledger'[e] = "superseded"
        /\ \A f \in Events : f # e => ledger'[f] = ledger[f]
    BY <1>2, <1>5, MarksOne DEF IInv, Outcome
  <2>2. sent[e].created <= sub.last
    BY <1>3, <1>5 DEF InOrder
  <2>3. tier' \in Tier \cup {"internal"} /\ astray' \subseteq Reasons
    BY <1>1, <1>5 DEF IInv, TypeOK
  <2>. QED
    BY <1>1, <1>2, <1>5, <2>1, <2>2, <2>3, EndingKeeps DEF Unclaimed
<1>. QED
  BY <1>4, <1>5 DEF MoveSubscription

LEMMA MoveTenantKeeps ==
    ASSUME IInv, NEW d \in Deliveries, MoveTenant(d), UNCHANGED elsewhere
    PROVE  IInv'
<1>. DEFINE e == delivery[d].event
<1>1. /\ InTheMiddle(d) /\ delivery[d].at = "moved" /\ Answers(d, e)
      /\ UNCHANGED <<sub, ledger, landed, lost>>
  BY DEF MoveTenant, InTheMiddle
<1>2. /\ e \in Events /\ sent[e] # Unsent /\ sent[e].says # "checkout"
      /\ ledger[e] = "applied" /\ sent[e].created <= sub.last
  BY <1>1, MiddleHasEvent DEF IInv, Held, LandedBefore
<1>3. tier' \in Tier \cup {"internal"} /\ astray' \subseteq Reasons
  BY <1>2, SentIsMessage DEF MoveTenant, IInv, TypeOK, Message, Reasons
<1>4. ledger' \in [Events -> Outcome \cup {Unclaimed}]
  BY <1>1 DEF IInv, TypeOK
<1>. QED
  BY <1>1, <1>2, <1>3, <1>4, EndingKeeps DEF Unclaimed
\* A delivery that stops in the middle leaves the others as they were.
LEMMA StoppingKeepsHeld ==
    ASSUME IInv, NEW d \in Deliveries, InTheMiddle(d), Moves(d, Idle), UNCHANGED <<sent, landed>>,
           \A f \in Events : f # delivery[d].event => ledger'[f] = ledger[f]
    PROVE  /\ delivery' \in [Deliveries -> InFlight \cup {Idle}]
           /\ Held' /\ HeldOnce'
           /\ \A f \in Events : f # delivery[d].event /\ Underway(f) => Underway(f)'
<1>. DEFINE e == delivery[d].event
<1>1. /\ delivery' \in [Deliveries -> InFlight \cup {Idle}]
      /\ delivery'[d] = Idle
      /\ \A other \in Deliveries : other # d => delivery'[other] = delivery[other]
  BY MovesOne DEF IInv
<1>2. \A other \in Deliveries \ {d} : InTheMiddle(other) => delivery[other].event \in Events \ {e}
  BY MiddleHasEvent DEF IInv, HeldOnce
<1>3. \A other \in Deliveries :
        InTheMiddle(other)' => other # d /\ InTheMiddle(other) /\ delivery'[other] = delivery[other]
  BY <1>1 DEF InTheMiddle, Idle
<1>4. Held'
  BY <1>2, <1>3 DEF IInv, Held
<1>5. HeldOnce'
  BY <1>3 DEF IInv, HeldOnce
<1>6. \A f \in Events : f # e /\ Underway(f) => Underway(f)'
  BY <1>1 DEF Underway, InTheMiddle
<1>. QED
  BY <1>1, <1>4, <1>5, <1>6

\* A released claim owes nothing, and an answered one is given up with it.
LEMMA ThrowsKeeps ==
    ASSUME IInv, NEW d \in Deliveries, Throws(d), UNCHANGED elsewhere
    PROVE  IInv'
<1>. DEFINE e == delivery[d].event
<1>1. InTheMiddle(d) /\ Moves(d, Idle) /\ UNCHANGED <<acked, sub, tier, landed>>
  BY DEF Throws
<1>2. e \in Events
  BY <1>1, MiddleHasEvent DEF IInv
<1>3. /\ ledger' \in [Events -> Outcome \cup {Unclaimed}]
      /\ ledger'[e] = Unclaimed
      /\ \A f \in Events : f # e => ledger'[f] = ledger[f]
  BY <1>2, MarksOne DEF Throws, Release, IInv
<1>4. UNCHANGED sent /\ Bound'
  BY <1>1, BoundStays DEF elsewhere, vendor
<1>5. /\ delivery' \in [Deliveries -> InFlight \cup {Idle}]
      /\ Held' /\ HeldOnce'
      /\ \A f \in Events : f # e /\ Underway(f) => Underway(f)'
  BY <1>1, <1>3, <1>4, StoppingKeepsHeld
<1>6. /\ lost \subseteq lost' /\ lost' \subseteq Events /\ astray' \subseteq Reasons
      /\ e \in acked => e \in lost' \/ e \in landed
  BY <1>2 DEF Throws, GivesUp, IInv, TypeOK, Reasons
<1>7. TypeOK'
  BY <1>1, <1>3, <1>5, <1>6 DEF IInv, TypeOK, elsewhere, vendor
<1>8. Accounted'
  BY <1>1, <1>3, <1>4, <1>5, <1>6 DEF IInv, Accounted
<1>9. LandedBefore' /\ Newest'
  BY <1>1, <1>4 DEF IInv, LandedBefore, Newest
<1>10. Answered'
  BY <1>1, <1>3, <1>6 DEF IInv, TypeOK, Answered
<1>. QED
  BY <1>4, <1>5, <1>7, <1>8, <1>9, <1>10 DEF IInv

\* A claim that stays behind is that of a lost event or of one that landed.
LEMMA DiesKeeps ==
    ASSUME IInv, NEW d \in Deliveries, Dies(d), UNCHANGED elsewhere
    PROVE  IInv'
<1>. DEFINE e == delivery[d].event
<1>1. InTheMiddle(d) /\ Moves(d, Idle) /\ UNCHANGED <<acked, sub, ledger, tier, landed>>
  BY DEF Dies
<1>2. e \in Events
  BY <1>1, MiddleHasEvent DEF IInv
<1>3. UNCHANGED sent /\ Bound'
  BY <1>1, BoundStays DEF elsewhere, vendor
<1>4. /\ delivery' \in [Deliveries -> InFlight \cup {Idle}]
      /\ Held' /\ HeldOnce'
      /\ \A f \in Events : f # e /\ Underway(f) => Underway(f)'
  BY <1>1, <1>3, StoppingKeepsHeld
<1>5. /\ lost \subseteq lost' /\ lost' \subseteq Events /\ astray' \subseteq Reasons
      /\ e \in lost' \/ e \in landed
  BY <1>2 DEF Dies, GivesUp, IInv, TypeOK, Reasons
<1>6. TypeOK'
  BY <1>1, <1>4, <1>5 DEF IInv, TypeOK, elsewhere, vendor
<1>7. Accounted'
  BY <1>1, <1>3, <1>4, <1>5 DEF IInv, Accounted, LandedBefore
<1>8. LandedBefore' /\ Newest' /\ Answered'
  BY <1>1, <1>3, <1>5 DEF IInv, LandedBefore, Newest, Answered
<1>. QED
  BY <1>3, <1>4, <1>6, <1>7, <1>8 DEF IInv

-----------------------------------------------------------------------------
(* The theorems.                                                           *)

LEMMA InitIInv ==
    ASSUME SubscriptionAssumption, Init
    PROVE  IInv
<1>0. NewRow \in Row
  BY DEF NewRow, Row, Tier
<1>1. TypeOK
  <2>1. minted \in 0..MaxCustomers /\ moment \in Nat /\ tier \in Tier \cup {"internal"}
    BY DEF SubscriptionAssumption, Init, Tier
  <2>2. /\ sent \in [Events -> Message \cup {Unsent}]
        /\ tab \in [Tabs -> Started \cup {Asked, Closed}]
        /\ ledger \in [Events -> Outcome \cup {Unclaimed}]
        /\ delivery \in [Deliveries -> InFlight \cup {Idle}]
    BY DEF Init
  <2>. QED
    BY <1>0, <2>1, <2>2 DEF Init, TypeOK
<1>2. \A d \in Deliveries : ~InTheMiddle(d)
  BY DEF Init, InTheMiddle, Idle
<1>. QED
  BY <1>1, <1>2 DEF Init, IInv, Bound, Held, HeldOnce, Accounted, LandedBefore, Newest, Answered,
     Unclaimed, NewRow

\* Every step keeps the invariant: one case per action.
LEMMA NextIInv ==
    ASSUME SubscriptionAssumption, IInv, [Next]_vars
    PROVE  IInv'
<1>1. CASE Pays /\ UNCHANGED billing
  BY <1>1, TabsKeep, RecordKeeps, VendorKeeps DEF Pays
<1>2. CASE Delivers /\ UNCHANGED elsewhere
  BY <1>2, ClaimKeeps, LookupKeeps, MoveSubscriptionKeeps, MoveTenantKeeps, ThrowsKeeps, DiesKeeps
     DEF Delivers
<1>3. CASE Operates /\ UNCHANGED <<vendor, acked, tab, sub, ledger, delivery, landed, lost>>
  <2>1. linked' \in BOOLEAN /\ tier' \in Tier \cup {"internal"} /\ astray' \subseteq Reasons
    BY <1>3 DEF Operates, LinkBrain, GrantOperatorTier, RevokeOperatorTier, IInv, TypeOK, Tier,
       Reasons
  <2>. QED
    BY <1>3, <2>1 DEF IInv, TypeOK, Bound, Held, HeldOnce, Accounted, LandedBefore, Newest,
       Answered, Underway, InTheMiddle, vendor
<1>4. CASE UNCHANGED vars
  BY <1>4 DEF IInv, TypeOK, Bound, Held, HeldOnce, Accounted, LandedBefore, Newest, Answered,
     Underway, InTheMiddle, vars
<1>. QED
  BY <1>1, <1>2, <1>3, <1>4 DEF Next, billing, elsewhere

\* The inductive invariant, which is about the claim of every delivery.
THEOREM Invariance == Spec => []IInv
<1>1. Init => IInv
  BY InitIInv, SubscriptionAssumption
<1>2. IInv /\ [Next]_vars => IInv'
  BY NextIInv, SubscriptionAssumption
<1>. QED
  BY <1>1, <1>2, PTL DEF Spec

\* Agreement is its own induction.  As long as nothing excuses a difference, a
\* delivery between its halves carries the tier the subscription has, ...
MovedIsCurrent ==
    astray = {} =>
        \A d \in Deliveries :
            delivery[d].at = "moved" => sent[delivery[d].event].says = sub.tier

\* ... and where the readers differ, the event the subscription has from will
\* come again or is underway, and no ordering can refuse it.
Pending(e) ==
    /\ e \in landed
    /\ sent[e].created = sub.last
    /\ sent[e].says = sub.tier
    /\ Underway(e) \/ (ledger[e] = Unclaimed /\ e \notin acked)

Repairable ==
    astray = {} => CycleTier = GateTier \/ \E e \in Events : Pending(e)

InSync == MovedIsCurrent /\ Repairable

LEMMA InitInSync == Init => InSync
BY DEF Init, InSync, MovedIsCurrent, Repairable, NewRow, CycleTier, GateTier, Idle

\* A delivery that leaves both halves alone keeps the readers where they were.
LEMMA HalvesStay ==
    ASSUME InSync, UNCHANGED <<sub, sent, tier>>, astray \subseteq astray',
           \A d \in Deliveries : delivery'[d].at = "moved" =>
               delivery[d].at = "moved" /\ delivery'[d].event = delivery[d].event,
           astray' = {} => \A e \in Events : Pending(e) => Pending(e)'
    PROVE  InSync'
BY DEF InSync, MovedIsCurrent, Repairable, CycleTier, GateTier

LEMMA ClaimInSync ==
    ASSUME IInv, InSync, NEW d \in Deliveries, NEW e \in Events, Claim(d, e), UNCHANGED elsewhere
    PROVE  InSync'
<1>1. /\ delivery[d] = Idle /\ UNCHANGED <<sub, tier, landed, astray, sent>>
  BY DEF Claim, elsewhere, vendor
<1>2. CASE ledger[e] = Unclaimed /\ Marks(e, "applied")
           /\ Moves(d, [at |-> "claimed", event |-> e]) /\ UNCHANGED acked
  <2>. DEFINE r == [at |-> "claimed", event |-> e]
  <2>0. r \in InFlight
    BY DEF InFlight
  <2>1. /\ delivery'[d] = r
        /\ \A other \in Deliveries : other # d => delivery'[other] = delivery[other]
    BY <1>2, <2>0, MovesOne DEF IInv
  <2>2. \A f \in Events : f # e => ledger'[f] = ledger[f]
    BY <1>2, MarksOne DEF IInv, Outcome
  <2>3. Underway(e)' /\ \A f \in Events : Underway(f) => Underway(f)'
    BY <1>1, <2>1 DEF Underway, InTheMiddle, Idle
  <2>4. \A f \in Events : Pending(f) => Pending(f)'
    BY <1>1, <1>2, <2>2, <2>3 DEF Pending
  <2>. QED
    BY <1>1, <2>1, <2>4, HalvesStay
<1>3. CASE ledger[e] # Unclaimed /\ Answers(d, e) /\ UNCHANGED ledger
  <2>1. delivery' = delivery
    BY <1>1, <1>3 DEF IInv, TypeOK, Answers, Moves
  <2>2. \A f \in Events : Pending(f) => Pending(f)'
    BY <1>1, <1>3, <2>1 DEF Pending, Answers, Underway, InTheMiddle
  <2>. QED
    BY <1>1, <2>1, <2>2, HalvesStay
<1>. QED
  BY <1>2, <1>3 DEF Claim

\* A delivery that ends on an event other than those pending.
LEMMA EndingInSync ==
    ASSUME IInv, InSync, NEW d \in Deliveries, InTheMiddle(d), NEW e \in Events,
           e = delivery[d].event, Answers(d, e), ~Pending(e),
           \A f \in Events : f # e => ledger'[f] = ledger[f],
           UNCHANGED <<sub, sent, tier, landed, astray>>
    PROVE  InSync'
<1>1. /\ delivery'[d] = Idle
      /\ \A other \in Deliveries : other # d => delivery'[other] = delivery[other]
  BY MovesOne DEF IInv, Answers
<1>2. \A f \in Events : Underway(f) /\ f # e => Underway(f)'
  BY <1>1 DEF Underway, InTheMiddle
<1>3. \A f \in Events : Pending(f) => Pending(f)'
  BY <1>2 DEF Pending, Answers
<1>. QED
  BY <1>1, <1>3, HalvesStay DEF Idle

LEMMA LookupInSync ==
    ASSUME IInv, InSync, NEW d \in Deliveries, Lookup(d), UNCHANGED elsewhere
    PROVE  InSync'
<1>. DEFINE e == delivery[d].event
<1>1. InTheMiddle(d) /\ UNCHANGED <<sub, tier, landed, lost, astray, sent>>
  BY DEF Lookup, InTheMiddle, elsewhere, vendor
<1>2. e \in Events /\ Owned(e)
  BY <1>1, MiddleHasEvent, OwnerIsFound DEF IInv
<1>3. CASE /\ Moves(d, [at |-> "owned", event |-> e])
           /\ UNCHANGED <<ledger, acked>>
  <2>0. [at |-> "owned", event |-> e] \in InFlight
    BY <1>2 DEF InFlight
  <2>1. /\ delivery'[d] = [at |-> "owned", event |-> e]
        /\ \A other \in Deliveries : other # d => delivery'[other] = delivery[other]
    BY <1>3, <2>0, MovesOne DEF IInv
  <2>2. \A f \in Events : Underway(f) => Underway(f)'
    BY <2>1 DEF Underway, InTheMiddle
  <2>3. \A f \in Events : Pending(f) => Pending(f)'
    BY <1>1, <1>3, <2>2 DEF Pending
  <2>. QED
    BY <1>1, <2>1, <2>3, HalvesStay
<1>4. CASE sent[e].says = "checkout" /\ Marks(e, "ignored") /\ Answers(d, e)
  <2>1. \A f \in Events : f # e => ledger'[f] = ledger[f]
    BY <1>2, <1>4, MarksOne DEF IInv, Outcome
  <2>2. ~Pending(e)
    BY <1>4 DEF IInv, LandedBefore, Pending
  <2>. QED
    BY <1>1, <1>2, <1>4, <2>1, <2>2, EndingInSync
<1>. QED
  BY <1>2, <1>3, <1>4 DEF Lookup

\* A delivery that lands alone is the one the subscription has its tier from.
LEMMA MoveSubscriptionInSync ==
    ASSUME IInv, InSync, NEW d \in Deliveries, MoveSubscription(d), UNCHANGED elsewhere
    PROVE  InSync'
<1>1. /\ InTheMiddle(d) /\ delivery[d].at = "owned" /\ UNCHANGED <<tier, lost, sent>>
  BY DEF MoveSubscription, InTheMiddle, elsewhere, vendor
<1>2. PICK e \in Events : e = delivery[d].event
  BY <1>1, MiddleHasEvent DEF IInv
<1>3. CASE /\ InOrder(e)
           /\ sub' = [sub EXCEPT !.tier = sent[e].says, !.last = sent[e].created]
           /\ landed' = landed \cup {e}
           /\ astray' = IF \E other \in Deliveries : delivery[other].at = "moved"
                        THEN astray \cup {"crossed"} ELSE {}
           /\ Moves(d, [at |-> "moved", event |-> e])
  <2>0. [at |-> "moved", event |-> e] \in InFlight
    BY <1>2 DEF InFlight
  <2>1. /\ delivery'[d] = [at |-> "moved", event |-> e]
        /\ \A other \in Deliveries : other # d => delivery'[other] = delivery[other]
    BY <1>3, <2>0, MovesOne DEF IInv
  <2>2. sub'.tier = sent[e].says /\ sub'.last = sent[e].created
    BY <1>3 DEF IInv, TypeOK, Row
  <2>3. astray' = {} => \A other \in Deliveries : delivery[other].at # "moved"
    BY <1>3
  <2>4. MovedIsCurrent'
    BY <1>1, <2>1, <2>2, <2>3 DEF MovedIsCurrent
  <2>5. Underway(e)'
    BY <2>1 DEF Underway, InTheMiddle
  <2>6. Pending(e)'
    BY <1>1, <1>3, <2>2, <2>5 DEF Pending
  <2>. QED
    BY <1>2, <2>4, <2>6 DEF InSync, Repairable
<1>4. CASE /\ ~InOrder(e) /\ Marks(e, "superseded") /\ Answers(d, e)
           /\ UNCHANGED <<sub, landed, astray>>
  <2>1. \A f \in Events : f # e => ledger'[f] = ledger[f]
    BY <1>2, <1>4, MarksOne DEF IInv, Outcome
  <2>2. sub.last \in Nat
    BY DEF IInv, TypeOK, Row
  <2>3. ~Pending(e)
    BY <1>4, <2>2 DEF InOrder, Pending
  <2>. QED
    BY <1>1, <1>2, <1>4, <2>1, <2>3, EndingInSync
<1>. QED
  BY <1>2, <1>3, <1>4 DEF MoveSubscription

\* The second half is that of the subscription as it stands.
LEMMA MoveTenantInSync ==
    ASSUME IInv, InSync, NEW d \in Deliveries, MoveTenant(d), UNCHANGED elsewhere
    PROVE  InSync'
<1>. DEFINE e == delivery[d].event
<1>1. /\ delivery[d].at = "moved" /\ Answers(d, e) /\ UNCHANGED <<sub, landed, sent>>
      /\ \/ linked /\ tier' = sent[e].says /\ UNCHANGED astray
         \/ ~linked /\ astray' = astray \cup {"early"}
  BY DEF MoveTenant, elsewhere, vendor
<1>2. /\ delivery'[d] = Idle
      /\ \A other \in Deliveries : other # d => delivery'[other] = delivery[other]
  BY <1>1, MovesOne DEF IInv, Answers
<1>3. astray' = {} => astray = {} /\ tier' = sub.tier
  BY <1>1 DEF InSync, MovedIsCurrent
<1>4. MovedIsCurrent'
  BY <1>1, <1>2, <1>3 DEF InSync, MovedIsCurrent, Idle
<1>5. astray' = {} => (CycleTier = GateTier)'
  BY <1>1, <1>3 DEF IInv, TypeOK, Row, Tier, CycleTier, GateTier
<1>. QED
  BY <1>4, <1>5 DEF InSync, Repairable

\* A failure after the first half leaves its event to be delivered again, or
\* says why it will not be.
LEMMA StoppingInSync ==
    ASSUME IInv, InSync, NEW d \in Deliveries, Throws(d) \/ Dies(d), UNCHANGED elsewhere
    PROVE  InSync'
<1>1. /\ InTheMiddle(d) /\ Moves(d, Idle) /\ UNCHANGED <<acked, sub, tier, landed, sent>>
      /\ astray \subseteq astray'
  BY DEF Throws, Dies, GivesUp, elsewhere, vendor
<1>2. PICK e \in Events : e = delivery[d].event
  BY <1>1, MiddleHasEvent DEF IInv
<1>3. /\ delivery'[d] = Idle
      /\ \A other \in Deliveries : other # d => delivery'[other] = delivery[other]
  BY <1>1, MovesOne DEF IInv
<1>4. \A f \in Events : f # e => ledger'[f] = ledger[f]
  BY <1>2, MarksOne DEF Throws, Dies, Release, IInv
<1>5. \A f \in Events : Underway(f) /\ f # e => Underway(f)'
  BY <1>2, <1>3 DEF Underway, InTheMiddle
<1>6. \A f \in Events : f # e /\ Pending(f) => Pending(f)'
  BY <1>1, <1>4, <1>5 DEF Pending
<1>7. astray' = {} /\ Pending(e) => Pending(e)'
  <2>1. CASE Dies(d) \/ e \in acked
    BY <1>2, <2>1 DEF Throws, Dies, GivesUp, Pending
  <2>2. CASE Throws(d) /\ e \notin acked
    <3>1. ledger'[e] = Unclaimed
      BY <1>2, <2>2, MarksOne DEF Throws, Release, IInv
    <3>. QED
      BY <1>1, <2>2, <3>1 DEF Pending
  <2>. QED
    BY <2>1, <2>2
<1>8. astray' = {} => \A f \in Events : Pending(f) => Pending(f)'
  BY <1>6, <1>7
<1>. QED
  BY <1>1, <1>3, <1>8, HalvesStay DEF Idle

\* Checkout and the vendor's next word touch no event that landed.
LEMMA PaysInSync ==
    ASSUME IInv, InSync, Pays, UNCHANGED billing
    PROVE  InSync'
<1>1. sub'.tier = sub.tier /\ sub'.last = sub.last
  BY DEF Pays, OpenCheckout, VendorStarts, VendorRefuses, RecordCheckoutCustomer, VendorSends,
     IInv, TypeOK, Row
<1>2. \A e \in Events : sent[e] # Unsent => sent'[e] = sent[e]
  BY DEF Pays, VendorSends, IInv, TypeOK
<1>3. \A e \in Events : Pending(e) => Pending(e)'
  BY <1>1, <1>2 DEF Pending, Underway, InTheMiddle, IInv, LandedBefore, billing
<1>4. \A d \in Deliveries : delivery[d].at = "moved" => sent'[delivery[d].event] = sent[delivery[d].event]
  BY <1>2, MiddleHasEvent DEF IInv, Held, InTheMiddle
<1>. QED
  BY <1>1, <1>3, <1>4 DEF InSync, MovedIsCurrent, Repairable, CycleTier, GateTier, billing

\* A grant is paid to both readers; taking it back is free to both, unless
\* somebody had paid.
LEMMA OperatesInSync ==
    ASSUME IInv, InSync, Operates,
           UNCHANGED <<vendor, acked, tab, sub, ledger, delivery, landed, lost>>
    PROVE  InSync'
<1>1. \A e \in Events : Pending(e) => Pending(e)'
  BY DEF Pending, Underway, InTheMiddle, vendor
<1>2. CASE LinkBrain
  BY <1>1, <1>2 DEF LinkBrain, InSync, MovedIsCurrent, Repairable, CycleTier, GateTier, vendor
<1>3. CASE GrantOperatorTier
  BY <1>3 DEF GrantOperatorTier, InSync, MovedIsCurrent, Repairable, CycleTier, GateTier, vendor
<1>4. CASE RevokeOperatorTier
  BY <1>4 DEF RevokeOperatorTier, InSync, MovedIsCurrent, Repairable, CycleTier, GateTier, vendor
<1>. QED
  BY <1>2, <1>3, <1>4 DEF Operates

LEMMA NextInSync ==
    ASSUME IInv, InSync, [Next]_vars
    PROVE  InSync'
<1>1. CASE Pays /\ UNCHANGED billing
  BY <1>1, PaysInSync
<1>2. CASE Delivers /\ UNCHANGED elsewhere
  BY <1>2, ClaimInSync, LookupInSync, MoveSubscriptionInSync, MoveTenantInSync, StoppingInSync
     DEF Delivers
<1>3. CASE Operates /\ UNCHANGED <<vendor, acked, tab, sub, ledger, delivery, landed, lost>>
  BY <1>3, OperatesInSync
<1>4. CASE UNCHANGED vars
  BY <1>4 DEF InSync, MovedIsCurrent, Repairable, Pending, Underway, InTheMiddle, CycleTier,
     GateTier, vars
<1>. QED
  BY <1>1, <1>2, <1>3, <1>4 DEF Next, billing, elsewhere

-----------------------------------------------------------------------------
\* Type correctness, for any number of events, containers, tabs and customers.
THEOREM TypeCorrect == Spec => []TypeOK
<1>1. IInv => TypeOK
  BY DEF IInv
<1>. QED
  BY <1>1, Invariance, PTL

\* No delivery fails to find the account it is about.
THEOREM OwnersAreFound == Spec => []EventsFindTheirAccount
<1>1. IInv => EventsFindTheirAccount
  BY DEF IInv, Accounted, EventsFindTheirAccount, Unclaimed
<1>. QED
  BY <1>1, Invariance, PTL

\* The newest event that landed rules, whatever the order of delivery.
THEOREM RecencyRules == Spec => []NewestRules
<1>1. IInv => NewestRules
  BY DEF IInv, LandedBefore, Newest, NewestRules
<1>. QED
  BY <1>1, Invariance, PTL

\* An answered event is in the subscription, or was given up by name.
THEOREM AnswersAreHonest == Spec => []AnsweredMeansLanded
<1>1. IInv => AnsweredMeansLanded
  BY DEF IInv, TypeOK, Accounted, Answered, LandedBefore, AnsweredMeansLanded
<1>. QED
  BY <1>1, Invariance, PTL

\* The two readers see one tier whenever nothing is in flight and nothing
\* excuses a difference: what is pending then would still be unanswered.
THEOREM TiersAgree == Spec => []ReadersAgree
<1>1. Spec => []InSync
  <2>1. Init => InSync
    BY InitInSync
  <2>2. IInv /\ InSync /\ [Next]_vars => InSync'
    BY NextInSync
  <2>. QED
    BY <2>1, <2>2, Invariance, PTL DEF Spec
<1>2. IInv /\ InSync => ReadersAgree
  <2>. SUFFICES ASSUME IInv, InSync, \A d \in Deliveries : delivery[d] = Idle,
                       \A e \in Events : sent[e] # Unsent => e \in acked, astray = {}
                PROVE  CycleTier = GateTier
    BY DEF ReadersAgree
  <2>1. \A e \in Events : ~Underway(e)
    <3>1. \A d \in Deliveries : ~InTheMiddle(d)
      BY MiddleHasEvent DEF IInv
    <3>. QED
      BY <3>1 DEF Underway
  <2>2. \A e \in Events : ~Pending(e)
    BY <2>1 DEF Pending, IInv, LandedBefore
  <2>. QED
    BY <2>2 DEF InSync, Repairable
<1>. QED
  BY <1>1, <1>2, Invariance, PTL
=============================================================================
