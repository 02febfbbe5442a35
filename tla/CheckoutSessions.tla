-------------------------- MODULE CheckoutSessions --------------------------
(***************************************************************************)
(* A cart with a subscription in it is paid in a Checkout Session, which   *)
(* Stripe keeps with the items it was made of while the user may go on     *)
(* editing the cart, open another session, or place an ordinary order.     *)
(* When a session has been paid, the handler of checkout.session.completed *)
(* looks for the user's active cart, makes a completed order of the        *)
(* one-time items it finds there, and converts the cart. One user. The     *)
(* theorems of ShoppingCart_proofs say, for any number of sessions, carts, *)
(* edits and faults, that a paid session left alone gets its one order,    *)
(* and that a second order of a cart costs an overlap or a fault.          *)
(***************************************************************************)
EXTENDS Naturals, FiniteSets, Sequences

CONSTANTS
    Plans,        \* recurring products
    Goods,        \* one-time products
    MaxSessions, MaxEdits, MaxCarts,
    MaxMishaps    \* handlers cut off, orders that cannot be written

VARIABLES
    active,     \* number of the active cart, 0 if there is none
    items,      \* each cart made: the products in it
    sessions,   \* at Stripe: items, paid or not; and the steps of the handler, with what it read
    made,       \* orders made of sessions: of which, with what, from which cart
    edits, mishaps,
    disturbed,  \* history: sessions whose cart has been edited or taken by somebody else since
    collisions  \* history: how often a handler has looked while another was at work

sessionVars == <<active, items, sessions, made, edits, mishaps, disturbed, collisions>>

-----------------------------------------------------------------------------
(* The user *)

SessionsInit ==
    /\ active = 0 /\ items = <<>>
    /\ sessions = <<>> /\ made = <<>>
    /\ edits = 0 /\ mishaps = 0 /\ disturbed = {} /\ collisions = 0

\* Sessions made of the cart given.
Of(cart) == {s \in DOMAIN sessions : sessions[s].cart = cart}
\* Sessions whose handler has found it and is at work.
Taking(cart) == {s \in DOMAIN sessions : sessions[s].found = cart /\ sessions[s].todo # <<>>}

\* Adding to no cart makes one.
Add(p) ==
    /\ edits < MaxEdits /\ edits' = edits + 1
    /\ IF active = 0
       THEN /\ Len(items) < MaxCarts
            /\ items' = Append(items, {p}) /\ active' = Len(items')
            /\ UNCHANGED disturbed
       ELSE /\ p \notin items[active]
            /\ items' = [items EXCEPT ![active] = @ \cup {p}]
            /\ disturbed' = disturbed \cup Of(active)
            /\ UNCHANGED active
    /\ UNCHANGED <<sessions, made, mishaps, collisions>>

Remove(p) ==
    /\ edits < MaxEdits /\ edits' = edits + 1
    /\ active # 0 /\ p \in items[active]
    /\ items' = [items EXCEPT ![active] = @ \ {p}]
    /\ disturbed' = disturbed \cup Of(active)
    /\ UNCHANGED <<active, sessions, made, mishaps, collisions>>

\* create_order_from_cart, which takes plans for goods.
PlaceOrder ==
    /\ active # 0 /\ items[active] # {}
    /\ active' = 0
    /\ disturbed' = disturbed \cup Of(active)
    /\ UNCHANGED <<items, sessions, made, edits, mishaps, collisions>>

\* create_subscription_checkout_session; Stripe makes none in mode 'subscription' without a plan.
OpenSession ==
    /\ Len(sessions) < MaxSessions
    /\ active # 0 /\ items[active] \cap Plans # {}
    /\ sessions' = Append(sessions, [cart |-> active, items |-> items[active], paid |-> FALSE,
                                     todo |-> <<>>, found |-> 0, read |-> {}])
    /\ disturbed' = IF Of(active) = {} /\ Taking(active) = {} THEN disturbed
                    ELSE disturbed \cup Of(active) \cup {Len(sessions')}
    /\ UNCHANGED <<active, items, made, edits, mishaps, collisions>>

PaySession(s) ==
    /\ ~sessions[s].paid
    /\ sessions' = [sessions EXCEPT ![s].paid = TRUE, ![s].todo = <<"look", "order", "convert">>]
    /\ UNCHANGED <<active, items, made, edits, mishaps, disturbed, collisions>>

-----------------------------------------------------------------------------
(* _handle_checkout_session_completed *)

Stands(s, step) == sessions[s].todo # <<>> /\ Head(sessions[s].todo) = step
AtWork(s) == Stands(s, "order") \/ Stands(s, "convert")
Moved(s) == [sessions EXCEPT ![s].todo = Tail(@)]
Over(s) == [sessions EXCEPT ![s].todo = <<>>]

\* The cart is whichever is active now; without one there is nothing to do.
LookForCart(s) ==
    /\ Stands(s, "look")
    /\ sessions' = IF active = 0 THEN Over(s)
                   ELSE [Moved(s) EXCEPT ![s].found = active, ![s].read = items[active]]
    /\ disturbed' = disturbed \cup (Of(active) \ {s})
    /\ collisions' = collisions + IF \E q \in DOMAIN sessions : AtWork(q) THEN 1 ELSE 0
    /\ UNCHANGED <<active, items, made, edits, mishaps>>

\* Mutant of Bought: whatever is in the cart is ordered.
BoughtAll(found) == found

Bought(found) == found \cap Goods

\* _create_order_from_session; stock is reserved as in StockReservation.
Order(s) ==
    /\ Stands(s, "order")
    /\ made' = IF Bought(sessions[s].read) = {} THEN made
                 ELSE Append(made, [session |-> s, cart |-> sessions[s].found, items |-> Bought(sessions[s].read)])
    /\ sessions' = Moved(s)
    /\ UNCHANGED <<active, items, edits, mishaps, disturbed, collisions>>

\* The exception is logged; unless it has broken the transaction, the cart is converted all the same.
OrderFails(s) ==
    /\ Stands(s, "order") /\ mishaps < MaxMishaps
    /\ sessions' \in {Moved(s), Over(s)}
    /\ mishaps' = mishaps + 1
    /\ UNCHANGED <<active, items, made, edits, disturbed, collisions>>

\* Mutant of Convert: the cart is left active.
ConvertNot(s) ==
    /\ Stands(s, "convert")
    /\ sessions' = Moved(s)
    /\ UNCHANGED <<active, items, made, edits, mishaps, disturbed, collisions>>

\* The cart it has found is converted, with what has been added since.
Convert(s) ==
    /\ Stands(s, "convert")
    /\ active' = IF active = sessions[s].found THEN 0 ELSE active
    /\ sessions' = Moved(s)
    /\ UNCHANGED <<items, made, edits, mishaps, disturbed, collisions>>

CutOff(s) ==
    /\ sessions[s].todo # <<>> /\ mishaps < MaxMishaps
    /\ sessions' = Over(s)
    /\ mishaps' = mishaps + 1
    /\ UNCHANGED <<active, items, made, edits, disturbed, collisions>>

SessionsNext ==
    \/ \E p \in Plans \cup Goods : Add(p) \/ Remove(p)
    \/ PlaceOrder \/ OpenSession
    \/ \E s \in DOMAIN sessions : PaySession(s) \/ LookForCart(s) \/ Order(s) \/ OrderFails(s) \/ Convert(s) \/ CutOff(s)

SessionsSpec == SessionsInit /\ [][SessionsNext]_sessionVars

-----------------------------------------------------------------------------
(* Properties *)

SessionsTypeOK ==
    /\ active \in 0..Len(items)
    /\ items \in Seq(SUBSET (Plans \cup Goods))
    /\ \A s \in DOMAIN sessions : sessions[s].cart \in DOMAIN items /\ sessions[s].found \in 0..Len(items)
    /\ \A o \in DOMAIN made : made[o].session \in DOMAIN sessions /\ made[o].cart \in DOMAIN items

Handled(s) == sessions[s].paid /\ sessions[s].todo = <<>>

\* The orders made of a session are what was paid in it.
OrdersOf(s) == {o \in DOMAIN made : made[o].session = s}

Ordered(s) ==
    IF sessions[s].items \cap Goods = {} THEN OrdersOf(s) = {}
    ELSE \E o \in DOMAIN made :
            /\ OrdersOf(s) = {o}
            /\ made[o] = [session |-> s, cart |-> sessions[s].cart, items |-> sessions[s].items \cap Goods]

\* A paid session whose cart nobody has edited, taken or opened again gets one order, of
\* exactly the one-time items paid in it, if there are any, unless something has failed.
PaidIsOrdered ==
    \A s \in DOMAIN sessions \ disturbed : Handled(s) /\ mishaps = 0 => Ordered(s)

\* However many sessions of a cart are paid, its goods are ordered once; another order costs
\* an overlap of two handlers or a fault.
OrdersAreCounted ==
    \A cart \in DOMAIN items :
        Cardinality({o \in DOMAIN made : made[o].cart = cart}) <= 1 + collisions + mishaps

-----------------------------------------------------------------------------
(* The inductive invariant. A session that nobody has disturbed is followed through the steps  *)
(* of its handler; a cart's orders, made and about to be made, are set against what has gone   *)
(* wrong.                                                                                      *)

ToLook == <<"look", "order", "convert">>
ToOrder == <<"order", "convert">>
ToConvert == <<"convert">>
SessionTodos == {<<>>, ToLook, ToOrder, ToConvert}

SessionRecord == [cart : Nat, items : SUBSET (Plans \cup Goods), paid : BOOLEAN,
                  todo : SessionTodos, found : Nat, read : SUBSET (Plans \cup Goods)]
OrderRecord == [session : Nat, cart : Nat, items : SUBSET Goods]

\* What is open to the handler of a session has been paid; what it has found is a cart.
Sound(s) ==
    /\ sessions[s].cart \in 1..Len(items) /\ sessions[s].found \in 0..Len(items)
    /\ ~sessions[s].paid => sessions[s].todo = <<>>
    /\ ~sessions[s].paid \/ sessions[s].todo = ToLook => sessions[s].found = 0
    /\ sessions[s].todo \in {ToOrder, ToConvert} => sessions[s].found # 0

SessionsTyped ==
    /\ items \in Seq(SUBSET (Plans \cup Goods)) /\ active \in 0..Len(items)
    /\ sessions \in Seq(SessionRecord) /\ \A s \in DOMAIN sessions : Sound(s)
    /\ made \in Seq(OrderRecord)
    /\ \A o \in DOMAIN made : made[o].session \in DOMAIN sessions /\ made[o].cart \in 1..Len(items)
    /\ mishaps \in Nat /\ collisions \in Nat

\* Until its handler looks, the cart of a session left alone is active, as it was, and nobody
\* else's; then the handler holds it, and then the order is there.
Awaiting(s) == ~sessions[s].paid \/ sessions[s].todo = ToLook
LeftAlone(s) ==
    /\ Awaiting(s) =>
          active = sessions[s].cart /\ items[active] = sessions[s].items /\ Taking(active) = {}
    /\ sessions[s].todo = ToOrder =>
          sessions[s].found = sessions[s].cart /\ sessions[s].read = sessions[s].items
    /\ IF Awaiting(s) \/ sessions[s].todo = ToOrder THEN OrdersOf(s) = {} ELSE Ordered(s)

AloneIsOrdered == mishaps = 0 => \A s \in DOMAIN sessions \ disturbed : LeftAlone(s)

FromCart(c) == {o \in DOMAIN made : made[o].cart = c}
Ordering(c) == {s \in DOMAIN sessions : sessions[s].todo = ToOrder /\ sessions[s].found = c}
Busy(c) == \E s \in DOMAIN sessions : sessions[s].todo \in {ToOrder, ToConvert} /\ sessions[s].found = c

\* An active cart that nobody is at work on has been ordered only by overlaps and faults.
Covered(c) ==
    Cardinality(FromCart(c)) + Cardinality(Ordering(c)) <=
        collisions + mishaps + IF c = active /\ ~Busy(c) THEN 0 ELSE 1

CartsCounted == \A c \in DOMAIN items : Covered(c)

SessionsInv == SessionsTyped /\ AloneIsOrdered /\ CartsCounted

=============================================================================
