--------------------------- MODULE OrderLifecycle ---------------------------
(***************************************************************************)
(* One order from cart to settlement, and everybody who moves it:          *)
(*                                                                         *)
(*   the checkout request (checkout_service.checkout), a sequence of       *)
(*   database transactions and Stripe calls in one HTTP request;           *)
(*   the customer, who confirms the PaymentIntent with Stripe, as often as *)
(*   Stripe lets her;                                                      *)
(*   Stripe, which reports every attempt as an event and delivers events   *)
(*   in any order, repeatedly, until they are acknowledged;                *)
(*   the webhook receiver (webhook_service), which records an event and    *)
(*   then runs its handler, transaction by transaction;                    *)
(*   the stale-order reaper of each worker process (order_reaper).         *)
(*                                                                         *)
(* A step is one committed transaction or one call to Stripe. An order is  *)
(* identified with the request that makes it. All orders want one unit of  *)
(* the same variant: StockReservation is where lines, locks and partial    *)
(* reservations are looked at, and shows that one reservation is one step. *)
(***************************************************************************)
EXTENDS Integers, FiniteSets

CONSTANTS
    Requests,       \* checkout requests, and the orders they make
    Carts,
    CartOf,         \* [Requests -> Carts]
    Free,           \* requests whose discount covers the whole price
    Reapers,        \* one per worker process
    OrderStatuses,  \* the CHECK constraint on ecommerce.orders.status
    InitialStock,
    MaxAttempts,    \* bound: payment attempts per PaymentIntent
    MaxCrashes      \* bound: cut-off requests and handlers
CONSTANT NoOrder

ASSUME CartsAreNamed == CartOf \in [Requests -> Carts] /\ Free \subseteq Requests
ASSUME BoundsAreNaturals == InitialStock \in Nat /\ MaxAttempts \in Nat /\ MaxCrashes \in Nat
ASSUME NoOrderIsNone == NoOrder \notin Requests

\* Migration 002, table orders: CHECK (status IN (...)).
MigratedStatuses ==
    {"pending", "processing", "accepted", "completed", "rejected", "refunded"}

VARIABLES
    stock,      \* product_variants.stock_quantity
    cart,       \* status of each cart
    pc,         \* where each checkout request is
    order,      \* orders.status, "none" before the row exists
    taken,      \* units each order has taken from stock and not returned
    payment,    \* payment_records.status, "none" before the row exists
    intent,     \* the PaymentIntent at Stripe
    tries,      \* payment attempts made on it
    sent,       \* events Stripe has to deliver
    inbox,      \* webhook_events: events recorded as seen
    fresh,      \* recorded, handler not begun
    half,       \* handler between its two transactions
    due,        \* rows a reaper has selected and not dealt with
    cancels,    \* order whose intent a reaper is about to cancel
    crashes

requestVars == <<cart, pc>>
stripeVars == <<intent, tries, sent>>
webhookVars == <<inbox, fresh, half>>
reaperVars == <<due, cancels>>
vars == <<stock, order, taken, payment, requestVars, stripeVars, webhookVars, reaperVars, crashes>>

Event == [order : Requests, try : 1..MaxAttempts, kind : {"succeeded", "failed"}]

TypeOK ==
    /\ stock \in Int
    /\ cart \in [Carts -> {"active", "converted"}]
    /\ pc \in [Requests -> {"start", "read", "ordered", "intent", "recorded", "undoing", "done", "failed"}]
    /\ order \in [Requests -> {"none", "pending", "processing", "completed", "rejected", "expired"}]
    /\ taken \in [Requests -> Int]
    /\ payment \in [Requests -> {"none", "pending", "succeeded", "failed", "expired"}]
    /\ intent \in [Requests -> {"none", "open", "succeeded", "canceled"}]
    /\ tries \in [Requests -> Nat]
    /\ sent \subseteq Event
    /\ inbox \subseteq sent /\ fresh \subseteq inbox /\ half \subseteq inbox
    /\ due \in [Reapers -> SUBSET Requests]
    /\ cancels \in [Reapers -> Requests \cup {NoOrder}]
    /\ crashes \in Nat

Init ==
    /\ stock = InitialStock
    /\ cart = [c \in Carts |-> "active"]
    /\ pc = [r \in Requests |-> "start"]
    /\ order = [r \in Requests |-> "none"]
    /\ taken = [r \in Requests |-> 0]
    /\ payment = [r \in Requests |-> "none"]
    /\ intent = [r \in Requests |-> "none"]
    /\ tries = [r \in Requests |-> 0]
    /\ sent = {} /\ inbox = {} /\ fresh = {} /\ half = {}
    /\ due = [p \in Reapers |-> {}]
    /\ cancels = [p \in Reapers |-> NoOrder]
    /\ crashes = 0

Goto(r, at) == pc' = [pc EXCEPT ![r] = at]
SetOrder(r, status) == order' = [order EXCEPT ![r] = status]
SetPayment(r, status) == payment' = [payment EXCEPT ![r] = status]

\* release_stock on the order's lines: unconditional.
ReturnStock(r) ==
    /\ stock' = stock + 1
    /\ taken' = [taken EXCEPT ![r] = @ - 1]

-----------------------------------------------------------------------------
(* checkout_service.checkout *)

\* create_order_from_cart reads the active cart; no lock is taken on it.
ReadCart(r) ==
    /\ pc[r] = "start"
    /\ Goto(r, IF cart[CartOf[r]] = "active" THEN "read" ELSE "failed")
    /\ UNCHANGED <<stock, order, taken, payment, cart, stripeVars, webhookVars, reaperVars, crashes>>

\* Mutant of PlaceOrder: the order is placed without looking at the shelf.
PlaceOrderUnchecked(r) ==
    /\ pc[r] = "read"
    /\ stock' = stock - 1
    /\ taken' = [taken EXCEPT ![r] = 1]
    /\ SetOrder(r, "pending")
    /\ cart' = [cart EXCEPT ![CartOf[r]] = "converted"]
    /\ Goto(r, "ordered")
    /\ UNCHANGED <<payment, stripeVars, webhookVars, reaperVars, crashes>>

\* Mutant of PlaceOrder: the cart stays active until it is paid.
PlaceOrderKeepingCart(r) ==
    /\ pc[r] = "read"
    /\ stock >= 1
    /\ stock' = stock - 1
    /\ taken' = [taken EXCEPT ![r] = 1]
    /\ SetOrder(r, "pending")
    /\ Goto(r, "ordered")
    /\ UNCHANGED <<payment, cart, stripeVars, webhookVars, reaperVars, crashes>>

\* ... reserves the stock, inserts the order, converts the cart and commits.
PlaceOrder(r) ==
    /\ pc[r] = "read"
    /\ stock >= 1
    /\ stock' = stock - 1
    /\ taken' = [taken EXCEPT ![r] = 1]
    /\ SetOrder(r, "pending")
    /\ cart' = [cart EXCEPT ![CartOf[r]] = "converted"]
    /\ Goto(r, "ordered")
    /\ UNCHANGED <<payment, stripeVars, webhookVars, reaperVars, crashes>>

\* ... or finds too little stock: ValueError, the request ends.
RefuseOrder(r) ==
    /\ pc[r] = "read"
    /\ stock < 1
    /\ Goto(r, "failed")
    /\ UNCHANGED <<stock, order, taken, payment, cart, stripeVars, webhookVars, reaperVars, crashes>>

\* Nothing to pay: the order is complete.
CompleteFree(r) ==
    /\ pc[r] = "ordered"
    /\ r \in Free
    /\ SetOrder(r, "completed")
    /\ Goto(r, "done")
    /\ UNCHANGED <<stock, taken, payment, cart, stripeVars, webhookVars, reaperVars, crashes>>

\* Resolving the Stripe customer raises; no except clause covers it.
CustomerFails(r) ==
    /\ pc[r] = "ordered"
    /\ r \notin Free
    /\ Goto(r, "failed")
    /\ UNCHANGED <<stock, order, taken, payment, cart, stripeVars, webhookVars, reaperVars, crashes>>

\* provider.create_payment.
CreateIntent(r) ==
    /\ pc[r] = "ordered"
    /\ r \notin Free
    /\ intent' = [intent EXCEPT ![r] = "open"]
    /\ Goto(r, "intent")
    /\ UNCHANGED <<stock, order, taken, payment, cart, tries, sent, webhookVars, reaperVars, crashes>>

\* Mutant of IntentFails: the release is forgotten.
IntentFailsKeepingStock(r) ==
    /\ pc[r] = "ordered"
    /\ r \notin Free
    /\ Goto(r, "undoing")
    /\ UNCHANGED <<stock, taken, order, payment, cart, stripeVars, webhookVars, reaperVars, crashes>>

\* create_payment raises: _release_order_inventory commits the release ...
IntentFails(r) ==
    /\ pc[r] = "ordered"
    /\ r \notin Free
    /\ ReturnStock(r)
    /\ Goto(r, "undoing")
    /\ UNCHANGED <<order, payment, cart, stripeVars, webhookVars, reaperVars, crashes>>

\* ... and a second transaction rejects the order.
RejectOrder(r) ==
    /\ pc[r] = "undoing"
    /\ SetOrder(r, "rejected")
    /\ Goto(r, "failed")
    /\ UNCHANGED <<stock, taken, payment, cart, stripeVars, webhookVars, reaperVars, crashes>>

\* create_payment_record; from here GET /orders/{id}/payment can hand out the
\* client secret.
RecordPayment(r) ==
    /\ pc[r] = "intent"
    /\ SetPayment(r, "pending")
    /\ Goto(r, "recorded")
    /\ UNCHANGED <<stock, order, taken, cart, stripeVars, webhookVars, reaperVars, crashes>>

\* update_order_status(..., "processing"), whatever the status is by now.
MarkProcessing(r) ==
    /\ pc[r] = "recorded"
    /\ SetOrder(r, "processing")
    /\ Goto(r, "done")
    /\ UNCHANGED <<stock, taken, payment, cart, stripeVars, webhookVars, reaperVars, crashes>>

\* The request is cut off: the worker dies or a database call fails.
CutOffRequest(r) ==
    /\ pc[r] \notin {"start", "done", "failed"}
    /\ crashes < MaxCrashes
    /\ crashes' = crashes + 1
    /\ Goto(r, "failed")
    /\ UNCHANGED <<stock, order, taken, payment, cart, stripeVars, webhookVars, reaperVars>>

-----------------------------------------------------------------------------
(* The customer and Stripe (external) *)

Attempt(r, kind) ==
    /\ intent[r] = "open"
    /\ payment[r] # "none"          \* somebody could hand her the secret
    /\ tries[r] < MaxAttempts
    /\ tries' = [tries EXCEPT ![r] = @ + 1]
    /\ sent' = sent \cup {[order |-> r, try |-> tries[r] + 1, kind |-> kind]}
    /\ UNCHANGED <<stock, order, taken, payment, requestVars, webhookVars, reaperVars, crashes>>

\* A declined card leaves the intent open for another attempt.
Decline(r) == Attempt(r, "failed") /\ UNCHANGED intent

Pay(r) == Attempt(r, "succeeded") /\ intent' = [intent EXCEPT ![r] = "succeeded"]

-----------------------------------------------------------------------------
(* webhook_service *)

\* Mutant of Receive: no idempotency check.
ReceiveAgain(e) ==
    /\ e \in sent
    /\ inbox' = inbox \cup {e}
    /\ fresh' = fresh \cup {e}
    /\ UNCHANGED <<half, stock, order, taken, payment, requestVars, stripeVars, reaperVars, crashes>>

\* Look the event up, insert it into webhook_events and commit. The UNIQUE
\* constraint turns away a delivery that races with another one.
Receive(e) ==
    /\ e \in sent \ inbox
    /\ inbox' = inbox \cup {e}
    /\ fresh' = fresh \cup {e}
    /\ UNCHANGED <<half, stock, order, taken, payment, requestVars, stripeVars, reaperVars, crashes>>

\* Both handlers begin with update_payment_status, a transaction of its own.
MarkPayment(e) ==
    /\ e \in fresh
    /\ payment[e.order] # "none"
    /\ SetPayment(e.order, e.kind)
    /\ fresh' = fresh \ {e}
    /\ half' = half \cup {e}
    /\ UNCHANGED <<inbox, stock, order, taken, requestVars, stripeVars, reaperVars, crashes>>

\* Mutant of SettleSucceeded: only an order in processing is completed.
SettleIfProcessing(e) ==
    /\ e \in half
    /\ e.kind = "succeeded"
    /\ order' = [order EXCEPT ![e.order] = IF @ = "processing" THEN "completed" ELSE @]
    /\ half' = half \ {e}
    /\ UNCHANGED <<inbox, fresh, stock, taken, payment, requestVars, stripeVars, reaperVars, crashes>>

\* _handle_payment_succeeded: update_order_status(..., "completed").
SettleSucceeded(e) ==
    /\ e \in half
    /\ e.kind = "succeeded"
    /\ SetOrder(e.order, "completed")
    /\ half' = half \ {e}
    /\ UNCHANGED <<inbox, fresh, stock, taken, payment, requestVars, stripeVars, reaperVars, crashes>>

\* Mutant of SettleFailed: the order is completed on either event.
SettleFailedAsPaid(e) ==
    /\ e \in half
    /\ e.kind = "failed"
    /\ SetOrder(e.order, "completed")
    /\ half' = half \ {e}
    /\ UNCHANGED <<inbox, fresh, stock, taken, payment, requestVars, stripeVars, reaperVars, crashes>>

\* _handle_payment_failed: release every line and reject the order, together.
SettleFailed(e) ==
    /\ e \in half
    /\ e.kind = "failed"
    /\ ReturnStock(e.order)
    /\ SetOrder(e.order, "rejected")
    /\ half' = half \ {e}
    /\ UNCHANGED <<inbox, fresh, payment, requestVars, stripeVars, reaperVars, crashes>>

\* The handler is cut off or raises: the error is logged, the event stays
\* recorded and is never handled again.
LoseEvent(e) ==
    /\ e \in fresh \cup half
    /\ crashes < MaxCrashes
    /\ crashes' = crashes + 1
    /\ fresh' = fresh \ {e}
    /\ half' = half \ {e}
    /\ UNCHANGED <<inbox, stock, order, taken, payment, requestVars, stripeVars, reaperVars>>

-----------------------------------------------------------------------------
(* order_reaper.reap_stale_orders *)

\* SELECT the orders in 'processing' for longer than the timeout. Time is not
\* modelled: any of them may be old enough.
Select(p) ==
    /\ due[p] = {} /\ cancels[p] = NoOrder
    /\ \E S \in SUBSET {r \in Requests : order[r] = "processing"} :
            S # {} /\ due' = [due EXCEPT ![p] = S]
    /\ UNCHANGED <<stock, order, taken, payment, cancels, requestVars, stripeVars, webhookVars, crashes>>

Picks(p, r) ==
    /\ r \in due[p]
    /\ cancels[p] = NoOrder
    /\ due' = [due EXCEPT ![p] = @ \ {r}]

\* Mutant of Reap: the stock is not put back.
ReapKeepingStock(p, r) ==
    /\ Picks(p, r)
    /\ "expired" \in OrderStatuses
    /\ SetOrder(r, "expired")
    /\ payment' = [payment EXCEPT ![r] = IF @ = "none" THEN @ ELSE "expired"]
    /\ cancels' = [cancels EXCEPT ![p] = IF payment[r] = "none" THEN NoOrder ELSE r]
    /\ UNCHANGED <<stock, taken, requestVars, stripeVars, webhookVars, crashes>>

\* Mutant of Reap: the transaction is never committed.
ReapUncommitted(p, r) ==
    /\ Picks(p, r)
    /\ "expired" \in OrderStatuses
    /\ UNCHANGED <<stock, order, taken, payment, cancels, requestVars, stripeVars, webhookVars, crashes>>

\* One transaction per row: release, expire the order and its payment. The
\* status the order has by now is not looked at.
Reap(p, r) ==
    /\ Picks(p, r)
    /\ "expired" \in OrderStatuses
    /\ ReturnStock(r)
    /\ SetOrder(r, "expired")
    /\ payment' = [payment EXCEPT ![r] = IF @ = "none" THEN @ ELSE "expired"]
    /\ cancels' = [cancels EXCEPT ![p] = IF payment[r] = "none" THEN NoOrder ELSE r]
    /\ UNCHANGED <<requestVars, stripeVars, webhookVars, crashes>>

\* The CHECK constraint refuses the status: exception, rollback, next row.
ReapFails(p, r) ==
    /\ Picks(p, r)
    /\ "expired" \notin OrderStatuses
    /\ UNCHANGED <<stock, order, taken, payment, cancels, requestVars, stripeVars, webhookVars, crashes>>

\* cancel_payment, best effort: Stripe refuses unless the intent is open.
CancelIntent(p) ==
    /\ cancels[p] # NoOrder
    /\ intent' = [intent EXCEPT ![cancels[p]] = IF @ = "open" THEN "canceled" ELSE @]
    /\ cancels' = [cancels EXCEPT ![p] = NoOrder]
    /\ UNCHANGED <<stock, order, taken, payment, due, tries, sent, requestVars, webhookVars, crashes>>

-----------------------------------------------------------------------------

Checkout(r) ==
    \/ ReadCart(r) \/ PlaceOrder(r) \/ RefuseOrder(r) \/ CompleteFree(r) \/ CustomerFails(r)
    \/ CreateIntent(r) \/ IntentFails(r) \/ RejectOrder(r) \/ RecordPayment(r) \/ MarkProcessing(r)

Handle(e) == MarkPayment(e) \/ SettleSucceeded(e) \/ SettleFailed(e)

Sweep(p, r) == Reap(p, r) \/ ReapFails(p, r)

Next ==
    \/ \E r \in Requests : Checkout(r) \/ CutOffRequest(r) \/ Decline(r) \/ Pay(r)
    \/ \E e \in sent : Receive(e) \/ Handle(e) \/ LoseEvent(e)
    \/ \E p \in Reapers : Select(p) \/ CancelIntent(p) \/ \E r \in Requests : Sweep(p, r)

Spec == Init /\ [][Next]_vars

\* A request that is not cut off finishes; Stripe redelivers until an event is
\* recorded; a handler that is not cut off finishes; the reaper loop runs on.
\* The customer owes nothing.
Fairness ==
    /\ \A r \in Requests : WF_vars(Checkout(r))
    /\ \A e \in Event : WF_vars(Receive(e)) /\ WF_vars(Handle(e))
    /\ \A p \in Reapers :
        /\ WF_vars(Select(p)) /\ WF_vars(CancelIntent(p))
        /\ \A r \in Requests : WF_vars(Sweep(p, r))

FairSpec == Spec /\ Fairness

-----------------------------------------------------------------------------
(* Safety *)

\* Nobody gets an order completed without paying: it was free, or Stripe has
\* the money. No reordering, repetition or cut-off of events undermines this.
CompletedWasPaid ==
    \A r \in Requests : order[r] = "completed" => r \in Free \/ intent[r] = "succeeded"

\* A rejected order keeps no units back, on either path that rejects one.
RejectedReturnedStock == \A r \in Requests : order[r] = "rejected" => taken[r] <= 0

\* Every return of stock is earned by a decline of its own (or by Stripe having
\* refused to make the intent): redelivery never returns a unit again.
Declines(r) == {e \in inbox : e.order = r /\ e.kind = "failed"}
ReturnsAreEarned ==
    \A r \in Requests : order[r] # "none" =>
        1 - taken[r] <= Cardinality(Declines(r)) + (IF intent[r] = "none" THEN 1 ELSE 0)

\* No more orders are completed than there were units (docs/phases/phase-5.md:
\* "Inventory tracking prevents overselling").
SoldWithinStock == Cardinality({r \in Requests : order[r] = "completed"}) <= InitialStock

\* An order the reaper has expired keeps no units back.
ExpiredReturnedStock == \A r \in Requests : order[r] = "expired" => taken[r] <= 0

\* A second checkout of a cart slips in only before the first has placed its
\* order (docs/phases/phase-4.md: "On payment success: ... cart status ->
\* converted"; create_order_from_cart converts it already with the order).
LateCheckoutRefused ==
    [][\A r, q \in Requests :
        pc[r] = "start" /\ pc'[r] = "read" /\ CartOf[q] = CartOf[r] => order[q] = "none"]_vars

\* What is done is not done again: a cart whose order is placed is not checked out, and no report
\* of Stripe's, however often it is delivered, returns stock that it has returned.
NothingTwice == LateCheckoutRefused /\ []ReturnsAreEarned

-----------------------------------------------------------------------------
(* Liveness *)

\* Once Stripe has the money the order is completed at some time, however late,
\* often and in whatever order the events arrive (docs/phases/phase-4.md:
\* "payment_intent.succeeded webhook updates order to completed"). Only a
\* request or handler that is cut off can prevent it.
SettlesUnlessCutOff ==
    \A r \in Requests :
        <>(intent[r] = "succeeded") => <>(order[r] = "completed" \/ crashes > 0)

\* No order stays in processing: who does not pay loses it, and what it has
\* taken from the shelf, to the reaper
\* (docs/guides/stripe-setup.md, Stale Order Reaper). It takes a schema that
\* admits 'expired'; under the migrated one only ReapFails ever happens.
StaleOrderExpires ==
    /\ []ExpiredReturnedStock
    /\ \A r \in Requests : order[r] = "processing" ~> order[r] # "processing"

-----------------------------------------------------------------------------
(* The inductive invariant behind the theorems *)

\* Stripe reports only what happened, and only about intents it made.
EventsAreTrue ==
    \A e \in sent : e.kind = "succeeded" => intent[e.order] = "succeeded"

\* Before its order is placed, a request has left no trace; units are taken
\* once, and given up before the order is rejected.
PlacedOnce ==
    \A r \in Requests :
        /\ taken[r] <= 1
        /\ pc[r] \in {"start", "read"} =>
            order[r] = "none" /\ payment[r] = "none" /\ intent[r] = "none" /\ taken[r] = 0
        /\ pc[r] = "ordered" => payment[r] = "none"
        /\ pc[r] = "undoing" => taken[r] <= 0
        /\ payment[r] = "none" => intent[r] # "succeeded"

\* Events and reapers are only ever about orders that have been placed.
OnlyPlacedOrders ==
    /\ \A e \in sent : payment[e.order] # "none"
    /\ \A p \in Reapers : \A r \in due[p] \cup ({cancels[p]} \ {NoOrder}) :
            pc[r] \notin {"start", "read"}

IInv ==
    /\ TypeOK
    /\ EventsAreTrue
    /\ PlacedOnce
    /\ OnlyPlacedOrders
    /\ CompletedWasPaid
    /\ RejectedReturnedStock

\* What has no order yet has taken nothing and cost nobody anything; what has one has its cart
\* converted, and is all that a reaper may have selected.
OrdersHaveCarts ==
    /\ \A r \in Requests :
        /\ order[r] = "none" => /\ pc[r] \in {"start", "read", "failed"}
                               /\ taken[r] = 0 /\ payment[r] = "none" /\ intent[r] = "none"
        /\ order[r] # "none" => cart[CartOf[r]] = "converted"
        /\ pc[r] = "ordered" => intent[r] = "none"
    /\ \A p \in Reapers : \A r \in due[p] : order[r] # "none"

\* Declines whose handler is through with them, or was cut off: each may have returned a unit.
Settled(r) == Declines(r) \ (fresh \cup half)

\* Stripe has refused to make the intent, and the unit was given up for it.
Refused(r) == intent[r] = "none" /\ pc[r] \in {"undoing", "failed"}
ReturnIsSettled(r) ==
    order[r] # "none" => 1 - taken[r] <= Cardinality(Settled(r)) + (IF Refused(r) THEN 1 ELSE 0)
ReturnsAreSettled ==
    /\ IsFiniteSet(sent) /\ fresh \cap half = {}
    /\ \A r \in Requests : ReturnIsSettled(r)

\* With one attempt per intent: Stripe has one thing to say of an order, which has its unit until
\* that is a decline, settled, or there is no intent; and what is not on the shelf has an order.
Holders == {r \in Requests : taken[r] = 1}
OneAnswer ==
    /\ \A e \in sent : tries[e.order] >= 1 /\ intent[e.order] # "none"
    /\ \A e, f \in sent : e.order = f.order => e = f
HeldUntilDeclined ==
    \A r \in Requests :
        /\ order[r] = "completed" => taken[r] = 1
        /\ order[r] # "none" /\ taken[r] # 1 =>
            /\ taken[r] = 0
            /\ Refused(r) \/ Settled(r) # {}
ShelfAndHolders ==
    /\ IsFiniteSet(Holders)
    /\ stock \in Nat /\ stock + Cardinality(Holders) = InitialStock
=============================================================================
