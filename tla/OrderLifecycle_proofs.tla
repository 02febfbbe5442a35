------------------------ MODULE OrderLifecycle_proofs ------------------------
(***************************************************************************)
(* For any number of requests, carts, reapers, payment attempts and        *)
(* cut-offs, and for either CHECK constraint on orders.status: an order is *)
(* completed only if it was free or paid, and a rejected order has given   *)
(* its stock back. One lemma per actor, one step per action.               *)
(***************************************************************************)
EXTENDS OrderLifecycle, FiniteSetTheorems, TLAPS

\* The program starts in a state of the invariant: empty tables, no events.
LEMMA InitKeeps == Init => IInv
  BY CartsAreNamed, BoundsAreNaturals, NoOrderIsNone
  DEF Init, IInv, TypeOK, EventsAreTrue, PlacedOnce, OnlyPlacedOrders, CompletedWasPaid,
      RejectedReturnedStock

\* Every step of a checkout request, the one that cuts it off included.
LEMMA CheckoutKeeps ==
    ASSUME IInv, NEW r \in Requests, Checkout(r) \/ CutOffRequest(r)
    PROVE  IInv'
<1> USE CartsAreNamed, BoundsAreNaturals, NoOrderIsNone
    DEF IInv, TypeOK, EventsAreTrue, PlacedOnce, OnlyPlacedOrders,
       CompletedWasPaid, RejectedReturnedStock,
       requestVars, stripeVars, webhookVars, reaperVars
<1>1. CASE ReadCart(r)
  BY <1>1 DEF ReadCart, Goto
<1>2. CASE PlaceOrder(r)
  BY <1>2 DEF PlaceOrder, Goto, SetOrder
<1>3. CASE RefuseOrder(r)
  BY <1>3 DEF RefuseOrder, Goto
<1>4. CASE CompleteFree(r)
  BY <1>4 DEF CompleteFree, Goto, SetOrder
<1>5. CASE CustomerFails(r)
  BY <1>5 DEF CustomerFails, Goto
<1>6. CASE CreateIntent(r)
  BY <1>6 DEF CreateIntent, Goto
<1>7. CASE IntentFails(r)
  BY <1>7 DEF IntentFails, Goto, ReturnStock
<1>8. CASE RejectOrder(r)
  BY <1>8 DEF RejectOrder, Goto, SetOrder
<1>9. CASE RecordPayment(r)
  BY <1>9 DEF RecordPayment, Goto, SetPayment
<1>10. CASE MarkProcessing(r)
  BY <1>10 DEF MarkProcessing, Goto, SetOrder
<1>11. CASE CutOffRequest(r)
  BY <1>11 DEF CutOffRequest, Goto
<1> QED
  BY <1>1, <1>2, <1>3, <1>4, <1>5, <1>6, <1>7, <1>8, <1>9, <1>10, <1>11 DEF Checkout

\* What the customer does at Stripe: a decline, a payment.
LEMMA StripeKeeps ==
    ASSUME IInv, NEW r \in Requests, Decline(r) \/ Pay(r)
    PROVE  IInv'
<1> USE CartsAreNamed, BoundsAreNaturals, NoOrderIsNone
    DEF IInv, TypeOK, EventsAreTrue, PlacedOnce, OnlyPlacedOrders,
       CompletedWasPaid, RejectedReturnedStock,
       requestVars, stripeVars, webhookVars, reaperVars
<1>1. CASE Decline(r)
  BY <1>1 DEF Decline, Attempt, Event
<1>2. CASE Pay(r)
  BY <1>2 DEF Pay, Attempt, Event
<1> QED
  BY <1>1, <1>2

\* Every step of the webhook receiver and its handlers, for every event sent.
LEMMA WebhookKeeps ==
    ASSUME IInv, NEW e \in sent, Receive(e) \/ Handle(e) \/ LoseEvent(e)
    PROVE  IInv'
<1> USE CartsAreNamed, BoundsAreNaturals, NoOrderIsNone
    DEF IInv, TypeOK, EventsAreTrue, PlacedOnce, OnlyPlacedOrders,
       CompletedWasPaid, RejectedReturnedStock,
       requestVars, stripeVars, webhookVars, reaperVars
<1>1. CASE Receive(e)
  BY <1>1 DEF Receive
<1>2. CASE MarkPayment(e)
  BY <1>2 DEF MarkPayment, SetPayment, Event
<1>3. CASE SettleSucceeded(e)
  BY <1>3 DEF SettleSucceeded, SetOrder, Event
<1>4. CASE SettleFailed(e)
  BY <1>4 DEF SettleFailed, SetOrder, ReturnStock, Event
<1>5. CASE LoseEvent(e)
  BY <1>5 DEF LoseEvent
<1> QED
  BY <1>1, <1>2, <1>3, <1>4, <1>5 DEF Handle

\* A reaper selects rows and cancels intents.
LEMMA ReaperKeeps ==
    ASSUME IInv, NEW p \in Reapers, Select(p) \/ CancelIntent(p)
    PROVE  IInv'
<1> USE CartsAreNamed, BoundsAreNaturals, NoOrderIsNone
    DEF IInv, TypeOK, EventsAreTrue, PlacedOnce, OnlyPlacedOrders,
       CompletedWasPaid, RejectedReturnedStock,
       requestVars, stripeVars, webhookVars, reaperVars
<1>1. CASE Select(p)
  BY <1>1 DEF Select
<1>2. CASE CancelIntent(p)
  BY <1>2 DEF CancelIntent
<1> QED
  BY <1>1, <1>2

\* A reaper deals with one row, under either CHECK constraint.
LEMMA SweepKeeps ==
    ASSUME IInv, NEW p \in Reapers, NEW r \in Requests, Sweep(p, r)
    PROVE  IInv'
<1> USE CartsAreNamed, BoundsAreNaturals, NoOrderIsNone
    DEF IInv, TypeOK, EventsAreTrue, PlacedOnce, OnlyPlacedOrders,
       CompletedWasPaid, RejectedReturnedStock,
       requestVars, stripeVars, webhookVars, reaperVars
<1>1. CASE Reap(p, r)
  BY <1>1 DEF Reap, Picks, SetOrder, ReturnStock
<1>2. CASE ReapFails(p, r)
  BY <1>2 DEF ReapFails, Picks
<1> QED
  BY <1>1, <1>2 DEF Sweep

\* No step leaves the invariant.
LEMMA NextKeeps == IInv /\ [Next]_vars => IInv'
<1> SUFFICES ASSUME IInv, [Next]_vars PROVE IInv'
  OBVIOUS
<1>1. CASE UNCHANGED vars
  BY <1>1 DEF vars, requestVars, stripeVars, webhookVars, reaperVars, IInv, TypeOK,
     EventsAreTrue, PlacedOnce, OnlyPlacedOrders, CompletedWasPaid, RejectedReturnedStock
<1>2. CASE \E r \in Requests : Checkout(r) \/ CutOffRequest(r) \/ Decline(r) \/ Pay(r)
  BY <1>2, CheckoutKeeps, StripeKeeps
<1>3. CASE \E e \in sent : Receive(e) \/ Handle(e) \/ LoseEvent(e)
  BY <1>3, WebhookKeeps
<1>4. CASE \E p \in Reapers : Select(p) \/ CancelIntent(p) \/ \E r \in Requests : Sweep(p, r)
  BY <1>4, ReaperKeeps, SweepKeeps
<1> QED
  BY <1>1, <1>2, <1>3, <1>4 DEF Next

\* The invariant holds in every reachable state, whatever the customer, Stripe,
\* the reapers and the cut-offs do, and in whatever order.
THEOREM Invariance == Spec => []IInv
  BY InitKeeps, NextKeeps, PTL DEF Spec

\* update_order_status(..., "completed") is only ever reached for an order that
\* is free or whose money Stripe has.
THEOREM PaidBeforeCompleted == Spec => []CompletedWasPaid
<1>1. IInv => CompletedWasPaid
  BY DEF IInv
<1> QED
  BY <1>1, Invariance, PTL

\* Both paths that reject an order have released its stock before they do.
THEOREM RejectedReleases == Spec => []RejectedReturnedStock
<1>1. IInv => RejectedReturnedStock
  BY DEF IInv
<1> QED
  BY <1>1, Invariance, PTL

-----------------------------------------------------------------------------

\* Orders, carts and what a reaper may have selected, over a step of a checkout request.
LEMMA CheckoutKeepsCarts ==
    ASSUME IInv, OrdersHaveCarts, NEW r \in Requests, Checkout(r) \/ CutOffRequest(r)
    PROVE  OrdersHaveCarts'
<1> USE CartsAreNamed
    DEF IInv, TypeOK, PlacedOnce, OrdersHaveCarts, requestVars, stripeVars, webhookVars, reaperVars
<1>1. CASE ReadCart(r)
  BY <1>1 DEF ReadCart, Goto
<1>2. CASE PlaceOrder(r)
  BY <1>2 DEF PlaceOrder, Goto, SetOrder
<1>3. CASE RefuseOrder(r)
  BY <1>3 DEF RefuseOrder, Goto
<1>4. CASE CompleteFree(r)
  BY <1>4 DEF CompleteFree, Goto, SetOrder
<1>5. CASE CustomerFails(r)
  BY <1>5 DEF CustomerFails, Goto
<1>6. CASE CreateIntent(r)
  BY <1>6 DEF CreateIntent, Goto
<1>7. CASE IntentFails(r)
  BY <1>7 DEF IntentFails, Goto, ReturnStock
<1>8. CASE RejectOrder(r)
  BY <1>8 DEF RejectOrder, Goto, SetOrder
<1>9. CASE RecordPayment(r)
  BY <1>9 DEF RecordPayment, Goto, SetPayment
<1>10. CASE MarkProcessing(r)
  BY <1>10 DEF MarkProcessing, Goto, SetOrder
<1>11. CASE CutOffRequest(r)
  BY <1>11 DEF CutOffRequest, Goto
<1> QED
  BY <1>1, <1>2, <1>3, <1>4, <1>5, <1>6, <1>7, <1>8, <1>9, <1>10, <1>11 DEF Checkout

\* The same over every step: whoever writes to an order finds it placed.
LEMMA CartsKeep == IInv /\ OrdersHaveCarts /\ [Next]_vars => OrdersHaveCarts'
<1> SUFFICES ASSUME IInv, OrdersHaveCarts, [Next]_vars PROVE OrdersHaveCarts'
  OBVIOUS
<1> USE CartsAreNamed
    DEF IInv, TypeOK, PlacedOnce, OnlyPlacedOrders, OrdersHaveCarts,
        requestVars, stripeVars, webhookVars, reaperVars
<1>1. CASE UNCHANGED vars
  BY <1>1 DEF vars
<1>2. ASSUME NEW r \in Requests, Decline(r) \/ Pay(r) PROVE OrdersHaveCarts'
  BY <1>2 DEF Decline, Pay, Attempt
<1>3. ASSUME NEW e \in sent, Receive(e) \/ LoseEvent(e) PROVE OrdersHaveCarts'
  BY <1>3 DEF Receive, LoseEvent
<1>4. ASSUME NEW e \in sent, MarkPayment(e) PROVE OrdersHaveCarts'
  BY <1>4 DEF MarkPayment, SetPayment, Event
<1>5. ASSUME NEW e \in sent, SettleSucceeded(e) PROVE OrdersHaveCarts'
  BY <1>5 DEF SettleSucceeded, SetOrder, Event
<1>6. ASSUME NEW e \in sent, SettleFailed(e) PROVE OrdersHaveCarts'
  BY <1>6 DEF SettleFailed, SetOrder, ReturnStock, Event
<1>7. ASSUME NEW p \in Reapers, Select(p) PROVE OrdersHaveCarts'
  BY <1>7 DEF Select
<1>8. ASSUME NEW p \in Reapers, CancelIntent(p) PROVE OrdersHaveCarts'
  BY <1>8 DEF CancelIntent
<1>9. ASSUME NEW p \in Reapers, NEW r \in Requests, Reap(p, r) PROVE OrdersHaveCarts'
  BY <1>9 DEF Reap, Picks, SetOrder, ReturnStock
<1>10. ASSUME NEW p \in Reapers, NEW r \in Requests, ReapFails(p, r) PROVE OrdersHaveCarts'
  BY <1>10 DEF ReapFails, Picks
<1> QED
  BY <1>1, <1>2, <1>3, <1>4, <1>5, <1>6, <1>7, <1>8, <1>9, <1>10, CheckoutKeepsCarts DEF Next, Handle, Sweep

\* Only one step makes a request go on with the cart it reads.
LEMMA OnlyReadCartReads ==
    ASSUME IInv, Next, NEW r \in Requests, pc[r] = "start", pc'[r] = "read"
    PROVE  ReadCart(r)
<1> USE DEF IInv, TypeOK, requestVars, stripeVars, webhookVars, reaperVars
<1>1. ASSUME NEW q \in Requests, Checkout(q) \/ CutOffRequest(q) PROVE ReadCart(r)
  <2>1. CASE ReadCart(q)
    BY <2>1 DEF ReadCart, Goto
  <2>2. CASE ~ReadCart(q)
    <3>1. \E at : at # "read" /\ Goto(q, at)
      BY <1>1, <2>2 DEF Checkout, PlaceOrder, RefuseOrder, CompleteFree, CustomerFails, CreateIntent,
         IntentFails, RejectOrder, RecordPayment, MarkProcessing, CutOffRequest
    <3> QED
      BY <3>1 DEF Goto
  <2> QED
    BY <2>1, <2>2
<1>2. ASSUME NEW q \in Requests, Decline(q) \/ Pay(q) PROVE FALSE
  BY <1>2 DEF Decline, Pay, Attempt
<1>3. ASSUME NEW e \in sent, Receive(e) \/ Handle(e) \/ LoseEvent(e) PROVE FALSE
  BY <1>3 DEF Receive, Handle, MarkPayment, SettleSucceeded, SettleFailed, LoseEvent
<1>4. ASSUME NEW p \in Reapers, Select(p) \/ CancelIntent(p) \/ \E q \in Requests : Sweep(p, q) PROVE FALSE
  BY <1>4 DEF Select, CancelIntent, Sweep, Reap, ReapFails
<1> QED
  BY <1>1, <1>2, <1>3, <1>4 DEF Next

\* A request that reads its cart finds it active only while no order has been made of it.
THEOREM CartsAreOrderedOnce == Spec => LateCheckoutRefused
<1> DEFINE LateRefused == \A r, q \in Requests :
        pc[r] = "start" /\ pc'[r] = "read" /\ CartOf[q] = CartOf[r] => order[q] = "none"
<1>1. Init => OrdersHaveCarts
  BY DEF Init, OrdersHaveCarts
<1>2. IInv /\ OrdersHaveCarts /\ [Next]_vars => [LateRefused]_vars
  <2> SUFFICES ASSUME IInv, OrdersHaveCarts, Next, NEW r \in Requests, NEW q \in Requests,
                      pc[r] = "start", pc'[r] = "read", CartOf[q] = CartOf[r]
               PROVE  order[q] = "none"
    OBVIOUS
  <2>1. ReadCart(r)
    BY OnlyReadCartReads
  <2>2. cart[CartOf[r]] = "active"
    BY <2>1 DEF ReadCart, Goto, IInv, TypeOK
  <2> QED
    BY <2>2 DEF OrdersHaveCarts
<1> QED
  BY <1>1, <1>2, CartsKeep, Invariance, PTL DEF Spec, LateCheckoutRefused

-----------------------------------------------------------------------------

\* The settled declines are events sent, finitely many; no step unsettles one.
LEMMA SettledAreFinite ==
    ASSUME IInv, IsFiniteSet(sent), NEW r
    PROVE  /\ IsFiniteSet(Settled(r)) /\ Cardinality(Settled(r)) \in Nat
           /\ IsFiniteSet(Declines(r)) /\ Cardinality(Declines(r)) \in Nat
           /\ Cardinality(Settled(r)) <= Cardinality(Declines(r))
<1>1. Declines(r) \subseteq sent /\ Settled(r) \subseteq Declines(r)
  BY DEF Settled, Declines, IInv, TypeOK
<1> QED
  BY <1>1, FS_Subset, FS_CardinalityType

\* A step that returns nothing for an order, unsettles no decline and leaves a refused intent
\* refused keeps what is settled of it.
LEMMA ReturnStands ==
    ASSUME IInv, IInv', ReturnsAreSettled, IsFiniteSet(sent'), NEW r \in Requests,
           order'[r] # "none" => order[r] # "none", taken'[r] = taken[r], inbox \subseteq inbox',
           (fresh' \cup half') \cap inbox \subseteq fresh \cup half,
           Refused(r) => Refused(r)'
    PROVE  ReturnIsSettled(r)'
<1>1. Settled(r) \subseteq Settled(r)'
  BY DEF Settled, Declines
<1>2. Cardinality(Settled(r)) <= Cardinality(Settled(r)')
  <2>1. IsFiniteSet(Settled(r)')
    <3>1. Settled(r)' \subseteq sent'
      BY DEF Settled, Declines, IInv, TypeOK
    <3> QED
      BY <3>1, FS_Subset
  <2> QED
    BY <1>1, <2>1, FS_Subset
<1> SUFFICES ASSUME order'[r] # "none"
             PROVE  1 - taken'[r] <= Cardinality(Settled(r)') + (IF Refused(r)' THEN 1 ELSE 0)
  BY DEF ReturnIsSettled
<1>3. 1 - taken[r] <= Cardinality(Settled(r)) + (IF Refused(r) THEN 1 ELSE 0)
  BY DEF ReturnsAreSettled, ReturnIsSettled
<1>4. /\ Cardinality(Settled(r)) \in Nat /\ Cardinality(Settled(r)') \in Nat /\ taken[r] \in Int
      /\ IsFiniteSet(Settled(r)')
  <2>1. Settled(r)' \subseteq sent'
    BY DEF Settled, Declines, IInv, TypeOK
  <2> QED
    BY <2>1, SettledAreFinite, FS_Subset, FS_CardinalityType DEF IInv, TypeOK, ReturnsAreSettled
<1>5. 1 - taken[r] <= Cardinality(Settled(r)') + (IF Refused(r)' THEN 1 ELSE 0)
  <2>1. CASE Refused(r)
    BY <1>2, <1>3, <1>4, <2>1
  <2>2. CASE ~Refused(r)
    BY <1>2, <1>3, <1>4, <2>2
  <2> QED
    BY <2>1, <2>2
<1> QED
  BY <1>5

\* A checkout request returns a unit only when Stripe refuses the intent.
LEMMA CheckoutSettles ==
    ASSUME IInv, IInv', OrdersHaveCarts, ReturnsAreSettled,
           NEW r \in Requests, Checkout(r) \/ CutOffRequest(r), NEW q \in Requests
    PROVE  ReturnIsSettled(q)'
<1> DEFINE Stands ==
        /\ sent' = sent /\ inbox' = inbox /\ fresh' = fresh /\ half' = half
        /\ order'[q] # "none" => order[q] # "none"
        /\ taken'[q] = taken[q]
        /\ Refused(q) => Refused(q)'
<1>a. Stands => ReturnIsSettled(q)'
  BY ReturnStands DEF ReturnsAreSettled
<1>b. Cardinality(Settled(q)) \in Nat
  BY SettledAreFinite DEF ReturnsAreSettled
<1> USE DEF IInv, TypeOK, OrdersHaveCarts, Refused, requestVars, stripeVars, webhookVars, reaperVars
<1>1. CASE ReadCart(r)
  <2>1. Stands
    BY <1>1 DEF ReadCart, Goto
  <2> QED
    BY <2>1, <1>a
<1>2. CASE RefuseOrder(r)
  <2>1. Stands
    BY <1>2 DEF RefuseOrder, Goto
  <2> QED
    BY <2>1, <1>a
<1>3. CASE CompleteFree(r)
  <2>1. Stands
    BY <1>3 DEF CompleteFree, Goto, SetOrder
  <2> QED
    BY <2>1, <1>a
<1>4. CASE CustomerFails(r)
  <2>1. Stands
    BY <1>4 DEF CustomerFails, Goto
  <2> QED
    BY <2>1, <1>a
<1>5. CASE CreateIntent(r)
  <2>1. Stands
    BY <1>5 DEF CreateIntent, Goto
  <2> QED
    BY <2>1, <1>a
<1>6. CASE RejectOrder(r)
  <2>1. Stands
    BY <1>6 DEF RejectOrder, Goto, SetOrder
  <2> QED
    BY <2>1, <1>a
<1>7. CASE RecordPayment(r)
  <2>1. Stands
    BY <1>7 DEF RecordPayment, Goto, SetPayment
  <2> QED
    BY <2>1, <1>a
<1>8. CASE MarkProcessing(r)
  <2>1. Stands
    BY <1>8 DEF MarkProcessing, Goto, SetOrder
  <2> QED
    BY <2>1, <1>a
<1>9. CASE CutOffRequest(r)
  <2>1. Stands
    BY <1>9 DEF CutOffRequest, Goto
  <2> QED
    BY <2>1, <1>a
<1>10. CASE PlaceOrder(r)
  <2>1. CASE q # r
    <3>1. Stands
      BY <1>10, <2>1 DEF PlaceOrder, Goto, SetOrder
    <3> QED
      BY <3>1, <1>a
  <2>2. CASE q = r
    <3>1. taken'[q] = 1 /\ sent' = sent
      BY <1>10, <2>2 DEF PlaceOrder
    <3>2. Cardinality(Settled(q)') \in Nat
      <4>1. Settled(q)' \subseteq sent'
        BY DEF Settled, Declines
      <4> QED
        BY <3>1, <4>1, FS_Subset, FS_CardinalityType DEF ReturnsAreSettled
    <3> QED
      BY <3>1, <3>2 DEF ReturnIsSettled
  <2> QED
    BY <2>1, <2>2
<1>11. CASE IntentFails(r)
  <2>1. CASE q # r
    <3>1. Stands
      BY <1>11, <2>1 DEF IntentFails, Goto, ReturnStock
    <3> QED
      BY <3>1, <1>a
  <2>2. CASE q = r
    <3>1. /\ taken'[q] = taken[q] - 1 /\ taken[q] \in Int /\ order'[q] = order[q]
          /\ order[q] # "none" /\ ~Refused(q) /\ Refused(q)'
      BY <1>11, <2>2 DEF IntentFails, Goto, ReturnStock
    <3>2. Settled(q)' = Settled(q) /\ Cardinality(Settled(q)) \in Nat
      <4>1. inbox' = inbox /\ fresh' = fresh /\ half' = half
        BY <1>11 DEF IntentFails
      <4>2. Settled(q)' = Settled(q)
        BY <4>1 DEF Settled, Declines
      <4> QED
        BY <4>2, <1>b
    <3>3. 1 - taken[q] <= Cardinality(Settled(q))
      BY <3>1, <3>2 DEF ReturnsAreSettled, ReturnIsSettled
    <3>4. 1 - taken'[q] <= Cardinality(Settled(q)') + 1
      BY <3>1, <3>2, <3>3
    <3> HIDE DEF Refused
    <3> QED
      BY <3>1, <3>4 DEF ReturnIsSettled
  <2> QED
    BY <2>1, <2>2
<1> QED
  BY <1>1, <1>2, <1>3, <1>4, <1>5, <1>6, <1>7, <1>8, <1>9, <1>10, <1>11 DEF Checkout

\* One more element counts as one more.
LEMMA OneCounted ==
    ASSUME NEW S, IsFiniteSet(S), NEW x, x \notin S, NEW T, T = S \cup {x}
    PROVE  Cardinality(T) = Cardinality(S) + 1 /\ IsFiniteSet(T)
  BY FS_AddElement

\* A handler that is through moves its decline to those dealt with in full.
LEMMA OneMoreSettled ==
    ASSUME NEW D, NEW F, NEW H, NEW e \in D, e \in H, e \notin F
    PROVE  /\ D \ (F \cup (H \ {e})) = (D \ (F \cup H)) \cup {e}
           /\ e \notin D \ (F \cup H)
  OBVIOUS

\* The receiver and its handlers: only a handler that is through with a decline returns a unit.
LEMMA WebhookSettles ==
    ASSUME IInv, IInv', OrdersHaveCarts, ReturnsAreSettled,
           NEW e \in sent, Receive(e) \/ Handle(e) \/ LoseEvent(e), NEW q \in Requests
    PROVE  ReturnIsSettled(q)'
<1> DEFINE Stands ==
        /\ sent' = sent /\ inbox \subseteq inbox' /\ (fresh' \cup half') \cap inbox \subseteq fresh \cup half
        /\ order'[q] # "none" => order[q] # "none"
        /\ taken'[q] = taken[q]
        /\ Refused(q) => Refused(q)'
<1>a. Stands => ReturnIsSettled(q)'
  BY ReturnStands DEF ReturnsAreSettled
<1>b. IsFiniteSet(Settled(q)) /\ Cardinality(Settled(q)) \in Nat
  BY SettledAreFinite DEF ReturnsAreSettled
<1>c. order[e.order] # "none" /\ e.order \in Requests
  BY DEF IInv, TypeOK, Event, OnlyPlacedOrders, OrdersHaveCarts
<1> USE DEF IInv, TypeOK, Refused, requestVars, stripeVars, webhookVars, reaperVars
<1>1. CASE Receive(e)
  <2>1. Stands
    BY <1>1 DEF Receive
  <2> QED
    BY <2>1, <1>a
<1>2. CASE MarkPayment(e)
  <2>1. Stands
    BY <1>2 DEF MarkPayment
  <2> QED
    BY <2>1, <1>a
<1>3. CASE SettleSucceeded(e)
  <2>1. Stands
    BY <1>3, <1>c DEF SettleSucceeded, SetOrder
  <2> QED
    BY <2>1, <1>a
<1>4. CASE LoseEvent(e)
  <2>1. Stands
    BY <1>4 DEF LoseEvent
  <2> QED
    BY <2>1, <1>a
<1>5. CASE SettleFailed(e) /\ e.order # q
  <2>1. Stands
    BY <1>5 DEF SettleFailed, SetOrder, ReturnStock
  <2> QED
    BY <2>1, <1>a
<1>6. CASE SettleFailed(e) /\ e.order = q
  <2>1. /\ e \in half /\ e \in inbox /\ e.kind = "failed"
        /\ inbox' = inbox /\ fresh' = fresh /\ half' = half \ {e}
        /\ taken'[q] = taken[q] - 1 /\ taken[q] \in Int
        /\ Refused(q)' = Refused(q)
    BY <1>6 DEF SettleFailed, ReturnStock
  <2>2. e \notin fresh /\ e \in Declines(q)
    BY <1>6, <2>1 DEF ReturnsAreSettled, Declines
  <2>3. Declines(q)' = Declines(q)
    BY <2>1 DEF Declines
  <2> QED
    <3>1. Settled(q)' = Settled(q) \cup {e} /\ e \notin Settled(q)
      <4>1. Settled(q)' = Declines(q) \ (fresh \cup (half \ {e}))
        BY <2>1, <2>3 DEF Settled
      <4>2. e \in half /\ e \notin fresh /\ e \in Declines(q)
        BY <2>1, <2>2
      <4>3. Settled(q) = Declines(q) \ (fresh \cup half)
        BY DEF Settled
      <4> QED
        BY <4>1, <4>2, <4>3, OneMoreSettled
    <3>2. Cardinality(Settled(q)') = Cardinality(Settled(q)) + 1
      <4> HIDE DEF IInv, TypeOK
      <4> QED
        BY <3>1, <1>b, OneCounted
    <3>3. 1 - taken[q] <= Cardinality(Settled(q)) + (IF Refused(q) THEN 1 ELSE 0)
      BY <1>6, <1>c DEF ReturnsAreSettled, ReturnIsSettled
    <3> HIDE DEF Refused
    <3>4. CASE Refused(q)
      BY <1>b, <2>1, <3>2, <3>3, <3>4 DEF ReturnIsSettled
    <3>5. CASE ~Refused(q)
      BY <1>b, <2>1, <3>2, <3>3, <3>5 DEF ReturnIsSettled
    <3> QED
      BY <3>4, <3>5
<1> QED
  BY <1>1, <1>2, <1>3, <1>4, <1>5, <1>6 DEF Handle

\* Every step, under the schema as migrated (no reaper ever gives a unit back).
LEMMA ReturnsKeep ==
    ASSUME "expired" \notin OrderStatuses, IInv, OrdersHaveCarts, ReturnsAreSettled, [Next]_vars
    PROVE  ReturnsAreSettled'
<1>a. IInv'
  BY NextKeeps
<1>b. (\E x : sent' \subseteq sent \cup {x}) /\ fresh' \cap half' = {}
  <2> USE DEF IInv, TypeOK, ReturnsAreSettled, requestVars, stripeVars, webhookVars, reaperVars
  <2>1. ASSUME NEW r \in Requests, Checkout(r) \/ CutOffRequest(r) PROVE UNCHANGED <<sent, fresh, half>>
    BY <2>1 DEF Checkout, ReadCart, PlaceOrder, RefuseOrder, CompleteFree, CustomerFails, CreateIntent,
       IntentFails, RejectOrder, RecordPayment, MarkProcessing, CutOffRequest
  <2>2. ASSUME NEW r \in Requests, Decline(r) \/ Pay(r)
        PROVE  (\E x : sent' \subseteq sent \cup {x}) /\ UNCHANGED <<fresh, half>>
    BY <2>2 DEF Decline, Pay, Attempt
  <2>3. ASSUME NEW e \in sent, Receive(e) \/ Handle(e) \/ LoseEvent(e)
        PROVE  sent' = sent /\ fresh' \cap half' = {}
    BY <2>3 DEF Receive, Handle, MarkPayment, SettleSucceeded, SettleFailed, LoseEvent
  <2>4. ASSUME NEW p \in Reapers, Select(p) \/ CancelIntent(p) \/ \E r \in Requests : Sweep(p, r)
        PROVE  UNCHANGED <<sent, fresh, half>>
    BY <2>4 DEF Select, CancelIntent, Sweep, Reap, ReapFails
  <2>5. CASE UNCHANGED vars
    BY <2>5 DEF vars
  <2>6. UNCHANGED <<sent, fresh, half>> => (\E x : sent' \subseteq sent \cup {x}) /\ fresh' \cap half' = {}
    OBVIOUS
  <2> HIDE DEF IInv, TypeOK, ReturnsAreSettled, requestVars, stripeVars, webhookVars, reaperVars
  <2>7. \A x : sent \subseteq sent \cup {x}
    OBVIOUS
  <2>8. fresh \cap half = {}
    BY DEF ReturnsAreSettled
  <2> QED
    BY <2>1, <2>2, <2>3, <2>4, <2>5, <2>6, <2>7, <2>8 DEF Next
<1>c. IsFiniteSet(sent')
  <2>1. PICK x : sent' \subseteq sent \cup {x}
    BY <1>b
  <2> QED
    BY <2>1, FS_AddElement, FS_Subset DEF ReturnsAreSettled
<1> SUFFICES ASSUME NEW q \in Requests PROVE ReturnIsSettled(q)'
  BY <1>b, <1>c DEF ReturnsAreSettled
<1> DEFINE Stands ==
        /\ inbox' = inbox /\ fresh' = fresh /\ half' = half
        /\ order'[q] # "none" => order[q] # "none"
        /\ taken'[q] = taken[q]
        /\ Refused(q) => Refused(q)'
<1>d. Stands => ReturnIsSettled(q)'
  BY ReturnStands, <1>a, <1>c
<1>1. ASSUME NEW r \in Requests, Checkout(r) \/ CutOffRequest(r) PROVE ReturnIsSettled(q)'
  BY <1>1, <1>a, CheckoutSettles
<1>2. ASSUME NEW r \in Requests, Decline(r) \/ Pay(r) PROVE Stands
  BY <1>2 DEF Decline, Pay, Attempt, IInv, TypeOK, Refused, requestVars, webhookVars, reaperVars
<1>3. ASSUME NEW e \in sent, Receive(e) \/ Handle(e) \/ LoseEvent(e) PROVE ReturnIsSettled(q)'
  BY <1>3, <1>a, WebhookSettles
<1>4. ASSUME NEW p \in Reapers, Select(p) PROVE Stands
  BY <1>4 DEF Select, Refused, requestVars, stripeVars, webhookVars
<1>5. ASSUME NEW p \in Reapers, CancelIntent(p) PROVE Stands
  BY <1>5 DEF CancelIntent, IInv, TypeOK, Refused, requestVars, stripeVars, webhookVars
<1>6. ASSUME NEW p \in Reapers, NEW r \in Requests, Sweep(p, r) PROVE Stands
  BY <1>6 DEF Sweep, Reap, ReapFails, Refused, requestVars, stripeVars, webhookVars
<1>7. CASE UNCHANGED vars
  <2>1. Stands
    BY <1>7 DEF vars, Refused, requestVars, stripeVars, webhookVars
  <2> QED
    BY <2>1, <1>d
<1> QED
  BY <1>d, <1>1, <1>2, <1>3, <1>4, <1>5, <1>6, <1>7 DEF Next

\* Under the schema as migrated: redelivery, reordering and cut-offs never make a second return
\* of what one decline has returned.
THEOREM ReturnsAreEarnedOnce ==
    ASSUME "expired" \notin OrderStatuses
    PROVE  Spec => []ReturnsAreEarned
<1>1. Init => OrdersHaveCarts /\ ReturnsAreSettled
  BY FS_EmptySet DEF Init, OrdersHaveCarts, ReturnsAreSettled, ReturnIsSettled
<1>2. IInv /\ OrdersHaveCarts /\ ReturnsAreSettled /\ [Next]_vars => ReturnsAreSettled'
  BY ReturnsKeep
<1>3. IInv /\ ReturnsAreSettled => ReturnsAreEarned
  <2> SUFFICES ASSUME IInv, ReturnsAreSettled, NEW r \in Requests, order[r] # "none"
               PROVE  1 - taken[r] <= Cardinality(Declines(r)) + (IF intent[r] = "none" THEN 1 ELSE 0)
    BY DEF ReturnsAreEarned
  <2>1. 1 - taken[r] <= Cardinality(Settled(r)) + (IF Refused(r) THEN 1 ELSE 0)
    BY DEF ReturnsAreSettled, ReturnIsSettled
  <2>2. /\ Cardinality(Settled(r)) \in Nat /\ Cardinality(Declines(r)) \in Nat
        /\ Cardinality(Settled(r)) <= Cardinality(Declines(r)) /\ taken[r] \in Int
    BY SettledAreFinite DEF ReturnsAreSettled, IInv, TypeOK
  <2>3. Refused(r) => intent[r] = "none"
    BY DEF Refused
  <2> HIDE DEF Refused
  <2>4. CASE Refused(r)
    BY <2>1, <2>2, <2>3, <2>4
  <2>5. CASE ~Refused(r)
    BY <2>1, <2>2, <2>5
  <2> QED
    BY <2>4, <2>5
<1> QED
  BY <1>1, <1>2, <1>3, CartsKeep, Invariance, PTL DEF Spec

\* What is done is not done again.
THEOREM NothingIsDoneTwice ==
    ASSUME "expired" \notin OrderStatuses
    PROVE  Spec => NothingTwice
  BY CartsAreOrderedOnce, ReturnsAreEarnedOnce, PTL DEF NothingTwice

-----------------------------------------------------------------------------

\* One attempt per intent: the second event about an order would be a second attempt.
LEMMA AnswersKeep ==
    ASSUME MaxAttempts <= 1, IInv, OneAnswer, [Next]_vars
    PROVE  OneAnswer'
<1> USE BoundsAreNaturals
    DEF IInv, TypeOK, PlacedOnce, OneAnswer, requestVars, stripeVars, webhookVars, reaperVars
<1>1. ASSUME NEW r \in Requests, Checkout(r) \/ CutOffRequest(r) PROVE OneAnswer'
  <2>1. UNCHANGED <<sent, tries>> /\ \A q \in Requests : intent[q] # "none" => intent'[q] # "none"
    BY <1>1 DEF Checkout, ReadCart, PlaceOrder, RefuseOrder, CompleteFree, CustomerFails, CreateIntent,
       IntentFails, RejectOrder, RecordPayment, MarkProcessing, CutOffRequest
  <2> QED
    BY <2>1 DEF Event
<1>2. ASSUME NEW r \in Requests, NEW kind \in {"failed", "succeeded"}, Attempt(r, kind),
             intent' = intent \/ intent' = [intent EXCEPT ![r] = "succeeded"]
      PROVE  OneAnswer'
  <2> DEFINE new == [order |-> r, try |-> tries[r] + 1, kind |-> kind]
  <2>1. tries[r] = 0 /\ intent[r] = "open" /\ tries' = [tries EXCEPT ![r] = 1] /\ sent' = sent \cup {new}
    <3>1. intent[r] = "open" /\ tries' = [tries EXCEPT ![r] = @ + 1] /\ sent' = sent \cup {new}
      BY <1>2 DEF Attempt
    <3>2. tries[r] < MaxAttempts
      BY <1>2 DEF Attempt
    <3> HIDE DEF new
    <3>3. tries[r] = 0
      BY <3>2
    <3> QED
      BY <3>1, <3>3
  <2>2. \A e \in sent : e.order # r /\ e.order \in Requests
    BY <2>1 DEF Event
  <2>3. new.order = r
    OBVIOUS
  <2> HIDE DEF new
  <2>4. \A e \in sent' : tries'[e.order] >= 1 /\ intent'[e.order] # "none"
    BY <1>2, <2>1, <2>2, <2>3
  <2>5. \A e, f \in sent' : e.order = f.order => e = f
    BY <2>1, <2>2, <2>3
  <2> QED
    BY <2>4, <2>5
<1>3. ASSUME NEW e \in sent, Receive(e) \/ Handle(e) \/ LoseEvent(e) PROVE OneAnswer'
  BY <1>3 DEF Receive, Handle, MarkPayment, SettleSucceeded, SettleFailed, LoseEvent
<1>4. ASSUME NEW p \in Reapers, Select(p) \/ \E r \in Requests : Sweep(p, r) PROVE OneAnswer'
  BY <1>4 DEF Select, Sweep, Reap, ReapFails
<1>5. ASSUME NEW p \in Reapers, CancelIntent(p) PROVE OneAnswer'
  <2>1. UNCHANGED <<sent, tries>> /\ \A q \in Requests : intent[q] # "none" => intent'[q] # "none"
    BY <1>5 DEF CancelIntent
  <2> QED
    BY <2>1 DEF Event
<1>6. CASE UNCHANGED vars
  BY <1>6 DEF vars
<1> QED
  BY <1>1, <1>2, <1>3, <1>4, <1>5, <1>6 DEF Next, Decline, Pay

\* Who is about to ask for an intent has its unit, and so has every order whose report is being
\* handled.
LEMMA UnitInHand ==
    ASSUME IInv, OrdersHaveCarts, OneAnswer, HeldUntilDeclined
    PROVE  /\ \A r \in Requests : pc[r] = "ordered" => taken[r] = 1
           /\ \A e \in half : taken[e.order] = 1
<1>1. \A r \in Requests : \A f \in Settled(r) : f \in sent /\ f \notin half /\ f.order = r /\ f.kind = "failed"
  BY DEF Settled, Declines, IInv, TypeOK
<1>2. ASSUME NEW r \in Requests, pc[r] = "ordered" PROVE taken[r] = 1
  <2>1. order[r] # "none" /\ payment[r] = "none" /\ ~Refused(r)
    BY <1>2 DEF OrdersHaveCarts, IInv, PlacedOnce, Refused
  <2>2. Settled(r) = {}
    BY <1>1, <2>1 DEF IInv, OnlyPlacedOrders
  <2> QED
    BY <2>1, <2>2 DEF HeldUntilDeclined
<1>3. ASSUME NEW e \in half PROVE taken[e.order] = 1
  <2>1. e \in sent /\ e.order \in Requests /\ order[e.order] # "none" /\ ~Refused(e.order)
    BY <1>3 DEF IInv, TypeOK, Event, OnlyPlacedOrders, OrdersHaveCarts, OneAnswer, Refused
  <2>2. Settled(e.order) = {}
    BY <1>1, <1>3, <2>1 DEF OneAnswer
  <2> QED
    BY <2>1, <2>2 DEF HeldUntilDeclined
<1> QED
  BY <1>2, <1>3

\* A step that neither completes nor places the order, and returns nothing for it.
LEMMA UnitStands ==
    ASSUME IInv, HeldUntilDeclined, NEW q \in Requests,
           order'[q] = "completed" => order[q] = "completed", order'[q] # "none" => order[q] # "none",
           taken'[q] = taken[q], Refused(q) => Refused(q)', inbox \subseteq inbox',
           (fresh' \cup half') \cap inbox \subseteq fresh \cup half
    PROVE  /\ order'[q] = "completed" => taken'[q] = 1
           /\ order'[q] # "none" /\ taken'[q] # 1 => taken'[q] = 0 /\ (Refused(q)' \/ Settled(q)' # {})
<1>1. Settled(q) \subseteq Settled(q)'
  BY DEF Settled, Declines
<1>2. HeldUntilDeclined => /\ order[q] = "completed" => taken[q] = 1
                           /\ order[q] # "none" /\ taken[q] # 1 => taken[q] = 0 /\ (Refused(q) \/ Settled(q) # {})
  BY DEF HeldUntilDeclined
<1> QED
  BY <1>1, <1>2

\* Every step keeps an order's unit in hand until the one thing Stripe has to say is a decline.
LEMMA UnitsKeep ==
    ASSUME "expired" \notin OrderStatuses, IInv, OrdersHaveCarts, ReturnsAreSettled, OneAnswer,
           HeldUntilDeclined, [Next]_vars
    PROVE  HeldUntilDeclined'
<1> SUFFICES ASSUME NEW q \in Requests
             PROVE  /\ order'[q] = "completed" => taken'[q] = 1
                    /\ order'[q] # "none" /\ taken'[q] # 1 => taken'[q] = 0 /\ (Refused(q)' \/ Settled(q)' # {})
  BY DEF HeldUntilDeclined
<1> DEFINE Stands ==
        /\ order'[q] = "completed" => order[q] = "completed"
        /\ order'[q] # "none" => order[q] # "none"
        /\ taken'[q] = taken[q]
        /\ Refused(q) => Refused(q)'
        /\ inbox \subseteq inbox' /\ (fresh' \cup half') \cap inbox \subseteq fresh \cup half
      Goal ==
        /\ order'[q] = "completed" => taken'[q] = 1
        /\ order'[q] # "none" /\ taken'[q] # 1 => taken'[q] = 0 /\ (Refused(q)' \/ Settled(q)' # {})
<1>a. Stands => Goal
  BY UnitStands
<1>b. /\ pc[q] = "ordered" => taken[q] = 1
      /\ \A e \in half : taken[e.order] = 1
  BY UnitInHand
<1> SUFFICES Goal
  OBVIOUS
<1> HIDE DEF Goal
<1>1. ASSUME NEW r \in Requests, Checkout(r) \/ CutOffRequest(r), r # q PROVE Stands
  BY <1>1 DEF Checkout, ReadCart, PlaceOrder, RefuseOrder, CompleteFree, CustomerFails, CreateIntent,
     IntentFails, RejectOrder, RecordPayment, MarkProcessing, CutOffRequest, Goto, SetOrder, SetPayment,
     ReturnStock, Refused, IInv, TypeOK, stripeVars, webhookVars
<1>2. CASE ReadCart(q) \/ RefuseOrder(q) \/ CustomerFails(q) \/ CreateIntent(q) \/ RejectOrder(q)
           \/ RecordPayment(q) \/ MarkProcessing(q) \/ CutOffRequest(q)
  <2>1. Stands
    BY <1>2 DEF ReadCart, RefuseOrder, CustomerFails, CreateIntent, RejectOrder, RecordPayment,
       MarkProcessing, CutOffRequest, Goto, SetOrder, SetPayment, Refused, IInv, TypeOK,
       OrdersHaveCarts, stripeVars, webhookVars
  <2> QED
    BY <2>1, <1>a
<1>3. CASE PlaceOrder(q)
  <2>1. taken'[q] = 1
    BY <1>3 DEF PlaceOrder, IInv, TypeOK
  <2> QED
    BY <2>1 DEF Goal
<1>4. CASE CompleteFree(q)
  <2>1. taken'[q] = 1
    BY <1>4, <1>b DEF CompleteFree
  <2> QED
    BY <2>1 DEF Goal
<1>5. CASE IntentFails(q)
  <2>1. taken'[q] = 0 /\ Refused(q)' /\ order' = order
    <3>1. /\ taken[q] = 1 /\ taken' = [taken EXCEPT ![q] = @ - 1]
          /\ intent[q] = "none" /\ intent' = intent
          /\ pc' = [pc EXCEPT ![q] = "undoing"] /\ order' = order
      BY <1>5, <1>b DEF IntentFails, Goto, ReturnStock, OrdersHaveCarts, stripeVars
    <3>2. taken'[q] = 0 /\ pc'[q] = "undoing"
      BY <3>1 DEF IInv, TypeOK
    <3> QED
      BY <3>1, <3>2 DEF Refused
  <2>2. order[q] # "completed"
    BY <1>5 DEF IntentFails, OrdersHaveCarts, IInv, CompletedWasPaid
  <2> QED
    BY <2>1, <2>2 DEF Goal
<1>6. ASSUME NEW r \in Requests, Decline(r) \/ Pay(r) PROVE Stands
  BY <1>6 DEF Decline, Pay, Attempt, Refused, IInv, TypeOK, requestVars, webhookVars
<1>7. ASSUME NEW e \in sent, Receive(e) \/ MarkPayment(e) \/ LoseEvent(e) PROVE Stands
  BY <1>7 DEF Receive, MarkPayment, LoseEvent, SetPayment, Refused, IInv, TypeOK, requestVars, stripeVars
<1>8. ASSUME NEW e \in sent, SettleSucceeded(e) \/ SettleFailed(e), e.order # q PROVE Stands
  BY <1>8 DEF SettleSucceeded, SettleFailed, SetOrder, ReturnStock, Refused, IInv, TypeOK, Event,
     requestVars, stripeVars
<1>9. ASSUME NEW e \in sent, SettleSucceeded(e), e.order = q PROVE Goal
  <2>1. taken'[q] = 1
    BY <1>9, <1>b DEF SettleSucceeded
  <2> QED
    BY <2>1 DEF Goal
<1>10. ASSUME NEW e \in sent, SettleFailed(e), e.order = q PROVE Goal
  <2>1. taken'[q] = 0 /\ order'[q] = "rejected"
    BY <1>10, <1>b DEF SettleFailed, SetOrder, ReturnStock, IInv, TypeOK
  <2>2. e \in Settled(q)'
    <3>1. e \in half /\ e \in inbox /\ e.kind = "failed" /\ e \notin fresh
      BY <1>10 DEF SettleFailed, IInv, TypeOK, ReturnsAreSettled
    <3>2. inbox' = inbox /\ fresh' = fresh /\ half' = half \ {e}
      BY <1>10 DEF SettleFailed
    <3> QED
      BY <1>10, <3>1, <3>2 DEF Settled, Declines
  <2> QED
    BY <2>1, <2>2 DEF Goal
<1>11. ASSUME NEW p \in Reapers, Select(p) \/ CancelIntent(p) \/ \E r \in Requests : Sweep(p, r) PROVE Stands
  BY <1>11 DEF Select, CancelIntent, Sweep, Reap, ReapFails, Refused, IInv, TypeOK,
     requestVars, stripeVars, webhookVars
<1>12. CASE UNCHANGED vars
  <2>1. Stands
    BY <1>12 DEF vars, requestVars, stripeVars, webhookVars, Refused
  <2> QED
    BY <2>1, <1>a
<1> QED
  BY <1>a, <1>1, <1>2, <1>3, <1>4, <1>5, <1>6, <1>7, <1>8, <1>9, <1>10, <1>11, <1>12
  DEF Next, Checkout, Handle

\* One unit taken, one given back: the holders and the shelf.
LEMMA UnitTaken ==
    ASSUME IInv, ShelfAndHolders, NEW r \in Requests, taken[r] = 0, stock >= 1,
           taken' = [taken EXCEPT ![r] = 1], stock' = stock - 1
    PROVE  ShelfAndHolders'
<1>1. Holders' = Holders \cup {r} /\ r \notin Holders
  BY DEF Holders, IInv, TypeOK
<1>2. Cardinality(Holders') = Cardinality(Holders) + 1 /\ IsFiniteSet(Holders')
  BY <1>1, OneCounted DEF ShelfAndHolders
<1>3. Cardinality(Holders) \in Nat
  BY FS_CardinalityType DEF ShelfAndHolders
<1> QED
  BY <1>2, <1>3, BoundsAreNaturals DEF ShelfAndHolders

\* Giving a unit back takes one holder away and puts one unit on the shelf.
LEMMA UnitGivenBack ==
    ASSUME IInv, ShelfAndHolders, NEW r \in Requests, taken[r] = 1, ReturnStock(r)
    PROVE  ShelfAndHolders'
<1>1. r \in Holders /\ Holders' = Holders \ {r} /\ stock' = stock + 1
  BY DEF ReturnStock, Holders, IInv, TypeOK
<1>2. Cardinality(Holders') = Cardinality(Holders) - 1 /\ IsFiniteSet(Holders')
  BY <1>1, FS_RemoveElement DEF ShelfAndHolders
<1>3. Cardinality(Holders) \in Nat
  BY FS_CardinalityType DEF ShelfAndHolders
<1> QED
  BY <1>1, <1>2, <1>3, BoundsAreNaturals DEF ShelfAndHolders

\* Every step: what is not on the shelf is in the hands of an order.
LEMMA ShelfKeeps ==
    ASSUME "expired" \notin OrderStatuses, IInv, OrdersHaveCarts, OneAnswer, HeldUntilDeclined,
           ShelfAndHolders, [Next]_vars
    PROVE  ShelfAndHolders'
<1>a. UNCHANGED <<stock, taken>> => ShelfAndHolders'
  BY DEF ShelfAndHolders, Holders
<1>1. ASSUME NEW r \in Requests, Checkout(r) \/ CutOffRequest(r) PROVE ShelfAndHolders'
  <2>1. CASE PlaceOrder(r)
    <3>1. taken[r] = 0
      BY <2>1 DEF PlaceOrder, IInv, PlacedOnce
    <3> QED
      BY <2>1, <3>1, UnitTaken DEF PlaceOrder
  <2>2. CASE IntentFails(r)
    <3>1. taken[r] = 1
      BY <2>2, UnitInHand DEF IntentFails
    <3> QED
      BY <2>2, <3>1, UnitGivenBack DEF IntentFails
  <2>3. CASE ~PlaceOrder(r) /\ ~IntentFails(r)
    <3>1. UNCHANGED <<stock, taken>>
      BY <1>1, <2>3 DEF Checkout, ReadCart, RefuseOrder, CompleteFree, CustomerFails, CreateIntent,
         RejectOrder, RecordPayment, MarkProcessing, CutOffRequest
    <3> QED
      BY <1>a, <3>1
  <2> QED
    BY <2>1, <2>2, <2>3
<1>2. ASSUME NEW r \in Requests, Decline(r) \/ Pay(r) PROVE UNCHANGED <<stock, taken>>
  BY <1>2 DEF Decline, Pay, Attempt
<1>3. ASSUME NEW e \in sent, Receive(e) \/ MarkPayment(e) \/ SettleSucceeded(e) \/ LoseEvent(e)
      PROVE  UNCHANGED <<stock, taken>>
  BY <1>3 DEF Receive, MarkPayment, SettleSucceeded, LoseEvent
<1>4. ASSUME NEW e \in sent, SettleFailed(e) PROVE ShelfAndHolders'
  <2>1. taken[e.order] = 1 /\ e.order \in Requests
    BY <1>4, UnitInHand DEF SettleFailed, IInv, TypeOK, Event
  <2> QED
    BY <1>4, <2>1, UnitGivenBack DEF SettleFailed
<1>5. ASSUME NEW p \in Reapers, Select(p) \/ CancelIntent(p) \/ \E r \in Requests : Sweep(p, r)
      PROVE  UNCHANGED <<stock, taken>>
  BY <1>5 DEF Select, CancelIntent, Sweep, Reap, ReapFails
<1>6. CASE UNCHANGED vars
  BY <1>6, <1>a DEF vars
<1> QED
  BY <1>a, <1>1, <1>2, <1>3, <1>4, <1>5, <1>6 DEF Next, Handle

\* Under the schema as migrated, and unless a declined payment is tried again: no more orders are
\* completed than there were units, for any number of requests, events and cut-offs. (Trying again
\* is what the run orders_retry shows to break it.)
THEOREM NoMoreSoldThanStocked ==
    ASSUME "expired" \notin OrderStatuses, MaxAttempts <= 1
    PROVE  Spec => []SoldWithinStock
<1> DEFINE J == OrdersHaveCarts /\ ReturnsAreSettled /\ OneAnswer /\ HeldUntilDeclined /\ ShelfAndHolders
<1>1. Init => J
  <2> SUFFICES ASSUME Init PROVE J
    OBVIOUS
  <2>1. OrdersHaveCarts
    BY DEF Init, OrdersHaveCarts
  <2>2. ReturnsAreSettled
    BY FS_EmptySet DEF Init, ReturnsAreSettled, ReturnIsSettled
  <2>3. OneAnswer /\ HeldUntilDeclined
    BY DEF Init, OneAnswer, HeldUntilDeclined
  <2>4. Holders = {}
    BY DEF Init, Holders
  <2>5. ShelfAndHolders
    BY <2>4, FS_EmptySet, BoundsAreNaturals DEF Init, ShelfAndHolders
  <2> QED
    BY <2>1, <2>2, <2>3, <2>5
<1>2. IInv /\ J /\ [Next]_vars => J'
  BY CartsKeep, ReturnsKeep, AnswersKeep, UnitsKeep, ShelfKeeps
<1>3. J => SoldWithinStock
  <2> SUFFICES ASSUME J PROVE SoldWithinStock
    OBVIOUS
  <2>1. {r \in Requests : order[r] = "completed"} \subseteq Holders
    BY DEF Holders, HeldUntilDeclined
  <2>2. /\ Cardinality({r \in Requests : order[r] = "completed"}) <= Cardinality(Holders)
        /\ IsFiniteSet({r \in Requests : order[r] = "completed"})
    BY <2>1, FS_Subset DEF ShelfAndHolders
  <2>3. Cardinality(Holders) \in Nat /\ Cardinality({r \in Requests : order[r] = "completed"}) \in Nat
    BY <2>2, FS_CardinalityType DEF ShelfAndHolders
  <2> QED
    BY <2>2, <2>3, BoundsAreNaturals DEF ShelfAndHolders, SoldWithinStock
<1> HIDE DEF J
<1> QED
  BY <1>1, <1>2, <1>3, Invariance, PTL DEF Spec
=============================================================================
