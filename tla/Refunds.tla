------------------------------- MODULE Refunds -------------------------------
(***************************************************************************)
(* The money that goes back for one order of one payment. Owners and       *)
(* administrators refund through the API, which asks Stripe, books the     *)
(* refund and marks the order; staff refund at Stripe's dashboard as well. *)
(* Every refund makes Stripe report charge.refunded, whose handler books   *)
(* and marks in its turn. A step is one call of Stripe or one COMMIT;      *)
(* events are handled at most once (WebhookInbox) and in any order. The    *)
(* module ends with the proofs, for any number of requests and any amount, *)
(* that a second refund costs an overlap or a fault, and that the shop's   *)
(* records come to no less than what has gone back.                        *)
(***************************************************************************)
EXTENDS Naturals, FiniteSets, Sequences, FiniteSetTheorems, SequenceTheorems, WellFoundedInduction, TLAPS

CONSTANTS
    Calls,        \* of the refund route
    Total,        \* what the customer has paid
    MaxStaff,     \* refunds at the dashboard and statuses set by administrators
    MaxFaults     \* requests and handlers cut off

ASSUME RequestsAreFinite == IsFiniteSet(Calls)
ASSUME TotalIsNat == Total \in Nat

VARIABLES
    order,     \* orders.status
    payment,   \* status of the record of the payment
    booked,    \* the refund records, oldest first, as the amounts given back
    refunded,  \* at Stripe: each refund, with who has asked for it
    events,    \* what Stripe reports: amount, and what the handler has left to do
    call,      \* each request: what it has left to do, and the amount asked for
    staff, faults,
    upset      \* history: how often a request has come in while another was in progress

refundVars == <<order, payment, booked, refunded, events, call, staff, faults, upset>>

-----------------------------------------------------------------------------
(* State *)

\* 0 stands for no amount: all that is left, says Stripe; all that was paid, says the route.
Asked == 0..Total

NewCall == [todo |-> <<"check">>, amount |-> 0]
CallAt(r, step) == call[r].todo # <<>> /\ Head(call[r].todo) = step
CallOpen(r) == call[r].todo \notin {<<>>, NewCall.todo}

CallEnds(r) == call' = [call EXCEPT ![r].todo = <<>>]
CallGoesOn(r) == call' = [call EXCEPT ![r].todo = Tail(@)]

SumOf(s) ==
    LET total[n \in 0..Len(s)] == IF n = 0 THEN 0 ELSE total[n - 1] + s[n] IN total[Len(s)]

Returned == SumOf([i \in DOMAIN refunded |-> refunded[i].amount])

Handling(e, step) == events[e].todo # <<>> /\ Head(events[e].todo) = step
HandledOn(e) == events' = [events EXCEPT ![e].todo = Tail(@)]

\* The order has been checked out; the payment succeeds, or has.
RefundsInit ==
    /\ order = "processing" /\ payment = "pending"
    /\ booked = <<>> /\ refunded = <<>>
    /\ events = <<[amount |-> 0, todo |-> <<"pay", "complete">>]>>
    /\ call = [r \in Calls |-> NewCall]
    /\ staff = 0 /\ faults = 0 /\ upset = 0

-----------------------------------------------------------------------------
(* The refund route *)

Refundable == {"completed", "accepted"}

CheckOrder(r, amount) ==
    /\ call[r] = NewCall
    /\ call' = [call EXCEPT ![r] = [amount |-> amount, todo |->
                  IF order \in Refundable THEN <<"payment", "refund", "book", "mark">> ELSE <<>>]]
    /\ upset' = upset + IF \E q \in Calls : CallOpen(q) THEN 1 ELSE 0
    /\ UNCHANGED <<order, payment, booked, refunded, events, staff, faults>>

\* Mutant of Latest: the refunds among the order's records are passed over.
LatestPayment == payment

\* get_payment_by_order: the status of the order's latest record, be it a refund.
Latest == IF booked = <<>> THEN payment ELSE "refunded"

CheckPayment(r) ==
    /\ CallAt(r, "payment")
    /\ IF Latest = "succeeded" THEN CallGoesOn(r) ELSE CallEnds(r)
    /\ UNCHANGED <<order, payment, booked, refunded, events, staff, faults, upset>>

Report(amount) == Append(events, [amount |-> amount, todo |-> <<"book", "mark">>])

\* What Stripe gives back, no more than is left; it reports the sum of the charge's refunds.
Give(amount, by) ==
    /\ amount > 0 /\ Returned + amount <= Total
    /\ refunded' = Append(refunded, [amount |-> amount, by |-> by])
    /\ events' = Report(Returned + amount)

Refund(r) ==
    /\ CallAt(r, "refund")
    /\ Give(IF call[r].amount = 0 THEN Total - Returned ELSE call[r].amount, "route")
    /\ \/ CallGoesOn(r) /\ UNCHANGED faults
       \/ faults < MaxFaults /\ CallEnds(r) /\ faults' = faults + 1   \* the answer is lost
    /\ UNCHANGED <<order, payment, booked, staff, upset>>

\* More than is left, or a call that fails.
RefundRefused(r) ==
    /\ CallAt(r, "refund")
    /\ IF Returned = Total \/ Returned + call[r].amount > Total
       THEN UNCHANGED faults
       ELSE faults < MaxFaults /\ faults' = faults + 1
    /\ CallEnds(r)
    /\ UNCHANGED <<order, payment, booked, refunded, events, staff, upset>>

\* create_refund_record
Book(r) ==
    /\ CallAt(r, "book")
    /\ booked' = Append(booked, IF call[r].amount = 0 THEN Total ELSE call[r].amount)
    /\ CallGoesOn(r)
    /\ UNCHANGED <<order, payment, refunded, events, staff, faults, upset>>

Mark(r) ==
    /\ CallAt(r, "mark")
    /\ order' = "refunded"
    /\ CallGoesOn(r)
    /\ UNCHANGED <<payment, booked, refunded, events, staff, faults, upset>>

\* Of the worker process that carries the request out.
CutOffRequest(r) ==
    /\ CallOpen(r) /\ faults < MaxFaults
    /\ CallEnds(r) /\ faults' = faults + 1
    /\ UNCHANGED <<order, payment, booked, refunded, events, staff, upset>>

-----------------------------------------------------------------------------
(* Stripe's events *)

\* payment_intent.succeeded, in two transactions.
Pay(e) ==
    /\ Handling(e, "pay")
    /\ payment' = "succeeded"
    /\ HandledOn(e)
    /\ UNCHANGED <<order, booked, refunded, call, staff, faults, upset>>

Complete(e) ==
    /\ Handling(e, "complete")
    /\ order' = "completed"
    /\ HandledOn(e)
    /\ UNCHANGED <<payment, booked, refunded, call, staff, faults, upset>>

\* Mutant of BookEvent: an order that is marked already needs no record.
BookEventOnce(e) ==
    /\ Handling(e, "book")
    /\ booked' = IF order = "refunded" THEN booked ELSE Append(booked, events[e].amount)
    /\ HandledOn(e)
    /\ UNCHANGED <<order, payment, refunded, call, staff, faults, upset>>

\* charge.refunded: the running total of the charge is booked, whoever has asked for the refund.
BookEvent(e) ==
    /\ Handling(e, "book")
    /\ booked' = Append(booked, events[e].amount)
    /\ HandledOn(e)
    /\ UNCHANGED <<order, payment, refunded, call, staff, faults, upset>>

MarkEvent(e) ==
    /\ Handling(e, "mark")
    /\ order' = "refunded"
    /\ HandledOn(e)
    /\ UNCHANGED <<payment, booked, refunded, call, staff, faults, upset>>

\* The handler fails or its worker is lost; the event counts as handled all the same.
CutOffHandler(e) ==
    /\ events[e].todo # <<>> /\ faults < MaxFaults
    /\ events' = [events EXCEPT ![e].todo = <<>>]
    /\ faults' = faults + 1
    /\ UNCHANGED <<order, payment, booked, refunded, call, staff, upset>>

-----------------------------------------------------------------------------
(* Staff *)

RefundAtDashboard(amount) ==
    /\ staff < MaxStaff
    /\ Give(amount, "staff")
    /\ staff' = staff + 1
    /\ UNCHANGED <<order, payment, booked, call, faults, upset>>

\* admin_update_order_status writes whatever it is told.
SetStatus(status) ==
    /\ staff < MaxStaff /\ status # order
    /\ order' = status
    /\ staff' = staff + 1
    /\ UNCHANGED <<payment, booked, refunded, events, call, faults, upset>>

-----------------------------------------------------------------------------

Handler(e) == Pay(e) \/ Complete(e) \/ BookEvent(e) \/ MarkEvent(e)
Route(r) == CheckPayment(r) \/ Refund(r) \/ RefundRefused(r) \/ Book(r) \/ Mark(r)

RefundsNext ==
    \/ \E r \in Calls : Route(r) \/ CutOffRequest(r) \/ \E amount \in Asked : CheckOrder(r, amount)
    \/ \E e \in DOMAIN events : Handler(e) \/ CutOffHandler(e)
    \/ \E amount \in 1..Total : RefundAtDashboard(amount)
    \/ \E status \in {"completed", "accepted", "rejected"} : SetStatus(status)

RefundsSpec == RefundsInit /\ [][RefundsNext]_refundVars

-----------------------------------------------------------------------------
(* Properties *)

RefundsTypeOK ==
    /\ order \in {"processing", "completed", "accepted", "rejected", "refunded"}
    /\ payment \in {"pending", "succeeded"}
    /\ booked \in Seq(Nat)
    /\ refunded \in Seq([amount : 1..Total, by : {"route", "staff"}])
    /\ staff \in 0..MaxStaff /\ faults \in 0..MaxFaults /\ upset \in 0..Cardinality(Calls)

Quiet == (\A r \in Calls : ~CallOpen(r)) /\ \A e \in DOMAIN events : events[e].todo = <<>>

\* When nothing has been cut off and nothing is under way, the shop's records of refunds come
\* to no less than what Stripe has given back. (They may come to more: a refund of the route's
\* is booked by the route and by the event it causes.)
BooksCoverRefunds == Quiet /\ faults = 0 => SumOf(booked) >= Returned

ByRoute == {i \in DOMAIN refunded : refunded[i].by = "route"}

\* The route asks Stripe for one refund per order; another one costs an overlap with another
\* request or a cut-off, whatever status the order is given meanwhile.
SecondRefundIsCounted == Cardinality(ByRoute) <= 1 + upset + faults

-----------------------------------------------------------------------------
(* The second refund: proof *)

\* What a request has left to do when it is about to ask Stripe, and to book the answer.
Asks == <<"refund", "book", "mark">>
Books == <<"book", "mark">>
\* Whatever a request may have left to do.
Todos == {<<"check">>, <<"payment", "refund", "book", "mark">>, Asks, Books, <<"mark">>, <<>>}

\* The requests that have passed a check and are not done, that may ask Stripe next, and that
\* hold a refund the shop has no record of.
OpenCalls == {r \in Calls : CallOpen(r)}
Asking == {r \in Calls : call[r].todo = Asks}
Booking == {r \in Calls : call[r].todo = Books}

\* What the argument needs of the types.
Typed ==
    /\ call \in [Calls -> [todo : Todos, amount : Asked]]
    /\ upset \in Nat /\ faults \in Nat
    /\ \E S : refunded \in Seq(S)
    /\ \E S : booked \in Seq(S)

\* More than one request in progress: each of the others came in over one that was.
ActiveCounted == Cardinality(OpenCalls) <= 1 + upset

\* As long as nothing is booked, a refund is about to be, or a fault is to blame.
UnbookedCounted == booked = <<>> => Cardinality(ByRoute) <= faults + Cardinality(Booking)

\* Once something is booked nobody new gets as far as to ask: who still may counts as if he had.
BookedCounted == booked # <<>> => Cardinality(ByRoute) + Cardinality(Asking) <= 1 + upset + faults

\* The inductive invariant.
IInv == Typed /\ ActiveCounted /\ UnbookedCounted /\ BookedCounted

-----------------------------------------------------------------------------

\* Each step of the route, and what it leaves to do.
LEMMA TodosGoOn ==
    /\ \A t \in Todos : t # <<>> => Head(t) \in {"check", "payment", "refund", "book", "mark"}
    /\ \A t \in Todos : t # <<>> /\ Head(t) = "payment" => t = <<"payment", "refund", "book", "mark">> /\ Tail(t) = Asks
    /\ \A t \in Todos : t # <<>> /\ Head(t) = "refund" => t = Asks /\ Tail(t) = Books
    /\ \A t \in Todos : t # <<>> /\ Head(t) = "book" => t = Books /\ Tail(t) = <<"mark">>
    /\ \A t \in Todos : t # <<>> /\ Head(t) = "mark" => t = <<"mark">> /\ Tail(t) = <<>>
    /\ Asks # Books /\ Asks # <<>> /\ Books # <<>> /\ Asks # <<"check">> /\ Books # <<"check">>
    /\ <<"mark">> \notin {Asks, Books, <<>>, <<"check">>}
    /\ <<"payment", "refund", "book", "mark">> \notin {Asks, Books, <<>>, <<"check">>}
    /\ <<"check">> # <<>>
  BY DEF Todos, Asks, Books

\* Sets that grow by one member at most, that lose one, and that only shrink.
LEMMA OneMore ==
    ASSUME NEW S, IsFiniteSet(S), NEW x, NEW T, T \subseteq S \union {x}
    PROVE  Cardinality(T) \in Nat /\ Cardinality(T) <= Cardinality(S) + 1 /\ IsFiniteSet(T)
<1>1. IsFiniteSet(S \union {x}) /\ Cardinality(S \union {x}) <= Cardinality(S) + 1 /\ Cardinality(S) \in Nat
  BY FS_AddElement, FS_CardinalityType
<1>2. IsFiniteSet(T) /\ Cardinality(T) <= Cardinality(S \union {x})
  BY <1>1, FS_Subset
<1> QED
  BY <1>1, <1>2, FS_CardinalityType

LEMMA OneLess ==
    ASSUME NEW S, IsFiniteSet(S), NEW x \in S, NEW T, T \subseteq S \ {x}
    PROVE  Cardinality(T) \in Nat /\ Cardinality(T) + 1 <= Cardinality(S)
<1>1. IsFiniteSet(S \ {x}) /\ Cardinality(S \ {x}) = Cardinality(S) - 1 /\ Cardinality(S) \in Nat
  BY FS_RemoveElement, FS_CardinalityType
<1>2. IsFiniteSet(T) /\ Cardinality(T) <= Cardinality(S \ {x})
  BY <1>1, FS_Subset
<1> QED
  BY <1>1, <1>2, FS_CardinalityType

LEMMA NoMore ==
    ASSUME NEW S, IsFiniteSet(S), NEW T, T \subseteq S
    PROVE  Cardinality(T) \in Nat /\ Cardinality(T) <= Cardinality(S)
  BY FS_Subset, FS_CardinalityType

\* Disjoint: who asks and who books are among those in progress.
LEMMA AskingAndBooking ==
    ASSUME Typed
    PROVE  /\ IsFiniteSet(OpenCalls) /\ IsFiniteSet(Asking) /\ IsFiniteSet(Booking)
           /\ Cardinality(OpenCalls) \in Nat /\ Cardinality(Asking) \in Nat /\ Cardinality(Booking) \in Nat
           /\ Cardinality(Asking) + Cardinality(Booking) <= Cardinality(OpenCalls)
<1>1. /\ OpenCalls \subseteq Calls /\ Asking \subseteq OpenCalls /\ Booking \subseteq OpenCalls
      /\ Asking \cap Booking = {}
  BY TodosGoOn DEF OpenCalls, Asking, Booking, CallOpen, NewCall
<1>2. IsFiniteSet(OpenCalls) /\ IsFiniteSet(Asking) /\ IsFiniteSet(Booking)
  BY <1>1, RequestsAreFinite, FS_Subset
<1>3. Cardinality(Asking \cup Booking) = Cardinality(Asking) + Cardinality(Booking) - Cardinality(Asking \cap Booking)
  BY <1>2, FS_Union
<1>4. Cardinality(Asking \cap Booking) = 0
  BY <1>1, FS_EmptySet
<1>5. Cardinality(Asking \cup Booking) <= Cardinality(OpenCalls) /\ Cardinality(Asking \cup Booking) \in Nat
  BY <1>1, <1>2, NoMore
<1> QED
  BY <1>2, <1>3, <1>4, <1>5, FS_CardinalityType

\* The refunds of the route, a finite set of places in the list.
LEMMA RefundsAreFinite ==
    ASSUME Typed
    PROVE  IsFiniteSet(ByRoute) /\ Cardinality(ByRoute) \in Nat
<1>1. PICK S : refunded \in Seq(S)
  BY DEF Typed
<1>2. ByRoute \subseteq 1..Len(refunded) /\ Len(refunded) \in Nat
  BY <1>1 DEF ByRoute
<1>3. IsFiniteSet(1..Len(refunded))
  BY <1>2, FS_Interval
<1> QED
  BY <1>2, <1>3, NoMore, FS_Subset

\* One more refund: the route's own count one up, anybody else's leaves that count alone.
LEMMA GivenIsAppended ==
    ASSUME Typed, NEW a, NEW b, refunded' = Append(refunded, [amount |-> a, by |-> b])
    PROVE  /\ \E S : refunded' \in Seq(S)
           /\ Cardinality(ByRoute') \in Nat
           /\ Cardinality(ByRoute') <= Cardinality(ByRoute) + 1
           /\ b # "route" => Cardinality(ByRoute') <= Cardinality(ByRoute)
<1> DEFINE x == [amount |-> a, by |-> b]
<1>1. PICK S : refunded \in Seq(S)
  BY DEF Typed
<1>2. refunded \in Seq(S \cup {x})
  BY <1>1
<1> HIDE DEF x
<1>3. refunded' = Append(refunded, x)
  BY DEF x
<1>4. /\ refunded' \in Seq(S \cup {x})
      /\ Len(refunded) \in Nat /\ Len(refunded') = Len(refunded) + 1
      /\ \A i \in 1..Len(refunded) : refunded'[i] = refunded[i]
      /\ refunded'[Len(refunded) + 1] = x
      /\ DOMAIN refunded = 1..Len(refunded) /\ DOMAIN refunded' = 1..(Len(refunded) + 1)
  BY <1>2, <1>3, AppendProperties
<1>5. ByRoute' \subseteq ByRoute \union {Len(refunded) + 1}
  BY <1>4 DEF ByRoute
<1>6. b # "route" => ByRoute' \subseteq ByRoute
  BY <1>4 DEF ByRoute, x
<1> QED
  BY <1>4, <1>5, <1>6, RefundsAreFinite, OneMore, NoMore

\* One more record.
LEMMA BookedIsAppended ==
    ASSUME NEW S, booked \in Seq(S), NEW a, booked' = Append(booked, a)
    PROVE  (\E T : booked' \in Seq(T)) /\ booked' # <<>>
<1>1. booked \in Seq(S \cup {a})
  OBVIOUS
<1>2. booked' \in Seq(S \cup {a}) /\ Len(booked) \in Nat /\ Len(booked') = Len(booked) + 1
  BY <1>1, AppendProperties
<1>3. booked' # <<>>
  BY <1>2
<1> QED
  BY <1>2, <1>3

-----------------------------------------------------------------------------

\* What becomes of the sets when one request is left with `todo`.
LEMMA OneMoves ==
    ASSUME Typed, NEW r \in Calls, NEW todo \in Todos, NEW amount \in Asked,
           call' = [call EXCEPT ![r] = [todo |-> todo, amount |-> amount]]
    PROVE  /\ call' \in [Calls -> [todo : Todos, amount : Asked]]
           /\ OpenCalls' \subseteq OpenCalls \cup {r}
           /\ call[r].todo \in {Asks, Books, <<"mark">>, <<"payment", "refund", "book", "mark">>} => OpenCalls' \subseteq OpenCalls
           /\ todo = <<>> => OpenCalls' \subseteq OpenCalls
           /\ todo # Asks => Asking' \subseteq Asking \ {r}
           /\ todo # Books /\ call[r].todo # Books => Booking' = Booking
           /\ todo = Books /\ call[r].todo # Books => Booking' = Booking \cup {r} /\ r \notin Booking
           /\ todo # Books => Booking \subseteq Booking' \cup {r} /\ Booking' \subseteq Booking
<1>1. /\ call' \in [Calls -> [todo : Todos, amount : Asked]]
      /\ call'[r].todo = todo
      /\ \A q \in Calls : q # r => call'[q] = call[q]
  BY DEF Typed
<1>2. OpenCalls' \subseteq OpenCalls \cup {r}
  BY <1>1 DEF OpenCalls, CallOpen
<1>3. call[r].todo \in {Asks, Books, <<"mark">>, <<"payment", "refund", "book", "mark">>} => OpenCalls' \subseteq OpenCalls
  BY <1>2, TodosGoOn DEF OpenCalls, CallOpen, NewCall
<1>4. todo = <<>> => OpenCalls' \subseteq OpenCalls
  BY <1>1, <1>2 DEF OpenCalls, CallOpen, NewCall
<1>5. todo # Asks => Asking' \subseteq Asking \ {r}
  BY <1>1 DEF Asking
<1>6. /\ todo # Books /\ call[r].todo # Books => Booking' = Booking
      /\ todo = Books /\ call[r].todo # Books => Booking' = Booking \cup {r} /\ r \notin Booking
      /\ todo # Books => Booking \subseteq Booking' \cup {r} /\ Booking' \subseteq Booking
  BY <1>1 DEF Booking
<1> QED
  BY <1>1, <1>2, <1>3, <1>4, <1>5, <1>6

\* Going on, and stopping, as such moves.
LEMMA MovesOn ==
    ASSUME Typed, NEW r \in Calls
    PROVE  /\ call[r].todo \in Todos /\ call[r].amount \in Asked
           /\ <<>> \in Todos /\ Asks \in Todos /\ Books \in Todos /\ <<"mark">> \in Todos
           /\ <<"payment", "refund", "book", "mark">> \in Todos
           /\ CallEnds(r) => call' = [call EXCEPT ![r] = [todo |-> <<>>, amount |-> call[r].amount]]
           /\ CallGoesOn(r) => call' = [call EXCEPT ![r] = [todo |-> Tail(call[r].todo), amount |-> call[r].amount]]
<1>1. call[r] \in [todo : Todos, amount : Asked]
  BY DEF Typed
<1>2. /\ <<>> \in Todos /\ Asks \in Todos /\ Books \in Todos /\ <<"mark">> \in Todos
      /\ <<"payment", "refund", "book", "mark">> \in Todos
  BY DEF Todos
<1>3. CallEnds(r) => call' = [call EXCEPT ![r] = [todo |-> <<>>, amount |-> call[r].amount]]
  BY <1>1 DEF CallEnds, Typed
<1>4. CallGoesOn(r) => call' = [call EXCEPT ![r] = [todo |-> Tail(call[r].todo), amount |-> call[r].amount]]
  BY <1>1 DEF CallGoesOn, Typed
<1> QED
  BY <1>1, <1>2, <1>3, <1>4

\* The sets after a move are finite, too, and counted.
LEMMA CountsAfter ==
    ASSUME call' \in [Calls -> [todo : Todos, amount : Asked]]
    PROVE  /\ IsFiniteSet(OpenCalls') /\ IsFiniteSet(Asking') /\ IsFiniteSet(Booking')
           /\ Cardinality(OpenCalls') \in Nat /\ Cardinality(Asking') \in Nat /\ Cardinality(Booking') \in Nat
<1>1. OpenCalls' \subseteq Calls /\ Asking' \subseteq Calls /\ Booking' \subseteq Calls
  BY DEF OpenCalls, Asking, Booking
<1> QED
  BY <1>1, RequestsAreFinite, FS_Subset, FS_CardinalityType

\* A request begins: it has a long way to go, or is turned away.
LEMMA CheckOrderKeeps ==
    ASSUME IInv, NEW r \in Calls, NEW amount \in Asked, CheckOrder(r, amount)
    PROVE  IInv'
<1> DEFINE todo == IF order \in Refundable THEN <<"payment", "refund", "book", "mark">> ELSE <<>>
<1>1. call[r].todo = <<"check">>
  BY DEF CheckOrder, NewCall
<1>2. todo \in Todos /\ todo # Asks /\ todo # Books /\ call[r].todo # Books
  BY <1>1, TodosGoOn, MovesOn DEF IInv
<1>3. call' = [call EXCEPT ![r] = [todo |-> todo, amount |-> amount]]
  BY DEF CheckOrder
<1> HIDE DEF todo
<1>4. /\ call' \in [Calls -> [todo : Todos, amount : Asked]]
      /\ OpenCalls' \subseteq OpenCalls \cup {r} /\ Asking' \subseteq Asking /\ Booking' = Booking
  BY <1>2, <1>3, OneMoves DEF IInv
<1>5. UNCHANGED <<ByRoute, refunded, booked, faults>>
  BY DEF CheckOrder, ByRoute
<1>6. Cardinality(Asking') <= Cardinality(Asking) /\ Cardinality(Asking') \in Nat /\ Cardinality(Asking) \in Nat
  BY <1>4, AskingAndBooking, NoMore DEF IInv
<1>7. Cardinality(ByRoute) \in Nat /\ upset \in Nat /\ faults \in Nat
  BY RefundsAreFinite DEF IInv, Typed
<1>8. CASE OpenCalls = {}
  <2>1. Cardinality(OpenCalls') \in Nat /\ Cardinality(OpenCalls') <= Cardinality(OpenCalls) + 1 /\ Cardinality(OpenCalls) = 0
    BY <1>4, <1>8, AskingAndBooking, OneMore, FS_EmptySet DEF IInv
  <2>2. upset' = upset
    <3>1. ~\E q \in Calls : CallOpen(q)
      BY <1>8 DEF OpenCalls
    <3> QED
      BY <1>7, <3>1 DEF CheckOrder
  <2>3. ActiveCounted'
    BY <1>5, <1>7, <2>1, <2>2 DEF IInv, ActiveCounted
  <2>4. UnbookedCounted'
    BY <1>4, <1>5 DEF IInv, UnbookedCounted
  <2>5. BookedCounted'
    BY <1>5, <1>6, <1>7, <2>2 DEF IInv, BookedCounted
  <2>6. Typed'
    BY <1>4, <1>5, <1>7, <2>2 DEF IInv, Typed
  <2> QED
    BY <2>3, <2>4, <2>5, <2>6 DEF IInv
<1>9. CASE OpenCalls # {}
  <2>1. Cardinality(OpenCalls') \in Nat /\ Cardinality(OpenCalls') <= Cardinality(OpenCalls) + 1 /\ Cardinality(OpenCalls) \in Nat
    BY <1>4, AskingAndBooking, OneMore DEF IInv
  <2>2. upset' = upset + 1
    <3>1. \E q \in Calls : CallOpen(q)
      BY <1>9 DEF OpenCalls
    <3> QED
      BY <3>1 DEF CheckOrder
  <2>3. ActiveCounted'
    BY <1>5, <1>7, <2>1, <2>2 DEF IInv, ActiveCounted
  <2>4. UnbookedCounted'
    BY <1>4, <1>5 DEF IInv, UnbookedCounted
  <2>5. BookedCounted'
    BY <1>5, <1>6, <1>7, <2>2 DEF IInv, BookedCounted
  <2>6. Typed'
    BY <1>4, <1>5, <1>7, <2>2 DEF IInv, Typed
  <2> QED
    BY <2>3, <2>4, <2>5, <2>6 DEF IInv
<1> QED
  BY <1>8, <1>9

\* Who has passed the check of the order passes that of the payment only while nothing is booked.
LEMMA CheckPaymentKeeps ==
    ASSUME IInv, NEW r \in Calls, CheckPayment(r)
    PROVE  IInv'
<1>1. call[r].todo = <<"payment", "refund", "book", "mark">> /\ Tail(call[r].todo) = Asks
  BY TodosGoOn, MovesOn DEF IInv, CheckPayment, CallAt
<1>2. PICK todo \in {Asks, <<>>} :
          /\ call' = [call EXCEPT ![r] = [todo |-> todo, amount |-> call[r].amount]]
          /\ todo = Asks => booked = <<>>
  <2>1. CASE Latest = "succeeded"
    BY <1>1, <2>1, MovesOn DEF IInv, CheckPayment, Latest
  <2>2. CASE Latest # "succeeded"
    BY <2>2, MovesOn, TodosGoOn DEF IInv, CheckPayment
  <2> QED
    BY <2>1, <2>2
<1>3. todo # Books /\ call[r].todo # Books /\ todo \in Todos /\ call[r].amount \in Asked
  BY <1>1, <1>2, TodosGoOn, MovesOn DEF IInv
<1>a. Typed
  BY DEF IInv
<1>4. /\ call' \in [Calls -> [todo : Todos, amount : Asked]]
      /\ OpenCalls' \subseteq OpenCalls /\ Booking' = Booking
      /\ booked # <<>> => Asking' \subseteq Asking
  <2> DEFINE amount == call[r].amount
  <2>1. call' = [call EXCEPT ![r] = [todo |-> todo, amount |-> amount]] /\ amount \in Asked /\ todo \in Todos
    BY <1>2, <1>3
  <2> HIDE DEF amount
  <2>2. /\ call' \in [Calls -> [todo : Todos, amount : Asked]]
        /\ OpenCalls' \subseteq OpenCalls
    BY <1>a, <1>1, <2>1, OneMoves
  <2>3. Booking' = Booking
    BY <1>a, <1>3, <2>1, OneMoves
  <2>4. todo # Asks => Asking' \subseteq Asking
    BY <1>a, <2>1, OneMoves
  <2> QED
    BY <1>2, <2>2, <2>3, <2>4
<1>5. UNCHANGED <<ByRoute, refunded, booked, faults, upset>>
  BY DEF CheckPayment, ByRoute
<1>6. /\ Cardinality(OpenCalls') <= Cardinality(OpenCalls) /\ Cardinality(OpenCalls') \in Nat
      /\ booked # <<>> => Cardinality(Asking') <= Cardinality(Asking)
  BY <1>4, AskingAndBooking, NoMore DEF IInv
<1>7. /\ Cardinality(OpenCalls) \in Nat /\ Cardinality(Asking) \in Nat /\ Cardinality(Asking') \in Nat
      /\ Cardinality(ByRoute) \in Nat /\ upset \in Nat /\ faults \in Nat
  BY <1>4, AskingAndBooking, CountsAfter, RefundsAreFinite DEF IInv, Typed
<1>8. Typed'
  BY <1>4, <1>5 DEF IInv, Typed
<1>9. ActiveCounted'
  BY <1>5, <1>6, <1>7 DEF IInv, ActiveCounted
<1>10. UnbookedCounted'
  BY <1>4, <1>5 DEF IInv, UnbookedCounted
<1>11. BookedCounted'
  BY <1>5, <1>6, <1>7 DEF IInv, BookedCounted
<1> QED
  BY <1>8, <1>9, <1>10, <1>11 DEF IInv

\* Stripe gives back: who has asked is about to book it, or a fault is to blame.
LEMMA RefundKeeps ==
    ASSUME IInv, NEW r \in Calls, Refund(r)
    PROVE  IInv'
<1>1. call[r].todo = Asks /\ Tail(call[r].todo) = Books /\ r \in Asking
  BY TodosGoOn, MovesOn DEF IInv, Refund, CallAt, Asking
<1>2. PICK a : refunded' = Append(refunded, [amount |-> a, by |-> "route"])
  BY DEF Refund, Give
<1>3. /\ \E S : refunded' \in Seq(S)
      /\ Cardinality(ByRoute') \in Nat /\ Cardinality(ByRoute') <= Cardinality(ByRoute) + 1
  BY <1>2, GivenIsAppended DEF IInv
<1>4. UNCHANGED <<booked, upset>>
  BY DEF Refund
<1>5. PICK todo \in {Books, <<>>} :
          /\ call' = [call EXCEPT ![r] = [todo |-> todo, amount |-> call[r].amount]]
          /\ todo = Books => faults' = faults
          /\ todo = <<>> => faults' = faults + 1
  <2>1. CASE CallGoesOn(r) /\ UNCHANGED faults
    BY <1>1, <2>1, MovesOn, TodosGoOn DEF IInv
  <2>2. CASE CallEnds(r) /\ faults' = faults + 1
    BY <2>2, MovesOn, TodosGoOn DEF IInv
  <2> QED
    BY <2>1, <2>2 DEF Refund
<1>6. todo \in Todos /\ todo # Asks /\ call[r].todo # Books /\ call[r].amount \in Asked
  BY <1>1, <1>5, TodosGoOn, MovesOn DEF IInv
<1>7. /\ call' \in [Calls -> [todo : Todos, amount : Asked]]
      /\ OpenCalls' \subseteq OpenCalls /\ Asking' \subseteq Asking \ {r}
      /\ todo = Books => Booking' = Booking \cup {r} /\ r \notin Booking
      /\ todo # Books => Booking' = Booking
  <2> DEFINE amount == call[r].amount
  <2>1. call' = [call EXCEPT ![r] = [todo |-> todo, amount |-> amount]] /\ amount \in Asked /\ todo \in Todos
    BY <1>5, <1>6
  <2>2. Typed
    BY DEF IInv
  <2> HIDE DEF amount
  <2> QED
    BY <1>1, <1>5, <1>6, <2>1, <2>2, OneMoves
<1>8. /\ Cardinality(OpenCalls') <= Cardinality(OpenCalls) /\ Cardinality(OpenCalls') \in Nat
      /\ Cardinality(Asking') + 1 <= Cardinality(Asking) /\ Cardinality(Asking') \in Nat
  BY <1>1, <1>7, AskingAndBooking, NoMore, OneLess DEF IInv
<1>9. todo = Books => Cardinality(Booking) + 1 <= Cardinality(Booking')
  BY <1>7, CountsAfter, OneLess
<1>10. Cardinality(ByRoute') <= faults' + Cardinality(Booking') \/ booked # <<>>
  <2>1. booked = <<>> => Cardinality(ByRoute) <= faults + Cardinality(Booking)
    BY DEF IInv, UnbookedCounted
  <2>2. CASE todo = Books
    <3>1. faults' = faults /\ faults \in Nat /\ Cardinality(Booking) + 1 <= Cardinality(Booking')
      BY <1>5, <1>9, <2>2 DEF IInv, Typed
    <3>2. /\ Cardinality(Booking) \in Nat /\ Cardinality(Booking') \in Nat
          /\ Cardinality(ByRoute) \in Nat
      BY <1>7, AskingAndBooking, CountsAfter, RefundsAreFinite DEF IInv
    <3> QED
      BY <1>3, <2>1, <3>1, <3>2
  <2>3. CASE todo = <<>>
    <3>1. faults' = faults + 1 /\ faults \in Nat /\ Booking' = Booking
      BY <1>5, <1>7, <2>3, TodosGoOn DEF IInv, Typed
    <3>2. Cardinality(Booking) \in Nat /\ Cardinality(ByRoute) \in Nat
      BY AskingAndBooking, RefundsAreFinite DEF IInv
    <3> QED
      BY <1>3, <2>1, <3>1, <3>2
  <2> QED
    BY <1>5, <2>2, <2>3
<1>11. booked # <<>> => Cardinality(ByRoute') + Cardinality(Asking') <= 1 + upset + faults'
  <2>1. faults' \in Nat /\ faults <= faults' /\ faults \in Nat /\ upset \in Nat
    BY <1>5, TodosGoOn DEF IInv, Typed
  <2> QED
    <3>1. booked # <<>> => Cardinality(ByRoute) + Cardinality(Asking) <= 1 + upset + faults
      BY DEF IInv, BookedCounted
    <3>2. Cardinality(Asking) \in Nat /\ Cardinality(ByRoute) \in Nat
      BY AskingAndBooking, RefundsAreFinite DEF IInv
    <3> QED
      BY <1>3, <1>8, <2>1, <3>1, <3>2
<1>12. faults' \in Nat
  BY <1>5, TodosGoOn DEF IInv, Typed
<1>13. Typed'
  BY <1>3, <1>4, <1>7, <1>12 DEF IInv, Typed
<1>14. ActiveCounted'
  BY <1>4, <1>8, AskingAndBooking DEF IInv, Typed, ActiveCounted
<1> QED
  BY <1>4, <1>10, <1>11, <1>13, <1>14 DEF IInv, UnbookedCounted, BookedCounted

\* Who stops without having been given anything: one fewer is at work.
LEMMA StopKeeps ==
    ASSUME IInv, NEW r \in Calls, CallEnds(r), UNCHANGED <<booked, refunded, upset>>,
           faults' = faults + 1 \/ (faults' = faults /\ call[r].todo # Books)
    PROVE  IInv'
<1>1. call' = [call EXCEPT ![r] = [todo |-> <<>>, amount |-> call[r].amount]] /\ call[r].amount \in Asked
  BY MovesOn DEF IInv
<1>2. /\ call' \in [Calls -> [todo : Todos, amount : Asked]]
      /\ OpenCalls' \subseteq OpenCalls /\ Asking' \subseteq Asking
      /\ Booking \subseteq Booking' \cup {r} /\ (call[r].todo # Books => Booking' = Booking)
  <2> DEFINE amount == call[r].amount
  <2>1. call' = [call EXCEPT ![r] = [todo |-> <<>>, amount |-> amount]] /\ amount \in Asked /\ <<>> \in Todos
    BY <1>1, MovesOn DEF IInv
  <2>2. Typed /\ <<>> # Asks /\ <<>> # Books
    BY TodosGoOn DEF IInv
  <2> HIDE DEF amount
  <2>3. /\ call' \in [Calls -> [todo : Todos, amount : Asked]]
        /\ OpenCalls' \subseteq OpenCalls /\ Asking' \subseteq Asking
        /\ Booking \subseteq Booking' \cup {r} /\ Booking' \subseteq Booking
    BY <2>1, <2>2, OneMoves
  <2>4. call[r].todo # Books => Booking' = Booking
    BY <2>1, <2>2, OneMoves
  <2> QED
    BY <2>3, <2>4
<1>3. /\ Cardinality(OpenCalls') <= Cardinality(OpenCalls) /\ Cardinality(OpenCalls') \in Nat
      /\ Cardinality(Asking') <= Cardinality(Asking) /\ Cardinality(Asking') \in Nat
      /\ Cardinality(Booking) <= Cardinality(Booking') + 1 /\ Cardinality(Booking') \in Nat
  <2>1. /\ IsFiniteSet(OpenCalls) /\ IsFiniteSet(Asking)
        /\ IsFiniteSet(Booking') /\ Cardinality(Booking') \in Nat
    BY <1>2, AskingAndBooking, CountsAfter DEF IInv
  <2>2. Cardinality(OpenCalls') <= Cardinality(OpenCalls) /\ Cardinality(OpenCalls') \in Nat
    BY <1>2, <2>1, NoMore
  <2>3. Cardinality(Asking') <= Cardinality(Asking) /\ Cardinality(Asking') \in Nat
    BY <1>2, <2>1, NoMore
  <2>4. Cardinality(Booking) <= Cardinality(Booking') + 1
    BY <1>2, <2>1, OneMore
  <2> QED
    BY <2>1, <2>2, <2>3, <2>4
<1>4. Cardinality(Booking) + faults <= Cardinality(Booking') + faults' /\ faults <= faults' /\ faults' \in Nat
  <2>1. faults \in Nat /\ Cardinality(Booking) \in Nat
    BY AskingAndBooking DEF IInv, Typed
  <2>2. CASE faults' = faults + 1
    BY <1>3, <2>1, <2>2
  <2>3. CASE faults' = faults /\ Booking' = Booking
    BY <1>3, <2>1, <2>3
  <2> QED
    BY <1>2, <2>2, <2>3
<1>5. ByRoute' = ByRoute
  BY DEF ByRoute
<1>6. Typed'
  BY <1>2, <1>4 DEF IInv, Typed
<1>7. /\ Cardinality(OpenCalls) \in Nat /\ Cardinality(Asking) \in Nat /\ Cardinality(Booking) \in Nat
      /\ Cardinality(ByRoute) \in Nat /\ upset \in Nat /\ faults \in Nat
  BY AskingAndBooking, RefundsAreFinite DEF IInv, Typed
<1>8. ActiveCounted'
  BY <1>3, <1>7 DEF IInv, ActiveCounted
<1>9. UnbookedCounted'
  BY <1>3, <1>4, <1>5, <1>7 DEF IInv, UnbookedCounted
<1>10. BookedCounted'
  <2>1. booked # <<>> => Cardinality(ByRoute) + Cardinality(Asking) <= 1 + upset + faults
    BY DEF IInv, BookedCounted
  <2>2. booked' = booked /\ upset' = upset /\ Cardinality(ByRoute') = Cardinality(ByRoute)
    BY <1>5
  <2>3. booked # <<>> => Cardinality(ByRoute) + Cardinality(Asking') <= 1 + upset + faults'
    BY SMTT(30), <1>3, <1>4, <1>7, <2>1
  <2> QED
    BY <2>2, <2>3 DEF BookedCounted
<1> QED
  BY <1>6, <1>8, <1>9, <1>10 DEF IInv

\* The first record: from now on nobody new asks, and who has asked was in progress.
LEMMA FirstRecord ==
    ASSUME IInv
    PROVE  Cardinality(ByRoute) + Cardinality(Asking) <= 1 + upset + faults
  BY AskingAndBooking, RefundsAreFinite DEF IInv, Typed, ActiveCounted, UnbookedCounted, BookedCounted

\* The route books: what it has been given is no longer unrecorded.
LEMMA BookKeeps ==
    ASSUME IInv, NEW r \in Calls, Book(r)
    PROVE  IInv'
<1>1. call[r].todo = Books /\ Tail(call[r].todo) = <<"mark">>
  BY TodosGoOn, MovesOn DEF IInv, Book, CallAt
<1>2. call' = [call EXCEPT ![r] = [todo |-> <<"mark">>, amount |-> call[r].amount]] /\ call[r].amount \in Asked
  BY <1>1, MovesOn DEF IInv, Book
<1>3. /\ call' \in [Calls -> [todo : Todos, amount : Asked]]
      /\ OpenCalls' \subseteq OpenCalls /\ Asking' \subseteq Asking
  <2> DEFINE amount == call[r].amount
             todo == <<"mark">>
  <2>1. call' = [call EXCEPT ![r] = [todo |-> todo, amount |-> amount]] /\ amount \in Asked
    BY <1>2
  <2>2. Typed /\ todo \in Todos /\ todo # Asks
    BY DEF IInv, Books, Asks, Todos
  <2> HIDE DEF amount, todo
  <2> QED
    BY <1>1, <2>1, <2>2, OneMoves
<1>4. (\E T : booked' \in Seq(T)) /\ booked' # <<>>
  BY BookedIsAppended DEF IInv, Typed, Book
<1>5. UNCHANGED <<ByRoute, refunded, upset, faults>>
  BY DEF Book, ByRoute
<1>6. /\ Cardinality(OpenCalls') <= Cardinality(OpenCalls) /\ Cardinality(OpenCalls') \in Nat
      /\ Cardinality(Asking') <= Cardinality(Asking) /\ Cardinality(Asking') \in Nat
  BY <1>3, AskingAndBooking, NoMore DEF IInv
<1>7. Typed'
  BY <1>3, <1>4, <1>5 DEF IInv, Typed
<1>8. /\ Cardinality(OpenCalls) \in Nat /\ Cardinality(Asking) \in Nat /\ Cardinality(ByRoute) \in Nat
      /\ upset \in Nat /\ faults \in Nat
  BY AskingAndBooking, RefundsAreFinite DEF IInv, Typed
<1>9. ActiveCounted'
  BY <1>5, <1>6, <1>8 DEF IInv, ActiveCounted
<1>10. UnbookedCounted'
  BY <1>4 DEF UnbookedCounted
<1>11. BookedCounted'
  <2>1. Cardinality(ByRoute) + Cardinality(Asking') <= 1 + upset + faults
    BY <1>6, <1>8, FirstRecord
  <2> QED
    BY <1>5, <2>1 DEF BookedCounted
<1> QED
  BY <1>7, <1>9, <1>10, <1>11 DEF IInv

\* The last step of a request is like a stop.
LEMMA MarkKeeps ==
    ASSUME IInv, NEW r \in Calls, Mark(r)
    PROVE  IInv'
<1>1. call[r].todo = <<"mark">> /\ Tail(call[r].todo) = <<>>
  BY TodosGoOn, MovesOn DEF IInv, Mark, CallAt
<1>2. CallEnds(r)
  BY <1>1 DEF Mark, CallGoesOn, CallEnds
<1> QED
  BY <1>1, <1>2, StopKeeps, TodosGoOn DEF Mark

\* What the handlers and staff do leaves the requests as they are.
LEMMA OthersKeep ==
    ASSUME IInv, UNCHANGED <<call, booked, refunded, upset>>, faults' \in {faults, faults + 1}
    PROVE  IInv'
<1>1. UNCHANGED <<OpenCalls, Asking, Booking, ByRoute>>
  BY DEF OpenCalls, Asking, Booking, ByRoute, CallOpen
<1>2. faults' \in Nat /\ faults <= faults'
  BY DEF IInv, Typed
<1> QED
  BY <1>1, <1>2, AskingAndBooking, RefundsAreFinite
  DEF IInv, Typed, ActiveCounted, UnbookedCounted, BookedCounted

\* The handler's record may be the first.
LEMMA BookEventKeeps ==
    ASSUME IInv, NEW e, BookEvent(e)
    PROVE  IInv'
<1>1. (\E T : booked' \in Seq(T)) /\ booked' # <<>>
  BY BookedIsAppended DEF IInv, Typed, BookEvent
<1>2. UNCHANGED <<OpenCalls, Asking, Booking, ByRoute, call, refunded, upset, faults>>
  BY DEF BookEvent, OpenCalls, Asking, Booking, ByRoute, CallOpen
<1>3. Typed' /\ ActiveCounted'
  BY <1>1, <1>2 DEF IInv, Typed, ActiveCounted
<1>4. UnbookedCounted' /\ BookedCounted'
  BY <1>1, <1>2, FirstRecord DEF UnbookedCounted, BookedCounted
<1> QED
  BY <1>3, <1>4 DEF IInv

\* What staff give back is not the route's.
LEMMA DashboardKeeps ==
    ASSUME IInv, NEW amount, RefundAtDashboard(amount)
    PROVE  IInv'
<1>1. refunded' = Append(refunded, [amount |-> amount, by |-> "staff"])
  BY DEF RefundAtDashboard, Give
<1>2. /\ \E S : refunded' \in Seq(S)
      /\ Cardinality(ByRoute') \in Nat /\ Cardinality(ByRoute') <= Cardinality(ByRoute)
  BY <1>1, GivenIsAppended DEF IInv
<1>3. UNCHANGED <<OpenCalls, Asking, Booking, call, booked, upset, faults>>
  BY DEF RefundAtDashboard, OpenCalls, Asking, Booking, CallOpen
<1>4. /\ Cardinality(OpenCalls) \in Nat /\ Cardinality(Asking) \in Nat /\ Cardinality(Booking) \in Nat
      /\ Cardinality(ByRoute) \in Nat /\ upset \in Nat /\ faults \in Nat
  BY AskingAndBooking, RefundsAreFinite DEF IInv, Typed
<1>5. Typed' /\ ActiveCounted'
  BY <1>2, <1>3 DEF IInv, Typed, ActiveCounted
<1>6. UnbookedCounted'
  BY <1>2, <1>3, <1>4 DEF IInv, UnbookedCounted
<1>7. BookedCounted'
  BY <1>2, <1>3, <1>4 DEF IInv, BookedCounted
<1> QED
  BY <1>5, <1>6, <1>7 DEF IInv

\* At first nobody has asked and nothing is booked.
LEMMA InitKeeps == RefundsInit => IInv
<1> SUFFICES ASSUME RefundsInit PROVE IInv
  OBVIOUS
<1>1. call \in [Calls -> [todo : Todos, amount : Asked]]
  BY TotalIsNat DEF RefundsInit, NewCall, Todos, Asked
<1>2. refunded = <<>> /\ booked = <<>> /\ upset = 0 /\ faults = 0
  BY DEF RefundsInit
<1>3. refunded \in Seq({}) /\ booked \in Seq({})
  BY <1>2
<1>4. Typed
  BY <1>1, <1>2, <1>3 DEF Typed
<1>5. OpenCalls = {} /\ ByRoute = {}
  BY <1>2 DEF RefundsInit, OpenCalls, CallOpen, ByRoute, NewCall
<1>6. Cardinality({}) = 0
  BY FS_EmptySet
<1> QED
  BY <1>2, <1>4, <1>5, <1>6, AskingAndBooking DEF IInv, ActiveCounted, UnbookedCounted, BookedCounted

\* Every step keeps the invariant.
LEMMA NextKeeps == IInv /\ [RefundsNext]_refundVars => IInv'
<1> SUFFICES ASSUME IInv, [RefundsNext]_refundVars PROVE IInv'
  OBVIOUS
<1>1. ASSUME NEW r \in Calls, RefundRefused(r) PROVE IInv'
  <2>1. call[r].todo # Books
    BY <1>1, TodosGoOn, MovesOn DEF IInv, RefundRefused, CallAt
  <2> QED
    BY <1>1, <2>1, StopKeeps DEF RefundRefused
<1>2. ASSUME NEW r \in Calls, Route(r) PROVE IInv'
  BY <1>1, <1>2, CheckPaymentKeeps, RefundKeeps, BookKeeps, MarkKeeps DEF Route
<1>3. ASSUME NEW r \in Calls, CutOffRequest(r) PROVE IInv'
  BY <1>3, StopKeeps DEF CutOffRequest
<1>4. ASSUME NEW e \in DOMAIN events, Handler(e) PROVE IInv'
  BY <1>4, BookEventKeeps, OthersKeep DEF Handler, Pay, Complete, MarkEvent
<1>5. ASSUME NEW e \in DOMAIN events, CutOffHandler(e) PROVE IInv'
  BY <1>5, OthersKeep DEF CutOffHandler
<1>6. ASSUME NEW status, SetStatus(status) PROVE IInv'
  BY <1>6, OthersKeep DEF SetStatus
<1>7. CASE UNCHANGED refundVars
  BY <1>7, OthersKeep DEF refundVars
<1> QED
  BY <1>2, <1>3, <1>4, <1>5, <1>6, <1>7, CheckOrderKeeps, DashboardKeeps DEF RefundsNext

\* Requests in progress are paid for by overlaps; refunds without a record by the requests about
\* to book them or by faults; and past the first record only who had passed the check still asks.
THEOREM Invariance == RefundsSpec => []IInv
  BY InitKeeps, NextKeeps, PTL DEF RefundsSpec

\* Whatever the number of requests, the amounts and the faults: the route asks Stripe for a second
\* refund only over another request in progress, or after a cut-off.
THEOREM SecondRefundIsPaidFor == RefundsSpec => []SecondRefundIsCounted
<1>1. IInv => SecondRefundIsCounted
  <2> SUFFICES ASSUME IInv PROVE SecondRefundIsCounted
    OBVIOUS
  <2> QED
    BY FirstRecord, AskingAndBooking, RefundsAreFinite DEF IInv, Typed, SecondRefundIsCounted
<1> QED
  BY <1>1, Invariance, PTL

-----------------------------------------------------------------------------
(* The books: proof *)

\* Induction on the natural numbers, for a set of them: otherwise consider the shortest interval
\* that ends outside.
LEMMA InductiveSet ==
    ASSUME NEW S, 0 \in S, \A n \in Nat : n \in S => n + 1 \in S
    PROVE  Nat \subseteq S
<1> SUFFICES ASSUME NEW n \in Nat, n \notin S PROVE FALSE
  OBVIOUS
<1> DEFINE T == {0..m : m \in (0..n) \ S}
<1>1. T \subseteq FiniteSubsetsOf(0..n) /\ T # {}
  <2>1. \A m \in 0..n : 0..m \subseteq 0..n /\ IsFiniteSet(0..m)
    BY FS_Interval
  <2> QED
    BY <2>1 DEF FiniteSubsetsOf
<1>2. PICK A \in T : \A B \in T : ~(<<B, A>> \in StrictSubsetOrdering(0..n))
  <2> HIDE DEF T
  <2> QED
    BY <1>1, FS_Interval, FS_StrictSubsetOrderingWellFounded, WFMin
<1>3. PICK m \in (0..n) \ S : A = 0..m
  BY <1>2
<1>4. m - 1 \in Nat /\ m - 1 \in 0..n /\ (m - 1) + 1 = m
  BY <1>3
<1>5. m - 1 \notin S
  BY <1>3, <1>4
<1>6. 0..(m - 1) \in T
  BY <1>4, <1>5
<1>7. <<0..(m - 1), A>> \in StrictSubsetOrdering(0..n)
  <2>1. 0..(m - 1) \subseteq 0..m /\ m \in 0..m /\ m \notin 0..(m - 1) /\ 0..m \subseteq 0..n
    BY <1>3, <1>4
  <2> QED
    BY <1>3, <2>1 DEF StrictSubsetOrdering
<1> QED
  BY <1>2, <1>6, <1>7

\* A function that adds up the first n of s.
Adds(f, s, n) == f = [k \in 0..n |-> IF k = 0 THEN 0 ELSE f[k - 1] + s[k]]

\* There is one, and only one, for every n up to the length of s.
LEMMA AddsExists ==
    ASSUME NEW s \in Seq(Nat)
    PROVE  \A n \in 0..Len(s) : \E f : Adds(f, s, n)
<1> DEFINE S == {n \in Nat : n <= Len(s) => \E f : Adds(f, s, n)}
<1>1. 0 \in S
  <2>1. Adds([k \in 0..0 |-> 0], s, 0)
    BY DEF Adds
  <2> QED
    BY <2>1
<1>2. ASSUME NEW n \in Nat, n \in S, n + 1 <= Len(s) PROVE \E f : Adds(f, s, n + 1)
  <2>1. PICK f : Adds(f, s, n)
    BY <1>2
  <2> DEFINE g == [k \in 0..(n + 1) |-> IF k <= n THEN f[k] ELSE f[n] + s[n + 1]]
  <2>2. ASSUME NEW k \in 0..(n + 1) PROVE g[k] = IF k = 0 THEN 0 ELSE g[k - 1] + s[k]
    <3>1. \A j \in 0..n : f[j] = IF j = 0 THEN 0 ELSE f[j - 1] + s[j]
      BY <2>1 DEF Adds
    <3>2. CASE k = n + 1
      <4>1. g[k] = f[n] + s[n + 1] /\ k # 0 /\ k - 1 = n /\ g[k - 1] = f[n]
        BY <3>2
      <4> QED
        BY <3>2, <4>1
    <3>3. CASE k \in 0..n /\ k # 0
      <4>1. g[k] = f[k] /\ k - 1 \in 0..n /\ g[k - 1] = f[k - 1]
        BY <3>3
      <4> QED
        BY <3>1, <3>3, <4>1
    <3>4. CASE k = 0
      BY <3>1, <3>4
    <3> HIDE DEF g
    <3> QED
      BY <3>2, <3>3, <3>4
  <2>3. g = [k \in 0..(n + 1) |-> IF k = 0 THEN 0 ELSE g[k - 1] + s[k]]
    BY <2>2
  <2> QED
    BY <2>3 DEF Adds
<1>3. Nat \subseteq S
  <2>1. \A k \in Nat : k \in S => k + 1 \in S
    BY <1>2
  <2> HIDE DEF S
  <2> QED
    BY <1>1, <2>1, InductiveSet
<1> QED
  BY <1>3

\* It does not depend on what follows.
LEMMA AddsAgree ==
    ASSUME NEW s, NEW t, NEW m \in Nat, NEW n \in Nat, NEW f, NEW g, Adds(f, s, m), Adds(g, t, n),
           m <= n, \A k \in 1..m : s[k] = t[k]
    PROVE  \A k \in 0..m : f[k] = g[k]
<1> DEFINE S == {k \in Nat : k <= m => f[k] = g[k]}
<1>0. /\ \A k \in 0..m : f[k] = IF k = 0 THEN 0 ELSE f[k - 1] + s[k]
      /\ \A k \in 0..n : g[k] = IF k = 0 THEN 0 ELSE g[k - 1] + t[k]
  BY DEF Adds
<1>1. 0 \in S
  BY <1>0
<1>2. ASSUME NEW k \in Nat, k \in S, k + 1 <= m PROVE f[k + 1] = g[k + 1]
  BY <1>0, <1>2
<1>3. Nat \subseteq S
  <2>1. \A k \in Nat : k \in S => k + 1 \in S
    BY <1>2
  <2> HIDE DEF S
  <2> QED
    BY <1>1, <2>1, InductiveSet
<1> QED
  BY <1>3

\* SumOf is what such a function comes to.
LEMMA SumUnfolds ==
    ASSUME NEW s \in Seq(Nat)
    PROVE  \E f : Adds(f, s, Len(s)) /\ SumOf(s) = f[Len(s)]
<1>1. SumOf(s) = (CHOOSE f : Adds(f, s, Len(s)))[Len(s)]
  BY DEF SumOf, Adds
<1>2. \E f : Adds(f, s, Len(s))
  BY AddsExists
<1> QED
  BY <1>1, <1>2

\* The sum of numbers is a number.
LEMMA SumIsNat ==
    ASSUME NEW s \in Seq(Nat)
    PROVE  SumOf(s) \in Nat
<1>1. PICK f : Adds(f, s, Len(s)) /\ SumOf(s) = f[Len(s)]
  BY SumUnfolds
<1> DEFINE S == {k \in Nat : k <= Len(s) => f[k] \in Nat}
<1>2. \A k \in 0..Len(s) : f[k] = IF k = 0 THEN 0 ELSE f[k - 1] + s[k]
  BY <1>1 DEF Adds
<1>3. 0 \in S
  BY <1>2
<1>4. ASSUME NEW k \in Nat, k \in S, k + 1 <= Len(s) PROVE f[k + 1] \in Nat
  <2>1. s[k + 1] \in Nat /\ f[k] \in Nat
    BY <1>4
  <2> QED
    BY <1>2, <1>4, <2>1
<1>5. Nat \subseteq S
  <2>1. \A k \in Nat : k \in S => k + 1 \in S
    BY <1>4
  <2> HIDE DEF S
  <2> QED
    BY <1>3, <2>1, InductiveSet
<1> QED
  BY <1>1, <1>5

\* One number more.
LEMMA SumOfAppend ==
    ASSUME NEW s \in Seq(Nat), NEW x \in Nat
    PROVE  SumOf(Append(s, x)) = SumOf(s) + x
<1> DEFINE t == Append(s, x)
           n == Len(s)
<1>1. t \in Seq(Nat) /\ Len(t) = n + 1 /\ t[n + 1] = x /\ n \in Nat /\ \A k \in 1..n : s[k] = t[k]
  OBVIOUS
<1>2. PICK f : Adds(f, s, n) /\ SumOf(s) = f[n]
  BY SumUnfolds
<1>3. PICK g : Adds(g, t, n + 1) /\ SumOf(t) = g[n + 1]
  <2> HIDE DEF t
  <2> QED
    BY <1>1, SumUnfolds
<1>4. f[n] = g[n]
  <2> HIDE DEF t
  <2>1. n \in 0..n /\ n <= n + 1 /\ n + 1 \in Nat /\ n \in Nat /\ \A k \in 1..n : s[k] = t[k]
    BY <1>1
  <2>2. Adds(f, s, n) /\ Adds(g, t, n + 1)
    BY <1>2, <1>3
  <2> HIDE DEF n
  <2>3. \A k \in 0..n : f[k] = g[k]
    BY <2>1, <2>2, AddsAgree
  <2> QED
    BY <2>1, <2>3
<1>5. g[n + 1] = g[n] + x
  <2> HIDE DEF t
  <2> QED
    BY <1>1, <1>3 DEF Adds
<1> QED
  BY <1>2, <1>3, <1>4, <1>5

\* Nothing to add.
LEMMA SumOfNone == SumOf(<<>>) = 0
<1>1. <<>> \in Seq(Nat) /\ Len(<<>>) = 0
  OBVIOUS
<1>2. PICK f : Adds(f, <<>>, 0) /\ SumOf(<<>>) = f[0]
  BY <1>1, SumUnfolds
<1> QED
  BY <1>2 DEF Adds

\* The running total that Stripe has reported last is in the books, or is about to be booked, or
\* a fault is to blame.
EventTodos == {<<"pay", "complete">>, <<"complete">>, Books, <<"mark">>, <<>>}

Reported(e) ==
    /\ events[e].amount = Returned
    /\ faults = 0 => events[e].todo = Books \/ \E i \in DOMAIN booked : booked[i] = Returned

Records ==
    /\ events \in Seq([amount : Nat, todo : EventTodos])
    /\ \E S : refunded \in Seq([amount : Nat, by : S])
    /\ booked \in Seq(Nat)
    /\ \A i \in DOMAIN booked : booked[i] <= SumOf(booked)

LastIsReported == refunded = <<>> \/ \E e \in DOMAIN events : Reported(e)

\* The inductive invariant of the books.
BInv == Records /\ LastIsReported

\* The elements of a sequence are where they should be.
LEMMA ElementsOf ==
    ASSUME NEW R, NEW s \in Seq(R)
    PROVE  Len(s) \in Nat /\ DOMAIN s = 1..Len(s) /\ \A i \in DOMAIN s : s[i] \in R
  OBVIOUS

\* A sequence over a set is one over a larger set.
LEMMA SeqWidens ==
    ASSUME NEW R, NEW S, R \subseteq S, NEW s \in Seq(R)
    PROVE  s \in Seq(S)
<1>1. Len(s) \in Nat /\ s \in [1..Len(s) -> R]
  OBVIOUS
<1>2. s \in [1..Len(s) -> S]
  BY <1>1
<1> QED
  BY <1>1, <1>2, SeqDef

\* The amounts given back, a list of numbers.
LEMMA AmountsAreNats ==
    ASSUME NEW S, refunded \in Seq([amount : Nat, by : S])
    PROVE  [i \in DOMAIN refunded |-> refunded[i].amount] \in Seq(Nat) /\ Returned \in Nat
<1>1. /\ Len(refunded) \in Nat /\ DOMAIN refunded = 1..Len(refunded)
      /\ \A i \in DOMAIN refunded : refunded[i].amount \in Nat
  <2> DEFINE R == [amount : Nat, by : S]
  <2>1. refunded \in Seq(R) /\ \A x \in R : x.amount \in Nat
    OBVIOUS
  <2> HIDE DEF R
  <2> QED
    BY <2>1, ElementsOf
<1>2. [i \in DOMAIN refunded |-> refunded[i].amount] \in [1..Len(refunded) -> Nat]
  BY <1>1
<1>3. [i \in DOMAIN refunded |-> refunded[i].amount] \in Seq(Nat)
  BY <1>1, <1>2, SeqDef
<1> QED
  BY <1>3, SumIsNat DEF Returned

\* A record more: each of them, old and new, is within the sum.
LEMMA BooksGrow ==
    ASSUME Records, NEW x \in Nat, booked' = Append(booked, x)
    PROVE  /\ booked' \in Seq(Nat)
           /\ \A i \in DOMAIN booked' : booked'[i] <= SumOf(booked')
           /\ \A i \in DOMAIN booked : i \in DOMAIN booked' /\ booked'[i] = booked[i]
           /\ \E i \in DOMAIN booked' : booked'[i] = x
<1>1. /\ booked' \in Seq(Nat) /\ Len(booked') = Len(booked) + 1 /\ booked'[Len(booked) + 1] = x
      /\ \A i \in DOMAIN booked : i \in DOMAIN booked' /\ booked'[i] = booked[i]
      /\ \A i \in DOMAIN booked' : i \in DOMAIN booked \/ i = Len(booked) + 1
      /\ Len(booked) + 1 \in DOMAIN booked'
  BY DEF Records
<1>2. SumOf(booked') = SumOf(booked) + x /\ SumOf(booked) \in Nat
  BY SumOfAppend, SumIsNat DEF Records
<1>3. \A i \in DOMAIN booked' : booked'[i] <= SumOf(booked')
  <2> SUFFICES ASSUME NEW i \in DOMAIN booked' PROVE booked'[i] <= SumOf(booked')
    OBVIOUS
  <2>1. CASE i \in DOMAIN booked
    <3>1. booked'[i] \in Nat /\ booked[i] = booked'[i] /\ booked[i] <= SumOf(booked)
      BY <1>1, <2>1 DEF Records
    <3> QED
      BY <1>2, <3>1
  <2>2. CASE i = Len(booked) + 1
    BY <1>1, <1>2, <2>2
  <2> QED
    BY <1>1, <2>1, <2>2
<1> QED
  BY <1>1, <1>3

\* A refund, whoever asks for it, makes Stripe report what has gone back by then.
LEMMA GiveKeeps ==
    ASSUME BInv, NEW amount \in Nat, NEW by, Give(amount, by), booked' = booked
    PROVE  BInv'
<1>1. PICK S : refunded \in Seq([amount : Nat, by : S])
  BY DEF BInv, Records
<1> DEFINE given == [i \in DOMAIN refunded |-> refunded[i].amount]
<1>2. given \in Seq(Nat) /\ Returned \in Nat /\ Returned = SumOf(given)
  BY <1>1, AmountsAreNats DEF Returned
<1>3. /\ refunded' = Append(refunded, [amount |-> amount, by |-> by])
      /\ events' = Append(events, [amount |-> Returned + amount, todo |-> Books])
  BY DEF Give, Report, Books
<1>4. refunded' \in Seq([amount : Nat, by : S \cup {by}])
  <2> DEFINE R == [amount : Nat, by : S \cup {by}]
  <2>1. [amount |-> amount, by |-> by] \in R /\ [amount : Nat, by : S] \subseteq R
    OBVIOUS
  <2> HIDE DEF R
  <2>2. refunded \in Seq(R)
    <3>1. [amount : Nat, by : S] \subseteq R /\ refunded \in Seq([amount : Nat, by : S])
      BY <1>1, <2>1
    <3> QED
      BY <3>1, SeqWidens
  <2>3. refunded' \in Seq(R)
    BY <1>3, <2>1, <2>2
  <2> QED
    BY <2>3 DEF R
<1>5. [i \in DOMAIN refunded' |-> refunded'[i].amount] = Append(given, amount)
  BY <1>1, <1>3
<1>6. Returned' = Returned + amount
  <2> HIDE DEF given
  <2> QED
    BY <1>2, <1>5, SumOfAppend DEF Returned
<1>7. events' \in Seq([amount : Nat, todo : EventTodos])
  BY <1>2, <1>3 DEF BInv, Records, EventTodos
<1>8. Records'
  BY <1>4, <1>7 DEF BInv, Records
<1>9. \E e \in DOMAIN events' : events'[e] = [amount |-> Returned + amount, todo |-> Books]
  <2>1. /\ Len(events) + 1 \in DOMAIN events'
        /\ events'[Len(events) + 1] = [amount |-> Returned + amount, todo |-> Books]
    BY <1>3 DEF BInv, Records
  <2> QED
    BY <2>1
<1> QED
  BY <1>6, <1>8, <1>9 DEF BInv, LastIsReported, Reported

\* A step that gives nothing back, books nothing and leaves Stripe's reports alone.
LEMMA BooksStand ==
    ASSUME BInv, UNCHANGED <<refunded, booked, events>>, faults' = 0 => faults = 0
    PROVE  BInv'
<1>1. Returned' = Returned
  BY DEF Returned
<1> QED
  BY <1>1 DEF BInv, Records, LastIsReported, Reported

\* The route books an amount.
LEMMA RouteBooks ==
    ASSUME IInv, BInv, NEW r \in Calls, Book(r)
    PROVE  BInv'
<1>1. Returned' = Returned /\ refunded' = refunded /\ events' = events /\ faults' = faults
  BY DEF Book, Returned
<1>2. PICK x \in Nat : booked' = Append(booked, x)
  BY TotalIsNat DEF Book, IInv, Typed, Asked
<1>3. /\ booked' \in Seq(Nat) /\ \A i \in DOMAIN booked' : booked'[i] <= SumOf(booked')
      /\ \A i \in DOMAIN booked : i \in DOMAIN booked' /\ booked'[i] = booked[i]
  BY <1>2, BooksGrow DEF BInv
<1>4. Records'
  BY <1>1, <1>3 DEF BInv, Records
<1>5. LastIsReported'
  BY <1>1, <1>3 DEF BInv, LastIsReported, Reported
<1> QED
  BY <1>4, <1>5 DEF BInv

\* Each step of a handler, and what it leaves to do.
LEMMA EventsGoOn ==
    /\ \A t \in EventTodos : t # <<>> => Tail(t) \in EventTodos
    /\ \A t \in EventTodos : t # <<>> => (Head(t) = "book" <=> t = Books)
  BY DEF EventTodos, Books

\* A handler's step, or its end.
LEMMA HandlerKeeps ==
    ASSUME IInv, BInv, NEW e \in DOMAIN events, Handler(e) \/ CutOffHandler(e)
    PROVE  BInv'
<1>0. events[e].todo # <<>> /\ events[e].todo \in EventTodos /\ events[e].amount \in Nat /\ faults \in Nat
  <2>1. events[e].todo # <<>>
    BY DEF Handler, Pay, Complete, BookEvent, MarkEvent, CutOffHandler, Handling
  <2>2. events[e] \in [amount : Nat, todo : EventTodos]
    BY ElementsOf DEF BInv, Records
  <2> QED
    BY <2>1, <2>2 DEF IInv, Typed
<1>1. refunded' = refunded /\ Returned' = Returned
  BY DEF Handler, Pay, Complete, BookEvent, MarkEvent, CutOffHandler, Returned
<1>2. PICK t \in EventTodos : events' = [events EXCEPT ![e].todo = t]
  <2>1. CASE Handler(e)
    BY <1>0, <2>1, EventsGoOn DEF Handler, Pay, Complete, BookEvent, MarkEvent, HandledOn
  <2>2. CASE CutOffHandler(e)
    BY <2>2 DEF CutOffHandler, EventTodos
  <2> QED
    BY <2>1, <2>2
<1>3. /\ events' \in Seq([amount : Nat, todo : EventTodos]) /\ DOMAIN events' = DOMAIN events
      /\ \A d \in DOMAIN events : events'[d].amount = events[d].amount /\ (d # e => events'[d] = events[d])
  <2> DEFINE R == [amount : Nat, todo : EventTodos]
  <2>1. events \in Seq(R) /\ events[e] \in R
    <3>1. events \in Seq(R)
      BY DEF BInv, Records
    <3> HIDE DEF R
    <3> QED
      BY <3>1, ElementsOf
  <2>2. [events[e] EXCEPT !.todo = t] \in R /\ [events[e] EXCEPT !.todo = t].amount = events[e].amount
    BY <2>1
  <2>3. events' = [events EXCEPT ![e] = [events[e] EXCEPT !.todo = t]]
    BY <1>2
  <2> DEFINE x == [events[e] EXCEPT !.todo = t]
  <2>4. events' = [events EXCEPT ![e] = x] /\ x \in R /\ x.amount = events[e].amount
    BY <2>2, <2>3
  <2> HIDE DEF R, x
  <2>5. events' \in Seq(R) /\ DOMAIN events' = DOMAIN events
    BY <2>1, <2>4
  <2>6. \A d \in DOMAIN events : events'[d] = IF d = e THEN x ELSE events[d]
    BY <2>1, <2>4
  <2> QED
    BY <2>4, <2>5, <2>6 DEF R
<1>4. CASE BookEvent(e)
  <2>1. booked' = Append(booked, events[e].amount) /\ faults' = faults
    BY <1>4 DEF BookEvent
  <2>2. /\ booked' \in Seq(Nat) /\ \A i \in DOMAIN booked' : booked'[i] <= SumOf(booked')
        /\ \A i \in DOMAIN booked : i \in DOMAIN booked' /\ booked'[i] = booked[i]
        /\ \E i \in DOMAIN booked' : booked'[i] = events[e].amount
    BY <1>0, <2>1, BooksGrow DEF BInv
  <2>3. Records'
    BY <1>1, <1>3, <2>2 DEF BInv, Records
  <2>4. ASSUME NEW d \in DOMAIN events, Reported(d) PROVE Reported(d)'
    BY <1>1, <1>3, <2>1, <2>2, <2>4 DEF Reported
  <2> QED
    BY <1>1, <1>3, <2>3, <2>4 DEF BInv, LastIsReported
<1>5. CASE ~BookEvent(e)
  <2>1. booked' = booked
    BY <1>5 DEF Handler, Pay, Complete, MarkEvent, CutOffHandler
  <2>2. faults' = 0 => faults = 0 /\ events[e].todo # Books
    BY <1>0, <1>5, EventsGoOn DEF Handler, Pay, Complete, MarkEvent, CutOffHandler, Handling
  <2>3. Records'
    BY <1>1, <1>3, <2>1 DEF BInv, Records
  <2>4. ASSUME NEW d \in DOMAIN events, Reported(d) PROVE Reported(d)'
    BY <1>1, <1>3, <2>1, <2>2, <2>4 DEF Reported
  <2> QED
    BY <1>1, <1>3, <2>3, <2>4 DEF BInv, LastIsReported
<1> QED
  BY <1>4, <1>5

\* Every step keeps the books.
LEMMA BooksKeep == IInv /\ BInv /\ [RefundsNext]_refundVars => BInv'
<1> SUFFICES ASSUME IInv, BInv, [RefundsNext]_refundVars PROVE BInv'
  OBVIOUS
<1>0. faults \in Nat
  BY DEF IInv, Typed
<1>1. ASSUME NEW r \in Calls, Refund(r) PROVE BInv'
  <2> DEFINE amount == IF call[r].amount = 0 THEN Total - Returned ELSE call[r].amount
  <2>1. Returned \in Nat /\ call[r].amount \in Nat
    <3>1. call[r].amount \in Nat
      BY TotalIsNat DEF IInv, Typed, Asked
    <3> QED
      BY <3>1, AmountsAreNats DEF BInv, Records
  <2>2. Give(amount, "route") /\ booked' = booked
    BY <1>1 DEF Refund
  <2>3. amount \in Nat
    BY <2>1, <2>2, TotalIsNat DEF Give
  <2> QED
    BY <2>2, <2>3, GiveKeeps
<1>2. ASSUME NEW r \in Calls, CheckPayment(r) \/ RefundRefused(r) \/ Mark(r) \/ CutOffRequest(r) PROVE BInv'
  BY <1>0, <1>2, BooksStand DEF CheckPayment, RefundRefused, Mark, CutOffRequest
<1>3. ASSUME NEW r \in Calls, NEW amount \in Asked, CheckOrder(r, amount) PROVE BInv'
  BY <1>3, BooksStand DEF CheckOrder
<1>4. ASSUME NEW amount \in 1..Total, RefundAtDashboard(amount) PROVE BInv'
  BY <1>4, GiveKeeps, TotalIsNat DEF RefundAtDashboard
<1>5. ASSUME NEW status, SetStatus(status) PROVE BInv'
  BY <1>5, BooksStand DEF SetStatus
<1>6. CASE UNCHANGED refundVars
  BY <1>6, BooksStand DEF refundVars
<1> QED
  BY <1>1, <1>2, <1>3, <1>4, <1>5, <1>6, RouteBooks, HandlerKeeps DEF RefundsNext, Route

\* Whatever the number of requests, refunds at the dashboard and amounts, and whatever the order in
\* which Stripe's events are handled: with nothing under way and nothing cut off, the shop's records
\* of refunds come to no less than what has gone back.
THEOREM BooksCover == RefundsSpec => []BooksCoverRefunds
<1>1. RefundsInit => BInv
  <2> SUFFICES ASSUME RefundsInit PROVE BInv
    OBVIOUS
  <2>1. refunded = <<>> /\ booked = <<>> /\ events = <<[amount |-> 0, todo |-> <<"pay", "complete">>]>>
    BY DEF RefundsInit
  <2>2. refunded \in Seq([amount : Nat, by : {}]) /\ booked \in Seq(Nat) /\ DOMAIN booked = {}
    BY <2>1
  <2>3. events \in Seq([amount : Nat, todo : EventTodos])
    BY <2>1 DEF EventTodos
  <2> QED
    BY <2>1, <2>2, <2>3 DEF BInv, Records, LastIsReported
<1>2. BInv => BooksCoverRefunds
  <2> SUFFICES ASSUME BInv, Quiet, faults = 0 PROVE SumOf(booked) >= Returned
    BY DEF BooksCoverRefunds
  <2>1. SumOf(booked) \in Nat
    BY SumIsNat DEF BInv, Records
  <2>2. CASE refunded = <<>>
    <3>1. [i \in DOMAIN refunded |-> refunded[i].amount] = <<>>
      BY <2>2
    <3>2. Returned = 0
      BY <3>1, SumOfNone DEF Returned
    <3> QED
      BY <2>1, <3>2
  <2>3. ASSUME NEW e \in DOMAIN events, Reported(e) PROVE SumOf(booked) >= Returned
    <3>1. PICK i \in DOMAIN booked : booked[i] = Returned
      BY <2>3 DEF Reported, Quiet, Books
    <3>2. booked[i] \in Nat /\ booked[i] <= SumOf(booked)
      BY DEF BInv, Records
    <3> QED
      BY <2>1, <3>1, <3>2
  <2> QED
    BY <2>2, <2>3 DEF BInv, LastIsReported
<1> QED
  BY <1>1, <1>2, BooksKeep, Invariance, PTL DEF RefundsSpec
=============================================================================
