---------------------------- MODULE Subscriptions ----------------------------
(***************************************************************************)
(* One user's subscriptions to one product: at Stripe, which runs them,    *)
(* and in ecommerce.subscriptions, which follows. The user subscribes      *)
(* through the API or pays a Checkout Session, cancels, and Stripe reports *)
(* what becomes of a subscription; an administrator may delete the         *)
(* product. A step is one call of Stripe or one COMMIT; events are handled *)
(* at most once (WebhookInbox), in any order. Trials, periods and coupons  *)
(* are left out: 'active' stands for 'trialing' too.                       *)
(***************************************************************************)
EXTENDS Naturals, FiniteSets, Sequences

CONSTANTS
    Requests,
    Kinds,       \* [Requests -> SUBSET STRING]: what a request may be for
    MaxEvents,   \* reports of Stripe
    MaxFaults    \* calls of Stripe that fail, requests and handlers cut off

VARIABLES
    customers,  \* customers made at Stripe for the user, numbered from 1
    mapped,     \* the one in ecommerce.stripe_customers, 0 for none
    subs,       \* at Stripe, in the order of their creation
    rows,       \* ecommerce.subscriptions, numbered as in subs
    events,     \* Stripe's reports: which subscription, its status, handled or not
    deleted,    \* products.deleted_at
    req,        \* each request: steps to do, and what it has read
    faults,
    upset,      \* history: how often a request has come in while another was in progress
    muddled     \* history: subscriptions with a report that came out of order, or before the
                \* row, or is misleading

vars == <<customers, mapped, subs, rows, events, deleted, req, faults, upset, muddled>>

-----------------------------------------------------------------------------
(* State and requests *)

NoRow == [there |-> FALSE, status |-> "pending", ending |-> FALSE]

\* What the CHECK of ecommerce.subscriptions admits.
RowStatuses == {"pending", "active", "past_due", "canceled", "unpaid", "trialing", "paused", "incomplete"}
StripeStatuses == {"active", "past_due", "canceled", "incomplete", "incomplete_expired"}

Steps == [subscribe |-> <<"find", "subscribe", "insert">>,
          session   |-> <<"find", "session", "pays">>,
          cancel    |-> <<"modify", "ending">>,
          delete    |-> <<"count", "delete">>]

Idle == [todo |-> <<"begin">>]
Ended == [todo |-> <<>>]

At(r, step) == req[r].todo # <<>> /\ Head(req[r].todo) = step
\* A session waits for its customer, not for the shop.
InProgress(r) == req[r].todo \notin {<<>>, <<"begin">>, <<"pays">>}

Go(r, state, steps) == req' = [req EXCEPT ![r] = IF steps = <<>> THEN Ended ELSE [state EXCEPT !.todo = steps]]
GoOn(r, state) == Go(r, state, Tail(req[r].todo))
Stop(r) == req' = [req EXCEPT ![r] = Ended]

Init ==
    /\ customers = 0 /\ mapped = 0
    /\ subs = <<>> /\ rows = <<>> /\ events = <<>>
    /\ deleted = FALSE
    /\ req = [r \in Requests |-> Idle]
    /\ faults = 0 /\ upset = 0 /\ muddled = {}

\* A deleted product is not sold; a subscription is cancelled by its row.
Admitted(kind, s) ==
    IF kind = "cancel" THEN s \in DOMAIN rows /\ rows[s].there /\ rows[s].status # "canceled"
                       ELSE s = 0 /\ ~deleted

Begin(r, kind, s) ==
    /\ req[r] = Idle /\ kind \in Kinds[r]
    /\ Admitted(kind, s)
    /\ req' = [req EXCEPT ![r] = [todo |-> Steps[kind], sub |-> s, customer |-> 0]]
    /\ upset' = upset + IF \E q \in Requests : InProgress(q) THEN 1 ELSE 0
    /\ UNCHANGED <<customers, mapped, subs, rows, events, deleted, faults, muddled>>

-----------------------------------------------------------------------------
(* get_or_create_stripe_customer *)

\* Mutant of Find: nobody looks the customer up.
FindNone(r) ==
    /\ At(r, "find")
    /\ Go(r, req[r], <<"make", "map">> \o Tail(req[r].todo))
    /\ UNCHANGED <<customers, mapped, subs, rows, events, deleted, faults, upset, muddled>>

Find(r) ==
    /\ At(r, "find")
    /\ IF mapped # 0
       THEN GoOn(r, [req[r] EXCEPT !.customer = mapped])
       ELSE Go(r, req[r], <<"make", "map">> \o Tail(req[r].todo))
    /\ UNCHANGED <<customers, mapped, subs, rows, events, deleted, faults, upset, muddled>>

MakeCustomer(r) ==
    /\ At(r, "make")
    /\ customers' = customers + 1
    /\ GoOn(r, [req[r] EXCEPT !.customer = customers + 1])
    /\ UNCHANGED <<mapped, subs, rows, events, deleted, faults, upset, muddled>>

\* ON CONFLICT DO NOTHING: whoever is second goes on with a customer nobody will find again.
MapCustomer(r) ==
    /\ At(r, "map")
    /\ mapped' = IF mapped = 0 THEN req[r].customer ELSE mapped
    /\ GoOn(r, req[r])
    /\ UNCHANGED <<customers, subs, rows, events, deleted, faults, upset, muddled>>

-----------------------------------------------------------------------------
(* Subscribing, cancelling, deleting the product *)

\* All of Stripe's reports of it have been handled.
Reported(s) == \A e \in DOMAIN events : events[e].sub = s => events[e].handled

Report(s, status) == [sub |-> s, status |-> status, handled |-> FALSE]

\* Stripe takes a subscription on and reports its creation.
TakeOn(r, status) ==
    /\ Len(events) < MaxEvents
    /\ subs' = Append(subs, [customer |-> req[r].customer, status |-> status, ending |-> FALSE])
    /\ rows' = Append(rows, NoRow)
    /\ events' = Append(events, Report(Len(subs'), status))
    /\ GoOn(r, [req[r] EXCEPT !.sub = Len(subs')])
    /\ UNCHANGED <<customers, mapped, deleted, faults, upset, muddled>>

Subscribe(r) == At(r, "subscribe") /\ TakeOn(r, "incomplete")

\* The INSERT of create_subscription, with the status Stripe has answered.
Insert(r) ==
    /\ At(r, "insert")
    /\ rows' = [rows EXCEPT ![req[r].sub] = [there |-> TRUE, status |-> "incomplete", ending |-> FALSE]]
    /\ GoOn(r, req[r])
    /\ UNCHANGED <<customers, mapped, subs, events, deleted, faults, upset, muddled>>

\* The session is made for the customer found ...
MakeSession(r) ==
    /\ At(r, "session")
    /\ GoOn(r, req[r])
    /\ UNCHANGED <<customers, mapped, subs, rows, events, deleted, faults, upset, muddled>>

\* ... who pays it at Stripe. Nothing of the shop's makes a row of the subscription.
PaySession(r) == At(r, "pays") /\ TakeOn(r, "active")

Over == {"canceled", "incomplete_expired"}

\* Mutant of Modify: the row is written first, and the call of Stripe may fail.
ModifyLast(r) ==
    /\ At(r, "modify")
    /\ rows' = [rows EXCEPT ![req[r].sub].ending = TRUE]
    /\ Stop(r)
    /\ UNCHANGED <<customers, mapped, subs, events, deleted, faults, upset, muddled>>

\* cancel_subscription: at the end of the period, which Stripe is told first.
Modify(r) ==
    /\ At(r, "modify")
    /\ LET s == req[r].sub IN
       /\ subs[s].status \notin Over /\ Len(events) < MaxEvents
       /\ subs' = [subs EXCEPT ![s].ending = TRUE]
       /\ events' = Append(events, Report(s, subs[s].status))
    /\ GoOn(r, req[r])
    /\ UNCHANGED <<customers, mapped, rows, deleted, faults, upset, muddled>>

\* What is over at Stripe is not modified; the exception ends the request.
ModifyRefused(r) ==
    /\ At(r, "modify")
    /\ subs[req[r].sub].status \in Over
    /\ Stop(r)
    /\ UNCHANGED <<customers, mapped, subs, rows, events, deleted, faults, upset, muddled>>

NoteEnding(r) ==
    /\ At(r, "ending")
    /\ rows' = [rows EXCEPT ![req[r].sub].ending = TRUE]
    /\ GoOn(r, req[r])
    /\ UNCHANGED <<customers, mapped, subs, events, deleted, faults, upset, muddled>>

\* delete_product counts the active subscriptions it has rows of ...
CountActive(r) ==
    /\ At(r, "count")
    /\ IF \E s \in DOMAIN rows : rows[s].there /\ rows[s].status \in {"active", "trialing"} THEN Stop(r) ELSE GoOn(r, req[r])
    /\ UNCHANGED <<customers, mapped, subs, rows, events, deleted, faults, upset, muddled>>

\* ... and deletes the product if there are none.
DeleteProduct(r) ==
    /\ At(r, "delete")
    /\ deleted' = TRUE
    /\ GoOn(r, req[r])
    /\ UNCHANGED <<customers, mapped, subs, rows, events, faults, upset, muddled>>

\* A call that fails or an exception, which end the request alike.
CutOff(r) ==
    /\ InProgress(r) /\ faults < MaxFaults
    /\ Stop(r) /\ faults' = faults + 1
    /\ UNCHANGED <<customers, mapped, subs, rows, events, deleted, upset, muddled>>

-----------------------------------------------------------------------------
(* Stripe *)

Becomes(s, status) ==
    /\ Len(events) < MaxEvents
    /\ subs' = [subs EXCEPT ![s].status = status]
    /\ events' = Append(events, Report(s, status))
    /\ UNCHANGED <<customers, mapped, rows, deleted, req, faults, upset, muddled>>

Paid(s)    == subs[s].status \in {"incomplete", "past_due"} /\ Becomes(s, "active")
Expired(s) == subs[s].status = "incomplete" /\ Becomes(s, "incomplete_expired")
Ends(s)    == (subs[s].ending \/ subs[s].status = "past_due") /\ subs[s].status \notin Over /\ Becomes(s, "canceled")

\* invoice.payment_failed, and customer.subscription.updated where that changes the status;
\* the first invoice's failure leaves the subscription incomplete.
PaymentFails(s) ==
    /\ subs[s].status \in {"incomplete", "active"} /\ Len(events) + 1 < MaxEvents
    /\ IF subs[s].status = "active"
       THEN /\ subs' = [subs EXCEPT ![s].status = "past_due"]
            /\ events' = events \o <<Report(s, "past_due"), Report(s, "past_due")>>
            /\ UNCHANGED muddled
       ELSE /\ events' = Append(events, Report(s, "past_due"))
            /\ muddled' = muddled \cup {s}
            /\ UNCHANGED subs
    /\ UNCHANGED <<customers, mapped, rows, deleted, req, faults, upset>>

-----------------------------------------------------------------------------
(* update_subscription_from_webhook *)

\* Mutant of Follow: a cancellation, which the shop has asked for itself, is left out.
FollowSome(row, status) ==
    IF status \in RowStatuses \ {"canceled"} /\ row.there THEN [row EXCEPT !.status = status] ELSE row

\* The row takes the status reported, whatever it has been; a status the CHECK does not know
\* makes the UPDATE fail, a subscription without a row makes it void.
Follow(row, status) ==
    IF status \in RowStatuses /\ row.there THEN [row EXCEPT !.status = status] ELSE row

Earlier(e) == {d \in 1..(e - 1) : events[d].sub = events[e].sub /\ ~events[d].handled}

Handle(e) ==
    /\ ~events[e].handled
    /\ LET s == events[e].sub IN
       /\ rows' = [rows EXCEPT ![s] = Follow(@, events[e].status)]
       /\ muddled' = IF Earlier(e) # {} \/ ~rows[s].there THEN muddled \cup {s} ELSE muddled
    /\ events' = [events EXCEPT ![e].handled = TRUE]
    /\ UNCHANGED <<customers, mapped, subs, deleted, req, faults, upset>>

LoseEvent(e) ==
    /\ ~events[e].handled /\ faults < MaxFaults
    /\ events' = [events EXCEPT ![e].handled = TRUE]
    /\ faults' = faults + 1
    /\ UNCHANGED <<customers, mapped, subs, rows, deleted, req, upset, muddled>>

-----------------------------------------------------------------------------

Step(r) ==
    \/ Find(r) \/ MakeCustomer(r) \/ MapCustomer(r)
    \/ Subscribe(r) \/ Insert(r) \/ MakeSession(r) \/ PaySession(r)
    \/ Modify(r) \/ ModifyRefused(r) \/ NoteEnding(r)
    \/ CountActive(r) \/ DeleteProduct(r) \/ CutOff(r)

Next ==
    \/ \E r \in Requests : Step(r) \/ \E kind \in Kinds[r], s \in {0} \cup DOMAIN rows : Begin(r, kind, s)
    \/ \E s \in DOMAIN subs : Paid(s) \/ Expired(s) \/ Ends(s) \/ PaymentFails(s)
    \/ \E e \in DOMAIN events : Handle(e) \/ LoseEvent(e)

Spec == Init /\ [][Next]_vars

-----------------------------------------------------------------------------
(* Properties *)

TypeOK ==
    /\ mapped \in 0..customers
    /\ subs \in Seq([customer : 1..customers, status : StripeStatuses, ending : BOOLEAN])
    /\ rows \in Seq([there : BOOLEAN, status : RowStatuses, ending : BOOLEAN])
    /\ Len(rows) = Len(subs)
    /\ \A e \in DOMAIN events : events[e].sub \in DOMAIN subs
    /\ muddled \subseteq DOMAIN subs /\ faults \in 0..MaxFaults

\* A row whose reports have all been handled, none before the row was there, none before an
\* earlier one and none lost, shows Stripe's status, an expired first payment excepted.
FollowsInOrder ==
    \A s \in DOMAIN rows :
        rows[s].there /\ s \notin muddled /\ faults = 0 /\ Reported(s)
           => rows[s].status = subs[s].status \/ subs[s].status = "incomplete_expired"

\* Who has been told that a subscription ends is not charged on: it does end at Stripe.
CancelledEnds == \A s \in DOMAIN rows : rows[s].ending => subs[s].ending \/ subs[s].status \in Over

\* "one Stripe Customer per user" but for overlapping requests and faults.
CustomersAreCounted == customers <= 1 + upset + faults
=============================================================================
