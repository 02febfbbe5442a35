------------------------------ MODULE CartView ------------------------------
(***************************************************************************)
(* The cart as a tab of the storefront shows it: cart-context changes what *)
(* it shows before the server has answered and takes that back if the      *)
(* server refuses, every answer replaces what is shown, and nothing keeps  *)
(* answers in the order in which the server gave them. The checkout page   *)
(* shows what it has seen of the cart while the customer pays, and the     *)
(* confirmation page clears the cart. One signed-in customer, one product, *)
(* one coupon.                                                             *)
(***************************************************************************)
EXTENDS Naturals

CONSTANTS
    Requests,
    Kinds,      \* [Requests -> SUBSET {"add", "set", "remove", "apply", "drop", "clear", "refresh", "checkout"}]
    MaxQuantity,
    MaxFaults,  \* network errors
    MaxVisits   \* changes by another tab, and visits to the confirmation page

VARIABLES
    cart,       \* the server's: [quantity, coupon]
    shown,      \* cart of cart-context
    op,         \* each operation: where it is, and what it may fall back on
    page,       \* "shop", "paying" (step 3 of the checkout) or "confirmed"
    summary,    \* orderSummary
    order,      \* what has been ordered last
    served,     \* history: number of the server's latest answer or change,
    latest,     \*          of the latest answer that is shown,
    foreign,    \*          and of the latest change of the cart that answers nothing of this tab
    returned,   \* history: how often an answer or a refusal has changed what is shown
    disorder,   \* history: an older answer, or an older cart, has replaced a newer one
    unheard,    \* history: an answer was lost, but not what it was about
    crossed,    \* history: something went on beside a checkout, or it began out of date
    faults, visits

vars == <<cart, shown, op, page, summary, order, served, latest, foreign, returned, disorder, unheard,
          crossed, faults, visits>>

-----------------------------------------------------------------------------
(* State *)

Empty == [quantity |-> 0, coupon |-> FALSE]
Carts == [quantity : 0..MaxQuantity, coupon : BOOLEAN]

\* What the pages do by themselves: the confirmation page clears, a page that loads refreshes.
Pages == {"clearing", "loading"}
Ops == Requests \cup Pages

Idle == [pc |-> "idle"]
Ended == [pc |-> "done"]
At(r, pc) == op[r].pc = pc
InProgress(r) == op[r] \notin {Idle, Ended}
Quiet == \A r \in Ops : ~InProgress(r)
CheckingOut == \E r \in Requests : InProgress(r) /\ op[r].kind = "checkout"
UpToDate == Quiet /\ ~disorder /\ ~unheard /\ latest >= foreign

history == <<served, latest, foreign, returned, disorder, unheard, crossed, faults, visits>>

Init ==
    /\ cart \in Carts /\ shown = cart
    /\ op = [r \in Ops |-> Idle] /\ page = "shop" /\ summary = Empty /\ order = Empty
    /\ served = 0 /\ latest = 0 /\ foreign = 0 /\ returned = 0
    /\ disorder = FALSE /\ unheard = FALSE /\ crossed = FALSE /\ faults = 0 /\ visits = 0

New(kind, n) ==
    [pc |-> "sent", kind |-> kind, n |-> n, before |-> shown, since |-> returned, got |-> shown, at |-> 0]

-----------------------------------------------------------------------------
(* Operations: what is shown at once, and what is sent *)

\* updateQuantity and removeItem do not wait for the server.
Optimistic(kind, n) ==
    CASE kind = "set" -> [shown EXCEPT !.quantity = n]
      [] kind = "remove" -> [shown EXCEPT !.quantity = 0]
      [] OTHER -> shown

\* A row of the cart has to be there to be changed, and something in it for a checkout, which is
\* offered once (processing).
Offered(kind) ==
    /\ kind \in {"set", "remove", "checkout"} => shown.quantity > 0
    /\ kind = "checkout" => page = "shop" /\ ~CheckingOut

Begin(r, kind, n) ==
    /\ op[r] = Idle /\ kind \in Kinds[r] /\ Offered(kind)
    /\ op' = [op EXCEPT ![r] = New(kind, n)]
    /\ shown' = Optimistic(kind, n)
    /\ crossed' = (crossed \/ CheckingOut \/ (kind = "checkout" /\ ~UpToDate))
    /\ UNCHANGED <<cart, page, summary, order, served, latest, foreign, returned, disorder, unheard,
                   faults, visits>>

-----------------------------------------------------------------------------
(* The server: an operation is carried out, or refused *)

Possible(kind) == CASE kind \in {"set", "remove", "checkout"} -> cart.quantity > 0
                    [] kind = "add" -> cart.quantity < MaxQuantity
                    [] OTHER -> TRUE

\* clear_cart deletes the items of a signed-in user's cart, not its coupon.
After(q) ==
    CASE q.kind = "add" -> [cart EXCEPT !.quantity = @ + 1]
      [] q.kind = "set" -> [cart EXCEPT !.quantity = q.n]
      [] q.kind = "remove" -> [cart EXCEPT !.quantity = 0]
      [] q.kind = "apply" -> [cart EXCEPT !.coupon = TRUE]
      [] q.kind = "drop" -> [cart EXCEPT !.coupon = FALSE]
      [] q.kind = "clear" -> [cart EXCEPT !.quantity = 0]
      [] q.kind = "checkout" -> Empty
      [] OTHER -> cart

Serve(r) ==
    LET q == op[r]
    IN /\ At(r, "sent") /\ Possible(q.kind)
       /\ cart' = After(q)
       /\ served' = served + 1
       /\ IF q.kind = "checkout"
          THEN /\ order' = [cart EXCEPT !.coupon = @ \/ q.before.coupon]
               /\ foreign' = served'
          ELSE UNCHANGED <<order, foreign>>
       /\ op' = [op EXCEPT ![r] = [q EXCEPT !.pc = "served", !.got = cart', !.at = served']]
       /\ UNCHANGED <<shown, page, summary, latest, returned, disorder, unheard, crossed, faults, visits>>

\* Out of stock, not a valid code, not in the cart any more; the others are not refused.
Refuse(r) ==
    /\ At(r, "sent")
    /\ op[r].kind \in {"add", "apply", "checkout"} \/ ~Possible(op[r].kind)
    /\ op' = [op EXCEPT ![r].pc = "failed"]
    /\ UNCHANGED <<cart, shown, page, summary, order, history>>

NetworkError(r) ==
    /\ op[r].pc \in {"sent", "served"} /\ faults < MaxFaults
    /\ op' = [op EXCEPT ![r].pc = "failed"]
    /\ faults' = faults + 1
    /\ unheard' = (unheard \/ At(r, "served") \/ op[r].kind = "clear")
    /\ UNCHANGED <<cart, shown, page, summary, order, served, latest, foreign, returned, disorder,
                   crossed, visits>>

-----------------------------------------------------------------------------
(* Back in the tab *)

Stop(r) == op' = [op EXCEPT ![r] = Ended]

\* Mutant of Answer: what is shown is right anyway.
AnswerOptimistic(q) == IF q.kind = "clear" THEN Empty ELSE shown

\* clearCart empties what is shown whatever the server says.
Answer(q) == IF q.kind = "clear" THEN Empty ELSE q.got

Show(r) ==
    /\ At(r, "served") /\ op[r].kind # "checkout"
    /\ shown' = Answer(op[r])
    /\ disorder' = (disorder \/ op[r].at < latest)
    /\ latest' = op[r].at /\ returned' = returned + 1
    /\ Stop(r)
    /\ UNCHANGED <<cart, page, summary, order, served, foreign, unheard, crossed, faults, visits>>

\* The cart stays as it is on the screen; step 3 shows the copy of it.
Pay(r) ==
    /\ At(r, "served") /\ op[r].kind = "checkout"
    /\ page' = "paying" /\ summary' = op[r].before
    /\ Stop(r)
    /\ UNCHANGED <<cart, shown, order, history>>

\* Mutant of RollBack: the change stays on the screen.
RollBackNot(q) == shown

RollBack(q) ==
    CASE q.kind \in {"set", "remove"} -> q.before
      [] q.kind = "clear" -> Empty
      [] OTHER -> shown

Fail(r) ==
    LET back == op[r].kind \in {"set", "remove"}
    IN /\ At(r, "failed")
       /\ shown' = RollBack(op[r])
       /\ disorder' = (disorder \/ (back /\ returned # op[r].since))
       /\ returned' = returned + IF back THEN 1 ELSE 0
       /\ Stop(r)
       /\ UNCHANGED <<cart, page, summary, order, served, latest, foreign, unheard, crossed, faults, visits>>

-----------------------------------------------------------------------------
(* Pages, and other tabs *)

\* Stripe sends the browser to the confirmation page, which is loaded anew: the cart shown is
\* empty, and is cleared and refreshed at the same time.
Redirected ==
    /\ page = "paying" /\ Quiet
    /\ page' = "confirmed" /\ shown' = Empty /\ latest' = 0
    /\ op' = [op EXCEPT !["clearing"] = [New("clear", 0) EXCEPT !.before = Empty],
                        !["loading"] = [New("refresh", 0) EXCEPT !.before = Empty]]
    /\ UNCHANGED <<cart, summary, order, served, foreign, returned, disorder, unheard, crossed, faults, visits>>

\* A free order goes there at once; and whoever has ordered may go there again.
Visited ==
    /\ visits < MaxVisits /\ visits' = visits + 1
    /\ order # Empty /\ ~InProgress("clearing")
    /\ page' = "confirmed"
    /\ op' = [op EXCEPT !["clearing"] = New("clear", 0)]
    /\ crossed' = (crossed \/ CheckingOut)
    /\ UNCHANGED <<cart, shown, summary, order, served, latest, foreign, returned, disorder, unheard, faults>>

BackToShop ==
    /\ page # "shop" /\ page' = "shop"
    /\ UNCHANGED <<cart, shown, op, summary, order, history>>

Elsewhere ==
    /\ visits < MaxVisits /\ visits' = visits + 1
    /\ \E c \in Carts : cart' = c
    /\ served' = served + 1 /\ foreign' = served'
    /\ crossed' = (crossed \/ CheckingOut)
    /\ UNCHANGED <<shown, op, page, summary, order, latest, returned, disorder, unheard, faults>>

Step(r) == Serve(r) \/ Refuse(r) \/ NetworkError(r) \/ Show(r) \/ Fail(r)

Next ==
    \/ \E r \in Ops : Step(r)
    \/ \E r \in Requests :
          \/ Pay(r)
          \/ \E kind \in Kinds[r], n \in 1..MaxQuantity : (kind # "set" => n = 1) /\ Begin(r, kind, n)
    \/ Redirected \/ Visited \/ BackToShop \/ Elsewhere

Spec == Init /\ [][Next]_vars

-----------------------------------------------------------------------------
(* Properties *)

TypeOK ==
    /\ cart \in Carts /\ shown \in Carts /\ summary \in Carts /\ order \in Carts
    /\ page \in {"shop", "paying", "confirmed"}

\* At rest the tab shows the server's cart (the coupon if there is something in it), whatever was
\* shown in advance and refused, and however the operations overlapped: as long as no older answer
\* came in after a newer one, no answer to a change was lost, and no other tab or checkout has
\* changed the cart since.
ShownIsTheCart ==
    UpToDate => shown.quantity = cart.quantity /\ (cart.quantity > 0 => shown.coupon = cart.coupon)

\* While the customer pays, the page lists what has been ordered, if the checkout began with an
\* up-to-date cart and nothing went on beside it.
SummaryIsTheOrder == page = "paying" /\ ~crossed => summary = order
=============================================================================
