---------------------------- MODULE ShoppingCart ----------------------------
(***************************************************************************)
(* Carts and the coupon in them: the guest cart, one Redis value that      *)
(* every request reads, edits and writes back; the carts of a user in      *)
(* PostgreSQL, of which the newest active one is shown; the merge of the   *)
(* first into the second; the checkout, which turns a cart into an order   *)
(* and counts the coupon; and the sweep of every worker that marks carts   *)
(* as abandoned.                                                           *)
(*                                                                         *)
(* A request carries out one operation, statement by statement. Which      *)
(* statements an operation consists of is its Program; a step is one       *)
(* Redis command or one statement with the COMMIT that follows it. A user  *)
(* shops in one browser, so users stand for guest sessions as well.        *)
(***************************************************************************)
EXTENDS Naturals, FiniteSets, Sequences

CONSTANTS
    Users,
    Requests,
    UserOf,              \* [Requests -> Users]
    Kinds,               \* [Requests -> SUBSET STRING]: the operations a request may be for
    Variants,
    Quantities,
    MaxUses,             \* discount_codes.max_uses
    MaxUsesPerCustomer,  \* discount_codes.max_uses_per_customer
    Sweepers             \* one per worker process

\* What the theorems of ShoppingCart_proofs rest on.
Parameters ==
    /\ IsFiniteSet(Requests) /\ IsFiniteSet(Sweepers)
    /\ UserOf \in [Requests -> Users]
    /\ Quantities \subseteq Nat /\ MaxUses \in Nat

ASSUME CartsAreFinite == Parameters

VARIABLES
    guest,     \* the Redis value of each session
    carts,     \* rows of ecommerce.cart with their items, in order of creation
    orders,    \* what has been ordered
    coupon,    \* the discount code: active, uses_count, uses per customer
    req,       \* each request: steps to do, operation, and what it has read
    picked,    \* carts a sweep has selected and not dealt with
    asked,     \* history: quantities a user has asked for, added up
    crowded    \* history: users who had two requests in progress at a time

shopVars == <<guest, carts, orders, coupon>>
historyVars == <<asked, crowded>>
vars == <<shopVars, req, picked, historyVars>>

-----------------------------------------------------------------------------
(* Operations and their steps *)

GetCart == <<"find">>
ClearCart == [guest |-> <<"empty">>, user |-> <<"find", "set">>]
AddItem == [guest |-> <<"peek", "keep">>, user |-> <<"find", "look", "put", "find">>]
UpdateItem == [guest |-> <<"peek", "keep">>, user |-> <<"find", "set", "find">>]
RemoveItem == [guest |-> <<"peek", "keep">>, user |-> <<"find", "set", "find">>]
ApplyDiscount == [guest |-> <<"validate", "peek", "keep">>,
                  user |-> <<"find", "validate", "find", "set", "find">>]
RemoveDiscount == [guest |-> <<"peek", "keep">>, user |-> <<"find", "set", "find">>]
MergeCart == <<"peek", "find", "look", "merge", "delete", "find">>
CreateOrder == <<"open", "look", "place">>
CheckoutWithCode == <<"validate", "spread", "open", "look", "place">>   \* CreateOrder follows

Program == [
    guestClear |-> ClearCart.guest, guestAdd |-> AddItem.guest, guestUpdate |-> UpdateItem.guest,
    guestRemove |-> RemoveItem.guest, guestApply |-> ApplyDiscount.guest, guestDrop |-> RemoveDiscount.guest,
    clear |-> ClearCart.user, add |-> AddItem.user, update |-> UpdateItem.user,
    remove |-> RemoveItem.user, apply |-> ApplyDiscount.user, drop |-> RemoveDiscount.user,
    view |-> GetCart, merge |-> MergeCart, checkout |-> CreateOrder, checkoutWithCode |-> CheckoutWithCode]

Operation == [kind : DOMAIN Program, variant : Variants, quantity : Quantities]

Contents == [items : [Variants -> Nat], coupon : BOOLEAN]
NoItems == [v \in Variants |-> 0]
EmptyCart == [items |-> NoItems, coupon |-> FALSE]

Idle == [todo |-> <<"begin">>]
Ended == [todo |-> <<>>]

At(r, step) == req[r].todo # <<>> /\ Head(req[r].todo) = step
InProgress(r) == req[r] \notin {Idle, Ended}

\* On to the next step, in the state of the request given; a request that is over forgets all.
GoOn(r, state) ==
    req' = [req EXCEPT ![r] = IF Len(state.todo) = 1 THEN Ended
                              ELSE [state EXCEPT !.todo = Tail(@)]]
Stop(r) == req' = [req EXCEPT ![r] = Ended]

Active(u) == {c \in DOMAIN carts : carts[c].user = u /\ carts[c].status = "active"}

\* ORDER BY created_at DESC LIMIT 1
Newest(u) == CHOOSE c \in Active(u) : \A d \in Active(u) : d <= c

\* Edits of a cart, of the Redis value as of the rows.
NeedsItem == {"guestUpdate", "guestRemove", "update", "remove"}
Admits(contents, o) == o.kind \in NeedsItem => contents.items[o.variant] > 0
Edit(contents, o) ==
    CASE o.kind = "guestAdd" -> [contents EXCEPT !.items[o.variant] = @ + o.quantity]
      [] o.kind \in {"guestUpdate", "update"} -> [contents EXCEPT !.items[o.variant] = o.quantity]
      [] o.kind \in {"guestRemove", "remove"} -> [contents EXCEPT !.items[o.variant] = 0]
      [] o.kind \in {"guestApply", "apply"} -> [contents EXCEPT !.coupon = TRUE]
      [] o.kind \in {"guestDrop", "drop"} -> [contents EXCEPT !.coupon = FALSE]
      [] o.kind = "clear" -> [contents EXCEPT !.items = NoItems]

Init ==
    /\ guest = [u \in Users |-> EmptyCart]
    /\ carts = <<>>
    /\ orders = {}
    /\ coupon = [active |-> TRUE, uses |-> 0, by |-> [u \in Users |-> 0]]
    /\ req = [r \in Requests |-> Idle]
    /\ picked = [w \in Sweepers |-> {}]
    /\ asked = [u \in Users |-> NoItems]
    /\ crowded = {}

\* A request comes in.
Begin(r, o) ==
    /\ req[r] = Idle /\ o.kind \in Kinds[r]
    /\ req' = [req EXCEPT ![r] = [todo |-> Program[o.kind], op |-> o, mine |-> 0, none |-> FALSE,
                                  copy |-> EmptyCart, brought |-> EmptyCart]]
    /\ asked' = IF o.kind \in {"guestAdd", "guestUpdate", "add", "update"}
                THEN [asked EXCEPT ![UserOf[r]][o.variant] = @ + o.quantity] ELSE asked
    /\ crowded' = crowded \cup {u \in {UserOf[r]} : \E q \in Requests : UserOf[q] = u /\ InProgress(q)}
    /\ UNCHANGED <<shopVars, picked>>

-----------------------------------------------------------------------------
(* The guest cart in Redis *)

\* _get_guest_cart. The merge of an empty cart only shows the user's cart.
Peek(r) ==
    /\ At(r, "peek")
    /\ LET state == [req[r] EXCEPT !.brought = guest[UserOf[r]]] IN
       IF req[r].op.kind = "merge" /\ guest[UserOf[r]].items = NoItems
       THEN req' = [req EXCEPT ![r].todo = <<"find">>]
       ELSE GoOn(r, state)
    /\ UNCHANGED <<shopVars, picked, historyVars>>

\* _save_guest_cart writes the whole value, as read and edited.
Keep(r) ==
    /\ At(r, "keep") /\ Admits(req[r].brought, req[r].op)
    /\ guest' = [guest EXCEPT ![UserOf[r]] = Edit(req[r].brought, req[r].op)]
    /\ GoOn(r, req[r])
    /\ UNCHANGED <<carts, orders, coupon, picked, historyVars>>

\* ValueError("Item not in cart"), of the guest cart.
NotInGuestCart(r) ==
    /\ At(r, "keep") /\ ~Admits(req[r].brought, req[r].op)
    /\ Stop(r)
    /\ UNCHANGED <<shopVars, picked, historyVars>>

\* clear_cart overwrites the value without reading it; merge_cart deletes it.
Empty(r) ==
    /\ At(r, "empty") \/ At(r, "delete")
    /\ guest' = [guest EXCEPT ![UserOf[r]] = EmptyCart]
    /\ GoOn(r, req[r])
    /\ UNCHANGED <<carts, orders, coupon, picked, historyVars>>

-----------------------------------------------------------------------------
(* The user's cart in PostgreSQL *)

\* Mutant of Find: a cart without items does not count as one.
FindFilled(r) ==
    /\ At(r, "find") /\ ~req[r].none
    /\ LET u == UserOf[r] IN
       IF \A c \in Active(u) : carts[c].contents.items = NoItems THEN req' = [req EXCEPT ![r].none = TRUE]
       ELSE GoOn(r, [req[r] EXCEPT !.mine = Newest(u), !.copy = carts[Newest(u)].contents])
    /\ UNCHANGED <<shopVars, picked, historyVars>>

\* _get_or_create_auth_cart: the SELECT, and if it finds none the INSERT.
Find(r) ==
    /\ At(r, "find") /\ ~req[r].none
    /\ LET u == UserOf[r] IN
       IF Active(u) = {} THEN req' = [req EXCEPT ![r].none = TRUE]
       ELSE GoOn(r, [req[r] EXCEPT !.mine = Newest(u), !.copy = carts[Newest(u)].contents])
    /\ UNCHANGED <<shopVars, picked, historyVars>>

Create(r) ==
    /\ At(r, "find") /\ req[r].none
    /\ carts' = Append(carts, [user |-> UserOf[r], status |-> "active",
                               contents |-> EmptyCart, fired |-> 0])
    /\ GoOn(r, [req[r] EXCEPT !.mine = Len(carts'), !.none = FALSE, !.copy = EmptyCart])
    /\ UNCHANGED <<guest, orders, coupon, picked, historyVars>>

\* The SELECT of the items; the coupon stays the one read with the cart row.
Look(r) ==
    /\ At(r, "look")
    /\ LET items == carts[req[r].mine].contents.items IN
       IF items = NoItems /\ req[r].op.kind \in {"checkout", "checkoutWithCode"}
       THEN Stop(r)   \* ValueError("Cart is empty")
       ELSE GoOn(r, [req[r] EXCEPT !.copy.items = items])
    /\ UNCHANGED <<shopVars, picked, historyVars>>

SetContents(c, contents) == carts' = [carts EXCEPT ![c].contents = contents]

\* _add_auth_item: UPDATE quantity + n if the item was there, else INSERT, which the
\* primary key refuses if the item has appeared since.
Put(r) ==
    /\ At(r, "put")
    /\ LET c == req[r].mine  o == req[r].op  v == o.variant
           was == req[r].copy.items[v]  is == carts[c].contents.items[v] IN
       \/ /\ was > 0 \/ is = 0
          /\ SetContents(c, [carts[c].contents EXCEPT
                !.items[v] = IF was > 0 /\ is = 0 THEN 0 ELSE is + o.quantity])
          /\ GoOn(r, req[r])
       \/ /\ was = 0 /\ is > 0
          /\ Stop(r) /\ UNCHANGED carts
    /\ UNCHANGED <<guest, orders, coupon, picked, historyVars>>

\* The UPDATEs and DELETEs of update_item, remove_item, clear_cart, apply_discount
\* and remove_discount, on the row as it is; rowcount 0 is a ValueError.
Set(r) ==
    /\ At(r, "set")
    /\ LET c == req[r].mine  o == req[r].op IN
       \/ /\ Admits(carts[c].contents, o)
          /\ SetContents(c, Edit(carts[c].contents, o))
          /\ GoOn(r, req[r])
       \/ /\ ~Admits(carts[c].contents, o)
          /\ Stop(r) /\ UNCHANGED carts
    /\ UNCHANGED <<guest, orders, coupon, picked, historyVars>>

\* Mutant of Merged: the quantities are added up.
MergedSum(brought, read, now) == brought + now

\* What merge_cart makes of an item: the higher quantity, an UPDATE only if that is
\* not the one read, an INSERT if none was read.
Merged(brought, read, now) ==
    CASE brought = 0 \/ read >= brought -> now
      [] read = 0 /\ brought > 0 -> brought
      [] OTHER -> IF now = 0 THEN 0 ELSE brought

\* The transaction of merge_cart. An item that has appeared since the SELECT fails it.
Merge(r) ==
    /\ At(r, "merge")
    /\ LET c == req[r].mine  read == req[r].copy  from == req[r].brought  now == carts[c].contents IN
       \/ /\ \A v \in Variants : from.items[v] > 0 /\ read.items[v] = 0 => now.items[v] = 0
          /\ SetContents(c, [items |-> [v \in Variants |-> Merged(from.items[v], read.items[v], now.items[v])],
                             coupon |-> now.coupon \/ (from.coupon /\ ~read.coupon)])
          /\ GoOn(r, req[r])
       \/ /\ \E v \in Variants : from.items[v] > 0 /\ read.items[v] = 0 /\ now.items[v] > 0
          /\ Stop(r) /\ UNCHANGED carts
    /\ UNCHANGED <<guest, orders, coupon, picked, historyVars>>
-----------------------------------------------------------------------------
(* The coupon *)

\* Mutant of Accepts: one use too many.
AcceptsLast(r) ==
    /\ coupon.active
    /\ coupon.uses <= MaxUses
    /\ req[r].op.kind # "guestApply" => coupon.by[UserOf[r]] < MaxUsesPerCustomer

\* validate_discount. Of a guest it does not know the customer.
Accepts(r) ==
    /\ coupon.active
    /\ coupon.uses < MaxUses
    /\ req[r].op.kind # "guestApply" => coupon.by[UserOf[r]] < MaxUsesPerCustomer

Validate(r) ==
    /\ At(r, "validate")
    /\ IF Accepts(r) THEN GoOn(r, req[r]) ELSE Stop(r)
    /\ UNCHANGED <<shopVars, picked, historyVars>>

\* _apply_discount_to_cart writes the code to every active cart of the user.
Spread(r) ==
    /\ At(r, "spread")
    /\ carts' = [c \in DOMAIN carts |->
                    IF c \in Active(UserOf[r]) THEN [carts[c] EXCEPT !.contents.coupon = TRUE] ELSE carts[c]]
    /\ GoOn(r, req[r])
    /\ UNCHANGED <<guest, orders, coupon, picked, historyVars>>

\* The UPDATE of deactivate_discount; StripeCoupons is where Stripe's side of it is looked at.
Deactivate ==
    /\ coupon.active
    /\ coupon' = [coupon EXCEPT !.active = FALSE]
    /\ UNCHANGED <<guest, carts, orders, req, picked, historyVars>>

-----------------------------------------------------------------------------
(* Checkout *)

\* create_order_from_cart: the SELECT of the active cart, which creates none.
Open(r) ==
    /\ At(r, "open")
    /\ LET u == UserOf[r] IN
       IF Active(u) = {} THEN Stop(r)
       ELSE GoOn(r, [req[r] EXCEPT !.mine = Newest(u), !.copy = carts[Newest(u)].contents])
    /\ UNCHANGED <<shopVars, picked, historyVars>>

\* Mutant of Count: increment_customer_uses is forgotten.
CountInTotal(u) == [coupon EXCEPT !.uses = @ + 1]

\* increment_uses and increment_customer_uses add one in SQL.
Count(u) == [coupon EXCEPT !.uses = @ + 1, !.by[u] = @ + 1]

\* The order, with the items as read; the coupon counts if the code is still active;
\* the cart is converted whatever it has become.
Place(r) ==
    /\ At(r, "place")
    /\ LET u == UserOf[r]  used == req[r].copy.coupon /\ coupon.active IN
       /\ orders' = orders \cup {[by |-> r, cart |-> req[r].mine, items |-> req[r].copy.items, coupon |-> used]}
       /\ coupon' = IF used THEN Count(u) ELSE coupon
       /\ carts' = [carts EXCEPT ![req[r].mine].status = "converted"]
    /\ GoOn(r, req[r])
    /\ UNCHANGED <<guest, picked, historyVars>>

\* A request fails before its next step: stock is short, a check on the coupon that is
\* not modelled fails, a connection or the worker is lost.
Fail(r) ==
    /\ InProgress(r)
    /\ Stop(r)
    /\ UNCHANGED <<shopVars, picked, historyVars>>

-----------------------------------------------------------------------------
(* detect_abandoned_carts *)

\* Any cart may have been left alone for long enough: items do not touch updated_at.
Select(w) ==
    /\ picked[w] = {}
    /\ \E stale \in SUBSET {c \in DOMAIN carts : carts[c].status = "active" /\ carts[c].contents.items # NoItems} :
          picked' = [picked EXCEPT ![w] = stale]
    /\ UNCHANGED <<shopVars, req, historyVars>>

\* Mutant of MarkAbandoned: the event is fired and the COMMIT fails.
FireOnly(w) ==
    \E c \in picked[w] :
       /\ carts' = [carts EXCEPT ![c].fired = @ + 1]
       /\ picked' = [picked EXCEPT ![w] = @ \ {c}]
       /\ UNCHANGED <<guest, orders, coupon, req, historyVars>>

\* The UPDATE does not look at the status again; the event is fired after its COMMIT.
MarkAbandoned(w) ==
    \E c \in picked[w] :
       /\ carts' = [carts EXCEPT ![c].status = "abandoned", ![c].fired = @ + 1]
       /\ picked' = [picked EXCEPT ![w] = @ \ {c}]
       /\ UNCHANGED <<guest, orders, coupon, req, historyVars>>

Step(r) ==
    \/ Peek(r) \/ Keep(r) \/ NotInGuestCart(r) \/ Empty(r)
    \/ Find(r) \/ Create(r) \/ Look(r) \/ Put(r) \/ Set(r) \/ Merge(r)
    \/ Validate(r) \/ Spread(r) \/ Open(r) \/ Place(r)

Next ==
    \/ \E r \in Requests : Step(r) \/ Fail(r) \/ \E o \in Operation : Begin(r, o)
    \/ \E w \in Sweepers : Select(w) \/ MarkAbandoned(w)
    \/ Deactivate

Spec == Init /\ [][Next]_vars

-----------------------------------------------------------------------------
(* Properties *)

\* Types of all state; statuses are those of the CHECK constraint that occur.
TypeOK ==
    /\ guest \in [Users -> Contents]
    /\ \A c \in DOMAIN carts :
          carts[c] \in [user : Users, status : {"active", "abandoned", "converted"},
                        contents : Contents, fired : Nat]
    /\ coupon \in [active : BOOLEAN, uses : Nat, by : [Users -> Nat]]
    /\ \A r \in Requests : InProgress(r) => req[r].mine \in 0..Len(carts) /\ req[r].op \in Operation
    /\ \A w \in Sweepers : picked[w] \subseteq DOMAIN carts

\* No cart holds and nobody is sold more of a variant than they have asked for, however
\* often a merge is repeated after a failure and whatever it races (merge_cart takes the
\* higher quantity and deletes the guest cart only after its COMMIT).
OnlyWhatWasAskedFor ==
    \A v \in Variants :
       /\ \A c \in DOMAIN carts : carts[c].contents.items[v] <= asked[carts[c].user][v]
       /\ \A o \in orders : o.items[v] <= asked[UserOf[o.by]][v]

\* The coupon's counters, which its limits are checked against, are the orders that used
\* it, in total and by customer, in every state any other request can see.
UsesAreOrders ==
    LET with == {o \in orders : o.coupon} IN
    /\ coupon.uses = Cardinality(with)
    /\ \A u \in Users : coupon.by[u] = Cardinality({o \in with : UserOf[o.by] = u})

\* merge_cart and the edits of a cart, repeated and racing, put nothing into a cart or an order
\* beyond what the user has asked for; and the coupon's counters are the orders placed with it.
CartsAreAsAsked == OnlyWhatWasAskedFor /\ UsesAreOrders

\* Whose cart has the coupon or is about to: in Redis, in a row, or in a request that has
\* passed the validation.
Holds(u) ==
    \/ guest[u].coupon
    \/ \E c \in DOMAIN carts : carts[c].user = u /\ carts[c].contents.coupon
    \/ \E r \in Requests :
          /\ UserOf[r] = u /\ InProgress(r)
          /\ \/ req[r].brought.coupon \/ req[r].copy.coupon
             \/ req[r].op.kind \in {"guestApply", "apply", "checkoutWithCode"} /\ ~\E i \in DOMAIN req[r].todo : req[r].todo[i] = "validate"

\* max_uses is not checked when an order is placed. It does stop the coupon from spreading:
\* once used up or deactivated it reaches nobody who has not got hold of it before.
SpreadsNoFurther == coupon.uses >= MaxUses \/ ~coupon.active => \A u \in Users : Holds(u)' => Holds(u)

UsedUpSpreadsNoFurther == [][SpreadsNoFurther]_vars

\* A cart is reported as abandoned once by each worker at most, though the sweep neither
\* locks the rows it has selected nor looks at them again: a cart that has left 'active'
\* never returns to it.
AbandonedOncePerSweeper ==
    \A c \in DOMAIN carts : carts[c].fired <= Cardinality(Sweepers)

\* A user whose requests never overlapped has one active cart at most.
SecondCartNeedsOverlap ==
    \A u \in Users \ crowded : Cardinality(Active(u)) <= 1
=============================================================================
