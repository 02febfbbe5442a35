---------------------------- MODULE StockLedger ----------------------------
(***************************************************************************)
(* What the inventory promises its callers, with no locks, no statements   *)
(* and no interleaving inside a transaction: every transaction either      *)
(* takes effect on the shelf in one step or leaves no trace of itself.     *)
(*                                                                         *)
(*   Orders       carts converted by create_order_from_cart                *)
(*   Sessions     carts paid in a hosted checkout session, turned into an  *)
(*                order when Stripe reports the session as completed       *)
(*   Releases     reservations given back (payment failed, order reaped)   *)
(*   Adjustments  manual corrections by an administrator (adjust_stock)    *)
(*   Overwrites   product editor writing stock_quantity (update_variant)   *)
(*                                                                         *)
(* StockReservation implements this module.                                *)
(***************************************************************************)
EXTENDS Integers

CONSTANTS
    Variants,       \* ids of the product variants
    Orders, Sessions, Releases, Adjustments, Overwrites,
    LinesOf,        \* [Tx -> SUBSET Variants]: the rows a transaction names
    Qty,            \* [Tx -> [Variants -> Int]]: the quantity on each row
    InitialStock    \* [Variants -> Nat]

VARIABLES
    stock,          \* product_variants.stock_quantity
    outcome         \* what became of each transaction

Tx == Orders \cup Sessions \cup Releases \cup Adjustments \cup Overwrites

Init ==
    /\ stock = InitialStock
    /\ outcome = [t \in Tx |-> "open"]

Ends(t, how) ==
    /\ outcome[t] = "open"
    /\ outcome' = [outcome EXCEPT ![t] = how]

\* The shelf after n(v) units are added to every variant v of S.
Shelf(S, n(_)) == [v \in Variants |-> IF v \in S THEN stock[v] + n(v) ELSE stock[v]]

\* An order takes all of its lines, and only when all of them are in stock.
Place(t) ==
    /\ t \in Orders
    /\ \A v \in LinesOf[t] : stock[v] >= Qty[t][v]
    /\ stock' = Shelf(LinesOf[t], LAMBDA v : -Qty[t][v])
    /\ Ends(t, "done")

\* A paid session takes the lines that are in stock and lets the rest go.
Fulfil(t) ==
    /\ t \in Sessions
    /\ stock' = Shelf({v \in LinesOf[t] : stock[v] >= Qty[t][v]}, LAMBDA v : -Qty[t][v])
    /\ Ends(t, "done")

\* A release or a correction adds its quantities, whatever the shelf holds.
Add(t) ==
    /\ t \in Releases \cup Adjustments
    /\ stock' = Shelf(LinesOf[t], LAMBDA v : Qty[t][v])
    /\ Ends(t, "done")

\* The product editor replaces the number on the shelf.
Overwrite(t) ==
    /\ t \in Overwrites
    /\ stock' = [v \in Variants |-> IF v \in LinesOf[t] THEN Qty[t][v] ELSE stock[v]]
    /\ Ends(t, "done")

\* A transaction that fails leaves the shelf as it found it.
Refuse(t) ==
    /\ Ends(t, "failed")
    /\ UNCHANGED stock

Next == \E t \in Tx : Place(t) \/ Fulfil(t) \/ Add(t) \/ Overwrite(t) \/ Refuse(t)

vars == <<stock, outcome>>

Spec == Init /\ [][Next]_vars
=============================================================================
