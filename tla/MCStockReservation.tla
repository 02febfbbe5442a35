------------------------- MODULE MCStockReservation -------------------------
(***************************************************************************)
(* Instances of StockReservation for TLC: two variants, the second one     *)
(* scarce. The names of the transactions say their kind: o order, s paid   *)
(* session, r release, a adjustment, w overwrite.                          *)
(* An order that names one variant only is not held up on the other one:   *)
(* it meets the orders that name both in the middle of their work.         *)
(***************************************************************************)
EXTENDS StockReservation, TLC

CONSTANT ShortOrders    \* the orders that name variant 2 only

MCVariants == {1, 2}
MCInitialStock == 1 :> 2 @@ 2 :> 1

\* Single-row statements are on variant 2, the contended one.
MCLinesOf ==
    [t \in Tx |->
        IF t \in Adjustments \cup Overwrites \cup ShortOrders THEN {2} ELSE MCVariants]

\* A correction takes one unit away; the product editor writes 3.
MCQty ==
    [t \in Tx |-> [v \in MCVariants |->
        IF t \in Adjustments THEN -1 ELSE IF t \in Overwrites THEN 3 ELSE 1]]
=============================================================================
