----------------------------- MODULE EventInbox -----------------------------
(***************************************************************************)
(* What the webhook receiver promises about Stripe's events: each one is   *)
(* taken in once, and what has been taken in is handled once or lost.      *)
(***************************************************************************)
EXTENDS Naturals

CONSTANTS Events

VARIABLES
    recorded,   \* events taken in
    handled     \* events whose handler has run

Init == recorded = {} /\ handled = {}

Receive(e) ==
    /\ e \notin recorded
    /\ recorded' = recorded \cup {e}
    /\ UNCHANGED handled

Handle(e) ==
    /\ e \in recorded \ handled
    /\ handled' = handled \cup {e}
    /\ UNCHANGED recorded

Next == \E e \in Events : Receive(e) \/ Handle(e)

vars == <<recorded, handled>>

Spec == Init /\ [][Next]_vars
=============================================================================
