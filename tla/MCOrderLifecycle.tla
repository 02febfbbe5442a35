-------------------------- MODULE MCOrderLifecycle --------------------------
(***************************************************************************)
(* Instances of OrderLifecycle for TLC. One unit in stock, so that any     *)
(* second order is a second claim on it, or two.                           *)
(***************************************************************************)
EXTENDS OrderLifecycle

\* Every request has a cart of its own, or those that pay share the cart c1.
CONSTANTS c1, c2
OwnCarts == CHOOSE f \in [Requests -> Carts] : \A r, q \in Requests : f[r] = f[q] => r = q
SharedCart == [r \in Requests |-> IF r \in Free THEN c2 ELSE c1]

\* The schema the reaper was written for: 'expired' added to the CHECK.
RepairedStatuses == MigratedStatuses \cup {"expired"}
=============================================================================
