--------------------------- MODULE MCEmailDelivery ---------------------------
(***************************************************************************)
(* Instances of EmailDelivery for TLC: a transactional email m1 of one     *)
(* user, and a marketing email of the same user.                           *)
(***************************************************************************)
EXTENDS EmailDelivery

CONSTANTS m1, u1
MCUserOf == [e \in Emails |-> u1]
MCTypeOf == [e \in Emails |-> IF e = m1 THEN "transactional" ELSE "marketing"]
=============================================================================
