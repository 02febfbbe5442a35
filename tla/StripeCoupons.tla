---------------------------- MODULE StripeCoupons ----------------------------
(***************************************************************************)
(* A discount code and its mirror at Stripe, a coupon with a promotion     *)
(* code. Both are immutable there, so an edit that matters deletes the     *)
(* coupon, forgets its id and creates another one; deactivating the code   *)
(* deletes the coupon first. Requests of administrators carry this out     *)
(* step by step, a step being one call of Stripe or one statement with its *)
(* COMMIT. A coupon is known by its number at Stripe, 0 standing for NULL. *)
(* What the code is worth and to whom it is restricted stand for all that  *)
(* makes an edit matter; free shipping, which is never mirrored, is left   *)
(* out.                                                                    *)
(***************************************************************************)
EXTENDS Naturals, FiniteSets, Sequences

CONSTANTS
    Requests,
    Kinds,       \* [Requests -> SUBSET STRING]: the operations a request may be for
    Values,
    Products,    \* what a code may be restricted to
    MaxFaults    \* calls of Stripe that fail, requests cut off

VARIABLES
    code,      \* the row of ecommerce.discount_codes with its restrictions
    listed,    \* products that have got a Stripe id
    coupons,   \* at Stripe: value, products it applies to, promotion code, not deleted
    req,       \* each request: steps to do, operation, and what it has read
    faults,
    upset,     \* history: how often a request has begun while another was in progress
    revived    \* history: an inactive code has been edited

vars == <<code, listed, coupons, req, faults, upset, revived>>

-----------------------------------------------------------------------------
(* State and requests *)

NoCode == [there |-> FALSE, active |-> TRUE, value |-> CHOOSE v \in Values : TRUE, only |-> {}, id |-> 0, sync |-> "unsynced"]

Terms == [value : Values, only : SUBSET Products]
Operation == [kind : {"create", "edit"}, terms : Terms] \cup [kind : {"activate", "deactivate"}]

FirstStep == [create |-> "insert", edit |-> "fetch", activate |-> "fetch", deactivate |-> "fetch"]

Idle == [todo |-> <<"begin">>]
Ended == [todo |-> <<>>]

At(r, step) == req[r].todo # <<>> /\ Head(req[r].todo) = step
InProgress(r) == req[r] \notin {Idle, Ended}

\* On to the steps given, in the state of the request given; a request that is over forgets all.
Go(r, state, steps) ==
    req' = [req EXCEPT ![r] = IF steps = <<>> THEN Ended ELSE [state EXCEPT !.todo = steps]]
GoOn(r, state) == Go(r, state, Tail(req[r].todo))
Stop(r) == req' = [req EXCEPT ![r] = Ended]

\* _sync_coupon_to_stripe in steps.
SyncCoupon == <<"products", "coupon", "promotion", "record">>

Init ==
    /\ code = NoCode
    /\ listed = {} /\ coupons = <<>>
    /\ req = [r \in Requests |-> Idle]
    /\ faults = 0 /\ upset = 0 /\ revived = FALSE

\* A request comes in; a code is known to others when its creation has been answered.
Begin(r, o) ==
    /\ req[r] = Idle /\ o.kind \in Kinds[r]
    /\ (o.kind = "create") = ~code.there
    /\ \A q \in Requests : InProgress(q) => req[q].op.kind # "create"
    /\ req' = [req EXCEPT ![r] = [todo |-> <<FirstStep[o.kind]>>, op |-> o, was |-> NoCode,
                                  row |-> NoCode, applies |-> {}, made |-> 0]]
    /\ upset' = upset + IF \E q \in Requests : InProgress(q) THEN 1 ELSE 0
    /\ UNCHANGED <<code, listed, coupons, faults, revived>>

\* catalog_sync_service gives a product its Stripe id, which it keeps (StripeCatalog).
Publish(p) ==
    /\ p \notin listed
    /\ listed' = listed \cup {p}
    /\ UNCHANGED <<code, coupons, req, faults, upset, revived>>

-----------------------------------------------------------------------------
(* What a request does in PostgreSQL *)

\* create_discount: the code and then its restrictions, which nobody can ask about before.
Insert(r) ==
    /\ At(r, "insert")
    /\ LET terms == req[r].op.terms
           row == [NoCode EXCEPT !.there = TRUE, !.value = terms.value, !.only = terms.only] IN
       /\ code' = row
       /\ Go(r, [req[r] EXCEPT !.row = row], SyncCoupon)
    /\ UNCHANGED <<listed, coupons, faults, upset, revived>>

\* Mutant of Fetch: a code is deactivated locally only.
FetchForgettingStripe(r) ==
    /\ At(r, "fetch")
    /\ Go(r, [req[r] EXCEPT !.was = code],
          IF req[r].op.kind = "deactivate" THEN <<"off">> ELSE <<"write">>)
    /\ UNCHANGED <<code, listed, coupons, faults, upset, revived>>

\* get_discount_by_id
Fetch(r) ==
    /\ At(r, "fetch")
    /\ Go(r, [req[r] EXCEPT !.was = code],
          CASE req[r].op.kind = "deactivate" /\ code.id # 0 -> <<"delete", "off">>
            [] req[r].op.kind = "deactivate" /\ code.id = 0 -> <<"off">>
            [] OTHER -> <<"write">>)
    /\ UNCHANGED <<code, listed, coupons, faults, upset, revived>>

\* Mutant of Resync: the old coupon is not deleted.
ResyncKeeping(was, changed) ==
    CASE changed /\ was.id # 0 -> <<"forget">> \o SyncCoupon
      [] was.id = 0 /\ was.sync \in {"error", "unsynced"} -> SyncCoupon
      [] OTHER -> <<>>

\* What update_discount has to do at Stripe. Switching the code on or off is no change that
\* matters to it; the id and the status it looks at are those it has read before the UPDATE.
Resync(was, changed) ==
    CASE changed /\ was.id # 0 -> <<"delete", "forget">> \o SyncCoupon
      [] was.id = 0 /\ was.sync \in {"error", "unsynced"} -> SyncCoupon
      [] OTHER -> <<>>

\* The UPDATE of update_discount, RETURNING the row, and of the restrictions.
Write(r) ==
    /\ At(r, "write")
    /\ LET o == req[r].op  was == req[r].was
           row == IF o.kind = "activate" THEN [code EXCEPT !.active = TRUE]
                  ELSE [code EXCEPT !.value = o.terms.value, !.only = o.terms.only]
           changed == o.kind = "edit" /\ <<o.terms.value, o.terms.only>> # <<was.value, was.only>> IN
       /\ code' = row
       /\ revived' = (revived \/ ~row.active)
       /\ Go(r, [req[r] EXCEPT !.row = row], Resync(was, changed))
    /\ UNCHANGED <<listed, coupons, faults, upset>>

Forget(r) ==
    /\ At(r, "forget")
    /\ code' = [code EXCEPT !.id = 0]
    /\ GoOn(r, req[r])
    /\ UNCHANGED <<listed, coupons, faults, upset, revived>>

\* The Stripe ids of the products the code is restricted to, of those that have one.
ReadProducts(r) ==
    /\ At(r, "products")
    /\ GoOn(r, [req[r] EXCEPT !.applies = (IF @ = {} /\ req[r].row.only = {} THEN code.only ELSE req[r].row.only) \cap listed])
    /\ UNCHANGED <<code, listed, coupons, faults, upset, revived>>

Record(r) ==
    /\ At(r, "record")
    /\ code' = [code EXCEPT !.id = req[r].made, !.sync = "synced"]
    /\ GoOn(r, req[r])
    /\ UNCHANGED <<listed, coupons, faults, upset, revived>>

\* _mark_discount_error
Blame(r) ==
    /\ At(r, "blame")
    /\ code' = [code EXCEPT !.sync = "error"]
    /\ GoOn(r, req[r])
    /\ UNCHANGED <<listed, coupons, faults, upset, revived>>

\* The UPDATE of deactivate_discount.
SwitchOff(r) ==
    /\ At(r, "off")
    /\ code' = [code EXCEPT !.active = FALSE]
    /\ GoOn(r, req[r])
    /\ UNCHANGED <<listed, coupons, faults, upset, revived>>

-----------------------------------------------------------------------------
(* Calls of Stripe *)

Live == {c \in DOMAIN coupons : coupons[c].live}

\* No applies_to stands for all products.
CreateCoupon(r) ==
    /\ At(r, "coupon")
    /\ coupons' = Append(coupons, [value |-> req[r].row.value, applies |-> req[r].applies,
                                   promoted |-> FALSE, live |-> TRUE])
    /\ GoOn(r, [req[r] EXCEPT !.made = Len(coupons')])
    /\ UNCHANGED <<code, listed, faults, upset, revived>>

CouponFails(r) ==
    /\ At(r, "coupon") /\ faults < MaxFaults
    /\ Go(r, req[r], <<"blame">>)
    /\ faults' = faults + 1
    /\ UNCHANGED <<code, listed, coupons, upset, revived>>

\* Stripe has one active promotion code of a name.
Taken == \E c \in Live : coupons[c].promoted

CreatePromotion(r) ==
    /\ At(r, "promotion") /\ ~Taken
    /\ coupons' = [coupons EXCEPT ![req[r].made].promoted = TRUE]
    /\ GoOn(r, req[r])
    /\ UNCHANGED <<code, listed, faults, upset, revived>>

\* Mutant of PromotionFails: the coupon is not cleaned up.
PromotionFailsLeaving(r) ==
    /\ At(r, "promotion")
    /\ \/ Taken /\ UNCHANGED faults
       \/ ~Taken /\ faults < MaxFaults /\ faults' = faults + 1
    /\ Go(r, req[r], <<"blame">>)
    /\ UNCHANGED <<code, listed, coupons, upset, revived>>

\* Then the coupon without it is deleted, and the error recorded. The customer a code is
\* restricted to may also be unknown to Stripe, which counts as a fault.
PromotionFails(r) ==
    /\ At(r, "promotion")
    /\ \/ Taken /\ UNCHANGED faults
       \/ ~Taken /\ faults < MaxFaults /\ faults' = faults + 1
    /\ Go(r, req[r], <<"undo", "blame">>)
    /\ UNCHANGED <<code, listed, coupons, upset, revived>>

\* The coupon a request deletes: the one it has read, or the one it has made.
Doomed(r) == IF At(r, "undo") THEN req[r].made ELSE req[r].was.id

\* delete_coupon of the adapter; what is deleted already it is told, and says nothing.
Delete(r) ==
    /\ At(r, "delete") \/ At(r, "undo")
    /\ coupons' = [coupons EXCEPT ![Doomed(r)].live = FALSE]
    /\ GoOn(r, req[r])
    /\ UNCHANGED <<code, listed, faults, upset, revived>>

\* The adapter swallows the exception: no caller learns of it, raise_on_error or not.
DeleteFails(r) ==
    /\ At(r, "delete") \/ At(r, "undo")
    /\ faults < MaxFaults /\ faults' = faults + 1
    /\ GoOn(r, req[r])
    /\ UNCHANGED <<code, listed, coupons, upset, revived>>

\* The worker process is lost.
CutOff(r) ==
    /\ InProgress(r) /\ faults < MaxFaults
    /\ Stop(r) /\ faults' = faults + 1
    /\ UNCHANGED <<code, listed, coupons, upset, revived>>

Step(r) ==
    \/ Insert(r) \/ Fetch(r) \/ Write(r) \/ Forget(r) \/ ReadProducts(r) \/ Record(r) \/ Blame(r) \/ SwitchOff(r)
    \/ CreateCoupon(r) \/ CouponFails(r) \/ CreatePromotion(r) \/ PromotionFails(r)
    \/ Delete(r) \/ DeleteFails(r) \/ CutOff(r)

Next ==
    \/ \E r \in Requests : Step(r) \/ \E o \in Operation : Begin(r, o)
    \/ \E p \in Products : Publish(p)

Spec == Init /\ [][Next]_vars

-----------------------------------------------------------------------------
(* Properties *)

Quiet == \A r \in Requests : ~InProgress(r)

TypeOK ==
    /\ code \in [there : BOOLEAN, active : BOOLEAN, value : Values, only : SUBSET Products,
                 id : 0..Len(coupons), sync : {"unsynced", "synced", "error"}]
    /\ \A c \in DOMAIN coupons :
          coupons[c] \in [value : Values, applies : SUBSET Products, promoted : BOOLEAN, live : BOOLEAN]

\* Without failures and overlapping requests an active code has one coupon at Stripe, worth
\* what the shop says and applying to nothing the shop does not say; and an inactive one has none,
\* if nobody has edited it since it was switched off.
MirroredWhenAlone ==
    Quiet /\ faults = 0 /\ upset = 0 /\ code.there =>
       IF code.active
       THEN /\ Live \subseteq {code.id}
            /\ code.id \in Live =>
                  /\ coupons[code.id].value = code.value
                  /\ coupons[code.id].applies \subseteq code.only
       ELSE revived \/ Live = {}

\* Every coupon still alive that the row does not point to costs a fault or an overlap.
OrphansAreCounted == Quiet => Cardinality(Live \ {code.id}) <= faults + upset
=============================================================================
