---------------------------- MODULE StripeCatalog ----------------------------
(***************************************************************************)
(* A product with its variants, and its mirror at Stripe: one Product and  *)
(* a Price for each variant. Prices cannot be changed at Stripe, so a      *)
(* change archives the old Price and creates a new one. Requests of        *)
(* merchants push what they have committed; Stripe reports every change of *)
(* its objects back, those that the requests made as well, in any order    *)
(* and with any delay.                                                     *)
(*                                                                         *)
(* A request carries out its steps one by one; a step is one call of       *)
(* Stripe or one statement with its COMMIT. A variant is known by its      *)
(* number in order of creation, a Stripe object by the number in its       *)
(* sequence, 0 standing for NULL. Names, descriptions and pictures are     *)
(* left out: changing them pushes the product and nothing else.            *)
(***************************************************************************)
EXTENDS Naturals, FiniteSets, SequencesExt

CONSTANTS
    Requests,
    Kinds,       \* [Requests -> SUBSET STRING]: the operations a request may be for
    Variants,    \* numbers of variants there may be; the first one is 'Default'
    Amounts,     \* prices that are asked for
    Unset,       \* price_override NULL
    MaxTrouble   \* calls of Stripe that fail, requests cut off and changes made in the dashboard

VARIABLES
    product,   \* the row of ecommerce.products
    variants,  \* the rows of ecommerce.product_variants
    items,     \* Stripe Products: are they active, or gone
    prices,    \* Stripe Prices: amount, the variant they are for, are they active
    events,    \* webhook events on their way
    handling,  \* product events whose handler has read the row
    req,       \* each request: steps to do, operation, and what it has read
    faults, edits,
    upset      \* history: how often something has happened that may set the two sides apart

stripeVars == <<items, prices, events>>
vars == <<product, variants, stripeVars, handling, req, faults, edits, upset>>

-----------------------------------------------------------------------------
(* State and requests *)

NoProduct == [status |-> "none", deleted |-> FALSE, base |-> 0, id |-> 0, sync |-> "unsynced", price |-> 0]
NoVariant == [state |-> "none", override |-> Unset, price |-> 0, sync |-> "unsynced"]
There(row) == row.state = "there"

Operation ==
    [kind : {"create", "setStatus"}, to : {"draft", "active", "archived"}]
    \cup [kind : {"setBase"}, to : Amounts]
    \cup [kind : {"rename", "delete", "retry"}]
    \cup [kind : {"addVariant", "setOverride"}, variant : Variants, to : Amounts \cup {Unset}]
    \cup [kind : {"dropVariant"}, variant : Variants]

FirstStep(o) ==
    CASE o.kind = "create" -> "insert"
      [] o.kind \in {"addVariant", "setOverride"} -> "variant"
      [] o.kind = "dropVariant" -> "drop"
      [] OTHER -> "fetch"

Idle == [todo |-> << <<"begin">> >>]
Ended == [todo |-> <<>>]

\* A step is its name, and for a step of one variant the number of that.
At(r, step) == req[r].todo # <<>> /\ Head(req[r].todo)[1] = step
Of(r) == Head(req[r].todo)[2]
InProgress(r) == req[r] \notin {Idle, Ended}

\* On to the steps given, in the state of the request given; a request that is over forgets all.
Go(r, state, steps) ==
    req' = [req EXCEPT ![r] = IF steps = <<>> THEN Ended ELSE [state EXCEPT !.todo = steps]]
GoOn(r, state) == Go(r, state, Tail(req[r].todo))
Stop(r) == req' = [req EXCEPT ![r] = Ended]

\* sync_product_to_catalog, sync_variant_to_catalog, copy_default_variant_price and
\* archive_product_in_catalog in steps.
SyncProduct == << <<"push">>, <<"note">> >>

\* Mutant of SyncVariant: the old Price stays on sale.
SyncVariantKeeping(v, row) == << <<"price", v>>, <<"store", v>> >>

SyncVariant(v, row) ==
    (IF row.price = 0 THEN <<>> ELSE << <<"retire", v>> >>) \o << <<"price", v>>, <<"store", v>> >>

CopyDefault == << <<"choose">>, <<"copy">> >>
Archive(row) == IF row.id = 0 THEN <<>> ELSE << <<"archive">>, <<"archived">> >>

Init ==
    /\ product = NoProduct
    /\ variants = [v \in Variants |-> NoVariant]
    /\ items = <<>> /\ prices = <<>> /\ events = {} /\ handling = {}
    /\ req = [r \in Requests |-> Idle]
    /\ faults = 0 /\ edits = 0
    /\ upset = 0

\* A request comes in; a product is known to others when its creation has been answered.
Begin(r, o) ==
    /\ req[r] = Idle /\ o.kind \in Kinds[r]
    /\ (o.kind = "create") = (product.status = "none")
    /\ \A q \in Requests : InProgress(q) => req[q].op.kind # "create"
    /\ req' = [req EXCEPT ![r] = [todo |-> << <<FirstStep(o)>> >>, op |-> o, row |-> NoProduct,
                                  list |-> [v \in Variants |-> NoVariant], made |-> 0]]
    /\ upset' = upset + IF \E q \in Requests : InProgress(q) THEN 1 ELSE 0
    /\ UNCHANGED <<product, variants, stripeVars, handling, faults, edits>>

-----------------------------------------------------------------------------
(* What a request does in PostgreSQL *)

\* create_product: the row and its default variant.
Insert(r) ==
    /\ At(r, "insert")
    /\ LET row == [NoProduct EXCEPT !.status = req[r].op.to, !.base = 1] IN
       /\ product' = row
       /\ Go(r, [req[r] EXCEPT !.row = row],
             IF row.status = "active" THEN SyncProduct \o << <<"list">> >> ELSE <<>>)
    /\ variants' = [variants EXCEPT ![1].state = "there"]
    /\ UNCHANGED <<stripeVars, handling, faults, edits, upset>>

\* get_product_by_id; what is not found, or for retry_sync not active, is a ValueError.
Fetch(r) ==
    /\ At(r, "fetch")
    /\ LET kind == req[r].op.kind IN
       IF product.status = "none" \/ product.deleted \/ (kind = "retry" /\ product.status # "active")
       THEN Stop(r)
       ELSE Go(r, [req[r] EXCEPT !.row = product],
               CASE kind = "retry" -> SyncProduct \o << <<"list">> >>
                 [] kind = "delete" -> << <<"remove">> >>
                 [] OTHER -> << <<"write">> >>)
    /\ UNCHANGED <<product, variants, stripeVars, handling, faults, edits, upset>>

\* Mutant of SyncAfter: the Prices are not rotated when the base price changes.
SyncNameAfter(kind, was, row) ==
    CASE row.status = "active" /\ (was # "active" \/ kind \in {"setBase", "rename"}) ->
            SyncProduct \o (IF was # "active" THEN << <<"list">> >> ELSE <<>>)
      [] was = "active" /\ row.status # "active" -> Archive(row)
      [] OTHER -> <<>>

\* What update_product does at Stripe for a row that it has read and written.
SyncAfter(kind, was, row) ==
    CASE row.status = "active" /\ (was # "active" \/ kind \in {"setBase", "rename"}) ->
            SyncProduct \o (IF was # "active" \/ kind = "setBase" THEN << <<"list">> >> ELSE <<>>)
      [] was = "active" /\ row.status # "active" -> Archive(row)
      [] OTHER -> <<>>

\* The UPDATE of update_product, which does not look at the row again.
Write(r) ==
    /\ At(r, "write")
    /\ LET o == req[r].op
           row == CASE o.kind = "setStatus" -> [product EXCEPT !.status = o.to]
                    [] o.kind = "setBase" -> [product EXCEPT !.base = o.to]
                    [] OTHER -> product IN
       /\ product' = row
       /\ Go(r, [req[r] EXCEPT !.row = row], SyncAfter(o.kind, req[r].row.status, row))
    /\ UNCHANGED <<variants, stripeVars, handling, faults, edits, upset>>

\* Mutant of SoftDelete: Stripe is not told.
SoftDeleteOnly(r) ==
    /\ At(r, "remove")
    /\ Stop(r)
    /\ product' = [product EXCEPT !.deleted = TRUE]
    /\ UNCHANGED <<variants, stripeVars, handling, faults, edits, upset>>

\* delete_product archives with the row it has fetched before; rowcount 0 is a ValueError.
SoftDelete(r) ==
    /\ At(r, "remove")
    /\ IF product.deleted THEN Stop(r) /\ UNCHANGED product
       ELSE product' = [product EXCEPT !.deleted = TRUE] /\ Go(r, req[r], Archive(req[r].row))
    /\ UNCHANGED <<variants, stripeVars, handling, faults, edits, upset>>

\* The INSERT of create_variant and the UPDATE of update_variant.
WriteVariant(r) ==
    /\ At(r, "variant")
    /\ LET o == req[r].op  v == o.variant
           row == IF o.kind = "addVariant" THEN [NoVariant EXCEPT !.state = "there", !.override = o.to]
                  ELSE [variants[v] EXCEPT !.override = o.to] IN
       IF variants[v].state # (IF o.kind = "addVariant" THEN "none" ELSE "there")
       THEN Stop(r) /\ UNCHANGED variants
       ELSE /\ variants' = [variants EXCEPT ![v] = row]
            /\ Go(r, [req[r] EXCEPT !.list[v] = row], << <<"parent", v>> >>)
    /\ UNCHANGED <<product, stripeVars, handling, faults, edits, upset>>

\* The SELECT of the product; only of an active one that is at Stripe are variants synced.
Parent(r) ==
    /\ At(r, "parent")
    /\ Go(r, [req[r] EXCEPT !.row = product],
          IF product.status = "active" /\ ~product.deleted /\ product.id # 0
          THEN SyncVariant(Of(r), req[r].list[Of(r)]) \o CopyDefault ELSE <<>>)
    /\ UNCHANGED <<product, variants, stripeVars, handling, faults, edits, upset>>

\* delete_variant, which leaves its Price at Stripe alone.
Drop(r) ==
    /\ At(r, "drop")
    /\ variants' = [variants EXCEPT ![req[r].op.variant] = IF There(@) THEN [NoVariant EXCEPT !.state = "gone"] ELSE @]
    /\ Stop(r)
    /\ UNCHANGED <<product, stripeVars, handling, faults, edits, upset>>

\* The end of sync_product_to_catalog: a Product just created is recorded, and its id read back.
Note(r) ==
    /\ At(r, "note")
    /\ product' = [product EXCEPT !.sync = "synced", !.id = IF req[r].row.id = 0 THEN req[r].made ELSE @]
    /\ Go(r, req[r], (IF req[r].row.id = 0 THEN << <<"back">> >> ELSE <<>>) \o Tail(req[r].todo))
    /\ UNCHANGED <<variants, stripeVars, handling, faults, edits, upset>>

ReadBack(r) ==
    /\ At(r, "back")
    /\ GoOn(r, [req[r] EXCEPT !.row.id = product.id])
    /\ UNCHANGED <<product, variants, stripeVars, handling, faults, edits, upset>>

\* _mark_product_error
Blame(r) ==
    /\ At(r, "blame")
    /\ product' = [product EXCEPT !.sync = "error"]
    /\ GoOn(r, req[r])
    /\ UNCHANGED <<variants, stripeVars, handling, faults, edits, upset>>

\* list_variants, and one sync_variant_to_catalog for each; of a product that is not at
\* Stripe there is nothing to sync.
SyncAll(rows) ==
    FlattenSeq([v \in Variants |-> IF There(rows[v]) THEN SyncVariant(v, rows[v]) ELSE <<>>])

List(r) ==
    /\ At(r, "list")
    /\ Go(r, [req[r] EXCEPT !.list = variants],
          CASE req[r].row.id # 0 -> SyncAll(variants) \o CopyDefault
            [] req[r].op.kind = "retry" -> CopyDefault
            [] OTHER -> <<>>)
    /\ UNCHANGED <<product, variants, stripeVars, handling, faults, edits, upset>>

\* The UPDATEs at the end of sync_variant_to_catalog. A row deleted since is not found.
Store(r) ==
    /\ At(r, "store")
    /\ variants' = [variants EXCEPT ![Of(r)] = IF There(@) THEN [@ EXCEPT !.price = req[r].made, !.sync = "synced"] ELSE @]
    /\ GoOn(r, req[r])
    /\ UNCHANGED <<product, stripeVars, handling, faults, edits, upset>>

BlameVariant(r) ==
    /\ At(r, "blameVariant")
    /\ variants' = [variants EXCEPT ![Of(r)] = IF There(@) THEN [@ EXCEPT !.sync = "error"] ELSE @]
    /\ GoOn(r, req[r])
    /\ UNCHANGED <<product, stripeVars, handling, faults, edits, upset>>

\* copy_default_variant_price: the SELECT of the first variant with a price, and the UPDATE.
Choose(r) ==
    /\ At(r, "choose")
    /\ LET priced == {v \in Variants : variants[v].price # 0} IN
       IF priced = {} THEN Stop(r)
       ELSE GoOn(r, [req[r] EXCEPT !.made = variants[CHOOSE v \in priced : \A u \in priced : v <= u].price])
    /\ UNCHANGED <<product, variants, stripeVars, handling, faults, edits, upset>>

Copy(r) ==
    /\ At(r, "copy")
    /\ product' = [product EXCEPT !.price = req[r].made]
    /\ GoOn(r, req[r])
    /\ UNCHANGED <<variants, stripeVars, handling, faults, edits, upset>>

\* The UPDATE of archive_product_in_catalog.
Archived(r) ==
    /\ At(r, "archived")
    /\ product' = [product EXCEPT !.sync = "synced"]
    /\ GoOn(r, req[r])
    /\ UNCHANGED <<variants, stripeVars, handling, faults, edits, upset>>

-----------------------------------------------------------------------------
(* Calls of Stripe *)

AtStripe == {"push", "retire", "price", "archive"}
Calling(r) == InProgress(r) /\ Head(req[r].todo)[1] \in AtStripe

\* The amount of a variant's Price: Python's "or" takes an override of 0 for none.
AmountAsked(row, base) == IF row.override \in {Unset, 0} THEN base ELSE row.override

PriceGone(p) == [about |-> "price", id |-> p]
ItemArchived(i) == [about |-> "archived", id |-> i]
ItemDeleted(i) == [about |-> "deleted", id |-> i]

\* Stripe after a call. Product events with active true change nothing that is modelled.
AfterCall(r) ==
    LET row == req[r].row  step == Head(req[r].todo)[1]  now == [items |-> items, prices |-> prices, events |-> events] IN
    CASE step = "push" /\ row.id = 0 -> [now EXCEPT !.items = Append(@, "active")]
      [] step = "push" /\ row.id # 0 -> [now EXCEPT !.items[row.id] = "active"]
      [] step = "archive" -> [now EXCEPT !.items[row.id] = "archived",
                                         !.events = @ \cup IF items[row.id] = "active" THEN {ItemArchived(row.id)} ELSE {}]
      [] step = "retire" -> LET p == req[r].list[Of(r)].price IN
                            [now EXCEPT !.prices[p].live = FALSE,
                                        !.events = @ \cup IF prices[p].live THEN {PriceGone(p)} ELSE {}]
      [] step = "price" -> [now EXCEPT !.prices = Append(@,
                              [item |-> row.id, for |-> Of(r), live |-> TRUE,
                               amount |-> AmountAsked(req[r].list[Of(r)], row.base)])]

\* What has been deleted in the dashboard refuses every call.
Possible(r) == req[r].row.id # 0 => items[req[r].row.id] # "gone"

\* A request goes on without the step that would have recorded what the call has done.
AfterFailure(r) ==
    LET todo == req[r].todo  rest == SubSeq(todo, 3, Len(todo)) IN
    CASE Head(todo)[1] = "push" -> << <<"blame">> >> \o rest
      [] Head(todo)[1] = "price" -> << <<"blameVariant", Of(r)>> >> \o rest
      [] Head(todo)[1] = "archive" -> rest
      [] Head(todo)[1] = "retire" -> Tail(todo)

SetStripe(s) == items' = s.items /\ prices' = s.prices /\ events' = s.events

Answer(r) ==
    /\ Calling(r) /\ Possible(r)
    /\ SetStripe(AfterCall(r))
    /\ LET step == Head(req[r].todo)[1] IN
       GoOn(r, [req[r] EXCEPT !.made = CASE step = "push" -> Len(items') [] step = "price" -> Len(prices') [] OTHER -> @])
    /\ UNCHANGED <<product, variants, handling, faults, edits, upset>>

Refuse(r) ==
    /\ Calling(r)
    /\ \/ ~Possible(r) /\ UNCHANGED faults
       \/ Possible(r) /\ faults + edits < MaxTrouble /\ faults' = faults + 1
    /\ Go(r, req[r], AfterFailure(r))
    /\ UNCHANGED <<product, variants, stripeVars, handling, edits, upset>>

\* Stripe does what it was asked to, the answer is lost.
Lose(r) ==
    /\ Calling(r) /\ Possible(r) /\ faults + edits < MaxTrouble
    /\ SetStripe(AfterCall(r))
    /\ Go(r, req[r], AfterFailure(r))
    /\ faults' = faults + 1 /\ upset' = upset + 1
    /\ UNCHANGED <<product, variants, handling, edits>>

\* The worker process is lost.
CutOff(r) ==
    /\ InProgress(r) /\ faults + edits < MaxTrouble
    /\ Stop(r) /\ faults' = faults + 1 /\ upset' = upset + 1
    /\ UNCHANGED <<product, variants, stripeVars, handling, edits>>

-----------------------------------------------------------------------------
(* The dashboard and the webhook events *)

Edit(s) ==
    /\ faults + edits < MaxTrouble /\ edits' = edits + 1
    /\ SetStripe(s)
    /\ upset' = upset + IF \E r \in Requests : InProgress(r) THEN 1 ELSE 0
    /\ UNCHANGED <<product, variants, handling, req, faults>>

ArchiveItem(i) ==
    /\ items[i] = "active"
    /\ Edit([items |-> [items EXCEPT ![i] = "archived"], prices |-> prices, events |-> events \cup {ItemArchived(i)}])

\* Stripe deletes no Product that has a Price.
DeleteItem(i) ==
    /\ items[i] # "gone" /\ \A p \in DOMAIN prices : prices[p].item # i
    /\ Edit([items |-> [items EXCEPT ![i] = "gone"], prices |-> prices, events |-> events \cup {ItemDeleted(i)}])

ArchivePrice(p) ==
    /\ prices[p].live
    /\ Edit([items |-> items, prices |-> [prices EXCEPT ![p].live = FALSE], events |-> events \cup {PriceGone(p)}])

\* _handle_product_updated reads the row ...
ReadForEvent(e) ==
    /\ e \in events /\ e.about = "archived"
    /\ events' = events \ {e}
    /\ handling' = IF product.id = e.id /\ product.status = "active" THEN handling \cup {e} ELSE handling
    /\ UNCHANGED <<product, variants, items, prices, req, faults, edits, upset>>

\* ... and archives it if it was active then, whatever has happened since.
ArchiveLocally(e) ==
    /\ e \in handling
    /\ handling' = handling \ {e}
    /\ product' = [product EXCEPT !.status = "archived"]
    /\ upset' = upset + IF items[e.id] = "active" \/ \E r \in Requests : InProgress(r) THEN 1 ELSE 0
    /\ UNCHANGED <<variants, stripeVars, req, faults, edits>>

\* _handle_product_deleted
ForgetItem(e) ==
    /\ e \in events /\ e.about = "deleted"
    /\ events' = events \ {e}
    /\ product' = IF product.id = e.id THEN [product EXCEPT !.status = "archived", !.sync = "unsynced"] ELSE product
    /\ UNCHANGED <<variants, items, prices, handling, req, faults, edits, upset>>

\* Mutant of ClearPrice: only the product is looked for.
ClearDefault(e) ==
    /\ e \in events /\ e.about = "price"
    /\ events' = events \ {e}
    /\ product' = IF product.price = e.id THEN [product EXCEPT !.price = 0, !.sync = "error"] ELSE product
    /\ UNCHANGED <<variants, items, prices, handling, req, faults, edits, upset>>

\* _clear_stripe_price, for price.updated with active false and for price.deleted.
ClearPrice(e) ==
    /\ e \in events /\ e.about = "price"
    /\ events' = events \ {e}
    /\ product' = IF product.price = e.id THEN [product EXCEPT !.price = 0, !.sync = "error"] ELSE product
    /\ variants' = [v \in Variants |->
                      IF variants[v].price = e.id THEN [variants[v] EXCEPT !.price = 0, !.sync = "error"] ELSE variants[v]]
    /\ UNCHANGED <<items, prices, handling, req, faults, edits, upset>>

Step(r) ==
    \/ Insert(r) \/ Fetch(r) \/ Write(r) \/ SoftDelete(r) \/ WriteVariant(r) \/ Parent(r) \/ Drop(r)
    \/ Note(r) \/ ReadBack(r) \/ Blame(r) \/ List(r) \/ Store(r) \/ BlameVariant(r)
    \/ Choose(r) \/ Copy(r) \/ Archived(r)
    \/ Answer(r) \/ Refuse(r) \/ Lose(r) \/ CutOff(r)

Next ==
    \/ \E r \in Requests : Step(r) \/ \E o \in Operation : Begin(r, o)
    \/ \E i \in DOMAIN items : ArchiveItem(i) \/ DeleteItem(i)
    \/ \E p \in DOMAIN prices : ArchivePrice(p)
    \/ \E e \in events \cup handling : ReadForEvent(e) \/ ArchiveLocally(e) \/ ForgetItem(e) \/ ClearPrice(e)

Spec == Init /\ [][Next]_vars

-----------------------------------------------------------------------------
(* Properties *)

Quiet == upset = 0 /\ \A r \in Requests : ~InProgress(r)
Settled == Quiet /\ events = {} /\ handling = {}

TypeOK ==
    /\ product \in [status : {"none", "draft", "active", "archived"}, deleted : BOOLEAN, base : Amounts \cup {0},
                    id : 0..Len(items), sync : {"unsynced", "synced", "error"}, price : 0..Len(prices)]
    /\ variants \in [Variants -> [state : {"none", "there", "gone"}, override : Amounts \cup {Unset},
                                  price : 0..Len(prices), sync : {"unsynced", "synced", "error"}]]
    /\ \A i \in DOMAIN items : items[i] \in {"active", "archived", "gone"}
    /\ \A p \in DOMAIN prices : prices[p] \in [item : DOMAIN items, for : Variants, live : BOOLEAN, amount : Amounts]

\* What is shown to a customer: price_override if set, else base_price.
Shown(v) == IF variants[v].override = Unset THEN product.base ELSE variants[v].override

\* While requests do not overlap and none is cut off, a variant that claims to be synced is
\* sold at Stripe for what the shop shows, whichever calls of Stripe have failed; but a price
\* override of 0, for which sync_variant_to_catalog asks the base price.
SyncedMeansPriced ==
    Settled /\ product.status = "active" /\ ~product.deleted =>
       \A v \in Variants : There(variants[v]) /\ variants[v].sync = "synced" =>
          LET p == prices[variants[v].price] IN
          /\ p.live /\ p.for = v /\ p.item = product.id
          /\ p.amount = Shown(v) \/ variants[v].override = 0

\* The events of our own archiving, as late as they may come, leave no pointer to a Price that
\* is no longer sold: they clear what a rotation that failed half way has left behind, and
\* nothing else.
NoDeadPrice ==
    Settled =>
       /\ \A v \in Variants : variants[v].price # 0 => prices[variants[v].price].live
       /\ faults + edits = 0 /\ product.price # 0 => prices[product.price].live

\* However many requests overlap or are cut off, each costs one object at Stripe that nobody
\* knows of at most: one Product, and one Price on sale for each variant, are the rule.
OrphansAreCounted ==
    /\ Cardinality({i \in DOMAIN items : items[i] # "gone"}) <= 1 + upset
    /\ \A v \in Variants :
          Cardinality({p \in DOMAIN prices : prices[p].live /\ prices[p].for = v}) <= 1 + faults + upset

\* While nothing has gone wrong the product is on sale at Stripe exactly when it is in the shop.
OnSaleTogether ==
    Settled /\ faults = 0 /\ product.id # 0 =>
       (items[product.id] = "active") = (product.status = "active" /\ ~product.deleted)
=============================================================================
