--------------------------- MODULE CatalogContent ---------------------------
(***************************************************************************)
(* What the catalogue holds beside prices: the categories, the categories  *)
(* of one product, a merchant's own fee tiers, the product's images (their *)
(* rows, the stored files, what Stripe shows) and its reviews. A request   *)
(* reads, then writes in one COMMIT; no row but those it writes is locked. *)
(***************************************************************************)
EXTENDS Naturals, FiniteSets, Sequences

CONSTANTS
    Picks,     \* sets of categories somebody puts the product into, of tiers for a merchant
    MaxMade,     \* bound: categories that are ever made
    Requests,
    Kinds,       \* [Requests -> SUBSET {"create", "move", "delete", "assign", "edit", "tiers", "add", "upload",
                 \*  "prime", "discard", "dropVariant", "review"}]
    MaxFaults    \* requests that are cut off, calls that fail

VARIABLES
    categories,  \* ecommerce.categories: parent (0: none), slug, kept
    lists,       \* rows of product_categories and of merchant_fee_overrides, with the request that made each
    images,      \* product_images: primary, file (the upload that stored it, or none), of a variant, kept
    files,       \* uploads whose file is in the storage
    shown,       \* images Stripe's Product shows
    reviews,     \* reviews of the product by one customer
    req,
    lost,        \* history: categories whose deletion took a subcategory's parent or the product with it
    uneven,      \* history: lists a replacement has left with something else in them
    unsynced,    \* history: images have changed by a route that does not tell Stripe
    overlaps,    \* history: how often a request has begun while another was in progress
    faults

vars == <<categories, lists, images, files, shown, reviews, req, lost, uneven, unsynced, overlaps, faults>>

Names == {"categories", "tiers"}
NoFile == "none"

Idle == [pc |-> "idle"]
Ended == [pc |-> "done"]
InProgress(r) == req[r] \notin {Idle, Ended}
At(r, pc) == req[r].pc = pc
Goto(r, record) == req' = [req EXCEPT ![r] = record]
Return(r) == Goto(r, Ended)

Begin(r, kind) ==
    /\ req[r] = Idle /\ kind \in Kinds[r]
    /\ overlaps' = overlaps + IF \E x \in Requests : InProgress(x) THEN 1 ELSE 0

Live == {c \in DOMAIN categories : categories[c].kept}
Children(c) == {x \in Live : categories[x].parent = c}
Entries(l) == {row.entry : row \in lists[l]}
LiveImages == {i \in DOMAIN images : images[i].kept}
Primary == {i \in LiveImages : images[i].primary}

\* Two categories, one of them empty, and the product in the other; one image, which Stripe shows.
Init ==
    /\ categories = <<[parent |-> 0, slug |-> 1, kept |-> TRUE], [parent |-> 0, slug |-> 2, kept |-> TRUE]>>
    /\ lists = [l \in Names |-> IF l = "categories" THEN {[entry |-> 1, by |-> 0]} ELSE {}]
    /\ images = <<[primary |-> TRUE, file |-> NoFile, variant |-> TRUE, kept |-> TRUE]>>
    /\ files = {} /\ shown = {1} /\ reviews = 0
    /\ req = [r \in Requests |-> Idle]
    /\ lost = {} /\ uneven = {} /\ unsynced = FALSE /\ overlaps = 0 /\ faults = 0

-----------------------------------------------------------------------------
(* Categories, all of one name *)

\* The first slug that no other category has: the name, the name with -2, with -3 ...
FreeSlug == CHOOSE n \in 1..Len(categories) + 1 :
    /\ \A c \in Live : categories[c].slug # n
    /\ \A k \in 1..n - 1 : \E c \in Live : categories[c].slug = k

Exists(p) == p = 0 \/ p \in Live

Create(r, p) ==
    /\ Begin(r, "create")
    /\ Len(categories) < MaxMade
    /\ Goto(r, [pc |-> "create", parent |-> p, slug |-> FreeSlug])
    /\ UNCHANGED <<categories, lists, images, files, shown, reviews, lost, uneven, unsynced, faults>>

\* The slug is taken, or the parent has gone: the constraint fails the INSERT.
CreateWrite(r) ==
    LET q == req[r]
    IN /\ At(r, "create")
       /\ categories' = IF Exists(q.parent) /\ \A c \in Live : categories[c].slug # q.slug
                        THEN Append(categories, [parent |-> q.parent, slug |-> q.slug, kept |-> TRUE])
                        ELSE categories
       /\ Return(r)
       /\ UNCHANGED <<lists, images, files, shown, reviews, lost, uneven, unsynced, overlaps, faults>>

\* update_category asks only whether the category exists: it may be put under itself.
Move(r, c, p) ==
    /\ Begin(r, "move")
    /\ Goto(r, [pc |-> "move", category |-> c, parent |-> p])
    /\ UNCHANGED <<categories, lists, images, files, shown, reviews, lost, uneven, unsynced, faults>>

MoveWrite(r) ==
    LET q == req[r]
    IN /\ At(r, "move")
       /\ categories' = IF q.category \in Live /\ Exists(q.parent)
                        THEN [categories EXCEPT ![q.category].parent = q.parent]
                        ELSE categories
       /\ Return(r)
       /\ UNCHANGED <<lists, images, files, shown, reviews, lost, uneven, unsynced, overlaps, faults>>

\* Mutant of Unused: subcategories go with their parent.
UnusedByProducts(c) == c \notin Entries("categories")

Unused(c) == c \notin Entries("categories") /\ Children(c) = {}

Delete(r, c) ==
    /\ Begin(r, "delete")
    /\ Unused(c)
    /\ Goto(r, [pc |-> "delete", category |-> c])
    /\ UNCHANGED <<categories, lists, images, files, shown, reviews, lost, uneven, unsynced, faults>>

\* ON DELETE SET NULL for the subcategories, ON DELETE CASCADE for the product.
DeleteWrite(r) ==
    LET c == req[r].category
    IN /\ At(r, "delete")
       /\ categories' = [x \in DOMAIN categories |->
                           IF x = c THEN [categories[x] EXCEPT !.kept = FALSE]
                           ELSE IF x \in Children(c) THEN [categories[x] EXCEPT !.parent = 0]
                           ELSE categories[x]]
       /\ lists' = [lists EXCEPT !["categories"] = {row \in @ : row.entry # c}]
       /\ lost' = IF c \in Entries("categories") \/ Children(c) \ {c} # {} THEN lost \cup {c} ELSE lost
       /\ Return(r)
       /\ UNCHANGED <<images, files, shown, reviews, uneven, unsynced, overlaps, faults>>

-----------------------------------------------------------------------------
(* Lists that are replaced: DELETE what the statement sees, then INSERT *)

ListOf(kind) == IF kind = "tiers" THEN "tiers" ELSE "categories"

\* An UPDATE of the product's own columns comes first and locks its row.
Locked(r) == \E x \in Requests \ {r} : At(x, "replace") /\ req[x].kind = "edit"

\* Mutant of Seen: the old rows are left where they are.
SeenNone(l) == {}

Seen(l) == lists[l]

Replace(r, kind, wanted) ==
    /\ Begin(r, kind)
    /\ kind = "edit" => ~Locked(r)
    /\ Goto(r, [pc |-> "replace", kind |-> kind, wanted |-> wanted, seen |-> Seen(ListOf(kind))])
    /\ UNCHANGED <<categories, lists, images, files, shown, reviews, lost, uneven, unsynced, faults>>

\* ON CONFLICT DO NOTHING keeps the row of a category somebody else has inserted; tiers have no key.
Inserted(r, left) ==
    LET q == req[r]
        new == {[entry |-> e, by |-> r] : e \in q.wanted}
    IN IF q.kind = "tiers" THEN new
       ELSE {row \in new : \A other \in left : other.entry # row.entry}

\* A category that has gone fails the foreign key.
ReplaceWrite(r) ==
    LET q == req[r]
        l == ListOf(q.kind)
        left == lists[l] \ q.seen
    IN /\ At(r, "replace")
       /\ IF q.kind # "tiers" /\ ~(q.wanted \subseteq Live)
          THEN UNCHANGED <<lists, uneven>>
          ELSE /\ lists' = [lists EXCEPT ![l] = left \cup Inserted(r, left)]
               /\ uneven' = IF {row.entry : row \in left \cup Inserted(r, left)} = q.wanted
                            THEN uneven \ {l} ELSE uneven \cup {l}
       /\ Return(r)
       /\ UNCHANGED <<categories, images, files, shown, reviews, lost, unsynced, overlaps, faults>>

-----------------------------------------------------------------------------
(* Images *)

NewImage(primary, file, variant) == [primary |-> primary, file |-> file, variant |-> variant, kept |-> TRUE]

\* The file is stored before there is a row that names it.
Upload(r) ==
    /\ Begin(r, "upload")
    /\ files' = files \cup {r}
    /\ Goto(r, [pc |-> "image", image |-> 0, primary |-> FALSE, file |-> r, seen |-> {}])
    /\ UNCHANGED <<categories, lists, images, shown, reviews, lost, uneven, unsynced, faults>>

\* create_image by its URL, primary or not; _clear_primary sees the primary images there are.
Add(r, primary) ==
    /\ Begin(r, "add")
    /\ Goto(r, [pc |-> "image", image |-> 0, primary |-> primary, file |-> NoFile,
                seen |-> IF primary THEN Primary ELSE {}])
    /\ UNCHANGED <<categories, lists, images, files, shown, reviews, lost, uneven, unsynced, faults>>

\* update_image of an image to be the primary one.
Prime(r, i) ==
    /\ Begin(r, "prime")
    /\ Goto(r, [pc |-> "image", image |-> i, primary |-> TRUE, file |-> NoFile, seen |-> Primary])
    /\ UNCHANGED <<categories, lists, images, files, shown, reviews, lost, uneven, unsynced, faults>>

\* Mutant of Cleared: the image that was primary stays it.
ClearedNot(i, q) == images[i]

Cleared(i, q) == IF i \in q.seen THEN [images[i] EXCEPT !.primary = FALSE] ELSE images[i]

\* Clearing and INSERT or UPDATE, one COMMIT. A new image is told to Stripe, an edited one is not.
ImageWrite(r) ==
    LET q == req[r]
        cleared == [i \in DOMAIN images |-> Cleared(i, q)]
    IN /\ At(r, "image")
       /\ IF q.image = 0
          THEN /\ images' = Append(cleared, NewImage(q.primary, q.file, FALSE))
               /\ Goto(r, [pc |-> "list"])
          ELSE /\ images' = IF images[q.image].kept THEN [cleared EXCEPT ![q.image].primary = TRUE] ELSE images
               /\ Return(r)
       /\ UNCHANGED <<categories, lists, files, shown, reviews, lost, uneven, unsynced, overlaps, faults>>

\* Mutant of Discard: the file goes first, and its row stays when the request ends there.
DiscardFileFirst(r, i) ==
    /\ Begin(r, "discard")
    /\ files' = files \ {images[i].file}
    /\ Goto(r, [pc |-> "unlink", file |-> images[i].file])
    /\ UNCHANGED <<categories, lists, images, shown, reviews, lost, uneven, unsynced, faults>>

\* delete_image: the row, COMMIT.
Discard(r, i) ==
    /\ Begin(r, "discard")
    /\ images' = [images EXCEPT ![i].kept = FALSE]
    /\ Goto(r, [pc |-> "unlink", file |-> images[i].file])
    /\ UNCHANGED <<categories, lists, files, shown, reviews, lost, uneven, unsynced, faults>>

\* Mutant of Unlinked: Stripe is not told of the image that has gone.
UnlinkedUntold == Ended

Unlinked == [pc |-> "list"]

\* Best effort: the storage may refuse.
Unlink(r) ==
    /\ At(r, "unlink")
    /\ \/ files' = files \ {req[r].file} /\ UNCHANGED faults
       \/ faults < MaxFaults /\ faults' = faults + 1 /\ UNCHANGED files
    /\ Goto(r, Unlinked)
    /\ UNCHANGED <<categories, lists, images, shown, reviews, lost, uneven, unsynced, overlaps>>

\* delete_variant takes the images of the variant with it: neither the files nor Stripe hear of it.
DropVariant(r) ==
    /\ Begin(r, "dropVariant")
    /\ images' = [i \in DOMAIN images |->
                    IF images[i].variant THEN [images[i] EXCEPT !.kept = FALSE] ELSE images[i]]
    /\ unsynced' = (unsynced \/ \E i \in LiveImages : images[i].variant)
    /\ Return(r)
    /\ UNCHANGED <<categories, lists, files, shown, reviews, lost, uneven, faults>>

\* sync_product_images_to_catalog reads the list ...
ListImages(r) ==
    /\ At(r, "list")
    /\ Goto(r, [pc |-> "sync", list |-> LiveImages])
    /\ UNCHANGED <<categories, lists, images, files, shown, reviews, lost, uneven, unsynced, overlaps, faults>>

\* ... and sends it to Stripe; a failure is logged.
SyncImages(r) ==
    /\ At(r, "sync")
    /\ \/ /\ shown' = req[r].list /\ UNCHANGED faults
          /\ unsynced' = (req[r].list # LiveImages)
       \/ faults < MaxFaults /\ faults' = faults + 1 /\ UNCHANGED <<shown, unsynced>>
    /\ Return(r)
    /\ UNCHANGED <<categories, lists, images, files, reviews, lost, uneven, overlaps>>

-----------------------------------------------------------------------------
(* Reviews, and requests that are cut off *)

\* Mutant of Unreviewed: the customer's rows are not asked for.
UnreviewedAlways == TRUE

Unreviewed == reviews = 0

Review(r) ==
    /\ Begin(r, "review")
    /\ Unreviewed
    /\ Goto(r, [pc |-> "review"])
    /\ UNCHANGED <<categories, lists, images, files, shown, reviews, lost, uneven, unsynced, faults>>

\* There is no unique index on (product_id, user_id).
ReviewWrite(r) ==
    /\ At(r, "review")
    /\ reviews' = reviews + 1
    /\ Return(r)
    /\ UNCHANGED <<categories, lists, images, files, shown, lost, uneven, unsynced, overlaps, faults>>

CutOff(r) ==
    /\ InProgress(r)
    /\ faults < MaxFaults /\ faults' = faults + 1
    /\ Return(r)
    /\ UNCHANGED <<categories, lists, images, files, shown, reviews, lost, uneven, unsynced, overlaps>>

Next ==
    \E r \in Requests :
        \/ \E p \in Live \cup {0} : Create(r, p) \/ \E c \in Live : Move(r, c, p)
        \/ \E c \in Live : Delete(r, c)
        \/ \E wanted \in Picks, kind \in {"assign", "edit", "tiers"} : Replace(r, kind, wanted)
        \/ CreateWrite(r) \/ MoveWrite(r) \/ DeleteWrite(r) \/ ReplaceWrite(r)
        \/ Upload(r) \/ \E primary \in BOOLEAN : Add(r, primary)
        \/ \E i \in LiveImages : Prime(r, i) \/ Discard(r, i)
        \/ ImageWrite(r) \/ Unlink(r) \/ DropVariant(r) \/ ListImages(r) \/ SyncImages(r)
        \/ Review(r) \/ ReviewWrite(r) \/ CutOff(r)

Spec == Init /\ [][Next]_vars

-----------------------------------------------------------------------------
(* Properties *)

\* The state is of its types.
TypeOK ==
    /\ \A c \in DOMAIN categories : categories[c].parent \in 0..MaxMade /\ categories[c].kept \in BOOLEAN
    /\ \A l \in Names : \A row \in lists[l] : row.by \in Requests \cup {0}
    /\ \A i \in DOMAIN images : images[i].file \in Requests \cup {NoFile}
    /\ files \subseteq Requests /\ shown \subseteq DOMAIN images
    /\ reviews \in Nat /\ overlaps \in Nat /\ faults \in 0..MaxFaults
    /\ lost \subseteq DOMAIN categories /\ uneven \subseteq Names /\ unsynced \in BOOLEAN

Alone == overlaps = 0

\* delete_category takes nothing with it, slugs tell categories apart, and a replaced list holds what
\* was asked for, unless requests have overlapped.
ListsAreAsAsked ==
    /\ Alone => lost = {} /\ uneven = {}
    /\ \A c, d \in Live : categories[c].slug = categories[d].slug => c = d

\* _clear_primary and create_review: one primary image and one review, and one more per overlap.
OneOfEach == Cardinality(Primary) <= 1 + overlaps /\ reviews <= 1 + overlaps

\* upload_image and delete_image: the file behind an image that is shown in the shop exists, however
\* uploads and deletions interleave or are cut off.
FilesBehindImages == \A i \in LiveImages : images[i].file # NoFile => images[i].file \in files

\* Stripe shows the images of the shop when everything that changed them has told it and nobody else
\* did so meanwhile.
StripeShowsThem ==
    Alone /\ faults = 0 /\ ~unsynced /\ (\A r \in Requests : ~InProgress(r)) => shown = LiveImages

=============================================================================
