----------------------------- MODULE SearchPages -----------------------------
(***************************************************************************)
(* What search engines are told of each page: the meta tags, generated or  *)
(* written by an editor, the trail of snapshots taken of them, the         *)
(* registry of pages and the sitemap cached from it. Requests and the      *)
(* rescorer read, then write in one COMMIT; Redis holds the sitemap.       *)
(***************************************************************************)
EXTENDS Naturals, FiniteSets, FiniteSetsExt

CONSTANTS
    Pages,       \* numbers, in the order of their paths
    Names,       \* [Pages -> name of the product behind the page, or None]
    Titles,      \* what an editor or a merchant calls a page
    Requests,    \* requests and runs of the rescorer
    Kinds,       \* [Requests -> SUBSET {"set", "unset", "rename", "rescore", "sync", "list", "unlist", "visit",
                 \*  "regenerate"}]
    MaxFaults    \* bound: statements that fail, requests that are cut off

VARIABLES
    names,       \* name of the active product behind the page, or None
    overrides,   \* seo.meta_overrides: the title written for the page, or None
    registry,    \* seo.page_registry: the source of the page's row, or None
    sitemap,     \* Redis: the pages of the cached XML and when they were read, or NoMap
    trail,       \* seo.page_snapshots of each page
    clock,       \* transactions that have begun: NOW() of a transaction is its start
    req,
    promised,    \* history: the title the last answered request has set, None after a removal
    unset,       \* history: pages whose override has been removed
    renamed,     \* history: how many had begun when the product was renamed
    regenerated, \* history: when the sitemap's cache was last invalidated
    overlaps,    \* history: how often a request has begun while another was in progress
    faults

vars == <<names, overrides, registry, sitemap, trail, clock, req,
          promised, unset, renamed, regenerated, overlaps, faults>>

None == "none"
NoMap == [pages |-> {}, at |-> 0]
Idle == [pc |-> "idle"]
Ended == [pc |-> "done"]
InProgress(r) == req[r] \notin {Idle, Ended}
At(r, pc) == req[r].pc = pc
Goto(r, record) == req' = [req EXCEPT ![r] = record]
Return(r) == Goto(r, Ended)

Begin(r, kind) ==
    /\ req[r] = Idle /\ kind \in Kinds[r]
    /\ overlaps' = overlaps + IF \E x \in Requests : InProgress(x) THEN 1 ELSE 0

\* Pages the frontend has a page.tsx for; the others come from the database.
Files == {p \in Pages : Names[p] = None}

Listed == {p \in Pages : registry[p] # None}
Latest(p) == CHOOSE s \in trail[p] : \A x \in trail[p] : x.at <= s.at

\* _auto_generate, from the content behind the page.
Generated(p) == [title |-> names[p], custom |-> FALSE]

\* get_meta_tags
Meta(p) == IF overrides[p] # None THEN [title |-> overrides[p], custom |-> TRUE] ELSE Generated(p)

Init ==
    /\ names = Names
    /\ overrides = [p \in Pages |-> None]
    /\ registry = [p \in Pages |-> IF p \in Files THEN "filesystem" ELSE "database"]
    /\ sitemap = NoMap
    /\ trail = [p \in Pages |-> {}]
    /\ clock = 0
    /\ req = [r \in Requests |-> Idle]
    /\ promised = overrides /\ unset = {}
    /\ renamed = [p \in Pages |-> 0] /\ regenerated = 0 /\ overlaps = 0 /\ faults = 0

\* A merchant renames the product: nobody takes a snapshot.
Rename(r, p, t) ==
    /\ Begin(r, "rename")
    /\ p \notin Files /\ t # names[p]
    /\ names' = [names EXCEPT ![p] = t]
    /\ renamed' = [renamed EXCEPT ![p] = clock]
    /\ Return(r)
    /\ UNCHANGED <<overrides, registry, sitemap, trail, clock, promised, unset, regenerated, faults>>

-----------------------------------------------------------------------------
(* Overrides *)

\* set_meta_override looks the row up ...
SetMeta(r, p, t) ==
    /\ Begin(r, "set")
    /\ Goto(r, [pc |-> "set", page |-> p, title |-> t, found |-> overrides[p] # None])
    /\ UNCHANGED <<names, overrides, registry, sitemap, trail, clock, promised, unset, renamed, regenerated, faults>>

Snap(p, rest) == [pc |-> "open", page |-> p, rest |-> rest]

\* Mutant of Refused: ON CONFLICT DO NOTHING, and the editor is told it is set.
RefusedNot(r) == FALSE

\* ... and the INSERT of one that somebody has inserted since fails.
Refused(r) == ~req[r].found /\ overrides[req[r].page] # None

\* The UPDATE of one that somebody has deleted since writes nothing, and says so to nobody.
SetWrite(r) ==
    LET q == req[r]
        p == q.page
    IN /\ At(r, "set")
       /\ IF Refused(r)
          THEN Return(r) /\ UNCHANGED <<overrides, promised>>
          ELSE /\ overrides' = IF q.found = (overrides[p] # None) THEN [overrides EXCEPT ![p] = q.title]
                               ELSE overrides
               /\ promised' = [promised EXCEPT ![p] = q.title]
               /\ Goto(r, Snap(p, {}))
       /\ UNCHANGED <<names, registry, sitemap, trail, clock, unset, renamed, regenerated, overlaps, faults>>

\* delete_meta_override; there is a 404 where there is no row.
DropMeta(r, p) ==
    /\ Begin(r, "unset")
    /\ overrides[p] # None
    /\ overrides' = [overrides EXCEPT ![p] = None]
    /\ promised' = [promised EXCEPT ![p] = None]
    /\ unset' = unset \cup {p}
    /\ Goto(r, Snap(p, {}))
    /\ UNCHANGED <<names, registry, sitemap, trail, clock, renamed, regenerated, faults>>

-----------------------------------------------------------------------------
(* Snapshots and scores *)

\* take_snapshot's first statement begins a transaction, whose start is created_at ...
Open(r) ==
    /\ At(r, "open")
    /\ clock' = clock + 1
    /\ Goto(r, [pc |-> "read", page |-> req[r].page, rest |-> req[r].rest, at |-> clock'])
    /\ UNCHANGED <<names, overrides, registry, sitemap, trail, promised, unset, renamed, regenerated, overlaps, faults>>

\* ... get_meta_tags ...
ReadMeta(r) ==
    LET q == req[r]
    IN /\ At(r, "read")
       /\ Goto(r, [pc |-> "compare", page |-> q.page, rest |-> q.rest, at |-> q.at, seen |-> Meta(q.page)])
       /\ UNCHANGED <<names, overrides, registry, sitemap, trail, clock,
                      promised, unset, renamed, regenerated, overlaps, faults>>

\* Mutant of Previous: the first snapshot there ever was.
PreviousFirst(p) == CHOOSE s \in trail[p] : \A x \in trail[p] : s.at <= x.at

Previous(p) == Latest(p)

\* ... _get_latest_snapshot, to compute the difference ...
Compare(r) ==
    LET q == req[r]
    IN /\ At(r, "compare")
       /\ Goto(r, [pc |-> "store", page |-> q.page, rest |-> q.rest,
                   row |-> [at |-> q.at, seen |-> q.seen,
                            over |-> IF trail[q.page] = {} THEN 0 ELSE Previous(q.page).at]])
       /\ UNCHANGED <<names, overrides, registry, sitemap, trail, clock,
                      promised, unset, renamed, regenerated, overlaps, faults>>

\* The rescorer turns to the next page, in the order of their paths.
Continue(r, rest) == IF rest = {} THEN Return(r) ELSE Goto(r, Snap(Min(rest), rest \ {Min(rest)}))

\* Mutant of Row: created_at is the time of the INSERT.
RowNow(r) == [req[r].row EXCEPT !.at = clock + 1]

Row(r) == req[r].row

\* ... and the INSERT with its COMMIT.
Store(r) ==
    LET q == req[r]
    IN /\ At(r, "store")
       /\ trail' = [trail EXCEPT ![q.page] = @ \cup {Row(r)}]
       /\ Continue(r, q.rest)
       /\ UNCHANGED <<names, overrides, registry, sitemap, clock,
                      promised, unset, renamed, regenerated, overlaps, faults>>

\* rescore_all_pages: the paths are read once. score_page's own COMMIT ends before each snapshot begins.
Rescore(r) ==
    /\ Begin(r, "rescore")
    /\ Listed # {}
    /\ Continue(r, Listed)
    /\ UNCHANGED <<names, overrides, registry, sitemap, trail, clock, promised, unset, renamed, regenerated, faults>>

\* A statement fails, or the request is cut off. The snapshot is dropped and logged; a rescorer's session is
\* left in the failed transaction, so that every page after this one fails too.
Fails(r) ==
    /\ InProgress(r)
    /\ faults < MaxFaults /\ faults' = faults + 1
    /\ Return(r)
    /\ UNCHANGED <<names, overrides, registry, sitemap, trail, clock, promised, unset, renamed, regenerated, overlaps>>

-----------------------------------------------------------------------------
(* The registry *)

\* sync_page_registry, at every start and on demand: files, active products, then overrides.
Source(p, written) ==
    CASE names[p] # None -> "database"
      [] names[p] = None /\ p \in Files -> "filesystem"
      [] names[p] = None /\ p \notin Files /\ p \in written -> "override"
      [] OTHER -> None

Sync(r) ==
    /\ Begin(r, "sync")
    /\ Goto(r, [pc |-> "upsert", found |-> [p \in Pages |-> Source(p, {x \in Pages : overrides[x] # None})]])
    /\ UNCHANGED <<names, overrides, registry, sitemap, trail, clock, promised, unset, renamed, regenerated, faults>>

\* Mutant of Upserted: every row there is takes the new source.
UpsertedAll(source, found) == IF found = None THEN source ELSE found

\* Rows added by hand are left alone, rows of pages that have gone stay.
Upserted(source, found) == IF found = None \/ source = "manual" THEN source ELSE found

Upsert(r) ==
    /\ At(r, "upsert")
    /\ registry' = [p \in Pages |-> Upserted(registry[p], req[r].found[p])]
    /\ Return(r)
    /\ UNCHANGED <<names, overrides, sitemap, trail, clock,
                   promised, unset, renamed, regenerated, overlaps, faults>>

\* add_page, remove_page: neither tells the sitemap.
List(r, p) ==
    /\ Begin(r, "list")
    /\ registry' = [registry EXCEPT ![p] = "manual"]
    /\ Return(r)
    /\ UNCHANGED <<names, overrides, sitemap, trail, clock, promised, unset, renamed, regenerated, faults>>

Unlist(r, p) ==
    /\ Begin(r, "unlist")
    /\ registry' = [registry EXCEPT ![p] = None]
    /\ Return(r)
    /\ UNCHANGED <<names, overrides, sitemap, trail, clock, promised, unset, renamed, regenerated, faults>>

-----------------------------------------------------------------------------
(* The sitemap *)

\* generate_sitemap: the cached one ...
Visit(r) ==
    /\ Begin(r, "visit")
    /\ IF sitemap = NoMap THEN Goto(r, [pc |-> "build"]) ELSE Return(r)
    /\ UNCHANGED <<names, overrides, registry, sitemap, trail, clock,
                   promised, unset, renamed, regenerated, faults>>

\* ... or a new one of the rows there are ...
Build(r) ==
    /\ At(r, "build")
    /\ clock' = clock + 1
    /\ Goto(r, [pc |-> "cache", map |-> [pages |-> Listed, at |-> clock']])
    /\ UNCHANGED <<names, overrides, registry, sitemap, trail,
                   promised, unset, renamed, regenerated, overlaps, faults>>

\* ... which is cached whatever has happened meanwhile.
Cache(r) ==
    /\ At(r, "cache")
    /\ sitemap' = req[r].map
    /\ Return(r)
    /\ UNCHANGED <<names, overrides, registry, trail, clock,
                   promised, unset, renamed, regenerated, overlaps, faults>>

\* Mutant of Invalidated: the key is another one.
InvalidatedNot == sitemap

Invalidated == NoMap

\* invalidate_cache.
Regenerate(r) ==
    /\ Begin(r, "regenerate")
    /\ sitemap' = Invalidated
    /\ clock' = clock + 1 /\ regenerated' = clock'
    /\ Return(r)
    /\ UNCHANGED <<names, overrides, registry, trail, promised, unset, renamed, faults>>

\* Its time to live is over.
Expire ==
    /\ sitemap # NoMap
    /\ sitemap' = NoMap
    /\ UNCHANGED <<names, overrides, registry, trail, clock, req,
                   promised, unset, renamed, regenerated, overlaps, faults>>

Next ==
    \/ Expire
    \/ \E r \in Requests :
        \/ \E p \in Pages : (\E t \in Titles : Rename(r, p, t) \/ SetMeta(r, p, t)) \/ DropMeta(r, p) \/ List(r, p) \/ Unlist(r, p)
        \/ SetWrite(r) \/ Open(r) \/ ReadMeta(r) \/ Compare(r) \/ Store(r) \/ Rescore(r) \/ Fails(r)
        \/ Sync(r) \/ Upsert(r) \/ Visit(r) \/ Build(r) \/ Cache(r) \/ Regenerate(r)

Spec == Init /\ [][Next]_vars

-----------------------------------------------------------------------------
(* Properties *)

\* The state is of its types.
TypeOK ==
    /\ names \in [Pages -> {None} \cup Titles] /\ overrides \in [Pages -> {None} \cup Titles]
    /\ registry \in [Pages -> {None, "filesystem", "database", "override", "manual"}]
    /\ sitemap.pages \subseteq Pages
    /\ promised \in [Pages -> {None} \cup Titles] /\ unset \subseteq Pages
    /\ \A p \in Pages : renamed[p] <= clock /\ \A s \in trail[p] : s.at <= clock
    /\ clock \in Nat /\ regenerated <= clock /\ overlaps \in Nat /\ faults \in 0..MaxFaults

\* set_meta_override: what an editor was told is set stays until somebody else is told otherwise; it is lost
\* only where the override was removed meanwhile.
SetIsKept == \A p \in Pages : overrides[p] # promised[p] => overrides[p] = None /\ p \in unset

Quiet == faults = 0 /\ \A r \in Requests : ~InProgress(r)

\* take_snapshot: the newest snapshot shows what the page tells now, however editors and the rescorer have
\* interleaved, and each is compared with the one before it when they have not.
TrailAddsUp ==
    \A p \in Pages :
        /\ Quiet /\ trail[p] # {} /\ Latest(p).at > renamed[p] => Latest(p).seen = Meta(p)
        /\ overlaps = 0 =>
             \A s \in trail[p] : s.over = Max({0} \cup {x.at : x \in {y \in trail[p] : y.at < s.at}})

\* invalidate_cache: the next sitemap is read afterwards, unless one was being built.
RegenerateIsHeeded == sitemap # NoMap /\ overlaps = 0 => sitemap.at > regenerated

\* sync_page_registry leaves a page that was added by hand as it is.
HandMadeStay == \A p \in Pages : registry[p] = "manual" => registry'[p] \in {"manual", None}

=============================================================================
