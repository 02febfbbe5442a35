------------------------------ MODULE SiteAudit ------------------------------
(***************************************************************************)
(* How the administrator learns what is wrong with the site: a page is     *)
(* fetched and compared with the meta tags it ought to show (verify,       *)
(* crawl), and an audit of all pages counts what passes. The frontend      *)
(* serves a page from its cache for a minute after it has changed, and the *)
(* audit reads one page after another.                                     *)
(***************************************************************************)
EXTENDS Integers, FiniteSets, FiniteSetsExt

CONSTANTS
    Pages,
    Sites,       \* [Pages -> page] the site may begin as
    Edits,       \* edits of one page: [field, value]
    Requests,
    Kinds,       \* [Requests -> SUBSET {"edit", "crawl", "verify", "audit", "unlist"}]
    MaxFaults    \* bound: pages that cannot be fetched

VARIABLES
    site,        \* each page: title, description, canonical (whose address), image; broken, long, h1, unalt
    listed,      \* pages of the registry
    rendered,    \* the page the frontend serves from its cache
    sitemap,     \* whether Redis holds a sitemap
    crawls,      \* seo.crawl_results: the latest of each page
    report,      \* seo.site_audits: the latest
    told,        \* what the last verification or crawl of the page has found
    req,
    stale,       \* history: pages the frontend's cache was behind with when they were last fetched
    moved,       \* history: pages edited since the last comparison of them began
    changes,     \* history: edits, crawls and pages taken from the registry
    faults

vars == <<site, listed, rendered, sitemap, crawls, report, told, req, stale, moved, changes, faults>>

None == "none"
MetaFields == {"title", "description", "canonical", "image"}
Uncrawled == [known |-> FALSE]
Blank == [known |-> TRUE, loaded |-> FALSE]
NoReport == [made |-> FALSE]

Idle == [pc |-> "idle"]
Ended == [pc |-> "done"]
At(r, pc) == req[r].pc = pc
Goto(r, record) == req' = [req EXCEPT ![r] = record]
Return(r) == Goto(r, Ended)
Begin(r, kind) == req[r] = Idle /\ kind \in Kinds[r]

-----------------------------------------------------------------------------
(* Comparison of what is served with get_meta_tags *)

\* A page with no title or description of its own shows the site's.
Served(page) ==
    [f \in DOMAIN page |-> IF f \in {"title", "description"} /\ page[f] = None THEN "site" ELSE page[f]]

\* A title may be followed by more. The default image is a path, and the page shows it as an address.
Shown(field, expected, actual) ==
    CASE field = "title" -> actual = expected \/ (expected = "a" /\ actual = "ab")
      [] field = "image" -> actual = expected /\ expected # "default"
      [] OTHER -> actual = expected

\* Mutant of Shows: what is shown is not compared with.
ShowsAnything(kind, field, expected, actual) == field = "description" \/ Shown(field, expected, actual)

\* Where the API has nothing a crawl expects nothing, a verification expects nothing to be shown.
Shows(kind, field, expected, actual) ==
    IF expected = None THEN kind = "crawl" ELSE Shown(field, expected, actual)

Mismatches(kind, served, page) == {f \in MetaFields : ~Shows(kind, f, page[f], served[f])}

-----------------------------------------------------------------------------
(* run_full_audit: what fails each check, of the pages' meta tags and of the latest crawls *)

Sharing(metas, field) ==
    {p \in DOMAIN metas : metas[p][field] # None
                          /\ \E q \in DOMAIN metas \ {p} : metas[q][field] = metas[p][field]}

MetaChecks == {"canonical_conflicts", "duplicate_titles", "duplicate_descriptions", "all_pages_have_meta",
               "custom_og_images"}

CrawlChecks == {"thin_content_pages", "missing_h1_pages", "missing_alt_images", "image_heavy_pages", "no_404_pages"}

\* These pass for every page there is: the site's address and its robots.txt are settings, get_og_tags leaves no
\* tag out, and the sitemap is compared with the pages it is made of.
OfTheSite == {"ssl_configured", "robots_valid"}
OfTheTags == {"all_pages_have_og"}
OfTheSitemap == {"sitemap_coverage"}
Settled == OfTheSite \cup OfTheTags \cup OfTheSitemap

Checks == MetaChecks \cup CrawlChecks \cup Settled \cup {"sitemap_freshness"}

Incomplete(metas) == {p \in DOMAIN metas : None \in {metas[p].title, metas[p].description}}
Imageless(metas) == {p \in DOMAIN metas : metas[p].image = "default"}

MetaAffected(check, metas) ==
    CASE check = "canonical_conflicts" -> Sharing(metas, "canonical")
      [] check = "duplicate_titles" -> Sharing(metas, "title")
      [] check = "duplicate_descriptions" -> Sharing(metas, "description")
      [] check = "all_pages_have_meta" -> Incomplete(metas)
      [] check = "custom_og_images" -> Imageless(metas)

\* A page that could not be loaded has no text, no status and no headings.
NotFound(c) == c.loaded /\ c.page.broken
ImageHeavy(c) == c.loaded /\ c.page.unalt > 20

Fails(check, c) ==
    CASE check = "thin_content_pages" -> ~c.loaded \/ ~c.page.long
      [] check = "missing_h1_pages" -> c.loaded /\ ~c.page.h1
      [] check = "missing_alt_images" -> c.loaded /\ c.page.unalt > 0
      [] check = "image_heavy_pages" -> ImageHeavy(c)
      [] check = "no_404_pages" -> NotFound(c)

\* Crawls are kept of pages that have left the registry.
Crawled(data) == {p \in Pages : data[p].known}

Affected(check, metas, data) ==
    IF check \in MetaChecks THEN MetaAffected(check, metas)
    ELSE IF check \in CrawlChecks THEN {p \in Crawled(data) : Fails(check, data[p])}
    ELSE {}

\* The sitemap is fresh while Redis holds one.
Fresh == sitemap

Passes(check, metas, data, fresh) ==
    IF check = "sitemap_freshness" THEN fresh ELSE Affected(check, metas, data) = {}

\* Mutant of Weight: what nobody has crawled counts in full.
WeightOfAll(check, data) ==
    IF check \in {"ssl_configured", "robots_valid", "canonical_conflicts", "all_pages_have_meta", "no_404_pages"}
    THEN 3 ELSE IF check \in {"custom_og_images", "image_heavy_pages"} THEN 1 ELSE 2

\* Severity: critical 3, warning 2, info 1; less for a check without data.
Weight(check, data) ==
    CASE check \in {"ssl_configured", "robots_valid", "canonical_conflicts", "all_pages_have_meta"} -> 3
      [] check = "no_404_pages" -> IF Crawled(data) = {} THEN 2 ELSE 3
      [] check \in CrawlChecks \ {"no_404_pages"} -> IF Crawled(data) = {} \/ check = "image_heavy_pages" THEN 1 ELSE 2
      [] check = "custom_og_images" -> 1
      [] OTHER -> 2

\* Of 3 for each check, whatever it may earn.
Earned(metas, data, fresh) ==
    MapThenSumSet(LAMBDA c : Weight(c, data), {c \in Checks : Passes(c, metas, data, fresh)})

Possible == 3 * Cardinality(Checks)

-----------------------------------------------------------------------------
Init ==
    /\ site \in Sites /\ rendered = [p \in Pages |-> Served(site[p])]
    /\ listed = Pages /\ sitemap = FALSE
    /\ crawls = [p \in Pages |-> Uncrawled]
    /\ report = NoReport
    /\ told = [p \in Pages |-> "nothing"]
    /\ req = [r \in Requests |-> Idle]
    /\ stale = {} /\ moved = {} /\ changes = 0 /\ faults = 0

\* An editor's override, or a merchant's product.
Edit(r, p, e) ==
    /\ Begin(r, "edit")
    /\ site[p][e.field] # e.value
    /\ site' = [site EXCEPT ![p][e.field] = e.value]
    /\ moved' = moved \cup {p} /\ changes' = changes + 1
    /\ Return(r)
    /\ UNCHANGED <<listed, rendered, sitemap, crawls, report, told, stale, faults>>

Unlist(r, p) ==
    /\ Begin(r, "unlist")
    /\ listed' = listed \ {p}
    /\ changes' = changes + 1
    /\ Return(r)
    /\ UNCHANGED <<site, rendered, sitemap, crawls, report, told, stale, moved, faults>>

\* The frontend's cached page is a minute old and is made anew.
Revalidate(p) ==
    /\ rendered[p] # Served(site[p])
    /\ rendered' = [rendered EXCEPT ![p] = Served(site[p])]
    /\ UNCHANGED <<site, listed, sitemap, crawls, report, told, req, stale, moved, changes, faults>>

\* Somebody asks for the sitemap, or its time to live is over.
Sitemap ==
    /\ sitemap' = ~sitemap
    /\ UNCHANGED <<site, listed, rendered, crawls, report, told, req, stale, moved, changes, faults>>

\* verify_rendered_meta and crawl_page fetch the page as it is served; a crawl goes on without it.
Fetch(r, kind, p) ==
    /\ Begin(r, kind)
    /\ moved' = moved \ {p}
    /\ stale' = IF rendered[p] = Served(site[p]) THEN stale \ {p} ELSE stale \cup {p}
    /\ Goto(r, [pc |-> kind, page |-> p, got |-> [known |-> TRUE, loaded |-> TRUE, page |-> rendered[p]]])
    /\ UNCHANGED <<site, listed, rendered, sitemap, crawls, report, told, changes, faults>>

FetchFails(r) ==
    /\ req[r].pc \in {"crawl", "verify"} /\ req[r].got # Blank
    /\ faults < MaxFaults /\ faults' = faults + 1
    /\ IF At(r, "crawl") THEN Goto(r, [req[r] EXCEPT !.got = Blank]) ELSE Return(r)
    /\ UNCHANGED <<site, listed, rendered, sitemap, crawls, report, told, stale, moved, changes>>

\* get_meta_tags, the comparison and the INSERT of crawl_results. A page that answers 4xx is not verified.
Compare(r) ==
    LET q == req[r]
        p == q.page
    IN /\ req[r].pc \in {"crawl", "verify"}
       /\ crawls' = IF At(r, "crawl") THEN [crawls EXCEPT ![p] = q.got] ELSE crawls
       /\ changes' = IF At(r, "crawl") THEN changes + 1 ELSE changes
       /\ told' = IF At(r, "verify") /\ q.got.page.broken THEN told
                  ELSE [told EXCEPT ![p] = IF q.got.loaded /\ Mismatches(q.pc, q.got.page, site[p]) = {}
                                           THEN "match" ELSE "mismatch"]
       /\ Return(r)
       /\ UNCHANGED <<site, listed, rendered, sitemap, report, stale, moved, faults>>

\* run_full_audit: the paths, the meta tags of one page after another ...
Audit(r) ==
    /\ Begin(r, "audit")
    /\ Goto(r, [pc |-> "metas", left |-> listed, metas |-> <<>>, at |-> changes])
    /\ UNCHANGED <<site, listed, rendered, sitemap, crawls, report, told, stale, moved, changes, faults>>

ReadMeta(r) ==
    LET q == req[r]
        p == Min(q.left)
    IN /\ At(r, "metas") /\ q.left # {}
       /\ Goto(r, [q EXCEPT !.left = @ \ {p},
                             !.metas = [x \in DOMAIN @ \cup {p} |-> IF x = p THEN site[p] ELSE @[x]]])
       /\ UNCHANGED <<site, listed, rendered, sitemap, crawls, report, told, stale, moved, changes, faults>>

\* ... then the latest crawl of every path, the sitemap's time to live, and the report.
Report(r) ==
    LET q == req[r]
    IN /\ At(r, "metas") /\ q.left = {}
       /\ report' = [made |-> TRUE, at |-> q.at, fresh |-> Fresh, earned |-> Earned(q.metas, crawls, Fresh)]
       /\ Return(r)
       /\ UNCHANGED <<site, listed, rendered, sitemap, crawls, told, stale, moved, changes, faults>>

Next ==
    \/ Sitemap
    \/ \E p \in Pages : Revalidate(p)
    \/ \E r \in Requests :
        \/ \E p \in Pages : (\E e \in Edits : Edit(r, p, e)) \/ Unlist(r, p) \/ \E kind \in {"crawl", "verify"} : Fetch(r, kind, p)
        \/ FetchFails(r) \/ Compare(r) \/ Audit(r) \/ ReadMeta(r) \/ Report(r)

Spec == Init /\ [][Next]_vars

-----------------------------------------------------------------------------
(* Properties *)

\* The state is of its types.
TypeOK ==
    /\ listed \subseteq Pages /\ moved \cup stale \subseteq Pages /\ sitemap \in BOOLEAN
    /\ told \in [Pages -> {"nothing", "match", "mismatch"}]
    /\ report.made => report.earned \in 0..Possible
    /\ changes \in Nat /\ faults \in 0..MaxFaults

\* verify_and_compare, crawl_page: a page that was found to match shows the description it ought to, and one
\* that was not either was behind when it was fetched or lacks something of its own, be it only an image;
\* unless it has been edited since, or could not be fetched.
ToldIsSo ==
    \A p \in Pages \ moved :
        /\ told[p] = "match" => site[p].description \in {None, rendered[p].description}
        /\ told[p] = "mismatch" /\ p \notin stale /\ faults = 0 =>
             site[p].image = "default" \/ None \in {site[p].title, site[p].description}

Sound(page) == ~page.broken /\ page.long /\ page.h1 /\ page.unalt = 0

\* The best an audit can report is 33 of 45, and it reports that of a site when the titles, descriptions and
\* addresses of its pages are all there and all different, every image is a page's own, the sitemap is cached
\* and there are crawls, all of sound pages; unless something has changed since the audit began.
FullMarksMeanSound ==
    /\ report.made => report.earned <= 33
    /\ report.made /\ report.at = changes =>
         (report.earned = 33 <=>
            /\ report.fresh
            /\ \A p \in listed : site[p].image = "own" /\ None \notin {site[p].title, site[p].description}
            /\ \A p, q \in listed : p # q => \A f \in {"title", "description", "canonical"} : site[p][f] # site[q][f]
            /\ Crawled(crawls) # {}
            /\ \A p \in Crawled(crawls) : crawls[p].loaded /\ Sound(crawls[p].page))

=============================================================================
