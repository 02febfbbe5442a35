------------------------------- MODULE MCShop -------------------------------
(***************************************************************************)
(* Instances for TLC of the components of the shop and its pages that      *)
(* model-checking looks at one by one. A behaviour is one of `component`:  *)
(* of the refunds, the carts, the Checkout Sessions, the visits or the     *)
(* migrations, whose modules this one extends, or of another one, and      *)
(* those take turns in the same variables, the slots, of which each        *)
(* instance says which is which. What a component does not use stays as it *)
(* is.                                                                     *)
(***************************************************************************)
EXTENDS Refunds, ShoppingCart, CheckoutSessions, TrackingIntake, SchemaMigrations, TLC

CONSTANTS
    u1, u2, r1, r2, r3, r4, v1, p1, plan, g1, g2, w1, Unset

VARIABLES
    component,
    x1, x2, x3, x4, x5, x6, x7, x8, x9, x10, x11, x12, x13, x14, x15

slots == <<x1, x2, x3, x4, x5, x6, x7, x8, x9, x10, x11, x12, x13, x14, x15>>

PackVars == <<component, refundVars, vars, sessionVars, visitVars, schemaVars, slots>>

-----------------------------------------------------------------------------
(* Instances: the variables of each component, and the constants of its instance *)

\* A shopper with three requests and another one who wants the last use of the coupon.
Shoppers == r1 :> u1 @@ r2 :> u1 @@ r3 :> u1 @@ r4 :> u2

Carting ==
    r1 :> {"guestAdd"}
    @@ r2 :> {"guestUpdate", "guestRemove", "guestClear", "guestDrop", "merge",
              "add", "update", "remove", "clear", "drop", "apply", "view"}
    @@ r3 :> {"merge", "checkout", "checkoutWithCode"}
    @@ r4 :> {"guestApply"}

\* A visitor with two requests, who changes their mind about consent once.
Visiting == r1 :> {"visit", "beat"} @@ r2 :> {"view", "views", "event", "signal", "beat"}

\* A deployment, or an operator, beside another one; rollbacks to a version or of everything.
Migrating == r1 :> {"deploy", "up"} @@ r2 :> {"down", "up", "deploy"}

\* While the component is another one, the database is empty.
Undeployed == objects = {} /\ template = "ecommerce" /\ tracking

\* Two operations of the tab, one of them with its undo, a checkout and a visit to its page.
Touching == r1 :> {"set", "apply"} @@ r2 :> {"add", "drop", "remove", "refresh", "clear", "checkout"}

View == INSTANCE CartView WITH
    cart <- x1, shown <- x2, op <- x3, page <- x4, summary <- x5, order <- x6, served <- x7,
    latest <- x8, foreign <- x9, returned <- x10, disorder <- x11, unheard <- x12, crossed <- x13,
    faults <- x14, visits <- x15,
    Requests <- {r1, r2}, Kinds <- Touching, MaxQuantity <- 1, MaxVisits <- 1, MaxFaults <- 1

\* Two subscriptions of the user, one of them perhaps from a session; cancellations; a deletion.
Subscribing == r1 :> {"subscribe", "session"} @@ r2 :> {"subscribe"} @@ r3 :> {"cancel", "delete"}

Subscription == INSTANCE Subscriptions WITH
    customers <- x1, mapped <- x2, subs <- x3, rows <- x4, events <- x5, deleted <- x6, req <- x7,
    faults <- x8, upset <- x9, muddled <- x10,
    Requests <- {r1, r2, r3}, Kinds <- Subscribing, MaxEvents <- 3, MaxFaults <- 1

\* A merchant who is taken on twice, or asks how it went.
Onboarding == r1 :> {"onboard"} @@ r2 :> {"onboard", "status", "dashboard"}

Merchant == INSTANCE MerchantAccounts WITH
    connected <- x1, rows <- x2, events <- x3, req <- x4, told <- x5, overlaps <- x6, muddled <- x7,
    faults <- x8,
    Requests <- {r1, r2}, Kinds <- Onboarding, MaxEvents <- 3, MaxFaults <- 1

\* A product is created, and two requests work on it and its variants.
Editing ==
    r1 :> {"create"}
    @@ r2 :> {"setStatus"}
    @@ r3 :> {"setBase", "setOverride", "dropVariant", "retry", "delete", "addVariant"}

Catalog == INSTANCE StripeCatalog WITH
    product <- x1, variants <- x2, items <- x3, prices <- x4, events <- x5, handling <- x6,
    req <- x7, faults <- x8, edits <- x9, upset <- x10,
    Requests <- {r1, r2, r3}, Kinds <- Editing, Variants <- {1, 2}, Amounts <- {0, 1},
    MaxTrouble <- 1, Unset <- Unset

\* A code is created, edited, and switched on or off.
Couponing == r1 :> {"create"} @@ r2 :> {"edit"} @@ r3 :> {"activate", "deactivate"}

Coupon == INSTANCE StripeCoupons WITH
    code <- x1, listed <- x2, coupons <- x3, req <- x4, faults <- x5, upset <- x6, revived <- x7,
    Requests <- {r1, r2, r3}, Kinds <- Couponing, Values <- {5, 10}, Products <- {p1},
    MaxFaults <- 1

\* Categories, images, reviews and fees, each of them worked on by three requests.
Arranging ==
    r1 :> {"create", "assign", "add", "review", "tiers"}
    @@ r2 :> {"move", "delete", "edit", "upload", "prime", "review"}
    @@ r3 :> {"edit", "delete", "discard", "prime", "dropVariant", "tiers"}

Content == INSTANCE CatalogContent WITH
    categories <- x1, lists <- x2, images <- x3, files <- x4, shown <- x5, reviews <- x6, req <- x7,
    lost <- x8, uneven <- x9, unsynced <- x10, overlaps <- x11, faults <- x12,
    Picks <- {{1}, {2}}, MaxMade <- 3, Requests <- {r1, r2, r3}, Kinds <- Arranging, MaxFaults <- 1

\* Time enough to fall idle, come back and fall idle again.

Timer == INSTANCE PageTimer WITH
    clock <- x1, visible <- x2, path <- x3, away <- x4, since <- x5, accum <- x6, deadline <- x7,
    reported <- x8, beat <- x9, pulse <- x10, closed <- x11, seen <- x12, attended <- x13,
    changed <- x14,
    Paths <- {1, 2}, IdleTimeout <- 2, MaxClock <- 7

\* A page of the site's own and the page of a product, whose merchant renames it.
Tuning ==
    r1 :> {"set", "rename", "list"}
    @@ r2 :> {"set", "visit", "rescore"}
    @@ r3 :> {"unset", "sync", "unlist", "regenerate"}

Search == INSTANCE SearchPages WITH
    names <- x1, overrides <- x2, registry <- x3, sitemap <- x4, trail <- x5, clock <- x6,
    req <- x7, promised <- x8, unset <- x9, renamed <- x10, regenerated <- x11, overlaps <- x12,
    faults <- x13,
    Pages <- 1..2, Names <- <<"none", "a">>, Titles <- {"a", "b"}, Requests <- {r1, r2, r3},
    Kinds <- Tuning, MaxFaults <- 1

\* Two pages, sound or alike, of which one is edited while it is crawled, verified and audited.
Auditing == r1 :> {"edit", "crawl", "verify"} @@ r2 :> {"edit", "crawl", "unlist"} @@ r3 :> {"audit"}

Page(t, canonical, image) ==
    [title |-> t, description |-> t, canonical |-> canonical, image |-> image, broken |-> FALSE,
     long |-> TRUE, h1 |-> TRUE, unalt |-> 0]

Change(field, value) == [field |-> field, value |-> value]

Crawled ==
    { <<Page("a", "c1", "own"), Page("b", "c2", "own")>>, <<Page("a", "c1", "own"), Page("b", "c1", "default")>> }

Changes ==
    { Change("title", "ab"), Change("title", "none"), Change("title", "b"), Change("description", "b"),
      Change("canonical", "c2"), Change("image", "own"), Change("unalt", 21) }

Audit == INSTANCE SiteAudit WITH
    site <- x1, listed <- x2, rendered <- x3, sitemap <- x4, crawls <- x5, report <- x6, told <- x7,
    req <- x8, stale <- x9, moved <- x10, changes <- x11, faults <- x12,
    Pages <- 1..2, Sites <- Crawled, Edits <- Changes, Requests <- {r1, r2, r3}, Kinds <- Auditing,
    MaxFaults <- 1

\* Three pages that fall short of most rules between them.
Draft(kind, title, image, levels, sections, words, lacks) ==
    [kind |-> kind, title |-> title, desc |-> "short", twin |-> TRUE, ends |-> FALSE, canonical |-> "http",
     image |-> image, keyword |-> TRUE, in |-> {"desc"}, dense |-> "low", levels |-> levels,
     sections |-> sections, questions |-> 0, contained |-> sections \div 2, sure |-> 0, other |-> 1,
     words |-> words, stats |-> 1, lacks |-> lacks]

Written ==
    { Draft("static", "none", "default", {1, 4}, 0, 10, {"alt", "opening", "updated"}),
      Draft("product", "short", "broken", {2, 4}, 2, 90, {"linked", "tables", "current"}),
      Draft("category", "fit", "default", {1, 2, 3}, 2, 400, {"readable", "quotes", "favicon"}) }

Score == INSTANCE PageScores WITH
    page <- x1, known <- x2, followed <- x3,
    Drafts <- Written, MaxAdvice <- 2

-----------------------------------------------------------------------------
(* Behaviours: of one component, whose state is in its variables or the first n slots *)

Blank(n) ==
    /\ n < 1 => x1 = 0
    /\ n < 2 => x2 = 0
    /\ n < 3 => x3 = 0
    /\ n < 4 => x4 = 0
    /\ n < 5 => x5 = 0
    /\ n < 6 => x6 = 0
    /\ n < 7 => x7 = 0
    /\ n < 8 => x8 = 0
    /\ n < 9 => x9 = 0
    /\ n < 10 => x10 = 0
    /\ n < 11 => x11 = 0
    /\ n < 12 => x12 = 0
    /\ n < 13 => x13 = 0
    /\ n < 14 => x14 = 0
    /\ n < 15 => x15 = 0

Rest(n) ==
    /\ UNCHANGED <<component, refundVars, vars, sessionVars, visitVars, schemaVars>>
    /\ n < 4 => UNCHANGED x4
    /\ n < 5 => UNCHANGED x5
    /\ n < 6 => UNCHANGED x6
    /\ n < 7 => UNCHANGED x7
    /\ n < 8 => UNCHANGED x8
    /\ n < 9 => UNCHANGED x9
    /\ n < 10 => UNCHANGED x10
    /\ n < 11 => UNCHANGED x11
    /\ n < 12 => UNCHANGED x12
    /\ n < 13 => UNCHANGED x13
    /\ n < 14 => UNCHANGED x14
    /\ n < 15 => UNCHANGED x15

PackInit ==
    /\ RefundsInit
    /\ Init
    /\ SessionsInit
    /\ VisitInit
    /\ SchemaInit
    /\ \/ component = "refunds" /\ Blank(0)
       \/ component = "carts" /\ Blank(0)
       \/ component = "sessions" /\ Blank(0)
       \/ component = "visits" /\ Blank(0)
       \/ component = "migrations" /\ Blank(0)
       \/ component = "cart view" /\ View!Init /\ Blank(15)
       \/ component = "subscriptions" /\ Subscription!Init /\ Blank(10)
       \/ component = "merchants" /\ Merchant!Init /\ Blank(8)
       \/ component = "catalogue" /\ Catalog!Init /\ Blank(10)
       \/ component = "coupons" /\ Coupon!Init /\ Blank(7)
       \/ component = "content" /\ Content!Init /\ Blank(12)
       \/ component = "timer" /\ Timer!Init /\ Blank(14)
       \/ component = "search" /\ Search!Init /\ Blank(13)
       \/ component = "audit" /\ Audit!Init /\ Blank(12)
       \/ component = "scores" /\ Score!Init /\ Blank(3)
    /\ component # "migrations" => Undeployed

PackNext ==
    \/ component = "refunds" /\ RefundsNext /\ UNCHANGED <<component, vars, sessionVars, visitVars, schemaVars, slots>>
    \/ component = "carts" /\ Next /\ UNCHANGED <<component, refundVars, sessionVars, visitVars, schemaVars, slots>>
    \/ component = "sessions" /\ SessionsNext /\ UNCHANGED <<component, refundVars, vars, visitVars, schemaVars, slots>>
    \/ component = "visits" /\ VisitNext /\ UNCHANGED <<component, refundVars, vars, sessionVars, schemaVars, slots>>
    \/ component = "migrations" /\ SchemaNext /\ UNCHANGED <<component, refundVars, vars, sessionVars, visitVars, slots>>
    \/ component = "cart view" /\ View!Next /\ Rest(15)
    \/ component = "subscriptions" /\ Subscription!Next /\ Rest(10)
    \/ component = "merchants" /\ Merchant!Next /\ Rest(8)
    \/ component = "catalogue" /\ Catalog!Next /\ Rest(10)
    \/ component = "coupons" /\ Coupon!Next /\ Rest(7)
    \/ component = "content" /\ Content!Next /\ Rest(12)
    \/ component = "timer" /\ Timer!Next /\ Rest(14)
    \/ component = "search" /\ Search!Next /\ Rest(13)
    \/ component = "audit" /\ Audit!Next /\ Rest(12)
    \/ component = "scores" /\ Score!Next /\ Rest(3)

PackSpec == PackInit /\ [][PackNext]_PackVars

-----------------------------------------------------------------------------
(* Properties, stated in the components' modules *)

\* Types of the state of each component.
TypesOK ==
    /\ RefundsTypeOK
    /\ TypeOK
    /\ SessionsTypeOK
    /\ VisitTypeOK
    /\ SchemaTypeOK
    /\ component = "cart view" => View!TypeOK
    /\ component = "subscriptions" => Subscription!TypeOK
    /\ component = "merchants" => Merchant!TypeOK
    /\ component = "catalogue" => Catalog!TypeOK
    /\ component = "coupons" => Coupon!TypeOK
    /\ component = "content" => Content!TypeOK
    /\ component = "timer" => Timer!TypeOK
    /\ component = "search" => Search!TypeOK
    /\ component = "audit" => Audit!TypeOK
    /\ component = "scores" => Score!TypeOK

\* The rows of subscriptions and connected accounts show Stripe's status if the reports were in
\* order, an end only where there is one, and a dashboard only where there is an account. What is
\* marked as synced is sold at Stripe for what the shop shows, under a Price that is live; the
\* product is on sale there exactly when it is in the shop, with the shop's images; an active code
\* is worth there what it is worth in the shop, and an inactive one has no coupon.
AgreesWithStripe ==
    /\ component = "subscriptions" => Subscription!FollowsInOrder /\ Subscription!CancelledEnds
    /\ component = "merchants" => Merchant!StatusFollows /\ Merchant!DashboardIsEarned
    /\ component = "catalogue" => Catalog!SyncedMeansPriced /\ Catalog!NoDeadPrice /\ Catalog!OnSaleTogether
    /\ component = "content" => Content!StripeShowsThem
    /\ component = "coupons" => Coupon!MirroredWhenAlone

\* The state is of its types, and whatever there should be one of (the user's active cart, the
\* order of a paid cart, Stripe's customer, account, Product, Prices and coupon, a primary image, a
\* review) there are no more of than requests have overlapped, been cut off or failed; a cart is
\* reported as abandoned once.
DuplicatesAreCounted ==
    /\ TypesOK
    /\ SecondCartNeedsOverlap /\ AbandonedOncePerSweeper /\ OrdersAreCounted
    /\ component = "subscriptions" => Subscription!CustomersAreCounted
    /\ component = "merchants" => Merchant!MerchantIsOne
    /\ component = "catalogue" => Catalog!OrphansAreCounted
    /\ component = "coupons" => Coupon!OrphansAreCounted
    /\ component = "content" => Content!OneOfEach

\* What an editor has saved of categories, fees, images and pages is what is there afterwards; the
\* trail of a page's overrides adds up, a sitemap that was to be regenerated is, and what audit and
\* crawl have told is so. A tab whose requests are answered in their order shows the cart, and
\* after a checkout the order; and its timer reports the time the visitor attended to a page, once.
ContentIsAsSaved ==
    /\ component = "cart view" => View!ShownIsTheCart /\ View!SummaryIsTheOrder
    /\ component = "timer" => Timer!TimeIsAccounted /\ Timer!BeatsKeepUp
    /\ component = "content" => Content!ListsAreAsAsked /\ Content!FilesBehindImages
    /\ component = "search" => Search!SetIsKept /\ Search!TrailAddsUp /\ Search!RegenerateIsHeeded
    /\ component = "audit" => Audit!ToldIsSo /\ Audit!FullMarksMeanSound

\* What a step may never do: validate_discount lets a coupon that is used up or switched off get
\* into nobody else's hands; sync_page_registry leaves what was added by hand; following one
\* recommendation costs no other rule, and knowing more of a page moves each score one way only;
\* a file is rolled back from the top.
NoStepOversteps ==
    [][/\ SpreadsNoFurther
       /\ component = "search" => Search!HandMadeStay
       /\ component = "scores" => Score!AdviceHelps /\ Score!KnowingMoves
       /\ component = "migrations" => DownFromTheTop]_PackVars
=============================================================================
