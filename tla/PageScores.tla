------------------------------ MODULE PageScores ------------------------------
(***************************************************************************)
(* The two rule sets that score a page, for search engines and for AI      *)
(* engines, and the editor who follows their recommendations one by one.   *)
(* A page is the facts the rules ask of it; what nobody has fetched yet is *)
(* not known.                                                              *)
(***************************************************************************)
EXTENDS Integers, FiniteSets, FiniteSetsExt, TLC

CONSTANTS
    Drafts,      \* pages an editor begins with
    MaxAdvice    \* bound: recommendations that are followed

VARIABLES
    page,        \* the facts, below
    known,       \* what of them has been fetched: "crawl" (latest crawl), "html" (now)
    followed     \* recommendations followed

vars == <<page, known, followed>>

(***************************************************************************)
(* kind: static, listing, category, product.  title, desc: none, short,    *)
(* fit.  twin: the title is the H1.  ends: the description ends a          *)
(* sentence.  canonical: self, http (this page, not secure), other.        *)
(* image: own, default, broken.  keyword, in, dense: whether there is a    *)
(* target, where it occurs, how often.  levels: of the headings.           *)
(* sections, questions, contained: H2s, those that ask, those that answer. *)
(* sure, other: sites linked to that are authorities, and that are not.    *)
(* lacks: what else is amiss.                                              *)
(***************************************************************************)

Lacks == {"index", "alt", "linked", "readable", "sized", "clean", "viewport", "lang", "favicon",
          "opening", "tables", "quotes", "current", "updated"}

Has(p, fact) == fact \notin p.lacks

\* Five characters a word; a text of less than 100 characters is not judged.
Chars(p) == 5 * p.words
Judged(p) == Chars(p) >= 100

-----------------------------------------------------------------------------
(* rule_scoring_provider: what is not known passes *)

\* Which of the rules a page passes, one definition for each kind of fact they ask of it.
TextRules(p) == [title_present |-> p.title # "none", title_length |-> p.title = "fit",
                 desc_present |-> p.desc # "none", desc_length |-> p.desc = "fit"]

SentenceRules(p) == [meta_desc_complete |-> p.desc = "none" \/ p.ends]

\* get_meta_tags always has a canonical URL.
AddressRules(p) == [canonical_set |-> TRUE, canonical_self_ref |-> p.canonical # "other",
                    robots_indexable |-> Has(p, "index")]

UrlRules(p) == [url_quality |-> Has(p, "clean"), https_enforced |-> p.canonical # "http"]

\* Nor does it leave out a tag.
SocialRules(p) == [og_complete |-> TRUE, twitter_complete |-> TRUE, og_image_custom |-> p.image # "default",
                   og_url_valid |-> p.image # "broken"]

\* Beside the two that every page has: breadcrumbs for a category, the product's own, each with all its fields.
Schema(p) == CASE p.kind = "category" -> {"breadcrumb"} [] p.kind = "product" -> {"product"} [] OTHER -> {}

SchemaRules(p) == [structured_data |-> Schema(p) # {}, schema_complete |-> Schema(p) # {}]

BodyRules(p) == [content_length |-> Chars(p) >= IF p.kind = "product" THEN 300 ELSE 500,
                 images_alt_text |-> Has(p, "alt"), internal_links |-> Has(p, "linked")]

Skips(levels) == \E l \in levels : l > Min(levels) /\ l - 1 \notin levels

HeadingRules(p) == [h1_present |-> 1 \in p.levels, heading_hierarchy |-> 2 \in p.levels /\ ~Skips(p.levels)]

DocumentRules(p) == [viewport_present |-> Has(p, "viewport"), lang_attribute |-> Has(p, "lang"),
                     favicon_present |-> Has(p, "favicon")]

ImageRules(p) == [img_dimensions |-> Has(p, "sized")]

ReadingRules(p) == [readability_score |-> Has(p, "readable") \/ ~Judged(p),
                    keyword_density |-> ~p.keyword \/ ~Judged(p) \/ p.dense = "right",
                    external_links_present |-> p.sure + p.other > 0]

\* Mutant of IfFetched: what has not been fetched fails.
IfFetchedAndSo(k, what, rules) == [r \in DOMAIN rules |-> what \in k /\ rules[r]]

IfFetched(k, what, rules) == [r \in DOMAIN rules |-> what \notin k \/ rules[r]]

\* The H1 is read from the crawl; the other rule about it finds it in the HTML too.
KeywordPlaces(p, k) == p.in \ IF "crawl" \in k THEN {} ELSE {"h1"}
KeywordRules(p, k) == [keyword_in_content |-> ~p.keyword \/ Cardinality(KeywordPlaces(p, k)) >= 2]
TwinRules(p, k) == [title_h1_differentiated |-> k = {} \/ p.title = "none" \/ 1 \notin p.levels \/ ~p.twin]

SeoPasses(p, k) ==
    TextRules(p) @@ SentenceRules(p) @@ AddressRules(p) @@ UrlRules(p) @@ SocialRules(p) @@ SchemaRules(p)
    @@ KeywordRules(p, k) @@ TwinRules(p, k)
    @@ IfFetched(k, "crawl", BodyRules(p) @@ HeadingRules(p))
    @@ IfFetched(k, "html", DocumentRules(p) @@ ImageRules(p) @@ ReadingRules(p))

-----------------------------------------------------------------------------
(* geo_rule_scoring_provider: what is not known fails *)

AnswerRules(p) == [direct_answer_opening |-> Has(p, "opening"),
                   h2_question_format |-> p.sections > 0 /\ 2 * p.questions >= p.sections,
                   sections_self_contained |-> p.sections > 0 /\ 10 * p.contained >= 6 * p.sections]

Expected(words) == Max({1, words \div 200})

\* Mutant of Authoritative: the ratio the wrong way round.
AuthoritativeInverted(p) == p.sure + p.other > 0 /\ p.other >= p.sure

Authoritative(p) == p.sure + p.other > 0 /\ p.sure >= p.other

FactRules(p) == [stat_density |-> p.words >= 100 /\ p.stats >= Expected(p.words),
                 data_tables_present |-> Has(p, "tables"), source_citations |-> Authoritative(p)]

Enough(p) == IF p.kind \in {"product", "listing"} THEN 300 ELSE 800

AuthorityRules(p) == [authority_outbound_links |-> p.sure >= 3, expert_quotes |-> Has(p, "quotes"),
                      content_depth |-> p.words >= Enough(p)]

\* The types that count; a product is none of them.
Counted(p) == Schema(p) \cap {"faq", "article", "howto", "breadcrumb", "itemlist"}

FreshnessRules(p) == [date_modified_present |-> "article" \in Counted(p), content_recency |-> Has(p, "updated")]

PageSchemaRules(p) == [faq_schema |-> "faq" \in Counted(p), article_schema_complete |-> "article" \in Counted(p),
                       schema_stack_depth |-> Cardinality(Counted(p)) >= 2]

\* A page that could not be fetched names no year.
YearRules(p) == [no_stale_references |-> Has(p, "current")]

Signals(k, rules) == [r \in DOMAIN rules |-> "html" \in k /\ rules[r]]

GeoPasses(p, k) ==
    Signals(k, AnswerRules(p) @@ FactRules(p) @@ AuthorityRules(p)) @@ IfFetched(k, "html", YearRules(p))
    @@ FreshnessRules(p) @@ PageSchemaRules(p)

-----------------------------------------------------------------------------
(* What a page may become when a recommendation is followed *)

Reworded(p, place) == {p.in \ {place}, p.in \cup {place}}

Titled(p) == [title : {"fit"}, twin : BOOLEAN, in : Reworded(p, "title")]
Described(p) == [desc : {"fit"}, ends : BOOLEAN, in : Reworded(p, "desc")]
Lengthened(p, enough) ==
    [words : {w \in {90, 400, 900} : w >= enough /\ w > p.words}, dense : {"low", "right"},
     lacks : {p.lacks, p.lacks \cup {"readable"}}]
WithSections(p) ==
    {[levels |-> p.levels \cup {2}, sections |-> 2, questions |-> q, contained |-> c] : q \in 0..2, c \in 0..2}

\* The changes of facts that answer a recommendation. Nobody can follow one that asks for a schema the shop
\* does not generate, or for an image of a page that is no product's.
SeoAnswers(rule, p) ==
    CASE rule \in {"title_present", "title_length"} -> Titled(p)
      [] rule \in {"desc_present", "desc_length"} -> Described(p)
      [] rule = "meta_desc_complete" -> {[ends |-> TRUE]}
      [] rule = "content_length" -> Lengthened(p, IF p.kind = "product" THEN 60 ELSE 100)
      [] rule = "images_alt_text" -> {[lacks |-> p.lacks \ {"alt"}]}
      [] rule = "internal_links" -> {[lacks |-> p.lacks \ {"linked"}]}
      [] rule = "keyword_in_content" -> {[in |-> s] : s \in {s \in SUBSET {"title", "desc", "h1"} :
                                             p.in \subseteq s /\ Cardinality(s) >= 2}}
      [] rule = "readability_score" -> {[lacks |-> p.lacks \ {"readable"}]}
      [] rule = "keyword_density" -> {[dense |-> "right"]}
      [] rule = "external_links_present" -> {[sure |-> 1], [other |-> 1]}
      [] rule = "title_h1_differentiated" -> [twin : {FALSE}, in : Reworded(p, "title") \cup Reworded(p, "h1")]
      [] rule \in {"canonical_self_ref", "https_enforced"} -> {[canonical |-> "self"]}
      [] rule = "robots_indexable" -> {[lacks |-> p.lacks \ {"index"}]}
      [] rule = "h1_present" -> [levels : {p.levels \cup {1}}, twin : BOOLEAN, in : Reworded(p, "h1")]
      [] rule = "heading_hierarchy" -> IF 2 \in p.levels THEN {[levels |-> 1..Max(p.levels)]} ELSE WithSections(p)
      [] rule = "url_quality" -> {[lacks |-> p.lacks \ {"clean"}]}
      [] rule = "viewport_present" -> {[lacks |-> p.lacks \ {"viewport"}]}
      [] rule = "lang_attribute" -> {[lacks |-> p.lacks \ {"lang"}]}
      [] rule = "favicon_present" -> {[lacks |-> p.lacks \ {"favicon"}]}
      [] rule = "img_dimensions" -> {[lacks |-> p.lacks \ {"sized"}]}
      [] rule \in {"og_image_custom", "og_url_valid"} /\ p.kind = "product" -> {[image |-> "own"]}
      [] OTHER -> {}

GeoAnswers(rule, p) ==
    CASE rule = "direct_answer_opening" -> {[lacks |-> p.lacks \ {"opening"}]}
      [] rule = "h2_question_format" -> IF p.sections = 0 THEN WithSections(p) ELSE {[questions |-> p.sections]}
      [] rule = "sections_self_contained" -> IF p.sections = 0 THEN WithSections(p) ELSE {[contained |-> p.sections]}
      [] rule = "stat_density" -> IF p.words < 100 THEN Lengthened(p, 100) ELSE {[stats |-> Expected(p.words)]}
      [] rule = "data_tables_present" -> {[lacks |-> p.lacks \ {"tables"}]}
      [] rule = "source_citations" -> {[sure |-> n] : n \in Max({1, p.other})..3}
      [] rule = "authority_outbound_links" -> {[sure |-> 3]}
      [] rule = "expert_quotes" -> {[lacks |-> p.lacks \ {"quotes"}]}
      [] rule = "content_depth" -> Lengthened(p, Enough(p))
      [] rule = "content_recency" -> {[lacks |-> p.lacks \ {"updated"}]}
      [] rule = "no_stale_references" -> {[lacks |-> p.lacks \ {"current"}]}
      [] OTHER -> {}

With(p, change) == [f \in DOMAIN p |-> IF f \in DOMAIN change THEN change[f] ELSE p[f]]

Init == page \in Drafts /\ known \in SUBSET {"crawl", "html"} /\ followed = 0

\* A saved title, description or canonical URL is an override, whose updated_at is the content's.
Saved(p, rule) ==
    IF rule \in {"title_present", "title_length", "desc_present", "desc_length", "meta_desc_complete",
                 "canonical_self_ref", "https_enforced", "robots_indexable"}
    THEN [p EXCEPT !.lacks = @ \ {"updated"}] ELSE p

FollowSeo(rule) ==
    /\ followed < MaxAdvice /\ followed' = followed + 1
    /\ ~SeoPasses(page, known)[rule]
    /\ \E change \in SeoAnswers(rule, page) : page' = Saved(With(page, change), rule)
    /\ UNCHANGED known

FollowGeo(rule) ==
    /\ followed < MaxAdvice /\ followed' = followed + 1
    /\ ~GeoPasses(page, known)[rule]
    /\ \E change \in GeoAnswers(rule, page) : page' = With(page, change)
    /\ UNCHANGED known

\* The page is crawled, or its HTML fetched, when it is scored again.
Learn(what) ==
    /\ what \notin known
    /\ known' = known \cup {what}
    /\ UNCHANGED <<page, followed>>

Next ==
    \/ \E rule \in DOMAIN SeoPasses(page, known) : FollowSeo(rule)
    \/ \E rule \in DOMAIN GeoPasses(page, known) : FollowGeo(rule)
    \/ \E what \in {"crawl", "html"} : Learn(what)

Spec == Init /\ [][Next]_vars

-----------------------------------------------------------------------------
(* Properties *)

\* The state is of its types.
TypeOK ==
    /\ page.lacks \subseteq Lacks /\ page.levels \subseteq 1..6 /\ page.in \subseteq {"title", "desc", "h1"}
    /\ page.questions \in 0..page.sections /\ page.contained \in 0..page.sections
    /\ known \subseteq {"crawl", "html"} /\ followed \in 0..MaxAdvice

Held(passes) == {r \in DOMAIN passes : passes[r]}
Both(p, k) == Held(SeoPasses(p, k)) \cup Held(GeoPasses(p, k))

\* What an editor who does as told may lose: a longer text is judged, and has to be denser; new words may
\* leave the keyword out, repeat the other heading or not end a sentence.
AtRisk(p, q) ==
    (IF q.words > p.words THEN {"readability_score", "keyword_density", "stat_density"} ELSE {})
    \cup (IF q.title # p.title \/ q.twin # p.twin \/ q.levels # p.levels
          THEN {"keyword_in_content", "title_h1_differentiated"} ELSE {})
    \cup (IF q.desc # p.desc THEN {"keyword_in_content", "meta_desc_complete"} ELSE {})

\* RuleScoringProvider, GEORuleScoringProvider: the two sets of recommendations do not fight each other: a page
\* that follows one passes whatever it has passed, but for what new words put at risk.
AdviceHelps == known' = known => Both(page, known) \ Both(page', known) \subseteq AtRisk(page, page')

\* score_page, score_page_geo: what becomes known only takes points from the one score, unless the keyword is
\* found in the H1, and only adds to the other, unless the text names a year long past.
KnowingMoves ==
    page' = page =>
        /\ Held(SeoPasses(page, known')) \ Held(SeoPasses(page, known)) \subseteq {"keyword_in_content"}
        /\ Held(GeoPasses(page, known)) \ Held(GeoPasses(page, known')) \subseteq {"no_stale_references"}

=============================================================================
