--------------------------- MODULE CampaignContent ---------------------------
(***************************************************************************)
(* What a campaign says: administrators create, edit, clone and delete     *)
(* email templates, and compose campaigns of them; a campaign refers to    *)
(* its template by name, or is a test of variants that carry their own     *)
(* text. While it is sent, each recipient's message is rendered at its own *)
(* turn. Who gets it, and what becomes of it, is CampaignDelivery's.       *)
(*                                                                         *)
(* A text is the set of the edits that are in it. An editor loads a        *)
(* template, changes it in the browser, and saves it.                      *)
(***************************************************************************)
EXTENDS Integers, FiniteSets, Sequences, SequencesExt

CONSTANTS
    Names,       \* of templates
    MaxRows,     \* bound: templates that are ever made
    Weights,     \* sequences of weights that variants are given
    Recipients,  \* how many a campaign has
    Requests,
    Kinds        \* [Requests -> SUBSET {"create", "edit", "clone", "delete", "compose", "wizard", "cancel", "send"}]

VARIABLES
    templates,   \* email_templates: name, text, version, builtin, kept
    campaign,    \* campaigns and campaign_variants: status, template (a name), variants
    parts,       \* the variant each recipient is assigned to
    got,         \* what each recipient was sent
    req,
    saved,       \* history: who has saved each template
    touched,     \* history: the campaign's template has changed since its first recipient's turn
    overlaps     \* history: how often a request has begun while another was in progress

vars == <<templates, campaign, parts, got, req, saved, touched, overlaps>>

Idle == [pc |-> "idle"]
Ended == [pc |-> "done"]
InProgress(r) == req[r] \notin {Idle, Ended}
At(r, pc) == req[r].pc = pc
Goto(r, record) == req' = [req EXCEPT ![r] = record]
Return(r) == Goto(r, Ended)

Begin(r, kind) ==
    /\ req[r] = Idle /\ kind \in Kinds[r]
    /\ overlaps' = overlaps + IF \E x \in Requests : InProgress(x) THEN 1 ELSE 0

\* A message, and the variant it is of.
Message(variant, text) == [state |-> "sent", of |-> variant, text |-> text]
NotSent == [state |-> "none", of |-> 0, text |-> {}]
NotRendered == [state |-> "failed", of |-> 0, text |-> {}]
NoCampaign == [status |-> "none", template |-> "", variants |-> <<>>]

\* Migration 025: a built-in template.
Init ==
    /\ \E n \in Names : templates = <<[name |-> n, text |-> {}, version |-> 1, builtin |-> TRUE, kept |-> TRUE]>>
    /\ campaign = NoCampaign
    /\ parts = <<>>
    /\ got = [k \in 1..Recipients |-> NotSent]
    /\ req = [r \in Requests |-> Idle]
    /\ saved = <<{}>>
    /\ touched = FALSE /\ overlaps = 0

Kept == {t \in DOMAIN templates : templates[t].kept}
Named(n) == {t \in Kept : templates[t].name = n}
Turns == {k \in 1..Recipients : got[k] # NotSent}

\* Something happens to the template of that name; between the first and the last recipient it shows.
Touch(n) == touched' = (touched \/ (Turns # {} /\ campaign.template = n))

-----------------------------------------------------------------------------
(* Templates *)

\* email_templates.name is UNIQUE: 400, or for a clone 500.
Insert(n, body) ==
    IF Named(n) = {} /\ Len(templates) < MaxRows
    THEN /\ templates' = Append(templates, [name |-> n, text |-> body, version |-> 1, builtin |-> FALSE, kept |-> TRUE])
         /\ saved' = Append(saved, {})
         /\ Touch(n)
    ELSE UNCHANGED <<templates, saved, touched>>

Create(r, n) ==
    /\ Begin(r, "create")
    /\ Insert(n, {})
    /\ Return(r)
    /\ UNCHANGED <<campaign, parts, got>>

\* The editor's page, or clone_template, reads the template.
Load(r, t, kind) ==
    /\ Begin(r, kind)
    /\ Goto(r, [pc |-> kind, row |-> t, text |-> templates[t].text])
    /\ UNCHANGED <<templates, campaign, parts, got, saved, touched>>

\* Mutant of Updated: the version that was loaded, plus one.
UpdatedFrom(t, q) == [t EXCEPT !.text = q.text \cup {q.by}, !.version = 1 + Cardinality(q.text) + 1]

\* update_template writes what the editor sends, over whatever there is; the version counts in SQL.
Updated(t, q) == [t EXCEPT !.text = q.text \cup {q.by}, !.version = @ + 1]

Save(r) ==
    /\ At(r, "edit")
    /\ LET t == req[r].row IN
       IF t \in Kept
       THEN /\ templates' = [templates EXCEPT ![t] = Updated(@, [text |-> req[r].text, by |-> r])]
            /\ saved' = [saved EXCEPT ![t] = @ \cup {r}]
            /\ Touch(templates[t].name)
       ELSE UNCHANGED <<templates, saved, touched>>
    /\ Return(r)
    /\ UNCHANGED <<campaign, parts, got, overlaps>>

CloneWrite(r, n) ==
    /\ At(r, "clone")
    /\ Insert(n, req[r].text)
    /\ Return(r)
    /\ UNCHANGED <<campaign, parts, got, overlaps>>

\* Mutant of MayDelete: whatever is there.
MayDeleteAny(t) == TRUE

MayDelete(t) == ~templates[t].builtin

Delete(r, t) ==
    /\ Begin(r, "delete")
    /\ IF MayDelete(t)
       THEN templates' = [templates EXCEPT ![t].kept = FALSE] /\ Touch(templates[t].name)
       ELSE UNCHANGED <<templates, touched>>
    /\ Return(r)
    /\ UNCHANGED <<campaign, parts, got, saved>>

-----------------------------------------------------------------------------
(* Campaigns *)

\* create_campaign: of a template's name, which nobody looks up.
Compose(r, n) ==
    /\ Begin(r, "compose")
    /\ campaign = NoCampaign
    /\ campaign' = [status |-> "draft", template |-> n, variants |-> <<>>]
    /\ Return(r)
    /\ UNCHANGED <<templates, parts, got, saved, touched>>

\* The wizard's page loads a template into its editor ...
Draft(r, t) == campaign = NoCampaign /\ Load(r, t, "wizard")

\* ... and create_campaign_with_variants writes campaign, variants and segments in one transaction,
\* each variant with a text of its own.
ComposeVariants(r, weights) ==
    /\ At(r, "wizard")
    /\ IF campaign = NoCampaign
       THEN campaign' = [status |-> "draft", template |-> "",
                         variants |-> [k \in DOMAIN weights |-> [text |-> req[r].text, weight |-> weights[k]]]]
       ELSE UNCHANGED campaign
    /\ Return(r)
    /\ UNCHANGED <<templates, parts, got, saved, touched, overlaps>>

Cancel(r) ==
    /\ Begin(r, "cancel")
    /\ campaign' = IF campaign.status \in {"draft", "scheduled"} THEN [campaign EXCEPT !.status = "cancelled"]
                   ELSE campaign
    /\ Return(r)
    /\ UNCHANGED <<templates, parts, got, saved, touched>>

-----------------------------------------------------------------------------
(* Sending *)

\* deliver_campaign finds the campaign ...
Send(r) ==
    /\ Begin(r, "send")
    /\ campaign.status \in {"draft", "scheduled"}
    /\ Goto(r, [pc |-> "mark"])
    /\ UNCHANGED <<templates, campaign, parts, got, saved, touched>>

Sum(S) == FoldLeft(LAMBDA x, y : x + y, 0, S)
TotalWeight == Sum([k \in DOMAIN campaign.variants |-> campaign.variants[k].weight])
UpTo(k) == Sum([j \in 1..k |-> campaign.variants[j].weight])

\* Mutant of FallsTo: positions count from zero.
FallsToFromZero(i, k) == (i - 1) * TotalWeight <= UpTo(k) * Recipients

\* position <= threshold, for the i-th of the recipients and the k-th variant.
FallsTo(i, k) == i * TotalWeight <= UpTo(k) * Recipients

\* assign_variants; 0 where there are none.
Assigned ==
    IF campaign.variants = <<>> THEN [i \in 1..Recipients |-> 0]
    ELSE [i \in 1..Recipients |-> CHOOSE k \in DOMAIN campaign.variants :
             FallsTo(i, k) /\ \A j \in 1..k - 1 : ~FallsTo(i, j)]

\* ... marks it, over whatever it has become, and assigns its variants.
Mark(r) ==
    /\ At(r, "mark")
    /\ campaign' = [campaign EXCEPT !.status = "sending"]
    /\ parts' = Assigned
    /\ Goto(r, [pc |-> "send"])
    /\ UNCHANGED <<templates, got, saved, touched, overlaps>>

\* Mutant of Rendered: variants are rendered from the template as well.
RenderedByName(k) ==
    IF Named(campaign.template) = {} THEN NotRendered
    ELSE Message(parts[k], templates[CHOOSE t \in Named(campaign.template) : TRUE].text)

\* A variant's own text, or the template of that name as it is now (render_template_db raises where
\* there is none, and the recipient has failed).
Rendered(k) ==
    IF parts[k] # 0 THEN Message(parts[k], campaign.variants[parts[k]].text)
    ELSE IF Named(campaign.template) = {} THEN NotRendered
    ELSE Message(0, templates[CHOOSE t \in Named(campaign.template) : TRUE].text)

SendNext(r) ==
    /\ At(r, "send")
    /\ LET k == Cardinality(Turns) + 1 IN
       IF k <= Recipients
       THEN got' = [got EXCEPT ![k] = Rendered(k)] /\ UNCHANGED <<campaign, req>>
       ELSE /\ campaign' = [campaign EXCEPT !.status = "sent"]
            /\ Return(r) /\ UNCHANGED got
    /\ UNCHANGED <<templates, parts, saved, touched, overlaps>>

Next ==
    \E r \in Requests :
        \/ \E n \in Names : Create(r, n) \/ CloneWrite(r, n) \/ Compose(r, n)
        \/ \E t \in Kept : Load(r, t, "edit") \/ Load(r, t, "clone") \/ Delete(r, t) \/ Draft(r, t)
        \/ Save(r) \/ Cancel(r) \/ Send(r) \/ Mark(r) \/ SendNext(r)
        \/ \E weights \in Weights : ComposeVariants(r, weights)

Spec == Init /\ [][Next]_vars

-----------------------------------------------------------------------------
(* Properties *)

\* The state is of its types.
TypeOK ==
    /\ templates \in Seq([name : Names, text : SUBSET Requests, version : Nat, builtin : BOOLEAN, kept : BOOLEAN])
    /\ campaign.status \in {"none", "draft", "sending", "sent", "cancelled"}
    /\ campaign.template \in Names \cup {""}
    /\ \A k \in DOMAIN parts : parts[k] \in 0..Len(campaign.variants)
    /\ Len(saved) = Len(templates) /\ touched \in BOOLEAN /\ overlaps \in Nat

\* render_template_db: all recipients of a campaign are sent the same text, those of a variant the one
\* that was composed for it, unless the campaign's template has changed in the middle of it.
OneTextForAll ==
    \A k \in Turns :
        IF campaign.variants = <<>> THEN touched \/ got[k] = got[1]
        ELSE got[k] = Message(parts[k], campaign.variants[parts[k]].text)

\* update_template: an edit is lost only where editors overlap, and the version counts them all; what
\* is built in stays.
EditsAreKept ==
    \A t \in DOMAIN templates :
        /\ overlaps > 0 \/ saved[t] \subseteq templates[t].text
        /\ templates[t].version = 1 + Cardinality(saved[t])
        /\ templates[t].builtin => templates[t].kept

\* assign_variants: every variant goes to its share of the recipients, give or take less than one.
SplitByWeight ==
    campaign.status \in {"sending", "sent"} /\ parts # <<>> =>
        \A k \in DOMAIN campaign.variants :
            LET has == TotalWeight * Cardinality({i \in 1..Recipients : parts[i] = k})
                share == Recipients * campaign.variants[k].weight
            IN has - share < TotalWeight /\ share - has < TotalWeight

=============================================================================
