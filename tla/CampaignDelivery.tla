-------------------------- MODULE CampaignDelivery --------------------------
(***************************************************************************)
(* One marketing campaign: the deliveries an administrator starts with     *)
(* POST /campaigns/{id}/send (campaign_delivery_service), possibly several *)
(* at once; its cancellation; users who withdraw their consent meanwhile;  *)
(* and the providers' reports (webhook_processing_service for email,       *)
(* webhook_event_service for SMS and WhatsApp), in any order.              *)
(*                                                                         *)
(* A step is one committed transaction or one call to the provider. A row  *)
(* of campaign_recipients is inserted before its message is sent, and the  *)
(* unique index on (campaign_id, user_id) decides which delivery sends it. *)
(***************************************************************************)
EXTENDS Integers, FiniteSets

CONSTANTS
    Deliveries,  \* requests to send the campaign
    Users,       \* in its segments, or with an address for its channel
    Consenting,  \* users who consent to marketing at first
    Campaigns,   \* medium, and whether its audience is a segment made of a metric
    Queries,     \* the guardrail queries the schema can answer
    MaxFaults,   \* bound: cut-offs, timeouts and failed writes
    Nobody

Media == {"email", "sms", "whatsapp"}

ASSUME UsersAreKnown == Consenting \subseteq Users
ASSUME CampaignsHaveAMedium == Campaigns \subseteq [medium : Media, segmented : BOOLEAN]
ASSUME FaultsAreCounted == MaxFaults \in Nat
ASSUME NobodyIsNoUser == Nobody \notin Users

\* What the migrations make of the guardrails: consent_records has no column
\* status, and nothing creates suppression_list.
MigratedQueries == {"number consent"}

VARIABLES
    of,        \* which kind of campaign it is
    campaign,  \* campaigns.status
    counted,   \* campaigns.recipient_count
    row,       \* campaign_recipients.status, "none" before the row exists
    msgid,     \* users whose row carries its provider_message_id
    copies,    \* messages the provider has accepted for each user
    consents,  \* users who consent to marketing
    pc,        \* where each delivery is
    todo,      \* recipients it has not come to
    who,       \* recipient it is at
    sent,      \* its sent_count
    faults

rowVars == <<row, msgid, copies>>
deliveryVars == <<pc, todo, who, sent>>
vars == <<of, campaign, counted, rowVars, consents, deliveryVars, faults>>

\* Migration 033: CHECK (status IN (...)).
RowStatuses == {"sending", "sent", "delivered", "opened", "clicked",
                "bounced", "complained", "unsubscribed", "failed"}

Underway(d) == pc[d] \notin {"start", "refused", "done"}

TypeOK ==
    /\ of \in Campaigns
    /\ campaign \in {"draft", "scheduled", "sending", "sent", "cancelled"}
    /\ counted \in Nat
    /\ row \in [Users -> RowStatuses \cup {"none"}]
    /\ msgid \subseteq Users
    /\ copies \in [Users -> Nat]
    /\ consents \subseteq Users
    /\ pc \in [Deliveries -> {"start", "refused", "accepted", "marked", "next", "guard",
                              "send", "store", "drop", "except", "done"}]
    /\ todo \in [Deliveries -> SUBSET Users]
    /\ who \in [Deliveries -> Users \cup {Nobody}]
    /\ sent \in [Deliveries -> Nat]
    /\ faults \in Nat

Init ==
    /\ of \in Campaigns
    /\ campaign \in {"draft", "scheduled"}
    /\ counted = 0
    /\ row = [u \in Users |-> "none"]
    /\ msgid = {}
    /\ copies = [u \in Users |-> 0]
    /\ consents = Consenting
    /\ pc = [d \in Deliveries |-> "start"]
    /\ todo = [d \in Deliveries |-> {}]
    /\ who = [d \in Deliveries |-> Nobody]
    /\ sent = [d \in Deliveries |-> 0]
    /\ faults = 0

Goto(d, at) == pc' = [pc EXCEPT ![d] = at]
SetRow(u, status) == row' = [row EXCEPT ![u] = status]

\* On to the next recipient.
Leave(d) ==
    /\ Goto(d, "next")
    /\ who' = [who EXCEPT ![d] = Nobody]

Fault ==
    /\ faults < MaxFaults
    /\ faults' = faults + 1

-----------------------------------------------------------------------------
(* Starting and ending a delivery *)

\* The SELECT of deliver_campaign; it locks nothing.
Accept(d) ==
    /\ pc[d] = "start"
    /\ campaign \in {"draft", "scheduled"}
    /\ Goto(d, "accepted")
    /\ UNCHANGED <<of, campaign, counted, rowVars, consents, todo, who, sent, faults>>

\* "Campaign not found or already sent".
Refuse(d) ==
    /\ pc[d] = "start"
    /\ campaign \notin {"draft", "scheduled"}
    /\ Goto(d, "refused")
    /\ UNCHANGED <<of, campaign, counted, rowVars, consents, todo, who, sent, faults>>

\* Unconditional: over another delivery's 'sent', or over 'cancelled'.
Mark(d) ==
    /\ pc[d] = "accepted"
    /\ campaign' = "sending"
    /\ Goto(d, "marked")
    /\ UNCHANGED <<of, counted, rowVars, consents, todo, who, sent, faults>>

\* resolve_audience. Without segments, or with one made of filters, only users
\* who consent get email; a segment made of a metric, and the other media, ask
\* nobody.
Audience ==
    IF of.medium = "email" /\ ~of.segmented THEN consents ELSE Users

\* filter_recipients: who has a row that did not fail has had the campaign.
Eligible == {u \in Audience : row[u] \in {"none", "failed"}}

Resolve(d) ==
    /\ pc[d] = "marked"
    /\ Eligible # {}
    /\ todo' = [todo EXCEPT ![d] = Eligible]
    /\ Goto(d, "next")
    /\ UNCHANGED <<of, campaign, counted, rowVars, consents, who, sent, faults>>

\* Mutant of Empty: an early return without the final status.
EmptyForgotten(d) ==
    /\ pc[d] = "marked"
    /\ Eligible = {}
    /\ Goto(d, "done")
    /\ UNCHANGED <<of, campaign, counted, rowVars, consents, todo, who, sent, faults>>

\* Nobody to send to: sent, to nobody.
Empty(d) ==
    /\ pc[d] = "marked"
    /\ Eligible = {}
    /\ campaign' = "sent" /\ counted' = 0
    /\ Goto(d, "done")
    /\ UNCHANGED <<of, rowVars, consents, todo, who, sent, faults>>

\* Mutant of Finish: the loop ends before its last recipient.
FinishEarly(d) ==
    /\ pc[d] = "next"
    /\ Cardinality(todo[d]) <= 1
    /\ campaign' = "sent" /\ counted' = sent[d]
    /\ Goto(d, "done")
    /\ UNCHANGED <<of, rowVars, consents, todo, who, sent, faults>>

Finish(d) ==
    /\ pc[d] = "next"
    /\ todo[d] = {}
    /\ campaign' = "sent" /\ counted' = sent[d]
    /\ Goto(d, "done")
    /\ UNCHANGED <<of, rowVars, consents, todo, who, sent, faults>>

\* Both attempts to write the final status fail: stuck in 'sending'.
FinishFails(d) ==
    /\ pc[d] = "next" /\ todo[d] = {}
    /\ Fault
    /\ Goto(d, "done")
    /\ UNCHANGED <<of, campaign, counted, rowVars, consents, todo, who, sent>>

\* The worker dies, or the request ends with an exception.
CutOff(d) ==
    /\ Underway(d)
    /\ Fault
    /\ Goto(d, "done")
    /\ who' = [who EXCEPT ![d] = Nobody]
    /\ UNCHANGED <<of, campaign, counted, rowVars, consents, todo, sent>>

-----------------------------------------------------------------------------
(* One recipient: insert, guardrails, send, store *)

\* Mutant of Insert: a second delivery sends to whoever has a row already.
InsertAgain(d, u) ==
    /\ pc[d] = "next"
    /\ u \in todo[d]
    /\ todo' = [todo EXCEPT ![d] = @ \ {u}]
    /\ SetRow(u, "sending")
    /\ Goto(d, "guard")
    /\ who' = [who EXCEPT ![d] = u]
    /\ UNCHANGED <<of, campaign, counted, msgid, copies, consents, sent, faults>>

\* INSERT ... ON CONFLICT DO NOTHING, COMMIT.
Insert(d, u) ==
    /\ pc[d] = "next"
    /\ u \in todo[d]
    /\ todo' = [todo EXCEPT ![d] = @ \ {u}]
    /\ row[u] = "none"
    /\ SetRow(u, "sending")
    /\ Goto(d, "guard")
    /\ who' = [who EXCEPT ![d] = u]
    /\ UNCHANGED <<of, campaign, counted, msgid, copies, consents, sent, faults>>

\* The INSERT returned no row: somebody else's recipient.
SkipDuplicate(d, u) ==
    /\ pc[d] = "next"
    /\ u \in todo[d]
    /\ row[u] # "none"
    /\ todo' = [todo EXCEPT ![d] = @ \ {u}]
    /\ UNCHANGED <<of, campaign, counted, rowVars, consents, pc, who, sent, faults>>

\* INSERT or COMMIT raises; the row may be there all the same.
InsertFails(d, u) ==
    /\ pc[d] = "next"
    /\ u \in todo[d]
    /\ Fault
    /\ todo' = [todo EXCEPT ![d] = @ \ {u}]
    /\ (row[u] = "none" /\ SetRow(u, "sending")) \/ row' = row
    /\ UNCHANGED <<of, campaign, counted, msgid, copies, consents, pc, who, sent>>

\* check_guardrails asks for consent first, in another table for each medium.
ConsentAnswered ==
    IF of.medium = "email" THEN "email consent" \in Queries ELSE "number consent" \in Queries

\* Mutant of MayPass: the answer of the consent query is not looked at.
MayPassAnyway(u) == TRUE

\* A query that raises lets the recipient pass.
MayPass(u) == ConsentAnswered => u \in consents

GuardPasses(d) ==
    /\ pc[d] = "guard"
    /\ MayPass(who[d])
    /\ Goto(d, "send")
    /\ UNCHANGED <<of, campaign, counted, rowVars, consents, todo, who, sent, faults>>

\* No consent; or, where the suppression query works too, any of the checks
\* from suppression to sunset.
GuardRefuses(d) ==
    /\ pc[d] = "guard"
    /\ ConsentAnswered
    /\ who[d] \notin consents \/ "suppression" \in Queries
    /\ SetRow(who[d], "failed")
    /\ Leave(d)
    /\ UNCHANGED <<of, campaign, counted, msgid, copies, consents, todo, sent, faults>>

\* A query fails, or the COMMIT of the refusal: "(proceeding)".
GuardFails(d) ==
    /\ pc[d] = "guard"
    /\ Fault
    /\ Goto(d, "send")
    /\ UNCHANGED <<of, campaign, counted, rowVars, consents, todo, who, sent>>

Send(d) ==
    /\ pc[d] = "send"
    /\ copies' = [copies EXCEPT ![who[d]] = @ + 1]
    /\ Goto(d, "store")
    /\ UNCHANGED <<of, campaign, counted, row, msgid, consents, todo, who, sent, faults>>

\* The provider refuses.
SendRefused(d) ==
    /\ pc[d] = "send"
    /\ Goto(d, "drop")
    /\ UNCHANGED <<of, campaign, counted, rowVars, consents, todo, who, sent, faults>>

\* The provider has taken the message, but its adapter, like all of them, ends with an exception
\* and says that it has not.
SendTimesOut(d) ==
    /\ pc[d] = "send"
    /\ Fault
    /\ copies' = [copies EXCEPT ![who[d]] = @ + 1]
    /\ Goto(d, "drop")
    /\ UNCHANGED <<of, campaign, counted, row, msgid, consents, todo, who, sent>>

\* The template does not render.
RenderFails(d) ==
    /\ pc[d] = "send"
    /\ Goto(d, "except")
    /\ UNCHANGED <<of, campaign, counted, rowVars, consents, todo, who, sent, faults>>

\* The row keeps 'sending' until the provider reports.
Store(d) ==
    /\ pc[d] = "store"
    /\ msgid' = msgid \cup {who[d]}
    /\ sent' = [sent EXCEPT ![d] = @ + 1]
    /\ Leave(d)
    /\ UNCHANGED <<of, campaign, counted, row, copies, consents, todo, faults>>

\* Mutant of Drop: the row is left as it is.
DropSilently(d) ==
    /\ pc[d] = "drop"
    /\ Leave(d)
    /\ UNCHANGED <<of, campaign, counted, rowVars, consents, todo, sent, faults>>

\* Mutant of Drop: a refused message is counted among the sent.
DropCounted(d) ==
    /\ pc[d] = "drop"
    /\ SetRow(who[d], "failed")
    /\ sent' = [sent EXCEPT ![d] = @ + 1]
    /\ Leave(d)
    /\ UNCHANGED <<of, campaign, counted, msgid, copies, consents, todo, faults>>

Drop(d) ==
    /\ pc[d] = "drop"
    /\ SetRow(who[d], "failed")
    /\ Leave(d)
    /\ UNCHANGED <<of, campaign, counted, msgid, copies, consents, todo, sent, faults>>

\* A statement after the send raises, before or after sent_count was counted,
\* or the COMMIT does, whose work may be done all the same.
StoreFails(d) ==
    /\ pc[d] = "store"
    /\ Fault
    /\ \/ sent' = sent /\ msgid' = msgid
       \/ sent' = [sent EXCEPT ![d] = @ + 1] /\ msgid' \in {msgid, msgid \cup {who[d]}}
    /\ Goto(d, "except")
    /\ UNCHANGED <<of, campaign, counted, row, copies, consents, todo, who>>

DropFails(d) ==
    /\ pc[d] = "drop"
    /\ Fault
    /\ Goto(d, "except")
    /\ UNCHANGED <<of, campaign, counted, rowVars, consents, todo, who, sent>>

\* 'Send exception', whatever a report has made of the row since.
MarkException(d) ==
    /\ pc[d] = "except"
    /\ SetRow(who[d], "failed")
    /\ Leave(d)
    /\ UNCHANGED <<of, campaign, counted, msgid, copies, consents, todo, sent, faults>>

MarkExceptionFails(d) ==
    /\ pc[d] = "except"
    /\ Fault
    /\ Leave(d)
    /\ UNCHANGED <<of, campaign, counted, rowVars, consents, todo, sent>>

-----------------------------------------------------------------------------
(* Administrator, users and providers *)

\* cancel_campaign, one conditional UPDATE.
Cancel ==
    /\ campaign \in {"draft", "scheduled"}
    /\ campaign' = "cancelled"
    /\ UNCHANGED <<of, counted, rowVars, consents, deliveryVars, faults>>

\* By the preference page, or by a provider's unsubscribe report.
Withdraw(u) ==
    /\ u \in consents
    /\ consents' = consents \ {u}
    /\ UNCHANGED <<of, campaign, counted, rowVars, deliveryVars, faults>>

Kinds(medium) ==
    IF medium = "email"
    THEN {"sent", "delivered", "opened", "clicked", "bounced", "complained"}
    ELSE IF medium = "sms" THEN {"delivered", "bounced", "failed"}
                           ELSE {"delivered", "opened", "failed"}

\* How far a message has come.
Steps == [sending |-> 0, sent |-> 1, delivered |-> 2, opened |-> 3, clicked |-> 4]

\* Mutant of Reported: an email report sets the status, as an SMS report does.
ReportedAnyway(status, kind) == kind

\* The CASEs of the email handlers; a bounce or a complaint counts always, and
\* so does every report of the other media.
Reported(status, kind) ==
    IF of.medium # "email" \/ kind \in {"bounced", "complained"} THEN kind
    ELSE IF status \in DOMAIN Steps /\ Steps[status] < Steps[kind] THEN kind
    ELSE status

\* Rows are found by message id, and the report is 200 whether or not there was
\* one: what comes before Store is lost.
Report(u, kind) ==
    /\ copies[u] > 0
    /\ kind \in Kinds(of.medium)
    /\ u \in msgid
    /\ SetRow(u, Reported(row[u], kind))
    /\ UNCHANGED <<of, campaign, counted, msgid, copies, consents, deliveryVars, faults>>

-----------------------------------------------------------------------------
Recipient(d) ==
    \/ \E u \in Users : Insert(d, u) \/ SkipDuplicate(d, u)
    \/ GuardPasses(d) \/ GuardRefuses(d)
    \/ Send(d) \/ SendRefused(d) \/ RenderFails(d)
    \/ Store(d) \/ Drop(d) \/ MarkException(d)

Deliver(d) == Mark(d) \/ Resolve(d) \/ Empty(d) \/ Finish(d) \/ Recipient(d)

Fail(d) ==
    \/ FinishFails(d) \/ CutOff(d)
    \/ \E u \in Users : InsertFails(d, u)
    \/ GuardFails(d) \/ SendTimesOut(d) \/ StoreFails(d) \/ DropFails(d)
    \/ MarkExceptionFails(d)

Outside ==
    \/ Cancel
    \/ \E u \in Users : Withdraw(u) \/ \E kind \in RowStatuses : Report(u, kind)

Next ==
    \/ \E d \in Deliveries : Accept(d) \/ Refuse(d) \/ Deliver(d) \/ Fail(d)
    \/ Outside

Spec == Init /\ [][Next]_vars

\* A request that is not cut off runs on; nobody has to start one, and neither
\* users nor providers owe anything.
FairSpec == Spec /\ \A d \in Deliveries : WF_vars(Deliver(d))

-----------------------------------------------------------------------------
(* Properties *)

\* However many deliveries race and fail, nobody gets the campaign twice: the
\* row is inserted before the message is sent, and only by one of them
\* (docs/features/campaign-implementation-plan.md: INSERT-BEFORE-SEND).
AtMostOneMessage == \A u \in Users : copies[u] <= 1

\* A campaign is 'sent' only when every recipient has a row, whichever of two
\* deliveries said so first; and when both are through, everybody in it has
\* been sent the message or has a row that says it failed.
NobodyForgotten ==
    campaign = "sent" /\ faults = 0 =>
        \A u \in Audience :
            /\ row[u] # "none"
            /\ (\A d \in Deliveries : ~Underway(d)) => copies[u] = 1 \/ row[u] = "failed"

\* 'failed' is true of an email: none has gone out unless something failed
\* after that.
FailedWasNotSent ==
    \A u \in Users :
        of.medium = "email" /\ row[u] = "failed" => copies[u] = 0 \/ faults > 0

\* Deliveries that have got past the check of the status; who has been sent a message.
Begun == {d \in Deliveries : pc[d] \notin {"start", "refused"}}
Messaged == {u \in Users : copies[u] > 0}
\* A campaign that one delivery alone has sent has as many recipients as
\* messages. (Of two deliveries the last to finish writes its own count.)
LoneCountIsRight ==
    campaign = "sent" /\ faults = 0 /\ (\A c, d \in Begun : c = d) => counted = Cardinality(Messaged)

\* Someone who has withdrawn before their turn comes gets no message, unless the
\* check failed (guardrails_service.py: "Enforced on every marketing send").
Withdrawn(u) == u \notin consents /\ row[u] = "none"
NotSentTo(u) == copies[u] = 0 \/ faults > 0
ConsentEnforced == \A u \in Users : [](Withdrawn(u) => []NotSentTo(u))

\* What the schema's one working consent query makes of that.
NumbersConsentEnforced ==
    \A u \in Users : [](of.medium # "email" /\ Withdrawn(u) => []NotSentTo(u))

\* An overtaken email report does not take back what a later one has told, and
\* neither does the delivery when it comes to store the message's id.
EngagementKept ==
    [][\A u \in Users :
        of.medium = "email" /\ row[u] \in {"delivered", "opened", "clicked"} =>
            \/ row'[u] \in {"bounced", "complained"}
            \/ row'[u] \in DOMAIN Steps /\ Steps[row'[u]] >= Steps[row[u]]
            \/ faults > 0]_vars

\* The rows and the count of a campaign tell what has happened: a report that comes late takes
\* nothing back, and a delivery that works alone counts the messages it has sent.
RowsTell == EngagementKept /\ []LoneCountIsRight

\* No campaign stays in 'sending' but for a failure of ours.
CampaignEnds == campaign = "sending" ~> campaign = "sent" \/ faults > 0

-----------------------------------------------------------------------------
(* The inductive invariant behind the theorems *)

\* A delivery owns the row it has inserted until it leaves it, and while it may
\* still send, nobody has and nobody can report on it.
RowsOwned ==
    /\ \A d \in Deliveries :
        /\ who[d] # Nobody <=> pc[d] \in {"guard", "send", "store", "drop", "except"}
        /\ who[d] # Nobody => row[who[d]] # "none"
        /\ pc[d] \in {"guard", "send"} => copies[who[d]] = 0
        /\ pc[d] = "store" => copies[who[d]] = 1
        /\ pc[d] \in {"guard", "send", "store", "drop"} =>
               row[who[d]] = "sending" /\ who[d] \notin msgid
    /\ \A c, d \in Deliveries : who[c] = who[d] /\ who[c] # Nobody => c = d
    /\ \A u \in Users : copies[u] > 0 => row[u] # "none"
    /\ \A u \in msgid : copies[u] = 1
    /\ AtMostOneMessage

\* A delivery has come to every recipient that it does not have before it.
EveryoneReached ==
    faults = 0 =>
        /\ \A d \in Deliveries : pc[d] = "next" \/ who[d] # Nobody =>
               \A u \in Audience : row[u] # "none" \/ u \in todo[d]
        /\ campaign = "sent" => \A u \in Audience : row[u] # "none"

\* A row that nobody owns any more tells whether its message was sent.
RowsSettled ==
    /\ FailedWasNotSent
    /\ faults = 0 =>
        /\ \A d \in Deliveries : pc[d] \in {"drop", "except"} => copies[who[d]] = 0
        /\ \A u \in Users :
              \/ row[u] \in {"none", "failed"}
              \/ copies[u] = 1
              \/ \E d \in Deliveries : who[d] = u

IInv == TypeOK /\ RowsOwned /\ EveryoneReached /\ RowsSettled

\* How many a delivery has counted that has been alone all the time.
LoneCounted ==
    /\ IsFiniteSet(Messaged)
    /\ \A d \in Deliveries : pc[d] \in {"start", "accepted", "marked"} => sent[d] = 0
    /\ faults = 0 => Begun # {} \/ (Messaged = {} /\ campaign # "sent")
    /\ faults = 0 => \A d \in Deliveries : Begun = {d} =>
        /\ pc[d] = "done" => counted = Cardinality(Messaged)
        /\ pc[d] # "done" =>
              /\ campaign # "sent"
              /\ Cardinality(Messaged) = sent[d] + IF pc[d] = "store" THEN 1 ELSE 0
        /\ pc[d] \in {"accepted", "marked"} => Messaged = {}

\* Only a report writes such a row, and it finds it by its message id.
ReportedHaveId == \A u \in Users : row[u] \notin {"none", "sending", "failed"} => u \in msgid
=============================================================================
