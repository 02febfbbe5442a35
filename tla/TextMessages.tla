---------------------------- MODULE TextMessages ----------------------------
(***************************************************************************)
(* SMS and WhatsApp (the notifications module): a message is handed to the *)
(* configured provider first and recorded afterwards, in message_log when  *)
(* a step of a flow or an administrator's test sends it, in its row of     *)
(* campaign_recipients when a campaign does. What becomes of it the        *)
(* provider reports to the webhooks: a report may come before the message  *)
(* is recorded, late, out of order, again, or not at all.                  *)
(***************************************************************************)
EXTENDS Naturals, FiniteSets

CONSTANTS
    Messages, Channel,  \* [Messages -> {"sms", "whatsapp"}]
    Purposes,           \* [Messages -> SUBSET {"flow", "test", "campaign"}]: who may be sending it
    MaxFaults           \* bound: stops, failed statements, answers lost

VARIABLES
    provider,           \* SMS_PROVIDER and WHATSAPP_PROVIDER
    enabled,            \* ENABLE_SMS and ENABLE_WHATSAPP
    purpose,            \* who sends each message
    sending,            \* where the sender of each message is
    row,                \* the message's row of message_log or campaign_recipients
    phone,              \* external: how far the message has got
    reports,            \* external: <<message, event>> the provider has called back about
    heard,              \* history: what the webhook has written, as the adapter calls it
    faults              \* history

vars == <<provider, enabled, purpose, sending, row, phone, reports, heard, faults>>

Channels == {"sms", "whatsapp"}
NoRow == [status |-> "none", known |-> FALSE, delivered |-> FALSE, opened |-> FALSE]
At(pc) == [pc |-> pc, success |-> FALSE, known |-> FALSE]
Ended == {At("idle"), At("done"), At("skipped"), At("raised"), At("gone")}

Fault == faults < MaxFaults /\ faults' = faults + 1
Goto(m, s) == sending' = [sending EXCEPT ![m] = s]

\* A campaign's recipients are written before anything is sent (CampaignDelivery).
Init ==
    /\ provider \in [Channels -> {"console", "brevo", "twilio"}]
    /\ enabled \in SUBSET Channels
    /\ purpose \in {p \in [Messages -> UNION {Purposes[m] : m \in Messages}] :
                      \A m \in Messages : p[m] \in Purposes[m]}
    /\ sending = [m \in Messages |-> At("idle")]
    /\ row = [m \in Messages |->
                IF purpose[m] = "campaign" THEN [NoRow EXCEPT !.status = "sending"] ELSE NoRow]
    /\ phone = [m \in Messages |-> "none"]
    /\ reports = {} /\ heard = [m \in Messages |-> {}] /\ faults = 0

-----------------------------------------------------------------------------
(* Sending *)

\* A campaign does not look at the switch of its medium.
Allowed(m) == purpose[m] = "campaign" \/ Channel[m] \in enabled

\* A flow's WhatsApp step calls the wrapper with arguments it does not have.
Misfits(m) == purpose[m] = "flow" /\ Channel[m] = "whatsapp"

Send(m) ==
    /\ sending[m] = At("idle")
    /\ Goto(m, At(IF Misfits(m) THEN "raised" ELSE IF Allowed(m) THEN "asking" ELSE "skipped"))
    /\ UNCHANGED <<provider, enabled, purpose, row, phone, reports, heard, faults>>

Answered(m, success, known) ==
    Goto(m, [pc |-> "answered", success |-> success, known |-> known])

\* A provider may answer 201 and leave the id out of the body.
Accept(m, known) ==
    /\ sending[m] = At("asking")
    /\ provider[Channel[m]] = "console" => known
    /\ phone' = [phone EXCEPT ![m] = "taken"]
    /\ Answered(m, TRUE, known)
    /\ UNCHANGED <<provider, enabled, purpose, row, reports, heard, faults>>

Refuse(m) ==
    /\ sending[m] = At("asking") /\ provider[Channel[m]] # "console"
    /\ Answered(m, FALSE, FALSE)
    /\ UNCHANGED <<provider, enabled, purpose, row, phone, reports, heard, faults>>

\* No answer within 30 seconds: for the adapter that is a failure.
AnswerLost(m) ==
    /\ sending[m] = At("asking") /\ provider[Channel[m]] # "console" /\ Fault
    /\ phone' = [phone EXCEPT ![m] = "taken"]
    /\ Answered(m, FALSE, FALSE)
    /\ UNCHANGED <<provider, enabled, purpose, row, reports, heard>>

\* Mutant of Recorded: the provider's word is taken for the handset's.
RecordedDelivered(m, success) ==
    IF ~success THEN "failed" ELSE "delivered"

\* Mutant of Recorded: whatever the provider answered.
RecordedSent(m, success) ==
    IF purpose[m] = "campaign" THEN row[m].status ELSE "sent"

\* A recipient stays 'sending' until the provider confirms.
Recorded(m, success) ==
    IF ~success THEN "failed"
    ELSE IF purpose[m] = "campaign" THEN row[m].status ELSE "sent"

Record(m) ==
    /\ sending[m].pc = "answered"
    /\ row' = [row EXCEPT ![m].status = Recorded(m, sending[m].success),
                          ![m].known = sending[m].known]
    /\ Goto(m, At("done"))
    /\ UNCHANGED <<provider, enabled, purpose, phone, reports, heard, faults>>

\* The statement fails, or the process stops with the task in flight: sent, or not, and not recorded.
Forget(m) ==
    /\ sending[m].pc \in {"asking", "answered"} /\ Fault
    /\ Goto(m, At("gone"))
    /\ UNCHANGED <<provider, enabled, purpose, row, phone, reports, heard>>

-----------------------------------------------------------------------------
(* The provider, external: what it does with a message it has taken, and   *)
(* which events it reports then                                            *)

Says(m, event) == reports' = reports \cup {<<m, event>>}
Reporting(m, p) == provider[Channel[m]] = p /\ phone[m] # "none"

Reach(m) ==
    /\ ~Reporting(m, "console") /\ phone[m] = "taken"
    /\ phone' = [phone EXCEPT ![m] = "delivered"]
    /\ Says(m, "delivered")
    /\ UNCHANGED <<provider, enabled, purpose, sending, row, heard, faults>>

BeRead(m) ==
    /\ ~Reporting(m, "console") /\ phone[m] = "delivered" /\ Channel[m] = "whatsapp"
    /\ phone' = [phone EXCEPT ![m] = "read"]
    /\ Says(m, "read")
    /\ UNCHANGED <<provider, enabled, purpose, sending, row, heard, faults>>

Lose(m) ==
    /\ ~Reporting(m, "console") /\ phone[m] = "taken"
    /\ phone' = [phone EXCEPT ![m] = "lost"]
    /\ \E event \in IF Reporting(m, "twilio") THEN {"failed", "undelivered"}
                    ELSE IF Channel[m] = "sms" THEN {"hardBounce", "blocked"} ELSE {"failed"} :
            Says(m, event)
    /\ UNCHANGED <<provider, enabled, purpose, sending, row, heard, faults>>

Mention(m) ==
    /\ phone[m] = "taken"
    /\ \/ Reporting(m, "twilio") /\ \E event \in {"queued", "sent"} : Says(m, event)
       \/ Reporting(m, "brevo") /\ Channel[m] = "sms" /\ Says(m, "softBounce")
    /\ UNCHANGED <<provider, enabled, purpose, sending, row, phone, heard, faults>>

-----------------------------------------------------------------------------
(* The webhooks *)

\* An event that is not in the adapter's map keeps its name; WhatsApp at Brevo has none.
BrevosName(event) ==
    IF event \in {"softBounce", "hardBounce", "blocked"} THEN "failed" ELSE event

TwiliosName(event) ==
    CASE event = "sent" -> "delivered" [] event = "undelivered" -> "failed" [] OTHER -> event

Normalised(m, event) ==
    IF provider[Channel[m]] = "twilio" THEN TwiliosName(event) ELSE BrevosName(event)

\* Mutant of Stamped: the moment belongs to the status, and goes with it.
StampedAnew(r, event) ==
    [r EXCEPT !.delivered = event = "delivered", !.opened = event = "read"]

\* delivered_at and opened_at keep the first report; nothing takes them back.
Stamped(r, event) ==
    [r EXCEPT !.delivered = @ \/ event = "delivered", !.opened = @ \/ event = "read"]

\* update_sms_recipient_status, update_whatsapp_recipient_status.
Recipient(r, event) ==
    [Stamped(r, event) EXCEPT !.status = IF event = "read" THEN "opened" ELSE event]

\* A report the route has no status for leaves the row: of WhatsApp, a failure.
LoggedText(r, event) ==
    IF event \in {"delivered", "failed"} THEN [r EXCEPT !.status = event] ELSE r

LoggedWhatsApp(r, event) ==
    IF event \in {"delivered", "read"} THEN [r EXCEPT !.status = "delivered"] ELSE r

Logged(m, r, event) ==
    IF Channel[m] = "sms" THEN LoggedText(r, event) ELSE LoggedWhatsApp(r, event)

\* The CHECK on campaign_recipients.status: the statement fails, the answer is 200 all the same.
Storable(m, event) == purpose[m] = "campaign" => event # "queued"

\* The newest report wins, whatever order they were made in. One about a row
\* without its id yet changes nothing and is not made again.
Webhook(m, event) ==
    /\ <<m, event>> \in reports
    /\ LET e == Normalised(m, event) IN
       /\ row[m].known /\ Storable(m, e)
       /\ row' = [row EXCEPT ![m] = IF purpose[m] = "campaign" THEN Recipient(@, e) ELSE Logged(m, @, e)]
       /\ heard' = [heard EXCEPT ![m] = @ \cup {e}]
    /\ UNCHANGED <<provider, enabled, purpose, sending, phone, reports, faults>>

-----------------------------------------------------------------------------

Events == {"queued", "sent", "delivered", "read", "failed", "undelivered",
           "softBounce", "hardBounce", "blocked"}

Finished == (\A m \in Messages : sending[m] \in Ended \ {At("idle")}) /\ UNCHANGED vars

Next ==
    \/ \E m \in Messages :
        \/ Send(m) \/ Refuse(m) \/ AnswerLost(m) \/ Record(m) \/ Forget(m)
        \/ \E known \in BOOLEAN : Accept(m, known)
        \/ Reach(m) \/ BeRead(m) \/ Lose(m) \/ Mention(m)
        \/ \E event \in Events : Webhook(m, event)
    \/ Finished

Spec == Init /\ [][Next]_vars

-----------------------------------------------------------------------------

TypeOK ==
    /\ provider \in [Channels -> {"console", "brevo", "twilio"}] /\ enabled \subseteq Channels
    /\ \A m \in Messages : purpose[m] \in Purposes[m]
    /\ sending \in [Messages -> Ended \cup {At("asking")}
                                \cup [pc : {"answered"}, success : BOOLEAN, known : BOOLEAN]]
    /\ row \in [Messages -> [status : {"none", "sending", "sent", "delivered", "opened", "failed"},
                             known : BOOLEAN, delivered : BOOLEAN, opened : BOOLEAN]]
    /\ phone \in [Messages -> {"none", "taken", "delivered", "read", "lost"}]
    /\ reports \subseteq Messages \X Events
    /\ heard \in [Messages -> SUBSET Events]

\* Once a sender is through, the record says whether the provider has taken
\* the message: nothing it took is missing or a failure nobody reported, and
\* nothing it refused is on its way. An answer that is lost is what breaks it.
RecordedAsTaken ==
    faults = 0 => \A m \in Messages : sending[m] = At("done") =>
        /\ row[m].status # "none"
        /\ phone[m] = "none" <=> (row[m].status = "failed" /\ heard[m] = {})

\* A row says "delivered" or "opened" of a message that has reached its
\* handset, whatever order the reports came in; with Twilio of one it has at
\* least sent on, for the adapter takes "sent" for "delivered".
DeliveredIsSo ==
    \A m \in Messages :
        /\ row[m].status \in {"delivered", "opened"} =>
             phone[m] \in {"delivered", "read"} \/ <<m, "sent">> \in reports
        /\ row[m].opened => phone[m] = "read"

\* What a recipient's moments say does not depend on the order or the number of
\* the reports: a message once reported read counts as opened, even when a
\* late "delivered" has taken its status back.
MomentsStay ==
    \A m \in Messages : purpose[m] = "campaign" =>
        /\ row[m].delivered <=> "delivered" \in heard[m]
        /\ row[m].opened <=> "read" \in heard[m]
=============================================================================
