---------------------------- MODULE EmailDelivery ----------------------------
(***************************************************************************)
(* One email from send_email to its last delivery report:                  *)
(*                                                                         *)
(*   the sender (email_send_service), which checks suppression and         *)
(*   consent, calls the provider, logs the result in gdpr.email_events     *)
(*   and queues what the provider refused;                                 *)
(*   the retry loop of each worker process (retry_service), which pops an  *)
(*   item off the Redis list, counts the attempt and sends again;          *)
(*   the provider's reports (webhook_processing_service), in any order and *)
(*   repeatedly, which move the status of the row that carries their       *)
(*   message id and suppress the user.                                     *)
(*                                                                         *)
(* A step is one committed transaction, one Redis command or one call to   *)
(* the provider. The n-th message the provider accepts for an email is its *)
(* copy n, whoever knows of it.                                            *)
(***************************************************************************)
EXTENDS Integers, Sequences, FiniteSets

CONSTANTS
    Emails,         \* calls of send_email
    Users,
    UserOf,         \* [Emails -> Users]
    TypeOf,         \* [Emails -> EmailTypes]
    Forced,         \* emails sent with force=True
    Workers,        \* retry loops, one per worker process
    MaxAttempts,    \* settings.email_retry_max_attempts
    EventStatuses,  \* the CHECK constraint on gdpr.email_events.status
    Providers,      \* those settings.email_provider may name
    MaxReports,     \* bound: reports answered
    MaxFaults       \* bound: cut-offs, failed writes and timeouts
CONSTANT NoEmail

EmailTypes == {"marketing", "transactional"}
Kinds == {"sent", "delivered", "bounced", "complained", "unsubscribed"}

ASSUME EmailsAreKnown ==
    UserOf \in [Emails -> Users] /\ TypeOf \in [Emails -> EmailTypes] /\ Forced \subseteq Emails
ASSUME LimitsAreNaturals == MaxAttempts \in Nat /\ MaxReports \in Nat /\ MaxFaults \in Nat
ASSUME ProvidersAreKnown == Providers \subseteq {"brevo", "ses", "sendgrid"}
ASSUME NoEmailIsNone == NoEmail \notin Emails

\* Migration 041: CHECK (status IN (...)).
MigratedEventStatuses ==
    {"queued", "sending", "sent", "delivered", "bounced", "complained", "skipped"}

VARIABLES
    suppressed, \* users with suppressed_at set
    wants,      \* email types each user has not turned off
    pc,         \* where each call of send_email is
    row,        \* email_events.status, "none" before the row exists
    msgid,      \* copy whose message id the row carries, 0 for none
    copies,     \* messages the provider has accepted for each email
    queue,      \* the Redis list email_retry_queue
    tries,      \* the Redis counter email_retry:<id>:count
    holds,      \* item each retry loop has popped
    doing,      \* what it is doing with it
    provider,   \* settings.email_provider, which stays as it is
    seen,       \* keys in gdpr.email_webhook_events
    answered,   \* reports that were read and answered with a 200
    unread,     \* history: users of whom a bounce was answered so and not read
    faults

prefVars == <<suppressed, wants>>
logVars == <<row, msgid>>
workerVars == <<holds, doing>>
reportVars == <<provider, seen, answered, unread>>
vars == <<prefVars, pc, logVars, copies, queue, tries, workerVars, reportVars, faults>>

Report == [mail : Emails, copy : Nat, kind : Kinds]

TypeOK ==
    /\ suppressed \subseteq Users
    /\ wants \in [Users -> SUBSET EmailTypes]
    /\ pc \in [Emails -> {"start", "cleared", "accepted", "refused", "pushing", "done"}]
    /\ row \in [Emails -> MigratedEventStatuses \cup {"none", "failed"}]
    /\ msgid \in [Emails -> Nat]
    /\ copies \in [Emails -> Nat]
    /\ queue \in Seq(Emails)
    /\ tries \in [Emails -> Nat]
    /\ holds \in [Workers -> Emails \cup {NoEmail}]
    /\ doing \in [Workers -> {"idle", "trying", "accepted"}]
    /\ provider \in Providers /\ answered \subseteq Report /\ unread \subseteq Users
    /\ faults \in Nat

\* Without a row in email_preferences, transactional mail is on and marketing
\* mail is off.
Init ==
    /\ suppressed = {}
    /\ wants = [u \in Users |-> {"transactional"}]
    /\ pc = [e \in Emails |-> "start"]
    /\ row = [e \in Emails |-> "none"]
    /\ msgid = [e \in Emails |-> 0]
    /\ copies = [e \in Emails |-> 0]
    /\ queue = <<>>
    /\ tries = [e \in Emails |-> 0]
    /\ holds = [w \in Workers |-> NoEmail]
    /\ doing = [w \in Workers |-> "idle"]
    /\ provider \in Providers
    /\ seen = {} /\ answered = {} /\ unread = {}
    /\ faults = 0

Goto(e, at) == pc' = [pc EXCEPT ![e] = at]
SetRow(e, status) == row' = [row EXCEPT ![e] = status]
Accepts(e) == copies' = [copies EXCEPT ![e] = @ + 1]

Fault ==
    /\ faults < MaxFaults
    /\ faults' = faults + 1

-----------------------------------------------------------------------------
(* email_send_service.send_email *)

\* Mutant of CanSend: consent is enough.
CanSendWithConsent(e) == e \in Forced \/ TypeOf[e] \in wants[UserOf[e]]

\* _check_can_send.
CanSend(e) == e \in Forced \/ (UserOf[e] \notin suppressed /\ TypeOf[e] \in wants[UserOf[e]])

Clear(e) ==
    /\ pc[e] = "start"
    /\ CanSend(e)
    /\ Goto(e, "cleared")
    /\ UNCHANGED <<prefVars, logVars, copies, queue, tries, workerVars, reportVars, faults>>

\* Skipped, and the reason logged.
Skip(e) ==
    /\ pc[e] = "start"
    /\ ~CanSend(e)
    /\ SetRow(e, "skipped")
    /\ Goto(e, "done")
    /\ UNCHANGED <<prefVars, msgid, copies, queue, tries, workerVars, reportVars, faults>>

\* The template does not render: an error result and no row.
RenderFails(e) ==
    /\ pc[e] = "cleared"
    /\ Goto(e, "done")
    /\ UNCHANGED <<prefVars, logVars, copies, queue, tries, workerVars, reportVars, faults>>

SendAccepted(e) ==
    /\ pc[e] = "cleared"
    /\ Accepts(e)
    /\ Goto(e, "accepted")
    /\ UNCHANGED <<prefVars, logVars, queue, tries, workerVars, reportVars, faults>>

SendRefused(e) ==
    /\ pc[e] = "cleared"
    /\ Goto(e, "refused")
    /\ UNCHANGED <<prefVars, logVars, copies, queue, tries, workerVars, reportVars, faults>>

\* The adapter gives up waiting for a provider that has taken the message:
\* SendResult(success=False).
SendTimesOut(e) ==
    /\ pc[e] = "cleared"
    /\ Accepts(e)
    /\ Goto(e, "refused")
    /\ Fault
    /\ UNCHANGED <<prefVars, logVars, queue, tries, workerVars, reportVars>>

\* Mutant of LogSending: a success is queued for retry like a failure.
LogSendingAndRetry(e) ==
    /\ pc[e] = "accepted"
    /\ SetRow(e, "sending")
    /\ msgid' = [msgid EXCEPT ![e] = copies[e]]
    /\ Goto(e, "pushing")
    /\ UNCHANGED <<prefVars, copies, queue, tries, workerVars, reportVars, faults>>

LogSending(e) ==
    /\ pc[e] = "accepted"
    /\ SetRow(e, "sending")
    /\ msgid' = [msgid EXCEPT ![e] = copies[e]]
    /\ Goto(e, "done")
    /\ UNCHANGED <<prefVars, copies, queue, tries, workerVars, reportVars, faults>>

LogQueued(e) ==
    /\ pc[e] = "refused"
    /\ SetRow(e, "queued")
    /\ Goto(e, "pushing")
    /\ UNCHANGED <<prefVars, msgid, copies, queue, tries, workerVars, reportVars, faults>>

\* _push_to_retry_queue.
Push(e) ==
    /\ pc[e] = "pushing"
    /\ queue' = Append(queue, e)
    /\ Goto(e, "done")
    /\ UNCHANGED <<prefVars, logVars, copies, tries, workerVars, reportVars, faults>>

\* The task dies, a database call raises, or Redis is away: logged at most.
CutOffSender(e) ==
    /\ pc[e] \in {"cleared", "accepted", "refused", "pushing"}
    /\ Goto(e, "done")
    /\ Fault
    /\ UNCHANGED <<prefVars, logVars, copies, queue, tries, workerVars, reportVars>>

-----------------------------------------------------------------------------
(* retry_service.retry_failed_emails *)

\* Mutant of Pop: the attempt is not counted.
PopUncounted(w) ==
    /\ doing[w] = "idle"
    /\ queue # <<>>
    /\ holds' = [holds EXCEPT ![w] = Head(queue)]
    /\ doing' = [doing EXCEPT ![w] = "trying"]
    /\ queue' = Tail(queue)
    /\ UNCHANGED <<prefVars, pc, logVars, copies, tries, reportVars, faults>>

\* LPOP the item and INCR its counter. Where an iteration of ten items ends
\* and the next one begins does not matter.
Pop(w) ==
    /\ doing[w] = "idle"
    /\ queue # <<>>
    /\ holds' = [holds EXCEPT ![w] = Head(queue)]
    /\ doing' = [doing EXCEPT ![w] = "trying"]
    /\ queue' = Tail(queue)
    /\ tries' = [tries EXCEPT ![Head(queue)] = @ + 1]
    /\ UNCHANGED <<prefVars, pc, logVars, copies, reportVars, faults>>

LetGo(w) ==
    /\ holds' = [holds EXCEPT ![w] = NoEmail]
    /\ doing' = [doing EXCEPT ![w] = "idle"]

Requeue(w) == queue' = Append(queue, holds[w]) /\ LetGo(w)

MaySend(w) == doing[w] = "trying" /\ tries[holds[w]] <= MaxAttempts

\* Too many attempts: the item is dropped and the row marked "failed", unless
\* the CHECK constraint refuses that; the exception then ends the iteration.
Exhaust(w) ==
    /\ doing[w] = "trying"
    /\ tries[holds[w]] > MaxAttempts
    /\ row' = [row EXCEPT ![holds[w]] = IF @ = "queued" /\ "failed" \in EventStatuses THEN "failed" ELSE @]
    /\ LetGo(w)
    /\ UNCHANGED <<prefVars, pc, msgid, copies, queue, tries, reportVars, faults>>

RetryAccepted(w) ==
    /\ MaySend(w)
    /\ Accepts(holds[w])
    /\ doing' = [doing EXCEPT ![w] = "accepted"]
    /\ UNCHANGED <<prefVars, pc, logVars, queue, tries, holds, reportVars, faults>>

\* Mutant of RetryRefused: the item is not queued again.
RetryRefusedForGood(w) ==
    /\ MaySend(w)
    /\ LetGo(w)
    /\ UNCHANGED <<prefVars, pc, logVars, copies, queue, tries, reportVars, faults>>

\* Refused again, or rendering raises: back to the end of the queue.
RetryRefused(w) ==
    /\ MaySend(w)
    /\ Requeue(w)
    /\ UNCHANGED <<prefVars, pc, logVars, copies, tries, reportVars, faults>>

\* The same while a retry waits, whichever provider it is.
RetryTimesOut(w) ==
    /\ MaySend(w)
    /\ Accepts(holds[w])
    /\ Requeue(w)
    /\ Fault
    /\ UNCHANGED <<prefVars, pc, logVars, tries, reportVars>>

Marked(w) ==
    /\ row' = [row EXCEPT ![holds[w]] = "sent"]
    /\ msgid' = [msgid EXCEPT ![holds[w]] = copies[holds[w]]]

\* UPDATE email_events: status 'sent', whatever it was, and the new message id.
MarkSent(w) ==
    /\ doing[w] = "accepted"
    /\ Marked(w)
    /\ LetGo(w)
    /\ UNCHANGED <<prefVars, pc, copies, queue, tries, reportVars, faults>>

\* The UPDATE or its COMMIT raises: the except clause queues the item again.
\* The COMMIT may have reached the database all the same.
MarkFails(w) ==
    /\ doing[w] = "accepted"
    /\ Marked(w) \/ UNCHANGED logVars
    /\ Requeue(w)
    /\ Fault
    /\ UNCHANGED <<prefVars, pc, copies, tries, reportVars>>

\* The worker dies, or cannot reach Redis: the popped item is gone.
CutOffWorker(w) ==
    /\ doing[w] # "idle"
    /\ LetGo(w)
    /\ Fault
    /\ UNCHANGED <<prefVars, pc, logVars, copies, queue, tries, reportVars>>

-----------------------------------------------------------------------------
(* webhook_processing_service.process_webhook *)

\* The idempotency key: event_id of the adapter, which is the message id but for SendGrid.
Key(r) == IF provider = "sendgrid" THEN r ELSE [mail |-> r.mail, copy |-> r.copy]

\* What process_webhook has a handler for, of what the adapters make of the reports: Brevo's names
\* pass as they are; those of SES and SendGrid become "complained" for a complaint (and for
\* SendGrid's unsubscribe), which no list of the handlers' has in it.
Understood == IF provider = "brevo" THEN Kinds ELSE {"delivered", "bounced"}

\* Status of the row after a report of its message.
After(status, kind) ==
    CASE kind = "sent" -> IF status = "sending" THEN "sent" ELSE status
      [] kind = "unsubscribed" -> status
      [] OTHER -> kind

\* Mutant of Suppresses: a complaint only moves the status.
SuppressesBounced(kind) == kind = "bounced"

\* _handle_bounce and _handle_complaint suppress the user.
Suppresses(kind) == kind \in {"bounced", "complained"}

\* What a report changes beside its idempotency row: nothing if it is not understood, and no row
\* if its message id is not in the log yet.
Effect(r) ==
    IF r.kind \in Understood
    THEN /\ row' = [row EXCEPT ![r.mail] = IF msgid[r.mail] = r.copy THEN After(@, r.kind) ELSE @]
         /\ suppressed' = IF Suppresses(r.kind) THEN suppressed \cup {UserOf[r.mail]} ELSE suppressed
         /\ wants' = IF r.kind = "unsubscribed"
                     THEN [wants EXCEPT ![UserOf[r.mail]] = @ \ {"marketing"}] ELSE wants
    ELSE UNCHANGED <<row, prefVars>>

\* Idempotency row, handler and suppression in one transaction.
HandleReport(r) ==
    /\ Key(r) \notin seen
    /\ seen' = seen \cup {Key(r)}
    /\ answered' = answered \cup {r}
    /\ Effect(r)
    /\ UNCHANGED <<pc, msgid, copies, queue, tries, workerVars, faults>>

DuplicateReport(r) ==
    /\ Key(r) \in seen
    /\ answered' = answered \cup {r}
    /\ UNCHANGED <<prefVars, pc, logVars, copies, queue, tries, workerVars, seen, faults>>

\* The transaction fails; the route logs it and answers 200 all the same.
LoseReport(r) ==
    /\ Key(r) \notin seen
    /\ answered' = answered \cup {r}
    /\ Fault
    /\ UNCHANGED <<prefVars, pc, logVars, copies, queue, tries, workerVars, seen>>

\* Users the provider may have a bounce to report of.
Reachable == {UserOf[e] : e \in {m \in Emails : copies[m] > 0}}

\* SendGrid posts several reports at once, with bounces of these users behind r: the adapter reads
\* the first of them, and the answer is for all.
ProcessWebhook(r, bounced) ==
    /\ Cardinality(answered \cup {r}) + Cardinality(unread \cup bounced) <= MaxReports
    /\ bounced # {} => provider = "sendgrid" /\ bounced \subseteq Reachable
    /\ HandleReport(r) \/ DuplicateReport(r) \/ LoseReport(r)
    /\ unread' = unread \cup bounced /\ UNCHANGED provider

-----------------------------------------------------------------------------
(* email_pref_service *)

\* update_preferences overwrites both switches.
UpdatePreferences(u) ==
    /\ \E types \in SUBSET EmailTypes : wants' = [wants EXCEPT ![u] = types]
    /\ UNCHANGED <<suppressed, pc, logVars, copies, queue, tries, workerVars, reportVars, faults>>

\* unsubscribe_by_token turns marketing off and suppresses the user.
UnsubscribeByToken(u) ==
    /\ suppressed' = suppressed \cup {u}
    /\ wants' = [wants EXCEPT ![u] = @ \ {"marketing"}]
    /\ UNCHANGED <<pc, logVars, copies, queue, tries, workerVars, reportVars, faults>>

-----------------------------------------------------------------------------

SendEmail(e) ==
    \/ Clear(e) \/ Skip(e) \/ RenderFails(e) \/ SendAccepted(e) \/ SendRefused(e)
    \/ LogSending(e) \/ LogQueued(e) \/ Push(e)

RetryOne(w) == Pop(w) \/ Exhaust(w) \/ RetryAccepted(w) \/ RetryRefused(w) \/ MarkSent(w)

RetryFault(w) == RetryTimesOut(w) \/ MarkFails(w) \/ CutOffWorker(w)

\* The provider may report anything about a message it has accepted. What no handler is for
\* changes no more than a complaint no handler is for.
Reportable ==
    UNION {[mail : {e}, copy : 1..copies[e], kind : Understood \cup {"complained"}] : e \in Emails}

Next ==
    \/ \E e \in Emails : SendEmail(e) \/ SendTimesOut(e) \/ CutOffSender(e)
    \/ \E w \in Workers : RetryOne(w) \/ RetryFault(w)
    \/ \E r \in Reportable, bounced \in SUBSET Users : ProcessWebhook(r, bounced)
    \/ \E u \in Users : UpdatePreferences(u) \/ UnsubscribeByToken(u)

Spec == Init /\ [][Next]_vars

\* A call of send_email runs on unless it is cut off; the retry loops run for
\* ever. Neither the provider nor the user owes anything.
Fairness ==
    /\ \A e \in Emails : WF_vars(SendEmail(e))
    /\ \A w \in Workers : WF_vars(RetryOne(w))

FairSpec == Spec /\ Fairness

-----------------------------------------------------------------------------
(* Properties *)

\* However often the retry loops pass an email around, the provider gets it a
\* second time only because something failed: a timeout or a lost UPDATE each
\* cost one copy at most (retry_service, one item per email_events row).
DuplicatesNeedAFault == \A e \in Emails : copies[e] <= 1 + faults

\* A bounce or complaint that was read suppresses its user, unless the provider's adapter gives it
\* a name the handlers do not have, another report of the message came under the same key, or
\* processing it failed.
BouncesSuppress ==
    \A r \in answered :
        r.kind \in {"bounced", "complained"} \cap Understood =>
            \/ UserOf[r.mail] \in suppressed
            \/ \E s \in answered \ {r} : Key(s) = Key(r)
            \/ faults > 0

\* What the docs promise: a bounce the provider was told we have suppresses its user
\* (docs/ARCHITECTURE.md:91),
EveryBounceSuppresses ==
    faults = 0 => unread \cup {UserOf[r.mail] : r \in {a \in answered : a.kind = "bounced"}} \subseteq suppressed

\* and so does a complaint (docs/ARCHITECTURE.md:92).
EveryComplaintSuppresses ==
    faults = 0 => {UserOf[r.mail] : r \in {a \in answered : a.kind = "complained"}} \subseteq suppressed

\* Once a report has settled what became of a message, only another report of
\* it changes that; a retry does not start it over.
FinalStatuses == {"delivered", "bounced", "complained"}
FinalStatusStays ==
    [][\A e \in Emails :
        row[e] \in FinalStatuses => row'[e] \in FinalStatuses \/ faults > 0]_vars

\* An email asked for after its user was suppressed is never sent, not by any
\* retry either (docs/phases/phase-7.md: "Email preference suppression blocks
\* all email delivery"). Emails on their way are another matter: no retry looks
\* at the suppression list again.
SuppressedStaysSilent ==
    \A e \in Emails \ Forced :
        [](pc[e] = "start" /\ UserOf[e] \in suppressed => [](copies[e] = 0))

\* What is settled about an email stays settled: the status a report has given it, against other
\* reports and retries, and that somebody suppressed before it was asked for does not get it.
SettledStaysSettled == FinalStatusStays /\ SuppressedStaysSilent

\* Items do not circulate for ever: the attempt counter empties the queue. And
\* no email stays 'queued' but for a failure of ours or when its attempts are
\* used up.
QueueDrains ==
    <>[](/\ queue = <<>> /\ \A w \in Workers : doing[w] = "idle"
         /\ \A e \in Emails :
               pc[e] = "done" /\ (row[e] = "queued" => tries[e] > MaxAttempts \/ faults > 0))

-----------------------------------------------------------------------------
(* The inductive invariant behind the theorems *)

Contains(q, e) == \E i \in 1..Len(q) : q[i] = e
NoRepeats(q) == \A i, j \in 1..Len(q) : q[i] = q[j] => i = j

\* There is at most one retry item for an email, in the queue or in the hands
\* of one worker, and none before its sender is done.
OneItem ==
    /\ NoRepeats(queue)
    /\ \A w \in Workers :
        /\ doing[w] = "idle" <=> holds[w] = NoEmail
        /\ holds[w] # NoEmail => ~Contains(queue, holds[w]) /\ pc[holds[w]] = "done"
    /\ \A w, v \in Workers : holds[w] = holds[v] /\ holds[w] # NoEmail => w = v
    /\ \A e \in Emails : Contains(queue, e) => pc[e] = "done"

\* What may still be sent has been accepted only as often as something failed.
CopiesCounted ==
    /\ DuplicatesNeedAFault
    /\ \A e \in Emails :
        /\ pc[e] \in {"start", "cleared"} => copies[e] = 0
        /\ pc[e] \in {"refused", "pushing"} \/ Contains(queue, e) => copies[e] <= faults
    /\ \A w \in Workers : doing[w] = "trying" => copies[holds[w]] <= faults

\* A key in gdpr.email_webhook_events is that of an answered report, to which a report that comes
\* second under it lost.
SeenWasAnswered == (\A k \in seen : \E r \in answered : Key(r) = k) /\ BouncesSuppress

IInv == TypeOK /\ OneItem /\ CopiesCounted /\ SeenWasAnswered

\* No report finds the row of an email that is still on its way, so that none has settled it.
Unreported ==
    \A e \in Emails :
        /\ pc[e] # "done" => msgid[e] = 0
        /\ faults = 0 /\ (Contains(queue, e) \/ \E w \in Workers : holds[w] = e) => msgid[e] = 0
        /\ msgid[e] = 0 => row[e] \notin FinalStatuses
=============================================================================
