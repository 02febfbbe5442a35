---------------------------- MODULE MCReception -----------------------------
(***************************************************************************)
(* What others send the application and it answers: an instance of the     *)
(* emails and their reports (as in MCEmailDelivery), and one of Stripe's   *)
(* events, of which three deliveries of e1 race with one another and with  *)
(* the only delivery of e2. A behaviour is of one of the two.              *)
(***************************************************************************)
EXTENDS MCEmailDelivery, WebhookInbox

CONSTANTS e1, e2, d4
MCEventOf == [d \in Deliveries |-> IF d = d4 THEN e2 ELSE e1]

VARIABLE receiver   \* of which the behaviour is

receptionVars == <<receiver, vars, inboxVars>>

ReceptionInit == Init /\ InboxInit /\ receiver \in {"email", "stripe"}

ForEmail(A) == receiver = "email" /\ A /\ UNCHANGED <<receiver, inboxVars>>
ForStripe(A) == receiver = "stripe" /\ A /\ UNCHANGED <<receiver, vars>>

ReceptionNext == ForEmail(Next) \/ ForStripe(InboxNext)

\* The fairness of each.
ReceptionFairness ==
    /\ \A e \in Emails : WF_receptionVars(ForEmail(SendEmail(e)))
    /\ \A w \in Workers : WF_receptionVars(ForEmail(RetryOne(w)))
    /\ \A d \in Deliveries :
        WF_receptionVars(ForStripe(Deliver(d))) /\ WF_receptionVars(ForStripe(Process(d)))

ReceptionSpec == ReceptionInit /\ [][ReceptionNext]_receptionVars /\ ReceptionFairness

-----------------------------------------------------------------------------
(* Liveness of each *)

\* The retry queue drains, and nobody's email stays 'queued' for ever.
EmailsSettle == receiver = "email" => QueueDrains

\* Every event of Stripe's is handled, unless a delivery of it is cut off.
EventsAreHandled == receiver = "stripe" => HandledUnlessCutOff
=============================================================================
