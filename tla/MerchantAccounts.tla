-------------------------- MODULE MerchantAccounts --------------------------
(***************************************************************************)
(* A merchant's account at Stripe Connect: onboarding creates one and      *)
(* stores its id, Stripe reports what becomes of it, and the merchant is   *)
(* shown what the row says. The reports come in any order, the first of    *)
(* them perhaps before there is a row to update; and nothing but the       *)
(* SELECT of onboard_merchant keeps a second account from being created.   *)
(***************************************************************************)
EXTENDS Naturals, FiniteSets, SequencesExt

CONSTANTS
    Requests,
    Kinds,        \* [Requests -> SUBSET {"onboard", "status", "dashboard"}]
    MaxEvents,    \* reports of Stripe's
    MaxFaults     \* requests cut off, calls of Stripe that fail, reports lost

VARIABLES
    connected,    \* the accounts at Stripe: what they may do
    rows,         \* ecommerce.merchant_accounts: the account at Stripe and its status
    events,       \* reports of Stripe's: the account, what it may do, and whether it was handled
    req,
    told,         \* what the merchant has last been told of the status, and of which account
    overlaps,     \* history: how often a request has begun while another was in progress
    muddled,      \* history: accounts with a report lost, handled before an older one, or without a row
    faults

vars == <<connected, rows, events, req, told, overlaps, muddled, faults>>

-----------------------------------------------------------------------------
(* State *)

\* charges_enabled and payouts_enabled alike, and requirements.disabled_reason.
Abilities == {"none", "full", "barred"}
Statuses == {"onboarding", "active", "restricted", "disabled"}

Idle == [pc |-> "idle", of |-> 0]
Ended == [pc |-> "done", of |-> 0]
At(r, pc) == req[r].pc = pc
InProgress(r) == req[r] \notin {Idle, Ended}
Goto(r, pc, a) == req' = [req EXCEPT ![r] = [pc |-> pc, of |-> a]]
Return(r) == req' = [req EXCEPT ![r] = Ended]

Begin(r, kind) ==
    /\ req[r] = Idle /\ kind \in Kinds[r]
    /\ overlaps' = overlaps + IF \E x \in Requests : InProgress(x) THEN 1 ELSE 0

Init ==
    /\ connected = <<>> /\ rows = <<>> /\ events = <<>> /\ muddled = {}
    /\ req = [r \in Requests |-> Idle]
    /\ told = [of |-> 0, status |-> "onboarding"]
    /\ overlaps = 0 /\ faults = 0

-----------------------------------------------------------------------------
(* Onboarding *)

\* Mutant of Existing: nobody looks.
ExistingNone == {}

\* LIMIT 1, of however many rows there are.
Existing == DOMAIN rows

\* A merchant who has an account gets another link to its form.
Onboard(r) ==
    /\ Begin(r, "onboard")
    /\ IF Existing = {} THEN Goto(r, "create", 0)
       ELSE \E i \in Existing : Goto(r, "link", rows[i].of)
    /\ UNCHANGED <<connected, rows, events, told, muddled, faults>>

CreateLink(r) ==
    /\ At(r, "link")
    /\ Return(r)
    /\ UNCHANGED <<connected, rows, events, told, overlaps, muddled, faults>>

\* Account.create; the link to its form is a second call.
CreateMerchant(r) ==
    /\ At(r, "create")
    /\ connected' = Append(connected, "none")
    /\ Goto(r, "store", Len(connected) + 1)
    /\ UNCHANGED <<rows, events, told, overlaps, muddled, faults>>

\* The row is INSERTed after both.
StoreMerchant(r) ==
    /\ At(r, "store")
    /\ rows' = Append(rows, [of |-> req[r].of, status |-> "onboarding"])
    /\ Return(r)
    /\ UNCHANGED <<connected, events, told, overlaps, muddled, faults>>

\* Of the process, or of a call of Stripe.
CutOff(r) ==
    /\ InProgress(r) /\ faults < MaxFaults
    /\ Return(r) /\ faults' = faults + 1
    /\ UNCHANGED <<connected, rows, events, told, overlaps, muddled>>

-----------------------------------------------------------------------------
(* Stripe and its reports *)

Changes(a) ==
    /\ Len(events) < MaxEvents
    /\ \E ability \in Abilities \ {connected[a]} :
          /\ connected' = [connected EXCEPT ![a] = ability]
          /\ events' = Append(events, [of |-> a, ability |-> ability, handled |-> FALSE])
    /\ UNCHANGED <<rows, req, told, overlaps, muddled, faults>>

\* Mutant of StatusOf: an account that has yet to be approved is still in onboarding.
StatusOfOnboarding(ability) == IF ability = "full" THEN "active" ELSE "onboarding"

StatusOf(ability) == CASE ability = "full" -> "active" [] ability = "none" -> "restricted" [] OTHER -> "disabled"

Older(e) == {d \in 1..(e - 1) : events[d].of = events[e].of /\ ~events[d].handled}

\* _handle_account_updated, whose UPDATE finds the row or does not.
AccountUpdated(e) ==
    LET a == events[e].of
        row == {i \in DOMAIN rows : rows[i].of = a}
    IN /\ ~events[e].handled
       /\ events' = [events EXCEPT ![e].handled = TRUE]
       /\ rows' = [i \in DOMAIN rows |->
                     IF i \in row THEN [rows[i] EXCEPT !.status = StatusOf(events[e].ability)] ELSE rows[i]]
       /\ muddled' = IF row = {} \/ Older(e) # {} THEN muddled \cup {a} ELSE muddled
       /\ UNCHANGED <<connected, req, told, overlaps, faults>>

LoseEvent(e) ==
    /\ ~events[e].handled /\ faults < MaxFaults
    /\ events' = [events EXCEPT ![e].handled = TRUE]
    /\ muddled' = muddled \cup {events[e].of} /\ faults' = faults + 1
    /\ UNCHANGED <<connected, rows, req, told, overlaps>>

-----------------------------------------------------------------------------
(* The merchant's page *)

\* LIMIT 1, of however many rows there are.
GetStatus(r) ==
    /\ Begin(r, "status")
    /\ \E i \in DOMAIN rows : told' = [of |-> rows[i].of, status |-> rows[i].status]
    /\ Return(r)
    /\ UNCHANGED <<connected, rows, events, muddled, faults>>

\* Mutant of Shown: of any row.
ShownAny == DOMAIN rows

\* A way in only where Stripe has let the merchant in.
Shown == {i \in DOMAIN rows : rows[i].status \in {"active", "restricted"}}

GetDashboard(r) ==
    /\ Begin(r, "dashboard")
    /\ \E i \in Shown : told' = [of |-> rows[i].of, status |-> "dashboard"]
    /\ Return(r)
    /\ UNCHANGED <<connected, rows, events, muddled, faults>>

Next ==
    \/ \E r \in Requests :
          \/ Onboard(r) \/ CreateLink(r) \/ CreateMerchant(r) \/ StoreMerchant(r)
          \/ GetStatus(r) \/ GetDashboard(r) \/ CutOff(r)
    \/ \E a \in DOMAIN connected : Changes(a)
    \/ \E e \in DOMAIN events : AccountUpdated(e) \/ LoseEvent(e)

Spec == Init /\ [][Next]_vars

-----------------------------------------------------------------------------
(* Properties *)

TypeOK ==
    /\ connected \in Seq(Abilities)
    /\ rows \in Seq([of : DOMAIN connected, status : Statuses])
    /\ events \in Seq([of : DOMAIN connected, ability : Abilities, handled : BOOLEAN])
    /\ told \in [of : {0} \cup DOMAIN connected, status : Statuses \cup {"dashboard"}]

AllHandled(a) == \A e \in DOMAIN events : events[e].of = a => events[e].handled
Reported(a) == \E e \in DOMAIN events : events[e].of = a

\* A merchant has one account at Stripe, more only from onboardings that overlap or are cut off;
\* and one row of each.
MerchantIsOne ==
    /\ Len(connected) <= 1 + overlaps + faults
    /\ \A i, j \in DOMAIN rows : rows[i].of = rows[j].of => i = j

\* Once Stripe's reports of an account have been handled, in their order and with a row to go to,
\* the row says what the account may do.
StatusFollows ==
    \A i \in DOMAIN rows :
        LET a == rows[i].of
        IN AllHandled(a) /\ Reported(a) /\ a \notin muddled =>
              /\ rows[i].status = "active" <=> connected[a] = "full"
              /\ rows[i].status = "disabled" <=> connected[a] = "barred"

\* Whoever is sent to a dashboard has an account there that Stripe has reported on.
DashboardIsEarned == told.status = "dashboard" => Reported(told.of)
=============================================================================
