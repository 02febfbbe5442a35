----------------------------- MODULE MCAccounts -----------------------------
(***************************************************************************)
(* Instances for TLC of what the application does for its users, and with  *)
(* them: sign-ins, roles, erasure, flows, audiences and messages. A        *)
(* behaviour is one of `component`: of the erasure or of the flows, whose  *)
(* modules this one extends, or of another one, and those take turns in    *)
(* the same variables, the slots, of which each instance says which is     *)
(* which. What a component does not use stays as it is.                    *)
(***************************************************************************)
EXTENDS AccountErasure, AutomationFlow, TLC

CONSTANTS
    r1, r2, r3, r4, r5, c1, c2, c3, w1, w2, s1, s2, g1, g2, p1, p2, t1, t2, m1, m2, None

VARIABLES
    component,
    x1, x2, x3, x4, x5, x6, x7, x8, x9, x10, x11, x12, x13, x14, x15

slots == <<x1, x2, x3, x4, x5, x6, x7, x8, x9, x10, x11, x12, x13, x14, x15>>

PackVars == <<component, vars, flowVars, slots>>

-----------------------------------------------------------------------------
(* Instances: the variables of each component, and the constants of its instance *)

\* Five flows: without connections; a branch with both answers; a split that leads to the wait or
\* past it, with two ways on from there; a path that is longer than three; a cycle.
Leads(from, to, label) == [from |-> from, to |-> to, label |-> label]

Draft(kinds, ways, asked, aimed) == [steps |-> kinds, links |-> ways, asks |-> asked, aim |-> aimed]

Layout == <<"split", "wait", "branch", "send">>

Drawn ==
    { Draft(<<"send", "webhook">>, {}, "none", "trigger"),
      Draft(<<"branch", "wait", "update">>, {Leads(1, 2, "yes"), Leads(1, 3, "no")}, "has_purchased", "other"),
      Draft(Layout, {Leads(1, 2, "weight"), Leads(1, 3, "weight"), Leads(2, 3, "weight"), Leads(2, 4, "none")},
            "segment_member", "other"),
      Draft(Layout, {Leads(1, 2, "weight"), Leads(2, 3, "none"), Leads(3, 4, "no")}, "score_above", "other"),
      Draft(Layout, {Leads(1, 2, "weight"), Leads(2, 3, "none"), Leads(3, 2, "yes")}, "email_opened", "other") }

AddedLater == {Leads(2, 4, "none")}

\* While the component is another one, the flow is one of them, and stays as it is.
AtRest ==
    LET d == CHOOSE d \in Drafts : TRUE
    IN steps = d.steps /\ links = d.links /\ asks = d.asks /\ aim = d.aim

\* A user signed in twice, who may sign in twice more, with a limit of two sessions.
Signing == r1 :> {"login", "refresh"} @@ r2 :> {"login", "reset"} @@ r3 :> {"refresh", "logout"}

Session == INSTANCE UserSessions WITH
    live <- x1, indexed <- x2, made <- x3, tokens <- x4, cookie <- x5, req <- x6, lapses <- x7,
    faults <- x8, upset <- x9, resets <- x10, turnedAway <- x11,
    Requests <- {r1, r2, r3}, Kinds <- Signing, Limit <- 2, Signed <- 2, MaxLapses <- 1,
    MaxFaults <- 1

\* A tab with two calls, a sign-in it starts with and another one.
Calling ==
    r1 :> {"write", "login"} @@ r2 :> {"logout", "read", "beat", "mistype", "load"}

Tab == INSTANCE BrowserTab WITH
    shown <- x1, access <- x2, csrf <- x3, timer <- x4, cookie <- x5, live <- x6, minted <- x7,
    expired <- x8, call <- x9, refresh <- x10, done <- x11, left <- x12, lapses <- x13,
    faults <- x14, crossed <- x15,
    Calls <- {r1, r2}, Kinds <- Calling, Sessions <- {s1, s2}, First <- s1, None <- None,
    MaxLapses <- 1, MaxTimers <- 1, MaxFaults <- 1

\* Two administrators who manage each other, and somebody who registers.
Managing ==
    r1 :> {"role", "register", "login"}
    @@ r2 :> {"status", "provider", "delete"}
    @@ r3 :> {"upgrade", "onboard", "verify", "refresh", "resend"}

Role == INSTANCE AccountRoles WITH
    accounts <- x1, identity <- x2, sessions <- x3, links <- x4, req <- x5, overlaps <- x6,
    respelled <- x7, erased <- x8, faults <- x9,
    Staff <- 2, Requests <- {r1, r2, r3}, Kinds <- Managing, MaxErased <- 1, MaxFaults <- 1

\* A flow of up to three steps that is drawn, activated and archived while somebody is in it.
Building ==
    r1 :> {"addStep", "connect"}
    @@ r2 :> {"activate", "addStep"}
    @@ r3 :> {"activate", "enrol", "reorder", "retrigger", "connect"}
    @@ r4 :> {"disconnect", "deleteStep", "pause", "archive", "enrol"}
    @@ r5 :> {"remove", "archive", "connect", "enrol"}

Between(from, to) == [from |-> from, to |-> to]

Builder == INSTANCE FlowBuilder WITH
    flow <- x1, steps <- x2, links <- x3, enrolled <- x4, at <- x5, moves <- x6, req <- x7,
    edited <- x8, revived <- x9, overlaps <- x10,
    Links <- {Between(1, 2), Between(2, 2)}, MaxSteps <- 3, MaxDepth <- 2,
    Requests <- {r1, r2, r3, r4, r5}, Kinds <- Building, MaxMoves <- 2

\* Two processes with a copy each of which events are on, and a flow that waits for one.
Firing == r1 :> {"batch", "activate"} @@ r2 :> {"toggle"} @@ r3 :> {"event", "trigger", "pause"}

Registry == INSTANCE EventRegistry WITH
    enabled <- x1, flow <- x2, cache <- x3, loadedAt <- x4, events <- x5, clock <- x6, req <- x7,
    changed <- x8, changedBy <- x9, wrong <- x10, wrongHere <- x11, slow <- x12, overlaps <- x13,
    Processes <- {w1, w2}, Requests <- {r1, r2, r3}, Kinds <- Firing, TTL <- 1, MaxClock <- 4,
    MaxSlow <- 1

\* Five users with carts: one has looked at nothing, one has bought, one has no confirmed address,
\* one no consent.
Selecting ==
    r1 :> {"create", "save", "seed"}
    @@ r2 :> {"rewrite", "flag", "seed"}
    @@ r3 :> {"recount", "update", "discard", "delete"}

Known ==
    << {"visitor"}, {"visitor", "event"}, {"visitor", "event", "unverified"},
       {"visitor", "event", "buyer"}, {"visitor", "event", "no_consent"} >>

\* Who has looked and not bought.
Lookers == {"visit", "event", "no_order", "cart"}

Segment == INSTANCE Segments WITH
    metrics <- x1, segments <- x2, cached <- x3, req <- x4, edited <- x5, recounted <- x6,
    overlaps <- x7, faults <- x8,
    Users <- 1..5, Traits <- Known, CartsOf <- <<1, 2, 1, 1, 1>>, Drafts <- {{}, Lookers},
    Preset <- Lookers, Queries <- {"plain"}, Requests <- {r1, r2, r3}, Kinds <- Selecting,
    MaxFaults <- 1

\* Two groups and two presets, in either order.
Sorting == r1 :> {"reorder"} @@ r2 :> {"create", "reorder", "move"} @@ r3 :> {"reorder", "delete", "update"}

Order(rows, within) == [rows |-> rows, within |-> within]

Orders == {Order(<<g1, g2>>, None), Order(<<g2, g1>>, None), Order(<<p1, p2>>, g1), Order(<<p2, p1>>, g1)}

Group == INSTANCE AudienceGroups WITH
    groups <- x1, within <- x2, order <- x3, lock <- x4, req <- x5, asked <- x6, moved <- x7,
    overlaps <- x8,
    Groups <- {g1, g2}, Presets <- {p1, p2}, Requests <- {r1, r2, r3}, Kinds <- Sorting,
    Nobody <- None, Lists <- Orders

\* A campaign to three users is composed and sent while its template is edited.
Composing ==
    r1 :> {"edit", "delete"} @@ r2 :> {"edit", "clone"} @@ r3 :> {"compose", "wizard"} @@ r4 :> {"send"}
    @@ r5 :> {"create", "cancel", "delete"}

Content == INSTANCE CampaignContent WITH
    templates <- x1, campaign <- x2, parts <- x3, got <- x4, req <- x5, saved <- x6, touched <- x7,
    overlaps <- x8,
    Names <- {t1, t2}, MaxRows <- 3, Weights <- {<<1>>, <<1, 1>>, <<2, 1>>, <<1, 2, 2>>},
    Recipients <- 3, Requests <- {r1, r2, r3, r4, r5}, Kinds <- Composing

\* A text message of a campaign or of a flow, and a WhatsApp message of any purpose.
Media == m1 :> "sms" @@ m2 :> "whatsapp"

Purposes == m1 :> {"campaign", "flow"} @@ m2 :> {"campaign", "flow", "test"}

Text == INSTANCE TextMessages WITH
    provider <- x1, enabled <- x2, purpose <- x3, sending <- x4, row <- x5, phone <- x6,
    reports <- x7, heard <- x8, faults <- x9,
    Messages <- {m1, m2}, Channel <- Media, Purposes <- Purposes, MaxFaults <- 1

-----------------------------------------------------------------------------
(* Behaviours: of one component, whose state is in its variables or the first n slots *)

Blank(n) ==
    /\ n < 1 => x1 = 0
    /\ n < 2 => x2 = 0
    /\ n < 3 => x3 = 0
    /\ n < 4 => x4 = 0
    /\ n < 5 => x5 = 0
    /\ n < 6 => x6 = 0
    /\ n < 7 => x7 = 0
    /\ n < 8 => x8 = 0
    /\ n < 9 => x9 = 0
    /\ n < 10 => x10 = 0
    /\ n < 11 => x11 = 0
    /\ n < 12 => x12 = 0
    /\ n < 13 => x13 = 0
    /\ n < 14 => x14 = 0
    /\ n < 15 => x15 = 0

Rest(n) ==
    /\ UNCHANGED <<component, vars, flowVars>>
    /\ n < 9 => UNCHANGED x9
    /\ n < 10 => UNCHANGED x10
    /\ n < 11 => UNCHANGED x11
    /\ n < 12 => UNCHANGED x12
    /\ n < 13 => UNCHANGED x13
    /\ n < 14 => UNCHANGED x14
    /\ n < 15 => UNCHANGED x15

PackInit ==
    /\ Init
    /\ FlowInit
    /\ \/ component = "erasure" /\ Blank(0)
       \/ component = "flows" /\ Blank(0)
       \/ component = "sessions" /\ Session!Init /\ Blank(11)
       \/ component = "tab" /\ Tab!Init /\ Blank(15)
       \/ component = "roles" /\ Role!Init /\ Blank(9)
       \/ component = "builder" /\ Builder!Init /\ Blank(10)
       \/ component = "registry" /\ Registry!Init /\ Blank(13)
       \/ component = "segments" /\ Segment!Init /\ Blank(8)
       \/ component = "groups" /\ Group!Init /\ Blank(8)
       \/ component = "content" /\ Content!Init /\ Blank(8)
       \/ component = "texts" /\ Text!Init /\ Blank(9)
    /\ component # "flows" => AtRest

PackNext ==
    \/ component = "erasure" /\ Next /\ UNCHANGED <<component, flowVars, slots>>
    \/ component = "flows" /\ FlowNext /\ UNCHANGED <<component, vars, slots>>
    \/ component = "sessions" /\ Session!Next /\ Rest(11)
    \/ component = "tab" /\ Tab!Next /\ Rest(15)
    \/ component = "roles" /\ Role!Next /\ Rest(9)
    \/ component = "builder" /\ Builder!Next /\ Rest(10)
    \/ component = "registry" /\ Registry!Next /\ Rest(13)
    \/ component = "segments" /\ Segment!Next /\ Rest(8)
    \/ component = "groups" /\ Group!Next /\ Rest(8)
    \/ component = "content" /\ Content!Next /\ Rest(8)
    \/ component = "texts" /\ Text!Next /\ Rest(9)

\* Of the flow engine only: a request or a worker that is not cut off gets to its next COMMIT.
FlowCarriesOn(t) == component = "flows" /\ CarryOn(t) /\ UNCHANGED <<component, vars, slots>>

Fairness == \A t \in Threads : WF_PackVars(FlowCarriesOn(t))

PackSpec == PackInit /\ [][PackNext]_PackVars /\ Fairness

-----------------------------------------------------------------------------
(* Properties, stated in the components' modules *)

\* Types of the state of each component.
TypesOK ==
    /\ TypeOK
    /\ FlowTypeOK
    /\ component = "sessions" => Session!TypeOK
    /\ component = "tab" => Tab!TypeOK
    /\ component = "roles" => Role!TypeOK
    /\ component = "builder" => Builder!TypeOK
    /\ component = "registry" => Registry!TypeOK
    /\ component = "segments" => Segment!TypeOK
    /\ component = "groups" => Group!TypeOK
    /\ component = "content" => Content!TypeOK
    /\ component = "texts" => Text!TypeOK

\* The state is of its types. session_service keeps a user to the limit, every session within
\* reach of the next reset, and no second tab is turned away by a rotation, but for overlapping and
\* cut-off requests. A tab shows the user it speaks for, and writes once and in the name of who was
\* shown. There is an administrator for good, nobody acts with more than their role, and an
\* address belongs to one account.
UsersAreThemselves ==
    /\ TypesOK
    /\ component = "sessions" =>
           Session!SessionsAreLimited /\ Session!SessionsAreIndexed /\ Session!TabsStaySignedIn
    /\ component = "tab" => Tab!ShowsWhoItSpeaksFor /\ Tab!WritesOnceInTheirName
    /\ component = "roles" => Role!AdminRemains /\ Role!NobodyOutranks /\ Role!AddressIsOne

\* What is active has been validated as it is, an archived flow has nobody in it, an edit takes no
\* enrolment away, steps keep an order; and switching an event on or off reaches every process in
\* time, so that an active flow hears of its trigger. Nobody runs a step of a flow twice where its
\* connections say where each step leads; once ended an enrolment sends no more than was in hand.
FlowsAreFed ==
    /\ component = "flows" => LinkedNeverLoops /\ FallsSilent
    /\ component = "builder" =>
           /\ Builder!ActiveIsValidated /\ Builder!ArchiveEmpties
           /\ Builder!EnrolmentsOutliveEdits /\ Builder!OrdersAreDistinct
    /\ component = "registry" => Registry!SwitchReachesEveryone /\ Registry!ActiveFlowIsFed

\* A segment reaches whom its count says, a recount sets it right, a preset has one segment and
\* an audience users; and audience groups are in the order asked for, with no preset lost.
AudiencesAreAsAsked ==
    /\ component = "segments" =>
           /\ Segment!ReachesWhomItSays /\ Segment!RecountSetsRight
           /\ Segment!AudiencesHaveUsers /\ Segment!PresetIsOne
    /\ component = "groups" => Group!OrderIsAsAsked /\ Group!NoPresetIsLost

\* A campaign says the same to everybody and is split by weight, no edit of its text is lost, and
\* what the records say of a message is what became of it.
MessagesAreAsWritten ==
    /\ component = "content" => Content!OneTextForAll /\ Content!EditsAreKept /\ Content!SplitByWeight
    /\ component = "texts" => Text!RecordedAsTaken /\ Text!DeliveredIsSo /\ Text!MomentsStay
=============================================================================
