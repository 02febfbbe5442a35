---------------------------- MODULE WebhookInbox ----------------------------
(***************************************************************************)
(* Deliveries of Stripe events to verify_and_process_webhook, statement by *)
(* statement. Several deliveries of one event may be under way in several  *)
(* workers: Stripe repeats a delivery that is not acknowledged in time.    *)
(*                                                                         *)
(*   lookup    SELECT id FROM webhook_events WHERE event_id = ...          *)
(*   insert    INSERT INTO webhook_events; event_id is UNIQUE, so the      *)
(*             statement waits for a transaction that is inserting the     *)
(*             same id and fails once that one has committed               *)
(*   commit    before the handler runs                                     *)
(*   dispatch  the handler; its exceptions are logged and swallowed        *)
(***************************************************************************)
EXTENDS Naturals, FiniteSets, TLAPS

CONSTANTS
    Events,
    Deliveries,     \* HTTP requests Stripe may make: bound on its retries
    EventOf,        \* [Deliveries -> Events]
    MaxCrashes      \* bound: requests cut off
CONSTANT NoDelivery

ASSUME DeliveriesAreOfEvents == EventOf \in [Deliveries -> Events]
ASSUME NoDeliveryIsNone == NoDelivery \notin Deliveries
ASSUME CrashesAreCounted == MaxCrashes \in Nat

VARIABLES
    at,         \* where each delivery is
    inserting,  \* delivery whose uncommitted row claims an event id
    table,      \* committed rows of webhook_events
    runs,       \* how often the handler of each event has run
    crashes

inboxVars == <<at, inserting, table, runs, crashes>>

Places == {"waiting",       \* not delivered yet
           "looking", "absent", "inserted", "recorded",
           "processed",     \* 200, handler has run (or raised)
           "duplicate",     \* 200, nothing done
           "error",         \* 500, IntegrityError
           "cut"}           \* no answer
Answered == {"processed", "duplicate", "error", "cut"}

InboxTypeOK ==
    /\ at \in [Deliveries -> Places]
    /\ inserting \in [Events -> Deliveries \cup {NoDelivery}]
    /\ table \subseteq Events
    /\ runs \in [Events -> Nat]
    /\ crashes \in Nat

InboxInit ==
    /\ at = [d \in Deliveries |-> "waiting"]
    /\ inserting = [e \in Events |-> NoDelivery]
    /\ table = {}
    /\ runs = [e \in Events |-> 0]
    /\ crashes = 0

Move(d, place) == at' = [at EXCEPT ![d] = place]

\* Stripe sends an event again only if no delivery of it was acknowledged.
Acknowledged(e) == \E d \in Deliveries : EventOf[d] = e /\ at[d] \in {"processed", "duplicate"}

Deliver(d) ==
    /\ at[d] = "waiting"
    /\ ~Acknowledged(EventOf[d])
    /\ Move(d, "looking")
    /\ UNCHANGED <<inserting, table, runs, crashes>>

\* The idempotency check.
LookUp(d) ==
    /\ at[d] = "looking"
    /\ Move(d, IF EventOf[d] \in table THEN "duplicate" ELSE "absent")
    /\ UNCHANGED <<inserting, table, runs, crashes>>

\* Mutant of Insert: event_id is not UNIQUE.
InsertAnyway(d) ==
    /\ at[d] = "absent"
    /\ inserting' = [inserting EXCEPT ![EventOf[d]] = d]
    /\ Move(d, "inserted")
    /\ UNCHANGED <<table, runs, crashes>>

\* The INSERT gets the index entry to itself.
Insert(d) ==
    /\ at[d] = "absent"
    /\ EventOf[d] \notin table
    /\ inserting[EventOf[d]] = NoDelivery
    /\ inserting' = [inserting EXCEPT ![EventOf[d]] = d]
    /\ Move(d, "inserted")
    /\ UNCHANGED <<table, runs, crashes>>

\* The INSERT comes after another delivery's commit: the exception is not
\* caught, and the route answers 500.
InsertFails(d) ==
    /\ at[d] = "absent"
    /\ EventOf[d] \in table
    /\ Move(d, "error")
    /\ UNCHANGED <<inserting, table, runs, crashes>>

Commit(d) ==
    /\ at[d] = "inserted"
    /\ table' = table \cup {EventOf[d]}
    /\ inserting' = [inserting EXCEPT ![EventOf[d]] = NoDelivery]
    /\ Move(d, "recorded")
    /\ UNCHANGED <<runs, crashes>>

\* Mutant of Dispatch: the check comes after the insert and finds its own row.
DispatchAfterCheck(d) ==
    /\ at[d] = "recorded"
    /\ Move(d, "duplicate")
    /\ UNCHANGED <<inserting, table, runs, crashes>>

\* Mutant of Dispatch: the handler runs before the commit.
DispatchBeforeCommit(d) ==
    /\ at[d] = "inserted"
    /\ runs[EventOf[d]] = 0
    /\ runs' = [runs EXCEPT ![EventOf[d]] = @ + 1]
    /\ UNCHANGED <<at, inserting, table, crashes>>

\* The handler runs; raising or not, the answer is 200.
Dispatch(d) ==
    /\ at[d] = "recorded"
    /\ runs' = [runs EXCEPT ![EventOf[d]] = @ + 1]
    /\ Move(d, "processed")
    /\ UNCHANGED <<inserting, table, crashes>>

\* The worker dies; an uncommitted row goes with it.
CutOff(d) ==
    /\ at[d] \in {"looking", "absent", "inserted", "recorded"}
    /\ crashes < MaxCrashes
    /\ crashes' = crashes + 1
    /\ Move(d, "cut")
    /\ inserting' = [e \in Events |-> IF inserting[e] = d THEN NoDelivery ELSE inserting[e]]
    /\ UNCHANGED <<table, runs>>

Process(d) ==
    LookUp(d) \/ Insert(d) \/ InsertFails(d) \/ Commit(d) \/ Dispatch(d)

InboxNext == \E d \in Deliveries : Deliver(d) \/ Process(d) \/ CutOff(d)

InboxSpec == InboxInit /\ [][InboxNext]_inboxVars

\* Stripe keeps delivering an event nobody acknowledged; a request that is not
\* cut off runs to its answer.
InboxFairness == \A d \in Deliveries : WF_inboxVars(Deliver(d)) /\ WF_inboxVars(Process(d))

InboxFairSpec == InboxSpec /\ InboxFairness

-----------------------------------------------------------------------------
(* Properties *)

\* However many deliveries race, the handler of an event runs at most once
\* (docs/phases/phase-4.md: "Duplicate webhook events are ignored").
HandledAtMostOnce == \A e \in Events : runs[e] <= 1

\* An acknowledgement is never given for an event that was not taken in.
AcknowledgedIsRecorded == \A e \in Events : Acknowledged(e) => e \in table

\* Every event is handled, however often its deliveries collide, unless a
\* delivery of it is cut off.
HandledUnlessCutOff ==
    <>(\A e \in Events : runs[e] = 1 \/ \E d \in Deliveries : EventOf[d] = e /\ at[d] = "cut")

\* The receiver implements the atomic inbox the order lifecycle relies on.
Inbox == INSTANCE EventInbox WITH recorded <- table, handled <- {e \in Events : runs[e] > 0}

ImplementsInbox == Inbox!Spec

-----------------------------------------------------------------------------
(* The inductive invariant behind the theorems *)

\* A claim on an event id is held by a delivery of that event between INSERT
\* and COMMIT, and only while the id is not in the table.
ClaimsHeld ==
    \A d \in Deliveries :
        at[d] = "inserted" <=> inserting[EventOf[d]] = d
ClaimsAreOwn ==
    \A e \in Events : inserting[e] # NoDelivery => EventOf[inserting[e]] = e /\ e \notin table

\* One delivery at most owns the run of an event's handler, and it owns it
\* before the handler has run.
OneRunner ==
    /\ \A d \in Deliveries : at[d] \in {"recorded", "processed"} => EventOf[d] \in table
    /\ \A d, b \in Deliveries :
        EventOf[d] = EventOf[b] /\ at[d] \in {"recorded", "processed"}
            /\ at[b] \in {"recorded", "processed"} => d = b
    /\ \A d \in Deliveries : at[d] = "recorded" => runs[EventOf[d]] = 0
    /\ \A d \in Deliveries : at[d] = "duplicate" => EventOf[d] \in table
    /\ \A e \in Events : e \notin table => runs[e] = 0

InboxInv == InboxTypeOK /\ ClaimsHeld /\ ClaimsAreOwn /\ OneRunner /\ HandledAtMostOnce

-----------------------------------------------------------------------------
(* Proofs: for any number of events, deliveries and cut-offs, handlers run at most once, and   *)
(* the receiver implements the atomic inbox.                                                   *)

\* With no delivery under way the invariant holds.
LEMMA InitKeeps == InboxInit => InboxInv
  BY DeliveriesAreOfEvents, NoDeliveryIsNone
  DEF InboxInit, InboxInv, InboxTypeOK, Places, ClaimsHeld, ClaimsAreOwn, OneRunner, HandledAtMostOnce

\* Where the deliveries are after d alone has moved.
LEMMA Moved ==
    ASSUME InboxTypeOK, NEW d \in Deliveries, NEW place \in Places, Move(d, place)
    PROVE  /\ at'[d] = place
           /\ \A b \in Deliveries : b # d => at'[b] = at[b]
           /\ at' \in [Deliveries -> Places]
  BY DEF InboxTypeOK, Move

\* Every step of a delivery, the one that cuts it off included, keeps the
\* invariant.
LEMMA NextKeeps == InboxInv /\ [InboxNext]_inboxVars => InboxInv'
<1> SUFFICES ASSUME InboxInv, [InboxNext]_inboxVars PROVE InboxInv'
  OBVIOUS
<1> USE DeliveriesAreOfEvents, NoDeliveryIsNone, CrashesAreCounted DEF InboxInv
<1>1. ASSUME NEW d \in Deliveries, Deliver(d) PROVE InboxInv'
  BY <1>1, Moved DEF Deliver, InboxTypeOK, Places, ClaimsHeld, ClaimsAreOwn, OneRunner, HandledAtMostOnce
<1>2. ASSUME NEW d \in Deliveries, LookUp(d) PROVE InboxInv'
  BY <1>2, Moved DEF LookUp, InboxTypeOK, Places, ClaimsHeld, ClaimsAreOwn, OneRunner, HandledAtMostOnce
<1>3. ASSUME NEW d \in Deliveries, Insert(d) PROVE InboxInv'
  BY <1>3, Moved DEF Insert, InboxTypeOK, Places, ClaimsHeld, ClaimsAreOwn, OneRunner, HandledAtMostOnce
<1>4. ASSUME NEW d \in Deliveries, InsertFails(d) PROVE InboxInv'
  BY <1>4, Moved DEF InsertFails, InboxTypeOK, Places, ClaimsHeld, ClaimsAreOwn, OneRunner, HandledAtMostOnce
<1>5. ASSUME NEW d \in Deliveries, Commit(d) PROVE InboxInv'
  BY <1>5, Moved DEF Commit, InboxTypeOK, Places, ClaimsHeld, ClaimsAreOwn, OneRunner, HandledAtMostOnce
<1>6. ASSUME NEW d \in Deliveries, Dispatch(d) PROVE InboxInv'
  BY <1>6, Moved DEF Dispatch, InboxTypeOK, Places, ClaimsHeld, ClaimsAreOwn, OneRunner, HandledAtMostOnce
<1>7. ASSUME NEW d \in Deliveries, CutOff(d) PROVE InboxInv'
  BY <1>7, Moved DEF CutOff, InboxTypeOK, Places, ClaimsHeld, ClaimsAreOwn, OneRunner, HandledAtMostOnce
<1>8. CASE UNCHANGED inboxVars
  BY <1>8 DEF inboxVars, InboxTypeOK, ClaimsHeld, ClaimsAreOwn, OneRunner, HandledAtMostOnce
<1> QED
  BY <1>1, <1>2, <1>3, <1>4, <1>5, <1>6, <1>7, <1>8 DEF InboxNext, Process

\* The inductive invariant holds in every reachable state.
THEOREM Invariance == InboxSpec => []InboxInv
  BY InitKeeps, NextKeeps, PTL DEF InboxSpec

\* No race between deliveries, and no cut-off, runs a handler twice.
THEOREM AtMostOnce == InboxSpec => []HandledAtMostOnce
<1>1. InboxInv => HandledAtMostOnce
  BY DEF InboxInv
<1> QED
  BY <1>1, Invariance, PTL

\* A 200 means that the event is in the table, whoever put it there.
THEOREM NoEmptyAcknowledgement == InboxSpec => []AcknowledgedIsRecorded
<1>1. InboxInv => AcknowledgedIsRecorded
  BY DEF InboxInv, OneRunner, AcknowledgedIsRecorded, Acknowledged
<1> QED
  BY <1>1, Invariance, PTL

\* An empty table is an empty inbox.
LEMMA InboxStarts == InboxInit => Inbox!Init
  BY DEF InboxInit, Inbox!Init

\* Only Commit (taking in) and Dispatch (handling) are visible to the inbox.
LEMMA InboxStep == InboxInv /\ [InboxNext]_inboxVars => [Inbox!Next]_(Inbox!vars)
<1> SUFFICES ASSUME InboxInv, [InboxNext]_inboxVars PROVE [Inbox!Next]_(Inbox!vars)
  OBVIOUS
<1> USE DeliveriesAreOfEvents DEF InboxInv
<1> DEFINE ran == {e \in Events : runs[e] > 0}
<1>1. ASSUME NEW d \in Deliveries, Deliver(d) \/ LookUp(d) \/ Insert(d) \/ InsertFails(d) \/ CutOff(d)
      PROVE  UNCHANGED <<table, runs>>
  BY <1>1 DEF Deliver, LookUp, Insert, InsertFails, CutOff
<1>2. CASE UNCHANGED <<table, runs>>
  BY <1>2 DEF Inbox!vars
<1>3. ASSUME NEW d \in Deliveries, Commit(d) PROVE Inbox!Receive(EventOf[d])
  <2>1. EventOf[d] \notin table
    BY <1>3, NoDeliveryIsNone DEF Commit, InboxTypeOK, ClaimsHeld, ClaimsAreOwn
  <2> QED
    BY <1>3, <2>1 DEF Commit, Inbox!Receive
<1>4. ASSUME NEW d \in Deliveries, Dispatch(d) PROVE Inbox!Handle(EventOf[d])
  <2>1. EventOf[d] \in table /\ runs[EventOf[d]] = 0 /\ EventOf[d] \in Events
    BY <1>4 DEF Dispatch, OneRunner
  <2>2. \A e \in Events : runs'[e] = IF e = EventOf[d] THEN 1 ELSE runs[e]
    BY <1>4, <2>1 DEF Dispatch, InboxTypeOK
  <2>3. {e \in Events : runs'[e] > 0} = ran \cup {EventOf[d]}
    BY <2>1, <2>2
  <2> QED
    BY <1>4, <2>1, <2>3 DEF Dispatch, Inbox!Handle
<1>5. CASE UNCHANGED inboxVars
  BY <1>2, <1>5 DEF inboxVars
<1> QED
  BY <1>1, <1>2, <1>3, <1>4, <1>5 DEF InboxNext, Process, Inbox!Next

\* The lookup, the insert against a UNIQUE column and the early commit together
\* make an inbox in which taking an event in is one step.
THEOREM Refinement == InboxSpec => ImplementsInbox
  BY InboxStarts, InboxStep, Invariance, PTL DEF InboxSpec, ImplementsInbox, Inbox!Spec
=============================================================================
