---------------------------- MODULE FlowBuilder -----------------------------
(***************************************************************************)
(* Editing an automation flow while it runs: the administrators' requests  *)
(* change its steps, its connections, its trigger and its status; a user   *)
(* is enrolled in it, rests at one of its steps and is carried on to the   *)
(* next. A request is one COMMIT after what it has read; activate_flow     *)
(* reads the flow, its steps and its connections one after the other. What *)
(* a step does, and how workers race, is AutomationFlow's.                 *)
(***************************************************************************)
EXTENDS Naturals, FiniteSets, Sequences

CONSTANTS
    Links,       \* pairs of step numbers that somebody connects
    MaxSteps,    \* bound: steps that are ever made
    MaxDepth,    \* max_chain_depth
    Requests,
    Kinds,       \* [Requests -> SUBSET {"retrigger", "remove", "addStep", "reorder", "deleteStep", "connect",
                 \*  "disconnect", "activate", "pause", "archive", "enrol"}]
    MaxMoves     \* bound: times the enrolment is carried on

VARIABLES
    flow,        \* automation_flows: status, trigger, kept
    steps,       \* automation_flow_steps: order, kept
    links,       \* automation_flow_connections: from, to
    enrolled,    \* flow_enrollments: "no", "active", "completed", "exited", "deleted"
    at,          \* its current_step_id (0: NULL)
    moves,       \* how often it has been carried on
    req,
    edited,      \* history: steps or connections have changed since that activation has read them
    revived,     \* history: an activation has written over what others have made of the status
    overlaps     \* history: how often a request has begun while another was in progress

vars == <<flow, steps, links, enrolled, at, moves, req, edited, revived, overlaps>>

Triggers == {"known", "unknown"}  \* names of events, registered and enabled or not

Idle == [pc |-> "idle"]
Ended == [pc |-> "done"]
InProgress(r) == req[r] \notin {Idle, Ended}
At(r, pc) == req[r].pc = pc
Goto(r, record) == req' = [req EXCEPT ![r] = record]
Return(r) == Goto(r, Ended)

Begin(r, kind) ==
    /\ req[r] = Idle /\ kind \in Kinds[r]
    /\ overlaps' = overlaps + IF \E x \in Requests : InProgress(x) THEN 1 ELSE 0

LiveSteps == {s \in DOMAIN steps : steps[s].kept}
OrderOf(s) == steps[s].order
Last(s) == \A x \in LiveSteps : OrderOf(x) <= OrderOf(s)
First(S) == {s \in S : \A x \in S : OrderOf(s) <= OrderOf(x)}

\* A draft with one step.
Init ==
    /\ flow = [status |-> "draft", trigger |-> "known", kept |-> TRUE]
    /\ steps = <<[order |-> 0, kept |-> TRUE]>>
    /\ links = {} /\ enrolled = "no" /\ at = 0 /\ moves = 0
    /\ req = [r \in Requests |-> Idle]
    /\ edited = FALSE /\ revived = FALSE /\ overlaps = 0

-----------------------------------------------------------------------------
(* The flow's own row: one statement each *)

\* Mutant of MayUpdate: an active flow is updated as well.
MayUpdateAny == flow.kept

MayUpdate == flow.kept /\ flow.status \in {"draft", "paused"}

\* update_flow; with another status it changes nothing and answers as if it had.
Retrigger(r, trigger) ==
    /\ Begin(r, "retrigger")
    /\ flow' = IF MayUpdate THEN [flow EXCEPT !.trigger = trigger] ELSE flow
    /\ Return(r)
    /\ UNCHANGED <<steps, links, enrolled, at, moves, edited, revived>>

\* Mutant of MayRemove: whatever does not enrol anybody may go.
MayRemovePaused == flow.kept /\ flow.status # "active"

MayRemove == flow.kept /\ flow.status = "draft"

\* delete_flow; ON DELETE CASCADE for its steps, connections and enrolments.
Remove(r) ==
    /\ Begin(r, "remove")
    /\ IF MayRemove
       THEN /\ flow' = [flow EXCEPT !.kept = FALSE]
            /\ steps' = [s \in DOMAIN steps |-> [steps[s] EXCEPT !.kept = FALSE]]
            /\ links' = {}
            /\ enrolled' = IF enrolled = "no" THEN "no" ELSE "deleted"
            /\ at' = 0 /\ edited' = TRUE
       ELSE UNCHANGED <<flow, steps, links, enrolled, at, edited>>
    /\ Return(r)
    /\ UNCHANGED <<moves, revived>>

Pause(r) ==
    /\ Begin(r, "pause")
    /\ flow' = IF flow.status = "active" THEN [flow EXCEPT !.status = "paused"] ELSE flow
    /\ Return(r)
    /\ UNCHANGED <<steps, links, enrolled, at, moves, edited, revived>>

\* Mutant of Leaves: who is enrolled stays so.
LeavesNobody == enrolled

Leaves == IF enrolled = "active" THEN "exited" ELSE enrolled

Archive(r) ==
    /\ Begin(r, "archive")
    /\ flow.kept
    /\ flow' = [flow EXCEPT !.status = "archived"]
    /\ enrolled' = Leaves
    /\ Return(r)
    /\ UNCHANGED <<steps, links, at, moves, edited, revived>>

-----------------------------------------------------------------------------
(* Steps and connections, in whatever status the flow is *)

\* Mutant of NextOrder: the last one's order.
NextOrderLast == IF LiveSteps = {} THEN 0 ELSE OrderOf(CHOOSE s \in LiveSteps : Last(s))

NextOrder == IF LiveSteps = {} THEN 0 ELSE 1 + OrderOf(CHOOSE s \in LiveSteps : Last(s))

\* add_step reads MAX(step_order) + 1 ...
AddStep(r) ==
    /\ Begin(r, "addStep")
    /\ flow.kept /\ Len(steps) < MaxSteps
    /\ Goto(r, [pc |-> "add", order |-> NextOrder])
    /\ UNCHANGED <<flow, steps, links, enrolled, at, moves, edited, revived>>

\* ... and inserts; nothing keeps two steps from one order. The flow may have gone.
AddWrite(r) ==
    /\ At(r, "add")
    /\ IF flow.kept
       THEN /\ steps' = Append(steps, [order |-> req[r].order, kept |-> TRUE])
            /\ edited' = TRUE
       ELSE UNCHANGED <<steps, edited>>
    /\ Return(r)
    /\ UNCHANGED <<flow, links, enrolled, at, moves, revived, overlaps>>

\* update_step with the order somebody asks for: here, that of the step after it.
Reorder(r, s) ==
    /\ Begin(r, "reorder")
    /\ OrderOf(s) + 1 < MaxSteps
    /\ steps' = [steps EXCEPT ![s].order = @ + 1]
    /\ Return(r)
    /\ UNCHANGED <<flow, links, enrolled, at, moves, edited, revived>>

\* ON DELETE CASCADE for connections and executions, ON DELETE SET NULL for who rests at the step.
DeleteStep(r, s) ==
    /\ Begin(r, "deleteStep")
    /\ steps' = [steps EXCEPT ![s].kept = FALSE]
    /\ links' = {l \in links : l.from # s /\ l.to # s}
    /\ at' = IF at = s THEN 0 ELSE at
    /\ edited' = TRUE
    /\ Return(r)
    /\ UNCHANGED <<flow, enrolled, moves, revived>>

Connect(r, l) ==
    /\ Begin(r, "connect")
    /\ {l.from, l.to} \subseteq LiveSteps
    /\ links' = links \cup {l} /\ edited' = TRUE
    /\ Return(r)
    /\ UNCHANGED <<flow, steps, enrolled, at, moves, revived>>

Disconnect(r, l) ==
    /\ Begin(r, "disconnect")
    /\ links' = links \ {l} /\ edited' = TRUE
    /\ Return(r)
    /\ UNCHANGED <<flow, steps, enrolled, at, moves, revived>>

-----------------------------------------------------------------------------
(* Activation *)

\* Steps that are n connections away from s.
Away(g, s, n) ==
    LET away[k \in 0..n] == IF k = 0 THEN {s} ELSE {l.to : l \in {j \in g : j.from \in away[k - 1]}}
    IN away[n]

HasCycle(g, S) == \E s \in S, n \in 1..MaxSteps : s \in Away(g, s, n)
TooDeep(g, S) == \E s \in S : Away(g, s, MaxDepth) # {}

\* Mutant of InOrder: a cycle is found only if it leads back to where one has begun to look.
InOrderAtFirst(g, S) ==
    /\ S # {}
    /\ \A l \in g : {l.from, l.to} \subseteq S
    /\ \A s \in First(S) : \A n \in 1..MaxSteps : s \notin Away(g, s, n)

InOrder(g, S) ==
    /\ S # {}
    /\ \A l \in g : {l.from, l.to} \subseteq S
    /\ ~HasCycle(g, S) /\ ~TooDeep(g, S)

\* get_flow, the flow's row.
Activate(r) ==
    /\ Begin(r, "activate")
    /\ flow.kept /\ flow.status \in {"draft", "paused"}
    /\ Goto(r, [pc |-> "steps", trigger |-> flow.trigger, status |-> flow.status])
    /\ UNCHANGED <<flow, steps, links, enrolled, at, moves, edited, revived>>

\* Its steps.
ReadSteps(r) ==
    /\ At(r, "steps")
    /\ Goto(r, [pc |-> "links", trigger |-> req[r].trigger, status |-> req[r].status, steps |-> LiveSteps])
    /\ UNCHANGED <<flow, steps, links, enrolled, at, moves, edited, revived, overlaps>>

\* Mutant of Answer: the trigger is not looked up.
AnswerUntriggered(q, g) == IF InOrder(g, q.steps) THEN "activate" ELSE "done"

\* Its connections, and what activate_flow has to say to all that.
Answer(q, g) == IF InOrder(g, q.steps) /\ q.trigger = "known" THEN "activate" ELSE "done"

Validate(r) ==
    /\ At(r, "links")
    /\ LET q == req[r] IN
       IF Answer(q, links) = "activate"
       THEN /\ Goto(r, [pc |-> "activate", trigger |-> q.trigger, status |-> q.status])
            /\ edited' = (q.steps # LiveSteps)
       ELSE Return(r) /\ UNCHANGED edited
    /\ UNCHANGED <<flow, steps, links, enrolled, at, moves, revived, overlaps>>

\* WHERE id: the status may have become another one, the flow may have gone.
ActivateWrite(r) ==
    /\ At(r, "activate")
    /\ flow' = IF flow.kept THEN [flow EXCEPT !.status = "active"] ELSE flow
    /\ revived' = (revived \/ flow.status = "archived" \/ flow.trigger # req[r].trigger)
    /\ Return(r)
    /\ UNCHANGED <<steps, links, enrolled, at, moves, edited, overlaps>>

-----------------------------------------------------------------------------
(* The enrolment *)

\* enroll_user finds the flow active, and its first step ...
Enrol(r) ==
    /\ Begin(r, "enrol")
    /\ flow.kept /\ flow.status = "active"
    /\ \E s \in First(LiveSteps) : Goto(r, [pc |-> "enrol", step |-> s])
    /\ UNCHANGED <<flow, steps, links, enrolled, at, moves, edited, revived>>

\* ... and inserts the enrolment, unless there is one (idx_fe_active_unique) or the step has gone.
EnrolWrite(r) ==
    /\ At(r, "enrol")
    /\ IF enrolled # "active" /\ req[r].step \in LiveSteps
       THEN enrolled' = "active" /\ at' = req[r].step
       ELSE UNCHANGED <<enrolled, at>>
    /\ Return(r)
    /\ UNCHANGED <<flow, steps, links, moves, edited, revived, overlaps>>

\* advance_enrollment: along the one connection, or else to the next order there is. Who has no
\* current step gets nowhere: its executions have gone with the step.
CarryOn ==
    LET out == {l.to : l \in {j \in links : j.from = at}}
        next == First({s \in LiveSteps : OrderOf(s) > OrderOf(at)})
    IN /\ enrolled = "active" /\ at # 0 /\ moves < MaxMoves
       /\ Cardinality(out) <= 1
       /\ moves' = moves + 1
       /\ CASE out # {} -> at' \in out /\ UNCHANGED enrolled
            [] out = {} /\ next # {} -> at' \in next /\ UNCHANGED enrolled
            [] OTHER -> enrolled' = "completed" /\ UNCHANGED at
       /\ UNCHANGED <<flow, steps, links, req, edited, revived, overlaps>>

Next ==
    \/ \E r \in Requests :
        \/ \E t \in Triggers : Retrigger(r, t)
        \/ Remove(r) \/ Pause(r) \/ Archive(r) \/ AddStep(r) \/ AddWrite(r)
        \/ \E s \in LiveSteps : Reorder(r, s) \/ DeleteStep(r, s)
        \/ \E l \in Links : Connect(r, l)
        \/ \E l \in links : Disconnect(r, l)
        \/ Activate(r) \/ ReadSteps(r) \/ Validate(r) \/ ActivateWrite(r)
        \/ Enrol(r) \/ EnrolWrite(r)
    \/ CarryOn

Spec == Init /\ [][Next]_vars

-----------------------------------------------------------------------------
(* Properties *)

\* The state is of its types.
TypeOK ==
    /\ flow \in [status : {"draft", "active", "paused", "archived"}, trigger : Triggers, kept : BOOLEAN]
    /\ steps \in Seq([order : 0..2 * MaxSteps, kept : BOOLEAN]) /\ Len(steps) <= MaxSteps
    /\ links \subseteq [from : DOMAIN steps, to : DOMAIN steps]
    /\ enrolled \in {"no", "active", "completed", "exited", "deleted"}
    /\ at \in 0..Len(steps) /\ moves \in 0..MaxMoves
    /\ edited \in BOOLEAN /\ revived \in BOOLEAN /\ overlaps \in Nat

\* Every connection leads to a step that is deeper, and no step is deeper than max_chain_depth.
Layered == \E depth \in [LiveSteps -> 1..MaxDepth] :
               \A l \in links : {l.from, l.to} \subseteq LiveSteps /\ depth[l.from] < depth[l.to]

\* activate_flow and update_flow: an active flow waits for an event that is registered, and its graph
\* is layered, unless steps or connections were edited since it was read or another request has
\* changed the flow's row meanwhile.
ActiveIsValidated ==
    flow.kept /\ flow.status = "active" => (revived \/ flow.trigger = "known") /\ (edited \/ Layered)

\* archive_flow: nobody is enrolled in an archived flow, but for a trigger that found it active.
ArchiveEmpties == flow.status = "archived" /\ enrolled = "active" => overlaps > 0

\* delete_flow: no enrolment is ever deleted with its flow, and who has no step any more rested at one
\* that was deleted.
EnrolmentsOutliveEdits ==
    /\ enrolled # "deleted"
    /\ enrolled = "active" /\ at = 0 => \E s \in DOMAIN steps : ~steps[s].kept

\* add_step: two steps share an order only if requests have overlapped or somebody has asked for it.
OrdersAreDistinct ==
    \/ overlaps > 0
    \/ \E r \in Requests : req[r] # Idle /\ "reorder" \in Kinds[r]
    \/ \A s, x \in LiveSteps : OrderOf(s) = OrderOf(x) => s = x

=============================================================================
