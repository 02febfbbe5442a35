--------------------------- MODULE AutomationFlow ---------------------------
(***************************************************************************)
(* One automation flow and one user: the builder that connects its steps   *)
(* and activates it, the events that enrol the user, and the execution     *)
(* that carries an enrolment from step to step until it waits, ends, or    *)
(* is left behind. A step is one COMMIT. Nothing but the enrolment's       *)
(* current_step_id says where it is, and nothing locks it: two workers     *)
(* that pick up the same wait both carry it on.                            *)
(***************************************************************************)
EXTENDS Naturals, FiniteSets, SequencesExt

CONSTANTS
    Drafts,       \* what the flow may start with: the step_type of each step, in step_order, the
                  \* connections, what a branch asks, and what the flow aims at: the event that
                  \* triggers it, or another one
    Extra,        \* connections that may be added or deleted later on
    MaxDepth,     \* max_chain_depth
    Requests,     \* what may handle an event of the user
    Workers,      \* processes that run advance_expired_waits
    MaxEnrolled,  \* enrolments
    MaxMishaps    \* requests and workers cut off, steps that fail, waits that a second worker takes
                  \* up, connections added or deleted, pauses

VARIABLES
    flow,       \* status of the flow
    steps,      \* the step_type of each of its steps
    links,      \* its connections, [from, to, label]
    asks,       \* the type of condition of its branches
    aim,        \* "trigger" if its goal_event is its trigger_event, else "other"
    builder,    \* activate_flow: "idle", or "validated" and about to write
    enrolled,   \* the user's enrolments: status, at = current_step_id; history: the steps run, and
                \* how many of them after it had ended
    waits,      \* executions of wait steps: enrolment, and whether it is still 'waiting'
    run,        \* what each event or worker is doing: pc, the enrolment, a step or a wait, and
                \* whether the event is the one the flow aims at
    edits, pauses, failures,
    retakes    \* history: how often a worker took up a wait another one had in hand

flowVars == <<flow, steps, links, asks, aim, builder, enrolled, waits, run, edits, pauses, failures, retakes>>

-----------------------------------------------------------------------------
(* State *)

Steps == DOMAIN steps
Threads == Requests \union Workers
Labels == {"none", "yes", "no", "weight"}
Link == [from : Steps, to : Steps, label : Labels]

ASSUME DraftsAreFlows ==
    \A d \in Drafts :
        /\ d.steps \in Seq(STRING) /\ d.steps # <<>>
        /\ d.links \subseteq [from : DOMAIN d.steps, to : DOMAIN d.steps, label : Labels]

ASSUME MishapsAreBounded == MaxMishaps \in Nat

ASSUME WorkersAreFinite == IsFiniteSet(Requests) /\ IsFiniteSet(Workers)

From(s) == {l \in links : l.from = s}
IdleRun == [pc |-> "idle", e |-> 0, x |-> 0, goal |-> FALSE]

Doing(t, pc) == run[t].pc = pc
Proceed(t, pc, x) == run' = [run EXCEPT ![t].pc = pc, ![t].x = x]
Stop(t) == run' = [run EXCEPT ![t] = IdleRun]

\* Done with the enrolment; fire_event_for_flows looks at goals after that.
Leave(t) == IF run[t].goal THEN Proceed(t, "goal", 0) ELSE Stop(t)

E(t) == run[t].e
CanMishap == failures + retakes + edits + pauses < MaxMishaps
IsActive(e) == enrolled[e].status = "active"
Active == {e \in DOMAIN enrolled : IsActive(e)}

FlowInit ==
    /\ flow = "draft" /\ builder = "idle"
    /\ \E d \in Drafts : steps = d.steps /\ links = d.links /\ asks = d.asks /\ aim = d.aim
    /\ enrolled = <<>> /\ waits = <<>>
    /\ run = [t \in Threads |-> IdleRun]
    /\ edits = 0 /\ pauses = 0 /\ failures = 0 /\ retakes = 0

drawn == <<steps, asks, aim>>
designVars == <<flow, drawn, links, builder, edits, pauses>>

-----------------------------------------------------------------------------
(* The builder *)

\* The steps from which a path of n steps starts, along connections.
Starts(g, n) ==
    LET starts[k \in 1..n] ==
            IF k = 1 THEN Steps ELSE {l.from : l \in {j \in g : j.to \in starts[k - 1]}}
    IN starts[n]

HasCycle(g) == Starts(g, Len(steps) + 1) # {}
Depth(g) == CHOOSE n \in Steps : Starts(g, n) # {} /\ Starts(g, n + 1) = {}

\* Mutant of Valid: only the depth is looked at.
ValidDepth(g) == IF HasCycle(g) THEN TRUE ELSE Depth(g) <= MaxDepth

\* What activate_flow demands of the connections (and of connections alone).
Valid(g) == ~HasCycle(g) /\ Depth(g) <= MaxDepth

Validate ==
    /\ builder = "idle" /\ flow \in {"draft", "paused"} /\ Valid(links)
    /\ builder' = "validated"
    /\ UNCHANGED <<flow, drawn, links, enrolled, waits, run, edits, pauses, failures, retakes>>

\* The status is written whatever it has become.
Activate ==
    /\ builder = "validated"
    /\ flow' = "active" /\ builder' = "idle"
    /\ UNCHANGED <<drawn, links, enrolled, waits, run, edits, pauses, failures, retakes>>

\* pause_flow keeps events from enrolling; who is enrolled goes on.
Pause ==
    /\ flow = "active" /\ CanMishap
    /\ flow' = "paused" /\ pauses' = pauses + 1
    /\ UNCHANGED <<drawn, links, builder, enrolled, waits, run, edits, failures, retakes>>

\* archive_flow; enrolments that are in progress are told when they next advance.
Archive ==
    /\ flow' = "archived"
    /\ enrolled' = [e \in DOMAIN enrolled |->
                      IF IsActive(e) THEN [enrolled[e] EXCEPT !.status = "exited"] ELSE enrolled[e]]
    /\ UNCHANGED <<drawn, links, builder, waits, run, edits, pauses, failures, retakes>>

\* add_connection and delete_connection ask for no status: an active flow is edited as well.
Edit ==
    /\ CanMishap
    /\ \E l \in Extra \cap Link : links' = IF l \in links THEN links \ {l}
                                ELSE {k \in links : k.from # l.from \/ k.to # l.to} \union {l}
    /\ edits' = edits + 1
    /\ UNCHANGED <<flow, drawn, builder, enrolled, waits, run, pauses, failures, retakes>>

-----------------------------------------------------------------------------
(* Enrolment *)

\* fire_event_for_flows: the event triggers the flow, or is the one it aims at, or both;
\* enroll_user has seen an active flow, and inserts after that.
Fire(t) ==
    /\ Doing(t, "idle")
    /\ \E event \in {"trigger", "other"} :
          LET pc == IF event = "trigger" /\ flow = "active" /\ Len(enrolled) < MaxEnrolled
                    THEN "insert" ELSE "goal" IN
          /\ pc = "insert" \/ event = aim
          /\ run' = [run EXCEPT ![t] = [IdleRun EXCEPT !.pc = pc, !.goal = (event = aim)]]
    /\ UNCHANGED <<designVars, enrolled, waits, failures, retakes>>

InsertEnrollment(t) ==
    /\ Doing(t, "insert") /\ Active = {}
    /\ enrolled' = Append(enrolled, [status |-> "active", at |-> 1, ran |-> <<>>, late |-> 0])
    /\ run' = [run EXCEPT ![t].pc = "execute", ![t].e = Len(enrolled) + 1, ![t].x = 1]
    /\ UNCHANGED <<designVars, waits, failures, retakes>>

\* The unique index refuses. With allow_reentry, the UPDATE that would end the old enrolment runs
\* in the transaction the violation has aborted, and its exception ends the event.
InsertRefused(t) ==
    /\ Doing(t, "insert") /\ Active # {}
    /\ Leave(t) \/ Stop(t)
    /\ UNCHANGED <<designVars, enrolled, waits, failures, retakes>>

\* check_goal, on the event the flow aims at.
ReachGoal(t) ==
    /\ Doing(t, "goal")
    /\ enrolled' = [e \in DOMAIN enrolled |->
                      IF IsActive(e) THEN [enrolled[e] EXCEPT !.status = "goal_reached"] ELSE enrolled[e]]
    /\ Stop(t)
    /\ UNCHANGED <<designVars, waits, failures, retakes>>

-----------------------------------------------------------------------------
(* Execution *)

\* What somebody outside notices.
Outward == {"send", "webhook"}

\* The step is run: it is recorded, whatever has become of the enrolment.
Ran(t) ==
    enrolled' = [enrolled EXCEPT
        ![E(t)].ran = Append(@, run[t].x),
        ![E(t)].late = @ + IF IsActive(E(t)) \/ steps[run[t].x] \notin Outward THEN 0 ELSE 1]

Runs(t, kind) == Doing(t, "execute") /\ steps[run[t].x] = kind

Send(t) ==
    /\ Runs(t, "send")
    /\ Ran(t) /\ Proceed(t, "advance", 0)
    /\ UNCHANGED <<designVars, waits, failures, retakes>>

\* A tag or an attribute is logged, a score adjusted if the user has one.
Update(t) ==
    /\ Runs(t, "update")
    /\ Ran(t) /\ Proceed(t, "advance", 0)
    /\ UNCHANGED <<designVars, waits, failures, retakes>>

\* Whatever the other side answers, or if it does not.
Webhook(t) ==
    /\ Runs(t, "webhook")
    /\ Ran(t) /\ Proceed(t, "advance", 0)
    /\ UNCHANGED <<designVars, waits, failures, retakes>>

Wait(t) ==
    /\ Runs(t, "wait")
    /\ Ran(t) /\ Leave(t)
    /\ waits' = Append(waits, [e |-> E(t), waiting |-> TRUE])
    /\ UNCHANGED <<designVars, failures, retakes>>

\* _evaluate_condition knows of three things to ask; to anything else, segment membership
\* included, the answer is no.
Verdicts == IF asks \in {"email_opened", "has_purchased", "score_above"} THEN {"yes", "no"} ELSE {"no"}

\* The path whose label matches the answer; none ends the enrolment.
Branch(t) ==
    /\ Runs(t, "branch")
    /\ Ran(t)
    /\ \E answer \in Verdicts :
          LET fit == {l \in From(run[t].x) : l.label = answer} IN
          IF fit = {} THEN Proceed(t, "complete", 0) ELSE \E l \in fit : Proceed(t, "move", l.to)
    /\ UNCHANGED <<designVars, waits, failures, retakes>>

Split(t) ==
    /\ Runs(t, "split")
    /\ Ran(t)
    /\ IF From(run[t].x) = {} THEN Proceed(t, "complete", 0)
       ELSE \E l \in From(run[t].x) : Proceed(t, "move", l.to)
    /\ UNCHANGED <<designVars, waits, failures, retakes>>

\* The exception is recorded with the execution; nothing takes the enrolment up again.
StepFails(t) ==
    /\ Doing(t, "execute") /\ CanMishap
    /\ Leave(t) /\ failures' = failures + 1
    /\ UNCHANGED <<designVars, enrolled, waits, retakes>>

MoveTo(t, s) == Proceed(t, "move", s)

\* Mutant of MayAdvance: the status is not looked at.
MayAdvanceAnyway(e) == TRUE

MayAdvance(e) == IsActive(e)

\* advance_enrollment, from where the row says the enrolment is.
Advance(t) ==
    /\ Doing(t, "advance")
    /\ LET here == enrolled[E(t)].at
           out == From(here) IN
       CASE ~MayAdvance(E(t)) -> Leave(t)
         [] MayAdvance(E(t)) /\ out = {} ->
              IF here = Len(steps) THEN Proceed(t, "complete", 0) ELSE MoveTo(t, here + 1)
         [] MayAdvance(E(t)) /\ out # {} ->
              IF Cardinality(out) = 1 /\ \A l \in out : l.label # "weight"
              THEN \E l \in out : MoveTo(t, l.to)
              ELSE Leave(t)                 \* 'waiting_for_branch'
    /\ UNCHANGED <<designVars, enrolled, waits, failures, retakes>>

\* Mutant of Move: the step moved to is not executed.
MoveOnly(t) ==
    /\ Doing(t, "move")
    /\ enrolled' = [enrolled EXCEPT ![E(t)].at = run[t].x]
    /\ Leave(t)
    /\ UNCHANGED <<designVars, waits, failures, retakes>>

Move(t) ==
    /\ Doing(t, "move")
    /\ enrolled' = [enrolled EXCEPT ![E(t)].at = run[t].x]
    /\ Proceed(t, "execute", run[t].x)
    /\ UNCHANGED <<designVars, waits, failures, retakes>>

Complete(t) ==
    /\ Doing(t, "complete")
    /\ enrolled' = [enrolled EXCEPT ![E(t)].status = IF @ = "active" THEN "completed" ELSE @]
    /\ Leave(t)
    /\ UNCHANGED <<designVars, waits, failures, retakes>>

\* Of the process, or of the client's connection to it.
CutShort(t) ==
    /\ run[t].pc # "idle" /\ CanMishap
    /\ Stop(t) /\ failures' = failures + 1
    /\ UNCHANGED <<designVars, enrolled, waits, retakes>>

-----------------------------------------------------------------------------
(* The worker *)

InHand(x) == \E w \in Workers : Doing(w, "mark") /\ run[w].x = x

\* A row of the worker's list; scheduled_at has passed.
Scan(w, x) ==
    /\ Doing(w, "idle") /\ waits[x].waiting
    /\ run' = [run EXCEPT ![w] = [IdleRun EXCEPT !.pc = "mark", !.e = waits[x].e, !.x = x]]
    /\ IF InHand(x) THEN CanMishap /\ retakes' = retakes + 1 ELSE UNCHANGED retakes
    /\ UNCHANGED <<designVars, enrolled, waits, failures>>

\* Mutant of Mark: the row is left for advance_enrollment to deal with.
MarkNot(w) ==
    /\ Doing(w, "mark")
    /\ Proceed(w, "advance", 0)
    /\ UNCHANGED <<designVars, enrolled, waits, failures, retakes>>

\* 'executed', no matter who has marked it meanwhile.
Mark(w) ==
    /\ Doing(w, "mark")
    /\ waits' = [waits EXCEPT ![run[w].x].waiting = FALSE]
    /\ Proceed(w, "advance", 0)
    /\ UNCHANGED <<designVars, enrolled, failures, retakes>>

-----------------------------------------------------------------------------

CarryOn(t) ==
    \/ InsertEnrollment(t) \/ InsertRefused(t) \/ ReachGoal(t)
    \/ Send(t) \/ Update(t) \/ Webhook(t) \/ Wait(t) \/ Branch(t) \/ Split(t)
    \/ Advance(t) \/ Move(t) \/ Complete(t) \/ Mark(t)

FlowNext ==
    \/ Validate \/ Activate \/ Pause \/ Archive \/ Edit
    \/ \E t \in Requests : Fire(t)
    \/ \E w \in Workers, x \in DOMAIN waits : Scan(w, x)
    \/ \E t \in Threads : CarryOn(t) \/ StepFails(t) \/ CutShort(t)

\* A request or a worker that is not cut off gets to its next COMMIT.
FlowSpec == FlowInit /\ [][FlowNext]_flowVars /\ \A t \in Threads : WF_run(CarryOn(t))

-----------------------------------------------------------------------------
(* Properties *)

FlowTypeOK ==
    /\ flow \in {"draft", "active", "paused", "archived"} /\ links \subseteq Link
    /\ builder \in {"idle", "validated"}
    /\ enrolled \in Seq([status : {"active", "completed", "goal_reached", "exited"}, at : Steps,
                         ran : Seq(Steps), late : Nat])
    /\ waits \in Seq([e : DOMAIN enrolled, waiting : BOOLEAN])
    /\ edits + pauses + failures + retakes \in 0..MaxMishaps
    /\ \A t \in Threads :
          /\ run[t].pc \in {"idle", "insert", "execute", "advance", "move", "complete", "mark", "goal"}
          /\ run[t].pc \in {"execute", "move"} => run[t].x \in Steps
          /\ run[t].pc = "mark" => run[t].x \in DOMAIN waits

\* Where a step may lead: along a connection, or in step_order where there is none.
After(s) ==
    IF From(s) # {} THEN {l.to : l \in From(s)}
    ELSE IF s < Len(steps) /\ steps[s] \notin {"branch", "split"} THEN {s + 1} ELSE {}

Walk(p) == (p # <<>> => p[1] = 1) /\ \A i \in 1..Len(p) - 1 : p[i + 1] \in After(p[i])

\* While nobody edits the flow and no two workers take up the same wait, an enrolment takes the
\* steps of the flow one after the other, none twice in a row and none skipped, and it is
\* completed only where the flow leads no further (or a branch has no path for the answer).
WalksTheFlow ==
    edits = 0 /\ retakes = 0 =>
        \A e \in DOMAIN enrolled :
            LET p == enrolled[e].ran IN
            /\ Walk(p)
            /\ enrolled[e].status = "completed" =>
                  p # <<>> /\ (After(Last(p)) = {} \/ steps[Last(p)] = "branch")

\* Once the goal is reached or the flow archived, at most one more message goes out for each
\* request or worker that has the enrolment in hand.
FallsSilent == \A e \in DOMAIN enrolled : enrolled[e].late <= 1 + retakes

\* Steps whose way on is not for advance_enrollment to choose.
Unambiguous == \A s \in Steps : steps[s] \notin {"branch", "split"} =>
                  Cardinality(From(s)) <= 1 /\ \A l \in From(s) : l.label # "weight"

Forward == \A s \in Steps : \A n \in After(s) : n > s

Waiting(e) == \E x \in DOMAIN waits : waits[x].e = e /\ waits[x].waiting
Disturbed == edits > 0 \/ failures > 0 \/ retakes > 0

Underway(e) == e \in DOMAIN enrolled /\ IsActive(e) /\ Forward /\ Unambiguous
Arrived(e) == Disturbed \/ (e \in DOMAIN enrolled /\ (~IsActive(e) \/ Waiting(e)))

\* An enrolment in a flow that only leads forward ends, or rests at a wait, unless a step fails,
\* something is cut off, workers overlap or the flow is edited: whatever others do meanwhile.
NobodyIsLeftBehind == \A e \in 1..MaxEnrolled : Underway(e) ~> Arrived(e)

NoStepTwice == edits = 0 /\ retakes = 0 =>
                  \A e \in DOMAIN enrolled : IsInjective(enrolled[e].ran)

\* Every step that is not the last has a connection, so that step_order decides nothing.
Linked == \A s \in Steps : From(s) # {} \/ s = Len(steps)

\* What the check for cycles is worth: an enrolment of a flow that was activated as it is runs no
\* step twice, provided all its ways on are connections.
LinkedNeverLoops == Linked => NoStepTwice
=============================================================================
