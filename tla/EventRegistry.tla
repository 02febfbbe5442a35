---------------------------- MODULE EventRegistry ----------------------------
(***************************************************************************)
(* One event definition, which an administrator may switch off, and what   *)
(* goes by it: each worker process keeps the definitions in a cache of its *)
(* own for a while and records an event only if the cache allows it; a     *)
(* marketing flow the event triggers is not activated while it is off, and *)
(* it is not switched off while such a flow is active. Requests in the     *)
(* same process interleave at every await.                                 *)
(***************************************************************************)
EXTENDS Naturals

CONSTANTS
    Processes,
    Requests,
    Kinds,      \* [Requests -> SUBSET {"event", "batch", "toggle", "activate", "pause", "trigger"}]
    TTL,        \* _CACHE_TTL
    MaxClock,
    MaxSlow     \* time that passes while a request is in progress

VARIABLES
    enabled,    \* is_enabled of the definition
    flow,       \* status of the flow (a draft is as good as paused) and whether it is this event that triggers it
    cache,      \* of each process: what it has of the definition
    loadedAt,
    events,     \* rows of analytics.events
    clock,      \* time.monotonic, which starts with the host
    req,
    changed,    \* history: when is_enabled was changed last,
    changedBy,  \*          and by which process
    wrong,      \* history: a decision against a definition that has stood for longer than TTL
    wrongHere,  \* history: a decision against what this process has itself switched
    slow,       \* history: time has passed while a request was in progress
    overlaps    \* history: a request began while another was in progress

vars == <<enabled, flow, cache, loadedAt, events, clock, req, changed, changedBy, wrong, wrongHere,
          slow, overlaps>>

-----------------------------------------------------------------------------
(* State *)

Idle == [pc |-> "idle"]
Ended == [pc |-> "done"]
At(r, pc) == req[r].pc = pc
Quiet == \A r \in Requests : req[r] \in {Idle, Ended}

Goto(r, pc) == req' = [req EXCEPT ![r].pc = pc]
Stop(r) == req' = [req EXCEPT ![r] = Ended]

registry == <<enabled, changed, changedBy>>
caches == <<cache, loadedAt>>
history == <<wrong, wrongHere, slow, overlaps>>

\* The host has been up for longer than the caches live: before that, 0 would not be stale.
Init ==
    /\ enabled \in BOOLEAN
    /\ flow \in [status : {"paused"}, triggered : BOOLEAN]
    /\ cache = [p \in Processes |-> "unknown"] /\ loadedAt = [p \in Processes |-> 0]
    /\ events = 0 /\ clock = TTL + 1
    /\ req = [r \in Requests |-> Idle]
    /\ changed = 0 /\ changedBy = "nobody"
    /\ wrong = FALSE /\ wrongHere = FALSE /\ slow = 0 /\ overlaps = FALSE

First(kind) ==
    CASE kind \in {"event", "batch"} -> "check" [] kind = "toggle" -> "get" [] OTHER -> kind

\* In whichever process gets the connection.
Begin(r, kind, p) ==
    /\ req[r] = Idle /\ kind \in Kinds[r]
    /\ req' = [req EXCEPT ![r] = [pc |-> First(kind), at |-> p, left |-> IF kind = "batch" THEN 2 ELSE 1,
                                  rows |-> 0, read |-> FALSE]]
    /\ overlaps' = (overlaps \/ ~Quiet)
    /\ UNCHANGED <<registry, flow, caches, events, clock, wrong, wrongHere, slow>>

-----------------------------------------------------------------------------
(* Recording: _is_event_allowed, record_event, record_events_batch *)

\* Mutant of Stale: what has been loaded once stays.
StaleNever(p) == loadedAt[p] = 0

Stale(p) == clock - loadedAt[p] > TTL

\* The next item, or the commit of what there is.
Rest(q) ==
    CASE q.left > 1 -> [q EXCEPT !.left = @ - 1, !.pc = "check"]
      [] q.left = 1 /\ q.rows > 0 -> [q EXCEPT !.pc = "commit"]
      [] OTHER -> Ended

\* Nobody sees the row that is inserted before it is committed.
Decided(r, known) ==
    LET p == req[r].at
        against == (known = "on") # enabled
    IN /\ req' = [req EXCEPT ![r] = Rest(IF known = "on" THEN [@ EXCEPT !.rows = @ + 1] ELSE @)]
       /\ wrong' = (wrong \/ (against /\ clock - changed > TTL))
       /\ wrongHere' = (wrongHere \/ (against /\ changedBy = p))

Allowed(r) ==
    LET p == req[r].at
    IN /\ At(r, "check")
       /\ IF Stale(p)
          THEN Goto(r, "load") /\ UNCHANGED <<wrong, wrongHere>>
          ELSE Decided(r, cache[p])
       /\ UNCHANGED <<registry, flow, caches, events, clock, slow, overlaps>>

SelectDefs(r) ==
    /\ At(r, "load")
    /\ req' = [req EXCEPT ![r].pc = "store", ![r].read = enabled]
    /\ UNCHANGED <<registry, flow, caches, events, clock, history>>

\* After the await: the time is that of now, the definition the one that was read.
StoreDefs(r) ==
    LET p == req[r].at
        known == IF req[r].read THEN "on" ELSE "off"
    IN /\ At(r, "store")
       /\ cache' = [cache EXCEPT ![p] = known]
       /\ loadedAt' = [loadedAt EXCEPT ![p] = clock]
       /\ Decided(r, known)
       /\ UNCHANGED <<registry, flow, events, clock, slow, overlaps>>

Commit(r) ==
    /\ At(r, "commit")
    /\ events' = events + req[r].rows
    /\ Stop(r)
    /\ UNCHANGED <<registry, flow, caches, clock, history>>

-----------------------------------------------------------------------------
(* Switching: toggle_event *)

GetEvent(r) ==
    /\ At(r, "get")
    /\ req' = [req EXCEPT ![r].read = enabled, ![r].pc = IF enabled THEN "flows" ELSE "update"]
    /\ UNCHANGED <<registry, flow, caches, events, clock, history>>

\* Mutant of ActiveFlows: a flow is as good as paused.
ActiveFlowsNot(r) ==
    /\ At(r, "flows")
    /\ Goto(r, "update")
    /\ UNCHANGED <<registry, flow, caches, events, clock, history>>

ActiveFlows(r) ==
    /\ At(r, "flows")
    /\ IF flow.triggered /\ flow.status = "active" THEN Stop(r) ELSE Goto(r, "update")
    /\ UNCHANGED <<registry, flow, caches, events, clock, history>>

Toggle(r) ==
    /\ At(r, "update")
    /\ enabled' = ~req[r].read
    /\ changed' = clock /\ changedBy' = req[r].at
    /\ Goto(r, "invalidate")
    /\ UNCHANGED <<flow, caches, events, clock, history>>

\* Mutant of Invalidate: it is left to the TTL.
InvalidateNot(r) ==
    /\ At(r, "invalidate")
    /\ Stop(r)
    /\ UNCHANGED <<registry, flow, caches, events, clock, history>>

\* Only the cache of the process that has answered the request.
Invalidate(r) ==
    /\ At(r, "invalidate")
    /\ loadedAt' = [loadedAt EXCEPT ![req[r].at] = 0]
    /\ Stop(r)
    /\ UNCHANGED <<registry, flow, cache, events, clock, history>>

-----------------------------------------------------------------------------
(* The flow: activate_flow (its last checks), pause_flow, update_flow *)

GetFlow(r) ==
    /\ At(r, "activate")
    /\ IF flow.status = "active" THEN Stop(r)
       ELSE req' = [req EXCEPT ![r].pc = IF flow.triggered THEN "trigger?" ELSE "active"]
    /\ UNCHANGED <<registry, flow, caches, events, clock, history>>

\* Mutant of TriggerEnabled: it is enough that the event is registered.
TriggerRegistered(r) ==
    /\ At(r, "trigger?")
    /\ Goto(r, "active")
    /\ UNCHANGED <<registry, flow, caches, events, clock, history>>

TriggerEnabled(r) ==
    /\ At(r, "trigger?")
    /\ IF enabled THEN Goto(r, "active") ELSE Stop(r)
    /\ UNCHANGED <<registry, flow, caches, events, clock, history>>

\* Whatever the status and the trigger are by now.
Activate(r) ==
    /\ At(r, "active")
    /\ flow' = [flow EXCEPT !.status = "active"]
    /\ Stop(r)
    /\ UNCHANGED <<registry, caches, events, clock, history>>

Pause(r) ==
    /\ At(r, "pause")
    /\ flow' = [flow EXCEPT !.status = IF @ = "active" THEN "paused" ELSE @]
    /\ Stop(r)
    /\ UNCHANGED <<registry, caches, events, clock, history>>

\* The trigger of a flow is changed to this event, or to another one.
SetTrigger(r) ==
    /\ At(r, "trigger")
    /\ \E is \in BOOLEAN : flow' = [flow EXCEPT !.triggered = IF flow.status = "active" THEN @ ELSE is]
    /\ Stop(r)
    /\ UNCHANGED <<registry, caches, events, clock, history>>

-----------------------------------------------------------------------------

Tick ==
    /\ clock < MaxClock /\ clock' = clock + 1
    /\ Quiet \/ slow < MaxSlow
    /\ slow' = slow + IF Quiet THEN 0 ELSE 1
    /\ UNCHANGED <<registry, flow, caches, events, req, wrong, wrongHere, overlaps>>

Step(r) ==
    \/ Allowed(r) \/ SelectDefs(r) \/ StoreDefs(r) \/ Commit(r)
    \/ GetEvent(r) \/ ActiveFlows(r) \/ Toggle(r) \/ Invalidate(r)
    \/ GetFlow(r) \/ TriggerEnabled(r) \/ Activate(r) \/ Pause(r) \/ SetTrigger(r)
    \/ \E kind \in Kinds[r], p \in Processes : Begin(r, kind, p)

Next == Tick \/ \E r \in Requests : Step(r)

Spec == Init /\ [][Next]_vars

-----------------------------------------------------------------------------
(* Properties *)

TypeOK ==
    /\ enabled \in BOOLEAN /\ changed \in Nat /\ events \in Nat /\ clock \in 0..MaxClock
    /\ flow \in [status : {"paused", "active"}, triggered : BOOLEAN]
    /\ cache \in [Processes -> {"unknown", "on", "off"}] /\ loadedAt \in [Processes -> 0..MaxClock]

\* Every process goes by what an administrator has switched no later than a TTL afterwards if
\* requests take no time, and the process that has answered the administrator at once if no
\* requests overlap.
SwitchReachesEveryone ==
    /\ wrong => slow > 0
    /\ wrongHere => slow > 0 \/ overlaps

\* No flow waits for an event that is switched off, unless requests overlap.
ActiveFlowIsFed ==
    flow.status = "active" /\ flow.triggered /\ ~enabled => overlaps
=============================================================================
