------------------------------ MODULE PageTimer ------------------------------
(***************************************************************************)
(* The component of the frontend that measures how long a visitor attends  *)
(* to a page of a tab: it counts while the tab is visible and somebody     *)
(* touches it now and then, reports what it has counted when the page, the *)
(* tab or the visitor's attention changes, and sends heartbeats that say   *)
(* where the visitor is. The unit of time is the heartbeats' interval.     *)
(***************************************************************************)
EXTENDS Naturals

CONSTANTS
    Paths,
    IdleTimeout,  \* IDLE_TIMEOUT_MS, in units
    MaxClock

VARIABLES
    clock,
    visible,   \* document.visibilityState
    path,      \* lastPath, which is the pathname between effects
    away,      \* isIdle
    since,     \* activeSince: when counting began, 0 while it is paused
    accum,     \* activeAccum
    deadline,  \* when the idle timer fires, 0 if it is not set
    reported,  \* per path, the durations of its page views
    beat,      \* the last heartbeat: when, of which path, with which status
    pulse,     \* whether the interval of heartbeats has come round and is not yet dealt with
    closed,
    seen,      \* history: when the visitor last did something in the tab
    attended,  \* history: per path, the units in which it was looked at
    changed    \* history: when path or status have last changed

vars == <<clock, visible, path, away, since, accum, deadline, reported, beat, pulse, closed, seen,
          attended, changed>>

-----------------------------------------------------------------------------
(* State *)

Status == IF away THEN "idle" ELSE "active"
Running == IF since > 0 THEN clock - since ELSE 0

\* Two heartbeats at one time are one.
Heartbeat(p, status) ==
    beat' = IF beat.at = clock THEN beat ELSE [at |-> clock, path |-> p, status |-> status]

\* A new countdown; the visitor was there just now.
ResetIdleTimer == deadline' = clock + IdleTimeout /\ seen' = clock

\* bankActive, after which counting is paused.
Banked == accum + Running

\* sendPageview of what is banked. Half a second is less than a unit.
Report == reported' = [reported EXCEPT ![path] = @ + Banked]

Init ==
    /\ clock = 1 /\ visible \in BOOLEAN /\ path \in Paths /\ away = FALSE
    /\ since = IF visible THEN 1 ELSE 0
    /\ accum = 0 /\ deadline = 1 + IdleTimeout
    /\ reported = [p \in Paths |-> 0]
    /\ beat = IF visible THEN [at |-> 1, path |-> path, status |-> "active"] ELSE [at |-> 0, path |-> path, status |-> "idle"]
    /\ pulse = FALSE /\ closed = FALSE
    /\ seen = 1 /\ attended = [p \in Paths |-> 0] /\ changed = 1

-----------------------------------------------------------------------------
(* Events *)

\* Mutant of Interact: waking begins to count anew although counting is on.
InteractAnew ==
    /\ ~closed /\ visible
    /\ away' = FALSE /\ since' = clock
    /\ Heartbeat(path, "active")
    /\ changed' = clock
    /\ ResetIdleTimer
    /\ UNCHANGED <<clock, visible, path, accum, reported, pulse, closed, attended>>

\* onInteraction
Interact ==
    /\ ~closed /\ visible
    /\ away' = FALSE
    /\ IF away
       THEN /\ since' = IF since = 0 THEN clock ELSE since
            /\ Heartbeat(path, "active")
            /\ changed' = clock
       ELSE UNCHANGED <<since, beat, changed>>
    /\ ResetIdleTimer
    /\ UNCHANGED <<clock, visible, path, accum, reported, pulse, closed, attended>>

\* handleVisibilityChange
Hide ==
    /\ ~closed /\ visible
    /\ visible' = FALSE
    /\ Report /\ accum' = 0 /\ since' = 0
    /\ deadline' = 0
    /\ UNCHANGED <<clock, path, away, beat, pulse, closed, seen, attended, changed>>

Show ==
    /\ ~closed /\ ~visible
    /\ visible' = TRUE
    /\ away' = FALSE
    /\ since' = IF since = 0 THEN clock ELSE since
    /\ ResetIdleTimer
    /\ Heartbeat(path, "active")
    /\ changed' = clock
    /\ UNCHANGED <<clock, path, accum, reported, pulse, closed, attended>>

\* Mutant of Navigate: the new page waits for the next pulse.
NavigateQuietly(p) ==
    /\ ~closed /\ p # path
    /\ Report
    /\ path' = p
    /\ accum' = 0 /\ since' = IF visible THEN clock ELSE 0
    /\ UNCHANGED <<clock, visible, away, deadline, beat, pulse, closed, seen, attended, changed>>

\* The effect of a new pathname, in a tab that may be hidden.
Navigate(p) ==
    /\ ~closed /\ p # path
    /\ Report
    /\ path' = p
    /\ accum' = 0 /\ away' = FALSE /\ since' = IF visible THEN clock ELSE 0
    /\ ResetIdleTimer
    /\ IF visible THEN Heartbeat(p, "active") ELSE UNCHANGED beat
    /\ changed' = clock
    /\ UNCHANGED <<clock, visible, pulse, closed, attended>>

IdleFires ==
    /\ ~closed /\ deadline # 0 /\ deadline <= clock
    /\ Report
    /\ accum' = 0 /\ since' = 0 /\ away' = TRUE /\ deadline' = 0
    /\ Heartbeat(path, "idle")
    /\ changed' = clock
    /\ UNCHANGED <<clock, visible, path, pulse, closed, seen, attended>>

\* The interval, in visible tabs only.
Pulse ==
    /\ ~closed /\ pulse
    /\ pulse' = FALSE
    /\ IF visible THEN Heartbeat(path, Status) ELSE UNCHANGED beat
    /\ UNCHANGED <<clock, visible, path, away, since, accum, deadline, reported, closed, seen, attended, changed>>

\* The component is unmounted: timers and interval are cleared.
Unmount ==
    /\ ~closed /\ closed' = TRUE
    /\ Report /\ accum' = 0 /\ since' = 0 /\ deadline' = 0 /\ pulse' = FALSE
    /\ UNCHANGED <<clock, visible, path, away, beat, seen, attended, changed>>

\* Timers that are due go first.
Tick ==
    /\ ~closed /\ clock < MaxClock
    /\ ~pulse /\ (deadline = 0 \/ clock < deadline)
    /\ clock' = clock + 1 /\ pulse' = TRUE
    /\ attended' = IF visible /\ clock < seen + IdleTimeout THEN [attended EXCEPT ![path] = @ + 1] ELSE attended
    /\ UNCHANGED <<visible, path, away, since, accum, deadline, reported, beat, closed, seen, changed>>

Next ==
    \/ Interact \/ Hide \/ Show \/ IdleFires \/ Pulse \/ Unmount \/ Tick
    \/ \E p \in Paths : Navigate(p)

Spec == Init /\ [][Next]_vars

-----------------------------------------------------------------------------
(* Properties *)

TypeOK ==
    /\ clock \in 1..MaxClock /\ visible \in BOOLEAN /\ path \in Paths /\ away \in BOOLEAN
    /\ since \in 0..MaxClock /\ accum \in 0..MaxClock /\ deadline \in 0..(MaxClock + IdleTimeout)
    /\ reported \in [Paths -> Nat] /\ attended \in [Paths -> Nat]
    /\ beat \in [at : 0..MaxClock, path : Paths, status : {"active", "idle"}]

\* Every unit in which a page was looked at is reported or going to be, for that page, once;
\* whatever the order in which the tab is hidden and shown, left alone and taken up again.
TimeIsAccounted ==
    \A p \in Paths : reported[p] + (IF p = path THEN Banked ELSE 0) = attended[p]

\* What a visible tab has last said of the visitor is true, but for changes within one interval.
BeatsKeepUp ==
    ~closed /\ visible /\ ~pulse /\ changed < clock =>
        beat = [at |-> clock, path |-> path, status |-> Status]
=============================================================================
