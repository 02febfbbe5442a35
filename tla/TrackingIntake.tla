--------------------------- MODULE TrackingIntake ---------------------------
(***************************************************************************)
(* What the tracking endpoints make of the page views, events and          *)
(* heartbeats of one visitor: an analytics session, whose key in Redis     *)
(* says whether it is going on and whose row in PostgreSQL counts what     *)
(* came in; a row for the browser; and the hash that says where the        *)
(* visitor is right now. Requests of two tabs and of the middleware        *)
(* interleave command by command, and nothing is locked: the second of two *)
(* requests that both found no row of the session is turned away by the    *)
(* key of analytics_sessions, and nothing keeps a second browser out. What *)
(* administrators are shown of the visitor is computed from these rows.    *)
(***************************************************************************)
EXTENDS Naturals, FiniteSets, Sequences

CONSTANTS
    Hits,       \* requests that tell of the visitor; each is made once
    HitKinds,   \* what each of them may be
    Paths,
    MaxClock,   \* time
    MaxAnswers, \* changes of the visitor's consent
    MaxCuts     \* requests cut off

Telling == {"view", "views", "visit", "event", "signal", "beat"}

ASSUME HitsAreFinite ==
    /\ IsFiniteSet(Hits) /\ HitKinds \in [Hits -> SUBSET Telling]
    /\ Paths # {} /\ MaxClock \in Nat \ {0}

VARIABLES
    answers,    \* what the visitor's consent record and their cookie preferences say of analytics
    key,        \* whether analytics:session is in Redis
    visit,      \* the row of analytics_sessions: its page_count, started_at and ended_at, or <<>>
    views,      \* rows of page_views, each its created_at
    event_rows, \* rows of events, each its created_at
    agents,     \* rows of user_agents
    source,     \* whether there is a row of referral_sources
    utms,       \* rows of utm_tracking
    presence,   \* analytics:presence, <<>> when it is not there
    clock,
    hit,        \* each request: where it is, what it brings and what it has read
    touches,    \* history: requests that have counted for the session
    lost,       \* history: requests turned away by the key of analytics_sessions
    answered,   \* changes of answers
    cuts,
    crossings   \* history: how often a request began, or the presence lapsed, while another was in progress

visitVars == <<answers, key, visit, views, event_rows, agents, source, utms, presence, clock, hit,
               touches, lost, answered, cuts, crossings>>

-----------------------------------------------------------------------------
(* State *)

Here == CHOOSE p \in Paths : TRUE
Nothing(pc) == [pc |-> pc, kind |-> "none", path |-> Here, status |-> "active", read |-> <<>>]

Reached(r, pc) == hit[r].pc = pc
UnderWay(r) == hit[r].pc \notin {"idle", "done"}
Still == \A r \in Hits : ~UnderWay(r)

MoveOn(r, pc) == hit' = [hit EXCEPT ![r].pc = pc]
Close(r) == hit' = [hit EXCEPT ![r] = Nothing("done")]

\* After get_or_create_session.
AfterSession(r) ==
    MoveOn(r, IF hit[r].kind = "beat" THEN "presence" ELSE "record")

visitRows == <<visit, views, event_rows, agents, source, utms>>
visitHistory == <<answers, answered, touches, lost, cuts, crossings>>

Times == 1..MaxClock

VisitInit ==
    /\ answers = [record |-> "none", banner |-> "yes"] /\ answered = 0
    /\ key = FALSE /\ visit = <<>> /\ presence = <<>> /\ clock = 1
    /\ views = <<>> /\ event_rows = <<>>
    /\ agents = 0 /\ source = FALSE /\ utms = 0
    /\ hit = [r \in Hits |-> Nothing("idle")]
    /\ touches = 0 /\ lost = 0 /\ cuts = 0 /\ crossings = 0

\* The consent record of somebody signed in goes over the cookie banner's, whichever is newer;
\* nobody is tracked unless they have agreed.
has_analytics_consent == answers.record = "yes" \/ (answers.record = "none" /\ answers.banner = "yes")

\* A request of the visitor comes in; what may not be tracked is answered with "recorded: 0".
Receive(r, kind, path, status, tracked, pc) ==
    /\ Reached(r, "idle") /\ kind \in HitKinds[r]
    /\ crossings' = crossings + IF Still THEN 0 ELSE 1
    /\ hit' = [hit EXCEPT ![r] =
                 IF tracked
                 THEN [pc |-> pc, kind |-> kind, path |-> path, status |-> status, read |-> <<>>]
                 ELSE Nothing("done")]
    /\ UNCHANGED <<answers, answered, key, visitRows, presence, clock, touches, lost, cuts>>

\* A page that the backend serves itself, recorded by the middleware once it has been answered.
BeginVisit(r) == Receive(r, "visit", Here, "active", has_analytics_consent, "exists")

BeginView(r) == Receive(r, "view", Here, "active", has_analytics_consent, "exists")

\* Several page views at once.
BeginViews(r) == Receive(r, "views", Here, "active", has_analytics_consent, "exists")

\* Events of the account ("signal": sign-up, login, logout) need no consent.
BeginEvent(r) ==
    \/ Receive(r, "event", Here, "active", has_analytics_consent, "exists")
    \/ Receive(r, "signal", Here, "active", TRUE, "exists")

BeginBeat(r, path, status) == Receive(r, "beat", path, status, has_analytics_consent, "seen")

-----------------------------------------------------------------------------
(* get_or_create_session *)

\* A heartbeat only prolongs the key of a session that goes on.
KeyAlive(r) ==
    /\ Reached(r, "seen")
    /\ MoveOn(r, IF key THEN "presence" ELSE "exists")
    /\ UNCHANGED <<visitHistory, key, visitRows, presence, clock>>

Exists(r) ==
    /\ Reached(r, "exists")
    /\ MoveOn(r, IF key THEN "count" ELSE "setex")
    /\ UNCHANGED <<visitHistory, key, visitRows, presence, clock>>

SetKey(r) ==
    /\ Reached(r, "setex")
    /\ key' = TRUE
    /\ MoveOn(r, "lookup")
    /\ UNCHANGED <<visitHistory, visitRows, presence, clock>>

\* Mutant of Lookup: a key that has lapsed is taken for a visitor who has never been there.
LookupNot(r) ==
    /\ Reached(r, "lookup")
    /\ MoveOn(r, "insert")
    /\ UNCHANGED <<visitHistory, key, visitRows, presence, clock>>

Lookup(r) ==
    /\ Reached(r, "lookup")
    /\ MoveOn(r, IF visit = <<>> THEN "insert" ELSE "count")
    /\ UNCHANGED <<visitHistory, key, visitRows, presence, clock>>

\* The UPDATE finds the row of the session, or none.
CountHit(r) ==
    /\ Reached(r, "count")
    /\ visit' = IF visit = <<>> THEN visit ELSE [visit EXCEPT !.count = @ + 1, !.ended = clock]
    /\ touches' = touches + 1
    /\ AfterSession(r)
    /\ UNCHANGED <<answers, answered, key, views, event_rows, agents, source, utms, presence, clock, lost, cuts,
                   crossings>>

\* session_id is unique: the request that comes second fails, and records nothing.
InsertSession(r) ==
    /\ Reached(r, "insert")
    /\ IF visit = <<>>
       THEN /\ visit' = [count |-> 1, started |-> clock, ended |-> 0]
            /\ touches' = touches + 1 /\ lost' = lost
            /\ AfterSession(r)
       ELSE /\ Close(r)
            /\ lost' = lost + 1
            /\ UNCHANGED <<visit, touches>>
    /\ UNCHANGED <<answers, answered, key, views, event_rows, agents, source, utms, presence, clock, cuts, crossings>>

-----------------------------------------------------------------------------
(* The page view or event, the browser, and where the visitor came from *)

RecordView(r) ==
    /\ Reached(r, "record") /\ hit[r].kind \in {"view", "visit"}
    /\ views' = Append(views, clock)
    /\ MoveOn(r, "agent")
    /\ UNCHANGED <<visitHistory, key, visit, event_rows, agents, source, utms, presence, clock>>

RecordViews(r) ==
    /\ Reached(r, "record") /\ hit[r].kind = "views"
    /\ views' = views \o <<clock, clock>>
    /\ Close(r)
    /\ UNCHANGED <<visitHistory, key, visit, event_rows, agents, source, utms, presence, clock>>

\* Of an event whose definition allows it (EventRegistry).
RecordEvent(r) ==
    /\ Reached(r, "record") /\ hit[r].kind \in {"event", "signal"}
    /\ event_rows' = Append(event_rows, clock)
    /\ Close(r)
    /\ UNCHANGED <<visitHistory, key, visit, views, agents, source, utms, presence, clock>>

\* Mutant of LookForAgent: every page view has its own.
LookForAgentNot(r) ==
    /\ Reached(r, "agent")
    /\ MoveOn(r, "store")
    /\ UNCHANGED <<visitHistory, key, visitRows, presence, clock>>

LookForAgent(r) ==
    /\ Reached(r, "agent")
    /\ MoveOn(r, IF agents > 0 THEN "source" ELSE "store")
    /\ UNCHANGED <<visitHistory, key, visitRows, presence, clock>>

StoreAgent(r) ==
    /\ Reached(r, "store")
    /\ agents' = agents + 1
    /\ MoveOn(r, "source")
    /\ UNCHANGED <<visitHistory, key, visit, views, event_rows, source, utms, presence, clock>>

\* Of a page view with a referrer: the first one stays. Only the middleware goes on.
StoreReferral(r) ==
    /\ Reached(r, "source")
    /\ \E referred \in BOOLEAN : source' = (source \/ referred)
    /\ IF hit[r].kind = "visit" THEN MoveOn(r, "utm") ELSE Close(r)
    /\ UNCHANGED <<visitHistory, key, visit, views, event_rows, agents, utms, presence, clock>>

\* Of a page whose address has the parameters of a campaign: a row each time.
StoreUtm(r) ==
    /\ Reached(r, "utm")
    /\ \E has_utm_params \in BOOLEAN : utms' = utms + IF has_utm_params THEN 1 ELSE 0
    /\ Close(r)
    /\ UNCHANGED <<visitHistory, key, visit, views, event_rows, agents, source, presence, clock>>

-----------------------------------------------------------------------------
(* The heartbeat *)

ReadPresence(r) ==
    /\ Reached(r, "presence")
    /\ hit' = [hit EXCEPT ![r].pc = "write", ![r].read = presence]
    /\ UNCHANGED <<visitHistory, key, visitRows, presence, clock>>

\* Mutant of IdleSince: coming back does not end it.
IdleSinceKept(old, status, was) == IF status = "idle" /\ (old = <<>> \/ old.status # "idle") THEN clock ELSE was

\* Since when the visitor has been away: kept by one idle heartbeat after the other.
IdleSince(old, status, was) ==
    CASE status = "active" -> 0
      [] status = "idle" /\ (old = <<>> \/ old.status # "idle") -> clock
      [] OTHER -> was

ActiveSince(old, path, status, was) ==
    IF status = "active" /\ (old = <<>> \/ old.path # path \/ old.status # "active") THEN clock ELSE was

EnteredAt(old, path, was) == IF old = <<>> \/ old.path # path THEN clock ELSE was

\* HSET goes over what is there by now, field by field; what was read decides on which fields.
WritePresence(r) ==
    /\ Reached(r, "write")
    /\ LET old == hit[r].read
           now == IF presence = <<>> THEN [entered |-> 0, idle |-> 0, active |-> 0]
                  ELSE [entered |-> presence.entered, idle |-> presence.idle, active |-> presence.active]
       IN presence' = [path    |-> hit[r].path,
                       status  |-> hit[r].status,
                       entered |-> EnteredAt(old, hit[r].path, now.entered),
                       idle    |-> IdleSince(old, hit[r].status, now.idle),
                       active  |-> ActiveSince(old, hit[r].path, hit[r].status, now.active)]
    /\ Close(r)
    /\ UNCHANGED <<visitHistory, key, visitRows, clock>>

-----------------------------------------------------------------------------
(* Time, consent and faults *)

Tick ==
    /\ clock < MaxClock /\ clock' = clock + 1
    /\ UNCHANGED <<visitHistory, key, visitRows, presence, hit>>

\* Half an hour after the last request.
KeyLapses ==
    /\ key /\ key' = FALSE
    /\ UNCHANGED <<visitHistory, visitRows, presence, clock, hit>>

\* 90 seconds after the last heartbeat, half an hour if that was an idle one; perhaps between two
\* commands of a request.
PresenceLapses ==
    /\ presence # <<>> /\ presence' = <<>>
    /\ crossings' = crossings + IF Still THEN 0 ELSE 1
    /\ UNCHANGED <<answers, answered, key, visitRows, clock, hit, touches, lost, cuts>>

\* The cookie banner's row is updated, or inserted.
AnswerBanner ==
    /\ answered < MaxAnswers /\ answered' = answered + 1
    /\ \E a \in {"yes", "no"} : answers' = [answers EXCEPT !.banner = a]
    /\ UNCHANGED <<key, visitRows, presence, clock, hit, touches, lost, cuts, crossings>>

\* Of somebody who is signed in.
AnswerRecord ==
    /\ answered < MaxAnswers /\ answered' = answered + 1
    /\ \E a \in {"yes", "no"} : answers' = [answers EXCEPT !.record = a]
    /\ UNCHANGED <<key, visitRows, presence, clock, hit, touches, lost, cuts, crossings>>

Cut(r) ==
    /\ UnderWay(r) /\ cuts < MaxCuts
    /\ Close(r) /\ cuts' = cuts + 1
    /\ UNCHANGED <<answers, answered, key, visitRows, presence, clock, touches, lost, crossings>>

VisitStep(r) ==
    \/ KeyAlive(r) \/ Exists(r) \/ SetKey(r) \/ Lookup(r) \/ CountHit(r) \/ InsertSession(r)
    \/ RecordView(r) \/ RecordViews(r) \/ RecordEvent(r) \/ LookForAgent(r) \/ StoreAgent(r)
    \/ StoreReferral(r) \/ StoreUtm(r) \/ ReadPresence(r) \/ WritePresence(r) \/ Cut(r)

VisitNext ==
    \/ \E r \in Hits :
          \/ VisitStep(r)
          \/ BeginVisit(r) \/ BeginView(r) \/ BeginViews(r) \/ BeginEvent(r)
          \/ \E path \in Paths, status \in {"active", "idle"} : BeginBeat(r, path, status)
    \/ Tick \/ KeyLapses \/ PresenceLapses \/ AnswerBanner \/ AnswerRecord

VisitSpec == VisitInit /\ [][VisitNext]_visitVars

-----------------------------------------------------------------------------
(* What administrators are shown of the visitor, of the time from `from` up to `end` *)

Within(t, from, end) == from <= t /\ t < end
One(condition) == IF condition THEN 1 ELSE 0

total_views(from, end) == Cardinality({v \in DOMAIN views : Within(views[v], from, end)})
total_events(from, end) == Cardinality({e \in DOMAIN event_rows : Within(event_rows[e], from, end)})

unique_visitors(from, end) == One(total_views(from, end) > 0)

\* Mutant of Started: sessions are counted where they have been seen last.
StartedLast(from, end) == visit # <<>> /\ Within(visit.ended, from, end)

\* Sessions are counted where they have started.
Started(from, end) == visit # <<>> /\ Within(visit.started, from, end)

total_sessions(from, end) == One(Started(from, end))
bounced(from, end) == One(Started(from, end) /\ visit.count = 1)

\* "Sessions" of a source are its rows, one a session; those of a campaign are every row of it.
SessionsFrom(from, end) == One(Started(from, end) /\ source)
SessionsOfCampaign(from, end) == IF Started(from, end) THEN utms ELSE 0

\* A device counts for a session that was going on.
total_agents(from, end) ==
    IF visit # <<>> /\ visit.started < end /\ (IF visit.ended = 0 THEN visit.started ELSE visit.ended) >= from
    THEN agents ELSE 0

kpi_for_range(from, end) ==
    [total_pageviews |-> total_views(from, end), unique_visitors |-> unique_visitors(from, end),
     total_sessions |-> total_sessions(from, end), bounced |-> bounced(from, end),
     avg_pages |-> IF Started(from, end) THEN visit.count ELSE 0]

\* Of the page of the visit.
entry_count(from, end) == One(total_views(from, end) > 0)
bounce_count(from, end) == One(total_views(from, end) > 0 /\ bounced(from, end) = 1)

\* What get_active_sessions lists of the visitor: a row for each session joined with each browser.
Listed == IF key /\ visit # <<>> THEN (IF agents = 0 THEN 1 ELSE agents) ELSE 0

\* The journey of the session, which is not found without its row.
get_session_detail ==
    IF visit = <<>> THEN <<>>
    ELSE [is_active |-> key, pages |-> total_views(1, MaxClock + 1), presence |-> presence]

-----------------------------------------------------------------------------
(* Properties *)

VisitTypeOK ==
    /\ answers \in [record : {"none", "yes", "no"}, banner : {"none", "yes", "no"}] /\ key \in BOOLEAN
    /\ visit = <<>> \/ visit \in [count : Nat \ {0}, started : Times, ended : {0} \cup Times]
    /\ views \in Seq(Times) /\ event_rows \in Seq(Times)
    /\ agents \in Nat /\ source \in BOOLEAN /\ utms \in Nat
    /\ \/ presence = <<>>
       \/ presence \in [path : Paths, status : {"active", "idle"}, entered : 0..MaxClock,
                        idle : 0..MaxClock, active : 0..MaxClock]
    /\ clock \in Times

Always == MaxClock + 1
Traces == total_views(1, Always) + total_events(1, Always)

\* A visitor whose requests come one after the other, and none of them cut off, has a session
\* that has counted each of them, before and after its key has lapsed, and turned none away; one
\* browser; and is listed once.
VisitIsCounted ==
    crossings = 0 /\ cuts = 0 =>
        /\ lost = 0 /\ agents <= 1 /\ Listed <= 1
        /\ visit # <<>> => visit.count = touches
        /\ kpi_for_range(1, clock + 1).avg_pages = touches
        /\ Still /\ Traces > 0 => visit # <<>>

\* Every request that is turned away, every request the session has not counted and every second
\* browser of the visitor costs requests that overlap; page views without a session cost a request
\* that is cut off between the key in Redis and the row.
RowsAreBounded ==
    /\ lost <= crossings /\ agents <= 1 + crossings
    /\ cuts = 0 /\ visit # <<>> => visit.count + crossings >= touches
    /\ Still /\ Traces > 0 /\ visit = <<>> => cuts > 0

\* What is shown of one visitor agrees, as long as their requests come one after the other and none
\* is cut off: whoever has viewed pages since the beginning has a session that has started by then
\* and whose journey is found; a session with one request is the only one that bounces, from the
\* page it has entered by; and there are no more devices and sources than sessions.
ReportsAgree ==
    crossings = 0 /\ cuts = 0 =>
        \A end \in 1..Always :
            LET kpi == kpi_for_range(1, end) IN
            /\ kpi.unique_visitors <= kpi.total_sessions
            /\ kpi.total_pageviews > 0 => get_session_detail # <<>>
            /\ kpi.bounced = 1 => touches = 1 /\ kpi.total_pageviews <= 2
            /\ bounce_count(1, end) <= entry_count(1, end) /\ bounce_count(1, end) <= kpi.bounced
            /\ total_agents(1, end) <= kpi.total_sessions /\ SessionsFrom(1, end) <= kpi.total_sessions
            /\ SessionsOfCampaign(1, end) <= total_views(1, Always)

\* Heartbeats that do not overlap leave a presence that says since when exactly if it says that
\* the visitor is away, and that they were active before.
PresenceAgrees ==
    crossings = 0 /\ presence # <<>> =>
        /\ presence.status = "idle" <=> presence.idle > 0
        /\ presence.status = "idle" => presence.active <= presence.idle
        /\ presence.status = "active" => presence.entered <= presence.active

\* What is recorded and shown of a visit adds up.
VisitsAddUp == VisitIsCounted /\ RowsAreBounded /\ ReportsAgree /\ PresenceAgrees
=============================================================================
