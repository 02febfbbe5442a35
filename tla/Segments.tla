------------------------------ MODULE Segments ------------------------------
(***************************************************************************)
(* Audiences: a segment is described by filters and, when a saved metric   *)
(* backs it, by the metric's SQL; its user_count is a number somebody has  *)
(* computed. Segments, metrics, the presets' seeding and the recount each  *)
(* write their own side. A request reads, then writes in one COMMIT.       *)
(***************************************************************************)
EXTENDS Naturals, FiniteSets, SequencesExt

CONSTANTS
    Users,        \* in core.users
    Traits,       \* [Users -> SUBSET {"no_consent", "unverified", "visitor", "event", "subscriber", "buyer"}]
    CartsOf,      \* [Users -> Nat], rows of ecommerce.cart with the status asked for
    Drafts,       \* filters that are asked for: sets of criteria
    Preset,       \* in Drafts: filters of the one preset
    Queries,      \* SQL somebody writes: "anybody" in core.users, "plain" has no column user_id
    Requests,
    Kinds,        \* [Requests -> SUBSET {"create", "update", "delete", "save", "rewrite", "flag", "discard",
                  \*  "seed", "recount"}]
    MaxFaults     \* requests that fail or are cut off, expiries of the cache

VARIABLES
    metrics,      \* analytics.saved_metrics: sql, is_audience, preset, kept
    segments,     \* marketing.audience_segments: filters, metric (0: NULL), count, computed, system, kept
    cached,       \* SQL with a result in Redis
    req,
    edited,       \* history: segments one of whose two sides has been written without the other
    recounted,    \* history: nothing has been written since the last recount
    overlaps,     \* history: how often a request has begun while another was in progress
    faults

vars == <<metrics, segments, cached, req, edited, recounted, overlaps, faults>>

-----------------------------------------------------------------------------
(* Filters and SQL *)

\* A query made of filters, or one somebody has written.
Of(filters) == [own |-> "no", filters |-> filters]
Written(query) == [own |-> query, filters |-> {}]
SqlSpace == {Of(f) : f \in Drafts} \cup {Written(q) : q \in Queries}

\* The eligibility of everybody; asking for unverified users drops one part of it.
Base(u, filters) ==
    /\ "no_consent" \notin Traits[u]
    /\ "unverified" \in filters \/ "unverified" \notin Traits[u]

\* Every criterion is a condition of its own, EXISTS or NOT EXISTS: on what the user's visits were
\* made with, led to and scored,
Visited(u, criterion) == criterion = "visit" => "visitor" \in Traits[u]

\* on the events of theirs there are, or are not,
Did(u, criterion) ==
    /\ criterion = "event" => "event" \in Traits[u]
    /\ criterion = "no_event" => "event" \notin Traits[u]

\* on subscriptions, carts left behind and visits they make, or do not make any more,
Stands(u, criterion) ==
    /\ criterion = "subscribed" => "subscriber" \in Traits[u]
    /\ criterion = "inactive" => "visitor" \notin Traits[u]

\* and on what they have bought, and what not.
Bought(u, criterion) ==
    /\ criterion = "order" => "buyer" \in Traits[u]
    /\ criterion = "no_order" => "buyer" \notin Traits[u]

\* The status of a cart is asked of the rows joined.
Meets(u, criterion) ==
    /\ Visited(u, criterion) /\ Did(u, criterion) /\ Stands(u, criterion) /\ Bought(u, criterion)
    /\ criterion = "cart" => CartsOf[u] > 0

Selected(filters) == {u \in Users : Base(u, filters) /\ \A c \in filters : Meets(u, c)}

\* What somebody is joined to: the carts of that status are as many rows, the metrics at most one.
Joined(u, filters) == IF "cart" \in filters THEN CartsOf[u] ELSE 1

\* COUNT(*) counts rows: somebody with two carts is counted twice.
Rows(filters) ==
    LET JoinedBy(u) == Joined(u, filters) IN MapThenSumSet(JoinedBy, Selected(filters))

RowsOf(sql) == IF sql.own = "no" THEN Rows(sql.filters) ELSE Cardinality(Users)

HasUserIds(sql) == sql.own # "plain"

UsersOf(sql) == IF sql.own = "no" THEN Selected(sql.filters) ELSE Users

-----------------------------------------------------------------------------
(* State *)

Idle == [pc |-> "idle"]
Ended == [pc |-> "done"]
InProgress(r) == req[r] \notin {Idle, Ended}
At(r, pc) == req[r].pc = pc
Return(r) == req' = [req EXCEPT ![r] = Ended]

Begin(r, kind) ==
    /\ req[r] = Idle /\ kind \in Kinds[r]
    /\ overlaps' = overlaps + IF \E x \in Requests : InProgress(x) THEN 1 ELSE 0

LiveMetrics == {m \in DOMAIN metrics : metrics[m].kept}
LiveSegments == {s \in DOMAIN segments : segments[s].kept}
LinkedTo(m) == {s \in LiveSegments : segments[s].metric = m}
PresetMetrics == {m \in LiveMetrics : metrics[m].preset}

IsAudience(m) == metrics[m].audience

NewMetric(sql, audience, preset) == [sql |-> sql, audience |-> audience, preset |-> preset, kept |-> TRUE]

NewSegment(filters, metric, count, computed, system) ==
    [filters |-> filters, metric |-> metric, count |-> count, computed |-> computed, system |-> system,
     kept |-> TRUE]

Init ==
    /\ metrics = <<>> /\ segments = <<>> /\ cached = {}
    /\ req = [r \in Requests |-> Idle]
    /\ edited = {} /\ recounted = FALSE /\ overlaps = 0 /\ faults = 0

-----------------------------------------------------------------------------
(* Segments *)

\* create_segment up to its INSERTs, for filters or for a metric that is an audience.
Create(r, filters, m) ==
    /\ Begin(r, "create")
    /\ m # 0 => IsAudience(m)
    /\ req' = [req EXCEPT ![r] =
                 [pc |-> "create", filters |-> filters, metric |-> m,
                  count |-> IF m # 0 THEN RowsOf(metrics[m].sql) ELSE Rows(filters)]]
    /\ UNCHANGED <<metrics, segments, cached, edited, recounted, faults>>

\* Filters get a metric of their own; no filters get none.
MetricFor(q) == IF q.metric = 0 /\ q.filters # {} THEN Len(metrics) + 1 ELSE q.metric

\* Both INSERTs. A metric that has gone meanwhile fails the foreign key.
CreateWrite(r) ==
    LET q == req[r]
        own == q.metric = 0 /\ q.filters # {}
    IN /\ At(r, "create")
       /\ IF q.metric # 0 /\ ~metrics[q.metric].kept
          THEN UNCHANGED <<metrics, segments, edited, recounted>>
          ELSE /\ metrics' = IF own
                             THEN Append(metrics, NewMetric(Of(q.filters), TRUE, FALSE))
                             ELSE metrics
               /\ segments' = Append(segments, NewSegment(q.filters, MetricFor(q), q.count, TRUE, FALSE))
               /\ edited' = IF q.metric # 0 /\ metrics[q.metric].sql # Of(q.filters)
                            THEN edited \cup {Len(segments) + 1}
                            ELSE edited
               /\ recounted' = FALSE
       /\ Return(r)
       /\ UNCHANGED <<cached, overlaps, faults>>

\* update_segment counts what the new filters select; what a metric says stays as it is.
Update(r, s, filters) ==
    /\ Begin(r, "update")
    /\ ~segments[s].system
    /\ req' = [req EXCEPT ![r] = [pc |-> "update", segment |-> s, filters |-> filters, count |-> Rows(filters)]]
    /\ UNCHANGED <<metrics, segments, cached, edited, recounted, faults>>

\* Mutant of Refined: the count is left to the next recount.
RefinedUncounted(segment, q) == [segment EXCEPT !.filters = q.filters]

Refined(segment, q) == [segment EXCEPT !.filters = q.filters, !.count = q.count, !.computed = TRUE]

UpdateWrite(r) ==
    LET q == req[r]
    IN /\ At(r, "update")
       /\ IF segments[q.segment].kept
          THEN /\ segments' = [segments EXCEPT ![q.segment] = Refined(@, q)]
               /\ edited' = IF segments[q.segment].metric # 0 THEN edited \cup {q.segment} ELSE edited
               /\ recounted' = FALSE
          ELSE UNCHANGED <<segments, edited, recounted>>
       /\ Return(r)
       /\ UNCHANGED <<metrics, cached, overlaps, faults>>

\* delete_segment: not those of presets; the metric stays.
Delete(r, s) ==
    /\ Begin(r, "delete")
    /\ ~segments[s].system
    /\ segments' = [segments EXCEPT ![s].kept = FALSE]
    /\ Return(r)
    /\ UNCHANGED <<metrics, cached, edited, recounted, faults>>

-----------------------------------------------------------------------------
(* Metrics *)

\* _execute_query remembers the result, and leaves the transaction it has run in read-only.
ReadOnlyAfter(sql) == sql \notin cached

Save(r, sql, audience) ==
    /\ Begin(r, "save")
    /\ IF audience
       THEN /\ cached' = cached \cup {sql}
            /\ IF HasUserIds(sql) /\ ~ReadOnlyAfter(sql)
               THEN metrics' = Append(metrics, NewMetric(sql, TRUE, FALSE))
               ELSE UNCHANGED metrics
       ELSE metrics' = Append(metrics, NewMetric(sql, FALSE, FALSE)) /\ UNCHANGED cached
    /\ Return(r)
    /\ UNCHANGED <<segments, edited, recounted, faults>>

\* Mutant of NeedsCheck: only where the flag is set.
NeedsCheckOfFlag(m, to) == to.flag = "on"

\* update_metric checks the SQL when the flag is set, or the SQL of an audience is changed.
NeedsCheck(m, to) == to.flag = "on" \/ (to.flag = "same" /\ to.sql # <<>> /\ IsAudience(m))

CheckedSql(m, to) == IF to.sql = <<>> THEN metrics[m].sql ELSE to.sql[1]

Change(r, kind, m, to) ==
    /\ Begin(r, kind)
    /\ IF NeedsCheck(m, to)
       THEN LET sql == CheckedSql(m, to)
            IN /\ cached' = cached \cup {sql}
               /\ req' = [req EXCEPT ![r] = IF HasUserIds(sql) /\ ~ReadOnlyAfter(sql)
                                            THEN [pc |-> "change", metric |-> m, to |-> to]
                                            ELSE Ended]
       ELSE UNCHANGED cached /\ req' = [req EXCEPT ![r] = [pc |-> "change", metric |-> m, to |-> to]]
    /\ UNCHANGED <<metrics, segments, edited, recounted, faults>>

Rewrite(r, m, sql) == Change(r, "rewrite", m, [flag |-> "same", sql |-> <<sql>>])
Flag(r, m, flag) == Change(r, "flag", m, [flag |-> flag, sql |-> <<>>])

ChangeWrite(r) ==
    LET m == req[r].metric
        to == req[r].to
    IN /\ At(r, "change")
       /\ IF metrics[m].kept
          THEN /\ metrics' = [metrics EXCEPT
                                ![m].sql = IF to.sql = <<>> THEN @ ELSE to.sql[1],
                                ![m].audience = CASE to.flag = "on" -> TRUE [] to.flag = "off" -> FALSE [] OTHER -> @]
               /\ edited' = IF to.sql = <<>> THEN edited ELSE edited \cup LinkedTo(m)
               /\ recounted' = FALSE
          ELSE UNCHANGED <<metrics, edited, recounted>>
       /\ Return(r)
       /\ UNCHANGED <<segments, cached, overlaps, faults>>

\* delete_metric: the foreign key sets its segments' metric to NULL, and their filters apply.
Discard(r, m) ==
    /\ Begin(r, "discard")
    /\ metrics' = [metrics EXCEPT ![m].kept = FALSE]
    /\ segments' = [s \in DOMAIN segments |->
                      IF segments[s].metric = m THEN [segments[s] EXCEPT !.metric = 0] ELSE segments[s]]
    /\ recounted' = FALSE
    /\ Return(r)
    /\ UNCHANGED <<cached, edited, faults>>

\* execute_query
Execute(sql) ==
    /\ sql \notin cached
    /\ cached' = cached \cup {sql}
    /\ UNCHANGED <<metrics, segments, req, edited, recounted, overlaps, faults>>

\* run_metric
Run(m) == Execute(metrics[m].sql)

Expire(sql) ==
    /\ sql \in cached /\ faults < MaxFaults
    /\ cached' = cached \ {sql} /\ faults' = faults + 1
    /\ UNCHANGED <<metrics, segments, req, edited, recounted, overlaps>>

-----------------------------------------------------------------------------
(* Presets and counts *)

\* seed_audience_presets looks for the metric of its preset.
Seed(r) ==
    /\ Begin(r, "seed")
    /\ req' = [req EXCEPT ![r] = [pc |-> "seed", found |-> PresetMetrics]]
    /\ UNCHANGED <<metrics, segments, cached, edited, recounted, faults>>

\* Mutant of FirstSegment: one for every seeding.
FirstSegmentAlways(m) == TRUE

FirstSegment(m) == LinkedTo(m) = {}

\* It is updated, or inserted, and gets a segment if it has none. A metric that has appeared
\* meanwhile fails the UNIQUE constraint, one that has gone the foreign key.
SeedWrite(r) ==
    LET m == IF req[r].found = {} THEN Len(metrics) + 1 ELSE CHOOSE x \in req[r].found : TRUE
        fits == IF req[r].found = {} THEN PresetMetrics = {} ELSE metrics[m].kept
    IN /\ At(r, "seed")
       /\ IF fits
          THEN /\ metrics' = IF m > Len(metrics)
                             THEN Append(metrics, NewMetric(Of(Preset), TRUE, TRUE))
                             ELSE [metrics EXCEPT ![m].sql = Of(Preset)]
               /\ segments' = IF FirstSegment(m)
                              THEN Append(segments, NewSegment(Preset, m, 0, FALSE, TRUE))
                              ELSE segments
               /\ edited' = IF m <= Len(metrics) /\ metrics[m].sql # Of(Preset)
                            THEN edited \cup LinkedTo(m) ELSE edited
               /\ req' = [req EXCEPT ![r] = [pc |-> "recount"]]
          ELSE Return(r) /\ UNCHANGED <<metrics, segments, edited>>
       /\ recounted' = FALSE
       /\ UNCHANGED <<cached, overlaps, faults>>

Recount(r) ==
    /\ Begin(r, "recount")
    /\ req' = [req EXCEPT ![r] = [pc |-> "recount"]]
    /\ UNCHANGED <<metrics, segments, cached, edited, recounted, faults>>

\* Mutant of Countable: presets only.
CountablePresets == {s \in LiveSegments : segments[s].metric \in PresetMetrics /\ IsAudience(segments[s].metric)}

\* Segments of the metrics that are audiences.
Countable == {s \in LiveSegments : segments[s].metric # 0 /\ IsAudience(segments[s].metric)}

\* refresh_audience_counts reads SQL and segments, then
RecountRead(r) ==
    /\ At(r, "recount")
    /\ req' = [req EXCEPT ![r] =
                 [pc |-> "count", found |-> [s \in Countable |-> metrics[segments[s].metric].sql]]]
    /\ UNCHANGED <<metrics, segments, cached, edited, recounted, overlaps, faults>>

\* counts each, all in one COMMIT.
RecountWrite(r) ==
    LET found == req[r].found
    IN /\ At(r, "count")
       /\ segments' = [s \in DOMAIN segments |->
                         IF s \in DOMAIN found
                         THEN [segments[s] EXCEPT !.count = RowsOf(found[s]), !.computed = TRUE]
                         ELSE segments[s]]
       /\ recounted' = TRUE
       /\ Return(r)
       /\ UNCHANGED <<metrics, cached, edited, overlaps, faults>>

\* A request is cut off; or a statement fails, of those of a recount too, which fails all that
\* come after it with it, and the COMMIT.
Fail(r) ==
    /\ InProgress(r) /\ faults < MaxFaults
    /\ Return(r) /\ faults' = faults + 1
    /\ UNCHANGED <<metrics, segments, cached, edited, recounted, overlaps>>

Next ==
    \/ \E r \in Requests :
          \/ \E f \in Drafts, m \in {0} \cup LiveMetrics : Create(r, f, m)
          \/ \E s \in LiveSegments : Delete(r, s) \/ \E f \in Drafts : Update(r, s, f)
          \/ \E sql \in SqlSpace, audience \in BOOLEAN : Save(r, sql, audience)
          \/ \E m \in LiveMetrics :
                \/ Discard(r, m)
                \/ \E sql \in SqlSpace : Rewrite(r, m, sql)
                \/ \E flag \in {"on", "off"} : Flag(r, m, flag)
          \/ Seed(r) \/ Recount(r)
          \/ CreateWrite(r) \/ UpdateWrite(r) \/ ChangeWrite(r)
          \/ SeedWrite(r) \/ RecountRead(r) \/ RecountWrite(r) \/ Fail(r)
    \/ \E sql \in SqlSpace : Execute(sql) \/ Expire(sql)
    \/ \E m \in LiveMetrics : Run(m)

Spec == Init /\ [][Next]_vars

-----------------------------------------------------------------------------
(* Properties *)

\* Its metric is no audience any more: _get_metric_sql raises, and whoever asks for its users gets none.
SwitchedOff(s) == segments[s].metric # 0 /\ ~IsAudience(segments[s].metric)

\* resolve_segment_user_ids
Resolved(s) ==
    IF SwitchedOff(s) THEN {}
    ELSE IF segments[s].metric # 0 THEN UsersOf(metrics[segments[s].metric].sql)
    ELSE Selected(segments[s].filters)

TypeOK ==
    /\ metrics \in Seq([sql : SqlSpace, audience : BOOLEAN, preset : BOOLEAN, kept : BOOLEAN])
    /\ segments \in Seq([filters : Drafts, metric : 0..Len(metrics), count : Nat, computed : BOOLEAN,
                         system : BOOLEAN, kept : BOOLEAN])
    /\ cached \subseteq SqlSpace /\ edited \subseteq DOMAIN segments

\* A segment counts those its filters describe and reaches no others, whatever becomes of its metric,
\* until one of the two is written without the other, or requests overlap; and it reaches all of them
\* unless its metric has been switched off as an audience: then nobody, until it is switched on again
\* or discarded.
ReachesWhomItSays ==
    overlaps = 0 =>
        \A s \in LiveSegments \ edited :
            /\ Resolved(s) = IF SwitchedOff(s) THEN {} ELSE Selected(segments[s].filters)
            /\ segments[s].computed => segments[s].count = Rows(segments[s].filters)

\* Right after a recount the audiences of metrics are counted, however they have been edited.
RecountSetsRight ==
    recounted /\ overlaps = 0 =>
        \A s \in LiveSegments :
            segments[s].metric # 0 /\ IsAudience(segments[s].metric) =>
                segments[s].computed /\ segments[s].count = RowsOf(metrics[segments[s].metric].sql)

\* What is an audience has users, unless requests have overlapped.
AudiencesHaveUsers == overlaps = 0 => \A m \in LiveMetrics : IsAudience(m) => HasUserIds(metrics[m].sql)

\* Seeding, repeated or at the same time, leaves one metric of the preset with one segment.
PresetIsOne ==
    /\ Cardinality(PresetMetrics) <= 1
    /\ \A m \in PresetMetrics : Cardinality({s \in LinkedTo(m) : segments[s].system}) <= 1
=============================================================================
