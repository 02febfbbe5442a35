-------------------------- MODULE SchemaMigrations --------------------------
(***************************************************************************)
(* How a database gets its schema: scripts/migrate.py applies the files of *)
(* migrations/ in order, one transaction with its record each but for one  *)
(* that commits itself first, rolls them back, or records old ones unseen  *)
(* ("baseline"); scripts/ensure_tables.py then creates whatever tables are *)
(* missing. A deployment runs all three and goes on whatever fails;        *)
(* operators run migrate.py by hand; the files that apply depend on the    *)
(* environment. Nothing keeps two runs apart.                              *)
(***************************************************************************)
EXTENDS Naturals, FiniteSets, Sequences

CONSTANTS
    Runs,        \* of the scripts, by deployments and operators
    RunKinds,    \* [Runs -> SUBSET {"deploy", "up", "down", "baseline"}]
    Targets,     \* the versions somebody rolls back to; 0 for all but the file that makes the schemas
    MaxSwitches, MaxBreaks  \* bounds

ASSUME RunsAreKnown == RunKinds \in [Runs -> SUBSET {"deploy", "up", "down", "baseline"}] /\ Targets \subseteq Nat

VARIABLES
    objects,     \* what exists in the database
    recorded,    \* public.schema_migrations
    template, tracking,  \* APP_TEMPLATE, ENABLE_TRACKING
    script,      \* each run: the commands left to do, and what the first of them is still to carry out
    apart,       \* runs that have committed the statements of their file and not its record
    ahead,       \* history: objects that exist though no file is recorded for them
    unfounded,   \* history: objects recorded that do not exist: by a baseline, or dropped before the record
    unexplained, \* history: versions refused with nothing to blame
    seedings,    \* history: how often runs have put the default fee tiers into their table as it stands
    switches,
    concurrent,  \* history: how often a run began while another was in progress
    breaks

schemaVars == <<objects, recorded, template, tracking, script, apart, ahead, unfounded, unexplained,
                seedings, switches, concurrent, breaks>>

Commands == {"baseline", "up", "ensure", "down"}
Running(todo, plan) == [pc |-> "running", todo |-> todo, plan |-> plan]
NotRunning(pc) == [pc |-> pc, todo |-> <<>>, plan |-> {}]

IsRunning(r) == script[r].pc = "running"
SetTo(r, state) == script' = [script EXCEPT ![r] = state]
Carry(r, todo, plan) == SetTo(r, IF todo = <<>> THEN NotRunning("done") ELSE Running(todo, plan))

-----------------------------------------------------------------------------
(* What the scripts bring: of the 45 files those that differ in how they   *)
(* can go wrong, with a table for all that one creates                     *)

\* What it creates, what of it without IF NOT EXISTS, what must be there, and
\* the setting it is for.
File(version, makes, plain, needs, only) ==
    [version |-> version, makes |-> makes, plain |-> plain, needs |-> needs, only |-> only]

Files == {
    File(1, {"users"}, {"users"}, {}, "any"),
    File(2, {"orders"}, {"orders"}, {"users"}, "ecommerce"),
    File(2, {"plans"}, {"plans"}, {"users"}, "saas"),
    File(4, {"events"}, {"events"}, {"users"}, "tracking"),
    File(14, {"tiers"}, {}, {"orders"}, "any"),
    File(15, {"restrictions"}, {"restrictions"}, {"orders"}, "any"),
    File(24, {"campaigns"}, {"campaigns"}, {"users"}, "any"),
    File(28, {"metrics"}, {"metrics"}, {"users"}, "any"),
    File(33, {"recipients", "oncePerUser"}, {"recipients"}, {"campaigns", "events"}, "any"),
    File(34, {"definitions"}, {}, {"events"}, "any") }

\* The UP section of 014 has a BEGIN and a COMMIT of its own: migrate.py records what is committed.
CommitsItself(f) == f.version = 14

\* The DOWN sections of these alter tables that earlier files have made.
Alters(f) == IF f.version \in {14, 15, 33} THEN f.needs ELSE {}

\* What a deployment takes for granted.
Tracked == 31

\* ensure_tables.py, in its order: tables of files that are only recorded; those of files that
\* are applied, without the index that keeps a campaign from sending to a user twice; and those
\* of files that find them without harm.
EnsuredOfOld      == [version |-> 1, makes |-> {"metrics"}, needs |-> {"users"}]
EnsuredOfPipeline == [version |-> 2, makes |-> {"recipients"}, needs |-> {"campaigns"}]
EnsuredOfEvents   == [version |-> 3, makes |-> {"definitions"}, needs |-> {"events"}]

Ensured == {EnsuredOfOld, EnsuredOfPipeline, EnsuredOfEvents}

Versions == {f.version : f \in Files}
Old == {f \in Files : f.version <= Tracked}
MadeApart == UNION {f.makes : f \in {g \in Files : CommitsItself(g)}}
Plain == UNION {f.plain : f \in Files}

\* Empty, or with tables from before anything was recorded.
SchemaInit ==
    /\ objects \in {{}, UNION {f.makes : f \in {o \in Old : o.only # "saas"}}}
    /\ recorded = {} /\ template \in {"ecommerce", "saas"} /\ tracking \in BOOLEAN
    /\ script = [r \in Runs |-> NotRunning("idle")]
    /\ apart = {} /\ ahead = objects /\ unfounded = {} /\ unexplained = {}
    /\ seedings = 0 /\ switches = 0 /\ concurrent = 0 /\ breaks = 0

\* Somebody edits .env between two runs.
Switch ==
    /\ switches < MaxSwitches /\ switches' = switches + 1
    /\ \/ template' \in {"ecommerce", "saas"} \ {template} /\ tracking' = tracking
       \/ tracking' = ~tracking /\ template' = template
    /\ UNCHANGED <<objects, recorded, script, apart, ahead, unfounded, unexplained, seedings, concurrent, breaks>>

-----------------------------------------------------------------------------
(* migrate.py *)

\* Mutant of Applies: the files of both templates.
AppliesAlways(f) == f.only # "tracking" \/ tracking

Applies(f) == f.only \in {"any", template} \/ (f.only = "tracking" /\ tracking)

Applicable(versions) == {f \in Files : Applies(f) /\ f.version \in versions}
Pending == Applicable(Versions \ recorded)
Rollbacks(target) == Applicable({v \in recorded : v > target})

Steps(kind) == IF kind = "deploy" THEN <<"baseline", "up", "ensure">> ELSE <<kind>>

StartRun(r, kind) ==
    /\ script[r].pc = "idle" /\ kind \in RunKinds[r]
    /\ concurrent' = concurrent + IF \E x \in Runs : IsRunning(x) THEN 1 ELSE 0
    /\ SetTo(r, Running(Steps(kind), {}))
    /\ UNCHANGED <<objects, recorded, template, tracking, apart, ahead, unfounded, unexplained, seedings,
                   switches, breaks>>

On(r, command) == IsRunning(r) /\ Head(script[r].todo) = command

\* What is to be done is read once, at the start of the command.
ReadPlan(r, command, plan) ==
    /\ On(r, command) /\ script[r].plan = {}
    /\ Carry(r, IF plan = {} THEN Tail(script[r].todo) ELSE script[r].todo, plan)
    /\ UNCHANGED <<objects, recorded, template, tracking, apart, ahead, unfounded, unexplained,
                   seedings, switches, concurrent, breaks>>

Unseen(f) == Applies(f) /\ f.version <= Tracked /\ f.version \notin recorded

Baseline(r) ==
    /\ On(r, "baseline")
    /\ LET files == {f \in Files : Unseen(f)}
           made == UNION {f.makes : f \in files}
       IN /\ recorded' = recorded \cup {f.version : f \in files}
          /\ unfounded' = unfounded \cup (made \ objects)
          /\ ahead' = ahead \ made
    /\ Carry(r, Tail(script[r].todo), {})
    /\ UNCHANGED <<objects, template, tracking, apart, unexplained, seedings, switches, concurrent, breaks>>

\* Mutant of IsDue: a rollback in the order in which the files were applied.
IsDueFirst(r, f) == \A g \in script[r].plan : f.version <= g.version

\* Up from the first file to the last, down from the last to the first.
IsDue(r, f) == \A g \in script[r].plan : IF On(r, "down") THEN g.version <= f.version ELSE f.version <= g.version

\* One file is done with.
Ticked(r, f) ==
    LET rest == script[r].plan \ {f} IN
    Carry(r, IF rest = {} THEN Tail(script[r].todo) ELSE script[r].todo, rest)

\* A failure ends the command; a deployment goes on with its next one.
Abandon(r) == Carry(r, Tail(script[r].todo), {})

\* CREATE TABLE of what exists, a table that is missing.
Fails(f) == f.plain \cap objects # {} \/ ~(f.needs \subseteq objects)

\* Or a version recorded meanwhile: for a file that commits itself, when its statements are.
Refuses(r, f) ==
    \/ r \notin apart /\ Fails(f)
    \/ f.version \in recorded /\ (CommitsItself(f) <=> r \in apart)

\* Mutant of Applied: the file's statements are committed before its record.
AppliedApart(f) == objects' = objects \cup f.makes /\ recorded' \in {recorded, recorded \cup {f.version}}

Applied(f) == objects' = objects \cup f.makes /\ recorded' = recorded \cup {f.version}

Apply(r, f) ==
    /\ On(r, "up") /\ IsDue(r, f)
    /\ ~CommitsItself(f) /\ ~Refuses(r, f)
    /\ Applied(f)
    /\ ahead' = ahead \ f.makes /\ unfounded' = unfounded \ f.makes
    /\ Ticked(r, f)
    /\ UNCHANGED <<template, tracking, apart, unexplained, seedings, switches, concurrent, breaks>>

\* No key keeps the tiers from being inserted again: ON CONFLICT finds none.
ApplyApart(r, f) ==
    /\ On(r, "up") /\ IsDue(r, f)
    /\ CommitsItself(f) /\ r \notin apart /\ ~Fails(f)
    /\ objects' = objects \cup f.makes /\ unfounded' = unfounded \ f.makes
    /\ seedings' = seedings + 1 /\ apart' = apart \cup {r}
    /\ UNCHANGED <<recorded, template, tracking, script, ahead, unexplained, switches, concurrent, breaks>>

\* The INSERT of the version comes in no transaction.
Record(r, f) ==
    /\ On(r, "up") /\ IsDue(r, f)
    /\ CommitsItself(f) /\ r \in apart /\ ~Refuses(r, f)
    /\ recorded' = recorded \cup {f.version} /\ apart' = apart \ {r}
    /\ ahead' = ahead \ f.makes /\ unfounded' = unfounded \cup (f.makes \ objects)
    /\ Ticked(r, f)
    /\ UNCHANGED <<objects, template, tracking, unexplained, seedings, switches, concurrent, breaks>>

\* Nothing is in the way that a file would trip over.
Blameless == ahead \cap Plain = {} /\ unfounded = {} /\ concurrent = 0 /\ switches = 0

Refuse(r, f) ==
    /\ unexplained' = unexplained \cup
         IF Blameless /\ template = "ecommerce" /\ tracking THEN {f.version} ELSE {}
    /\ Abandon(r)
    /\ apart' = apart \ {r}
    /\ UNCHANGED <<objects, recorded, template, tracking, ahead, unfounded, seedings, switches, concurrent, breaks>>

RefuseFile(r, f) == On(r, "up") /\ IsDue(r, f) /\ Refuses(r, f) /\ Refuse(r, f)

\* DROP TABLE IF EXISTS ... CASCADE takes no other table with it.
RollBack(r, f) ==
    /\ On(r, "down") /\ IsDue(r, f)
    /\ Alters(f) \subseteq objects
    /\ objects' = objects \ f.makes
    /\ recorded' = recorded \ {f.version}
    /\ ahead' = ahead \ f.makes /\ unfounded' = unfounded \ f.makes
    /\ seedings' = IF CommitsItself(f) THEN 0 ELSE seedings
    /\ Ticked(r, f)
    /\ UNCHANGED <<template, tracking, apart, unexplained, switches, concurrent, breaks>>

RefuseRollback(r, f) == On(r, "down") /\ IsDue(r, f) /\ ~(Alters(f) \subseteq objects) /\ Refuse(r, f)

Unrecorded(x) == \E f \in Files : x \in f.makes /\ f.version \notin recorded

\* Killed, the connection lost, or a row in the way of a statement: the transaction in progress is
\* undone, and what a file has committed itself stays.
Break(r) ==
    /\ IsRunning(r) /\ script[r].plan # {}
    /\ breaks < MaxBreaks /\ breaks' = breaks + 1
    /\ Abandon(r)
    /\ apart' = apart \ {r}
    /\ ahead' = ahead \cup IF r \in apart THEN {x \in MadeApart \cap objects : Unrecorded(x)} ELSE {}
    /\ UNCHANGED <<objects, recorded, template, tracking, unfounded, unexplained, seedings, switches, concurrent>>

-----------------------------------------------------------------------------
(* ensure_tables.py: a transaction per statement, and every error is taken *)
(* for "already exists"                                                    *)

Ensure(r, s) ==
    /\ On(r, "ensure") /\ IsDue(r, s)
    /\ LET new == IF s.needs \subseteq objects THEN s.makes \ objects ELSE {}
       IN /\ objects' = objects \cup new
          /\ ahead' = ahead \cup {x \in new : Unrecorded(x)}
          /\ unfounded' = unfounded \ new
    /\ Ticked(r, s)
    /\ UNCHANGED <<recorded, template, tracking, apart, unexplained, seedings, switches, concurrent, breaks>>

-----------------------------------------------------------------------------

Command(r) ==
    \/ Baseline(r) \/ Break(r)
    \/ ReadPlan(r, "up", Pending) \/ ReadPlan(r, "ensure", Ensured)
    \/ \E target \in Targets : ReadPlan(r, "down", Rollbacks(target))
    \/ \E f \in script[r].plan :
          \/ Apply(r, f) \/ ApplyApart(r, f) \/ Record(r, f) \/ RefuseFile(r, f)
          \/ RollBack(r, f) \/ RefuseRollback(r, f) \/ Ensure(r, f)

SchemaNext ==
    \/ Switch
    \/ \E r \in Runs : Command(r) \/ \E kind \in RunKinds[r] : StartRun(r, kind)

SchemaSpec == SchemaInit /\ [][SchemaNext]_schemaVars

-----------------------------------------------------------------------------

AllObjects == UNION {f.makes : f \in Files}

SchemaTypeOK ==
    /\ objects \subseteq AllObjects /\ recorded \subseteq Versions
    /\ template \in {"ecommerce", "saas"} /\ tracking \in BOOLEAN
    /\ \A r \in Runs : IsRunning(r) =>
         /\ script[r].todo # <<>> /\ script[r].todo \in Seq(Commands)
         /\ script[r].plan \subseteq Files \/ script[r].plan \subseteq Ensured
    /\ ahead \subseteq objects /\ unfounded \cap objects = {} /\ unexplained \subseteq Versions
    /\ apart \subseteq Runs
    /\ seedings \in Nat /\ switches \in Nat /\ breaks \in Nat /\ concurrent \in Nat

\* What is committed and about to be recorded.
InHand == IF apart = {} THEN {} ELSE MadeApart

\* While the settings stay as they are, the record and the schema agree whatever is killed, run
\* twice or run at once: what is recorded exists, but for what a baseline took for granted, or
\* what another run has dropped before it was recorded; and a file that is not recorded finds none
\* of its tables there, but for those from before the records, those ensure_tables has made in its
\* place, after which it can never be applied, and those of the one file that commits itself, until
\* the run records it, or for good if it was cut off before.
RecordMatchesSchema ==
    switches = 0 => \A f \in Files : Applies(f) =>
        IF f.version \in recorded THEN f.makes \subseteq objects \cup unfounded
        ELSE f.makes \cap objects \subseteq ahead \cup InHand

\* On a database that nothing but migrate.py has touched, one run at a time, no file of the shop
\* with tracking is ever refused, up or down, wherever earlier runs were killed or rolled back to.
NothingIsRefused == unexplained = {}

\* The default fee tiers, which a file puts into their table with nothing to keep them from being
\* there already, are put there once, unless runs overlap or are cut off.
TiersSeededOnce == breaks = 0 /\ concurrent = 0 => seedings <= 1

\* The record of migrations says what the schema is, no run is refused but for what a deployment or
\* a change of settings has put in its way, and none seeds what another has seeded.
SchemaIsAsRecorded == RecordMatchesSchema /\ NothingIsRefused /\ TiersSeededOnce

\* One run at a time and under the settings it was applied with, a file is only rolled
\* back when nothing after it is applied.
DownFromTheTop ==
    switches = 0 /\ concurrent = 0 => \A v \in recorded \ recorded' : \A w \in recorded' : w < v
=============================================================================
