--------------------------- MODULE AccountErasure ---------------------------
(***************************************************************************)
(* The rights of one user: to have the account erased after a grace        *)
(* period, to call that off, to take a copy of the data, and to change     *)
(* consents, which are recorded and carried over to the email preferences. *)
(* Nothing schedules an erasure: asking for its status carries it out. A   *)
(* step is one COMMIT or one SELECT that a later step acts on. The last    *)
(* act of a request, dropping the sessions, is in UserSessions.            *)
(***************************************************************************)
EXTENDS Naturals, FiniteSets, SequencesExt

CONSTANTS
    Calls,        \* of the API, by the user; each is made once
    MaxRequests,  \* erasures asked for
    MaxFaults     \* calls cut off, erasures that fail

ASSUME Bounds == IsFiniteSet(Calls) /\ MaxRequests \in Nat /\ MaxFaults \in Nat

VARIABLES
    person,    \* core.users: "named" or "anonymous"
    requests,  \* deletion_requests: status, whether the grace period is over; history: whether the
               \* user was told that it is cancelled
    exports,   \* data_export_requests: status, whether it was asked for within the last day, what the
               \* file says, and whether the row is still there
    consent,   \* the latest consent record of each type, "none" without one
    prefs,     \* the row of email_preferences, <<>> without one
    call,      \* what each call is doing, on which row, and what it has read or is told to write
    faults,
    overlaps   \* history: how often a call has begun while another was in progress

vars == <<person, requests, exports, consent, prefs, call, faults, overlaps>>

-----------------------------------------------------------------------------
(* State *)

Types == {"marketing", "transactional"}
Answers == {"granted", "revoked"}
Default == [marketing |-> "revoked", transactional |-> "granted"]
NoConsent == [t \in Types |-> "none"]

Idle == [pc |-> "idle", i |-> 0, read |-> <<>>]
InProgress(c) == call[c].pc \notin {"idle", "done"}
At(c, pc) == call[c].pc = pc

Goto(c, pc, i, read) == call' = [call EXCEPT ![c] = [pc |-> pc, i |-> i, read |-> read]]
Return(c) == Goto(c, "done", 0, <<>>)

\* A call comes in.
Comes(c) ==
    /\ At(c, "idle")
    /\ overlaps' = overlaps + IF \E d \in Calls : InProgress(d) THEN 1 ELSE 0

SetStatus(i, status) == requests' = [requests EXCEPT ![i].status = status]

Init ==
    /\ person = "named" /\ requests = <<>> /\ exports = <<>>
    /\ consent = NoConsent /\ prefs = <<>>
    /\ call = [c \in Calls |-> Idle]
    /\ faults = 0 /\ overlaps = 0

books == <<exports, consent, prefs>>

-----------------------------------------------------------------------------
(* Erasure *)

\* Mutant of Pending: the status nothing ever writes.
PendingOnly == {i \in DOMAIN requests : requests[i].status = "pending"}

Pending == {i \in DOMAIN requests : requests[i].status \in {"pending", "grace_period"}}

\* request_deletion
Ask(c) ==
    /\ Comes(c)
    /\ Len(requests) < MaxRequests
    /\ IF Pending = {} THEN Goto(c, "insert", 0, <<>>) ELSE Return(c)
    /\ UNCHANGED <<person, requests, books, faults>>

Insert(c) ==
    /\ At(c, "insert")
    /\ requests' = Append(requests, [status |-> "grace_period", over |-> FALSE, told |-> FALSE])
    /\ Return(c)
    /\ UNCHANGED <<person, books, faults, overlaps>>

GracePeriodEnds(i) ==
    /\ ~requests[i].over
    /\ requests' = [requests EXCEPT ![i].over = TRUE]
    /\ UNCHANGED <<person, books, call, faults, overlaps>>

\* Mutant of IsDue: the date alone counts.
IsDueByDate(i) == requests[i].over /\ requests[i].status # "completed"

IsDue(i) == requests[i].over /\ requests[i].status = "grace_period"

\* get_deletion_status, and _process_deletion when it is due.
Look(c, i) ==
    /\ Comes(c)
    /\ IF IsDue(i) THEN Goto(c, "process", i, <<>>) ELSE Return(c)
    /\ UNCHANGED <<person, requests, books, faults>>

Process(c) ==
    /\ At(c, "process")
    /\ SetStatus(call[c].i, "processing")
    /\ Goto(c, "erase", call[c].i, <<>>)
    /\ UNCHANGED <<person, books, faults, overlaps>>

\* Mutant of Deleted: the copies are kept.
DeletedButCopies == {}

\* The copies that the DELETE sees.
Deleted == DOMAIN exports

Erase(c) ==
    /\ At(c, "erase")
    /\ Goto(c, "commit", call[c].i, [copies |-> Deleted, consent |-> consent, prefs |-> prefs])
    /\ UNCHANGED <<person, requests, books, faults, overlaps>>

\* What was written after the DELETE has passed it by stays.
Commit(c) ==
    /\ At(c, "commit")
    /\ LET seen == call[c].read IN
       /\ exports' = [x \in DOMAIN exports |->
                        IF x \in seen.copies THEN [exports[x] EXCEPT !.kept = FALSE] ELSE exports[x]]
       /\ consent' = [t \in Types |-> IF consent[t] = seen.consent[t] THEN "none" ELSE consent[t]]
       /\ prefs' = IF seen.prefs = <<>> THEN prefs ELSE <<>>
    /\ person' = "anonymous"
    /\ SetStatus(call[c].i, "completed")
    /\ Return(c)
    /\ UNCHANGED <<faults, overlaps>>

\* A statement or the COMMIT fails. After a statement the UPDATE that would put the request back
\* fails too, for the transaction is aborted.
EraseFails(c) ==
    /\ call[c].pc \in {"erase", "commit"} /\ faults < MaxFaults
    /\ SetStatus(call[c].i, "grace_period") \/ UNCHANGED requests
    /\ Return(c) /\ faults' = faults + 1
    /\ UNCHANGED <<person, books, overlaps>>

\* cancel_deletion
Cancel(c, i) ==
    /\ Comes(c)
    /\ IF requests[i].status = "grace_period" THEN Goto(c, "cancel", i, <<>>) ELSE Return(c)
    /\ UNCHANGED <<person, requests, books, faults>>

WriteCancelled(c) ==
    /\ At(c, "cancel")
    /\ requests' = [requests EXCEPT ![call[c].i].status = "cancelled", ![call[c].i].told = TRUE]
    /\ Return(c)
    /\ UNCHANGED <<person, books, faults, overlaps>>

-----------------------------------------------------------------------------
(* Copies of the data *)

Recent == {x \in DOMAIN exports : exports[x].recent /\ exports[x].kept}

\* request_export
AskCopy(c) ==
    /\ Comes(c)
    /\ IF Recent = {} THEN Goto(c, "open", 0, <<>>) ELSE Return(c)
    /\ UNCHANGED <<person, requests, books, faults>>

\* The row, at first 'pending', then 'processing'.
Open(c) ==
    /\ At(c, "open")
    /\ exports' = Append(exports, [status |-> "processing", recent |-> TRUE, says |-> "nothing", kept |-> TRUE])
    /\ Goto(c, "collect", Len(exports) + 1, <<>>)
    /\ UNCHANGED <<person, requests, consent, prefs, faults, overlaps>>

\* What it finds in the profile, the orders, the consents ...
Gathered == person

\* _process_export; if it fails, it says so. A row that is gone is not written to.
Collect(c) ==
    /\ At(c, "collect")
    /\ \/ /\ UNCHANGED faults
          /\ exports' = [exports EXCEPT ![call[c].i].status = "completed", ![call[c].i].says = Gathered]
       \/ /\ faults < MaxFaults /\ faults' = faults + 1
          /\ exports' = [exports EXCEPT ![call[c].i].status = "failed"]
    /\ Return(c)
    /\ UNCHANGED <<person, requests, consent, prefs, overlaps>>

DayPasses(x) ==
    /\ exports[x].recent
    /\ exports' = [exports EXCEPT ![x].recent = FALSE]
    /\ UNCHANGED <<person, requests, consent, prefs, call, faults, overlaps>>

\* get_export_status, after the week a copy is kept for.
LookAtCopy(c, x) ==
    /\ Comes(c)
    /\ ~exports[x].recent /\ exports[x].status = "completed"
    /\ exports' = [exports EXCEPT ![x].status = "expired", ![x].says = "nothing"]
    /\ Return(c)
    /\ UNCHANGED <<person, requests, consent, prefs, faults>>

-----------------------------------------------------------------------------
(* Consents *)

\* update_consent, up to its look at the preferences.
Answer(c, type, answer) ==
    /\ Comes(c)
    /\ Goto(c, "write", 0, [type |-> type, answer |-> answer, prefs |-> prefs])
    /\ UNCHANGED <<person, requests, books, faults>>

\* Mutant of Carried: the other preference is set to what a new row has.
CarriedAlone(read) == [Default EXCEPT ![read.type] = read.answer]

\* The preferences to be written: the other one as it was read.
Carried(read) == [(IF read.prefs = <<>> THEN Default ELSE read.prefs) EXCEPT ![read.type] = read.answer]

\* The record, the audit entry and the preferences. A row that has come up since makes the INSERT
\* fail and all with it; one that has gone makes the UPDATE idle.
Write(c) ==
    /\ At(c, "write")
    /\ LET read == call[c].read IN
       IF read.prefs = <<>> /\ prefs # <<>>
       THEN UNCHANGED <<consent, prefs>>
       ELSE /\ consent' = [consent EXCEPT ![read.type] = read.answer]
            /\ prefs' = IF read.prefs # <<>> /\ prefs = <<>> THEN <<>> ELSE Carried(read)
    /\ Return(c)
    /\ UNCHANGED <<person, requests, exports, faults, overlaps>>

-----------------------------------------------------------------------------

CutOff(c) ==
    /\ InProgress(c) /\ faults < MaxFaults
    /\ Return(c) /\ faults' = faults + 1
    /\ UNCHANGED <<person, requests, books, overlaps>>

Begin(c) ==
    \/ Ask(c) \/ AskCopy(c)
    \/ \E i \in DOMAIN requests : Look(c, i) \/ Cancel(c, i)
    \/ \E x \in DOMAIN exports : LookAtCopy(c, x)
    \/ \E type \in Types, answer \in Answers : Answer(c, type, answer)

GoOn(c) ==
    \/ Insert(c) \/ Process(c) \/ Erase(c) \/ Commit(c) \/ EraseFails(c)
    \/ WriteCancelled(c) \/ Open(c) \/ Collect(c) \/ Write(c) \/ CutOff(c)

Next ==
    \/ \E c \in Calls : Begin(c) \/ GoOn(c)
    \/ \E i \in DOMAIN requests : GracePeriodEnds(i)
    \/ \E x \in DOMAIN exports : DayPasses(x)

Spec == Init /\ [][Next]_vars

-----------------------------------------------------------------------------
(* Properties *)

Row == [Types -> Answers]
Request == [status : {"grace_period", "processing", "completed", "cancelled"}, over : BOOLEAN, told : BOOLEAN]
Copy ==
    [status : {"processing", "completed", "failed", "expired"}, recent : BOOLEAN,
     says : {"nothing", "named", "anonymous"}, kept : BOOLEAN]

TypeOK ==
    /\ person \in {"named", "anonymous"}
    /\ requests \in Seq(Request) /\ exports \in Seq(Copy)
    /\ consent \in [Types -> Answers \union {"none"}] /\ prefs \in Row \union {<<>>}
    /\ faults \in 0..MaxFaults /\ overlaps \in 0..Cardinality(Calls)

\* One erasure is pending at a time; each further one costs two calls that overlap or an erasure
\* that was put back.
OneIsPending ==
    Cardinality({i \in DOMAIN requests : requests[i].status = "grace_period"}) <= 1 + overlaps + faults

\* As long as calls come one after the other, an erasure the user was told is off stays off, even
\* when its date has passed; and nobody is made anonymous but by a request whose time had come.
KeepsItsWord ==
    overlaps = 0 =>
        /\ \A i \in DOMAIN requests : requests[i].told => requests[i].status = "cancelled"
        /\ person = "anonymous" => \E i \in DOMAIN requests : requests[i].over /\ requests[i].status = "completed"

\* No copy of the data outlives the person it names, unless it was being made meanwhile.
NoCopyOutlives ==
    person = "anonymous" /\ overlaps = 0 => \A x \in DOMAIN exports : exports[x].kept => exports[x].says # "named"

\* Every consent on record is what the email preferences say, unless two answers have overlapped.
PreferencesFollow ==
    overlaps = 0 => \A t \in Types : consent[t] # "none" => prefs # <<>> /\ prefs[t] = consent[t]

\* What the user is promised of an erasure, of the copies and of the consents, all in one.
RightsAreKept == OneIsPending /\ KeepsItsWord /\ NoCopyOutlives /\ PreferencesFollow
=============================================================================
