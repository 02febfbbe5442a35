--------------------------- MODULE Accounts_proofs ---------------------------
(***************************************************************************)
(* For any number of calls, erasures and faults: the promises made to a    *)
(* user about erasure, copies and consents hold as long as calls come one  *)
(* after the other, and each further pending erasure is paid for by an     *)
(* overlap or a fault, however many calls overlap.                         *)
(*                                                                         *)
(* The argument: without an overlap one call at most is in progress, so    *)
(* that what it has read or found is still so when it writes (Alone).      *)
(* For the number of pending erasures, overlaps or not, those that a call  *)
(* has decided to insert count as well (PendingCounted).                   *)
(*                                                                         *)
(* Then, for any flow, users and workers, the steps of an enrolment and    *)
(* the silence after its end; and, for any requests of a visitor, the      *)
(* counts of their visit. Each part begins with its inductive invariant.   *)
(***************************************************************************)
EXTENDS AccountErasure, AutomationFlow, TrackingIntake, FiniteSetTheorems, SequenceTheorems, TLAPS

-----------------------------------------------------------------------------
(* The inductive invariant *)

Pcs == {"idle", "done", "insert", "process", "erase", "commit", "cancel", "open", "collect", "write"}

Seen == [copies : SUBSET Nat, consent : [Types -> Answers \union {"none"}], prefs : Row \union {<<>>}]
Told == [type : Types, answer : Answers, prefs : Row \union {<<>>}]

\* A call that works on a row has found it, and has read what its next step needs.
CallsOK ==
    /\ call \in [Calls -> [pc : Pcs, i : Nat, read : {<<>>} \union Seen \union Told]]
    /\ \A c \in Calls :
        /\ call[c].pc \in {"process", "erase", "commit", "cancel"} => call[c].i \in DOMAIN requests
        /\ call[c].pc = "collect" => call[c].i \in DOMAIN exports
        /\ call[c].pc = "commit" => call[c].read \in Seen
        /\ call[c].pc = "write" => call[c].read \in Told

\* An overlap costs a call.
Begun == {c \in Calls : call[c].pc # "idle"}
OverlapsCounted == overlaps \in Nat /\ overlaps <= Cardinality(Begun)

InGrace == {i \in DOMAIN requests : requests[i].status = "grace_period"}
Inserting == {c \in Calls : call[c].pc = "insert"}
PendingCounted == Cardinality(InGrace) + Cardinality(Inserting) <= 1 + overlaps + faults

\* Whoever is at work is alone, and what it acts on is as it has found it.
Alone ==
    /\ \A c, d \in Calls : InProgress(c) /\ InProgress(d) => c = d
    /\ \A c \in Calls :
        /\ At(c, "process") => requests[call[c].i].status = "grace_period" /\ requests[call[c].i].over
        /\ call[c].pc \in {"erase", "commit"} =>
               requests[call[c].i].status = "processing" /\ requests[call[c].i].over
        /\ At(c, "cancel") => requests[call[c].i].status = "grace_period"
        /\ At(c, "commit") => call[c].read = [copies |-> DOMAIN exports, consent |-> consent, prefs |-> prefs]
        /\ At(c, "write") => call[c].read.prefs = prefs

IInv ==
    /\ TypeOK /\ CallsOK
    /\ OverlapsCounted /\ PendingCounted
    /\ overlaps = 0 => Alone
    /\ KeepsItsWord /\ NoCopyOutlives /\ PreferencesFollow












-----------------------------------------------------------------------------
(* Proofs *)

LEMMA NotARow == <<>> \notin Row
  BY DEF Row, Types

LEMMA DefaultIsARow == Default \in Row
  BY DEF Default, Row, Types, Answers

\* A set that gains one element at most, and one that loses one.
LEMMA OneMore ==
    ASSUME NEW S, IsFiniteSet(S), NEW x, NEW T, T \subseteq S \union {x}
    PROVE  Cardinality(T) \in Nat /\ Cardinality(T) <= Cardinality(S) + 1
<1>1. IsFiniteSet(S \union {x}) /\ Cardinality(S \union {x}) <= Cardinality(S) + 1 /\ Cardinality(S) \in Nat
  BY FS_AddElement, FS_CardinalityType
<1>2. IsFiniteSet(T) /\ Cardinality(T) <= Cardinality(S \union {x})
  BY <1>1, FS_Subset
<1> QED
  BY <1>1, <1>2, FS_CardinalityType

LEMMA OneLess ==
    ASSUME NEW S, IsFiniteSet(S), NEW x \in S, NEW T, T \subseteq S \ {x}
    PROVE  Cardinality(T) \in Nat /\ Cardinality(T) + 1 <= Cardinality(S)
<1>1. IsFiniteSet(S \ {x}) /\ Cardinality(S \ {x}) = Cardinality(S) - 1 /\ Cardinality(S) \in Nat
  BY FS_RemoveElement, FS_CardinalityType
<1>2. IsFiniteSet(T) /\ Cardinality(T) <= Cardinality(S \ {x})
  BY <1>1, FS_Subset
<1> QED
  BY <1>1, <1>2, FS_CardinalityType

LEMMA NoMore ==
    ASSUME NEW S, IsFiniteSet(S), NEW T, T \subseteq S
    PROVE  Cardinality(T) \in Nat /\ Cardinality(T) <= Cardinality(S) /\ Cardinality(S) \in Nat
  BY FS_Subset, FS_CardinalityType

\* No request has come up, and nothing has been asked.
LEMMA InitKeeps == Init => IInv
<1> SUFFICES ASSUME Init PROVE IInv
  OBVIOUS
<1> USE Bounds DEF Init
<1>1. TypeOK
  <2>1. Cardinality(Calls) \in Nat
    BY FS_CardinalityType
  <2> QED
    BY <2>1 DEF TypeOK, NoConsent
<1>2. CallsOK
  BY DEF CallsOK, Idle, Pcs
<1>3. /\ InGrace = {} /\ Inserting = {} /\ Begun = {}
      /\ Cardinality({}) = 0
  BY FS_EmptySet DEF InGrace, Inserting, Begun, Idle
<1>4. OverlapsCounted /\ PendingCounted
  BY <1>3 DEF OverlapsCounted, PendingCounted
<1>5. Alone
  BY DEF Alone, Idle, InProgress, At
<1>6. KeepsItsWord /\ NoCopyOutlives /\ PreferencesFollow
  BY DEF KeepsItsWord, NoCopyOutlives, PreferencesFollow, NoConsent
<1> QED
  BY <1>1, <1>2, <1>4, <1>5, <1>6 DEF IInv


\* One element of a sequence is replaced.
LEMMA Replaced ==
    ASSUME NEW S, NEW s \in Seq(S), NEW i \in DOMAIN s, NEW e \in S, NEW t, t = [s EXCEPT ![i] = e]
    PROVE  /\ t \in Seq(S)
           /\ DOMAIN t = DOMAIN s
           /\ t[i] = e
           /\ \A j \in DOMAIN s : j # i => t[j] = s[j]
<1>1. DOMAIN s = 1..Len(s)
  BY LenProperties
<1>2. t \in Seq(S)
  BY <1>1, ExceptSeq
<1> QED
  BY <1>2

\* One element is added.
LEMMA Appended ==
    ASSUME NEW S, NEW s \in Seq(S), NEW e \in S, NEW t, t = Append(s, e)
    PROVE  /\ t \in Seq(S)
           /\ DOMAIN t = DOMAIN s \union {Len(s) + 1}
           /\ Len(s) \in Nat /\ Len(s) + 1 \notin DOMAIN s
           /\ t[Len(s) + 1] = e
           /\ \A j \in DOMAIN s : t[j] = s[j]
  OBVIOUS

\* What a write of a deletion request's status does.
LEMMA StatusWritten ==
    ASSUME TypeOK, NEW i \in DOMAIN requests, NEW status \in {"grace_period", "processing", "completed", "cancelled"},
           SetStatus(i, status)
    PROVE  /\ requests' \in Seq(Request)
           /\ DOMAIN requests' = DOMAIN requests
           /\ requests'[i].status = status /\ requests'[i].over = requests[i].over
           /\ requests'[i].told = requests[i].told
           /\ \A j \in DOMAIN requests : j # i => requests'[j] = requests[j]
<1>1. requests[i] \in Request
  BY DEF TypeOK
<1>2. [requests[i] EXCEPT !.status = status] \in Request
  BY <1>1 DEF Request
<1>3. requests' = [requests EXCEPT ![i] = [requests[i] EXCEPT !.status = status]]
  BY DEF SetStatus
<1>4. requests \in Seq(Request)
  BY DEF TypeOK
<1>5. /\ requests' \in Seq(Request)
      /\ DOMAIN requests' = DOMAIN requests
      /\ requests'[i] = [requests[i] EXCEPT !.status = status]
      /\ \A j \in DOMAIN requests : j # i => requests'[j] = requests[j]
  BY <1>2, <1>3, <1>4, Replaced
<1> QED
  BY <1>1, <1>5 DEF Request

LEMMA CancelWritten ==
    ASSUME TypeOK, CallsOK, NEW c \in Calls, WriteCancelled(c)
    PROVE  LET i == call[c].i IN
           /\ i \in DOMAIN requests
           /\ requests' \in Seq(Request)
           /\ DOMAIN requests' = DOMAIN requests
           /\ requests'[i].status = "cancelled" /\ requests'[i].over = requests[i].over
           /\ \A j \in DOMAIN requests : j # i => requests'[j] = requests[j]
<1> DEFINE i == call[c].i
<1> DEFINE e == [requests[i] EXCEPT !.status = "cancelled", !.told = TRUE]
<1>1. i \in DOMAIN requests
  BY DEF WriteCancelled, At, CallsOK
<1>2. requests[i] \in Request /\ requests \in Seq(Request)
  BY <1>1 DEF TypeOK
<1>3. e \in Request /\ e.status = "cancelled" /\ e.over = requests[i].over
  BY <1>2 DEF Request
<1>4. requests' = [requests EXCEPT ![i] = e]
  BY DEF WriteCancelled
<1> HIDE DEF i, e
<1>5. /\ requests' \in Seq(Request)
      /\ DOMAIN requests' = DOMAIN requests
      /\ requests'[i] = e
      /\ \A j \in DOMAIN requests : j # i => requests'[j] = requests[j]
  BY <1>1, <1>2, <1>3, <1>4, Replaced
<1> QED
  BY <1>1, <1>3, <1>5 DEF i

\* Rows are added and changed, and never taken away.
LEMMA RowsStep ==
    ASSUME TypeOK, CallsOK, [Next]_vars
    PROVE  /\ requests' \in Seq(Request) /\ DOMAIN requests \subseteq DOMAIN requests'
           /\ exports' \in Seq(Copy) /\ DOMAIN exports \subseteq DOMAIN exports'
<1> DEFINE Goal ==
        /\ requests' \in Seq(Request) /\ DOMAIN requests \subseteq DOMAIN requests'
        /\ exports' \in Seq(Copy) /\ DOMAIN exports \subseteq DOMAIN exports'
<1>0. requests \in Seq(Request) /\ exports \in Seq(Copy) /\ person \in {"named", "anonymous"}
  BY DEF TypeOK
<1>1. ASSUME NEW c \in Calls, Ask(c)
       PROVE  Goal
  BY <1>1, <1>0 DEF Ask, books
<1>2. ASSUME NEW c \in Calls, AskCopy(c)
       PROVE  Goal
  BY <1>2, <1>0 DEF AskCopy, books
<1>3. ASSUME NEW c \in Calls, NEW i \in DOMAIN requests, Look(c, i)
       PROVE  Goal
  BY <1>3, <1>0 DEF Look, books
<1>4. ASSUME NEW c \in Calls, NEW i \in DOMAIN requests, Cancel(c, i)
       PROVE  Goal
  BY <1>4, <1>0 DEF Cancel, books
<1>5. ASSUME NEW c \in Calls, NEW x \in DOMAIN exports, LookAtCopy(c, x)
       PROVE  Goal
  <2> DEFINE e == [exports[x] EXCEPT !.status = "expired", !.says = "nothing"]
  <2>0. exports[x] \in Copy
    BY <1>0
  <2>1. e \in Copy
    BY <2>0 DEF Copy
  <2>2. exports' = [exports EXCEPT ![x] = e]
    BY <1>5 DEF LookAtCopy
  <2>3. requests' = requests
    BY <1>5 DEF LookAtCopy
  <2> HIDE DEF e
  <2> QED
    BY <1>0, <2>1, <2>2, <2>3, Replaced
<1>6. ASSUME NEW c \in Calls, NEW type \in Types, NEW answer \in Answers, Answer(c, type, answer)
       PROVE  Goal
  BY <1>6, <1>0 DEF Answer, books
<1>7. ASSUME NEW c \in Calls, Insert(c)
       PROVE  Goal
  <2>1. [status |-> "grace_period", over |-> FALSE, told |-> FALSE] \in Request
    BY DEF Request
  <2> QED
    BY <1>7, <1>0, <2>1, Appended DEF Insert, books
<1>8. ASSUME NEW c \in Calls, Process(c)
       PROVE  Goal
  <2>1. call[c].i \in DOMAIN requests
    BY <1>8 DEF Process, At, CallsOK
  <2> QED
    BY <1>8, <1>0, <2>1, StatusWritten DEF Process, books
<1>9. ASSUME NEW c \in Calls, Erase(c)
       PROVE  Goal
  BY <1>9, <1>0 DEF Erase, books
<1>10. ASSUME NEW c \in Calls, Commit(c)
       PROVE  Goal
  <2>1. call[c].i \in DOMAIN requests
    BY <1>10 DEF Commit, At, CallsOK
  <2>2. requests' \in Seq(Request) /\ DOMAIN requests' = DOMAIN requests
    BY <1>10, <2>1, StatusWritten DEF Commit
  <2> DEFINE copies == call[c].read.copies
  <2>3. exports' = [x \in DOMAIN exports |->
                      IF x \in copies THEN [exports[x] EXCEPT !.kept = FALSE] ELSE exports[x]]
    BY <1>10 DEF Commit
  <2>4. ASSUME NEW x \in DOMAIN exports
         PROVE  exports[x] \in Copy /\ [exports[x] EXCEPT !.kept = FALSE] \in Copy
    <3>1. exports[x] \in Copy
      BY <1>0
    <3> QED
      BY <3>1 DEF Copy
  <2>5. exports' \in [1..Len(exports) -> Copy] /\ Len(exports) \in Nat
    BY <1>0, <2>3, <2>4
  <2> QED
    BY <1>0, <2>2, <2>5
<1>11. ASSUME NEW c \in Calls, EraseFails(c)
       PROVE  Goal
  <2>1. call[c].i \in DOMAIN requests
    BY <1>11 DEF EraseFails, CallsOK
  <2> QED
    BY <1>11, <1>0, <2>1, StatusWritten DEF EraseFails, books
<1>12. ASSUME NEW c \in Calls, WriteCancelled(c)
       PROVE  Goal
  <2>1. requests' \in Seq(Request) /\ DOMAIN requests' = DOMAIN requests
    BY <1>12, CancelWritten
  <2> QED
    BY <1>12, <1>0, <2>1 DEF WriteCancelled, books
<1>13. ASSUME NEW c \in Calls, Open(c)
       PROVE  Goal
  <2>1. [status |-> "processing", recent |-> TRUE, says |-> "nothing", kept |-> TRUE] \in Copy
    BY DEF Copy
  <2> QED
    BY <1>13, <1>0, <2>1, Appended DEF Open
<1>14. ASSUME NEW c \in Calls, Collect(c)
       PROVE  Goal
  <2> DEFINE x == call[c].i
  <2>1. x \in DOMAIN exports
    BY <1>14 DEF Collect, Gathered, At, CallsOK
  <2> DEFINE made == [exports[x] EXCEPT !.status = "completed", !.says = person]
  <2> DEFINE failed == [exports[x] EXCEPT !.status = "failed"]
  <2>0. exports[x] \in Copy
    BY <1>0, <2>1
  <2>2. made \in Copy /\ failed \in Copy
    BY <1>0, <2>0 DEF Copy
  <2>3. exports' = [exports EXCEPT ![x] = made] \/ exports' = [exports EXCEPT ![x] = failed]
    BY <1>14 DEF Collect, Gathered
  <2>4. requests' = requests
    BY <1>14 DEF Collect, Gathered
  <2> HIDE DEF x, made, failed
  <2> QED
    BY <1>0, <2>1, <2>2, <2>3, <2>4, Replaced
<1>15. ASSUME NEW c \in Calls, Write(c)
       PROVE  Goal
  BY <1>15, <1>0 DEF Write, books
<1>16. ASSUME NEW c \in Calls, CutOff(c)
       PROVE  Goal
  BY <1>16, <1>0 DEF CutOff, books
<1>17. ASSUME NEW i \in DOMAIN requests, GracePeriodEnds(i)
       PROVE  Goal
  <2> DEFINE e == [requests[i] EXCEPT !.over = TRUE]
  <2>0. requests[i] \in Request
    BY <1>0
  <2>1. e \in Request
    BY <2>0 DEF Request
  <2>2. requests' = [requests EXCEPT ![i] = e]
    BY <1>17 DEF GracePeriodEnds
  <2>3. exports' = exports
    BY <1>17 DEF GracePeriodEnds, books
  <2> HIDE DEF e
  <2> QED
    BY <1>0, <2>1, <2>2, <2>3, Replaced
<1>18. ASSUME NEW x \in DOMAIN exports, DayPasses(x)
       PROVE  Goal
  <2> DEFINE e == [exports[x] EXCEPT !.recent = FALSE]
  <2>0. exports[x] \in Copy
    BY <1>0
  <2>1. e \in Copy
    BY <2>0 DEF Copy
  <2>2. exports' = [exports EXCEPT ![x] = e]
    BY <1>18 DEF DayPasses
  <2>3. requests' = requests
    BY <1>18 DEF DayPasses
  <2> HIDE DEF e
  <2> QED
    BY <1>0, <2>1, <2>2, <2>3, Replaced
<1>19. CASE UNCHANGED vars
  BY <1>19, <1>0 DEF vars, books
<1> QED
  BY <1>1, <1>2, <1>3, <1>4, <1>5, <1>6, <1>7, <1>8, <1>9, <1>10, <1>11, <1>12, <1>13,
     <1>14, <1>15, <1>16, <1>17, <1>18, <1>19
  DEF Next, Begin, GoOn

\* A call goes on to a step that it can do.
LEMMA CallMoves ==
    ASSUME CallsOK, NEW c \in Calls, NEW pc \in Pcs, NEW i \in Nat, NEW read \in {<<>>} \union Seen \union Told,
           Goto(c, pc, i, read),
           DOMAIN requests \subseteq DOMAIN requests', DOMAIN exports \subseteq DOMAIN exports',
           pc \in {"process", "erase", "commit", "cancel"} => i \in DOMAIN requests,
           pc = "collect" => i \in DOMAIN exports',
           pc = "commit" => read \in Seen,
           pc = "write" => read \in Told
    PROVE  CallsOK'
<1> DEFINE new == [pc |-> pc, i |-> i, read |-> read]
<1>1. call' = [call EXCEPT ![c] = new] /\ new \in [pc : Pcs, i : Nat, read : {<<>>} \union Seen \union Told]
  BY DEF Goto
<1>2. call' \in [Calls -> [pc : Pcs, i : Nat, read : {<<>>} \union Seen \union Told]]
  BY <1>1 DEF CallsOK
<1>3. call'[c] = new /\ \A d \in Calls : d # c => call'[d] = call[d]
  BY <1>1 DEF CallsOK
<1>4. ASSUME NEW d \in Calls
       PROVE  /\ call'[d].pc \in {"process", "erase", "commit", "cancel"} => call'[d].i \in DOMAIN requests'
              /\ call'[d].pc = "collect" => call'[d].i \in DOMAIN exports'
              /\ call'[d].pc = "commit" => call'[d].read \in Seen
              /\ call'[d].pc = "write" => call'[d].read \in Told
  <2>1. CASE d = c
    BY <1>3, <2>1
  <2>2. CASE d # c
    BY <1>3, <2>2 DEF CallsOK
  <2> QED
    BY <2>1, <2>2
<1> QED
  BY <1>2, <1>4 DEF CallsOK, Seen, Told, Row, Types, Answers

\* What a call is about to do, it can do.
LEMMA CallsStep ==
    ASSUME TypeOK, CallsOK, [Next]_vars
    PROVE  CallsOK'
<1>0. /\ DOMAIN requests \subseteq DOMAIN requests' /\ DOMAIN exports \subseteq DOMAIN exports'
      /\ DOMAIN requests \subseteq Nat /\ DOMAIN exports \subseteq Nat
  BY RowsStep DEF TypeOK
<1> USE DEF Pcs, Return, At
<1>1. ASSUME NEW c \in Calls, Ask(c)
       PROVE  CallsOK'
  BY <1>1, <1>0, CallMoves DEF Ask
<1>2. ASSUME NEW c \in Calls, AskCopy(c)
       PROVE  CallsOK'
  BY <1>2, <1>0, CallMoves DEF AskCopy
<1>3. ASSUME NEW c \in Calls, NEW i \in DOMAIN requests, Look(c, i)
       PROVE  CallsOK'
  BY <1>3, <1>0, CallMoves DEF Look
<1>4. ASSUME NEW c \in Calls, NEW i \in DOMAIN requests, Cancel(c, i)
       PROVE  CallsOK'
  BY <1>4, <1>0, CallMoves DEF Cancel
<1>5. ASSUME NEW c \in Calls, NEW x \in DOMAIN exports, LookAtCopy(c, x)
       PROVE  CallsOK'
  BY <1>5, <1>0, CallMoves DEF LookAtCopy
<1>6. ASSUME NEW c \in Calls, NEW type \in Types, NEW answer \in Answers, Answer(c, type, answer)
       PROVE  CallsOK'
  <2>1. [type |-> type, answer |-> answer, prefs |-> prefs] \in Told
    BY DEF Told, TypeOK
  <2> QED
    BY <1>6, <1>0, <2>1, CallMoves DEF Answer
<1>7. ASSUME NEW c \in Calls, Insert(c)
       PROVE  CallsOK'
  BY <1>7, <1>0, CallMoves DEF Insert
<1>8. ASSUME NEW c \in Calls, Process(c)
       PROVE  CallsOK'
  <2>1. call[c].i \in DOMAIN requests
    BY <1>8 DEF Process, CallsOK
  <2> QED
    BY <1>8, <1>0, <2>1, CallMoves DEF Process
<1>9. ASSUME NEW c \in Calls, Erase(c)
       PROVE  CallsOK'
  <2>1. [copies |-> Deleted, consent |-> consent, prefs |-> prefs] \in Seen
    BY <1>0 DEF Seen, Deleted, TypeOK
  <2>2. call[c].i \in DOMAIN requests
    BY <1>9 DEF Erase, CallsOK
  <2> QED
    BY <1>9, <1>0, <2>1, <2>2, CallMoves DEF Erase
<1>10. ASSUME NEW c \in Calls, Commit(c)
       PROVE  CallsOK'
  BY <1>10, <1>0, CallMoves DEF Commit
<1>11. ASSUME NEW c \in Calls, EraseFails(c)
       PROVE  CallsOK'
  BY <1>11, <1>0, CallMoves DEF EraseFails
<1>12. ASSUME NEW c \in Calls, WriteCancelled(c)
       PROVE  CallsOK'
  BY <1>12, <1>0, CallMoves DEF WriteCancelled
<1>13. ASSUME NEW c \in Calls, Open(c)
       PROVE  CallsOK'
  <2>1. Len(exports) + 1 \in DOMAIN exports' /\ Len(exports) + 1 \in Nat
    BY <1>13, Appended DEF Open, TypeOK
  <2> QED
    BY <1>13, <1>0, <2>1, CallMoves DEF Open
<1>14. ASSUME NEW c \in Calls, Collect(c)
       PROVE  CallsOK'
  BY <1>14, <1>0, CallMoves DEF Collect, Gathered
<1>15. ASSUME NEW c \in Calls, Write(c)
       PROVE  CallsOK'
  BY <1>15, <1>0, CallMoves DEF Write
<1>16. ASSUME NEW c \in Calls, CutOff(c)
       PROVE  CallsOK'
  BY <1>16, <1>0, CallMoves DEF CutOff
<1>17. ASSUME NEW i \in DOMAIN requests, GracePeriodEnds(i)
       PROVE  CallsOK'
  BY <1>17, <1>0 DEF CallsOK, GracePeriodEnds
<1>18. ASSUME NEW x \in DOMAIN exports, DayPasses(x)
       PROVE  CallsOK'
  BY <1>18, <1>0 DEF CallsOK, DayPasses
<1>19. CASE UNCHANGED vars
  BY <1>19, <1>0 DEF CallsOK, vars, books
<1> QED
  BY <1>1, <1>2, <1>3, <1>4, <1>5, <1>6, <1>7, <1>8, <1>9, <1>10, <1>11, <1>12, <1>13,
     <1>14, <1>15, <1>16, <1>17, <1>18, <1>19
  DEF Next, Begin, GoOn

-----------------------------------------------------------------------------
(* Counting *)

\* What a call's move changes.
LEMMA GoneTo ==
    ASSUME CallsOK, NEW c \in Calls, NEW pc, NEW i, NEW read, Goto(c, pc, i, read)
    PROVE  /\ call'[c].pc = pc /\ call'[c].i = i /\ call'[c].read = read
           /\ \A d \in Calls : d # c => call'[d] = call[d]
  BY DEF Goto, CallsOK

\* A call that comes in is one more; if it overlaps, it pays for the overlap.
LEMMA ComingCounts ==
    ASSUME CallsOK, OverlapsCounted, NEW c \in Calls, Comes(c),
           NEW pc \in Pcs \ {"idle"}, NEW i, NEW read, Goto(c, pc, i, read)
    PROVE  OverlapsCounted'
<1>1. /\ call'[c].pc # "idle" /\ call[c].pc = "idle"
      /\ \A d \in Calls : d # c => call'[d] = call[d]
  BY GoneTo DEF Comes, At
<1>2. Begun \subseteq Begun' \ {c} /\ c \in Begun' /\ Begun' \subseteq Calls
  BY <1>1 DEF Begun
<1>3. IsFiniteSet(Begun') /\ IsFiniteSet(Begun)
  BY <1>2, Bounds, FS_Subset DEF Begun
<1>4. Cardinality(Begun) + 1 <= Cardinality(Begun') /\ Cardinality(Begun) \in Nat /\ Cardinality(Begun') \in Nat
  BY <1>2, <1>3, OneLess, FS_CardinalityType
<1>5. overlaps' = overlaps \/ overlaps' = overlaps + 1
  BY DEF Comes, OverlapsCounted
<1> QED
  BY <1>4, <1>5 DEF OverlapsCounted

LEMMA GoingOnCounts ==
    ASSUME CallsOK, OverlapsCounted, overlaps' = overlaps, NEW c \in Calls,
           NEW pc \in Pcs \ {"idle"}, NEW i, NEW read, Goto(c, pc, i, read)
    PROVE  OverlapsCounted'
<1>1. call'[c].pc # "idle" /\ \A d \in Calls : d # c => call'[d] = call[d]
  BY GoneTo
<1>2. Begun \subseteq Begun' /\ Begun' \subseteq Calls
  BY <1>1 DEF Begun
<1>3. IsFiniteSet(Begun') /\ IsFiniteSet(Begun)
  BY <1>2, Bounds, FS_Subset DEF Begun
<1>4. Cardinality(Begun) <= Cardinality(Begun') /\ Cardinality(Begun) \in Nat /\ Cardinality(Begun') \in Nat
  BY <1>2, <1>3, NoMore
<1> QED
  BY <1>4 DEF OverlapsCounted

LEMMA OverlapsStep ==
    ASSUME CallsOK, OverlapsCounted, [Next]_vars
    PROVE  OverlapsCounted'
<1> USE DEF Pcs, Return
<1>1. ASSUME NEW c \in Calls, Ask(c)
       PROVE  OverlapsCounted'
  BY <1>1, ComingCounts DEF Ask
<1>2. ASSUME NEW c \in Calls, AskCopy(c)
       PROVE  OverlapsCounted'
  BY <1>2, ComingCounts DEF AskCopy
<1>3. ASSUME NEW c \in Calls, NEW i \in DOMAIN requests, Look(c, i)
       PROVE  OverlapsCounted'
  BY <1>3, ComingCounts DEF Look
<1>4. ASSUME NEW c \in Calls, NEW i \in DOMAIN requests, Cancel(c, i)
       PROVE  OverlapsCounted'
  BY <1>4, ComingCounts DEF Cancel
<1>5. ASSUME NEW c \in Calls, NEW x \in DOMAIN exports, LookAtCopy(c, x)
       PROVE  OverlapsCounted'
  BY <1>5, ComingCounts DEF LookAtCopy
<1>6. ASSUME NEW c \in Calls, NEW type \in Types, NEW answer \in Answers, Answer(c, type, answer)
       PROVE  OverlapsCounted'
  BY <1>6, ComingCounts DEF Answer
<1>7. ASSUME NEW c \in Calls, Insert(c)
       PROVE  OverlapsCounted'
  BY <1>7, GoingOnCounts DEF Insert
<1>8. ASSUME NEW c \in Calls, Process(c)
       PROVE  OverlapsCounted'
  BY <1>8, GoingOnCounts DEF Process
<1>9. ASSUME NEW c \in Calls, Erase(c)
       PROVE  OverlapsCounted'
  BY <1>9, GoingOnCounts DEF Erase
<1>10. ASSUME NEW c \in Calls, Commit(c)
       PROVE  OverlapsCounted'
  BY <1>10, GoingOnCounts DEF Commit
<1>11. ASSUME NEW c \in Calls, EraseFails(c)
       PROVE  OverlapsCounted'
  BY <1>11, GoingOnCounts DEF EraseFails
<1>12. ASSUME NEW c \in Calls, WriteCancelled(c)
       PROVE  OverlapsCounted'
  BY <1>12, GoingOnCounts DEF WriteCancelled
<1>13. ASSUME NEW c \in Calls, Open(c)
       PROVE  OverlapsCounted'
  BY <1>13, GoingOnCounts DEF Open
<1>14. ASSUME NEW c \in Calls, Collect(c)
       PROVE  OverlapsCounted'
  BY <1>14, GoingOnCounts DEF Collect, Gathered
<1>15. ASSUME NEW c \in Calls, Write(c)
       PROVE  OverlapsCounted'
  BY <1>15, GoingOnCounts DEF Write
<1>16. ASSUME NEW c \in Calls, CutOff(c)
       PROVE  OverlapsCounted'
  BY <1>16, GoingOnCounts DEF CutOff
<1>17. ASSUME NEW i \in DOMAIN requests, GracePeriodEnds(i)
       PROVE  OverlapsCounted'
  BY <1>17 DEF GracePeriodEnds, OverlapsCounted, Begun
<1>18. ASSUME NEW x \in DOMAIN exports, DayPasses(x)
       PROVE  OverlapsCounted'
  BY <1>18 DEF DayPasses, OverlapsCounted, Begun
<1>19. CASE UNCHANGED vars
  BY <1>19 DEF OverlapsCounted, Begun, vars, books
<1> QED
  BY <1>1, <1>2, <1>3, <1>4, <1>5, <1>6, <1>7, <1>8, <1>9, <1>10, <1>11, <1>12, <1>13,
     <1>14, <1>15, <1>16, <1>17, <1>18, <1>19
  DEF Next, Begin, GoOn

-----------------------------------------------------------------------------
(* Types *)

LEMMA TypeStep ==
    ASSUME TypeOK, CallsOK, OverlapsCounted, [Next]_vars
    PROVE  TypeOK'
<1> DEFINE Goal ==
        /\ person' \in {"named", "anonymous"} /\ faults' \in 0..MaxFaults
        /\ consent' \in [Types -> Answers \union {"none"}] /\ prefs' \in Row \union {<<>>}
<1>0. /\ person \in {"named", "anonymous"} /\ faults \in 0..MaxFaults /\ MaxFaults \in Nat
      /\ consent \in [Types -> Answers \union {"none"}] /\ prefs \in Row \union {<<>>}
  BY Bounds DEF TypeOK
<1>00. Goal
  <2>1. ASSUME NEW c \in Calls, Ask(c)
         PROVE  Goal
    BY <2>1, <1>0 DEF Ask, books
  <2>2. ASSUME NEW c \in Calls, AskCopy(c)
         PROVE  Goal
    BY <2>2, <1>0 DEF AskCopy, books
  <2>3. ASSUME NEW c \in Calls, NEW i \in DOMAIN requests, Look(c, i)
         PROVE  Goal
    BY <2>3, <1>0 DEF Look, books
  <2>4. ASSUME NEW c \in Calls, NEW i \in DOMAIN requests, Cancel(c, i)
         PROVE  Goal
    BY <2>4, <1>0 DEF Cancel, books
  <2>5. ASSUME NEW c \in Calls, NEW x \in DOMAIN exports, LookAtCopy(c, x)
         PROVE  Goal
    BY <2>5, <1>0 DEF LookAtCopy, books
  <2>6. ASSUME NEW c \in Calls, NEW type \in Types, NEW answer \in Answers, Answer(c, type, answer)
         PROVE  Goal
    BY <2>6, <1>0 DEF Answer, books
  <2>7. ASSUME NEW c \in Calls, Insert(c)
         PROVE  Goal
    BY <2>7, <1>0 DEF Insert, books
  <2>8. ASSUME NEW c \in Calls, Process(c)
         PROVE  Goal
    BY <2>8, <1>0 DEF Process, books
  <2>9. ASSUME NEW c \in Calls, Erase(c)
         PROVE  Goal
    BY <2>9, <1>0 DEF Erase, books
  <2>10. ASSUME NEW c \in Calls, Commit(c)
         PROVE  Goal
    <3>1. /\ person' = "anonymous" /\ faults' = faults /\ prefs' \in {prefs, <<>>}
          /\ consent' = [t \in Types |-> IF consent[t] = call[c].read.consent[t] THEN "none" ELSE consent[t]]
      BY <2>10 DEF Commit
    <3> QED
      BY <1>0, <3>1
  <2>11. ASSUME NEW c \in Calls, EraseFails(c)
         PROVE  Goal
    BY <2>11, <1>0 DEF EraseFails, books
  <2>12. ASSUME NEW c \in Calls, WriteCancelled(c)
         PROVE  Goal
    BY <2>12, <1>0 DEF WriteCancelled, books
  <2>13. ASSUME NEW c \in Calls, Open(c)
         PROVE  Goal
    BY <2>13, <1>0 DEF Open, books
  <2>14. ASSUME NEW c \in Calls, Collect(c)
         PROVE  Goal
    BY <2>14, <1>0 DEF Collect, Gathered, books
  <2>15. ASSUME NEW c \in Calls, Write(c)
         PROVE  Goal
    <3> DEFINE read == call[c].read
    <3>1. read \in Told
      BY <2>15 DEF Write, At, CallsOK
    <3>2. read.type \in Types /\ read.answer \in Answers /\ read.prefs \in Row \union {<<>>}
      BY <3>1 DEF Told
    <3>3. (IF read.prefs = <<>> THEN Default ELSE read.prefs) \in Row
      BY <3>2, DefaultIsARow
    <3>4. Carried(read) \in Row
      BY <3>2, <3>3 DEF Carried, Row
    <3>5. [consent EXCEPT ![read.type] = read.answer] \in [Types -> Answers \union {"none"}]
      BY <1>0, <3>2
    <3>6. /\ consent' = consent \/ consent' = [consent EXCEPT ![read.type] = read.answer]
          /\ prefs' \in {prefs, <<>>, Carried(read)}
          /\ person' = person /\ faults' = faults
      BY <2>15 DEF Write
    <3> QED
      BY <1>0, <3>4, <3>5, <3>6
  <2>16. ASSUME NEW c \in Calls, CutOff(c)
         PROVE  Goal
    BY <2>16, <1>0 DEF CutOff, books
  <2>17. ASSUME NEW i \in DOMAIN requests, GracePeriodEnds(i)
         PROVE  Goal
    BY <2>17, <1>0 DEF GracePeriodEnds, books
  <2>18. ASSUME NEW x \in DOMAIN exports, DayPasses(x)
         PROVE  Goal
    BY <2>18, <1>0 DEF DayPasses, books
  <2>19. CASE UNCHANGED vars
    BY <2>19, <1>0 DEF vars, books
  <2> QED
    BY <2>1, <2>2, <2>3, <2>4, <2>5, <2>6, <2>7, <2>8, <2>9, <2>10, <2>11, <2>12, <2>13,
       <2>14, <2>15, <2>16, <2>17, <2>18, <2>19
    DEF Next, Begin, GoOn
<1>a. requests' \in Seq(Request) /\ exports' \in Seq(Copy)
  BY RowsStep
<1>b. overlaps' \in 0..Cardinality(Calls)
  <2>1. OverlapsCounted'
    BY OverlapsStep
  <2>2. Begun' \subseteq Calls
    BY DEF Begun
  <2>3. Cardinality(Begun') <= Cardinality(Calls) /\ Cardinality(Calls) \in Nat /\ Cardinality(Begun') \in Nat
    BY <2>2, Bounds, NoMore
  <2> QED
    BY <2>1, <2>3 DEF OverlapsCounted
<1> QED
  BY <1>00, <1>a, <1>b DEF TypeOK, Row, Types, Answers, Request, Copy

-----------------------------------------------------------------------------
(* Who changes what *)

NewInsert == \E d \in Calls : call'[d].pc = "insert" /\ call[d].pc # "insert"

LEMMA Changes ==
    ASSUME CallsOK, overlaps \in Nat, faults \in Nat, [Next]_vars
    PROVE  /\ overlaps' \in Nat /\ overlaps' >= overlaps /\ faults' \in Nat /\ faults' >= faults
           /\ NewInsert => \E c \in Calls : Ask(c)
           /\ \/ requests' = requests /\ person' = person
              \/ \E c \in Calls : Insert(c) \/ Process(c) \/ Commit(c) \/ EraseFails(c) \/ WriteCancelled(c)
              \/ \E i \in DOMAIN requests : GracePeriodEnds(i)
           /\ \/ exports' = exports /\ person' = person
              \/ \E c \in Calls : Commit(c) \/ Open(c) \/ Collect(c) \/ \E x \in DOMAIN exports : LookAtCopy(c, x)
              \/ \E x \in DOMAIN exports : DayPasses(x)
           /\ \/ consent' = consent /\ prefs' = prefs
              \/ \E c \in Calls : Commit(c) \/ Write(c)
<1> DEFINE Goal ==
        /\ overlaps' \in Nat /\ overlaps' >= overlaps /\ faults' \in Nat /\ faults' >= faults
        /\ NewInsert => \E c \in Calls : Ask(c)
        /\ \/ requests' = requests /\ person' = person
           \/ \E c \in Calls : Insert(c) \/ Process(c) \/ Commit(c) \/ EraseFails(c) \/ WriteCancelled(c)
           \/ \E i \in DOMAIN requests : GracePeriodEnds(i)
        /\ \/ exports' = exports /\ person' = person
           \/ \E c \in Calls : Commit(c) \/ Open(c) \/ Collect(c) \/ \E x \in DOMAIN exports : LookAtCopy(c, x)
           \/ \E x \in DOMAIN exports : DayPasses(x)
        /\ \/ consent' = consent /\ prefs' = prefs
           \/ \E c \in Calls : Commit(c) \/ Write(c)
<1> USE DEF Comes, Return, NewInsert, books
<1>1. ASSUME NEW c \in Calls, Ask(c)
       PROVE  Goal
  BY <1>1, GoneTo DEF Ask
<1>2. ASSUME NEW c \in Calls, AskCopy(c)
       PROVE  Goal
  BY <1>2, GoneTo DEF AskCopy
<1>3. ASSUME NEW c \in Calls, NEW i \in DOMAIN requests, Look(c, i)
       PROVE  Goal
  BY <1>3, GoneTo DEF Look
<1>4. ASSUME NEW c \in Calls, NEW i \in DOMAIN requests, Cancel(c, i)
       PROVE  Goal
  BY <1>4, GoneTo DEF Cancel
<1>5. ASSUME NEW c \in Calls, NEW x \in DOMAIN exports, LookAtCopy(c, x)
       PROVE  Goal
  <2>1. /\ faults' = faults /\ overlaps' \in Nat /\ overlaps' >= overlaps /\ ~NewInsert
        /\ requests' = requests /\ person' = person /\ consent' = consent /\ prefs' = prefs
    BY <1>5, GoneTo DEF LookAtCopy
  <2> QED
    BY <1>5, <2>1
<1>6. ASSUME NEW c \in Calls, NEW type \in Types, NEW answer \in Answers, Answer(c, type, answer)
       PROVE  Goal
  BY <1>6, GoneTo DEF Answer
<1>7. ASSUME NEW c \in Calls, Insert(c)
       PROVE  Goal
  BY <1>7, GoneTo DEF Insert
<1>8. ASSUME NEW c \in Calls, Process(c)
       PROVE  Goal
  BY <1>8, GoneTo DEF Process
<1>9. ASSUME NEW c \in Calls, Erase(c)
       PROVE  Goal
  BY <1>9, GoneTo DEF Erase
<1>10. ASSUME NEW c \in Calls, Commit(c)
       PROVE  Goal
  BY <1>10, GoneTo DEF Commit
<1>11. ASSUME NEW c \in Calls, EraseFails(c)
       PROVE  Goal
  BY <1>11, GoneTo DEF EraseFails
<1>12. ASSUME NEW c \in Calls, WriteCancelled(c)
       PROVE  Goal
  <2>1. /\ faults' = faults /\ overlaps' \in Nat /\ overlaps' >= overlaps /\ ~NewInsert
        /\ exports' = exports /\ person' = person /\ consent' = consent /\ prefs' = prefs
    BY <1>12, GoneTo DEF WriteCancelled, books
  <2> QED
    BY <1>12, <2>1
<1>13. ASSUME NEW c \in Calls, Open(c)
       PROVE  Goal
  BY <1>13, GoneTo DEF Open
<1>14. ASSUME NEW c \in Calls, Collect(c)
       PROVE  Goal
  BY <1>14, GoneTo DEF Collect, Gathered
<1>15. ASSUME NEW c \in Calls, Write(c)
       PROVE  Goal
  BY <1>15, GoneTo DEF Write
<1>16. ASSUME NEW c \in Calls, CutOff(c)
       PROVE  Goal
  BY <1>16, GoneTo DEF CutOff
<1>17. ASSUME NEW i \in DOMAIN requests, GracePeriodEnds(i)
       PROVE  Goal
  <2>1. /\ faults' = faults /\ overlaps' \in Nat /\ overlaps' >= overlaps /\ ~NewInsert
        /\ exports' = exports /\ person' = person /\ consent' = consent /\ prefs' = prefs
    BY <1>17 DEF GracePeriodEnds, books
  <2> QED
    BY <1>17, <2>1
<1>18. ASSUME NEW x \in DOMAIN exports, DayPasses(x)
       PROVE  Goal
  <2>1. /\ faults' = faults /\ overlaps' \in Nat /\ overlaps' >= overlaps /\ ~NewInsert
        /\ requests' = requests /\ person' = person /\ consent' = consent /\ prefs' = prefs
    BY <1>18 DEF DayPasses
  <2> QED
    BY <1>18, <2>1
<1>19. CASE UNCHANGED vars
  BY <1>19 DEF vars, books
<1> QED
  BY <1>1, <1>2, <1>3, <1>4, <1>5, <1>6, <1>7, <1>8, <1>9, <1>10, <1>11, <1>12, <1>13,
     <1>14, <1>15, <1>16, <1>17, <1>18, <1>19
  DEF Next, Begin, GoOn

-----------------------------------------------------------------------------
(* How many erasures are pending *)

LEMMA CountsAreFinite ==
    ASSUME TypeOK
    PROVE  IsFiniteSet(InGrace) /\ IsFiniteSet(Inserting)
<1>1. IsFiniteSet(1..Len(requests)) /\ InGrace \subseteq 1..Len(requests)
  BY FS_Interval DEF TypeOK, InGrace
<1> QED
  BY <1>1, Bounds, FS_Subset DEF Inserting

\* With no more of either and no fewer overlaps and faults, the count stands.
LEMMA NoneMore ==
    ASSUME TypeOK, OverlapsCounted, PendingCounted, InGrace' \subseteq InGrace, Inserting' \subseteq Inserting,
           overlaps' \in Nat, overlaps' >= overlaps, faults' \in Nat, faults' >= faults
    PROVE  PendingCounted'
<1>1. /\ Cardinality(InGrace') \in Nat /\ Cardinality(InGrace') <= Cardinality(InGrace)
      /\ Cardinality(InGrace) \in Nat
  BY CountsAreFinite, NoMore
<1>2. /\ Cardinality(Inserting') \in Nat /\ Cardinality(Inserting') <= Cardinality(Inserting)
      /\ Cardinality(Inserting) \in Nat
  BY CountsAreFinite, NoMore
<1>3. overlaps \in Nat /\ faults \in Nat
  BY Bounds DEF TypeOK, OverlapsCounted
<1> QED
  BY <1>1, <1>2, <1>3 DEF PendingCounted

\* An erasure is asked for when none is pending, or beside a call that pays for it.
LEMMA AskCounts ==
    ASSUME TypeOK, CallsOK, OverlapsCounted, PendingCounted, NEW c \in Calls, Ask(c)
    PROVE  PendingCounted'
<1>1. /\ requests' = requests /\ faults' = faults /\ faults \in Nat /\ overlaps \in Nat
      /\ InGrace' = InGrace
  BY Bounds DEF Ask, TypeOK, OverlapsCounted, InGrace
<1>2. CASE Pending # {}
  <2>1. Inserting' \subseteq Inserting
    BY <1>2, GoneTo DEF Ask, Return, Inserting
  <2>2. overlaps' \in Nat /\ overlaps' >= overlaps
    BY <1>1 DEF Ask, Comes
  <2> QED
    BY <1>1, <2>1, <2>2, NoneMore
<1>3. CASE Pending = {}
  <2>1. InGrace = {} /\ Cardinality({}) = 0
    BY <1>3, FS_EmptySet DEF InGrace, Pending
  <2>2. Inserting' \subseteq Inserting \union {c}
    BY <1>3, GoneTo DEF Ask, Inserting
  <2>3. /\ Cardinality(Inserting) \in Nat /\ Cardinality(Inserting') \in Nat
        /\ Cardinality(Inserting') <= Cardinality(Inserting) + 1
    BY <2>2, CountsAreFinite, OneMore, FS_CardinalityType
  <2>4. CASE \E d \in Calls : InProgress(d)
    BY <1>1, <2>1, <2>3, <2>4 DEF Ask, Comes, PendingCounted
  <2>5. CASE ~\E d \in Calls : InProgress(d)
    <3>1. Inserting = {}
      BY <2>5 DEF Inserting, InProgress
    <3>2. overlaps' = overlaps
      BY <1>1, <2>5 DEF Ask, Comes
    <3> QED
      BY <1>1, <2>1, <2>3, <3>1, <3>2 DEF PendingCounted
  <2> QED
    BY <2>4, <2>5
<1> QED
  BY <1>2, <1>3

LEMMA InsertCounts ==
    ASSUME TypeOK, CallsOK, OverlapsCounted, PendingCounted, NEW c \in Calls, Insert(c)
    PROVE  PendingCounted'
<1> DEFINE n == Len(requests) + 1
<1>1. /\ \A i \in DOMAIN requests : requests'[i] = requests[i]
      /\ DOMAIN requests' = DOMAIN requests \union {n}
  BY DEF Insert, TypeOK
<1>2. InGrace' \subseteq InGrace \union {n}
  BY <1>1 DEF InGrace
<1>3. c \in Inserting /\ Inserting' \subseteq Inserting \ {c}
  BY GoneTo DEF Insert, Return, At, Inserting
<1> HIDE DEF n
<1>4. Cardinality(InGrace') \in Nat /\ Cardinality(InGrace') <= Cardinality(InGrace) + 1
  BY <1>2, CountsAreFinite, OneMore
<1>5. Cardinality(Inserting') \in Nat /\ Cardinality(Inserting') + 1 <= Cardinality(Inserting)
  BY <1>3, CountsAreFinite, OneLess
<1>6. Cardinality(InGrace) \in Nat /\ Cardinality(Inserting) \in Nat /\ overlaps \in Nat /\ faults \in Nat
  BY CountsAreFinite, FS_CardinalityType, Bounds DEF TypeOK, OverlapsCounted
<1>7. overlaps' = overlaps /\ faults' = faults
  BY DEF Insert
<1> QED
  BY <1>4, <1>5, <1>6, <1>7 DEF PendingCounted

LEMMA FailureCounts ==
    ASSUME TypeOK, CallsOK, OverlapsCounted, PendingCounted, NEW c \in Calls, EraseFails(c)
    PROVE  PendingCounted'
<1> DEFINE n == call[c].i
<1>1. n \in DOMAIN requests
  BY DEF EraseFails, CallsOK
<1>2. InGrace' \subseteq InGrace \union {n}
  BY <1>1, StatusWritten DEF EraseFails, InGrace
<1>3. Inserting' \subseteq Inserting
  BY GoneTo DEF EraseFails, Return, Inserting
<1> HIDE DEF n
<1>4. Cardinality(InGrace') \in Nat /\ Cardinality(InGrace') <= Cardinality(InGrace) + 1
  BY <1>2, CountsAreFinite, OneMore
<1>5. Cardinality(Inserting') \in Nat /\ Cardinality(Inserting') <= Cardinality(Inserting)
  BY <1>3, CountsAreFinite, NoMore
<1>6. Cardinality(InGrace) \in Nat /\ Cardinality(Inserting) \in Nat /\ overlaps \in Nat /\ faults \in Nat
  BY CountsAreFinite, FS_CardinalityType, Bounds DEF TypeOK, OverlapsCounted
<1>7. overlaps' = overlaps /\ faults' = faults + 1
  BY DEF EraseFails
<1> QED
  BY <1>4, <1>5, <1>6, <1>7 DEF PendingCounted

\* Other steps make no request pending.
LEMMA PendingStep ==
    ASSUME TypeOK, CallsOK, OverlapsCounted, PendingCounted, [Next]_vars
    PROVE  PendingCounted'
<1>0. /\ overlaps \in Nat /\ faults \in Nat /\ requests \in Seq(Request)
  BY Bounds DEF TypeOK, OverlapsCounted
<1>1. CASE \E c \in Calls : Ask(c) \/ Insert(c) \/ EraseFails(c)
  BY <1>1, AskCounts, InsertCounts, FailureCounts
<1>2. CASE ~\E c \in Calls : Ask(c) \/ Insert(c) \/ EraseFails(c)
  <2>1. Inserting' \subseteq Inserting
    BY <1>0, <1>2, Changes DEF NewInsert, Inserting
  <2>2. ASSUME NEW c \in Calls, Process(c) \/ Commit(c)
        PROVE  InGrace' \subseteq InGrace
    <3>1. call[c].i \in DOMAIN requests
      BY <2>2 DEF Process, Commit, At, CallsOK
    <3> QED
      BY <2>2, <3>1, StatusWritten DEF Process, Commit, InGrace
  <2>3. ASSUME NEW c \in Calls, WriteCancelled(c)
        PROVE  InGrace' \subseteq InGrace
    BY <2>3, CancelWritten DEF InGrace
  <2>4. ASSUME NEW i \in DOMAIN requests, GracePeriodEnds(i)
        PROVE  InGrace' \subseteq InGrace
    <3>1. requests[i] \in Request
      BY <1>0
    <3>2. /\ DOMAIN requests' = DOMAIN requests
          /\ \A j \in DOMAIN requests : requests'[j].status = requests[j].status
      BY <1>0, <2>4, <3>1 DEF GracePeriodEnds, Request
    <3> QED
      BY <3>2 DEF InGrace
  <2>5. ASSUME requests' = requests
        PROVE  InGrace' \subseteq InGrace
    BY <2>5 DEF InGrace
  <2>6. InGrace' \subseteq InGrace
    BY <1>0, <1>2, <2>2, <2>3, <2>4, <2>5, Changes
  <2> QED
    BY <1>0, <2>1, <2>6, Changes, NoneMore
<1> QED
  BY <1>1, <1>2

-----------------------------------------------------------------------------
(* Calls that come one after the other *)

\* A call that is alone goes on to a step whose conditions hold.
LEMMA AloneAt ==
    ASSUME CallsOK, NEW c \in Calls, \A d \in Calls : d # c => ~InProgress(d),
           NEW pc \in Pcs, NEW i, NEW read, Goto(c, pc, i, read),
           pc = "process" => requests'[i].status = "grace_period" /\ requests'[i].over,
           pc \in {"erase", "commit"} => requests'[i].status = "processing" /\ requests'[i].over,
           pc = "cancel" => requests'[i].status = "grace_period",
           pc = "commit" => read = [copies |-> DOMAIN exports', consent |-> consent', prefs |-> prefs'],
           pc = "write" => read.prefs = prefs'
    PROVE  Alone'
<1>1. /\ call'[c].pc = pc /\ call'[c].i = i /\ call'[c].read = read
      /\ \A d \in Calls : d # c => call'[d] = call[d]
  BY GoneTo
<1>2. \A d \in Calls : d # c => call'[d].pc \in {"idle", "done"}
  BY <1>1 DEF InProgress
<1> QED
  BY <1>1, <1>2 DEF Alone, At, InProgress

LEMMA AloneStep ==
    ASSUME TypeOK, CallsOK, OverlapsCounted, overlaps = 0 => Alone, [Next]_vars, overlaps' = 0
    PROVE  Alone'
<1>0. requests \in Seq(Request) /\ exports \in Seq(Copy)
  BY DEF TypeOK
<1>e. overlaps \in Nat /\ faults \in Nat
  BY Bounds DEF TypeOK, OverlapsCounted
<1>b. overlaps = 0 /\ Alone
  BY <1>e, Changes
<1>c. ASSUME NEW c \in Calls, Comes(c)
      PROVE  \A d \in Calls : ~InProgress(d)
  BY <1>b, <1>c DEF Comes
<1>d. ASSUME NEW c \in Calls, InProgress(c)
      PROVE  \A d \in Calls : d # c => ~InProgress(d)
  BY <1>b, <1>d DEF Alone
<1>1. ASSUME NEW c \in Calls, Ask(c)
       PROVE  Alone'
  <2>1. \A d \in Calls : ~InProgress(d)
    BY <1>1, <1>c DEF Ask
  <2> QED
    BY <1>1, <2>1, AloneAt DEF Ask, Return, Pcs, IsDue, books
<1>2. ASSUME NEW c \in Calls, AskCopy(c)
       PROVE  Alone'
  <2>1. \A d \in Calls : ~InProgress(d)
    BY <1>2, <1>c DEF AskCopy
  <2> QED
    BY <1>2, <2>1, AloneAt DEF AskCopy, Return, Pcs, IsDue, books
<1>3. ASSUME NEW c \in Calls, NEW i \in DOMAIN requests, Look(c, i)
       PROVE  Alone'
  <2>1. \A d \in Calls : ~InProgress(d)
    BY <1>3, <1>c DEF Look
  <2> QED
    BY <1>3, <2>1, AloneAt DEF Look, Return, Pcs, IsDue, books
<1>4. ASSUME NEW c \in Calls, NEW i \in DOMAIN requests, Cancel(c, i)
       PROVE  Alone'
  <2>1. \A d \in Calls : ~InProgress(d)
    BY <1>4, <1>c DEF Cancel
  <2> QED
    BY <1>4, <2>1, AloneAt DEF Cancel, Return, Pcs, IsDue, books
<1>5. ASSUME NEW c \in Calls, NEW x \in DOMAIN exports, LookAtCopy(c, x)
       PROVE  Alone'
  <2>1. \A d \in Calls : ~InProgress(d)
    BY <1>5, <1>c DEF LookAtCopy
  <2> QED
    BY <1>5, <2>1, AloneAt DEF LookAtCopy, Return, Pcs, IsDue
<1>6. ASSUME NEW c \in Calls, NEW type \in Types, NEW answer \in Answers, Answer(c, type, answer)
       PROVE  Alone'
  <2>1. \A d \in Calls : ~InProgress(d)
    BY <1>6, <1>c DEF Answer
  <2> QED
    BY <1>6, <2>1, AloneAt DEF Answer, Return, Pcs, IsDue, books
<1>7. ASSUME NEW c \in Calls, Insert(c)
       PROVE  Alone'
  <2>1. \A d \in Calls : d # c => ~InProgress(d)
    BY <1>7, <1>d DEF Insert, At, InProgress
  <2> QED
    BY <1>7, <2>1, AloneAt DEF Insert, Return, Pcs
<1>8. ASSUME NEW c \in Calls, Process(c)
       PROVE  Alone'
  <2>1. \A d \in Calls : d # c => ~InProgress(d)
    BY <1>8, <1>d DEF Process, At, InProgress
  <2>2. call[c].i \in DOMAIN requests /\ requests[call[c].i].over
    BY <1>8, <1>b DEF Process, At, CallsOK, Alone
  <2>3. requests'[call[c].i].status = "processing" /\ requests'[call[c].i].over
    BY <1>8, <2>2, StatusWritten DEF Process
  <2> QED
    BY <1>8, <2>1, <2>3, AloneAt DEF Process, Pcs
<1>9. ASSUME NEW c \in Calls, Erase(c)
       PROVE  Alone'
  <2>1. \A d \in Calls : d # c => ~InProgress(d)
    BY <1>9, <1>d DEF Erase, At, InProgress
  <2>2. requests[call[c].i].status = "processing" /\ requests[call[c].i].over
    BY <1>9, <1>b DEF Erase, At, Alone
  <2> QED
    BY <1>9, <2>1, <2>2, AloneAt DEF Erase, Pcs, books, Deleted
<1>10. ASSUME NEW c \in Calls, Commit(c)
       PROVE  Alone'
  <2>1. \A d \in Calls : d # c => ~InProgress(d)
    BY <1>10, <1>d DEF Commit, At, InProgress
  <2> QED
    BY <1>10, <2>1, AloneAt DEF Commit, Return, Pcs
<1>11. ASSUME NEW c \in Calls, EraseFails(c)
       PROVE  Alone'
  <2>1. \A d \in Calls : d # c => ~InProgress(d)
    BY <1>11, <1>d DEF EraseFails, At, InProgress
  <2> QED
    BY <1>11, <2>1, AloneAt DEF EraseFails, Return, Pcs
<1>12. ASSUME NEW c \in Calls, WriteCancelled(c)
       PROVE  Alone'
  <2>1. \A d \in Calls : d # c => ~InProgress(d)
    BY <1>12, <1>d DEF WriteCancelled, At, InProgress
  <2> QED
    BY <1>12, <2>1, AloneAt DEF WriteCancelled, Return, Pcs
<1>13. ASSUME NEW c \in Calls, Open(c)
       PROVE  Alone'
  <2>1. \A d \in Calls : d # c => ~InProgress(d)
    BY <1>13, <1>d DEF Open, At, InProgress
  <2> QED
    BY <1>13, <2>1, AloneAt DEF Open, Return, Pcs
<1>14. ASSUME NEW c \in Calls, Collect(c)
       PROVE  Alone'
  <2>1. \A d \in Calls : d # c => ~InProgress(d)
    BY <1>14, <1>d DEF Collect, Gathered, At, InProgress
  <2> QED
    BY <1>14, <2>1, AloneAt DEF Collect, Gathered, Return, Pcs
<1>15. ASSUME NEW c \in Calls, Write(c)
       PROVE  Alone'
  <2>1. \A d \in Calls : d # c => ~InProgress(d)
    BY <1>15, <1>d DEF Write, At, InProgress
  <2> QED
    BY <1>15, <2>1, AloneAt DEF Write, Return, Pcs
<1>16. ASSUME NEW c \in Calls, CutOff(c)
       PROVE  Alone'
  <2>1. \A d \in Calls : d # c => ~InProgress(d)
    BY <1>16, <1>d DEF CutOff, At, InProgress
  <2> QED
    BY <1>16, <2>1, AloneAt DEF CutOff, Return, Pcs
<1>17. ASSUME NEW i \in DOMAIN requests, GracePeriodEnds(i)
       PROVE  Alone'
  <2>1. /\ \A j \in DOMAIN requests :
              requests'[j].status = requests[j].status /\ (requests[j].over => requests'[j].over)
    <3>1. requests[i] \in Request
      BY <1>0
    <3> QED
      BY <1>17, <1>0, <3>1 DEF GracePeriodEnds, Request
  <2> QED
    BY <1>17, <1>b, <2>1 DEF GracePeriodEnds, Alone, At, InProgress, CallsOK, books
<1>18. ASSUME NEW x \in DOMAIN exports, DayPasses(x)
       PROVE  Alone'
  <2>1. DOMAIN exports' = DOMAIN exports
    BY <1>18, <1>0 DEF DayPasses
  <2> QED
    BY <1>18, <1>b, <2>1 DEF DayPasses, Alone, At, InProgress
<1>19. CASE UNCHANGED vars
  BY <1>19, <1>b DEF Alone, At, InProgress, vars, books
<1> QED
  BY <1>1, <1>2, <1>3, <1>4, <1>5, <1>6, <1>7, <1>8, <1>9, <1>10, <1>11, <1>12, <1>13,
     <1>14, <1>15, <1>16, <1>17, <1>18, <1>19
  DEF Next, Begin, GoOn

-----------------------------------------------------------------------------
(* The promises *)

LEMMA WordStep ==
    ASSUME TypeOK, CallsOK, OverlapsCounted, overlaps = 0 => Alone, KeepsItsWord, [Next]_vars
    PROVE  KeepsItsWord'
<1> SUFFICES ASSUME overlaps' = 0 PROVE KeepsItsWord'
  BY DEF KeepsItsWord
<1>e. overlaps \in Nat /\ faults \in Nat
  BY Bounds DEF TypeOK, OverlapsCounted
<1> DEFINE Kept ==
        /\ \A i \in DOMAIN requests : requests[i].told => requests[i].status = "cancelled"
        /\ person = "anonymous" =>
               \E i \in DOMAIN requests : requests[i].over /\ requests[i].status = "completed"
<1>0. overlaps = 0 /\ Alone /\ Kept /\ requests \in Seq(Request)
  BY <1>e, Changes DEF KeepsItsWord, TypeOK
<1>z. SUFFICES Kept'
  BY DEF KeepsItsWord
<1>1. ASSUME NEW c \in Calls, Insert(c)
       PROVE  Kept'
  <2> DEFINE n == Len(requests) + 1
  <2>1. /\ DOMAIN requests' = DOMAIN requests \union {n} /\ ~requests'[n].told
        /\ \A j \in DOMAIN requests : requests'[j] = requests[j]
        /\ person' = person
    BY <1>1, <1>0 DEF Insert
  <2> QED
    BY <1>0, <2>1
<1>2. ASSUME NEW c \in Calls, Process(c)
       PROVE  Kept'
  <2> DEFINE i == call[c].i
  <2>1. i \in DOMAIN requests /\ requests[i].status = "grace_period"
    BY <1>2, <1>0 DEF Process, At, CallsOK, Alone
  <2>2. /\ DOMAIN requests' = DOMAIN requests /\ requests'[i].told = requests[i].told
        /\ \A j \in DOMAIN requests : j # i => requests'[j] = requests[j]
    BY <1>2, <2>1, StatusWritten DEF Process
  <2>3. person' = person
    BY <1>2 DEF Process
  <2> HIDE DEF i
  <2> QED
    BY <1>0, <2>1, <2>2, <2>3
<1>3. ASSUME NEW c \in Calls, Commit(c)
       PROVE  Kept'
  <2> DEFINE i == call[c].i
  <2>1. i \in DOMAIN requests /\ requests[i].status = "processing" /\ requests[i].over
    BY <1>3, <1>0 DEF Commit, At, CallsOK, Alone
  <2>2. /\ DOMAIN requests' = DOMAIN requests /\ requests'[i].told = requests[i].told
        /\ requests'[i].over = requests[i].over /\ requests'[i].status = "completed"
        /\ \A j \in DOMAIN requests : j # i => requests'[j] = requests[j]
    BY <1>3, <2>1, StatusWritten DEF Commit
  <2> HIDE DEF i
  <2>3. ~requests[i].told
    BY <1>0, <2>1
  <2>4. \A j \in DOMAIN requests' : requests'[j].told => requests'[j].status = "cancelled"
    BY <1>0, <2>2, <2>3
  <2>5. \E j \in DOMAIN requests' : requests'[j].over /\ requests'[j].status = "completed"
    BY <2>1, <2>2
  <2> QED
    BY <2>4, <2>5
<1>4. ASSUME NEW c \in Calls, EraseFails(c)
       PROVE  Kept'
  <2> DEFINE i == call[c].i
  <2>1. i \in DOMAIN requests /\ requests[i].status = "processing"
    BY <1>4, <1>0 DEF EraseFails, At, CallsOK, Alone
  <2>2. person' = person
    BY <1>4 DEF EraseFails
  <2>3. CASE SetStatus(i, "grace_period")
    <3>1. /\ DOMAIN requests' = DOMAIN requests /\ requests'[i].told = requests[i].told
          /\ \A j \in DOMAIN requests : j # i => requests'[j] = requests[j]
      BY <2>1, <2>3, StatusWritten
    <3> HIDE DEF i
    <3> QED
      BY <1>0, <2>1, <2>2, <3>1
  <2>4. CASE requests' = requests
    BY <1>0, <2>2, <2>4
  <2> QED
    BY <1>4, <2>3, <2>4 DEF EraseFails
<1>5. ASSUME NEW c \in Calls, WriteCancelled(c)
       PROVE  Kept'
  <2> DEFINE i == call[c].i
  <2>1. i \in DOMAIN requests /\ requests[i].status = "grace_period"
    BY <1>5, <1>0 DEF WriteCancelled, At, CallsOK, Alone
  <2>2. /\ DOMAIN requests' = DOMAIN requests /\ requests'[i].status = "cancelled"
        /\ \A j \in DOMAIN requests : j # i => requests'[j] = requests[j]
    BY <1>5, CancelWritten
  <2>3. person' = person
    BY <1>5 DEF WriteCancelled
  <2> HIDE DEF i
  <2> QED
    BY <1>0, <2>1, <2>2, <2>3
<1>6. ASSUME NEW i \in DOMAIN requests, GracePeriodEnds(i)
       PROVE  Kept'
  <2>1. requests[i] \in Request
    BY <1>0
  <2>2. /\ DOMAIN requests' = DOMAIN requests
        /\ \A j \in DOMAIN requests :
               /\ requests'[j].status = requests[j].status /\ requests'[j].told = requests[j].told
               /\ requests[j].over => requests'[j].over
        /\ person' = person
    BY <1>6, <1>0, <2>1 DEF GracePeriodEnds, Request
  <2> QED
    BY <1>0, <2>2
<1>7. CASE requests' = requests /\ person' = person
  BY <1>7, <1>0
<1> QED
  BY <1>e, <1>1, <1>2, <1>3, <1>4, <1>5, <1>6, <1>7, Changes

LEMMA CopiesStep ==
    ASSUME TypeOK, CallsOK, OverlapsCounted, overlaps = 0 => Alone, NoCopyOutlives, [Next]_vars
    PROVE  NoCopyOutlives'
<1> SUFFICES ASSUME overlaps' = 0 PROVE NoCopyOutlives'
  BY DEF NoCopyOutlives
<1>e. overlaps \in Nat /\ faults \in Nat
  BY Bounds DEF TypeOK, OverlapsCounted
<1> DEFINE Gone == person = "anonymous" => \A x \in DOMAIN exports : exports[x].kept => exports[x].says # "named"
<1>0. overlaps = 0 /\ Alone /\ Gone /\ exports \in Seq(Copy)
  BY <1>e, Changes DEF NoCopyOutlives, TypeOK
<1>z. SUFFICES Gone'
  BY DEF NoCopyOutlives
<1>1. ASSUME NEW c \in Calls, NEW x \in DOMAIN exports, LookAtCopy(c, x)
       PROVE  Gone'
  <2>1. exports[x] \in Copy
    BY <1>0
  <2>2. /\ DOMAIN exports' = DOMAIN exports /\ person' = person
        /\ exports'[x].says = "nothing"
        /\ \A y \in DOMAIN exports : y # x => exports'[y] = exports[y]
    BY <1>1, <1>0, <2>1 DEF LookAtCopy, Copy
  <2> QED
    BY <1>0, <2>2
<1>2. ASSUME NEW c \in Calls, Commit(c)
       PROVE  Gone'
  <2>1. call[c].read.copies = DOMAIN exports
    BY <1>2, <1>0 DEF Commit, Alone, At
  <2>2. \A x \in DOMAIN exports : [exports[x] EXCEPT !.kept = FALSE].kept = FALSE
    <3> SUFFICES ASSUME NEW x \in DOMAIN exports PROVE [exports[x] EXCEPT !.kept = FALSE].kept = FALSE
      OBVIOUS
    <3>1. exports[x] \in Copy
      BY <1>0
    <3> QED
      BY <3>1 DEF Copy
  <2>3. exports' = [x \in DOMAIN exports |->
                      IF x \in call[c].read.copies THEN [exports[x] EXCEPT !.kept = FALSE] ELSE exports[x]]
    BY <1>2 DEF Commit
  <2> QED
    BY <2>1, <2>2, <2>3
<1>3. ASSUME NEW c \in Calls, Open(c)
       PROVE  Gone'
  <2> DEFINE n == Len(exports) + 1
  <2>1. /\ DOMAIN exports' = DOMAIN exports \union {n} /\ exports'[n].says = "nothing"
        /\ \A y \in DOMAIN exports : exports'[y] = exports[y]
        /\ person' = person
    BY <1>3, <1>0 DEF Open
  <2> QED
    BY <1>0, <2>1
<1>4. ASSUME NEW c \in Calls, Collect(c)
       PROVE  Gone'
  <2> DEFINE x == call[c].i
  <2>1. x \in DOMAIN exports /\ exports[x] \in Copy
    BY <1>4, <1>0 DEF Collect, Gathered, At, CallsOK
  <2>2. person' = person
    BY <1>4 DEF Collect, Gathered
  <2>3. /\ DOMAIN exports' = DOMAIN exports
        /\ exports'[x].says \in {person, exports[x].says} /\ exports'[x].kept = exports[x].kept
        /\ \A y \in DOMAIN exports : y # x => exports'[y] = exports[y]
    BY <1>4, <1>0, <2>1 DEF Collect, Gathered, Copy
  <2> HIDE DEF x
  <2> QED
    BY <1>0, <2>1, <2>2, <2>3
<1>5. ASSUME NEW x \in DOMAIN exports, DayPasses(x)
       PROVE  Gone'
  <2>1. exports[x] \in Copy
    BY <1>0
  <2>2. /\ DOMAIN exports' = DOMAIN exports /\ person' = person
        /\ exports'[x].says = exports[x].says /\ exports'[x].kept = exports[x].kept
        /\ \A y \in DOMAIN exports : y # x => exports'[y] = exports[y]
    BY <1>5, <1>0, <2>1 DEF DayPasses, Copy
  <2> QED
    BY <1>0, <2>2
<1>6. CASE exports' = exports /\ person' = person
  BY <1>6, <1>0
<1> QED
  BY <1>e, <1>1, <1>2, <1>3, <1>4, <1>5, <1>6, Changes

LEMMA PreferencesStep ==
    ASSUME TypeOK, CallsOK, OverlapsCounted, overlaps = 0 => Alone, PreferencesFollow, [Next]_vars
    PROVE  PreferencesFollow'
<1> SUFFICES ASSUME overlaps' = 0 PROVE PreferencesFollow'
  BY DEF PreferencesFollow
<1>e. overlaps \in Nat /\ faults \in Nat
  BY Bounds DEF TypeOK, OverlapsCounted
<1> DEFINE Follow == \A t \in Types : consent[t] # "none" => prefs # <<>> /\ prefs[t] = consent[t]
<1>0. overlaps = 0 /\ Alone /\ Follow /\ consent \in [Types -> Answers \union {"none"}]
      /\ prefs \in Row \union {<<>>}
  BY <1>e, Changes DEF PreferencesFollow, TypeOK
<1>z. SUFFICES Follow'
  BY DEF PreferencesFollow
<1>1. ASSUME NEW c \in Calls, Commit(c)
       PROVE  Follow'
  <2>1. call[c].read.consent = consent
    BY <1>1, <1>0 DEF Commit, Alone, At
  <2>2. \A t \in Types : consent'[t] = "none"
    BY <1>1, <2>1 DEF Commit
  <2> QED
    BY <2>2
<1>2. ASSUME NEW c \in Calls, Write(c)
       PROVE  Follow'
  <2> DEFINE read == call[c].read
  <2>1. read \in Told /\ read.prefs = prefs
    BY <1>2, <1>0 DEF Write, At, CallsOK, Alone
  <2>2. read.type \in Types /\ read.answer \in Answers
    BY <2>1 DEF Told
  <2> DEFINE row == IF prefs = <<>> THEN Default ELSE prefs
  <2>3. row \in Row
    BY <1>0, DefaultIsARow
  <2>4. consent' = [consent EXCEPT ![read.type] = read.answer] /\ prefs' = [row EXCEPT ![read.type] = read.answer]
    BY <1>2, <2>1 DEF Write, Carried
  <2>5. prefs' \in Row
    BY <2>2, <2>3, <2>4 DEF Row
  <2> HIDE DEF read
  <2>6. ASSUME NEW t \in Types, consent'[t] # "none"
        PROVE  prefs'[t] = consent'[t]
    <3>1. CASE t = read.type
      BY <1>0, <2>2, <2>3, <2>4, <3>1 DEF Row
    <3>2. CASE t # read.type
      <4>1. consent'[t] = consent[t] /\ prefs # <<>> /\ prefs[t] = consent[t]
        BY <1>0, <2>2, <2>4, <2>6, <3>2
      <4> QED
        BY <2>2, <2>3, <2>4, <3>2, <4>1 DEF Row
    <3> QED
      BY <3>1, <3>2
  <2> QED
    BY <2>5, <2>6, NotARow
<1>3. CASE consent' = consent /\ prefs' = prefs
  BY <1>3, <1>0
<1> QED
  BY <1>e, <1>1, <1>2, <1>3, Changes

-----------------------------------------------------------------------------
(* The theorems *)

LEMMA NextKeeps == IInv /\ [Next]_vars => IInv'
  BY TypeStep, CallsStep, OverlapsStep, PendingStep, AloneStep, WordStep, CopiesStep, PreferencesStep DEF IInv

\* The invariant is inductive: types, counts, what a lone call may rely on, and the promises.
THEOREM Invariance == Spec => []IInv
  BY InitKeeps, NextKeeps, PTL DEF Spec

\* With any number of calls of request_deletion, get_deletion_status and cancel_deletion, however
\* they overlap, each pending erasure but one is paid for by an overlap or a failed erasure.
THEOREM PendingIsPaidFor == Spec => []OneIsPending
<1>1. IInv => OneIsPending
  <2> SUFFICES ASSUME IInv PROVE OneIsPending
    OBVIOUS
  <2>1. Cardinality(InGrace) \in Nat /\ Cardinality(Inserting) \in Nat /\ overlaps \in Nat /\ faults \in Nat
    BY CountsAreFinite, FS_CardinalityType, Bounds DEF IInv, TypeOK, OverlapsCounted
  <2> QED
    BY <2>1 DEF IInv, PendingCounted, OneIsPending, InGrace
<1> QED
  BY <1>1, Invariance, PTL

\* While calls come one after the other, an erasure called off stays off, nobody is made anonymous
\* before the time, no copy outlives the person it names, and the email preferences say what the
\* consents on record say.
THEOREM RightsKept == Spec => []RightsAreKept
<1>1. IInv /\ OneIsPending => RightsAreKept
  BY DEF IInv, RightsAreKept
<1> QED
  BY <1>1, Invariance, PendingIsPaidFor, PTL

(***************************************************************************)
(* For every flow, and any number of requests, workers and mishaps: an     *)
(* enrolment takes the steps of the flow one after the other as long as    *)
(* nobody edits the flow and no two workers take up the same wait; and     *)
(* whatever happens, what goes out after its end is bounded by who had it  *)
(* in hand.                                                                *)
(*                                                                         *)
(* The arguments: nothing locks an enrolment, but what is left of it to do *)
(* is handed on, from the event to the thread that carries it, to the wait *)
(* that holds it, to the worker that marks the wait (OneAtATime), and each *)
(* of them stands where the enrolment is (OnItsWay). A second worker adds  *)
(* one more to those who have it in hand, never more (Few).                *)
(***************************************************************************)

-----------------------------------------------------------------------------
(* Flows: types *)

Carrying == {"execute", "advance", "move", "complete"}
Positions == Carrying \union {"idle", "insert", "mark", "goal"}
Carries(t) == run[t].pc \in Carrying

Enrollment == [status : {"active", "completed", "goal_reached", "exited"}, at : Steps, ran : Seq(Steps), late : Nat]
Execution == [e : Nat, waiting : BOOLEAN]
Errand == [pc : Positions, e : Nat, x : Nat, goal : BOOLEAN]

FlowDrawn ==
    /\ steps \in Seq(STRING) /\ steps # <<>> /\ links \subseteq Link
    /\ flow \in {"draft", "active", "paused", "archived"} /\ builder \in {"idle", "validated"}
    /\ edits \in Nat /\ pauses \in Nat /\ failures \in Nat /\ retakes \in Nat
    /\ edits + pauses + failures + retakes <= MaxMishaps

ErrandOK(t) ==
    /\ run[t].pc \in Carrying \union {"mark"} => E(t) \in DOMAIN enrolled
    /\ run[t].pc \in {"execute", "move"} => run[t].x \in Steps
    /\ run[t].pc = "mark" => run[t].x \in DOMAIN waits /\ waits[run[t].x].e = E(t)

FlowTyped ==
    /\ FlowDrawn
    /\ enrolled \in Seq(Enrollment)
    /\ waits \in Seq(Execution)
    /\ run \in [Threads -> Errand]
    /\ \A x \in DOMAIN waits : waits[x].e \in DOMAIN enrolled
    /\ \A t \in Threads : ErrandOK(t)

LEMMA IsSequence ==
    ASSUME NEW S, NEW n \in Nat, NEW f \in [1..n -> S]
    PROVE  f \in Seq(S) /\ Len(f) = n /\ DOMAIN f = 1..n
  BY SMT

\* A sequence whose elements are replaced.
LEMMA Remade ==
    ASSUME NEW S, NEW s \in Seq(S), NEW f, DOMAIN f = DOMAIN s, f = [i \in DOMAIN s |-> f[i]],
           \A i \in DOMAIN s : f[i] \in S
    PROVE  f \in Seq(S) /\ Len(f) = Len(s)
<1>1. DOMAIN s = 1..Len(s) /\ Len(s) \in Nat
  OBVIOUS
<1>2. f \in [1..Len(s) -> S]
  BY <1>1
<1> QED
  BY <1>1, <1>2, IsSequence

LEMMA Lengthened ==
    ASSUME NEW S, NEW s \in Seq(S), NEW v \in S
    PROVE  /\ Append(s, v) \in Seq(S) /\ DOMAIN Append(s, v) = 1..Len(s) + 1
           /\ DOMAIN s \subseteq DOMAIN Append(s, v) /\ Len(s) + 1 \in DOMAIN Append(s, v)
           /\ \A i \in DOMAIN Append(s, v) : i \in DOMAIN s \/ i = Len(s) + 1
           /\ \A i \in DOMAIN s : Append(s, v)[i] = s[i]
           /\ Append(s, v)[Len(s) + 1] = v
           /\ Append(s, v) # <<>> /\ Last(Append(s, v)) = v
           /\ Len(s) + 1 \notin DOMAIN s /\ Len(s) + 1 \in Nat
  BY DEF Last

LEMMA StepsAreNumbers == steps \in Seq(STRING) => Steps = 1..Len(steps) /\ Steps \subseteq Nat
  BY DEF Steps

LEMMA FlowStartsTyped == FlowInit => FlowTyped
<1> SUFFICES ASSUME FlowInit PROVE FlowTyped
  OBVIOUS
<1>1. PICK d \in Drafts : steps = d.steps /\ links = d.links /\ asks = d.asks /\ aim = d.aim
  BY DEF FlowInit
<1>2. FlowDrawn
  BY <1>1, DraftsAreFlows, MishapsAreBounded DEF FlowInit, FlowDrawn, Link, Steps
<1>3. run \in [Threads -> Errand] /\ \A t \in Threads : run[t].pc = "idle"
  BY DEF FlowInit, IdleRun, Errand, Positions
<1> QED
  BY <1>2, <1>3 DEF FlowInit, FlowTyped, ErrandOK, Carrying

\* A step of this thread.
Acts(t) == run' \in [Threads -> Errand] /\ \A u \in Threads \ {t} : run'[u] = run[u]

LEMMA Proceeded ==
    ASSUME FlowTyped, NEW t \in Threads, NEW pc \in Positions, NEW x \in Nat, Proceed(t, pc, x)
    PROVE  /\ Acts(t)
           /\ run'[t].pc = pc /\ run'[t].x = x /\ run'[t].e = run[t].e /\ run'[t].goal = run[t].goal
  BY DEF Acts, FlowTyped, Proceed, Errand

LEMMA Stopped ==
    ASSUME FlowTyped, NEW t \in Threads, Stop(t)
    PROVE  Acts(t) /\ run'[t].pc = "idle"
  BY DEF Acts, FlowTyped, Stop, Errand, IdleRun, Positions

LEMMA Left ==
    ASSUME FlowTyped, NEW t \in Threads, Leave(t)
    PROVE  Acts(t) /\ run'[t].pc \in {"idle", "goal"}
<1>1. CASE run[t].goal
  BY <1>1, Proceeded DEF Leave, Positions
<1>2. CASE ~run[t].goal
  BY <1>2, Stopped DEF Leave
<1> QED
  BY <1>1, <1>2

\* A step that only one thread, if any, takes, and that takes no row away.
LEMMA TypedAfter ==
    ASSUME FlowTyped, UNCHANGED steps, FlowDrawn',
           enrolled' \in Seq(Enrollment), DOMAIN enrolled \subseteq DOMAIN enrolled',
           waits' \in Seq(Execution), DOMAIN waits \subseteq DOMAIN waits',
           \A x \in DOMAIN waits : waits'[x].e = waits[x].e,
           \A x \in DOMAIN waits' : waits'[x].e \in DOMAIN enrolled',
           run' \in [Threads -> Errand],
           \A u \in Threads : run'[u] = run[u] \/ ErrandOK(u)'
    PROVE  FlowTyped'
<1>1. Enrollment' = Enrollment /\ Steps' = Steps
  BY DEF Enrollment, Steps
<1>2. ASSUME NEW u \in Threads PROVE ErrandOK(u)'
  <2>1. CASE run'[u] = run[u]
    <3>1. ErrandOK(u) /\ \A x \in DOMAIN waits : waits'[x].e = waits[x].e
      BY DEF FlowTyped
    <3>2. /\ run[u].pc \in Carrying \union {"mark"} => run[u].e \in DOMAIN enrolled'
          /\ run[u].pc \in {"execute", "move"} => run[u].x \in Steps'
      BY <1>1, <3>1 DEF ErrandOK, E
    <3>3. run[u].pc = "mark" => run[u].x \in DOMAIN waits' /\ waits'[run[u].x].e = run[u].e
      BY <3>1 DEF ErrandOK, E
    <3> QED
      BY <2>1, <3>2, <3>3 DEF ErrandOK, E
  <2> QED
    BY <2>1
<1> QED
  BY <1>1, <1>2 DEF FlowTyped

\* What the steps of a thread leave alone.
LEMMA DrawnStays ==
    ASSUME FlowDrawn, UNCHANGED <<designVars, failures, retakes>>
    PROVE  FlowDrawn' /\ UNCHANGED <<steps, links, edits, pauses>>
  BY DEF FlowDrawn, designVars, drawn, Link, Steps

LEMMA Rewritten ==
    ASSUME FlowTyped, NEW e \in DOMAIN enrolled, NEW v \in Enrollment,
           enrolled' = [enrolled EXCEPT ![e] = v]
    PROVE  /\ enrolled' \in Seq(Enrollment) /\ DOMAIN enrolled' = DOMAIN enrolled
           /\ enrolled'[e] = v /\ \A d \in DOMAIN enrolled \ {e} : enrolled'[d] = enrolled[d]
<1>1. enrolled \in Seq(Enrollment)
  BY DEF FlowTyped
<1>2. DOMAIN enrolled' = DOMAIN enrolled /\ enrolled' = [d \in DOMAIN enrolled |-> enrolled'[d]]
  OBVIOUS
<1>3. \A d \in DOMAIN enrolled : enrolled'[d] \in Enrollment
  BY <1>1
<1> QED
  BY <1>1, <1>2, <1>3, Remade

\* A step is run: it is appended to what the enrolment has run.
LEMMA Recorded ==
    ASSUME FlowTyped, NEW t \in Threads, Doing(t, "execute"), Ran(t)
    PROVE  LET n == enrolled[E(t)]  after == enrolled'[E(t)] IN
           /\ enrolled' \in Seq(Enrollment) /\ DOMAIN enrolled' = DOMAIN enrolled
           /\ \A d \in DOMAIN enrolled \ {E(t)} : enrolled'[d] = enrolled[d]
           /\ after.status = n.status /\ after.at = n.at /\ after.ran = Append(n.ran, run[t].x)
           /\ after.late = IF IsActive(E(t)) \/ steps[run[t].x] \notin Outward THEN n.late ELSE n.late + 1
<1> DEFINE n == enrolled[E(t)]
           late == n.late + IF IsActive(E(t)) \/ steps[run[t].x] \notin Outward THEN 0 ELSE 1
           v == [n EXCEPT !.ran = Append(@, run[t].x), !.late = late]
<1>1. E(t) \in DOMAIN enrolled /\ run[t].x \in Steps /\ n \in Enrollment
  BY DEF FlowTyped, ErrandOK, Doing, Carrying
<1>2. Append(n.ran, run[t].x) \in Seq(Steps) /\ late \in Nat
  BY <1>1 DEF Enrollment
<1>3. v \in Enrollment /\ v.status = n.status /\ v.at = n.at /\ v.ran = Append(n.ran, run[t].x) /\ v.late = late
  BY <1>1, <1>2 DEF Enrollment
<1>4. enrolled' = [enrolled EXCEPT ![E(t)] = v]
  BY DEF Ran
<1> HIDE DEF v
<1>5. /\ enrolled' \in Seq(Enrollment) /\ DOMAIN enrolled' = DOMAIN enrolled
      /\ enrolled'[E(t)] = v /\ \A d \in DOMAIN enrolled \ {E(t)} : enrolled'[d] = enrolled[d]
  BY <1>1, <1>3, <1>4, Rewritten
<1>6. late = IF IsActive(E(t)) \/ steps[run[t].x] \notin Outward THEN n.late ELSE n.late + 1
  BY <1>1 DEF Enrollment
<1> QED
  BY <1>3, <1>5, <1>6

\* Everybody still active is ended.
LEMMA AllEnd ==
    ASSUME FlowTyped, NEW status \in {"exited", "goal_reached"},
           enrolled' = [e \in DOMAIN enrolled |->
                          IF IsActive(e) THEN [enrolled[e] EXCEPT !.status = status] ELSE enrolled[e]]
    PROVE  /\ enrolled' \in Seq(Enrollment) /\ DOMAIN enrolled' = DOMAIN enrolled
           /\ \A e \in DOMAIN enrolled :
                 /\ enrolled'[e].at = enrolled[e].at /\ enrolled'[e].ran = enrolled[e].ran
                 /\ enrolled'[e].late = enrolled[e].late
                 /\ enrolled'[e].status = IF enrolled[e].status = "active" THEN status ELSE enrolled[e].status
<1>1. enrolled \in Seq(Enrollment) /\ \A e \in DOMAIN enrolled : enrolled[e] \in Enrollment
  BY DEF FlowTyped
<1>2. ASSUME NEW e \in DOMAIN enrolled
      PROVE  /\ enrolled'[e] \in Enrollment
             /\ enrolled'[e].at = enrolled[e].at /\ enrolled'[e].ran = enrolled[e].ran
             /\ enrolled'[e].late = enrolled[e].late
             /\ enrolled'[e].status = IF enrolled[e].status = "active" THEN status ELSE enrolled[e].status
  <2>1. enrolled'[e] = IF enrolled[e].status = "active" THEN [enrolled[e] EXCEPT !.status = status] ELSE enrolled[e]
    BY DEF IsActive
  <2> QED
    BY <1>1, <2>1 DEF Enrollment
<1>3. DOMAIN enrolled' = DOMAIN enrolled /\ enrolled' = [e \in DOMAIN enrolled |-> enrolled'[e]]
  OBVIOUS
<1> QED
  BY <1>1, <1>2, <1>3, Remade

LEMMA Moved ==
    ASSUME FlowTyped, NEW t \in Threads, Move(t)
    PROVE  LET n == enrolled[E(t)]  after == enrolled'[E(t)] IN
           /\ enrolled' \in Seq(Enrollment) /\ DOMAIN enrolled' = DOMAIN enrolled
           /\ \A d \in DOMAIN enrolled \ {E(t)} : enrolled'[d] = enrolled[d]
           /\ after.status = n.status /\ after.at = run[t].x /\ after.ran = n.ran /\ after.late = n.late
<1> DEFINE n == enrolled[E(t)]
           v == [n EXCEPT !.at = run[t].x]
<1>1. E(t) \in DOMAIN enrolled /\ run[t].x \in Steps /\ n \in Enrollment
  BY DEF FlowTyped, ErrandOK, Move, Doing, Carrying
<1>2. v \in Enrollment /\ v.status = n.status /\ v.at = run[t].x /\ v.ran = n.ran /\ v.late = n.late
  BY <1>1 DEF Enrollment
<1>3. enrolled' = [enrolled EXCEPT ![E(t)] = v]
  BY DEF Move
<1> HIDE DEF v
<1> QED
  BY <1>1, <1>2, <1>3, Rewritten

LEMMA Completed ==
    ASSUME FlowTyped, NEW t \in Threads, Complete(t)
    PROVE  LET n == enrolled[E(t)]  after == enrolled'[E(t)] IN
           /\ enrolled' \in Seq(Enrollment) /\ DOMAIN enrolled' = DOMAIN enrolled
           /\ \A d \in DOMAIN enrolled \ {E(t)} : enrolled'[d] = enrolled[d]
           /\ after.at = n.at /\ after.ran = n.ran /\ after.late = n.late
           /\ after.status = IF n.status = "active" THEN "completed" ELSE n.status
<1> DEFINE n == enrolled[E(t)]
           status == IF n.status = "active" THEN "completed" ELSE n.status
           v == [n EXCEPT !.status = status]
<1>1. E(t) \in DOMAIN enrolled /\ n \in Enrollment
  BY DEF FlowTyped, ErrandOK, Complete, Doing, Carrying
<1>2. v \in Enrollment /\ v.status = status /\ v.at = n.at /\ v.ran = n.ran /\ v.late = n.late
  BY <1>1 DEF Enrollment
<1>3. enrolled' = [enrolled EXCEPT ![E(t)] = v]
  BY DEF Complete
<1> HIDE DEF v
<1> QED
  BY <1>1, <1>2, <1>3, Rewritten

\* Steps of a thread that change neither enrolments nor waits.
LEMMA Unwritten ==
    ASSUME FlowTyped, NEW t \in Threads, UNCHANGED <<designVars, enrolled, waits, failures, retakes>>,
           Acts(t), ErrandOK(t)'
    PROVE  FlowTyped'
<1>1. FlowDrawn' /\ UNCHANGED steps
  BY DrawnStays DEF FlowTyped
<1>2. \A x \in DOMAIN waits : waits[x].e \in DOMAIN enrolled
  BY DEF FlowTyped
<1>3. enrolled' \in Seq(Enrollment) /\ waits' \in Seq(Execution)
  BY DEF FlowTyped
<1>4. run' \in [Threads -> Errand] /\ \A u \in Threads : run'[u] = run[u] \/ ErrandOK(u)'
  BY DEF Acts
<1> QED
  BY <1>1, <1>2, <1>3, <1>4, TypedAfter

\* Steps of a thread that change enrolments, but not waits.
LEMMA Written ==
    ASSUME FlowTyped, NEW t \in Threads, UNCHANGED <<designVars, waits, failures, retakes>>,
           enrolled' \in Seq(Enrollment), DOMAIN enrolled \subseteq DOMAIN enrolled',
           Acts(t), ErrandOK(t)'
    PROVE  FlowTyped'
<1>1. FlowDrawn' /\ UNCHANGED steps
  BY DrawnStays DEF FlowTyped
<1>2. \A x \in DOMAIN waits : waits[x].e \in DOMAIN enrolled
  BY DEF FlowTyped
<1>3. waits' \in Seq(Execution)
  BY DEF FlowTyped
<1>4. run' \in [Threads -> Errand] /\ \A u \in Threads : run'[u] = run[u] \/ ErrandOK(u)'
  BY DEF Acts
<1> QED
  BY <1>1, <1>2, <1>3, <1>4, TypedAfter

\* The records a step makes and leaves.
LEMMA Inserted ==
    ASSUME FlowTyped, NEW t \in Threads, InsertEnrollment(t)
    PROVE  LET n == Len(enrolled) + 1 IN
           /\ enrolled' \in Seq(Enrollment) /\ DOMAIN enrolled' = DOMAIN enrolled \union {n}
           /\ n \notin DOMAIN enrolled /\ \A d \in DOMAIN enrolled : enrolled'[d] = enrolled[d]
           /\ enrolled'[n] = [status |-> "active", at |-> 1, ran |-> <<>>, late |-> 0]
           /\ Acts(t) /\ run'[t].pc = "execute" /\ run'[t].e = n /\ run'[t].x = 1 /\ 1 \in Steps
           /\ UNCHANGED <<designVars, waits, failures, retakes>>
<1> DEFINE new == [status |-> "active", at |-> 1, ran |-> <<>>, late |-> 0]
<1>1. /\ enrolled \in Seq(Enrollment) /\ run \in [Threads -> Errand]
      /\ 1 \in Steps /\ 0 \in Nat
  BY StepsAreNumbers DEF FlowTyped, FlowDrawn, Steps
<1>2. new \in Enrollment /\ enrolled' = Append(enrolled, new)
  BY <1>1 DEF InsertEnrollment, Enrollment
<1> HIDE DEF new
<1>3. /\ enrolled' \in Seq(Enrollment) /\ DOMAIN enrolled' = DOMAIN enrolled \union {Len(enrolled) + 1}
      /\ Len(enrolled) + 1 \notin DOMAIN enrolled /\ \A d \in DOMAIN enrolled : enrolled'[d] = enrolled[d]
      /\ enrolled'[Len(enrolled) + 1] = new /\ Len(enrolled) + 1 \in Nat
  BY <1>1, <1>2, Lengthened
<1>4. Acts(t) /\ run'[t].pc = "execute" /\ run'[t].e = Len(enrolled) + 1 /\ run'[t].x = 1
  <2>1. run' = [run EXCEPT ![t].pc = "execute", ![t].e = Len(enrolled) + 1, ![t].x = 1]
    BY DEF InsertEnrollment
  <2>2. "execute" \in Positions /\ 1 \in Nat /\ Len(enrolled) + 1 \in Nat
    BY <1>3 DEF Positions, Carrying
  <2> QED
    BY <1>1, <2>1, <2>2 DEF Acts, Errand
<1>5. UNCHANGED <<designVars, waits, failures, retakes>>
  BY DEF InsertEnrollment
<1> QED
  BY <1>1, <1>3, <1>4, <1>5 DEF new

LEMMA Waited ==
    ASSUME FlowTyped, NEW t \in Threads, Wait(t)
    PROVE  LET n == Len(waits) + 1 IN
           /\ Doing(t, "execute") /\ steps[run[t].x] = "wait" /\ Ran(t)
           /\ waits' \in Seq(Execution) /\ DOMAIN waits' = DOMAIN waits \union {n}
           /\ n \notin DOMAIN waits /\ \A x \in DOMAIN waits : waits'[x] = waits[x]
           /\ waits'[n] = [e |-> E(t), waiting |-> TRUE]
           /\ Acts(t) /\ run'[t].pc \in {"idle", "goal"}
           /\ UNCHANGED <<designVars, failures, retakes>>
<1> DEFINE new == [e |-> E(t), waiting |-> TRUE]
<1>1. /\ Doing(t, "execute") /\ steps[run[t].x] = "wait" /\ Ran(t) /\ Leave(t)
      /\ waits' = Append(waits, new) /\ UNCHANGED <<designVars, failures, retakes>>
  BY DEF Wait, Runs
<1>2. new \in Execution /\ waits \in Seq(Execution)
  BY DEF FlowTyped, Execution, Errand, E
<1> HIDE DEF new
<1>3. /\ waits' \in Seq(Execution) /\ DOMAIN waits' = DOMAIN waits \union {Len(waits) + 1}
      /\ Len(waits) + 1 \notin DOMAIN waits /\ \A x \in DOMAIN waits : waits'[x] = waits[x]
      /\ waits'[Len(waits) + 1] = new
  BY <1>1, <1>2, Lengthened
<1> QED
  BY <1>1, <1>3, Left DEF new

LEMMA Branched ==
    ASSUME FlowTyped, NEW t \in Threads, Branch(t) \/ Split(t)
    PROVE  /\ Doing(t, "execute") /\ steps[run[t].x] \in {"branch", "split"} /\ Ran(t)
           /\ Acts(t) /\ run'[t].e = E(t)
           /\ \/ run'[t].pc = "complete" /\ (steps[run[t].x] = "branch" \/ From(run[t].x) = {})
              \/ run'[t].pc = "move" /\ run'[t].x \in Steps /\ \E l \in From(run[t].x) : run'[t].x = l.to
           /\ UNCHANGED <<designVars, waits, failures, retakes>>
<1>1. /\ Doing(t, "execute") /\ steps[run[t].x] \in {"branch", "split"} /\ Ran(t)
      /\ UNCHANGED <<designVars, waits, failures, retakes>>
  BY DEF Branch, Split, Runs
<1>2. \/ Proceed(t, "complete", 0) /\ (steps[run[t].x] = "branch" \/ From(run[t].x) = {})
      \/ \E l \in From(run[t].x) : Proceed(t, "move", l.to)
  BY DEF Branch, Split, Runs
<1>3. CASE Proceed(t, "complete", 0) /\ (steps[run[t].x] = "branch" \/ From(run[t].x) = {})
  BY <1>1, <1>3, Proceeded DEF Positions, Carrying, E
<1>4. ASSUME NEW l \in From(run[t].x), Proceed(t, "move", l.to)
      PROVE  Acts(t) /\ run'[t].e = E(t) /\ run'[t].pc = "move" /\ run'[t].x \in Steps /\ run'[t].x = l.to
  <2>1. l.to \in Steps /\ Steps \subseteq Nat
    BY StepsAreNumbers DEF FlowTyped, FlowDrawn, From, Link
  <2> QED
    BY <1>4, <2>1, Proceeded DEF Positions, Carrying, E
<1> QED
  BY <1>1, <1>2, <1>3, <1>4

LEMMA Advanced ==
    ASSUME FlowTyped, NEW t \in Threads, Advance(t)
    PROVE  LET here == enrolled[E(t)].at IN
           /\ Doing(t, "advance") /\ Acts(t)
           /\ \/ run'[t].pc \in {"idle", "goal"}
              \/ /\ run'[t].pc = "complete" /\ run'[t].e = E(t)
                 /\ From(here) = {} /\ here = Len(steps) /\ IsActive(E(t))
              \/ /\ run'[t].pc = "move" /\ run'[t].e = E(t) /\ run'[t].x \in Steps /\ IsActive(E(t))
                 /\ \/ From(here) = {} /\ here < Len(steps) /\ run'[t].x = here + 1
                    \/ \E l \in From(here) : run'[t].x = l.to
           /\ UNCHANGED <<designVars, enrolled, waits, failures, retakes>>
<1> DEFINE here == enrolled[E(t)].at
<1>a. Doing(t, "advance") /\ E(t) \in DOMAIN enrolled
  BY DEF FlowTyped, ErrandOK, Advance, Doing, Carrying
<1>b. enrolled[E(t)] \in Enrollment
  BY <1>a DEF FlowTyped
<1>1. here \in Steps /\ Steps = 1..Len(steps) /\ Len(steps) \in Nat /\ Doing(t, "advance")
  BY <1>a, <1>b, StepsAreNumbers DEF FlowTyped, FlowDrawn, Enrollment
<1>2. \/ Leave(t)
      \/ Proceed(t, "complete", 0) /\ From(here) = {} /\ here = Len(steps) /\ IsActive(E(t))
      \/ Proceed(t, "move", here + 1) /\ From(here) = {} /\ here # Len(steps) /\ IsActive(E(t))
      \/ IsActive(E(t)) /\ \E l \in From(here) : Proceed(t, "move", l.to)
  BY DEF Advance, MayAdvance, MoveTo
<1>3. CASE Leave(t)
  BY <1>1, <1>3, Left DEF Advance
<1>4. CASE Proceed(t, "complete", 0) /\ From(here) = {} /\ here = Len(steps) /\ IsActive(E(t))
  BY <1>1, <1>4, Proceeded DEF Advance, Positions, Carrying, E
<1>5. CASE Proceed(t, "move", here + 1) /\ From(here) = {} /\ here # Len(steps) /\ IsActive(E(t))
  <2>1. here + 1 \in Nat /\ here + 1 \in Steps /\ here < Len(steps)
    BY <1>1, <1>5
  <2>2. /\ Acts(t) /\ run'[t].pc = "move" /\ run'[t].x = here + 1 /\ run'[t].e = E(t)
    BY <1>5, <2>1, Proceeded DEF Positions, Carrying, E
  <2> QED
    BY <1>1, <1>5, <2>1, <2>2 DEF Advance
<1>6. ASSUME IsActive(E(t)), NEW l \in From(here), Proceed(t, "move", l.to)
      PROVE  Acts(t) /\ run'[t].e = E(t) /\ run'[t].pc = "move" /\ run'[t].x \in Steps /\ run'[t].x = l.to
  <2>1. l.to \in Steps /\ Steps \subseteq Nat
    BY StepsAreNumbers DEF FlowTyped, FlowDrawn, From, Link
  <2> QED
    BY <1>6, <2>1, Proceeded DEF Positions, Carrying, E
<1> QED
  BY <1>1, <1>2, <1>3, <1>4, <1>5, <1>6 DEF Advance

LEMMA Marked ==
    ASSUME FlowTyped, NEW t \in Threads, Mark(t)
    PROVE  /\ Doing(t, "mark") /\ run[t].x \in DOMAIN waits /\ waits[run[t].x].e = E(t)
           /\ waits' \in Seq(Execution) /\ DOMAIN waits' = DOMAIN waits
           /\ \A x \in DOMAIN waits : waits'[x].e = waits[x].e
           /\ \A x \in DOMAIN waits \ {run[t].x} : waits'[x] = waits[x]
           /\ ~waits'[run[t].x].waiting
           /\ Acts(t) /\ run'[t].pc = "advance" /\ run'[t].e = E(t)
           /\ UNCHANGED <<designVars, enrolled, failures, retakes>>
<1>1. /\ Doing(t, "mark") /\ run[t].x \in DOMAIN waits /\ waits[run[t].x].e = E(t)
      /\ waits' = [waits EXCEPT ![run[t].x].waiting = FALSE] /\ waits \in Seq(Execution)
  BY DEF Mark, Doing, FlowTyped, ErrandOK
<1>2. \A x \in DOMAIN waits : waits'[x] = IF x = run[t].x THEN [waits[x] EXCEPT !.waiting = FALSE] ELSE waits[x]
  BY <1>1
<1>3. \A x \in DOMAIN waits : waits[x] \in Execution
  BY <1>1
<1>4. \A x \in DOMAIN waits : waits'[x] \in Execution /\ waits'[x].e = waits[x].e
  BY <1>2, <1>3 DEF Execution
<1>5. DOMAIN waits' = DOMAIN waits /\ waits' = [x \in DOMAIN waits |-> waits'[x]]
  BY <1>1
<1>6. waits' \in Seq(Execution)
  BY <1>1, <1>4, <1>5, Remade
<1>7. ~waits'[run[t].x].waiting
  BY <1>1, <1>2, <1>3 DEF Execution
<1>8. Acts(t) /\ run'[t].pc = "advance" /\ run'[t].e = E(t)
  BY Proceeded DEF Mark, Positions, Carrying, E
<1> QED
  BY <1>1, <1>2, <1>4, <1>5, <1>6, <1>7, <1>8 DEF Mark

LEMMA Scanned ==
    ASSUME FlowTyped, NEW w \in Workers, NEW x \in DOMAIN waits, Scan(w, x)
    PROVE  /\ Doing(w, "idle") /\ waits[x].waiting /\ w \in Threads
           /\ Acts(w) /\ run'[w].pc = "mark" /\ run'[w].e = waits[x].e /\ run'[w].x = x
           /\ IF InHand(x) THEN retakes' = retakes + 1 /\ CanMishap ELSE UNCHANGED retakes
           /\ UNCHANGED <<designVars, enrolled, waits, failures>>
<1>1. waits[x] \in Execution /\ x \in Nat /\ w \in Threads
  BY DEF FlowTyped, Threads
<1>2. run' = [run EXCEPT ![w] = [IdleRun EXCEPT !.pc = "mark", !.e = waits[x].e, !.x = x]]
  BY DEF Scan
<1>3. Acts(w) /\ run'[w].pc = "mark" /\ run'[w].e = waits[x].e /\ run'[w].x = x
  BY <1>1, <1>2 DEF FlowTyped, Acts, Errand, Execution, IdleRun, Positions
<1> QED
  BY <1>1, <1>3 DEF Scan

LEMMA Fired ==
    ASSUME FlowTyped, NEW t \in Requests, Fire(t)
    PROVE  /\ t \in Threads /\ Doing(t, "idle") /\ Acts(t) /\ run'[t].pc \in {"insert", "goal"}
           /\ UNCHANGED <<designVars, enrolled, waits, failures, retakes>>
<1>1. PICK pc \in {"insert", "goal"}, goal \in BOOLEAN :
          run' = [run EXCEPT ![t] = [IdleRun EXCEPT !.pc = pc, !.goal = goal]]
  BY DEF Fire
<1>2. t \in Threads /\ Acts(t) /\ run'[t].pc = pc
  BY <1>1 DEF FlowTyped, Acts, Errand, IdleRun, Positions, Threads
<1> QED
  BY <1>2 DEF Fire

\* A step of a thread that runs a step of the flow and goes on.
Run(t) == Send(t) \/ Update(t) \/ Webhook(t)

LEMMA RanOn ==
    ASSUME FlowTyped, NEW t \in Threads, Run(t)
    PROVE  /\ Doing(t, "execute") /\ steps[run[t].x] \in {"send", "update", "webhook"} /\ Ran(t)
           /\ Acts(t) /\ run'[t].pc = "advance" /\ run'[t].e = E(t)
           /\ UNCHANGED <<designVars, waits, failures, retakes>>
<1>1. /\ Doing(t, "execute") /\ steps[run[t].x] \in {"send", "update", "webhook"} /\ Ran(t)
      /\ Proceed(t, "advance", 0) /\ UNCHANGED <<designVars, waits, failures, retakes>>
  BY DEF Run, Send, Update, Webhook, Runs
<1>2. Acts(t) /\ run'[t].pc = "advance" /\ run'[t].e = E(t)
  BY <1>1, Proceeded DEF Positions, Carrying, E
<1> QED
  BY <1>1, <1>2

LEMMA StepIsTyped ==
    ASSUME FlowTyped, NEW t \in Threads, CarryOn(t)
    PROVE  FlowTyped'
<1>0. ASSUME Carries(t) PROVE E(t) \in DOMAIN enrolled
  BY <1>0 DEF FlowTyped, ErrandOK, Carries
<1>1. CASE InsertEnrollment(t)
  <2>1. /\ enrolled' \in Seq(Enrollment) /\ DOMAIN enrolled \subseteq DOMAIN enrolled'
        /\ run'[t].e \in DOMAIN enrolled' /\ Acts(t) /\ run'[t].pc = "execute" /\ run'[t].x \in Steps
        /\ UNCHANGED <<designVars, waits, failures, retakes>> /\ UNCHANGED steps
    BY <1>1, Inserted DEF designVars, drawn
  <2>2. ErrandOK(t)'
    BY <2>1 DEF ErrandOK, E, Steps
  <2> QED
    BY <2>1, <2>2, Written
<1>2. CASE InsertRefused(t)
  <2>1. Acts(t) /\ run'[t].pc \in {"idle", "goal"}
    BY <1>2, Left, Stopped DEF InsertRefused
  <2> QED
    BY <1>2, <2>1, Unwritten DEF InsertRefused, ErrandOK, Carrying
<1>3. CASE ReachGoal(t)
  <2>1. Acts(t) /\ run'[t].pc = "idle"
    BY <1>3, Stopped DEF ReachGoal
  <2>2. enrolled' \in Seq(Enrollment) /\ DOMAIN enrolled' = DOMAIN enrolled
    BY <1>3, AllEnd DEF ReachGoal
  <2> QED
    BY <1>3, <2>1, <2>2, Written DEF ReachGoal, ErrandOK, Carrying
<1>4. CASE Run(t)
  <2>1. /\ E(t) \in DOMAIN enrolled /\ Acts(t) /\ run'[t].pc = "advance" /\ run'[t].e = E(t)
        /\ UNCHANGED <<designVars, waits, failures, retakes>>
        /\ enrolled' \in Seq(Enrollment) /\ DOMAIN enrolled' = DOMAIN enrolled
    BY <1>4, <1>0, RanOn, Recorded DEF Carries, Carrying, Doing
  <2> QED
    BY <2>1, Written DEF ErrandOK, E
<1>5. CASE Wait(t)
  <2>1. /\ E(t) \in DOMAIN enrolled /\ enrolled' \in Seq(Enrollment) /\ DOMAIN enrolled' = DOMAIN enrolled
    BY <1>5, <1>0, Waited, Recorded DEF Carries, Carrying, Doing
  <2>2. /\ waits' \in Seq(Execution) /\ DOMAIN waits \subseteq DOMAIN waits'
        /\ \A x \in DOMAIN waits : waits'[x].e = waits[x].e
        /\ \A x \in DOMAIN waits' : x \in DOMAIN waits \/ waits'[x].e = E(t)
    <3>1. /\ waits' \in Seq(Execution) /\ DOMAIN waits' = DOMAIN waits \union {Len(waits) + 1}
          /\ \A x \in DOMAIN waits : waits'[x] = waits[x]
          /\ waits'[Len(waits) + 1] = [e |-> E(t), waiting |-> TRUE]
      BY <1>5, Waited
    <3>2. waits'[Len(waits) + 1].e = E(t)
      BY <3>1
    <3> QED
      BY <3>1, <3>2
  <2>3. \A x \in DOMAIN waits' : waits'[x].e \in DOMAIN enrolled'
    BY <2>1, <2>2 DEF FlowTyped
  <2>4. run' \in [Threads -> Errand] /\ \A u \in Threads : run'[u] = run[u] \/ ErrandOK(u)'
    BY <1>5, Waited DEF Acts, ErrandOK, Carrying
  <2>5. FlowDrawn' /\ UNCHANGED steps
    BY <1>5, Waited, DrawnStays DEF FlowTyped
  <2> QED
    BY <2>1, <2>2, <2>3, <2>4, <2>5, TypedAfter
<1>6. CASE Branch(t) \/ Split(t)
  <2>1. /\ Acts(t) /\ run'[t].e = E(t) /\ run'[t].pc \in {"complete", "move"}
        /\ run'[t].pc = "move" => run'[t].x \in Steps
        /\ UNCHANGED <<designVars, waits, failures, retakes>> /\ UNCHANGED steps
    BY <1>6, Branched DEF designVars, drawn
  <2>2. E(t) \in DOMAIN enrolled /\ enrolled' \in Seq(Enrollment) /\ DOMAIN enrolled' = DOMAIN enrolled
    BY <1>6, <1>0, Branched, Recorded DEF Carries, Carrying, Doing
  <2>3. ErrandOK(t)'
    BY <2>1, <2>2 DEF ErrandOK, E, Steps
  <2> QED
    BY <2>1, <2>2, <2>3, Written
<1>7. CASE Advance(t)
  <2>1. /\ E(t) \in DOMAIN enrolled /\ Acts(t)
        /\ UNCHANGED <<designVars, enrolled, waits, failures, retakes>> /\ UNCHANGED steps
        /\ \/ run'[t].pc \in {"idle", "goal"}
           \/ run'[t].pc \in {"complete", "move"} /\ run'[t].e = E(t)
        /\ run'[t].pc = "move" => run'[t].x \in Steps
    BY <1>7, <1>0, Advanced DEF Carries, Carrying, Doing, designVars, drawn
  <2>2. ErrandOK(t)'
    BY <2>1 DEF ErrandOK, E, Steps, Carrying
  <2> QED
    BY <2>1, <2>2, Unwritten
<1>8. CASE Move(t)
  <2>1. /\ Doing(t, "move") /\ Proceed(t, "execute", run[t].x) /\ E(t) \in DOMAIN enrolled
        /\ run[t].x \in Steps /\ run[t].x \in Nat
        /\ UNCHANGED <<designVars, waits, failures, retakes>> /\ UNCHANGED steps
    BY <1>8, <1>0, StepsAreNumbers
    DEF Move, Carries, Carrying, Doing, designVars, drawn, FlowTyped, FlowDrawn, ErrandOK
  <2>2. Acts(t) /\ run'[t].pc = "execute" /\ run'[t].e = E(t) /\ run'[t].x = run[t].x
    BY <2>1, Proceeded DEF Positions, Carrying, E
  <2>3. enrolled' \in Seq(Enrollment) /\ DOMAIN enrolled' = DOMAIN enrolled
    BY <1>8, Moved
  <2>4. ErrandOK(t)'
    BY <2>1, <2>2, <2>3 DEF ErrandOK, E, Steps
  <2> QED
    BY <2>1, <2>2, <2>3, <2>4, Written
<1>9. CASE Complete(t)
  <2>1. Acts(t) /\ run'[t].pc \in {"idle", "goal"} /\ UNCHANGED <<designVars, waits, failures, retakes>>
    BY <1>9, Left DEF Complete
  <2>2. enrolled' \in Seq(Enrollment) /\ DOMAIN enrolled' = DOMAIN enrolled
    BY <1>9, Completed
  <2> QED
    BY <2>1, <2>2, Written DEF ErrandOK, Carrying
<1>10. CASE Mark(t)
  <2>1. /\ waits' \in Seq(Execution) /\ DOMAIN waits' = DOMAIN waits
        /\ \A x \in DOMAIN waits : waits'[x].e = waits[x].e
        /\ UNCHANGED <<designVars, enrolled, failures, retakes>>
    BY <1>10, Marked
  <2>2. /\ run'[t].pc = "advance" /\ run'[t].e = E(t) /\ E(t) \in DOMAIN enrolled /\ Acts(t)
    BY <1>10, Marked DEF FlowTyped
  <2>3. ErrandOK(t)'
    BY <2>1, <2>2 DEF ErrandOK, E
  <2>4. run' \in [Threads -> Errand] /\ \A u \in Threads : run'[u] = run[u] \/ ErrandOK(u)'
    BY <2>2, <2>3 DEF Acts
  <2>5. FlowDrawn' /\ UNCHANGED steps
    BY <2>1, DrawnStays DEF FlowTyped
  <2>6. enrolled' \in Seq(Enrollment) /\ DOMAIN enrolled \subseteq DOMAIN enrolled'
        /\ \A x \in DOMAIN waits' : waits'[x].e \in DOMAIN enrolled'
    BY <2>1 DEF FlowTyped
  <2> QED
    BY <2>1, <2>4, <2>5, <2>6, TypedAfter
<1> QED
  BY <1>1, <1>2, <1>3, <1>4, <1>5, <1>6, <1>7, <1>8, <1>9, <1>10 DEF CarryOn, Run

\* What the others do: the builder, events, the worker's list, failures.
LEMMA NextIsTyped ==
    ASSUME FlowTyped, FlowNext
    PROVE  FlowTyped'
<1>0. /\ enrolled \in Seq(Enrollment) /\ waits \in Seq(Execution) /\ run \in [Threads -> Errand]
      /\ FlowDrawn /\ \A x \in DOMAIN waits : waits[x].e \in DOMAIN enrolled
      /\ edits \in Nat /\ pauses \in Nat /\ failures \in Nat /\ retakes \in Nat /\ MaxMishaps \in Nat
  BY MishapsAreBounded DEF FlowTyped, FlowDrawn
<1>1. CASE Validate \/ Activate \/ Pause \/ Edit
  <2>1. UNCHANGED <<steps, enrolled, waits, run>>
    BY <1>1 DEF Validate, Activate, Pause, Edit, drawn
  <2>2. CASE Validate \/ Activate
    <3>1. /\ UNCHANGED <<links, steps, edits, pauses, failures, retakes>>
          /\ flow' \in {flow, "active"} /\ builder' \in {"idle", "validated"}
      BY <2>2 DEF Validate, Activate, drawn
    <3>2. FlowDrawn'
      BY <1>0, <3>1 DEF FlowDrawn, Link, Steps
    <3> QED
      BY <1>0, <2>1, <3>2, TypedAfter
  <2>3. CASE Pause
    <3>1. /\ UNCHANGED <<steps, links, builder, edits, failures, retakes>> /\ flow' = "paused"
          /\ pauses' = pauses + 1 /\ failures + retakes + edits + pauses < MaxMishaps
      BY <2>3 DEF Pause, CanMishap, drawn
    <3>2. edits' + pauses' + failures' + retakes' <= MaxMishaps
      BY <1>0, <3>1
    <3>3. FlowDrawn'
      BY <1>0, <3>1, <3>2 DEF FlowDrawn, Link, Steps
    <3> QED
      BY <1>0, <2>1, <3>3, TypedAfter
  <2>4. CASE Edit
    <3>1. links' \subseteq Link' /\ edits' = edits + 1 /\ CanMishap
          /\ UNCHANGED <<flow, builder, pauses, failures, retakes>>
      BY <1>0, <2>1, <2>4 DEF FlowDrawn, Edit, Link, Steps
    <3>2. /\ edits' + pauses' + failures' + retakes' <= MaxMishaps
          /\ edits' \in Nat /\ pauses' \in Nat /\ failures' \in Nat /\ retakes' \in Nat
      BY <1>0, <3>1 DEF CanMishap
    <3>3. /\ steps' \in Seq(STRING) /\ steps' # <<>>
          /\ flow' \in {"draft", "active", "paused", "archived"} /\ builder' \in {"idle", "validated"}
      BY <1>0, <2>1, <3>1 DEF FlowDrawn
    <3>4. FlowDrawn'
      BY <3>1, <3>2, <3>3 DEF FlowDrawn
    <3> QED
      BY <1>0, <2>1, <3>4, TypedAfter
  <2> QED
    BY <1>1, <2>2, <2>3, <2>4
<1>2. CASE Archive
  <2>1. enrolled' \in Seq(Enrollment) /\ DOMAIN enrolled' = DOMAIN enrolled
    BY <1>2, AllEnd DEF Archive
  <2>2. FlowDrawn' /\ UNCHANGED <<steps, waits, run>>
    BY <1>0, <1>2 DEF FlowDrawn, Archive, drawn, Link, Steps
  <2> QED
    BY <1>0, <2>1, <2>2, TypedAfter
<1>3. ASSUME NEW t \in Requests, Fire(t) PROVE FlowTyped'
  <2>1. /\ t \in Threads /\ Acts(t) /\ run'[t].pc \in {"insert", "goal"}
        /\ UNCHANGED <<designVars, enrolled, waits, failures, retakes>>
    BY <1>3, Fired
  <2> QED
    BY <2>1, Unwritten DEF ErrandOK, Carrying
<1>4. ASSUME NEW w \in Workers, NEW x \in DOMAIN waits, Scan(w, x) PROVE FlowTyped'
  <2>1. /\ w \in Threads /\ Acts(w) /\ run'[w].pc = "mark" /\ run'[w].e = waits[x].e /\ run'[w].x = x
        /\ retakes' = retakes \/ (retakes' = retakes + 1 /\ CanMishap)
        /\ UNCHANGED <<designVars, enrolled, waits, failures>>
    BY <1>4, Scanned
  <2>2. ErrandOK(w)'
    BY <1>0, <2>1 DEF ErrandOK, E
  <2>3. run' \in [Threads -> Errand] /\ \A u \in Threads : run'[u] = run[u] \/ ErrandOK(u)'
    BY <2>1, <2>2 DEF Acts
  <2>4. UNCHANGED <<flow, steps, links, builder, edits, pauses>>
    BY <2>1 DEF designVars, drawn
  <2>5. retakes' \in Nat /\ edits' + pauses' + failures' + retakes' <= MaxMishaps
    BY <1>0, <2>1, <2>4 DEF FlowDrawn, CanMishap
  <2>6. FlowDrawn'
    BY <1>0, <2>1, <2>4, <2>5 DEF FlowDrawn, Link, Steps
  <2> QED
    BY <1>0, <2>1, <2>3, <2>4, <2>6, TypedAfter
<1>5. ASSUME NEW t \in Threads, StepFails(t) \/ CutShort(t) PROVE FlowTyped'
  <2>1. /\ Acts(t) /\ run'[t].pc \in {"idle", "goal"} /\ failures' = failures + 1 /\ CanMishap
        /\ UNCHANGED <<designVars, enrolled, waits, retakes>>
    BY <1>5, Left, Stopped DEF StepFails, CutShort
  <2>2. run' \in [Threads -> Errand] /\ \A u \in Threads : run'[u] = run[u] \/ ErrandOK(u)'
    BY <2>1 DEF Acts, ErrandOK, Carrying
  <2>3. /\ UNCHANGED <<steps, links, flow, builder, edits, pauses, retakes>>
        /\ failures' = failures + 1 /\ failures + retakes + edits + pauses < MaxMishaps
    BY <2>1 DEF designVars, drawn, CanMishap
  <2>4. edits' + pauses' + failures' + retakes' <= MaxMishaps
    BY <1>0, <2>3
  <2>5. FlowDrawn' /\ UNCHANGED steps
    BY <1>0, <2>3, <2>4 DEF FlowDrawn, Link, Steps
  <2> QED
    BY <1>0, <2>1, <2>2, <2>5, TypedAfter
<1> QED
  BY <1>1, <1>2, <1>3, <1>4, <1>5, StepIsTyped DEF FlowNext

LEMMA StutterIsTyped == FlowTyped /\ UNCHANGED flowVars => FlowTyped'
  BY DEF FlowTyped, FlowDrawn, ErrandOK, E, Enrollment, Steps, Link, flowVars

LEMMA TypedIsOK == FlowTyped => FlowTypeOK
<1> SUFFICES ASSUME FlowTyped PROVE FlowTypeOK
  OBVIOUS
<1>1. /\ enrolled \in Seq(Enrollment) /\ waits \in Seq(Execution) /\ run \in [Threads -> Errand]
      /\ \A x \in DOMAIN waits : waits[x].e \in DOMAIN enrolled
  BY DEF FlowTyped
<1>2. waits \in Seq([e : DOMAIN enrolled, waiting : BOOLEAN])
  <2>1. \A x \in DOMAIN waits : waits[x] \in [e : DOMAIN enrolled, waiting : BOOLEAN]
    <3> TAKE x \in DOMAIN waits
    <3>1. waits[x] \in Execution /\ waits[x].e \in DOMAIN enrolled
      BY <1>1
    <3> QED
      BY <3>1 DEF Execution
  <2>2. DOMAIN waits = 1..Len(waits) /\ Len(waits) \in Nat /\ waits = [x \in DOMAIN waits |-> waits[x]]
    BY <1>1
  <2>3. waits \in [1..Len(waits) -> [e : DOMAIN enrolled, waiting : BOOLEAN]]
    BY <2>1, <2>2
  <2> QED
    BY <2>2, <2>3, IsSequence
<1>3. edits + pauses + failures + retakes \in 0..MaxMishaps
  BY MishapsAreBounded DEF FlowTyped, FlowDrawn
<1>4. ASSUME NEW t \in Threads
      PROVE  /\ run[t].pc \in {"idle", "insert", "execute", "advance", "move", "complete", "mark", "goal"}
             /\ run[t].pc \in {"execute", "move"} => run[t].x \in Steps
             /\ run[t].pc = "mark" => run[t].x \in DOMAIN waits
  BY <1>1 DEF FlowTyped, ErrandOK, Errand, Positions, Carrying
<1> QED
  BY <1>1, <1>2, <1>3, <1>4 DEF FlowTyped, FlowDrawn, FlowTypeOK, Enrollment

\* What flows, enrolments, waits and those at work on them consist of; no wait without its
\* enrolment, no step outside the flow.
THEOREM FlowTypes == FlowSpec => []FlowTypeOK
<1>1. FlowTyped /\ [FlowNext]_flowVars => FlowTyped'
  BY NextIsTyped, StutterIsTyped
<1> QED
  BY FlowStartsTyped, <1>1, TypedIsOK, PTL DEF FlowSpec

-----------------------------------------------------------------------------
(* An enrolment takes the steps of the flow, one after the other *)

\* The definitions of the model with the connections and the steps as parameters.
Onward(g, st, s) ==
    IF {l \in g : l.from = s} # {} THEN {l.to : l \in {l \in g : l.from = s}}
    ELSE IF s < Len(st) /\ st[s] \notin {"branch", "split"} THEN {s + 1} ELSE {}

Walked(g, st, p) == (p # <<>> => p[1] = 1) /\ \A i \in 1..Len(p) - 1 : p[i + 1] \in Onward(g, st, p[i])
Follows(g, st, p, s) == IF p = <<>> THEN s = 1 ELSE s \in Onward(g, st, Last(p))
Over(g, st, p) == p # <<>> /\ (Onward(g, st, Last(p)) = {} \/ st[Last(p)] = "branch")
OnWay(g, st, n) == Walked(g, st, n.ran) /\ (n.status = "completed" => Over(g, st, n.ran))

\* It has run the step it is at, and advance_enrollment may choose the next one.
HasRun(st, n) ==
    /\ n.ran # <<>> /\ Last(n.ran) = n.at /\ st[n.at] \notin {"branch", "split"}
    /\ n.status # "completed"

\* Who carries an enrolment on is where the enrolment is.
InPlace(g, st, r, n) ==
    /\ r.pc = "execute" => r.x = n.at /\ Follows(g, st, n.ran, n.at)
    /\ r.pc = "advance" => HasRun(st, n)
    /\ r.pc = "move" => n.ran # <<>> /\ r.x \in Onward(g, st, Last(n.ran))
    /\ r.pc = "complete" => Over(g, st, n.ran)
    /\ n.status # "completed"

\* One thread at most has an enrolment in hand, or one wait holds it, which one worker at most is
\* about to mark.
OneAtATime ==
    /\ \A t, u \in Threads : Carries(t) /\ Carries(u) /\ run[t].e = run[u].e => t = u
    /\ \A t, u \in Threads : run[t].pc = "mark" /\ run[u].pc = "mark" /\ run[t].x = run[u].x => t = u
    /\ \A x, y \in DOMAIN waits :
          waits[x].waiting /\ waits[y].waiting /\ waits[x].e = waits[y].e => x = y
    /\ \A t \in Threads, x \in DOMAIN waits : Carries(t) /\ waits[x].waiting => waits[x].e # run[t].e
    /\ \A t \in Threads : run[t].pc = "mark" => t \in Workers /\ waits[run[t].x].waiting

OnItsWay ==
    /\ \A t \in Threads : Carries(t) => InPlace(links, steps, run[t], enrolled[run[t].e])
    /\ \A x \in DOMAIN waits : waits[x].waiting => HasRun(steps, enrolled[waits[x].e])
    /\ \A e \in DOMAIN enrolled : OnWay(links, steps, enrolled[e])

Calm == edits = 0 /\ retakes = 0

FlowInv == FlowTyped /\ (Calm => OneAtATime /\ OnItsWay)

LEMMA WayIsOnward == \A s : After(s) = Onward(links, steps, s)
  BY DEF After, From, Onward

LEMMA InvWalks == FlowInv => WalksTheFlow
<1> SUFFICES ASSUME FlowInv, Calm, NEW e \in DOMAIN enrolled
             PROVE  LET p == enrolled[e].ran IN
                    /\ Walk(p)
                    /\ enrolled[e].status = "completed" =>
                          p # <<>> /\ (After(Last(p)) = {} \/ steps[Last(p)] = "branch")
  BY DEF WalksTheFlow, Calm
<1>1. OnWay(links, steps, enrolled[e])
  BY DEF FlowInv, OnItsWay
<1> QED
  BY <1>1, WayIsOnward DEF OnWay, Walked, Over, Walk

LEMMA StartsOnItsWay == FlowInit => FlowInv
<1> SUFFICES ASSUME FlowInit PROVE FlowInv
  OBVIOUS
<1>1. FlowTyped
  BY FlowStartsTyped
<1>2. DOMAIN enrolled = {} /\ DOMAIN waits = {} /\ \A t \in Threads : run[t].pc = "idle"
  BY DEF FlowInit, IdleRun
<1> QED
  BY <1>1, <1>2 DEF FlowInv, OneAtATime, OnItsWay, Carries, Carrying

\* A step more.
LEMMA OneStepMore ==
    ASSUME NEW S, NEW p \in Seq(S), NEW s \in S, NEW g, NEW st, Walked(g, st, p), Follows(g, st, p, s)
    PROVE  Walked(g, st, Append(p, s))
<1> DEFINE q == Append(p, s)
<1>1. /\ Len(q) = Len(p) + 1 /\ Len(p) \in Nat /\ q[Len(p) + 1] = s
      /\ \A i \in 1..Len(p) : q[i] = p[i]
  OBVIOUS
<1>2. p # <<>> => 1 \in 1..Len(p) /\ Last(p) = p[Len(p)]
  BY DEF Last
<1>3. p = <<>> => Len(p) = 0
  OBVIOUS
<1>4. q[1] = 1
  BY <1>1, <1>2, <1>3 DEF Walked, Follows
<1>5. ASSUME NEW i \in 1..Len(q) - 1 PROVE q[i + 1] \in Onward(g, st, q[i])
  <2>1. CASE i = Len(p)
    <3>1. p # <<>> /\ q[i] = Last(p) /\ q[i + 1] = s
      BY <1>1, <1>2, <1>3, <2>1
    <3> QED
      BY <3>1 DEF Follows
  <2>2. CASE i # Len(p)
    <3>1. i \in 1..Len(p) - 1 /\ q[i] = p[i] /\ q[i + 1] = p[i + 1]
      BY <1>1, <1>5, <2>2
    <3> QED
      BY <3>1 DEF Walked
  <2> QED
    BY <2>1, <2>2
<1> HIDE DEF q
<1>6. Walked(g, st, q)
  BY <1>4, <1>5 DEF Walked
<1> QED
  BY <1>6 DEF q

\* A thread that goes on with the enrolment it has in hand, or puts it down.
LEMMA OwnIsCarried ==
    ASSUME FlowTyped, OneAtATime, OnItsWay, NEW t \in Threads, Carries(t), Acts(t),
           UNCHANGED <<steps, links, waits>>,
           DOMAIN enrolled' = DOMAIN enrolled,
           \A d \in DOMAIN enrolled \ {E(t)} : enrolled'[d] = enrolled[d],
           OnWay(links, steps, enrolled'[E(t)]),
           run'[t].pc # "mark",
           run'[t].pc \in Carrying =>
              run'[t].e = E(t) /\ InPlace(links, steps, run'[t], enrolled'[E(t)])
    PROVE  (OneAtATime /\ OnItsWay)'
<1>1. E(t) = run[t].e /\ Threads' = Threads
  BY DEF E
<1>2. \A u \in Threads : u # t => run'[u] = run[u]
  BY DEF Acts
<1>3. OneAtATime'
  BY <1>1, <1>2 DEF OneAtATime, Carries
<1>4. ASSUME NEW u \in Threads, Carries(u)'
      PROVE  InPlace(links, steps, run'[u], enrolled'[run'[u].e])
  <2>1. CASE u = t
    BY <1>1, <1>4, <2>1 DEF Carries
  <2>2. CASE u # t
    <3>1. run'[u] = run[u] /\ Carries(u) /\ run[u].e # E(t) /\ run[u].e \in DOMAIN enrolled
      BY <1>1, <1>2, <1>4, <2>2 DEF Carries, OneAtATime, FlowTyped, ErrandOK, E
    <3> QED
      BY <3>1 DEF OnItsWay
  <2> QED
    BY <2>1, <2>2
<1>5. ASSUME NEW x \in DOMAIN waits, waits[x].waiting
      PROVE  HasRun(steps, enrolled'[waits[x].e])
  <2>1. waits[x].e # E(t) /\ waits[x].e \in DOMAIN enrolled
    BY <1>1, <1>5 DEF OneAtATime, FlowTyped
  <2> QED
    BY <1>5, <2>1 DEF OnItsWay
<1>6. ASSUME NEW e \in DOMAIN enrolled PROVE OnWay(links, steps, enrolled'[e])
  BY DEF OnItsWay
<1>7. OnItsWay'
  BY <1>1, <1>4, <1>5, <1>6 DEF OnItsWay
<1> QED
  BY <1>3, <1>7

\* A thread that has nothing in hand after its step, which writes nothing.
LEMMA NothingInHand ==
    ASSUME FlowTyped, OneAtATime, OnItsWay, NEW t \in Threads, Acts(t),
           UNCHANGED <<steps, links, waits, enrolled>>, run'[t].pc \in {"idle", "goal", "insert"}
    PROVE  (OneAtATime /\ OnItsWay)'
<1>1. \A u \in Threads : u # t => run'[u] = run[u]
  BY DEF Acts
<1>2. ~Carries(t)' /\ run'[t].pc # "mark" /\ Threads' = Threads
  BY DEF Carries, Carrying
<1>3. OneAtATime'
  BY <1>1, <1>2 DEF OneAtATime, Carries
<1>4. OnItsWay'
  BY <1>1, <1>2 DEF OnItsWay, Carries
<1> QED
  BY <1>3, <1>4

\* The enrolments that are active are ended; who has one in hand does not notice.
LEMMA AllEndInPlace ==
    ASSUME FlowTyped, OneAtATime, OnItsWay, NEW status \in {"exited", "goal_reached"},
           enrolled' = [e \in DOMAIN enrolled |->
                          IF IsActive(e) THEN [enrolled[e] EXCEPT !.status = status] ELSE enrolled[e]],
           UNCHANGED <<steps, links, waits>>, \A u \in Threads : run'[u] = run[u] \/ run'[u].pc = "idle"
    PROVE  (OneAtATime /\ OnItsWay)'
<1>1. /\ DOMAIN enrolled' = DOMAIN enrolled
      /\ \A e \in DOMAIN enrolled :
            /\ enrolled'[e].at = enrolled[e].at /\ enrolled'[e].ran = enrolled[e].ran
            /\ enrolled'[e].status = IF enrolled[e].status = "active" THEN status ELSE enrolled[e].status
  BY AllEnd
<1>2. \A u \in Threads : Carries(u)' \/ run'[u].pc = "mark" => run'[u] = run[u]
  BY DEF Carries, Carrying
<1>3. OneAtATime'
  BY <1>2 DEF OneAtATime, Carries
<1>4. ASSUME NEW u \in Threads, Carries(u)'
      PROVE  InPlace(links, steps, run'[u], enrolled'[run'[u].e])
  <2>1. run'[u] = run[u] /\ Carries(u) /\ run[u].e \in DOMAIN enrolled
    BY <1>2, <1>4 DEF Carries, FlowTyped, ErrandOK, E
  <2>2. InPlace(links, steps, run[u], enrolled[run[u].e])
    BY <2>1 DEF OnItsWay
  <2> QED
    BY <1>1, <2>1, <2>2 DEF InPlace, HasRun
<1>5. ASSUME NEW x \in DOMAIN waits, waits[x].waiting PROVE HasRun(steps, enrolled'[waits[x].e])
  <2>1. waits[x].e \in DOMAIN enrolled /\ HasRun(steps, enrolled[waits[x].e])
    BY <1>5 DEF OnItsWay, FlowTyped
  <2> QED
    BY <1>1, <2>1 DEF HasRun
<1>6. ASSUME NEW e \in DOMAIN enrolled PROVE OnWay(links, steps, enrolled'[e])
  <2>1. OnWay(links, steps, enrolled[e])
    BY DEF OnItsWay
  <2> QED
    BY <1>1, <2>1 DEF OnWay
<1>7. OnItsWay'
  BY <1>1, <1>4, <1>5, <1>6 DEF OnItsWay
<1> QED
  BY <1>3, <1>7

LEMMA InsertsOnItsWay ==
    ASSUME FlowTyped, OneAtATime, OnItsWay, NEW t \in Threads, InsertEnrollment(t)
    PROVE  (OneAtATime /\ OnItsWay)'
<1> DEFINE n == Len(enrolled) + 1
<1>1. /\ DOMAIN enrolled' = DOMAIN enrolled \union {n} /\ n \notin DOMAIN enrolled
      /\ \A d \in DOMAIN enrolled : enrolled'[d] = enrolled[d]
      /\ enrolled'[n] = [status |-> "active", at |-> 1, ran |-> <<>>, late |-> 0]
      /\ Acts(t) /\ run'[t].pc = "execute" /\ run'[t].e = n /\ run'[t].x = 1
      /\ UNCHANGED <<steps, links, waits>>
  BY Inserted DEF designVars, drawn
<1> HIDE DEF n
<1>2. \A u \in Threads : u # t => run'[u] = run[u]
  BY <1>1 DEF Acts
<1>3. /\ \A u \in Threads : Carries(u) => run[u].e # n
      /\ \A x \in DOMAIN waits : waits[x].e # n
  BY <1>1 DEF FlowTyped, ErrandOK, Carries, E
<1>4. OneAtATime'
  BY <1>1, <1>2, <1>3 DEF OneAtATime, Carries
<1>5. ASSUME NEW u \in Threads, Carries(u)'
      PROVE  InPlace(links, steps, run'[u], enrolled'[run'[u].e])
  <2>1. CASE u = t
    BY <1>1, <2>1 DEF InPlace, Follows
  <2>2. CASE u # t
    <3>1. run'[u] = run[u] /\ Carries(u) /\ run[u].e \in DOMAIN enrolled
      BY <1>2, <1>5, <2>2 DEF Carries, FlowTyped, ErrandOK, E
    <3> QED
      BY <1>1, <3>1 DEF OnItsWay
  <2> QED
    BY <2>1, <2>2
<1>6. ASSUME NEW x \in DOMAIN waits, waits[x].waiting PROVE HasRun(steps, enrolled'[waits[x].e])
  BY <1>1, <1>6 DEF OnItsWay, FlowTyped
<1>7. ASSUME NEW e \in DOMAIN enrolled' PROVE OnWay(links, steps, enrolled'[e])
  <2>1. CASE e \in DOMAIN enrolled
    BY <1>1, <2>1 DEF OnItsWay
  <2>2. CASE e = n
    <3>1. enrolled'[e].ran = <<>> /\ enrolled'[e].status = "active"
      BY <1>1, <2>2
    <3> QED
      BY <3>1 DEF OnWay, Walked
  <2> QED
    BY <1>1, <1>7, <2>1, <2>2
<1>8. OnItsWay'
  BY <1>1, <1>5, <1>6, <1>7 DEF OnItsWay
<1> QED
  BY <1>4, <1>8

\* What an enrolment has run after one more step is still a walk.
LEMMA RunsOnItsWay ==
    ASSUME FlowTyped, OneAtATime, OnItsWay, NEW t \in Threads, Doing(t, "execute"), Ran(t)
    PROVE  LET n == enrolled'[E(t)]  x == run[t].x IN
           /\ Carries(t) /\ E(t) \in DOMAIN enrolled
           /\ DOMAIN enrolled' = DOMAIN enrolled
           /\ \A d \in DOMAIN enrolled \ {E(t)} : enrolled'[d] = enrolled[d]
           /\ OnWay(links, steps, n) /\ n.status # "completed"
           /\ n.ran # <<>> /\ Last(n.ran) = x /\ n.at = x
<1> DEFINE n == enrolled[E(t)]
           x == run[t].x
<1>1. Carries(t) /\ E(t) \in DOMAIN enrolled /\ E(t) = run[t].e /\ x \in Steps
  BY DEF Carries, Carrying, Doing, FlowTyped, ErrandOK, E
<1>a. n \in Enrollment
  BY <1>1 DEF FlowTyped
<1>2. n.ran \in Seq(Steps)
  BY <1>a DEF Enrollment
<1>3. x = n.at /\ Follows(links, steps, n.ran, x) /\ n.status # "completed" /\ Walked(links, steps, n.ran)
  BY <1>1 DEF OnItsWay, InPlace, Doing, OnWay
<1>4. /\ DOMAIN enrolled' = DOMAIN enrolled
      /\ \A d \in DOMAIN enrolled \ {E(t)} : enrolled'[d] = enrolled[d]
      /\ enrolled'[E(t)].status = n.status /\ enrolled'[E(t)].at = n.at
      /\ enrolled'[E(t)].ran = Append(n.ran, x)
  BY Recorded
<1>5. Walked(links, steps, Append(n.ran, x))
  BY <1>1, <1>2, <1>3, OneStepMore
<1>6. Append(n.ran, x) # <<>> /\ Last(Append(n.ran, x)) = x
  BY <1>1, <1>2, Lengthened
<1> QED
  BY <1>1, <1>3, <1>4, <1>5, <1>6 DEF OnWay

LEMMA WaitsOnItsWay ==
    ASSUME FlowTyped, OneAtATime, OnItsWay, NEW t \in Threads, Wait(t)
    PROVE  (OneAtATime /\ OnItsWay)'
<1> DEFINE n == Len(waits) + 1
<1>1. /\ Doing(t, "execute") /\ steps[run[t].x] = "wait" /\ Ran(t)
      /\ DOMAIN waits' = DOMAIN waits \union {n} /\ n \notin DOMAIN waits
      /\ \A x \in DOMAIN waits : waits'[x] = waits[x]
      /\ waits'[n] = [e |-> E(t), waiting |-> TRUE]
      /\ Acts(t) /\ run'[t].pc \in {"idle", "goal"} /\ UNCHANGED <<steps, links>>
  BY Waited DEF designVars, drawn
<1> HIDE DEF n
<1>2. /\ Carries(t) /\ E(t) \in DOMAIN enrolled /\ E(t) = run[t].e
      /\ DOMAIN enrolled' = DOMAIN enrolled
      /\ \A d \in DOMAIN enrolled \ {E(t)} : enrolled'[d] = enrolled[d]
      /\ OnWay(links, steps, enrolled'[E(t)]) /\ HasRun(steps, enrolled'[E(t)])
  BY <1>1, RunsOnItsWay DEF HasRun, E
<1>3. \A u \in Threads : Carries(u)' \/ run'[u].pc = "mark" => u # t /\ run'[u] = run[u]
  BY <1>1 DEF Acts, Carries, Carrying
<1>4. \A u \in Threads : u # t /\ Carries(u) => run[u].e # E(t)
  BY <1>2 DEF OneAtATime
<1>5. \A x \in DOMAIN waits : waits[x].waiting => waits[x].e # E(t)
  BY <1>2 DEF OneAtATime
<1>6. \A u \in Threads : run[u].pc = "mark" => run[u].x \in DOMAIN waits
  BY DEF FlowTyped, ErrandOK
<1>7. OneAtATime'
  <2>1. \A u, v \in Threads : Carries(u)' /\ Carries(v)' /\ run'[u].e = run'[v].e => u = v
    BY <1>3 DEF OneAtATime, Carries
  <2>2. \A u, v \in Threads : run'[u].pc = "mark" /\ run'[v].pc = "mark" /\ run'[u].x = run'[v].x => u = v
    BY <1>3 DEF OneAtATime
  <2>3. \A x, y \in DOMAIN waits' :
           waits'[x].waiting /\ waits'[y].waiting /\ waits'[x].e = waits'[y].e => x = y
    BY <1>1, <1>5 DEF OneAtATime
  <2>4. \A u \in Threads, x \in DOMAIN waits' : Carries(u)' /\ waits'[x].waiting => waits'[x].e # run'[u].e
    BY <1>1, <1>3, <1>4 DEF OneAtATime, Carries
  <2>5. \A u \in Threads : run'[u].pc = "mark" => u \in Workers /\ waits'[run'[u].x].waiting
    BY <1>1, <1>3, <1>6 DEF OneAtATime
  <2> QED
    BY <2>1, <2>2, <2>3, <2>4, <2>5 DEF OneAtATime
<1>8. ASSUME NEW u \in Threads, Carries(u)'
      PROVE  InPlace(links, steps, run'[u], enrolled'[run'[u].e])
  <2>1. run'[u] = run[u] /\ Carries(u) /\ run[u].e # E(t) /\ run[u].e \in DOMAIN enrolled
    BY <1>3, <1>4, <1>8 DEF Carries, FlowTyped, ErrandOK, E
  <2> QED
    BY <1>2, <2>1 DEF OnItsWay
<1>9. ASSUME NEW x \in DOMAIN waits', waits'[x].waiting PROVE HasRun(steps, enrolled'[waits'[x].e])
  <2>1. CASE x = n
    <3>1. waits'[x].e = E(t)
      BY <1>1, <2>1
    <3> QED
      BY <1>2, <3>1
  <2>2. CASE x \in DOMAIN waits
    BY <1>1, <1>2, <1>5, <1>9, <2>2 DEF OnItsWay, FlowTyped
  <2> QED
    BY <1>1, <1>9, <2>1, <2>2
<1>10. ASSUME NEW e \in DOMAIN enrolled PROVE OnWay(links, steps, enrolled'[e])
  BY <1>2 DEF OnItsWay
<1>11. OnItsWay'
  BY <1>1, <1>2, <1>8, <1>9, <1>10 DEF OnItsWay
<1> QED
  BY <1>7, <1>11

LEMMA MarksOnItsWay ==
    ASSUME FlowTyped, OneAtATime, OnItsWay, NEW t \in Threads, Mark(t)
    PROVE  (OneAtATime /\ OnItsWay)'
<1> DEFINE w == run[t].x
<1>1. /\ run[t].pc = "mark" /\ w \in DOMAIN waits /\ waits[w].e = run[t].e
      /\ DOMAIN waits' = DOMAIN waits /\ \A x \in DOMAIN waits \ {w} : waits'[x] = waits[x]
      /\ ~waits'[w].waiting
      /\ Acts(t) /\ run'[t].pc = "advance" /\ run'[t].e = run[t].e
      /\ UNCHANGED <<steps, links, enrolled>>
  BY Marked DEF designVars, drawn, E, Doing
<1>2. waits[w].waiting /\ \A u \in Threads : u # t => run'[u] = run[u]
  BY <1>1 DEF Acts, OneAtATime
<1> HIDE DEF w
<1>3. Carries(t)' /\ ~Carries(t) /\ \A u \in Threads : u # t => (Carries(u)' <=> Carries(u))
  BY <1>1, <1>2 DEF Carries, Carrying
<1>4. \A u \in Threads : Carries(u) => run[u].e # run[t].e
  BY <1>1, <1>2 DEF OneAtATime
<1>5. \A x \in DOMAIN waits : waits'[x].waiting => waits[x].e # run[t].e /\ waits'[x] = waits[x]
  BY <1>1, <1>2 DEF OneAtATime
<1>6. OneAtATime'
  <2>1. \A u, v \in Threads : Carries(u)' /\ Carries(v)' /\ run'[u].e = run'[v].e => u = v
    BY <1>1, <1>2, <1>3, <1>4 DEF OneAtATime
  <2>2. \A u, v \in Threads : run'[u].pc = "mark" /\ run'[v].pc = "mark" /\ run'[u].x = run'[v].x => u = v
    BY <1>1, <1>2 DEF OneAtATime
  <2>3. \A x, y \in DOMAIN waits' :
           waits'[x].waiting /\ waits'[y].waiting /\ waits'[x].e = waits'[y].e => x = y
    BY <1>1, <1>5 DEF OneAtATime
  <2>4. \A u \in Threads, x \in DOMAIN waits' : Carries(u)' /\ waits'[x].waiting => waits'[x].e # run'[u].e
    BY <1>1, <1>2, <1>3, <1>5 DEF OneAtATime
  <2>5. ASSUME NEW u \in Threads, run'[u].pc = "mark"
        PROVE  u \in Workers /\ waits'[run'[u].x].waiting
    <3>1. u # t /\ run'[u] = run[u] /\ run[u].x \in DOMAIN waits /\ run[u].x # w
      BY <1>1, <1>2, <2>5 DEF OneAtATime, w, FlowTyped, ErrandOK
    <3> QED
      BY <1>1, <2>5, <3>1 DEF OneAtATime
  <2> QED
    BY <2>1, <2>2, <2>3, <2>4, <2>5 DEF OneAtATime
<1>7. ASSUME NEW u \in Threads, Carries(u)'
      PROVE  InPlace(links, steps, run'[u], enrolled'[run'[u].e])
  <2>1. CASE u = t
    <3>1. HasRun(steps, enrolled[run[t].e])
      BY <1>1, <1>2 DEF OnItsWay
    <3> QED
      BY <1>1, <2>1, <3>1 DEF InPlace, HasRun
  <2>2. CASE u # t
    BY <1>1, <1>2, <1>3, <1>7, <2>2 DEF OnItsWay
  <2> QED
    BY <2>1, <2>2
<1>8. ASSUME NEW x \in DOMAIN waits', waits'[x].waiting PROVE HasRun(steps, enrolled'[waits'[x].e])
  BY <1>1, <1>5, <1>8 DEF OnItsWay
<1>9. OnItsWay'
  BY <1>1, <1>7, <1>8 DEF OnItsWay
<1> QED
  BY <1>6, <1>9

\* No two workers take up the same wait.
LEMMA ScansOnItsWay ==
    ASSUME FlowTyped, OneAtATime, OnItsWay, NEW w \in Workers, NEW x \in DOMAIN waits, Scan(w, x),
           retakes' = retakes
    PROVE  (OneAtATime /\ OnItsWay)'
<1>1. /\ waits[x].waiting /\ w \in Threads
      /\ Acts(w) /\ run'[w].pc = "mark" /\ run'[w].x = x
      /\ UNCHANGED <<steps, links, enrolled, waits>>
  BY Scanned DEF designVars, drawn
<1>2. ~InHand(x)
  BY Scanned DEF FlowTyped, FlowDrawn
<1>3. \A u \in Threads : u # w => run'[u] = run[u]
  BY <1>1 DEF Acts
<1>4. ~Carries(w)' /\ \A u \in Threads : run[u].pc = "mark" => run[u].x # x
  BY <1>1, <1>2 DEF Carries, Carrying, InHand, Doing, OneAtATime
<1>5. OneAtATime'
  BY <1>1, <1>3, <1>4 DEF OneAtATime, Carries
<1>6. OnItsWay'
  BY <1>1, <1>3, <1>4 DEF OnItsWay, Carries
<1> QED
  BY <1>5, <1>6

LEMMA CarriesOnItsWay ==
    ASSUME FlowTyped, OneAtATime, OnItsWay, NEW t \in Threads, CarryOn(t)
    PROVE  (OneAtATime /\ OnItsWay)'
<1> DEFINE n == enrolled[E(t)]
           after == enrolled'[E(t)]
<1>0. ASSUME Carries(t)
      PROVE  /\ E(t) \in DOMAIN enrolled /\ InPlace(links, steps, run[t], n) /\ OnWay(links, steps, n)
  BY <1>0 DEF Carries, FlowTyped, ErrandOK, OnItsWay, E
<1>1. CASE InsertRefused(t)
  BY <1>1, Left, Stopped, NothingInHand DEF InsertRefused, designVars, drawn
<1>2. CASE ReachGoal(t)
  <2>1. Acts(t) /\ run'[t].pc = "idle" /\ UNCHANGED <<steps, links, waits>>
    BY <1>2, Stopped DEF ReachGoal, designVars, drawn
  <2> QED
    BY <1>2, <2>1, AllEndInPlace DEF ReachGoal, Acts
<1>3. CASE Run(t)
  <2>1. /\ Doing(t, "execute") /\ steps[run[t].x] \in {"send", "update", "webhook"} /\ Ran(t)
        /\ Acts(t) /\ run'[t].pc = "advance" /\ run'[t].e = E(t) /\ UNCHANGED <<steps, links, waits>>
    BY <1>3, RanOn DEF designVars, drawn
  <2>2. /\ Carries(t) /\ E(t) \in DOMAIN enrolled
        /\ DOMAIN enrolled' = DOMAIN enrolled
        /\ \A d \in DOMAIN enrolled \ {E(t)} : enrolled'[d] = enrolled[d]
        /\ OnWay(links, steps, after) /\ HasRun(steps, after)
    BY <2>1, RunsOnItsWay DEF HasRun
  <2>3. InPlace(links, steps, run'[t], after)
    BY <2>1, <2>2 DEF InPlace, HasRun
  <2> QED
    BY <2>1, <2>2, <2>3, OwnIsCarried
<1>4. CASE Branch(t) \/ Split(t)
  <2>1. /\ Doing(t, "execute") /\ steps[run[t].x] \in {"branch", "split"} /\ Ran(t)
        /\ Acts(t) /\ run'[t].e = E(t)
        /\ \/ run'[t].pc = "complete" /\ (steps[run[t].x] = "branch" \/ From(run[t].x) = {})
           \/ run'[t].pc = "move" /\ \E l \in From(run[t].x) : run'[t].x = l.to
        /\ UNCHANGED <<steps, links, waits>>
    BY <1>4, Branched DEF designVars, drawn
  <2>2. /\ Carries(t) /\ E(t) \in DOMAIN enrolled
        /\ DOMAIN enrolled' = DOMAIN enrolled
        /\ \A d \in DOMAIN enrolled \ {E(t)} : enrolled'[d] = enrolled[d]
        /\ OnWay(links, steps, after)
        /\ after.status # "completed" /\ after.ran # <<>> /\ Last(after.ran) = run[t].x
    BY <2>1, RunsOnItsWay
  <2>3. CASE run'[t].pc = "complete"
    <3>1. Over(links, steps, after.ran)
      BY <2>1, <2>2, <2>3 DEF Over, Onward, From
    <3>2. InPlace(links, steps, run'[t], after)
      BY <2>2, <2>3, <3>1 DEF InPlace
    <3> QED
      BY <2>1, <2>2, <2>3, <3>2, OwnIsCarried
  <2>4. CASE run'[t].pc = "move"
    <3>1. run'[t].x \in Onward(links, steps, Last(after.ran))
      BY <2>1, <2>2, <2>4 DEF Onward, From
    <3>2. InPlace(links, steps, run'[t], after)
      BY <2>2, <2>4, <3>1 DEF InPlace
    <3> QED
      BY <2>1, <2>2, <2>4, <3>2, OwnIsCarried
  <2> QED
    BY <2>1, <2>3, <2>4
<1>5. CASE Advance(t)
  <2>1. /\ Carries(t) /\ Doing(t, "advance") /\ Acts(t)
        /\ \/ run'[t].pc \in {"idle", "goal"}
           \/ run'[t].pc = "complete" /\ run'[t].e = E(t) /\ From(n.at) = {} /\ n.at = Len(steps)
           \/ /\ run'[t].pc = "move" /\ run'[t].e = E(t)
              /\ \/ From(n.at) = {} /\ n.at < Len(steps) /\ run'[t].x = n.at + 1
                 \/ \E l \in From(n.at) : run'[t].x = l.to
        /\ UNCHANGED <<steps, links, enrolled, waits>>
    BY <1>5, Advanced DEF designVars, drawn, Carries, Carrying, Doing
  <2>2. HasRun(steps, n) /\ OnWay(links, steps, n)
    BY <1>0, <2>1 DEF InPlace, Doing
  <2>3. CASE run'[t].pc \in {"idle", "goal"}
    BY <2>1, <2>3, NothingInHand
  <2>4. CASE /\ run'[t].pc = "complete" /\ run'[t].e = E(t) /\ From(n.at) = {} /\ n.at = Len(steps)
    <3>1. ~(n.at < Len(steps))
      BY <2>4, StepsAreNumbers DEF FlowTyped, FlowDrawn
    <3>2. Over(links, steps, n.ran)
      BY <2>2, <2>4, <3>1 DEF Over, Onward, From, HasRun
    <3>3. InPlace(links, steps, run'[t], n)
      BY <2>2, <2>4, <3>2 DEF InPlace, HasRun
    <3> QED
      BY <2>1, <2>2, <2>4, <3>3, OwnIsCarried
  <2>5. CASE /\ run'[t].pc = "move" /\ run'[t].e = E(t)
             /\ \/ From(n.at) = {} /\ n.at < Len(steps) /\ run'[t].x = n.at + 1
                \/ \E l \in From(n.at) : run'[t].x = l.to
    <3>1. run'[t].x \in Onward(links, steps, Last(n.ran))
      BY <2>2, <2>5 DEF Onward, From, HasRun
    <3>2. InPlace(links, steps, run'[t], n)
      BY <2>2, <2>5, <3>1 DEF InPlace, HasRun
    <3> QED
      BY <2>1, <2>2, <2>5, <3>2, OwnIsCarried
  <2> QED
    BY <2>1, <2>3, <2>4, <2>5
<1>6. CASE Move(t)
  <2>1. /\ Carries(t) /\ Doing(t, "move") /\ Proceed(t, "execute", run[t].x) /\ run[t].x \in Nat
        /\ UNCHANGED <<steps, links, waits>>
    BY <1>6, StepsAreNumbers
    DEF Move, Carries, Carrying, Doing, designVars, drawn, FlowTyped, FlowDrawn, ErrandOK
  <2>2. Acts(t) /\ run'[t].pc = "execute" /\ run'[t].e = E(t) /\ run'[t].x = run[t].x
    BY <2>1, Proceeded DEF Positions, Carrying, E
  <2>3. /\ DOMAIN enrolled' = DOMAIN enrolled
        /\ \A d \in DOMAIN enrolled \ {E(t)} : enrolled'[d] = enrolled[d]
        /\ after.status = n.status /\ after.at = run[t].x /\ after.ran = n.ran
    BY <1>6, Moved
  <2>4. InPlace(links, steps, run'[t], after) /\ OnWay(links, steps, after)
    BY <1>0, <2>1, <2>2, <2>3 DEF InPlace, OnWay, Doing, Follows
  <2> QED
    BY <2>1, <2>2, <2>3, <2>4, OwnIsCarried
<1>7. CASE Complete(t)
  <2>1. /\ Carries(t) /\ Doing(t, "complete") /\ Acts(t) /\ run'[t].pc \in {"idle", "goal"}
        /\ UNCHANGED <<steps, links, waits>>
    BY <1>7, Left DEF Complete, Carries, Carrying, Doing, designVars, drawn
  <2>2. /\ DOMAIN enrolled' = DOMAIN enrolled
        /\ \A d \in DOMAIN enrolled \ {E(t)} : enrolled'[d] = enrolled[d]
        /\ after.ran = n.ran
    BY <1>7, Completed
  <2>3. OnWay(links, steps, after)
    BY <1>0, <2>1, <2>2 DEF InPlace, OnWay, Doing
  <2> QED
    BY <2>1, <2>2, <2>3, OwnIsCarried DEF Carrying
<1> QED
  BY <1>1, <1>2, <1>3, <1>4, <1>5, <1>6, <1>7, InsertsOnItsWay, WaitsOnItsWay, MarksOnItsWay
  DEF CarryOn, Run

LEMMA NextOnItsWay ==
    ASSUME FlowInv, FlowNext
    PROVE  FlowInv'
<1>1. FlowTyped'
  BY NextIsTyped DEF FlowInv
<1>2. SUFFICES ASSUME Calm' PROVE (OneAtATime /\ OnItsWay)'
  BY <1>1 DEF FlowInv
<1>3. FlowTyped /\ edits \in Nat /\ retakes \in Nat
  BY DEF FlowInv, FlowTyped, FlowDrawn
<1>4. CASE Validate \/ Activate \/ Pause
  <2>1. UNCHANGED <<steps, links, enrolled, waits, run, edits, retakes>>
    BY <1>4 DEF Validate, Activate, Pause, drawn
  <2>2. OneAtATime /\ OnItsWay
    BY <1>2, <2>1 DEF FlowInv, Calm
  <2> QED
    BY <2>1, <2>2 DEF OneAtATime, OnItsWay, Carries
<1>5. CASE Edit
  BY <1>2, <1>3, <1>5 DEF Edit, Calm
<1>6. CASE Archive
  <2>1. OneAtATime /\ OnItsWay
    BY <1>2, <1>6 DEF FlowInv, Calm, Archive
  <2> QED
    BY <1>3, <1>6, <2>1, AllEndInPlace DEF Archive, drawn
<1>7. ASSUME NEW t \in Requests, Fire(t) PROVE (OneAtATime /\ OnItsWay)'
  <2>1. /\ t \in Threads /\ Acts(t) /\ run'[t].pc \in {"insert", "goal"}
        /\ UNCHANGED <<steps, links, enrolled, waits, edits, retakes>>
    BY <1>3, <1>7, Fired DEF designVars, drawn
  <2>2. OneAtATime /\ OnItsWay
    BY <1>2, <2>1 DEF FlowInv, Calm
  <2> QED
    BY <1>3, <2>1, <2>2, NothingInHand
<1>8. ASSUME NEW w \in Workers, NEW x \in DOMAIN waits, Scan(w, x) PROVE (OneAtATime /\ OnItsWay)'
  <2>1. retakes' = retakes /\ UNCHANGED edits
    BY <1>2, <1>3, <1>8, Scanned DEF Calm, designVars
  <2>2. OneAtATime /\ OnItsWay
    BY <1>2, <2>1 DEF FlowInv, Calm
  <2> QED
    BY <1>3, <1>8, <2>1, <2>2, ScansOnItsWay
<1>9. ASSUME NEW t \in Threads, StepFails(t) \/ CutShort(t) PROVE (OneAtATime /\ OnItsWay)'
  <2>1. /\ Acts(t) /\ run'[t].pc \in {"idle", "goal"}
        /\ UNCHANGED <<steps, links, enrolled, waits, edits, retakes>>
    BY <1>3, <1>9, Left, Stopped DEF StepFails, CutShort, designVars, drawn
  <2>2. OneAtATime /\ OnItsWay
    BY <1>2, <2>1 DEF FlowInv, Calm
  <2> QED
    BY <1>3, <2>1, <2>2, NothingInHand
<1>10. ASSUME NEW t \in Threads, CarryOn(t) PROVE (OneAtATime /\ OnItsWay)'
  <2>1. UNCHANGED <<edits, retakes>>
    BY <1>10
    DEF CarryOn, InsertEnrollment, InsertRefused, ReachGoal, Send, Update, Webhook, Wait, Branch, Split,
        Advance, Move, Complete, Mark, designVars
  <2>2. OneAtATime /\ OnItsWay
    BY <1>2, <2>1 DEF FlowInv, Calm
  <2> QED
    BY <1>3, <1>10, <2>2, CarriesOnItsWay
<1> QED
  BY <1>4, <1>5, <1>6, <1>7, <1>8, <1>9, <1>10 DEF FlowNext

LEMMA StutterOnItsWay == FlowInv /\ UNCHANGED flowVars => FlowInv'
<1> SUFFICES ASSUME FlowInv, UNCHANGED flowVars PROVE FlowInv'
  OBVIOUS
<1>1. FlowTyped'
  BY StutterIsTyped DEF FlowInv
<1> QED
  BY <1>1 DEF FlowInv, Calm, OneAtATime, OnItsWay, Carries, flowVars

\* While nobody edits the flow and no two workers take up the same wait, an enrolment runs the
\* steps of the flow one after the other, and is completed only where the flow ends.
THEOREM StepsInOrder == FlowSpec => []WalksTheFlow
<1>1. FlowInv /\ [FlowNext]_flowVars => FlowInv'
  BY NextOnItsWay, StutterOnItsWay
<1> QED
  BY StartsOnItsWay, <1>1, InvWalks, PTL DEF FlowSpec

-----------------------------------------------------------------------------
(* After the end, no more than what is in hand *)

\* Who has an enrolment in hand, the waits that hold it, and who has a step of it before it.
Hands(e) == {t \in Threads : run[t].pc \in Carrying \union {"mark"} /\ run[t].e = e}
Held(e) == {x \in DOMAIN waits : waits[x].waiting /\ waits[x].e = e /\ ~InHand(x)}
Going(e) == {t \in Threads : run[t].pc \in {"execute", "move"} /\ run[t].e = e}

InAll(e) == Cardinality(Hands(e)) + Cardinality(Held(e))

FewOf(e) ==
    /\ InAll(e) <= 1 + retakes
    /\ enrolled[e].late + Cardinality(Going(e)) <= 1 + retakes
    /\ IsActive(e) => enrolled[e].late = 0

Few == \A e \in DOMAIN enrolled : FewOf(e)

LEMMA SetsMove ==
    ASSUME NEW H, NEW W, IsFiniteSet(H), IsFiniteSet(W), NEW H2, NEW W2, NEW t, NEW x
    PROVE  /\ Cardinality(H) \in Nat /\ Cardinality(W) \in Nat
           /\ H2 \subseteq H /\ W2 \subseteq W
              => Cardinality(H2) + Cardinality(W2) <= Cardinality(H) + Cardinality(W)
           /\ t \in H /\ H2 \subseteq H \ {t} /\ W2 \subseteq W \union {x}
              => Cardinality(H2) + Cardinality(W2) <= Cardinality(H) + Cardinality(W)
           /\ x \in W /\ H2 \subseteq H \union {t} /\ W2 \subseteq W \ {x}
              => Cardinality(H2) + Cardinality(W2) <= Cardinality(H) + Cardinality(W)
           /\ H2 \subseteq H \union {t} /\ W2 \subseteq W
              => Cardinality(H2) + Cardinality(W2) <= Cardinality(H) + Cardinality(W) + 1
<1>1. /\ Cardinality(H) \in Nat /\ Cardinality(W) \in Nat
      /\ IsFiniteSet(H \union {t}) /\ IsFiniteSet(H \ {t}) /\ IsFiniteSet(W \union {x}) /\ IsFiniteSet(W \ {x})
      /\ Cardinality(H \union {t}) <= Cardinality(H) + 1 /\ Cardinality(W \union {x}) <= Cardinality(W) + 1
      /\ t \in H => Cardinality(H \ {t}) = Cardinality(H) - 1
      /\ x \in W => Cardinality(W \ {x}) = Cardinality(W) - 1
  <2>1. Cardinality(H) \in Nat /\ Cardinality(W) \in Nat
    BY FS_CardinalityType
  <2>2. /\ IsFiniteSet(H \union {t})
        /\ Cardinality(H \union {t}) = IF t \in H THEN Cardinality(H) ELSE Cardinality(H) + 1
    BY FS_AddElement
  <2>3. /\ IsFiniteSet(W \union {x})
        /\ Cardinality(W \union {x}) = IF x \in W THEN Cardinality(W) ELSE Cardinality(W) + 1
    BY FS_AddElement
  <2>4. /\ IsFiniteSet(H \ {t})
        /\ Cardinality(H \ {t}) = IF t \in H THEN Cardinality(H) - 1 ELSE Cardinality(H)
    BY FS_RemoveElement
  <2>5. /\ IsFiniteSet(W \ {x})
        /\ Cardinality(W \ {x}) = IF x \in W THEN Cardinality(W) - 1 ELSE Cardinality(W)
    BY FS_RemoveElement
  <2> QED
    BY <2>1, <2>2, <2>3, <2>4, <2>5
<1>2. ASSUME NEW A, NEW B, IsFiniteSet(B), A \subseteq B
      PROVE  Cardinality(A) \in Nat /\ Cardinality(B) \in Nat /\ Cardinality(A) <= Cardinality(B)
  BY <1>2, FS_Subset, FS_CardinalityType
<1> QED
  BY <1>1, <1>2

LEMMA InHandIsFinite ==
    ASSUME FlowTyped, NEW e
    PROVE  IsFiniteSet(Hands(e)) /\ IsFiniteSet(Held(e)) /\ IsFiniteSet(Going(e))
<1>1. IsFiniteSet(Threads)
  BY WorkersAreFinite, FS_Union DEF Threads
<1>2. DOMAIN waits = 1..Len(waits) /\ Len(waits) \in Nat
  BY DEF FlowTyped
<1>3. IsFiniteSet(DOMAIN waits)
  BY <1>2, FS_Interval
<1>4. /\ Hands(e) \in SUBSET Threads /\ Going(e) \in SUBSET Threads /\ Held(e) \in SUBSET DOMAIN waits
  BY DEF Hands, Going, Held
<1> QED
  BY <1>1, <1>3, <1>4, FS_Subset

LEMMA GoingAreHands ==
    ASSUME FlowTyped, NEW e
    PROVE  /\ Cardinality(Going(e)) \in Nat /\ InAll(e) \in Nat
           /\ Cardinality(Going(e)) <= InAll(e)
<1>1. Going(e) \in SUBSET Hands(e)
  BY DEF Going, Hands, Carrying
<1> QED
  BY <1>1, InHandIsFinite, FS_Subset, FS_CardinalityType DEF InAll

LEMMA StartsFew == FlowInit => Few
  BY DEF FlowInit, Few

LEMMA FewFallSilent == FlowTyped /\ Few => FallsSilent
<1> SUFFICES ASSUME FlowTyped, Few, NEW e \in DOMAIN enrolled PROVE enrolled[e].late <= 1 + retakes
  BY DEF FallsSilent
<1>1. enrolled[e] \in Enrollment
  BY DEF FlowTyped
<1>2. enrolled[e].late \in Nat /\ retakes \in Nat
  BY <1>1 DEF Enrollment, FlowTyped, FlowDrawn
<1>3. Cardinality(Going(e)) \in Nat
  BY GoingAreHands
<1> QED
  BY <1>2, <1>3 DEF Few, FewOf

\* What a step may do to an enrolment that has ended.
OneLateAtMost(e) ==
    \/ enrolled'[e].late = enrolled[e].late /\ (~IsActive(e) => Going(e)' \subseteq Going(e))
    \/ \E t \in Going(e) : /\ ~IsActive(e) /\ enrolled'[e].late = enrolled[e].late + 1
                           /\ Going(e)' \subseteq Going(e) \ {t}

\* What a step must show of an enrolment.
LEMMA FewAfter ==
    ASSUME FlowTyped, FlowTyped', Few, NEW e \in DOMAIN enrolled, e \in DOMAIN enrolled',
           NEW more \in Nat, retakes' = retakes + more,
           InAll(e)' <= InAll(e) + more,
           IsActive(e)' => IsActive(e),
           OneLateAtMost(e)
    PROVE  FewOf(e)'
<1>1. FewOf(e) /\ retakes \in Nat
  BY DEF Few, FlowTyped, FlowDrawn
<1>2. /\ Cardinality(Going(e)) \in Nat /\ InAll(e) \in Nat
      /\ IsFiniteSet(Going(e))
  BY GoingAreHands, InHandIsFinite
<1>3. /\ Cardinality(Going(e)') \in Nat /\ InAll(e)' \in Nat
      /\ Cardinality(Going(e)') <= InAll(e)'
  <2>1. (/\ Cardinality(Going(e)) \in Nat /\ InAll(e) \in Nat
         /\ Cardinality(Going(e)) <= InAll(e))'
    BY GoingAreHands, PTL
  <2> QED
    BY <2>1
<1>4. enrolled[e] \in Enrollment
  BY DEF FlowTyped
<1>5. enrolled[e].late \in Nat
  BY <1>4 DEF Enrollment
<1>6. (InAll(e) <= 1 + retakes)'
  BY <1>1, <1>2, <1>3 DEF FewOf
<1>7. CASE IsActive(e) /\ enrolled'[e].late = enrolled[e].late
  <2>1. enrolled'[e].late = 0
    BY <1>1, <1>7 DEF FewOf
  <2> QED
    BY <1>3, <1>6, <2>1, <1>1 DEF FewOf
<1>8. CASE ~IsActive(e) /\ enrolled'[e].late = enrolled[e].late /\ Going(e)' \subseteq Going(e)
  <2>1. Cardinality(Going(e)') <= Cardinality(Going(e))
    BY <1>2, <1>8, FS_Subset
  <2> QED
    BY <1>1, <1>2, <1>3, <1>5, <1>6, <1>8, <2>1 DEF FewOf
<1>9. ASSUME NEW t \in Going(e), ~IsActive(e), enrolled'[e].late = enrolled[e].late + 1,
             Going(e)' \subseteq Going(e) \ {t}
      PROVE  FewOf(e)'
  <2>1. IsFiniteSet(Going(e) \ {t}) /\ Cardinality(Going(e) \ {t}) = Cardinality(Going(e)) - 1
    BY <1>2, FS_RemoveElement
  <2>2. Cardinality(Going(e)') <= Cardinality(Going(e)) - 1
    BY <1>9, <2>1, FS_Subset
  <2> QED
    BY <1>1, <1>2, <1>3, <1>5, <1>6, <1>9, <2>2 DEF FewOf
<1> QED
  BY <1>7, <1>8, <1>9 DEF OneLateAtMost

\* Nobody takes an enrolment in hand who had not.
LEMMA NobodyMore ==
    ASSUME FlowTyped, NEW t \in Threads, Acts(t), run[t].pc # "mark", run'[t].pc # "mark", waits' = waits,
           run'[t].pc \in Carrying => run[t].pc \in Carrying /\ run'[t].e = run[t].e, NEW e
    PROVE  InAll(e)' <= InAll(e)
<1>1. \A u \in Threads : u # t => run'[u] = run[u]
  BY DEF Acts
<1>2. Hands(e)' \subseteq Hands(e)
  BY <1>1 DEF Hands
<1>3. \A x : InHand(x) => InHand(x)'
  BY <1>1 DEF InHand, Doing, Threads
<1>4. Held(e)' \subseteq Held(e)
  BY <1>3 DEF Held
<1> QED
  BY <1>2, <1>4, InHandIsFinite, SetsMove DEF InAll

\* A step that writes to no enrolment, and brings no step of the flow before a thread.
LEMMA QuietIsFew ==
    ASSUME FlowTyped, FlowTyped', Few, NEW t \in Threads, Acts(t), run[t].pc # "mark", run'[t].pc # "mark",
           waits' = waits, retakes' = retakes,
           run'[t].pc \in Carrying => run[t].pc \in Carrying /\ run'[t].e = run[t].e,
           DOMAIN enrolled' = DOMAIN enrolled,
           NEW e \in DOMAIN enrolled, enrolled'[e].late = enrolled[e].late,
           IsActive(e)' => IsActive(e),
           run'[t].pc \in {"execute", "move"} => run[t].pc \in {"execute", "move"} \/ IsActive(run[t].e)
    PROVE  FewOf(e)'
<1>1. \A u \in Threads : u # t => run'[u] = run[u]
  BY DEF Acts
<1>2. ~IsActive(e) => Going(e)' \subseteq Going(e)
  BY <1>1 DEF Going, Carrying
<1>3. InAll(e)' <= InAll(e)
  BY NobodyMore
<1>4. /\ InAll(e) \in Nat /\ retakes \in Nat
  BY GoingAreHands DEF FlowTyped, FlowDrawn
<1>5. retakes' = retakes + 0
        /\ InAll(e)' <= InAll(e) + 0
  BY <1>3, <1>4
<1> QED
  BY <1>2, <1>5, FewAfter DEF OneLateAtMost

\* A step of the flow is run: late, if the enrolment has ended and somebody outside notices.
LEMMA RunsLate ==
    ASSUME FlowTyped, NEW t \in Threads, Acts(t), Doing(t, "execute"), Ran(t), run'[t].e = run[t].e \/ ~Carries(t)',
           run'[t].pc \in {"execute", "move"} => steps[run[t].x] \notin Outward,
           NEW e \in DOMAIN enrolled
    PROVE  /\ IsActive(e)' => IsActive(e)
           /\ OneLateAtMost(e)
<1>1. \A u \in Threads : u # t => run'[u] = run[u]
  BY DEF Acts
<1>2. /\ DOMAIN enrolled' = DOMAIN enrolled
      /\ \A d \in DOMAIN enrolled \ {E(t)} : enrolled'[d] = enrolled[d]
      /\ enrolled'[E(t)].status = enrolled[E(t)].status
      /\ enrolled'[E(t)].late = IF IsActive(E(t)) \/ steps[run[t].x] \notin Outward
                                THEN enrolled[E(t)].late ELSE enrolled[E(t)].late + 1
  BY Recorded
<1>3. Going(e)' \subseteq Going(e)
  BY <1>1 DEF Going, Doing, Carries, Carrying
<1>4. IsActive(e)' => IsActive(e)
  BY <1>2 DEF IsActive
<1>5. CASE enrolled'[e].late = enrolled[e].late
  BY <1>3, <1>4, <1>5 DEF OneLateAtMost
<1>6. CASE enrolled'[e].late # enrolled[e].late
  <2>1. e = E(t) /\ ~IsActive(e) /\ steps[run[t].x] \in Outward /\ enrolled'[e].late = enrolled[e].late + 1
    BY <1>2, <1>6
  <2>2. t \in Going(e) /\ t \notin Going(e)'
    BY <2>1 DEF Going, Doing, E
  <2> QED
    BY <1>3, <1>4, <2>1, <2>2 DEF OneLateAtMost
<1> QED
  BY <1>5, <1>6

LEMMA InsertsFew ==
    ASSUME FlowTyped, FlowTyped', Few, NEW t \in Threads, InsertEnrollment(t)
    PROVE  Few'
<1>0. PICK n \in Nat : n = Len(enrolled) + 1
  BY DEF FlowTyped
<1>1. /\ DOMAIN enrolled' = DOMAIN enrolled \union {n} /\ n \notin DOMAIN enrolled
      /\ \A d \in DOMAIN enrolled : enrolled'[d] = enrolled[d]
      /\ enrolled'[n] = [status |-> "active", at |-> 1, ran |-> <<>>, late |-> 0]
      /\ Acts(t) /\ run'[t].pc = "execute" /\ run'[t].e = n
      /\ UNCHANGED <<waits, retakes>> /\ Doing(t, "insert")
  BY <1>0, Inserted DEF InsertEnrollment
<1>2. \A u \in Threads : u # t => run'[u] = run[u]
  BY <1>1 DEF Acts
<1>3. \A x : InHand(x) <=> InHand(x)'
  BY <1>1, <1>2 DEF InHand, Doing, Threads
<1>4. ASSUME NEW e \in DOMAIN enrolled PROVE FewOf(e)'
  <2>1. Hands(e)' = Hands(e) /\ Held(e)' = Held(e) /\ Going(e)' = Going(e)
    BY <1>1, <1>2, <1>3 DEF Hands, Held, Going, Doing, Carrying
  <2> QED
    BY <1>1, <1>4, <2>1 DEF Few, FewOf, IsActive, InAll
<1>5. FewOf(n)'
  <2>1. \A u \in Threads : run[u].pc \in Carrying => run[u].e # n
    BY <1>1 DEF FlowTyped, ErrandOK, E
  <2>2. \A u \in Threads : run[u].pc = "mark" => run[u].e # n
    BY <1>1 DEF FlowTyped, ErrandOK, E
  <2>3. \A x \in DOMAIN waits : waits[x].e # n
    BY <1>1 DEF FlowTyped
  <2>4. Hands(n)' = {t} /\ Going(n)' = {t} /\ Held(n)' = {}
    BY <1>1, <1>2, <2>1, <2>2, <2>3 DEF Hands, Going, Held, Carrying
  <2>5. Cardinality({t}) = 1 /\ Cardinality({}) = 0 /\ retakes \in Nat
    BY FS_Singleton, FS_EmptySet DEF FlowTyped, FlowDrawn
  <2> QED
    BY <1>1, <2>4, <2>5 DEF FewOf, InAll
<1> QED
  BY <1>1, <1>4, <1>5 DEF Few

LEMMA WaitsFew ==
    ASSUME FlowTyped, FlowTyped', Few, NEW t \in Threads, Wait(t)
    PROVE  Few'
<1> DEFINE n == Len(waits) + 1
<1>1. /\ Doing(t, "execute") /\ Ran(t)
      /\ DOMAIN waits' = DOMAIN waits \union {n}
      /\ \A x \in DOMAIN waits : waits'[x] = waits[x]
      /\ waits'[n] = [e |-> E(t), waiting |-> TRUE]
      /\ Acts(t) /\ run'[t].pc \in {"idle", "goal"} /\ UNCHANGED retakes
  BY Waited
<1> HIDE DEF n
<1>2. \A u \in Threads : u # t => run'[u] = run[u]
  BY <1>1 DEF Acts
<1>3. \A x : InHand(x) => InHand(x)'
  BY <1>1, <1>2 DEF InHand, Doing, Threads
<1>4. DOMAIN enrolled' = DOMAIN enrolled
  BY <1>1, Recorded
<1>5. ASSUME NEW e \in DOMAIN enrolled
      PROVE  InAll(e)' <= InAll(e)
  <2>1. CASE e = E(t)
    <3>1. t \in Hands(e) /\ Hands(e)' \subseteq Hands(e) \ {t}
      BY <1>1, <1>2, <2>1 DEF Hands, Doing, E, Carrying
    <3>2. Held(e)' \subseteq Held(e) \union {n}
      BY <1>1, <1>3 DEF Held
    <3> QED
      BY <3>1, <3>2, InHandIsFinite, SetsMove DEF InAll
  <2>2. CASE e # E(t)
    <3>1. Hands(e)' \subseteq Hands(e)
      BY <1>1, <1>2 DEF Hands, Carrying
    <3>2. waits'[n].e # e
      BY <1>1, <2>2
    <3>3. Held(e)' \subseteq Held(e)
      BY <1>1, <1>3, <3>2 DEF Held
    <3> QED
      BY <3>1, <3>3, InHandIsFinite, SetsMove DEF InAll
  <2> QED
    BY <2>1, <2>2
<1>6. ASSUME NEW e \in DOMAIN enrolled PROVE FewOf(e)'
  <2>1. /\ InAll(e) \in Nat /\ retakes \in Nat
    BY GoingAreHands DEF FlowTyped, FlowDrawn
  <2>2. retakes' = retakes + 0
        /\ InAll(e)' <= InAll(e) + 0
    BY <1>1, <1>5, <2>1
  <2>3. /\ IsActive(e)' => IsActive(e)
        /\ OneLateAtMost(e)
    BY <1>1, RunsLate DEF Carries, Carrying
  <2> QED
    BY <1>4, <2>2, <2>3, FewAfter
<1> QED
  BY <1>4, <1>6 DEF Few

LEMMA MarksFew ==
    ASSUME FlowTyped, FlowTyped', Few, NEW t \in Threads, Mark(t)
    PROVE  Few'
<1> DEFINE w == run[t].x
<1>1. /\ run[t].pc = "mark" /\ w \in DOMAIN waits
      /\ DOMAIN waits' = DOMAIN waits /\ \A x \in DOMAIN waits \ {w} : waits'[x] = waits[x]
      /\ ~waits'[w].waiting
      /\ Acts(t) /\ run'[t].pc = "advance" /\ run'[t].e = run[t].e
      /\ UNCHANGED <<enrolled, retakes>>
  BY Marked DEF E, Doing
<1>2. \A u \in Threads : u # t => run'[u] = run[u]
  BY <1>1 DEF Acts
<1>3. \A x : x # w /\ InHand(x) => InHand(x)'
  BY <1>1, <1>2 DEF InHand, Doing, Threads
<1> HIDE DEF w
<1>4. ASSUME NEW e \in DOMAIN enrolled PROVE FewOf(e)'
  <2>1. Hands(e)' \subseteq Hands(e) /\ Going(e)' \subseteq Going(e)
    BY <1>1, <1>2 DEF Hands, Going, Carrying
  <2>2. Held(e)' \subseteq Held(e)
    BY <1>1, <1>3 DEF Held
  <2>3. /\ InAll(e) \in Nat /\ retakes \in Nat
    BY GoingAreHands DEF FlowTyped, FlowDrawn
  <2>4. InAll(e)' <= InAll(e)
    BY <2>1, <2>2, InHandIsFinite, SetsMove DEF InAll
  <2>5. retakes' = retakes + 0
        /\ InAll(e)' <= InAll(e) + 0
    BY <1>1, <2>3, <2>4
  <2>6. (IsActive(e)' <=> IsActive(e)) /\ enrolled'[e].late = enrolled[e].late
    BY <1>1 DEF IsActive
  <2> QED
    BY <1>1, <2>1, <2>5, <2>6, FewAfter DEF OneLateAtMost
<1> QED
  BY <1>1, <1>4 DEF Few

LEMMA ScansFew ==
    ASSUME FlowTyped, FlowTyped', Few, NEW w \in Workers, NEW x \in DOMAIN waits, Scan(w, x)
    PROVE  Few'
<1>1. /\ Doing(w, "idle") /\ waits[x].waiting /\ w \in Threads
      /\ Acts(w) /\ run'[w].pc = "mark" /\ run'[w].e = waits[x].e /\ run'[w].x = x
      /\ IF InHand(x) THEN retakes' = retakes + 1 ELSE retakes' = retakes
      /\ UNCHANGED <<enrolled, waits>>
  BY Scanned
<1>2. \A u \in Threads : u # w => run'[u] = run[u]
  BY <1>1 DEF Acts
<1>3. \A y : (InHand(y) => InHand(y)') /\ InHand(x)'
  BY <1>1, <1>2 DEF InHand, Doing, Threads
<1>4. ASSUME NEW e \in DOMAIN enrolled PROVE FewOf(e)'
  <2>1. Hands(e)' \subseteq Hands(e) \union {w} /\ Going(e)' \subseteq Going(e)
    BY <1>1, <1>2 DEF Hands, Going
  <2>2. e # waits[x].e => Hands(e)' \subseteq Hands(e)
    BY <1>1, <1>2 DEF Hands, Doing
  <2>3. Held(e)' \subseteq Held(e) \ {x}
    BY <1>1, <1>3 DEF Held
  <2>4. /\ InAll(e) \in Nat /\ retakes \in Nat
    BY GoingAreHands DEF FlowTyped, FlowDrawn
  <2>5. (IsActive(e)' <=> IsActive(e)) /\ enrolled'[e].late = enrolled[e].late
    BY <1>1 DEF IsActive
  <2>6. CASE InHand(x)
    <3>1. InAll(e)' <= InAll(e) + 1
      BY <2>1, <2>3, InHandIsFinite, SetsMove DEF InAll
    <3> QED
      BY <1>1, <2>1, <2>5, <2>6, <3>1, FewAfter DEF OneLateAtMost
  <2>7. CASE ~InHand(x)
    <3>1. CASE e = waits[x].e
      <4>1. x \in Held(e)
        BY <1>1, <2>7, <3>1 DEF Held
      <4>2. InAll(e)' <= InAll(e)
        BY <2>1, <2>3, <4>1, InHandIsFinite, SetsMove DEF InAll
      <4>3. retakes' = retakes + 0
            /\ InAll(e)' <= InAll(e) + 0
        BY <1>1, <2>4, <2>7, <4>2
      <4> QED
        BY <1>1, <2>1, <2>5, <4>3, FewAfter DEF OneLateAtMost
    <3>2. CASE e # waits[x].e
      <4>1. InAll(e)' <= InAll(e)
        BY <2>2, <2>3, <3>2, InHandIsFinite, SetsMove DEF InAll
      <4>2. retakes' = retakes + 0
            /\ InAll(e)' <= InAll(e) + 0
        BY <1>1, <2>4, <2>7, <4>1
      <4> QED
        BY <1>1, <2>1, <2>5, <4>2, FewAfter DEF OneLateAtMost
    <3> QED
      BY <3>1, <3>2
  <2> QED
    BY <2>6, <2>7
<1> QED
  BY <1>1, <1>4 DEF Few

\* A worker that is cut off before it has marked the wait leaves it to the next one.
LEMMA CutsFew ==
    ASSUME FlowTyped, FlowTyped', Few, NEW t \in Threads, run[t].pc = "mark", Acts(t), run'[t].pc = "idle",
           UNCHANGED <<enrolled, waits, retakes>>
    PROVE  Few'
<1> DEFINE w == run[t].x
<1>1. w \in DOMAIN waits /\ waits[w].e = run[t].e
  BY DEF FlowTyped, ErrandOK, E
<1>2. \A u \in Threads : u # t => run'[u] = run[u]
  BY DEF Acts
<1>3. \A x : x # w /\ InHand(x) => InHand(x)'
  BY <1>2 DEF InHand, Doing, Threads
<1> HIDE DEF w
<1>4. ASSUME NEW e \in DOMAIN enrolled PROVE FewOf(e)'
  <2>1. Hands(e)' \subseteq Hands(e) \ {t} /\ Going(e)' \subseteq Going(e)
    BY <1>2 DEF Hands, Going, Carrying
  <2>2. Held(e)' \subseteq Held(e) \union {w} /\ (e # run[t].e => Held(e)' \subseteq Held(e))
    BY <1>1, <1>3 DEF Held
  <2>3. e = run[t].e => t \in Hands(e)
    BY DEF Hands
  <2>4. /\ InAll(e) \in Nat /\ retakes \in Nat
    BY GoingAreHands DEF FlowTyped, FlowDrawn
  <2>5. (IsActive(e)' <=> IsActive(e)) /\ enrolled'[e].late = enrolled[e].late
    BY DEF IsActive
  <2>6. InAll(e)' <= InAll(e)
    <3>1. CASE e = run[t].e
      BY <2>1, <2>2, <2>3, <3>1, InHandIsFinite, SetsMove DEF InAll
    <3>2. CASE e # run[t].e
      <4>1. Hands(e)' \subseteq Hands(e) /\ Held(e)' \subseteq Held(e)
        BY <2>1, <2>2, <3>2
      <4> QED
        BY <4>1, InHandIsFinite, SetsMove DEF InAll
    <3> QED
      BY <3>1, <3>2
  <2>7. retakes' = retakes + 0
        /\ InAll(e)' <= InAll(e) + 0
    BY <2>4, <2>6
  <2> QED
    BY <2>1, <2>5, <2>7, FewAfter DEF OneLateAtMost
<1> QED
  BY <1>4 DEF Few

LEMMA EndsFew ==
    ASSUME FlowTyped, FlowTyped', Few, NEW status \in {"exited", "goal_reached"},
           enrolled' = [e \in DOMAIN enrolled |->
                          IF IsActive(e) THEN [enrolled[e] EXCEPT !.status = status] ELSE enrolled[e]],
           UNCHANGED <<waits, retakes>>, NEW t \in Threads,
           Acts(t), run[t].pc = "goal", run'[t].pc = "idle"
    PROVE  Few'
<1>1. /\ DOMAIN enrolled' = DOMAIN enrolled
      /\ \A e \in DOMAIN enrolled :
            /\ enrolled'[e].late = enrolled[e].late
            /\ enrolled'[e].status = IF enrolled[e].status = "active" THEN status ELSE enrolled[e].status
  BY AllEnd
<1>2. ASSUME NEW e \in DOMAIN enrolled PROVE FewOf(e)'
  <2>1. Hands(e)' = Hands(e) /\ Going(e)' = Going(e)
    BY DEF Acts, Hands, Going, Carrying
  <2>2. \A x : InHand(x) <=> InHand(x)'
    BY DEF Acts, InHand, Doing, Threads
  <2>3. Held(e)' = Held(e)
    BY <2>2 DEF Held
  <2>4. IsActive(e)' => IsActive(e)
    BY <1>1 DEF IsActive
  <2> QED
    BY <1>1, <1>2, <2>1, <2>3, <2>4 DEF Few, FewOf, InAll
<1> QED
  BY <1>1, <1>2 DEF Few

LEMMA CarriesFew ==
    ASSUME FlowTyped, FlowTyped', Few, NEW t \in Threads, CarryOn(t)
    PROVE  Few'
<1>1. CASE InsertRefused(t)
  <2>1. /\ Acts(t) /\ run[t].pc = "insert" /\ run'[t].pc \in {"idle", "goal"}
        /\ UNCHANGED <<enrolled, waits, retakes>>
    BY <1>1, Left, Stopped DEF InsertRefused, Doing
  <2> QED
    BY <2>1, QuietIsFew DEF Few, Carrying, IsActive
<1>2. CASE ReachGoal(t)
  <2>1. Acts(t) /\ run[t].pc = "goal" /\ run'[t].pc = "idle" /\ UNCHANGED <<waits, retakes>>
    BY <1>2, Stopped DEF ReachGoal, Doing
  <2> QED
    BY <1>2, <2>1, EndsFew DEF ReachGoal
<1>3. CASE Run(t) \/ Branch(t) \/ Split(t)
  <2>1. /\ Doing(t, "execute") /\ Ran(t) /\ Acts(t) /\ UNCHANGED <<waits, retakes>>
        /\ run'[t].e = E(t) /\ run'[t].pc \in {"advance", "complete", "move"}
        /\ run'[t].pc = "move" => steps[run[t].x] \notin Outward
    BY <1>3, RanOn, Branched DEF Outward
  <2>2. DOMAIN enrolled' = DOMAIN enrolled
    BY <2>1, Recorded
  <2>3. ASSUME NEW e \in DOMAIN enrolled PROVE FewOf(e)'
    <3>1. /\ InAll(e) \in Nat /\ retakes \in Nat
      BY GoingAreHands DEF FlowTyped, FlowDrawn
    <3>2. InAll(e)' <= InAll(e)
      BY <2>1, NobodyMore DEF Doing, Carrying, E
    <3>3. retakes' = retakes + 0
          /\ InAll(e)' <= InAll(e) + 0
      BY <2>1, <3>1, <3>2
    <3>4. /\ IsActive(e)' => IsActive(e)
          /\ OneLateAtMost(e)
      BY <2>1, RunsLate DEF E
    <3> QED
      BY <2>2, <3>3, <3>4, FewAfter
  <2> QED
    BY <2>2, <2>3 DEF Few
<1>4. CASE Advance(t)
  <2>1. /\ Acts(t) /\ run[t].pc = "advance" /\ UNCHANGED <<enrolled, waits, retakes>>
        /\ \/ run'[t].pc \in {"idle", "goal"}
           \/ run'[t].pc = "complete" /\ run'[t].e = run[t].e
           \/ run'[t].pc = "move" /\ run'[t].e = run[t].e /\ IsActive(run[t].e)
    BY <1>4, Advanced DEF Doing, E
  <2> QED
    BY <2>1, QuietIsFew DEF Few, Carrying, IsActive
<1>5. CASE Move(t)
  <2>1. /\ Proceed(t, "execute", run[t].x) /\ run[t].pc = "move" /\ run[t].x \in Nat
        /\ UNCHANGED <<waits, retakes>> /\ E(t) \in DOMAIN enrolled
    BY <1>5, StepsAreNumbers DEF Move, Doing, FlowTyped, FlowDrawn, ErrandOK, Carrying
  <2>2. Acts(t) /\ run'[t].pc = "execute" /\ run'[t].e = run[t].e
    BY <2>1, Proceeded DEF Positions, Carrying
  <2>3. /\ DOMAIN enrolled' = DOMAIN enrolled
        /\ \A e \in DOMAIN enrolled :
              enrolled'[e].late = enrolled[e].late /\ enrolled'[e].status = enrolled[e].status
    BY <1>5, Moved
  <2> QED
    BY <2>1, <2>2, <2>3, QuietIsFew DEF Few, Carrying, IsActive
<1>6. CASE Complete(t)
  <2>1. /\ Acts(t) /\ run[t].pc = "complete" /\ run'[t].pc \in {"idle", "goal"}
        /\ UNCHANGED <<waits, retakes>>
    BY <1>6, Left DEF Complete, Doing
  <2>2. DOMAIN enrolled' = DOMAIN enrolled
    BY <1>6, Completed
  <2>3. ASSUME NEW e \in DOMAIN enrolled
        PROVE  enrolled'[e].late = enrolled[e].late /\ (IsActive(e)' => IsActive(e))
    BY <1>6, Completed DEF IsActive
  <2> QED
    BY <2>1, <2>2, <2>3, QuietIsFew DEF Few, Carrying
<1> QED
  BY <1>1, <1>2, <1>3, <1>4, <1>5, <1>6, InsertsFew, WaitsFew, MarksFew DEF CarryOn, Run

LEMMA SameInHand ==
    ASSUME Few, UNCHANGED <<waits, run, retakes>>, DOMAIN enrolled' = DOMAIN enrolled,
           \A e \in DOMAIN enrolled :
              enrolled'[e].late = enrolled[e].late
              /\ (enrolled'[e].status = "active" => enrolled[e].status = "active")
    PROVE  Few'
<1>1. ASSUME NEW e \in DOMAIN enrolled PROVE FewOf(e)'
  <2>1. Hands(e)' = Hands(e) /\ Going(e)' = Going(e)
    BY DEF Hands, Going
  <2>2. \A x : InHand(x)' <=> InHand(x)
    BY DEF InHand, Doing
  <2>3. Held(e)' = Held(e)
    BY <2>2 DEF Held
  <2>4. FewOf(e)
    BY DEF Few
  <2> QED
    BY <2>1, <2>3, <2>4 DEF FewOf, IsActive, InAll
<1> QED
  BY <1>1 DEF Few

LEMMA NextFew ==
    ASSUME FlowTyped, Few, FlowNext
    PROVE  Few'
<1>0. FlowTyped'
  BY NextIsTyped
<1>1. CASE Validate \/ Activate \/ Pause \/ Edit
  <2>1. UNCHANGED <<enrolled, waits, run, retakes>>
    BY <1>1 DEF Validate, Activate, Pause, Edit
  <2> QED
    BY <2>1, SameInHand
<1>2. CASE Archive
  <2>1. UNCHANGED <<waits, run, retakes>>
    BY <1>2 DEF Archive
  <2>2. DOMAIN enrolled' = DOMAIN enrolled /\ \A e \in DOMAIN enrolled :
           /\ enrolled'[e].late = enrolled[e].late
           /\ enrolled'[e].status = "active" => enrolled[e].status = "active"
    BY <1>2, AllEnd DEF Archive
  <2> QED
    BY <2>1, <2>2, SameInHand
<1>3. ASSUME NEW t \in Requests, Fire(t) PROVE Few'
  <2>1. /\ t \in Threads /\ Acts(t) /\ run[t].pc = "idle" /\ run'[t].pc \in {"insert", "goal"}
        /\ UNCHANGED <<enrolled, waits, retakes>>
    BY <1>3, Fired DEF Doing
  <2> QED
    BY <1>0, <2>1, QuietIsFew DEF Few, Carrying, IsActive
<1>4. ASSUME NEW w \in Workers, NEW x \in DOMAIN waits, Scan(w, x) PROVE Few'
  BY <1>0, <1>4, ScansFew
<1>5. ASSUME NEW t \in Threads, StepFails(t) \/ CutShort(t) PROVE Few'
  <2>1. /\ Acts(t) /\ run'[t].pc \in {"idle", "goal"} /\ UNCHANGED <<enrolled, waits, retakes>>
        /\ run[t].pc = "mark" => run'[t].pc = "idle"
    BY <1>5, Left, Stopped DEF StepFails, CutShort, Doing
  <2>2. CASE run[t].pc = "mark"
    BY <1>0, <2>1, <2>2, CutsFew
  <2>3. CASE run[t].pc # "mark"
    BY <1>0, <2>1, <2>3, QuietIsFew DEF Few, Carrying, IsActive
  <2> QED
    BY <2>2, <2>3
<1>6. ASSUME NEW t \in Threads, CarryOn(t) PROVE Few'
  BY <1>0, <1>6, CarriesFew
<1> QED
  BY <1>1, <1>2, <1>3, <1>4, <1>5, <1>6 DEF FlowNext

LEMMA StutterFew == Few /\ UNCHANGED flowVars => Few'
  BY SameInHand DEF flowVars

\* After the goal is reached or the flow archived, an enrolment runs no more steps that somebody
\* outside notices than those who had it in hand: one, and one more for each wait that two
\* workers took up.
THEOREM FlowsFallSilent == FlowSpec => []FallsSilent
<1>1. FlowTyped /\ Few /\ [FlowNext]_flowVars => (FlowTyped /\ Few)'
  BY NextIsTyped, StutterIsTyped, NextFew, StutterFew
<1> QED
  BY FlowStartsTyped, StartsFew, <1>1, FewFallSilent, PTL DEF FlowSpec

-----------------------------------------------------------------------------
(* Visits: the inductive invariant.  Requests are counted by where they    *)
(* are: those that are going to make a row are paid for like the rows      *)
(* themselves, and whoever has set the key of the session and is on the    *)
(* way to its row (Setters) accounts for a row that is not there yet.      *)

AtWork == {"seen", "exists", "setex", "lookup", "count", "insert", "record", "agent", "store", "source",
           "utm", "presence", "write"}
Uncounted == {"seen", "exists", "setex", "lookup", "count", "insert"}
Setting == {"lookup", "insert"}
AfterView == {"agent", "store", "source", "utm"}

\* How many requests have got to one of some points.
Standing(h, pcs) == {r \in Hits : h[r].pc \in pcs}
Number(pcs) == Cardinality(Standing(hit, pcs))
Is(pc, pcs) == IF pc \in pcs THEN 1 ELSE 0

Presences == [path : Paths, status : {"active", "idle"}, entered : 0..MaxClock, idle : 0..MaxClock,
              active : 0..MaxClock]

HitOK == [pc : AtWork \union {"idle", "done"}, kind : Telling \union {"none"}, path : Paths,
          status : {"active", "idle"}, read : {<<>>} \union Presences]
HitsOK == hit \in [Hits -> HitOK]
HistoryOK == touches \in Nat /\ lost \in Nat /\ crossings \in Nat /\ cuts \in Nat

Busy == Number(AtWork)
Early == Number(Uncounted)
Setters == Number(Setting)
Viewers == Number(AfterView)
Inserters == Number({"insert"})
Counters == Number({"count"})
Storers == Number({"store"})
Recorders == Number({"record"})

Crowd == Busy <= 1 + crossings
TurnedAway == IF visit = <<>> THEN lost = 0 ELSE lost + Inserters <= crossings
Browsers == agents > 0 => agents + Storers <= 1 + crossings
Missed ==
    cuts = 0 /\ visit = <<>> =>
        /\ touches + Early <= 1 + crossings
        /\ (touches > 0 \/ key \/ Counters > 0) => Setters > 0
Counted == visit # <<>> => visit.count <= touches /\ (cuts = 0 => touches <= visit.count + crossings)
Backed == Len(views) + Len(event_rows) + 2 * Recorders <= 2 * touches
Tagged == utms + Viewers <= Len(views)
Counts == Crowd /\ TurnedAway /\ Browsers /\ Missed /\ Counted /\ Backed /\ Tagged

StartsFirst ==
    /\ visit # <<>> => visit.started <= clock
    /\ crossings = 0 /\ cuts = 0 =>
          /\ Len(views) > 0 \/ Recorders > 0 => visit # <<>>
          /\ \A v \in DOMAIN views : visit.started <= views[v]

ReadIsSo == crossings = 0 => \A r \in Hits : Reached(r, "write") => hit[r].read = presence
PresenceIsPast ==
    presence # <<>> => presence.idle <= clock /\ presence.active <= clock /\ presence.entered <= clock

VisitInv ==
    /\ VisitTypeOK /\ HitsOK /\ HistoryOK
    /\ Counts /\ StartsFirst
    /\ ReadIsSo /\ PresenceIsPast /\ PresenceAgrees

-----------------------------------------------------------------------------
\* Requests are finite in number.
LEMMA AtFinite ==
    ASSUME NEW h, NEW pcs
    PROVE  IsFiniteSet(Standing(h, pcs)) /\ Cardinality(Standing(h, pcs)) \in Nat
  <1>1. Standing(h, pcs) \subseteq Hits
    BY DEF Standing
  <1> QED
    BY <1>1, FS_Subset, FS_CardinalityType, HitsAreFinite

\* Everybody else stays where they are.
OthersStay(h, g, r) == \A q \in Hits \ {r} : g[q].pc = h[q].pc

\* When one request moves, the number at some points changes by it alone.
LEMMA OneMoves ==
    ASSUME NEW h, NEW g, NEW r \in Hits, NEW pcs, OthersStay(h, g, r)
    PROVE  Cardinality(Standing(g, pcs)) = Cardinality(Standing(h, pcs)) + Is(g[r].pc, pcs) - Is(h[r].pc, pcs)
  <1> DEFINE others == {q \in Hits \ {r} : h[q].pc \in pcs}
  <1>1. IsFiniteSet(others) /\ Cardinality(others) \in Nat
    BY FS_Subset, FS_CardinalityType, HitsAreFinite
  <1>2. ASSUME NEW k, OthersStay(h, k, r)
        PROVE  Cardinality(Standing(k, pcs)) = Cardinality(others) + Is(k[r].pc, pcs)
    <2>1. CASE k[r].pc \in pcs
      <3>1. Standing(k, pcs) = others \union {r} /\ r \notin others
        BY <1>2, <2>1 DEF Standing, OthersStay
      <3>2. Cardinality(others \union {r}) = Cardinality(others) + 1
        BY <1>1, <3>1, FS_AddElement
      <3> QED
        BY <3>1, <3>2, <2>1 DEF Is
    <2>2. CASE k[r].pc \notin pcs
      <3>1. Standing(k, pcs) = others
        BY <1>2, <2>2 DEF Standing, OthersStay
      <3> QED
        BY <1>1, <3>1, <2>2 DEF Is
    <2> QED
      BY <2>1, <2>2
  <1> HIDE DEF others
  <1>3. Cardinality(Standing(g, pcs)) = Cardinality(others) + Is(g[r].pc, pcs)
    BY <1>2
  <1>4. Cardinality(Standing(h, pcs)) = Cardinality(others) + Is(h[r].pc, pcs)
    BY <1>2 DEF OthersStay
  <1> QED
    BY <1>1, <1>3, <1>4 DEF Is

\* Requests at different points add up.
LEMMA Apart ==
    ASSUME NEW h, NEW A, NEW B, NEW C, A \subseteq C, B \subseteq C, A \intersect B = {}
    PROVE  Cardinality(Standing(h, A)) + Cardinality(Standing(h, B)) <= Cardinality(Standing(h, C))
  <1>1. Standing(h, A) \union Standing(h, B) \subseteq Standing(h, C) /\ Standing(h, A) \intersect Standing(h, B) = {}
    BY DEF Standing
  <1>2. Cardinality(Standing(h, A) \union Standing(h, B)) =
            Cardinality(Standing(h, A)) + Cardinality(Standing(h, B))
                - Cardinality(Standing(h, A) \intersect Standing(h, B))
    BY AtFinite, FS_Union
  <1>3. Cardinality(Standing(h, A) \union Standing(h, B)) <= Cardinality(Standing(h, C))
    BY <1>1, AtFinite, FS_Subset
  <1>4. Cardinality(Standing(h, A) \intersect Standing(h, B)) = 0
    BY <1>1, FS_EmptySet
  <1>5. /\ Cardinality(Standing(h, A)) \in Nat /\ Cardinality(Standing(h, B)) \in Nat
       /\ Cardinality(Standing(h, C)) \in Nat
    BY AtFinite
  <1> QED
    BY <1>2, <1>3, <1>4, <1>5

\* The numbers the invariant speaks of.
LEMMA Numbers ==
    /\ Busy \in Nat /\ Early \in Nat /\ Setters \in Nat /\ Viewers \in Nat
    /\ Inserters \in Nat /\ Counters \in Nat /\ Storers \in Nat /\ Recorders \in Nat
    /\ Inserters <= Setters /\ Setters + Counters <= Early /\ Early + Viewers <= Busy
    /\ Storers <= Viewers /\ Recorders <= Busy
  <1>1. \A pcs : Number(pcs) \in Nat
    BY AtFinite DEF Number
  <1>2. Number({}) = 0
    <2>1. Standing(hit, {}) = {}
      BY DEF Standing
    <2> QED
      BY <2>1, FS_EmptySet DEF Number
  <1>3. Number({"insert"}) + Number({}) <= Number(Setting)
    BY Apart DEF Number, Setting
  <1>4. Number(Setting) + Number({"count"}) <= Number(Uncounted)
    BY Apart DEF Number, Setting, Uncounted
  <1>5. Number(Uncounted) + Number(AfterView) <= Number(AtWork)
    BY Apart DEF Number, Uncounted, AfterView, AtWork
  <1>6. Number({"store"}) + Number({}) <= Number(AfterView)
    BY Apart DEF Number, AfterView
  <1>7. Number({"record"}) + Number({}) <= Number(AtWork)
    BY Apart DEF Number, AtWork
  <1> QED
    BY <1>1, <1>2, <1>3, <1>4, <1>5, <1>6, <1>7
    DEF Busy, Early, Setters, Viewers, Inserters, Counters, Storers, Recorders

\* What becomes of a request that is over.
LEMMA NothingIsOne ==
    \A pc \in {"idle", "done"} : Nothing(pc) \in HitOK /\ Nothing(pc).pc = pc
  <1>1. Here \in Paths
    BY HitsAreFinite DEF Here
  <1> QED
    BY <1>1 DEF Nothing, HitOK

\* One request changes.
LEMMA OneChanges ==
    ASSUME HitsOK, NEW r \in Hits, NEW x \in HitOK, hit' = [hit EXCEPT ![r] = x]
    PROVE  /\ HitsOK' /\ hit'[r] = x /\ \A q \in Hits \ {r} : hit'[q] = hit[q]
           /\ \A pcs : Number(pcs)' = Number(pcs) + Is(x.pc, pcs) - Is(hit[r].pc, pcs)
  <1>1. HitsOK' /\ hit'[r] = x /\ \A q \in Hits \ {r} : hit'[q] = hit[q]
    BY DEF HitsOK, HitOK
  <1>2. ASSUME NEW pcs
        PROVE  Number(pcs)' = Number(pcs) + Is(x.pc, pcs) - Is(hit[r].pc, pcs)
    <2> DEFINE g == [hit EXCEPT ![r] = x]
    <2>1. g[r] = x
      BY DEF HitsOK, HitOK
    <2>2. OthersStay(hit, g, r)
      BY DEF HitsOK, HitOK, OthersStay
    <2> HIDE DEF g
    <2>4. Cardinality(Standing(g, pcs)) = Cardinality(Standing(hit, pcs)) + Is(g[r].pc, pcs) - Is(hit[r].pc, pcs)
      BY <2>2, OneMoves, Zenon
    <2>3. hit' = g
      BY DEF g
    <2> QED
      BY <2>1, <2>4, <2>3 DEF Number
  <1> QED
    BY <1>1, <1>2

\* What one step does to the numbers.
Tally(p, q) ==
    /\ Busy' = Busy + Is(q, AtWork) - Is(p, AtWork)
    /\ Early' = Early + Is(q, Uncounted) - Is(p, Uncounted)
    /\ Setters' = Setters + Is(q, Setting) - Is(p, Setting)
    /\ Viewers' = Viewers + Is(q, AfterView) - Is(p, AfterView)
    /\ Inserters' = Inserters + Is(q, {"insert"}) - Is(p, {"insert"})
    /\ Counters' = Counters + Is(q, {"count"}) - Is(p, {"count"})
    /\ Storers' = Storers + Is(q, {"store"}) - Is(p, {"store"})
    /\ Recorders' = Recorders + Is(q, {"record"}) - Is(p, {"record"})

\* A request gets on, or is over.
LEMMA Moving ==
    ASSUME HitsOK, NEW r \in Hits, NEW pc \in AtWork, MoveOn(r, pc)
    PROVE  /\ HitsOK' /\ hit'[r] = [hit[r] EXCEPT !.pc = pc] /\ \A q \in Hits \ {r} : hit'[q] = hit[q]
           /\ Tally(hit[r].pc, pc)
  <1> DEFINE x == [hit[r] EXCEPT !.pc = pc]
  <1>1. x \in HitOK /\ x.pc = pc
    BY DEF HitsOK, HitOK
  <1>2. hit' = [hit EXCEPT ![r] = x]
    BY DEF MoveOn
  <1> HIDE DEF x
  <1>3. /\ HitsOK' /\ hit'[r] = x /\ \A q \in Hits \ {r} : hit'[q] = hit[q]
        /\ \A pcs : Number(pcs)' = Number(pcs) + Is(x.pc, pcs) - Is(hit[r].pc, pcs)
    BY <1>1, <1>2, OneChanges
  <1>4. Tally(hit[r].pc, pc)
    BY <1>1, <1>3 DEF Tally, Busy, Early, Setters, Viewers, Inserters, Counters, Storers, Recorders
  <1> QED
    BY <1>3, <1>4 DEF x

LEMMA Closing ==
    ASSUME HitsOK, NEW r \in Hits, Close(r)
    PROVE  /\ HitsOK' /\ hit'[r].pc = "done" /\ \A q \in Hits \ {r} : hit'[q] = hit[q]
           /\ Tally(hit[r].pc, "done")
  <1>1. Nothing("done") \in HitOK /\ Nothing("done").pc = "done"
    BY NothingIsOne
  <1>2. hit' = [hit EXCEPT ![r] = Nothing("done")]
    BY DEF Close
  <1>3. /\ HitsOK' /\ hit'[r] = Nothing("done") /\ \A q \in Hits \ {r} : hit'[q] = hit[q]
        /\ \A pcs : Number(pcs)' = Number(pcs) + Is(Nothing("done").pc, pcs) - Is(hit[r].pc, pcs)
    BY <1>1, <1>2, OneChanges
  <1> QED
    BY <1>1, <1>3 DEF Tally, Busy, Early, Setters, Viewers, Inserters, Counters, Storers, Recorders

\* Nothing is in progress when nobody is.
LEMMA QuietMeansNone ==
    ASSUME HitsOK
    PROVE  Still <=> Busy = 0
  <1>1. Still <=> Standing(hit, AtWork) = {}
    BY DEF HitsOK, HitOK, Still, UnderWay, Standing, AtWork
  <1> QED
    BY <1>1, AtFinite, FS_EmptySet DEF Number, Busy

\* A request comes in, and crosses with those that are under way.
LEMMA Receiving ==
    ASSUME HitsOK, NEW r \in Hits, NEW kind, NEW path \in Paths, NEW status \in {"active", "idle"}, NEW tracked,
           NEW pc \in {"seen", "exists"}, Receive(r, kind, path, status, tracked, pc)
    PROVE  /\ HitsOK' /\ hit'[r].pc \in {pc, "done"} /\ \A q \in Hits \ {r} : hit'[q] = hit[q]
           /\ Tally("idle", hit'[r].pc)
           /\ crossings' = crossings + IF Busy = 0 THEN 0 ELSE 1
  <1> DEFINE x == IF tracked
                  THEN [pc |-> pc, kind |-> kind, path |-> path, status |-> status, read |-> <<>>]
                  ELSE Nothing("done")
  <1>1. kind \in Telling
    BY HitsAreFinite DEF Receive
  <1>2. x \in HitOK /\ x.pc \in {pc, "done"}
    BY <1>1, NothingIsOne DEF HitOK, AtWork
  <1>3. hit[r].pc = "idle" /\ hit' = [hit EXCEPT ![r] = x]
    BY DEF Receive, Reached
  <1> HIDE DEF x
  <1>4. /\ HitsOK' /\ hit'[r] = x /\ \A q \in Hits \ {r} : hit'[q] = hit[q]
        /\ \A pcs : Number(pcs)' = Number(pcs) + Is(x.pc, pcs) - Is(hit[r].pc, pcs)
    BY <1>2, <1>3, OneChanges
  <1>5. Tally("idle", hit'[r].pc)
    BY <1>3, <1>4 DEF Tally, Busy, Early, Setters, Viewers, Inserters, Counters, Storers, Recorders
  <1> QED
    BY <1>2, <1>4, <1>5, QuietMeansNone DEF Receive

SessionRow == [count : Nat \ {0}, started : Times, ended : {0} \union Times]

\* A row is something.
LEMMA RowIsSomething == \A row \in SessionRow : row # <<>>
  BY DEF Times, SessionRow

\* The UPDATE of Count.
LEMMA RowCounted ==
    ASSUME VisitInv, visit # <<>>, visit' = [visit EXCEPT !.count = @ + 1, !.ended = clock]
    PROVE  /\ visit' \in SessionRow /\ visit' # <<>>
           /\ visit.count \in Nat /\ visit'.count = visit.count + 1 /\ visit'.started = visit.started
  <1>1. visit \in SessionRow /\ clock \in Times
    BY DEF VisitInv, VisitTypeOK, SessionRow
  <1>2. visit' = [count |-> visit.count + 1, started |-> visit.started, ended |-> clock]
    BY <1>1 DEF SessionRow
  <1>3. /\ visit' \in SessionRow /\ visit'.count = visit.count + 1 /\ visit'.started = visit.started
        /\ visit.count \in Nat
    BY <1>1, <1>2 DEF SessionRow
  <1> QED
    BY <1>3, RowIsSomething

\* What the counts depend on besides the requests.
countedVars == <<key, visit, views, event_rows, agents, utms, touches, lost, cuts, crossings>>

CountsOK ==
    /\ HitsOK /\ HistoryOK /\ Counts
    /\ agents \in Nat /\ utms \in Nat /\ Len(views) \in Nat /\ Len(event_rows) \in Nat
    /\ visit = <<>> \/ (visit.count \in Nat /\ visit # <<>>)
    /\ key \in BOOLEAN

\* The steps that only take a request from one point to another.
OnlyMoves(p, q) ==
    \/ p = "seen" /\ q = "presence"
    \/ p = "seen" /\ q = "exists"
    \/ p = "exists" /\ q = "count" /\ key
    \/ p = "exists" /\ q = "setex" /\ ~key
    \/ p = "lookup" /\ q = "insert" /\ visit = <<>>
    \/ p = "lookup" /\ q = "count" /\ visit # <<>>
    \/ p = "agent" /\ q = "source" /\ agents > 0
    \/ p = "agent" /\ q = "store" /\ agents = 0
    \/ p = "source" /\ q = "utm"
    \/ p = "source" /\ q = "done"
    \/ p = "presence" /\ q = "write"
    \/ p = "write" /\ q = "done"

\* A request that moves on keeps the counts.
LEMMA MovesKeepCounts ==
    ASSUME CountsOK, NEW p, NEW q, OnlyMoves(p, q), Tally(p, q), UNCHANGED countedVars
    PROVE  Counts'
  <1>1. CASE p = "seen" /\ q = "presence"
    BY <1>1, Numbers
    DEF CountsOK, countedVars, Tally, Is, AtWork, Uncounted, Setting, AfterView, HistoryOK, Counts, Crowd,
        TurnedAway, Browsers, Missed, Counted, Backed, Tagged
  <1>2. CASE p = "seen" /\ q = "exists"
    BY <1>2, Numbers
    DEF CountsOK, countedVars, Tally, Is, AtWork, Uncounted, Setting, AfterView, HistoryOK, Counts, Crowd,
        TurnedAway, Browsers, Missed, Counted, Backed, Tagged
  <1>3. CASE p = "exists" /\ q = "count" /\ key
    BY <1>3, Numbers
    DEF CountsOK, countedVars, Tally, Is, AtWork, Uncounted, Setting, AfterView, HistoryOK, Counts, Crowd,
        TurnedAway, Browsers, Missed, Counted, Backed, Tagged
  <1>4. CASE p = "exists" /\ q = "setex" /\ ~key
    BY <1>4, Numbers
    DEF CountsOK, countedVars, Tally, Is, AtWork, Uncounted, Setting, AfterView, HistoryOK, Counts, Crowd,
        TurnedAway, Browsers, Missed, Counted, Backed, Tagged
  <1>5. CASE p = "lookup" /\ q = "insert" /\ visit = <<>>
    BY <1>5, Numbers
    DEF CountsOK, countedVars, Tally, Is, AtWork, Uncounted, Setting, AfterView, HistoryOK, Counts, Crowd,
        TurnedAway, Browsers, Missed, Counted, Backed, Tagged
  <1>6. CASE p = "lookup" /\ q = "count" /\ visit # <<>>
    BY <1>6, Numbers
    DEF CountsOK, countedVars, Tally, Is, AtWork, Uncounted, Setting, AfterView, HistoryOK, Counts, Crowd,
        TurnedAway, Browsers, Missed, Counted, Backed, Tagged
  <1>7. CASE p = "agent" /\ q = "source" /\ agents > 0
    BY <1>7, Numbers
    DEF CountsOK, countedVars, Tally, Is, AtWork, Uncounted, Setting, AfterView, HistoryOK, Counts, Crowd,
        TurnedAway, Browsers, Missed, Counted, Backed, Tagged
  <1>8. CASE p = "agent" /\ q = "store" /\ agents = 0
    BY <1>8, Numbers
    DEF CountsOK, countedVars, Tally, Is, AtWork, Uncounted, Setting, AfterView, HistoryOK, Counts, Crowd,
        TurnedAway, Browsers, Missed, Counted, Backed, Tagged
  <1>9. CASE p = "source" /\ q = "utm"
    BY <1>9, Numbers
    DEF CountsOK, countedVars, Tally, Is, AtWork, Uncounted, Setting, AfterView, HistoryOK, Counts, Crowd,
        TurnedAway, Browsers, Missed, Counted, Backed, Tagged
  <1>10. CASE p = "source" /\ q = "done"
    BY <1>10, Numbers
    DEF CountsOK, countedVars, Tally, Is, AtWork, Uncounted, Setting, AfterView, HistoryOK, Counts, Crowd,
        TurnedAway, Browsers, Missed, Counted, Backed, Tagged
  <1>11. CASE p = "presence" /\ q = "write"
    BY <1>11, Numbers
    DEF CountsOK, countedVars, Tally, Is, AtWork, Uncounted, Setting, AfterView, HistoryOK, Counts, Crowd,
        TurnedAway, Browsers, Missed, Counted, Backed, Tagged
  <1>12. CASE p = "write" /\ q = "done"
    BY <1>12, Numbers
    DEF CountsOK, countedVars, Tally, Is, AtWork, Uncounted, Setting, AfterView, HistoryOK, Counts, Crowd,
        TurnedAway, Browsers, Missed, Counted, Backed, Tagged
  <1> QED
    BY <1>1, <1>2, <1>3, <1>4, <1>5, <1>6, <1>7, <1>8, <1>9, <1>10, <1>11, <1>12 DEF OnlyMoves

\* A request that comes in.
LEMMA ComingKeepsCounts ==
    ASSUME CountsOK, NEW q \in {"seen", "exists", "done"}, Tally("idle", q),
           crossings' = crossings + IF Busy = 0 THEN 0 ELSE 1,
           UNCHANGED <<key, visit, views, event_rows, agents, utms, touches, lost, cuts>>
    PROVE  Counts'
  <1>1. CASE q = "seen"
    <2>1. CASE Busy = 0
      BY <1>1, <2>1, Numbers
      DEF CountsOK, Tally, Is, AtWork, Uncounted, Setting, AfterView, HistoryOK, Counts, Crowd, TurnedAway,
          Browsers, Missed, Counted, Backed, Tagged
    <2>2. CASE Busy # 0
      BY <1>1, <2>2, Numbers
      DEF CountsOK, Tally, Is, AtWork, Uncounted, Setting, AfterView, HistoryOK, Counts, Crowd, TurnedAway,
          Browsers, Missed, Counted, Backed, Tagged
    <2> QED
      BY <2>1, <2>2
  <1>2. CASE q = "exists"
    <2>1. CASE Busy = 0
      BY <1>2, <2>1, Numbers
      DEF CountsOK, Tally, Is, AtWork, Uncounted, Setting, AfterView, HistoryOK, Counts, Crowd, TurnedAway,
          Browsers, Missed, Counted, Backed, Tagged
    <2>2. CASE Busy # 0
      BY <1>2, <2>2, Numbers
      DEF CountsOK, Tally, Is, AtWork, Uncounted, Setting, AfterView, HistoryOK, Counts, Crowd, TurnedAway,
          Browsers, Missed, Counted, Backed, Tagged
    <2> QED
      BY <2>1, <2>2
  <1>3. CASE q = "done"
    <2>1. CASE Busy = 0
      BY <1>3, <2>1, Numbers
      DEF CountsOK, Tally, Is, AtWork, Uncounted, Setting, AfterView, HistoryOK, Counts, Crowd, TurnedAway,
          Browsers, Missed, Counted, Backed, Tagged
    <2>2. CASE Busy # 0
      BY <1>3, <2>2, Numbers
      DEF CountsOK, Tally, Is, AtWork, Uncounted, Setting, AfterView, HistoryOK, Counts, Crowd, TurnedAway,
          Browsers, Missed, Counted, Backed, Tagged
    <2> QED
      BY <2>1, <2>2
  <1> QED
    BY <1>1, <1>2, <1>3

\* A request that has counted for the session.
LEMMA CountingKeepsCounts ==
    ASSUME CountsOK, NEW q \in {"record", "presence"}, touches' = touches + 1,
           UNCHANGED <<key, views, event_rows, agents, utms, lost, cuts, crossings>>,
           \/ Tally("count", q) /\ visit = <<>> /\ visit' = visit
           \/ Tally("count", q) /\ visit # <<>> /\ visit' # <<>> /\ visit'.count = visit.count + 1
           \/ Tally("insert", q) /\ visit = <<>> /\ visit' # <<>> /\ visit'.count = 1
    PROVE  Counts'
  <1>0. Counters' \in Nat
    BY AtFinite DEF Counters, Number
  <1>1. CASE Tally("count", q) /\ visit = <<>> /\ visit' = visit
    <2>1. CASE q = "record"
      BY <1>0, <1>1, <2>1, Numbers
      DEF CountsOK, Tally, Is, AtWork, Uncounted, Setting, AfterView, HistoryOK, Counts, Crowd, TurnedAway,
          Browsers, Missed, Counted, Backed, Tagged
    <2>2. CASE q = "presence"
      BY <1>0, <1>1, <2>2, Numbers
      DEF CountsOK, Tally, Is, AtWork, Uncounted, Setting, AfterView, HistoryOK, Counts, Crowd, TurnedAway,
          Browsers, Missed, Counted, Backed, Tagged
    <2> QED
      BY <2>1, <2>2
  <1>2. CASE Tally("count", q) /\ visit # <<>> /\ visit' # <<>> /\ visit'.count = visit.count + 1
    <2>1. CASE q = "record"
      BY <1>0, <1>2, <2>1, Numbers
      DEF CountsOK, Tally, Is, AtWork, Uncounted, Setting, AfterView, HistoryOK, Counts, Crowd, TurnedAway,
          Browsers, Missed, Counted, Backed, Tagged
    <2>2. CASE q = "presence"
      BY <1>0, <1>2, <2>2, Numbers
      DEF CountsOK, Tally, Is, AtWork, Uncounted, Setting, AfterView, HistoryOK, Counts, Crowd, TurnedAway,
          Browsers, Missed, Counted, Backed, Tagged
    <2> QED
      BY <2>1, <2>2
  <1>3. CASE Tally("insert", q) /\ visit = <<>> /\ visit' # <<>> /\ visit'.count = 1
    <2>1. CASE q = "record"
      BY <1>0, <1>3, <2>1, Numbers
      DEF CountsOK, Tally, Is, AtWork, Uncounted, Setting, AfterView, HistoryOK, Counts, Crowd, TurnedAway,
          Browsers, Missed, Counted, Backed, Tagged
    <2>2. CASE q = "presence"
      BY <1>0, <1>3, <2>2, Numbers
      DEF CountsOK, Tally, Is, AtWork, Uncounted, Setting, AfterView, HistoryOK, Counts, Crowd, TurnedAway,
          Browsers, Missed, Counted, Backed, Tagged
    <2> QED
      BY <2>1, <2>2
  <1> QED
    BY <1>1, <1>2, <1>3

\* Fewer fit where more did.
LEMMA Fewer ==
    \A few, many, others, bound \in Nat :
        few <= many => /\ many <= 1 + bound => few <= 1 + bound
                       /\ others + many <= bound => others + few <= bound
                       /\ others + many <= 1 + bound => others + few <= 1 + bound
  OBVIOUS

\* As far as the numbers go, a step is an arithmetic exercise.
LEMMA CountsKept ==
    ASSUME VisitInv, [VisitNext]_visitVars
    PROVE  Counts'
  <1>1. CountsOK
    BY RowIsSomething DEF CountsOK, VisitInv, VisitTypeOK, SessionRow
  <1>2. CASE UNCHANGED visitVars
    BY <1>1, <1>2
    DEF CountsOK, Counts, Crowd, TurnedAway, Browsers, Missed, Counted, Backed, Tagged, visitVars, Number, Busy,
        Early, Setters, Viewers, Inserters, Counters, Storers, Recorders
  <1>3. ASSUME NEW r \in Hits, NEW kind, NEW path \in Paths, NEW status \in {"active", "idle"}, NEW tracked,
               NEW pc \in {"seen", "exists"}, Receive(r, kind, path, status, tracked, pc)
        PROVE  Counts'
    <2>1. /\ Tally("idle", hit'[r].pc) /\ hit'[r].pc \in {"seen", "exists", "done"}
          /\ crossings' = crossings + IF Busy = 0 THEN 0 ELSE 1
      BY <1>1, <1>3, Receiving DEF CountsOK
    <2> QED
      BY <1>1, <1>3, <2>1, ComingKeepsCounts DEF Receive, visitRows
  <1>4. ASSUME NEW r \in Hits, NEW p, NEW q \in AtWork, hit[r].pc = p, MoveOn(r, q),
               OnlyMoves(p, q),
               UNCHANGED countedVars
        PROVE  Counts'
    <2>1. Tally(p, q)
      BY <1>1, <1>4, Moving DEF CountsOK
    <2> QED
      BY <1>1, <1>4, <2>1, MovesKeepCounts
  <1>5. ASSUME NEW r \in Hits, VisitStep(r)
        PROVE  Counts'
    <2>1. CASE KeyAlive(r)
      <3>1. CASE key
        <4>1. MoveOn(r, "presence") /\ hit[r].pc = "seen" /\ UNCHANGED countedVars
          BY <2>1, <3>1 DEF KeyAlive, Reached, visitHistory, visitRows, countedVars
        <4>2. OnlyMoves("seen", "presence")
          BY <1>1, <3>1 DEF OnlyMoves, CountsOK
        <4> QED
          BY <1>4, <4>1, <4>2 DEF AtWork
      <3>2. CASE ~key
        <4>1. MoveOn(r, "exists") /\ hit[r].pc = "seen" /\ UNCHANGED countedVars
          BY <2>1, <3>2 DEF KeyAlive, Reached, visitHistory, visitRows, countedVars
        <4>2. OnlyMoves("seen", "exists")
          BY <1>1, <3>2 DEF OnlyMoves, CountsOK
        <4> QED
          BY <1>4, <4>1, <4>2 DEF AtWork
      <3> QED
        BY <3>1, <3>2
    <2>2. CASE Exists(r)
      <3>1. CASE key
        <4>1. MoveOn(r, "count") /\ hit[r].pc = "exists" /\ UNCHANGED countedVars
          BY <2>2, <3>1 DEF Exists, Reached, visitHistory, visitRows, countedVars
        <4>2. OnlyMoves("exists", "count")
          BY <1>1, <3>1 DEF OnlyMoves, CountsOK
        <4> QED
          BY <1>4, <4>1, <4>2 DEF AtWork
      <3>2. CASE ~key
        <4>1. MoveOn(r, "setex") /\ hit[r].pc = "exists" /\ UNCHANGED countedVars
          BY <2>2, <3>2 DEF Exists, Reached, visitHistory, visitRows, countedVars
        <4>2. OnlyMoves("exists", "setex")
          BY <1>1, <3>2 DEF OnlyMoves, CountsOK
        <4> QED
          BY <1>4, <4>1, <4>2 DEF AtWork
      <3> QED
        BY <3>1, <3>2
    <2>3. CASE Lookup(r)
      <3>1. CASE visit = <<>>
        <4>1. MoveOn(r, "insert") /\ hit[r].pc = "lookup" /\ UNCHANGED countedVars
          BY <2>3, <3>1 DEF Lookup, Reached, visitHistory, visitRows, countedVars
        <4>2. OnlyMoves("lookup", "insert")
          BY <1>1, <3>1 DEF OnlyMoves, CountsOK
        <4> QED
          BY <1>4, <4>1, <4>2 DEF AtWork
      <3>2. CASE visit # <<>>
        <4>1. MoveOn(r, "count") /\ hit[r].pc = "lookup" /\ UNCHANGED countedVars
          BY <2>3, <3>2 DEF Lookup, Reached, visitHistory, visitRows, countedVars
        <4>2. OnlyMoves("lookup", "count")
          BY <1>1, <3>2 DEF OnlyMoves, CountsOK
        <4> QED
          BY <1>4, <4>1, <4>2 DEF AtWork
      <3> QED
        BY <3>1, <3>2
    <2>4. CASE LookForAgent(r)
      <3>1. CASE agents > 0
        <4>1. MoveOn(r, "source") /\ hit[r].pc = "agent" /\ UNCHANGED countedVars
          BY <2>4, <3>1 DEF LookForAgent, Reached, visitHistory, visitRows, countedVars
        <4>2. OnlyMoves("agent", "source")
          BY <1>1, <3>1 DEF OnlyMoves, CountsOK
        <4> QED
          BY <1>4, <4>1, <4>2 DEF AtWork
      <3>2. CASE ~(agents > 0)
        <4>1. MoveOn(r, "store") /\ hit[r].pc = "agent" /\ UNCHANGED countedVars
          BY <2>4, <3>2 DEF LookForAgent, Reached, visitHistory, visitRows, countedVars
        <4>2. OnlyMoves("agent", "store")
          BY <1>1, <3>2 DEF OnlyMoves, CountsOK
        <4> QED
          BY <1>4, <4>1, <4>2 DEF AtWork
      <3> QED
        BY <3>1, <3>2
    <2>5. CASE SetKey(r)
      <3>1. Tally("setex", "lookup")
        <4>1. MoveOn(r, "lookup") /\ hit[r].pc = "setex"
          BY <2>5 DEF SetKey, Reached
        <4> QED
          BY <1>1, <4>1, Moving DEF CountsOK, AtWork
      <3>2. key' /\ UNCHANGED <<visit, views, event_rows, agents, utms, touches, lost, cuts, crossings>>
        BY <2>5 DEF SetKey, visitHistory, visitRows
      <3> QED
        BY <1>1, <3>1, <3>2, Numbers
        DEF CountsOK, Tally, Is, AtWork, Uncounted, Setting, AfterView, HistoryOK, Counts, Crowd, TurnedAway,
            Browsers, Missed, Counted, Backed, Tagged
    <2>6. CASE CountHit(r)
      <3> DEFINE q == IF hit[r].kind = "beat" THEN "presence" ELSE "record"
      <3>1. /\ MoveOn(r, q) /\ hit[r].pc = "count" /\ touches' = touches + 1 /\ q \in {"record", "presence"}
            /\ UNCHANGED <<key, views, event_rows, agents, utms, lost, cuts, crossings>>
        BY <2>6 DEF CountHit, AfterSession, Reached
      <3> HIDE DEF q
      <3>2. Tally("count", q)
        BY <1>1, <3>1, Moving DEF CountsOK, AtWork
      <3>3. CASE visit = <<>>
        <4>1. visit' = visit
          BY <2>6, <3>3 DEF CountHit
        <4> QED
          BY <1>1, <3>1, <3>2, <3>3, <4>1, CountingKeepsCounts
      <3>4. CASE visit # <<>>
        <4>1. visit' = [visit EXCEPT !.count = @ + 1, !.ended = clock]
          BY <2>6, <3>4 DEF CountHit
        <4>2. visit'.count = visit.count + 1 /\ visit' # <<>>
          BY <3>4, <4>1, RowCounted
        <4> QED
          BY <1>1, <3>1, <3>2, <3>4, <4>2, CountingKeepsCounts
      <3> QED
        BY <3>3, <3>4
    <2>7. CASE InsertSession(r)
      <3>1. CASE visit = <<>>
        <4> DEFINE q == IF hit[r].kind = "beat" THEN "presence" ELSE "record"
        <4>1. /\ MoveOn(r, q) /\ hit[r].pc = "insert" /\ touches' = touches + 1 /\ q \in {"record", "presence"}
              /\ UNCHANGED <<key, views, event_rows, agents, utms, lost, cuts, crossings>>
              /\ visit' = [count |-> 1, started |-> clock, ended |-> 0]
          BY <2>7, <3>1 DEF InsertSession, AfterSession, Reached
        <4> HIDE DEF q
        <4>2. Tally("insert", q)
          BY <1>1, <4>1, Moving DEF CountsOK, AtWork
        <4>3. visit' \in SessionRow /\ visit'.count = 1
          BY <4>1 DEF VisitInv, VisitTypeOK, SessionRow
        <4>4. visit' # <<>>
          BY <4>3, RowIsSomething
        <4> QED
          BY <1>1, <3>1, <4>1, <4>2, <4>3, <4>4, CountingKeepsCounts
      <3>2. CASE visit # <<>>
        <4>1. Close(r) /\ hit[r].pc = "insert"
          BY <2>7, <3>2 DEF InsertSession, Reached
        <4>2. Tally("insert", "done")
          BY <1>1, <4>1, Closing DEF CountsOK
        <4>3. lost' = lost + 1 /\ UNCHANGED <<key, visit, touches, views, event_rows, agents, utms, cuts, crossings>>
          BY <2>7, <3>2 DEF InsertSession
        <4> QED
          BY <1>1, <3>2, <4>2, <4>3, Numbers
          DEF CountsOK, Tally, Is, AtWork, Uncounted, Setting, AfterView, HistoryOK, Counts, Crowd, TurnedAway,
              Browsers, Missed, Counted, Backed, Tagged
      <3> QED
        BY <3>1, <3>2
    <2>8. CASE RecordView(r)
      <3>1. Tally("record", "agent")
        <4>1. MoveOn(r, "agent") /\ hit[r].pc = "record"
          BY <2>8 DEF RecordView, Reached
        <4> QED
          BY <1>1, <4>1, Moving DEF CountsOK, AtWork
      <3>2. /\ Len(views') = Len(views) + 1
            /\ UNCHANGED <<key, visit, event_rows, agents, utms, touches, lost, cuts, crossings>>
        BY <2>8 DEF RecordView, visitHistory, visitRows, VisitInv, VisitTypeOK
      <3> QED
        BY <1>1, <3>1, <3>2, Numbers
        DEF CountsOK, Tally, Is, AtWork, Uncounted, Setting, AfterView, HistoryOK, Counts, Crowd, TurnedAway,
            Browsers, Missed, Counted, Backed, Tagged
    <2>9. CASE RecordViews(r)
      <3>1. Tally("record", "done")
        <4>1. Close(r) /\ hit[r].pc = "record"
          BY <2>9 DEF RecordViews, Reached
        <4> QED
          BY <1>1, <4>1, Closing DEF CountsOK
      <3>2. /\ Len(views') = Len(views) + 2
            /\ UNCHANGED <<key, visit, event_rows, agents, utms, touches, lost, cuts, crossings>>
        BY <2>9 DEF RecordViews, visitHistory, visitRows, VisitInv, VisitTypeOK
      <3> QED
        BY <1>1, <3>1, <3>2, Numbers
        DEF CountsOK, Tally, Is, AtWork, Uncounted, Setting, AfterView, HistoryOK, Counts, Crowd, TurnedAway,
            Browsers, Missed, Counted, Backed, Tagged
    <2>10. CASE RecordEvent(r)
      <3>1. Tally("record", "done")
        <4>1. Close(r) /\ hit[r].pc = "record"
          BY <2>10 DEF RecordEvent, Reached
        <4> QED
          BY <1>1, <4>1, Closing DEF CountsOK
      <3>2. /\ Len(event_rows') = Len(event_rows) + 1
            /\ UNCHANGED <<key, visit, views, agents, utms, touches, lost, cuts, crossings>>
        BY <2>10 DEF RecordEvent, visitHistory, visitRows, VisitInv, VisitTypeOK
      <3> QED
        BY <1>1, <3>1, <3>2, Numbers
        DEF CountsOK, Tally, Is, AtWork, Uncounted, Setting, AfterView, HistoryOK, Counts, Crowd, TurnedAway,
            Browsers, Missed, Counted, Backed, Tagged
    <2>11. CASE StoreAgent(r)
      <3>1. Tally("store", "source")
        <4>1. MoveOn(r, "source") /\ hit[r].pc = "store"
          BY <2>11 DEF StoreAgent, Reached
        <4> QED
          BY <1>1, <4>1, Moving DEF CountsOK, AtWork
      <3>2. agents' = agents + 1 /\ UNCHANGED <<key, visit, views, event_rows, utms, touches, lost, cuts, crossings>>
        BY <2>11 DEF StoreAgent, visitHistory, visitRows
      <3> QED
        BY <1>1, <3>1, <3>2, Numbers
        DEF CountsOK, Tally, Is, AtWork, Uncounted, Setting, AfterView, HistoryOK, Counts, Crowd, TurnedAway,
            Browsers, Missed, Counted, Backed, Tagged
    <2>12. CASE StoreReferral(r)
      <3>1. hit[r].pc = "source" /\ UNCHANGED countedVars
        BY <2>12 DEF StoreReferral, Reached, visitHistory, countedVars
      <3>2. CASE MoveOn(r, "utm")
        <4>1. OnlyMoves("source", "utm")
          BY DEF OnlyMoves
        <4> QED
          BY <1>4, <3>1, <3>2, <4>1 DEF AtWork
      <3>3. CASE Close(r)
        <4>1. Tally("source", "done")
          BY <1>1, <3>1, <3>3, Closing DEF CountsOK
        <4>2. OnlyMoves("source", "done")
          BY DEF OnlyMoves
        <4> QED
          BY <1>1, <3>1, <4>1, <4>2, MovesKeepCounts
      <3> QED
        BY <2>12, <3>2, <3>3 DEF StoreReferral
    <2>13. CASE StoreUtm(r)
      <3>1. Tally("utm", "done")
        <4>1. Close(r) /\ hit[r].pc = "utm"
          BY <2>13 DEF StoreUtm, Reached
        <4> QED
          BY <1>1, <4>1, Closing DEF CountsOK
      <3>2. /\ utms' \in {utms, utms + 1}
            /\ UNCHANGED <<key, visit, views, event_rows, agents, touches, lost, cuts, crossings>>
        BY <2>13 DEF StoreUtm, visitHistory, visitRows, CountsOK, VisitInv, VisitTypeOK
      <3> QED
        BY <1>1, <3>1, <3>2, Numbers
        DEF CountsOK, Tally, Is, AtWork, Uncounted, Setting, AfterView, HistoryOK, Counts, Crowd, TurnedAway,
            Browsers, Missed, Counted, Backed, Tagged
    <2>14. CASE ReadPresence(r)
      <3> DEFINE x == [hit[r] EXCEPT !.pc = "write", !.read = presence]
      <3>1. hit[r] \in HitOK /\ presence \in {<<>>} \union Presences
        BY <1>1, <2>14 DEF CountsOK, HitsOK, HitOK, VisitInv, VisitTypeOK, Presences
      <3>2. x \in HitOK /\ x.pc = "write"
        BY <3>1 DEF HitOK, AtWork
      <3>3. hit[r].pc = "presence" /\ hit' = [hit EXCEPT ![r] = x] /\ UNCHANGED countedVars
        BY <2>14 DEF ReadPresence, Reached, visitHistory, visitRows, countedVars
      <3> HIDE DEF x
      <3>4. \A pcs : Number(pcs)' = Number(pcs) + Is(x.pc, pcs) - Is(hit[r].pc, pcs)
        BY <1>1, <3>2, <3>3, OneChanges DEF CountsOK
      <3>5. Tally("presence", "write")
        BY <3>2, <3>3, <3>4 DEF Tally, Busy, Early, Setters, Viewers, Inserters, Counters, Storers, Recorders
      <3>6. OnlyMoves("presence", "write")
        BY DEF OnlyMoves
      <3> QED
        BY <1>1, <3>3, <3>5, <3>6, MovesKeepCounts
    <2>15. CASE WritePresence(r)
      <3>1. Close(r) /\ hit[r].pc = "write" /\ UNCHANGED countedVars
        BY <2>15 DEF WritePresence, Reached, visitHistory, visitRows, countedVars
      <3>2. Tally("write", "done")
        BY <1>1, <3>1, Closing DEF CountsOK
      <3>3. OnlyMoves("write", "done")
        BY DEF OnlyMoves
      <3> QED
        BY <1>1, <3>1, <3>2, <3>3, MovesKeepCounts
    <2>16. CASE Cut(r)
      <3>1. /\ Close(r) /\ cuts' = cuts + 1
            /\ UNCHANGED <<key, visit, views, event_rows, agents, utms, touches, lost, crossings>>
        BY <2>16 DEF Cut, visitRows
      <3>2. Tally(hit[r].pc, "done")
        BY <1>1, <3>1, Closing DEF CountsOK
      <3>3. /\ Busy' <= Busy /\ Inserters' <= Inserters /\ Storers' <= Storers
            /\ Viewers' <= Viewers /\ Recorders' <= Recorders
        BY <3>2, Numbers DEF Tally, Is, AtWork, AfterView
      <3>4. Busy' \in Nat /\ Inserters' \in Nat /\ Storers' \in Nat /\ Viewers' \in Nat /\ Recorders' \in Nat
        BY AtFinite DEF Busy, Inserters, Storers, Viewers, Recorders, Number
      <3>5. cuts' # 0
        BY <1>1, <3>1 DEF CountsOK, HistoryOK
      <3>6. /\ Crowd /\ TurnedAway /\ Browsers /\ Counted /\ Backed /\ Tagged
            /\ touches \in Nat /\ lost \in Nat /\ crossings \in Nat /\ agents \in Nat /\ utms \in Nat
            /\ Len(views) \in Nat /\ Len(event_rows) \in Nat
        BY <1>1 DEF CountsOK, HistoryOK, Counts
      <3>7. UNCHANGED <<visit, views, event_rows, agents, utms, touches, lost, crossings>>
        BY <3>1
      <3>8. Crowd' /\ Browsers'
        BY <3>3, <3>4, <3>6, <3>7, Numbers, Fewer DEF Crowd, Browsers
      <3>9. Backed' /\ Tagged'
        BY <3>3, <3>4, <3>6, <3>7, Numbers DEF Backed, Tagged
      <3>10. TurnedAway'
        BY <3>3, <3>4, <3>6, <3>7, Numbers, Fewer DEF TurnedAway
      <3>11. Missed' /\ Counted'
        BY <3>5, <3>6, <3>7 DEF Missed, Counted
      <3> QED
        BY <3>8, <3>9, <3>10, <3>11 DEF Counts
    <2> QED
      BY <1>5, <2>1, <2>2, <2>3, <2>4, <2>5, <2>6, <2>7, <2>8, <2>9, <2>10, <2>11, <2>12, <2>13, <2>14, <2>15,
          <2>16
      DEF VisitStep
  <1>6. ASSUME UNCHANGED <<hit, visit, views, event_rows, agents, utms, touches, lost, cuts>>,
               (key' = key \/ key' = FALSE),
               crossings' \in {crossings, crossings + 1}
        PROVE  Counts'
    <2>1. UNCHANGED <<Busy, Early, Setters, Viewers, Inserters, Counters, Storers, Recorders>>
      BY <1>6 DEF Number, Busy, Early, Setters, Viewers, Inserters, Counters, Storers, Recorders
    <2>0. UNCHANGED <<visit, views, event_rows, agents, utms, touches, lost, cuts>> /\ (key' => key)
      BY <1>6
    <2>2. CASE crossings' = crossings
      BY <1>1, <2>0, <2>1, <2>2, Numbers
      DEF CountsOK, HistoryOK, Counts, Crowd, TurnedAway, Browsers, Missed, Counted, Backed, Tagged
    <2>3. CASE crossings' = crossings + 1
      BY <1>1, <2>0, <2>1, <2>3, Numbers
      DEF CountsOK, HistoryOK, Counts, Crowd, TurnedAway, Browsers, Missed, Counted, Backed, Tagged
    <2> QED
      BY <1>6, <2>2, <2>3
  <1>7. CASE Tick \/ KeyLapses \/ AnswerBanner \/ AnswerRecord
    BY <1>1, <1>6, <1>7 DEF CountsOK, Tick, KeyLapses, AnswerBanner, AnswerRecord, visitHistory, visitRows
  <1>8. CASE PresenceLapses
    BY <1>1, <1>6, <1>8 DEF CountsOK, PresenceLapses, HistoryOK, visitRows
  <1>9. ASSUME NEW r \in Hits, BeginVisit(r) \/ BeginView(r) \/ BeginViews(r) \/ BeginEvent(r)
        PROVE  Counts'
    <2>1. Here \in Paths
      BY HitsAreFinite DEF Here
    <2> QED
      BY <1>3, <1>9, <2>1 DEF BeginVisit, BeginView, BeginViews, BeginEvent
  <1>10. ASSUME NEW r \in Hits, NEW path \in Paths, NEW status \in {"active", "idle"}, BeginBeat(r, path, status)
         PROVE  Counts'
    BY <1>3, <1>10 DEF BeginBeat
  <1> QED
    BY <1>2, <1>5, <1>7, <1>8, <1>9, <1>10 DEF VisitNext

-----------------------------------------------------------------------------
(* The types *)

\* What is known of the numbers at the outset.
LEMMA InvCounts == ASSUME VisitInv PROVE CountsOK
  BY RowIsSomething DEF CountsOK, VisitInv, VisitTypeOK, SessionRow

\* Requests keep their type.
LEMMA HitsKept ==
    ASSUME VisitInv, [VisitNext]_visitVars
    PROVE  HitsOK'
  <1>1. HitsOK
    BY DEF VisitInv
  <1>2. CASE UNCHANGED hit
    BY <1>1, <1>2 DEF HitsOK, HitOK
  <1>3. ASSUME NEW r \in Hits, NEW kind, NEW path \in Paths, NEW status \in {"active", "idle"}, NEW tracked,
               NEW pc \in {"seen", "exists"}, Receive(r, kind, path, status, tracked, pc)
        PROVE  HitsOK'
    BY <1>1, <1>3, Receiving
  <1>4. ASSUME NEW r \in Hits, NEW pc \in AtWork, MoveOn(r, pc)
        PROVE  HitsOK'
    BY <1>1, <1>4, Moving
  <1>5. ASSUME NEW r \in Hits, Close(r)
        PROVE  HitsOK'
    BY <1>1, <1>5, Closing
  <1>6. ASSUME NEW r \in Hits, VisitStep(r)
        PROVE  HitsOK'
    <2>1. CASE KeyAlive(r)
      BY <2>1, <1>4 DEF KeyAlive, AtWork
    <2>2. CASE Exists(r)
      BY <2>2, <1>4 DEF Exists, AtWork
    <2>3. CASE SetKey(r)
      BY <2>3, <1>4 DEF SetKey, AtWork
    <2>4. CASE Lookup(r)
      BY <2>4, <1>4 DEF Lookup, AtWork
    <2>5. CASE CountHit(r)
      BY <2>5, <1>4 DEF CountHit, AfterSession, AtWork
    <2>6. CASE InsertSession(r)
      BY <2>6, <1>4, <1>5 DEF InsertSession, AfterSession, AtWork
    <2>7. CASE RecordView(r) \/ StoreAgent(r) \/ LookForAgent(r)
      BY <2>7, <1>4 DEF RecordView, StoreAgent, LookForAgent, AtWork
    <2>8. CASE RecordViews(r) \/ RecordEvent(r) \/ StoreUtm(r) \/ WritePresence(r) \/ Cut(r)
      BY <2>8, <1>5 DEF RecordViews, RecordEvent, StoreUtm, WritePresence, Cut
    <2>9. CASE StoreReferral(r)
      BY <2>9, <1>4, <1>5 DEF StoreReferral, AtWork
    <2>10. CASE ReadPresence(r)
      <3> DEFINE x == [hit[r] EXCEPT !.pc = "write", !.read = presence]
      <3>1. hit[r] \in HitOK /\ presence \in {<<>>} \union Presences
        BY <1>1 DEF HitsOK, HitOK, VisitInv, VisitTypeOK, Presences
      <3>2. x \in HitOK
        BY <3>1 DEF HitOK, AtWork
      <3>3. hit' = [hit EXCEPT ![r] = x]
        BY <2>10 DEF ReadPresence
      <3> HIDE DEF x
      <3> QED
        BY <1>1, <3>2, <3>3, OneChanges
    <2> QED
      BY <1>6, <2>1, <2>2, <2>3, <2>4, <2>5, <2>6, <2>7, <2>8, <2>9, <2>10 DEF VisitStep
  <1>7. CASE Tick \/ KeyLapses \/ AnswerBanner \/ AnswerRecord \/ PresenceLapses
    BY <1>2, <1>7 DEF Tick, KeyLapses, AnswerBanner, AnswerRecord, PresenceLapses
  <1>8. ASSUME NEW r \in Hits, BeginVisit(r) \/ BeginView(r) \/ BeginViews(r) \/ BeginEvent(r)
        PROVE  HitsOK'
    <2>1. Here \in Paths
      BY HitsAreFinite DEF Here
    <2> QED
      BY <1>3, <1>8, <2>1 DEF BeginVisit, BeginView, BeginViews, BeginEvent
  <1>9. ASSUME NEW r \in Hits, NEW path \in Paths, NEW status \in {"active", "idle"}, BeginBeat(r, path, status)
        PROVE  HitsOK'
    BY <1>3, <1>9 DEF BeginBeat
  <1> QED
    BY <1>2, <1>6, <1>7, <1>8, <1>9 DEF VisitNext, visitVars

\* So do the rows, the presence and what the histories count.
LEMMA TypesKept ==
    ASSUME VisitInv, [VisitNext]_visitVars
    PROVE  VisitTypeOK' /\ HistoryOK'
  <1>1. VisitTypeOK /\ HistoryOK /\ HitsOK /\ clock \in Nat
    BY HitsAreFinite DEF VisitInv, VisitTypeOK, Times
  <1>2. CASE UNCHANGED visitVars
    BY <1>1, <1>2 DEF VisitTypeOK, HistoryOK, visitVars
  <1>3. ASSUME UNCHANGED <<answers, key, visitRows, presence, clock>>, touches' = touches, lost' = lost,
               cuts' \in {cuts, cuts + 1}, crossings' \in {crossings, crossings + 1}
        PROVE  VisitTypeOK' /\ HistoryOK'
    BY <1>1, <1>3 DEF VisitTypeOK, HistoryOK, visitRows
  <1>4. ASSUME NEW r \in Hits, NEW kind, NEW path, NEW status, NEW tracked, NEW pc,
               Receive(r, kind, path, status, tracked, pc)
        PROVE  VisitTypeOK' /\ HistoryOK'
    BY <1>1, <1>3, <1>4 DEF Receive, HistoryOK
  <1>5. ASSUME NEW r \in Hits, VisitStep(r)
        PROVE  VisitTypeOK' /\ HistoryOK'
    <2>1. CASE KeyAlive(r) \/ Exists(r) \/ Lookup(r) \/ LookForAgent(r) \/ ReadPresence(r)
      BY <1>3, <2>1 DEF KeyAlive, Exists, Lookup, LookForAgent, ReadPresence, visitHistory
    <2>2. CASE SetKey(r)
      BY <1>1, <2>2 DEF SetKey, VisitTypeOK, HistoryOK, visitHistory, visitRows
    <2>3. CASE CountHit(r)
      <3>1. visit' = <<>> \/ visit' \in SessionRow
        <4>1. CASE visit = <<>>
          BY <2>3, <4>1 DEF CountHit
        <4>2. CASE visit # <<>>
          BY <2>3, <4>2, RowCounted DEF CountHit
        <4> QED
          BY <4>1, <4>2
      <3>2. touches' \in Nat
        BY <1>1, <2>3 DEF CountHit, HistoryOK
      <3> QED
        BY <1>1, <2>3, <3>1, <3>2 DEF CountHit, VisitTypeOK, HistoryOK, SessionRow
    <2>4. CASE InsertSession(r)
      <3>1. CASE visit = <<>>
        <4>1. visit' \in SessionRow /\ touches' = touches + 1 /\ lost' = lost
          BY <1>1, <2>4, <3>1 DEF InsertSession, VisitTypeOK, SessionRow
        <4> QED
          BY <1>1, <2>4, <4>1 DEF InsertSession, VisitTypeOK, HistoryOK, SessionRow, Times
      <3>2. CASE visit # <<>>
        BY <1>1, <2>4, <3>2 DEF InsertSession, VisitTypeOK, HistoryOK, Times
      <3> QED
        BY <3>1, <3>2
    <2>5. CASE RecordView(r)
      <3>1. views' \in Seq(Times)
        BY <1>1, <2>5 DEF RecordView, VisitTypeOK
      <3> QED
        BY <1>1, <2>5, <3>1 DEF RecordView, VisitTypeOK, HistoryOK, visitHistory, Times
    <2>6. CASE RecordViews(r)
      <3>1. views' \in Seq(Times)
        BY <1>1, <2>6 DEF RecordViews, VisitTypeOK
      <3> QED
        BY <1>1, <2>6, <3>1 DEF RecordViews, VisitTypeOK, HistoryOK, visitHistory, Times
    <2>7. CASE RecordEvent(r)
      <3>1. event_rows' \in Seq(Times)
        BY <1>1, <2>7 DEF RecordEvent, VisitTypeOK
      <3> QED
        BY <1>1, <2>7, <3>1 DEF RecordEvent, VisitTypeOK, HistoryOK, visitHistory, Times
    <2>8. CASE StoreAgent(r)
      BY <1>1, <2>8 DEF StoreAgent, VisitTypeOK, HistoryOK, visitHistory, Times
    <2>9. CASE StoreReferral(r)
      <3>1. source' \in BOOLEAN
        BY <2>9 DEF StoreReferral
      <3> QED
        BY <1>1, <2>9, <3>1 DEF StoreReferral, VisitTypeOK, HistoryOK, visitHistory, Times
    <2>10. CASE StoreUtm(r)
      <3>1. utms' \in Nat
        BY <1>1, <2>10 DEF StoreUtm, VisitTypeOK
      <3> QED
        BY <1>1, <2>10, <3>1 DEF StoreUtm, VisitTypeOK, HistoryOK, visitHistory, Times
    <2>11. CASE WritePresence(r)
      <3>1. /\ hit[r].path \in Paths /\ hit[r].status \in {"active", "idle"}
            /\ clock \in 0..MaxClock /\ 0 \in 0..MaxClock
        BY <1>1, HitsAreFinite DEF HitsOK, HitOK, VisitTypeOK, Times
      <3> DEFINE old == hit[r].read
                 now == IF presence = <<>> THEN [entered |-> 0, idle |-> 0, active |-> 0]
                        ELSE [entered |-> presence.entered, idle |-> presence.idle, active |-> presence.active]
      <3>2. now.entered \in 0..MaxClock /\ now.idle \in 0..MaxClock /\ now.active \in 0..MaxClock
        BY <1>1, <3>1 DEF VisitTypeOK
      <3>3. presence' = [path |-> hit[r].path, status |-> hit[r].status,
                         entered |-> EnteredAt(old, hit[r].path, now.entered),
                         idle |-> IdleSince(old, hit[r].status, now.idle),
                         active |-> ActiveSince(old, hit[r].path, hit[r].status, now.active)]
        BY <2>11 DEF WritePresence
      <3> HIDE DEF old, now
      <3>4. /\ EnteredAt(old, hit[r].path, now.entered) \in 0..MaxClock
            /\ IdleSince(old, hit[r].status, now.idle) \in 0..MaxClock
            /\ ActiveSince(old, hit[r].path, hit[r].status, now.active) \in 0..MaxClock
        BY <3>1, <3>2 DEF EnteredAt, IdleSince, ActiveSince
      <3>5. presence' \in Presences
        BY <3>1, <3>3, <3>4 DEF Presences
      <3> QED
        BY <1>1, <2>11, <3>5 DEF WritePresence, VisitTypeOK, HistoryOK, visitHistory, visitRows, Presences
    <2>12. CASE Cut(r)
      BY <1>1, <1>3, <2>12 DEF Cut
    <2> QED
      BY <1>5, <2>1, <2>2, <2>3, <2>4, <2>5, <2>6, <2>7, <2>8, <2>9, <2>10, <2>11, <2>12 DEF VisitStep
  <1>6. CASE Tick
    <2>1. clock' \in Times
      BY <1>1, <1>6, HitsAreFinite DEF Tick, VisitTypeOK, Times
    <2> QED
      BY <1>1, <1>6, <2>1 DEF Tick, VisitTypeOK, HistoryOK, visitHistory, visitRows
  <1>7. CASE KeyLapses
    BY <1>1, <1>7 DEF KeyLapses, VisitTypeOK, HistoryOK, visitHistory, visitRows
  <1>8. CASE PresenceLapses
    BY <1>1, <1>8 DEF PresenceLapses, VisitTypeOK, HistoryOK, visitRows
  <1>9. CASE AnswerBanner \/ AnswerRecord
    <2>1. answers' \in [record : {"none", "yes", "no"}, banner : {"none", "yes", "no"}]
      <3>1. answers \in [record : {"none", "yes", "no"}, banner : {"none", "yes", "no"}]
        BY <1>1 DEF VisitTypeOK
      <3> QED
        BY <1>9, <3>1 DEF AnswerBanner, AnswerRecord
    <2> QED
      BY <1>1, <1>9, <2>1 DEF AnswerBanner, AnswerRecord, VisitTypeOK, HistoryOK, visitRows
  <1> QED
    BY <1>2, <1>4, <1>5, <1>6, <1>7, <1>8, <1>9
    DEF VisitNext, BeginVisit, BeginView, BeginViews, BeginEvent, BeginBeat

-----------------------------------------------------------------------------
(* The session starts first *)

\* Where somebody is, there is one at least.
LEMMA SomeOne ==
    ASSUME NEW h, NEW r \in Hits, NEW pcs, h[r].pc \in pcs
    PROVE  Cardinality(Standing(h, pcs)) > 0
  <1>1. Standing(h, pcs) # {}
    BY DEF Standing
  <1> QED
    BY <1>1, AtFinite, FS_EmptySet

\* As long as nothing crossed and nothing was cut off, the UPDATE finds the row.
LEMMA RowIsThere ==
    ASSUME VisitInv, crossings = 0, cuts = 0, NEW r \in Hits, hit[r].pc = "count"
    PROVE  visit # <<>>
  <1>1. Counters > 0
    BY SomeOne DEF Counters, Number
  <1> QED
    BY <1>1, Numbers, InvCounts DEF CountsOK, Counts, Missed, HistoryOK

\* The row of the session is older than the views, as long as nothing crossed and nothing was cut off.
LEMMA StartsKept ==
    ASSUME VisitInv, [VisitNext]_visitVars
    PROVE  StartsFirst'
  <1>1. /\ StartsFirst /\ HitsOK /\ crossings \in Nat /\ cuts \in Nat /\ clock \in Nat /\ clock \in Times
        /\ visit = <<>> \/ (visit \in SessionRow /\ visit # <<>>)
        /\ views \in Seq(Times)
    BY RowIsSomething, HitsAreFinite DEF VisitInv, VisitTypeOK, HistoryOK, SessionRow, Times
  <1>2. ASSUME UNCHANGED <<visit, views>>, clock' \in {clock, clock + 1}, crossings' \in {crossings, crossings + 1},
               cuts' \in {cuts, cuts + 1}, Recorders' <= Recorders
        PROVE  StartsFirst'
    <2>1. visit # <<>> => visit.started \in Nat
      BY <1>1, HitsAreFinite DEF SessionRow, Times
    <2>2. (visit # <<>> => visit.started <= clock)'
      BY <1>1, <1>2, <2>1 DEF StartsFirst
    <2>3. Recorders \in Nat /\ Recorders' \in Nat
      BY AtFinite DEF Recorders, Number
    <2>4. crossings' = 0 /\ cuts' = 0 => crossings = 0 /\ cuts = 0
      BY <1>1, <1>2
    <2> QED
      BY <1>2, <1>1, <2>2, <2>3, <2>4 DEF StartsFirst
  <1>3. CASE UNCHANGED visitVars
    BY <1>2, <1>3, Numbers DEF visitVars, Recorders, Number
  <1>4. ASSUME NEW r \in Hits, NEW kind, NEW path \in Paths, NEW status \in {"active", "idle"}, NEW tracked,
               NEW pc \in {"seen", "exists"}, Receive(r, kind, path, status, tracked, pc)
        PROVE  StartsFirst'
    <2>1. Tally("idle", hit'[r].pc) /\ hit'[r].pc \in {"seen", "exists", "done"}
      BY <1>1, <1>4, Receiving
    <2>2. Recorders' <= Recorders
      BY <2>1, Numbers DEF Tally, Is
    <2> QED
      BY <1>1, <1>2, <1>4, <2>2 DEF Receive, visitRows
  <1>5. ASSUME NEW r \in Hits, NEW pc \in AtWork, pc # "record", MoveOn(r, pc)
        PROVE  Recorders' <= Recorders
    <2>1. Tally(hit[r].pc, pc)
      BY <1>1, <1>5, Moving
    <2> QED
      BY <1>5, <2>1, Numbers DEF Tally, Is
  <1>6. ASSUME NEW r \in Hits, Close(r)
        PROVE  Recorders' <= Recorders
    <2>1. Tally(hit[r].pc, "done")
      BY <1>1, <1>6, Closing
    <2> QED
      BY <2>1, Numbers DEF Tally, Is
  <1>7. ASSUME visit' # <<>>, visit'.started = IF visit = <<>> THEN clock ELSE visit.started,
               crossings' = crossings, cuts' = cuts, views' = views, clock' = clock
        PROVE  StartsFirst'
    <2>1. (visit # <<>> => visit.started <= clock)'
      BY <1>1, <1>7 DEF StartsFirst
    <2>2. CASE visit = <<>> /\ crossings = 0 /\ cuts = 0
      <3>1. Len(views) = 0
        BY <1>1, <2>2 DEF StartsFirst
      <3>2. DOMAIN views = {}
        BY <1>1, <3>1
      <3> QED
        BY <1>7, <2>1, <3>2 DEF StartsFirst
    <2>3. CASE visit # <<>> \/ crossings # 0 \/ cuts # 0
      BY <1>1, <1>7, <2>1, <2>3 DEF StartsFirst
    <2> QED
      BY <2>2, <2>3
  <1>8. ASSUME NEW r \in Hits, hit[r].pc = "record", UNCHANGED <<visit, crossings, cuts, clock>>,
               NEW n \in 1..2, views' \in Seq(Times), Len(views') = Len(views) + n,
               \A v \in 1..Len(views') : views'[v] = IF v <= Len(views) THEN views[v] ELSE clock
        PROVE  StartsFirst'
    <2>1. Recorders > 0
      BY <1>8, SomeOne DEF Recorders, Number
    <2>2. (visit # <<>> => visit.started <= clock)'
      BY <1>1, <1>8 DEF StartsFirst
    <2>3. CASE crossings = 0 /\ cuts = 0
      <3>1. visit # <<>> /\ visit.started <= clock /\ \A v \in 1..Len(views) : visit.started <= views[v]
        BY <1>1, <2>1, <2>3 DEF StartsFirst
      <3>2. \A v \in 1..Len(views') : visit.started <= views'[v]
        BY <1>1, <1>8, <3>1
      <3>3. DOMAIN views' = 1..Len(views')
        BY <1>8
      <3> QED
        BY <1>8, <2>2, <3>1, <3>2, <3>3 DEF StartsFirst
    <2>4. CASE ~(crossings = 0 /\ cuts = 0)
      BY <1>8, <2>2, <2>4 DEF StartsFirst
    <2> QED
      BY <2>3, <2>4
  <1>9. ASSUME NEW r \in Hits, VisitStep(r)
        PROVE  StartsFirst'
    <2>1. CASE KeyAlive(r) \/ Exists(r) \/ SetKey(r) \/ Lookup(r) \/ LookForAgent(r) \/ StoreAgent(r)
      <3>1. Recorders' <= Recorders
        BY <1>5, <2>1 DEF KeyAlive, Exists, SetKey, Lookup, LookForAgent, StoreAgent, AtWork
      <3> QED
        BY <1>2, <2>1, <3>1 DEF KeyAlive, Exists, SetKey, Lookup, LookForAgent, StoreAgent, visitHistory, visitRows
    <2>2. CASE CountHit(r)
      <3>1. CASE visit # <<>>
        <4>1. visit' # <<>> /\ visit'.started = visit.started
          BY <2>2, <3>1, RowCounted DEF CountHit
        <4> QED
          BY <1>7, <2>2, <3>1, <4>1 DEF CountHit
      <3>2. CASE visit = <<>>
        <4>1. ~(crossings = 0 /\ cuts = 0)
          BY <2>2, <3>2, RowIsThere DEF CountHit, Reached
        <4> QED
          BY <2>2, <3>2, <4>1 DEF CountHit, StartsFirst
      <3> QED
        BY <3>1, <3>2
    <2>3. CASE InsertSession(r)
      <3>1. CASE visit = <<>>
        <4>1. visit' = [count |-> 1, started |-> clock, ended |-> 0]
          BY <2>3, <3>1 DEF InsertSession
        <4>2. visit' # <<>> /\ visit'.started = clock
          BY <4>1
        <4> QED
          BY <1>7, <2>3, <3>1, <4>2 DEF InsertSession
      <3>2. CASE visit # <<>>
        BY <1>2, <1>6, <2>3, <3>2 DEF InsertSession
      <3> QED
        BY <3>1, <3>2
    <2>4. CASE RecordView(r)
      <3>1. views' = Append(views, clock)
        BY <2>4 DEF RecordView
      <3>2. /\ views' \in Seq(Times) /\ Len(views') = Len(views) + 1
            /\ \A v \in 1..Len(views') : views'[v] = IF v <= Len(views) THEN views[v] ELSE clock
        BY <1>1, <3>1
      <3> QED
        BY <1>8, <2>4, <3>2 DEF RecordView, Reached, visitHistory
    <2>5. CASE RecordViews(r)
      <3>1. views' = views \o <<clock, clock>>
        BY <2>5 DEF RecordViews
      <3>2. /\ views' \in Seq(Times) /\ Len(views') = Len(views) + 2
            /\ \A v \in 1..Len(views') : views'[v] = IF v <= Len(views) THEN views[v] ELSE clock
        BY <1>1, <3>1
      <3>3. hit[r].pc = "record" /\ UNCHANGED <<visit, crossings, cuts, clock>>
        BY <2>5 DEF RecordViews, Reached, visitHistory
      <3>4. 2 \in 1..2
        OBVIOUS
      <3> QED
        BY <1>8, <3>2, <3>3, <3>4
    <2>6. CASE RecordEvent(r) \/ StoreUtm(r) \/ WritePresence(r) \/ Cut(r)
      <3>1. Recorders' <= Recorders
        BY <1>6, <2>6 DEF RecordEvent, StoreUtm, WritePresence, Cut
      <3> QED
        BY <1>2, <2>6, <3>1 DEF RecordEvent, StoreUtm, WritePresence, Cut, visitHistory, visitRows
    <2>7. CASE StoreReferral(r)
      <3>1. Recorders' <= Recorders
        BY <1>5, <1>6, <2>7 DEF StoreReferral, AtWork
      <3> QED
        BY <1>2, <2>7, <3>1 DEF StoreReferral, visitHistory
    <2>8. CASE ReadPresence(r)
      <3> DEFINE x == [hit[r] EXCEPT !.pc = "write", !.read = presence]
      <3>1. hit[r] \in HitOK /\ presence \in {<<>>} \union Presences
        BY <1>1 DEF HitsOK, HitOK, VisitInv, VisitTypeOK, Presences
      <3>2. x \in HitOK /\ x.pc = "write"
        BY <3>1 DEF HitOK, AtWork
      <3>3. hit' = [hit EXCEPT ![r] = x]
        BY <2>8 DEF ReadPresence
      <3> HIDE DEF x
      <3>4. \A pcs : Number(pcs)' = Number(pcs) + Is(x.pc, pcs) - Is(hit[r].pc, pcs)
        BY <1>1, <3>2, <3>3, OneChanges
      <3>5. Recorders' <= Recorders
        BY <3>2, <3>4, Numbers DEF Recorders, Is
      <3> QED
        BY <1>2, <2>8, <3>5 DEF ReadPresence, visitHistory, visitRows
    <2> QED
      BY <1>9, <2>1, <2>2, <2>3, <2>4, <2>5, <2>6, <2>7, <2>8 DEF VisitStep
  <1>10. CASE Tick \/ KeyLapses \/ PresenceLapses \/ AnswerBanner \/ AnswerRecord
    <2>1. Recorders' <= Recorders
      BY <1>10, Numbers DEF Tick, KeyLapses, PresenceLapses, AnswerBanner, AnswerRecord, Recorders, Number
    <2> QED
      BY <1>1, <1>2, <1>10, <2>1
      DEF Tick, KeyLapses, PresenceLapses, AnswerBanner, AnswerRecord, visitHistory, visitRows
  <1>11. ASSUME NEW r \in Hits, BeginVisit(r) \/ BeginView(r) \/ BeginViews(r) \/ BeginEvent(r)
         PROVE  StartsFirst'
    <2>1. Here \in Paths
      BY HitsAreFinite DEF Here
    <2> QED
      BY <1>4, <1>11, <2>1 DEF BeginVisit, BeginView, BeginViews, BeginEvent
  <1>12. ASSUME NEW r \in Hits, NEW path \in Paths, NEW status \in {"active", "idle"}, BeginBeat(r, path, status)
         PROVE  StartsFirst'
    BY <1>4, <1>12 DEF BeginBeat
  <1> QED
    BY <1>3, <1>9, <1>10, <1>11, <1>12 DEF VisitNext

-----------------------------------------------------------------------------
(* The presence *)

\* Two requests that are under way at once have crossed.
LEMMA OneIsUnderWay ==
    ASSUME HitsOK, Busy <= 1, NEW a \in Hits, NEW b \in Hits, UnderWay(a), UnderWay(b)
    PROVE  a = b
  <1> SUFFICES ASSUME a # b PROVE FALSE
    OBVIOUS
  <1>1. {a} \subseteq Standing(hit, AtWork) /\ {a} \union {b} \subseteq Standing(hit, AtWork)
    BY DEF HitsOK, HitOK, UnderWay, Standing, AtWork
  <1>2. IsFiniteSet({a}) /\ Cardinality({a}) = 1
    BY FS_Singleton
  <1>3. Cardinality({a} \union {b}) = 2
    BY <1>2, FS_AddElement
  <1>4. Cardinality({a} \union {b}) <= Cardinality(Standing(hit, AtWork))
    BY <1>1, AtFinite, FS_Subset
  <1> QED
    BY <1>3, <1>4, AtFinite DEF Busy, Number

\* What a heartbeat has read is so when it writes, unless something crossed.
LEMMA PresenceKept ==
    ASSUME VisitInv, [VisitNext]_visitVars
    PROVE  ReadIsSo' /\ PresenceIsPast' /\ PresenceAgrees'
  <1>1. /\ ReadIsSo /\ PresenceIsPast /\ PresenceAgrees /\ HitsOK /\ crossings \in Nat
        /\ clock \in Nat /\ clock > 0 /\ Busy <= 1 + crossings /\ Busy \in Nat
    BY HitsAreFinite, Numbers DEF VisitInv, VisitTypeOK, HistoryOK, Times, Counts, Crowd
  <1>2. presence = <<>> \/ (presence \in Presences /\ presence # <<>>)
    <2>1. \A p \in Presences : p # <<>>
      BY DEF Presences
    <2> QED
      BY <2>1 DEF VisitInv, VisitTypeOK, Presences
  <1>3. ASSUME presence' = presence, clock' \in {clock, clock + 1}, crossings' \in {crossings, crossings + 1},
               \A q \in Hits : hit'[q].pc = "write" => hit'[q] = hit[q]
        PROVE  ReadIsSo' /\ PresenceIsPast' /\ PresenceAgrees'
    <2>1. crossings' = 0 => crossings = 0
      BY <1>1, <1>3
    <2>2. ReadIsSo'
      BY <1>1, <1>3, <2>1 DEF ReadIsSo, Reached
    <2>3. PresenceIsPast'
      <3>1. presence # <<>> => presence.idle \in Nat /\ presence.active \in Nat /\ presence.entered \in Nat
        BY <1>2 DEF Presences
      <3> QED
        BY <1>1, <1>3, <3>1 DEF PresenceIsPast
    <2>4. PresenceAgrees'
      BY <1>1, <1>3, <2>1 DEF PresenceAgrees
    <2> QED
      BY <2>2, <2>3, <2>4
  <1>4. CASE UNCHANGED visitVars
    BY <1>1, <1>3, <1>4 DEF visitVars
  <1>5. ASSUME NEW r \in Hits, NEW kind, NEW path \in Paths, NEW status \in {"active", "idle"}, NEW tracked,
               NEW pc \in {"seen", "exists"}, Receive(r, kind, path, status, tracked, pc)
        PROVE  ReadIsSo' /\ PresenceIsPast' /\ PresenceAgrees'
    <2>1. hit'[r].pc # "write" /\ \A q \in Hits \ {r} : hit'[q] = hit[q]
      BY <1>1, <1>5, Receiving
    <2>2. presence' = presence /\ clock' = clock /\ crossings' \in {crossings, crossings + 1}
      BY <1>1, <1>5 DEF Receive
    <2> QED
      BY <1>3, <2>1, <2>2
  <1>6. ASSUME NEW r \in Hits, presence' = presence, clock' = clock, crossings' = crossings,
               \/ \E pc \in AtWork \ {"write"} : MoveOn(r, pc)
               \/ Close(r)
        PROVE  ReadIsSo' /\ PresenceIsPast' /\ PresenceAgrees'
    <2>1. hit'[r].pc # "write" /\ \A q \in Hits \ {r} : hit'[q] = hit[q]
      <3>1. CASE Close(r)
        BY <1>1, <3>1, Closing
      <3>2. ASSUME NEW pc \in AtWork \ {"write"}, MoveOn(r, pc)
            PROVE  hit'[r].pc # "write" /\ \A q \in Hits \ {r} : hit'[q] = hit[q]
        <4>1. hit'[r] = [hit[r] EXCEPT !.pc = pc] /\ \A q \in Hits \ {r} : hit'[q] = hit[q]
          BY <1>1, <3>2, Moving
        <4>2. hit[r] \in HitOK
          BY <1>1 DEF HitsOK, HitOK
        <4> QED
          BY <4>1, <4>2, <3>2 DEF HitOK
      <3> QED
        BY <1>6, <3>1, <3>2
    <2> QED
      BY <1>1, <1>3, <1>6, <2>1
  <1>7. ASSUME NEW r \in Hits, ReadPresence(r)
        PROVE  ReadIsSo' /\ PresenceIsPast' /\ PresenceAgrees'
    <2>1. UNCHANGED <<presence, clock, crossings>>
      BY <1>7 DEF ReadPresence, visitHistory
    <2>2. /\ hit'[r].read = presence /\ \A q \in Hits \ {r} : hit'[q] = hit[q]
      <3>1. hit[r] \in HitOK /\ r \in DOMAIN hit /\ DOMAIN hit = Hits
        BY <1>1 DEF HitsOK, HitOK
      <3>2. hit' = [hit EXCEPT ![r] = [hit[r] EXCEPT !.pc = "write", !.read = presence]]
        BY <1>7 DEF ReadPresence
      <3>3. hit'[r] = [hit[r] EXCEPT !.pc = "write", !.read = presence] /\ \A q \in Hits \ {r} : hit'[q] = hit[q]
        BY <3>1, <3>2
      <3> QED
        BY <3>1, <3>3 DEF HitOK
    <2>3. ReadIsSo'
      BY <1>1, <2>1, <2>2 DEF ReadIsSo, Reached
    <2> QED
      BY <1>1, <2>1, <2>3 DEF PresenceIsPast, PresenceAgrees
  <1>8. ASSUME NEW r \in Hits, WritePresence(r)
        PROVE  ReadIsSo' /\ PresenceIsPast' /\ PresenceAgrees'
    <2>1. Close(r) /\ hit[r].pc = "write" /\ UNCHANGED <<clock, crossings>>
      BY <1>8 DEF WritePresence, Reached, visitHistory
    <2>2. hit'[r].pc = "done" /\ \A q \in Hits \ {r} : hit'[q] = hit[q]
      BY <1>1, <2>1, Closing
    <2>3. ReadIsSo'
      <3>1. ASSUME crossings = 0, NEW q \in Hits, hit'[q].pc = "write"
            PROVE  FALSE
        <4>1. q # r /\ hit[q].pc = "write"
          BY <2>2, <3>1
        <4>2. UnderWay(q) /\ UnderWay(r)
          BY <2>1, <4>1 DEF UnderWay
        <4>3. Busy <= 1
          BY <1>1, <3>1
        <4> QED
          BY <1>1, <4>1, <4>2, <4>3, OneIsUnderWay
      <3> QED
        BY <2>1, <3>1 DEF ReadIsSo, Reached
    <2> DEFINE old == hit[r].read
               now == IF presence = <<>> THEN [entered |-> 0, idle |-> 0, active |-> 0]
                      ELSE [entered |-> presence.entered, idle |-> presence.idle, active |-> presence.active]
               path == hit[r].path
               status == hit[r].status
    <2>4. presence' = [path |-> path, status |-> status, entered |-> EnteredAt(old, path, now.entered),
                       idle |-> IdleSince(old, status, now.idle),
                       active |-> ActiveSince(old, path, status, now.active)]
      BY <1>8 DEF WritePresence
    <2>5. /\ now.entered \in 0..clock /\ now.idle \in 0..clock /\ now.active \in 0..clock
          /\ status \in {"active", "idle"}
      <3>1. CASE presence = <<>>
        BY <1>1, <3>1 DEF HitsOK, HitOK
      <3>2. CASE presence # <<>>
        BY <1>1, <1>2, <3>2 DEF HitsOK, HitOK, PresenceIsPast, Presences
      <3> QED
        BY <3>1, <3>2
    <2>6. crossings = 0 => old = presence
      BY <1>1, <2>1 DEF ReadIsSo, Reached
    <2>7. presence # <<>> => /\ now.entered = presence.entered /\ now.idle = presence.idle
                             /\ now.active = presence.active /\ presence.status \in {"active", "idle"}
      BY <1>2 DEF Presences
    <2> HIDE DEF old, now, path, status
    <2>8. PresenceIsPast'
      <3>1. /\ EnteredAt(old, path, now.entered) <= clock /\ IdleSince(old, status, now.idle) <= clock
            /\ ActiveSince(old, path, status, now.active) <= clock
        BY <1>1, <2>5 DEF EnteredAt, IdleSince, ActiveSince
      <3> QED
        BY <2>1, <2>4, <3>1 DEF PresenceIsPast
    <2>9. PresenceAgrees'
      <3> SUFFICES ASSUME crossings = 0
                   PROVE  /\ status = "idle" <=> IdleSince(old, status, now.idle) > 0
                          /\ status = "idle" =>
                                ActiveSince(old, path, status, now.active) <= IdleSince(old, status, now.idle)
                          /\ status = "active" =>
                                EnteredAt(old, path, now.entered) <= ActiveSince(old, path, status, now.active)
        BY <2>1, <2>4 DEF PresenceAgrees
      <3>1. presence # <<>> => /\ presence.status = "idle" <=> presence.idle > 0
                               /\ presence.status = "idle" => presence.active <= presence.idle
                               /\ presence.status = "active" => presence.entered <= presence.active
        BY <1>1 DEF PresenceAgrees
      <3>2. CASE status = "active"
        BY <1>1, <2>5, <2>6, <2>7, <3>1, <3>2 DEF EnteredAt, IdleSince, ActiveSince
      <3>3. CASE status = "idle"
        BY <1>1, <2>5, <2>6, <2>7, <3>1, <3>3 DEF EnteredAt, IdleSince, ActiveSince
      <3> QED
        BY <2>5, <3>2, <3>3
    <2> QED
      BY <2>3, <2>8, <2>9
  <1>9. CASE PresenceLapses
    <2>1. presence' = <<>> /\ hit' = hit /\ crossings' = crossings + IF Still THEN 0 ELSE 1
      BY <1>9 DEF PresenceLapses
    <2>2. ReadIsSo'
      <3>1. ASSUME NEW q \in Hits, hit[q].pc = "write"
            PROVE  crossings' # 0
        BY <1>1, <2>1, <3>1 DEF Still, UnderWay
      <3> QED
        BY <2>1, <3>1 DEF ReadIsSo, Reached
    <2> QED
      BY <2>1, <2>2 DEF PresenceIsPast, PresenceAgrees
  <1>10. CASE Tick \/ KeyLapses \/ AnswerBanner \/ AnswerRecord
    <2>1. /\ presence' = presence /\ hit' = hit /\ crossings' = crossings
          /\ clock' = clock \/ clock' = clock + 1
      BY <1>10 DEF Tick, KeyLapses, AnswerBanner, AnswerRecord, visitHistory
    <2> QED
      BY <1>3, <2>1
  <1>11. ASSUME NEW r \in Hits, VisitStep(r)
         PROVE  ReadIsSo' /\ PresenceIsPast' /\ PresenceAgrees'
    <2>1. CASE KeyAlive(r)
      BY <1>6, <2>1 DEF KeyAlive, visitHistory, AtWork
    <2>2. CASE Exists(r) \/ SetKey(r) \/ Lookup(r)
      BY <1>6, <2>2 DEF Exists, SetKey, Lookup, visitHistory, AtWork
    <2>3. CASE CountHit(r)
      BY <1>6, <2>3 DEF CountHit, AfterSession, AtWork
    <2>4. CASE InsertSession(r)
      BY <1>6, <2>4 DEF InsertSession, AfterSession, AtWork
    <2>5. CASE RecordView(r) \/ LookForAgent(r) \/ StoreAgent(r)
      BY <1>6, <2>5 DEF RecordView, LookForAgent, StoreAgent, visitHistory, AtWork
    <2>6. CASE RecordViews(r) \/ RecordEvent(r) \/ StoreUtm(r) \/ Cut(r)
      BY <1>6, <2>6 DEF RecordViews, RecordEvent, StoreUtm, Cut, visitHistory
    <2>7. CASE StoreReferral(r)
      BY <1>6, <2>7 DEF StoreReferral, visitHistory, AtWork
    <2> QED
      BY <1>7, <1>8, <1>11, <2>1, <2>2, <2>3, <2>4, <2>5, <2>6, <2>7 DEF VisitStep
  <1>12. ASSUME NEW r \in Hits, BeginVisit(r) \/ BeginView(r) \/ BeginViews(r) \/ BeginEvent(r)
         PROVE  ReadIsSo' /\ PresenceIsPast' /\ PresenceAgrees'
    <2>1. Here \in Paths
      BY HitsAreFinite DEF Here
    <2> QED
      BY <1>5, <1>12, <2>1 DEF BeginVisit, BeginView, BeginViews, BeginEvent
  <1>13. ASSUME NEW r \in Hits, NEW path \in Paths, NEW status \in {"active", "idle"}, BeginBeat(r, path, status)
         PROVE  ReadIsSo' /\ PresenceIsPast' /\ PresenceAgrees'
    BY <1>5, <1>13 DEF BeginBeat
  <1> QED
    BY <1>4, <1>9, <1>10, <1>11, <1>12, <1>13 DEF VisitNext

-----------------------------------------------------------------------------
(* It adds up *)

\* Nothing has come in.
LEMMA VisitBegins ==
    ASSUME VisitInit
    PROVE  VisitInv
  <1>1. VisitTypeOK /\ HistoryOK
    <2>1. clock \in Times
      BY HitsAreFinite DEF VisitInit, Times
    <2>2. views \in Seq(Times) /\ event_rows \in Seq(Times)
      BY DEF VisitInit
    <2>3. HistoryOK
      BY DEF VisitInit, HistoryOK
    <2>4. answers \in [record : {"none", "yes", "no"}, banner : {"none", "yes", "no"}]
      BY DEF VisitInit
    <2> QED
      BY <2>1, <2>2, <2>3, <2>4 DEF VisitInit, VisitTypeOK
  <1>2. HitsOK /\ \A r \in Hits : hit[r].pc = "idle"
    <2>1. Nothing("idle") \in HitOK /\ Nothing("idle").pc = "idle"
      BY NothingIsOne
    <2> QED
      BY <2>1 DEF VisitInit, HitsOK, HitOK
  <1>3. \A pcs : "idle" \notin pcs => Number(pcs) = 0
    <2> SUFFICES ASSUME NEW pcs, "idle" \notin pcs PROVE Number(pcs) = 0
      OBVIOUS
    <2>1. Standing(hit, pcs) = {}
      BY <1>2 DEF Standing
    <2> QED
      BY <2>1, FS_EmptySet DEF Number
  <1>4. /\ Busy = 0 /\ Early = 0 /\ Setters = 0 /\ Viewers = 0
        /\ Inserters = 0 /\ Counters = 0 /\ Storers = 0 /\ Recorders = 0
    BY <1>3
    DEF Busy, Early, Setters, Viewers, Inserters, Counters, Storers, Recorders, AtWork, Uncounted, Setting,
        AfterView
  <1>5. Len(views) = 0 /\ Len(event_rows) = 0 /\ DOMAIN views = {}
    BY DEF VisitInit
  <1>6. Counts
    BY <1>4, <1>5 DEF VisitInit, Counts, Crowd, TurnedAway, Browsers, Missed, Counted, Backed, Tagged
  <1>7. StartsFirst
    BY <1>4, <1>5 DEF VisitInit, StartsFirst
  <1>8. ReadIsSo /\ PresenceIsPast /\ PresenceAgrees
    BY <1>2 DEF VisitInit, ReadIsSo, PresenceIsPast, PresenceAgrees, Reached
  <1> QED
    BY <1>1, <1>2, <1>6, <1>7, <1>8 DEF VisitInv

\* Whatever interval they are counted in, there are no more rows than there are; all of them from the
\* beginning to the end.
LEMMA RowsWithin ==
    ASSUME NEW rows \in Seq(Times), NEW from, NEW end
    PROVE  /\ Cardinality({v \in DOMAIN rows : Within(rows[v], from, end)}) \in 0..Len(rows)
           /\ Cardinality({v \in DOMAIN rows : Within(rows[v], from, end)}) > 0 =>
                 \E v \in DOMAIN rows : Within(rows[v], from, end)
           /\ from = 1 /\ end = Always => Cardinality({v \in DOMAIN rows : Within(rows[v], from, end)}) = Len(rows)
  <1> DEFINE those == {v \in DOMAIN rows : Within(rows[v], from, end)}
  <1>1. DOMAIN rows = 1..Len(rows) /\ Len(rows) \in Nat
    OBVIOUS
  <1>2. IsFiniteSet(DOMAIN rows) /\ Cardinality(DOMAIN rows) = Len(rows)
    <2>1. IsFiniteSet(1..Len(rows))
      BY <1>1, FS_Interval
    <2>2. Cardinality(1..Len(rows)) = Len(rows)
      BY <1>1, FS_Interval
    <2> QED
      BY <1>1, <2>1, <2>2
  <1>3. those \subseteq DOMAIN rows
    OBVIOUS
  <1> HIDE DEF those
  <1>4. IsFiniteSet(those) /\ Cardinality(those) <= Len(rows)
    BY <1>2, <1>3, FS_Subset
  <1>5. Cardinality(those) \in Nat
    BY <1>4, FS_CardinalityType
  <1>6. Cardinality(those) > 0 => those # {}
    <2>1. those = {} => Cardinality(those) = 0
      BY FS_EmptySet
    <2> QED
      BY <2>1
  <1>7. from = 1 /\ end = Always => those = DOMAIN rows
    <2> SUFFICES ASSUME from = 1, end = Always, NEW v \in DOMAIN rows PROVE Within(rows[v], from, end)
      BY DEF those
    <2>1. rows[v] \in Times
      BY <1>1
    <2> QED
      BY <2>1, HitsAreFinite DEF Within, Always, Times
  <1>8. Cardinality(those) \in 0..Len(rows)
    BY <1>1, <1>4, <1>5
  <1>9. Cardinality(those) > 0 => \E v \in DOMAIN rows : Within(rows[v], from, end)
    BY <1>6 DEF those
  <1>10. from = 1 /\ end = Always => Cardinality(those) = Len(rows)
    BY <1>2, <1>7
  <1> QED
    BY <1>8, <1>9, <1>10 DEF those

\* The invariant says enough of the rows for everything that is made of them.
LEMMA VisitsAreSo ==
    ASSUME VisitInv
    PROVE  VisitsAddUp
  <1>1. /\ CountsOK /\ StartsFirst /\ PresenceAgrees
        /\ touches \in Nat /\ lost \in Nat /\ crossings \in Nat /\ cuts \in Nat /\ agents \in Nat /\ utms \in Nat
        /\ clock \in Times /\ clock \in Nat /\ key \in BOOLEAN /\ source \in BOOLEAN
        /\ views \in Seq(Times) /\ event_rows \in Seq(Times) /\ Len(views) \in Nat /\ Len(event_rows) \in Nat
    BY InvCounts, HitsAreFinite DEF VisitInv, VisitTypeOK, HistoryOK, Times
  <1>2. /\ Crowd /\ TurnedAway /\ Browsers /\ Missed /\ Counted /\ Backed /\ Tagged
    BY <1>1 DEF CountsOK, Counts
  <1>3. visit # <<>> => visit.count \in Nat \ {0} /\ visit.started \in Times /\ visit.started \in Nat
                        /\ 1 <= visit.started /\ visit.started <= clock
    BY <1>1, HitsAreFinite DEF VisitInv, VisitTypeOK, StartsFirst, Times
  <1>4. /\ \A end : total_views(1, end) \in 0..Len(views)
        /\ \A end : total_views(1, end) > 0 => \E v \in DOMAIN views : views[v] < end
        /\ total_views(1, Always) = Len(views) /\ total_events(1, Always) = Len(event_rows)
    BY <1>1, RowsWithin DEF total_views, total_events, Within
  <1>5. ASSUME cuts = 0, visit = <<>>, crossings = 0 \/ Still
        PROVE  touches = 0
    <2>1. CASE crossings = 0
      BY <1>1, <1>2, <1>5, <2>1, Numbers DEF Missed
    <2>2. CASE Still
      <3>1. Busy = 0
        BY <1>1, <2>2, QuietMeansNone DEF CountsOK
      <3> QED
        BY <1>1, <1>2, <1>5, <3>1, Numbers DEF Missed
    <2> QED
      BY <1>5, <2>1, <2>2
  <1>6. touches = 0 => Len(views) = 0 /\ Len(event_rows) = 0 /\ Traces = 0
    BY <1>1, <1>2, <1>4, Numbers DEF Backed, Traces
  <1>7. \A end \in Nat : Started(1, end) <=> visit # <<>> /\ visit.started < end
    BY <1>3 DEF Started, Within
  <1>8. agents <= 1 + crossings
    BY <1>1, <1>2, Numbers DEF Browsers
  <1>9. lost <= crossings
    BY <1>1, <1>2, Numbers DEF TurnedAway
  <1>10. VisitIsCounted
    <2> SUFFICES ASSUME crossings = 0, cuts = 0
                 PROVE  /\ lost = 0 /\ agents <= 1 /\ Listed <= 1
                        /\ visit # <<>> => visit.count = touches
                        /\ kpi_for_range(1, clock + 1).avg_pages = touches
                        /\ Still /\ Traces > 0 => visit # <<>>
      BY DEF VisitIsCounted
    <2>1. lost = 0 /\ agents <= 1
      BY <1>1, <1>8, <1>9
    <2>2. Listed <= 1
      BY <1>1, <2>1 DEF Listed
    <2>3. visit # <<>> => visit.count = touches
      BY <1>1, <1>2, <1>3 DEF Counted
    <2>4. kpi_for_range(1, clock + 1).avg_pages = touches
      <3>1. Started(1, clock + 1) <=> visit # <<>>
        BY <1>1, <1>3, <1>7
      <3> QED
        BY <1>5, <2>3, <3>1 DEF kpi_for_range
    <2>5. Traces > 0 => visit # <<>>
      BY <1>5, <1>6
    <2> QED
      BY <2>1, <2>2, <2>3, <2>4, <2>5
  <1>11. RowsAreBounded
    <2>1. cuts = 0 /\ visit # <<>> => visit.count + crossings >= touches
      BY <1>1, <1>2, <1>3 DEF Counted
    <2>2. Still /\ Traces > 0 /\ visit = <<>> => cuts > 0
      BY <1>1, <1>5, <1>6
    <2> QED
      BY <1>8, <1>9, <2>1, <2>2 DEF RowsAreBounded
  <1>12. ReportsAgree
    <2> SUFFICES ASSUME crossings = 0, cuts = 0, NEW end \in 1..Always
                 PROVE  LET kpi == kpi_for_range(1, end) IN
                        /\ kpi.unique_visitors <= kpi.total_sessions
                        /\ kpi.total_pageviews > 0 => get_session_detail # <<>>
                        /\ kpi.bounced = 1 => touches = 1 /\ kpi.total_pageviews <= 2
                        /\ bounce_count(1, end) <= entry_count(1, end) /\ bounce_count(1, end) <= kpi.bounced
                        /\ total_agents(1, end) <= kpi.total_sessions /\ SessionsFrom(1, end) <= kpi.total_sessions
                        /\ SessionsOfCampaign(1, end) <= total_views(1, Always)
      BY DEF ReportsAgree
    <2>1. end \in Nat
      BY HitsAreFinite DEF Always
    <2>2. total_views(1, end) > 0 => visit # <<>> /\ Started(1, end)
      <3> SUFFICES ASSUME total_views(1, end) > 0 PROVE visit # <<>> /\ Started(1, end)
        OBVIOUS
      <3>1. PICK v \in DOMAIN views : views[v] < end
        BY <1>4
      <3>2. visit # <<>> /\ visit.started <= views[v]
        BY <1>1, <3>1 DEF StartsFirst
      <3>3. views[v] \in Nat
        BY <1>1, <3>1, HitsAreFinite DEF Times
      <3> QED
        BY <1>3, <1>7, <2>1, <3>1, <3>2, <3>3
    <2>3. unique_visitors(1, end) <= total_sessions(1, end)
      BY <2>2 DEF unique_visitors, total_sessions, One
    <2>4. total_views(1, end) > 0 => get_session_detail # <<>>
      BY <2>2 DEF get_session_detail
    <2>5. bounced(1, end) = 1 => touches = 1 /\ total_views(1, end) <= 2
      <3> SUFFICES ASSUME bounced(1, end) = 1 PROVE touches = 1 /\ total_views(1, end) <= 2
        OBVIOUS
      <3>1. visit # <<>> /\ visit.count = 1
        BY DEF bounced, One, Started
      <3>2. touches = 1
        BY <1>1, <1>2, <3>1 DEF Counted
      <3>3. Len(views) <= 2
        BY <1>1, <1>2, <3>2, Numbers DEF Backed
      <3> QED
        BY <1>1, <1>4, <3>2, <3>3
    <2>6. bounce_count(1, end) <= entry_count(1, end) /\ bounce_count(1, end) <= bounced(1, end)
      BY DEF bounce_count, entry_count, bounced, One
    <2>7. total_agents(1, end) <= total_sessions(1, end) /\ SessionsFrom(1, end) <= total_sessions(1, end)
      BY <1>1, <1>7, <1>8, <2>1 DEF total_agents, total_sessions, SessionsFrom, One
    <2>8. SessionsOfCampaign(1, end) <= total_views(1, Always)
      BY <1>1, <1>2, <1>4, Numbers DEF SessionsOfCampaign, Tagged
    <2> QED
      BY <2>3, <2>4, <2>5, <2>6, <2>7, <2>8 DEF kpi_for_range
  <1> QED
    BY <1>1, <1>10, <1>11, <1>12 DEF VisitsAddUp

\* What is recorded and shown of a visit adds up, whatever the number of requests and the interval:
\* what is missing, turned away or too much is paid for by overlaps and requests cut off.
THEOREM VisitsAreCounted == VisitSpec => []VisitsAddUp
  <1>1. VisitInit => VisitInv
    BY VisitBegins
  <1>2. VisitInv /\ [VisitNext]_visitVars => VisitInv'
    BY CountsKept, HitsKept, TypesKept, StartsKept, PresenceKept DEF VisitInv
  <1>3. VisitInv => VisitsAddUp
    BY VisitsAreSo
  <1> QED
    BY <1>1, <1>2, <1>3, PTL DEF VisitSpec
=============================================================================
