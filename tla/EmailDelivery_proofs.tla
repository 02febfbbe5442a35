------------------------ MODULE EmailDelivery_proofs ------------------------
(***************************************************************************)
(* For any number of emails, retry loops, attempts and faults: an email is *)
(* accepted a second time only after a fault; a bounce or complaint that   *)
(* was read suppresses, whichever the provider, if its name is known and   *)
(* its key is its own; and what reports and suppression have settled stays *)
(* settled.                                                                *)
(*                                                                         *)
(* The argument is one of ownership: the retry item of an email is in the  *)
(* queue once, or in the hands of one retry loop (OneItem), so that only   *)
(* its owner can have the email accepted, and whoever gives it back has    *)
(* either had it refused or paid with a fault (CopiesCounted). While there *)
(* is an item, the row carries no message id, so that no report has found  *)
(* it (Unreported).                                                        *)
(***************************************************************************)
EXTENDS EmailDelivery, SequenceTheorems, TLAPS

-----------------------------------------------------------------------------
(* The Redis list *)

\* RPUSH of an item that is not in the list yet.
LEMMA AppendItem ==
    ASSUME NEW S, NEW q \in Seq(S), NEW e \in S, NoRepeats(q), ~Contains(q, e)
    PROVE  /\ Append(q, e) \in Seq(S)
           /\ NoRepeats(Append(q, e))
           /\ \A x : Contains(Append(q, e), x) <=> Contains(q, x) \/ x = e
<1> DEFINE p == Append(q, e)
<1>1. /\ p \in Seq(S) /\ Len(p) = Len(q) + 1
      /\ \A i \in 1..Len(q) : p[i] = q[i]
      /\ p[Len(q) + 1] = e
      /\ Len(q) \in Nat
  BY AppendProperties, LenProperties
<1> HIDE DEF p
<1>2. NoRepeats(p)
  BY <1>1 DEF NoRepeats, Contains
<1>3. \A x : Contains(p, x) <=> Contains(q, x) \/ x = e
  <2> TAKE x
  <2>1. ASSUME Contains(p, x) PROVE Contains(q, x) \/ x = e
    <3>1. PICK i \in 1..Len(p) : p[i] = x
      BY <2>1 DEF Contains
    <3>2. i \in 1..Len(q) \/ i = Len(q) + 1
      BY <1>1
    <3> QED
      BY <1>1, <3>1, <3>2 DEF Contains
  <2>2. ASSUME Contains(q, x) PROVE Contains(p, x)
    <3>1. PICK i \in 1..Len(q) : q[i] = x
      BY <2>2 DEF Contains
    <3>2. i \in 1..Len(p)
      BY <1>1
    <3> QED
      BY <1>1, <3>1, <3>2 DEF Contains
  <2>3. ASSUME x = e PROVE Contains(p, x)
    <3>1. Len(q) + 1 \in 1..Len(p)
      BY <1>1
    <3> QED
      BY <1>1, <2>3, <3>1 DEF Contains
  <2> QED
    BY <2>1, <2>2, <2>3
<1> QED
  BY <1>1, <1>2, <1>3 DEF p

\* LPOP from a list without repetitions takes its item out altogether.
LEMMA TailItem ==
    ASSUME NEW S, NEW q \in Seq(S), q # <<>>, NoRepeats(q)
    PROVE  /\ Head(q) \in S /\ Tail(q) \in Seq(S)
           /\ NoRepeats(Tail(q))
           /\ Contains(q, Head(q)) /\ ~Contains(Tail(q), Head(q))
           /\ \A x : Contains(Tail(q), x) => Contains(q, x)
<1> DEFINE p == Tail(q)  h == Head(q)
<1>1. /\ h \in S /\ h = q[1] /\ p \in Seq(S)
      /\ Len(q) \in Nat /\ Len(q) > 0 /\ Len(p) = Len(q) - 1
      /\ \A i \in 1..Len(p) : p[i] = q[i + 1]
  BY HeadTailProperties, LenProperties, EmptySeq
<1> HIDE DEF p, h
<1>2. \A i \in 1..Len(p) : i + 1 \in 1..Len(q) /\ i + 1 # 1
  BY <1>1
<1>3. NoRepeats(p)
  BY <1>1, <1>2 DEF NoRepeats
<1>4. 1 \in 1..Len(q)
  BY <1>1
<1>5. Contains(q, h) /\ ~Contains(p, h)
  BY <1>1, <1>2, <1>4 DEF Contains, NoRepeats
<1>6. \A x : Contains(p, x) => Contains(q, x)
  BY <1>1, <1>2 DEF Contains
<1> QED
  BY <1>1, <1>3, <1>5, <1>6 DEF p, h

-----------------------------------------------------------------------------
(* The inductive invariant *)

\* Nothing is queued, held, accepted or reported at first.
LEMMA InitKeeps == Init => IInv
<1> SUFFICES ASSUME Init PROVE IInv
  OBVIOUS
<1>1. Len(queue) = 0 /\ queue \in Seq(Emails)
  BY DEF Init
<1>2. TypeOK
  BY <1>1 DEF Init, TypeOK, Report, EmailTypes, MigratedEventStatuses
<1>3. \A e : ~Contains(queue, e)
  BY <1>1 DEF Contains
<1>4. OneItem
  BY <1>1, <1>3, NoEmailIsNone DEF Init, OneItem, NoRepeats
<1>5. CopiesCounted
  BY <1>3 DEF Init, CopiesCounted, DuplicatesNeedAFault
<1>6. SeenWasAnswered
  BY DEF Init, SeenWasAnswered, BouncesSuppress
<1> QED
  BY <1>2, <1>4, <1>5, <1>6 DEF IInv

\* Senders and retry loops have nothing to do with what was reported, but for the faults that
\* excuse it.
LEMMA SeenKeeps ==
    ASSUME SeenWasAnswered, UNCHANGED <<reportVars, suppressed>>, faults \in Nat,
           faults' = faults \/ faults' = faults + 1
    PROVE  SeenWasAnswered'
<1>1. UNCHANGED <<provider, seen, answered, suppressed>> /\ (faults > 0 => faults' > 0)
  BY DEF reportVars
<1> QED
  BY <1>1 DEF SeenWasAnswered, BouncesSuppress, Key, Understood

\* Which emails have an item where, and how often each was accepted: all that a
\* step which leaves queue and workers alone has to account for.
LEMMA SenderKeeps ==
    ASSUME IInv, NEW e \in Emails, SendEmail(e) \/ SendTimesOut(e) \/ CutOffSender(e)
    PROVE  IInv'
<1>0. SeenWasAnswered'
  <2>1. UNCHANGED <<reportVars, suppressed>> /\ (faults' = faults \/ faults' = faults + 1)
    BY DEF SendEmail, Clear, Skip, RenderFails, SendAccepted, SendRefused, LogSending, LogQueued, Push,
           SendTimesOut, CutOffSender, Fault, prefVars
  <2> QED
    BY <2>1, SeenKeeps DEF IInv, TypeOK
<1> USE <1>0
<1> USE EmailsAreKnown, LimitsAreNaturals, NoEmailIsNone
    DEF IInv, TypeOK, OneItem, CopiesCounted, DuplicatesNeedAFault,
        prefVars, logVars, workerVars, reportVars, Goto, SetRow,
        MigratedEventStatuses
<1>1. CASE Clear(e)
  BY <1>1 DEF Clear
<1>2. CASE Skip(e)
  BY <1>2 DEF Skip
<1>3. CASE RenderFails(e)
  BY <1>3 DEF RenderFails
<1>4. CASE SendAccepted(e)
  <2>1. copies' = [copies EXCEPT ![e] = @ + 1] /\ pc' = [pc EXCEPT ![e] = "accepted"] /\ copies[e] = 0
    BY <1>4 DEF SendAccepted, Accepts
  <2>2. UNCHANGED <<suppressed, wants, row, msgid, queue, tries, holds, doing, provider, seen, answered, unread, faults>>
    BY <1>4 DEF SendAccepted
  <2>3. TypeOK' /\ OneItem'
    <3>1. TypeOK'
      <4> HIDE DEF OneItem, CopiesCounted, DuplicatesNeedAFault
      <4> QED
        BY <2>1, <2>2
    <3>2. OneItem'
      <4> HIDE DEF CopiesCounted, DuplicatesNeedAFault
      <4> QED
        BY <2>1, <2>2, <1>4 DEF SendAccepted
    <3> QED
      BY <3>1, <3>2
  <2>4. CopiesCounted'
    <3>1. /\ \A x \in Emails : x # e => copies'[x] = copies[x] /\ pc'[x] = pc[x]
          /\ copies'[e] = 1 /\ pc'[e] = "accepted"
      BY <2>1
    <3>2. ~Contains(queue, e) /\ \A w \in Workers : holds[w] # e
      BY <1>4 DEF SendAccepted
    <3>3. \A w \in Workers : doing[w] = "trying" => holds[w] \in Emails
      OBVIOUS
    <3>4. \A x \in Emails : x # e /\ copies[x] <= 1 + faults => copies'[x] <= 1 + faults'
      BY <2>2, <3>1
    <3>5. \A x \in Emails :
              /\ pc'[x] \in {"start", "cleared"} => copies'[x] = 0
              /\ pc'[x] \in {"refused", "pushing"} \/ Contains(queue', x) => copies'[x] <= faults'
      <4> TAKE x \in Emails
      <4>1. /\ pc[x] \in {"start", "cleared"} => copies[x] = 0
            /\ pc[x] \in {"refused", "pushing"} \/ Contains(queue, x) => copies[x] <= faults
        OBVIOUS
      <4>2. queue' = queue /\ faults' = faults
        BY <2>2
      <4> HIDE DEF IInv
      <4> QED
        BY <3>1, <3>2, <4>1, <4>2
    <3>6. \A w \in Workers : doing'[w] = "trying" => copies'[holds'[w]] <= faults'
      BY <2>2, <3>1, <3>2, <3>3
    <3> QED
      BY <2>2, <3>1, <3>4, <3>5, <3>6
  <2> QED
    BY <2>3, <2>4
<1>5. CASE SendRefused(e)
  BY <1>5 DEF SendRefused
<1>6. CASE LogSending(e)
  BY <1>6 DEF LogSending
<1>7. CASE LogQueued(e)
  BY <1>7 DEF LogQueued
<1>8. CASE Push(e)
  <2>1. ~Contains(queue, e) /\ \A w \in Workers : holds[w] # e
    BY <1>8 DEF Push
  <2>2. /\ queue' \in Seq(Emails) /\ NoRepeats(queue')
        /\ \A x : Contains(queue', x) <=> Contains(queue, x) \/ x = e
    BY <1>8, <2>1, AppendItem DEF Push
  <2> QED
    BY <1>8, <2>1, <2>2 DEF Push
<1>9. CASE SendTimesOut(e)
  BY <1>9 DEF SendTimesOut, Accepts, Fault
<1>10. CASE CutOffSender(e)
  <2>1. TypeOK' /\ faults' = faults + 1
    BY <1>10 DEF CutOffSender, Fault
  <2>2. OneItem'
    BY <1>10 DEF CutOffSender
  <2>3. CopiesCounted'
    BY <1>10, <2>1 DEF CutOffSender
  <2> QED
    BY <2>1, <2>2, <2>3
<1> QED
  BY <1>1, <1>2, <1>3, <1>4, <1>5, <1>6, <1>7, <1>8, <1>9, <1>10 DEF SendEmail

\* A retry loop takes the only item of an email out of the list, and puts it
\* back only when it was refused or at the cost of a fault.
LEMMA WorkerKeeps ==
    ASSUME IInv, NEW w \in Workers, RetryOne(w) \/ RetryFault(w)
    PROVE  IInv'
<1>0. SeenWasAnswered'
  <2>1. UNCHANGED <<reportVars, suppressed>> /\ (faults' = faults \/ faults' = faults + 1)
    BY DEF RetryOne, Pop, Exhaust, RetryAccepted, RetryRefused, MarkSent, RetryFault, RetryTimesOut, MarkFails,
           CutOffWorker, Fault, prefVars
  <2> QED
    BY <2>1, SeenKeeps DEF IInv, TypeOK
<1> USE <1>0
<1> USE EmailsAreKnown, LimitsAreNaturals, NoEmailIsNone
    DEF IInv, TypeOK, OneItem, CopiesCounted, DuplicatesNeedAFault,
        prefVars, logVars, workerVars, reportVars, LetGo, MaySend,
        MigratedEventStatuses
<1>1. CASE Pop(w)
  <2>1. /\ Head(queue) \in Emails /\ Tail(queue) \in Seq(Emails) /\ NoRepeats(Tail(queue))
        /\ Contains(queue, Head(queue)) /\ ~Contains(Tail(queue), Head(queue))
        /\ \A x : Contains(Tail(queue), x) => Contains(queue, x)
    BY <1>1, TailItem DEF Pop
  <2>2. TypeOK'
    <3> HIDE DEF OneItem, CopiesCounted, DuplicatesNeedAFault
    <3>1. tries' \in [Emails -> Nat] /\ queue' \in Seq(Emails)
      BY <1>1, <2>1 DEF Pop
    <3>2. /\ holds' \in [Workers -> Emails \cup {NoEmail}]
          /\ doing' \in [Workers -> {"idle", "trying", "accepted"}]
      BY <1>1, <2>1 DEF Pop
    <3> QED
      BY <1>1, <3>1, <3>2 DEF Pop
  <2>3. OneItem'
    BY <1>1, <2>1 DEF Pop
  <2>4. CopiesCounted'
    <3>1. copies[Head(queue)] <= faults /\ UNCHANGED <<pc, copies, faults>>
      BY <1>1, <2>1 DEF Pop
    <3>2. \A v \in Workers : doing'[v] = "trying" => holds'[v] = Head(queue) \/ (doing[v] = "trying" /\ holds'[v] = holds[v])
      BY <1>1 DEF Pop
    <3>3. CopiesCounted
      OBVIOUS
    <3> HIDE DEF IInv, TypeOK, OneItem
    <3> QED
      BY <1>1, <2>1, <3>1, <3>2, <3>3 DEF Pop
  <2> QED
    BY <2>2, <2>3, <2>4
<1>2. CASE Exhaust(w)
  BY <1>2 DEF Exhaust
<1>3. CASE RetryAccepted(w)
  <2>1. /\ holds[w] \in Emails /\ ~Contains(queue, holds[w]) /\ pc[holds[w]] = "done"
        /\ \A v \in Workers : v # w => holds[v] # holds[w]
        /\ copies[holds[w]] <= faults
    BY <1>3 DEF RetryAccepted
  <2>2. TypeOK' /\ OneItem'
    BY <1>3, <2>1 DEF RetryAccepted, Accepts
  <2>3. CopiesCounted'
    BY <1>3, <2>1 DEF RetryAccepted, Accepts
  <2> QED
    BY <2>2, <2>3
<1>4. ASSUME Requeue(w), doing[w] # "idle"
      PROVE  /\ holds[w] \in Emails
             /\ queue' \in Seq(Emails) /\ NoRepeats(queue')
             /\ \A x : Contains(queue', x) <=> Contains(queue, x) \/ x = holds[w]
  BY <1>4, AppendItem DEF Requeue
<1>5. CASE RetryRefused(w)
  <2>1. /\ holds[w] \in Emails /\ copies[holds[w]] <= faults
        /\ queue' \in Seq(Emails) /\ NoRepeats(queue')
        /\ \A x : Contains(queue', x) <=> Contains(queue, x) \/ x = holds[w]
    BY <1>4, <1>5 DEF RetryRefused
  <2>2. TypeOK'
    BY <1>5, <2>1 DEF RetryRefused, Requeue
  <2>3. OneItem'
    BY <1>5, <2>1 DEF RetryRefused, Requeue
  <2>4. CopiesCounted'
    BY <1>5, <2>1 DEF RetryRefused, Requeue
  <2> QED
    BY <2>2, <2>3, <2>4
<1>6. CASE MarkSent(w)
  BY <1>6 DEF MarkSent, Marked
<1>7. CASE RetryTimesOut(w)
  <2>1. /\ holds[w] \in Emails /\ copies[holds[w]] <= faults
        /\ queue' \in Seq(Emails) /\ NoRepeats(queue')
        /\ \A x : Contains(queue', x) <=> Contains(queue, x) \/ x = holds[w]
    BY <1>4, <1>7 DEF RetryTimesOut
  <2>2. /\ copies' = [copies EXCEPT ![holds[w]] = @ + 1]
        /\ faults' = faults + 1
        /\ UNCHANGED <<pc, provider, seen, answered, unread, suppressed, wants, row, msgid, tries>>
    BY <1>7 DEF RetryTimesOut, Accepts, Fault
  <2>3. TypeOK'
    <3> HIDE DEF OneItem, CopiesCounted, DuplicatesNeedAFault
    <3>1. holds' \in [Workers -> Emails \cup {NoEmail}] /\ doing' \in [Workers -> {"idle", "trying", "accepted"}]
      BY <1>7 DEF RetryTimesOut, Requeue
    <3>2. copies' \in [Emails -> Nat] /\ faults' \in Nat
      <4>1. holds[w] \in Emails
        BY <2>1
      <4> QED
        BY <2>2, <4>1
    <3> QED
      BY <2>1, <2>2, <3>1, <3>2
  <2>4. OneItem'
    BY <1>7, <2>1, <2>2 DEF RetryTimesOut, Requeue
  <2>5. DuplicatesNeedAFault'
    BY <2>1, <2>2
  <2>6. \A e \in Emails : copies[e] <= faults => copies'[e] <= faults'
    <3> TAKE e \in Emails
    <3>1. copies[e] \in Nat /\ faults \in Nat
      OBVIOUS
    <3>2. copies'[e] = copies[e] \/ copies'[e] = copies[e] + 1
      BY <2>2
    <3> QED
      BY <2>2, <3>1, <3>2
  <2>7. CopiesCounted'
    <3>1. \A e \in Emails : pc[e] \in {"start", "cleared"} => copies'[e] = 0
      <4> TAKE e \in Emails
      <4>1. pc[holds[w]] = "done"
        BY <2>1
      <4>2. e # holds[w] => copies'[e] = copies[e]
        BY <2>2
      <4> QED
        BY <4>1, <4>2
    <3>2. \A e \in Emails : pc[e] \in {"refused", "pushing"} \/ Contains(queue', e) => copies'[e] <= faults'
      <4> TAKE e \in Emails
      <4> HAVE pc[e] \in {"refused", "pushing"} \/ Contains(queue', e)
      <4>1. CASE e = holds[w]
        BY <2>1, <2>6, <4>1
      <4>2. CASE Contains(queue, e) \/ pc[e] \in {"refused", "pushing"}
        <5>1. copies[e] <= faults
          BY <4>2
        <5> QED
          BY <2>6, <5>1
      <4> QED
        BY <2>1, <4>1, <4>2
    <3>3. \A v \in Workers : doing'[v] = "trying" => copies'[holds'[v]] <= faults'
      <4> TAKE v \in Workers
      <4>1. CASE v = w
        BY <1>7, <4>1 DEF RetryTimesOut, Requeue
      <4>2. CASE v # w
        <5>1. holds'[v] = holds[v] /\ doing'[v] = doing[v]
          BY <1>7, <4>2 DEF RetryTimesOut, Requeue
        <5>2. doing[v] = "trying" => holds[v] \in Emails /\ copies[holds[v]] <= faults
          OBVIOUS
        <5> QED
          BY <2>6, <5>1, <5>2
      <4> QED
        BY <4>1, <4>2
    <3> QED
      BY <2>2, <2>5, <3>1, <3>2, <3>3
  <2> QED
    BY <2>3, <2>4, <2>7
<1>8. CASE MarkFails(w)
  <2>1. Requeue(w) /\ faults' = faults + 1 /\ UNCHANGED <<pc, copies, tries, provider, seen, answered, unread, suppressed, wants>>
    BY <1>8 DEF MarkFails, Fault
  <2>2. /\ holds[w] \in Emails
        /\ queue' \in Seq(Emails) /\ NoRepeats(queue')
        /\ \A x : Contains(queue', x) <=> Contains(queue, x) \/ x = holds[w]
    BY <1>4, <1>8, <2>1 DEF MarkFails
  <2>3. row' \in [Emails -> MigratedEventStatuses \cup {"none", "failed"}] /\ msgid' \in [Emails -> Nat]
    <3>1. CASE Marked(w)
      BY <2>2, <3>1 DEF Marked
    <3>2. CASE UNCHANGED logVars
      BY <3>2
    <3> QED
      BY <1>8, <3>1, <3>2 DEF MarkFails
  <2>4. TypeOK'
    <3> HIDE DEF OneItem, CopiesCounted, DuplicatesNeedAFault
    <3> QED
      BY <2>1, <2>2, <2>3 DEF Requeue
  <2>5. OneItem'
    BY <1>8, <2>1, <2>2 DEF MarkFails, Requeue
  <2>6. CopiesCounted'
    BY <1>8, <2>1, <2>2 DEF MarkFails, Requeue
  <2> QED
    BY <2>4, <2>5, <2>6
<1>9. CASE CutOffWorker(w)
  <2>1. TypeOK'
    BY <1>9 DEF CutOffWorker, Fault
  <2>2. OneItem'
    BY <1>9 DEF CutOffWorker
  <2>3. CopiesCounted'
    BY <1>9 DEF CutOffWorker, Fault
  <2> QED
    BY <2>1, <2>2, <2>3
<1> QED
  BY <1>1, <1>2, <1>3, <1>5, <1>6, <1>7, <1>8, <1>9 DEF RetryOne, RetryFault

\* What the reports that may come in are about.
LEMMA ReportShape ==
    ASSUME NEW r \in Reportable, copies \in [Emails -> Nat]
    PROVE  /\ r.mail \in Emails /\ r.copy \in 1..copies[r.mail] /\ r.kind \in Kinds
           /\ r \in Report /\ UserOf[r.mail] \in Users
<1>1. PICK e \in Emails : r \in [mail : {e}, copy : 1..copies[e], kind : Understood \cup {"complained"}]
  BY DEF Reportable
<1>2. copies[e] \in Nat /\ Understood \cup {"complained"} \subseteq Kinds
  BY DEF Understood, Kinds
<1>3. r.mail = e /\ r.copy \in 1..copies[e] /\ r.kind \in Kinds
  BY <1>1, <1>2
<1>4. r \in [mail : Emails, copy : Nat, kind : Kinds]
  BY <1>1, <1>2
<1> QED
  BY <1>3, <1>4, EmailsAreKnown DEF Report

\* Whatever it says, a report leaves statuses, switches and suppressed users.
LEMMA EffectShape ==
    ASSUME TypeOK, NEW r \in Reportable, Effect(r)
    PROVE  /\ row' \in [Emails -> MigratedEventStatuses \cup {"none", "failed"}]
           /\ wants' \in [Users -> SUBSET EmailTypes]
           /\ suppressed \subseteq suppressed' /\ suppressed' \subseteq Users
<1>1. r.mail \in Emails /\ r.kind \in Kinds /\ UserOf[r.mail] \in Users
  BY ReportShape DEF TypeOK
<1>2. \A status \in MigratedEventStatuses \cup {"none", "failed"} :
          After(status, r.kind) \in MigratedEventStatuses \cup {"none", "failed"}
  BY <1>1 DEF After, MigratedEventStatuses, Kinds
<1>3. CASE r.kind \notin Understood
  BY <1>3 DEF Effect, TypeOK, prefVars
<1>4. CASE r.kind \in Understood
  <2>1. row' = [row EXCEPT ![r.mail] = IF msgid[r.mail] = r.copy THEN After(@, r.kind) ELSE @]
    BY <1>4 DEF Effect
  <2>2. row' \in [Emails -> MigratedEventStatuses \cup {"none", "failed"}]
    BY <1>1, <1>2, <2>1 DEF TypeOK
  <2>3. wants' = wants \/ wants' = [wants EXCEPT ![UserOf[r.mail]] = @ \ {"marketing"}]
    BY <1>4 DEF Effect
  <2>4. wants' \in [Users -> SUBSET EmailTypes]
    BY <1>1, <2>3 DEF TypeOK
  <2>5. suppressed' = suppressed \/ suppressed' = suppressed \cup {UserOf[r.mail]}
    BY <1>4 DEF Effect
  <2> QED
    BY <1>1, <2>2, <2>4, <2>5 DEF TypeOK
<1> QED
  BY <1>3, <1>4

\* Reports do not send anything; one that is dropped as a duplicate comes under the key of one
\* that was answered before.
LEMMA ReportKeeps ==
    ASSUME IInv, NEW r \in Reportable, NEW bounced \in SUBSET Users, ProcessWebhook(r, bounced)
    PROVE  IInv'
<1>1. /\ r.mail \in Emails /\ r.copy \in 1..copies[r.mail] /\ r.kind \in Kinds
      /\ r \in Report /\ UserOf[r.mail] \in Users
  BY ReportShape DEF IInv, TypeOK
<1>2. /\ HandleReport(r) \/ DuplicateReport(r) \/ LoseReport(r)
      /\ UNCHANGED provider /\ unread' \subseteq Users
  BY DEF ProcessWebhook, IInv, TypeOK
<1> USE EmailsAreKnown, LimitsAreNaturals
    DEF IInv, TypeOK, prefVars, logVars, workerVars, reportVars
<1>3. TypeOK'
  <2>1. CASE HandleReport(r)
    <3>1. answered' \subseteq Report
      BY <1>1, <2>1 DEF HandleReport
    <3> QED
      BY <1>2, <2>1, <3>1, EffectShape DEF HandleReport
  <2>2. CASE DuplicateReport(r)
    BY <1>1, <1>2, <2>2 DEF DuplicateReport
  <2>3. CASE LoseReport(r)
    <3>1. answered' \subseteq Report /\ faults' \in Nat
      BY <1>1, <2>3 DEF LoseReport, Fault
    <3> QED
      BY <1>2, <2>3, <3>1 DEF LoseReport
  <2> QED
    BY <1>2, <2>1, <2>2, <2>3
<1>4. faults' >= faults /\ UNCHANGED <<pc, copies, queue, holds, doing>>
  BY <1>2 DEF HandleReport, DuplicateReport, LoseReport, Fault
<1>5. OneItem'
  BY <1>4 DEF OneItem
<1>6. CopiesCounted'
  <2>1. \A x \in Emails : copies[x] \in Nat /\ (copies[x] <= faults => copies[x] <= faults')
                         /\ (copies[x] <= 1 + faults => copies[x] <= 1 + faults')
    <3> TAKE x \in Emails
    <3>1. copies[x] \in Nat /\ faults \in Nat /\ faults' \in Nat /\ faults' >= faults
      BY <1>3, <1>4
    <3> QED
      BY <3>1
  <2>2. \A w \in Workers : doing[w] = "trying" => holds[w] \in Emails
    BY DEF OneItem
  <2> QED
    BY <1>4, <2>1, <2>2 DEF CopiesCounted, DuplicatesNeedAFault
<1>7. SeenWasAnswered'
  <2>1. Understood' = Understood /\ \A a : Key(a)' = Key(a)
    BY <1>2 DEF Understood, Key
  <2>2. answered' = answered \cup {r}
    BY <1>2 DEF HandleReport, DuplicateReport, LoseReport
  <2>3. seen' \subseteq seen \cup {Key(r)}
    BY <1>2 DEF HandleReport, DuplicateReport, LoseReport
  <2>4. suppressed \subseteq suppressed'
    BY <1>2 DEF HandleReport, DuplicateReport, LoseReport, Effect
  <2>5. faults' = 0 => faults = 0
    BY <1>3, <1>4
  <2>6. \A k \in seen' : \E a \in answered' : Key(a) = k
    BY <2>2, <2>3 DEF SeenWasAnswered
  <2>7. r.kind \in {"bounced", "complained"} \cap Understood =>
            \/ UserOf[r.mail] \in suppressed'
            \/ \E a \in answered' \ {r} : Key(a) = Key(r)
            \/ faults' > 0 \/ r \in answered
    <3>1. CASE HandleReport(r)
      BY <3>1 DEF HandleReport, Effect, Suppresses
    <3>2. CASE DuplicateReport(r)
      <4>1. PICK a \in answered : Key(a) = Key(r)
        BY <3>2 DEF DuplicateReport, SeenWasAnswered
      <4> QED
        BY <2>2, <4>1
    <3>3. CASE LoseReport(r)
      BY <3>3 DEF LoseReport, Fault
    <3> QED
      BY <1>2, <3>1, <3>2, <3>3
  <2>8. BouncesSuppress'
    <3> SUFFICES ASSUME NEW b \in answered', b.kind \in {"bounced", "complained"} \cap Understood
                 PROVE  \/ UserOf[b.mail] \in suppressed'
                        \/ \E a \in answered' \ {b} : Key(a) = Key(b)
                        \/ faults' > 0
      BY <2>1 DEF BouncesSuppress
    <3>1. CASE b \in answered
      <4>1. \/ UserOf[b.mail] \in suppressed
            \/ \E a \in answered \ {b} : Key(a) = Key(b)
            \/ faults > 0
        BY <3>1 DEF SeenWasAnswered, BouncesSuppress
      <4>2. faults > 0 => faults' > 0
        BY <1>3, <1>4
      <4> QED
        BY <2>2, <2>4, <4>1, <4>2
    <3>2. CASE b = r /\ r \notin answered
      BY <2>7, <3>2
    <3> QED
      BY <2>2, <3>1, <3>2
  <2> QED
    BY <2>1, <2>6, <2>8 DEF SeenWasAnswered
<1> QED
  BY <1>3, <1>5, <1>6, <1>7

\* Users only ever add to the suppression list.
LEMMA PreferencesKeep ==
    ASSUME IInv, NEW u \in Users, UpdatePreferences(u) \/ UnsubscribeByToken(u)
    PROVE  IInv'
<1> USE DEF IInv, TypeOK, OneItem, CopiesCounted, DuplicatesNeedAFault, SeenWasAnswered,
            BouncesSuppress, Key, Understood, logVars, workerVars, reportVars
<1>1. CASE UpdatePreferences(u)
  BY <1>1 DEF UpdatePreferences
<1>2. CASE UnsubscribeByToken(u)
  BY <1>2 DEF UnsubscribeByToken
<1> QED
  BY <1>1, <1>2

\* No step leaves the invariant.
LEMMA NextKeeps == IInv /\ [Next]_vars => IInv'
<1> SUFFICES ASSUME IInv, [Next]_vars PROVE IInv'
  OBVIOUS
<1>1. CASE UNCHANGED vars
  BY <1>1 DEF vars, prefVars, logVars, workerVars, reportVars, IInv, TypeOK, OneItem,
     CopiesCounted, DuplicatesNeedAFault, SeenWasAnswered, BouncesSuppress, Key, Understood
<1>2. CASE \E e \in Emails : SendEmail(e) \/ SendTimesOut(e) \/ CutOffSender(e)
  BY <1>2, SenderKeeps
<1>3. CASE \E w \in Workers : RetryOne(w) \/ RetryFault(w)
  BY <1>3, WorkerKeeps
<1>4. CASE \E r \in Reportable, bounced \in SUBSET Users : ProcessWebhook(r, bounced)
  BY <1>4, ReportKeeps
<1>5. CASE \E u \in Users : UpdatePreferences(u) \/ UnsubscribeByToken(u)
  BY <1>5, PreferencesKeep
<1> QED
  BY <1>1, <1>2, <1>3, <1>4, <1>5 DEF Next

\* The invariant holds in every reachable state, however senders, retry loops,
\* reports and faults interleave.
THEOREM Invariance == Spec => []IInv
  BY InitKeeps, NextKeeps, PTL DEF Spec

\* retry_failed_emails has an email accepted again only after a timeout, a
\* failed UPDATE or a cut-off, and once for each.
THEOREM NoDuplicateWithoutFault == Spec => []DuplicatesNeedAFault
<1>1. IInv => DuplicatesNeedAFault
  BY DEF IInv, CopiesCounted
<1> QED
  BY <1>1, Invariance, PTL

\* process_webhook suppresses the user of every bounce and complaint it reads, whichever the
\* provider: but for those whose name the adapter makes one no handler has, those that come after
\* another report under the same key, and failures.
THEOREM BouncesAreNotMissed == Spec => []BouncesSuppress
<1>1. IInv => BouncesSuppress
  BY DEF IInv, SeenWasAnswered
<1> QED
  BY <1>1, Invariance, PTL

-----------------------------------------------------------------------------
(* What is settled *)

\* A status that a report has set, and what becomes of it.
Settled(e) == row[e] \in FinalStatuses => row'[e] \in FinalStatuses \/ faults > 0

\* The sender writes the row of an email that no report has found.
LEMMA SenderSettles ==
    ASSUME IInv, Unreported, NEW e \in Emails, SendEmail(e) \/ SendTimesOut(e) \/ CutOffSender(e)
    PROVE  Unreported' /\ \A x \in Emails : Settled(x)
<1> DEFINE Item(x) == Contains(queue, x) \/ \E w \in Workers : holds[w] = x
<1>1. /\ pc \in [Emails -> {"start", "cleared", "accepted", "refused", "pushing", "done"}]
      /\ row \in [Emails -> MigratedEventStatuses \cup {"none", "failed"}] /\ msgid \in [Emails -> Nat]
      /\ faults \in Nat /\ queue \in Seq(Emails)
      /\ \A w \in Workers : holds[w] = e => pc[e] = "done"
  BY NoEmailIsNone DEF IInv, TypeOK, OneItem
<1>2. UNCHANGED holds /\ (faults' = faults \/ faults' = faults + 1)
  BY DEF SendEmail, Clear, Skip, RenderFails, SendAccepted, SendRefused, LogSending, LogQueued, Push,
         SendTimesOut, CutOffSender, Fault, workerVars
<1>3. /\ pc[e] # "done" /\ \A x \in Emails : x # e => pc'[x] = pc[x]
  BY <1>1 DEF SendEmail, Clear, Skip, RenderFails, SendAccepted, SendRefused, LogSending, LogQueued, Push,
              SendTimesOut, CutOffSender, Goto
<1>4. \/ UNCHANGED msgid
      \/ pc'[e] = "done" /\ UNCHANGED queue /\ row'[e] \notin FinalStatuses /\ \A x \in Emails : x # e => msgid'[x] = msgid[x]
  BY <1>1 DEF SendEmail, Clear, Skip, RenderFails, SendAccepted, SendRefused, LogSending, LogQueued, Push,
              SendTimesOut, CutOffSender, Goto, SetRow, logVars, FinalStatuses
<1>5. /\ row'[e] = row[e] \/ row'[e] \notin FinalStatuses
      /\ \A x \in Emails : x # e => row'[x] = row[x]
  BY <1>1 DEF SendEmail, Clear, Skip, RenderFails, SendAccepted, SendRefused, LogSending, LogQueued, Push,
              SendTimesOut, CutOffSender, SetRow, logVars, FinalStatuses
<1>6. \/ UNCHANGED queue
      \/ Push(e) /\ UNCHANGED msgid /\ \A x : Contains(queue', x) <=> Contains(queue, x) \/ x = e
  <2>1. CASE Push(e)
    <3>1. ~Contains(queue, e) /\ NoRepeats(queue)
      BY <1>3 DEF IInv, OneItem
    <3> QED
      BY <1>1, <2>1, <3>1, AppendItem DEF Push, logVars
  <2>2. CASE ~Push(e)
    BY <2>2 DEF SendEmail, Clear, Skip, RenderFails, SendAccepted, SendRefused, LogSending, LogQueued,
                SendTimesOut, CutOffSender
  <2> QED
    BY <2>1, <2>2
<1>7. msgid[e] = 0 /\ row[e] \notin FinalStatuses /\ ~Contains(queue, e) /\ \A w \in Workers : holds[w] # e
  BY <1>1, <1>3 DEF Unreported, IInv, OneItem
<1>8. Unreported'
  <2> SUFFICES ASSUME NEW x \in Emails
               PROVE  /\ pc'[x] # "done" => msgid'[x] = 0
                      /\ faults' = 0 /\ (Contains(queue', x) \/ \E w \in Workers : holds'[w] = x) => msgid'[x] = 0
                      /\ msgid'[x] = 0 => row'[x] \notin FinalStatuses
    BY DEF Unreported
  <2>1. faults' = 0 => faults = 0
    BY <1>1, <1>2
  <2>2. CASE x = e
    BY <1>2, <1>4, <1>5, <1>6, <1>7, <2>2
  <2>3. CASE x # e
    <3>1. Contains(queue', x) <=> Contains(queue, x)
      BY <1>6, <2>3
    <3>2. msgid'[x] = msgid[x] /\ row'[x] = row[x] /\ pc'[x] = pc[x]
      BY <1>3, <1>4, <1>5, <2>3
    <3> QED
      BY <1>2, <2>1, <3>1, <3>2 DEF Unreported
  <2> QED
    BY <2>2, <2>3
<1>9. \A x \in Emails : Settled(x)
  BY <1>5, <1>7 DEF Settled
<1> QED
  BY <1>8, <1>9

\* A retry loop writes the row of an email it holds: no report has found that, or something failed.
LEMMA WorkerSettles ==
    ASSUME IInv, Unreported, NEW w \in Workers, RetryOne(w) \/ RetryFault(w)
    PROVE  Unreported' /\ \A x \in Emails : Settled(x)
<1>1. /\ row \in [Emails -> MigratedEventStatuses \cup {"none", "failed"}] /\ msgid \in [Emails -> Nat]
      /\ faults \in Nat /\ queue \in Seq(Emails) /\ NoRepeats(queue) /\ copies \in [Emails -> Nat]
      /\ holds \in [Workers -> Emails \cup {NoEmail}] /\ doing \in [Workers -> {"idle", "trying", "accepted"}]
      /\ \A v \in Workers : holds[v] \in Emails => ~Contains(queue, holds[v]) /\ pc[holds[v]] = "done"
      /\ \A v \in Workers : holds[v] \in Emails /\ holds[v] = holds[w] => v = w
      /\ doing[w] # "idle" <=> holds[w] \in Emails
  BY NoEmailIsNone DEF IInv, TypeOK, OneItem
<1>2. UNCHANGED pc /\ (faults' = faults \/ faults' = faults + 1)
  BY DEF RetryOne, Pop, Exhaust, RetryAccepted, RetryRefused, MarkSent, RetryFault, RetryTimesOut, MarkFails,
         CutOffWorker, Fault
<1>3. CASE Pop(w)
  <2>1. /\ UNCHANGED <<row, msgid, faults>> /\ holds' = [holds EXCEPT ![w] = Head(queue)] /\ queue' = Tail(queue)
        /\ queue # <<>>
    BY <1>3 DEF Pop, logVars
  <2>2. Contains(queue, Head(queue)) /\ \A x : Contains(queue', x) => Contains(queue, x)
    BY <1>1, <2>1, TailItem
  <2>3. \A x \in Emails : Contains(queue', x) \/ (\E v \in Workers : holds'[v] = x)
            => Contains(queue, x) \/ \E v \in Workers : holds[v] = x
    BY <1>1, <2>1, <2>2
  <2>4. Unreported'
    BY <1>2, <2>1, <2>3 DEF Unreported
  <2> QED
    BY <2>1, <2>4 DEF Settled
<1>4. ASSUME ~Pop(w)
      PROVE  /\ doing[w] # "idle" /\ \A x \in Emails : x # holds[w] => row'[x] = row[x] /\ msgid'[x] = msgid[x]
             /\ \/ UNCHANGED msgid /\ row'[holds[w]] \in {row[holds[w]], "failed"}
                \/ row'[holds[w]] = "sent"
             /\ \/ UNCHANGED <<holds, queue>>
                \/ holds' = [holds EXCEPT ![w] = NoEmail] /\ UNCHANGED queue
                \/ Requeue(w)
             /\ ~(UNCHANGED msgid) =>
                    holds' = [holds EXCEPT ![w] = NoEmail] /\ (UNCHANGED queue \/ faults' = faults + 1)
  <2>1. CASE Exhaust(w)
    BY <1>1, <2>1 DEF Exhaust, LetGo
  <2>2. CASE RetryAccepted(w)
    BY <1>1, <2>2 DEF RetryAccepted, MaySend, logVars
  <2>3. CASE RetryRefused(w)
    BY <1>1, <2>3 DEF RetryRefused, MaySend, logVars
  <2>4. CASE MarkSent(w)
    BY <1>1, <2>4 DEF MarkSent, Marked, LetGo
  <2>5. CASE RetryTimesOut(w)
    BY <1>1, <2>5 DEF RetryTimesOut, MaySend, logVars
  <2>6. CASE MarkFails(w)
    BY <1>1, <2>6 DEF MarkFails, Marked, Requeue, LetGo, logVars, Fault
  <2>7. CASE CutOffWorker(w)
    BY <1>1, <2>7 DEF CutOffWorker, LetGo, logVars
  <2> QED
    BY <1>4, <2>1, <2>2, <2>3, <2>4, <2>5, <2>6, <2>7 DEF RetryOne, RetryFault
<1>5. CASE ~Pop(w)
  <2>1. holds[w] \in Emails /\ ~Contains(queue, holds[w]) /\ pc[holds[w]] = "done"
    BY <1>1, <1>4, <1>5
  <2>2. faults = 0 => msgid[holds[w]] = 0 /\ row[holds[w]] \notin FinalStatuses
    BY <2>1 DEF Unreported
  <2>3. \A x \in Emails : Settled(x)
    <3> SUFFICES ASSUME NEW x \in Emails, row[x] \in FinalStatuses, faults = 0 PROVE row'[x] = row[x]
      BY <1>1 DEF Settled
    <3> QED
      BY <1>4, <1>5, <2>2
  <2>4. \A x \in Emails : Contains(queue', x) \/ (\E v \in Workers : holds'[v] = x)
            => Contains(queue, x) \/ \E v \in Workers : holds[v] = x
    <3>1. CASE Requeue(w)
      <4>1. \A x : Contains(queue', x) <=> Contains(queue, x) \/ x = holds[w]
        BY <1>1, <2>1, <3>1, AppendItem DEF Requeue
      <4>2. \A v \in Workers : holds'[v] \in {holds[v], NoEmail}
        BY <1>1, <3>1 DEF Requeue, LetGo
      <4> QED
        BY <4>1, <4>2, NoEmailIsNone
    <3>2. CASE UNCHANGED queue
      <4>1. \A v \in Workers : holds'[v] \in {holds[v], NoEmail}
        BY <1>1, <1>4, <1>5 DEF Requeue, LetGo
      <4> QED
        BY <3>2, <4>1, NoEmailIsNone
    <3> QED
      BY <1>4, <1>5, <3>1, <3>2
  <2>5. Unreported'
    <3> SUFFICES ASSUME NEW x \in Emails
                 PROVE  /\ pc'[x] # "done" => msgid'[x] = 0
                        /\ faults' = 0 /\ (Contains(queue', x) \/ \E v \in Workers : holds'[v] = x) => msgid'[x] = 0
                        /\ msgid'[x] = 0 => row'[x] \notin FinalStatuses
      BY DEF Unreported
    <3>1. faults' = 0 => faults = 0
      BY <1>1, <1>2
    <3>2. CASE x # holds[w] \/ UNCHANGED msgid
      <4>1. msgid'[x] = msgid[x] /\ (row'[x] = row[x] \/ row'[x] \in {"failed", "sent"})
        BY <1>4, <1>5, <3>2
      <4> QED
        BY <1>2, <2>4, <3>1, <4>1 DEF Unreported, FinalStatuses
    <3>3. CASE x = holds[w] /\ ~(UNCHANGED msgid)
      <4>1. row'[x] = "sent" /\ pc'[x] = "done"
        BY <1>2, <1>4, <1>5, <2>1, <3>3
      <4>2. holds' = [holds EXCEPT ![w] = NoEmail] /\ (faults' = 0 => UNCHANGED queue)
        BY <1>1, <1>4, <1>5, <3>3
      <4>3. \A v \in Workers : holds'[v] # x
        BY <1>1, <2>1, <3>3, <4>2, NoEmailIsNone
      <4> QED
        BY <2>1, <3>3, <4>1, <4>2, <4>3 DEF FinalStatuses
    <3> QED
      BY <3>2, <3>3
  <2> QED
    BY <2>3, <2>5
<1> QED
  BY <1>3, <1>5

\* A report finds rows by the id of a message that has been accepted, and does not unsettle one.
LEMMA ReportSettles ==
    ASSUME IInv, Unreported, NEW r \in Reportable, NEW bounced, ProcessWebhook(r, bounced)
    PROVE  Unreported' /\ \A x \in Emails : Settled(x)
<1> DEFINE e == r.mail  n == r.copy  kind == r.kind
<1>1. e \in Emails /\ n \in 1..copies[e] /\ kind \in Kinds
  BY ReportShape DEF IInv, TypeOK
<1>2. HandleReport(r) \/ DuplicateReport(r) \/ LoseReport(r)
  BY DEF ProcessWebhook
<1>3. UNCHANGED <<pc, msgid, queue, holds>> /\ (faults' = faults \/ faults' = faults + 1)
  BY <1>2 DEF HandleReport, DuplicateReport, LoseReport, Fault, logVars, workerVars
<1>4. row' = row \/ row' = [row EXCEPT ![e] = IF msgid[e] = n THEN After(@, kind) ELSE @]
  BY <1>2 DEF HandleReport, DuplicateReport, LoseReport, Effect, logVars
<1>5. /\ row \in [Emails -> MigratedEventStatuses \cup {"none", "failed"}] /\ faults \in Nat
      /\ copies[e] \in Nat /\ n # 0
  BY <1>1 DEF IInv, TypeOK
<1>6. row[e] \in FinalStatuses => After(row[e], kind) \in FinalStatuses
  BY <1>1 DEF After, FinalStatuses, Kinds
<1>7. \A x \in Emails : row'[x] = row[x] \/ (x = e /\ msgid[e] = n /\ row'[e] = After(row[e], kind))
  BY <1>1, <1>4, <1>5
<1> HIDE DEF e, n, kind
<1>8. Unreported'
  <2> SUFFICES ASSUME NEW x \in Emails
               PROVE  /\ pc[x] # "done" => msgid[x] = 0
                      /\ faults' = 0 /\ (Contains(queue, x) \/ \E w \in Workers : holds[w] = x) => msgid[x] = 0
                      /\ msgid[x] = 0 => row'[x] \notin FinalStatuses
    BY <1>3 DEF Unreported
  <2>1. faults' = 0 => faults = 0
    BY <1>3, <1>5
  <2>2. msgid[x] = 0 => row'[x] = row[x]
    BY <1>5, <1>7
  <2> QED
    BY <2>1, <2>2 DEF Unreported
<1>9. \A x \in Emails : Settled(x)
  BY <1>6, <1>7 DEF Settled
<1> QED
  BY <1>8, <1>9

\* No step leaves Unreported, or unsettles a row.
LEMMA NextSettles ==
    ASSUME IInv, Unreported, [Next]_vars
    PROVE  Unreported' /\ \A x \in Emails : Settled(x)
<1>1. ASSUME UNCHANGED <<pc, row, msgid, queue, holds, faults>>
      PROVE  Unreported' /\ \A x \in Emails : Settled(x)
  BY <1>1 DEF Unreported, Settled
<1>2. CASE UNCHANGED vars
  BY <1>1, <1>2 DEF vars, logVars, workerVars
<1>3. CASE \E u \in Users : UpdatePreferences(u) \/ UnsubscribeByToken(u)
  BY <1>1, <1>3 DEF UpdatePreferences, UnsubscribeByToken, logVars, workerVars
<1> QED
  BY <1>2, <1>3, SenderSettles, WorkerSettles, ReportSettles DEF Next

\* Not sent yet, and nothing under way to be sent: either not begun, for a user who is suppressed,
\* or over.
Silent(e) ==
    /\ copies[e] = 0
    /\ \/ pc[e] = "start" /\ UserOf[e] \in suppressed
       \/ pc[e] = "done" /\ ~Contains(queue, e) /\ \A w \in Workers : holds[w] # e

\* Unless it is forced, an email stays silent: Clear refuses, and only an item can be retried.
LEMMA SilentStays ==
    ASSUME IInv, NEW e \in Emails \ Forced, Silent(e), [Next]_vars
    PROVE  Silent(e)'
<1>1. /\ ~Contains(queue, e) /\ \A w \in Workers : holds[w] # e
      /\ pc \in [Emails -> {"start", "cleared", "accepted", "refused", "pushing", "done"}]
      /\ copies \in [Emails -> Nat] /\ queue \in Seq(Emails) /\ NoRepeats(queue)
      /\ holds \in [Workers -> Emails \cup {NoEmail}]
      /\ \A w \in Workers : doing[w] # "idle" => holds[w] \in Emails /\ ~Contains(queue, holds[w])
      /\ \A x \in Emails : Contains(queue, x) => pc[x] = "done"
  <2>1. TypeOK /\ OneItem
    BY DEF IInv
  <2>2. \A w \in Workers : doing[w] # "idle" => holds[w] \in Emails /\ ~Contains(queue, holds[w])
    BY <2>1 DEF TypeOK, OneItem
  <2>3. ~Contains(queue, e) /\ \A w \in Workers : holds[w] # e
    BY <2>1, NoEmailIsNone DEF Silent, OneItem
  <2> QED
    BY <2>1, <2>2, <2>3 DEF TypeOK, OneItem
<1>2. ASSUME copies'[e] = copies[e], pc'[e] = pc[e], suppressed \subseteq suppressed',
             ~Contains(queue', e), \A w \in Workers : holds'[w] # e
      PROVE  Silent(e)'
  BY <1>2 DEF Silent
<1>3. ASSUME NEW x \in Emails, SendEmail(x) \/ SendTimesOut(x) \/ CutOffSender(x)
      PROVE  Silent(e)'
  <2>1. UNCHANGED <<holds, suppressed>>
    BY <1>3 DEF SendEmail, Clear, Skip, RenderFails, SendAccepted, SendRefused, LogSending, LogQueued, Push,
                SendTimesOut, CutOffSender, workerVars, prefVars
  <2>2. CASE x # e
    <3>1. copies'[e] = copies[e] /\ pc'[e] = pc[e]
      BY <1>1, <1>3, <2>2 DEF SendEmail, Clear, Skip, RenderFails, SendAccepted, SendRefused, LogSending, LogQueued,
                Push, SendTimesOut, CutOffSender, Goto, Accepts
    <3>2. ~Contains(queue', e)
      <4>1. CASE Push(x)
        <5>1. ~Contains(queue, x) /\ queue' = Append(queue, x)
          BY <1>1, <4>1 DEF Push
        <5> QED
          BY <1>1, <2>2, <5>1, AppendItem
      <4>2. CASE UNCHANGED queue
        BY <1>1, <4>2
      <4> QED
        BY <1>3, <4>1, <4>2 DEF SendEmail, Clear, Skip, RenderFails, SendAccepted, SendRefused, LogSending,
                LogQueued, SendTimesOut, CutOffSender
    <3> QED
      BY <1>1, <1>2, <2>1, <3>1, <3>2
  <2>3. CASE x = e
    <3>1. pc[e] = "start" /\ ~CanSend(e)
      BY <1>3, <2>3 DEF Silent, CanSend, SendEmail, Clear, Skip, RenderFails, SendAccepted, SendRefused, LogSending,
                LogQueued, Push, SendTimesOut, CutOffSender
    <3>2. Skip(e)
      BY <1>3, <2>3, <3>1 DEF SendEmail, Clear, RenderFails, SendAccepted, SendRefused, LogSending, LogQueued, Push,
                SendTimesOut, CutOffSender
    <3>3. pc'[e] = "done" /\ UNCHANGED <<copies, queue, holds>>
      BY <1>1, <3>2 DEF Skip, Goto, workerVars
    <3> QED
      BY <1>1, <3>3 DEF Silent
  <2> QED
    BY <2>2, <2>3
<1>4. ASSUME NEW w \in Workers, RetryOne(w) \/ RetryFault(w)
      PROVE  Silent(e)'
  <2>1. UNCHANGED <<pc, suppressed>>
    BY <1>4 DEF RetryOne, Pop, Exhaust, RetryAccepted, RetryRefused, MarkSent, RetryFault, RetryTimesOut, MarkFails,
                CutOffWorker, prefVars
  <2>2. CASE Pop(w)
    <3>1. /\ queue # <<>> /\ queue' = Tail(queue) /\ holds' = [holds EXCEPT ![w] = Head(queue)] /\ UNCHANGED copies
      BY <2>2 DEF Pop
    <3>2. Head(queue) # e /\ ~Contains(queue', e)
      BY <1>1, <3>1, TailItem
    <3> QED
      BY <1>1, <1>2, <2>1, <3>1, <3>2
  <2>3. CASE ~Pop(w)
    <3>1. doing[w] # "idle" /\ holds[w] # e /\ holds[w] \in Emails /\ ~Contains(queue, holds[w])
      BY <1>1, <1>4, <2>3 DEF RetryOne, Exhaust, RetryAccepted, RetryRefused, MarkSent, RetryFault, RetryTimesOut,
                MarkFails, CutOffWorker, MaySend
    <3>2. copies'[e] = copies[e]
      BY <1>1, <1>4, <2>3, <3>1 DEF RetryOne, Exhaust, RetryAccepted, RetryRefused, MarkSent, RetryFault,
                RetryTimesOut, MarkFails, CutOffWorker, Accepts
    <3>3. \A v \in Workers : holds'[v] # e
      <4>1. holds' = holds \/ holds' = [holds EXCEPT ![w] = NoEmail]
        BY <1>4, <2>3 DEF RetryOne, Exhaust, RetryAccepted, RetryRefused, MarkSent, RetryFault, RetryTimesOut,
                MarkFails, CutOffWorker, Requeue, LetGo
      <4> QED
        BY <1>1, <4>1, NoEmailIsNone
    <3>4. ~Contains(queue', e)
      <4>1. queue' = queue \/ queue' = Append(queue, holds[w])
        BY <1>4, <2>3 DEF RetryOne, Exhaust, RetryAccepted, RetryRefused, MarkSent, RetryFault, RetryTimesOut,
                MarkFails, CutOffWorker, Requeue
      <4>2. Contains(Append(queue, holds[w]), e) <=> Contains(queue, e) \/ e = holds[w]
        BY <1>1, <3>1, AppendItem
      <4> QED
        BY <1>1, <3>1, <4>1, <4>2
    <3> QED
      BY <1>2, <2>1, <3>2, <3>3, <3>4
  <2> QED
    BY <2>2, <2>3
<1>5. ASSUME suppressed \subseteq suppressed', UNCHANGED <<pc, copies, queue, holds>>
      PROVE  Silent(e)'
  BY <1>1, <1>2, <1>5
<1>6. ASSUME NEW r, NEW bounced, ProcessWebhook(r, bounced)
      PROVE  suppressed \subseteq suppressed' /\ UNCHANGED <<pc, copies, queue, holds>>
  BY <1>6 DEF ProcessWebhook, HandleReport, DuplicateReport, LoseReport, Effect, prefVars, workerVars
<1>7. ASSUME NEW u \in Users, UpdatePreferences(u) \/ UnsubscribeByToken(u)
      PROVE  suppressed \subseteq suppressed' /\ UNCHANGED <<pc, copies, queue, holds>>
  BY <1>7 DEF UpdatePreferences, UnsubscribeByToken, workerVars
<1>8. CASE UNCHANGED vars
  BY <1>5, <1>8 DEF vars, prefVars, workerVars
<1> QED
  BY <1>3, <1>4, <1>5, <1>6, <1>7, <1>8 DEF Next

\* A retry does not start over what a report has settled, but for a fault; and an email asked for
\* after its user was suppressed is never sent, by no retry either.
THEOREM WhatIsSettledStays == Spec => SettledStaysSettled
<1>1. Init => Unreported
  BY DEF Init, Unreported, FinalStatuses
<1>2. IInv /\ Unreported /\ [Next]_vars => Unreported'
  BY NextSettles
<1>3. IInv /\ Unreported /\ [Next]_vars =>
          [\A e \in Emails : row[e] \in FinalStatuses => row'[e] \in FinalStatuses \/ faults > 0]_vars
  BY NextSettles DEF Settled
<1>4. Spec => FinalStatusStays
  BY <1>1, <1>2, <1>3, Invariance, PTL DEF Spec, FinalStatusStays
<1>5. ASSUME NEW e \in Emails \ Forced
      PROVE  Spec => [](pc[e] = "start" /\ UserOf[e] \in suppressed => [](copies[e] = 0))
  <2>1. IInv /\ pc[e] = "start" /\ UserOf[e] \in suppressed => Silent(e)
    BY DEF IInv, CopiesCounted, Silent
  <2>2. IInv /\ Silent(e) /\ [Next]_vars => Silent(e)'
    BY SilentStays
  <2>3. Silent(e) => copies[e] = 0
    BY DEF Silent
  <2> QED
    BY <2>1, <2>2, <2>3, Invariance, PTL DEF Spec
<1>6. Spec => SuppressedStaysSilent
  BY <1>5 DEF SuppressedStaysSilent
<1> QED
  BY <1>4, <1>6 DEF SettledStaysSettled
=============================================================================
