----------------------- MODULE StockReservation_proofs -----------------------
(***************************************************************************)
(* Proofs about StockReservation, for every set of transactions and        *)
(* variants: the inductive invariant IInv, and from it                     *)
(*   - the inventory log explains the shelf (no product-editor overwrites),*)
(*   - transactions that sort their rows never wait for each other in a    *)
(*     circle,                                                             *)
(*   - what orders have taken has come off the shelf, so that nothing is   *)
(*     oversold (no overwrites, no paid sessions),                         *)
(*   - the lock-by-lock transactions implement StockLedger.                *)
(* WriteRowKeeps, RollbackKeeps and PublishKeeps carry the actions that    *)
(* share these operators; the other actions have a lemma each. NoOversell  *)
(* adds up over sets of transactions: the lemmas about SumFunctionOnSet    *)
(* unfold its recursion and establish what a sum is, for every finite set, *)
(* by considering a least set for which it would fail.                     *)
(***************************************************************************)
EXTENDS StockReservation, FiniteSetTheorems, WellFoundedInduction, TLAPS

USE DEF NoRow

\* Before anything runs nothing is locked, written or pending elsewhere, so
\* the invariant holds.
LEMMA InitKeeps == Init => IInv
<1> SUFFICES ASSUME Init PROVE IInv
  OBVIOUS
<1> USE VariantsAreIds, TxKindsDisjoint, LinesAreRows, QuantitiesAreIntegers, ShelfIsFilled DEF Init
<1>1. TypeOK
  BY DEF TypeOK, Nothing, Phases
<1>2. StatementsInPlace
  BY DEF StatementsInPlace
<1>3. LocksOwned
  BY DEF LocksOwned, Dealt, Tx
<1>4. OrdersAscend
  BY DEF OrdersAscend, Dealt, Tx
<1>5. WritesAreLines
  BY DEF WritesAreLines, Uncommitted, Dealt, Nothing
<1>6. ReservationsCovered
  BY DEF ReservationsCovered, Dealt, Reservers, Tx
<1>7. OnlySessionsSkip
  BY DEF OnlySessionsSkip, Dealt
<1> QED
  BY <1>1, <1>2, <1>3, <1>4, <1>5, <1>6, <1>7 DEF IInv

\* A statement is about a row of the shelf that its transaction has not dealt
\* with, and that no other transaction has dealt with and still runs.
LEMMA LineIsPending ==
    ASSUME IInv, NEW t \in Tx, phase[t] \in {"asking", "locked"}
    PROVE  /\ line[t] \in Variants
           /\ line[t] \in pending[t]
           /\ line[t] \in LinesOf[t]
           /\ line[t] \notin Dealt(t)
           /\ line[t] \notin skipped[t]
           /\ pending[t] \subseteq Variants
           /\ t \in Orders => \A w \in pending[t] : line[t] <= w
<1>1. line[t] \in NextLines(t) /\ pending[t] \subseteq LinesOf[t]
  BY DEF IInv, StatementsInPlace
<1>2. LinesOf[t] \subseteq Variants
  BY LinesAreRows
<1> QED
  BY <1>1, <1>2 DEF NextLines, Dealt, IInv, OnlySessionsSkip

\* An UPDATE of the current row keeps the invariant, if a reservation is
\* covered by the shelf and the change is the one its kind of transaction makes.
LEMMA WriteRowKeeps ==
    ASSUME IInv, NEW t \in Tx, NEW n \in Int, NEW r \in Int,
           phase[t] \in {"asking", "locked"},
           t \in Reservers => n = -Qty[t][line[t]] /\ stock[line[t]] >= Qty[t][line[t]],
           t \in Overwrites => n = Qty[t][line[t]] - stock[line[t]],
           t \notin Reservers \cup Overwrites => n = Qty[t][line[t]],
           t \notin Overwrites => r = n,
           WriteRow(t, n, r)
    PROVE  IInv'
<1> DEFINE l == line[t]
<1>0. /\ l \in Variants /\ l \in pending[t] /\ l \in LinesOf[t] /\ l \notin Dealt(t) /\ l \notin skipped[t]
      /\ pending[t] \subseteq Variants
      /\ t \in Orders => \A w \in pending[t] : l <= w
  BY LineIsPending
<1>1. TypeOK'
  BY <1>0, TxKindsDisjoint DEF IInv, TypeOK, WriteRow, Phases
<1>2. /\ \A u \in Tx : u # t => /\ phase'[u] = phase[u] /\ pending'[u] = pending[u]
                              /\ change'[u] = change[u] /\ noted'[u] = noted[u]
      /\ phase'[t] = "next" /\ pending'[t] = pending[t] \ {l}
      /\ change'[t][l] = n /\ noted'[t][l] = r
      /\ \A v \in Variants : v # l => /\ holder'[v] = holder[v]
                                     /\ change'[t][v] = change[t][v] /\ noted'[t][v] = noted[t][v]
      /\ holder'[l] = t /\ holder[l] \in {t, NoTx}
      /\ line' = line /\ seen' = seen /\ skipped' = skipped /\ stock' = stock
  BY <1>0, QuantitiesAreIntegers DEF IInv, TypeOK, WriteRow, RowFree
<1>3. Dealt(t)' = Dealt(t) \cup {l} /\ \A u \in Tx : u # t => Dealt(u)' = Dealt(u)
  BY <1>0, <1>2 DEF Dealt
<1>4. Active(t) /\ Active(t)' /\ \A u \in Tx : u # t => Active(u)' = Active(u)
  BY <1>2 DEF Active
<1>5. StatementsInPlace'
  <2> SUFFICES ASSUME NEW u \in Tx
               PROVE  /\ pending'[u] \subseteq LinesOf[u]
                      /\ phase'[u] \in {"asking", "locked"} => line'[u] \in NextLines(u)'
                      /\ phase'[u] = "locked" => /\ u \in Reservers
                                                /\ holder'[line'[u]] = u
                                                /\ seen'[u] = stock'[line'[u]]
    BY DEF StatementsInPlace
  <2>1. CASE u = t
    BY <2>1, <1>2 DEF IInv, StatementsInPlace
  <2>2. CASE u # t
    <3>1. NextLines(u)' = NextLines(u)
      BY <2>2, <1>2 DEF NextLines
    <3>2. phase[u] = "locked" => line[u] \in Variants
      BY LineIsPending
    <3>3. phase[u] = "locked" => holder[line[u]] = u /\ line[u] # l
      BY <2>2, <1>2, TxKindsDisjoint DEF IInv, StatementsInPlace
    <3> QED
      BY <2>2, <3>1, <3>2, <3>3, <1>2 DEF IInv, StatementsInPlace
  <2> QED
    BY <2>1, <2>2
<1>6. LocksOwned'
  <2> SUFFICES ASSUME NEW u \in Tx, NEW v \in Variants
               PROVE  holder'[v] = u <=>
                        /\ Active(u)'
                        /\ v \in Dealt(u)' \/ (phase'[u] = "locked" /\ v = line'[u])
    BY DEF LocksOwned
  <2>0. holder[v] = u <=>
          Active(u) /\ (v \in Dealt(u) \/ (phase[u] = "locked" /\ v = line[u]))
    BY DEF IInv, LocksOwned
  <2>1. CASE u = t
    BY <2>0, <2>1, <1>0, <1>2, <1>3, <1>4
  <2>2. CASE u # t /\ v = l
    <3>1. holder[l] # u
      BY <2>2, <1>2, TxKindsDisjoint
    <3> QED
      BY <3>1, <2>0, <2>2, <1>2, <1>3, <1>4
  <2>3. CASE u # t /\ v # l
    BY <2>0, <2>3, <1>2, <1>3, <1>4
  <2> QED
    BY <2>1, <2>2, <2>3
<1>7. OrdersAscend'
  <2> SUFFICES ASSUME NEW u \in Orders, NEW v \in Dealt(u)', NEW w \in pending[u]'
               PROVE  v < w
    BY DEF OrdersAscend
  <2>1. u \in Tx
    BY DEF Tx
  <2>2. CASE u = t /\ v = l
    <3>1. w \in pending[t] /\ w # l /\ l <= w
      BY <2>2, <1>2, <1>0
    <3>2. l \in Nat /\ w \in Nat
      BY <3>1, <1>0, VariantsAreIds
    <3> QED
      BY <3>1, <3>2, <2>2
  <2>3. CASE ~(u = t /\ v = l)
    <3>1. v \in Dealt(u) /\ w \in pending[u]
      BY <2>1, <2>3, <1>2, <1>3
    <3> QED
      BY <3>1 DEF IInv, OrdersAscend
  <2> QED
    BY <2>2, <2>3
<1>8. WritesAreLines'
  <2> SUFFICES ASSUME NEW u \in Tx, NEW v \in Variants
               PROVE  /\ change'[u][v] = Uncommitted(u, v)'
                      /\ u \notin Overwrites => noted'[u][v] = change'[u][v]
    BY DEF WritesAreLines
  <2>1. CASE u = t /\ v = l
    BY <2>1, <1>0, <1>2, <1>3, <1>4, TxKindsDisjoint DEF Uncommitted, Reservers
  <2>2. CASE ~(u = t /\ v = l)
    BY <2>2, <1>2, <1>3, <1>4 DEF Uncommitted, IInv, WritesAreLines
  <2> QED
    BY <2>1, <2>2
<1>9. ReservationsCovered'
  <2> SUFFICES ASSUME NEW u \in Reservers, Active(u)', NEW v \in Dealt(u)'
               PROVE  IF v \in skipped'[u] THEN stock'[v] < Qty[u][v] ELSE stock'[v] >= Qty[u][v]
    BY DEF ReservationsCovered
  <2>1. u \in Tx
    BY DEF Tx, Reservers
  <2>2. CASE u = t /\ v = l
    BY <2>2, <1>0, <1>2
  <2>3. CASE ~(u = t /\ v = l)
    <3>1. Active(u) /\ v \in Dealt(u)
      BY <2>1, <2>3, <1>2, <1>3, <1>4
    <3> QED
      BY <3>1, <1>2 DEF IInv, ReservationsCovered
  <2> QED
    BY <2>2, <2>3
<1>10. OnlySessionsSkip'
  BY <1>2, <1>3 DEF IInv, OnlySessionsSkip
<1> QED
  BY <1>1, <1>5, <1>6, <1>7, <1>8, <1>9, <1>10 DEF IInv

\* t ends in phase p: its locks and private data are gone, those of the others
\* are as they were.
EndsAlone(t, p) ==
    /\ \A u \in Tx : u # t => /\ phase'[u] = phase[u] /\ pending'[u] = pending[u]
                             /\ line'[u] = line[u] /\ seen'[u] = seen[u]
                             /\ change'[u] = change[u] /\ noted'[u] = noted[u]
                             /\ Dealt(u)' = Dealt(u) /\ Active(u)' = Active(u)
    /\ phase'[t] = p /\ ~Active(t)' /\ pending'[t] = {} /\ Dealt(t)' = LinesOf[t]
    /\ \A v \in Variants : /\ change'[t][v] = 0 /\ noted'[t][v] = 0
                           /\ holder'[v] # t
                           /\ \A u \in Tx : u # t => (holder'[v] = u <=> holder[v] = u)
    /\ skipped' = skipped

\* A transaction that ends drops its locks and private data and touches
\* nothing of the others.
LEMMA EndFrame ==
    ASSUME IInv, NEW t \in Tx, NEW p \in {"failed", "done"},
           phase' = [phase EXCEPT ![t] = p], ReleaseLocks(t), Discard(t),
           skipped' = skipped
    PROVE  EndsAlone(t, p)
<1> USE TxKindsDisjoint, LinesAreRows DEF IInv, TypeOK, ReleaseLocks, Discard, Ended, Nothing
<1>1. \A u \in Tx : u # t => /\ phase'[u] = phase[u] /\ pending'[u] = pending[u]
                                   /\ line'[u] = line[u] /\ seen'[u] = seen[u]
                                   /\ change'[u] = change[u] /\ noted'[u] = noted[u]
  OBVIOUS
<1>2. phase'[t] = p /\ pending'[t] = {} /\ change'[t] = Nothing /\ noted'[t] = Nothing
  OBVIOUS
<1>3. \A v \in Variants : holder'[v] = IF holder[v] = t THEN NoTx ELSE holder[v]
  OBVIOUS
<1> QED
  BY <1>1, <1>2, <1>3 DEF EndsAlone, Dealt, Active

\* A rollback, for whatever reason, keeps the invariant.
LEMMA RollbackKeeps ==
    ASSUME IInv, NEW t \in Tx, Rollback(t)
    PROVE  IInv'
<1>0. /\ phase' = [phase EXCEPT ![t] = "failed"] /\ ReleaseLocks(t) /\ Discard(t)
      /\ stock' = stock /\ ledger' = ledger /\ skipped' = skipped
  BY DEF Rollback
<1>1. EndsAlone(t, "failed")
  BY <1>0, EndFrame
<1> USE LinesAreRows DEF IInv, EndsAlone
<1>2. TypeOK'
  BY <1>0, TxKindsDisjoint DEF TypeOK, ReleaseLocks, Discard, Phases, Nothing
<1>3. StatementsInPlace'
  BY <1>0, <1>1 DEF StatementsInPlace, NextLines, TypeOK
<1>4. LocksOwned'
  BY <1>1 DEF LocksOwned
<1>5. OrdersAscend'
  BY <1>1 DEF OrdersAscend, Tx
<1>6. WritesAreLines'
  BY <1>0, <1>1 DEF WritesAreLines, Uncommitted
<1>7. ReservationsCovered'
  BY <1>0, <1>1 DEF ReservationsCovered, Reservers, Tx
<1>8. OnlySessionsSkip'
  BY <1>1, <1>0 DEF OnlySessionsSkip, Dealt
<1> QED
  BY <1>2, <1>3, <1>4, <1>5, <1>6, <1>7, <1>8

\* A committing transaction changes only rows it has locked, so what the others
\* have read or reserved stands.
LEMMA OthersRowsStand ==
    ASSUME IInv, NEW t \in Tx, Publish(t), NEW u \in Tx, u # t, NEW v \in Variants,
           holder[v] = u
    PROVE  stock'[v] = stock[v]
<1>1. v \notin Dealt(t) \/ ~Active(t)
  BY DEF IInv, LocksOwned
<1>2. change[t][v] = 0
  BY <1>1 DEF IInv, WritesAreLines, Uncommitted
<1> QED
  BY <1>2 DEF Publish, IInv, TypeOK

\* A commit keeps the invariant: the rows it changes are its own.
LEMMA PublishKeeps ==
    ASSUME IInv, NEW t \in Tx, phase' = [phase EXCEPT ![t] = "done"], Publish(t)
    PROVE  IInv'
<1>0. /\ ReleaseLocks(t) /\ Discard(t) /\ skipped' = skipped
      /\ stock' = [v \in Variants |-> stock[v] + change[t][v]]
      /\ ledger' = [v \in Variants |-> ledger[v] + noted[t][v]]
  BY DEF Publish
<1>1. EndsAlone(t, "done")
  BY <1>0, EndFrame
<1> USE LinesAreRows DEF IInv, EndsAlone
<1>2. TypeOK'
  BY <1>0, TxKindsDisjoint DEF TypeOK, ReleaseLocks, Discard, Phases, Nothing
<1>3. StatementsInPlace'
  <2> SUFFICES ASSUME NEW u \in Tx
               PROVE  /\ pending'[u] \subseteq LinesOf[u]
                      /\ phase'[u] \in {"asking", "locked"} => line'[u] \in NextLines(u)'
                      /\ phase'[u] = "locked" => /\ u \in Reservers
                                                /\ holder'[line'[u]] = u
                                                /\ seen'[u] = stock'[line'[u]]
    BY DEF StatementsInPlace
  <2>1. CASE u = t
    BY <2>1, <1>1
  <2>2. CASE u # t
    <3>1. NextLines(u)' = NextLines(u)
      BY <2>2, <1>1 DEF NextLines
    <3>2. phase[u] = "locked" => line[u] \in Variants
      BY LineIsPending
    <3>3. phase[u] = "locked" => holder[line[u]] = u /\ stock'[line[u]] = stock[line[u]]
      BY <2>2, <3>2, OthersRowsStand DEF StatementsInPlace
    <3> QED
      BY <2>2, <3>1, <3>2, <3>3, <1>1 DEF StatementsInPlace
  <2> QED
    BY <2>1, <2>2
<1>4. LocksOwned'
  BY <1>1 DEF LocksOwned
<1>5. OrdersAscend'
  BY <1>1 DEF OrdersAscend, Tx
<1>6. WritesAreLines'
  <2> SUFFICES ASSUME NEW u \in Tx, NEW v \in Variants
               PROVE  /\ change'[u][v] = Uncommitted(u, v)'
                      /\ u \notin Overwrites => noted'[u][v] = change'[u][v]
    BY DEF WritesAreLines
  <2>1. CASE u = t
    BY <2>1, <1>1 DEF Uncommitted
  <2>2. CASE u # t
    <3>1. Active(u) /\ v \in Dealt(u) => stock'[v] = stock[v]
      BY <2>2, OthersRowsStand DEF LocksOwned
    <3> QED
      BY <2>2, <3>1, <1>1 DEF Uncommitted, WritesAreLines
  <2> QED
    BY <2>1, <2>2
<1>7. ReservationsCovered'
  <2> SUFFICES ASSUME NEW u \in Reservers, Active(u)', NEW v \in Dealt(u)'
               PROVE  IF v \in skipped'[u] THEN stock'[v] < Qty[u][v] ELSE stock'[v] >= Qty[u][v]
    BY DEF ReservationsCovered
  <2>1. u \in Tx /\ u # t
    BY <1>1 DEF Tx, Reservers
  <2>2. Active(u) /\ v \in Dealt(u) /\ v \in Variants
    BY <2>1, <1>1 DEF Dealt
  <2>3. stock'[v] = stock[v]
    BY <2>1, <2>2, OthersRowsStand DEF LocksOwned
  <2> QED
    BY <2>2, <2>3, <1>1 DEF ReservationsCovered
<1>8. OnlySessionsSkip'
  BY <1>1, <1>0 DEF OnlySessionsSkip, Dealt
<1> QED
  BY <1>2, <1>3, <1>4, <1>5, <1>6, <1>7, <1>8

-----------------------------------------------------------------------------
(* The actions, one by one *)

\* Sending the next statement keeps the invariant.
LEMMA AskRowKeeps ==
    ASSUME IInv, NEW t \in Tx, AskRow(t)
    PROVE  IInv'
<1> USE VariantsAreIds, TxKindsDisjoint, LinesAreRows DEF IInv
<1>0. PICK v \in NextLines(t) : line' = [line EXCEPT ![t] = v]
  BY DEF AskRow
<1>1. v \in Variants
  BY <1>0 DEF NextLines, StatementsInPlace
<1>2. TypeOK'
  BY <1>0, <1>1 DEF AskRow, TypeOK, Phases
<1>3. \A u \in Tx : Dealt(u)' = Dealt(u) /\ Active(u)' = Active(u) /\ NextLines(u)' = NextLines(u)
  BY DEF AskRow, TypeOK, Dealt, Active, NextLines
<1>4. StatementsInPlace'
  BY <1>0, <1>3 DEF AskRow, TypeOK, StatementsInPlace
<1>5. LocksOwned'
  BY <1>0, <1>3 DEF AskRow, TypeOK, LocksOwned
<1>6. OrdersAscend'
  BY <1>3 DEF AskRow, OrdersAscend, Tx
<1>7. WritesAreLines'
  BY <1>3 DEF AskRow, WritesAreLines, Uncommitted
<1>8. ReservationsCovered'
  BY <1>3 DEF AskRow, ReservationsCovered, Reservers, Tx
<1>9. OnlySessionsSkip'
  BY <1>3 DEF AskRow, OnlySessionsSkip
<1> QED
  BY <1>2, <1>4, <1>5, <1>6, <1>7, <1>8, <1>9

\* Reading a row for update keeps the invariant: the row was free.
LEMMA SelectForUpdateKeeps ==
    ASSUME IInv, NEW t \in Tx, SelectForUpdate(t)
    PROVE  IInv'
<1> USE VariantsAreIds, TxKindsDisjoint, LinesAreRows DEF IInv
<1>1. line[t] \in Variants /\ line[t] \in NextLines(t)
  BY LineIsPending DEF SelectForUpdate, StatementsInPlace
<1>2. TypeOK'
  BY <1>1 DEF SelectForUpdate, TypeOK, Phases
<1>3. \A u \in Tx : Dealt(u)' = Dealt(u) /\ Active(u)' = Active(u) /\ NextLines(u)' = NextLines(u)
  BY DEF SelectForUpdate, TypeOK, Dealt, Active, NextLines
<1>4. StatementsInPlace'
  BY <1>1, <1>3 DEF SelectForUpdate, RowFree, TypeOK, StatementsInPlace
<1>5. LocksOwned'
  BY <1>1, <1>3 DEF SelectForUpdate, RowFree, TypeOK, LocksOwned, Active
<1>6. OrdersAscend'
  BY <1>3 DEF SelectForUpdate, OrdersAscend, Tx
<1>7. WritesAreLines'
  BY <1>3 DEF SelectForUpdate, WritesAreLines, Uncommitted
<1>8. ReservationsCovered'
  BY <1>3 DEF SelectForUpdate, ReservationsCovered, Reservers, Tx
<1>9. OnlySessionsSkip'
  BY <1>3 DEF SelectForUpdate, OnlySessionsSkip
<1> QED
  BY <1>2, <1>4, <1>5, <1>6, <1>7, <1>8, <1>9

\* A session that gives up on a line that is short keeps the invariant.
LEMMA SkipLineKeeps ==
    ASSUME IInv, NEW t \in Tx, SkipLine(t)
    PROVE  IInv'
<1> USE VariantsAreIds, TxKindsDisjoint, LinesAreRows DEF IInv
<1>1. line[t] \in Variants /\ line[t] \in pending[t] /\ line[t] \in LinesOf[t]
  BY LineIsPending DEF SkipLine
<1>2. TypeOK'
  BY <1>1 DEF SkipLine, TypeOK, Phases
<1>3. /\ \A u \in Tx : u # t => /\ phase'[u] = phase[u] /\ pending'[u] = pending[u]
                                /\ skipped'[u] = skipped[u] /\ Dealt(u)' = Dealt(u)
                                /\ NextLines(u)' = NextLines(u)
      /\ \A u \in Tx : Active(u)' = Active(u)
      /\ phase'[t] = "next" /\ pending'[t] = pending[t] \ {line[t]}
      /\ skipped'[t] = skipped[t] \cup {line[t]} /\ Dealt(t)' = Dealt(t) \cup {line[t]}
      /\ t \in Sessions /\ phase[t] = "locked" /\ seen[t] < Qty[t][line[t]]
      /\ UNCHANGED <<stock, ledger, holder, line, seen, change, noted>>
  BY <1>1 DEF SkipLine, TypeOK, Dealt, Active, NextLines
<1>4. StatementsInPlace'
  BY <1>3 DEF StatementsInPlace
<1>5. LocksOwned'
  BY <1>1, <1>3 DEF LocksOwned
<1>6. OrdersAscend'
  BY <1>3 DEF OrdersAscend, Tx
<1>7. WritesAreLines'
  BY <1>3, LineIsPending DEF WritesAreLines, Uncommitted
<1>8. ReservationsCovered'
  BY <1>1, <1>3 DEF ReservationsCovered, StatementsInPlace, Reservers, Tx
<1>9. OnlySessionsSkip'
  BY <1>3 DEF OnlySessionsSkip
<1> QED
  BY <1>2, <1>4, <1>5, <1>6, <1>7, <1>8, <1>9

\* Every step keeps the invariant.
LEMMA NextKeeps == IInv /\ [Next]_vars => IInv'
<1> SUFFICES ASSUME IInv, [Next]_vars PROVE IInv'
  OBVIOUS
<1> USE TxKindsDisjoint, QuantitiesAreIntegers
<1>1. ASSUME NEW t \in Tx, AskRow(t) PROVE IInv'
  BY <1>1, AskRowKeeps
<1>2. ASSUME NEW t \in Tx, SelectForUpdate(t) PROVE IInv'
  BY <1>2, SelectForUpdateKeeps
<1>3. ASSUME NEW t \in Tx, Reserve(t) PROVE IInv'
  <2>1. line[t] \in Variants
    BY <1>3, LineIsPending DEF Reserve
  <2>2. t \in Reservers /\ seen[t] = stock[line[t]]
    BY <1>3 DEF Reserve, IInv, StatementsInPlace
  <2>3. -Qty[t][line[t]] \in Int /\ t \notin Overwrites
    BY <2>1, <2>2 DEF Reservers
  <2> QED
    BY <1>3, <2>2, <2>3, WriteRowKeeps DEF Reserve
<1>4. ASSUME NEW t \in Tx, AddStock(t) PROVE IInv'
  <2>1. line[t] \in Variants /\ t \notin Reservers \cup Overwrites
    BY <1>4, LineIsPending DEF AddStock, Reservers
  <2>2. Qty[t][line[t]] \in Int
    BY <2>1
  <2> QED
    BY <1>4, <2>1, <2>2, WriteRowKeeps DEF AddStock
<1>5. ASSUME NEW t \in Tx, OverwriteStock(t) PROVE IInv'
  <2>1. line[t] \in Variants /\ t \in Overwrites /\ t \notin Reservers
    BY <1>5, LineIsPending DEF OverwriteStock, Reservers
  <2>2. Qty[t][line[t]] - stock[line[t]] \in Int /\ 0 \in Int
    BY <2>1 DEF IInv, TypeOK
  <2> QED
    BY <1>5, <2>1, <2>2, WriteRowKeeps DEF OverwriteStock
<1>6. ASSUME NEW t \in Tx, RefuseOrder(t) PROVE IInv'
  BY <1>6, RollbackKeeps DEF RefuseOrder
<1>7. ASSUME NEW t \in Tx, SkipLine(t) PROVE IInv'
  BY <1>7, SkipLineKeeps
<1>8. ASSUME NEW t \in Tx, Commit(t) PROVE IInv'
  BY <1>8, PublishKeeps DEF Commit
<1>9. ASSUME NEW t \in Tx, DeadlockVictim(t) PROVE IInv'
  BY <1>9, RollbackKeeps DEF DeadlockVictim
<1>10. ASSUME NEW t \in Tx, Crash(t) PROVE IInv'
  BY <1>10, RollbackKeeps DEF Crash
<1>11. CASE UNCHANGED vars
  <2>1. \A u \in Tx : Dealt(u)' = Dealt(u) /\ Active(u)' = Active(u) /\ NextLines(u)' = NextLines(u)
    BY <1>11 DEF vars, Dealt, Active, NextLines
  <2>2. TypeOK' /\ StatementsInPlace'
    BY <2>1, <1>11 DEF vars, IInv, TypeOK, StatementsInPlace
  <2>3. LocksOwned' /\ OrdersAscend'
    BY <2>1, <1>11 DEF vars, IInv, LocksOwned, OrdersAscend, Tx
  <2>4. WritesAreLines'
    BY <2>1, <1>11 DEF vars, IInv, WritesAreLines, Uncommitted
  <2>5. ReservationsCovered' /\ OnlySessionsSkip'
    BY <2>1, <1>11 DEF vars, IInv, ReservationsCovered, OnlySessionsSkip, Reservers, Tx
  <2> QED
    BY <2>2, <2>3, <2>4, <2>5 DEF IInv
<1>12. CASE AllEnded
  BY <1>11, <1>12 DEF AllEnded
<1> QED
  BY <1>1, <1>2, <1>3, <1>4, <1>5, <1>6, <1>7, <1>8, <1>9, <1>10, <1>11, <1>12
  DEF Next, Work

-----------------------------------------------------------------------------
(* Theorems *)

\* The inductive invariant holds in every reachable state.
THEOREM Invariance == Spec => []IInv
  BY InitKeeps, NextKeeps, PTL DEF Spec

\* Every variable keeps its type.
THEOREM TypeCorrect == Spec => []TypeOK
<1>1. IInv => TypeOK
  BY DEF IInv
<1> QED
  BY Invariance, <1>1, PTL

\* Without product-editor overwrites the inventory log always explains the
\* shelf: every commit moves stock and log by the same amounts.
LEMMA LogMovesWithShelf ==
    ASSUME Overwrites = {}, IInv, LedgerExplainsStock, [Next]_vars
    PROVE  LedgerExplainsStock'
<1>1. ASSUME NEW t \in Tx, Publish(t) PROVE LedgerExplainsStock'
  <2> SUFFICES ASSUME NEW v \in Variants PROVE stock'[v] = InitialStock[v] + ledger'[v]
    BY DEF LedgerExplainsStock
  <2>1. noted[t][v] = change[t][v]
    BY DEF IInv, WritesAreLines
  <2>2. stock[v] = InitialStock[v] + ledger[v]
    BY DEF LedgerExplainsStock
  <2>3. stock[v] \in Int /\ ledger[v] \in Int /\ change[t][v] \in Int /\ InitialStock[v] \in Int
    BY ShelfIsFilled DEF IInv, TypeOK
  <2> QED
    BY <1>1, <2>1, <2>2, <2>3 DEF Publish
<1>2. CASE UNCHANGED <<stock, ledger>>
  BY <1>2 DEF LedgerExplainsStock
<1>3. ASSUME NEW t \in Tx, Work(t) \/ Crash(t) PROVE LedgerExplainsStock'
  BY <1>1, <1>2, <1>3 DEF Work, Crash, AskRow, SelectForUpdate, Reserve, AddStock, OverwriteStock,
     RefuseOrder, SkipLine, Commit, DeadlockVictim, WriteRow, Rollback
<1> QED
  BY <1>2, <1>3 DEF Next, AllEnded, vars

\* Without product-editor overwrites the shelf always equals the opening stock
\* plus the inventory_records (reserve_stock, release_stock, adjust_stock).
THEOREM LedgerIsExplained ==
    ASSUME Overwrites = {}
    PROVE  Spec => []LedgerExplainsStock
<1>1. Init => LedgerExplainsStock
  BY ShelfIsFilled DEF Init, LedgerExplainsStock, Nothing
<1>2. IInv /\ LedgerExplainsStock /\ [Next]_vars => LedgerExplainsStock'
  BY LogMovesWithShelf
<1> QED
  BY <1>1, <1>2, Invariance, PTL DEF Spec

-----------------------------------------------------------------------------
(* Sums over finite sets *)

\* The member of a set that a fold takes first, and one round of the sum of f over the subsets of S.
First(s) == CHOOSE x \in s : TRUE
Round(f, S, g) == [s \in SUBSET S |-> IF s = {} THEN 0 ELSE f[First(s)] + g[s \ {First(s)}]]
Adds(f, S, g) == g = Round(f, S, g)

\* The library's sum is a function that satisfies its recursion, if there is one.
LEMMA SumUnfolds ==
    ASSUME NEW f, NEW S
    PROVE  SumFunctionOnSet(f, S) = (CHOOSE g : Adds(f, S, g))[S]
  BY DEF SumFunctionOnSet, FoldFunctionOnSet, MapThenFoldSet, Adds, Round, First

\* The element a sum takes next is one of its set.
LEMMA FirstIsMember == ASSUME NEW s, s # {} PROVE First(s) \in s
  BY DEF First

\* One round of a function that adds up: the value of its next element, and the rest.
LEMMA AddsAt ==
    ASSUME NEW f, NEW S, NEW g, Adds(f, S, g)
    PROVE  /\ g[{}] = 0
           /\ \A s \in SUBSET S : s # {} => g[s] = f[First(s)] + g[s \ {First(s)}]
<1>1. g = [s \in SUBSET S |-> IF s = {} THEN 0 ELSE f[First(s)] + g[s \ {First(s)}]]
  BY DEF Adds, Round
<1>2. \A s \in SUBSET S : g[s] = IF s = {} THEN 0 ELSE f[First(s)] + g[s \ {First(s)}]
  BY <1>1
<1> QED
  BY <1>2

\* Proof by the least counterexample: a set of finite sets that is not empty has a least member.
LEMMA LeastSet ==
    ASSUME NEW S, IsFiniteSet(S), NEW T, T \subseteq SUBSET S, T # {}
    PROVE  \E A \in T : \A x \in A : A \ {x} \notin T
<1>1. T \subseteq FiniteSubsetsOf(S)
  BY FS_Subset DEF FiniteSubsetsOf
<1>2. PICK A \in T : \A B \in T : ~(<<B, A>> \in StrictSubsetOrdering(S))
  BY <1>1, FS_StrictSubsetOrderingWellFounded, WFMin
<1>3. ASSUME NEW x \in A, A \ {x} \in T PROVE FALSE
  <2>1. <<A \ {x}, A>> \in StrictSubsetOrdering(S)
    BY <1>3 DEF StrictSubsetOrdering
  <2> QED
    BY <1>2, <1>3, <2>1
<1> QED
  BY <1>3

\* The recursion has one solution, ...
LEMMA SumIsUnique ==
    ASSUME NEW f, NEW C, IsFiniteSet(C), NEW S, NEW g, Adds(f, S, g), NEW B, NEW h, Adds(f, B, h),
           C \subseteq S, C \subseteq B
    PROVE  g[C] = h[C]
<1> DEFINE T == {A \in SUBSET C : g[A] # h[A]}
<1>1. SUFFICES ASSUME T # {} PROVE FALSE
  OBVIOUS
<1>2. PICK A \in T : \A x \in A : A \ {x} \notin T
  <2> HIDE DEF T
  <2>1. T \subseteq SUBSET C
    BY DEF T
  <2> QED
    BY <1>1, <2>1, LeastSet
<1>3. A \in SUBSET S /\ A \in SUBSET B /\ g[A] # h[A]
  OBVIOUS
<1>4. A # {}
  BY <1>3, AddsAt
<1>5. First(A) \in A
  BY <1>4, FirstIsMember
<1>6. g[A \ {First(A)}] = h[A \ {First(A)}]
  BY <1>2, <1>5
<1> QED
  BY <1>3, <1>4, <1>6, AddsAt

\* ... and there is one.
LEMMA SumExists ==
    ASSUME NEW f, NEW S, IsFiniteSet(S)
    PROVE  \E g : Adds(f, S, g)
<1> DEFINE T == {A \in SUBSET S : ~\E g : Adds(f, A, g)}
<1>1. SUFFICES ASSUME T # {} PROVE FALSE
  <2>1. S \in SUBSET S
    OBVIOUS
  <2> QED
    BY <2>1
<1>2. PICK A \in T : \A x \in A : A \ {x} \notin T
  <2> HIDE DEF T
  <2>1. T \subseteq SUBSET S
    BY DEF T
  <2> QED
    BY <1>1, <2>1, LeastSet
<1> DEFINE G(x) == CHOOSE g : Adds(f, A \ {x}, g)
           W(B) == CHOOSE x \in A : x \notin B
           h == [B \in SUBSET A |-> IF B = {} THEN 0
                                   ELSE IF B = A THEN f[First(A)] + G(First(A))[A \ {First(A)}]
                                   ELSE G(W(B))[B]]
<1>3. A \in SUBSET S /\ IsFiniteSet(A) /\ ~\E g : Adds(f, A, g)
  BY FS_Subset
<1>4. \A x \in A : Adds(f, A \ {x}, G(x))
  <2> TAKE x \in A
  <2>1. A \ {x} \in SUBSET S
    BY <1>3
  <2>2. \E g : Adds(f, A \ {x}, g)
    BY <1>2, <2>1
  <2> QED
    BY <2>2
<1>5. \A B \in SUBSET A : B # A => W(B) \in A /\ W(B) \notin B
  OBVIOUS
<1> HIDE DEF T, G, W
<1>6. \A B \in SUBSET A : \A x, y \in A : x \notin B /\ y \notin B => G(x)[B] = G(y)[B]
  <2> TAKE B \in SUBSET A
  <2> TAKE x, y \in A
  <2> HAVE x \notin B /\ y \notin B
  <2>1. IsFiniteSet(B) /\ B \subseteq A \ {x} /\ B \subseteq A \ {y}
    BY <1>3, FS_Subset
  <2>2. PICK g : g = G(x)
    OBVIOUS
  <2>3. PICK k : k = G(y)
    OBVIOUS
  <2>4. Adds(f, A \ {x}, g) /\ Adds(f, A \ {y}, k)
    BY <1>4, <2>2, <2>3
  <2>5. g[B] = k[B]
    BY <2>1, <2>4, SumIsUnique
  <2> QED
    BY <2>2, <2>3, <2>5
<1>7. \A B \in SUBSET A : \A x \in A : B # A /\ x \notin B => h[B] = G(x)[B]
  <2> TAKE B \in SUBSET A
  <2> TAKE x \in A
  <2> HAVE B # A /\ x \notin B
  <2>1. CASE B = {}
    BY <1>4, <2>1, AddsAt
  <2>2. CASE B # {}
    <3>1. h[B] = G(W(B))[B]
      BY <2>2
    <3>2. W(B) \in A /\ W(B) \notin B
      BY <1>5
    <3> HIDE DEF h
    <3> QED
      BY <1>6, <3>1, <3>2
  <2> QED
    BY <2>1, <2>2
<1>8. ASSUME NEW B \in SUBSET A, B # {} PROVE h[B] = f[First(B)] + h[B \ {First(B)}]
  <2>1. First(B) \in B
    BY <1>8, FirstIsMember
  <2>2. h[B \ {First(B)}] = G(First(B))[B \ {First(B)}]
    <3>1. B \ {First(B)} \in SUBSET A /\ B \ {First(B)} # A /\ First(B) \in A /\ First(B) \notin B \ {First(B)}
      BY <2>1
    <3> HIDE DEF h
    <3> QED
      BY <1>7, <3>1
  <2>3. CASE B = A
    BY <1>8, <2>2, <2>3
  <2>4. CASE B # A
    <3>1. W(B) \in A /\ W(B) \notin B
      BY <1>5, <2>4
    <3>2. G(W(B))[B] = f[First(B)] + G(W(B))[B \ {First(B)}]
      <4>1. B \in SUBSET (A \ {W(B)})
        BY <3>1
      <4>2. PICK g : g = G(W(B))
        OBVIOUS
      <4>3. Adds(f, A \ {W(B)}, g)
        BY <1>4, <3>1, <4>2
      <4>4. g[B] = f[First(B)] + g[B \ {First(B)}]
        BY <1>8, <4>1, <4>3, AddsAt
      <4> QED
        BY <4>2, <4>4
    <3>3. h[B] = G(W(B))[B] /\ h[B \ {First(B)}] = G(W(B))[B \ {First(B)}]
      <4>1. B \ {First(B)} \in SUBSET A /\ B \ {First(B)} # A /\ W(B) \notin B \ {First(B)}
        BY <2>1, <3>1
      <4> HIDE DEF h
      <4> QED
        BY <1>7, <2>4, <3>1, <4>1
    <3> QED
      BY <3>2, <3>3
  <2> QED
    BY <2>3, <2>4
<1>9. h[{}] = 0 /\ h = [B \in SUBSET A |-> h[B]]
  OBVIOUS
<1> HIDE DEF h
<1>10. h = Round(f, A, h)
  BY <1>8, <1>9 DEF Round
<1> QED
  BY <1>3, <1>10 DEF Adds

\* So the sum over no member is nothing, and over some it is the first one's and the others'.
LEMMA SumBegins ==
    ASSUME NEW f, NEW S, IsFiniteSet(S)
    PROVE  /\ SumFunctionOnSet(f, {}) = 0
           /\ S # {} => SumFunctionOnSet(f, S) = f[First(S)] + SumFunctionOnSet(f, S \ {First(S)})
<1> DEFINE G(B) == CHOOSE g : Adds(f, B, g)
<1>1. \A B : IsFiniteSet(B) => Adds(f, B, G(B)) /\ SumFunctionOnSet(f, B) = G(B)[B]
  <2> TAKE B
  <2> HAVE IsFiniteSet(B)
  <2>1. Adds(f, B, G(B))
    BY SumExists
  <2> QED
    BY <2>1, SumUnfolds
<1> HIDE DEF G
<1>2. SumFunctionOnSet(f, {}) = 0
  BY <1>1, FS_EmptySet, AddsAt
<1>3. ASSUME S # {} PROVE SumFunctionOnSet(f, S) = f[First(S)] + SumFunctionOnSet(f, S \ {First(S)})
  <2> DEFINE R == S \ {First(S)}
  <2>1. IsFiniteSet(R) /\ R \subseteq S
    BY FS_Subset
  <2>2. G(S)[S] = f[First(S)] + G(S)[R]
    BY <1>1, <1>3, AddsAt
  <2> HIDE DEF R
  <2>3. G(S)[R] = G(R)[R]
    <3>1. PICK g : g = G(S)
      OBVIOUS
    <3>2. PICK k : k = G(R)
      OBVIOUS
    <3>3. Adds(f, S, g) /\ Adds(f, R, k)
      BY <1>1, <2>1, <3>1, <3>2
    <3>4. g[R] = k[R]
      BY <2>1, <3>3, SumIsUnique
    <3> QED
      BY <3>1, <3>2, <3>4
  <2>4. SumFunctionOnSet(f, S) = f[First(S)] + SumFunctionOnSet(f, R)
    BY <1>1, <2>1, <2>2, <2>3
  <2> QED
    BY <2>4 DEF R
<1> QED
  BY <1>2, <1>3

\* The sum of integers is one.
LEMMA SumIsInt ==
    ASSUME NEW D, NEW f \in [D -> Int], NEW S \in SUBSET D, IsFiniteSet(S)
    PROVE  SumFunctionOnSet(f, S) \in Int
<1> DEFINE T == {A \in SUBSET S : SumFunctionOnSet(f, A) \notin Int}
<1>1. SUFFICES ASSUME T # {} PROVE FALSE
  <2>1. S \in SUBSET S
    OBVIOUS
  <2> QED
    BY <2>1
<1>2. PICK A \in T : \A x \in A : A \ {x} \notin T
  <2> HIDE DEF T
  <2>1. T \subseteq SUBSET S
    BY DEF T
  <2> QED
    BY <1>1, <2>1, LeastSet
<1>3. A \in SUBSET S /\ IsFiniteSet(A) /\ SumFunctionOnSet(f, A) \notin Int
  BY FS_Subset
<1>4. A # {}
  <2>1. SumFunctionOnSet(f, {}) = 0
    BY SumBegins, FS_EmptySet
  <2> QED
    BY <1>3, <2>1
<1>5. First(A) \in A /\ A \ {First(A)} \in SUBSET S
  BY <1>3, <1>4, FirstIsMember
<1>6. SumFunctionOnSet(f, A \ {First(A)}) \in Int
  BY <1>2, <1>5
<1>7. f[First(A)] \in Int
  BY <1>3, <1>5
<1> QED
  BY <1>3, <1>4, <1>6, <1>7, SumBegins

\* The order is of no consequence: any member may be counted apart.
LEMMA SumOfOneMore ==
    ASSUME NEW D, NEW f \in [D -> Int], NEW S \in SUBSET D, IsFiniteSet(S), NEW z \in S
    PROVE  SumFunctionOnSet(f, S) = f[z] + SumFunctionOnSet(f, S \ {z})
<1> DEFINE T == {A \in SUBSET S : \E x \in A : SumFunctionOnSet(f, A) # f[x] + SumFunctionOnSet(f, A \ {x})}
<1>1. SUFFICES ASSUME T # {} PROVE FALSE
  <2>1. S \in SUBSET S
    OBVIOUS
  <2> QED
    BY <2>1
<1>2. PICK A \in T : \A x \in A : A \ {x} \notin T
  <2> HIDE DEF T
  <2>1. T \subseteq SUBSET S
    BY DEF T
  <2> QED
    BY <1>1, <2>1, LeastSet
<1>3. PICK x \in A : SumFunctionOnSet(f, A) # f[x] + SumFunctionOnSet(f, A \ {x})
  OBVIOUS
<1>4. A \in SUBSET S /\ \A B \in SUBSET S : IsFiniteSet(B)
  BY FS_Subset
<1>5. \A y \in A : \A w \in A \ {y} :
        SumFunctionOnSet(f, A \ {y}) = f[w] + SumFunctionOnSet(f, (A \ {y}) \ {w})
  BY <1>2, <1>4
<1> HIDE DEF T
<1> DEFINE c == First(A)
<1>6. c \in A /\ SumFunctionOnSet(f, A) = f[c] + SumFunctionOnSet(f, A \ {c})
  BY <1>3, <1>4, FirstIsMember, SumBegins
<1> HIDE DEF c
<1>7. c # x
  BY <1>3, <1>6
<1> DEFINE R == (A \ {c}) \ {x}
<1>8. SumFunctionOnSet(f, A \ {c}) = f[x] + SumFunctionOnSet(f, R)
  BY <1>5, <1>6, <1>7
<1>9. SumFunctionOnSet(f, A \ {x}) = f[c] + SumFunctionOnSet(f, R)
  <2>1. (A \ {x}) \ {c} = R
    OBVIOUS
  <2>2. SumFunctionOnSet(f, A \ {x}) = f[c] + SumFunctionOnSet(f, (A \ {x}) \ {c})
    BY <1>5, <1>6, <1>7
  <2> QED
    BY <2>1, <2>2
<1>10. f[c] \in Int /\ f[x] \in Int /\ SumFunctionOnSet(f, R) \in Int
  <2>1. R \in SUBSET D /\ IsFiniteSet(R)
    BY <1>4
  <2> QED
    BY <1>4, <1>6, <2>1, SumIsInt
<1> HIDE DEF R
<1> QED
  BY <1>3, <1>6, <1>8, <1>9, <1>10

-----------------------------------------------------------------------------
(* Units sold *)

\* Quantities of a finite set of transactions add up to an integer.
LEMMA SumsAreInts ==
    ASSUME TakenFromShelf, NEW v \in Variants
    PROVE  /\ QtyOf(v) \in [Tx -> Int]
           /\ Takers(v) \in SUBSET Tx /\ Shelvers(v) \in SUBSET Tx
           /\ UnitsTaken(v) \in Int /\ UnitsShelved(v) \in Int
<1>1. QtyOf(v) \in [Tx -> Int]
  BY QuantitiesAreIntegers DEF QtyOf
<1>2. Takers(v) \in SUBSET Tx /\ Shelvers(v) \in SUBSET Tx
  BY DEF Takers, Sellers, Shelvers, Tx, Reservers
<1>3. IsFiniteSet(Takers(v)) /\ IsFiniteSet(Shelvers(v))
  BY DEF TakenFromShelf
<1>4. SumFunctionOnSet(QtyOf(v), Takers(v)) \in Int /\ SumFunctionOnSet(QtyOf(v), Shelvers(v)) \in Int
  BY <1>1, <1>2, <1>3, SumIsInt
<1> QED
  BY <1>1, <1>2, <1>4, ShelfIsFilled DEF UnitsTaken, UnitsShelved

\* A member more: its quantity more.
LEMMA SumGrows ==
    ASSUME NEW v \in Variants, NEW A \in SUBSET Tx, IsFiniteSet(A), NEW t \in Tx, t \notin A
    PROVE  /\ SumFunctionOnSet(QtyOf(v), A \cup {t}) = Qty[t][v] + SumFunctionOnSet(QtyOf(v), A)
           /\ IsFiniteSet(A \cup {t})
<1>1. QtyOf(v) \in [Tx -> Int] /\ QtyOf(v)[t] = Qty[t][v]
  BY QuantitiesAreIntegers DEF QtyOf
<1>2. IsFiniteSet(A \cup {t}) /\ A \cup {t} \in SUBSET Tx /\ t \in A \cup {t} /\ (A \cup {t}) \ {t} = A
  BY FS_AddElement
<1> QED
  BY <1>1, <1>2, SumOfOneMore

\* Only a commit adds to what stands or moves the shelf.
LEMMA OnlyCommitsCount ==
    ASSUME IInv, NEW t \in Tx, Work(t) \/ Crash(t), ~Commit(t), NEW v \in Variants
    PROVE  UNCHANGED <<stock, Takers(v), Shelvers(v)>>
<1>0. /\ stock' = stock /\ phase[t] # "done"
      /\ \E p \in Phases \ {"done"} : phase' = [phase EXCEPT ![t] = p]
      /\ \A u \in Tx : u # t => skipped'[u] = skipped[u]
  <2> USE DEF IInv, TypeOK, Phases
  <2>1. CASE AskRow(t)
    BY <2>1 DEF AskRow
  <2>2. CASE SelectForUpdate(t)
    BY <2>2 DEF SelectForUpdate
  <2>3. CASE Reserve(t) \/ AddStock(t) \/ OverwriteStock(t)
    BY <2>3 DEF Reserve, AddStock, OverwriteStock, WriteRow
  <2>4. CASE RefuseOrder(t)
    BY <2>4 DEF RefuseOrder, Rollback
  <2>5. CASE SkipLine(t)
    BY <2>5 DEF SkipLine
  <2>6. CASE DeadlockVictim(t)
    BY <2>6 DEF DeadlockVictim, LockCycle, Waits, Rollback
  <2>7. CASE Crash(t)
    BY <2>7 DEF Crash, Ended, Rollback
  <2> QED
    BY <2>1, <2>2, <2>3, <2>4, <2>5, <2>6, <2>7 DEF Work
<1>1. \A u \in Tx : (Kept(u)' <=> Kept(u)) /\ (Kept(u) => skipped'[u] = skipped[u])
  BY <1>0 DEF Kept, IInv, TypeOK
<1>2. Sellers(v)' = Sellers(v) /\ Shelvers(v)' = Shelvers(v)
  BY <1>1 DEF Sellers, Shelvers, Reservers, Tx
<1>3. \A u \in Sellers(v) : u \in Tx /\ Kept(u)
  BY DEF Sellers, Reservers, Tx
<1>4. Takers(v)' = Takers(v)
  BY <1>1, <1>2, <1>3 DEF Takers
<1> QED
  BY <1>0, <1>2, <1>4

\* A commit: what it sells was covered by the shelf, which its lock has kept as it was.
LEMMA CommitTakes ==
    ASSUME Overwrites = {}, IInv, TakenFromShelf, NEW t \in Tx, Commit(t), NEW v \in Variants
    PROVE  /\ IsFiniteSet(Takers(v)') /\ IsFiniteSet(Shelvers(v)')
           /\ UnitsTaken(v)' <= UnitsShelved(v)'
           /\ stock'[v] + UnitsTaken(v)' <= UnitsShelved(v)'
<1> DEFINE n == Qty[t][v]
           S == SumFunctionOnSet(QtyOf(v), Takers(v))
           P == SumFunctionOnSet(QtyOf(v), Shelvers(v))
<1>1. /\ S \in Int /\ P \in Int /\ n \in Int /\ InitialStock[v] \in Int /\ stock[v] \in Int
      /\ S <= InitialStock[v] + P /\ stock[v] + S <= InitialStock[v] + P
      /\ IsFiniteSet(Takers(v)) /\ IsFiniteSet(Shelvers(v))
      /\ Takers(v) \in SUBSET Tx /\ Shelvers(v) \in SUBSET Tx
  <2>1. QtyOf(v) \in [Tx -> Int]
    BY SumsAreInts
  <2>2. S \in Int /\ P \in Int
    BY <2>1, SumsAreInts, SumIsInt DEF TakenFromShelf
  <2> QED
    BY <2>2, SumsAreInts, ShelfIsFilled, QuantitiesAreIntegers
    DEF TakenFromShelf, UnitsTaken, UnitsShelved, IInv, TypeOK
<1>2. QtyOf(v)' = QtyOf(v)
  BY DEF QtyOf
<1>3. /\ phase[t] = "next" /\ phase' = [phase EXCEPT ![t] = "done"] /\ pending[t] = {}
      /\ stock'[v] = stock[v] + change[t][v] /\ skipped' = skipped
  BY DEF Commit, Publish
<1>4. \A u \in Tx : Kept(u)' <=> Kept(u) \/ u = t
  BY <1>3 DEF Kept, IInv, TypeOK
<1>5. ~Kept(t) /\ Active(t) /\ Dealt(t) = LinesOf[t]
  BY <1>3 DEF Kept, Active, Dealt
<1>6. change[t][v] = IF v \notin LinesOf[t] \/ v \in skipped[t] THEN 0 ELSE IF t \in Reservers THEN -n ELSE n
  BY <1>5 DEF IInv, WritesAreLines, Uncommitted
<1>7. Takers(v)' = IF t \in Reservers /\ v \in LinesOf[t] /\ v \notin skipped[t]
                   THEN Takers(v) \cup {t} ELSE Takers(v)
  BY <1>3, <1>4 DEF Takers, Sellers, Reservers, Tx
<1>8. Shelvers(v)' = IF t \in Releases \cup Adjustments /\ v \in LinesOf[t] /\ n > 0
                     THEN Shelvers(v) \cup {t} ELSE Shelvers(v)
  BY <1>4 DEF Shelvers, Tx
<1>9. t \notin Takers(v) /\ t \notin Shelvers(v)
  BY <1>5 DEF Takers, Sellers, Shelvers
<1>10. /\ SumFunctionOnSet(QtyOf(v), Takers(v) \cup {t}) = n + S
       /\ SumFunctionOnSet(QtyOf(v), Shelvers(v) \cup {t}) = n + P
       /\ IsFiniteSet(Takers(v) \cup {t}) /\ IsFiniteSet(Shelvers(v) \cup {t})
  BY <1>1, <1>9, SumGrows
<1>11. /\ UnitsTaken(v)' = SumFunctionOnSet(QtyOf(v), Takers(v)')
       /\ UnitsShelved(v)' = InitialStock[v] + SumFunctionOnSet(QtyOf(v), Shelvers(v)')
  BY <1>2 DEF UnitsTaken, UnitsShelved
<1>12. t \in Reservers => t \notin Releases \cup Adjustments
  BY TxKindsDisjoint DEF Reservers
<1>13. t \notin Reservers => v \notin skipped[t] /\ t \in Releases \cup Adjustments
  BY DEF IInv, OnlySessionsSkip, Reservers, Tx
<1> HIDE DEF n, S, P
<1>14. CASE t \in Reservers /\ v \in LinesOf[t] /\ v \notin skipped[t]
  <2>1. stock[v] >= n
    BY <1>5, <1>14 DEF IInv, ReservationsCovered, n
  <2>2. Takers(v)' = Takers(v) \cup {t} /\ Shelvers(v)' = Shelvers(v) /\ stock'[v] = stock[v] - n
    BY <1>1, <1>3, <1>6, <1>7, <1>8, <1>12, <1>14
  <2>3. UnitsTaken(v)' = n + S /\ UnitsShelved(v)' = InitialStock[v] + P
    BY <1>10, <1>11, <2>2 DEF P
  <2> QED
    BY <1>1, <1>10, <2>1, <2>2, <2>3
<1>15. CASE t \notin Reservers /\ v \in LinesOf[t]
  <2>1. Takers(v)' = Takers(v) /\ stock'[v] = stock[v] + n
    BY <1>3, <1>6, <1>7, <1>13, <1>15
  <2>2. CASE n > 0
    <3>1. Shelvers(v)' = Shelvers(v) \cup {t}
      BY <1>8, <1>13, <1>15, <2>2
    <3>2. UnitsTaken(v)' = S /\ UnitsShelved(v)' = InitialStock[v] + (n + P)
      BY <1>10, <1>11, <2>1, <3>1 DEF S
    <3> QED
      BY <1>1, <1>10, <2>1, <2>2, <3>1, <3>2
  <2>3. CASE ~(n > 0)
    <3>1. Shelvers(v)' = Shelvers(v)
      BY <1>8, <2>3
    <3>2. UnitsTaken(v)' = S /\ UnitsShelved(v)' = InitialStock[v] + P
      BY <1>11, <2>1, <3>1 DEF S, P
    <3> QED
      BY <1>1, <2>1, <2>3, <3>1, <3>2
  <2> QED
    BY <2>2, <2>3
<1>16. CASE v \notin LinesOf[t] \/ (t \in Reservers /\ v \in skipped[t])
  <2>1. Takers(v)' = Takers(v) /\ Shelvers(v)' = Shelvers(v) /\ stock'[v] = stock[v]
    BY <1>1, <1>3, <1>6, <1>7, <1>8, <1>12, <1>16
  <2>2. UnitsTaken(v)' = S /\ UnitsShelved(v)' = InitialStock[v] + P
    BY <1>11, <2>1 DEF S, P
  <2> QED
    BY <1>1, <2>1, <2>2
<1> QED
  BY <1>14, <1>15, <1>16

\* What the shop has promised came off the shelf.
LEMMA TakenStays ==
    ASSUME Overwrites = {}, IInv, TakenFromShelf, [Next]_vars
    PROVE  TakenFromShelf'
<1>1. ASSUME NEW v \in Variants, UNCHANGED <<stock, Takers(v), Shelvers(v)>>
      PROVE  /\ IsFiniteSet(Takers(v)') /\ IsFiniteSet(Shelvers(v)')
             /\ UnitsTaken(v)' <= UnitsShelved(v)'
             /\ stock'[v] + UnitsTaken(v)' <= UnitsShelved(v)'
  <2>1. UnitsTaken(v)' = UnitsTaken(v) /\ UnitsShelved(v)' = UnitsShelved(v)
    BY <1>1 DEF UnitsTaken, UnitsShelved, QtyOf
  <2> QED
    BY <1>1, <2>1 DEF TakenFromShelf
<1>2. CASE UNCHANGED vars
  <2>1. \A v \in Variants : UNCHANGED <<stock, Takers(v), Shelvers(v)>>
    BY <1>2 DEF vars, Takers, Sellers, Shelvers, Kept
  <2> QED
    BY <1>1, <2>1 DEF TakenFromShelf
<1>3. ASSUME NEW t \in Tx, Work(t) \/ Crash(t) PROVE TakenFromShelf'
  <2>1. CASE Commit(t)
    BY <2>1, CommitTakes DEF TakenFromShelf
  <2>2. CASE ~Commit(t)
    BY <1>1, <1>3, <2>2, OnlyCommitsCount DEF TakenFromShelf
  <2> QED
    BY <2>1, <2>2
<1> QED
  BY <1>2, <1>3 DEF Next, AllEnded

\* Without product-editor overwrites: the reserved units of the orders that stand, paid sessions
\* included, never exceed the opening stock and what releases and corrections have added.
THEOREM TakenWithinShelf ==
    ASSUME Overwrites = {}
    PROVE  Spec => []TakenFromShelf
<1>1. Init => TakenFromShelf
  <2> SUFFICES ASSUME Init, NEW v \in Variants
               PROVE  /\ IsFiniteSet(Takers(v)) /\ IsFiniteSet(Shelvers(v))
                      /\ UnitsTaken(v) <= UnitsShelved(v)
                      /\ stock[v] + UnitsTaken(v) <= UnitsShelved(v)
    BY DEF TakenFromShelf
  <2>1. Takers(v) = {} /\ Shelvers(v) = {}
    BY DEF Init, Takers, Sellers, Shelvers, Kept, Reservers, Tx
  <2>2. SumFunctionOnSet(QtyOf(v), {}) = 0
    BY SumBegins, FS_EmptySet
  <2>3. stock[v] = InitialStock[v] /\ InitialStock[v] \in Nat
    BY ShelfIsFilled DEF Init
  <2> QED
    BY <2>1, <2>2, <2>3, FS_EmptySet DEF UnitsTaken, UnitsShelved
<1>2. IInv /\ TakenFromShelf /\ [Next]_vars => TakenFromShelf'
  BY TakenStays
<1> QED
  BY <1>1, <1>2, Invariance, PTL DEF Spec

\* reserve_stock prevents overselling: with checkouts, releases and corrections only, whatever
\* their number, their rows and quantities and the interleaving of their statements. (A paid
\* session that lacks stock stands all the same, which is why there are none here.)
THEOREM NothingOversold ==
    ASSUME Overwrites = {}, Sessions = {}
    PROVE  Spec => []NoOversell
<1>1. IInv /\ TakenFromShelf => NoOversell
  <2> SUFFICES ASSUME IInv, TakenFromShelf, NEW v \in Variants PROVE UnitsSold(v) <= UnitsShelved(v)
    BY DEF NoOversell
  <2>1. Takers(v) = Sellers(v)
    BY DEF Takers, Sellers, Reservers, Tx, IInv, OnlySessionsSkip
  <2> QED
    BY <2>1 DEF TakenFromShelf, UnitsTaken, UnitsSold
<1> QED
  BY <1>1, TakenWithinShelf, Invariance, PTL

\* Every transaction that locks more than one row sorts its rows.
LocksSorted == \A t \in Tx : t \in Orders \/ \A v, w \in LinesOf[t] : v = w

\* A nonempty finite set of naturals has a greatest element: follow the strict
\* inclusion of the sets of elements above each one.
LEMMA FiniteHasMaximum ==
    ASSUME NEW S, S \subseteq Nat, S # {}, IsFiniteSet(S)
    PROVE  \E x \in S : \A y \in S : y <= x
<1> DEFINE Above(x) == {y \in S : y > x}
           T == {Above(x) : x \in S}
<1>1. T \subseteq SUBSET S /\ T # {}
  OBVIOUS
<1>2. T \subseteq FiniteSubsetsOf(S)
  BY <1>1, FS_Subset DEF FiniteSubsetsOf
<1>3. PICK A \in T : \A B \in T : ~(<<B, A>> \in StrictSubsetOrdering(S))
  BY <1>1, <1>2, FS_StrictSubsetOrderingWellFounded, WFMin
<1>4. PICK x \in S : A = Above(x)
  BY <1>3
<1>5. ASSUME NEW y \in S, ~(y <= x) PROVE FALSE
  <2>0. y > x /\ ~(y > y) /\ \A z \in S : z > y => z > x
    BY <1>5
  <2>1. Above(y) \subseteq Above(x) /\ y \in Above(x) /\ y \notin Above(y)
    BY <2>0
  <2>2. Above(y) \in T
    BY <1>5
  <2> QED
    BY <1>3, <1>4, <2>1, <2>2 DEF StrictSubsetOrdering
<1> QED
  BY <1>5

\* In a circle of waits take the transaction that waits for the greatest row:
\* whoever holds that row waits for a greater one.
LEMMA SortedNeverCycle == ASSUME LocksSorted, IInv PROVE NoLockCycle
<1> SUFFICES ASSUME NEW S \in SUBSET Tx, LockCycle(S) PROVE FALSE
  BY DEF NoLockCycle
<1> DEFINE Wanted == {line[t] : t \in S}
<1>1. \A t \in S : /\ phase[t] = "asking" /\ line[t] \in Variants
                   /\ holder[line[t]] \in S /\ holder[line[t]] # t
  BY LineIsPending DEF LockCycle, Waits, RowFree
<1>2. Wanted \subseteq Nat /\ Wanted # {} /\ IsFiniteSet(Wanted)
  <2>1. Wanted \subseteq Variants
    BY <1>1
  <2> QED
    <3>1. IsFiniteSet(Wanted)
      BY <2>1, VariantsAreIds, FS_Subset
    <3> QED
      BY <2>1, <3>1, VariantsAreIds DEF LockCycle
<1>3. PICK t \in S : \A u \in S : line[u] <= line[t]
  BY <1>2, FiniteHasMaximum
<1> DEFINE u == holder[line[t]]
<1>4. u \in S /\ u \in Tx /\ phase[u] = "asking"
  BY <1>1
<1>5. line[t] \in Dealt(u)
  BY <1>1, <1>4 DEF IInv, LocksOwned
<1>6. line[u] \in pending[u] /\ line[u] \in LinesOf[u] /\ line[u] \notin Dealt(u)
  BY <1>4, LineIsPending
<1>7. line[t] < line[u]
  <2>1. CASE u \in Orders
    BY <2>1, <1>5, <1>6 DEF IInv, OrdersAscend
  <2>2. CASE \A v, w \in LinesOf[u] : v = w
    BY <2>2, <1>5, <1>6 DEF Dealt
  <2> QED
    BY <2>1, <2>2, <1>4 DEF LocksSorted
<1>8. line[t] \in Nat /\ line[u] \in Nat
  BY <1>1, <1>4, VariantsAreIds
<1> QED
  BY <1>3, <1>4, <1>7, <1>8

\* Sorting the cart lines does prevent deadlocks among transactions that all
\* do it, for any number of transactions and variants.
THEOREM SortedNeverDeadlock ==
    ASSUME LocksSorted
    PROVE  Spec => []NoLockCycle
<1>1. IInv => NoLockCycle
  BY SortedNeverCycle
<1> QED
  BY <1>1, Invariance, PTL

-----------------------------------------------------------------------------
(* Refinement *)

\* Initial states map to initial states of StockLedger.
LEMMA LedgerInit == Init => Ledger!Init
  BY DEF Init, Ledger!Init, Outcome, Ended, Ledger!Tx, Tx

\* Ending as p is the abstract end of the same transaction.
LEMMA OutcomeEnds ==
    ASSUME IInv, NEW t \in Tx, NEW p \in Ended,
           Outcome(t) = "open", phase' = [phase EXCEPT ![t] = p]
    PROVE  Ledger!Ends(t, p)
<1>1. \A u \in Tx : Outcome(u)' = IF u = t THEN p ELSE Outcome(u)
  BY DEF Outcome, Ended, IInv, TypeOK
<1> QED
  BY <1>1 DEF Ledger!Ends, Ended, Ledger!Tx, Tx

\* A step inside a transaction is invisible to StockLedger.
LEMMA OutcomeStays ==
    ASSUME IInv, NEW t \in Tx, phase[t] \in {"next", "asking", "locked"},
           NEW p \in {"next", "asking", "locked"}, phase' = [phase EXCEPT ![t] = p],
           stock' = stock
    PROVE  UNCHANGED Ledger!vars
<1>1. \A u \in Tx : Outcome(u)' = Outcome(u)
  BY DEF Outcome, Ended, IInv, TypeOK
<1> QED
  BY <1>1 DEF Ledger!vars

\* A transaction with nothing pending has written exactly what the abstract
\* one of its kind does.
LEMMA CommitRefines ==
    ASSUME IInv, NEW t \in Tx, phase[t] = "next", pending[t] = {},
           phase' = [phase EXCEPT ![t] = "done"], Publish(t)
    PROVE  Ledger!Next
<1> USE TxKindsDisjoint, LinesAreRows, QuantitiesAreIntegers DEF IInv
<1>1. Ledger!Ends(t, "done")
  BY OutcomeEnds DEF Outcome, Ended
<1>2. Active(t) /\ Dealt(t) = LinesOf[t] /\ LinesOf[t] \subseteq Variants
  BY DEF Active, Dealt
<1>3. stock' = [v \in Variants |-> stock[v] + change[t][v]] /\ stock \in [Variants -> Int]
  BY DEF Publish, TypeOK
<1>4. \A v \in Variants : change[t][v] = Uncommitted(t, v)
  BY DEF WritesAreLines
<1>5. t \in Ledger!Tx
  BY DEF Ledger!Tx, Tx
<1>6. CASE t \in Orders
  <2>1. \A v \in LinesOf[t] : stock[v] >= Qty[t][v] /\ v \notin skipped[t]
    BY <1>2, <1>6 DEF ReservationsCovered, OnlySessionsSkip, Reservers
  <2>2. \A v \in Variants : change[t][v] = IF v \in LinesOf[t] THEN -Qty[t][v] ELSE 0
    BY <1>2, <1>4, <1>6, <2>1 DEF Uncommitted, Reservers
  <2>3. Ledger!Place(t)
    BY <1>1, <1>3, <1>6, <2>1, <2>2 DEF Ledger!Place, Ledger!Shelf
  <2> QED
    BY <1>5, <2>3 DEF Ledger!Next
<1>7. CASE t \in Sessions
  <2>1. \A v \in LinesOf[t] : v \notin skipped[t] <=> stock[v] >= Qty[t][v]
    BY <1>2, <1>3, <1>7 DEF ReservationsCovered, Reservers
  <2>2. \A v \in Variants :
          change[t][v] = IF v \in {w \in LinesOf[t] : stock[w] >= Qty[t][w]} THEN -Qty[t][v] ELSE 0
    BY <1>2, <1>4, <1>7, <2>1 DEF Uncommitted, Reservers
  <2>3. Ledger!Fulfil(t)
    BY <1>1, <1>3, <1>7, <2>2 DEF Ledger!Fulfil, Ledger!Shelf
  <2> QED
    BY <1>5, <2>3 DEF Ledger!Next
<1>8. CASE t \in Releases \cup Adjustments
  <2>1. \A v \in Variants : change[t][v] = IF v \in LinesOf[t] THEN Qty[t][v] ELSE 0
    BY <1>2, <1>4, <1>8 DEF Uncommitted, Reservers, OnlySessionsSkip
  <2>2. Ledger!Add(t)
    BY <1>1, <1>3, <1>8, <2>1 DEF Ledger!Add, Ledger!Shelf
  <2> QED
    BY <1>5, <2>2 DEF Ledger!Next
<1>9. CASE t \in Overwrites
  <2>1. \A v \in Variants : change[t][v] = IF v \in LinesOf[t] THEN Qty[t][v] - stock[v] ELSE 0
    BY <1>2, <1>4, <1>9 DEF Uncommitted, Reservers, OnlySessionsSkip
  <2>2. Ledger!Overwrite(t)
    BY <1>1, <1>3, <1>9, <2>1 DEF Ledger!Overwrite
  <2> QED
    BY <1>5, <2>2 DEF Ledger!Next
<1> QED
  BY <1>6, <1>7, <1>8, <1>9 DEF Tx

\* Every step is a step of StockLedger or invisible to it.
LEMMA StepRefines ==
    ASSUME IInv, [Next]_vars
    PROVE  [Ledger!Next]_(Ledger!vars)
<1>1. ASSUME NEW t \in Tx, phase[t] \notin Ended, Rollback(t) PROVE Ledger!Next
  <2>2. Outcome(t) = "open" /\ phase' = [phase EXCEPT ![t] = "failed"]
    BY <1>1 DEF Rollback, Outcome, Ended
  <2>3. Ledger!Ends(t, "failed")
    BY <2>2, OutcomeEnds DEF Ended
  <2>4. Ledger!Refuse(t)
    BY <1>1, <2>3 DEF Ledger!Refuse, Rollback
  <2> QED
    BY <2>4 DEF Ledger!Next, Ledger!Tx, Tx
<1>2. ASSUME NEW t \in Tx, AskRow(t) PROVE UNCHANGED Ledger!vars
  BY <1>2, OutcomeStays DEF AskRow
<1>3. ASSUME NEW t \in Tx, SelectForUpdate(t) PROVE UNCHANGED Ledger!vars
  BY <1>3, OutcomeStays DEF SelectForUpdate
<1>4. ASSUME NEW t \in Tx, Reserve(t) \/ AddStock(t) \/ OverwriteStock(t) PROVE UNCHANGED Ledger!vars
  BY <1>4, OutcomeStays DEF Reserve, AddStock, OverwriteStock, WriteRow
<1>5. ASSUME NEW t \in Tx, SkipLine(t) PROVE UNCHANGED Ledger!vars
  BY <1>5, OutcomeStays DEF SkipLine
<1>6. ASSUME NEW t \in Tx, RefuseOrder(t) PROVE Ledger!Next
  BY <1>1, <1>6 DEF RefuseOrder, Ended
<1>7. ASSUME NEW t \in Tx, DeadlockVictim(t) PROVE Ledger!Next
  BY <1>1, <1>7 DEF DeadlockVictim, LockCycle, Waits, Ended
<1>8. ASSUME NEW t \in Tx, Crash(t) PROVE Ledger!Next
  BY <1>1, <1>8 DEF Crash
<1>9. ASSUME NEW t \in Tx, Commit(t) PROVE Ledger!Next
  BY <1>9, CommitRefines DEF Commit
<1>10. CASE UNCHANGED vars
  BY <1>10 DEF vars, Ledger!vars, Outcome, Ended
<1>11. CASE AllEnded
  BY <1>10, <1>11 DEF AllEnded
<1> QED
  BY <1>2, <1>3, <1>4, <1>5, <1>6, <1>7, <1>8, <1>9, <1>10, <1>11 DEF Next, Work

\* The lock-by-lock inventory implements the all-or-nothing one: an order takes
\* every line or none, and never more than the shelf holds.
THEOREM Refinement == Spec => ImplementsLedger
<1>1. IInv /\ [Next]_vars => [Ledger!Next]_(Ledger!vars)
  BY StepRefines
<1> QED
  BY <1>1, LedgerInit, Invariance, PTL DEF Spec, ImplementsLedger, Ledger!Spec
=============================================================================
