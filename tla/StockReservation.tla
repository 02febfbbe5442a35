-------------------------- MODULE StockReservation --------------------------
(***************************************************************************)
(* Stock moves of the shop as PostgreSQL runs them: concurrent             *)
(* transactions at READ COMMITTED, each a sequence of statements on the    *)
(* rows of ecommerce.product_variants, with row locks held to the end of   *)
(* the transaction.                                                        *)
(*                                                                         *)
(*   Orders       order_service.create_order_from_cart: reserve_stock on   *)
(*                every cart line, in the order of the variant ids         *)
(*   Sessions     webhook_service._create_order_from_session: reserve_stock*)
(*                in the order the rows come back, failures only logged    *)
(*   Releases     release_stock on every line of an order, in the order    *)
(*                the rows come back (_handle_payment_failed, the reaper,  *)
(*                _release_order_inventory)                                *)
(*   Adjustments  inventory_service.adjust_stock                           *)
(*   Overwrites   variant_service.update_variant                           *)
(*                                                                         *)
(* A transaction's writes are kept apart (change, noted) until it commits, *)
(* as MVCC does, so a rollback discards them. Each identifier stands for   *)
(* one transaction and runs once; a variant is on one line of it at most.  *)
(***************************************************************************)
EXTENDS Integers, FiniteSets, FiniteSetsExt

CONSTANTS
    Variants,       \* ids of the product variants; ORDER BY follows <
    Orders, Sessions, Releases, Adjustments, Overwrites,
    LinesOf,        \* [Tx -> SUBSET Variants]: the rows a transaction names
    Qty,            \* [Tx -> [Variants -> Int]]: the quantity on each row
    InitialStock,   \* [Variants -> Nat]
    NoTx            \* "nobody holds the row lock"

Tx == Orders \cup Sessions \cup Releases \cup Adjustments \cup Overwrites
Reservers == Orders \cup Sessions
NoRow == 0

ASSUME VariantsAreIds == Variants \subseteq Nat \ {0} /\ IsFiniteSet(Variants)
ASSUME TxKindsDisjoint ==
    /\ Orders \cap (Sessions \cup Releases \cup Adjustments \cup Overwrites) = {}
    /\ Sessions \cap (Releases \cup Adjustments \cup Overwrites) = {}
    /\ Overwrites \cap (Releases \cup Adjustments) = {}
    /\ NoTx \notin Tx
ASSUME LinesAreRows == LinesOf \in [Tx -> SUBSET Variants]
ASSUME QuantitiesAreIntegers == Qty \in [Tx -> [Variants -> Int]]
ASSUME ShelfIsFilled == InitialStock \in [Variants -> Nat]

VARIABLES
    stock,      \* committed product_variants.stock_quantity
    ledger,     \* committed sum of inventory_records.quantity_change
    holder,     \* who holds the lock of each row
    phase,      \* where each transaction is
    pending,    \* lines a transaction has not dealt with yet
    line,       \* row its current statement is about
    seen,       \* stock_quantity its last SELECT ... FOR UPDATE returned
    skipped,    \* lines a session gave up on
    change,     \* uncommitted change of stock_quantity
    noted       \* uncommitted inventory_records

vars == <<stock, ledger, holder, phase, pending, line, seen, skipped, change, noted>>

Phases == {"next",      \* between two lines
           "asking",    \* a statement is issued and may wait for its row
           "locked",    \* SELECT ... FOR UPDATE has returned
           "done", "failed"}
Ended == {"done", "failed"}
Active(t) == phase[t] \in {"next", "asking", "locked"}
Nothing == [v \in Variants |-> 0]

TypeOK ==
    /\ stock \in [Variants -> Int]
    /\ ledger \in [Variants -> Int]
    /\ holder \in [Variants -> Tx \cup {NoTx}]
    /\ phase \in [Tx -> Phases]
    /\ pending \in [Tx -> SUBSET Variants]
    /\ line \in [Tx -> Variants \cup {NoRow}]
    /\ seen \in [Tx -> Int]
    /\ skipped \in [Tx -> SUBSET Variants]
    /\ change \in [Tx -> [Variants -> Int]]
    /\ noted \in [Tx -> [Variants -> Int]]

Init ==
    /\ stock = InitialStock
    /\ ledger = Nothing
    /\ holder = [v \in Variants |-> NoTx]
    /\ phase = [t \in Tx |-> "next"]
    /\ pending = LinesOf
    /\ line = [t \in Tx |-> NoRow]
    /\ seen = [t \in Tx |-> 0]
    /\ skipped = [t \in Tx |-> {}]
    /\ change = [t \in Tx |-> Nothing]
    /\ noted = [t \in Tx |-> Nothing]

-----------------------------------------------------------------------------
(* Statements *)

\* Mutant of NextLines: the cart query without its ORDER BY.
NextLinesUnsorted(t) == pending[t]

\* The lines whose turn it may be: the cart query sorts by variant_id, the
\* other queries have no ORDER BY.
NextLines(t) ==
    IF t \in Orders THEN {v \in pending[t] : \A w \in pending[t] : v <= w} ELSE pending[t]

\* The loop reaches its next line and sends the statement.
AskRow(t) ==
    /\ phase[t] = "next"
    /\ \E v \in NextLines(t) : line' = [line EXCEPT ![t] = v]
    /\ phase' = [phase EXCEPT ![t] = "asking"]
    /\ UNCHANGED <<stock, ledger, holder, pending, seen, skipped, change, noted>>

RowFree(t) == holder[line[t]] \in {t, NoTx}

\* Mutant of SelectForUpdate: a plain SELECT, which takes no lock and waits
\* for nobody.
SelectWithoutLock(t) ==
    /\ t \in Reservers
    /\ phase[t] = "asking"
    /\ seen' = [seen EXCEPT ![t] = stock[line[t]]]
    /\ phase' = [phase EXCEPT ![t] = "locked"]
    /\ UNCHANGED <<stock, ledger, holder, pending, line, skipped, change, noted>>

\* reserve_stock: SELECT stock_quantity ... FOR UPDATE.
SelectForUpdate(t) ==
    /\ t \in Reservers
    /\ phase[t] = "asking"
    /\ RowFree(t)
    /\ holder' = [holder EXCEPT ![line[t]] = t]
    /\ seen' = [seen EXCEPT ![t] = stock[line[t]]]
    /\ phase' = [phase EXCEPT ![t] = "locked"]
    /\ UNCHANGED <<stock, ledger, pending, line, skipped, change, noted>>

\* UPDATE of the current row by n units and, r # 0, its inventory_records row.
WriteRow(t, n, r) ==
    /\ RowFree(t)
    /\ holder' = [holder EXCEPT ![line[t]] = t]
    /\ change' = [change EXCEPT ![t][line[t]] = n]
    /\ noted' = [noted EXCEPT ![t][line[t]] = r]
    /\ pending' = [pending EXCEPT ![t] = @ \ {line[t]}]
    /\ phase' = [phase EXCEPT ![t] = "next"]
    /\ UNCHANGED <<stock, ledger, line, seen, skipped>>

\* reserve_stock: enough in stock, so UPDATE and INSERT.
Reserve(t) ==
    /\ phase[t] = "locked"
    /\ seen[t] >= Qty[t][line[t]]
    /\ WriteRow(t, -Qty[t][line[t]], -Qty[t][line[t]])

\* Mutant of AddStock: the correction forgets its inventory record.
AddStockUnrecorded(t) ==
    /\ t \in Releases \cup Adjustments
    /\ phase[t] = "asking"
    /\ WriteRow(t, Qty[t][line[t]], 0)

\* release_stock and adjust_stock: UPDATE ... + qty, with no condition.
AddStock(t) ==
    /\ t \in Releases \cup Adjustments
    /\ phase[t] = "asking"
    /\ WriteRow(t, Qty[t][line[t]], Qty[t][line[t]])

\* update_variant: UPDATE ... SET stock_quantity, with no inventory record.
OverwriteStock(t) ==
    /\ t \in Overwrites
    /\ phase[t] = "asking"
    /\ WriteRow(t, Qty[t][line[t]] - stock[line[t]], 0)

-----------------------------------------------------------------------------
(* Ends of a transaction *)

ReleaseLocks(t) == holder' = [v \in Variants |-> IF holder[v] = t THEN NoTx ELSE holder[v]]

\* What the transaction alone could see goes with it.
Discard(t) ==
    /\ change' = [change EXCEPT ![t] = Nothing]
    /\ noted' = [noted EXCEPT ![t] = Nothing]
    /\ pending' = [pending EXCEPT ![t] = {}]
    /\ line' = [line EXCEPT ![t] = NoRow]
    /\ seen' = [seen EXCEPT ![t] = 0]

Rollback(t) ==
    /\ phase' = [phase EXCEPT ![t] = "failed"]
    /\ ReleaseLocks(t)
    /\ Discard(t)
    /\ UNCHANGED <<stock, ledger, skipped>>

Publish(t) ==
    /\ stock' = [v \in Variants |-> stock[v] + change[t][v]]
    /\ ledger' = [v \in Variants |-> ledger[v] + noted[t][v]]
    /\ ReleaseLocks(t)
    /\ Discard(t)
    /\ UNCHANGED skipped

\* Mutant of RefuseOrder: the error is caught, the line left out and the order
\* placed without it.
RefuseLineOnly(t) ==
    /\ t \in Orders
    /\ phase[t] = "locked"
    /\ seen[t] < Qty[t][line[t]]
    /\ pending' = [pending EXCEPT ![t] = @ \ {line[t]}]
    /\ phase' = [phase EXCEPT ![t] = "next"]
    /\ UNCHANGED <<stock, ledger, holder, line, seen, skipped, change, noted>>

\* Mutant of RefuseOrder: wait for stock inside the transaction, lock in hand.
RetryInTransaction(t) ==
    /\ t \in Orders
    /\ phase[t] = "locked"
    /\ seen[t] < Qty[t][line[t]]
    /\ phase' = [phase EXCEPT ![t] = "asking"]
    /\ UNCHANGED <<stock, ledger, holder, pending, line, seen, skipped, change, noted>>

\* reserve_stock raises ValueError: create_order_from_cart lets it escape.
RefuseOrder(t) ==
    /\ t \in Orders
    /\ phase[t] = "locked"
    /\ seen[t] < Qty[t][line[t]]
    /\ Rollback(t)

\* reserve_stock raises ValueError: the session handler logs and goes on.
SkipLine(t) ==
    /\ t \in Sessions
    /\ phase[t] = "locked"
    /\ seen[t] < Qty[t][line[t]]
    /\ pending' = [pending EXCEPT ![t] = @ \ {line[t]}]
    /\ skipped' = [skipped EXCEPT ![t] = @ \cup {line[t]}]
    /\ phase' = [phase EXCEPT ![t] = "next"]
    /\ UNCHANGED <<stock, ledger, holder, line, seen, change, noted>>

Commit(t) ==
    /\ phase[t] = "next"
    /\ pending[t] = {}
    /\ phase' = [phase EXCEPT ![t] = "done"]
    /\ Publish(t)

\* The worker dies, the connection drops or a statement fails.
Crash(t) ==
    /\ phase[t] \notin Ended
    /\ Rollback(t)

-----------------------------------------------------------------------------
(* Lock waits *)

Waits(t) == phase[t] = "asking" /\ ~RowFree(t)

\* Everyone in S waits for a row that somebody else in S holds.
LockCycle(S) == S # {} /\ \A t \in S : Waits(t) /\ holder[line[t]] \in S

\* PostgreSQL picks a victim of a cycle and aborts it.
DeadlockVictim(t) ==
    /\ \E S \in SUBSET Tx : LockCycle(S) /\ t \in S
    /\ Rollback(t)

-----------------------------------------------------------------------------

Work(t) ==
    \/ AskRow(t) \/ SelectForUpdate(t) \/ Reserve(t) \/ AddStock(t) \/ OverwriteStock(t)
    \/ RefuseOrder(t) \/ SkipLine(t)
    \/ Commit(t)
    \/ DeadlockVictim(t)

AllEnded == (\A t \in Tx : phase[t] \in Ended) /\ UNCHANGED vars

Next == (\E t \in Tx : Work(t) \/ Crash(t)) \/ AllEnded

Spec == Init /\ [][Next]_vars

\* A request that is not cut off runs on, and the database answers it.
Fairness == \A t \in Tx : WF_vars(Work(t))

FairSpec == Spec /\ Fairness

-----------------------------------------------------------------------------
(* Properties *)

Kept(t) == phase[t] = "done"

\* Units of v in orders that stand, and units ever put on the shelf.
QtyOf(v) == [t \in Tx |-> Qty[t][v]]
Sellers(v) == {t \in Reservers : Kept(t) /\ v \in LinesOf[t]}
Shelvers(v) == {t \in Releases \cup Adjustments : Kept(t) /\ v \in LinesOf[t] /\ Qty[t][v] > 0}
UnitsSold(v) == SumFunctionOnSet(QtyOf(v), Sellers(v))
UnitsShelved(v) == InitialStock[v] + SumFunctionOnSet(QtyOf(v), Shelvers(v))

\* Whatever the interleaving, the orders that stand hold no more units of a
\* variant than were ever on the shelf (reserve_stock's "prevent oversell").
NoOversell == \A v \in Variants : UnitsSold(v) <= UnitsShelved(v)

\* The append-only log explains the shelf: at every commit point the stock is
\* the opening stock plus the sum of inventory_records (docs/phases/phase-5.md).
LedgerExplainsStock == \A v \in Variants : stock[v] = InitialStock[v] + ledger[v]

\* No set of transactions waits for one another's rows: what sorting the cart
\* lines by variant id is for.
NoLockCycle == \A S \in SUBSET Tx : ~LockCycle(S)

\* Every transaction ends, by commit or by rollback, and so does every wait
\* for a row: no path out of a transaction keeps its locks.
EveryTransactionEnds == \A t \in Tx : <>(phase[t] \in Ended)

\* The lock-by-lock transactions implement the all-or-nothing inventory of
\* StockLedger, as far as anyone outside a transaction can tell.
Outcome(t) == IF phase[t] \in Ended THEN phase[t] ELSE "open"

Ledger == INSTANCE StockLedger WITH outcome <- [t \in Tx |-> Outcome(t)]

ImplementsLedger == Ledger!Spec

-----------------------------------------------------------------------------
(* The inductive invariant behind the theorems *)

Dealt(t) == LinesOf[t] \ pending[t]

\* Where a statement is, its row is pending; once read for update, the row is
\* locked and the value read is still the value stored.
StatementsInPlace ==
    \A t \in Tx :
        /\ pending[t] \subseteq LinesOf[t]
        /\ phase[t] \in {"asking", "locked"} => line[t] \in NextLines(t)
        /\ phase[t] = "locked" => /\ t \in Reservers
                                 /\ holder[line[t]] = t
                                 /\ seen[t] = stock[line[t]]

\* A running transaction holds exactly the rows it has dealt with and the row
\* it has just read; nobody else holds anything.
LocksOwned ==
    \A t \in Tx : \A v \in Variants :
        holder[v] = t <=>
            /\ Active(t)
            /\ v \in Dealt(t) \/ (phase[t] = "locked" /\ v = line[t])

\* An order deals with its lines in ascending order.
OrdersAscend ==
    \A t \in Orders : \A v \in Dealt(t), w \in pending[t] : v < w

\* What a running transaction has written and not committed, row by row.
Uncommitted(t, v) ==
    IF ~Active(t) \/ v \notin Dealt(t) \/ v \in skipped[t] THEN 0
    ELSE IF t \in Reservers THEN -Qty[t][v]
    ELSE IF t \in Overwrites THEN Qty[t][v] - stock[v]
    ELSE Qty[t][v]

WritesAreLines ==
    \A t \in Tx : \A v \in Variants :
        /\ change[t][v] = Uncommitted(t, v)
        /\ t \notin Overwrites => noted[t][v] = change[t][v]

\* An uncommitted reservation is covered by the shelf, and a session gave up
\* only on rows that are still short.
ReservationsCovered ==
    \A t \in Reservers : Active(t) => \A v \in Dealt(t) :
        IF v \in skipped[t] THEN stock[v] < Qty[t][v] ELSE stock[v] >= Qty[t][v]

\* Only sessions give up on lines, and only on lines they have dealt with.
OnlySessionsSkip ==
    \A t \in Tx : skipped[t] \subseteq Dealt(t) /\ (t \notin Sessions => skipped[t] = {})

IInv ==
    /\ TypeOK
    /\ StatementsInPlace
    /\ LocksOwned
    /\ OrdersAscend
    /\ WritesAreLines
    /\ ReservationsCovered
    /\ OnlySessionsSkip

\* The units of v in orders that stand, without the lines a session gave up on.
Takers(v) == {t \in Sellers(v) : v \notin skipped[t]}
UnitsTaken(v) == SumFunctionOnSet(QtyOf(v), Takers(v))

\* They have come off the shelf. (Corrections may have taken more: hence no equation.)
TakenFromShelf ==
    \A v \in Variants :
        /\ IsFiniteSet(Takers(v)) /\ IsFiniteSet(Shelvers(v))
        /\ UnitsTaken(v) <= UnitsShelved(v)
        /\ stock[v] + UnitsTaken(v) <= UnitsShelved(v)
=============================================================================
