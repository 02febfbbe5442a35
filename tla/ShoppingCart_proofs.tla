------------------------- MODULE ShoppingCart_proofs -------------------------
(***************************************************************************)
(* Theorems about what a cart becomes: for any number of users, requests   *)
(* and sweeps, that carts and orders hold what was asked for, that uses of *)
(* the coupon are orders, that each worker reports a cart once, that only  *)
(* a user in a crowd has two, and that a coupon used up spreads no further;*)
(* then, for a cart that is paid in Checkout Sessions, that a session left *)
(* alone gets its order and that another order of a cart costs an overlap  *)
(* or a fault. The last part is about the migrations: that the record of   *)
(* them is the schema.                                                     *)
(***************************************************************************)
EXTENDS ShoppingCart, CheckoutSessions, SchemaMigrations, FiniteSetTheorems, SequenceTheorems, WellFoundedInduction, TLAPS

-----------------------------------------------------------------------------
(* The inductive invariant. What a request has been asked for and is still to write is owed;   *)
(* items and what is owed, together, have been asked for.                                      *)

\* The last n steps of an operation.
Rest(kind, n) == [i \in 1..n |-> Program[kind][Len(Program[kind]) - n + i]]

StepNames ==
    {"empty", "peek", "keep", "delete", "find", "look", "put", "set", "merge", "validate", "spread", "open", "place"}

CartRow == [user : Users, status : {"active", "abandoned", "converted"}, contents : Contents, fired : Nat]
OrderRow == [by : Requests, cart : Nat, items : [Variants -> Nat], coupon : BOOLEAN]
Underway == [todo : Seq(StepNames), op : Operation, mine : Nat, none : BOOLEAN,
             copy : Contents, brought : Contents]

\* A request that works on a cart has one, of its user.
OnCart == {"look", "put", "set", "merge", "place"}
OnItsWay(r) ==
    /\ req[r] \in Underway
    /\ \E n \in 1..Len(Program[req[r].op.kind]) : req[r].todo = Rest(req[r].op.kind, n)
    /\ req[r].mine # 0 => req[r].mine \in DOMAIN carts /\ carts[req[r].mine].user = UserOf[r]
    /\ Head(req[r].todo) \in OnCart => req[r].mine # 0

Typed ==
    /\ guest \in [Users -> Contents]
    /\ carts \in Seq(CartRow)
    /\ orders \subseteq OrderRow /\ IsFiniteSet(orders)
    /\ coupon \in [active : BOOLEAN, uses : Nat, by : [Users -> Nat]]
    /\ DOMAIN req = Requests /\ \A r \in Requests : req[r] \in {Idle, Ended} \/ OnItsWay(r)
    /\ picked \in [Sweepers -> SUBSET DOMAIN carts]
    /\ asked \in [Users -> [Variants -> Nat]]
    /\ crowded \subseteq Users

\* Requests of a user that are going to write a quantity they have asked for, and the units of it.
Asks == {"guestAdd", "guestUpdate", "add", "update"}
Writes == {"keep", "put", "set"}
Owing(u, v) ==
    {r \in Requests :
        /\ UserOf[r] = u /\ InProgress(r)
        /\ req[r].op.kind \in Asks /\ req[r].op.variant = v
        /\ \E i \in DOMAIN req[r].todo : req[r].todo[i] \in Writes}
Units(r) == {r} \X (1..req[r].op.quantity)
Owed(u, v) == Cardinality(UNION {Units(r) : r \in Owing(u, v)})

\* Wherever items of a user are, they and what is still to be written have been asked for.
Backed(u, held) == \A v \in Variants : held[v] + Owed(u, v) <= asked[u][v]
AllIsBacked ==
    /\ \A u \in Users : Backed(u, guest[u].items)
    /\ \A c \in DOMAIN carts : Backed(carts[c].user, carts[c].contents.items)
    /\ \A r \in Requests : InProgress(r) =>
          Backed(UserOf[r], req[r].brought.items) /\ Backed(UserOf[r], req[r].copy.items)
    /\ \A o \in orders, v \in Variants : o.items[v] <= asked[UserOf[o.by]][v]

\* An order is the last thing a request does.
OrdersEnd == \A o \in orders : req[o.by] = Ended

\* A cart that may be picked has not been reported, and whoever has picked it will report it once.
Pickers(c) == {w \in Sweepers : c \in picked[w]}
ReportsAreBounded ==
    \A c \in DOMAIN carts :
       /\ carts[c].status = "active" => carts[c].fired = 0
       /\ carts[c].fired + Cardinality(Pickers(c)) <= Cardinality(Sweepers)

\* A user who is not in a crowd has one request at a time, and has no cart when it creates one.
AloneAtWork ==
    \A u \in Users \ crowded :
       /\ \A c, d \in Active(u) : c = d
       /\ \A q, r \in Requests : UserOf[q] = u /\ UserOf[r] = u /\ InProgress(q) /\ InProgress(r) => q = r
       /\ \A r \in Requests : UserOf[r] = u /\ InProgress(r) /\ req[r].none => Active(u) = {}

IInv == Typed /\ AllIsBacked /\ OrdersEnd /\ UsesAreOrders /\ ReportsAreBounded /\ AloneAtWork

-----------------------------------------------------------------------------
(* Requests and their steps *)

\* The steps of each operation.
LEMMA Operations ==
    /\ DOMAIN Program = {"guestClear", "guestAdd", "guestUpdate", "guestRemove", "guestApply", "guestDrop",
                         "clear", "add", "update", "remove", "apply", "drop",
                         "view", "merge", "checkout", "checkoutWithCode"}
    /\ Program["guestClear"] = <<"empty">>
    /\ \A k \in {"guestAdd", "guestUpdate", "guestRemove", "guestDrop"} : Program[k] = <<"peek", "keep">>
    /\ Program["guestApply"] = <<"validate", "peek", "keep">>
    /\ Program["clear"] = <<"find", "set">>
    /\ Program["add"] = <<"find", "look", "put", "find">>
    /\ \A k \in {"update", "remove", "drop"} : Program[k] = <<"find", "set", "find">>
    /\ Program["apply"] = <<"find", "validate", "find", "set", "find">>
    /\ Program["view"] = <<"find">>
    /\ Program["merge"] = <<"peek", "find", "look", "merge", "delete", "find">>
    /\ Program["checkout"] = <<"open", "look", "place">>
    /\ Program["checkoutWithCode"] = <<"validate", "spread", "open", "look", "place">>
<1> USE DEF GetCart, ClearCart, AddItem, UpdateItem, RemoveItem, ApplyDiscount, RemoveDiscount,
        MergeCart, CreateOrder, CheckoutWithCode
<1>1. DOMAIN Program = {"guestClear", "guestAdd", "guestUpdate", "guestRemove", "guestApply", "guestDrop",
                         "clear", "add", "update", "remove", "apply", "drop",
                         "view", "merge", "checkout", "checkoutWithCode"}
  BY DEF Program
<1>2. Program["guestClear"] = <<"empty">>
  BY DEF Program
<1>3. \A k \in {"guestAdd", "guestUpdate", "guestRemove", "guestDrop"} : Program[k] = <<"peek", "keep">>
  BY DEF Program
<1>4. Program["guestApply"] = <<"validate", "peek", "keep">> /\ Program["clear"] = <<"find", "set">>
  BY DEF Program
<1>5. Program["add"] = <<"find", "look", "put", "find">> /\ Program["view"] = <<"find">>
  BY DEF Program
<1>6. \A k \in {"update", "remove", "drop"} : Program[k] = <<"find", "set", "find">>
  BY DEF Program
<1>7. Program["apply"] = <<"find", "validate", "find", "set", "find">>
  BY DEF Program
<1>8. Program["merge"] = <<"peek", "find", "look", "merge", "delete", "find">>
  BY DEF Program
<1>9. Program["checkout"] = <<"open", "look", "place">>
  BY DEF Program
<1>10. Program["checkoutWithCode"] = <<"validate", "spread", "open", "look", "place">>
  BY DEF Program
<1> QED
  BY <1>1, <1>2, <1>3, <1>4, <1>5, <1>6, <1>7, <1>8, <1>9, <1>10

\* A function on 1..n is a sequence.
LEMMA IsSequence ==
    ASSUME NEW S, NEW n \in Nat, NEW P \in [1..n -> S]
    PROVE  P \in Seq(S) /\ Len(P) = n
<1>1. [1..n -> S] \in {[1..m -> S] : m \in Nat}
  OBVIOUS
<1>2. P \in UNION {[1..m -> S] : m \in Nat}
  BY <1>1
<1>3. P \in Seq(S)
  BY <1>2, SeqDef
<1> QED
  BY <1>3

\* What is due when in an operation of L steps.
DueIn(k, L) ==
    /\ Program[k] \in [1..L -> StepNames]
    /\ \A n \in 1..L :
         /\ Program[k][L - n + 1] \in {"keep", "place"} => n = 1
         /\ Program[k][L - n + 1] \in {"put", "set"} => \A m \in 1..n - 1 : Program[k][L - m + 1] \notin Writes
         /\ Program[k][L - n + 1] = "put" => k = "add"
         /\ Program[k][L - n + 1] = "keep" => k \in {"guestAdd", "guestUpdate", "guestRemove", "guestApply", "guestDrop"}
         /\ Program[k][L - n + 1] = "set" => k \in {"clear", "update", "remove", "apply", "drop"}
         /\ Program[k][L - n + 1] = "peek" => n > 1 /\ (k = "merge" \/ n = 2)
         /\ Program[k][L - n + 1] = "merge" => k = "merge"
         /\ Program[k][L - n + 1] = "place" => k \in {"checkout", "checkoutWithCode"}
         /\ n > 1 /\ Program[k][L - n + 2] \in OnCart => Program[k][L - n + 1] \in OnCart \cup {"find", "open"}
    /\ Program[k][1] \notin OnCart
    /\ k \in Asks => \E n \in 1..L : Program[k][n] \in Writes

\* Every operation does its steps in an order that the rest of the proof can rely on.
LEMMA StepsDue ==
    ASSUME NEW k \in DOMAIN Program
    PROVE  \E L \in 1..6 : DueIn(k, L)
<1> USE DEF StepNames, Writes, OnCart, Asks
<1>1. CASE k = "guestClear"
  <2>1. DueIn(k, 1)
    BY <1>1, Operations DEF DueIn
  <2> QED
    BY <2>1
<1>2. CASE k \in {"guestAdd", "guestUpdate", "guestRemove", "guestDrop"}
  <2>1. DueIn(k, 2)
    BY <1>2, Operations DEF DueIn
  <2> QED
    BY <2>1
<1>3. CASE k = "guestApply"
  <2>1. DueIn(k, 3)
    BY <1>3, Operations DEF DueIn
  <2> QED
    BY <2>1
<1>4. CASE k = "clear"
  <2>1. DueIn(k, 2)
    BY <1>4, Operations DEF DueIn
  <2> QED
    BY <2>1
<1>5. CASE k = "add"
  <2>1. DueIn(k, 4)
    BY <1>5, Operations DEF DueIn
  <2> QED
    BY <2>1
<1>6. CASE k \in {"update", "remove", "drop"}
  <2>1. DueIn(k, 3)
    <3>1. Program[k] = <<"find", "set", "find">> /\ k \notin {"add"}
      BY <1>6, Operations
    <3> QED
      BY <1>6, <3>1 DEF DueIn
  <2> QED
    BY <2>1
<1>7. CASE k = "apply"
  <2>1. DueIn(k, 5)
    BY <1>7, Operations DEF DueIn
  <2> QED
    BY <2>1
<1>8. CASE k = "view"
  <2>1. DueIn(k, 1)
    BY <1>8, Operations DEF DueIn
  <2> QED
    BY <2>1
<1>9. CASE k = "merge"
  <2>1. DueIn(k, 6)
    BY <1>9, Operations DEF DueIn
  <2> QED
    BY <2>1
<1>10. CASE k = "checkout"
  <2>1. DueIn(k, 3)
    BY <1>10, Operations DEF DueIn
  <2> QED
    BY <2>1
<1>11. CASE k = "checkoutWithCode"
  <2>1. DueIn(k, 5)
    BY <1>11, Operations DEF DueIn
  <2> QED
    BY <2>1
<1> QED
  BY <1>1, <1>2, <1>3, <1>4, <1>5, <1>6, <1>7, <1>8, <1>9, <1>10, <1>11, Operations

\* The last n steps of an operation, one by one.
LEMMA RestOf ==
    ASSUME NEW k \in DOMAIN Program
    PROVE  /\ Len(Program[k]) \in 1..6 /\ DueIn(k, Len(Program[k])) /\ Program[k] = Rest(k, Len(Program[k]))
           /\ \A n \in 1..Len(Program[k]) :
                /\ Rest(k, n) \in Seq(StepNames) /\ Len(Rest(k, n)) = n
                /\ \A i \in 1..n : Rest(k, n)[i] = Program[k][Len(Program[k]) - n + i]
                /\ n > 1 => Tail(Rest(k, n)) = Rest(k, n - 1)
<1> DEFINE L == Len(Program[k])
<1>1. L \in 1..6 /\ DueIn(k, L) /\ Program[k] \in [1..L -> StepNames] /\ Program[k] \in Seq(StepNames)
  <2>1. PICK M \in 1..6 : DueIn(k, M)
    BY StepsDue
  <2>2. Program[k] \in [1..M -> StepNames]
    BY <2>1 DEF DueIn
  <2>3. Program[k] \in Seq(StepNames) /\ L = M
    BY <2>2, IsSequence
  <2> QED
    BY <2>1, <2>2, <2>3
<1>2. ASSUME NEW n \in 1..L
      PROVE  Rest(k, n) \in [1..n -> StepNames] /\ Rest(k, n) \in Seq(StepNames) /\ Len(Rest(k, n)) = n
  <2>1. Rest(k, n) \in [1..n -> StepNames]
    BY <1>1 DEF Rest
  <2> QED
    BY <2>1, IsSequence
<1>3. Program[k] = Rest(k, L)
  BY <1>1 DEF Rest
<1>4. ASSUME NEW n \in 1..L, n > 1 PROVE Tail(Rest(k, n)) = Rest(k, n - 1)
  <2>1. n - 1 \in 1..L
    BY <1>1, <1>4
  <2>2. /\ Tail(Rest(k, n)) \in Seq(StepNames) /\ Len(Tail(Rest(k, n))) = n - 1
        /\ \A i \in 1..n - 1 : Tail(Rest(k, n))[i] = Rest(k, n)[i + 1]
    BY <1>2, <1>4
  <2>3. \A i \in 1..n - 1 : Rest(k, n)[i + 1] = Rest(k, n - 1)[i]
    BY <1>1, <2>1 DEF Rest
  <2>4. Rest(k, n - 1) \in Seq(StepNames) /\ Len(Rest(k, n - 1)) = n - 1
    BY <2>1, <1>2
  <2> QED
    BY <2>2, <2>3, <2>4, SeqEqual
<1>5. ASSUME NEW n \in 1..L PROVE \A i \in 1..n : Rest(k, n)[i] = Program[k][L - n + i]
  BY <1>1 DEF Rest
<1> QED
  BY <1>1, <1>2, <1>3, <1>4, <1>5

\* A request on its way, n steps from its end.
LEMMA OneOnItsWay ==
    ASSUME NEW r \in Requests, OnItsWay(r)
    PROVE  /\ InProgress(r) /\ req[r].op.kind \in DOMAIN Program /\ req[r].todo # <<>>
           /\ Head(req[r].todo) \in StepNames /\ Len(req[r].todo) \in 1..6
           /\ req[r].todo = Rest(req[r].op.kind, Len(req[r].todo))
           /\ Len(req[r].todo) <= Len(Program[req[r].op.kind])
<1>1. PICK n \in 1..Len(Program[req[r].op.kind]) : req[r].todo = Rest(req[r].op.kind, n)
  BY DEF OnItsWay
<1>2. req[r].op.kind \in DOMAIN Program
  BY DEF OnItsWay, Underway, Operation
<1>3. /\ n \in 1..6 /\ Len(req[r].todo) = n /\ req[r].todo \in Seq(StepNames)
  <2> DEFINE m == Len(Program[req[r].op.kind])
  <2>1. m \in 1..6
    BY <1>2, RestOf
  <2>2. Rest(req[r].op.kind, n) \in Seq(StepNames) /\ Len(Rest(req[r].op.kind, n)) = n
    BY <1>2, RestOf
  <2>3. n \in 1..m
    OBVIOUS
  <2> HIDE DEF m
  <2>4. n \in 1..6
    BY <2>1, <2>3
  <2> QED
    BY <1>1, <2>2, <2>4
<1>4. Head(req[r].todo) \in StepNames /\ req[r].todo # <<>>
  BY <1>3
<1>5. Head(req[r].todo) # "begin"
  BY <1>4 DEF StepNames
<1>6. InProgress(r)
  <2>1. Head(Idle.todo) = "begin" /\ Ended.todo = <<>>
    BY DEF Idle, Ended
  <2> QED
    BY <2>1, <1>4, <1>5 DEF InProgress
<1> QED
  BY <1>1, <1>2, <1>3, <1>4, <1>6, RestOf

\* Whoever has a step to do is on its way.
LEMMA WhoIsAt ==
    ASSUME Typed, NEW r \in Requests, NEW s \in StepNames, At(r, s)
    PROVE  OnItsWay(r)
<1>1. req[r] # Ended
  BY DEF At, Ended
<1>2. req[r] # Idle
  BY DEF At, Idle, StepNames
<1> QED
  BY <1>1, <1>2 DEF Typed

\* A request goes on with its operation, to what is left of it, or is over; the others stay.
GetsOn(r) ==
    /\ OnItsWay(r) /\ DOMAIN req' = Requests
    /\ \A q \in Requests \ {r} : req'[q] = req[q]
    /\ \/ req'[r] = Ended
       \/ /\ OnItsWay(r)' /\ req'[r].op = req[r].op
          /\ \A i \in DOMAIN req'[r].todo : \E j \in DOMAIN req[r].todo : req'[r].todo[i] = req[r].todo[j]

Written(r) == \A i \in DOMAIN req'[r].todo : req'[r].todo[i] \notin Writes

\* A request that stops has got on: it is over.
LEMMA Stopping ==
    ASSUME Typed, NEW r \in Requests, OnItsWay(r), Stop(r)
    PROVE  GetsOn(r) /\ req'[r] = Ended /\ Written(r)
  BY DEF Stop, GetsOn, Written, Ended, Typed

\* So has a request that goes on with x, if what x works on is a cart of its user; and with the
\* step that writes, it has nothing more to write.
LEMMA Going ==
    ASSUME Typed, NEW r \in Requests, NEW s \in StepNames, At(r, s),
           NEW x \in Underway, x.todo = req[r].todo, x.op = req[r].op, GoOn(r, x),
           x.mine # 0 => x.mine \in DOMAIN carts' /\ carts'[x.mine].user = UserOf[r],
           s \in OnCart \cup {"find", "open"} => x.mine # 0
    PROVE  /\ GetsOn(r)
           /\ \/ req'[r] = Ended
              \/ req'[r] = [x EXCEPT !.todo = Tail(@)] /\ s \notin {"keep", "place"}
           /\ s \in Writes => Written(r)
<1> DEFINE k == req[r].op.kind
           n == Len(req[r].todo)
           L == Len(Program[k])
           y == [x EXCEPT !.todo = Tail(@)]
<1>1. OnItsWay(r) /\ DOMAIN req = Requests
  BY WhoIsAt DEF Typed
<1>2. k \in DOMAIN Program /\ n \in 1..6 /\ req[r].todo = Rest(k, n) /\ n <= L
  BY <1>1, OneOnItsWay
<1>3. L \in 1..6 /\ DueIn(k, L)
  BY <1>2, RestOf
<1>4. /\ DOMAIN req' = Requests /\ \A q \in Requests \ {r} : req'[q] = req[q]
      /\ n = 1 => req'[r] = Ended
      /\ n # 1 => req'[r] = y
  BY <1>1 DEF GoOn
<1>5. At(r, s) /\ s = Head(Rest(k, n))
  BY <1>2 DEF At
<1>6. y.op = req[r].op /\ y.mine = x.mine /\ y.todo = Tail(Rest(k, n))
  BY <1>2 DEF Underway
<1>7. /\ y.todo \in Seq(StepNames) => y \in Underway
      /\ OnItsWay(r)' <=> /\ req'[r] \in Underway
                          /\ \E m \in 1..Len(Program[req'[r].op.kind]) : req'[r].todo = Rest(req'[r].op.kind, m)
                          /\ req'[r].mine # 0 => req'[r].mine \in DOMAIN carts' /\ carts'[req'[r].mine].user = UserOf[r]
                          /\ Head(req'[r].todo) \in OnCart => req'[r].mine # 0
  BY DEF Underway, OnItsWay
<1>8. k = req[r].op.kind /\ L = Len(Program[k])
  OBVIOUS
<1> HIDE DEF k, n, L, y
<1>9. n \in Nat /\ L \in Nat /\ n >= 1 /\ n <= L /\ n \in 1..L
  BY <1>2, <1>3
<1>10. Rest(k, n) \in Seq(StepNames) /\ Len(Rest(k, n)) = n
       /\ (\A i \in 1..n : Rest(k, n)[i] = Program[k][L - n + i]) /\ (n > 1 => Tail(Rest(k, n)) = Rest(k, n - 1))
  BY <1>2, <1>8, <1>9, RestOf
<1>11. s = Program[k][L - n + 1]
  BY <1>5, <1>9, <1>10
<1>12. CASE n = 1
  <2>1. req'[r] = Ended /\ DOMAIN req'[r].todo = {}
    BY <1>4, <1>12 DEF Ended
  <2> QED
    BY <2>1, <1>1, <1>4 DEF GetsOn, Written
<1>13. CASE n > 1
  <2> DEFINE m == n - 1
  <2>1. m \in Nat /\ m >= 1 /\ m \in 1..L /\ n = m + 1
    BY <1>9, <1>13
  <2>2. y.todo = Rest(k, m)
    BY <1>6, <1>10, <1>13
  <2> HIDE DEF m
  <2>3. /\ Rest(k, m) \in Seq(StepNames) /\ Len(Rest(k, m)) = m
        /\ \A i \in 1..m : Rest(k, m)[i] = Program[k][L - m + i]
    BY <1>2, <1>8, <2>1, RestOf
  <2>4. \A i \in 1..m : i + 1 \in 1..n /\ L - m + i = L - n + (i + 1)
    BY <1>9, <2>1
  <2>5. \A i \in 1..m : i + 1 \in 1..n /\ Rest(k, m)[i] = Rest(k, n)[i + 1]
    BY <2>3, <2>4, <1>10
  <2>6. DOMAIN Rest(k, m) = 1..m /\ DOMAIN Rest(k, n) = 1..n
    BY <2>1, <2>3, <1>9, <1>10
  <2>7. Head(y.todo) = Program[k][L - m + 1] /\ L - m + 1 = L - n + 2
    BY <2>1, <2>2, <2>3, <1>9
  <2>8. /\ s \in {"keep", "place"} => n = 1
        /\ s \in {"put", "set"} => \A j \in 1..m : Program[k][L - j + 1] \notin Writes
        /\ Program[k][L - n + 2] \in OnCart => s \in OnCart \cup {"find", "open"}
    BY <1>3, <1>9, <1>11, <1>13 DEF DueIn, m
  <2>9. s \notin {"keep", "place"}
    BY <2>8, <1>13
  <2>10. req'[r] = y /\ y \in Underway
    BY <2>2, <2>3, <1>4, <1>7, <1>13
  <2>11. \E j \in 1..Len(Program[k]) : req'[r].todo = Rest(k, j)
    BY <2>1, <2>2, <2>10, <1>8
  <2>12. OnItsWay(r)'
    BY <2>7, <2>8, <2>10, <2>11, <1>6, <1>7, <1>8
  <2>13. \A i \in DOMAIN req'[r].todo : \E j \in DOMAIN req[r].todo : req'[r].todo[i] = req[r].todo[j]
    BY <2>2, <2>5, <2>6, <2>10, <1>2
  <2>14. ASSUME s \in Writes PROVE Written(r)
    <3>1. s \in {"put", "set"}
      BY <2>9, <2>14 DEF Writes
    <3>2. \A i \in 1..m : m - i + 1 \in 1..m /\ L - (m - i + 1) + 1 = L - m + i
      BY <2>1, <1>9
    <3>3. \A i \in 1..m : Rest(k, m)[i] \notin Writes
      BY <3>1, <3>2, <2>3, <2>8
    <3> QED
      BY <3>3, <2>2, <2>6, <2>10 DEF Written
  <2> QED
    BY <2>9, <2>10, <2>12, <2>13, <2>14, <1>1, <1>4, <1>6 DEF GetsOn, y
<1> QED
  BY <1>9, <1>12, <1>13

LEMMA SoMany ==
    ASSUME NEW r, NEW n \in Nat
    PROVE  IsFiniteSet({r} \X (1..n)) /\ Cardinality({r} \X (1..n)) = n
<1>1. IsFiniteSet(1..n) /\ Cardinality(1..n) = n
  BY FS_Interval
<1>2. IsFiniteSet({r}) /\ Cardinality({r}) = 1
  BY FS_Singleton
<1>3. /\ IsFiniteSet({r} \X (1..n))
      /\ Cardinality({r} \X (1..n)) = Cardinality({r}) * Cardinality(1..n)
  BY <1>1, <1>2, FS_Product, ZenonT(30)
<1> QED
  BY <1>1, <1>2, <1>3

\* The units of a request are as many as it has been asked for.
LEMMA UnitsOf ==
    ASSUME Parameters, NEW r \in Requests, OnItsWay(r)
    PROVE  /\ IsFiniteSet(Units(r)) /\ Cardinality(Units(r)) = req[r].op.quantity
           /\ req[r].op.quantity \in Nat
<1> DEFINE q == req[r].op.quantity
<1>1. q \in Nat
  BY DEF Parameters, OnItsWay, Underway, Operation
<1> HIDE DEF q
<1>2. IsFiniteSet({r} \X (1..q)) /\ Cardinality({r} \X (1..q)) = q
  BY <1>1, SoMany
<1> QED
  BY <1>1, <1>2 DEF Units, q

\* What is owed can be counted.
LEMMA OwedIsFinite ==
    ASSUME Parameters, Typed, NEW u, NEW v
    PROVE  IsFiniteSet(UNION {Units(r) : r \in Owing(u, v)}) /\ Owed(u, v) \in Nat
<1> DEFINE O == Owing(u, v)
           T == {Units(r) : r \in O}
           f == [r \in O |-> Units(r)]
<1>1. O \subseteq Requests /\ IsFiniteSet(O)
  BY FS_Subset DEF Parameters, Owing
<1>2. \A r \in O : IsFiniteSet(Units(r))
  BY <1>1, UnitsOf DEF Owing, Typed, InProgress
<1>3. f \in Surjection(O, T)
  BY DEF Surjection
<1>4. IsFiniteSet(T) /\ \A U \in T : IsFiniteSet(U)
  BY <1>1, <1>2, <1>3, FS_Surjection
<1>5. IsFiniteSet(UNION T)
  BY <1>4, FS_UNION
<1> QED
  BY <1>5, FS_CardinalityType DEF Owed

\* A step of a request owes no more than before, and less by what it writes.
LEMMA OwedShrinks ==
    ASSUME Parameters, Typed, NEW r \in Requests, GetsOn(r), NEW u, NEW v
    PROVE  Owed(u, v)' \in Nat /\ Owed(u, v) \in Nat /\ Owed(u, v)' <= Owed(u, v)
<1>1. \A q \in Owing(u, v)' : q \in Owing(u, v) /\ req'[q].op = req[q].op
  <2> SUFFICES ASSUME NEW q \in Owing(u, v)' PROVE q \in Owing(u, v) /\ req'[q].op = req[q].op
    OBVIOUS
  <2>1. CASE q # r
    BY <2>1 DEF Owing, GetsOn, InProgress
  <2>2. CASE q = r
    <3>1. req'[r].op = req[r].op
          /\ \A i \in DOMAIN req'[r].todo : \E j \in DOMAIN req[r].todo : req'[r].todo[i] = req[r].todo[j]
      BY <2>2 DEF Owing, GetsOn, InProgress
    <3>2. InProgress(r)
      BY OneOnItsWay DEF GetsOn
    <3> QED
      BY <2>2, <3>1, <3>2 DEF Owing
  <2> QED
    BY <2>1, <2>2
<1>2. (UNION {Units(q) : q \in Owing(u, v)})' \subseteq UNION {Units(q) : q \in Owing(u, v)}
  BY <1>1 DEF Units
<1>3. IsFiniteSet(UNION {Units(q) : q \in Owing(u, v)}) /\ Owed(u, v) \in Nat
  BY OwedIsFinite
<1> QED
  BY <1>2, <1>3, FS_Subset, FS_CardinalityType DEF Owed

\* The step that writes what was asked for owes it no longer.
LEMMA WriterPays ==
    ASSUME Parameters, Typed, NEW r \in Requests, GetsOn(r), Written(r),
           NEW s \in Writes, At(r, s), req[r].op.kind \in Asks, NEW v, v = req[r].op.variant
    PROVE  /\ req[r].op.quantity \in Nat
           /\ req[r].op.quantity + Owed(UserOf[r], v)' <= Owed(UserOf[r], v)
<1> DEFINE u == UserOf[r]
           q == req[r].op.quantity
           S == UNION {Units(p) : p \in Owing(u, v)}
           R == UNION {Units(p) : p \in Owing(u, v) \ {r}}
<1>1. r \in Owing(u, v)
  <2>1. InProgress(r) /\ Len(req[r].todo) \in 1..6 /\ req[r].todo # <<>>
    BY OneOnItsWay DEF GetsOn
  <2>2. 1 \in DOMAIN req[r].todo /\ req[r].todo[1] = s
    BY <2>1 DEF At, GetsOn, OnItsWay, Underway
  <2> QED
    BY <2>1, <2>2 DEF Owing
<1>2. \A p \in Owing(u, v)' : p \in Owing(u, v) \ {r} /\ req'[p].op = req[p].op
  <2> SUFFICES ASSUME NEW p \in Owing(u, v)' PROVE p \in Owing(u, v) \ {r} /\ req'[p].op = req[p].op
    OBVIOUS
  <2>1. p # r
    BY DEF Owing, Written
  <2> QED
    BY <2>1 DEF Owing, GetsOn, InProgress
<1>3. IsFiniteSet(S) /\ IsFiniteSet(Units(r)) /\ Cardinality(Units(r)) = q /\ q \in Nat
  BY OwedIsFinite, UnitsOf DEF GetsOn
<1>4. R \cup Units(r) = S /\ R \cap Units(r) = {} /\ R \subseteq S
  BY <1>1 DEF Units
<1>5. S' \subseteq R
  BY <1>2 DEF Units
<1> HIDE DEF R, S, q
<1>6. IsFiniteSet(R) /\ IsFiniteSet(S')
  BY <1>3, <1>4, <1>5, FS_Subset
<1>7. Cardinality(S') <= Cardinality(R)
  BY <1>5, <1>6, FS_Subset
<1>8. Cardinality(S) = Cardinality(R) + q - 0
  <2>1. Cardinality(R \cup Units(r)) = Cardinality(R) + Cardinality(Units(r)) - Cardinality(R \cap Units(r))
    BY <1>3, <1>6, FS_Union
  <2>2. Cardinality(R \cap Units(r)) = 0
    BY <1>4, FS_EmptySet
  <2> QED
    BY <1>3, <1>4, <2>1, <2>2
<1>9. Cardinality(R) \in Nat /\ Cardinality(S') \in Nat
  BY <1>6, FS_CardinalityType
<1> QED
  BY <1>3, <1>7, <1>8, <1>9 DEF Owed, S, q

\* A row of carts.
LEMMA CartAt ==
    ASSUME Typed
    PROVE  /\ Len(carts) \in Nat /\ DOMAIN carts = 1..Len(carts)
           /\ \A c \in DOMAIN carts : carts[c] \in CartRow /\ c \in Nat /\ c # 0
  BY DEF Typed

\* Requests are on their way after one of them has got on, if the carts stay their users'.
LEMMA RequestsStay ==
    ASSUME Typed, NEW r \in Requests, GetsOn(r),
           \A c \in DOMAIN carts : c \in DOMAIN carts' /\ carts'[c].user = carts[c].user
    PROVE  DOMAIN req' = Requests /\ \A q \in Requests : req'[q] \in {Idle, Ended} \/ OnItsWay(q)'
<1> SUFFICES ASSUME NEW q \in Requests, q # r PROVE req'[q] \in {Idle, Ended} \/ OnItsWay(q)'
  BY DEF GetsOn
<1>1. req'[q] = req[q]
  BY DEF GetsOn
<1>2. CASE req[q] \in {Idle, Ended}
  BY <1>1, <1>2
<1>3. CASE OnItsWay(q)
  BY <1>1, <1>3 DEF OnItsWay
<1> QED
  BY <1>2, <1>3 DEF Typed

\* Requests that have placed an order stay ended.
LEMMA OrdersStay ==
    ASSUME Typed, OrdersEnd, NEW r \in Requests, GetsOn(r), orders' = orders
    PROVE  OrdersEnd'
<1> SUFFICES ASSUME NEW o \in orders PROVE req'[o.by] = Ended
  BY DEF OrdersEnd
<1>1. req[o.by] = Ended /\ o.by \in Requests
  BY DEF OrdersEnd, Typed, OrderRow
<1>2. o.by # r
  BY <1>1, OneOnItsWay DEF GetsOn, InProgress
<1> QED
  BY <1>1, <1>2 DEF GetsOn

\* A user who works alone still does after a step that gives nobody a cart.
LEMMA AloneStay ==
    ASSUME AloneAtWork, NEW r \in Requests, GetsOn(r), crowded' = crowded,
           \A u \in Users \ crowded : Active(u)' \subseteq Active(u),
           InProgress(r)' /\ req'[r].none => req[r].none \/ Active(UserOf[r]) = {}
    PROVE  AloneAtWork'
<1> SUFFICES ASSUME NEW u \in Users \ crowded
             PROVE  /\ \A c, d \in Active(u)' : c = d
                    /\ \A p, q \in Requests :
                          UserOf[p] = u /\ UserOf[q] = u /\ InProgress(p)' /\ InProgress(q)' => p = q
                    /\ \A q \in Requests : UserOf[q] = u /\ InProgress(q)' /\ req'[q].none => Active(u)' = {}
  BY DEF AloneAtWork
<1>1. \A q \in Requests : InProgress(q)' => InProgress(q)
  BY OneOnItsWay DEF GetsOn, InProgress
<1>2. /\ \A c, d \in Active(u) : c = d
      /\ \A p, q \in Requests : UserOf[p] = u /\ UserOf[q] = u /\ InProgress(p) /\ InProgress(q) => p = q
      /\ \A q \in Requests : UserOf[q] = u /\ InProgress(q) /\ req[q].none => Active(u) = {}
  BY DEF AloneAtWork
<1>3. Active(u)' \subseteq Active(u)
  OBVIOUS
<1>4. ASSUME NEW q \in Requests, UserOf[q] = u, InProgress(q)', req'[q].none PROVE Active(u)' = {}
  <2>1. CASE q = r
    BY <1>1, <1>2, <1>3, <1>4, <2>1
  <2>2. CASE q # r
    <3>1. req'[q] = req[q]
      BY <2>2 DEF GetsOn
    <3> QED
      BY <3>1, <1>1, <1>2, <1>3, <1>4
  <2> QED
    BY <2>1, <2>2
<1> QED
  BY <1>1, <1>2, <1>3, <1>4

\* A step of a request that touches nothing but itself, and what is in carts, keeps the invariant
\* if all items are backed afterwards.
LEMMA Working ==
    ASSUME Parameters, IInv, NEW r \in Requests, GetsOn(r),
           orders' = orders, coupon' = coupon, picked' = picked, asked' = asked, crowded' = crowded,
           guest' \in [Users -> Contents], carts' \in Seq(CartRow), DOMAIN carts' = DOMAIN carts,
           \A c \in DOMAIN carts : /\ carts'[c].user = carts[c].user
                                   /\ carts'[c].status = carts[c].status
                                   /\ carts'[c].fired = carts[c].fired,
           \A u \in Users, v \in Variants : guest'[u].items[v] + Owed(u, v)' <= asked[u][v],
           \A c \in DOMAIN carts, u \in Users, v \in Variants :
              carts[c].user = u => carts'[c].contents.items[v] + Owed(u, v)' <= asked[u][v],
           InProgress(r)' =>
              /\ \A v \in Variants : req'[r].brought.items[v] + Owed(UserOf[r], v)' <= asked[UserOf[r]][v]
              /\ \A v \in Variants : req'[r].copy.items[v] + Owed(UserOf[r], v)' <= asked[UserOf[r]][v],
           InProgress(r)' /\ req'[r].none => req[r].none \/ Active(UserOf[r]) = {}
    PROVE  IInv'
<1>1. Typed'
  BY RequestsStay DEF IInv, Typed
<1>2. AllIsBacked'
  <2>1. ASSUME NEW q \in Requests, InProgress(q)', NEW v \in Variants
        PROVE  /\ req'[q].brought.items[v] + Owed(UserOf[q], v)' <= asked[UserOf[q]][v]
               /\ req'[q].copy.items[v] + Owed(UserOf[q], v)' <= asked[UserOf[q]][v]
    <3>1. CASE q = r
      BY <2>1, <3>1
    <3>2. CASE q # r
      <4>1. req'[q] = req[q] /\ InProgress(q)
        BY <2>1, <3>2 DEF GetsOn, InProgress
      <4>2. req[q].brought.items[v] \in Nat /\ req[q].copy.items[v] \in Nat /\ asked[UserOf[q]][v] \in Nat
        BY <4>1 DEF IInv, Typed, Parameters, InProgress, OnItsWay, Underway, Contents
      <4>3. /\ req[q].brought.items[v] + Owed(UserOf[q], v) <= asked[UserOf[q]][v]
            /\ req[q].copy.items[v] + Owed(UserOf[q], v) <= asked[UserOf[q]][v]
        BY <4>1 DEF IInv, AllIsBacked, Backed
      <4>4. Owed(UserOf[q], v)' \in Nat /\ Owed(UserOf[q], v) \in Nat /\ Owed(UserOf[q], v)' <= Owed(UserOf[q], v)
        BY OwedShrinks DEF IInv
      <4> QED
        BY <4>1, <4>2, <4>3, <4>4
    <3> QED
      BY <3>1, <3>2
  <2>2. ASSUME NEW c \in DOMAIN carts PROVE Backed(carts[c].user, carts[c].contents.items)'
    <3> DEFINE u == carts[c].user
    <3>1. u \in Users /\ carts'[c].user = u
      BY CartAt DEF IInv, CartRow
    <3> HIDE DEF u
    <3>2. PICK w \in Users : w = u
      BY <3>1
    <3>3. \A v \in Variants : carts'[c].contents.items[v] + Owed(w, v)' <= asked[w][v]
      BY <3>2 DEF u
    <3> QED
      BY <3>1, <3>2, <3>3 DEF Backed
  <2> QED
    BY <2>1, <2>2 DEF IInv, AllIsBacked, Backed
<1>3. OrdersEnd'
  BY OrdersStay DEF IInv
<1>4. UsesAreOrders'
  BY DEF IInv, UsesAreOrders
<1>5. ReportsAreBounded'
  BY DEF IInv, ReportsAreBounded, Pickers
<1>6. AloneAtWork'
  <2>1. \A u \in Users \ crowded : Active(u)' \subseteq Active(u)
    BY DEF Active
  <2> QED
    BY <2>1, AloneStay DEF IInv
<1> QED
  BY <1>1, <1>2, <1>3, <1>4, <1>5, <1>6 DEF IInv

\* What was backed before a request gets on is backed afterwards.
LEMMA StillBacked ==
    ASSUME Parameters, IInv, NEW r \in Requests, GetsOn(r), NEW v \in Variants
    PROVE  /\ \A u \in Users : /\ Owed(u, v)' \in Nat /\ Owed(u, v) \in Nat /\ Owed(u, v)' <= Owed(u, v)
                               /\ asked[u][v] \in Nat
                               /\ guest[u].items[v] \in Nat
                               /\ guest[u].items[v] + Owed(u, v)' <= asked[u][v]
                               /\ Owed(u, v)' <= asked[u][v]
           /\ \A c \in DOMAIN carts : carts[c].contents.items[v] \in Nat
           /\ \A c \in DOMAIN carts, u \in Users :
                 carts[c].user = u => carts[c].contents.items[v] + Owed(u, v)' <= asked[u][v]
           /\ UserOf[r] \in Users
           /\ req[r].brought.items[v] \in Nat /\ req[r].copy.items[v] \in Nat
           /\ req[r].brought.items[v] + Owed(UserOf[r], v)' <= asked[UserOf[r]][v]
           /\ req[r].copy.items[v] + Owed(UserOf[r], v)' <= asked[UserOf[r]][v]
<1>1. ASSUME NEW u \in Users
      PROVE  Owed(u, v)' \in Nat /\ Owed(u, v) \in Nat /\ Owed(u, v)' <= Owed(u, v)
  BY OwedShrinks DEF IInv
<1>2. ASSUME NEW u \in Users
      PROVE  /\ asked[u][v] \in Nat /\ guest[u].items[v] \in Nat
             /\ guest[u].items[v] + Owed(u, v) <= asked[u][v]
  BY DEF IInv, Typed, AllIsBacked, Backed, Contents
<1>3. ASSUME NEW c \in DOMAIN carts
      PROVE  /\ carts[c].user \in Users /\ carts[c].contents.items[v] \in Nat
             /\ carts[c].contents.items[v] + Owed(carts[c].user, v) <= asked[carts[c].user][v]
  BY CartAt DEF IInv, AllIsBacked, Backed, CartRow, Contents
<1>4. UserOf[r] \in Users /\ req[r].brought.items[v] \in Nat /\ req[r].copy.items[v] \in Nat
  BY DEF Parameters, GetsOn, OnItsWay, Underway, Contents
<1>5. /\ req[r].brought.items[v] + Owed(UserOf[r], v) <= asked[UserOf[r]][v]
      /\ req[r].copy.items[v] + Owed(UserOf[r], v) <= asked[UserOf[r]][v]
  BY OneOnItsWay DEF GetsOn, IInv, AllIsBacked, Backed
<1>6. \A u \in Users : guest[u].items[v] + Owed(u, v)' <= asked[u][v] /\ Owed(u, v)' <= asked[u][v]
  BY <1>1, <1>2
<1>7. ASSUME NEW c \in DOMAIN carts, NEW u \in Users, carts[c].user = u
      PROVE  carts[c].contents.items[v] + Owed(u, v)' <= asked[u][v]
  <2>1. carts[c].contents.items[v] \in Nat /\ carts[c].contents.items[v] + Owed(u, v) <= asked[u][v]
    BY <1>3, <1>7
  <2> QED
    BY <2>1, <1>1, <1>2
<1>8. /\ req[r].brought.items[v] + Owed(UserOf[r], v)' <= asked[UserOf[r]][v]
      /\ req[r].copy.items[v] + Owed(UserOf[r], v)' <= asked[UserOf[r]][v]
  BY <1>1, <1>2, <1>4, <1>5
<1> QED
  BY <1>1, <1>2, <1>3, <1>4, <1>6, <1>7, <1>8

\* A step that only reads.
LEMMA Reading ==
    ASSUME Parameters, IInv, NEW r \in Requests, GetsOn(r), UNCHANGED <<shopVars, picked, historyVars>>,
           InProgress(r)' =>
              /\ \A v \in Variants : req'[r].brought.items[v] + Owed(UserOf[r], v)' <= asked[UserOf[r]][v]
              /\ \A v \in Variants : req'[r].copy.items[v] + Owed(UserOf[r], v)' <= asked[UserOf[r]][v],
           InProgress(r)' /\ req'[r].none => req[r].none \/ Active(UserOf[r]) = {}
    PROVE  IInv'
<1>1. /\ guest' \in [Users -> Contents] /\ carts' \in Seq(CartRow) /\ carts' = carts /\ guest' = guest
      /\ orders' = orders /\ coupon' = coupon /\ picked' = picked /\ asked' = asked /\ crowded' = crowded
  BY DEF shopVars, historyVars, IInv, Typed
<1>2. \A u \in Users, v \in Variants : guest'[u].items[v] + Owed(u, v)' <= asked[u][v]
  BY <1>1, StillBacked
<1>3. \A c \in DOMAIN carts, u \in Users, v \in Variants :
         carts[c].user = u => carts'[c].contents.items[v] + Owed(u, v)' <= asked[u][v]
  BY <1>1, StillBacked
<1> QED
  BY <1>1, <1>2, <1>3, Working

\* A request is over.
LEMMA StopKeeps ==
    ASSUME Parameters, IInv, NEW r \in Requests, OnItsWay(r), Stop(r), UNCHANGED <<shopVars, picked, historyVars>>
    PROVE  IInv'
<1>1. GetsOn(r) /\ req'[r] = Ended
  BY Stopping DEF IInv
<1>2. ~InProgress(r)'
  BY <1>1 DEF InProgress
<1> QED
  BY <1>1, <1>2, Reading

\* A request that gets on with what it has: with x.
LEMMA GoingRead ==
    ASSUME Parameters, IInv, NEW r \in Requests, NEW s \in StepNames, At(r, s),
           NEW x \in Underway, x.todo = req[r].todo, x.op = req[r].op, GoOn(r, x), x.none => req[r].none,
           x.mine # 0 => x.mine \in DOMAIN carts /\ carts[x.mine].user = UserOf[r],
           s \in OnCart \cup {"find", "open"} => x.mine # 0,
           \/ x.brought = req[r].brought
           \/ x.brought = guest[UserOf[r]],
           \/ x.copy = req[r].copy
           \/ x.mine # 0 /\ x.copy.items = carts[x.mine].contents.items,
           UNCHANGED <<shopVars, picked, historyVars>>
    PROVE  IInv'
<1>1. carts' = carts
  BY DEF shopVars
<1>2. GetsOn(r) /\ (req'[r] = Ended \/ req'[r] = [x EXCEPT !.todo = Tail(@)])
  <2>1. x.mine # 0 => x.mine \in DOMAIN carts' /\ carts'[x.mine].user = UserOf[r]
    BY <1>1
  <2> QED
    BY <2>1, Going DEF IInv
<1>3. InProgress(r)' => req'[r].brought = x.brought /\ req'[r].copy = x.copy /\ req'[r].none = x.none
  BY <1>2 DEF InProgress, Underway
<1>4. UserOf[r] \in Users
  BY DEF Parameters
<1>5. \A v \in Variants : x.brought.items[v] + Owed(UserOf[r], v)' <= asked[UserOf[r]][v]
  BY <1>2, <1>4, StillBacked
<1>6. \A v \in Variants : x.copy.items[v] + Owed(UserOf[r], v)' <= asked[UserOf[r]][v]
  <2>1. CASE x.copy = req[r].copy
    BY <2>1, <1>2, StillBacked
  <2>2. CASE x.mine # 0 /\ x.copy.items = carts[x.mine].contents.items
    <3>1. x.mine \in DOMAIN carts /\ carts[x.mine].user = UserOf[r]
      BY <2>2
    <3> QED
      BY <3>1, <2>2, <1>2, <1>4, StillBacked
  <2> QED
    BY <2>1, <2>2
<1> QED
  BY <1>2, <1>3, <1>5, <1>6, Reading

\* What a request has when a step is due.
LEMMA RequestAt ==
    ASSUME Typed, NEW r \in Requests, NEW s \in StepNames, At(r, s)
    PROVE  /\ OnItsWay(r) /\ req[r] \in Underway /\ DOMAIN req = Requests
           /\ req[r].mine # 0 => req[r].mine \in DOMAIN carts /\ carts[req[r].mine].user = UserOf[r]
           /\ s \in OnCart => req[r].mine # 0
           /\ req[r].op.kind \in DOMAIN Program /\ req[r].op.variant \in Variants
           /\ req[r].op.quantity \in Quantities
  BY WhoIsAt DEF At, OnItsWay, Typed, Underway, Operation

\* A set of numbers up to n has a greatest one: the least 1..m that contains it ends in it.
LEMMA Greatest ==
    ASSUME NEW n \in Nat, NEW A \in SUBSET (1..n), A # {}
    PROVE  \E c \in A : \A d \in A : d <= c
<1> DEFINE T == {B \in SUBSET (1..n) : A \subseteq B /\ \E m \in 0..n : B = 1..m}
<1>1. T \subseteq FiniteSubsetsOf(1..n)
  BY FS_Interval, FS_Subset DEF FiniteSubsetsOf
<1>2. 1..n \in T
  OBVIOUS
<1>3. PICK B \in T : \A C \in T : ~(<<C, B>> \in StrictSubsetOrdering(1..n))
  <2>1. IsWellFoundedOn(StrictSubsetOrdering(1..n), FiniteSubsetsOf(1..n))
    BY FS_StrictSubsetOrderingWellFounded
  <2> HIDE DEF T
  <2> QED
    BY <1>1, <1>2, <2>1, WFMin
<1>4. PICK m \in 0..n : B = 1..m
  OBVIOUS
<1>5. A \subseteq 1..m /\ m >= 1 /\ m \in Nat
  <2>1. A \subseteq B /\ \E c : c \in A
    OBVIOUS
  <2> QED
    BY <2>1, <1>4
<1>6. ASSUME m \notin A PROVE FALSE
  <2>1. A \subseteq 1..m - 1 /\ 1..m - 1 \subseteq 1..n /\ m - 1 \in 0..n
    BY <1>5, <1>6
  <2>2. 1..m - 1 \in T
    BY <2>1
  <2>3. 1..m - 1 \subseteq B /\ m \in B /\ m \notin 1..m - 1
    BY <1>4, <1>5
  <2>4. <<1..m - 1, B>> \in StrictSubsetOrdering(1..n)
    BY <2>1, <2>3 DEF StrictSubsetOrdering
  <2> QED
    BY <1>3, <2>2, <2>4
<1> QED
  BY <1>5, <1>6

\* The newest active cart is one.
LEMMA NewestIsActive ==
    ASSUME Typed, NEW u, Active(u) # {}
    PROVE  /\ Newest(u) \in Active(u) /\ Newest(u) \in DOMAIN carts /\ Newest(u) # 0 /\ Newest(u) \in Nat
           /\ carts[Newest(u)].user = u /\ carts[Newest(u)].contents \in Contents
<1>1. Active(u) \in SUBSET (1..Len(carts)) /\ Len(carts) \in Nat
  BY CartAt DEF Active
<1>2. \E c \in Active(u) : \A d \in Active(u) : d <= c
  BY <1>1, Greatest
<1>3. Newest(u) \in Active(u)
  BY <1>2 DEF Newest
<1> QED
  BY <1>3, CartAt DEF Active, CartRow

\* Reading the guest cart; merging an empty one goes on to its last step.
LEMMA PeekKeeps ==
    ASSUME Parameters, IInv, NEW r \in Requests, Peek(r)
    PROVE  IInv'
<1>1. Typed /\ At(r, "peek") /\ "peek" \in StepNames /\ "peek" \notin OnCart \cup {"find", "open"}
  BY DEF Peek, IInv, StepNames, OnCart
<1>2. /\ OnItsWay(r) /\ req[r] \in Underway /\ DOMAIN req = Requests
      /\ req[r].mine # 0 => req[r].mine \in DOMAIN carts /\ carts[req[r].mine].user = UserOf[r]
  BY <1>1, RequestAt
<1>3. UNCHANGED <<shopVars, picked, historyVars>>
  BY DEF Peek
<1>4. CASE req[r].op.kind = "merge" /\ guest[UserOf[r]].items = NoItems
  <2> DEFINE k == "merge"
             y == [req[r] EXCEPT !.todo = <<"find">>]
  <2>1. req'[r] = y /\ DOMAIN req' = Requests /\ \A q \in Requests \ {r} : req'[q] = req[q]
    BY <1>2, <1>4 DEF Peek
  <2>2. /\ k \in DOMAIN Program /\ Program[k] = <<"peek", "find", "look", "merge", "delete", "find">>
        /\ Len(Program[k]) = 6 /\ Program[k][6] = "find"
    BY Operations
  <2>3. PICK n \in 1..6 : req[r].todo = Rest(k, n)
    BY <1>2, <1>4, OneOnItsWay
  <2>4. /\ Rest(k, 1) \in Seq(StepNames) /\ Len(Rest(k, 1)) = 1 /\ Rest(k, 1)[1] = "find"
        /\ \A i \in 1..6 : Rest(k, i) \in Seq(StepNames) /\ Len(Rest(k, i)) = i /\ Rest(k, i)[i] = "find"
    <3>1. \A i \in 1..6 : /\ Rest(k, i) \in Seq(StepNames) /\ Len(Rest(k, i)) = i
                          /\ \A j \in 1..i : Rest(k, i)[j] = Program[k][6 - i + j]
      BY <2>2, RestOf
    <3>2. \A i \in 1..6 : i \in 1..i /\ 6 - i + i = 6
      OBVIOUS
    <3>3. \A i \in 1..6 : Rest(k, i)[i] = "find"
      BY <2>2, <3>1, <3>2
    <3> QED
      BY <3>1, <3>3
  <2>5. <<"find">> \in Seq(StepNames)
    <3>1. <<"find">> \in [1..1 -> StepNames]
      BY DEF StepNames
    <3> QED
      BY <3>1, IsSequence
  <2>6. Rest(k, 1) = <<"find">>
    BY <2>4, <2>5, SeqEqual
  <2>7. y \in Underway /\ y.op = req[r].op /\ y.mine = req[r].mine /\ y.todo = <<"find">>
        /\ y.none = req[r].none /\ y.brought = req[r].brought /\ y.copy = req[r].copy
    BY <1>2, <2>5 DEF Underway
  <2>8. OnItsWay(r)'
    <3>1. \E m \in 1..Len(Program[req'[r].op.kind]) : req'[r].todo = Rest(req'[r].op.kind, m)
      <4>1. req'[r].op.kind = k /\ req'[r].todo = Rest(k, 1)
        BY <1>4, <2>1, <2>6, <2>7
      <4>2. 1 \in 1..Len(Program[k])
        BY <2>2
      <4> QED
        BY <4>1, <4>2
    <3>2. carts' = carts /\ Head(req'[r].todo) = "find"
      BY <2>1, <2>7 DEF Peek, shopVars
    <3> HIDE DEF y
    <3> QED
      BY <1>2, <2>1, <2>7, <3>1, <3>2 DEF OnItsWay, OnCart
  <2>9. Len(Rest(k, n)) = n /\ Rest(k, n)[n] = "find" /\ Rest(k, n) \in Seq(StepNames)
    BY <2>3, <2>4
  <2>10. n \in DOMAIN req[r].todo /\ req[r].todo[n] = "find"
    BY <2>3, <2>9
  <2>11. GetsOn(r)
    <3>1. \A i \in DOMAIN y.todo : y.todo[i] = req[r].todo[n]
      BY <2>7, <2>10
    <3> HIDE DEF y
    <3> QED
      BY <3>1, <1>2, <2>1, <2>7, <2>8, <2>10 DEF GetsOn
  <2>12. /\ \A v \in Variants : req'[r].brought.items[v] + Owed(UserOf[r], v)' <= asked[UserOf[r]][v]
         /\ \A v \in Variants : req'[r].copy.items[v] + Owed(UserOf[r], v)' <= asked[UserOf[r]][v]
    BY <2>1, <2>7, <2>11, StillBacked
  <2> QED
    BY <1>3, <2>1, <2>7, <2>11, <2>12, Reading
<1>5. CASE ~(req[r].op.kind = "merge" /\ guest[UserOf[r]].items = NoItems)
  <2> DEFINE x == [req[r] EXCEPT !.brought = guest[UserOf[r]]]
  <2>1. GoOn(r, x)
    BY <1>5 DEF Peek
  <2>2. guest[UserOf[r]] \in Contents
    BY <1>1 DEF Typed, Parameters
  <2>3. x \in Underway /\ x.todo = req[r].todo /\ x.op = req[r].op /\ x.none = req[r].none /\ x.mine = req[r].mine
        /\ x.brought = guest[UserOf[r]] /\ x.copy = req[r].copy
    BY <1>2, <2>2 DEF Underway
  <2> HIDE DEF x
  <2> QED
    BY <1>1, <1>2, <1>3, <2>1, <2>3, GoingRead
<1> QED
  BY <1>4, <1>5

\* Which operation it is whose next step is s.
LEMMA WhoseStep ==
    ASSUME Typed, NEW r \in Requests, NEW s \in StepNames, At(r, s)
    PROVE  /\ s = "keep" => req[r].op.kind \in {"guestAdd", "guestUpdate", "guestRemove", "guestApply", "guestDrop"}
           /\ s = "set" => req[r].op.kind \in {"clear", "update", "remove", "apply", "drop"}
           /\ s = "put" => req[r].op.kind = "add"
           /\ s = "merge" => req[r].op.kind = "merge"
           /\ s = "place" => Len(req[r].todo) = 1
<1> DEFINE k == req[r].op.kind
           n == Len(req[r].todo)
           L == Len(Program[k])
<1>1. OnItsWay(r) /\ s = Head(req[r].todo)
  BY RequestAt DEF At
<1>2. k \in DOMAIN Program /\ req[r].todo = Rest(k, n) /\ n \in 1..6 /\ n <= L
  BY <1>1, OneOnItsWay
<1>3. L \in 1..6 /\ DueIn(k, L)
  BY <1>2, RestOf
<1>4. k = req[r].op.kind /\ n = Len(req[r].todo) /\ L = Len(Program[k])
  OBVIOUS
<1> HIDE DEF k, n, L
<1>5. n \in 1..L /\ L - n + 1 \in Nat
  BY <1>2, <1>3
<1>6. /\ Rest(k, n) \in Seq(StepNames) /\ Len(Rest(k, n)) = n
      /\ \A i \in 1..n : Rest(k, n)[i] = Program[k][L - n + i]
  BY <1>2, <1>4, <1>5, RestOf
<1>7. s = Program[k][L - n + 1]
  BY <1>1, <1>2, <1>5, <1>6
<1> QED
  BY <1>3, <1>4, <1>5, <1>7 DEF DueIn

\* What an edit makes of an item: no more of it, but of the one asked for.
LEMMA EditAddsTheAsked ==
    ASSUME Parameters, NEW x \in Contents, NEW o \in Operation,
           o.kind \in {"guestAdd", "guestUpdate", "guestRemove", "guestApply", "guestDrop",
                       "clear", "update", "remove", "apply", "drop"}
    PROVE  /\ Edit(x, o) \in Contents
           /\ \A v \in Variants :
                 \/ Edit(x, o).items[v] <= x.items[v]
                 \/ o.kind \in Asks /\ v = o.variant /\ Edit(x, o).items[v] <= x.items[v] + o.quantity
<1>1. /\ x.items \in [Variants -> Nat] /\ x.coupon \in BOOLEAN /\ o.variant \in Variants /\ o.quantity \in Nat
      /\ x = [items |-> x.items, coupon |-> x.coupon]
  BY DEF Contents, Operation, Parameters
<1>2. CASE o.kind = "guestAdd"
  <2>1. Edit(x, o) = [x EXCEPT !.items[o.variant] = @ + o.quantity]
    BY <1>2 DEF Edit
  <2>2. Edit(x, o).items = [x.items EXCEPT ![o.variant] = x.items[o.variant] + o.quantity]
        /\ Edit(x, o).coupon = x.coupon /\ DOMAIN Edit(x, o) = {"items", "coupon"}
    BY <1>1, <2>1
  <2>3. Edit(x, o).items \in [Variants -> Nat]
    BY <1>1, <2>2
  <2>4. Edit(x, o) = [items |-> Edit(x, o).items, coupon |-> Edit(x, o).coupon]
    BY <1>1, <2>1
  <2>5. Edit(x, o) \in Contents
    BY <1>1, <2>2, <2>3, <2>4 DEF Contents
  <2> QED
    BY <1>1, <1>2, <2>2, <2>5 DEF Asks
<1>3. CASE o.kind \in {"guestUpdate", "update"}
  <2>1. Edit(x, o) = [x EXCEPT !.items = [@ EXCEPT ![o.variant] = o.quantity]]
    BY <1>3 DEF Edit
  <2>2. Edit(x, o).items = [x.items EXCEPT ![o.variant] = o.quantity] /\ Edit(x, o) \in Contents
    BY <1>1, <2>1 DEF Contents
  <2> QED
    BY <1>1, <1>3, <2>2 DEF Asks
<1>4. CASE o.kind \in {"guestRemove", "remove"}
  <2>1. Edit(x, o) = [x EXCEPT !.items = [@ EXCEPT ![o.variant] = 0]]
    BY <1>4 DEF Edit
  <2>2. Edit(x, o).items = [x.items EXCEPT ![o.variant] = 0] /\ Edit(x, o) \in Contents
    BY <1>1, <2>1 DEF Contents
  <2> QED
    BY <1>1, <2>2
<1>5. CASE o.kind \in {"guestApply", "apply", "guestDrop", "drop"}
  <2>1. \E b \in BOOLEAN : Edit(x, o) = [x EXCEPT !.coupon = b]
    BY <1>5 DEF Edit
  <2>2. Edit(x, o).items = x.items /\ Edit(x, o) \in Contents
    BY <1>1, <2>1 DEF Contents
  <2> QED
    BY <1>1, <2>2
<1>6. CASE o.kind = "clear"
  <2>1. Edit(x, o) = [x EXCEPT !.items = NoItems]
    BY <1>6 DEF Edit
  <2>2. Edit(x, o).items = NoItems /\ Edit(x, o) \in Contents
    BY <1>1, <2>1 DEF Contents, NoItems
  <2> QED
    BY <1>1, <2>2 DEF NoItems
<1> QED
  BY <1>2, <1>3, <1>4, <1>5, <1>6

\* What a request writes is backed: it is no longer owed.
LEMMA WrittenIsBacked ==
    ASSUME Parameters, IInv, NEW r \in Requests, GetsOn(r), Written(r), NEW s \in Writes, At(r, s),
           NEW v \in Variants, NEW old \in Nat, old + Owed(UserOf[r], v) <= asked[UserOf[r]][v], NEW new \in Nat,
           \/ new <= old
           \/ req[r].op.kind \in Asks /\ v = req[r].op.variant /\ new <= old + req[r].op.quantity
    PROVE  new + Owed(UserOf[r], v)' <= asked[UserOf[r]][v]
<1>1. UserOf[r] \in Users /\ asked[UserOf[r]][v] \in Nat
  BY DEF Parameters, IInv, Typed
<1>2. Owed(UserOf[r], v)' \in Nat /\ Owed(UserOf[r], v) \in Nat /\ Owed(UserOf[r], v)' <= Owed(UserOf[r], v)
  BY OwedShrinks DEF IInv
<1>3. CASE new <= old
  BY <1>1, <1>2, <1>3
<1>4. CASE req[r].op.kind \in Asks /\ v = req[r].op.variant /\ new <= old + req[r].op.quantity
  <2>1. req[r].op.quantity \in Nat /\ req[r].op.quantity + Owed(UserOf[r], v)' <= Owed(UserOf[r], v)
    BY <1>4, WriterPays DEF IInv
  <2> QED
    BY <2>1, <1>1, <1>2, <1>4
<1> QED
  BY <1>3, <1>4

\* Writing the guest cart back, as read and edited.
LEMMA KeepKeeps ==
    ASSUME Parameters, IInv, NEW r \in Requests, Keep(r)
    PROVE  IInv'
<1> DEFINE u == UserOf[r]
           new == Edit(req[r].brought, req[r].op)
<1>1. Typed /\ At(r, "keep") /\ "keep" \in StepNames /\ "keep" \in Writes /\ "keep" \notin OnCart \cup {"find", "open"}
  BY DEF Keep, IInv, StepNames, OnCart, Writes
<1>2. /\ req[r] \in Underway /\ req[r].todo = req[r].todo
      /\ req[r].mine # 0 => req[r].mine \in DOMAIN carts /\ carts[req[r].mine].user = UserOf[r]
  BY <1>1, RequestAt
<1>3. /\ guest' = [guest EXCEPT ![u] = new] /\ GoOn(r, req[r])
      /\ carts' = carts /\ orders' = orders /\ coupon' = coupon /\ picked' = picked /\ asked' = asked
      /\ crowded' = crowded
  BY DEF Keep, historyVars
<1>4. GetsOn(r) /\ req'[r] = Ended /\ Written(r)
  BY <1>1, <1>2, <1>3, Going
<1>5. ~InProgress(r)'
  BY <1>4 DEF InProgress
<1>6. /\ new \in Contents
      /\ \A v \in Variants :
            \/ new.items[v] <= req[r].brought.items[v]
            \/ req[r].op.kind \in Asks /\ v = req[r].op.variant
               /\ new.items[v] <= req[r].brought.items[v] + req[r].op.quantity
  <2>1. req[r].brought \in Contents /\ req[r].op \in Operation
    BY <1>2 DEF Underway
  <2> QED
    BY <2>1, <1>1, WhoseStep, EditAddsTheAsked
<1> HIDE DEF new
<1>7. \A v \in Variants : new.items[v] + Owed(u, v)' <= asked[u][v]
  <2> SUFFICES ASSUME NEW v \in Variants PROVE new.items[v] + Owed(u, v)' <= asked[u][v]
    OBVIOUS
  <2>1. req[r].brought.items[v] \in Nat /\ new.items[v] \in Nat
    BY <1>2, <1>6 DEF Underway, Contents
  <2>2. req[r].brought.items[v] + Owed(u, v) <= asked[u][v]
    BY <1>4, OneOnItsWay DEF GetsOn, IInv, AllIsBacked, Backed
  <2> QED
    BY <2>1, <2>2, <1>1, <1>4, <1>6, WrittenIsBacked
<1>8. guest' \in [Users -> Contents] /\ carts' \in Seq(CartRow)
  BY <1>1, <1>3, <1>6 DEF Typed, Parameters
<1>9. \A w \in Users, v \in Variants : guest'[w].items[v] + Owed(w, v)' <= asked[w][v]
  <2> SUFFICES ASSUME NEW w \in Users, NEW v \in Variants PROVE guest'[w].items[v] + Owed(w, v)' <= asked[w][v]
    OBVIOUS
  <2>1. CASE w = u
    BY <2>1, <1>1, <1>3, <1>7 DEF Typed
  <2>2. CASE w # u
    <3>1. guest'[w] = guest[w]
      BY <2>2, <1>1, <1>3 DEF Typed
    <3> QED
      BY <3>1, <1>4, StillBacked
  <2> QED
    BY <2>1, <2>2
<1>10. \A c \in DOMAIN carts, w \in Users, v \in Variants :
          carts[c].user = w => carts'[c].contents.items[v] + Owed(w, v)' <= asked[w][v]
  BY <1>3, <1>4, StillBacked
<1> QED
  BY <1>3, <1>4, <1>5, <1>8, <1>9, <1>10, Working

\* Overwriting or deleting the guest cart.
LEMMA EmptyKeeps ==
    ASSUME Parameters, IInv, NEW r \in Requests, Empty(r)
    PROVE  IInv'
<1> DEFINE u == UserOf[r]
<1>1. PICK s \in {"empty", "delete"} : At(r, s)
  BY DEF Empty
<1>2. Typed /\ s \in StepNames /\ s \notin OnCart \cup {"find", "open"} /\ s \notin Writes
  BY DEF IInv, StepNames, OnCart, Writes
<1>3. /\ req[r] \in Underway
      /\ req[r].mine # 0 => req[r].mine \in DOMAIN carts /\ carts[req[r].mine].user = UserOf[r]
  BY <1>1, <1>2, RequestAt
<1>4. /\ guest' = [guest EXCEPT ![u] = EmptyCart] /\ GoOn(r, req[r])
      /\ carts' = carts /\ orders' = orders /\ coupon' = coupon /\ picked' = picked /\ asked' = asked
      /\ crowded' = crowded
  BY DEF Empty, historyVars
<1>5. GetsOn(r) /\ (req'[r] = Ended \/ req'[r] = [req[r] EXCEPT !.todo = Tail(@)])
  BY <1>1, <1>2, <1>3, <1>4, Going
<1>6. InProgress(r)' => /\ req'[r].brought = req[r].brought /\ req'[r].copy = req[r].copy
                       /\ req'[r].none = req[r].none
  BY <1>3, <1>5 DEF InProgress, Underway
<1>7. EmptyCart \in Contents /\ \A v \in Variants : EmptyCart.items[v] = 0
  BY DEF EmptyCart, NoItems, Contents
<1>8. guest' \in [Users -> Contents] /\ carts' \in Seq(CartRow)
  BY <1>2, <1>4, <1>7 DEF Typed, Parameters
<1>9. \A w \in Users, v \in Variants : guest'[w].items[v] + Owed(w, v)' <= asked[w][v]
  <2> SUFFICES ASSUME NEW w \in Users, NEW v \in Variants PROVE guest'[w].items[v] + Owed(w, v)' <= asked[w][v]
    OBVIOUS
  <2>1. guest'[w] = EmptyCart \/ guest'[w] = guest[w]
    BY <1>2, <1>4 DEF Typed
  <2>2. /\ Owed(w, v)' \in Nat /\ Owed(w, v)' <= asked[w][v]
        /\ guest[w].items[v] + Owed(w, v)' <= asked[w][v]
    BY <1>5, StillBacked
  <2> QED
    BY <2>1, <2>2, <1>7
<1>10. \A c \in DOMAIN carts, w \in Users, v \in Variants :
          carts[c].user = w => carts'[c].contents.items[v] + Owed(w, v)' <= asked[w][v]
  BY <1>4, <1>5, StillBacked
<1>11. InProgress(r)' =>
              /\ \A v \in Variants : req'[r].brought.items[v] + Owed(UserOf[r], v)' <= asked[UserOf[r]][v]
              /\ \A v \in Variants : req'[r].copy.items[v] + Owed(UserOf[r], v)' <= asked[UserOf[r]][v]
  BY <1>5, <1>6, StillBacked
<1> QED
  BY <1>4, <1>5, <1>6, <1>8, <1>9, <1>10, <1>11, Working

\* Steps that read the cart, or refuse.
LEMMA LookingKeeps ==
    ASSUME Parameters, IInv, NEW r \in Requests,
           NotInGuestCart(r) \/ Look(r) \/ Validate(r) \/ Open(r)
    PROVE  IInv'
<1>1. PICK s \in {"keep", "look", "validate", "open"} : At(r, s)
  BY DEF NotInGuestCart, Look, Validate, Open
<1>2. Typed /\ s \in StepNames /\ UNCHANGED <<shopVars, picked, historyVars>>
  BY DEF NotInGuestCart, Look, Validate, Open, IInv, StepNames
<1>3. /\ OnItsWay(r) /\ req[r] \in Underway
      /\ req[r].mine # 0 => req[r].mine \in DOMAIN carts /\ carts[req[r].mine].user = UserOf[r]
      /\ s \in OnCart => req[r].mine # 0
  BY <1>1, <1>2, RequestAt
<1>4. CASE Stop(r)
  BY <1>2, <1>3, <1>4, StopKeeps
<1>5. CASE Look(r) /\ ~Stop(r)
  <2> DEFINE seen == carts[req[r].mine].contents.items
             x == [req[r] EXCEPT !.copy.items = seen]
  <2>1. At(r, "look") /\ GoOn(r, x) /\ "look" \in StepNames /\ "look" \in OnCart
    BY <1>5 DEF Look, StepNames, OnCart
  <2>2. req[r].mine # 0 /\ req[r].mine \in DOMAIN carts
    BY <1>2, <1>3, <2>1, RequestAt
  <2>3. seen \in [Variants -> Nat]
    BY <1>2, <2>2, CartAt DEF CartRow, Contents
  <2> HIDE DEF seen
  <2>4. /\ x \in Underway /\ x.todo = req[r].todo /\ x.op = req[r].op /\ x.none = req[r].none
        /\ x.mine = req[r].mine /\ x.brought = req[r].brought /\ x.copy.items = seen
    BY <1>3, <2>3 DEF Underway, Contents
  <2> HIDE DEF x
  <2> QED
    BY <1>2, <1>3, <2>1, <2>2, <2>4, GoingRead DEF seen
<1>6. CASE Validate(r) /\ ~Stop(r)
  <2>1. At(r, "validate") /\ GoOn(r, req[r]) /\ "validate" \in StepNames /\ "validate" \notin OnCart \cup {"find", "open"}
    BY <1>6 DEF Validate, StepNames, OnCart
  <2> QED
    BY <1>2, <1>3, <2>1, GoingRead
<1>7. CASE Open(r) /\ ~Stop(r)
  <2> DEFINE n == Newest(UserOf[r])
             x == [req[r] EXCEPT !.mine = n, !.copy = carts[n].contents]
  <2>1. At(r, "open") /\ GoOn(r, x) /\ "open" \in StepNames /\ Active(UserOf[r]) # {}
    BY <1>7 DEF Open, StepNames
  <2>2. n \in DOMAIN carts /\ n # 0 /\ n \in Nat /\ carts[n].user = UserOf[r] /\ carts[n].contents \in Contents
    BY <1>2, <2>1, NewestIsActive
  <2> HIDE DEF n
  <2>3. /\ x \in Underway /\ x.todo = req[r].todo /\ x.op = req[r].op /\ x.none = req[r].none
        /\ x.mine = n /\ x.brought = req[r].brought /\ x.copy = carts[n].contents
    BY <1>3, <2>2 DEF Underway
  <2> HIDE DEF x
  <2> QED
    BY <1>2, <1>3, <2>1, <2>2, <2>3, GoingRead
<1>8. CASE NotInGuestCart(r)
  BY <1>4, <1>8 DEF NotInGuestCart
<1> QED
  BY <1>4, <1>5, <1>6, <1>7, <1>8

\* The SELECT of the cart.
LEMMA FindKeeps ==
    ASSUME Parameters, IInv, NEW r \in Requests, Find(r)
    PROVE  IInv'
<1>1. Typed /\ At(r, "find") /\ "find" \in StepNames /\ ~req[r].none /\ "find" \notin OnCart
      /\ UNCHANGED <<shopVars, picked, historyVars>>
  BY DEF Find, IInv, StepNames, OnCart
<1>2. /\ OnItsWay(r) /\ req[r] \in Underway /\ DOMAIN req = Requests
      /\ req[r].mine # 0 => req[r].mine \in DOMAIN carts /\ carts[req[r].mine].user = UserOf[r]
  BY <1>1, RequestAt
<1>3. CASE Active(UserOf[r]) = {}
  <2> DEFINE y == [req[r] EXCEPT !.none = TRUE]
  <2>1. req'[r] = y /\ DOMAIN req' = Requests /\ \A q \in Requests \ {r} : req'[q] = req[q]
    BY <1>2, <1>3 DEF Find
  <2>2. y \in Underway /\ y.todo = req[r].todo /\ y.op = req[r].op /\ y.mine = req[r].mine
        /\ y.brought = req[r].brought /\ y.copy = req[r].copy
    BY <1>2 DEF Underway
  <2> HIDE DEF y
  <2>3. OnItsWay(r)'
    <3>1. carts' = carts
      BY <1>1 DEF shopVars
    <3> QED
      BY <1>2, <2>1, <2>2, <3>1 DEF OnItsWay
  <2>4. GetsOn(r)
    BY <1>2, <2>1, <2>2, <2>3 DEF GetsOn
  <2>5. /\ \A v \in Variants : req'[r].brought.items[v] + Owed(UserOf[r], v)' <= asked[UserOf[r]][v]
        /\ \A v \in Variants : req'[r].copy.items[v] + Owed(UserOf[r], v)' <= asked[UserOf[r]][v]
    BY <2>1, <2>2, <2>4, StillBacked
  <2> QED
    BY <1>1, <1>3, <2>4, <2>5, Reading
<1>4. CASE Active(UserOf[r]) # {}
  <2> DEFINE n == Newest(UserOf[r])
             x == [req[r] EXCEPT !.mine = n, !.copy = carts[n].contents]
  <2>1. GoOn(r, x)
    BY <1>4 DEF Find
  <2>2. n \in DOMAIN carts /\ n # 0 /\ n \in Nat /\ carts[n].user = UserOf[r] /\ carts[n].contents \in Contents
    BY <1>1, <1>4, NewestIsActive
  <2> HIDE DEF n
  <2>3. /\ x \in Underway /\ x.todo = req[r].todo /\ x.op = req[r].op /\ x.none = req[r].none
        /\ x.mine = n /\ x.brought = req[r].brought /\ x.copy = carts[n].contents
    BY <1>2, <2>2 DEF Underway
  <2> HIDE DEF x
  <2> QED
    BY <1>1, <1>2, <2>1, <2>2, <2>3, GoingRead
<1> QED
  BY <1>3, <1>4

\* The INSERT of a cart: the user had none, or is in a crowd.
LEMMA CreateKeeps ==
    ASSUME Parameters, IInv, NEW r \in Requests, Create(r)
    PROVE  IInv'
<1> DEFINE u == UserOf[r]
           new == [user |-> u, status |-> "active", contents |-> EmptyCart, fired |-> 0]
           n == Len(carts) + 1
           x == [req[r] EXCEPT !.mine = Len(carts'), !.none = FALSE, !.copy = EmptyCart]
<1>1. Typed /\ At(r, "find") /\ "find" \in StepNames /\ req[r].none /\ "find" \notin OnCart
  BY DEF Create, IInv, StepNames, OnCart
<1>2. /\ OnItsWay(r) /\ req[r] \in Underway /\ DOMAIN req = Requests /\ InProgress(r)
  BY <1>1, RequestAt, OneOnItsWay
<1>3. /\ carts' = Append(carts, new) /\ GoOn(r, x)
      /\ guest' = guest /\ orders' = orders /\ coupon' = coupon /\ picked' = picked /\ asked' = asked
      /\ crowded' = crowded
  BY DEF Create, historyVars
<1>4. EmptyCart \in Contents /\ \A v \in Variants : EmptyCart.items[v] = 0
  BY DEF EmptyCart, NoItems, Contents
<1>5. new \in CartRow /\ new.user = u /\ new.status = "active" /\ new.contents = EmptyCart /\ new.fired = 0
  BY <1>4 DEF CartRow, Parameters
<1> HIDE DEF new
<1>6. /\ carts' \in Seq(CartRow) /\ Len(carts') = n /\ DOMAIN carts' = 1..n /\ DOMAIN carts = 1..Len(carts)
      /\ Len(carts) \in Nat /\ carts'[n] = new /\ \A c \in DOMAIN carts : carts'[c] = carts[c]
  BY <1>1, <1>3, <1>5 DEF Typed
<1>7. n \in Nat /\ n # 0 /\ n \notin DOMAIN carts /\ DOMAIN carts' = DOMAIN carts \cup {n}
  BY <1>6
<1> HIDE DEF n
<1>8. x \in Underway /\ x.todo = req[r].todo /\ x.op = req[r].op /\ x.mine = n /\ x.none = FALSE
      /\ x.brought = req[r].brought /\ x.copy = EmptyCart
  BY <1>2, <1>4, <1>6, <1>7 DEF Underway
<1> HIDE DEF x
<1>9. GetsOn(r) /\ (req'[r] = Ended \/ req'[r] = [x EXCEPT !.todo = Tail(@)])
  <2>1. x.mine \in DOMAIN carts' /\ carts'[x.mine].user = UserOf[r] /\ x.mine # 0
    BY <1>5, <1>6, <1>7, <1>8
  <2> QED
    BY <2>1, <1>1, <1>3, <1>8, Going
<1>10. InProgress(r)' => /\ req'[r].brought = req[r].brought /\ req'[r].copy = EmptyCart
                        /\ req'[r].none = FALSE
  BY <1>8, <1>9 DEF InProgress, Underway
<1>11. Typed'
  <2>1. DOMAIN req' = Requests /\ \A q \in Requests : req'[q] \in {Idle, Ended} \/ OnItsWay(q)'
    BY <1>1, <1>6, <1>7, <1>9, RequestsStay
  <2>2. picked' \in [Sweepers -> SUBSET DOMAIN carts']
    BY <1>1, <1>3, <1>7 DEF Typed
  <2> QED
    BY <2>1, <2>2, <1>1, <1>3, <1>6 DEF Typed
<1>12. AllIsBacked'
  <2>1. \A w \in Users : Backed(w, guest[w].items)'
    BY <1>3, <1>9, StillBacked DEF Backed
  <2>2. ASSUME NEW c \in DOMAIN carts' PROVE Backed(carts[c].user, carts[c].contents.items)'
    <3>1. PICK w \in Users : w = carts'[c].user
      <4>1. carts'[c] \in CartRow
        BY <1>6, <2>2
      <4> QED
        BY <4>1 DEF CartRow
    <3>2. ASSUME NEW v \in Variants PROVE carts'[c].contents.items[v] + Owed(w, v)' <= asked[w][v]
      <4>1. CASE c = n
        <5>1. Owed(w, v)' \in Nat /\ Owed(w, v)' <= asked[w][v]
          BY <1>9, StillBacked
        <5> QED
          BY <4>1, <5>1, <1>4, <1>5, <1>6
      <4>2. CASE c # n
        <5>1. c \in DOMAIN carts /\ carts'[c] = carts[c] /\ carts[c].user = w
          BY <4>2, <1>6, <1>7, <2>2, <3>1
        <5>2. carts[c].contents.items[v] + Owed(w, v)' <= asked[w][v]
          BY <5>1, <1>9, StillBacked
        <5> QED
          BY <5>1, <5>2
      <4> QED
        BY <4>1, <4>2
    <3> QED
      BY <3>1, <3>2, <1>3 DEF Backed
  <2>3. ASSUME NEW q \in Requests, InProgress(q)', NEW v \in Variants
        PROVE  /\ req'[q].brought.items[v] + Owed(UserOf[q], v)' <= asked[UserOf[q]][v]
               /\ req'[q].copy.items[v] + Owed(UserOf[q], v)' <= asked[UserOf[q]][v]
    <3>0. UserOf[q] \in Users /\ asked[UserOf[q]][v] \in Nat
      BY <1>1 DEF Typed, Parameters
    <3>1. Owed(UserOf[q], v)' \in Nat /\ Owed(UserOf[q], v)' <= asked[UserOf[q]][v]
          /\ Owed(UserOf[q], v) \in Nat /\ Owed(UserOf[q], v)' <= Owed(UserOf[q], v)
      BY <3>0, <1>9, StillBacked
    <3>2. CASE q = r
      <4>1. req[r].brought.items[v] + Owed(UserOf[r], v)' <= asked[UserOf[r]][v]
        BY <1>9, StillBacked
      <4> QED
        BY <4>1, <3>1, <3>2, <1>4, <1>10, <2>3
    <3>3. CASE q # r
      <4>1. req'[q] = req[q] /\ InProgress(q)
        BY <2>3, <3>3, <1>9 DEF GetsOn, InProgress
      <4>2. req[q].brought.items[v] \in Nat /\ req[q].copy.items[v] \in Nat
        BY <4>1, <1>1 DEF Typed, InProgress, OnItsWay, Underway, Contents
      <4>3. /\ req[q].brought.items[v] + Owed(UserOf[q], v) <= asked[UserOf[q]][v]
            /\ req[q].copy.items[v] + Owed(UserOf[q], v) <= asked[UserOf[q]][v]
        BY <4>1 DEF IInv, AllIsBacked, Backed
      <4> QED
        BY <4>1, <4>2, <4>3, <3>0, <3>1
    <3> QED
      BY <3>2, <3>3
  <2> QED
    BY <2>1, <2>2, <2>3, <1>3 DEF IInv, AllIsBacked, Backed
<1>13. OrdersEnd' /\ UsesAreOrders'
  BY <1>1, <1>3, <1>9, OrdersStay DEF IInv, UsesAreOrders
<1>14. ReportsAreBounded'
  <2>1. ASSUME NEW c \in DOMAIN carts'
        PROVE  /\ carts'[c].status = "active" => carts'[c].fired = 0
               /\ carts'[c].fired + Cardinality(Pickers(c)') <= Cardinality(Sweepers)
    <3>1. Pickers(c)' = Pickers(c)
      BY <1>3 DEF Pickers
    <3>2. CASE c = n
      <4>1. Pickers(c) = {}
        BY <3>2, <1>1, <1>7 DEF Pickers, Typed
      <4>2. Cardinality(Sweepers) \in Nat /\ Cardinality(Pickers(c)) = 0
        BY <4>1, FS_CardinalityType, FS_EmptySet DEF Parameters
      <4> QED
        BY <3>1, <3>2, <4>2, <1>5, <1>6
    <3>3. CASE c # n
      BY <2>1, <3>1, <3>3, <1>6, <1>7 DEF IInv, ReportsAreBounded
    <3> QED
      BY <3>2, <3>3
  <2> QED
    BY <2>1 DEF ReportsAreBounded
<1>15. AloneAtWork'
  <2> SUFFICES ASSUME NEW w \in Users \ crowded
               PROVE  /\ \A c, d \in Active(w)' : c = d
                      /\ \A p, q \in Requests :
                            UserOf[p] = w /\ UserOf[q] = w /\ InProgress(p)' /\ InProgress(q)' => p = q
                      /\ \A q \in Requests : UserOf[q] = w /\ InProgress(q)' /\ req'[q].none => Active(w)' = {}
    BY <1>3 DEF AloneAtWork
  <2>1. /\ \A c, d \in Active(w) : c = d
        /\ \A p, q \in Requests : UserOf[p] = w /\ UserOf[q] = w /\ InProgress(p) /\ InProgress(q) => p = q
        /\ \A q \in Requests : UserOf[q] = w /\ InProgress(q) /\ req[q].none => Active(w) = {}
    BY DEF IInv, AloneAtWork
  <2>2. \A q \in Requests : InProgress(q)' => InProgress(q)
    BY <1>2, <1>9 DEF GetsOn, InProgress
  <2>3. CASE w = u
    <3>1. Active(w) = {}
      BY <2>1, <2>3, <1>1, <1>2
    <3>2. Active(w)' \subseteq {n}
      BY <3>1, <1>6, <1>7 DEF Active
    <3>3. \A q \in Requests : UserOf[q] = w /\ InProgress(q)' => q = r /\ ~req'[q].none
      BY <2>1, <2>2, <2>3, <1>2, <1>10
    <3> QED
      BY <3>2, <3>3
  <2>4. CASE w # u
    <3>1. Active(w)' = Active(w)
      BY <2>4, <1>5, <1>6, <1>7 DEF Active
    <3>2. \A q \in Requests : UserOf[q] = w => req'[q] = req[q]
      BY <2>4, <1>9 DEF GetsOn
    <3> QED
      BY <2>1, <2>2, <3>1, <3>2
  <2> QED
    BY <2>3, <2>4
<1> QED
  BY <1>11, <1>12, <1>13, <1>14, <1>15 DEF IInv

\* A request goes on after writing backed contents to its cart.
LEMMA FillingKeeps ==
    ASSUME Parameters, IInv, NEW r \in Requests, NEW s \in StepNames, At(r, s), s \in OnCart,
           NEW new \in Contents, SetContents(req[r].mine, new), GoOn(r, req[r]),
           UNCHANGED <<guest, orders, coupon, picked, historyVars>>,
           GetsOn(r) /\ (s \in Writes => Written(r)) =>
              \A v \in Variants : new.items[v] + Owed(UserOf[r], v)' <= asked[UserOf[r]][v]
    PROVE  IInv'
<1> DEFINE c == req[r].mine
<1>1. /\ guest' = guest /\ orders' = orders /\ coupon' = coupon /\ picked' = picked /\ asked' = asked
      /\ crowded' = crowded
  BY DEF historyVars
<1>2. /\ Typed /\ req[r] \in Underway /\ c \in DOMAIN carts /\ carts[c].user = UserOf[r] /\ c # 0
  BY RequestAt DEF IInv
<1>3. \A d \in DOMAIN carts : carts[d] \in CartRow
  BY <1>2, CartAt
<1>4. /\ DOMAIN carts' = DOMAIN carts /\ carts'[c] = [carts[c] EXCEPT !.contents = new]
      /\ \A d \in DOMAIN carts : d # c => carts'[d] = carts[d]
  BY <1>2 DEF SetContents
<1>5. /\ carts'[c] \in CartRow /\ carts'[c].user = carts[c].user /\ carts'[c].status = carts[c].status
      /\ carts'[c].fired = carts[c].fired /\ carts'[c].contents = new
  BY <1>2, <1>3, <1>4 DEF CartRow
<1>6. carts' \in Seq(CartRow)
  BY <1>2, <1>5, ExceptSeq DEF SetContents, Typed
<1> HIDE DEF c
<1>7. /\ GetsOn(r) /\ (req'[r] = Ended \/ req'[r] = [req[r] EXCEPT !.todo = Tail(@)])
      /\ s \in Writes => Written(r)
  <2>1. req[r].mine \in DOMAIN carts' /\ carts'[req[r].mine].user = UserOf[r] /\ req[r].mine # 0
    BY <1>2, <1>4, <1>5 DEF c
  <2> QED
    BY <2>1, <1>2, Going
<1>8. InProgress(r)' => /\ req'[r].brought = req[r].brought /\ req'[r].copy = req[r].copy
                       /\ req'[r].none = req[r].none
  BY <1>2, <1>7 DEF InProgress, Underway
<1>9. \A w \in Users, v \in Variants : guest'[w].items[v] + Owed(w, v)' <= asked[w][v]
  BY <1>1, <1>7, StillBacked
<1>10. ASSUME NEW d \in DOMAIN carts, NEW w \in Users, NEW v \in Variants, carts[d].user = w
       PROVE  carts'[d].contents.items[v] + Owed(w, v)' <= asked[w][v]
  <2>1. CASE d = c
    BY <2>1, <1>2, <1>5, <1>7, <1>10
  <2>2. CASE d # c
    <3>1. carts'[d] = carts[d] /\ carts[d].contents.items[v] + Owed(w, v)' <= asked[w][v]
      BY <2>2, <1>4, <1>7, <1>10, StillBacked
    <3> QED
      BY <3>1
  <2> QED
    BY <2>1, <2>2
<1>11. InProgress(r)' =>
              /\ \A v \in Variants : req'[r].brought.items[v] + Owed(UserOf[r], v)' <= asked[UserOf[r]][v]
              /\ \A v \in Variants : req'[r].copy.items[v] + Owed(UserOf[r], v)' <= asked[UserOf[r]][v]
  BY <1>7, <1>8, StillBacked
<1>12. guest' \in [Users -> Contents] /\ \A d \in DOMAIN carts : /\ carts'[d].user = carts[d].user
                                   /\ carts'[d].status = carts[d].status
                                   /\ carts'[d].fired = carts[d].fired
  BY <1>1, <1>2, <1>4, <1>5 DEF Typed
<1>13. DOMAIN carts' = DOMAIN carts /\ (InProgress(r)' /\ req'[r].none => req[r].none \/ Active(UserOf[r]) = {})
  BY <1>4, <1>8
<1> QED
  BY <1>1, <1>6, <1>7, <1>9, <1>10, <1>11, <1>12, <1>13, Working

\* The request's cart, as it is backed.
LEMMA OwnCart ==
    ASSUME Parameters, IInv, NEW r \in Requests, NEW s \in StepNames, At(r, s), s \in OnCart
    PROVE  /\ OnItsWay(r) /\ req[r] \in Underway /\ req[r].mine \in DOMAIN carts
           /\ carts[req[r].mine].contents \in Contents
           /\ \A v \in Variants :
                 /\ carts[req[r].mine].contents.items[v] \in Nat
                 /\ carts[req[r].mine].contents.items[v] + Owed(UserOf[r], v) <= asked[UserOf[r]][v]
<1>1. /\ OnItsWay(r) /\ req[r] \in Underway /\ req[r].mine \in DOMAIN carts /\ carts[req[r].mine].user = UserOf[r]
  BY RequestAt DEF IInv
<1>2. carts[req[r].mine].contents \in Contents
  BY <1>1, CartAt DEF IInv, CartRow
<1> QED
  BY <1>1, <1>2 DEF IInv, AllIsBacked, Backed, Contents

\* Updates of the cart as it is.
LEMMA SetKeeps ==
    ASSUME Parameters, IInv, NEW r \in Requests, Set(r)
    PROVE  IInv'
<1> DEFINE x == carts[req[r].mine].contents
           new == Edit(x, req[r].op)
<1>1. At(r, "set") /\ "set" \in StepNames /\ "set" \in OnCart /\ "set" \in Writes
  BY DEF Set, StepNames, OnCart, Writes
<1>2. /\ OnItsWay(r) /\ req[r] \in Underway /\ x \in Contents
      /\ \A v \in Variants : x.items[v] \in Nat /\ x.items[v] + Owed(UserOf[r], v) <= asked[UserOf[r]][v]
  BY <1>1, OwnCart
<1>3. CASE Admits(x, req[r].op)
  <2>1. SetContents(req[r].mine, new) /\ GoOn(r, req[r]) /\ UNCHANGED <<guest, orders, coupon, picked, historyVars>>
    BY <1>3 DEF Set
  <2>2. /\ new \in Contents
        /\ \A v \in Variants :
              \/ new.items[v] <= x.items[v]
              \/ req[r].op.kind \in Asks /\ v = req[r].op.variant /\ new.items[v] <= x.items[v] + req[r].op.quantity
    <3>1. req[r].op \in Operation
      BY <1>2 DEF Underway
    <3>2. req[r].op.kind \in {"clear", "update", "remove", "apply", "drop"}
      BY <1>1, WhoseStep DEF IInv
    <3> HIDE DEF x
    <3> QED
      BY <1>2, <3>1, <3>2, EditAddsTheAsked
  <2> HIDE DEF new, x
  <2>3. \A v \in Variants : new.items[v] \in Nat
    BY <2>2 DEF Contents
  <2>4. GetsOn(r) /\ Written(r) => \A v \in Variants : new.items[v] + Owed(UserOf[r], v)' <= asked[UserOf[r]][v]
    BY <1>1, <1>2, <2>2, <2>3, WrittenIsBacked
  <2> QED
    BY <1>1, <2>1, <2>2, <2>4, FillingKeeps
<1>4. CASE ~Admits(x, req[r].op)
  <2>1. Stop(r) /\ UNCHANGED <<shopVars, picked, historyVars>>
    BY <1>4 DEF Set, shopVars
  <2> QED
    BY <1>2, <2>1, StopKeeps
<1> QED
  BY <1>3, <1>4

\* Adding to an item, or inserting it.
LEMMA PutKeeps ==
    ASSUME Parameters, IInv, NEW r \in Requests, Put(r)
    PROVE  IInv'
<1> DEFINE x == carts[req[r].mine].contents
           o == req[r].op
<1>1. At(r, "put") /\ "put" \in StepNames /\ "put" \in OnCart /\ "put" \in Writes
  BY DEF Put, StepNames, OnCart, Writes
<1>2. /\ OnItsWay(r) /\ req[r] \in Underway /\ x \in Contents
      /\ \A v \in Variants : x.items[v] \in Nat /\ x.items[v] + Owed(UserOf[r], v) <= asked[UserOf[r]][v]
  BY <1>1, OwnCart
<1>3. o.variant \in Variants /\ o.quantity \in Nat /\ o.kind \in Asks
  BY <1>1, <1>2, WhoseStep DEF IInv, Underway, Operation, Parameters, Asks
<1>4. \/ \E n \in {0, x.items[o.variant] + o.quantity} :
            /\ SetContents(req[r].mine, [x EXCEPT !.items[o.variant] = n]) /\ GoOn(r, req[r])
            /\ UNCHANGED <<guest, orders, coupon, picked, historyVars>>
      \/ Stop(r) /\ UNCHANGED <<shopVars, picked, historyVars>>
  BY DEF Put, shopVars
<1>5. ASSUME NEW n \in {0, x.items[o.variant] + o.quantity},
             SetContents(req[r].mine, [x EXCEPT !.items[o.variant] = n]), GoOn(r, req[r]),
             UNCHANGED <<guest, orders, coupon, picked, historyVars>>
      PROVE  IInv'
  <2> DEFINE new == [x EXCEPT !.items[o.variant] = n]
  <2>1. x = [items |-> x.items, coupon |-> x.coupon] /\ x.items \in [Variants -> Nat] /\ x.coupon \in BOOLEAN
        /\ n \in Nat
    <3> HIDE DEF x
    <3>1. n = 0 \/ n = x.items[o.variant] + o.quantity
      OBVIOUS
    <3>2. x.items[o.variant] \in Nat
      BY <1>2, <1>3
    <3>3. n \in Nat
      BY <3>1, <3>2, <1>3
    <3> QED
      BY <3>3, <1>2 DEF Contents
  <2> HIDE DEF x
  <2>2. new.items = [x.items EXCEPT ![o.variant] = n] /\ new = [items |-> new.items, coupon |-> x.coupon]
    BY <2>1
  <2>3. new \in Contents
    BY <1>3, <2>1, <2>2 DEF Contents
  <2>4. \A v \in Variants :
           /\ new.items[v] \in Nat
           /\ new.items[v] <= x.items[v] \/ (v = o.variant /\ new.items[v] <= x.items[v] + o.quantity)
    BY <1>3, <2>1, <2>2
  <2> HIDE DEF new
  <2>5. GetsOn(r) /\ Written(r) => \A v \in Variants : new.items[v] + Owed(UserOf[r], v)' <= asked[UserOf[r]][v]
    BY <1>1, <1>2, <1>3, <2>4, WrittenIsBacked
  <2> QED
    BY <1>1, <1>5, <2>3, <2>5, FillingKeeps DEF new, x
<1> QED
  BY <1>2, <1>4, <1>5, StopKeeps

\* Merging: an item is what it was, what the guest had, or gone.
LEMMA MergeKeeps ==
    ASSUME Parameters, IInv, NEW r \in Requests, Merge(r)
    PROVE  IInv'
<1> DEFINE x == carts[req[r].mine].contents
           from == req[r].brought
           read == req[r].copy
           new == [items |-> [v \in Variants |-> Merged(from.items[v], read.items[v], x.items[v])],
                   coupon |-> x.coupon \/ (from.coupon /\ ~read.coupon)]
<1>1. At(r, "merge") /\ "merge" \in StepNames /\ "merge" \in OnCart /\ "merge" \notin Writes
  BY DEF Merge, StepNames, OnCart, Writes
<1>2. OnItsWay(r) /\ req[r] \in Underway /\ x \in Contents
  BY <1>1, OwnCart
<1>3. \/ /\ SetContents(req[r].mine, new) /\ GoOn(r, req[r])
         /\ UNCHANGED <<guest, orders, coupon, picked, historyVars>>
      \/ Stop(r) /\ UNCHANGED <<shopVars, picked, historyVars>>
  BY DEF Merge, shopVars
<1>4. \A v \in Variants : new.items[v] \in {0, from.items[v], x.items[v]}
  BY DEF Merged
<1>5. from \in Contents /\ read \in Contents
  BY <1>2 DEF Underway
<1>6. new \in Contents
  <2>1. \A v \in Variants : from.items[v] \in Nat /\ x.items[v] \in Nat
    BY <1>2, <1>5 DEF Contents
  <2>2. [v \in Variants |-> Merged(from.items[v], read.items[v], x.items[v])] \in [Variants -> Nat]
    BY <2>1 DEF Merged
  <2> QED
    BY <2>2, <1>2, <1>5 DEF Contents
<1>7. CASE Stop(r) /\ UNCHANGED <<shopVars, picked, historyVars>>
  BY <1>2, <1>7, StopKeeps
<1>8. CASE /\ SetContents(req[r].mine, new) /\ GoOn(r, req[r])
           /\ UNCHANGED <<guest, orders, coupon, picked, historyVars>>
  <2>1. ASSUME GetsOn(r), NEW v \in Variants PROVE new.items[v] + Owed(UserOf[r], v)' <= asked[UserOf[r]][v]
    <3>1. req[r].mine \in DOMAIN carts /\ carts[req[r].mine].user = UserOf[r] /\ UserOf[r] \in Users
      BY <1>1, RequestAt DEF IInv, OnCart, Parameters
    <3>2. /\ Owed(UserOf[r], v)' \in Nat /\ Owed(UserOf[r], v)' <= asked[UserOf[r]][v]
          /\ from.items[v] + Owed(UserOf[r], v)' <= asked[UserOf[r]][v]
          /\ x.items[v] + Owed(UserOf[r], v)' <= asked[UserOf[r]][v]
      BY <2>1, <3>1, StillBacked
    <3> HIDE DEF new, x, from
    <3> QED
      BY <1>4, <3>2
  <2> HIDE DEF new
  <2> QED
    BY <1>1, <1>6, <1>8, <2>1, FillingKeeps
<1> QED
  BY <1>3, <1>7, <1>8

\* The coupon reaches all of the user's carts; no item changes.
LEMMA SpreadKeeps ==
    ASSUME Parameters, IInv, NEW r \in Requests, Spread(r)
    PROVE  IInv'
<1> DEFINE n == Len(carts)
<1>1. At(r, "spread") /\ "spread" \in StepNames /\ "spread" \notin OnCart \cup {"find", "open"}
  BY DEF Spread, StepNames, OnCart
<1>2. /\ guest' = guest /\ orders' = orders /\ coupon' = coupon /\ picked' = picked /\ asked' = asked
      /\ crowded' = crowded /\ GoOn(r, req[r])
  BY DEF Spread, historyVars
<1>3. /\ Typed /\ OnItsWay(r) /\ req[r] \in Underway
      /\ req[r].mine # 0 => req[r].mine \in DOMAIN carts /\ carts[req[r].mine].user = UserOf[r]
  BY <1>1, RequestAt DEF IInv
<1>4. n \in Nat /\ DOMAIN carts = 1..n /\ \A d \in DOMAIN carts : carts[d] \in CartRow
  BY <1>3, CartAt
<1>5. /\ DOMAIN carts' = DOMAIN carts /\ carts' = [d \in 1..n |-> carts'[d]]
      /\ \A d \in DOMAIN carts : carts'[d] = carts[d] \/ carts'[d] = [carts[d] EXCEPT !.contents.coupon = TRUE]
  BY <1>4 DEF Spread
<1> HIDE DEF n
<1>6. \A d \in DOMAIN carts :
         /\ carts'[d] \in CartRow /\ carts'[d].user = carts[d].user /\ carts'[d].status = carts[d].status
         /\ carts'[d].fired = carts[d].fired /\ carts'[d].contents.items = carts[d].contents.items
  <2> SUFFICES ASSUME NEW d \in DOMAIN carts, carts'[d] = [carts[d] EXCEPT !.contents.coupon = TRUE]
               PROVE  /\ carts'[d] \in CartRow /\ carts'[d].user = carts[d].user /\ carts'[d].status = carts[d].status
                      /\ carts'[d].fired = carts[d].fired /\ carts'[d].contents.items = carts[d].contents.items
    BY <1>4, <1>5
  <2>1. carts[d] \in CartRow /\ carts[d].contents \in Contents
    BY <1>4 DEF CartRow
  <2>2. /\ [carts[d].contents EXCEPT !.coupon = TRUE] \in Contents
        /\ [carts[d].contents EXCEPT !.coupon = TRUE].items = carts[d].contents.items
    BY <2>1 DEF Contents
  <2>3. carts'[d] = [carts[d] EXCEPT !.contents = [carts[d].contents EXCEPT !.coupon = TRUE]]
    OBVIOUS
  <2> QED
    BY <2>1, <2>2, <2>3 DEF CartRow
<1>7. carts' \in Seq(CartRow)
  <2>1. carts' \in [1..n -> CartRow]
    BY <1>4, <1>5, <1>6
  <2> QED
    BY <2>1, <1>4, IsSequence
<1>8. GetsOn(r) /\ (req'[r] = Ended \/ req'[r] = [req[r] EXCEPT !.todo = Tail(@)])
  <2>1. req[r].mine # 0 => req[r].mine \in DOMAIN carts' /\ carts'[req[r].mine].user = UserOf[r]
    BY <1>3, <1>5, <1>6
  <2> QED
    BY <2>1, <1>1, <1>2, <1>3, Going
<1>9. InProgress(r)' => /\ req'[r].brought = req[r].brought /\ req'[r].copy = req[r].copy
                       /\ req'[r].none = req[r].none
  BY <1>3, <1>8 DEF InProgress, Underway
<1>10. \A w \in Users, v \in Variants : guest'[w].items[v] + Owed(w, v)' <= asked[w][v]
  BY <1>2, <1>8, StillBacked
<1>11. \A d \in DOMAIN carts, w \in Users, v \in Variants :
          carts[d].user = w => carts'[d].contents.items[v] + Owed(w, v)' <= asked[w][v]
  <2> SUFFICES ASSUME NEW d \in DOMAIN carts, NEW w \in Users, NEW v \in Variants, carts[d].user = w
               PROVE  carts'[d].contents.items[v] + Owed(w, v)' <= asked[w][v]
    OBVIOUS
  <2>1. carts[d].contents.items[v] + Owed(w, v)' <= asked[w][v]
    BY <1>8, StillBacked
  <2> QED
    BY <2>1, <1>6
<1>12. InProgress(r)' =>
              /\ \A v \in Variants : req'[r].brought.items[v] + Owed(UserOf[r], v)' <= asked[UserOf[r]][v]
              /\ \A v \in Variants : req'[r].copy.items[v] + Owed(UserOf[r], v)' <= asked[UserOf[r]][v]
  BY <1>8, <1>9, StillBacked
<1>13. guest' \in [Users -> Contents] /\ (InProgress(r)' /\ req'[r].none => req[r].none \/ Active(UserOf[r]) = {})
  BY <1>2, <1>3, <1>9 DEF Typed
<1> QED
  BY <1>2, <1>5, <1>6, <1>7, <1>8, <1>10, <1>11, <1>12, <1>13, Working

\* The order, its coupon, and the conversion of the cart.
LEMMA PlaceKeeps ==
    ASSUME Parameters, IInv, NEW r \in Requests, Place(r)
    PROVE  IInv'
<1> DEFINE u == UserOf[r]
           c == req[r].mine
           used == req[r].copy.coupon /\ coupon.active
           new == [by |-> r, cart |-> c, items |-> req[r].copy.items, coupon |-> used]
<1>1. At(r, "place") /\ "place" \in StepNames /\ "place" \in OnCart
  BY DEF Place, StepNames, OnCart
<1>2. /\ orders' = orders \cup {new} /\ coupon' = (IF used THEN Count(u) ELSE coupon)
      /\ carts' = [carts EXCEPT ![c].status = "converted"] /\ GoOn(r, req[r])
      /\ guest' = guest /\ picked' = picked /\ asked' = asked /\ crowded' = crowded
  BY DEF Place, historyVars
<1>3. /\ Typed /\ OnItsWay(r) /\ req[r] \in Underway /\ c \in DOMAIN carts /\ carts[c].user = u /\ c # 0
      /\ c \in Nat
  BY <1>1, RequestAt, CartAt DEF IInv
<1>4. \A d \in DOMAIN carts : carts[d] \in CartRow
  BY <1>3, CartAt
<1>5. /\ DOMAIN carts' = DOMAIN carts /\ carts'[c] = [carts[c] EXCEPT !.status = "converted"]
      /\ \A d \in DOMAIN carts : d # c => carts'[d] = carts[d]
  BY <1>2, <1>3
<1>6. carts'[c] \in CartRow /\ carts'[c].status = "converted"
      /\ \A d \in DOMAIN carts : /\ carts'[d].user = carts[d].user /\ carts'[d].fired = carts[d].fired
                                 /\ carts'[d].contents = carts[d].contents
                                 /\ carts'[d].status = "active" => carts[d].status = "active"
  BY <1>3, <1>4, <1>5 DEF CartRow
<1>7. carts' \in Seq(CartRow)
  <2>1. Len(carts) \in Nat /\ DOMAIN carts = 1..Len(carts) /\ carts' = [d \in DOMAIN carts |-> carts'[d]]
    BY <1>2, <1>3, CartAt
  <2>2. \A d \in DOMAIN carts : carts'[d] \in CartRow
    BY <1>4, <1>5, <1>6
  <2>3. carts' \in [1..Len(carts) -> CartRow]
    BY <2>1, <2>2
  <2> QED
    BY <2>1, <2>3, IsSequence
<1>8. new \in OrderRow /\ new.by = r /\ new.items = req[r].copy.items /\ new.coupon = used /\ used \in BOOLEAN
  <2>1. req[r].copy.items \in [Variants -> Nat] /\ used \in BOOLEAN /\ c \in Nat
    BY <1>3 DEF Underway, Contents, Typed
  <2> HIDE DEF used, c
  <2> QED
    BY <2>1 DEF OrderRow
<1>9. GetsOn(r) /\ req'[r] = Ended
  <2>1. c \in DOMAIN carts' /\ carts'[c].user = UserOf[r]
    BY <1>3, <1>5, <1>6
  <2>2. GetsOn(r)
    BY <2>1, <1>1, <1>2, <1>3, Going
  <2>3. Len(req[r].todo) = 1
    BY <1>1, <1>3, WhoseStep
  <2> QED
    BY <2>2, <2>3, <1>2, <1>3 DEF GoOn, Typed
<1>10. \A o \in orders : o.by # r /\ o \in OrderRow /\ req'[o.by] = Ended
  <2> SUFFICES ASSUME NEW o \in orders PROVE o.by # r /\ o \in OrderRow /\ req'[o.by] = Ended
    OBVIOUS
  <2>1. o \in OrderRow /\ o.by \in Requests /\ req[o.by] = Ended
    BY <1>3 DEF Typed, OrderRow, IInv, OrdersEnd
  <2>2. o.by # r
    BY <2>1, <1>3, OneOnItsWay DEF InProgress
  <2> QED
    BY <2>1, <2>2, <1>9 DEF GetsOn
<1>11. /\ coupon' \in [active : BOOLEAN, uses : Nat, by : [Users -> Nat]]
       /\ coupon'.uses = coupon.uses + (IF used THEN 1 ELSE 0)
       /\ coupon'.by[u] = coupon.by[u] + (IF used THEN 1 ELSE 0)
       /\ \A w \in Users : w # u => coupon'.by[w] = coupon.by[w]
  <2>1. coupon \in [active : BOOLEAN, uses : Nat, by : [Users -> Nat]] /\ u \in Users
    BY <1>3 DEF Typed, Parameters
  <2> HIDE DEF used, u
  <2>2. CASE used
    <3>1. coupon' = [active |-> coupon.active, uses |-> coupon.uses + 1, by |-> [coupon.by EXCEPT ![u] = coupon.by[u] + 1]]
      BY <1>2, <2>1, <2>2 DEF Count
    <3>2. coupon.uses + 1 \in Nat /\ [coupon.by EXCEPT ![u] = coupon.by[u] + 1] \in [Users -> Nat]
      BY <2>1
    <3> QED
      BY <2>1, <2>2, <3>1, <3>2
  <2>3. CASE ~used
    BY <1>2, <2>1, <2>3
  <2> QED
    BY <2>2, <2>3
<1> HIDE DEF new, used, c, u
<1>12. Typed'
  <2>1. orders' \subseteq OrderRow /\ IsFiniteSet(orders')
    BY <1>2, <1>3, <1>8, FS_AddElement DEF Typed
  <2>2. DOMAIN req' = Requests /\ \A q \in Requests : req'[q] \in {Idle, Ended} \/ OnItsWay(q)'
    BY <1>3, <1>5, <1>6, <1>9, RequestsStay
  <2> QED
    BY <2>1, <2>2, <1>2, <1>3, <1>5, <1>7, <1>11 DEF Typed
<1>13. AllIsBacked'
  <2>1. \A w \in Users : Backed(w, guest[w].items)'
    BY <1>2, <1>9, StillBacked DEF Backed
  <2>2. ASSUME NEW d \in DOMAIN carts' PROVE Backed(carts[d].user, carts[d].contents.items)'
    <3>1. d \in DOMAIN carts /\ carts[d] \in CartRow
      BY <1>4, <1>5, <2>2
    <3>2. PICK w \in Users : w = carts[d].user
      BY <3>1 DEF CartRow
    <3>3. \A v \in Variants : carts[d].contents.items[v] + Owed(w, v)' <= asked[w][v]
      BY <1>9, <3>1, <3>2, StillBacked
    <3> QED
      BY <3>1, <3>2, <3>3, <1>2, <1>6 DEF Backed
  <2>3. ASSUME NEW q \in Requests, InProgress(q)', NEW v \in Variants
        PROVE  /\ req'[q].brought.items[v] + Owed(UserOf[q], v)' <= asked[UserOf[q]][v]
               /\ req'[q].copy.items[v] + Owed(UserOf[q], v)' <= asked[UserOf[q]][v]
    <3>0. UserOf[q] \in Users
      BY DEF Parameters
    <3>1. Owed(UserOf[q], v)' \in Nat /\ asked[UserOf[q]][v] \in Nat
          /\ Owed(UserOf[q], v) \in Nat /\ Owed(UserOf[q], v)' <= Owed(UserOf[q], v)
      BY <3>0, <1>9, StillBacked
    <3>2. req'[q] = req[q] /\ InProgress(q)
      BY <2>3, <1>9 DEF GetsOn, InProgress
    <3>3. req[q].brought.items[v] \in Nat /\ req[q].copy.items[v] \in Nat
      BY <3>2, <1>3 DEF Typed, InProgress, OnItsWay, Underway, Contents
    <3>4. /\ req[q].brought.items[v] + Owed(UserOf[q], v) <= asked[UserOf[q]][v]
          /\ req[q].copy.items[v] + Owed(UserOf[q], v) <= asked[UserOf[q]][v]
      BY <3>2 DEF IInv, AllIsBacked, Backed
    <3> QED
      BY <3>1, <3>2, <3>3, <3>4
  <2>4. ASSUME NEW v \in Variants PROVE new.items[v] <= asked[UserOf[new.by]][v]
    <3>1. req[r].copy.items[v] + Owed(UserOf[r], v)' <= asked[UserOf[r]][v]
          /\ req[r].copy.items[v] \in Nat /\ Owed(UserOf[r], v)' \in Nat /\ asked[UserOf[r]][v] \in Nat
      BY <1>9, StillBacked DEF Parameters
    <3>2. req[r].copy.items[v] <= asked[UserOf[r]][v]
      BY <3>1
    <3> QED
      BY <3>2, <1>8
  <2> QED
    BY <2>1, <2>2, <2>3, <2>4, <1>2 DEF IInv, AllIsBacked, Backed
<1>14. OrdersEnd'
  BY <1>2, <1>8, <1>9, <1>10 DEF OrdersEnd
<1>15. UsesAreOrders'
  <2> DEFINE With(O) == {o \in O : o.coupon}
             WithOf(O, w) == {o \in With(O) : UserOf[o.by] = w}
  <2>1. /\ IsFiniteSet(With(orders)) /\ \A w \in Users : IsFiniteSet(WithOf(orders, w))
    BY <1>3, FS_Subset DEF Typed
  <2>2. new \notin orders
    BY <1>8, <1>10
  <2>3. /\ coupon.uses = Cardinality(With(orders))
        /\ \A w \in Users : coupon.by[w] = Cardinality(WithOf(orders, w))
    BY DEF IInv, UsesAreOrders
  <2>4. /\ With(orders') = IF used THEN With(orders) \cup {new} ELSE With(orders)
        /\ \A w \in Users : WithOf(orders', w) = IF used /\ w = u THEN WithOf(orders, w) \cup {new} ELSE WithOf(orders, w)
    BY <1>2, <1>8 DEF u
  <2>5. new \notin With(orders) /\ \A w \in Users : new \notin WithOf(orders, w)
    BY <2>2
  <2>6. Cardinality(With(orders')) = coupon'.uses
    <3>1. coupon.uses \in Nat
      BY <1>3 DEF Typed
    <3>2. Cardinality(With(orders) \cup {new}) = Cardinality(With(orders)) + 1
      BY <2>1, <2>5, FS_AddElement
    <3> HIDE DEF With, WithOf
    <3>3. CASE used
      BY <3>3, <3>1, <3>2, <2>3, <2>4, <1>11
    <3>4. CASE ~used
      BY <3>4, <3>1, <2>3, <2>4, <1>11
    <3> QED
      BY <3>3, <3>4
  <2>7. ASSUME NEW w \in Users PROVE Cardinality(WithOf(orders', w)) = coupon'.by[w]
    <3>1. coupon.by[w] \in Nat
      BY <1>3 DEF Typed
    <3>2. Cardinality(WithOf(orders, w) \cup {new}) = Cardinality(WithOf(orders, w)) + 1
      BY <2>1, <2>5, FS_AddElement
    <3>3. Cardinality(WithOf(orders', w)) = Cardinality(WithOf(orders, w)) + (IF used /\ w = u THEN 1 ELSE 0)
      <4>1. CASE used /\ w = u
        BY <4>1, <3>2, <2>4
      <4>2. CASE ~(used /\ w = u)
        <5>1. WithOf(orders', w) = WithOf(orders, w)
          BY <4>2, <2>4
        <5>2. Cardinality(WithOf(orders, w)) \in Nat
          BY <3>1, <2>3
        <5> HIDE DEF With, WithOf
        <5> QED
          BY <4>2, <5>1, <5>2
      <4> QED
        BY <4>1, <4>2
    <3> QED
      BY <3>1, <3>3, <2>3, <1>11
  <2> QED
    BY <2>6, <2>7 DEF UsesAreOrders
<1>16. ReportsAreBounded'
  <2>1. \A d \in DOMAIN carts : Pickers(d)' = Pickers(d)
    BY <1>2 DEF Pickers
  <2> QED
    BY <2>1, <1>5, <1>6 DEF IInv, ReportsAreBounded
<1>17. AloneAtWork'
  <2>1. \A w \in Users \ crowded : Active(w)' \subseteq Active(w)
    BY <1>5, <1>6 DEF Active
  <2>2. ~InProgress(r)'
    BY <1>9 DEF InProgress
  <2> QED
    BY <2>1, <2>2, <1>2, <1>9, AloneStay DEF IInv
<1> QED
  BY <1>12, <1>13, <1>14, <1>15, <1>16, <1>17 DEF IInv

\* A request that fails writes nothing.
LEMMA FailKeeps ==
    ASSUME Parameters, IInv, NEW r \in Requests, Fail(r)
    PROVE  IInv'
<1>1. OnItsWay(r) /\ Stop(r) /\ UNCHANGED <<shopVars, picked, historyVars>>
  BY DEF Fail, InProgress, IInv, Typed
<1> QED
  BY <1>1, StopKeeps

\* What a request owes when it begins has been asked for.
LEMMA BeginOwes ==
    ASSUME Parameters, IInv, NEW r \in Requests, NEW o \in Operation, Begin(r, o), NEW u \in Users, NEW v \in Variants
    PROVE  /\ Owed(u, v)' \in Nat /\ asked[u][v] \in Nat /\ asked'[u][v] \in Nat /\ asked[u][v] <= asked'[u][v]
           /\ \A n \in Nat : n + Owed(u, v) <= asked[u][v] => n + Owed(u, v)' <= asked'[u][v]
           /\ Owed(u, v)' <= asked'[u][v]
<1> DEFINE S == UNION {Units(q) : q \in Owing(u, v)}
           N == {r} \X (1..o.quantity)
           mine == UserOf[r] = u /\ o.kind \in Asks /\ o.variant = v
<1>1. /\ DOMAIN req = Requests /\ UserOf[r] \in Users /\ o.quantity \in Nat /\ o.variant \in Variants
      /\ asked \in [Users -> [Variants -> Nat]] /\ guest[u].items[v] \in Nat
  <2>1. DOMAIN req = Requests /\ asked \in [Users -> [Variants -> Nat]] /\ guest \in [Users -> Contents]
    BY DEF IInv, Typed
  <2>2. UserOf[r] \in Users /\ Quantities \subseteq Nat
    BY DEF Parameters
  <2>3. o.quantity \in Nat /\ o.variant \in Variants
    BY <2>2 DEF Operation
  <2>4. guest[u].items[v] \in Nat
    BY <2>1 DEF Contents
  <2> QED
    BY <2>1, <2>2, <2>3, <2>4
<1>2. /\ ~InProgress(r) /\ req'[r].op = o /\ \A q \in Requests \ {r} : req'[q] = req[q]
  BY <1>1 DEF Begin, InProgress
<1>3. /\ asked'[u][v] = IF mine THEN asked[u][v] + o.quantity ELSE asked[u][v]
      /\ asked[u][v] \in Nat
  BY <1>1 DEF Begin, Asks
<1>4. IsFiniteSet(S) /\ Owed(u, v) \in Nat
  BY OwedIsFinite DEF IInv
<1>5. IsFiniteSet(N) /\ Cardinality(N) = o.quantity
  <2> DEFINE n == o.quantity
  <2>1. n \in Nat
    BY <1>1
  <2> HIDE DEF n
  <2>2. IsFiniteSet({r} \X (1..n)) /\ Cardinality({r} \X (1..n)) = n
    BY <2>1, SoMany
  <2> QED
    BY <2>1, <2>2 DEF n
<1>6. \A q \in Owing(u, v)' : (q = r /\ mine) \/ (q # r /\ q \in Owing(u, v))
  <2> SUFFICES ASSUME NEW q \in Owing(u, v)' PROVE (q = r /\ mine) \/ (q # r /\ q \in Owing(u, v))
    OBVIOUS
  <2>1. CASE q = r
    BY <2>1, <1>2 DEF Owing
  <2>2. CASE q # r
    BY <2>2, <1>2 DEF Owing, InProgress
  <2> QED
    BY <2>1, <2>2
<1>7. S' \subseteq IF mine THEN S \cup N ELSE S
  <2> SUFFICES ASSUME NEW q \in Owing(u, v)', NEW e \in Units(q)' PROVE e \in S \/ (mine /\ e \in N)
    <3>1. S' = UNION {Units(q)' : q \in Owing(u, v)'}
      OBVIOUS
    <3> HIDE DEF N, S, mine
    <3> QED
      BY <3>1
  <2>1. CASE q = r /\ mine
    BY <2>1, <1>2 DEF Units
  <2>2. CASE q # r /\ q \in Owing(u, v)
    <3>1. Units(q)' = Units(q)
      BY <2>2, <1>2 DEF Units, Owing
    <3> QED
      BY <2>2, <3>1
  <2> QED
    BY <2>1, <2>2, <1>6
<1> HIDE DEF S, N, mine
<1>8. IsFiniteSet(S \cup N) /\ Cardinality(S \cup N) <= Cardinality(S) + Cardinality(N)
  <2>1. IsFiniteSet(S \cup N) /\ Cardinality(S \cup N) = Cardinality(S) + Cardinality(N) - Cardinality(S \cap N)
    BY <1>4, <1>5, FS_Union
  <2>2. Cardinality(S \cap N) \in Nat /\ Cardinality(S) \in Nat /\ Cardinality(N) \in Nat
    BY <1>4, <1>5, FS_CardinalityType, FS_Intersection
  <2> QED
    BY <2>1, <2>2
<1>9. /\ IsFiniteSet(S')
      /\ Cardinality(S') <= IF mine THEN Cardinality(S) + o.quantity ELSE Cardinality(S)
  <2>1. CASE mine
    <3>1. IsFiniteSet(S') /\ Cardinality(S') <= Cardinality(S \cup N)
      BY <2>1, <1>7, <1>8, FS_Subset
    <3>2. Cardinality(S') \in Nat /\ Cardinality(S \cup N) \in Nat /\ Cardinality(S) \in Nat
      BY <3>1, <1>4, <1>8, FS_CardinalityType
    <3> QED
      BY <2>1, <3>1, <3>2, <1>1, <1>5, <1>8
  <2>2. CASE ~mine
    BY <2>2, <1>4, <1>7, FS_Subset
  <2> QED
    BY <2>1, <2>2
<1>10. Owed(u, v) = Cardinality(S) /\ Owed(u, v)' = Cardinality(S') /\ Cardinality(S') \in Nat
  BY <1>9, FS_CardinalityType DEF Owed, S
<1>11. guest[u].items[v] + Owed(u, v) <= asked[u][v]
  BY DEF IInv, AllIsBacked, Backed
<1>12. Owed(u, v)' + asked[u][v] <= Owed(u, v) + asked'[u][v]
  <2>1. CASE mine
    BY <2>1, <1>1, <1>3, <1>4, <1>9, <1>10
  <2>2. CASE ~mine
    BY <2>2, <1>1, <1>3, <1>4, <1>9, <1>10
  <2> QED
    BY <2>1, <2>2
<1>13. asked'[u][v] \in Nat /\ asked[u][v] <= asked'[u][v]
  <2>1. CASE mine
    BY <2>1, <1>1, <1>3
  <2>2. CASE ~mine
    BY <2>2, <1>1, <1>3
  <2> QED
    BY <2>1, <2>2
<1> QED
  BY <1>1, <1>3, <1>4, <1>10, <1>11, <1>12, <1>13

\* A request comes in, and what it is going to write is asked for.
LEMMA BeginKeeps ==
    ASSUME Parameters, IInv, NEW r \in Requests, NEW o \in Operation, Begin(r, o)
    PROVE  IInv'
<1> DEFINE k == o.kind
           u == UserOf[r]
<1>1. /\ Typed /\ DOMAIN req = Requests /\ u \in Users /\ req[r] = Idle /\ o.variant \in Variants /\ o.quantity \in Nat
      /\ k \in DOMAIN Program
  BY DEF IInv, Typed, Parameters, Begin, Operation
<1>2. /\ DOMAIN req' = Requests /\ (\A q \in Requests \ {r} : req'[q] = req[q])
      /\ req'[r] = [todo |-> Program[k], op |-> o, mine |-> 0, none |-> FALSE, copy |-> EmptyCart, brought |-> EmptyCart]
      /\ guest' = guest /\ carts' = carts /\ orders' = orders /\ coupon' = coupon /\ picked' = picked
      /\ crowded' = crowded \cup {w \in {u} : \E q \in Requests : UserOf[q] = w /\ InProgress(q)}
  BY <1>1 DEF Begin, shopVars
<1>3. EmptyCart \in Contents /\ \A v \in Variants : EmptyCart.items[v] = 0
  BY DEF EmptyCart, NoItems, Contents
<1>4. /\ Program[k] \in Seq(StepNames) /\ Len(Program[k]) \in 1..6 /\ Program[k] = Rest(k, Len(Program[k]))
      /\ Program[k][1] \notin OnCart
  <2> DEFINE L == Len(Program[k])
  <2>1. L \in 1..6 /\ DueIn(k, L) /\ Program[k] = Rest(k, L) /\ L \in 1..L
    <3>1. L \in 1..6 /\ DueIn(k, L) /\ Program[k] = Rest(k, L)
      BY <1>1, RestOf
    <3> HIDE DEF L
    <3> QED
      BY <3>1
  <2>2. Rest(k, L) \in Seq(StepNames)
    BY <1>1, <2>1, RestOf
  <2> QED
    BY <2>1, <2>2 DEF DueIn
<1>5. OnItsWay(r)'
  <2>1. req'[r] \in Underway
    BY <1>2, <1>3, <1>4 DEF Underway
  <2>2. req'[r].op.kind = k /\ req'[r].todo = Program[k] /\ req'[r].mine = 0
    BY <1>2
  <2>3. Head(req'[r].todo) \notin OnCart
    <3> DEFINE P == Program[k]
    <3>1. P \in Seq(StepNames) /\ Len(P) \in 1..6 /\ P[1] \notin OnCart /\ req'[r].todo = P
      BY <1>4, <2>2
    <3> HIDE DEF P
    <3>2. Head(P) = P[1]
      BY <3>1
    <3> QED
      BY <3>1, <3>2
  <2>4. \E n \in 1..Len(Program[k]) : Program[k] = Rest(k, n)
    BY <1>4
  <2> QED
    BY <2>1, <2>2, <2>3, <2>4, <1>4 DEF OnItsWay
<1>6. \A q \in Requests : req'[q] \in {Idle, Ended} \/ OnItsWay(q)'
  <2> SUFFICES ASSUME NEW q \in Requests, q # r, OnItsWay(q) PROVE OnItsWay(q)'
    BY <1>1, <1>2, <1>5 DEF Typed
  <2> QED
    BY <1>2 DEF OnItsWay
<1>7. Typed'
  <2>1. asked' \in [Users -> [Variants -> Nat]]
    <3>1. asked \in [Users -> [Variants -> Nat]] /\ asked[u][o.variant] + o.quantity \in Nat
      BY <1>1 DEF Typed
    <3>2. asked' = asked \/ asked' = [asked EXCEPT ![u] = [asked[u] EXCEPT ![o.variant] = asked[u][o.variant] + o.quantity]]
      BY DEF Begin
    <3>3. [asked[u] EXCEPT ![o.variant] = asked[u][o.variant] + o.quantity] \in [Variants -> Nat]
      BY <3>1, <1>1
    <3> QED
      BY <3>1, <3>2, <3>3, <1>1
  <2>2. crowded' \subseteq Users
    BY <1>1, <1>2 DEF Typed
  <2> QED
    BY <2>1, <2>2, <1>1, <1>2, <1>6 DEF Typed
<1>8. AllIsBacked'
  <2>1. ASSUME NEW w \in Users PROVE Backed(w, guest[w].items)'
    <3>1. \A v \in Variants : guest[w].items[v] \in Nat /\ guest[w].items[v] + Owed(w, v) <= asked[w][v]
      BY <1>1 DEF Typed, Contents, IInv, AllIsBacked, Backed
    <3> QED
      BY <3>1, <1>2, BeginOwes DEF Backed
  <2>2. ASSUME NEW c \in DOMAIN carts PROVE Backed(carts[c].user, carts[c].contents.items)'
    <3>1. carts[c] \in CartRow
      BY <1>1, CartAt
    <3>2. PICK w \in Users : w = carts[c].user
      BY <3>1 DEF CartRow
    <3>3. \A v \in Variants : carts[c].contents.items[v] \in Nat /\ carts[c].contents.items[v] + Owed(w, v) <= asked[w][v]
      BY <3>1, <3>2 DEF CartRow, Contents, IInv, AllIsBacked, Backed
    <3>4. \A v \in Variants : carts[c].contents.items[v] + Owed(w, v)' <= asked'[w][v]
      BY <3>3, BeginOwes
    <3> QED
      BY <3>2, <3>4, <1>2 DEF Backed
  <2>3. ASSUME NEW q \in Requests, InProgress(q)'
        PROVE  Backed(UserOf[q], req[q].brought.items)' /\ Backed(UserOf[q], req[q].copy.items)'
    <3>0. UserOf[q] \in Users
      BY DEF Parameters
    <3>1. CASE q = r
      <4>1. \A v \in Variants : 0 + Owed(UserOf[q], v)' <= asked'[UserOf[q]][v]
        BY <3>0, BeginOwes
      <4>2. req'[q].brought = EmptyCart /\ req'[q].copy = EmptyCart
        BY <3>1, <1>2
      <4> QED
        BY <4>1, <4>2, <1>3 DEF Backed
    <3>2. CASE q # r
      <4>1. req'[q] = req[q] /\ InProgress(q)
        BY <2>3, <3>2, <1>2 DEF InProgress
      <4>2. \A v \in Variants : /\ req[q].brought.items[v] \in Nat /\ req[q].copy.items[v] \in Nat
                                /\ req[q].brought.items[v] + Owed(UserOf[q], v) <= asked[UserOf[q]][v]
                                /\ req[q].copy.items[v] + Owed(UserOf[q], v) <= asked[UserOf[q]][v]
        BY <4>1, <1>1 DEF Typed, InProgress, OnItsWay, Underway, Contents, IInv, AllIsBacked, Backed
      <4>3. \A v \in Variants : /\ req[q].brought.items[v] + Owed(UserOf[q], v)' <= asked'[UserOf[q]][v]
                                /\ req[q].copy.items[v] + Owed(UserOf[q], v)' <= asked'[UserOf[q]][v]
        BY <4>2, <3>0, BeginOwes
      <4> QED
        BY <4>1, <4>3 DEF Backed
    <3> QED
      BY <3>1, <3>2
  <2>4. ASSUME NEW x \in orders, NEW v \in Variants PROVE x.items[v] <= asked'[UserOf[x.by]][v]
    <3>1. x \in OrderRow /\ UserOf[x.by] \in Users /\ x.items[v] \in Nat
      BY <1>1 DEF Typed, OrderRow, Parameters
    <3>2. x.items[v] <= asked[UserOf[x.by]][v]
      BY DEF IInv, AllIsBacked
    <3>3. /\ asked[UserOf[x.by]][v] \in Nat /\ asked'[UserOf[x.by]][v] \in Nat
          /\ asked[UserOf[x.by]][v] <= asked'[UserOf[x.by]][v]
      BY <3>1, BeginOwes
    <3> QED
      BY <3>1, <3>2, <3>3
  <2> QED
    BY <2>1, <2>2, <2>3, <2>4, <1>2 DEF AllIsBacked
<1>9. OrdersEnd'
  <2> SUFFICES ASSUME NEW x \in orders PROVE req'[x.by] = Ended
    BY <1>2 DEF OrdersEnd
  <2>1. req[x.by] = Ended /\ x.by \in Requests
    BY <1>1 DEF IInv, OrdersEnd, Typed, OrderRow
  <2>2. Idle # Ended
    BY DEF Idle, Ended
  <2> QED
    BY <2>1, <2>2, <1>1, <1>2
<1>10. UsesAreOrders' /\ ReportsAreBounded'
  BY <1>2 DEF IInv, UsesAreOrders, ReportsAreBounded, Pickers
<1>11. AloneAtWork'
  <2> SUFFICES ASSUME NEW w \in Users \ crowded'
               PROVE  /\ \A c, d \in Active(w)' : c = d
                      /\ \A p, q \in Requests :
                            UserOf[p] = w /\ UserOf[q] = w /\ InProgress(p)' /\ InProgress(q)' => p = q
                      /\ \A q \in Requests : UserOf[q] = w /\ InProgress(q)' /\ req'[q].none => Active(w)' = {}
    BY DEF AloneAtWork
  <2>1. /\ \A c, d \in Active(w) : c = d
        /\ \A p, q \in Requests : UserOf[p] = w /\ UserOf[q] = w /\ InProgress(p) /\ InProgress(q) => p = q
        /\ \A q \in Requests : UserOf[q] = w /\ InProgress(q) /\ req[q].none => Active(w) = {}
    BY <1>2 DEF IInv, AloneAtWork
  <2>2. Active(w)' = Active(w)
    BY <1>2 DEF Active
  <2>3. \A q \in Requests \ {r} : InProgress(q)' => InProgress(q)
    BY <1>2 DEF InProgress
  <2>4. UserOf[r] = w => \A q \in Requests : UserOf[q] = w => ~InProgress(q)
    BY <1>2
  <2>5. req'[r].none = FALSE
    BY <1>2
  <2>6. \A q \in Requests : UserOf[q] = w /\ InProgress(q)' /\ req'[q].none => Active(w) = {}
    BY <2>1, <2>3, <2>5, <1>2
  <2>7. \A p, q \in Requests : UserOf[p] = w /\ UserOf[q] = w /\ InProgress(p)' /\ InProgress(q)' => p = q
    BY <2>1, <2>3, <2>4
  <2> QED
    BY <2>1, <2>2, <2>6, <2>7
<1> QED
  BY <1>7, <1>8, <1>9, <1>10, <1>11 DEF IInv

\* A step without a request changes no contents and makes no cart active.
LEMMA NobodysStep ==
    ASSUME Parameters, IInv, req' = req, guest' = guest, orders' = orders, asked' = asked, crowded' = crowded,
           carts' \in Seq(CartRow), DOMAIN carts' = DOMAIN carts,
           \A c \in DOMAIN carts : /\ carts'[c].user = carts[c].user /\ carts'[c].contents = carts[c].contents
                                   /\ carts'[c].status = "active" => carts[c].status = "active",
           coupon' \in [active : BOOLEAN, uses : Nat, by : [Users -> Nat]],
           coupon'.uses = coupon.uses, coupon'.by = coupon.by,
           picked' \in [Sweepers -> SUBSET DOMAIN carts],
           ReportsAreBounded'
    PROVE  IInv'
<1>1. Typed
  BY DEF IInv
<1>2. Typed'
  <2>1. \A r \in Requests : req'[r] \in {Idle, Ended} \/ OnItsWay(r)'
    BY <1>1 DEF Typed, OnItsWay
  <2> QED
    BY <2>1, <1>1 DEF Typed
<1>3. \A u, v : Owed(u, v)' = Owed(u, v)
  BY DEF Owed, Owing, Units, InProgress
<1>4. AllIsBacked'
  <2>1. \A u \in Users : Backed(u, guest[u].items)'
    BY <1>3 DEF IInv, AllIsBacked, Backed
  <2>2. ASSUME NEW c \in DOMAIN carts PROVE Backed(carts[c].user, carts[c].contents.items)'
    <3>1. PICK w : w = carts[c].user
      OBVIOUS
    <3>2. \A v \in Variants : carts[c].contents.items[v] + Owed(w, v)' <= asked[w][v]
      BY <3>1, <1>3 DEF IInv, AllIsBacked, Backed
    <3> QED
      BY <3>1, <3>2 DEF Backed
  <2>3. \A r \in Requests : InProgress(r)' =>
           Backed(UserOf[r], req[r].brought.items)' /\ Backed(UserOf[r], req[r].copy.items)'
    BY <1>3 DEF IInv, AllIsBacked, Backed, InProgress
  <2> QED
    BY <2>1, <2>2, <2>3 DEF IInv, AllIsBacked
<1>5. OrdersEnd' /\ UsesAreOrders'
  BY DEF IInv, OrdersEnd, UsesAreOrders
<1>6. AloneAtWork'
  <2>1. \A u : Active(u)' \subseteq Active(u)
    BY DEF Active
  <2> QED
    BY <2>1 DEF IInv, AloneAtWork, InProgress
<1> QED
  BY <1>2, <1>4, <1>5, <1>6 DEF IInv

\* Deactivating the coupon takes no use back.
LEMMA DeactivateKeeps ==
    ASSUME Parameters, IInv, Deactivate \/ UNCHANGED vars
    PROVE  IInv'
<1>1. /\ req' = req /\ guest' = guest /\ orders' = orders /\ asked' = asked /\ crowded' = crowded
      /\ carts' = carts /\ picked' = picked
  BY DEF Deactivate, vars, shopVars, historyVars
<1>2. coupon' \in [active : BOOLEAN, uses : Nat, by : [Users -> Nat]]
      /\ coupon'.uses = coupon.uses /\ coupon'.by = coupon.by
  BY DEF Deactivate, vars, shopVars, IInv, Typed
<1>3. ReportsAreBounded' /\ carts' \in Seq(CartRow) /\ picked' \in [Sweepers -> SUBSET DOMAIN carts]
  BY <1>1 DEF IInv, Typed, ReportsAreBounded, Pickers
<1> QED
  BY <1>1, <1>2, <1>3, NobodysStep

\* The sweep picks active carts, which nobody has reported yet.
LEMMA SelectKeeps ==
    ASSUME Parameters, IInv, NEW w \in Sweepers, Select(w)
    PROVE  IInv'
<1>1. PICK stale \in SUBSET {c \in DOMAIN carts : carts[c].status = "active" /\ carts[c].contents.items # NoItems} :
         picked' = [picked EXCEPT ![w] = stale]
  BY DEF Select
<1>2. /\ req' = req /\ guest' = guest /\ orders' = orders /\ asked' = asked /\ crowded' = crowded
      /\ carts' = carts /\ coupon' = coupon /\ picked[w] = {}
      /\ picked \in [Sweepers -> SUBSET DOMAIN carts] /\ carts \in Seq(CartRow)
  BY DEF Select, shopVars, historyVars, IInv, Typed
<1>3. picked' \in [Sweepers -> SUBSET DOMAIN carts]
  BY <1>1, <1>2
<1>4. ReportsAreBounded'
  <2>1. ASSUME NEW c \in DOMAIN carts PROVE carts[c].fired + Cardinality(Pickers(c)') <= Cardinality(Sweepers)
    <3>1. /\ carts[c].status = "active" => carts[c].fired = 0
          /\ carts[c].fired + Cardinality(Pickers(c)) <= Cardinality(Sweepers)
      BY DEF IInv, ReportsAreBounded
    <3>2. CASE c \in stale
      <4>1. carts[c].fired = 0
        BY <3>1, <3>2
      <4>2. Pickers(c)' \subseteq Sweepers
        BY DEF Pickers
      <4>3. Cardinality(Pickers(c)') <= Cardinality(Sweepers) /\ Cardinality(Pickers(c)') \in Nat
        BY <4>2, FS_Subset, FS_CardinalityType DEF Parameters
      <4> QED
        BY <4>1, <4>3
    <3>3. CASE c \notin stale
      <4>1. Pickers(c)' = Pickers(c)
        BY <3>3, <1>1, <1>2 DEF Pickers
      <4> QED
        BY <4>1, <3>1
    <3> QED
      BY <3>2, <3>3
  <2> QED
    BY <2>1, <1>2 DEF IInv, ReportsAreBounded
<1>5. coupon' \in [active : BOOLEAN, uses : Nat, by : [Users -> Nat]]
  BY <1>2 DEF IInv, Typed
<1> QED
  BY <1>2, <1>3, <1>4, <1>5, NobodysStep

\* The report of a cart is the one that was to come of whoever has picked it.
LEMMA MarkAbandonedKeeps ==
    ASSUME Parameters, IInv, NEW w \in Sweepers, MarkAbandoned(w)
    PROVE  IInv'
<1>1. PICK c \in picked[w] : /\ carts' = [carts EXCEPT ![c].status = "abandoned", ![c].fired = @ + 1]
                             /\ picked' = [picked EXCEPT ![w] = @ \ {c}]
  BY DEF MarkAbandoned
<1>2. /\ req' = req /\ guest' = guest /\ orders' = orders /\ asked' = asked /\ crowded' = crowded
      /\ coupon' = coupon
  BY DEF MarkAbandoned, historyVars
<1>3. Typed /\ picked \in [Sweepers -> SUBSET DOMAIN carts] /\ c \in DOMAIN carts
      /\ coupon \in [active : BOOLEAN, uses : Nat, by : [Users -> Nat]]
  BY DEF IInv, Typed
<1>4. Len(carts) \in Nat /\ DOMAIN carts = 1..Len(carts) /\ \A d \in DOMAIN carts : carts[d] \in CartRow
  BY <1>3, CartAt
<1>5. /\ carts' = [d \in DOMAIN carts |-> carts'[d]] /\ DOMAIN carts' = DOMAIN carts
      /\ carts'[c] = [carts[c] EXCEPT !.status = "abandoned", !.fired = carts[c].fired + 1]
      /\ \A d \in DOMAIN carts : d # c => carts'[d] = carts[d]
  BY <1>1, <1>3
<1>6. /\ carts'[c] \in CartRow /\ carts'[c].status = "abandoned" /\ carts'[c].fired = carts[c].fired + 1
      /\ carts'[c].user = carts[c].user /\ carts'[c].contents = carts[c].contents
      /\ carts[c].fired \in Nat
  <2> DEFINE row == carts[c]
  <2>1. row \in CartRow /\ carts'[c] = [row EXCEPT !.status = "abandoned", !.fired = row.fired + 1]
    BY <1>3, <1>4, <1>5
  <2> HIDE DEF row
  <2>2. carts'[c] = [user |-> row.user, status |-> "abandoned", contents |-> row.contents, fired |-> row.fired + 1]
        /\ row.fired \in Nat /\ row.user \in Users /\ row.contents \in Contents
    BY <2>1 DEF CartRow
  <2>3. row.fired + 1 \in Nat
    BY <2>2
  <2> QED
    BY <2>2, <2>3 DEF CartRow, row
<1>7. carts' \in Seq(CartRow)
  <2>1. \A d \in DOMAIN carts : carts'[d] \in CartRow
    BY <1>4, <1>5, <1>6
  <2>2. carts' \in [1..Len(carts) -> CartRow]
    BY <2>1, <1>4, <1>5
  <2> QED
    BY <2>2, <1>4, IsSequence
<1>8. picked' \in [Sweepers -> SUBSET DOMAIN carts]
  BY <1>1, <1>3
<1>9. ReportsAreBounded'
  <2>1. ASSUME NEW d \in DOMAIN carts
        PROVE  /\ carts'[d].status = "active" => carts'[d].fired = 0
               /\ carts'[d].fired + Cardinality(Pickers(d)') <= Cardinality(Sweepers)
    <3>1. /\ carts[d].status = "active" => carts[d].fired = 0
          /\ carts[d].fired + Cardinality(Pickers(d)) <= Cardinality(Sweepers)
      BY DEF IInv, ReportsAreBounded
    <3>2. CASE d = c
      <4>1. Pickers(c)' = Pickers(c) \ {w} /\ w \in Pickers(c)
        BY <1>1, <1>3 DEF Pickers
      <4>2. IsFiniteSet(Sweepers) /\ Cardinality(Sweepers) \in Nat
        BY FS_CardinalityType DEF Parameters
      <4>3. IsFiniteSet(Pickers(c))
        BY <4>2, FS_Subset DEF Pickers
      <4>4. Cardinality(Pickers(c)') = Cardinality(Pickers(c)) - 1 /\ Cardinality(Pickers(c)) \in Nat
        BY <4>1, <4>3, FS_RemoveElement, FS_CardinalityType
      <4>5. carts'[c].fired + Cardinality(Pickers(c)') = carts[c].fired + Cardinality(Pickers(c))
        BY <4>4, <1>6
      <4> QED
        BY <3>1, <3>2, <4>5, <1>6
    <3>3. CASE d # c
      <4>1. Pickers(d)' = Pickers(d)
        BY <3>3, <1>1, <1>3 DEF Pickers
      <4> QED
        BY <4>1, <3>1, <3>3, <1>5
    <3> QED
      BY <3>2, <3>3
  <2> QED
    BY <2>1, <1>5 DEF ReportsAreBounded
<1> QED
  BY <1>2, <1>3, <1>5, <1>6, <1>7, <1>8, <1>9, NobodysStep

\* No cart, no order, nothing asked for.
LEMMA InitHolds ==
    ASSUME Parameters, Init
    PROVE  IInv
<1>1. EmptyCart \in Contents /\ NoItems \in [Variants -> Nat] /\ EmptyCart.items = NoItems /\ \A v \in Variants : NoItems[v] = 0
  BY DEF EmptyCart, NoItems, Contents
<1>2. Typed
  <2>1. carts \in Seq(CartRow) /\ orders \subseteq OrderRow /\ IsFiniteSet(orders)
    BY FS_EmptySet DEF Init
  <2>2. coupon \in [active : BOOLEAN, uses : Nat, by : [Users -> Nat]]
    BY DEF Init
  <2> QED
    BY <1>1, <2>1, <2>2 DEF Init, Typed
<1>3. \A r \in Requests : ~InProgress(r)
  BY DEF Init, InProgress
<1>4. \A u, v : Owed(u, v) = 0
  <2> TAKE u, v
  <2>1. Owing(u, v) = {}
    BY <1>3 DEF Owing
  <2>2. UNION {Units(r) : r \in Owing(u, v)} = {}
    BY <2>1
  <2> QED
    BY <2>2, FS_EmptySet DEF Owed
<1>5. DOMAIN carts = {} /\ orders = {} /\ \A u : Active(u) = {}
  BY DEF Init, Active
<1>6. AllIsBacked
  BY <1>1, <1>3, <1>4, <1>5 DEF Init, AllIsBacked, Backed
<1>7. OrdersEnd /\ ReportsAreBounded /\ AloneAtWork
  BY <1>3, <1>5 DEF OrdersEnd, ReportsAreBounded, AloneAtWork
<1>8. UsesAreOrders
  <2>1. {o \in orders : o.coupon} = {} /\ \A u \in Users : {o \in {x \in orders : x.coupon} : UserOf[o.by] = u} = {}
    BY <1>5
  <2>2. Cardinality({}) = 0
    BY FS_EmptySet
  <2>3. coupon.uses = 0 /\ \A u \in Users : coupon.by[u] = 0
    BY DEF Init
  <2> QED
    BY <2>1, <2>2, <2>3 DEF UsesAreOrders
<1> QED
  BY <1>2, <1>6, <1>7, <1>8 DEF IInv

\* Every step keeps the invariant.
LEMMA NextKeeps ==
    ASSUME Parameters, IInv, [Next]_vars
    PROVE  IInv'
<1>1. ASSUME NEW r \in Requests, Step(r) PROVE IInv'
  BY <1>1, PeekKeeps, KeepKeeps, EmptyKeeps, LookingKeeps, FindKeeps, CreateKeeps, PutKeeps, SetKeeps,
     MergeKeeps, SpreadKeeps, PlaceKeeps DEF Step
<1>2. ASSUME NEW r \in Requests, Fail(r) PROVE IInv'
  BY <1>2, FailKeeps
<1>3. ASSUME NEW r \in Requests, NEW o \in Operation, Begin(r, o) PROVE IInv'
  BY <1>3, BeginKeeps
<1>4. ASSUME NEW w \in Sweepers, Select(w) \/ MarkAbandoned(w) PROVE IInv'
  BY <1>4, SelectKeeps, MarkAbandonedKeeps
<1>5. ASSUME Deactivate \/ UNCHANGED vars PROVE IInv'
  BY <1>5, DeactivateKeeps
<1> QED
  BY <1>1, <1>2, <1>3, <1>4, <1>5 DEF Next

\* Whatever requests, sweeps and staff do: all items of a user, wherever they are, have been asked
\* for, uses of the coupon are orders, and a cart is picked at most once by each sweep.
THEOREM Invariance == Spec => []IInv
<1>1. Init => IInv
  BY CartsAreFinite, InitHolds
<1>2. IInv /\ [Next]_vars => IInv'
  BY CartsAreFinite, NextKeeps
<1> QED
  BY <1>1, <1>2, PTL DEF Spec

\* For any number of users, requests and quantities: no cart holds and no order has more of a
\* variant than its user has asked for, however requests overlap, merge and fail.
THEOREM NothingUnasked == Spec => []OnlyWhatWasAskedFor
<1>1. IInv => OnlyWhatWasAskedFor
  <2> SUFFICES ASSUME IInv, NEW v \in Variants
               PROVE  /\ \A c \in DOMAIN carts : carts[c].contents.items[v] <= asked[carts[c].user][v]
                      /\ \A o \in orders : o.items[v] <= asked[UserOf[o.by]][v]
    BY DEF OnlyWhatWasAskedFor
  <2>1. ASSUME NEW c \in DOMAIN carts PROVE carts[c].contents.items[v] <= asked[carts[c].user][v]
    <3>1. carts[c] \in CartRow
      BY CartAt DEF IInv
    <3>2. carts[c].contents.items[v] \in Nat /\ asked[carts[c].user][v] \in Nat
      BY <3>1 DEF CartRow, Contents, IInv, Typed
    <3>3. carts[c].contents.items[v] + Owed(carts[c].user, v) <= asked[carts[c].user][v]
      BY DEF IInv, AllIsBacked, Backed
    <3>4. Owed(carts[c].user, v) \in Nat
      BY CartsAreFinite, OwedIsFinite DEF IInv
    <3> QED
      BY <3>2, <3>3, <3>4
  <2> QED
    BY <2>1 DEF IInv, AllIsBacked
<1> QED
  BY <1>1, Invariance, PTL

\* The coupon's counters are the orders that used it, in total and by customer.
THEOREM CouponUsesAreOrders == Spec => []UsesAreOrders
<1>1. IInv => UsesAreOrders
  BY DEF IInv
<1> QED
  BY <1>1, Invariance, PTL

\* CartsAreAsAsked of the runs: both together.
THEOREM AsAsked == Spec => []CartsAreAsAsked
<1>1. OnlyWhatWasAskedFor /\ UsesAreOrders => CartsAreAsAsked
  BY DEF CartsAreAsAsked
<1> QED
  BY <1>1, NothingUnasked, CouponUsesAreOrders, PTL

\* No cart is reported as abandoned more often than there are workers.
THEOREM OneReportPerSweeper == Spec => []AbandonedOncePerSweeper
<1>1. IInv => AbandonedOncePerSweeper
  <2> SUFFICES ASSUME IInv, NEW c \in DOMAIN carts PROVE carts[c].fired <= Cardinality(Sweepers)
    BY DEF AbandonedOncePerSweeper
  <2>1. carts[c].fired \in Nat
    BY CartAt DEF IInv, CartRow
  <2>2. Cardinality(Pickers(c)) \in Nat /\ Cardinality(Sweepers) \in Nat
    <3>1. Pickers(c) \subseteq Sweepers
      BY DEF Pickers
    <3> QED
      BY <3>1, CartsAreFinite, FS_Subset, FS_CardinalityType DEF Parameters
  <2>3. carts[c].fired + Cardinality(Pickers(c)) <= Cardinality(Sweepers)
    BY DEF IInv, ReportsAreBounded
  <2> QED
    BY <2>1, <2>2, <2>3
<1> QED
  BY <1>1, Invariance, PTL

\* A user whose requests never overlapped has one active cart at most.
THEOREM AloneMeansOneCart == Spec => []SecondCartNeedsOverlap
<1>1. IInv => SecondCartNeedsOverlap
  <2> SUFFICES ASSUME IInv, NEW u \in Users \ crowded PROVE Cardinality(Active(u)) <= 1
    BY DEF SecondCartNeedsOverlap
  <2>1. \A c, d \in Active(u) : c = d
    BY DEF IInv, AloneAtWork
  <2>2. CASE Active(u) = {}
    BY <2>2, FS_EmptySet
  <2>3. ASSUME NEW c \in Active(u) PROVE Cardinality(Active(u)) <= 1
    <3>1. Active(u) = {c}
      BY <2>1
    <3>2. Cardinality({c}) = 1
      BY FS_Singleton
    <3> QED
      BY <3>1, <3>2
  <2> QED
    BY <2>2, <2>3
<1> QED
  BY <1>1, Invariance, PTL

-----------------------------------------------------------------------------
(* The coupon. Where it is after a step, it or a request that has passed the validation was    *)
(* before; what counts is that nobody passes it any more.                                      *)

\* Whether r still has the validation before it, whether it has passed it, and whether it has the
\* coupon with it.
ToValidate(r) == \E i \in DOMAIN req[r].todo : req[r].todo[i] = "validate"
Passed(r) == req[r].op.kind \in {"guestApply", "apply", "checkoutWithCode"} /\ ~ToValidate(r)
Brings(r) == InProgress(r) /\ (req[r].brought.coupon \/ req[r].copy.coupon \/ Passed(r))

\* Where the coupon may be after a step of r: where it was, and where r has put what it brings.
FromBefore(r) ==
    /\ \A u \in Users : guest'[u].coupon => guest[u].coupon \/ (u = UserOf[r] /\ Holds(u))
    /\ \A c \in DOMAIN carts' : carts'[c].contents.coupon =>
          \/ c \in DOMAIN carts /\ carts[c].user = carts'[c].user /\ carts[c].contents.coupon
          \/ carts'[c].user = UserOf[r] /\ Holds(UserOf[r])
    /\ \A q \in Requests : Brings(q)' => Brings(q) \/ (q = r /\ Holds(UserOf[r]))

\* Then nobody holds it who has not held it before.
LEMMA HoldsFromBefore ==
    ASSUME NEW r \in Requests, FromBefore(r), NEW u \in Users, Holds(u)'
    PROVE  Holds(u)
<1>1. Holds(u) <=> \/ guest[u].coupon
                   \/ \E c \in DOMAIN carts : carts[c].user = u /\ carts[c].contents.coupon
                   \/ \E q \in Requests : UserOf[q] = u /\ Brings(q)
  BY DEF Holds, Brings, Passed, ToValidate
<1>2. Holds(u)' <=> \/ guest'[u].coupon
                    \/ \E c \in DOMAIN carts' : carts'[c].user = u /\ carts'[c].contents.coupon
                    \/ \E q \in Requests : UserOf[q] = u /\ Brings(q)'
  BY DEF Holds, Brings, Passed, ToValidate
<1>3. CASE guest'[u].coupon
  BY <1>1, <1>3 DEF FromBefore
<1>4. ASSUME NEW c \in DOMAIN carts', carts'[c].user = u, carts'[c].contents.coupon PROVE Holds(u)
  BY <1>1, <1>4 DEF FromBefore
<1>5. ASSUME NEW q \in Requests, UserOf[q] = u, Brings(q)' PROVE Holds(u)
  BY <1>1, <1>5 DEF FromBefore
<1> QED
  BY <1>2, <1>3, <1>4, <1>5

\* Who holds it, one by one.
LEMMA Holding ==
    ASSUME NEW u
    PROVE  /\ guest[u].coupon => Holds(u)
           /\ \A c \in DOMAIN carts : carts[c].user = u /\ carts[c].contents.coupon => Holds(u)
           /\ \A q \in Requests : UserOf[q] = u /\ Brings(q) => Holds(u)
  BY DEF Holds, Brings, Passed, ToValidate

\* A request that gets on with x brings nothing that x has not.
LEMMA BringsOn ==
    ASSUME Typed, NEW r \in Requests, NEW s \in StepNames \ {"validate"}, At(r, s),
           NEW x, x.todo = req[r].todo, x.op = req[r].op, x \in Underway, GoOn(r, x)
    PROVE  /\ \A q \in Requests \ {r} : req'[q] = req[q]
           /\ Brings(r)' => x.brought.coupon \/ x.copy.coupon \/ Brings(r)
<1>1. /\ OnItsWay(r) /\ req[r] \in Underway /\ DOMAIN req = Requests /\ InProgress(r)
  BY RequestAt, OneOnItsWay
<1>2. /\ \A q \in Requests \ {r} : req'[q] = req[q]
      /\ req'[r] = IF Len(x.todo) = 1 THEN Ended ELSE [x EXCEPT !.todo = Tail(@)]
  BY <1>1 DEF GoOn
<1>3. CASE Len(x.todo) = 1
  BY <1>2, <1>3 DEF Brings, InProgress
<1>4. CASE Len(x.todo) # 1
  <2>1. req'[r].brought = x.brought /\ req'[r].copy = x.copy /\ req'[r].op = req[r].op
        /\ req'[r].todo = Tail(req[r].todo)
    BY <1>2, <1>4 DEF Underway
  <2>2. ToValidate(r) => ToValidate(r)'
    <3>1. req[r].todo \in Seq(StepNames) /\ req[r].todo # <<>> /\ req[r].todo[1] # "validate"
      BY <1>1 DEF Underway, At
    <3>2. ASSUME NEW i \in DOMAIN req[r].todo, req[r].todo[i] = "validate"
          PROVE  i - 1 \in DOMAIN Tail(req[r].todo) /\ Tail(req[r].todo)[i - 1] = "validate"
      <4> DEFINE t == req[r].todo
      <4>1. t \in Seq(StepNames) /\ i \in 1..Len(t) /\ i # 1 /\ t[i] = "validate" /\ t # <<>>
        BY <3>1, <3>2
      <4> HIDE DEF t
      <4>2. /\ Len(t) \in Nat /\ Tail(t) \in Seq(StepNames) /\ Len(Tail(t)) = Len(t) - 1
            /\ \A j \in 1..Len(t) - 1 : Tail(t)[j] = t[j + 1]
        BY <4>1
      <4>3. i - 1 \in 1..Len(t) - 1 /\ (i - 1) + 1 = i
        BY <4>1, <4>2
      <4>4. i - 1 \in DOMAIN Tail(t) /\ Tail(t)[i - 1] = "validate"
        BY <4>1, <4>2, <4>3
      <4> QED
        BY <4>4 DEF t
    <3> QED
      BY <2>1, <3>2 DEF ToValidate
  <2> QED
    BY <1>1, <1>2, <2>1, <2>2 DEF Brings, Passed
<1> QED
  BY <1>2, <1>3, <1>4

\* The step that puts a coupon into a cart comes after the validation.
LEMMA ValidatedBefore ==
    ASSUME Typed, NEW r \in Requests, NEW s \in {"keep", "set", "spread"}, At(r, s)
    PROVE  /\ req[r].op.kind \in {"guestApply", "apply", "checkoutWithCode"} => Brings(r)
           /\ s = "spread" => req[r].op.kind = "checkoutWithCode"
<1> DEFINE k == req[r].op.kind
           n == Len(req[r].todo)
           L == Len(Program[k])
<1>1. s \in StepNames /\ OnItsWay(r) /\ s = Head(req[r].todo)
  BY RequestAt DEF At, StepNames
<1>2. InProgress(r) /\ k \in DOMAIN Program /\ req[r].todo = Rest(k, n) /\ n \in 1..6 /\ n <= L
  BY <1>1, OneOnItsWay
<1>3. L \in 1..6
  BY <1>2, RestOf
<1>4. k = req[r].op.kind /\ n = Len(req[r].todo) /\ L = Len(Program[k])
  OBVIOUS
<1> HIDE DEF k, n, L
<1>5. n \in 1..L
  BY <1>2, <1>3
<1>6. /\ Rest(k, n) \in Seq(StepNames) /\ Len(Rest(k, n)) = n
      /\ \A i \in 1..n : Rest(k, n)[i] = Program[k][L - n + i]
  BY <1>2, <1>4, <1>5, RestOf
<1>7. s = Program[k][L - n + 1] /\ DOMAIN req[r].todo = 1..n /\ \A i \in 1..n : req[r].todo[i] = Program[k][L - n + i]
  BY <1>1, <1>2, <1>5, <1>6
<1>8. ASSUME k = "guestApply" PROVE ~ToValidate(r) /\ s # "spread"
  <2>1. Program[k] = <<"validate", "peek", "keep">> /\ L = 3
    BY <1>4, <1>8, Operations
  <2>2. n = 1 /\ s # "spread"
    BY <1>5, <1>7, <2>1
  <2> QED
    BY <1>7, <2>1, <2>2 DEF ToValidate
<1>9. ASSUME k = "apply" PROVE ~ToValidate(r) /\ s # "spread"
  <2>1. Program[k] = <<"find", "validate", "find", "set", "find">> /\ L = 5
    BY <1>4, <1>9, Operations
  <2>2. n = 2 /\ s # "spread"
    BY <1>5, <1>7, <2>1
  <2> QED
    BY <1>7, <2>1, <2>2 DEF ToValidate
<1>10. ASSUME k = "checkoutWithCode" PROVE ~ToValidate(r)
  <2>1. Program[k] = <<"validate", "spread", "open", "look", "place">> /\ L = 5
    BY <1>4, <1>10, Operations
  <2>2. n = 4
    BY <1>5, <1>7, <2>1
  <2> QED
    BY <1>7, <2>1, <2>2 DEF ToValidate
<1>11. s = "spread" => k = "checkoutWithCode"
  <2> SUFFICES ASSUME s = "spread", k # "checkoutWithCode" PROVE FALSE
    OBVIOUS
  <2>1. L - n + 1 \in 1..L
    BY <1>3, <1>5
  <2>2. k \in DOMAIN Program \ {"checkoutWithCode"}
    BY <1>2
  <2>3. \A i \in 1..L : Program[k][i] # "spread"
    <3>1. CASE k = "guestClear"
      <4>1. Program[k] = <<"empty">>
        BY <3>1, Operations
      <4>2. L = 1
        BY <4>1, <1>4
      <4> QED
        BY <4>1, <4>2
    <3>2. CASE k = "view"
      <4>1. Program[k] = <<"find">>
        BY <3>2, Operations
      <4>2. L = 1
        BY <4>1, <1>4
      <4> QED
        BY <4>1, <4>2
    <3>3. CASE k \in {"guestAdd", "guestUpdate", "guestRemove", "guestDrop"}
      <4>1. Program[k] = <<"peek", "keep">>
        BY <3>3, Operations
      <4>2. L = 2
        BY <4>1, <1>4
      <4> QED
        BY <4>1, <4>2
    <3>4. CASE k = "guestApply"
      <4>1. Program[k] = <<"validate", "peek", "keep">>
        BY <3>4, Operations
      <4>2. L = 3
        BY <4>1, <1>4
      <4> QED
        BY <4>1, <4>2
    <3>5. CASE k = "clear"
      <4>1. Program[k] = <<"find", "set">>
        BY <3>5, Operations
      <4>2. L = 2
        BY <4>1, <1>4
      <4> QED
        BY <4>1, <4>2
    <3>6. CASE k \in {"update", "remove", "drop"}
      <4>1. Program[k] = <<"find", "set", "find">>
        BY <3>6, Operations
      <4>2. L = 3
        BY <4>1, <1>4
      <4> QED
        BY <4>1, <4>2
    <3>7. CASE k = "add"
      <4>1. Program[k] = <<"find", "look", "put", "find">>
        BY <3>7, Operations
      <4>2. L = 4
        BY <4>1, <1>4
      <4> QED
        BY <4>1, <4>2
    <3>8. CASE k = "apply"
      <4>1. Program[k] = <<"find", "validate", "find", "set", "find">>
        BY <3>8, Operations
      <4>2. L = 5
        BY <4>1, <1>4
      <4> QED
        BY <4>1, <4>2
    <3>9. CASE k = "merge"
      <4>1. Program[k] = <<"peek", "find", "look", "merge", "delete", "find">>
        BY <3>9, Operations
      <4>2. L = 6
        BY <4>1, <1>4
      <4> QED
        BY <4>1, <4>2
    <3>10. CASE k = "checkout"
      <4>1. Program[k] = <<"open", "look", "place">>
        BY <3>10, Operations
      <4>2. L = 3
        BY <4>1, <1>4
      <4> QED
        BY <4>1, <4>2
    <3> QED
      BY <2>2, <3>1, <3>2, <3>3, <3>4, <3>5, <3>6, <3>7, <3>8, <3>9, <3>10, Operations
  <2> QED
    BY <1>7, <2>1, <2>3
<1> QED
  BY <1>2, <1>4, <1>8, <1>9, <1>10, <1>11 DEF Brings, Passed

\* Of the edits only those that apply a coupon put one in.
LEMMA EditAddsNoCoupon ==
    ASSUME NEW x \in Contents, NEW o \in Operation, o.kind \notin {"guestApply", "apply"},
           o.kind \in {"guestAdd", "guestUpdate", "guestRemove", "guestDrop", "clear", "update", "remove", "drop"},
           Edit(x, o).coupon
    PROVE  x.coupon
<1>1. CASE o.kind = "guestAdd"
  BY <1>1 DEF Edit, Contents
<1>2. CASE o.kind \in {"guestUpdate", "update"}
  BY <1>2 DEF Edit, Contents
<1>3. CASE o.kind \in {"guestRemove", "remove"}
  BY <1>3 DEF Edit, Contents
<1>4. CASE o.kind \in {"guestDrop", "drop"}
  <2>1. Edit(x, o).coupon = FALSE
    BY <1>4 DEF Edit, Contents
  <2> QED
    BY <2>1
<1>5. CASE o.kind = "clear"
  BY <1>5 DEF Edit, Contents
<1> QED
  BY <1>1, <1>2, <1>3, <1>4, <1>5

\* A request that stops brings nothing, and the others what they brought.
LEMMA StopBrings ==
    ASSUME Typed, NEW r \in Requests, Stop(r), UNCHANGED <<guest, carts>>
    PROVE  FromBefore(r)
<1>1. req'[r] = Ended /\ \A q \in Requests \ {r} : req'[q] = req[q]
  BY DEF Stop, Typed
<1>2. \A q \in Requests \ {r} : Brings(q)' => Brings(q)
  BY <1>1 DEF Brings, InProgress, Passed, ToValidate
<1>3. ~Brings(r)'
  BY <1>1 DEF Brings, InProgress
<1> QED
  BY <1>2, <1>3 DEF FromBefore

\* So it is with a request that gets on and whose guest cart and row have the coupon from before.
LEMMA GoBrings ==
    ASSUME Typed, NEW r \in Requests, NEW s \in StepNames \ {"validate"}, At(r, s),
           NEW x \in Underway, x.todo = req[r].todo, x.op = req[r].op, GoOn(r, x),
           x.brought.coupon => Holds(UserOf[r]), x.copy.coupon => Holds(UserOf[r]),
           \A u \in Users : guest'[u].coupon => guest[u].coupon \/ (u = UserOf[r] /\ Holds(u)),
           \A c \in DOMAIN carts' : carts'[c].contents.coupon =>
              \/ c \in DOMAIN carts /\ carts[c].user = carts'[c].user /\ carts[c].contents.coupon
              \/ carts'[c].user = UserOf[r] /\ Holds(UserOf[r])
    PROVE  FromBefore(r)
<1>1. /\ \A q \in Requests \ {r} : req'[q] = req[q]
      /\ Brings(r)' => x.brought.coupon \/ x.copy.coupon \/ Brings(r)
  BY BringsOn
<1>2. \A q \in Requests \ {r} : Brings(q)' => Brings(q)
  BY <1>1 DEF Brings, InProgress, Passed, ToValidate
<1> QED
  BY <1>1, <1>2 DEF FromBefore

\* A request on its way holds for its user what it has brought and read.
LEMMA HoldsItsOwn ==
    ASSUME Typed, NEW r \in Requests, NEW s \in StepNames, At(r, s)
    PROVE  /\ req[r].brought.coupon => Holds(UserOf[r])
           /\ req[r].copy.coupon => Holds(UserOf[r])
           /\ Brings(r) => Holds(UserOf[r])
  BY RequestAt, OneOnItsWay, Holding DEF Brings

\* A step of a request, when the coupon is used up or deactivated.
LEMMA StepSpreadsNot ==
    ASSUME Parameters, IInv, NEW r \in Requests, Step(r), coupon.uses >= MaxUses \/ ~coupon.active
    PROVE  FromBefore(r)
<1> DEFINE u == UserOf[r]
<1>1. Typed /\ DOMAIN req = Requests
  BY DEF IInv, Typed
<1>2. ASSUME NEW s \in StepNames, At(r, s)
      PROVE  /\ req[r] \in Underway /\ req[r].op \in Operation /\ req[r].todo # <<>>
             /\ req[r].brought \in Contents /\ req[r].copy \in Contents /\ u \in Users
             /\ req[r].brought.coupon => Holds(u)
             /\ req[r].copy.coupon => Holds(u)
             /\ s \in OnCart => req[r].mine \in DOMAIN carts /\ carts[req[r].mine].user = u
  <2>1. /\ OnItsWay(r) /\ req[r] \in Underway /\ (s \in OnCart => req[r].mine # 0)
        /\ req[r].mine # 0 => req[r].mine \in DOMAIN carts /\ carts[req[r].mine].user = u
    BY <1>1, <1>2, RequestAt
  <2>2. req[r].op \in Operation /\ req[r].brought \in Contents /\ req[r].copy \in Contents
    BY <2>1 DEF Underway
  <2>3. (req[r].brought.coupon => Holds(u)) /\ (req[r].copy.coupon => Holds(u))
    BY <1>1, <1>2, HoldsItsOwn
  <2>4. u \in Users /\ req[r].todo # <<>>
    BY <1>2 DEF Parameters, At
  <2> QED
    BY <2>1, <2>2, <2>3, <2>4
<1>3. \A c \in DOMAIN carts : carts[c] \in CartRow /\ carts[c].contents \in Contents
                              /\ (carts[c].user = u /\ carts[c].contents.coupon => Holds(u))
  BY <1>1, CartAt, Holding DEF CartRow
<1>4. ASSUME Active(u) # {}
      PROVE  /\ Newest(u) \in DOMAIN carts /\ Newest(u) \in Nat /\ carts[Newest(u)].contents \in Contents
             /\ carts[Newest(u)].contents.coupon => Holds(u)
  BY <1>1, <1>3, <1>4, NewestIsActive
<1>5. CASE Peek(r)
  <2>1. At(r, "peek") /\ "peek" \in StepNames \ {"validate"} /\ UNCHANGED <<guest, carts>>
    BY <1>5 DEF Peek, StepNames, shopVars
  <2>2. CASE req[r].op.kind = "merge" /\ guest[u].items = NoItems
    <3>1. req' = [req EXCEPT ![r].todo = <<"find">>]
      BY <1>5, <2>2 DEF Peek
    <3>2. /\ \A q \in Requests \ {r} : req'[q] = req[q]
          /\ req'[r].op = req[r].op /\ req'[r].brought = req[r].brought /\ req'[r].copy = req[r].copy
      BY <1>1, <1>2, <2>1, <3>1 DEF Underway
    <3>3. InProgress(r)
      BY <1>1, <2>1, RequestAt, OneOnItsWay
    <3>4. Brings(r)' => Brings(r)
      BY <2>2, <3>2, <3>3 DEF Brings, Passed
    <3>5. \A q \in Requests \ {r} : Brings(q)' => Brings(q)
      BY <3>2 DEF Brings, InProgress, Passed, ToValidate
    <3> QED
      BY <2>1, <3>4, <3>5 DEF FromBefore
  <2>3. CASE ~(req[r].op.kind = "merge" /\ guest[u].items = NoItems)
    <3> DEFINE x == [req[r] EXCEPT !.brought = guest[u]]
    <3>1. GoOn(r, x)
      BY <1>5, <2>3 DEF Peek
    <3>2. guest[u] \in Contents
      BY <1>1, <1>2, <2>1 DEF Typed
    <3>3. x \in Underway /\ x.todo = req[r].todo /\ x.op = req[r].op /\ x.brought = guest[u] /\ x.copy = req[r].copy
      BY <1>2, <2>1, <3>2 DEF Underway
    <3> HIDE DEF x
    <3>4. x.brought.coupon => Holds(u)
      BY <3>3, Holding
    <3> QED
      BY <1>1, <1>2, <2>1, <3>1, <3>3, <3>4, GoBrings
  <2> QED
    BY <2>2, <2>3
<1>6. CASE Keep(r)
  <2> DEFINE new == Edit(req[r].brought, req[r].op)
  <2>1. At(r, "keep") /\ "keep" \in StepNames \ {"validate"} /\ carts' = carts /\ guest' = [guest EXCEPT ![u] = new]
        /\ GoOn(r, req[r])
    BY <1>6 DEF Keep, StepNames
  <2>2. new.coupon => Holds(u)
    <3>1. req[r].op.kind \in {"guestAdd", "guestUpdate", "guestRemove", "guestApply", "guestDrop"}
      BY <1>1, <2>1, WhoseStep
    <3>2. CASE req[r].op.kind = "guestApply"
      <4>1. Brings(r)
        BY <1>1, <2>1, <3>2, ValidatedBefore
      <4> QED
        BY <4>1, Holding
    <3>3. CASE req[r].op.kind # "guestApply"
      BY <1>2, <2>1, <3>1, <3>3, EditAddsNoCoupon
    <3> QED
      BY <3>2, <3>3
  <2> HIDE DEF new
  <2>3. \A w \in Users : guest'[w].coupon => guest[w].coupon \/ (w = u /\ Holds(w))
    BY <1>1, <2>1, <2>2 DEF Typed
  <2> QED
    BY <1>1, <1>2, <2>1, <2>3, GoBrings
<1>7. CASE NotInGuestCart(r)
  BY <1>1, <1>7, StopBrings DEF NotInGuestCart, shopVars
<1>8. CASE Empty(r)
  <2>1. PICK s \in {"empty", "delete"} : At(r, s)
    BY <1>8 DEF Empty
  <2>2. s \in StepNames \ {"validate"} /\ carts' = carts /\ guest' = [guest EXCEPT ![u] = EmptyCart] /\ GoOn(r, req[r])
    BY <1>8 DEF Empty, StepNames
  <2>3. \A w \in Users : guest'[w].coupon => guest[w].coupon
    BY <1>1, <2>2 DEF Typed, EmptyCart
  <2> QED
    BY <1>1, <1>2, <2>1, <2>2, <2>3, GoBrings
<1>9. ASSUME Find(r) \/ Open(r) PROVE FromBefore(r)
  <2>1. PICK s \in {"find", "open"} : At(r, s)
    BY <1>9 DEF Find, Open
  <2>2. s \in StepNames \ {"validate"} /\ UNCHANGED <<guest, carts>>
    BY <1>9 DEF Find, Open, StepNames, shopVars
  <2>3. CASE Active(u) # {}
    <3> DEFINE x == [req[r] EXCEPT !.mine = Newest(u), !.copy = carts[Newest(u)].contents]
    <3>1. GoOn(r, x)
      BY <1>9, <2>3 DEF Find, Open
    <3>2. x \in Underway /\ x.todo = req[r].todo /\ x.op = req[r].op /\ x.brought = req[r].brought
          /\ x.copy = carts[Newest(u)].contents
      BY <1>2, <1>4, <2>1, <2>2, <2>3 DEF Underway
    <3> HIDE DEF x
    <3> QED
      BY <1>1, <1>2, <1>4, <2>1, <2>2, <2>3, <3>1, <3>2, GoBrings
  <2>4. CASE Active(u) = {} /\ Find(r)
    <3>1. req' = [req EXCEPT ![r].none = TRUE]
      BY <2>4 DEF Find
    <3>2. /\ \A q \in Requests \ {r} : req'[q] = req[q]
          /\ req'[r].op = req[r].op /\ req'[r].brought = req[r].brought /\ req'[r].copy = req[r].copy
          /\ req'[r].todo = req[r].todo
      BY <1>1, <1>2, <2>1, <2>2, <3>1 DEF Underway
    <3>3. InProgress(r)
      BY <1>1, <2>1, <2>2, RequestAt, OneOnItsWay
    <3>4. \A q \in Requests : Brings(q)' => Brings(q)
      BY <3>2, <3>3 DEF Brings, InProgress, Passed, ToValidate
    <3> QED
      BY <2>2, <3>4 DEF FromBefore
  <2>5. CASE Active(u) = {} /\ Open(r)
    BY <1>1, <2>2, <2>5, StopBrings DEF Open
  <2> QED
    BY <1>9, <2>3, <2>4, <2>5
<1>10. CASE Create(r)
  <2> DEFINE row == [user |-> u, status |-> "active", contents |-> EmptyCart, fired |-> 0]
             x == [req[r] EXCEPT !.mine = Len(carts'), !.none = FALSE, !.copy = EmptyCart]
  <2>1. At(r, "find") /\ "find" \in StepNames \ {"validate"} /\ guest' = guest /\ carts' = Append(carts, row) /\ GoOn(r, x)
    BY <1>10 DEF Create, StepNames
  <2>2. EmptyCart \in Contents /\ ~EmptyCart.coupon
    BY DEF EmptyCart, NoItems, Contents
  <2>3. /\ Len(carts') \in Nat
        /\ \A c \in DOMAIN carts' : (c \in DOMAIN carts /\ carts'[c] = carts[c]) \/ carts'[c] = row
    <3>1. carts \in Seq(CartRow)
      BY <1>1 DEF Typed
    <3> HIDE DEF row
    <3> QED
      BY <2>1, <3>1
  <2>4. x \in Underway /\ x.todo = req[r].todo /\ x.op = req[r].op /\ x.brought = req[r].brought /\ x.copy = EmptyCart
    BY <1>2, <2>1, <2>2, <2>3 DEF Underway
  <2>5. ~row.contents.coupon
    BY <2>2
  <2> HIDE DEF x, row
  <2> QED
    BY <1>1, <1>2, <2>1, <2>2, <2>3, <2>4, <2>5, GoBrings
<1>11. CASE Look(r)
  <2>1. At(r, "look") /\ "look" \in StepNames \ {"validate"} /\ "look" \in OnCart /\ UNCHANGED <<guest, carts>>
    BY <1>11 DEF Look, StepNames, shopVars, OnCart
  <2>2. CASE Stop(r)
    BY <1>1, <2>1, <2>2, StopBrings
  <2>3. CASE GoOn(r, [req[r] EXCEPT !.copy.items = carts[req[r].mine].contents.items])
    <3> DEFINE x == [req[r] EXCEPT !.copy.items = carts[req[r].mine].contents.items]
    <3>1. carts[req[r].mine].contents.items \in [Variants -> Nat]
      BY <1>2, <1>3, <2>1 DEF Contents
    <3>2. x.copy \in Contents /\ x.copy.coupon = req[r].copy.coupon
      BY <1>2, <2>1, <3>1 DEF Underway, Contents
    <3>3. x \in Underway /\ x.todo = req[r].todo /\ x.op = req[r].op /\ x.brought = req[r].brought
      BY <1>2, <2>1, <3>2 DEF Underway
    <3>4. GoOn(r, x)
      BY <2>3
    <3> HIDE DEF x
    <3> QED
      BY <1>1, <1>2, <2>1, <3>2, <3>3, <3>4, GoBrings
  <2> QED
    BY <1>11, <2>2, <2>3 DEF Look
<1>12. ASSUME NEW s \in StepNames \ {"validate"}, At(r, s), s \in OnCart, guest' = guest,
              NEW new, SetContents(req[r].mine, new), GoOn(r, req[r]),
              new.coupon => Holds(u)
       PROVE  FromBefore(r)
  <2>1. req[r].mine \in DOMAIN carts /\ carts[req[r].mine].user = u /\ carts[req[r].mine] \in CartRow
    BY <1>2, <1>3, <1>12
  <2>2. /\ DOMAIN carts' = DOMAIN carts
        /\ \A c \in DOMAIN carts \ {req[r].mine} : carts'[c] = carts[c]
        /\ carts'[req[r].mine].contents = new /\ carts'[req[r].mine].user = u
    <3>1. carts' = [carts EXCEPT ![req[r].mine] = [carts[req[r].mine] EXCEPT !.contents = new]]
      BY <1>12 DEF SetContents
    <3>2. carts \in [DOMAIN carts -> CartRow]
      BY <1>1 DEF Typed
    <3> QED
      BY <2>1, <3>1, <3>2 DEF CartRow
  <2>3. \A c \in DOMAIN carts' : carts'[c].contents.coupon =>
           \/ c \in DOMAIN carts /\ carts[c].user = carts'[c].user /\ carts[c].contents.coupon
           \/ carts'[c].user = u /\ Holds(u)
    BY <1>12, <2>2
  <2> QED
    BY <1>1, <1>2, <1>12, <2>3, GoBrings
<1>13. CASE Put(r)
  <2> DEFINE c == req[r].mine
             v == req[r].op.variant
  <2>1. At(r, "put") /\ "put" \in StepNames \ {"validate"} /\ "put" \in OnCart /\ guest' = guest
    BY <1>13 DEF Put, StepNames, OnCart
  <2>2. CASE Stop(r) /\ UNCHANGED carts
    BY <1>1, <2>1, <2>2, StopBrings
  <2>3. CASE ~(Stop(r) /\ UNCHANGED carts)
    <3>1. PICK n : SetContents(c, [carts[c].contents EXCEPT !.items[v] = n]) /\ GoOn(r, req[r])
      BY <1>13, <2>3 DEF Put
    <3> DEFINE new == [carts[c].contents EXCEPT !.items[v] = n]
    <3>2. new.coupon = carts[c].contents.coupon
      BY <1>2, <1>3, <2>1 DEF Contents
    <3>3. SetContents(c, new) /\ (new.coupon => Holds(u))
      BY <1>2, <1>3, <2>1, <3>1, <3>2
    <3> HIDE DEF new
    <3> QED
      BY <1>12, <2>1, <3>1, <3>3
  <2> QED
    BY <2>2, <2>3
<1>14. CASE Set(r)
  <2> DEFINE c == req[r].mine
             new == Edit(carts[c].contents, req[r].op)
  <2>1. At(r, "set") /\ "set" \in StepNames \ {"validate"} /\ "set" \in OnCart /\ guest' = guest
    BY <1>14 DEF Set, StepNames, OnCart
  <2>2. CASE Stop(r) /\ UNCHANGED carts
    BY <1>1, <2>1, <2>2, StopBrings
  <2>3. CASE SetContents(c, new) /\ GoOn(r, req[r])
    <3>1. req[r].op.kind \in {"clear", "update", "remove", "apply", "drop"}
      BY <1>1, <2>1, WhoseStep
    <3>2. new.coupon => Holds(u)
      <4>1. CASE req[r].op.kind = "apply"
        <5>1. Brings(r)
          BY <1>1, <2>1, <4>1, ValidatedBefore
        <5> QED
          BY <5>1, Holding
      <4>2. CASE req[r].op.kind # "apply"
        <5>1. carts[c].contents \in Contents /\ (carts[c].contents.coupon => Holds(u))
          BY <1>2, <1>3, <2>1
        <5> QED
          BY <1>2, <2>1, <3>1, <4>2, <5>1, EditAddsNoCoupon
      <4> QED
        BY <4>1, <4>2
    <3> HIDE DEF new
    <3> QED
      BY <1>12, <2>1, <2>3, <3>2
  <2> QED
    BY <1>14, <2>2, <2>3 DEF Set
<1>15. CASE Merge(r)
  <2> DEFINE c == req[r].mine
  <2>1. At(r, "merge") /\ "merge" \in StepNames \ {"validate"} /\ "merge" \in OnCart /\ guest' = guest
    BY <1>15 DEF Merge, StepNames, OnCart
  <2>2. CASE Stop(r) /\ UNCHANGED carts
    BY <1>1, <2>1, <2>2, StopBrings
  <2>3. CASE ~(Stop(r) /\ UNCHANGED carts)
    <3>1. PICK held : SetContents(c, [items |-> held, coupon |-> carts[c].contents.coupon
                                         \/ (req[r].brought.coupon /\ ~req[r].copy.coupon)]) /\ GoOn(r, req[r])
      BY <1>15, <2>3 DEF Merge
    <3> DEFINE new == [items |-> held, coupon |-> carts[c].contents.coupon
                                                   \/ (req[r].brought.coupon /\ ~req[r].copy.coupon)]
    <3>2. SetContents(c, new) /\ (new.coupon => Holds(u))
      BY <1>2, <1>3, <2>1, <3>1
    <3> HIDE DEF new
    <3> QED
      BY <1>12, <2>1, <3>1, <3>2
  <2> QED
    BY <2>2, <2>3
<1>16. CASE Validate(r)
  <2>1. ~Accepts(r)
    BY <1>1 DEF Accepts, Typed, Parameters
  <2> QED
    BY <1>1, <1>16, <2>1, StopBrings DEF Validate, shopVars
<1>17. CASE Spread(r)
  <2>1. At(r, "spread") /\ "spread" \in StepNames \ {"validate"} /\ guest' = guest /\ GoOn(r, req[r])
        /\ carts' = [c \in DOMAIN carts |-> IF c \in Active(u) THEN [carts[c] EXCEPT !.contents.coupon = TRUE] ELSE carts[c]]
    BY <1>17 DEF Spread, StepNames
  <2>2. Holds(u)
    BY <1>1, <2>1, ValidatedBefore, Holding
  <2>3. \A c \in DOMAIN carts' : /\ c \in DOMAIN carts
                                 /\ c \in Active(u) => carts'[c].user = u
                                 /\ c \notin Active(u) => carts'[c] = carts[c]
    <3>1. \A c \in Active(u) : c \in DOMAIN carts /\ carts[c] \in CartRow /\ carts[c].user = u
      BY <1>3 DEF Active
    <3> QED
      BY <2>1, <3>1 DEF CartRow
  <2> QED
    BY <1>1, <1>2, <2>1, <2>2, <2>3, GoBrings
<1>18. CASE Place(r)
  <2>1. At(r, "place") /\ "place" \in StepNames \ {"validate"} /\ "place" \in OnCart /\ guest' = guest /\ GoOn(r, req[r])
        /\ carts' = [carts EXCEPT ![req[r].mine].status = "converted"]
    BY <1>18 DEF Place, StepNames, OnCart
  <2>2. \A c \in DOMAIN carts' : /\ c \in DOMAIN carts
                                 /\ carts'[c].user = carts[c].user /\ carts'[c].contents = carts[c].contents
    BY <1>3, <2>1 DEF CartRow
  <2> QED
    BY <1>1, <1>2, <2>1, <2>2, GoBrings
<1> QED
  BY <1>5, <1>6, <1>7, <1>8, <1>9, <1>10, <1>11, <1>13, <1>14, <1>15, <1>16, <1>17, <1>18 DEF Step

\* A request that comes in has the validation before it.
LEMMA BeginSpreadsNot ==
    ASSUME Typed, NEW r \in Requests, NEW o \in Operation, Begin(r, o)
    PROVE  FromBefore(r)
<1>1. /\ UNCHANGED <<guest, carts>> /\ \A q \in Requests \ {r} : req'[q] = req[q]
      /\ req'[r] = [todo |-> Program[o.kind], op |-> o, mine |-> 0, none |-> FALSE,
                    copy |-> EmptyCart, brought |-> EmptyCart]
  BY DEF Begin, Typed, shopVars
<1>2. req'[r].op.kind = o.kind /\ req'[r].todo = Program[o.kind]
      /\ ~req'[r].brought.coupon /\ ~req'[r].copy.coupon
  BY <1>1 DEF EmptyCart
<1>3. o.kind \in {"guestApply", "apply", "checkoutWithCode"} => \E i \in DOMAIN Program[o.kind] : Program[o.kind][i] = "validate"
  <2>1. o.kind \in {"guestApply", "checkoutWithCode"} => 1 \in DOMAIN Program[o.kind] /\ Program[o.kind][1] = "validate"
    BY Operations
  <2>2. o.kind = "apply" => 2 \in DOMAIN Program[o.kind] /\ Program[o.kind][2] = "validate"
    BY Operations
  <2> QED
    BY <2>1, <2>2
<1>4. ~Brings(r)'
  BY <1>2, <1>3 DEF Brings, Passed, ToValidate
<1>5. \A q \in Requests \ {r} : Brings(q)' => Brings(q)
  BY <1>1 DEF Brings, InProgress, Passed, ToValidate
<1> QED
  BY <1>1, <1>4, <1>5 DEF FromBefore

\* Sweeps and staff put no coupon anywhere.
LEMMA OthersSpreadNot ==
    ASSUME Typed, UNCHANGED <<guest, req>>,
           \A c \in DOMAIN carts' : c \in DOMAIN carts /\ carts'[c].user = carts[c].user /\ carts'[c].contents = carts[c].contents,
           NEW u \in Users, Holds(u)'
    PROVE  Holds(u)
  BY DEF Holds, InProgress

\* Once the coupon is used up or deactivated it reaches nobody who has not got hold of it, however
\* requests overlap and whatever they have read before.
THEOREM NoFurtherOnceUsedUp == Spec => UsedUpSpreadsNoFurther
<1>1. IInv /\ [Next]_vars => [SpreadsNoFurther]_vars
  <2> SUFFICES ASSUME IInv, Next, coupon.uses >= MaxUses \/ ~coupon.active, NEW u \in Users, Holds(u)'
               PROVE  Holds(u)
    BY DEF SpreadsNoFurther
  <2>1. Typed
    BY DEF IInv
  <2>2. ASSUME NEW r \in Requests, Step(r) PROVE Holds(u)
    BY <2>2, CartsAreFinite, StepSpreadsNot, HoldsFromBefore
  <2>3. ASSUME NEW r \in Requests, Fail(r) PROVE Holds(u)
    BY <2>1, <2>3, StopBrings, HoldsFromBefore DEF Fail, shopVars
  <2>4. ASSUME NEW r \in Requests, NEW o \in Operation, Begin(r, o) PROVE Holds(u)
    BY <2>1, <2>4, BeginSpreadsNot, HoldsFromBefore
  <2>5. ASSUME NEW w \in Sweepers, Select(w) PROVE Holds(u)
    BY <2>1, <2>5, OthersSpreadNot DEF Select, shopVars
  <2>6. ASSUME NEW w \in Sweepers, MarkAbandoned(w) PROVE Holds(u)
    <3>1. PICK c \in picked[w] : carts' = [carts EXCEPT ![c].status = "abandoned", ![c].fired = @ + 1]
      BY <2>6 DEF MarkAbandoned
    <3>2. \A d \in DOMAIN carts : carts[d] \in CartRow
      BY <2>1, CartAt
    <3>3. \A d \in DOMAIN carts' : d \in DOMAIN carts /\ carts'[d].user = carts[d].user /\ carts'[d].contents = carts[d].contents
      BY <3>1, <3>2 DEF CartRow
    <3> QED
      BY <2>1, <2>6, <3>3, OthersSpreadNot DEF MarkAbandoned
  <2>7. CASE Deactivate
    BY <2>1, <2>7, OthersSpreadNot DEF Deactivate
  <2> QED
    BY <2>2, <2>3, <2>4, <2>5, <2>6, <2>7 DEF Next
<1> QED
  BY <1>1, Invariance, PTL DEF Spec, UsedUpSpreadsNoFurther

-----------------------------------------------------------------------------
(* Checkout Sessions. The carts here are those of CheckoutSessions, whose inductive invariant  *)
(* follows a session that nobody has disturbed through the steps of its handler, and sets a    *)
(* cart's orders, made and about to be made, against what has gone wrong.                      *)

\* What the first step of a handler tells of the rest.
LEMMA TodosTell ==
    /\ ToLook # <<>> /\ Head(ToLook) = "look" /\ Tail(ToLook) = ToOrder
    /\ ToOrder # <<>> /\ Head(ToOrder) = "order" /\ Tail(ToOrder) = ToConvert
    /\ ToConvert # <<>> /\ Head(ToConvert) = "convert" /\ Tail(ToConvert) = <<>>
    /\ ToLook # ToOrder /\ ToLook # ToConvert /\ ToOrder # ToConvert
  BY DEF ToLook, ToOrder, ToConvert

\* The elements of a sequence are where they should be.
LEMMA ElementsOf ==
    ASSUME NEW R, NEW q \in Seq(R)
    PROVE  Len(q) \in Nat /\ DOMAIN q = 1..Len(q) /\ \A i \in DOMAIN q : q[i] \in R
  OBVIOUS

\* A session, and how far its handler has come.
LEMMA SessionAt ==
    ASSUME SessionsTyped, NEW s \in DOMAIN sessions
    PROVE  /\ sessions[s] \in SessionRecord /\ s \in Nat
           /\ Stands(s, "look") <=> sessions[s].todo = ToLook
           /\ Stands(s, "order") <=> sessions[s].todo = ToOrder
           /\ Stands(s, "convert") <=> sessions[s].todo = ToConvert
           /\ Stands(s, "look") => Tail(sessions[s].todo) = ToOrder
           /\ Stands(s, "order") => Tail(sessions[s].todo) = ToConvert
           /\ Stands(s, "convert") => Tail(sessions[s].todo) = <<>>
<1>1. sessions[s] \in SessionRecord /\ s \in Nat
  BY ElementsOf DEF SessionsTyped
<1>2. sessions[s].todo \in SessionTodos
  BY <1>1 DEF SessionRecord
<1> QED
  BY <1>1, <1>2, TodosTell DEF SessionTodos, Stands

\* One session changes.
LEMMA OneSession ==
    ASSUME SessionsTyped, NEW s \in DOMAIN sessions, NEW x \in SessionRecord, sessions' = [sessions EXCEPT ![s] = x]
    PROVE  /\ sessions' \in Seq(SessionRecord) /\ DOMAIN sessions' = DOMAIN sessions
           /\ sessions'[s] = x /\ \A q \in DOMAIN sessions : q # s => sessions'[q] = sessions[q]
<1>1. sessions \in Seq(SessionRecord)
  BY DEF SessionsTyped
<1> QED
  BY <1>1

\* The others are as sound as they were.
LEMMA OthersSound ==
    ASSUME SessionsTyped, NEW s \in DOMAIN sessions, items' = items, Sound(s)',
           \A q \in DOMAIN sessions : q # s => sessions'[q] = sessions[q]
    PROVE  \A q \in DOMAIN sessions : Sound(q)'
<1>1. \A q \in DOMAIN sessions : q # s => Sound(q)'
  BY DEF SessionsTyped, Sound
<1> QED
  BY <1>1

\* It goes on to the step given.
LEMMA GoesOn ==
    ASSUME SessionsTyped, NEW s \in DOMAIN sessions, NEW t \in SessionTodos, sessions' = [sessions EXCEPT ![s].todo = t]
    PROVE  /\ sessions' \in Seq(SessionRecord) /\ DOMAIN sessions' = DOMAIN sessions
           /\ sessions'[s].todo = t /\ sessions'[s].cart = sessions[s].cart
           /\ sessions'[s].items = sessions[s].items /\ sessions'[s].paid = sessions[s].paid
           /\ sessions'[s].found = sessions[s].found /\ sessions'[s].read = sessions[s].read
           /\ \A q \in DOMAIN sessions : q # s => sessions'[q] = sessions[q]
<1> DEFINE x == [sessions[s] EXCEPT !.todo = t]
<1>1. sessions[s] \in SessionRecord
  BY SessionAt
<1>2. /\ x \in SessionRecord /\ x.todo = t /\ x.cart = sessions[s].cart /\ x.items = sessions[s].items
      /\ x.paid = sessions[s].paid /\ x.found = sessions[s].found /\ x.read = sessions[s].read
  BY <1>1 DEF SessionRecord
<1>3. sessions' = [sessions EXCEPT ![s] = x]
  OBVIOUS
<1> HIDE DEF x
<1> QED
  BY <1>2, <1>3, OneSession

\* Orders are counted.
LEMMA CountsAreNats ==
    ASSUME SessionsTyped, NEW c
    PROVE  /\ IsFiniteSet(FromCart(c)) /\ Cardinality(FromCart(c)) \in Nat
           /\ IsFiniteSet(Ordering(c)) /\ Cardinality(Ordering(c)) \in Nat
<1>1. DOMAIN made = 1..Len(made) /\ Len(made) \in Nat /\ DOMAIN sessions = 1..Len(sessions) /\ Len(sessions) \in Nat
  BY ElementsOf DEF SessionsTyped
<1>2. IsFiniteSet(1..Len(made)) /\ IsFiniteSet(1..Len(sessions))
  BY <1>1, FS_Interval
<1>3. FromCart(c) \subseteq 1..Len(made) /\ Ordering(c) \subseteq 1..Len(sessions)
  BY <1>1 DEF FromCart, Ordering
<1> QED
  BY <1>2, <1>3, FS_Subset, FS_CardinalityType

\* One fewer.
LEMMA OneLess ==
    ASSUME NEW S, IsFiniteSet(S), NEW x \in S, NEW T, T \subseteq S \ {x}
    PROVE  Cardinality(T) \in Nat /\ Cardinality(T) + 1 <= Cardinality(S)
<1>1. IsFiniteSet(S \ {x}) /\ Cardinality(S \ {x}) = Cardinality(S) - 1 /\ Cardinality(S) \in Nat
  BY FS_RemoveElement, FS_CardinalityType
<1>2. Cardinality(T) \in Nat /\ Cardinality(T) <= Cardinality(S \ {x})
  BY <1>1, FS_Subset, FS_CardinalityType
<1> QED
  BY <1>1, <1>2

\* A sum grows with what is added to.
LEMMA NoLess ==
    ASSUME NEW a \in Nat, NEW b \in Nat, a <= b, NEW d \in Nat
    PROVE  a + d <= b + d
  OBVIOUS

\* No new order, nobody new about to order, and no new leisure but at the cost of a fault.
LEMMA StillCovered ==
    ASSUME SessionsTyped, NEW c, Covered(c), FromCart(c)' = FromCart(c), Ordering(c)' \subseteq Ordering(c),
           collisions' \in Nat, mishaps' \in Nat, collisions + mishaps <= collisions' + mishaps',
           c = active' /\ ~Busy(c)' => (c = active /\ ~Busy(c)) \/ collisions + mishaps + 1 <= collisions' + mishaps'
    PROVE  Covered(c)'
<1> DEFINE m == Cardinality(FromCart(c))
           n == Cardinality(Ordering(c))
           k == Cardinality(Ordering(c)')
           spare == IF c = active /\ ~Busy(c) THEN 0 ELSE 1
           spared == IF c = active' /\ ~Busy(c)' THEN 0 ELSE 1
<1>1. m \in Nat /\ n \in Nat /\ k \in Nat /\ k <= n /\ collisions \in Nat /\ mishaps \in Nat
  BY CountsAreNats, FS_Subset, FS_CardinalityType DEF SessionsTyped
<1>2. m + n <= collisions + mishaps + spare
  BY DEF Covered
<1>3. spare \in {0, 1} /\ spared \in {0, 1} /\ (spared >= spare \/ collisions + mishaps + 1 <= collisions' + mishaps')
  OBVIOUS
<1>4. Covered(c)' <=> m + k <= collisions' + mishaps' + spared
  BY DEF Covered
<1> HIDE DEF m, n, k, spare, spared
<1>5. ASSUME NEW a \in Nat, NEW b \in Nat, NEW d \in Nat, NEW e \in Nat, a <= b,
             d \in {0, 1}, e \in {0, 1}, e >= d \/ a + 1 <= b, m + n <= a + d
      PROVE  m + k <= b + e
  BY <1>1, <1>5
<1>6. collisions + mishaps \in Nat /\ collisions' + mishaps' \in Nat
  <2>1. \A a, b \in Nat : a + b \in Nat
    OBVIOUS
  <2> QED
    BY <1>1, <2>1
<1> QED
  BY <1>2, <1>3, <1>4, <1>5, <1>6

\* A session that a step does not touch is left alone, if the step leaves its cart alone.
LEMMA AloneStays ==
    ASSUME NEW s, LeftAlone(s), sessions'[s] = sessions[s], OrdersOf(s)' = OrdersOf(s),
           \A o \in OrdersOf(s) : o \in DOMAIN made' /\ made'[o] = made[o],
           Awaiting(s) => active' = active /\ items'[active] = items[active] /\ Taking(active)' \subseteq Taking(active)
    PROVE  LeftAlone(s)'
<1>1. Awaiting(s)' <=> Awaiting(s)
  BY DEF Awaiting
<1>2. Ordered(s) => Ordered(s)'
  BY DEF Ordered, OrdersOf
<1> QED
  BY <1>1, <1>2 DEF LeftAlone

\* The user changes or gives away the active cart: its sessions are no longer left alone.
LEMMA CartTouched ==
    ASSUME SessionsInv, UNCHANGED <<sessions, made, mishaps, collisions>>, disturbed' = disturbed \cup Of(active),
           items' \in Seq(SUBSET (Plans \cup Goods)), Len(items') = Len(items), active' \in {active, 0}, active # 0
    PROVE  SessionsInv'
<1>1. SessionsTyped'
  BY DEF SessionsInv, SessionsTyped, Sound
<1>2. AloneIsOrdered'
  <2> SUFFICES ASSUME mishaps = 0, NEW s \in DOMAIN sessions, s \notin disturbed' PROVE LeftAlone(s)'
    BY DEF AloneIsOrdered
  <2>1. LeftAlone(s)
    BY DEF SessionsInv, AloneIsOrdered
  <2>2. ~Awaiting(s)
    BY <2>1 DEF LeftAlone, Of
  <2>3. OrdersOf(s)' = OrdersOf(s)
    BY DEF OrdersOf
  <2> QED
    BY <2>1, <2>2, <2>3, AloneStays DEF OrdersOf
<1>3. CartsCounted'
  <2> SUFFICES ASSUME NEW c \in DOMAIN items' PROVE Covered(c)'
    BY DEF CartsCounted
  <2>1. c \in DOMAIN items /\ c # 0
    BY ElementsOf DEF SessionsInv, SessionsTyped
  <2>2. Covered(c)
    BY <2>1 DEF SessionsInv, CartsCounted
  <2>3. FromCart(c)' = FromCart(c) /\ Ordering(c)' = Ordering(c) /\ Busy(c)' = Busy(c)
    BY DEF FromCart, Ordering, Busy
  <2> QED
    BY <2>1, <2>2, <2>3, StillCovered DEF SessionsInv, SessionsTyped
<1> QED
  BY <1>1, <1>2, <1>3 DEF SessionsInv

\* The user makes a cart.
LEMMA CartMade ==
    ASSUME SessionsInv, NEW p \in Plans \cup Goods, active = 0, items' = Append(items, {p}), active' = Len(items'),
           UNCHANGED <<sessions, made, mishaps, collisions, disturbed>>
    PROVE  SessionsInv'
<1>0. /\ items \in Seq(SUBSET (Plans \cup Goods)) /\ Len(items) \in Nat /\ DOMAIN items = 1..Len(items)
      /\ items' \in Seq(SUBSET (Plans \cup Goods)) /\ Len(items') = Len(items) + 1 /\ DOMAIN items' = 1..Len(items) + 1
  <2>1. items \in Seq(SUBSET (Plans \cup Goods)) /\ {p} \in SUBSET (Plans \cup Goods)
    BY DEF SessionsInv, SessionsTyped
  <2> QED
    BY <2>1
<1>1. SessionsTyped'
  BY <1>0 DEF SessionsInv, SessionsTyped, Sound
<1>2. AloneIsOrdered'
  <2> SUFFICES ASSUME mishaps = 0, NEW s \in DOMAIN sessions, s \notin disturbed PROVE LeftAlone(s)'
    BY DEF AloneIsOrdered
  <2>1. LeftAlone(s)
    BY DEF SessionsInv, AloneIsOrdered
  <2>2. ~Awaiting(s)
    BY <1>0, <2>1 DEF LeftAlone, SessionsInv, SessionsTyped, Sound
  <2>3. OrdersOf(s)' = OrdersOf(s)
    BY DEF OrdersOf
  <2> QED
    BY <2>1, <2>2, <2>3, AloneStays DEF OrdersOf
<1>3. CartsCounted'
  <2> SUFFICES ASSUME NEW c \in 1..Len(items) + 1 PROVE Covered(c)'
    BY <1>0 DEF CartsCounted
  <2>1. FromCart(c)' = FromCart(c) /\ Ordering(c)' = Ordering(c)
    BY DEF FromCart, Ordering
  <2>2. CASE c \in DOMAIN items
    <3>1. Covered(c) /\ c # active'
      BY <1>0, <2>2 DEF SessionsInv, CartsCounted
    <3> QED
      BY <2>1, <3>1, StillCovered DEF SessionsInv, SessionsTyped
  <2>3. CASE c = Len(items) + 1
    <3>1. FromCart(c) = {} /\ Ordering(c) = {}
      BY <1>0, <2>3 DEF SessionsInv, SessionsTyped, Sound, FromCart, Ordering
    <3>2. Cardinality(FromCart(c)') = 0 /\ Cardinality(Ordering(c)') = 0
      BY <2>1, <3>1, FS_EmptySet
    <3>3. collisions' \in Nat /\ mishaps' \in Nat
      BY DEF SessionsInv, SessionsTyped
    <3> QED
      BY <3>2, <3>3 DEF Covered
  <2> QED
    BY <1>0, <2>2, <2>3
<1> QED
  BY <1>1, <1>2, <1>3 DEF SessionsInv

\* Another session: left alone if there is none of its cart and nobody is at work on that.
LEMMA OpenKeeps ==
    ASSUME SessionsInv, OpenSession
    PROVE  SessionsInv'
<1> DEFINE x == [cart |-> active, items |-> items[active], paid |-> FALSE, todo |-> <<>>, found |-> 0, read |-> {}]
<1>n. PICK n : n = Len(sessions) + 1
  OBVIOUS
<1>0. active \in DOMAIN items /\ active \in 1..Len(items) /\ items[active] \in SUBSET (Plans \cup Goods)
  BY ElementsOf DEF OpenSession, SessionsInv, SessionsTyped
<1>1. x \in SessionRecord
  BY <1>0 DEF SessionRecord, SessionTodos
<1>2. /\ sessions' \in Seq(SessionRecord) /\ n \notin DOMAIN sessions /\ DOMAIN sessions' = DOMAIN sessions \cup {n}
      /\ sessions'[n] = x /\ \A s \in DOMAIN sessions : sessions'[s] = sessions[s]
      /\ Len(sessions') = n
  <2>1. sessions \in Seq(SessionRecord) /\ sessions' = Append(sessions, x)
    BY DEF OpenSession, SessionsInv, SessionsTyped
  <2> HIDE DEF x
  <2> QED
    BY <1>1, <1>n, <2>1
<1>3. UNCHANGED <<active, items, made, mishaps, collisions>>
  BY DEF OpenSession
<1>4. SessionsTyped'
  <2>1. \A s \in DOMAIN sessions : Sound(s)'
    BY <1>2, <1>3 DEF SessionsInv, SessionsTyped, Sound
  <2>2. Sound(n)'
    BY <1>0, <1>2, <1>3 DEF Sound, ToLook, ToOrder, ToConvert
  <2>3. \A s \in DOMAIN sessions' : Sound(s)'
    BY <1>2, <2>1, <2>2
  <2>4. \A o \in DOMAIN made : made[o].session \in DOMAIN sessions'
    BY <1>2 DEF SessionsInv, SessionsTyped
  <2> QED
    BY <1>2, <1>3, <2>3, <2>4 DEF SessionsInv, SessionsTyped
<1>5. \A c : c # 0 =>
        /\ Taking(c)' = Taking(c)
        /\ Ordering(c)' = Ordering(c)
        /\ (Busy(c)' <=> Busy(c))
        /\ FromCart(c)' = FromCart(c)
  BY <1>2, <1>3
    DEF Taking, Ordering, Busy, FromCart, ToOrder,
        ToConvert
<1>6. AloneIsOrdered'
  <2> SUFFICES ASSUME mishaps = 0, NEW s \in DOMAIN sessions', s \notin disturbed' PROVE LeftAlone(s)'
    BY <1>3 DEF AloneIsOrdered
  <2>1. CASE s \in DOMAIN sessions
    <3>1. s \notin disturbed
      BY DEF OpenSession
    <3>2. LeftAlone(s)
      BY <2>1, <3>1 DEF SessionsInv, AloneIsOrdered
    <3>3. OrdersOf(s)' = OrdersOf(s) /\ sessions'[s] = sessions[s]
      BY <1>2, <1>3, <2>1 DEF OrdersOf
    <3>4. Taking(active)' \subseteq Taking(active)
      BY <1>2, <1>3 DEF Taking
    <3> QED
      BY <1>3, <3>2, <3>3, <3>4, AloneStays DEF OrdersOf
  <2>2. CASE s = n
    <3>1. Of(active) = {} /\ Taking(active) = {}
      BY <1>2, <2>2 DEF OpenSession
    <3>2. OrdersOf(n)' = {}
      BY <1>2, <1>3 DEF SessionsInv, SessionsTyped, OrdersOf
    <3>3. Taking(active)' = {}
      BY <1>2, <1>3, <3>1 DEF Taking
    <3>4. Awaiting(n)' /\ sessions'[n].todo # ToOrder
      BY <1>2 DEF Awaiting, ToOrder
    <3>5. active' = sessions'[n].cart /\ items'[active'] = sessions'[n].items
      BY <1>2, <1>3
    <3> QED
      BY <2>2, <3>2, <3>3, <3>4, <3>5 DEF LeftAlone
  <2> QED
    BY <1>2, <2>1, <2>2
<1>7. CartsCounted'
  <2> SUFFICES ASSUME NEW c \in DOMAIN items PROVE Covered(c)'
    BY <1>3 DEF CartsCounted
  <2>1. Covered(c) /\ c # 0
    BY ElementsOf DEF SessionsInv, SessionsTyped, CartsCounted
  <2> QED
    BY <1>3, <1>5, <2>1, StillCovered DEF SessionsInv, SessionsTyped
<1> QED
  BY <1>4, <1>6, <1>7 DEF SessionsInv

\* A step of one session's handler, or its payment: the other sessions are left as they are.
LEMMA OthersStay ==
    ASSUME SessionsInv, NEW q \in DOMAIN sessions, DOMAIN sessions' = DOMAIN sessions, items' = items,
           \A s \in DOMAIN sessions : s # q => sessions'[s] = sessions[s],
           disturbed \subseteq disturbed', mishaps' = 0 => mishaps = 0,
           \A s \in DOMAIN sessions : s # q =>
               /\ OrdersOf(s)' = OrdersOf(s)
               /\ \A o \in OrdersOf(s) : o \in DOMAIN made' /\ made'[o] = made[o],
           \A s \in DOMAIN sessions \ disturbed' :
               s # q /\ LeftAlone(s) /\ Awaiting(s) => active' = active /\ Taking(active)' \subseteq Taking(active),
           mishaps' = 0 /\ q \notin disturbed' => LeftAlone(q)'
    PROVE  AloneIsOrdered'
<1> SUFFICES ASSUME mishaps' = 0, NEW s \in DOMAIN sessions, s \notin disturbed', s # q PROVE LeftAlone(s)'
  BY DEF AloneIsOrdered
<1>1. LeftAlone(s)
  BY DEF SessionsInv, AloneIsOrdered
<1> QED
  BY <1>1, AloneStays

\* Stripe has the money: the handler has yet to look.
LEMMA PayKeeps ==
    ASSUME SessionsInv, NEW s \in DOMAIN sessions, PaySession(s)
    PROVE  SessionsInv'
<1> DEFINE x == [sessions[s] EXCEPT !.paid = TRUE, !.todo = ToLook]
<1>0. SessionsTyped
  BY DEF SessionsInv
<1>1. /\ x \in SessionRecord /\ x.todo = ToLook /\ x.paid /\ x.cart = sessions[s].cart /\ x.items = sessions[s].items
      /\ x.found = sessions[s].found /\ x.read = sessions[s].read
  BY <1>0, SessionAt DEF SessionRecord, SessionTodos
<1>2. sessions' = [sessions EXCEPT ![s] = x]
  BY DEF PaySession, ToLook
<1>3. UNCHANGED <<active, items, made, mishaps, disturbed, collisions>> /\ ~sessions[s].paid
  BY DEF PaySession
<1> HIDE DEF x
<1>4. /\ sessions' \in Seq(SessionRecord) /\ DOMAIN sessions' = DOMAIN sessions
      /\ sessions'[s] = x /\ \A q \in DOMAIN sessions : q # s => sessions'[q] = sessions[q]
  BY <1>0, <1>1, <1>2, OneSession
<1>5. Sound(s) /\ sessions[s].todo = <<>> /\ sessions[s].found = 0
  BY <1>0, <1>3 DEF SessionsTyped, Sound
<1>6. SessionsTyped'
  <2>1. Sound(s)'
    BY <1>1, <1>3, <1>4, <1>5, TodosTell DEF Sound
  <2>2. \A q \in DOMAIN sessions : Sound(q)'
    BY <1>0, <1>3, <1>4, <2>1, OthersSound
  <2> QED
    BY <1>0, <1>3, <1>4, <2>2 DEF SessionsTyped
<1>7. \A c : c # 0 =>
        /\ Taking(c)' = Taking(c)
        /\ Ordering(c)' = Ordering(c)
        /\ (Busy(c)' <=> Busy(c))
        /\ FromCart(c)' = FromCart(c)
  <2> SUFFICES ASSUME NEW c, c # 0
               PROVE  /\ Taking(c)' = Taking(c) /\ Ordering(c)' = Ordering(c)
                      /\ (Busy(c)' <=> Busy(c)) /\ FromCart(c)' = FromCart(c)
    OBVIOUS
  <2>1. sessions[s].found # c /\ sessions'[s].found # c
    BY <1>1, <1>4, <1>5
  <2>2. Taking(c)' = Taking(c)
    BY <1>4, <2>1 DEF Taking
  <2>3. Ordering(c)' = Ordering(c)
    BY <1>4, <2>1 DEF Ordering
  <2>4. Busy(c)' <=> Busy(c)
    BY <1>4, <2>1 DEF Busy
  <2> QED
    BY <1>3, <2>2, <2>3, <2>4 DEF FromCart
<1>8. active # 0 => Taking(active)' \subseteq Taking(active)
  BY <1>1, <1>3, <1>4, <1>5 DEF Taking
<1>9. \A q \in DOMAIN sessions : LeftAlone(q) /\ Awaiting(q) => active # 0
  BY <1>0 DEF LeftAlone, SessionsTyped, Sound
<1>10. LeftAlone(s) => LeftAlone(s)'
  <2> SUFFICES ASSUME LeftAlone(s) PROVE LeftAlone(s)'
    OBVIOUS
  <2>1. Awaiting(s) /\ Awaiting(s)' /\ sessions'[s].todo # ToOrder
    BY <1>1, <1>3, <1>4, TodosTell DEF Awaiting
  <2>2. Taking(active) = {} /\ active # 0 /\ OrdersOf(s) = {} /\ active = sessions[s].cart /\ items[active] = sessions[s].items
    BY <1>9, <2>1 DEF LeftAlone
  <2>3. Taking(active)' = {} /\ OrdersOf(s)' = {}
    BY <1>3, <1>8, <2>2 DEF OrdersOf
  <2> QED
    BY <1>1, <1>3, <1>4, <2>1, <2>2, <2>3 DEF LeftAlone
<1>11. AloneIsOrdered'
  <2>1. mishaps' = 0 /\ s \notin disturbed' => LeftAlone(s)'
    BY <1>3, <1>10 DEF SessionsInv, AloneIsOrdered
  <2>2. \A q \in DOMAIN sessions : OrdersOf(q)' = OrdersOf(q)
    BY <1>3 DEF OrdersOf
  <2> QED
    BY <1>3, <1>4, <1>8, <1>9, <2>1, <2>2, OthersStay DEF OrdersOf
<1>12. CartsCounted'
  <2> SUFFICES ASSUME NEW c \in DOMAIN items PROVE Covered(c)'
    BY <1>3 DEF CartsCounted
  <2>1. Covered(c) /\ c # 0
    BY ElementsOf DEF SessionsInv, SessionsTyped, CartsCounted
  <2> QED
    BY <1>0, <1>3, <1>7, <2>1, StillCovered DEF SessionsTyped
<1> QED
  BY <1>6, <1>11, <1>12 DEF SessionsInv

\* An exception, or the end of the process: a fault is to blame for whatever comes of it.
LEMMA FaultKeeps ==
    ASSUME SessionsInv, NEW s \in DOMAIN sessions, NEW t \in {<<>>, ToConvert},
           sessions[s].todo # <<>>, t = ToConvert => sessions[s].todo = ToOrder,
           sessions' = [sessions EXCEPT ![s].todo = t], mishaps' = mishaps + 1,
           UNCHANGED <<active, items, made, disturbed, collisions>>
    PROVE  SessionsInv'
<1>0. SessionsTyped /\ t \in SessionTodos
  BY DEF SessionsInv, SessionTodos
<1>1. /\ sessions' \in Seq(SessionRecord) /\ DOMAIN sessions' = DOMAIN sessions
      /\ sessions'[s].todo = t /\ sessions'[s].cart = sessions[s].cart
      /\ sessions'[s].paid = sessions[s].paid /\ sessions'[s].found = sessions[s].found
      /\ \A q \in DOMAIN sessions : q # s => sessions'[q] = sessions[q]
  BY <1>0, GoesOn
<1>2. mishaps \in Nat /\ collisions \in Nat /\ mishaps' \in Nat /\ mishaps' # 0
  BY <1>0 DEF SessionsTyped
<1>3. SessionsTyped'
  <2>1. Sound(s)
    BY <1>0 DEF SessionsTyped
  <2>2. Sound(s)'
    BY <1>1, <2>1, TodosTell DEF Sound
  <2>3. \A q \in DOMAIN sessions : Sound(q)'
    BY <1>0, <1>1, <2>2, OthersSound
  <2> QED
    BY <1>0, <1>1, <1>2, <2>3 DEF SessionsTyped
<1>4. AloneIsOrdered'
  BY <1>2 DEF AloneIsOrdered
<1>5. CartsCounted'
  <2> SUFFICES ASSUME NEW c \in DOMAIN items PROVE Covered(c)'
    BY DEF CartsCounted
  <2>1. Covered(c)
    BY DEF SessionsInv, CartsCounted
  <2>2. Ordering(c)' \subseteq Ordering(c) /\ FromCart(c)' = FromCart(c)
    BY <1>1, TodosTell DEF Ordering, FromCart
  <2>3. collisions' = collisions /\ collisions + mishaps + 1 <= collisions' + mishaps' /\ collisions + mishaps <= collisions' + mishaps'
    BY <1>2
  <2> QED
    BY <1>0, <1>2, <2>1, <2>2, <2>3, StillCovered
<1> QED
  BY <1>3, <1>4, <1>5 DEF SessionsInv

\* The cart is converted: it was found by this handler, so that no session left alone awaits it.
LEMMA ConvertKeeps ==
    ASSUME SessionsInv, NEW s \in DOMAIN sessions, Convert(s)
    PROVE  SessionsInv'
<1>0. SessionsTyped /\ <<>> \in SessionTodos
  BY DEF SessionsInv, SessionTodos
<1>1. sessions[s].todo = ToConvert /\ sessions' = [sessions EXCEPT ![s].todo = <<>>]
  BY <1>0, SessionAt DEF Convert, Moved
<1>2. /\ sessions' \in Seq(SessionRecord) /\ DOMAIN sessions' = DOMAIN sessions
      /\ sessions'[s].todo = <<>> /\ sessions'[s].cart = sessions[s].cart /\ sessions'[s].items = sessions[s].items
      /\ sessions'[s].paid = sessions[s].paid /\ sessions'[s].found = sessions[s].found
      /\ \A q \in DOMAIN sessions : q # s => sessions'[q] = sessions[q]
  BY <1>0, <1>1, GoesOn
<1>3. UNCHANGED <<items, made, mishaps, disturbed, collisions>> /\ active' = IF active = sessions[s].found THEN 0 ELSE active
  BY DEF Convert
<1>4. Sound(s) /\ sessions[s].paid /\ sessions[s].found # 0
  BY <1>0, <1>1, TodosTell DEF SessionsTyped, Sound
<1>5. SessionsTyped'
  <2>1. Sound(s)'
    BY <1>2, <1>3, <1>4, TodosTell DEF Sound
  <2>2. \A q \in DOMAIN sessions : Sound(q)'
    BY <1>0, <1>2, <1>3, <2>1, OthersSound
  <2> QED
    BY <1>0, <1>2, <1>3, <2>2, ElementsOf DEF SessionsTyped
<1>6. AloneIsOrdered'
  <2>1. ASSUME NEW q \in DOMAIN sessions, LeftAlone(q), Awaiting(q)
        PROVE  active' = active /\ Taking(active)' \subseteq Taking(active)
    <3>1. Taking(active) = {} /\ s \in Taking(sessions[s].found)
      BY <1>1, <2>1, TodosTell DEF LeftAlone, Taking
    <3>2. active' = active
      BY <1>3, <3>1
    <3> QED
      BY <1>2, <3>2 DEF Taking
  <2>2. LeftAlone(s) => LeftAlone(s)'
    <3>1. ~Awaiting(s) /\ ~Awaiting(s)' /\ sessions[s].todo # ToOrder /\ sessions'[s].todo # ToOrder
      BY <1>1, <1>2, <1>4, TodosTell DEF Awaiting
    <3>2. Ordered(s) => Ordered(s)'
      BY <1>2, <1>3 DEF Ordered, OrdersOf
    <3> QED
      BY <3>1, <3>2 DEF LeftAlone
  <2>3. \A q \in DOMAIN sessions : OrdersOf(q)' = OrdersOf(q)
    BY <1>3 DEF OrdersOf
  <2>4. mishaps' = 0 /\ s \notin disturbed' => LeftAlone(s)'
    BY <1>3, <2>2 DEF SessionsInv, AloneIsOrdered
  <2> QED
    BY <1>2, <1>3, <2>1, <2>3, <2>4, OthersStay DEF OrdersOf
<1>7. CartsCounted'
  <2> SUFFICES ASSUME NEW c \in DOMAIN items PROVE Covered(c)'
    BY <1>3 DEF CartsCounted
  <2>1. Covered(c) /\ c # 0
    BY <1>0, ElementsOf DEF SessionsInv, SessionsTyped, CartsCounted
  <2>2. Ordering(c)' \subseteq Ordering(c) /\ FromCart(c)' = FromCart(c)
    BY <1>2, <1>3, TodosTell DEF Ordering, FromCart
  <2>3. c = active' /\ ~Busy(c)' => c = active /\ ~Busy(c)
    <3> SUFFICES ASSUME c = active', Busy(c) PROVE Busy(c)' /\ c = active
      BY <1>3, <2>1
    <3>1. c = active /\ c # sessions[s].found
      BY <1>3, <2>1
    <3>2. PICK q \in DOMAIN sessions : sessions[q].todo \in {ToOrder, ToConvert} /\ sessions[q].found = c
      BY DEF Busy
    <3> QED
      BY <1>2, <3>1, <3>2 DEF Busy
  <2> QED
    BY <1>0, <1>3, <2>1, <2>2, <2>3, StillCovered DEF SessionsTyped
<1> QED
  BY <1>5, <1>6, <1>7 DEF SessionsInv

\* The handler finds nothing, or takes the active cart: others of that are left alone no longer.
LEMMA LookKeeps ==
    ASSUME SessionsInv, NEW s \in DOMAIN sessions, LookForCart(s)
    PROVE  SessionsInv'
<1>0. SessionsTyped /\ <<>> \in SessionTodos /\ ToOrder \in SessionTodos
  BY DEF SessionsInv, SessionTodos
<1>1. sessions[s].todo = ToLook /\ sessions[s] \in SessionRecord /\ Tail(sessions[s].todo) = ToOrder
  BY <1>0, SessionAt DEF LookForCart
<1>2. UNCHANGED <<active, items, made, mishaps>> /\ disturbed' = disturbed \cup (Of(active) \ {s})
  BY DEF LookForCart
<1>3. Sound(s) /\ sessions[s].paid /\ sessions[s].found = 0
  BY <1>0, <1>1, TodosTell DEF SessionsTyped, Sound
<1>4. /\ collisions \in Nat /\ mishaps \in Nat /\ collisions' \in Nat /\ collisions <= collisions'
      /\ (\E q \in DOMAIN sessions : AtWork(q)) => collisions' = collisions + 1
  BY <1>0 DEF LookForCart, SessionsTyped
<1>5. \A q \in DOMAIN sessions : OrdersOf(q)' = OrdersOf(q)
  BY <1>2 DEF OrdersOf
<1>6. \A c : FromCart(c)' = FromCart(c)
  BY <1>2 DEF FromCart
<1>7. CASE active = 0
  <2>1. sessions' = [sessions EXCEPT ![s].todo = <<>>]
    BY <1>7 DEF LookForCart, Over
  <2>2. /\ sessions' \in Seq(SessionRecord) /\ DOMAIN sessions' = DOMAIN sessions
        /\ sessions'[s].todo = <<>> /\ sessions'[s].cart = sessions[s].cart
        /\ sessions'[s].paid = sessions[s].paid /\ sessions'[s].found = sessions[s].found
        /\ \A q \in DOMAIN sessions : q # s => sessions'[q] = sessions[q]
    BY <1>0, <2>1, GoesOn
  <2>3. \A q \in DOMAIN sessions : LeftAlone(q) => ~Awaiting(q)
    BY <1>0, <1>7 DEF LeftAlone, SessionsTyped, Sound
  <2>4. Awaiting(s)
    BY <1>1 DEF Awaiting
  <2>5. SessionsTyped'
    <3>1. Sound(s)'
      BY <1>2, <1>3, <2>2, TodosTell DEF Sound
    <3>2. \A q \in DOMAIN sessions : Sound(q)'
      BY <1>0, <1>2, <2>2, <3>1, OthersSound
    <3> QED
      BY <1>0, <1>2, <1>4, <2>2, <3>2 DEF SessionsTyped
  <2>6. AloneIsOrdered'
    <3>1. ~(mishaps' = 0 /\ s \notin disturbed')
      BY <1>2, <2>3, <2>4 DEF SessionsInv, AloneIsOrdered
    <3> QED
      BY <1>2, <1>5, <2>2, <2>3, <3>1, OthersStay DEF OrdersOf
  <2>7. CartsCounted'
    <3> SUFFICES ASSUME NEW c \in DOMAIN items PROVE Covered(c)'
      BY <1>2 DEF CartsCounted
    <3>1. Covered(c) /\ c # 0
      BY <1>0, ElementsOf DEF SessionsInv, SessionsTyped, CartsCounted
    <3>2. Ordering(c)' \subseteq Ordering(c) /\ c # active'
      BY <1>2, <1>7, <2>2, <3>1, TodosTell DEF Ordering
    <3>3. collisions + mishaps <= collisions' + mishaps' /\ mishaps' \in Nat
      BY <1>2, <1>4, NoLess
    <3> QED
      BY <1>0, <1>4, <1>6, <3>1, <3>2, <3>3, StillCovered
  <2> QED
    BY <2>5, <2>6, <2>7 DEF SessionsInv
<1>8. CASE active # 0
  <2> DEFINE x == [sessions[s] EXCEPT !.todo = ToOrder, !.found = active, !.read = items[active]]
  <2>0. active \in 1..Len(items) /\ active \in Nat /\ items[active] \in SUBSET (Plans \cup Goods)
    BY <1>0, <1>8, ElementsOf DEF SessionsTyped
  <2>1. /\ x \in SessionRecord /\ x.todo = ToOrder /\ x.found = active /\ x.read = items[active]
        /\ x.cart = sessions[s].cart /\ x.items = sessions[s].items /\ x.paid = sessions[s].paid
    BY <1>0, <1>1, <2>0 DEF SessionRecord
  <2>2. sessions' = [sessions EXCEPT ![s] = x]
    BY <1>1, <1>8 DEF LookForCart, Moved, SessionRecord
  <2> HIDE DEF x
  <2>3. /\ sessions' \in Seq(SessionRecord) /\ DOMAIN sessions' = DOMAIN sessions
        /\ sessions'[s] = x /\ \A q \in DOMAIN sessions : q # s => sessions'[q] = sessions[q]
    BY <1>0, <2>1, <2>2, OneSession
  <2>4. SessionsTyped'
    <3>0. active \in 0..Len(items)
      BY <1>0 DEF SessionsTyped
    <3>1. Sound(s)'
      <4>1. /\ sessions'[s].todo = ToOrder /\ sessions'[s].paid /\ sessions'[s].found = active
            /\ sessions'[s].cart = sessions[s].cart
        BY <1>3, <2>1, <2>3
      <4>2. sessions[s].cart \in 1..Len(items)
        BY <1>3 DEF Sound
      <4> QED
        BY <1>2, <1>8, <3>0, <4>1, <4>2, TodosTell DEF Sound
    <3>2. \A q \in DOMAIN sessions : Sound(q)'
      BY <1>0, <1>2, <2>3, <3>1, OthersSound
    <3> QED
      BY <1>0, <1>2, <1>4, <2>3, <3>2 DEF SessionsTyped
  <2>5. AloneIsOrdered'
    <3>1. \A q \in DOMAIN sessions \ disturbed' : q # s /\ LeftAlone(q) => ~Awaiting(q)
      BY <1>2 DEF LeftAlone, Of
    <3>2. LeftAlone(s) => LeftAlone(s)'
      <4>1. Awaiting(s) /\ ~Awaiting(s)'
        BY <1>1, <1>3, <2>1, <2>3, TodosTell DEF Awaiting
      <4> QED
        BY <1>2, <1>5, <2>1, <2>3, <4>1 DEF LeftAlone
    <3>3. mishaps' = 0 /\ s \notin disturbed' => LeftAlone(s)'
      BY <1>2, <3>2 DEF SessionsInv, AloneIsOrdered
    <3> QED
      BY <1>2, <1>5, <2>3, <3>1, <3>3, OthersStay DEF OrdersOf
  <2>6. CartsCounted'
    <3> SUFFICES ASSUME NEW c \in DOMAIN items PROVE Covered(c)'
      BY <1>2 DEF CartsCounted
    <3>0. mishaps' \in Nat /\ collisions + mishaps <= collisions' + mishaps'
      BY <1>2, <1>4, NoLess
    <3>1. Covered(c)
      BY DEF SessionsInv, CartsCounted
    <3>2. CASE c # active
      <4>1. Ordering(c)' \subseteq Ordering(c) /\ c # active'
        BY <1>2, <2>1, <2>3, <3>2 DEF Ordering
      <4> QED
        BY <1>0, <1>4, <1>6, <3>0, <3>1, <4>1, StillCovered
    <3>3. CASE c = active
      <4>1. Ordering(c)' = Ordering(c) \cup {s} /\ s \notin Ordering(c)
        BY <1>1, <2>1, <2>3, <3>3, TodosTell DEF Ordering
      <4>2. /\ Cardinality(FromCart(c)) \in Nat /\ Cardinality(Ordering(c)) \in Nat
            /\ Cardinality(Ordering(c)') = Cardinality(Ordering(c)) + 1
        BY <1>0, <4>1, CountsAreNats, FS_AddElement
      <4>3. Busy(c)'
        BY <2>1, <2>3, <3>3 DEF Busy
      <4>4. Busy(c) => collisions' = collisions + 1
        <5>1. Busy(c) => \E q \in DOMAIN sessions : AtWork(q)
          BY <1>0, SessionAt DEF Busy, AtWork
        <5> QED
          BY <1>4, <5>1
      <4>5. Cardinality(FromCart(c)) + Cardinality(Ordering(c)) <= collisions' + mishaps
        <5>1. CASE Busy(c)
          BY <1>4, <3>1, <4>2, <4>4, <5>1 DEF Covered
        <5>2. CASE ~Busy(c)
          BY <1>4, <3>1, <3>3, <4>2, <5>2 DEF Covered
        <5> QED
          BY <5>1, <5>2
      <4>6. Cardinality(FromCart(c)') + Cardinality(Ordering(c)') <= collisions' + mishaps' + 1
        BY <1>2, <1>4, <1>6, <4>2, <4>5
      <4> QED
        BY <4>3, <4>6 DEF Covered
    <3> QED
      BY <3>2, <3>3
  <2> QED
    BY <2>4, <2>5, <2>6 DEF SessionsInv
<1> QED
  BY <1>7, <1>8

\* The order is made of what the handler has read.
LEMMA OrderKeeps ==
    ASSUME SessionsInv, NEW s \in DOMAIN sessions, Order(s)
    PROVE  SessionsInv'
<1>0. SessionsTyped /\ ToConvert \in SessionTodos
  BY DEF SessionsInv, SessionTodos
<1>1. /\ sessions[s].todo = ToOrder /\ sessions[s] \in SessionRecord /\ s \in Nat
      /\ sessions' = [sessions EXCEPT ![s].todo = ToConvert]
  BY <1>0, SessionAt DEF Order, Moved
<1>2. /\ sessions' \in Seq(SessionRecord) /\ DOMAIN sessions' = DOMAIN sessions
      /\ sessions'[s].todo = ToConvert /\ sessions'[s].cart = sessions[s].cart /\ sessions'[s].items = sessions[s].items
      /\ sessions'[s].paid = sessions[s].paid /\ sessions'[s].found = sessions[s].found
      /\ \A q \in DOMAIN sessions : q # s => sessions'[q] = sessions[q]
  BY <1>0, <1>1, GoesOn
<1>3. UNCHANGED <<active, items, mishaps, disturbed, collisions>>
  BY DEF Order
<1>4. Sound(s) /\ sessions[s].paid /\ sessions[s].found \in 1..Len(items)
  <2>1. Sound(s) /\ Len(items) \in Nat
    BY <1>0, ElementsOf DEF SessionsTyped
  <2>2. sessions[s].paid /\ sessions[s].found \in 0..Len(items) /\ sessions[s].found # 0
    BY <1>1, <2>1, TodosTell DEF Sound
  <2> QED
    BY <2>1, <2>2
<1> DEFINE bought == Bought(sessions[s].read)
           x == [session |-> s, cart |-> sessions[s].found, items |-> bought]
<1>n. PICK n : n = Len(made) + 1
  OBVIOUS
<1>5. \/ bought = {} /\ made' = made
      \/ /\ bought # {} /\ made' \in Seq(OrderRecord) /\ n \notin DOMAIN made
         /\ DOMAIN made' = DOMAIN made \cup {n} /\ made'[n] = x
         /\ \A o \in DOMAIN made : made'[o] = made[o]
  <2>1. x \in OrderRecord /\ made \in Seq(OrderRecord)
    BY <1>0, <1>1, <1>4 DEF OrderRecord, Bought, SessionsTyped
  <2>2. made' = IF bought = {} THEN made ELSE Append(made, x)
    BY DEF Order
  <2> HIDE DEF bought, x
  <2> QED
    BY <1>n, <2>1, <2>2
<1>6. x.session = s /\ x.cart = sessions[s].found /\ x.items = bought
  OBVIOUS
<1> HIDE DEF x
<1>7. SessionsTyped'
  <2>1. \A q \in DOMAIN sessions : Sound(q)'
    <3>1. sessions[s].found # 0
      BY <1>4
    <3>2. Sound(s)'
      BY <1>2, <1>3, <1>4, <3>1, TodosTell DEF Sound
    <3> QED
      BY <1>0, <1>2, <1>3, <3>2, OthersSound
  <2>2. \A o \in DOMAIN made' : made'[o].session \in DOMAIN sessions /\ made'[o].cart \in 1..Len(items)
    BY <1>0, <1>4, <1>5, <1>6 DEF SessionsTyped
  <2> QED
    BY <1>0, <1>2, <1>3, <1>5, <2>1, <2>2 DEF SessionsTyped
<1>8. \A q : q # s => /\ OrdersOf(q)' = OrdersOf(q)
                      /\ \A o \in OrdersOf(q) : o \in DOMAIN made' /\ made'[o] = made[o]
  BY <1>5, <1>6 DEF OrdersOf
<1>9. LeftAlone(s) => LeftAlone(s)'
  <2> SUFFICES ASSUME LeftAlone(s) PROVE LeftAlone(s)'
    OBVIOUS
  <2>1. ~Awaiting(s)' /\ sessions'[s].todo # ToOrder
    BY <1>2, <1>4, TodosTell DEF Awaiting
  <2>2. OrdersOf(s) = {} /\ sessions[s].found = sessions[s].cart /\ sessions[s].read = sessions[s].items
    BY <1>1 DEF LeftAlone
  <2>3. bought = sessions'[s].items \cap Goods
    BY <1>2, <2>2 DEF Bought
  <2> HIDE DEF bought
  <2>4. CASE bought = {}
    <3>1. OrdersOf(s)' = {}
      BY <1>5, <2>2, <2>4 DEF OrdersOf
    <3> QED
      BY <2>1, <2>3, <2>4, <3>1 DEF LeftAlone, Ordered
  <2>5. CASE bought # {}
    <3>1. OrdersOf(s)' = {n} /\ n \in DOMAIN made' /\ made'[n] = x
      BY <1>5, <1>6, <2>2, <2>5 DEF OrdersOf
    <3>2. x = [session |-> s, cart |-> sessions'[s].cart, items |-> bought]
      BY <1>2, <2>2 DEF x
    <3>3. Ordered(s)'
      BY <2>3, <2>5, <3>1, <3>2 DEF Ordered
    <3> QED
      BY <2>1, <3>3 DEF LeftAlone
  <2> QED
    BY <2>4, <2>5
<1>10. AloneIsOrdered'
  <2>1. Taking(active)' \subseteq Taking(active)
    BY <1>1, <1>2, <1>3, TodosTell DEF Taking
  <2>2. mishaps' = 0 /\ s \notin disturbed' => LeftAlone(s)'
    BY <1>3, <1>9 DEF SessionsInv, AloneIsOrdered
  <2> QED
    BY <1>2, <1>3, <1>8, <2>1, <2>2, OthersStay
<1>11. CartsCounted'
  <2> SUFFICES ASSUME NEW c \in DOMAIN items PROVE Covered(c)'
    BY <1>3 DEF CartsCounted
  <2>1. Covered(c)
    BY DEF SessionsInv, CartsCounted
  <2>2. Busy(c)' <=> Busy(c)
    BY <1>1, <1>2, TodosTell DEF Busy
  <2>3. Ordering(c)' \subseteq Ordering(c) /\ (c = sessions[s].found => s \in Ordering(c) /\ s \notin Ordering(c)')
    BY <1>1, <1>2, TodosTell DEF Ordering
  <2>4. CASE FromCart(c)' = FromCart(c)
    BY <1>0, <1>3, <2>1, <2>2, <2>3, <2>4, StillCovered DEF SessionsTyped
  <2>5. CASE FromCart(c)' # FromCart(c)
    <3>1. FromCart(c)' = FromCart(c) \cup {n} /\ n \notin FromCart(c) /\ c = sessions[s].found
      BY <1>5, <1>6, <2>5 DEF FromCart
    <3>2. /\ Cardinality(FromCart(c)) \in Nat /\ Cardinality(FromCart(c)') = Cardinality(FromCart(c)) + 1
      BY <1>0, <3>1, CountsAreNats, FS_AddElement
    <3>3. Ordering(c)' \subseteq Ordering(c) \ {s} /\ s \in Ordering(c)
      BY <2>3, <3>1
    <3>4. /\ Cardinality(Ordering(c)) \in Nat /\ Cardinality(Ordering(c)') \in Nat
          /\ Cardinality(Ordering(c)') + 1 <= Cardinality(Ordering(c))
      BY <1>0, <3>3, CountsAreNats, OneLess
    <3>5. Cardinality(FromCart(c)') + Cardinality(Ordering(c)') <= Cardinality(FromCart(c)) + Cardinality(Ordering(c))
      BY <3>2, <3>4
    <3>6. /\ Cardinality(FromCart(c)') + Cardinality(Ordering(c)') \in Nat
          /\ Cardinality(FromCart(c)) + Cardinality(Ordering(c)) \in Nat
      BY <3>2, <3>4
    <3>7. collisions \in Nat /\ mishaps \in Nat
      BY <1>0 DEF SessionsTyped
    <3> QED
      BY <1>3, <2>1, <2>2, <3>5, <3>6, <3>7 DEF Covered
  <2> QED
    BY <2>4, <2>5
<1> QED
  BY <1>7, <1>10, <1>11 DEF SessionsInv

\* No cart, no session, no order.
LEMMA SessionsStart == SessionsInit => SessionsInv
<1> SUFFICES ASSUME SessionsInit PROVE SessionsInv
  OBVIOUS
<1>1. SessionsTyped
  BY DEF SessionsInit, SessionsTyped
<1>2. AloneIsOrdered /\ CartsCounted
  BY DEF SessionsInit, AloneIsOrdered, CartsCounted
<1> QED
  BY <1>1, <1>2 DEF SessionsInv

\* Items come and go; the cart may be given to an ordinary order.
LEMMA UserKeeps ==
    ASSUME SessionsInv, (\E p \in Plans \cup Goods : Add(p) \/ Remove(p)) \/ PlaceOrder
    PROVE  SessionsInv'
<1>0. items \in Seq(SUBSET (Plans \cup Goods)) /\ active \in 0..Len(items)
  BY DEF SessionsInv, SessionsTyped
<1>1. ASSUME NEW p \in Plans \cup Goods, active # 0, Add(p) \/ Remove(p)
      PROVE  SessionsInv'
  <2>1. \/ items' = [items EXCEPT ![active] = @ \cup {p}]
        \/ items' = [items EXCEPT ![active] = @ \ {p}]
    BY <1>1 DEF Add, Remove
  <2>2. /\ UNCHANGED <<sessions, made, mishaps, collisions>> /\ active' = active
        /\ disturbed' = disturbed \cup Of(active)
    BY <1>1 DEF Add, Remove
  <2>3. active \in DOMAIN items /\ items[active] \in SUBSET (Plans \cup Goods)
    BY <1>0, <1>1, ElementsOf
  <2>4. PICK q \in SUBSET (Plans \cup Goods) : items' = [items EXCEPT ![active] = q]
    BY <2>1, <2>3
  <2>5. items' \in Seq(SUBSET (Plans \cup Goods)) /\ Len(items') = Len(items)
    BY <1>0, <2>3, <2>4
  <2> QED
    BY <1>1, <2>2, <2>5, CartTouched
<1>2. ASSUME NEW p \in Plans \cup Goods, active = 0, Add(p)
      PROVE  SessionsInv'
  <2>1. /\ items' = Append(items, {p}) /\ active' = Len(items')
        /\ UNCHANGED <<sessions, made, mishaps, collisions, disturbed>>
    BY <1>2 DEF Add
  <2> QED
    BY <1>2, <2>1, CartMade
<1>3. ASSUME NEW p \in Plans \cup Goods, Add(p) \/ Remove(p)
      PROVE  SessionsInv'
  BY <1>1, <1>2, <1>3 DEF Remove
<1>4. CASE PlaceOrder
  <2>1. /\ active # 0 /\ active' = 0 /\ disturbed' = disturbed \cup Of(active)
        /\ UNCHANGED <<items, sessions, made, mishaps, collisions>>
    BY <1>4 DEF PlaceOrder
  <2> QED
    BY <1>0, <2>1, CartTouched
<1> QED
  BY <1>3, <1>4

\* Payment, the handler's steps, and its failures.
LEMMA HandlerKeeps ==
    ASSUME SessionsInv, NEW s \in DOMAIN sessions,
           PaySession(s) \/ LookForCart(s) \/ Order(s) \/ OrderFails(s) \/ Convert(s) \/ CutOff(s)
    PROVE  SessionsInv'
<1>0. SessionsTyped
  BY DEF SessionsInv
<1>1. CASE OrderFails(s)
  <2>1. sessions[s].todo = ToOrder /\ Tail(sessions[s].todo) = ToConvert /\ sessions[s].todo # <<>>
    BY <1>0, <1>1, SessionAt, TodosTell DEF OrderFails
  <2>2. \E t \in {<<>>, ToConvert} : sessions' = [sessions EXCEPT ![s].todo = t]
    BY <1>1, <2>1 DEF OrderFails, Moved, Over
  <2>3. mishaps' = mishaps + 1 /\ UNCHANGED <<active, items, made, disturbed, collisions>>
    BY <1>1 DEF OrderFails
  <2> QED
    BY <2>1, <2>2, <2>3, FaultKeeps
<1>2. CASE CutOff(s)
  <2>1. /\ sessions[s].todo # <<>> /\ sessions' = [sessions EXCEPT ![s].todo = <<>>]
        /\ mishaps' = mishaps + 1 /\ UNCHANGED <<active, items, made, disturbed, collisions>>
    BY <1>2 DEF CutOff, Over
  <2> QED
    BY <2>1, TodosTell, FaultKeeps
<1> QED
  BY <1>1, <1>2, PayKeeps, LookKeeps, OrderKeeps, ConvertKeeps

\* Whatever the user and the handlers do, sessions left alone are on their way to their order,
\* and each cart's orders are paid for by overlaps and faults.
THEOREM SessionsInvariance == SessionsSpec => []SessionsInv
<1>1. SessionsInv /\ [SessionsNext]_(sessionVars) => SessionsInv'
  <2> SUFFICES ASSUME SessionsInv, [SessionsNext]_(sessionVars) PROVE SessionsInv'
    OBVIOUS
  <2>1. CASE SessionsNext
    BY <2>1, UserKeeps, OpenKeeps, HandlerKeeps DEF SessionsNext
  <2>2. CASE UNCHANGED sessionVars
    <3>1. SessionsTyped'
      BY <2>2 DEF SessionsInv, SessionsTyped, Sound, sessionVars
    <3>2. AloneIsOrdered'
      BY <2>2
        DEF SessionsInv, AloneIsOrdered, LeftAlone, Awaiting, Taking,
            Ordered, OrdersOf, sessionVars
    <3>3. CartsCounted'
      BY <2>2
        DEF SessionsInv, CartsCounted, Covered, FromCart, Ordering,
            Busy, sessionVars
    <3> QED
      BY <3>1, <3>2, <3>3 DEF SessionsInv
  <2> QED
    BY <2>1, <2>2
<1> QED
  BY SessionsStart, <1>1, PTL DEF SessionsSpec

\* A paid session whose cart has been left alone gets one order, of exactly what was paid.
THEOREM PaidGoodsAreOrdered == SessionsSpec => []PaidIsOrdered
<1>1. SessionsInv => PaidIsOrdered
  <2> SUFFICES ASSUME SessionsInv, NEW s \in DOMAIN sessions \ disturbed, Handled(s), mishaps = 0
               PROVE  Ordered(s)
    BY DEF PaidIsOrdered
  <2>1. LeftAlone(s)
    BY DEF SessionsInv, AloneIsOrdered
  <2>2. ~Awaiting(s) /\ sessions[s].todo # ToOrder
    BY TodosTell DEF Handled, Awaiting
  <2> QED
    BY <2>1, <2>2 DEF LeftAlone
<1> QED
  BY SessionsInvariance, <1>1, PTL

\* A second order of one cart costs an overlap of two handlers or a fault.
THEOREM CartsAreOrderedOnce == SessionsSpec => []OrdersAreCounted
<1>1. SessionsInv => OrdersAreCounted
  <2> SUFFICES ASSUME SessionsInv, NEW c \in DOMAIN items
               PROVE  Cardinality(FromCart(c)) <= 1 + collisions + mishaps
    BY DEF OrdersAreCounted, FromCart
  <2>1. Covered(c) /\ SessionsTyped
    BY DEF SessionsInv, CartsCounted
  <2> DEFINE m == Cardinality(FromCart(c))
             n == Cardinality(Ordering(c))
             spare == IF c = active /\ ~Busy(c) THEN 0 ELSE 1
  <2>2. m \in Nat /\ n \in Nat /\ collisions \in Nat /\ mishaps \in Nat /\ spare \in {0, 1}
    BY <2>1, CountsAreNats DEF SessionsTyped
  <2>3. m + n <= collisions + mishaps + spare
    BY <2>1 DEF Covered
  <2> HIDE DEF m, n, spare
  <2>4. m <= 1 + collisions + mishaps
    BY <2>2, <2>3
  <2> QED
    BY <2>4 DEF m
<1> QED
  BY SessionsInvariance, <1>1, PTL

-----------------------------------------------------------------------------
(* Migrations: the inductive invariant. Whatever runs, the record and the schema agree file by *)
(* file. With one run at a time the record has no gaps, and what the run has read is so (which *)
(* a second run would end), so that a file that is due has all it needs and finds none of its  *)
(* own. A run is between the COMMIT of a file and its record only where the file commits       *)
(* itself, and has found it unrecorded; with one run at a time its seeding is the only one.    *)

State == [pc : {"idle", "running", "done"}, todo : Seq(Commands), plan : SUBSET (Files \union Ensured)]

ScriptsOK ==
    /\ script \in [Runs -> State]
    /\ \A r \in Runs : IsRunning(r) =>
          /\ script[r].todo # <<>>
          /\ script[r].plan \subseteq IF On(r, "ensure") THEN Ensured ELSE Files

RowsOK ==
    /\ objects \subseteq AllObjects /\ recorded \subseteq Versions
    /\ template \in {"ecommerce", "saas"} /\ tracking \in BOOLEAN
    /\ ahead \subseteq objects /\ unfounded \cap objects = {} /\ unexplained \subseteq Versions
    /\ apart \subseteq Runs
    /\ seedings \in Nat /\ switches \in Nat /\ breaks \in Nat /\ concurrent \in Nat

\* One run at a time, of scripts that see the same settings.
Alone == concurrent = 0 => \A r, q \in Runs : IsRunning(r) /\ IsRunning(q) => r = q

PlansApply ==
    switches = 0 => \A r \in Runs : IsRunning(r) /\ ~On(r, "ensure") => \A f \in script[r].plan : Applies(f)

RecordedApply == switches = 0 => \A v \in recorded : \E f \in Files : Applies(f) /\ f.version = v

Orderly == switches = 0 /\ concurrent = 0

NoGaps ==
    Orderly => \A f \in Files : Applies(f) => \A v \in recorded : f.version < v => f.version \in recorded

PlansAreCurrent ==
    Orderly => \A r \in Runs : IsRunning(r) /\ script[r].plan # {} =>
        /\ On(r, "up") => script[r].plan = {f \in Files : Applies(f) /\ f.version \notin recorded}
        /\ On(r, "down") => \A f \in script[r].plan :
              /\ f.version \in recorded
              /\ \A g \in Files : Applies(g) /\ g.version \in recorded /\ g.version > f.version => g \in script[r].plan

ApartOK ==
    \A r \in apart : /\ IsRunning(r) /\ On(r, "up")
                     /\ \E f \in script[r].plan : CommitsItself(f) /\ IsDue(r, f)

PlansAreNew ==
    concurrent = 0 => \A r \in Runs : IsRunning(r) /\ On(r, "up") =>
        \A f \in script[r].plan : CommitsItself(f) => 14 \notin recorded

SeededOnce ==
    concurrent = 0 /\ breaks = 0 => seedings = 0 \/ (seedings = 1 /\ (14 \in recorded \/ apart # {}))

ApartInv == ApartOK /\ PlansAreNew /\ SeededOnce

SchemaInv ==
    /\ RowsOK /\ ScriptsOK /\ Alone
    /\ RecordMatchesSchema /\ PlansApply /\ RecordedApply
    /\ NoGaps /\ PlansAreCurrent /\ NothingIsRefused
    /\ ApartInv

-----------------------------------------------------------------------------
(* The files *)

\* What a file is.
LEMMA FileShape ==
    ASSUME NEW f \in Files
    PROVE  f.version \in Nat /\ f.plain \subseteq f.makes /\ f.only \in {"any", "ecommerce", "saas", "tracking"}
  BY DEF Files, File

\* No two files create the same.
LEMMA FilesAreApart ==
    ASSUME NEW f \in Files, NEW g \in Files, NEW x \in f.makes, x \in g.makes
    PROVE  f = g
  <1>1. CASE x = "users"
    BY <1>1 DEF Files, File
  <1>2. CASE x \in {"orders", "plans", "events"}
    BY <1>2 DEF Files, File
  <1>3. CASE x \in {"restrictions", "campaigns", "metrics", "tiers"}
    BY <1>3 DEF Files, File
  <1>4. CASE x \in {"recipients", "oncePerUser", "definitions"}
    BY <1>4 DEF Files, File
  <1>5. x \in {"users", "orders", "plans", "events", "restrictions", "campaigns", "metrics", "recipients",
               "oncePerUser", "definitions", "tiers"}
    BY DEF Files, File
  <1> QED
    BY <1>1, <1>2, <1>3, <1>4, <1>5

\* The one that commits itself.
LEMMA TheOneApart ==
    ASSUME NEW f \in Files
    PROVE  /\ CommitsItself(f) => f.plain = {}
           /\ f.makes \cap MadeApart # {} => CommitsItself(f)
           /\ Alters(f) \subseteq f.needs
           /\ \A g \in Files : CommitsItself(f) /\ CommitsItself(g) => f = g
  <1>1. \A g \in Files : CommitsItself(g) => g.makes = {"tiers"} /\ g.plain = {}
    BY DEF Files, File, CommitsItself
  <1>2. "tiers" \in f.makes => CommitsItself(f)
    BY DEF Files, File, CommitsItself
  <1>3. MadeApart \subseteq {"tiers"}
    BY <1>1 DEF MadeApart
  <1>4. \A g \in Files : CommitsItself(f) /\ CommitsItself(g) => f = g
    BY DEF Files, File, CommitsItself
  <1> QED
    BY <1>1, <1>2, <1>3, <1>4 DEF Alters

\* Of the files of a version one applies.
LEMMA OneOfAVersion ==
    ASSUME NEW f \in Files, NEW g \in Files, Applies(f), Applies(g), f.version = g.version
    PROVE  f = g
  <1>1. \A h \in Files : h.version = 2 => h.only \in {"ecommerce", "saas"}
    BY DEF Files, File
  <1>2. f.version = 2 => f.only = g.only
    BY <1>1 DEF Applies
  <1>3. f.version # 2 => f = g
    BY DEF Files, File
  <1>4. f.version = 2 /\ f.only = g.only => f = g
    BY DEF Files, File
  <1> QED
    BY <1>2, <1>3, <1>4

\* In a shop that tracks, what a file needs comes with an earlier one.
LEMMA NeedsComeEarlier ==
    ASSUME template = "ecommerce", tracking, NEW f \in Files, Applies(f), NEW x \in f.needs
    PROVE  \E g \in Files : Applies(g) /\ x \in g.makes /\ g.version < f.version
  <1> DEFINE usersFile == File(1, {"users"}, {"users"}, {}, "any")
             ordersFile == File(2, {"orders"}, {"orders"}, {"users"}, "ecommerce")
             eventsFile == File(4, {"events"}, {"events"}, {"users"}, "tracking")
             campaignsFile == File(24, {"campaigns"}, {"campaigns"}, {"users"}, "any")
  <1>1. \A g \in {usersFile, ordersFile, eventsFile, campaignsFile} : g \in Files /\ Applies(g)
    BY DEF Files, File, Applies
  <1>2. /\ x \in {"users", "orders", "events", "campaigns"}
        /\ x = "users" => f.version > 1
        /\ x = "orders" => f.version > 2
        /\ x = "events" => f.version > 4
        /\ x = "campaigns" => f.version > 24
    BY DEF Files, File
  <1>3. /\ "users" \in usersFile.makes /\ usersFile.version = 1
        /\ "orders" \in ordersFile.makes /\ ordersFile.version = 2
        /\ "events" \in eventsFile.makes /\ eventsFile.version = 4
        /\ "campaigns" \in campaignsFile.makes /\ campaignsFile.version = 24
    BY DEF File
  <1> HIDE DEF usersFile, ordersFile, eventsFile, campaignsFile
  <1>4. f.version \in Nat
    BY FileShape
  <1> QED
    BY <1>1, <1>2, <1>3, <1>4

\* ensure_tables creates what files create.
LEMMA EnsuredIsOfFiles == ASSUME NEW s \in Ensured PROVE s.makes \subseteq AllObjects
  <1>1. \A x \in {"metrics", "recipients", "definitions"} : \E f \in Files : x \in f.makes
    <2>1. File(28, {"metrics"}, {"metrics"}, {"users"}, "any") \in Files
      BY DEF Files
    <2>2. File(33, {"recipients", "oncePerUser"}, {"recipients"}, {"campaigns", "events"}, "any") \in Files
      BY DEF Files
    <2>3. File(34, {"definitions"}, {}, {"events"}, "any") \in Files
      BY DEF Files
    <2>4. /\ "metrics" \in File(28, {"metrics"}, {"metrics"}, {"users"}, "any").makes
          /\ "recipients" \in File(33, {"recipients", "oncePerUser"}, {"recipients"}, {"campaigns", "events"}, "any").makes
          /\ "definitions" \in File(34, {"definitions"}, {}, {"events"}, "any").makes
      BY DEF File
    <2> QED
      BY <2>1, <2>2, <2>3, <2>4
  <1>2. s.makes \subseteq {"metrics", "recipients", "definitions"}
    BY DEF Ensured, EnsuredOfOld, EnsuredOfPipeline, EnsuredOfEvents
  <1> QED
    BY <1>1, <1>2 DEF AllObjects

-----------------------------------------------------------------------------
(* The runs *)

\* A run goes on with what is left of its command, or with none of it.
Continues(r, rest) ==
    /\ ScriptsOK'
    /\ \A q \in Runs \ {r} : script'[q] = script[q]
    /\ script'[r].pc = "running" =>
          script'[r].plan = {} \/ (script'[r].plan = rest /\ script'[r].todo = script[r].todo)

\* A run that goes on with something to do.
LEMMA Carrying ==
    ASSUME ScriptsOK, NEW r \in Runs, NEW todo \in Seq(Commands), NEW plan,
           todo # <<>> => plan \subseteq IF Head(todo) = "ensure" THEN Ensured ELSE Files,
           Carry(r, todo, plan)
    PROVE  /\ ScriptsOK' /\ \A q \in Runs \ {r} : script'[q] = script[q]
           /\ script'[r].pc = "running" => script'[r].plan = plan /\ script'[r].todo = todo
  <1> DEFINE x == IF todo = <<>> THEN NotRunning("done") ELSE Running(todo, plan)
  <1>1. x \in State
    BY EmptySeq DEF State, NotRunning, Running
  <1>2. /\ x.pc = "running" => x.todo # <<>> /\ x.todo = todo /\ x.plan = plan
        /\ x.pc = "running" => x.plan \subseteq IF Head(x.todo) = "ensure" THEN Ensured ELSE Files
    BY DEF NotRunning, Running
  <1>3. script' = [script EXCEPT ![r] = x]
    BY DEF Carry, SetTo
  <1> HIDE DEF x
  <1>4. /\ script' \in [Runs -> State] /\ script'[r] = x
        /\ \A q \in Runs \ {r} : script'[q] = script[q]
    BY <1>1, <1>3 DEF ScriptsOK
  <1>5. ScriptsOK'
    BY <1>2, <1>4 DEF ScriptsOK, IsRunning, On
  <1> QED
    BY <1>2, <1>4, <1>5

\* What a run under way has to do.
LEMMA ToDo ==
    ASSUME ScriptsOK, NEW r \in Runs, IsRunning(r)
    PROVE  /\ script[r].todo \in Seq(Commands) /\ script[r].todo # <<>>
           /\ Tail(script[r].todo) \in Seq(Commands)
           /\ script[r].plan \subseteq IF Head(script[r].todo) = "ensure" THEN Ensured ELSE Files
  <1>1. script[r].todo \in Seq(Commands) /\ script[r].todo # <<>>
    BY DEF ScriptsOK, State
  <1> QED
    BY <1>1, HeadTailProperties DEF ScriptsOK, On

\* The command is over.
LEMMA EndsCommand ==
    ASSUME ScriptsOK, NEW r \in Runs, IsRunning(r), Carry(r, Tail(script[r].todo), {})
    PROVE  Continues(r, {})
  BY ToDo, Carrying DEF Continues

\* One file less.
LEMMA TicksOff ==
    ASSUME ScriptsOK, NEW r \in Runs, IsRunning(r), NEW f, Ticked(r, f)
    PROVE  Continues(r, script[r].plan \ {f})
  <1> DEFINE rest == script[r].plan \ {f}
  <1>1. CASE rest = {}
    <2>1. Carry(r, Tail(script[r].todo), rest)
      BY <1>1 DEF Ticked
    <2> QED
      BY <2>1, <1>1, EndsCommand DEF Continues
  <1>2. CASE rest # {}
    <2>1. Carry(r, script[r].todo, rest)
      BY <1>2 DEF Ticked
    <2> QED
      BY <2>1, ToDo, Carrying DEF Continues
  <1> QED
    BY <1>1, <1>2

\* The command begins.
LEMMA PlanIsRead ==
    ASSUME ScriptsOK, NEW r \in Runs, NEW command, NEW plan, ReadPlan(r, command, plan),
           plan \subseteq IF command = "ensure" THEN Ensured ELSE Files
    PROVE  IsRunning(r) /\ Continues(r, plan)
  <1>1. IsRunning(r) /\ Head(script[r].todo) = command
    BY DEF ReadPlan, On
  <1>2. CASE plan = {}
    <2>1. Carry(r, Tail(script[r].todo), {})
      BY <1>2 DEF ReadPlan
    <2> QED
      BY <2>1, <1>1, <1>2, EndsCommand DEF Continues
  <1>3. CASE plan # {}
    <2>1. Carry(r, script[r].todo, plan)
      BY <1>3 DEF ReadPlan
    <2> QED
      BY <2>1, <1>1, ToDo, Carrying DEF Continues
  <1> QED
    BY <1>1, <1>2, <1>3

-----------------------------------------------------------------------------
(* What every step of a run has in common *)

\* Whether a file applies is up to the settings.
LEMMA AppliesStill == ASSUME UNCHANGED <<template, tracking>>, NEW f PROVE Applies(f)' = Applies(f)
  BY DEF Applies

\* The types of the runs are in ScriptsOK.
LEMMA TypesFollow == RowsOK /\ ScriptsOK => SchemaTypeOK
  <1> SUFFICES ASSUME RowsOK, ScriptsOK, NEW r \in Runs, IsRunning(r)
               PROVE  /\ script[r].todo # <<>> /\ script[r].todo \in Seq(Commands)
                      /\ script[r].plan \subseteq Files \/ script[r].plan \subseteq Ensured
    BY DEF RowsOK, SchemaTypeOK
  <1> QED
    BY ToDo

\* No run begins.
LEMMA RunsStayApart ==
    ASSUME Alone, NEW r \in Runs, IsRunning(r), NEW rest, Continues(r, rest), concurrent' = concurrent
    PROVE  Alone'
  <1>1. \A q \in Runs : script'[q].pc = "running" => IsRunning(q)
    BY DEF Continues, IsRunning
  <1> QED
    BY <1>1 DEF Alone, IsRunning

\* Under the same settings the same files apply.
LEMMA PlansStillApply ==
    ASSUME PlansApply, NEW r \in Runs, IsRunning(r), NEW rest, Continues(r, rest),
           UNCHANGED <<template, tracking, switches>>,
           switches = 0 /\ ~On(r, "ensure") => \A f \in rest : Applies(f)
    PROVE  PlansApply'
  <1> SUFFICES ASSUME switches = 0, NEW q \in Runs, script'[q].pc = "running", Head(script'[q].todo) # "ensure",
                      NEW f \in script'[q].plan
               PROVE  Applies(f)'
    BY DEF PlansApply, On, IsRunning
  <1>1. Applies(f)' = Applies(f)
    BY DEF Applies
  <1>2. CASE q = r
    <2>1. f \in rest /\ script'[q].todo = script[q].todo
      BY <1>2 DEF Continues
    <2> QED
      BY <1>1, <1>2, <2>1 DEF On
  <1>3. CASE q # r
    <2>1. script'[q] = script[q]
      BY <1>3 DEF Continues
    <2> QED
      BY <1>1, <2>1 DEF PlansApply, On, IsRunning
  <1> QED
    BY <1>2, <1>3

\* A run on its own has in its plan what there is to do.
LEMMA PlansStayCurrent ==
    ASSUME Alone, NEW r \in Runs, IsRunning(r), NEW rest, Continues(r, rest),
           UNCHANGED <<template, tracking, switches, concurrent>>,
           Orderly /\ On(r, "up") /\ rest # {} => rest = {f \in Files : Applies(f) /\ f.version \notin recorded'},
           Orderly /\ On(r, "down") => \A f \in rest :
              /\ f.version \in recorded'
              /\ \A g \in Files : Applies(g) /\ g.version \in recorded' /\ g.version > f.version => g \in rest
    PROVE  PlansAreCurrent'
  <1>1. ASSUME NEW f PROVE Applies(f)' = Applies(f)
    BY DEF Applies
  <1> SUFFICES ASSUME Orderly, NEW q \in Runs, script'[q].pc = "running", script'[q].plan # {}
               PROVE  /\ Head(script'[q].todo) = "up" =>
                            script'[q].plan = {f \in Files : Applies(f) /\ f.version \notin recorded'}
                      /\ Head(script'[q].todo) = "down" => \A f \in script'[q].plan :
                            /\ f.version \in recorded'
                            /\ \A g \in Files : Applies(g) /\ g.version \in recorded' /\ g.version > f.version
                                  => g \in script'[q].plan
    BY <1>1 DEF PlansAreCurrent, Orderly, On, IsRunning
  <1>2. q = r
    BY DEF Continues, Alone, IsRunning, Orderly
  <1>3. script'[q].plan = rest /\ script'[q].todo = script[q].todo
    BY <1>2 DEF Continues
  <1> QED
    BY <1>2, <1>3 DEF On

\* The run at a file that commits itself is at no other one.
LEMMA ApartIsAtIt ==
    ASSUME SchemaInv, NEW r \in Runs, r \in apart
    PROVE  /\ On(r, "up") /\ ~On(r, "down") /\ ~On(r, "ensure") /\ ~On(r, "baseline") /\ script[r].plan # {}
           /\ \A f \in script[r].plan : IsDue(r, f) => CommitsItself(f)
  <1>1. PICK g \in script[r].plan : CommitsItself(g) /\ IsDue(r, g) /\ IsRunning(r) /\ On(r, "up")
    BY DEF SchemaInv, ApartInv, ApartOK
  <1>2. ~On(r, "down") /\ ~On(r, "ensure") /\ ~On(r, "baseline")
    BY <1>1 DEF On
  <1>3. script[r].plan \subseteq Files
    BY <1>1, <1>2, ToDo DEF SchemaInv, On
  <1>4. ASSUME NEW f \in script[r].plan, IsDue(r, f) PROVE CommitsItself(f)
    <2>1. f.version <= g.version /\ g.version <= f.version /\ f.version \in Nat /\ g.version \in Nat
      BY <1>1, <1>2, <1>3, <1>4, FileShape DEF IsDue
    <2> QED
      BY <1>1, <2>1 DEF CommitsItself
  <1> QED
    BY <1>1, <1>2, <1>4

\* A run that goes on has committed nothing but with its record, or is done with it.
LEMMA ApartGoesOn ==
    ASSUME SchemaInv, NEW r \in Runs, IsRunning(r), NEW rest, Continues(r, rest), concurrent' = concurrent,
           apart' = apart \ {r}, breaks' = breaks \/ breaks' \in Nat \ {0},
           r \in apart /\ breaks' = breaks => 14 \in recorded',
           seedings' = 0 \/ (seedings' = seedings /\ (14 \in recorded => 14 \in recorded')),
           concurrent = 0 /\ On(r, "up") => \A f \in rest : CommitsItself(f) => 14 \notin recorded'
    PROVE  ApartInv'
  <1>1. ApartOK'
    <2> SUFFICES ASSUME NEW q \in apart, q # r
                 PROVE  (/\ IsRunning(q) /\ On(q, "up")
                         /\ \E f \in script[q].plan : CommitsItself(f) /\ IsDue(q, f))'
      BY DEF ApartOK
    <2>1. q \in Runs
      BY DEF SchemaInv, RowsOK
    <2>2. script'[q] = script[q]
      BY <2>1 DEF Continues
    <2>3. /\ IsRunning(q) /\ On(q, "up")
          /\ \E f \in script[q].plan : CommitsItself(f) /\ IsDue(q, f)
      BY DEF SchemaInv, ApartInv, ApartOK
    <2> QED
      BY <2>2, <2>3 DEF IsRunning, On, IsDue
  <1>2. PlansAreNew'
    <2> SUFFICES ASSUME concurrent = 0, NEW q \in Runs, script'[q].pc = "running", Head(script'[q].todo) = "up",
                        NEW f \in script'[q].plan, CommitsItself(f)
                 PROVE  14 \notin recorded'
      BY DEF PlansAreNew, IsRunning, On, CommitsItself
    <2>1. q = r
      BY DEF Continues, Alone, IsRunning, SchemaInv
    <2>2. script'[q].plan = rest /\ script'[q].todo = script[q].todo
      BY <2>1 DEF Continues
    <2> QED
      BY <2>1, <2>2 DEF On
  <1>3. SeededOnce'
    <2> SUFFICES ASSUME concurrent = 0, breaks' = 0
                 PROVE  seedings' = 0 \/ (seedings' = 1 /\ (14 \in recorded' \/ apart' # {}))
      BY DEF SeededOnce
    <2>1. breaks = 0
      OBVIOUS
    <2>2. seedings = 0 \/ (seedings = 1 /\ (14 \in recorded \/ apart # {}))
      BY <2>1 DEF SchemaInv, ApartInv, SeededOnce
    <2>3. r \in apart => 14 \in recorded'
      BY <2>1
    <2>4. r \notin apart => apart' = apart
      OBVIOUS
    <2> QED
      BY <2>2, <2>3, <2>4
  <1> QED
    BY <1>1, <1>2, <1>3 DEF ApartInv

\* A step that leaves the database and its records, though perhaps something of a file that has
\* committed itself.
LEMMA OnlyScripts ==
    ASSUME SchemaInv, NEW r \in Runs, IsRunning(r), NEW rest, Continues(r, rest),
           UNCHANGED <<objects, recorded, template, tracking, unfounded, unexplained, seedings, switches, concurrent>>,
           apart' = apart \ {r}, ahead \subseteq ahead', ahead' \subseteq objects,
           breaks' \in Nat, breaks' = breaks \/ breaks' # 0,
           r \in apart /\ breaks' = breaks => 14 \in recorded,
           r \in apart => \A x \in MadeApart \cap objects : Unrecorded(x) => x \in ahead',
           switches = 0 /\ ~On(r, "ensure") => \A f \in rest : Applies(f),
           On(r, "up") => \A f \in rest : f.version \notin recorded,
           Orderly /\ On(r, "up") /\ rest # {} => rest = {f \in Files : Applies(f) /\ f.version \notin recorded},
           Orderly /\ On(r, "down") => \A f \in rest :
              /\ f.version \in recorded
              /\ \A g \in Files : Applies(g) /\ g.version \in recorded /\ g.version > f.version => g \in rest
    PROVE  SchemaInv'
  <1>1. RowsOK' /\ ScriptsOK'
    BY DEF SchemaInv, RowsOK, Continues
  <1>2. Alone' /\ PlansApply'
    BY RunsStayApart, PlansStillApply DEF SchemaInv
  <1>3. PlansAreCurrent'
    BY PlansStayCurrent DEF SchemaInv
  <1>4. RecordedApply' /\ NoGaps' /\ NothingIsRefused'
    BY DEF SchemaInv, RecordedApply, NoGaps, NothingIsRefused, Orderly, Applies
  <1>5. RecordMatchesSchema'
    <2> SUFFICES ASSUME switches = 0, NEW g \in Files, Applies(g)
                 PROVE  IF g.version \in recorded THEN g.makes \subseteq objects \union unfounded
                        ELSE g.makes \cap objects \subseteq ahead' \union InHand'
      BY AppliesStill DEF RecordMatchesSchema
    <2>1. CASE g.version \in recorded
      BY <2>1 DEF SchemaInv, RecordMatchesSchema
    <2>2. ASSUME g.version \notin recorded, NEW x \in g.makes \cap objects PROVE x \in ahead' \union InHand'
      <3>1. x \in ahead \/ (apart # {} /\ x \in MadeApart)
        BY <2>2 DEF SchemaInv, RecordMatchesSchema, InHand
      <3>2. Unrecorded(x)
        BY <2>2 DEF Unrecorded
      <3>3. CASE apart # {} /\ x \in MadeApart /\ r \in apart
        BY <3>2, <3>3
      <3>4. CASE apart # {} /\ x \in MadeApart /\ r \notin apart
        <4>1. apart' # {} /\ x \in MadeApart
          BY <3>4
        <4> QED
          BY <4>1 DEF InHand, MadeApart
      <3> QED
        BY <3>1, <3>3, <3>4
    <2> QED
      BY <2>1, <2>2
  <1>6. ApartInv'
    <2>1. On(r, "up") => \A f \in rest : CommitsItself(f) => 14 \notin recorded'
      BY DEF CommitsItself
    <2> QED
      BY <2>1, ApartGoesOn
  <1> QED
    BY <1>1, <1>2, <1>3, <1>4, <1>5, <1>6 DEF SchemaInv

-----------------------------------------------------------------------------
(* The steps *)

\* A file applied.
LEMMA ApplyKeeps ==
    ASSUME SchemaInv, NEW r \in Runs, NEW f \in script[r].plan, Apply(r, f)
    PROVE  SchemaInv'
  <1> DEFINE rest == script[r].plan \ {f}
  <1>1. IsRunning(r) /\ On(r, "up") /\ ~On(r, "ensure") /\ ~On(r, "down")
    BY DEF Apply, On
  <1>2. f \in Files /\ script[r].plan \subseteq Files
    BY <1>1, ToDo DEF SchemaInv, On
  <1>3. /\ objects' = objects \union f.makes /\ recorded' = recorded \union {f.version}
        /\ ahead' = ahead \ f.makes /\ unfounded' = unfounded \ f.makes
        /\ UNCHANGED <<template, tracking, apart, unexplained, seedings, switches, concurrent, breaks>>
    BY DEF Apply, Applied
  <1>4. Continues(r, rest)
    BY <1>1, TicksOff DEF SchemaInv, Apply
  <1>5. switches = 0 => \A g \in script[r].plan : Applies(g)
    BY <1>1 DEF SchemaInv, PlansApply
  <1>6. Orderly => /\ script[r].plan = {g \in Files : Applies(g) /\ g.version \notin recorded}
                   /\ \A g \in script[r].plan : f.version <= g.version
    BY <1>1 DEF SchemaInv, PlansAreCurrent, Apply, IsDue
  <1>7. RowsOK'
    <2>1. f.makes \subseteq AllObjects /\ f.version \in Versions
      BY <1>2 DEF AllObjects, Versions
    <2> QED
      BY <2>1, <1>3 DEF SchemaInv, RowsOK
  <1>8. ScriptsOK' /\ Alone' /\ PlansApply'
    BY <1>1, <1>3, <1>4, <1>5, RunsStayApart, PlansStillApply DEF SchemaInv, Continues
  <1>9. RecordMatchesSchema'
    <2> SUFFICES ASSUME switches = 0, NEW g \in Files, Applies(g)
                 PROVE  IF g.version \in recorded' THEN g.makes \subseteq objects' \union unfounded'
                        ELSE g.makes \cap objects' \subseteq ahead' \union InHand
      BY <1>3, AppliesStill DEF RecordMatchesSchema, InHand, MadeApart
    <2>1. CASE g = f
      BY <2>1, <1>3
    <2>2. CASE g # f
      <3>1. g.version # f.version
        BY <2>2, <1>2, <1>5, OneOfAVersion
      <3>2. g.makes \cap f.makes = {}
        BY <2>2, <1>2, FilesAreApart
      <3> QED
        BY <3>1, <3>2, <1>3 DEF SchemaInv, RecordMatchesSchema
    <2> QED
      BY <2>1, <2>2
  <1>13. ApartInv'
    <2>1. r \notin apart
      BY ApartIsAtIt DEF Apply
    <2>2. 14 \in recorded' => 14 \in recorded
      BY <1>3 DEF Apply, CommitsItself
    <2>3. concurrent = 0 => \A g \in rest : CommitsItself(g) => 14 \notin recorded'
      BY <1>1, <2>2 DEF SchemaInv, ApartInv, PlansAreNew
    <2> QED
      BY <1>1, <1>3, <1>4, <2>1, <2>3, ApartGoesOn
  <1>10. RecordedApply'
    BY <1>2, <1>3, <1>5, AppliesStill DEF SchemaInv, RecordedApply
  <1>11. NoGaps'
    <2> SUFFICES ASSUME Orderly, NEW g \in Files, Applies(g), NEW v \in recorded', g.version < v
                 PROVE  g.version \in recorded'
      BY <1>3, AppliesStill DEF NoGaps, Orderly
    <2>1. CASE v \in recorded
      BY <2>1, <1>3 DEF SchemaInv, NoGaps
    <2>2. CASE v = f.version
      <3>1. f.version \in Nat /\ g.version \in Nat
        BY <1>2, FileShape
      <3>2. g \notin script[r].plan
        BY <3>1, <2>2, <1>6
      <3> QED
        BY <3>2, <1>3, <1>6
    <2> QED
      BY <2>1, <2>2, <1>3
  <1>12. PlansAreCurrent'
    <2>1. Orderly => rest = {g \in Files : Applies(g) /\ g.version \notin recorded'}
      BY <1>2, <1>3, <1>5, <1>6, OneOfAVersion DEF Orderly
    <2> QED
      BY <2>1, <1>1, <1>3, <1>4, PlansStayCurrent DEF SchemaInv
  <1> QED
    BY <1>3, <1>7, <1>8, <1>9, <1>10, <1>11, <1>12, <1>13 DEF SchemaInv, NothingIsRefused

\* A file that commits itself.
LEMMA ApplyApartKeeps ==
    ASSUME SchemaInv, NEW r \in Runs, NEW f \in script[r].plan, ApplyApart(r, f)
    PROVE  SchemaInv'
  <1>1. IsRunning(r) /\ On(r, "up") /\ IsDue(r, f) /\ CommitsItself(f) /\ r \notin apart
    BY DEF ApplyApart, On
  <1>2. f \in Files /\ f.makes \subseteq AllObjects /\ f.makes \subseteq MadeApart
    <2>1. f \in Files
      BY <1>1, ToDo DEF SchemaInv, On
    <2> QED
      BY <1>1, <2>1 DEF AllObjects, MadeApart
  <1>3. /\ objects' = objects \union f.makes /\ unfounded' = unfounded \ f.makes
        /\ seedings' = seedings + 1 /\ apart' = apart \union {r}
        /\ UNCHANGED <<recorded, template, tracking, script, ahead, unexplained, switches, concurrent, breaks>>
    BY DEF ApplyApart
  <1>4. RowsOK'
    BY <1>2, <1>3 DEF SchemaInv, RowsOK
  <1>5. ScriptsOK' /\ Alone' /\ PlansApply' /\ RecordedApply' /\ NoGaps' /\ PlansAreCurrent' /\ NothingIsRefused'
    BY <1>3 DEF SchemaInv, ScriptsOK, Alone, PlansApply, RecordedApply, NoGaps, PlansAreCurrent, NothingIsRefused,
                Orderly, IsRunning, On, Applies
  <1>6. RecordMatchesSchema'
    <2> SUFFICES ASSUME switches = 0, NEW g \in Files, Applies(g)
                 PROVE  IF g.version \in recorded THEN g.makes \subseteq objects' \union unfounded'
                        ELSE g.makes \cap objects' \subseteq ahead \union MadeApart
      BY <1>3, AppliesStill DEF RecordMatchesSchema, InHand, MadeApart
    <2> QED
      BY <1>2, <1>3 DEF SchemaInv, RecordMatchesSchema, InHand
  <1>7. ApartOK' /\ PlansAreNew'
    BY <1>1, <1>3 DEF SchemaInv, ApartInv, ApartOK, PlansAreNew, IsRunning, On, IsDue, CommitsItself
  <1>8. SeededOnce'
    <2> SUFFICES ASSUME concurrent = 0, breaks = 0
                 PROVE  seedings' = 1 /\ apart' # {}
      BY <1>3 DEF SeededOnce
    <2>1. 14 \notin recorded
      BY <1>1 DEF SchemaInv, ApartInv, PlansAreNew
    <2>2. apart = {}
      BY <1>1 DEF SchemaInv, ApartInv, ApartOK, Alone, RowsOK
    <2> QED
      BY <2>1, <2>2, <1>3 DEF SchemaInv, ApartInv, SeededOnce
  <1> QED
    BY <1>4, <1>5, <1>6, <1>7, <1>8 DEF SchemaInv, ApartInv

\* Its record, which another run may have written meanwhile, or whose tables it may have dropped.
LEMMA RecordKeeps ==
    ASSUME SchemaInv, NEW r \in Runs, NEW f \in script[r].plan, Record(r, f)
    PROVE  SchemaInv'
  <1> DEFINE rest == script[r].plan \ {f}
  <1>1. /\ IsRunning(r) /\ On(r, "up") /\ ~On(r, "ensure") /\ ~On(r, "down")
        /\ CommitsItself(f) /\ r \in apart /\ f.version = 14
    BY DEF Record, On, CommitsItself
  <1>2. f \in Files /\ script[r].plan \subseteq Files
    BY <1>1, ToDo DEF SchemaInv, On
  <1>3. /\ recorded' = recorded \union {f.version} /\ apart' = apart \ {r}
        /\ ahead' = ahead \ f.makes /\ unfounded' = unfounded \union (f.makes \ objects)
        /\ UNCHANGED <<objects, template, tracking, unexplained, seedings, switches, concurrent, breaks>>
    BY DEF Record
  <1>4. Continues(r, rest)
    BY <1>1, TicksOff DEF SchemaInv, Record
  <1>5. switches = 0 => \A g \in script[r].plan : Applies(g)
    BY <1>1 DEF SchemaInv, PlansApply
  <1>6. Orderly => /\ script[r].plan = {g \in Files : Applies(g) /\ g.version \notin recorded}
                   /\ \A g \in script[r].plan : f.version <= g.version
    BY <1>1 DEF SchemaInv, PlansAreCurrent, Record, IsDue
  <1>7. RowsOK'
    BY <1>2, <1>3 DEF SchemaInv, RowsOK, Versions
  <1>8. ScriptsOK' /\ Alone' /\ PlansApply'
    BY <1>1, <1>3, <1>4, <1>5, RunsStayApart, PlansStillApply DEF SchemaInv, Continues
  <1>9. RecordMatchesSchema'
    <2> SUFFICES ASSUME switches = 0, NEW g \in Files, Applies(g)
                 PROVE  IF g.version \in recorded' THEN g.makes \subseteq objects \union unfounded'
                        ELSE g.makes \cap objects \subseteq ahead'
      BY <1>3, AppliesStill DEF RecordMatchesSchema
    <2>1. CASE g = f
      BY <2>1, <1>3
    <2>2. CASE g # f
      <3>1. g.version # f.version
        BY <2>2, <1>2, <1>5, OneOfAVersion
      <3>2. g.makes \cap f.makes = {} /\ g.makes \cap MadeApart = {}
        BY <2>2, <1>1, <1>2, FilesAreApart, TheOneApart
      <3> QED
        BY <3>1, <3>2, <1>3 DEF SchemaInv, RecordMatchesSchema, InHand
    <2> QED
      BY <2>1, <2>2
  <1>10. RecordedApply'
    BY <1>2, <1>3, <1>5, AppliesStill DEF SchemaInv, RecordedApply
  <1>11. NoGaps'
    <2> SUFFICES ASSUME Orderly, NEW g \in Files, Applies(g), NEW v \in recorded', g.version < v
                 PROVE  g.version \in recorded'
      BY <1>3, AppliesStill DEF NoGaps, Orderly
    <2>1. CASE v \in recorded
      BY <2>1, <1>3 DEF SchemaInv, NoGaps
    <2>2. CASE v = f.version
      <3>1. f.version \in Nat /\ g.version \in Nat
        BY <1>2, FileShape
      <3>2. g \notin script[r].plan
        BY <3>1, <2>2, <1>6
      <3> QED
        BY <3>2, <1>3, <1>6
    <2> QED
      BY <2>1, <2>2, <1>3
  <1>12. PlansAreCurrent'
    <2>1. Orderly => rest = {g \in Files : Applies(g) /\ g.version \notin recorded'}
      BY <1>2, <1>3, <1>5, <1>6, OneOfAVersion DEF Orderly
    <2> QED
      BY <2>1, <1>1, <1>3, <1>4, PlansStayCurrent DEF SchemaInv
  <1>13. ApartInv'
    <2>1. \A g \in rest : ~CommitsItself(g)
      BY <1>1, <1>2, TheOneApart
    <2> QED
      BY <1>1, <1>3, <1>4, <2>1, ApartGoesOn
  <1> QED
    BY <1>3, <1>7, <1>8, <1>9, <1>10, <1>11, <1>12, <1>13 DEF SchemaInv, NothingIsRefused

\* A file rolled back: nothing recorded is above it.
LEMMA RollBackKeeps ==
    ASSUME SchemaInv, NEW r \in Runs, NEW f \in script[r].plan, RollBack(r, f)
    PROVE  /\ SchemaInv'
           /\ DownFromTheTop
  <1> DEFINE rest == script[r].plan \ {f}
  <1>1. IsRunning(r) /\ On(r, "down") /\ ~On(r, "ensure") /\ ~On(r, "up")
    BY DEF RollBack, On
  <1>2. f \in Files /\ script[r].plan \subseteq Files /\ f.version \in Nat
    BY <1>1, ToDo, FileShape DEF SchemaInv, On
  <1>3. /\ objects' = objects \ f.makes /\ recorded' = recorded \ {f.version}
        /\ ahead' = ahead \ f.makes /\ unfounded' = unfounded \ f.makes
        /\ seedings' = IF CommitsItself(f) THEN 0 ELSE seedings
        /\ UNCHANGED <<template, tracking, apart, unexplained, switches, concurrent, breaks>>
    BY DEF RollBack
  <1>4. Continues(r, rest)
    BY <1>1, TicksOff DEF SchemaInv, RollBack
  <1>5. switches = 0 => \A g \in script[r].plan : Applies(g)
    BY <1>1 DEF SchemaInv, PlansApply
  <1>6. Orderly => \A g \in script[r].plan :
            /\ g.version \in recorded /\ g.version <= f.version
            /\ \A h \in Files : Applies(h) /\ h.version \in recorded /\ h.version > g.version => h \in script[r].plan
    BY <1>1 DEF SchemaInv, PlansAreCurrent, RollBack, IsDue
  <1>7. RowsOK'
    BY <1>3 DEF SchemaInv, RowsOK
  <1>15. ApartInv'
    <2>1. r \notin apart
      BY <1>1, ApartIsAtIt
    <2>2. seedings' = 0 \/ (seedings' = seedings /\ (14 \in recorded => 14 \in recorded'))
      BY <1>3 DEF CommitsItself
    <2> QED
      BY <1>1, <1>3, <1>4, <2>1, <2>2, ApartGoesOn
  <1>8. ScriptsOK' /\ Alone' /\ PlansApply'
    BY <1>1, <1>3, <1>4, <1>5, RunsStayApart, PlansStillApply DEF SchemaInv, Continues
  <1>9. RecordMatchesSchema'
    <2> SUFFICES ASSUME switches = 0, NEW g \in Files, Applies(g)
                 PROVE  IF g.version \in recorded' THEN g.makes \subseteq objects' \union unfounded'
                        ELSE g.makes \cap objects' \subseteq ahead' \union InHand
      BY <1>3, AppliesStill DEF RecordMatchesSchema, InHand, MadeApart
    <2>1. CASE g = f
      BY <2>1, <1>3
    <2>2. CASE g # f
      <3>1. g.version # f.version
        BY <2>2, <1>2, <1>5, OneOfAVersion
      <3>2. g.makes \cap f.makes = {}
        BY <2>2, <1>2, FilesAreApart
      <3> QED
        BY <3>1, <3>2, <1>3 DEF SchemaInv, RecordMatchesSchema
    <2> QED
      BY <2>1, <2>2
  <1>10. RecordedApply'
    BY <1>3, AppliesStill DEF SchemaInv, RecordedApply
  <1>11. \* What is recorded is below what is rolled back.
         Orderly => \A g \in Files : Applies(g) /\ g.version \in recorded /\ g.version > f.version => FALSE
    <2> SUFFICES ASSUME Orderly, NEW g \in Files, Applies(g), g.version \in recorded, g.version > f.version
                 PROVE  FALSE
      OBVIOUS
    <2>1. g \in script[r].plan /\ g.version <= f.version
      BY <1>6
    <2>2. g.version \in Nat
      BY FileShape
    <2> QED
      BY <2>1, <2>2, <1>2
  <1>12. NoGaps'
    <2> SUFFICES ASSUME Orderly, NEW g \in Files, Applies(g), NEW v \in recorded', g.version < v
                 PROVE  g.version \in recorded'
      BY <1>3, AppliesStill DEF NoGaps, Orderly
    <2>1. g.version \in recorded
      BY <1>3 DEF SchemaInv, NoGaps
    <2>2. PICK h \in Files : Applies(h) /\ h.version = v
      BY <1>3 DEF SchemaInv, RecordedApply, Orderly
    <2>3. g.version # f.version
      BY <2>2, <1>3, <1>11
    <2> QED
      BY <2>1, <2>3, <1>3
  <1>13. PlansAreCurrent'
    <2>1. Orderly => \A g \in rest : g.version # f.version
      BY <1>2, <1>5, OneOfAVersion DEF Orderly
    <2>2. Orderly => \A g \in rest :
            /\ g.version \in recorded'
            /\ \A h \in Files : Applies(h) /\ h.version \in recorded' /\ h.version > g.version => h \in rest
      BY <2>1, <1>3, <1>6
    <2> QED
      BY <2>2, <1>1, <1>3, <1>4, PlansStayCurrent DEF SchemaInv
  <1>14. DownFromTheTop
    <2> SUFFICES ASSUME Orderly, NEW v \in recorded \ recorded', NEW w \in recorded'
                 PROVE  w < v
      BY DEF DownFromTheTop, Orderly
    <2>1. v = f.version /\ w \in recorded /\ w # v
      BY <1>3
    <2>2. PICK h \in Files : Applies(h) /\ h.version = w
      BY <2>1 DEF SchemaInv, RecordedApply, Orderly
    <2>3. w \in Nat /\ ~(w > f.version)
      BY <2>1, <2>2, <1>11, FileShape
    <2> QED
      BY <2>1, <2>3, <1>2
  <1> QED
    BY <1>3, <1>7, <1>8, <1>9, <1>10, <1>12, <1>13, <1>14, <1>15 DEF SchemaInv, NothingIsRefused

\* A run that is refused ends its command.
LEMMA RefusalEnds ==
    ASSUME SchemaInv, NEW r \in Runs, NEW f, IsRunning(r), Refuse(r, f),
           ~(Blameless /\ template = "ecommerce" /\ tracking),
           r \in apart => 14 \in recorded
    PROVE  SchemaInv'
  <1>1. /\ UNCHANGED <<objects, recorded, template, tracking, ahead, unfounded, unexplained, seedings, switches,
                       concurrent, breaks>>
        /\ apart' = apart \ {r}
    BY DEF Refuse
  <1>2. Continues(r, {})
    BY EndsCommand DEF Refuse, Abandon, SchemaInv
  <1>3. breaks' \in Nat /\ ahead \subseteq objects
    BY <1>1 DEF SchemaInv, RowsOK
  <1>4. r \in apart => \A x \in MadeApart \cap objects : ~Unrecorded(x)
    <2> SUFFICES ASSUME r \in apart, NEW x \in MadeApart, NEW g \in Files, x \in g.makes PROVE g.version \in recorded
      BY DEF Unrecorded
    <2>1. CommitsItself(g)
      BY TheOneApart
    <2> QED
      BY <2>1 DEF CommitsItself
  <1> QED
    BY <1>1, <1>2, <1>3, <1>4, OnlyScripts

\* With nothing to blame, what a file needs is there once the files before it are recorded.
LEMMA NeedsAreThere ==
    ASSUME SchemaInv, Blameless, template = "ecommerce", tracking, NEW f \in Files, Applies(f),
           \A g \in Files : Applies(g) /\ g.version < f.version => g.version \in recorded
    PROVE  f.needs \subseteq objects
  <1> SUFFICES ASSUME NEW x \in f.needs PROVE x \in objects
    OBVIOUS
  <1>1. PICK g \in Files : Applies(g) /\ x \in g.makes /\ g.version < f.version
    BY NeedsComeEarlier
  <1> QED
    BY <1>1 DEF SchemaInv, RecordMatchesSchema, Blameless

\* Nothing is refused that has nothing but earlier runs to blame.
LEMMA RefuseKeeps ==
    ASSUME SchemaInv, NEW r \in Runs, NEW f \in script[r].plan, RefuseFile(r, f)
    PROVE  SchemaInv'
  <1>1. IsRunning(r) /\ On(r, "up") /\ ~On(r, "down") /\ IsDue(r, f) /\ Refuses(r, f) /\ Refuse(r, f)
    BY DEF RefuseFile, On
  <1>2. f \in Files /\ f.version \in Nat /\ f.plain \subseteq f.makes /\ f.plain \subseteq Plain
    <2>1. f \in Files
      BY <1>1, ToDo DEF SchemaInv, On
    <2> QED
      BY <2>1, FileShape DEF Plain
  <1>3. ~(Blameless /\ template = "ecommerce" /\ tracking)
    <2> SUFFICES ASSUME Blameless, template = "ecommerce", tracking
                 PROVE  FALSE
      OBVIOUS
    <2>0. Orderly /\ unfounded = {} /\ ahead \cap Plain = {}
      BY DEF Blameless, Orderly
    <2>1. /\ script[r].plan = {g \in Files : Applies(g) /\ g.version \notin recorded}
          /\ \A g \in script[r].plan : f.version <= g.version
      BY <1>1, <2>0 DEF SchemaInv, PlansAreCurrent, IsDue
    <2>2. Applies(f) /\ f.version \notin recorded
      BY <2>1
    <2>3. f.plain \cap objects = {}
      <3>1. f.makes \cap objects \subseteq ahead \union MadeApart
        BY <1>2, <2>0, <2>2 DEF SchemaInv, RecordMatchesSchema, Orderly, InHand
      <3>2. f.plain \cap MadeApart = {}
        BY <1>2, TheOneApart
      <3> QED
        BY <3>1, <3>2, <1>2, <2>0
    <2>4. f.needs \subseteq objects
      <3>1. \A g \in Files : Applies(g) /\ g.version < f.version => g.version \in recorded
        BY <2>1, <1>2, FileShape
      <3> QED
        BY <3>1, <1>2, <2>2, NeedsAreThere
    <2> QED
      BY <1>1, <2>2, <2>3, <2>4 DEF Refuses, Fails
  <1>4. r \in apart => 14 \in recorded
    BY <1>1 DEF Refuses, CommitsItself
  <1> QED
    BY <1>1, <1>3, <1>4, RefusalEnds

\* Nor is a rollback: the tables it alters are those of files still recorded.
LEMMA RefuseRollbackKeeps ==
    ASSUME SchemaInv, NEW r \in Runs, NEW f \in script[r].plan, RefuseRollback(r, f)
    PROVE  SchemaInv'
  <1>1. IsRunning(r) /\ On(r, "down") /\ ~(Alters(f) \subseteq objects) /\ Refuse(r, f)
    BY DEF RefuseRollback, On
  <1>2. f \in Files
    BY <1>1, ToDo DEF SchemaInv, On
  <1>3. ~(Blameless /\ template = "ecommerce" /\ tracking)
    <2> SUFFICES ASSUME Blameless, template = "ecommerce", tracking
                 PROVE  FALSE
      OBVIOUS
    <2>1. Orderly
      BY DEF Blameless, Orderly
    <2>2. Applies(f) /\ f.version \in recorded
      BY <1>1, <2>1 DEF SchemaInv, PlansAreCurrent, PlansApply, Orderly, On
    <2>3. \A g \in Files : Applies(g) /\ g.version < f.version => g.version \in recorded
      BY <2>1, <2>2 DEF SchemaInv, NoGaps
    <2> QED
      BY <1>1, <1>2, <2>2, <2>3, NeedsAreThere, TheOneApart
  <1>4. r \notin apart
    BY <1>1, ApartIsAtIt
  <1> QED
    BY <1>1, <1>3, <1>4, RefusalEnds

\* What ensure_tables creates is ahead of its file, unless that is recorded.
LEMMA EnsureKeeps ==
    ASSUME SchemaInv, NEW r \in Runs, NEW s \in script[r].plan, Ensure(r, s)
    PROVE  SchemaInv'
  <1> DEFINE rest == script[r].plan \ {s}
             new == IF s.needs \subseteq objects THEN s.makes \ objects ELSE {}
  <1>1. IsRunning(r) /\ On(r, "ensure") /\ ~On(r, "up") /\ ~On(r, "down")
    BY DEF Ensure, On
  <1>2. s \in Ensured
    BY <1>1, ToDo DEF SchemaInv, On
  <1>3. /\ objects' = objects \union new /\ ahead' = ahead \union {x \in new : Unrecorded(x)}
        /\ unfounded' = unfounded \ new
        /\ UNCHANGED <<recorded, template, tracking, apart, unexplained, seedings, switches, concurrent, breaks>>
    BY DEF Ensure
  <1>4. Continues(r, rest)
    BY <1>1, TicksOff DEF SchemaInv, Ensure
  <1>5. new \subseteq AllObjects
    BY <1>2, EnsuredIsOfFiles
  <1> HIDE DEF new
  <1>6. RowsOK'
    BY <1>3, <1>5 DEF SchemaInv, RowsOK
  <1>7. ScriptsOK' /\ Alone' /\ PlansApply' /\ PlansAreCurrent'
    BY <1>1, <1>3, <1>4, RunsStayApart, PlansStillApply, PlansStayCurrent DEF SchemaInv, Continues
  <1>8. RecordMatchesSchema'
    <2> SUFFICES ASSUME switches = 0, NEW g \in Files, Applies(g)
                 PROVE  IF g.version \in recorded THEN g.makes \subseteq objects' \union unfounded'
                        ELSE g.makes \cap objects' \subseteq ahead' \union InHand
      BY <1>3, AppliesStill DEF RecordMatchesSchema, InHand, MadeApart
    <2>1. CASE g.version \in recorded
      BY <2>1, <1>3 DEF SchemaInv, RecordMatchesSchema
    <2>2. CASE g.version \notin recorded
      <3>1. \A x \in g.makes : Unrecorded(x)
        BY <2>2 DEF Unrecorded
      <3> QED
        BY <2>2, <3>1, <1>3 DEF SchemaInv, RecordMatchesSchema
    <2> QED
      BY <2>1, <2>2
  <1>9. RecordedApply' /\ NoGaps'
    BY <1>3 DEF SchemaInv, RecordedApply, NoGaps, Orderly, Applies
  <1>10. ApartInv'
    <2>1. r \notin apart
      BY <1>1, ApartIsAtIt
    <2> QED
      BY <1>1, <1>3, <1>4, <2>1, ApartGoesOn
  <1> QED
    BY <1>3, <1>6, <1>7, <1>8, <1>9, <1>10 DEF SchemaInv, NothingIsRefused

\* A baseline leaves no gap, but perhaps records without tables.
LEMMA BaselineKeeps ==
    ASSUME SchemaInv, NEW r \in Runs, Baseline(r)
    PROVE  SchemaInv'
  <1> DEFINE files == {f \in Files : Unseen(f)}
             brought == UNION {f.makes : f \in files}
             seen == {f.version : f \in files}
  <1>1. IsRunning(r) /\ On(r, "baseline") /\ ~On(r, "up") /\ ~On(r, "down")
    BY DEF Baseline, On
  <1>2. /\ recorded' = recorded \union seen /\ unfounded' = unfounded \union (brought \ objects)
        /\ ahead' = ahead \ brought
        /\ UNCHANGED <<objects, template, tracking, apart, unexplained, seedings, switches, concurrent, breaks>>
    BY DEF Baseline
  <1>3. Continues(r, {})
    BY <1>1, EndsCommand DEF SchemaInv, Baseline
  <1>4. RowsOK'
    <2>1. seen \subseteq Versions
      BY DEF Versions
    <2> HIDE DEF seen, brought
    <2> QED
      BY <1>2, <2>1 DEF SchemaInv, RowsOK
  <1>5. ScriptsOK' /\ Alone' /\ PlansApply' /\ PlansAreCurrent'
    <2>1. UNCHANGED <<template, tracking, switches, concurrent>>
      BY <1>2
    <2>2. ScriptsOK' /\ Alone'
      BY <1>1, <1>3, <2>1, RunsStayApart DEF SchemaInv, Continues
    <2>4. PlansApply'
      <3>1. switches = 0 /\ ~On(r, "ensure") => \A f \in {} : Applies(f)
        OBVIOUS
      <3> QED
        BY <1>1, <1>3, <2>1, <3>1, PlansStillApply DEF SchemaInv
    <2>3. PlansAreCurrent'
      BY <1>1, <1>3, <2>1, PlansStayCurrent DEF SchemaInv
    <2> QED
      BY <2>2, <2>3, <2>4
  <1>6. \A f \in files : f \in Files /\ Applies(f) /\ f.version <= Tracked
    BY DEF Unseen
  <1>7. RecordMatchesSchema'
    <2> SUFFICES ASSUME switches = 0, NEW g \in Files, Applies(g)
                 PROVE  IF g.version \in recorded' THEN g.makes \subseteq objects \union unfounded'
                        ELSE g.makes \cap objects \subseteq ahead' \union InHand
      BY <1>2, AppliesStill DEF RecordMatchesSchema, InHand, MadeApart
    <2>1. CASE g.version \in recorded
      BY <2>1, <1>2 DEF SchemaInv, RecordMatchesSchema
    <2>2. CASE g.version \notin recorded /\ g.version \in seen
      <3>1. g \in files
        BY <2>2, <1>6, OneOfAVersion
      <3>2. g.makes \subseteq brought
        BY <3>1
      <3> QED
        BY <2>2, <3>2, <1>2
    <2>3. CASE g.version \notin recorded /\ g.version \notin seen
      <3>1. g.makes \cap brought = {}
        BY <2>3, <1>6, FilesAreApart
      <3>2. g.makes \cap objects \subseteq ahead \union InHand
        BY <2>3 DEF SchemaInv, RecordMatchesSchema
      <3> HIDE DEF seen, brought
      <3> QED
        BY <2>3, <3>1, <3>2, <1>2
    <2> QED
      BY <2>1, <2>2, <2>3
  <1>8. RecordedApply'
    BY <1>2, <1>6, AppliesStill DEF SchemaInv, RecordedApply
  <1>9. NoGaps'
    <2> SUFFICES ASSUME Orderly, NEW g \in Files, Applies(g), NEW v \in recorded', g.version < v
                 PROVE  g.version \in recorded'
      BY <1>2, AppliesStill DEF NoGaps, Orderly
    <2>1. CASE v \in recorded
      BY <2>1, <1>2 DEF SchemaInv, NoGaps
    <2>2. CASE v \in seen
      <3>1. PICK f \in files : v = f.version
        BY <2>2
      <3>2. g.version <= Tracked
        BY <3>1, <1>6, FileShape DEF Tracked
      <3> QED
        BY <3>2, <1>2 DEF Unseen
    <2> QED
      BY <2>1, <2>2, <1>2
  <1>10. ApartInv'
    <2>1. r \notin apart
      BY <1>1, ApartIsAtIt
    <2>2. 14 \in recorded => 14 \in recorded'
      BY <1>2
    <2> QED
      BY <1>1, <1>2, <1>3, <2>1, <2>2, ApartGoesOn
  <1> QED
    BY <1>2, <1>4, <1>5, <1>7, <1>8, <1>9, <1>10 DEF SchemaInv, NothingIsRefused

\* A run cut off.
LEMMA BreakKeeps ==
    ASSUME SchemaInv, NEW r \in Runs, Break(r)
    PROVE  SchemaInv'
  <1>1. /\ IsRunning(r) /\ breaks' = breaks + 1 /\ breaks' \in Nat /\ breaks' # 0 /\ breaks' # breaks
        /\ UNCHANGED <<objects, recorded, template, tracking, unfounded, unexplained, seedings, switches, concurrent>>
        /\ apart' = apart \ {r}
        /\ ahead' = ahead \union IF r \in apart THEN {x \in MadeApart \cap objects : Unrecorded(x)} ELSE {}
        /\ ahead \subseteq objects
    BY DEF Break, SchemaInv, RowsOK
  <1>2. Continues(r, {})
    BY <1>1, EndsCommand DEF Break, Abandon, SchemaInv
  <1>3. /\ ahead \subseteq ahead' /\ ahead' \subseteq objects
        /\ r \in apart => \A x \in MadeApart \cap objects : Unrecorded(x) => x \in ahead'
    BY <1>1
  <1> QED
    BY <1>1, <1>2, <1>3, OnlyScripts

\* The plan is read.
LEMMA ReadKeeps ==
    ASSUME SchemaInv, NEW r \in Runs,
           \/ ReadPlan(r, "up", Pending) \/ ReadPlan(r, "ensure", Ensured)
           \/ \E target \in Targets : ReadPlan(r, "down", Rollbacks(target))
    PROVE  SchemaInv'
  <1> USE DEF Applicable
  <1> DEFINE Untouched ==
               /\ UNCHANGED <<objects, recorded, template, tracking, apart, ahead, unfounded, unexplained, seedings,
                              switches, concurrent, breaks>>
               /\ ahead \subseteq objects /\ apart' = apart \ {r} /\ r \notin apart
  <1>0. script[r].plan = {} /\ r \notin apart
    BY ApartIsAtIt DEF ReadPlan
  <1>1. CASE ReadPlan(r, "up", Pending)
    <2>1. Pending = {f \in Files : Applies(f) /\ f.version \notin recorded}
      BY DEF Pending, Versions
    <2>2. IsRunning(r) /\ Continues(r, Pending)
      BY <1>1, <2>1, PlanIsRead DEF SchemaInv
    <2>3. On(r, "up") /\ ~On(r, "down") /\ breaks' \in Nat /\ Untouched
      BY <1>0, <1>1 DEF ReadPlan, On, SchemaInv, RowsOK
    <2> QED
      BY <2>1, <2>2, <2>3, OnlyScripts
  <1>2. CASE ReadPlan(r, "ensure", Ensured)
    <2>1. IsRunning(r) /\ Continues(r, Ensured)
      BY <1>2, PlanIsRead DEF SchemaInv
    <2>2. On(r, "ensure") /\ ~On(r, "up") /\ ~On(r, "down") /\ breaks' \in Nat
          /\ Untouched
      BY <1>0, <1>2 DEF ReadPlan, On, SchemaInv, RowsOK
    <2> QED
      BY <2>1, <2>2, OnlyScripts
  <1>3. ASSUME NEW target \in Targets, ReadPlan(r, "down", Rollbacks(target)) PROVE SchemaInv'
    <2>1. /\ Rollbacks(target) \subseteq Files
          /\ \A f \in Rollbacks(target) : Applies(f) /\ f.version \in recorded /\ f.version > target
          /\ \A g \in Files : Applies(g) /\ g.version \in recorded /\ g.version > target => g \in Rollbacks(target)
      BY DEF Rollbacks
    <2>2. IsRunning(r) /\ Continues(r, Rollbacks(target))
      BY <1>3, <2>1, PlanIsRead DEF SchemaInv
    <2>3. On(r, "down") /\ ~On(r, "up") /\ breaks' \in Nat
          /\ Untouched
      BY <1>0, <1>3 DEF ReadPlan, On, SchemaInv, RowsOK
    <2>4. \A f \in Rollbacks(target) : \A g \in Files :
             Applies(g) /\ g.version \in recorded /\ g.version > f.version => g \in Rollbacks(target)
      BY <2>1, RunsAreKnown, FileShape
    <2> QED
      BY <2>1, <2>2, <2>3, <2>4, OnlyScripts
  <1> QED
    BY <1>1, <1>2, <1>3

\* A run begins, alone or counted.
LEMMA StartKeeps ==
    ASSUME SchemaInv, NEW r \in Runs, NEW kind \in RunKinds[r], StartRun(r, kind)
    PROVE  SchemaInv'
  <1> DEFINE x == Running(Steps(kind), {})
  <1>1. /\ concurrent' = concurrent + IF \E q \in Runs : IsRunning(q) THEN 1 ELSE 0
        /\ script' = [script EXCEPT ![r] = x]
        /\ UNCHANGED <<objects, recorded, template, tracking, apart, ahead, unfounded, unexplained, seedings,
                       switches, breaks>>
    BY DEF StartRun, SetTo
  <1>2. Steps(kind) \in Seq(Commands) /\ Steps(kind) # <<>>
    <2>1. kind \in {"deploy", "up", "down", "baseline"}
      BY RunsAreKnown
    <2>2. CASE kind = "deploy"
      BY <2>2 DEF Steps, Commands
    <2>3. CASE kind # "deploy"
      BY <2>1, <2>3 DEF Steps, Commands
    <2> QED
      BY <2>2, <2>3
  <1>3. x \in State /\ x.plan = {} /\ x.todo # <<>> /\ x.pc = "running"
    BY <1>2 DEF State, Running
  <1> HIDE DEF x
  <1>4. script' \in [Runs -> State] /\ script'[r] = x /\ \A q \in Runs \ {r} : script'[q] = script[q]
    BY <1>1, <1>3 DEF SchemaInv, ScriptsOK
  <1>5. ScriptsOK'
    BY <1>3, <1>4 DEF SchemaInv, ScriptsOK, IsRunning, On
  <1>6. RowsOK' /\ (concurrent' = 0 => concurrent = 0 /\ \A q \in Runs : ~IsRunning(q))
    BY <1>1 DEF SchemaInv, RowsOK
  <1>7. Alone'
    BY <1>4, <1>6 DEF Alone, IsRunning
  <1>8. PlansApply'
    BY <1>1, <1>3, <1>4, AppliesStill DEF SchemaInv, PlansApply, IsRunning, On
  <1>9. PlansAreCurrent'
    BY <1>3, <1>4, <1>6 DEF PlansAreCurrent, Orderly, IsRunning, On
  <1>10. RecordMatchesSchema' /\ RecordedApply' /\ NoGaps' /\ NothingIsRefused'
    BY <1>1, <1>6 DEF SchemaInv, RecordMatchesSchema, RecordedApply, NoGaps, NothingIsRefused, Orderly, Applies,
                      InHand, MadeApart
  <1>11. ApartOK'
    <2> SUFFICES ASSUME NEW q \in apart
                 PROVE  (/\ IsRunning(q) /\ On(q, "up")
                         /\ \E f \in script[q].plan : CommitsItself(f) /\ IsDue(q, f))'
      BY <1>1 DEF ApartOK
    <2>1. /\ IsRunning(q) /\ On(q, "up") /\ q \in Runs
          /\ \E f \in script[q].plan : CommitsItself(f) /\ IsDue(q, f)
      BY DEF SchemaInv, ApartInv, ApartOK, RowsOK
    <2>2. script'[q] = script[q]
      BY <2>1, <1>4 DEF StartRun, IsRunning
    <2> QED
      BY <2>1, <2>2 DEF IsRunning, On, IsDue
  <1>12. PlansAreNew' /\ SeededOnce'
    BY <1>1, <1>3, <1>4, <1>6 DEF SchemaInv, ApartInv, PlansAreNew, SeededOnce, IsRunning, On, CommitsItself
  <1> QED
    BY <1>5, <1>6, <1>7, <1>8, <1>9, <1>10, <1>11, <1>12 DEF SchemaInv, ApartInv

\* With other settings nothing is promised but the types, and that runs are counted.
LEMMA SwitchKeeps == ASSUME SchemaInv, Switch PROVE SchemaInv'
  <1>1. /\ switches' \in Nat /\ switches' # 0
        /\ template' \in {"ecommerce", "saas"} /\ tracking' \in BOOLEAN
        /\ UNCHANGED <<objects, recorded, script, apart, ahead, unfounded, unexplained, seedings, concurrent, breaks>>
    <2>1. switches \in Nat /\ switches' = switches + 1
      BY DEF Switch, SchemaInv, RowsOK
    <2>2. template' \in {"ecommerce", "saas"}
      BY DEF Switch, SchemaInv, RowsOK
    <2>3. tracking' \in BOOLEAN
      BY Zenon DEF Switch, SchemaInv, RowsOK
    <2> QED
      BY <2>1, <2>2, <2>3 DEF Switch
  <1>2. RowsOK' /\ ScriptsOK' /\ Alone' /\ NothingIsRefused'
    BY <1>1 DEF SchemaInv, RowsOK, ScriptsOK, Alone, NothingIsRefused, IsRunning, On
  <1>3. RecordMatchesSchema' /\ PlansApply' /\ RecordedApply' /\ NoGaps' /\ PlansAreCurrent'
    BY <1>1 DEF RecordMatchesSchema, PlansApply, RecordedApply, NoGaps, PlansAreCurrent, Orderly
  <1>4. ApartInv'
    BY <1>1 DEF SchemaInv, ApartInv, ApartOK, PlansAreNew, SeededOnce, IsRunning, On, IsDue, CommitsItself
  <1> QED
    BY <1>2, <1>3, <1>4 DEF SchemaInv

\* Nothing happens.
LEMMA StutterKeeps == ASSUME SchemaInv, UNCHANGED schemaVars PROVE SchemaInv'
  BY DEF ApartInv, ApartOK, PlansAreNew, SeededOnce, IsDue, CommitsItself, InHand, MadeApart,
         SchemaInv, RowsOK, ScriptsOK, Alone, RecordMatchesSchema, PlansApply, RecordedApply, NoGaps,
         PlansAreCurrent, NothingIsRefused, Orderly, IsRunning, On, Applies, schemaVars

\* Nothing is recorded.
LEMMA SchemaBegins == SchemaInit => SchemaInv
  <1> SUFFICES ASSUME SchemaInit PROVE SchemaInv
    OBVIOUS
  <1>1. objects \subseteq AllObjects
    BY DEF SchemaInit, AllObjects, Old
  <1>2. NotRunning("idle") \in State /\ NotRunning("idle").pc = "idle"
    BY EmptySeq DEF State, NotRunning
  <1>3. RowsOK /\ ScriptsOK /\ \A r \in Runs : ~IsRunning(r)
    BY <1>1, <1>2 DEF SchemaInit, RowsOK, ScriptsOK, IsRunning
  <1> QED
    BY <1>3 DEF SchemaInit, SchemaInv, Alone, RecordMatchesSchema, PlansApply, RecordedApply, NoGaps,
                PlansAreCurrent, NothingIsRefused, ApartInv, ApartOK, PlansAreNew, SeededOnce

\* Every step.
LEMMA SchemaStays ==
    ASSUME SchemaInv, [SchemaNext]_schemaVars
    PROVE  SchemaInv'
  <1>1. ASSUME NEW r \in Runs, Command(r) PROVE SchemaInv'
    <2>1. ASSUME NEW f \in script[r].plan,
                 \/ Apply(r, f) \/ ApplyApart(r, f) \/ Record(r, f) \/ RefuseFile(r, f)
                 \/ RollBack(r, f) \/ RefuseRollback(r, f) \/ Ensure(r, f)
          PROVE  SchemaInv'
      BY <2>1, ApplyKeeps, ApplyApartKeeps, RecordKeeps, RefuseKeeps, RollBackKeeps, RefuseRollbackKeeps, EnsureKeeps
    <2> QED
      BY <1>1, <2>1, BaselineKeeps, BreakKeeps, ReadKeeps DEF Command
  <1>2. ASSUME NEW r \in Runs, NEW kind \in RunKinds[r], StartRun(r, kind) PROVE SchemaInv'
    BY <1>2, StartKeeps
  <1> QED
    BY <1>1, <1>2, SwitchKeeps, StutterKeeps DEF SchemaNext

\* Only a rollback takes something from the record.
LEMMA OnlyFromTheTop ==
    ASSUME SchemaInv, SchemaNext
    PROVE  DownFromTheTop
  <1>1. ASSUME NEW r \in Runs, NEW f \in script[r].plan, RollBack(r, f) PROVE DownFromTheTop
    BY <1>1, RollBackKeeps
  <1>2. CASE recorded \subseteq recorded'
    BY <1>2 DEF DownFromTheTop
  <1>3. ASSUME NEW r \in Runs, Command(r), ~\E f \in script[r].plan : RollBack(r, f) PROVE recorded \subseteq recorded'
    BY <1>3 DEF Command, Baseline, Break, ReadPlan, Apply, ApplyApart, Record, Applied, RefuseFile, RefuseRollback,
                Refuse, Ensure
  <1>4. ASSUME NEW r \in Runs, NEW kind \in RunKinds[r], StartRun(r, kind) PROVE recorded \subseteq recorded'
    BY <1>4 DEF StartRun
  <1>5. Switch => recorded \subseteq recorded'
    BY DEF Switch
  <1> QED
    BY <1>1, <1>2, <1>3, <1>4, <1>5 DEF SchemaNext

-----------------------------------------------------------------------------
(* Theorems *)

\* The record of migrations is the schema, but for what a baseline took for granted, what was there
\* before its file, and the table of the file that commits itself while a run is about to record it
\* or once one was cut off before; no file is refused, up or down, that has nothing but earlier runs
\* to blame; and the tiers are seeded once unless runs overlap or are cut off.
THEOREM RecordIsTheSchema == SchemaSpec => []SchemaIsAsRecorded
  <1>1. SchemaInv => TiersSeededOnce
    BY DEF SchemaInv, ApartInv, SeededOnce, TiersSeededOnce
  <1>2. SchemaInv => SchemaIsAsRecorded
    BY <1>1 DEF SchemaInv, SchemaIsAsRecorded
  <1> QED
    BY <1>2, SchemaBegins, SchemaStays, PTL DEF SchemaSpec

\* Types.
THEOREM SchemaTypes == SchemaSpec => []SchemaTypeOK
  <1>1. SchemaInv => SchemaTypeOK
    BY TypesFollow DEF SchemaInv
  <1> QED
    BY <1>1, SchemaBegins, SchemaStays, PTL DEF SchemaSpec

\* One run at a time and under the settings it was applied with, a file is only rolled back when
\* nothing after it is applied.
THEOREM FromTheTop == SchemaSpec => [][DownFromTheTop]_schemaVars
  <1>1. SchemaInv /\ [SchemaNext]_schemaVars => [DownFromTheTop]_schemaVars
    BY OnlyFromTheTop
  <1> QED
    BY <1>1, SchemaBegins, SchemaStays, PTL DEF SchemaSpec
=============================================================================
