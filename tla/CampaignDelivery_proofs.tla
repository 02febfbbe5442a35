------------------------ MODULE CampaignDelivery_proofs ------------------------
(***************************************************************************)
(* For any number of deliveries, recipients and faults: nobody gets a      *)
(* campaign twice, a campaign that is 'sent' has forgotten nobody, a row   *)
(* that says 'failed' is right about it, and where the consent query works *)
(* nobody who has withdrawn in time gets a message; rows and counts tell   *)
(* what has happened.                                                      *)
(*                                                                         *)
(* The argument: the INSERT makes a delivery the owner of a recipient's    *)
(* row (RowsOwned), and only the owner sends. What a delivery does not     *)
(* have before it has a row already (EveryoneReached), its own or another  *)
(* delivery's, and without a fault a row without an owner has been settled *)
(* (RowsSettled). A delivery that has been alone has counted every message *)
(* (LoneCounted), and a row that a report has written has its message id   *)
(* (ReportedHaveId), so that late reports and raised sends find it as they *)
(* should.                                                                 *)
(***************************************************************************)
EXTENDS CampaignDelivery, FiniteSetTheorems, TLAPS

-----------------------------------------------------------------------------
(* The inductive invariant *)

\* No row, no owner and no fault at first.
LEMMA InitKeeps == Init => IInv
<1> SUFFICES ASSUME Init PROVE IInv
  OBVIOUS
<1> USE NobodyIsNoUser DEF Init
<1>1. TypeOK
  BY UsersAreKnown, FaultsAreCounted DEF TypeOK
<1>2. RowsOwned
  BY DEF RowsOwned, AtMostOneMessage
<1>3. EveryoneReached
  BY DEF EveryoneReached
<1>4. RowsSettled
  BY DEF RowsSettled, FailedWasNotSent
<1> QED
  BY <1>1, <1>2, <1>3, <1>4 DEF IInv

\* A step keeps the types; that of a send needs a recipient to send to.
LEMMA TypeStep ==
    ASSUME TypeOK, RowsOwned, [Next]_vars
    PROVE  TypeOK'
<1> USE DEF TypeOK, RowStatuses, vars, rowVars, deliveryVars
<1>1. ASSUME NEW d \in Deliveries, Accept(d)
       PROVE  TypeOK'
  BY <1>1 DEF Accept, Goto
<1>2. ASSUME NEW d \in Deliveries, Refuse(d)
       PROVE  TypeOK'
  BY <1>2 DEF Refuse, Goto
<1>3. ASSUME NEW d \in Deliveries, Mark(d)
       PROVE  TypeOK'
  BY <1>3 DEF Mark, Goto
<1>4. ASSUME NEW d \in Deliveries, Resolve(d)
       PROVE  TypeOK'
  BY <1>4 DEF Resolve, Goto, Eligible, Audience
<1>5. ASSUME NEW d \in Deliveries, Empty(d)
       PROVE  TypeOK'
  BY <1>5 DEF Empty, Goto, Eligible
<1>6. ASSUME NEW d \in Deliveries, Finish(d)
       PROVE  TypeOK'
  BY <1>6 DEF Finish, Goto
<1>7. ASSUME NEW d \in Deliveries, FinishFails(d)
       PROVE  TypeOK'
  BY <1>7 DEF FinishFails, Goto, Fault
<1>8. ASSUME NEW d \in Deliveries, CutOff(d)
       PROVE  TypeOK'
  BY <1>8 DEF CutOff, Goto, Fault, Underway
<1>9. ASSUME NEW d \in Deliveries, GuardPasses(d)
       PROVE  TypeOK'
  BY <1>9 DEF GuardPasses, Goto, MayPass
<1>10. ASSUME NEW d \in Deliveries, GuardRefuses(d)
       PROVE  TypeOK'
  BY <1>10 DEF GuardRefuses, SetRow, Leave, Goto
<1>11. ASSUME NEW d \in Deliveries, GuardFails(d)
       PROVE  TypeOK'
  BY <1>11 DEF GuardFails, Goto, Fault
<1>12. ASSUME NEW d \in Deliveries, Send(d)
       PROVE  TypeOK'
  BY <1>12 DEF Send, Goto, RowsOwned
<1>13. ASSUME NEW d \in Deliveries, SendRefused(d)
       PROVE  TypeOK'
  BY <1>13 DEF SendRefused, Goto
<1>14. ASSUME NEW d \in Deliveries, SendTimesOut(d)
       PROVE  TypeOK'
  BY <1>14 DEF SendTimesOut, Goto, Fault, RowsOwned
<1>15. ASSUME NEW d \in Deliveries, RenderFails(d)
       PROVE  TypeOK'
  BY <1>15 DEF RenderFails, Goto
<1>16. ASSUME NEW d \in Deliveries, Store(d)
       PROVE  TypeOK'
  BY <1>16 DEF Store, Leave, Goto, RowsOwned
<1>17. ASSUME NEW d \in Deliveries, Drop(d)
       PROVE  TypeOK'
  BY <1>17 DEF Drop, SetRow, Leave, Goto
<1>18. ASSUME NEW d \in Deliveries, StoreFails(d)
       PROVE  TypeOK'
  BY <1>18 DEF StoreFails, Goto, Fault, RowsOwned
<1>19. ASSUME NEW d \in Deliveries, DropFails(d)
       PROVE  TypeOK'
  BY <1>19 DEF DropFails, Goto, Fault
<1>20. ASSUME NEW d \in Deliveries, MarkException(d)
       PROVE  TypeOK'
  BY <1>20 DEF MarkException, SetRow, Leave, Goto
<1>21. ASSUME NEW d \in Deliveries, MarkExceptionFails(d)
       PROVE  TypeOK'
  BY <1>21 DEF MarkExceptionFails, Leave, Fault, Goto
<1>22. ASSUME NEW d \in Deliveries, NEW u \in Users, Insert(d, u)
       PROVE  TypeOK'
  BY <1>22 DEF Insert, Goto, SetRow
<1>23. ASSUME NEW d \in Deliveries, NEW u \in Users, SkipDuplicate(d, u)
       PROVE  TypeOK'
  BY <1>23 DEF SkipDuplicate
<1>24. ASSUME NEW d \in Deliveries, NEW u \in Users, InsertFails(d, u)
       PROVE  TypeOK'
  BY <1>24 DEF InsertFails, SetRow, Fault
<1>25. ASSUME Cancel
       PROVE  TypeOK'
  BY <1>25 DEF Cancel
<1>26. ASSUME NEW u \in Users, Withdraw(u)
       PROVE  TypeOK'
  BY <1>26 DEF Withdraw
<1>27. ASSUME NEW u \in Users, NEW kind \in RowStatuses, Report(u, kind)
       PROVE  TypeOK'
  BY <1>27 DEF Report, SetRow, Reported
<1>28. CASE UNCHANGED vars
  BY <1>28
<1> QED
  BY <1>1, <1>2, <1>3, <1>4, <1>5, <1>6, <1>7, <1>8, <1>9, <1>10, <1>11,
     <1>12, <1>13, <1>14, <1>15, <1>16, <1>17, <1>18, <1>19, <1>20, <1>21,
     <1>22, <1>23, <1>24, <1>25, <1>26, <1>27, <1>28
  DEF Next, Deliver, Recipient, Fail, Outside

\* The INSERT finds no row, hence no message and nobody else at it.
LEMMA InsertOwns ==
    ASSUME TypeOK, RowsOwned, NEW d \in Deliveries, NEW u \in Users, Insert(d, u)
    PROVE  RowsOwned'
<1>1. /\ u # Nobody /\ row[u] = "none" /\ pc[d] = "next"
      /\ row' = [row EXCEPT ![u] = "sending"] /\ pc' = [pc EXCEPT ![d] = "guard"]
      /\ who' = [who EXCEPT ![d] = u] /\ copies' = copies /\ msgid' = msgid
  BY NobodyIsNoUser DEF Insert, Goto, SetRow
<1>2. /\ copies[u] \in Nat /\ copies[u] = 0 /\ u \notin msgid
      /\ \A c \in Deliveries : who[c] # u
  BY <1>1 DEF TypeOK, RowsOwned
<1>3. /\ \A c \in Deliveries \ {d} : who'[c] = who[c] /\ pc'[c] = pc[c]
      /\ who'[d] = u /\ pc'[d] = "guard"
      /\ \A v \in Users \ {u} : row'[v] = row[v]
      /\ row'[u] = "sending"
  BY <1>1 DEF TypeOK
<1>4. \A c \in Deliveries \ {d} : who[c] # Nobody => who[c] \in Users \ {u}
  BY <1>2 DEF TypeOK
<1>5. \A c \in Deliveries :
          /\ who'[c] # Nobody <=> pc'[c] \in {"guard", "send", "store", "drop", "except"}
          /\ who'[c] # Nobody => row'[who'[c]] # "none"
          /\ pc'[c] \in {"guard", "send"} => copies'[who'[c]] = 0
          /\ pc'[c] = "store" => copies'[who'[c]] = 1
          /\ pc'[c] \in {"guard", "send", "store", "drop"} =>
                 row'[who'[c]] = "sending" /\ who'[c] \notin msgid'
  BY <1>1, <1>2, <1>3, <1>4 DEF RowsOwned
<1>6. \A b, c \in Deliveries : who'[b] = who'[c] /\ who'[b] # Nobody => b = c
  BY <1>2, <1>3 DEF RowsOwned
<1>7. /\ \A v \in Users : copies'[v] > 0 => row'[v] # "none"
      /\ \A v \in msgid' : copies'[v] = 1
      /\ AtMostOneMessage'
  BY <1>1, <1>3 DEF RowsOwned, AtMostOneMessage
<1> QED
  BY <1>5, <1>6, <1>7 DEF RowsOwned

\* Only its owner touches a row that is not settled, and reports need a stored
\* message id.
LEMMA OwnerStep ==
    ASSUME TypeOK, RowsOwned, [Next]_vars
    PROVE  RowsOwned'
<1> USE NobodyIsNoUser DEF TypeOK, RowStatuses, RowsOwned, AtMostOneMessage,
           vars, rowVars, deliveryVars
<1>1. ASSUME NEW d \in Deliveries, Accept(d)
       PROVE  RowsOwned'
  BY <1>1 DEF Accept, Goto
<1>2. ASSUME NEW d \in Deliveries, Refuse(d)
       PROVE  RowsOwned'
  BY <1>2 DEF Refuse, Goto
<1>3. ASSUME NEW d \in Deliveries, Mark(d)
       PROVE  RowsOwned'
  BY <1>3 DEF Mark, Goto
<1>4. ASSUME NEW d \in Deliveries, Resolve(d)
       PROVE  RowsOwned'
  BY <1>4 DEF Resolve, Goto, Eligible
<1>5. ASSUME NEW d \in Deliveries, Empty(d)
       PROVE  RowsOwned'
  BY <1>5 DEF Empty, Goto, Eligible
<1>6. ASSUME NEW d \in Deliveries, Finish(d)
       PROVE  RowsOwned'
  BY <1>6 DEF Finish, Goto
<1>7. ASSUME NEW d \in Deliveries, FinishFails(d)
       PROVE  RowsOwned'
  BY <1>7 DEF FinishFails, Goto, Fault
<1>8. ASSUME NEW d \in Deliveries, CutOff(d)
       PROVE  RowsOwned'
  BY <1>8 DEF CutOff, Goto, Fault, Underway
<1>9. ASSUME NEW d \in Deliveries, GuardPasses(d)
       PROVE  RowsOwned'
  BY <1>9 DEF GuardPasses, Goto, MayPass
<1>10. ASSUME NEW d \in Deliveries, GuardRefuses(d)
       PROVE  RowsOwned'
  BY <1>10 DEF GuardRefuses, SetRow, Leave, Goto
<1>11. ASSUME NEW d \in Deliveries, GuardFails(d)
       PROVE  RowsOwned'
  BY <1>11 DEF GuardFails, Goto, Fault
<1>12. ASSUME NEW d \in Deliveries, Send(d)
       PROVE  RowsOwned'
  BY <1>12 DEF Send, Goto
<1>13. ASSUME NEW d \in Deliveries, SendRefused(d)
       PROVE  RowsOwned'
  BY <1>13 DEF SendRefused, Goto
<1>14. ASSUME NEW d \in Deliveries, SendTimesOut(d)
       PROVE  RowsOwned'
  BY <1>14 DEF SendTimesOut, Goto, Fault
<1>15. ASSUME NEW d \in Deliveries, RenderFails(d)
       PROVE  RowsOwned'
  BY <1>15 DEF RenderFails, Goto
<1>16. ASSUME NEW d \in Deliveries, Store(d)
       PROVE  RowsOwned'
  BY <1>16 DEF Store, Leave, Goto
<1>17. ASSUME NEW d \in Deliveries, Drop(d)
       PROVE  RowsOwned'
  BY <1>17 DEF Drop, SetRow, Leave, Goto
<1>18. ASSUME NEW d \in Deliveries, StoreFails(d)
       PROVE  RowsOwned'
  BY <1>18 DEF StoreFails, Goto, Fault
<1>19. ASSUME NEW d \in Deliveries, DropFails(d)
       PROVE  RowsOwned'
  BY <1>19 DEF DropFails, Goto, Fault
<1>20. ASSUME NEW d \in Deliveries, MarkException(d)
       PROVE  RowsOwned'
  BY <1>20 DEF MarkException, SetRow, Leave, Goto
<1>21. ASSUME NEW d \in Deliveries, MarkExceptionFails(d)
       PROVE  RowsOwned'
  BY <1>21 DEF MarkExceptionFails, Leave, Fault, Goto
<1>22. ASSUME NEW d \in Deliveries, NEW u \in Users, Insert(d, u)
       PROVE  RowsOwned'
  BY <1>22, InsertOwns
<1>23. ASSUME NEW d \in Deliveries, NEW u \in Users, SkipDuplicate(d, u)
       PROVE  RowsOwned'
  BY <1>23 DEF SkipDuplicate
<1>24. ASSUME NEW d \in Deliveries, NEW u \in Users, InsertFails(d, u)
       PROVE  RowsOwned'
  BY <1>24 DEF InsertFails, SetRow, Fault
<1>25. ASSUME Cancel
       PROVE  RowsOwned'
  BY <1>25 DEF Cancel
<1>26. ASSUME NEW u \in Users, Withdraw(u)
       PROVE  RowsOwned'
  BY <1>26 DEF Withdraw
<1>27. ASSUME NEW u \in Users, NEW kind \in RowStatuses, Report(u, kind)
       PROVE  RowsOwned'
  BY <1>27 DEF Report, SetRow, Reported
<1>28. CASE UNCHANGED vars
  BY <1>28
<1> HIDE DEF TypeOK, RowStatuses, RowsOwned, AtMostOneMessage, vars, rowVars, deliveryVars
<1>29. ASSUME NEW d \in Deliveries, Deliver(d)
       PROVE  RowsOwned'
  BY <1>29, <1>3, <1>4, <1>5, <1>6, <1>9, <1>10, <1>12, <1>13, <1>15, <1>16, <1>17, <1>20, <1>22, <1>23
  DEF Deliver, Recipient
<1>30. ASSUME NEW d \in Deliveries, Fail(d)
       PROVE  RowsOwned'
  BY <1>30, <1>7, <1>8, <1>11, <1>14, <1>18, <1>19, <1>21, <1>24 DEF Fail
<1>31. CASE Outside
  BY <1>31, <1>25, <1>26, <1>27 DEF Outside, RowStatuses
<1> QED
  BY <1>1, <1>2, <1>28, <1>29, <1>30, <1>31 DEF Next

\* A row stays once it is there, and the audience only shrinks.
LEMMA ReachStep ==
    ASSUME TypeOK, RowsOwned, EveryoneReached, [Next]_vars
    PROVE  EveryoneReached'
<1> USE NobodyIsNoUser DEF TypeOK, RowStatuses, RowsOwned, EveryoneReached, Audience,
           vars, rowVars, deliveryVars
<1>1. ASSUME NEW d \in Deliveries, Accept(d)
       PROVE  EveryoneReached'
  BY <1>1 DEF Accept, Goto
<1>2. ASSUME NEW d \in Deliveries, Refuse(d)
       PROVE  EveryoneReached'
  BY <1>2 DEF Refuse, Goto
<1>3. ASSUME NEW d \in Deliveries, Mark(d)
       PROVE  EveryoneReached'
  BY <1>3 DEF Mark, Goto
<1>4. ASSUME NEW d \in Deliveries, Resolve(d)
       PROVE  EveryoneReached'
  BY <1>4 DEF Resolve, Goto, Eligible
<1>5. ASSUME NEW d \in Deliveries, Empty(d)
       PROVE  EveryoneReached'
  BY <1>5 DEF Empty, Goto, Eligible
<1>6. ASSUME NEW d \in Deliveries, Finish(d)
       PROVE  EveryoneReached'
  BY <1>6 DEF Finish, Goto
<1>7. ASSUME NEW d \in Deliveries, FinishFails(d)
       PROVE  EveryoneReached'
  BY <1>7 DEF FinishFails, Goto, Fault
<1>8. ASSUME NEW d \in Deliveries, CutOff(d)
       PROVE  EveryoneReached'
  BY <1>8 DEF CutOff, Goto, Fault, Underway
<1>9. ASSUME NEW d \in Deliveries, GuardPasses(d)
       PROVE  EveryoneReached'
  BY <1>9 DEF GuardPasses, Goto, MayPass
<1>10. ASSUME NEW d \in Deliveries, GuardRefuses(d)
       PROVE  EveryoneReached'
  BY <1>10 DEF GuardRefuses, SetRow, Leave, Goto
<1>11. ASSUME NEW d \in Deliveries, GuardFails(d)
       PROVE  EveryoneReached'
  BY <1>11 DEF GuardFails, Goto, Fault
<1>12. ASSUME NEW d \in Deliveries, Send(d)
       PROVE  EveryoneReached'
  BY <1>12 DEF Send, Goto
<1>13. ASSUME NEW d \in Deliveries, SendRefused(d)
       PROVE  EveryoneReached'
  BY <1>13 DEF SendRefused, Goto
<1>14. ASSUME NEW d \in Deliveries, SendTimesOut(d)
       PROVE  EveryoneReached'
  BY <1>14 DEF SendTimesOut, Goto, Fault
<1>15. ASSUME NEW d \in Deliveries, RenderFails(d)
       PROVE  EveryoneReached'
  BY <1>15 DEF RenderFails, Goto
<1>16. ASSUME NEW d \in Deliveries, Store(d)
       PROVE  EveryoneReached'
  BY <1>16 DEF Store, Leave, Goto
<1>17. ASSUME NEW d \in Deliveries, Drop(d)
       PROVE  EveryoneReached'
  BY <1>17 DEF Drop, SetRow, Leave, Goto
<1>18. ASSUME NEW d \in Deliveries, StoreFails(d)
       PROVE  EveryoneReached'
  BY <1>18 DEF StoreFails, Goto, Fault
<1>19. ASSUME NEW d \in Deliveries, DropFails(d)
       PROVE  EveryoneReached'
  BY <1>19 DEF DropFails, Goto, Fault
<1>20. ASSUME NEW d \in Deliveries, MarkException(d)
       PROVE  EveryoneReached'
  BY <1>20 DEF MarkException, SetRow, Leave, Goto
<1>21. ASSUME NEW d \in Deliveries, MarkExceptionFails(d)
       PROVE  EveryoneReached'
  BY <1>21 DEF MarkExceptionFails, Leave, Fault, Goto
<1>22. ASSUME NEW d \in Deliveries, NEW u \in Users, Insert(d, u)
       PROVE  EveryoneReached'
  BY <1>22 DEF Insert, Goto, SetRow
<1>23. ASSUME NEW d \in Deliveries, NEW u \in Users, SkipDuplicate(d, u)
       PROVE  EveryoneReached'
  BY <1>23 DEF SkipDuplicate
<1>24. ASSUME NEW d \in Deliveries, NEW u \in Users, InsertFails(d, u)
       PROVE  EveryoneReached'
  BY <1>24 DEF InsertFails, SetRow, Fault
<1>25. ASSUME Cancel
       PROVE  EveryoneReached'
  BY <1>25 DEF Cancel
<1>26. ASSUME NEW u \in Users, Withdraw(u)
       PROVE  EveryoneReached'
  BY <1>26 DEF Withdraw
<1>27. ASSUME NEW u \in Users, NEW kind \in RowStatuses, Report(u, kind)
       PROVE  EveryoneReached'
  BY <1>27 DEF Report, SetRow, Reported
<1>28. CASE UNCHANGED vars
  BY <1>28
<1> QED
  BY <1>1, <1>2, <1>3, <1>4, <1>5, <1>6, <1>7, <1>8, <1>9, <1>10, <1>11,
     <1>12, <1>13, <1>14, <1>15, <1>16, <1>17, <1>18, <1>19, <1>20, <1>21,
     <1>22, <1>23, <1>24, <1>25, <1>26, <1>27, <1>28
  DEF Next, Deliver, Recipient, Fail, Outside

\* Whoever leaves a row has sent its message or marked it failed.
LEMMA SettleStep ==
    ASSUME TypeOK, RowsOwned, RowsSettled, [Next]_vars
    PROVE  RowsSettled'
<1> USE NobodyIsNoUser DEF TypeOK, RowStatuses, RowsOwned, AtMostOneMessage, RowsSettled,
           FailedWasNotSent, vars, rowVars, deliveryVars
<1>1. ASSUME NEW d \in Deliveries, Accept(d)
       PROVE  RowsSettled'
  BY <1>1 DEF Accept, Goto
<1>2. ASSUME NEW d \in Deliveries, Refuse(d)
       PROVE  RowsSettled'
  BY <1>2 DEF Refuse, Goto
<1>3. ASSUME NEW d \in Deliveries, Mark(d)
       PROVE  RowsSettled'
  BY <1>3 DEF Mark, Goto
<1>4. ASSUME NEW d \in Deliveries, Resolve(d)
       PROVE  RowsSettled'
  BY <1>4 DEF Resolve, Goto, Eligible
<1>5. ASSUME NEW d \in Deliveries, Empty(d)
       PROVE  RowsSettled'
  BY <1>5 DEF Empty, Goto, Eligible
<1>6. ASSUME NEW d \in Deliveries, Finish(d)
       PROVE  RowsSettled'
  BY <1>6 DEF Finish, Goto
<1>7. ASSUME NEW d \in Deliveries, FinishFails(d)
       PROVE  RowsSettled'
  BY <1>7 DEF FinishFails, Goto, Fault
<1>8. ASSUME NEW d \in Deliveries, CutOff(d)
       PROVE  RowsSettled'
  BY <1>8 DEF CutOff, Goto, Fault, Underway
<1>9. ASSUME NEW d \in Deliveries, GuardPasses(d)
       PROVE  RowsSettled'
  BY <1>9 DEF GuardPasses, Goto, MayPass
<1>10. ASSUME NEW d \in Deliveries, GuardRefuses(d)
       PROVE  RowsSettled'
  BY <1>10 DEF GuardRefuses, SetRow, Leave, Goto
<1>11. ASSUME NEW d \in Deliveries, GuardFails(d)
       PROVE  RowsSettled'
  BY <1>11 DEF GuardFails, Goto, Fault
<1>12. ASSUME NEW d \in Deliveries, Send(d)
       PROVE  RowsSettled'
  BY <1>12 DEF Send, Goto
<1>13. ASSUME NEW d \in Deliveries, SendRefused(d)
       PROVE  RowsSettled'
  BY <1>13 DEF SendRefused, Goto
<1>14. ASSUME NEW d \in Deliveries, SendTimesOut(d)
       PROVE  RowsSettled'
  BY <1>14 DEF SendTimesOut, Goto, Fault
<1>15. ASSUME NEW d \in Deliveries, RenderFails(d)
       PROVE  RowsSettled'
  BY <1>15 DEF RenderFails, Goto
<1>16. ASSUME NEW d \in Deliveries, Store(d)
       PROVE  RowsSettled'
  BY <1>16 DEF Store, Leave, Goto
<1>17. ASSUME NEW d \in Deliveries, Drop(d)
       PROVE  RowsSettled'
  BY <1>17 DEF Drop, SetRow, Leave, Goto
<1>18. ASSUME NEW d \in Deliveries, StoreFails(d)
       PROVE  RowsSettled'
  BY <1>18 DEF StoreFails, Goto, Fault
<1>19. ASSUME NEW d \in Deliveries, DropFails(d)
       PROVE  RowsSettled'
  BY <1>19 DEF DropFails, Goto, Fault
<1>20. ASSUME NEW d \in Deliveries, MarkException(d)
       PROVE  RowsSettled'
  BY <1>20 DEF MarkException, SetRow, Leave, Goto
<1>21. ASSUME NEW d \in Deliveries, MarkExceptionFails(d)
       PROVE  RowsSettled'
  BY <1>21 DEF MarkExceptionFails, Leave, Fault, Goto
<1>22. ASSUME NEW d \in Deliveries, NEW u \in Users, Insert(d, u)
       PROVE  RowsSettled'
  BY <1>22 DEF Insert, Goto, SetRow
<1>23. ASSUME NEW d \in Deliveries, NEW u \in Users, SkipDuplicate(d, u)
       PROVE  RowsSettled'
  BY <1>23 DEF SkipDuplicate
<1>24. ASSUME NEW d \in Deliveries, NEW u \in Users, InsertFails(d, u)
       PROVE  RowsSettled'
  BY <1>24 DEF InsertFails, SetRow, Fault
<1>25. ASSUME Cancel
       PROVE  RowsSettled'
  BY <1>25 DEF Cancel
<1>26. ASSUME NEW u \in Users, Withdraw(u)
       PROVE  RowsSettled'
  BY <1>26 DEF Withdraw
<1>27. ASSUME NEW u \in Users, NEW kind \in RowStatuses, Report(u, kind)
       PROVE  RowsSettled'
  BY <1>27 DEF Report, SetRow, Reported, Kinds
<1>28. CASE UNCHANGED vars
  BY <1>28
<1> QED
  BY <1>1, <1>2, <1>3, <1>4, <1>5, <1>6, <1>7, <1>8, <1>9, <1>10, <1>11,
     <1>12, <1>13, <1>14, <1>15, <1>16, <1>17, <1>18, <1>19, <1>20, <1>21,
     <1>22, <1>23, <1>24, <1>25, <1>26, <1>27, <1>28
  DEF Next, Deliver, Recipient, Fail, Outside

LEMMA StepKeeps == IInv /\ [Next]_vars => IInv'
  BY TypeStep, OwnerStep, ReachStep, SettleStep DEF IInv

\* The inductive invariant holds throughout.
THEOREM Invariance == Spec => []IInv
  BY InitKeeps, StepKeeps, PTL DEF Spec

-----------------------------------------------------------------------------
(* What follows from it *)

\* Nobody gets the campaign twice, with any number of deliveries at once, and
\* whatever fails.
THEOREM AtMostOne == Spec => []AtMostOneMessage
<1>1. IInv => AtMostOneMessage
  BY DEF IInv, RowsOwned
<1> QED
  BY <1>1, Invariance, PTL

\* A campaign that is 'sent' has a row for everybody, and if nothing failed and
\* nobody is at work on it, a message or a failure.
THEOREM NoneForgotten == Spec => []NobodyForgotten
<1>1. IInv => NobodyForgotten
  <2> SUFFICES ASSUME IInv, campaign = "sent", faults = 0, NEW u \in Audience
               PROVE  /\ row[u] # "none"
                      /\ (\A d \in Deliveries : ~Underway(d)) =>
                             copies[u] = 1 \/ row[u] = "failed"
    BY DEF NobodyForgotten
  <2>1. u \in Users
    BY DEF IInv, TypeOK, Audience
  <2>2. row[u] # "none"
    BY DEF IInv, EveryoneReached
  <2>3. ASSUME \A d \in Deliveries : ~Underway(d)
        PROVE  \A d \in Deliveries : who[d] # u
    BY <2>1, <2>3, NobodyIsNoUser DEF IInv, RowsOwned, Underway
  <2> QED
    BY <2>1, <2>2, <2>3 DEF IInv, RowsSettled
<1> QED
  BY <1>1, Invariance, PTL

\* 'failed' is true of an email unless something went wrong.
THEOREM FailedUnsent == Spec => []FailedWasNotSent
<1>1. IInv => FailedWasNotSent
  BY DEF IInv, RowsSettled
<1> QED
  BY <1>1, Invariance, PTL

-----------------------------------------------------------------------------
(* Consent *)

\* No message is under way to u, and none will get past the guardrails.
Barred(u) ==
    /\ ConsentAnswered /\ u \notin consents
    /\ \/ faults > 0
       \/ /\ copies[u] = 0
          /\ \A d \in Deliveries : who[d] = u => pc[d] \notin {"send", "store"}

\* Who has withdrawn before their row is inserted is barred, ...
LEMMA WithdrawnIsBarred ==
    ASSUME IInv, NEW u \in Users, Withdrawn(u), ConsentAnswered
    PROVE  Barred(u)
<1>1. copies[u] = 0 /\ \A d \in Deliveries : who[d] # u
  BY NobodyIsNoUser DEF IInv, TypeOK, RowsOwned, Withdrawn
<1> QED
  BY <1>1 DEF Barred, Withdrawn

\* What a step does to the campaign's kind, to consents and to the faults.
LEMMA StepFacts ==
    ASSUME TypeOK, [Next]_vars
    PROVE  /\ of' = of /\ consents' \subseteq consents
           /\ faults' \in Nat /\ faults <= faults'
           /\ faults' = faults => ~ \E d \in Deliveries : Fail(d)
<1>1. ASSUME NEW d \in Deliveries, Fail(d)
      PROVE  of' = of /\ consents' = consents /\ faults' = faults + 1
  BY <1>1 DEF Fail, FinishFails, CutOff, InsertFails, GuardFails, SendTimesOut,
              StoreFails, DropFails, MarkExceptionFails, Fault, rowVars, deliveryVars
<1>2. ASSUME NEW d \in Deliveries, Accept(d) \/ Refuse(d) \/ Deliver(d)
      PROVE  of' = of /\ consents' = consents /\ faults' = faults
  <2>1. CASE Accept(d) \/ Refuse(d) \/ Mark(d) \/ Resolve(d) \/ Empty(d) \/ Finish(d)
    BY <2>1 DEF Accept, Refuse, Mark, Resolve, Empty, Finish
  <2>2. CASE Recipient(d)
    BY <2>2 DEF Recipient, Insert, SkipDuplicate, GuardPasses, GuardRefuses, Send,
                SendRefused, RenderFails, Store, Drop, MarkException
  <2> QED
    BY <1>2, <2>1, <2>2 DEF Deliver
<1>3. ASSUME Outside
      PROVE  of' = of /\ consents' \subseteq consents /\ faults' = faults
  BY <1>3 DEF Outside, Cancel, Withdraw, Report
<1>4. ASSUME UNCHANGED vars
      PROVE  of' = of /\ consents' = consents /\ faults' = faults
  BY <1>4 DEF vars
<1> QED
  BY <1>1, <1>2, <1>3, <1>4 DEF Next, TypeOK

\* ... and who is barred stays so: a fault excuses all, and only GuardPasses
\* leads to a send, which asks for consent.
LEMMA BarredStays ==
    ASSUME IInv, NEW u \in Users, Barred(u), [Next]_vars
    PROVE  Barred(u)'
<1> DEFINE Quiet == /\ copies[u] = 0
                    /\ \A d \in Deliveries : who[d] = u => pc[d] \notin {"send", "store"}
<1>1. /\ of' = of /\ u \notin consents'
      /\ faults' \in Nat /\ faults \in Nat /\ faults <= faults'
      /\ faults' = faults => ~ \E d \in Deliveries : Fail(d)
  BY StepFacts DEF IInv, Barred, TypeOK
<1>2. ConsentAnswered'
  BY <1>1 DEF Barred, ConsentAnswered
<1>3. CASE faults' > 0
  BY <1>1, <1>2, <1>3 DEF Barred
<1>4. CASE faults' = 0
  <2>1. Quiet /\ ~ \E d \in Deliveries : Fail(d)
    BY <1>1, <1>4 DEF Barred
  <2>2. u # Nobody /\ \A d \in Deliveries : who[d] = Nobody => pc[d] # "guard"
    BY NobodyIsNoUser DEF IInv, RowsOwned
  <2>3. copies \in [Users -> Nat] /\ who \in [Deliveries -> Users \cup {Nobody}]
    BY DEF IInv, TypeOK
  <2>4. /\ DOMAIN pc = Deliveries
        /\ \A d \in Deliveries : pc[d] \in {"send", "store"} => who[d] \in Users
    BY DEF IInv, TypeOK, RowsOwned
  <2>5. ASSUME NEW d \in Deliveries, Accept(d) \/ Refuse(d) \/ Mark(d) \/ Resolve(d)
        PROVE  Quiet'
    BY <2>1, <2>4, <2>5 DEF Accept, Refuse, Mark, Resolve, Goto, rowVars
  <2>6. ASSUME NEW d \in Deliveries, Empty(d) \/ Finish(d)
        PROVE  Quiet'
    BY <2>1, <2>4, <2>6 DEF Empty, Finish, Goto, rowVars
  <2>7. ASSUME NEW d \in Deliveries, NEW v \in Users, Insert(d, v) \/ SkipDuplicate(d, v)
        PROVE  Quiet'
    BY <2>1, <2>3, <2>4, <2>7 DEF Insert, SkipDuplicate, Goto, rowVars
  <2>8. ASSUME NEW d \in Deliveries, GuardPasses(d)
        PROVE  Quiet'
    <3>1. who[d] # u
      BY <2>8 DEF GuardPasses, MayPass, Barred
    <3> QED
      BY <2>1, <2>4, <2>8, <3>1 DEF GuardPasses, Goto, rowVars
  <2>9. ASSUME NEW d \in Deliveries, GuardRefuses(d)
        PROVE  Quiet'
    BY <2>1, <2>2, <2>3, <2>4, <2>9 DEF GuardRefuses, Leave, Goto
  <2>10. ASSUME NEW d \in Deliveries, Send(d)
         PROVE  Quiet'
    BY <2>1, <2>3, <2>4, <2>10 DEF Send, Goto
  <2>11. ASSUME NEW d \in Deliveries, SendRefused(d) \/ RenderFails(d)
         PROVE  Quiet'
    BY <2>1, <2>4, <2>11 DEF SendRefused, RenderFails, Goto, rowVars
  <2>12. ASSUME NEW d \in Deliveries, Store(d) \/ Drop(d) \/ MarkException(d)
         PROVE  Quiet'
    BY <2>1, <2>2, <2>3, <2>4, <2>12 DEF Store, Drop, MarkException, Leave, Goto
  <2>13. ASSUME Outside
         PROVE  Quiet'
    BY <2>1, <2>13 DEF Outside, Cancel, Withdraw, Report, rowVars, deliveryVars
  <2>14. ASSUME UNCHANGED vars
         PROVE  Quiet'
    BY <2>1, <2>14 DEF vars, rowVars, deliveryVars
  <2>15. Quiet'
    <3> HIDE DEF Quiet
    <3> QED
      BY <2>1, <2>5, <2>6, <2>7, <2>8, <2>9, <2>10, <2>11, <2>12, <2>13, <2>14
      DEF Next, Deliver, Recipient
  <2> QED
    BY <1>1, <1>2, <2>15 DEF Barred
<1> QED
  BY <1>1, <1>3, <1>4

\* Where the consent query of every medium works, nobody who has withdrawn
\* before their turn gets a message, unless something failed.
THEOREM ConsentWhereAnswered ==
    ASSUME {"email consent", "number consent"} \subseteq Queries
    PROVE  Spec => ConsentEnforced
<1>1. ASSUME NEW u \in Users
      PROVE  Spec => [](Withdrawn(u) => []NotSentTo(u))
  <2>1. IInv /\ Withdrawn(u) => Barred(u)
    BY WithdrawnIsBarred DEF ConsentAnswered
  <2>2. IInv /\ Barred(u) /\ [Next]_vars => Barred(u)'
    BY BarredStays
  <2>3. Barred(u) => NotSentTo(u)
    BY DEF Barred, NotSentTo
  <2> QED
    BY <2>1, <2>2, <2>3, Invariance, PTL DEF Spec
<1> QED
  BY <1>1 DEF ConsentEnforced

\* With the queries the migrated schema can answer, that holds for text and
\* WhatsApp messages.
THEOREM ConsentOfNumbers ==
    ASSUME "number consent" \in Queries
    PROVE  Spec => NumbersConsentEnforced
<1>1. ASSUME NEW u \in Users
      PROVE  Spec => [](of.medium # "email" /\ Withdrawn(u) => []NotSentTo(u))
  <2>1. IInv /\ of.medium # "email" /\ Withdrawn(u) => Barred(u)
    BY WithdrawnIsBarred DEF ConsentAnswered
  <2>2. IInv /\ Barred(u) /\ [Next]_vars => Barred(u)'
    BY BarredStays
  <2>3. Barred(u) => NotSentTo(u)
    BY DEF Barred, NotSentTo
  <2> QED
    BY <2>1, <2>2, <2>3, Invariance, PTL DEF Spec
<1> QED
  BY <1>1 DEF NumbersConsentEnforced

-----------------------------------------------------------------------------
(* What the rows and the count tell *)

\* At most one more has been sent a message after a step, and only by a send.
LEMMA MessagedStep ==
    ASSUME IInv, [Next]_vars
    PROVE  \/ copies' = copies
           \/ \E d \in Deliveries :
                  /\ pc[d] = "send" /\ who[d] \in Users /\ copies[who[d]] = 0
                  /\ copies' = [copies EXCEPT ![who[d]] = @ + 1]
                  /\ Send(d) \/ SendTimesOut(d)
<1>1. ASSUME NEW d \in Deliveries, pc[d] = "send"
      PROVE  who[d] \in Users /\ copies[who[d]] = 0
  BY <1>1 DEF IInv, TypeOK, RowsOwned
<1>2. ASSUME NEW d \in Deliveries, Fail(d)
      PROVE  copies' = copies \/ SendTimesOut(d)
  BY <1>2 DEF Fail, FinishFails, CutOff, InsertFails, GuardFails, StoreFails, DropFails, MarkExceptionFails, rowVars
<1>3. ASSUME NEW d \in Deliveries, Accept(d) \/ Refuse(d) \/ Deliver(d)
      PROVE  copies' = copies \/ Send(d)
  BY <1>3 DEF Accept, Refuse, Deliver, Mark, Resolve, Empty, Finish, Recipient, Insert, SkipDuplicate, GuardPasses,
              GuardRefuses, SendRefused, RenderFails, Store, Drop, MarkException, rowVars
<1>4. ASSUME Outside \/ UNCHANGED vars
      PROVE  copies' = copies
  BY <1>4 DEF Outside, Cancel, Withdraw, Report, vars, rowVars
<1>5. \A d \in Deliveries : Send(d) \/ SendTimesOut(d) =>
          pc[d] = "send" /\ copies' = [copies EXCEPT ![who[d]] = @ + 1]
  BY DEF Send, SendTimesOut
<1> QED
  BY <1>1, <1>2, <1>3, <1>4, <1>5 DEF Next

\* One message, one more who has been sent one.
LEMMA MessagedGrows ==
    ASSUME IInv, NEW u \in Users, copies[u] = 0, copies' = [copies EXCEPT ![u] = @ + 1], IsFiniteSet(Messaged)
    PROVE  IsFiniteSet(Messaged') /\ Cardinality(Messaged') = Cardinality(Messaged) + 1
<1>1. copies \in [Users -> Nat]
  BY DEF IInv, TypeOK
<1>2. Messaged' = Messaged \cup {u} /\ u \notin Messaged
  BY <1>1 DEF Messaged
<1> QED
  BY <1>2, FS_AddElement

\* A step without a fault, of a delivery that is alone or the first one.
LEMMA LoneDelivery ==
    ASSUME IInv, LoneCounted, NEW d \in Deliveries, Accept(d) \/ Deliver(d), faults = 0, Begun' = {d}
    PROVE  /\ pc'[d] = "done" => counted' = Cardinality(Messaged')
           /\ pc'[d] # "done" =>
                 /\ campaign' # "sent"
                 /\ Cardinality(Messaged') = sent'[d] + IF pc'[d] = "store" THEN 1 ELSE 0
           /\ pc'[d] \in {"accepted", "marked"} => Messaged' = {}
<1>1. /\ pc \in [Deliveries -> {"start", "refused", "accepted", "marked", "next", "guard",
                                "send", "store", "drop", "except", "done"}]
      /\ sent \in [Deliveries -> Nat] /\ copies \in [Users -> Nat]
  BY DEF IInv, TypeOK
<1>2. IsFiniteSet(Messaged) /\ Cardinality(Messaged) \in Nat /\ Cardinality({}) = 0
  BY FS_CardinalityType, FS_EmptySet DEF LoneCounted
<1>3. CASE Accept(d)
  <2>1. pc[d] = "start" /\ campaign \in {"draft", "scheduled"} /\ pc' = [pc EXCEPT ![d] = "accepted"]
        /\ UNCHANGED <<campaign, copies, sent>>
    BY <1>3 DEF Accept, Goto, rowVars
  <2>2. Begun = {}
    BY <1>1, <2>1 DEF Begun
  <2>3. Messaged = {} /\ sent[d] = 0
    BY <2>1, <2>2 DEF LoneCounted
  <2>4. Messaged' = {} /\ pc'[d] = "accepted" /\ sent'[d] = 0 /\ campaign' # "sent"
    BY <1>1, <2>1, <2>3 DEF Messaged
  <2> QED
    BY <1>2, <2>4
<1>4. CASE Deliver(d)
  <2>1. pc[d] \notin {"start", "refused", "done"}
    BY <1>4 DEF Deliver, Mark, Resolve, Empty, Finish, Recipient, Insert, SkipDuplicate, GuardPasses, GuardRefuses,
                Send, SendRefused, RenderFails, Store, Drop, MarkException
  <2>2. \A c \in Deliveries : c # d => pc'[c] = pc[c]
    BY <1>1, <1>4 DEF Deliver, Mark, Resolve, Empty, Finish, Recipient, Insert, SkipDuplicate, GuardPasses,
                GuardRefuses, Send, SendRefused, RenderFails, Store, Drop, MarkException, Goto, Leave
  <2>3. Begun = {d}
    BY <2>1, <2>2 DEF Begun
  <2>4. /\ campaign # "sent"
        /\ Cardinality(Messaged) = sent[d] + IF pc[d] = "store" THEN 1 ELSE 0
        /\ pc[d] \in {"accepted", "marked"} => Messaged = {}
    BY <2>1, <2>3 DEF LoneCounted
  <2>5. ASSUME UNCHANGED copies
        PROVE  Messaged' = Messaged
    BY <2>5 DEF Messaged
  <2>6. CASE Mark(d) \/ Resolve(d)
    <3>1. /\ pc[d] \in {"accepted", "marked"} /\ campaign' # "sent" /\ UNCHANGED <<copies, sent>>
          /\ pc'[d] \in {"marked", "next"}
      BY <1>1, <2>4, <2>6 DEF Mark, Resolve, Goto, rowVars
    <3> QED
      BY <2>4, <2>5, <3>1
  <2>7. CASE Empty(d)
    <3>1. pc[d] = "marked" /\ counted' = 0 /\ pc'[d] = "done" /\ UNCHANGED copies
      BY <1>1, <2>7 DEF Empty, Goto, rowVars
    <3> QED
      BY <1>2, <2>4, <2>5, <3>1
  <2>8. CASE Finish(d)
    <3>1. pc[d] = "next" /\ counted' = sent[d] /\ pc'[d] = "done" /\ UNCHANGED copies
      BY <1>1, <2>8 DEF Finish, Goto, rowVars
    <3> QED
      BY <1>1, <2>4, <2>5, <3>1
  <2>9. CASE Send(d)
    <3>1. /\ pc[d] = "send" /\ copies' = [copies EXCEPT ![who[d]] = @ + 1] /\ pc'[d] = "store"
          /\ UNCHANGED <<campaign, sent>>
      BY <1>1, <2>9 DEF Send, Goto
    <3>2. who[d] \in Users /\ copies[who[d]] = 0
      BY <3>1 DEF IInv, TypeOK, RowsOwned
    <3>3. Cardinality(Messaged') = Cardinality(Messaged) + 1
      BY <1>2, <3>1, <3>2, MessagedGrows
    <3> QED
      BY <1>1, <1>2, <2>4, <3>1, <3>3
  <2>10. CASE Store(d)
    <3>1. /\ pc[d] = "store" /\ pc'[d] = "next" /\ sent' = [sent EXCEPT ![d] = @ + 1]
          /\ UNCHANGED <<copies, campaign>>
      BY <1>1, <2>10 DEF Store, Leave, Goto
    <3> QED
      BY <1>1, <2>4, <2>5, <3>1
  <2>11. CASE Recipient(d) /\ ~Send(d) /\ ~Store(d)
    <3>1. /\ pc[d] \notin {"accepted", "marked", "store"} /\ pc'[d] \notin {"accepted", "marked", "store", "done"}
          /\ UNCHANGED <<copies, campaign, sent>>
      BY <1>1, <2>11 DEF Recipient, Insert, SkipDuplicate, GuardPasses, GuardRefuses, SendRefused, RenderFails, Drop,
                         MarkException, Leave, Goto, rowVars
    <3> QED
      BY <2>4, <2>5, <3>1
  <2> QED
    BY <1>4, <2>6, <2>7, <2>8, <2>9, <2>10, <2>11 DEF Deliver
<1> QED
  BY <1>3, <1>4

\* Every step keeps count: with two deliveries or a fault there is nothing to keep.
LEMMA LoneStep ==
    ASSUME IInv, LoneCounted, [Next]_vars
    PROVE  LoneCounted'
<1>1. /\ pc \in [Deliveries -> {"start", "refused", "accepted", "marked", "next", "guard",
                                "send", "store", "drop", "except", "done"}]
      /\ sent \in [Deliveries -> Nat] /\ faults \in Nat
  BY DEF IInv, TypeOK
<1>2. IsFiniteSet(Messaged')
  <2>1. CASE copies' = copies
    BY <2>1 DEF LoneCounted, Messaged
  <2> QED
    BY <2>1, MessagedStep, MessagedGrows DEF LoneCounted
<1>3. \A d \in Deliveries : pc'[d] \in {"start", "accepted", "marked"} => sent'[d] = 0
  <2>1. ASSUME NEW c \in Deliveries, Accept(c) \/ Refuse(c) \/ Deliver(c) \/ Fail(c), NEW d \in Deliveries,
               pc'[d] \in {"start", "accepted", "marked"}
        PROVE  pc[d] \in {"start", "accepted", "marked"} /\ sent'[d] = sent[d]
    <3>1. CASE d # c
      BY <1>1, <2>1, <3>1 DEF Accept, Refuse, Deliver, Mark, Resolve, Empty, Finish, Recipient, Insert, SkipDuplicate,
               GuardPasses, GuardRefuses, Send, SendRefused, RenderFails, Store, Drop, MarkException, Goto, Leave,
               Fail, FinishFails, CutOff, InsertFails, GuardFails, SendTimesOut, StoreFails, DropFails,
               MarkExceptionFails
    <3>2. CASE d = c
      <4>1. Accept(c) \/ Mark(c)
        BY <1>1, <2>1, <3>2 DEF Accept, Refuse, Deliver, Resolve, Empty, Finish, Recipient, Insert, SkipDuplicate,
               GuardPasses, GuardRefuses, Send, SendRefused, RenderFails, Store, Drop, MarkException, Goto, Leave,
               Fail, FinishFails, CutOff, InsertFails, GuardFails, SendTimesOut, StoreFails, DropFails,
               MarkExceptionFails
      <4> QED
        BY <3>2, <4>1 DEF Accept, Mark
    <3> QED
      BY <3>1, <3>2
  <2>2. CASE Outside \/ UNCHANGED vars
    BY <2>2 DEF Outside, Cancel, Withdraw, Report, vars, deliveryVars, LoneCounted
  <2> QED
    BY <2>1, <2>2 DEF Next, LoneCounted
<1>4. ASSUME faults' = 0
      PROVE  faults = 0 /\ ~ \E d \in Deliveries : Fail(d)
  BY <1>1, <1>4, StepFacts DEF IInv
<1>5. ASSUME faults' = 0
      PROVE  Begun' # {} \/ (Messaged' = {} /\ campaign' # "sent")
  <2>1. CASE Begun # {}
    <3>1. PICK d \in Deliveries : pc[d] \notin {"start", "refused"}
      BY <2>1 DEF Begun
    <3>2. ASSUME NEW c \in Deliveries, Accept(c) \/ Refuse(c) \/ Deliver(c)
          PROVE  pc'[d] \notin {"start", "refused"}
      BY <1>1, <3>1, <3>2 DEF Accept, Refuse, Deliver, Mark, Resolve, Empty, Finish, Recipient, Insert, SkipDuplicate,
               GuardPasses, GuardRefuses, Send, SendRefused, RenderFails, Store, Drop, MarkException, Goto, Leave
    <3>3. ASSUME Outside \/ UNCHANGED vars
          PROVE  pc' = pc
      BY <3>3 DEF Outside, Cancel, Withdraw, Report, vars, deliveryVars
    <3> QED
      BY <1>4, <1>5, <3>1, <3>2, <3>3 DEF Begun, Next
  <2>2. CASE Begun = {}
    <3>1. \A d \in Deliveries : pc[d] \in {"start", "refused"}
      BY <2>2 DEF Begun
    <3>2. Messaged = {} /\ campaign # "sent"
      BY <1>4, <1>5, <2>2 DEF LoneCounted
    <3>3. copies' = copies
      BY <3>1, MessagedStep
    <3>4. ASSUME NEW d \in Deliveries, Accept(d)
          PROVE  d \in Begun'
      BY <1>1, <3>4 DEF Accept, Goto, Begun
    <3>5. ASSUME NEW d \in Deliveries, Refuse(d)
          PROVE  campaign' = campaign
      BY <3>5 DEF Refuse
    <3>6. ASSUME NEW d \in Deliveries, Deliver(d)
          PROVE  FALSE
      BY <3>1, <3>6 DEF Deliver, Mark, Resolve, Empty, Finish, Recipient, Insert, SkipDuplicate, GuardPasses,
                GuardRefuses, Send, SendRefused, RenderFails, Store, Drop, MarkException
    <3>7. ASSUME Outside \/ UNCHANGED vars
          PROVE  campaign' # "sent"
      BY <3>2, <3>7 DEF Outside, Cancel, Withdraw, Report, vars
    <3> QED
      BY <1>4, <1>5, <3>2, <3>3, <3>4, <3>5, <3>6, <3>7 DEF Next, Messaged
  <2> QED
    BY <2>1, <2>2
<1>6. ASSUME faults' = 0, NEW d \in Deliveries, Begun' = {d}
      PROVE  /\ pc'[d] = "done" => counted' = Cardinality(Messaged')
             /\ pc'[d] # "done" =>
                   /\ campaign' # "sent"
                   /\ Cardinality(Messaged') = sent'[d] + IF pc'[d] = "store" THEN 1 ELSE 0
             /\ pc'[d] \in {"accepted", "marked"} => Messaged' = {}
  <2>1. ASSUME NEW c \in Deliveries, Accept(c) \/ Deliver(c)
        PROVE  c = d
    <3>1. c \in Begun'
      BY <1>1, <2>1 DEF Begun, Accept, Deliver, Mark, Resolve, Empty, Finish, Recipient, Insert, SkipDuplicate,
                GuardPasses, GuardRefuses, Send, SendRefused, RenderFails, Store, Drop, MarkException, Goto, Leave
    <3> QED
      BY <1>6, <3>1
  <2>2. CASE \E c \in Deliveries : Accept(c) \/ Deliver(c)
    BY <1>4, <1>6, <2>1, <2>2, LoneDelivery
  <2>3. CASE (\E c \in Deliveries : Refuse(c)) \/ Outside \/ UNCHANGED vars
    <3>1. /\ \A c \in Deliveries : pc'[c] = pc[c] \/ (pc[c] = "start" /\ pc'[c] = "refused")
          /\ UNCHANGED <<counted, copies, sent>> /\ (campaign' = campaign \/ campaign' = "cancelled")
      BY <1>1, <2>3 DEF Refuse, Goto, Outside, Cancel, Withdraw, Report, vars, rowVars, deliveryVars
    <3>2. Begun' = Begun /\ Messaged' = Messaged
      BY <3>1 DEF Begun, Messaged
    <3>3. pc'[d] = pc[d]
      BY <1>6, <3>1, <3>2 DEF Begun
    <3> QED
      BY <1>4, <1>6, <3>1, <3>2, <3>3 DEF LoneCounted
  <2> QED
    BY <1>4, <1>6, <2>2, <2>3 DEF Next
<1> QED
  BY <1>2, <1>3, <1>5, <1>6 DEF LoneCounted

\* What a step may do to a row: the owner's statuses, or what a report makes of it.
LEMMA RowStep ==
    ASSUME IInv, [Next]_vars, NEW u \in Users, row'[u] # row[u]
    PROVE  \/ row[u] = "none" /\ row'[u] = "sending"
           \/ row[u] = "sending" /\ row'[u] = "failed"
           \/ row'[u] = "failed" /\ \E d \in Deliveries : pc[d] = "except" /\ who[d] = u
           \/ u \in msgid /\ \E kind \in Kinds(of.medium) : row'[u] = Reported(row[u], kind)
<1>1. row \in [Users -> RowStatuses \cup {"none"}]
  BY DEF IInv, TypeOK
<1>2. ASSUME NEW d \in Deliveries, NEW v \in Users, Insert(d, v) \/ SkipDuplicate(d, v) \/ InsertFails(d, v)
      PROVE  row[u] = "none" /\ row'[u] = "sending"
  BY <1>1, <1>2 DEF Insert, SkipDuplicate, InsertFails, SetRow, rowVars
<1>3. ASSUME NEW d \in Deliveries, GuardRefuses(d) \/ Drop(d)
      PROVE  row[u] = "sending" /\ row'[u] = "failed"
  <2>1. row[who[d]] = "sending" /\ row' = [row EXCEPT ![who[d]] = "failed"]
    BY <1>3 DEF GuardRefuses, Drop, SetRow, IInv, RowsOwned
  <2> QED
    BY <1>1, <2>1
<1>4. ASSUME NEW d \in Deliveries, MarkException(d)
      PROVE  row'[u] = "failed" /\ pc[d] = "except" /\ who[d] = u
  BY <1>1, <1>4 DEF MarkException, SetRow
<1>5. ASSUME NEW v \in Users, NEW kind, Report(v, kind)
      PROVE  u \in msgid /\ kind \in Kinds(of.medium) /\ row'[u] = Reported(row[u], kind)
  BY <1>1, <1>5 DEF Report, SetRow
<1>6. ASSUME NEW d \in Deliveries, Accept(d) \/ Refuse(d) \/ Mark(d) \/ Resolve(d) \/ Empty(d) \/ Finish(d)
      PROVE  FALSE
  BY <1>6 DEF Accept, Refuse, Mark, Resolve, Empty, Finish, rowVars
<1>7. ASSUME NEW d \in Deliveries, GuardPasses(d) \/ Send(d) \/ SendRefused(d) \/ RenderFails(d) \/ Store(d)
      PROVE  FALSE
  BY <1>7 DEF GuardPasses, Send, SendRefused, RenderFails, Store, rowVars
<1>8. ASSUME NEW d \in Deliveries,
             \/ FinishFails(d) \/ CutOff(d) \/ GuardFails(d) \/ SendTimesOut(d)
             \/ StoreFails(d) \/ DropFails(d) \/ MarkExceptionFails(d)
      PROVE  FALSE
  BY <1>8 DEF FinishFails, CutOff, GuardFails, SendTimesOut, StoreFails, DropFails, MarkExceptionFails, rowVars
<1>9. ASSUME UNCHANGED vars \/ Cancel \/ \E v \in Users : Withdraw(v)
      PROVE  FALSE
  BY <1>9 DEF vars, rowVars, Cancel, Withdraw
<1> QED
  BY <1>2, <1>3, <1>4, <1>5, <1>6, <1>7, <1>8, <1>9 DEF Next, Deliver, Recipient, Fail, Outside

\* Message ids are not taken away, and rows are not reported on without one.
LEMMA IdStep ==
    ASSUME IInv, ReportedHaveId, [Next]_vars
    PROVE  ReportedHaveId'
<1>1. msgid \subseteq msgid'
  <2>1. ASSUME NEW d \in Deliveries, Accept(d) \/ Refuse(d) \/ Deliver(d)
        PROVE  msgid \subseteq msgid'
    BY <2>1 DEF Accept, Refuse, Deliver, Mark, Resolve, Empty, Finish, Recipient, Insert, SkipDuplicate, GuardPasses,
                GuardRefuses, Send, SendRefused, RenderFails, Store, Drop, MarkException, rowVars
  <2>2. ASSUME NEW d \in Deliveries, Fail(d)
        PROVE  msgid \subseteq msgid'
    BY <2>2 DEF Fail, FinishFails, CutOff, InsertFails, GuardFails, SendTimesOut, StoreFails, DropFails,
                MarkExceptionFails, rowVars
  <2>3. ASSUME Outside \/ UNCHANGED vars
        PROVE  msgid \subseteq msgid'
    BY <2>3 DEF Outside, Cancel, Withdraw, Report, vars, rowVars
  <2> QED
    BY <2>1, <2>2, <2>3 DEF Next
<1> SUFFICES ASSUME NEW u \in Users, row'[u] \notin {"none", "sending", "failed"} PROVE u \in msgid
  BY <1>1 DEF ReportedHaveId
<1>2. CASE row'[u] = row[u]
  BY <1>2 DEF ReportedHaveId
<1>3. CASE row'[u] # row[u]
  BY <1>3, RowStep
<1> QED
  BY <1>2, <1>3

\* What a late report makes of a row, and a delivery that was raised out of its send.
LEMMA EngagementStep ==
    ASSUME IInv, ReportedHaveId, [Next]_vars, NEW u \in Users,
           of.medium = "email", row[u] \in {"delivered", "opened", "clicked"}, faults = 0
    PROVE  \/ row'[u] \in {"bounced", "complained"}
           \/ row'[u] \in DOMAIN Steps /\ Steps[row'[u]] >= Steps[row[u]]
<1>1. DOMAIN Steps = {"sending", "sent", "delivered", "opened", "clicked"} /\ \A x \in DOMAIN Steps : Steps[x] \in Nat
  BY DEF Steps
<1>2. CASE row'[u] = row[u]
  BY <1>1, <1>2
<1>3. ASSUME NEW kind \in Kinds("email"), row'[u] = Reported(row[u], kind)
      PROVE  \/ row'[u] \in {"bounced", "complained"}
             \/ row'[u] \in DOMAIN Steps /\ Steps[row'[u]] >= Steps[row[u]]
  <2>1. kind \in {"bounced", "complained"} \/ kind \in DOMAIN Steps
    BY <1>1 DEF Kinds
  <2> QED
    BY <1>1, <1>3, <2>1 DEF Reported
<1>4. ~ \E d \in Deliveries : pc[d] = "except" /\ who[d] = u
  <2>1. u \in msgid /\ copies[u] = 1
    BY DEF ReportedHaveId, IInv, RowsOwned
  <2> QED
    BY <2>1 DEF IInv, RowsSettled
<1> QED
  BY <1>2, <1>3, <1>4, RowStep

\* A late report takes nothing back, and a delivery that works alone counts the messages it has
\* sent, for any number of recipients.
THEOREM RowsTellTheTruth == Spec => RowsTell
<1>1. Init => LoneCounted /\ ReportedHaveId
  <2> SUFFICES ASSUME Init PROVE LoneCounted /\ ReportedHaveId
    OBVIOUS
  <2>1. Messaged = {} /\ Begun = {}
    BY DEF Init, Messaged, Begun
  <2> QED
    BY <2>1, FS_EmptySet DEF Init, LoneCounted, ReportedHaveId
<1>2. IInv /\ LoneCounted /\ ReportedHaveId /\ [Next]_vars => LoneCounted' /\ ReportedHaveId'
  BY LoneStep, IdStep
<1>3. IInv /\ ReportedHaveId /\ [Next]_vars =>
          [\A u \in Users :
              of.medium = "email" /\ row[u] \in {"delivered", "opened", "clicked"} =>
                  \/ row'[u] \in {"bounced", "complained"}
                  \/ row'[u] \in DOMAIN Steps /\ Steps[row'[u]] >= Steps[row[u]]
                  \/ faults > 0]_vars
  <2>1. IInv => faults \in Nat
    BY DEF IInv, TypeOK
  <2> QED
    BY <2>1, EngagementStep
<1>4. IInv /\ LoneCounted => LoneCountIsRight
  <2> SUFFICES ASSUME IInv, LoneCounted, campaign = "sent", faults = 0, \A c, d \in Begun : c = d
               PROVE  counted = Cardinality(Messaged)
    BY DEF LoneCountIsRight
  <2>1. Begun # {} /\ Begun \subseteq Deliveries
    BY DEF LoneCounted, Begun
  <2>2. PICK d \in Deliveries : Begun = {d}
    BY <2>1
  <2> QED
    BY <2>2 DEF LoneCounted
<1> QED
  BY <1>1, <1>2, <1>3, <1>4, Invariance, PTL DEF Spec, RowsTell, EngagementKept
=============================================================================
