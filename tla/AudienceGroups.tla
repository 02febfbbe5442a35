--------------------------- MODULE AudienceGroups ---------------------------
(***************************************************************************)
(* The groups of audience presets on the segments page (group_service):    *)
(* groups are made, renamed, deleted and put in order, presets are moved   *)
(* between them and put in order. Putting in order is one transaction with *)
(* an UPDATE, and so a row lock, per row of the list it was sent; the rest *)
(* is one statement each.                                                  *)
(***************************************************************************)
EXTENDS Naturals, FiniteSets, Sequences

CONSTANTS
    Groups, Presets,
    Lists,       \* orders somebody asks for: [rows |-> <<...>>, within |-> a group, or Nobody for the groups themselves]
    Requests,
    Kinds,       \* [Requests -> SUBSET {"create", "update", "delete", "move", "reorder"}]
    Nobody

VARIABLES
    groups,      \* rows of audience_groups
    within,      \* audience_group_presets.group_id
    order,       \* display_order of groups and presets, in the row's newest version
    lock,        \* which transaction holds each row
    req,
    asked,       \* history: the list that was committed last, and the rows it has written
    moved,       \* history: rows that something else has written since
    overlaps     \* history: how often a request has begun while another was in progress

vars == <<groups, within, order, lock, req, asked, moved, overlaps>>

Idle == [pc |-> "idle"]
Ended == [pc |-> "done"]
InProgress(r) == req[r] \notin {Idle, Ended}
Goto(r, record) == req' = [req EXCEPT ![r] = record]
Return(r) == Goto(r, Ended)
Begin(r, kind) ==
    /\ req[r] = Idle /\ kind \in Kinds[r]
    /\ overlaps' = overlaps + IF \E x \in Requests : InProgress(x) THEN 1 ELSE 0

Rows == Groups \cup Presets
Free(x) == lock[x] = Nobody
NothingAsked == [rows |-> <<>>, written |-> {}]

\* Migration 031: every preset has a group.
Init ==
    /\ \E g \in Groups : groups = {g} /\ within = [p \in Presets |-> g]
    /\ order = [x \in Rows |-> 0]
    /\ lock = [x \in Rows |-> Nobody]
    /\ req = [r \in Requests |-> Idle]
    /\ asked = NothingAsked /\ moved = {} /\ overlaps = 0

-----------------------------------------------------------------------------
(* One statement each *)

Create(r, g) ==
    /\ Begin(r, "create")
    /\ g \notin groups
    /\ groups' = groups \cup {g}
    /\ order' = [order EXCEPT ![g] = 0]
    /\ moved' = moved \cup {g}
    /\ Return(r)
    /\ UNCHANGED <<within, lock, asked>>

Update(r, g, n) ==
    /\ Begin(r, "update")
    /\ g \in groups /\ Free(g)
    /\ order' = [order EXCEPT ![g] = n]
    /\ moved' = moved \cup {g}
    /\ Return(r)
    /\ UNCHANGED <<groups, within, lock, asked>>

\* Mutant of Orphaned: they keep the group they had.
OrphanedNot(g) == within

\* ON DELETE SET NULL.
Orphaned(g) == [p \in Presets |-> IF within[p] = g THEN Nobody ELSE within[p]]

Delete(r, g) ==
    /\ Begin(r, "delete")
    /\ g \in groups /\ Free(g) /\ \A p \in Presets : within[p] = g => Free(p)
    /\ groups' = groups \ {g}
    /\ within' = Orphaned(g)
    /\ moved' = moved \cup {g} \cup {p \in Presets : within[p] = g}
    /\ Return(r)
    /\ UNCHANGED <<order, lock, asked>>

\* To a group that is there (foreign key), or to none.
MovePreset(r, p, g) ==
    /\ Begin(r, "move")
    /\ g \in groups \cup {Nobody} /\ Free(p)
    /\ within' = [within EXCEPT ![p] = g]
    /\ moved' = moved \cup {p}
    /\ Return(r)
    /\ UNCHANGED <<groups, order, lock, asked>>

-----------------------------------------------------------------------------
(* Putting in order *)

Reorder(r, list) ==
    /\ Begin(r, "reorder")
    /\ Goto(r, [pc |-> "rows", list |-> list, done |-> 0, wrote |-> {}])
    /\ UNCHANGED <<groups, within, order, lock, asked, moved>>

\* The row the UPDATE is about; it is found if it is (still) of its kind and group.
Row(q) == q.list.rows[q.done + 1]
Found(q) == IF q.list.within = Nobody THEN Row(q) \in groups
            ELSE Row(q) \in Presets /\ within[Row(q)] = q.list.within

\* Place of a row in a list, from 0.
Place(rows, x) == (CHOOSE i \in DOMAIN rows : rows[i] = x) - 1

\* Mutant of Hold: each UPDATE is committed.
HoldNot(r, x) == lock

\* The lock is kept until the transaction ends.
Hold(r, x) == [lock EXCEPT ![x] = r]

\* A row that is not found is passed over.
WriteRow(r) ==
    /\ req[r].pc = "rows" /\ req[r].done < Len(req[r].list.rows)
    /\ LET q == req[r]
           x == Row(q) IN
       IF Found(q)
       THEN /\ lock[x] \in {Nobody, r}
            /\ lock' = Hold(r, x)
            /\ order' = [order EXCEPT ![x] = Place(q.list.rows, x)]
            /\ Goto(r, [q EXCEPT !.done = @ + 1, !.wrote = @ \cup {[row |-> x, was |-> order[x]]}])
       ELSE Goto(r, [q EXCEPT !.done = @ + 1]) /\ UNCHANGED <<order, lock>>
    /\ UNCHANGED <<groups, within, asked, moved, overlaps>>

Unlocked(r) == [x \in Rows |-> IF lock[x] = r THEN Nobody ELSE lock[x]]

Commit(r) ==
    /\ req[r].pc = "rows" /\ req[r].done = Len(req[r].list.rows)
    /\ asked' = [rows |-> req[r].list.rows, written |-> {w.row : w \in req[r].wrote}]
    /\ moved' = {}
    /\ lock' = Unlocked(r)
    /\ Return(r)
    /\ UNCHANGED <<groups, within, order, overlaps>>

\* Two transactions that wait for each other's row.
WaitsFor(r, s) ==
    /\ req[r].pc = "rows" /\ req[r].done < Len(req[r].list.rows)
    /\ Found(req[r]) /\ lock[Row(req[r])] = s
Deadlocked(r) == \E s \in Requests : r # s /\ WaitsFor(r, s) /\ WaitsFor(s, r)

\* PostgreSQL aborts one of them: 500.
Abort(r) ==
    /\ Deadlocked(r)
    /\ order' = [x \in Rows |-> IF \E w \in req[r].wrote : w.row = x
                              THEN (CHOOSE w \in req[r].wrote : w.row = x).was ELSE order[x]]
    /\ lock' = Unlocked(r)
    /\ Return(r)
    /\ UNCHANGED <<groups, within, asked, moved, overlaps>>

Next ==
    \E r \in Requests :
        \/ \E g \in Groups : Create(r, g) \/ Delete(r, g) \/ \E n \in 0..1 : Update(r, g, n)
        \/ \E p \in Presets, g \in Groups \cup {Nobody} : MovePreset(r, p, g)
        \/ \E list \in Lists : Reorder(r, list)
        \/ WriteRow(r) \/ Commit(r) \/ Abort(r)

Spec == Init /\ [][Next]_vars

-----------------------------------------------------------------------------
(* Properties *)

\* The state is of its types.
TypeOK ==
    /\ groups \subseteq Groups /\ within \in [Presets -> Groups \cup {Nobody}]
    /\ order \in [Rows -> Nat] /\ lock \in [Rows -> Requests \cup {Nobody}]
    /\ moved \subseteq Rows /\ overlaps \in Nat

\* reorder_groups, reorder_presets: however requests overlap, what is shown is in the order the last one
\* has asked for, but for rows that were written, moved or deleted since, or that it did not find.
OrderIsAsAsked ==
    \A x, y \in {z \in asked.written \ moved : Free(z)} :
        order[x] < order[y] <=> Place(asked.rows, x) < Place(asked.rows, y)

\* delete_group: every preset is in a group that there is, or in none.
NoPresetIsLost == \A p \in Presets : within[p] \in groups \cup {Nobody}

=============================================================================
