--------------------------- MODULE ImportGrouping ---------------------------
(***************************************************************************)
(* How the rows of an imported file become records                         *)
(* (ImportService._record_types_for and _group), and the second statement  *)
(* of the same rule for files that come through the telemetry path         *)
(* (registry.group_upv_rows).                                              *)
(*                                                                         *)
(* A row is what the readers make of a line: the record type it declares,  *)
(* or the first one whose required columns it has; the types whose         *)
(* required cells it fills; and the element, test type and floor it names, *)
(* here one value.                                                         *)
(***************************************************************************)
EXTENDS Integers, Sequences, FiniteSets, SequencesExt

CONSTANTS
    Names,          \* record types that a row may declare
    Types,          \* those of the registry
    Grouped,        \* those whose consecutive rows form one record
    Elements,       \* what a row measures
    NoType          \* no record type declared

ASSUME TypesAssumption ==
    Types \subseteq Names /\ Grouped \subseteq Types /\ NoType \in Names \ Types

(* "Grouping exists for UPV": one record type has it.                      *)
ASSUME GroupedAssumption == \A s, t \in Grouped : s = t

Row == [type : Names, complete : SUBSET Types, element : Elements]

(* A type on the batch is the type of every row.                           *)
RowType(row, type) == IF type = NoType THEN row.type ELSE type

Ungrouped == [groups |-> <<>>, dropped |-> {}]

OpenGroup(groups, t, e) ==
    groups # <<>> /\ Last(groups).type = t /\ Last(groups).element = e

Seen(groups, e) ==
    \E k \in DOMAIN groups : groups[k].type \in Grouped /\ groups[k].element = e

Drop(acc, i) == [acc EXCEPT !.dropped = @ \cup {i}]
Extend(acc, i) == [acc EXCEPT !.groups[Len(acc.groups)].rows = @ \cup {i}]
OpenAnother(acc, i, t, e) ==
    [acc EXCEPT !.groups =
        Append(@, [type |-> t, element |-> e, rows |-> {i}])]

(* mutant of Place: a block that is resumed is another group *)
PlaceResumes(acc, i, row, t) ==
    CASE t \notin row.complete -> Drop(acc, i)
      [] t \in row.complete /\ t \in Grouped
            /\ OpenGroup(acc.groups, t, row.element) -> Extend(acc, i)
      [] OTHER -> OpenAnother(acc, i, t, row.element)

(* One row: it needs a type of the registry and its required cells; it     *)
(* continues the open group, opens one, or resumes a closed one, which is  *)
(* refused.                                                                *)
Place(acc, i, row, t) ==
    CASE t \notin row.complete -> Drop(acc, i)
      [] t \in row.complete \ Grouped -> OpenAnother(acc, i, t, row.element)
      [] t \in row.complete \cap Grouped
            /\ OpenGroup(acc.groups, t, row.element) -> Extend(acc, i)
      [] t \in row.complete \cap Grouped
            /\ ~OpenGroup(acc.groups, t, row.element) ->
            IF Seen(acc.groups, row.element) THEN Drop(acc, i)
            ELSE OpenAnother(acc, i, t, row.element)

(* One row after the other, in the order of the file.                      *)
Group(file, type) ==
    LET upTo[n \in 0..Len(file)] ==
            IF n = 0 THEN Ungrouped
            ELSE Place(upTo[n - 1], n, file[n], RowType(file[n], type))
    IN  upTo[Len(file)]

GroupSet(file, type) == ToSet(Group(file, type).groups)

(* mutant of PlaceUpv: only the block just closed counts as seen *)
PlaceUpvForgets(acc, i, row) ==
    LET e == row.element  groups == acc.groups IN
    CASE acc.error -> acc
      [] ~acc.error /\ groups # <<>> /\ Last(groups).element = e -> Extend(acc, i)
      [] OTHER -> OpenAnother(acc, i, row.type, e)

(* group_upv_rows gives up at the first block that is resumed.             *)
PlaceUpv(acc, i, row) ==
    LET e == row.element  groups == acc.groups IN
    CASE acc.error -> acc
      [] ~acc.error /\ groups # <<>> /\ Last(groups).element = e -> Extend(acc, i)
      [] OTHER ->
            IF \E k \in DOMAIN groups : groups[k].element = e
            THEN [acc EXCEPT !.error = TRUE, !.groups = <<>>]
            ELSE OpenAnother(acc, i, row.type, e)

GroupUpv(file) ==
    LET upTo[n \in 0..Len(file)] ==
            IF n = 0 THEN [groups |-> <<>>, error |-> FALSE]
            ELSE PlaceUpv(upTo[n - 1], n, file[n])
    IN  upTo[Len(file)]

----------------------------------------------------------------------------
(***************************************************************************)
(* What the grouping is to do, stated without the algorithm.               *)
(***************************************************************************)
Begins(group) == CHOOSE i \in group.rows : \A j \in group.rows : i <= j
BetweenRows(group, i, j) == Begins(group) > i /\ Begins(group) < j

(* Every row is in one group, or dropped.  A group's rows measure one      *)
(* element, no other group begins among them, and no element is in two     *)
(* groups.  A row is dropped if it is incomplete, or if its element's      *)
(* group was interrupted before it.                                        *)
IsGrouping(file, type, groups, dropped) ==
    LET T(i) == RowType(file[i], type) IN
    /\ \A i \in 1..Len(file) : i \in dropped <=> \A g \in groups : i \notin g.rows
    /\ \A g, h \in groups : g # h => g.rows \cap h.rows = {}
    /\ \A g \in groups : \A i \in g.rows :
          /\ T(i) = g.type /\ file[i].element = g.element
          /\ T(i) \in file[i].complete
          /\ g.type \notin Grouped => g.rows = {i}
    /\ \A g \in groups : \A i, j \in g.rows : \A h \in groups \ {g} :
          ~BetweenRows(h, i, j)
    /\ \A g, h \in groups :
          (g # h /\ {g.type, h.type} \subseteq Grouped) => g.element # h.element
    /\ \A i \in dropped : T(i) \in file[i].complete =>
          \E g, h \in groups : /\ T(i) \in Grouped
                               /\ g.type \in Grouped
                               /\ g.element = file[i].element
                               /\ BetweenRows(h, Begins(g), i)
=============================================================================
