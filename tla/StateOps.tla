----------------------------- MODULE StateOps ------------------------------
(***************************************************************************)
(* The rows of the scoped state tables and what a state operation makes of *)
(* them (applyStateOp of the storage package).                             *)
(***************************************************************************)
EXTENDS Naturals, Sequences, SequencesExt

CONSTANTS
    Cells,      \* the user, room and global rows of the tables
    Keys,       \* the keys of a row
    Values      \* what a key can hold; <<>> is a key that is not there

\* A row that is missing from the table reads like an empty one.
Empty == [k \in Keys |-> <<>>]
Rows == [Keys -> Values]

ApplyOp(row, op) ==
    IF op.op = "set" THEN [row EXCEPT ![op.key] = op.value]
    ELSE IF op.op = "delete" THEN [row EXCEPT ![op.key] = <<>>]
    ELSE IF op.op = "clear" THEN Empty ELSE op.row

Apply(tables, op) == [tables EXCEPT ![op.cell] = ApplyOp(@, op)]

\* The operations of one answer, in their order.
ApplyAll(tables, ops) == FoldLeft(Apply, tables, ops)
=============================================================================
