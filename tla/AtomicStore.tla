---------------------------- MODULE AtomicStore ----------------------------
(***************************************************************************)
(* What the state store promises to doors: the operations of one answer    *)
(* are applied together, in order, to the tables as they are at that       *)
(* moment, or none of them is.                                             *)
(***************************************************************************)
EXTENDS StateOps

CONSTANTS
    Handlers    \* handlers of the node

VARIABLES
    db,         \* the tables: a row for every cell
    batch       \* the operations a handler has submitted, <<>> when it has none

Init ==
    /\ db \in [Cells -> Rows]
    /\ batch = [h \in Handlers |-> <<>>]

Submit(h) ==
    /\ batch[h] = <<>>
    /\ batch'[h] # <<>>
    /\ batch' = [batch EXCEPT ![h] = batch'[h]]
    /\ UNCHANGED db

Withdraw(h) ==
    /\ batch[h] # <<>>
    /\ batch' = [batch EXCEPT ![h] = <<>>]

Commit(h) ==
    /\ Withdraw(h)
    /\ db' = ApplyAll(db, batch[h])

Reject(h) ==
    /\ Withdraw(h)
    /\ UNCHANGED db

Next == \E h \in Handlers : Submit(h) \/ Commit(h) \/ Reject(h)

Spec == Init /\ [][Next]_<<db, batch>>
=============================================================================
