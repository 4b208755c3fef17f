------------------------- MODULE StationStoreProofs -------------------------
(***************************************************************************)
(* Proofs about StationStore, for any handlers, scripts and sizes.         *)
(*                                                                         *)
(* NewestKept is not inductive: a handler deletes from the rows it has     *)
(* measured, and the newest event may have been among them.  A row that is *)
(* deleted is the oldest of at least two with ids of their own, none above *)
(* the last id given, so its id is below the last one.  TrimmedAtRest      *)
(* holds because somebody is always on the way to a table that is too      *)
(* long; that deleting never lengthens it is a fact about sums (Bytes).    *)
(*                                                                         *)
(* The store is atomic because the work of a transaction is what its       *)
(* operations so far make of tables nobody else has changed (Worked).      *)
(* What a hook finds follows from what its script does to its own table    *)
(* being what its operations do to the row (Tracked).                      *)
(*                                                                         *)
(* The mirror keeps its order because each of its files holds a piece of   *)
(* what was written and the older files the earlier pieces (MirrorInv).    *)
(***************************************************************************)
EXTENDS StationStore, TLAPS, FiniteSetTheorems, SequenceTheorems, WellFoundedInduction

\* Events of the table: an id the table gave, and no id twice.
Numbered(events, last) ==
    /\ events \subseteq [n : Nat, id : 1..last, bytes : Nat]
    /\ \A e, f \in events : e.id = f.id => e = f

TrailInv ==
    /\ lastId \in Nat /\ audited \in Nat
    /\ event \in [Auditors -> [n : Nat, id : Nat, bytes : Nat]]
    /\ plan \in [Auditors -> SUBSET [n : Nat, id : Nat, bytes : Nat]]
    /\ Numbered(rows, lastId)
    /\ \A h \in Auditors : Numbered(plan[h], lastId)
    /\ NewestKept

-----------------------------------------------------------------------------
(* The oldest of the measured rows *)

LEMMA LeastNumber ==
    ASSUME NEW T, T \subseteq Nat, T # {}
    PROVE  \E m \in T : \A k \in T : m <= k
  <1> DEFINE R == OpToRel(<, Nat)
  <1>1. IsWellFoundedOn(R, Nat)
    BY NatLessThanWellFounded
  <1>2. \A x, y \in Nat : x < y => <<x, y>> \in R
    BY DEF OpToRel
  <1>3. PICK m \in T : \A y \in T : ~ (<<y, m>> \in R)
    <2> HIDE DEF R
    <2> QED BY <1>1, WFMin
  <1> HIDE DEF R
  <1>4. ASSUME NEW k \in T PROVE m <= k
    <2>1. m \in Nat /\ k \in Nat /\ ~(k < m)
      BY <1>2, <1>3
    <2> QED BY <2>1
  <1> QED BY <1>4

LEMMA TwoOf ==
    ASSUME NEW S, Cardinality(S) > 1
    PROVE  \E x, y \in S : x # y
  <1>1. PICK x \in S : TRUE
    BY FS_EmptySet
  <1>2. S # {x}
    BY FS_Singleton
  <1> QED BY <1>2

\* What is deleted is not the newest of what the table has ever held.
LEMMA OldestIsNotLast ==
    ASSUME NEW last \in Nat, NEW events, Numbered(events, last), TooLong(events)
    PROVE  Oldest(events) \in events /\ Oldest(events).id < last
  <1> DEFINE ids == {e.id : e \in events}
  <1>1. PICK x, y \in events : x # y
    BY TwoOf DEF TooLong
  <1>2. x.id # y.id /\ x.id \in 1..last /\ y.id \in 1..last
    BY <1>1 DEF Numbered
  <1>3. ids \subseteq Nat /\ ids # {}
    BY <1>1 DEF Numbered
  <1>4. PICK m \in ids : \A k \in ids : m <= k
    <2> HIDE DEF ids
    <2> QED BY <1>3, LeastNumber
  <1>5. \E e \in events : \A f \in events : e.id <= f.id
    BY <1>4
  <1>6. /\ Oldest(events) \in events
        /\ Oldest(events).id <= x.id /\ Oldest(events).id <= y.id
    BY <1>5 DEF Oldest
  <1>7. Oldest(events).id \in 1..last
    BY <1>6 DEF Numbered
  <1> QED BY <1>2, <1>6, <1>7

-----------------------------------------------------------------------------
(* Types and locks *)

LEMMA EmptyIsRow == Empty \in Rows
  BY StateAssumption DEF Empty, Rows

LEMMA RowsOfHook ==
    ASSUME TypeOK, NEW h \in Handlers
    PROVE  /\ local[h] \in [Scopes -> Rows]
           /\ \A scope \in Scopes : local[h][scope] \in Rows
           /\ local[h]["user"] \in Rows
           /\ UserOf[h] \in Users
  <1>1. local[h] \in [Scopes -> Rows]
    BY DEF TypeOK
  <1>2. "user" \in Scopes
    BY DEF Scopes
  <1> QED BY <1>1, <1>2, StateAssumption

LEMMA LeftTyped ==
    ASSUME TypeOK, NEW h \in Handlers, left' = [left EXCEPT ![UserOf[h]] = local[h]["user"]]
    PROVE  left' \in [Users -> Rows \cup {None}]
  BY RowsOfHook DEF TypeOK

LEMMA SomeOps ==
    ASSUME NEW seq \in Seq(Operations), seq # <<>>
    PROVE  Len(seq) \in Nat \ {0}
  BY EmptySeq

LEMMA ApplyTyped ==
    ASSUME NEW tables \in [Cells -> Rows], NEW op \in Operations
    PROVE  Apply(tables, op) \in [Cells -> Rows]
  <1>1. ASSUME NEW row \in Rows PROVE ApplyOp(row, op) \in Rows
    BY EmptyIsRow, StateAssumption DEF ApplyOp, Rows, Operations
  <1>2. op.cell \in Cells
    BY DEF Operations
  <1> QED BY <1>1, <1>2 DEF Apply

LEMMA InitTyped == Init => TypeOK
  <1> SUFFICES ASSUME Init PROVE TypeOK
    OBVIOUS
  <1>1. Blank \in [Scopes -> Rows]
    BY EmptyIsRow DEF Blank
  <1>2. [c \in Cells |-> Empty] \in [Cells -> Rows]
    BY EmptyIsRow
  <1>3. phase = [h \in Handlers |-> "none"]
    BY StoreAssumption DEF Init, AuditInit
  <1>4. 0 \in 0..MaxHooks
    BY StateAssumption
  <1>5. <<>> \in Seq(Operations) /\ 0 \in 0..Len(<<>>)
    OBVIOUS
  <1>6. /\ db = [c \in Cells |-> Empty] /\ hooks = 0
        /\ pc = [h \in Handlers |-> "idle"]
        /\ snap = [h \in Handlers |-> Blank] /\ local = [h \in Handlers |-> Blank]
        /\ ops = [h \in Handlers |-> <<>>] /\ done = [h \in Handlers |-> 0]
        /\ work = [h \in Handlers |-> None] /\ left = [u \in Users |-> None]
        /\ readers = {} /\ writer = None /\ waiting = FALSE
    BY DEF Init, StateInit
  <1>7. \A h \in Handlers : done[h] \in 0..Len(ops[h])
    BY <1>5, <1>6
  <1>8. ops \in [Handlers -> Seq(Operations)]
    BY <1>5, <1>6
  <1>9. readers = {h \in Handlers : pc[h] = "write"}
    BY <1>6
  <1>10. /\ snap \in [Handlers -> [Scopes -> Rows]]
         /\ local \in [Handlers -> [Scopes -> Rows]]
         /\ db \in [Cells -> Rows]
    BY <1>1, <1>2, <1>6
  <1>11. /\ pc \in [Handlers -> {"idle", "reading", "script", "denied", "apply", "write"}]
         /\ done \in [Handlers -> Nat]
         /\ work \in [Handlers -> [Cells -> Rows] \cup {None}]
         /\ left \in [Users -> Rows \cup {None}]
         /\ phase \in [Handlers -> {"none", "append", "measure", "trim", "mirror", "done"}]
    BY <1>3, <1>6
  <1>12. \A h \in Handlers :
           pc[h] = "idle" /\ work[h] = None /\ done[h] = 0 /\ phase[h] = "none"
    BY <1>3, <1>6
  <1>13. hooks \in 0..MaxHooks /\ writer \in readers \cup {None}
    BY <1>4, <1>6
  <1>14. waiting \in BOOLEAN /\ (waiting => writer # None)
    BY <1>6
  <1> QED BY <1>7, <1>8, <1>9, <1>10, <1>11, <1>12, <1>13, <1>14 DEF TypeOK

\* A handler that has nothing more to do with the tables.
LEMMA FinishTyped ==
    ASSUME TypeOK, NEW h \in Handlers, Finish(h)
    PROVE  /\ pc' \in [Handlers -> {"idle", "reading", "script", "denied", "apply", "write"}]
           /\ snap' \in [Handlers -> [Scopes -> Rows]]
           /\ local' \in [Handlers -> [Scopes -> Rows]]
           /\ ops' \in [Handlers -> Seq(Operations)]
           /\ done' \in [Handlers -> Nat]
           /\ work' \in [Handlers -> [Cells -> Rows] \cup {None}]
           /\ pc'[h] = "idle" /\ ops'[h] = <<>> /\ done'[h] = 0 /\ work'[h] = None
           /\ \A g \in Handlers \ {h} :
                pc'[g] = pc[g] /\ ops'[g] = ops[g] /\ done'[g] = done[g] /\ work'[g] = work[g]
  <1>1. Blank \in [Scopes -> Rows]
    BY EmptyIsRow DEF Blank
  <1> QED BY <1>1 DEF Finish, TypeOK

\* A transaction that ends gives its locks back, one that had none keeps none.
LEMMA EndKeeps ==
    ASSUME TypeOK, NEW h \in Handlers, Finish(h), Unlock(h),
           db' \in [Cells -> Rows], hooks' = hooks,
           left' \in [Users -> Rows \cup {None}],
           phase' = phase, phase[h] = "none"
    PROVE  TypeOK'
  <1>1. readers' = {g \in Handlers : pc'[g] = "write"}
    BY FinishTyped DEF Unlock, TypeOK
  <1>2. writer' \in readers' \cup {None} /\ waiting' \in BOOLEAN /\ (waiting' => writer' # None)
    BY DEF Unlock, TypeOK
  <1>3. \A g \in Handlers :
        /\ pc'[g] \in {"apply", "write"} => ops'[g] # <<>>
        /\ pc'[g] = "write" => work'[g] \in [Cells -> Rows]
        /\ pc'[g] # "write" => work'[g] = None
        /\ done'[g] \in 0..Len(ops'[g])
        /\ done'[g] > 0 => writer' = g
        /\ phase'[g] # "none" => pc'[g] = "denied"
    BY FinishTyped DEF Unlock, TypeOK
  <1> QED BY <1>1, <1>2, <1>3, FinishTyped DEF TypeOK

LEMMA ReadTyped ==
    ASSUME TypeOK, NEW h \in Handlers, ReadUser(h) \/ ReadShared(h), UNCHANGED auditVars
    PROVE  TypeOK'
  <1>1. CASE ReadUser(h)
    <2>1. UserRow(UserOf[h]) \in Rows
      BY StateAssumption DEF UserRow, TypeOK
    <2>2. [Blank EXCEPT !["user"] = UserRow(UserOf[h])] \in [Scopes -> Rows]
      BY <2>1, EmptyIsRow DEF Blank
    <2>3. hooks' \in 0..MaxHooks
      BY <1>1, StateAssumption DEF ReadUser, TypeOK
    <2> QED BY <1>1, <2>2, <2>3 DEF ReadUser, TypeOK, auditVars
  <1>2. CASE ReadShared(h)
    <2>1. db["room"] \in Rows /\ db["global"] \in Rows
      BY StateAssumption DEF TypeOK
    <2>2. snap'[h] \in [Scopes -> Rows] /\ snap' \in [Handlers -> [Scopes -> Rows]]
      BY <1>2, <2>1 DEF ReadShared, TypeOK
    <2> QED BY <1>2, <2>2 DEF ReadShared, TypeOK, auditVars
  <1> QED BY <1>1, <1>2

\* What a script records is an operation on a cell of its door.
LEMMA RecordTyped ==
    ASSUME TypeOK, NEW h \in Handlers, NEW scope \in Scopes,
           NEW row \in Rows, NEW op \in Operations, Record(h, scope, row, op)
    PROVE  /\ local' \in [Handlers -> [Scopes -> Rows]]
           /\ ops' \in [Handlers -> Seq(Operations)]
           /\ \A g \in Handlers \ {h} : ops'[g] = ops[g]
           /\ ops'[h] # <<>> /\ Len(ops'[h]) \in Nat /\ Len(ops'[h]) >= Len(ops[h])
  <1>1. [local[h] EXCEPT ![scope] = row] \in [Scopes -> Rows]
    BY DEF TypeOK
  <1>2. Append(ops[h], op) \in Seq(Operations) /\ Len(Append(ops[h], op)) = Len(ops[h]) + 1
    BY DEF TypeOK
  <1> QED BY <1>1, <1>2 DEF Record, TypeOK

LEMMA OpTyped ==
    ASSUME NEW h \in Handlers, NEW scope \in Scopes, NEW key \in Keys \cup {None},
           NEW value \in Values, NEW row \in Rows,
           NEW op \in {"set", "delete", "clear", "replace"}
    PROVE  Op(h, op, scope, key, value, row) \in Operations
  <1>1. CellOf(h, scope) \in Cells
    BY StateAssumption DEF CellOf, Scopes
  <1> QED BY <1>1 DEF Op, Operations

LEMMA CallTyped ==
    ASSUME TypeOK, NEW h \in Handlers, ScriptCall(h), UNCHANGED auditVars
    PROVE  TypeOK'
  <1>1. /\ pc[h] = "script"
        /\ UNCHANGED <<hooks, db, pc, snap, done, work, readers, writer, waiting, left>>
    BY DEF ScriptCall
  <1>2. ASSUME NEW scope \in Scopes, NEW row \in Rows, NEW op \in Operations,
               Record(h, scope, row, op)
        PROVE  TypeOK'
    <2>1. \A g \in Handlers : Len(ops[g]) \in Nat /\ Len(ops'[g]) \in Nat /\ Len(ops[g]) <= Len(ops'[g])
      <3>1. /\ ops \in [Handlers -> Seq(Operations)] /\ ops' \in [Handlers -> Seq(Operations)]
            /\ \A g \in Handlers \ {h} : ops'[g] = ops[g]
            /\ Len(ops'[h]) >= Len(ops[h])
        BY <1>2, RecordTyped DEF TypeOK
      <3>2. \A g \in Handlers : Len(ops[g]) \in Nat /\ Len(ops'[g]) \in Nat
        BY <3>1
      <3>3. ASSUME NEW g \in Handlers PROVE Len(ops[g]) <= Len(ops'[g])
        <4>1. CASE g = h
          BY <3>1, <3>2, <4>1
        <4>2. CASE g # h
          BY <3>1, <3>2, <4>2
        <4> QED BY <4>1, <4>2
      <3> QED BY <3>2, <3>3
    <2>2. \A g \in Handlers : done'[g] \in 0..Len(ops'[g])
      BY <1>1, <2>1 DEF TypeOK
    <2> QED BY <1>1, <1>2, <2>2, RecordTyped DEF TypeOK, auditVars
  <1>3. \A scope \in Scopes : local[h][scope] \in Rows
    BY RowsOfHook
  <1>4. ASSUME NEW scope \in Scopes, NEW key \in Keys, NEW value \in Values,
               SetKey(h, scope, key, value)
        PROVE  TypeOK'
    <2>1. [local[h][scope] EXCEPT ![key] = value] \in Rows
      BY <1>3 DEF Rows
    <2> QED BY <1>2, <1>4, <2>1, EmptyIsRow, OpTyped DEF SetKey
  <1>5. ASSUME NEW scope \in Scopes, NEW key \in Keys, NEW item \in Items,
               AppendItem(h, scope, key, item)
        PROVE  TypeOK'
    <2>1. Appended(local[h][scope][key], item) \in Values
      BY <1>3, StateAssumption DEF Rows
    <2> QED BY <1>4, <1>5, <2>1 DEF AppendItem
  <1>6. ASSUME NEW scope \in Scopes, NEW key \in Keys, DeleteKey(h, scope, key)
        PROVE  TypeOK'
    <2>1. [local[h][scope] EXCEPT ![key] = <<>>] \in Rows /\ <<>> \in Values
      BY <1>3, StateAssumption DEF Rows
    <2> QED BY <1>2, <1>6, <2>1, EmptyIsRow, OpTyped DEF DeleteKey
  <1>7. ASSUME NEW scope \in Scopes, ClearScope(h, scope)
        PROVE  TypeOK'
    <2>1. <<>> \in Values
      BY StateAssumption
    <2> QED BY <1>2, <1>7, <2>1, EmptyIsRow, OpTyped DEF ClearScope
  <1>8. ASSUME NEW key \in Keys, NEW value \in Values, Mutate(h, key, value)
        PROVE  TypeOK'
    <2>1. [local[h]["user"] EXCEPT ![key] = value] \in Rows
      BY RowsOfHook DEF Rows
    <2>2. [local[h] EXCEPT !["user"] = [local[h]["user"] EXCEPT ![key] = value]] \in [Scopes -> Rows]
      BY <2>1, RowsOfHook
    <2>3. local' \in [Handlers -> [Scopes -> Rows]] /\ ops' = ops
      <3>1. local' = [local EXCEPT ![h] =
                [local[h] EXCEPT !["user"] = [local[h]["user"] EXCEPT ![key] = value]]]
        BY <1>8 DEF Mutate
      <3>2. local \in [Handlers -> [Scopes -> Rows]]
        BY DEF TypeOK
      <3> QED BY <1>8, <2>2, <3>1, <3>2 DEF Mutate
    <2> QED BY <1>1, <2>3 DEF TypeOK, auditVars
  <1>9. \A item \in Items : <<item>> \in Values
    BY StateAssumption
  <1> QED BY <1>4, <1>5, <1>6, <1>7, <1>8, <1>9, StateAssumption DEF ScriptCall

LEMMA AnswerTyped ==
    ASSUME TypeOK, NEW h \in Handlers
    PROVE  Answer(h) \in Seq(Operations)
  <1>1. <<>> \in Values /\ None \in Keys \cup {None} /\ "user" \in Scopes
    BY StateAssumption DEF Scopes
  <1>2. local[h]["user"] \in Rows
    BY RowsOfHook
  <1>3. Op(h, "replace", "user", None, <<>>, local[h]["user"]) \in Operations
    BY <1>1, <1>2, OpTyped
  <1> QED BY <1>3 DEF Answer, TypeOK

LEMMA ScriptEndsTyped ==
    ASSUME TypeOK, NEW h \in Handlers, ScriptEnds(h), UNCHANGED auditVars
    PROVE  TypeOK'
  <1>1. /\ pc[h] = "script" /\ phase[h] = "none" /\ phase' = phase
        /\ UNCHANGED <<hooks, db, readers, writer, waiting>>
    BY DEF ScriptEnds, TypeOK, auditVars
  <1>2. h \notin readers /\ writer # h /\ done[h] = 0
    BY <1>1, StateAssumption DEF TypeOK
  <1>3. PICK denied \in BOOLEAN :
        IF Answer(h) = <<>> /\ ~denied
        THEN /\ Finish(h)
             /\ left' = [left EXCEPT ![UserOf[h]] = local[h]["user"]]
        ELSE /\ ops' = [ops EXCEPT ![h] = Answer(h)]
             /\ pc' = [pc EXCEPT ![h] = IF denied THEN "denied" ELSE "apply"]
             /\ UNCHANGED <<snap, local, done, work, left>>
    BY DEF ScriptEnds
  <1>4. CASE Answer(h) = <<>> /\ ~denied
    <2>1. Unlock(h)
      BY <1>1, <1>2 DEF Unlock, TypeOK
    <2>2. left' \in [Users -> Rows \cup {None}]
      BY <1>3, <1>4, LeftTyped
    <2> QED BY <1>1, <1>3, <1>4, <2>1, <2>2, EndKeeps DEF TypeOK
  <1>5. CASE ~(Answer(h) = <<>> /\ ~denied)
    <2>1. /\ ops' = [ops EXCEPT ![h] = Answer(h)]
          /\ pc' = [pc EXCEPT ![h] = IF denied THEN "denied" ELSE "apply"]
          /\ UNCHANGED <<snap, local, done, work, left>>
      BY <1>3, <1>5
    <2>2. ops' \in [Handlers -> Seq(Operations)] /\ ops'[h] = Answer(h)
      BY <2>1, AnswerTyped DEF TypeOK
    <2>3. \A g \in Handlers :
            /\ pc'[g] \in {"apply", "write"} => ops'[g] # <<>>
            /\ done'[g] \in 0..Len(ops'[g])
      <3>1. Len(ops'[h]) \in Nat
        BY <2>2
      <3>2. ~denied => ops'[h] # <<>>
        BY <1>5, <2>2
      <3> QED BY <1>2, <2>1, <3>1, <3>2 DEF TypeOK
    <2>4. pc' \in [Handlers -> {"idle", "reading", "script", "denied", "apply", "write"}]
      BY <2>1 DEF TypeOK
    <2>5. readers = {g \in Handlers : pc'[g] = "write"}
      BY <1>1, <2>1 DEF TypeOK
    <2> QED BY <1>1, <2>1, <2>2, <2>3, <2>4, <2>5 DEF TypeOK
  <1> QED BY <1>4, <1>5

\* The hook that fails, with its audit at an end or none begun.
LEMMA ScriptFailsTyped ==
    ASSUME TypeOK, NEW h \in Handlers, HookFails(h)
    PROVE  TypeOK'
  <1>1. /\ Finish(h) /\ pc[h] \in {"script", "denied"}
        /\ UNCHANGED <<hooks, db, readers, writer, waiting, left>>
    BY DEF HookFails, ScriptFails
  <1>2. h \notin readers /\ writer # h
    BY <1>1, StateAssumption DEF TypeOK
  <1>3. /\ phase' \in [Handlers -> {"none", "append", "measure", "trim", "mirror", "done"}]
        /\ phase'[h] = "none"
        /\ \A g \in Handlers \ {h} : phase'[g] = phase[g]
    BY DEF HookFails, EndAudit, auditVars, TypeOK
  <1>4. readers' = {g \in Handlers : pc'[g] = "write"}
    BY <1>1, <1>2, FinishTyped DEF TypeOK
  <1>5. \A g \in Handlers :
        /\ pc'[g] \in {"apply", "write"} => ops'[g] # <<>>
        /\ pc'[g] = "write" => work'[g] \in [Cells -> Rows]
        /\ pc'[g] # "write" => work'[g] = None
        /\ done'[g] \in 0..Len(ops'[g])
        /\ done'[g] > 0 => writer' = g
        /\ phase'[g] # "none" => pc'[g] = "denied"
    BY <1>1, <1>3, FinishTyped DEF TypeOK
  <1> QED BY <1>1, <1>3, <1>4, <1>5, FinishTyped DEF TypeOK

LEMMA BeginTyped ==
    ASSUME TypeOK, NEW h \in Handlers, Begin(h), UNCHANGED auditVars
    PROVE  TypeOK'
  BY DEF Begin, TypeOK, auditVars

LEMMA FailTyped ==
    ASSUME TypeOK, NEW h \in Handlers, Fail(h), pc[h] # "denied", UNCHANGED auditVars
    PROVE  TypeOK'
  <1>1. phase[h] = "none" /\ phase' = phase
    BY DEF TypeOK, auditVars
  <1> QED BY <1>1, EndKeeps DEF Fail, TypeOK

LEMMA WriteTyped ==
    ASSUME TypeOK, NEW h \in Handlers, Write(h), UNCHANGED auditVars
    PROVE  TypeOK'
  <1>1. pc[h] = "write" /\ done[h] < Len(ops[h]) /\ work[h] \in [Cells -> Rows]
    BY DEF Write, TypeOK
  <1>2. CASE writer \in {None, h}
    <2>1. ops[h] \in Seq(Operations) /\ done[h] + 1 \in 1..Len(ops[h])
      BY <1>1 DEF TypeOK
    <2>2. ops[h][done[h] + 1] \in Operations
      BY <2>1
    <2>3. Apply(work[h], ops[h][done[h] + 1]) \in [Cells -> Rows]
      BY <1>1, <2>2, ApplyTyped
    <2>4. /\ writer' = h
          /\ work' = [work EXCEPT ![h] = Apply(work[h], ops[h][done[h] + 1])]
          /\ done' = [done EXCEPT ![h] = done[h] + 1]
          /\ UNCHANGED <<hooks, db, pc, snap, local, ops, readers, waiting, left>>
      BY <1>2 DEF Write
    <2>5. h # None /\ h \in readers
      BY <1>1, StateAssumption DEF TypeOK
    <2>6. /\ work' \in [Handlers -> [Cells -> Rows] \cup {None}]
          /\ done' \in [Handlers -> Nat]
      BY <2>3, <2>4 DEF TypeOK
    <2>7. \A g \in Handlers :
            /\ pc[g] = "write" => work'[g] \in [Cells -> Rows]
            /\ pc[g] # "write" => work'[g] = None
            /\ done'[g] \in 0..Len(ops[g])
            /\ done'[g] > 0 => writer' = g
      <3>1. ASSUME NEW g \in Handlers \ {h}
            PROVE  work'[g] = work[g] /\ done'[g] = done[g]
        BY <2>4 DEF TypeOK
      <3>2. work'[h] \in [Cells -> Rows] /\ done'[h] \in 0..Len(ops[h])
        BY <2>1, <2>3, <2>4 DEF TypeOK
      <3>3. ASSUME NEW g \in Handlers \ {h} PROVE done[g] = 0
        <4>1. g # None /\ writer # g
          BY <1>2, StateAssumption
        <4>2. done[g] \in Nat /\ (done[g] > 0 => writer = g)
          BY DEF TypeOK
        <4> QED BY <4>1, <4>2
      <3> QED BY <1>1, <2>4, <3>1, <3>2, <3>3 DEF TypeOK
    <2> QED BY <2>4, <2>5, <2>6, <2>7 DEF TypeOK, auditVars
  <1>3. CASE writer \notin {None, h}
    BY <1>1, <1>3, FailTyped DEF Write
  <1> QED BY <1>2, <1>3

LEMMA DrainTyped ==
    ASSUME TypeOK, NEW h \in Handlers, Drain(h), UNCHANGED auditVars
    PROVE  TypeOK'
  <1>1. done[h] \in Nat \ {0}
    BY SomeOps DEF Drain, TypeOK
  <1>2. writer = h /\ h # None
    BY <1>1, StateAssumption DEF TypeOK
  <1> QED BY <1>2 DEF Drain, TypeOK, auditVars

LEMMA CommitTyped ==
    ASSUME TypeOK, NEW h \in Handlers, CommitTx(h), UNCHANGED auditVars
    PROVE  TypeOK'
  <1>1. db' \in [Cells -> Rows] /\ phase[h] = "none" /\ phase' = phase
    BY DEF CommitTx, TypeOK, auditVars
  <1>2. left' \in [Users -> Rows \cup {None}]
    BY LeftTyped DEF CommitTx
  <1> QED BY <1>1, <1>2, EndKeeps DEF CommitTx

LEMMA StateStepTyped ==
    ASSUME TypeOK, NEW h \in Handlers, StateStep(h)
    PROVE  TypeOK'
  <1>1. CASE TimesOut(h)
    <2>1. pc[h] # "denied"
      BY <1>1, StateAssumption DEF TimesOut, TypeOK
    <2> QED BY <1>1, <2>1, FailTyped DEF TimesOut, StateStep
  <1>2. CASE WriteFails(h)
    BY <1>2, FailTyped DEF WriteFails, StateStep
  <1> QED BY <1>1, <1>2, ReadTyped, CallTyped, ScriptEndsTyped, BeginTyped, WriteTyped,
          DrainTyped, CommitTyped DEF StateStep, HookStep

\* An audit runs only in a handler whose hook was denied.
LEMMA AuditStepTyped ==
    ASSUME TypeOK, NEW h \in Handlers, AuditStep(h)
    PROVE  TypeOK'
  <1>1. pc[h] = "denied" /\ UNCHANGED stateVars
    BY DEF AuditStep
  <1>2. \E p \in {"append", "measure", "trim", "mirror", "done"} :
            phase' = [phase EXCEPT ![h] = p] \/ phase' = phase
    BY DEF AuditStep, Audit, AppendEvent, MeasureRows, DeleteRow, EndTrim, WriteMirror
  <1> QED BY <1>1, <1>2 DEF TypeOK, stateVars

LEMMA NextKeepsTypes == TypeOK /\ [Next]_storeVars => TypeOK'
  <1> SUFFICES ASSUME TypeOK, [Next]_storeVars PROVE TypeOK'
    OBVIOUS
  <1>1. CASE UNCHANGED storeVars
    BY <1>1 DEF TypeOK, storeVars, stateVars, auditVars
  <1> QED BY <1>1, StateStepTyped, AuditStepTyped, ScriptFailsTyped DEF Next

\* The tables and what scripts answer keep their types, and SQLite's locks are
\* held only by transactions under way, whatever fails or runs out of time.
THEOREM TypeCorrect == Spec => []TypeOK
  BY InitTyped, NextKeepsTypes, PTL DEF Spec

-----------------------------------------------------------------------------
(* The trail *)

LEMMA InitTrail == Init => TrailInv
  BY DEF Init, AuditInit, TrailInv, Numbered, NewestKept, NoEvent

LEMMA AuditKeeps ==
    ASSUME TrailInv, NEW h \in Auditors, Audit(h)
    PROVE  TrailInv'
  <1>1. audited' \in Nat /\ SizeOf[h] \in Nat
    <2>1. audited' = audited + 1 /\ audited \in Nat
      BY DEF TrailInv, Audit
    <2>2. SizeOf[h] \in Nat
      BY AuditAssumption
    <2> QED BY <2>1, <2>2
  <1>2. event' \in [Auditors -> [n : Nat, id : Nat, bytes : Nat]]
    BY <1>1 DEF TrailInv, Audit
  <1> QED BY <1>1, <1>2 DEF TrailInv, Audit, NewestKept

LEMMA AppendKeeps ==
    ASSUME TrailInv, NEW h \in Auditors, NEW ok \in BOOLEAN, AppendEvent(h, ok)
    PROVE  TrailInv'
  <1>1. CASE ok
    <2> DEFINE new == [n |-> event[h].n, id |-> lastId + 1, bytes |-> event[h].bytes]
    <2>1. /\ lastId' = lastId + 1
          /\ event' = [event EXCEPT ![h] = new]
          /\ rows' = rows \cup {new}
          /\ UNCHANGED <<plan, audited>>
      BY <1>1 DEF AppendEvent, TrailInv
    <2>2. new \in [n : Nat, id : 1..lastId', bytes : Nat] /\ new.id = lastId'
      BY <2>1 DEF TrailInv
    <2> HIDE DEF new
    <2>3. \A events : Numbered(events, lastId) => Numbered(events, lastId')
      BY <2>1 DEF TrailInv, Numbered
    <2>4. Numbered(rows', lastId')
      BY <2>1, <2>2 DEF TrailInv, Numbered
    <2>5. NewestKept'
      BY <2>1, <2>2 DEF NewestKept
    <2> QED BY <2>1, <2>2, <2>3, <2>4, <2>5 DEF TrailInv
  <1>2. CASE ~ok
    BY <1>2 DEF AppendEvent, TrailInv, NewestKept
  <1> QED BY <1>1, <1>2

LEMMA MeasureKeeps ==
    ASSUME TrailInv, NEW h \in Auditors, MeasureRows(h)
    PROVE  TrailInv'
  BY DEF TrailInv, MeasureRows, NewestKept, Numbered

LEMMA DeleteKeeps ==
    ASSUME TrailInv, NEW h \in Auditors, DeleteRow(h)
    PROVE  TrailInv'
  <1>1. Oldest(plan[h]).id < lastId
    BY OldestIsNotLast DEF TrailInv, DeleteRow
  <1>2. /\ rows' = rows \ {Oldest(plan[h])}
        /\ plan' = [plan EXCEPT ![h] = @ \ {Oldest(plan[h])}]
        /\ UNCHANGED <<event, lastId, audited>>
    BY DEF DeleteRow
  <1>3. \A events, x : Numbered(events, lastId) => Numbered(events \ {x}, lastId)
    BY DEF Numbered
  <1>4. NewestKept'
    BY <1>1, <1>2 DEF TrailInv, NewestKept
  <1> QED BY <1>2, <1>3, <1>4 DEF TrailInv

LEMMA EndTrimKeeps ==
    ASSUME TrailInv, NEW h \in Auditors, NEW ok \in BOOLEAN, EndTrim(h, ok)
    PROVE  TrailInv'
  <1>1. plan' = [plan EXCEPT ![h] = {}] /\ UNCHANGED <<event, rows, lastId, audited>>
    BY DEF EndTrim
  <1> QED BY <1>1 DEF TrailInv, NewestKept, Numbered

\* The mirror and the end of an audit leave the table alone.
LEMMA RestKeeps ==
    ASSUME TrailInv, NEW h \in Auditors, WriteMirror(h) \/ EndAudit(h)
    PROVE  TrailInv'
  <1>1. UNCHANGED <<rows, lastId, plan, audited>>
    BY DEF WriteMirror, EndAudit
  <1>2. event' \in [Auditors -> [n : Nat, id : Nat, bytes : Nat]]
    BY DEF WriteMirror, EndAudit, NoEvent, TrailInv
  <1> QED BY <1>1, <1>2 DEF TrailInv, NewestKept

LEMMA NextKeepsTrail == TrailInv /\ [Next]_storeVars => TrailInv'
  <1> SUFFICES ASSUME TrailInv, [Next]_storeVars PROVE TrailInv'
    OBVIOUS
  <1>1. ASSUME UNCHANGED auditVars PROVE TrailInv'
    BY <1>1 DEF auditVars, TrailInv, NewestKept
  <1>2. ASSUME NEW h \in Handlers, AuditStep(h) PROVE TrailInv'
    BY <1>2, StoreAssumption, AuditKeeps, AppendKeeps, MeasureKeeps, DeleteKeeps,
       EndTrimKeeps, RestKeeps DEF AuditStep
  <1>3. ASSUME NEW h \in Handlers, HookFails(h) PROVE TrailInv'
    BY <1>1, <1>3, StoreAssumption, RestKeeps DEF HookFails
  <1>4. CASE UNCHANGED storeVars
    BY <1>1, <1>4 DEF storeVars
  <1> QED BY <1>1, <1>2, <1>3, <1>4 DEF Next, StateStep

\* However many handlers audit, fail and trim at the same time, the event that
\* was appended last is in the table (TrimAuditEventsToMaxBytes).
THEOREM LastEventStays == Spec => []NewestKept
  <1>1. TrailInv => NewestKept
    BY DEF TrailInv
  <1> QED BY InitTrail, NextKeepsTrail, <1>1, PTL DEF Spec
-----------------------------------------------------------------------------
(* The operations of an answer, one after the other *)

LEMMA MaxIs ==
    ASSUME NEW s, NEW m \in s, s \subseteq 1..m, m \in Nat
    PROVE  Max(s) = m
  <1>1. \A y \in s : m >= y
    OBVIOUS
  <1>2. ASSUME NEW x \in s, \A y \in s : x >= y PROVE x = m
    <2>1. x \in Nat /\ x <= m /\ x >= m
      BY <1>2
    <2> QED BY <2>1
  <1>3. Max(s) = CHOOSE x \in s : \A y \in s : x >= y
    BY DEF Max
  <1>4. Max(s) \in s /\ \A y \in s : Max(s) >= y
    BY <1>1, <1>3
  <1> QED BY <1>2, <1>4

\* FoldLeft over the first n operations takes the fixed point of this.
FoldStep(f, tables, seq, n) == [s \in SUBSET (1..n) |->
    IF s = {} THEN tables ELSE Apply(f[s \ {Max(s)}], seq[Max(s)])]

LEMMA FoldExists ==
    ASSUME NEW tables, NEW seq, NEW n \in Nat
    PROVE  \E f : f = FoldStep(f, tables, seq, n)
  <1> DEFINE Folds(k, f) == f = [s \in SUBSET (1..k) |->
                 IF s = {} THEN tables ELSE Apply(f[s \ {Max(s)}], seq[Max(s)])]
             bad == {k \in Nat : ~ \E f : Folds(k, f)}
  <1>1. SUFFICES ASSUME bad # {} PROVE FALSE
    BY DEF Folds, FoldStep
  <1>2. PICK m \in bad : \A k \in bad : m <= k
    <2>1. bad \subseteq Nat
      OBVIOUS
    <2> HIDE DEF bad
    <2> QED BY <1>1, <2>1, LeastNumber
  <1>3. m \in Nat
    BY <1>2
  <1>4. CASE m = 0
    <2> DEFINE f == [s \in SUBSET (1..m) |-> tables]
    <2>1. \A s \in SUBSET (1..m) : s = {}
      BY <1>4
    <2>2. f = [s \in SUBSET (1..m) |->
                 IF s = {} THEN tables ELSE Apply(f[s \ {Max(s)}], seq[Max(s)])]
      BY <2>1
    <2>3. Folds(m, f)
      BY <2>2
    <2> QED BY <1>2, <2>3
  <1>5. CASE m # 0
    <2>1. m - 1 \in Nat /\ ~(m <= m - 1)
      BY <1>3, <1>5
    <2>2. PICK f : Folds(m - 1, f)
      BY <1>2, <2>1
    <2> DEFINE g == [s \in SUBSET (1..m) |->
                       IF m \in s THEN Apply(f[s \ {m}], seq[m]) ELSE f[s]]
    <2>3. \A s \in SUBSET (1..(m - 1)) : f[s] =
              IF s = {} THEN tables ELSE Apply(f[s \ {Max(s)}], seq[Max(s)])
      BY <2>2
    <2>4. ASSUME NEW s \in SUBSET (1..m)
          PROVE  g[s] = IF s = {} THEN tables ELSE Apply(g[s \ {Max(s)}], seq[Max(s)])
      <3>1. CASE m \in s
        <4>1. Max(s) = m
          BY <1>3, <3>1, MaxIs
        <4>2. s \ {m} \in SUBSET (1..m) /\ m \notin s \ {m}
          OBVIOUS
        <4>3. g[s \ {m}] = f[s \ {m}]
          BY <4>2
        <4> QED BY <3>1, <4>1, <4>3
      <3>2. CASE m \notin s
        <4>1. s \in SUBSET (1..(m - 1))
          BY <1>3, <2>1, <3>2
        <4>2. s \ {Max(s)} \in SUBSET (1..m) /\ m \notin s \ {Max(s)}
          BY <3>2
        <4>3. g[s \ {Max(s)}] = f[s \ {Max(s)}] /\ g[s] = f[s]
          BY <3>2, <4>2
        <4> HIDE DEF g
        <4> QED BY <2>3, <4>1, <4>3
      <3> QED BY <3>1, <3>2
    <2>5. g = [s \in SUBSET (1..m) |-> g[s]]
      OBVIOUS
    <2> HIDE DEF g
    <2>6. Folds(m, g)
      BY <2>4, <2>5
    <2> QED BY <1>2, <2>6
  <1> QED BY <1>4, <1>5

\* The tables that a transaction passes through end in what AtomicStore makes
\* of them at once.
LEMMA FoldIsLast ==
    ASSUME NEW seq \in Seq(Operations), NEW r,
           \A i \in 1..Len(seq) : r[i] = Apply(r[i - 1], seq[i])
    PROVE  ApplyAll(r[0], seq) = r[Len(seq)]
  <1> DEFINE n == Len(seq)
             Step(f) == [s \in SUBSET (1..n) |->
                 IF s = {} THEN r[0] ELSE Apply(f[s \ {Max(s)}], seq[Max(s)])]
             fold == CHOOSE f : f = Step(f)
  <1>1. n \in Nat /\ DOMAIN seq = 1..n
    OBVIOUS
  <1>2. ApplyAll(r[0], seq) = fold[1..n]
    BY <1>1 DEF ApplyAll, FoldLeft, MapThenFoldSet
  <1>3. fold = Step(fold)
    <2>1. \E f : f = FoldStep(f, r[0], seq, n)
      BY <1>1, FoldExists
    <2>2. \A f : FoldStep(f, r[0], seq, n) = Step(f)
      BY DEF FoldStep
    <2> HIDE DEF Step
    <2> QED BY <2>1, <2>2
  <1>4. \A s \in SUBSET (1..n) :
          fold[s] = IF s = {} THEN r[0] ELSE Apply(fold[s \ {Max(s)}], seq[Max(s)])
    <2> HIDE DEF fold
    <2> QED BY <1>3
  <1> HIDE DEF fold, Step
  <1>5. SUFFICES ASSUME fold[1..n] # r[n] PROVE FALSE
    BY <1>2
  <1> DEFINE wrong == {i \in 0..n : fold[1..i] # r[i]}
  <1>6. PICK m \in wrong : \A k \in wrong : m <= k
    <2>1. wrong \subseteq Nat /\ wrong # {}
      BY <1>1, <1>5
    <2> HIDE DEF wrong
    <2> QED BY <2>1, LeastNumber
  <1>7. m \in 0..n /\ fold[1..m] # r[m]
    BY <1>6
  <1>8. CASE m = 0
    <2>1. 1..m = {}
      BY <1>8
    <2> QED BY <1>4, <1>7, <1>8, <2>1
  <1>9. CASE m # 0
    <2>1. m \in 1..n /\ m \in Nat /\ m \in 1..m /\ 1..m \subseteq 1..n /\ 1..m # {}
      BY <1>1, <1>7, <1>9
    <2>2. Max(1..m) = m
      BY <2>1, MaxIs
    <2>3. (1..m) \ {m} = 1..(m - 1)
      BY <2>1
    <2>4. m - 1 \in 0..n /\ m - 1 \notin wrong
      BY <1>6, <2>1
    <2>5. fold[1..(m - 1)] = r[m - 1]
      BY <2>4
    <2>6. fold[1..m] = Apply(fold[1..(m - 1)], seq[m])
      BY <1>4, <2>1, <2>2, <2>3
    <2> QED BY <1>7, <2>1, <2>5, <2>6
  <1> QED BY <1>8, <1>9

LEMMA SameFold ==
    ASSUME NEW tables, NEW seq
    PROVE  Store!ApplyAll(tables, seq) = ApplyAll(tables, seq)
  BY DEF ApplyAll, FoldLeft, MapThenFoldSet, Max, Apply, ApplyOp, Empty, Store!ApplyAll,
     Store!FoldLeft, Store!MapThenFoldSet, Store!Max, Store!Apply, Store!ApplyOp, Store!Empty

-----------------------------------------------------------------------------
(* The abstract store *)

\* The work of a transaction is what the operations executed so far make of
\* the tables, which nobody has changed meanwhile: a commit waits for all
\* other transactions.
Worked(h) == \E r :
    /\ r[0] = db
    /\ \A i \in 1..done[h] : r[i] = Apply(r[i - 1], ops[h][i])
    /\ r[done[h]] = work[h]

WorkInv == \A h \in Handlers : pc[h] = "write" => Worked(h)

LEMMA InitWork == Init => WorkInv
  BY DEF Init, StateInit, WorkInv

\* Nobody changes the tables while others are in a transaction.
LEMMA TablesStay ==
    ASSUME TypeOK, NEW h \in Handlers, StateStep(h) \/ AuditStep(h) \/ HookFails(h),
           db' # db
    PROVE  CommitTx(h) /\ \A g \in Handlers \ {h} : pc[g] # "write"
  <1>1. ASSUME ~CommitTx(h) PROVE db' = db
    BY <1>1 DEF StateStep, AuditStep, HookFails, HookStep, ReadUser, ReadShared, ScriptCall,
       ScriptEnds, Begin, Write, WriteFails, Drain, TimesOut, Fail, ScriptFails, stateVars
  <1>2. CommitTx(h)
    BY <1>1
  <1> QED BY <1>2 DEF CommitTx, TypeOK

\* A handler that has nothing to do with h's transaction.
LEMMA OthersWork ==
    ASSUME TypeOK, WorkInv, NEW h \in Handlers,
           StateStep(h) \/ AuditStep(h) \/ HookFails(h),
           NEW g \in Handlers, g # h, pc'[g] = "write"
    PROVE  Worked(g)'
  <1>1. /\ pc'[g] = pc[g] /\ ops'[g] = ops[g] /\ done'[g] = done[g] /\ work'[g] = work[g]
    <2>1. CASE StateStep(h)
      <3>1. CASE ReadUser(h) \/ ReadShared(h) \/ ScriptCall(h) \/ Begin(h) \/ Drain(h)
        BY <3>1 DEF ReadUser, ReadShared, ScriptCall, Begin, Drain, SetKey, AppendItem,
           DeleteKey, ClearScope, Mutate, Record, TypeOK
      <3>2. CASE ScriptEnds(h)
        BY <3>2 DEF ScriptEnds, Finish, TypeOK
      <3>3. CASE Write(h) \/ WriteFails(h) \/ CommitTx(h) \/ TimesOut(h)
        BY <3>3 DEF Write, WriteFails, CommitTx, TimesOut, Fail, Finish, TypeOK
      <3> QED BY <2>1, <3>1, <3>2, <3>3 DEF StateStep, HookStep
    <2>2. CASE AuditStep(h) \/ HookFails(h)
      BY <2>2 DEF AuditStep, HookFails, ScriptFails, Finish, stateVars, TypeOK
    <2> QED BY <2>1, <2>2
  <1>2. db' = db
    BY <1>1, TablesStay
  <1> QED BY <1>1, <1>2 DEF WorkInv, Worked

\* A handler goes on with its own transaction.
LEMMA OwnWork ==
    ASSUME TypeOK, WorkInv, NEW h \in Handlers,
           StateStep(h) \/ AuditStep(h) \/ HookFails(h), pc'[h] = "write"
    PROVE  Worked(h)'
  <1>1. CASE Begin(h)
    <2>1. done[h] = 0
      <3>1. pc[h] = "apply" /\ h # None
        BY <1>1, StateAssumption DEF Begin
      <3>2. h \notin readers
        BY <3>1 DEF TypeOK
      <3>3. writer # h
        BY <3>1, <3>2 DEF TypeOK
      <3>4. done[h] \in Nat /\ ~(done[h] > 0)
        BY <3>3 DEF TypeOK
      <3> QED BY <3>4
    <2>2. work'[h] = db /\ done' = done /\ db' = db
      BY <1>1 DEF Begin, TypeOK
    <2> DEFINE r == [i \in {0} |-> db]
    <2>3. r[0] = db /\ \A i \in 1..0 : FALSE
      OBVIOUS
    <2> HIDE DEF r
    <2> QED BY <2>1, <2>2, <2>3 DEF Worked
  <1>2. CASE Write(h)
    <2>1. pc[h] = "write" /\ Worked(h) /\ done[h] < Len(ops[h]) /\ done[h] \in Nat
      BY <1>2 DEF Write, WorkInv, TypeOK
    <2>2. writer \in {None, h}
      BY <1>2 DEF Write, Fail, Finish, TypeOK
    <2>3. /\ work'[h] = Apply(work[h], ops[h][done[h] + 1])
          /\ done'[h] = done[h] + 1 /\ ops' = ops /\ db' = db
      BY <1>2, <2>2 DEF Write, TypeOK
    <2>4. PICK r : /\ r[0] = db
                   /\ \A i \in 1..done[h] : r[i] = Apply(r[i - 1], ops[h][i])
                   /\ r[done[h]] = work[h]
      BY <2>1 DEF Worked
    <2> DEFINE n == done[h]
               q == [i \in 0..(n + 1) |-> IF i = n + 1 THEN work'[h] ELSE r[i]]
    <2>5. n \in Nat /\ \A i \in 0..n : q[i] = r[i]
      BY <2>1
    <2>6. q[n + 1] = work'[h] /\ q[0] = db
      BY <2>1, <2>4, <2>5
    <2> HIDE DEF q
    <2>7. ASSUME NEW i \in 1..(n + 1) PROVE q[i] = Apply(q[i - 1], ops[h][i])
      <3>1. CASE i = n + 1
        BY <2>3, <2>4, <2>5, <2>6, <3>1
      <3>2. CASE i # n + 1
        <4>1. i \in 1..n /\ i - 1 \in 0..n /\ i \in 0..n
          BY <2>5, <3>2
        <4> QED BY <2>4, <2>5, <4>1
      <3> QED BY <3>1, <3>2
    <2> QED BY <2>3, <2>6, <2>7 DEF Worked
  <1>3. CASE Drain(h)
    BY <1>3 DEF Drain, WorkInv, Worked
  <1>4. CASE ~(Begin(h) \/ Write(h) \/ Drain(h))
    <2>1. ASSUME AuditStep(h) PROVE FALSE
      BY <2>1 DEF AuditStep, stateVars
    <2>2. ASSUME HookFails(h) PROVE FALSE
      BY <2>2 DEF HookFails, ScriptFails, Finish, TypeOK
    <2>3. ASSUME ReadUser(h) \/ ReadShared(h) \/ ScriptCall(h) PROVE FALSE
      BY <2>3 DEF ReadUser, ReadShared, ScriptCall, TypeOK
    <2>4. ASSUME ScriptEnds(h) PROVE FALSE
      BY <2>4 DEF ScriptEnds, Finish, TypeOK
    <2>5. ASSUME WriteFails(h) \/ CommitTx(h) \/ TimesOut(h) PROVE FALSE
      BY <2>5 DEF WriteFails, CommitTx, TimesOut, Fail, Finish, TypeOK
    <2> QED BY <1>4, <2>1, <2>2, <2>3, <2>4, <2>5 DEF StateStep, HookStep
  <1> QED BY <1>1, <1>2, <1>3, <1>4

LEMMA WorkStep == TypeOK /\ WorkInv /\ [Next]_storeVars => WorkInv'
  <1> SUFFICES ASSUME TypeOK, WorkInv, [Next]_storeVars PROVE WorkInv'
    OBVIOUS
  <1>1. CASE UNCHANGED storeVars
    BY <1>1 DEF WorkInv, Worked, storeVars, stateVars
  <1> QED BY <1>1, OthersWork, OwnWork DEF Next, WorkInv

Batch(h) == IF pc[h] \in {"apply", "write"} THEN ops[h] ELSE <<>>
Batches == [h \in Handlers |-> Batch(h)]

LEMMA ChangesBatch ==
    ASSUME NEW h \in Handlers, \A g \in Handlers \ {h} : pc'[g] = pc[g] /\ ops'[g] = ops[g]
    PROVE  Batches' = [Batches EXCEPT ![h] = Batch(h)']
  BY DEF Batches, Batch

\* What a handler does until its transaction ends.
LEMMA QuietBatch ==
    ASSUME TypeOK, NEW h \in Handlers, db' = db,
           \A g \in Handlers \ {h} : pc'[g] = pc[g] /\ ops'[g] = ops[g],
           Batch(h)' = <<>> \/ Batch(h) = <<>> \/ Batch(h)' = Batch(h)
    PROVE  Store!Next \/ UNCHANGED <<db, Batches>>
  <1>1. Batches' = [Batches EXCEPT ![h] = Batch(h)'] /\ Batches[h] = Batch(h)
    BY ChangesBatch DEF Batches
  <1>2. Batches'[h] = Batch(h)' /\ Batches \in [Handlers -> {Batch(g) : g \in Handlers}]
    BY DEF Batches
  <1>3. CASE Batch(h)' = Batch(h)
    BY <1>1, <1>2, <1>3
  <1>4. CASE Batch(h)' = <<>> /\ Batch(h) # <<>>
    BY <1>1, <1>4 DEF Store!Next, Store!Reject, Store!Withdraw, Batches, Batch
  <1>5. CASE Batch(h)' # <<>> /\ Batch(h) = <<>>
    BY <1>1, <1>2, <1>5 DEF Store!Next, Store!Submit, Batches, Batch
  <1> QED BY <1>3, <1>4, <1>5

\* The commit of what a handler has executed to the end.
LEMMA CommitBatch ==
    ASSUME TypeOK, WorkInv, NEW h \in Handlers, CommitTx(h)
    PROVE  Store!Next
  <1>1. /\ pc[h] = "write" /\ done[h] = Len(ops[h]) /\ db' = work[h]
        /\ ops[h] # <<>> /\ ops[h] \in Seq(Operations)
    BY DEF CommitTx, TypeOK
  <1>2. /\ \A g \in Handlers \ {h} : pc'[g] = pc[g] /\ ops'[g] = ops[g]
        /\ pc'[h] = "idle"
    BY DEF CommitTx, Finish, TypeOK
  <1>3. PICK r : /\ r[0] = db
                 /\ \A i \in 1..Len(ops[h]) : r[i] = Apply(r[i - 1], ops[h][i])
                 /\ r[Len(ops[h])] = work[h]
    BY <1>1 DEF WorkInv, Worked
  <1>4. ApplyAll(db, ops[h]) = db'
    BY <1>1, <1>3, FoldIsLast
  <1>5. Store!ApplyAll(db, ops[h]) = db'
    BY <1>4, SameFold
  <1>6. Batches[h] = ops[h] /\ Batch(h)' = <<>>
    BY <1>1, <1>2 DEF Batches, Batch
  <1>7. Batches' = [Batches EXCEPT ![h] = <<>>]
    BY <1>2, <1>6, ChangesBatch
  <1>8. Store!Commit(h)
    BY <1>1, <1>5, <1>6, <1>7 DEF Store!Commit, Store!Withdraw, Batches, Batch
  <1> QED BY <1>8 DEF Store!Next

LEMMA OthersStay ==
    ASSUME TypeOK, NEW h \in Handlers, StateStep(h) \/ AuditStep(h) \/ HookFails(h)
    PROVE  \A g \in Handlers \ {h} : pc'[g] = pc[g] /\ ops'[g] = ops[g]
  <1>1. CASE ReadUser(h) \/ ReadShared(h) \/ ScriptCall(h) \/ Begin(h) \/ Drain(h)
    BY <1>1 DEF ReadUser, ReadShared, ScriptCall, Begin, Drain, SetKey, AppendItem,
       DeleteKey, ClearScope, Mutate, Record, TypeOK
  <1>2. CASE ScriptEnds(h)
    BY <1>2 DEF ScriptEnds, Finish, TypeOK
  <1>3. CASE Write(h) \/ WriteFails(h) \/ CommitTx(h) \/ TimesOut(h)
    BY <1>3 DEF Write, WriteFails, CommitTx, TimesOut, Fail, Finish, TypeOK
  <1>4. CASE AuditStep(h) \/ HookFails(h)
    BY <1>4 DEF AuditStep, HookFails, ScriptFails, Finish, stateVars, TypeOK
  <1> QED BY <1>1, <1>2, <1>3, <1>4 DEF StateStep, HookStep

\* What a step of handler h is to the abstract store.
LEMMA BatchStep ==
    ASSUME TypeOK, WorkInv, NEW h \in Handlers,
           StateStep(h) \/ AuditStep(h) \/ HookFails(h)
    PROVE  Store!Next \/ UNCHANGED <<db, Batches>>
  <1>1. ASSUME ~CommitTx(h) PROVE db' = db
    BY <1>1, TablesStay
  <1>2. CASE CommitTx(h)
    BY <1>2, CommitBatch
  <1>3. ASSUME ~CommitTx(h)
        PROVE  Batch(h)' = <<>> \/ Batch(h) = <<>> \/ Batch(h)' = Batch(h)
    <2>1. CASE ReadUser(h) \/ ReadShared(h) \/ ScriptCall(h) \/ ScriptEnds(h) \/ HookFails(h)
      BY <2>1 DEF ReadUser, ReadShared, ScriptCall, ScriptEnds, HookFails, ScriptFails, Batch
    <2>2. CASE Begin(h) \/ Drain(h)
      BY <2>2 DEF Begin, Drain, Batch, TypeOK
    <2>3. CASE WriteFails(h) \/ TimesOut(h)
      BY <2>3 DEF WriteFails, TimesOut, Fail, Finish, Batch, TypeOK
    <2>4. CASE Write(h)
      BY <2>4 DEF Write, Fail, Finish, Batch, TypeOK
    <2>5. CASE AuditStep(h)
      BY <2>5 DEF AuditStep, stateVars, Batch
    <2> QED BY <1>3, <2>1, <2>2, <2>3, <2>4, <2>5 DEF StateStep, HookStep
  <1> QED BY <1>1, <1>2, <1>3, OthersStay, QuietBatch

LEMMA StoreInit == Init => Store!Init
  <1> SUFFICES ASSUME Init PROVE Store!Init
    OBVIOUS
  <1>1. db = [c \in Cells |-> Empty] /\ \A h \in Handlers : pc[h] = "idle"
    BY DEF Init, StateInit
  <1>2. db \in [Cells -> Store!Rows]
    BY <1>1, EmptyIsRow DEF Rows, Store!Rows
  <1> QED BY <1>1, <1>2 DEF Store!Init

\* The answers of any number of handlers, whatever their transactions hold,
\* wait for and fail on, reach the tables whole or not at all (ApplyStateOps).
THEOREM StoreIsAtomic == Spec => ImplementsAtomicStore
  <1>1. TypeOK /\ WorkInv /\ [Next]_storeVars => [Store!Next]_<<db, Batches>>
    <2> SUFFICES ASSUME TypeOK, WorkInv, [Next]_storeVars
                 PROVE  Store!Next \/ UNCHANGED <<db, Batches>>
      OBVIOUS
    <2>1. CASE UNCHANGED storeVars
      BY <2>1 DEF storeVars, stateVars, Batches, Batch
    <2>2. CASE Next
      BY <2>2, BatchStep DEF Next
    <2> QED BY <2>1, <2>2
  <1>2. Spec => [](TypeOK /\ WorkInv)
    BY InitTyped, NextKeepsTypes, InitWork, WorkStep, PTL DEF Spec
  <1>3. [Store!Next]_<<db, Batches>> => [Store!Next]_<<db, [h \in Handlers |->
           IF pc[h] \in {"apply", "write"} THEN ops[h] ELSE <<>>]>>
    BY DEF Batches, Batch
  <1> QED BY <1>1, <1>2, <1>3, StoreInit, PTL DEF Spec, ImplementsAtomicStore, Store!Spec

-----------------------------------------------------------------------------
(* What a user's hooks leave is what they find *)

\* What a hook is given for a row of its user.
Found(u, row) == IF row = Empty THEN Legacy[u] ELSE row

\* The rows of a cell from a first one on, an operation after the other.
Trace(q, cell, first, seq, n) ==
    /\ q[0] = first
    /\ \A i \in 1..n :
        q[i] = IF seq[i].cell = cell THEN ApplyOp(q[i - 1], seq[i]) ELSE q[i - 1]

\* The script's table is what the operations make of the row it was given.
Tracked(h) == \E q :
    /\ Trace(q, UserOf[h], db[UserOf[h]], ops[h], Len(ops[h]))
    /\ Found(UserOf[h], q[Len(ops[h])]) = local[h]["user"]

NoneOnUser(h) == \A i \in 1..Len(ops[h]) : ops[h][i].cell # UserOf[h]

Told(h) ==
    /\ pc[h] # "idle" => snap[h]["user"] = Found(UserOf[h], db[UserOf[h]])
    /\ pc[h] \in {"idle", "reading"} => ops[h] = <<>>
    /\ \A i \in 1..Len(ops[h]) : ops[h][i].cell \in {UserOf[h], "room", "global"}
    /\ pc[h] = "script" =>
        \/ UsesHelpers(h) /\ Tracked(h)
        \/ /\ ChangesState(h) /\ NoneOnUser(h)
           /\ \/ local[h]["user"] = snap[h]["user"]
              \/ local[h]["user"] # Empty
              \/ Legacy[UserOf[h]] = Empty
    /\ pc[h] \in {"apply", "write"} => Tracked(h)

LeftIsFound == \A u \in Users : left[u] # None => Found(u, db[u]) = left[u]

ContInv == LeftIsFound /\ \A h \in Handlers : Told(h)

LEMMA RowFound == \A u : UserRow(u) = Found(u, db[u])
  BY DEF UserRow, Found

\* The rows of a cell are what a transaction makes of the tables in that cell.
LEMMA TracesAgree ==
    ASSUME TypeOK, NEW h \in Handlers, NEW cell \in Cells, NEW q, NEW r,
           r[0] = db, \A i \in 1..Len(ops[h]) : r[i] = Apply(r[i - 1], ops[h][i]),
           Trace(q, cell, db[cell], ops[h], Len(ops[h]))
    PROVE  r[Len(ops[h])][cell] = q[Len(ops[h])]
  <1> DEFINE seq == ops[h]
             n == Len(seq)
             wrong == {i \in 0..n : ~(r[i] \in [Cells -> Rows] /\ r[i][cell] = q[i])}
  <1>1. /\ n \in Nat /\ \A i \in 1..n : seq[i] \in Operations
        /\ db \in [Cells -> Rows]
    BY DEF TypeOK
  <1>2. SUFFICES ASSUME wrong # {} PROVE FALSE
    BY <1>1
  <1>3. PICK m \in wrong : \A k \in wrong : m <= k
    <2>1. wrong \subseteq Nat
      OBVIOUS
    <2> HIDE DEF wrong
    <2> QED BY <1>2, <2>1, LeastNumber
  <1>4. m \in 0..n /\ ~(r[m] \in [Cells -> Rows] /\ r[m][cell] = q[m])
    BY <1>3
  <1>5. m # 0
    BY <1>1, <1>4 DEF Trace
  <1>6. m \in 1..n /\ m - 1 \in 0..n /\ m - 1 \notin wrong
    <2>1. m \in 1..n /\ m - 1 \in 0..n /\ ~(m <= m - 1)
      BY <1>1, <1>4, <1>5
    <2> HIDE DEF wrong
    <2> QED BY <1>3, <2>1
  <1>7. r[m - 1] \in [Cells -> Rows] /\ r[m - 1][cell] = q[m - 1] /\ seq[m] \in Operations
    BY <1>1, <1>6
  <1>8. r[m] = Apply(r[m - 1], seq[m])
    BY <1>6
  <1>9. r[m] \in [Cells -> Rows]
    BY <1>7, <1>8, ApplyTyped
  <1>10. r[m][cell] = IF seq[m].cell = cell THEN ApplyOp(r[m - 1][cell], seq[m]) ELSE r[m - 1][cell]
    BY <1>7, <1>8 DEF Apply
  <1>11. q[m] = IF seq[m].cell = cell THEN ApplyOp(q[m - 1], seq[m]) ELSE q[m - 1]
    BY <1>6 DEF Trace
  <1> QED BY <1>4, <1>7, <1>9, <1>10, <1>11

\* A trace goes on with the next operation.
LEMMA TraceGrows ==
    ASSUME NEW q, NEW cell, NEW first, NEW seq \in Seq(Operations), NEW op \in Operations,
           Trace(q, cell, first, seq, Len(seq)),
           NEW row, row = IF op.cell = cell THEN ApplyOp(q[Len(seq)], op) ELSE q[Len(seq)]
    PROVE  \E t : /\ Trace(t, cell, first, Append(seq, op), Len(seq) + 1)
                  /\ t[Len(seq) + 1] = row
  <1> DEFINE n == Len(seq)
             t == [i \in 0..(n + 1) |-> IF i = n + 1 THEN row ELSE q[i]]
             longer == Append(seq, op)
  <1>1. n \in Nat /\ longer[n + 1] = op /\ \A i \in 1..n : longer[i] = seq[i]
    OBVIOUS
  <1>2. t[n + 1] = row /\ \A i \in 0..n : t[i] = q[i]
    BY <1>1
  <1>3. t[0] = first
    BY <1>1, <1>2 DEF Trace
  <1> HIDE DEF t
  <1>4. ASSUME NEW i \in 1..(n + 1)
        PROVE  t[i] = IF longer[i].cell = cell THEN ApplyOp(t[i - 1], longer[i]) ELSE t[i - 1]
    <2>1. CASE i = n + 1
      BY <1>1, <1>2, <2>1
    <2>2. CASE i # n + 1
      <3>1. i \in 1..n /\ i - 1 \in 0..n /\ i \in 0..n
        BY <1>1, <2>2
      <3> QED BY <1>1, <1>2, <3>1 DEF Trace
    <2> QED BY <2>1, <2>2
  <1> QED BY <1>2, <1>3, <1>4 DEF Trace

\* Without an operation on its cell a row stays what it is.
LEMMA TraceStays ==
    ASSUME NEW h, NEW cell, ops[h] \in Seq(Operations),
           \A i \in 1..Len(ops[h]) : ops[h][i].cell # cell
    PROVE  \E t : Trace(t, cell, db[cell], ops[h], Len(ops[h])) /\ t[Len(ops[h])] = db[cell]
  <1> DEFINE n == Len(ops[h])
             t == [i \in 0..n |-> db[cell]]
  <1>1. n \in Nat
    OBVIOUS
  <1>2. \A i \in 0..n : t[i] = db[cell]
    OBVIOUS
  <1> HIDE DEF t
  <1>3. \A i \in 1..n : i \in 0..n /\ i - 1 \in 0..n
    BY <1>1
  <1>4. Trace(t, cell, db[cell], ops[h], n) /\ t[n] = db[cell]
    BY <1>1, <1>2, <1>3 DEF Trace
  <1> QED BY <1>4

LEMMA UserIsCell ==
    ASSUME NEW h \in Handlers
    PROVE  /\ UserOf[h] \in Users /\ UserOf[h] \in Cells /\ UserOf[h] \notin {"room", "global"}
           /\ Legacy[UserOf[h]] \in Rows
  BY StateAssumption

LEMMA InitCont == Init => ContInv
  <1> SUFFICES ASSUME Init PROVE ContInv
    OBVIOUS
  <1>1. \A u \in Users : left[u] = None
    BY DEF Init, StateInit
  <1>2. \A h \in Handlers : pc[h] = "idle" /\ ops[h] = <<>>
    BY DEF Init, StateInit
  <1>3. Len(<<>>) = 0
    OBVIOUS
  <1> QED BY <1>1, <1>2, <1>3 DEF ContInv, LeftIsFound, Told

LEMMA FrameTold ==
    ASSUME NEW g \in Handlers, Told(g), db'[UserOf[g]] = db[UserOf[g]],
           pc'[g] = pc[g], snap'[g] = snap[g], local'[g] = local[g], ops'[g] = ops[g]
    PROVE  Told(g)'
  <1>1. Tracked(g)' <=> Tracked(g)
    BY DEF Tracked, Trace
  <1>2. NoneOnUser(g)' <=> NoneOnUser(g)
    BY DEF NoneOnUser
  <1> QED BY <1>1, <1>2 DEF Told

LEMMA IdleTold ==
    ASSUME NEW h \in Handlers, pc'[h] = "idle", ops'[h] = <<>>
    PROVE  Told(h)'
  <1>1. Len(<<>>) = 0
    OBVIOUS
  <1> QED BY <1>1 DEF Told

LEMMA ReadUserTold ==
    ASSUME TypeOK, NEW h \in Handlers, Told(h), ReadUser(h)
    PROVE  Told(h)'
  <1>1. /\ pc[h] = "idle" /\ pc'[h] = "reading" /\ ops' = ops /\ db' = db
        /\ snap'[h] = [Blank EXCEPT !["user"] = UserRow(UserOf[h])]
    BY DEF ReadUser, TypeOK
  <1>2. snap'[h]["user"] = Found(UserOf[h], db[UserOf[h]])
    BY <1>1, RowFound DEF Blank, Scopes
  <1> QED BY <1>1, <1>2 DEF Told

LEMMA ReadSharedTold ==
    ASSUME TypeOK, OneStyle, NEW h \in Handlers, Told(h), ReadShared(h)
    PROVE  Told(h)'
  <1>1. /\ pc[h] = "reading" /\ pc'[h] = "script" /\ ops' = ops /\ db' = db
        /\ snap'[h] = [snap[h] EXCEPT !["room"] = db["room"], !["global"] = db["global"]]
        /\ local'[h] = snap'[h]
    BY DEF ReadShared, TypeOK
  <1>2. snap[h] \in [Scopes -> Rows]
    BY DEF TypeOK
  <1>3. snap'[h]["user"] = snap[h]["user"] /\ local'[h]["user"] = snap[h]["user"]
    BY <1>1, <1>2 DEF Scopes
  <1>4. ops[h] = <<>> /\ snap[h]["user"] = Found(UserOf[h], db[UserOf[h]])
    BY <1>1 DEF Told
  <1>5. Len(ops[h]) = 0 /\ ops[h] \in Seq(Operations)
    BY <1>4 DEF TypeOK
  <1>6. Tracked(h)'
    <2>1. \A i \in 1..Len(ops[h]) : ops[h][i].cell # UserOf[h]
      BY <1>5
    <2>2. PICK t : /\ Trace(t, UserOf[h], db[UserOf[h]], ops[h], Len(ops[h]))
                   /\ t[Len(ops[h])] = db[UserOf[h]]
      BY <1>5, <2>1, TraceStays
    <2> QED BY <1>1, <1>3, <1>4, <2>2 DEF Tracked
  <1>7. NoneOnUser(h)'
    BY <1>1, <1>5 DEF NoneOnUser
  <1> QED BY <1>1, <1>3, <1>4, <1>5, <1>6, <1>7 DEF Told, OneStyle

\* A helper changes the script's table as its operation changes the row.
LEMMA RecordTold ==
    ASSUME TypeOK, NEW h \in Handlers, Told(h), pc[h] = "script",
           UNCHANGED <<db, pc, snap>>,
           NEW scope \in Scopes, NEW row \in Rows, NEW op \in Operations,
           op.cell = CellOf(h, scope), row = ApplyOp(local[h][scope], op),
           Record(h, scope, row, op),
           ChangesState(h) => scope # "user"
    PROVE  Told(h)'
  <1> DEFINE u == UserOf[h]
             n == Len(ops[h])
  <1>1. /\ ops[h] \in Seq(Operations) /\ ops'[h] = Append(ops[h], op)
        /\ Len(ops'[h]) = n + 1 /\ n \in Nat
        /\ ops'[h][n + 1] = op /\ \A i \in 1..n : ops'[h][i] = ops[h][i]
    BY DEF Record, TypeOK
  <1>2. local[h] \in [Scopes -> Rows] /\ local'[h] = [local[h] EXCEPT ![scope] = row]
    BY DEF Record, TypeOK
  <1>3. op.cell \in {u, "room", "global"}
        /\ (scope = "user" => op.cell = u) /\ (scope # "user" => op.cell # u)
    BY UserIsCell DEF CellOf, Scopes
  <1>4. local'[h]["user"] = IF op.cell = u THEN ApplyOp(local[h]["user"], op) ELSE local[h]["user"]
    BY <1>2, <1>3 DEF Scopes
  <1>5. \A i \in 1..(n + 1) : ops'[h][i].cell \in {u, "room", "global"}
    <2>1. ASSUME NEW i \in 1..(n + 1) PROVE ops'[h][i].cell \in {u, "room", "global"}
      <3>1. CASE i = n + 1
        BY <1>1, <1>3, <3>1
      <3>2. CASE i # n + 1
        <4>1. i \in 1..n
          BY <1>1, <3>2
        <4> QED BY <1>1, <4>1 DEF Told
      <3> QED BY <3>1, <3>2
    <2> QED BY <2>1
  <1>6. CASE UsesHelpers(h) /\ Tracked(h)
    <2>1. PICK q : Trace(q, u, db[u], ops[h], n) /\ Found(u, q[n]) = local[h]["user"]
      BY <1>6 DEF Tracked
    <2>2. q[n] = local[h]["user"]
      BY <1>6, <2>1 DEF Found, UsesHelpers
    <2>3. local'[h]["user"] = IF op.cell = u THEN ApplyOp(q[n], op) ELSE q[n]
      BY <1>4, <2>2
    <2>4. PICK t : Trace(t, u, db[u], Append(ops[h], op), n + 1) /\ t[n + 1] = local'[h]["user"]
      BY <1>1, <2>1, <2>3, TraceGrows
    <2>5. Found(u, t[n + 1]) = local'[h]["user"]
      BY <1>6, <2>4 DEF Found, UsesHelpers
    <2>6. Tracked(h)'
      BY <1>1, <2>4, <2>5 DEF Tracked
    <2> QED BY <1>1, <1>5, <1>6, <2>6 DEF Told, UsesHelpers
  <1>7. CASE /\ ChangesState(h) /\ NoneOnUser(h)
             /\ \/ local[h]["user"] = snap[h]["user"]
                \/ local[h]["user"] # Empty
                \/ Legacy[UserOf[h]] = Empty
    <2>1. op.cell # u /\ local'[h]["user"] = local[h]["user"]
      BY <1>3, <1>4, <1>7
    <2>2. ASSUME NEW i \in 1..(n + 1) PROVE ops'[h][i].cell # u
      <3>1. CASE i = n + 1
        BY <1>1, <2>1, <3>1
      <3>2. CASE i # n + 1
        <4>1. i \in 1..n
          BY <1>1, <3>2
        <4> QED BY <1>1, <1>7, <4>1 DEF NoneOnUser
      <3> QED BY <3>1, <3>2
    <2>3. NoneOnUser(h)'
      BY <1>1, <2>2 DEF NoneOnUser
    <2> QED BY <1>1, <1>5, <1>7, <2>1, <2>3 DEF Told, ChangesState
  <1> QED BY <1>6, <1>7 DEF Told

LEMMA MutateTold ==
    ASSUME TypeOK, NEW h \in Handlers, Told(h), pc[h] = "script",
           UNCHANGED <<db, pc, snap>>,
           NEW scope \in Scopes, <<"mutate", scope>> \in Scripts[h],
           NEW key \in Keys, NEW value \in Changes, Mutate(h, key, value)
    PROVE  Told(h)'
  <1>1. /\ ops' = ops /\ local[h]["user"] \in Rows
        /\ local'[h]["user"] = [local[h]["user"] EXCEPT ![key] = value]
    BY RowsOfHook DEF Mutate, TypeOK, Scopes
  <1>2. /\ ChangesState(h) /\ NoneOnUser(h)
    BY DEF Told, UsesHelpers
  <1>3. Legacy[UserOf[h]] = Empty \/ local'[h]["user"] # Empty
    <2>1. local'[h]["user"][key] = value
      BY <1>1 DEF Rows
    <2>2. Empty[key] = <<>>
      BY DEF Empty
    <2> QED BY <1>2, <2>1, <2>2 DEF ChangesState
  <1>4. NoneOnUser(h)'
    BY <1>1, <1>2 DEF NoneOnUser
  <1>5. ChangesState(h)'
    BY <1>2 DEF ChangesState
  <1> QED BY <1>1, <1>3, <1>4, <1>5 DEF Told

LEMMA CallTold ==
    ASSUME TypeOK, NEW h \in Handlers, Told(h), ScriptCall(h)
    PROVE  Told(h)'
  <1>1. pc[h] = "script" /\ UNCHANGED <<db, pc, snap>>
    BY DEF ScriptCall
  <1>2. \A scope \in Scopes : local[h][scope] \in Rows
    BY RowsOfHook
  <1>3. ASSUME NEW scope \in Scopes, NEW key \in Keys, NEW value \in Values,
               SetKey(h, scope, key, value), ChangesState(h) => scope # "user"
        PROVE  Told(h)'
    <2> DEFINE op == Op(h, "set", scope, key, value, Empty)
               row == [local[h][scope] EXCEPT ![key] = value]
    <2>1. row \in Rows
      BY <1>2 DEF Rows
    <2>2. op \in Operations
      BY EmptyIsRow, OpTyped
    <2>3. op.cell = CellOf(h, scope) /\ row = ApplyOp(local[h][scope], op)
      BY DEF Op, ApplyOp
    <2>4. Record(h, scope, row, op)
      BY <1>3 DEF SetKey
    <2> HIDE DEF op, row
    <2> QED BY <1>1, <1>3, <2>1, <2>2, <2>3, <2>4, RecordTold
  <1>4. ASSUME NEW scope \in Scopes, NEW key \in Keys, NEW item \in Items,
               AppendItem(h, scope, key, item), ChangesState(h) => scope # "user"
        PROVE  Told(h)'
    <2>1. Appended(local[h][scope][key], item) \in Values
      BY <1>2, StateAssumption DEF Rows
    <2> QED BY <1>3, <1>4, <2>1 DEF AppendItem
  <1>5. ASSUME NEW scope \in Scopes, NEW key \in Keys, DeleteKey(h, scope, key),
               ChangesState(h) => scope # "user"
        PROVE  Told(h)'
    <2> DEFINE op == Op(h, "delete", scope, key, <<>>, Empty)
               row == [local[h][scope] EXCEPT ![key] = <<>>]
    <2>1. row \in Rows
      BY <1>2, StateAssumption DEF Rows
    <2>2. op \in Operations
      BY EmptyIsRow, OpTyped, StateAssumption
    <2>3. op.cell = CellOf(h, scope) /\ row = ApplyOp(local[h][scope], op)
      BY DEF Op, ApplyOp
    <2>4. Record(h, scope, row, op)
      BY <1>5 DEF DeleteKey
    <2> HIDE DEF op, row
    <2> QED BY <1>1, <1>5, <2>1, <2>2, <2>3, <2>4, RecordTold
  <1>6. ASSUME NEW scope \in Scopes, ClearScope(h, scope), ChangesState(h) => scope # "user"
        PROVE  Told(h)'
    <2> DEFINE op == Op(h, "clear", scope, None, <<>>, Empty)
    <2>1. op \in Operations
      BY EmptyIsRow, OpTyped, StateAssumption
    <2>2. op.cell = CellOf(h, scope) /\ Empty = ApplyOp(local[h][scope], op)
      BY DEF Op, ApplyOp
    <2>3. Record(h, scope, Empty, op)
      BY <1>6 DEF ClearScope
    <2> HIDE DEF op
    <2> QED BY <1>1, <1>6, <2>1, <2>2, <2>3, EmptyIsRow, RecordTold
  <1>7. \A item \in Items : <<item>> \in Values
    BY StateAssumption
  <1>8. PICK scope \in Scopes, key \in Keys :
        \/ <<"append", scope>> \in Scripts[h]
           /\ \E item \in Items : AppendItem(h, scope, key, item)
        \/ <<"set", scope>> \in Scripts[h]
           /\ \E item \in Items : SetKey(h, scope, key, <<item>>)
        \/ <<"delete", scope>> \in Scripts[h] /\ DeleteKey(h, scope, key)
        \/ <<"clear", scope>> \in Scripts[h] /\ ClearScope(h, scope)
        \/ <<"mutate", scope>> \in Scripts[h] /\ ops[h] = <<>>
           /\ \E value \in Changes : Mutate(h, key, value)
    BY DEF ScriptCall
  <1>9. \A call \in {"append", "set", "delete", "clear"} :
            <<call, scope>> \in Scripts[h] => (ChangesState(h) => scope # "user")
    BY DEF ChangesState
  <1>10. CASE <<"append", scope>> \in Scripts[h] /\ \E item \in Items : AppendItem(h, scope, key, item)
    BY <1>4, <1>9, <1>10
  <1>11. CASE <<"set", scope>> \in Scripts[h] /\ \E item \in Items : SetKey(h, scope, key, <<item>>)
    BY <1>3, <1>7, <1>9, <1>11
  <1>12. CASE <<"delete", scope>> \in Scripts[h] /\ DeleteKey(h, scope, key)
    BY <1>5, <1>9, <1>12
  <1>13. CASE <<"clear", scope>> \in Scripts[h] /\ ClearScope(h, scope)
    BY <1>6, <1>9, <1>13
  <1>14. CASE <<"mutate", scope>> \in Scripts[h] /\ \E value \in Changes : Mutate(h, key, value)
    BY <1>1, <1>14, MutateTold
  <1> QED BY <1>8, <1>10, <1>11, <1>12, <1>13, <1>14

\* What a script leaves is in the operations it answers.
LEMMA AnswerTold ==
    ASSUME TypeOK, NEW h \in Handlers, Told(h), pc[h] = "script"
    PROVE  /\ Answer(h) = <<>> => local[h]["user"] = Found(UserOf[h], db[UserOf[h]])
           /\ \A i \in 1..Len(Answer(h)) : Answer(h)[i].cell \in {UserOf[h], "room", "global"}
           /\ \E q : /\ Trace(q, UserOf[h], db[UserOf[h]], Answer(h), Len(Answer(h)))
                     /\ Found(UserOf[h], q[Len(Answer(h))]) = local[h]["user"]
  <1> DEFINE u == UserOf[h]
             n == Len(ops[h])
             L == local[h]["user"]
             op == Op(h, "replace", "user", None, <<>>, L)
  <1>1. ops[h] \in Seq(Operations) /\ n \in Nat /\ DOMAIN ops[h] = 1..n
    BY DEF TypeOK
  <1>2. snap[h]["user"] = Found(u, db[u])
    BY DEF Told
  <1>3. \A i \in 1..n : ops[h][i].cell \in {u, "room", "global"}
    BY DEF Told
  <1>4. CASE L # snap[h]["user"] /\ NoneOnUser(h)
    <2>1. Answer(h) = Append(ops[h], op)
      BY <1>1, <1>4 DEF Answer, NoneOnUser
    <2>2. op \in Operations /\ op.cell = u
      BY OpTyped, RowsOfHook, StateAssumption DEF Op, CellOf, Scopes
    <2>3. ApplyOp(op, op) = L /\ \A row : ApplyOp(row, op) = L
      BY DEF ApplyOp, Op
    <2> HIDE DEF op
    <2>4. /\ Len(Answer(h)) = n + 1 /\ Answer(h)[n + 1] = op
          /\ \A i \in 1..n : Answer(h)[i] = ops[h][i]
      BY <1>1, <2>1, <2>2
    <2>5. ASSUME NEW i \in 1..(n + 1) PROVE Answer(h)[i].cell \in {u, "room", "global"}
      <3>1. CASE i = n + 1
        BY <2>2, <2>4, <3>1
      <3>2. CASE i # n + 1
        <4>1. i \in 1..n
          BY <1>1, <3>2
        <4> QED BY <1>3, <2>4, <4>1
      <3> QED BY <3>1, <3>2
    <2>6. PICK q : Trace(q, u, db[u], ops[h], n) /\ q[n] = db[u]
      BY <1>1, <1>4, TraceStays DEF NoneOnUser
    <2>7. PICK t : Trace(t, u, db[u], Append(ops[h], op), n + 1) /\ t[n + 1] = L
      BY <1>1, <2>2, <2>3, <2>6, TraceGrows
    <2>8. L # Empty \/ Legacy[u] = Empty
      BY <1>4 DEF Told, UsesHelpers
    <2>9. Found(u, t[n + 1]) = L
      BY <2>7, <2>8 DEF Found
    <2>10. Answer(h) # <<>>
      BY <1>1, <2>4
    <2> QED BY <2>1, <2>4, <2>5, <2>7, <2>9, <2>10
  <1>5. CASE ~(L # snap[h]["user"] /\ NoneOnUser(h))
    <2>1. Answer(h) = ops[h]
      BY <1>1, <1>5 DEF Answer, NoneOnUser
    <2>2. ops[h] = <<>> => L = Found(u, db[u])
      BY <1>2, <1>5 DEF NoneOnUser
    <2>3. CASE Tracked(h)
      BY <1>3, <2>1, <2>2, <2>3 DEF Tracked
    <2>4. CASE NoneOnUser(h) /\ L = snap[h]["user"]
      <3>1. PICK q : Trace(q, u, db[u], ops[h], n) /\ q[n] = db[u]
        BY <1>1, <2>4, TraceStays DEF NoneOnUser
      <3> QED BY <1>2, <1>3, <2>1, <2>2, <2>4, <3>1
    <2> QED BY <1>5, <2>3, <2>4 DEF Told
  <1> QED BY <1>4, <1>5

LEMMA EndsTold ==
    ASSUME TypeOK, NEW h \in Handlers, Told(h), ScriptEnds(h)
    PROVE  Told(h)'
  <1>1. pc[h] = "script" /\ db' = db
    BY DEF ScriptEnds
  <1>2. CASE Finish(h)
    BY <1>2, FinishTyped, IdleTold
  <1>3. CASE ~Finish(h)
    <2>1. PICK denied \in BOOLEAN :
          /\ ops' = [ops EXCEPT ![h] = Answer(h)]
          /\ pc' = [pc EXCEPT ![h] = IF denied THEN "denied" ELSE "apply"]
          /\ UNCHANGED <<snap, local, done, work, left>>
      BY <1>3 DEF ScriptEnds
    <2>2. ops'[h] = Answer(h) /\ pc'[h] \in {"denied", "apply"}
      BY <2>1 DEF TypeOK
    <2>3. Tracked(h)'
      BY <1>1, <2>1, <2>2, AnswerTold DEF Tracked
    <2>4. snap'[h]["user"] = Found(UserOf[h], db'[UserOf[h]])
      BY <1>1, <2>1 DEF Told
    <2> QED BY <1>1, <2>2, <2>3, <2>4, AnswerTold DEF Told
  <1> QED BY <1>2, <1>3

\* A commit writes what the script's table was, and no other user's row.
LEMMA CommitWrites ==
    ASSUME TypeOK, WorkInv, NEW h \in Handlers, Told(h), CommitTx(h)
    PROVE  /\ Found(UserOf[h], db'[UserOf[h]]) = local[h]["user"]
           /\ \A u \in Users \ {UserOf[h]} : db'[u] = db[u]
  <1> DEFINE n == Len(ops[h])
  <1>1. pc[h] = "write" /\ done[h] = n /\ db' = work[h] /\ ops[h] \in Seq(Operations) /\ n \in Nat
    BY DEF CommitTx, TypeOK
  <1>2. PICK r : /\ r[0] = db
                 /\ \A i \in 1..n : r[i] = Apply(r[i - 1], ops[h][i])
                 /\ r[n] = work[h]
    BY <1>1 DEF WorkInv, Worked
  <1>3. Found(UserOf[h], db'[UserOf[h]]) = local[h]["user"]
    <2>1. PICK q : Trace(q, UserOf[h], db[UserOf[h]], ops[h], n) /\ Found(UserOf[h], q[n]) = local[h]["user"]
      BY <1>1 DEF Told, Tracked
    <2>2. r[n][UserOf[h]] = q[n]
      <3>1. UserOf[h] \in Cells /\ Trace(q, UserOf[h], db[UserOf[h]], ops[h], Len(ops[h]))
        BY <2>1, UserIsCell
      <3> QED BY <1>2, <3>1, TracesAgree
    <2> QED BY <1>1, <1>2, <2>1, <2>2
  <1>4. ASSUME NEW u \in Users \ {UserOf[h]} PROVE db'[u] = db[u]
    <2>1. u \in Cells /\ u \notin {"room", "global"}
      BY StateAssumption
    <2>2. \A i \in 1..n : ops[h][i].cell # u
      BY <2>1 DEF Told
    <2>3. PICK t : Trace(t, u, db[u], ops[h], n) /\ t[n] = db[u]
      BY <1>1, <2>2, TraceStays
    <2>4. r[n][u] = t[n]
      BY <1>2, <2>1, <2>3, TracesAgree
    <2> QED BY <1>1, <1>2, <2>3, <2>4
  <1> QED BY <1>3, <1>4

LEMMA StepLeft ==
    ASSUME TypeOK, WorkInv, ContInv, NEW h \in Handlers,
           StateStep(h) \/ AuditStep(h) \/ HookFails(h)
    PROVE  LeftIsFound'
  <1>1. CASE CommitTx(h)
    <2>1. left' = [left EXCEPT ![UserOf[h]] = local[h]["user"]]
      BY <1>1 DEF CommitTx
    <2>2. \A u \in Users : left'[u] = IF u = UserOf[h] THEN local[h]["user"] ELSE left[u]
      BY <2>1 DEF TypeOK
    <2> QED BY <1>1, <2>2, CommitWrites DEF ContInv, LeftIsFound
  <1>2. ASSUME ~CommitTx(h) PROVE db' = db
    BY <1>2, TablesStay
  <1>3. CASE ~CommitTx(h) /\ left' = left
    BY <1>2, <1>3 DEF ContInv, LeftIsFound
  <1>4. CASE ~CommitTx(h) /\ left' # left
    <2>1. ScriptEnds(h)
      BY <1>4 DEF StateStep, AuditStep, HookFails, HookStep, ReadUser, ReadShared, ScriptCall,
         Begin, Write, WriteFails, Drain, TimesOut, Fail, ScriptFails, stateVars
    <2>2. /\ pc[h] = "script" /\ Answer(h) = <<>>
          /\ left' = [left EXCEPT ![UserOf[h]] = local[h]["user"]]
      BY <1>4, <2>1 DEF ScriptEnds
    <2>3. local[h]["user"] = Found(UserOf[h], db[UserOf[h]])
      BY <2>2, AnswerTold DEF ContInv
    <2>4. \A u \in Users : left'[u] = IF u = UserOf[h] THEN local[h]["user"] ELSE left[u]
      BY <2>2 DEF TypeOK
    <2> QED BY <1>2, <1>4, <2>3, <2>4 DEF ContInv, LeftIsFound
  <1> QED BY <1>1, <1>3, <1>4

LEMMA StepTold ==
    ASSUME TypeOK, OneStyle, NEW h \in Handlers, Told(h),
           StateStep(h) \/ AuditStep(h) \/ HookFails(h)
    PROVE  Told(h)'
  <1>1. CASE Finish(h)
    BY <1>1, FinishTyped, IdleTold
  <1>2. CASE ReadUser(h) \/ ReadShared(h) \/ ScriptCall(h) \/ ScriptEnds(h)
    BY <1>2, ReadUserTold, ReadSharedTold, CallTold, EndsTold
  <1>3. CASE Begin(h)
    <2>1. /\ pc[h] = "apply" /\ pc'[h] = "write"
          /\ UNCHANGED <<db, snap, local, ops>>
      BY <1>3 DEF Begin, TypeOK
    <2>2. Tracked(h)'
      BY <2>1 DEF Told, Tracked
    <2> QED BY <2>1, <2>2 DEF Told
  <1>4. CASE Drain(h) \/ (Write(h) /\ ~Finish(h)) \/ AuditStep(h)
    <2>1. UNCHANGED <<db, pc, snap, local, ops>>
      BY <1>4 DEF Drain, Write, Fail, AuditStep, stateVars
    <2> QED BY <2>1, FrameTold
  <1>5. CASE WriteFails(h) \/ CommitTx(h) \/ TimesOut(h) \/ HookFails(h)
    <2>1. Finish(h)
      BY <1>5 DEF WriteFails, CommitTx, TimesOut, Fail, HookFails, ScriptFails
    <2> QED BY <1>1, <2>1
  <1> QED BY <1>1, <1>2, <1>3, <1>4, <1>5 DEF StateStep, HookStep

LEMMA OthersTold ==
    ASSUME TypeOK, WorkInv, OneHookEach, NEW h \in Handlers, Told(h),
           StateStep(h) \/ AuditStep(h) \/ HookFails(h),
           NEW g \in Handlers \ {h}, Told(g)
    PROVE  Told(g)'
  <1>1. pc'[g] = pc[g] /\ ops'[g] = ops[g]
    BY OthersStay
  <1>2. snap'[g] = snap[g] /\ local'[g] = local[g]
    <2>1. CASE Finish(h)
      BY <2>1 DEF Finish, TypeOK
    <2>2. CASE ReadUser(h) \/ ReadShared(h) \/ ScriptCall(h) \/ Begin(h) \/ Drain(h)
      BY <2>2 DEF ReadUser, ReadShared, ScriptCall, Begin, Drain, SetKey, AppendItem,
         DeleteKey, ClearScope, Mutate, Record, TypeOK
    <2>3. CASE ~Finish(h) /\ (ScriptEnds(h) \/ Write(h) \/ AuditStep(h))
      BY <2>3 DEF ScriptEnds, Write, Fail, AuditStep, stateVars
    <2>4. CASE WriteFails(h) \/ CommitTx(h) \/ TimesOut(h) \/ HookFails(h)
      <3>1. Finish(h)
        BY <2>4 DEF WriteFails, CommitTx, TimesOut, Fail, HookFails, ScriptFails
      <3> QED BY <2>1, <3>1
    <2> QED BY <2>1, <2>2, <2>3, <2>4 DEF StateStep, HookStep
  <1>3. db'[UserOf[g]] = db[UserOf[g]]
    <2>1. ASSUME ~CommitTx(h) PROVE db' = db
      BY <2>1, TablesStay
    <2>2. CASE CommitTx(h)
      <3>1. UserOf[g] # UserOf[h] /\ UserOf[g] \in Users
        BY UserIsCell DEF OneHookEach
      <3> QED BY <2>2, <3>1, CommitWrites
    <2> QED BY <2>1, <2>2
  <1> QED BY <1>1, <1>2, <1>3, FrameTold

LEMMA ContStep ==
    ASSUME OneHookEach, OneStyle
    PROVE  TypeOK /\ WorkInv /\ ContInv /\ [Next]_storeVars => ContInv'
  <1> SUFFICES ASSUME TypeOK, WorkInv, ContInv, [Next]_storeVars PROVE ContInv'
    OBVIOUS
  <1>1. CASE UNCHANGED storeVars
    <2>1. UNCHANGED <<db, left, pc, snap, local, ops>>
      BY <1>1 DEF storeVars, stateVars
    <2> QED BY <2>1, FrameTold DEF ContInv, LeftIsFound
  <1>2. ASSUME NEW h \in Handlers, StateStep(h) \/ AuditStep(h) \/ HookFails(h)
        PROVE  ContInv'
    <2>1. LeftIsFound'
      BY <1>2, StepLeft
    <2>2. Told(h)'
      BY <1>2, StepTold DEF ContInv
    <2>3. ASSUME NEW g \in Handlers \ {h} PROVE Told(g)'
      BY <1>2, OthersTold DEF ContInv
    <2> QED BY <2>1, <2>2, <2>3 DEF ContInv
  <1> QED BY <1>1, <1>2 DEF Next

\* A user's next hook is given what its last one left, if its hooks run one at
\* a time and each script keeps to one way of changing its row.
THEOREM HooksFindWhatTheyLeft ==
    ASSUME OneHookEach, OneStyle
    PROVE  Spec => []SnapshotContinuity
  <1>1. ContInv => SnapshotContinuity
    <2> SUFFICES ASSUME ContInv, NEW h \in Handlers, pc[h] \in {"reading", "script"},
                        left[UserOf[h]] # None
                 PROVE  snap[h]["user"] = left[UserOf[h]]
      BY DEF SnapshotContinuity
    <2>1. snap[h]["user"] = Found(UserOf[h], db[UserOf[h]])
      BY DEF ContInv, Told
    <2> QED BY <2>1, UserIsCell DEF ContInv, LeftIsFound
  <1>2. TypeOK /\ WorkInv /\ ContInv /\ [Next]_storeVars => (TypeOK /\ WorkInv /\ ContInv)'
    BY ContStep, NextKeepsTypes, WorkStep
  <1> QED BY <1>1, <1>2, InitTyped, InitWork, InitCont, PTL DEF Spec

-----------------------------------------------------------------------------
(* The bytes of a set of events *)

Event == [n : Nat, id : Nat, bytes : Nat]

LEMMA Smallest ==
    ASSUME NEW S, IsFiniteSet(S), NEW W, W \subseteq SUBSET S, W # {}
    PROVE  \E s \in W : \A t \in W : Cardinality(s) <= Cardinality(t)
  <1> DEFINE sizes == {Cardinality(s) : s \in W}
  <1>1. sizes \subseteq Nat
    BY FS_Subset, FS_CardinalityType
  <1>2. sizes # {}
    OBVIOUS
  <1>3. PICK m \in sizes : \A k \in sizes : m <= k
    <2> HIDE DEF sizes
    <2> QED BY <1>1, <1>2, LeastNumber
  <1> QED BY <1>3

Chosen(s) == CHOOSE x \in s : TRUE

\* One step of the sum that Bytes takes the fixed point of.
SumStep(f, S) == [s \in SUBSET S |->
    IF s = {} THEN 0 ELSE Chosen(s).bytes + f[s \ {Chosen(s)}]]

Sums(f, S) == \A s \in SUBSET S :
    f[s] = IF s = {} THEN 0 ELSE Chosen(s).bytes + f[s \ {Chosen(s)}]

LEMMA LessOne ==
    ASSUME NEW S, IsFiniteSet(S), NEW s \in SUBSET S, NEW x \in s
    PROVE  /\ s \ {x} \in SUBSET S
           /\ Cardinality(s) \in Nat /\ Cardinality(s \ {x}) \in Nat
           /\ Cardinality(s \ {x}) = Cardinality(s) - 1
  <1>1. IsFiniteSet(s)
    BY FS_Subset
  <1>2. IsFiniteSet(s \ {x}) /\ Cardinality(s \ {x}) = Cardinality(s) - 1
    BY <1>1, FS_RemoveElement
  <1> QED BY <1>1, <1>2, FS_CardinalityType

LEMMA ChosenIn ==
    ASSUME NEW s, s # {}
    PROVE  Chosen(s) \in s
  BY DEF Chosen

LEMMA SumExists ==
    ASSUME NEW S, IsFiniteSet(S)
    PROVE  \E f : f = SumStep(f, S) /\ Sums(f, S)
  <1> DEFINE UpTo(k, f) == \A s \in SUBSET S : Cardinality(s) <= k =>
                 f[s] = IF s = {} THEN 0 ELSE Chosen(s).bytes + f[s \ {Chosen(s)}]
             bad == {k \in Nat : ~ \E f : UpTo(k, f)}
  <1>1. ASSUME bad # {} PROVE FALSE
    <2>1. PICK m \in bad : \A k \in bad : m <= k
      <3>1. bad \subseteq Nat
        OBVIOUS
      <3> HIDE DEF bad
      <3> QED BY <1>1, <3>1, LeastNumber
    <2>2. m \in Nat
      BY <2>1
    <2>3. CASE m = 0
      <3> DEFINE f == [s \in SUBSET S |-> 0]
      <3>1. ASSUME NEW s \in SUBSET S, Cardinality(s) <= 0 PROVE s = {}
        <4>1. IsFiniteSet(s) /\ Cardinality(s) \in Nat
          BY FS_Subset, FS_CardinalityType
        <4> QED BY <3>1, <4>1, FS_EmptySet
      <3>2. UpTo(m, f)
        BY <2>3, <3>1
      <3> QED BY <2>1, <3>2
    <2>4. CASE m # 0
      <3>1. m - 1 \in Nat /\ ~(m <= m - 1)
        BY <2>2, <2>4
      <3>2. PICK f : UpTo(m - 1, f)
        BY <2>1, <3>1
      <3> DEFINE g == [s \in SUBSET S |->
                         IF Cardinality(s) = m THEN Chosen(s).bytes + f[s \ {Chosen(s)}] ELSE f[s]]
      <3>3. ASSUME NEW s \in SUBSET S, Cardinality(s) <= m
            PROVE  g[s] = IF s = {} THEN 0 ELSE Chosen(s).bytes + g[s \ {Chosen(s)}]
        <4>1. Cardinality(s) \in Nat
          BY FS_Subset, FS_CardinalityType
        <4>2. CASE s = {}
          <5>1. Cardinality(s) = 0
            BY <4>2, FS_EmptySet
          <5>2. Cardinality(s) <= m - 1
            BY <2>2, <2>4, <5>1
          <5>3. f[s] = 0
            BY <3>2, <4>2, <5>2
          <5> QED BY <2>4, <4>2, <5>1, <5>3
        <4>3. CASE s # {}
          <5>1. Chosen(s) \in s
            BY <4>3, ChosenIn
          <5>2. /\ s \ {Chosen(s)} \in SUBSET S
                /\ Cardinality(s \ {Chosen(s)}) = Cardinality(s) - 1
            BY <5>1, LessOne
          <5>3. Cardinality(s \ {Chosen(s)}) # m
            BY <2>2, <3>3, <4>1, <5>2
          <5>4. g[s \ {Chosen(s)}] = f[s \ {Chosen(s)}]
            BY <5>2, <5>3
          <5>5. CASE Cardinality(s) = m
            BY <4>3, <5>4, <5>5
          <5>6. CASE Cardinality(s) # m
            <6>1. Cardinality(s) <= m - 1
              BY <2>2, <3>3, <4>1, <5>6
            <6>2. f[s] = Chosen(s).bytes + f[s \ {Chosen(s)}]
              BY <3>2, <4>3, <6>1
            <6> QED BY <4>3, <5>4, <5>6, <6>2
          <5> QED BY <5>5, <5>6
        <4> QED BY <4>2, <4>3
      <3> HIDE DEF g
      <3>4. UpTo(m, g)
        BY <3>3
      <3> QED BY <2>1, <3>4
    <2> QED BY <2>3, <2>4
  <1>2. Cardinality(S) \in Nat
    BY FS_CardinalityType
  <1>3. PICK f : UpTo(Cardinality(S), f)
    BY <1>1, <1>2
  <1>4. \A s \in SUBSET S : Cardinality(s) <= Cardinality(S)
    BY FS_Subset
  <1>5. Sums(f, S)
    BY <1>3, <1>4 DEF Sums
  <1> DEFINE g == [s \in SUBSET S |-> f[s]]
  <1>6. \A s \in SUBSET S : g[s] = f[s] /\ (s # {} => g[s \ {Chosen(s)}] = f[s \ {Chosen(s)}])
    OBVIOUS
  <1>7. g = SumStep(g, S)
    BY <1>5, <1>6 DEF Sums, SumStep
  <1>8. Sums(g, S)
    BY <1>5, <1>6 DEF Sums
  <1> HIDE DEF g
  <1> QED BY <1>7, <1>8

LEMMA SumsAgree ==
    ASSUME NEW S, IsFiniteSet(S), NEW f, NEW g, Sums(f, S), Sums(g, S)
    PROVE  f[S] = g[S]
  <1> DEFINE wrong == {s \in SUBSET S : f[s] # g[s]}
  <1>1. SUFFICES ASSUME wrong # {} PROVE FALSE
    OBVIOUS
  <1>2. PICK s \in wrong : \A t \in wrong : Cardinality(s) <= Cardinality(t)
    <2>1. wrong \subseteq SUBSET S
      OBVIOUS
    <2> HIDE DEF wrong
    <2> QED BY <1>1, <2>1, Smallest
  <1>3. s \in SUBSET S /\ f[s] # g[s] /\ s # {}
    BY <1>2 DEF Sums
  <1>4. Chosen(s) \in s
    BY <1>3, ChosenIn
  <1>5. /\ s \ {Chosen(s)} \in SUBSET S
        /\ ~(Cardinality(s) <= Cardinality(s \ {Chosen(s)}))
    BY <1>3, <1>4, LessOne
  <1>6. f[s \ {Chosen(s)}] = g[s \ {Chosen(s)}]
    BY <1>2, <1>5
  <1> QED BY <1>3, <1>6 DEF Sums

LEMMA BytesIs ==
    ASSUME NEW S, IsFiniteSet(S), NEW f, Sums(f, S), NEW T \in SUBSET S
    PROVE  Bytes(T) = f[T]
  <1> DEFINE fold == CHOOSE g : g = SumStep(g, T)
  <1>1. IsFiniteSet(T)
    BY FS_Subset
  <1>2. Bytes(T) = fold[T]
    BY DEF Bytes, MapThenSumSet, MapThenFoldSet, SumStep, Chosen
  <1>3. fold = SumStep(fold, T)
    BY <1>1, SumExists
  <1> HIDE DEF fold
  <1>4. Sums(fold, T)
    BY <1>3 DEF SumStep, Sums
  <1>5. Sums(f, T)
    BY DEF Sums
  <1> QED BY <1>1, <1>2, <1>4, <1>5, SumsAgree

LEMMA SumsAreNat ==
    ASSUME NEW S, IsFiniteSet(S), S \subseteq Event, NEW f, Sums(f, S)
    PROVE  \A s \in SUBSET S : f[s] \in Nat
  <1> DEFINE wrong == {s \in SUBSET S : f[s] \notin Nat}
  <1>1. SUFFICES ASSUME wrong # {} PROVE FALSE
    OBVIOUS
  <1>2. PICK s \in wrong : \A t \in wrong : Cardinality(s) <= Cardinality(t)
    <2>1. wrong \subseteq SUBSET S
      OBVIOUS
    <2> HIDE DEF wrong
    <2> QED BY <1>1, <2>1, Smallest
  <1>3. s \in SUBSET S /\ f[s] \notin Nat /\ s # {}
    <2>1. f[{}] = 0
      BY DEF Sums
    <2> QED BY <1>2, <2>1
  <1>4. Chosen(s) \in s /\ Chosen(s).bytes \in Nat
    BY <1>3, ChosenIn DEF Event
  <1>5. /\ s \ {Chosen(s)} \in SUBSET S
        /\ ~(Cardinality(s) <= Cardinality(s \ {Chosen(s)}))
    BY <1>3, <1>4, LessOne
  <1>6. f[s \ {Chosen(s)}] \in Nat
    BY <1>2, <1>5
  <1>7. f[s] = Chosen(s).bytes + f[s \ {Chosen(s)}]
    BY <1>3 DEF Sums
  <1> QED BY <1>3, <1>4, <1>6, <1>7

\* The order in which the events are added up does not matter.
LEMMA SumsOfAny ==
    ASSUME NEW S, IsFiniteSet(S), S \subseteq Event, NEW f, Sums(f, S),
           NEW s \in SUBSET S, NEW x \in s
    PROVE  f[s] = x.bytes + f[s \ {x}]
  <1> DEFINE wrong == {t \in SUBSET S : \E y \in t : f[t] # y.bytes + f[t \ {y}]}
  <1>1. SUFFICES ASSUME wrong # {} PROVE FALSE
    OBVIOUS
  <1>2. PICK t \in wrong : \A r \in wrong : Cardinality(t) <= Cardinality(r)
    <2>1. wrong \subseteq SUBSET S
      OBVIOUS
    <2> HIDE DEF wrong
    <2> QED BY <1>1, <2>1, Smallest
  <1>3. PICK y \in t : f[t] # y.bytes + f[t \ {y}]
    BY <1>2
  <1>4. t \in SUBSET S /\ t # {}
    BY <1>2, <1>3
  <1> DEFINE p == Chosen(t)
  <1>5. p \in t /\ f[t] = p.bytes + f[t \ {p}]
    BY <1>4, ChosenIn DEF Sums
  <1> HIDE DEF p
  <1>6. p # y
    BY <1>3, <1>5
  <1>7. /\ t \ {p} \in SUBSET S /\ ~(Cardinality(t) <= Cardinality(t \ {p}))
        /\ t \ {y} \in SUBSET S /\ ~(Cardinality(t) <= Cardinality(t \ {y}))
    BY <1>3, <1>4, <1>5, LessOne
  <1>8. t \ {p} \notin wrong /\ t \ {y} \notin wrong
    <2> HIDE DEF wrong
    <2> QED BY <1>2, <1>7
  <1>9. f[t \ {p}] = y.bytes + f[(t \ {p}) \ {y}] /\ f[t \ {y}] = p.bytes + f[(t \ {y}) \ {p}]
    BY <1>3, <1>5, <1>6, <1>7, <1>8
  <1>10. (t \ {p}) \ {y} = (t \ {y}) \ {p} /\ (t \ {p}) \ {y} \in SUBSET S
    BY <1>4
  <1>11. f[(t \ {p}) \ {y}] \in Nat /\ p.bytes \in Nat /\ y.bytes \in Nat
    <2>1. f[(t \ {p}) \ {y}] \in Nat
      BY <1>10, SumsAreNat
    <2> QED BY <1>3, <1>4, <1>5, <2>1 DEF Event
  <1>12. \A i, j, k \in Nat : i + (j + k) = j + (i + k)
    OBVIOUS
  <1>13. f[t] = p.bytes + (y.bytes + f[(t \ {p}) \ {y}])
    BY <1>5, <1>9
  <1>14. y.bytes + f[t \ {y}] = y.bytes + (p.bytes + f[(t \ {p}) \ {y}])
    BY <1>9, <1>10
  <1> QED BY <1>3, <1>11, <1>12, <1>13, <1>14

LEMMA SumsGrow ==
    ASSUME NEW S, IsFiniteSet(S), S \subseteq Event, NEW f, Sums(f, S),
           NEW A, A \subseteq S
    PROVE  f[A] <= f[S]
  <1> DEFINE wrong == {s \in SUBSET S : A \subseteq s /\ ~(f[A] <= f[s])}
  <1>1. SUFFICES ASSUME wrong # {} PROVE FALSE
    OBVIOUS
  <1>2. PICK s \in wrong : \A t \in wrong : Cardinality(s) <= Cardinality(t)
    <2>1. wrong \subseteq SUBSET S
      OBVIOUS
    <2> HIDE DEF wrong
    <2> QED BY <1>1, <2>1, Smallest
  <1>3. s \in SUBSET S /\ A \subseteq s /\ ~(f[A] <= f[s])
    BY <1>2
  <1>4. f[A] \in Nat /\ f[s] \in Nat
    BY <1>3, SumsAreNat
  <1>5. PICK x \in s : x \notin A
    BY <1>3, <1>4
  <1>6. s \ {x} \in SUBSET S /\ ~(Cardinality(s) <= Cardinality(s \ {x}))
    BY <1>3, <1>5, LessOne
  <1>7. s \ {x} \notin wrong
    <2> HIDE DEF wrong
    <2> QED BY <1>2, <1>6
  <1>8. f[A] <= f[s \ {x}] /\ f[s \ {x}] \in Nat
    BY <1>3, <1>5, <1>6, <1>7, SumsAreNat
  <1>9. f[s] = x.bytes + f[s \ {x}] /\ x.bytes \in Nat
    BY <1>3, <1>5, SumsOfAny DEF Event
  <1> QED BY <1>3, <1>4, <1>8, <1>9

\* A part of the events that are not too long is not too long.
LEMMA PartIsNotTooLong ==
    ASSUME NEW S, IsFiniteSet(S), S \subseteq Event, NEW A, A \subseteq S, TooLong(A)
    PROVE  TooLong(S)
  <1>1. PICK f : Sums(f, S)
    BY SumExists
  <1>2. Bytes(A) = f[A] /\ Bytes(S) = f[S]
    BY <1>1, BytesIs
  <1>3. f[A] <= f[S] /\ f[A] \in Nat /\ f[S] \in Nat
    BY <1>1, SumsGrow, SumsAreNat
  <1>4. IsFiniteSet(A) /\ Cardinality(A) <= Cardinality(S)
    BY FS_Subset
  <1>5. Cardinality(A) \in Nat /\ Cardinality(S) \in Nat
    BY <1>4, FS_CardinalityType
  <1> QED BY <1>2, <1>3, <1>4, <1>5, AuditAssumption DEF TooLong, OverSize

-----------------------------------------------------------------------------
(* The table is trimmed *)

\* While the table is too long somebody is going to measure it, or has measured
\* all of it, and goes on deleting.
TrimInv ==
    /\ IsFiniteSet(rows) /\ \A h \in Auditors : IsFiniteSet(plan[h])
    /\ TableBytes > 0 /\ ~untrimmed /\ TooLong(rows) =>
        \E h \in Auditors :
            \/ phase[h] = "measure"
            \/ phase[h] = "trim" /\ rows \subseteq plan[h]

PhaseTyped == phase \in [Auditors -> {"none", "append", "measure", "trim", "mirror", "done"}]

LEMMA InitTrim == Init => TrimInv
  <1> SUFFICES ASSUME Init PROVE TrimInv
    OBVIOUS
  <1>1. rows = {} /\ plan = [h \in Auditors |-> {}]
    BY DEF Init, AuditInit
  <1>2. ~TooLong({})
    BY FS_EmptySet DEF TooLong
  <1> QED BY <1>1, <1>2, FS_EmptySet DEF TrimInv

LEMMA EventsTyped ==
    ASSUME TrailInv
    PROVE  rows \subseteq Event /\ \A h \in Auditors : plan[h] \subseteq Event
  BY DEF TrailInv, Numbered, Event

\* The handlers whose audit is not at this point go on covering the table.
LEMMA OthersCover ==
    ASSUME TrimInv, TrailInv, NEW h \in Auditors, rows' \subseteq rows,
           IsFiniteSet(rows'), \A g \in Auditors : IsFiniteSet(plan'[g]),
           \A g \in Auditors \ {h} : phase'[g] = phase[g] /\ plan'[g] = plan[g],
           untrimmed' = untrimmed,
           phase[h] = "measure" => phase'[h] = "measure" \/ (phase'[h] = "trim" /\ rows' \subseteq plan'[h]),
           phase[h] = "trim" /\ rows \subseteq plan[h] =>
                \/ phase'[h] = "trim" /\ rows' \subseteq plan'[h]
                \/ ~TooLong(rows)
    PROVE  TrimInv'
  <1> SUFFICES ASSUME TableBytes > 0, ~untrimmed, TooLong(rows')
               PROVE  \E g \in Auditors :
                        \/ phase'[g] = "measure"
                        \/ phase'[g] = "trim" /\ rows' \subseteq plan'[g]
    BY DEF TrimInv
  <1>1. TooLong(rows)
    BY EventsTyped, PartIsNotTooLong DEF TrimInv
  <1>2. PICK g \in Auditors : \/ phase[g] = "measure"
                              \/ phase[g] = "trim" /\ rows \subseteq plan[g]
    BY <1>1 DEF TrimInv
  <1>3. CASE g = h
    BY <1>1, <1>2, <1>3
  <1>4. CASE g # h
    BY <1>2, <1>4
  <1> QED BY <1>3, <1>4

LEMMA QuietCover ==
    ASSUME TrimInv, TrailInv, PhaseTyped, NEW h \in Auditors,
           Audit(h) \/ MeasureRows(h) \/ WriteMirror(h) \/ EndAudit(h)
    PROVE  TrimInv'
  <1>1. rows' = rows /\ untrimmed' = untrimmed
    BY DEF Audit, MeasureRows, WriteMirror, EndAudit
  <1>2. \A g \in Auditors \ {h} : phase'[g] = phase[g] /\ plan'[g] = plan[g]
    BY DEF Audit, MeasureRows, WriteMirror, EndAudit, PhaseTyped, TrailInv
  <1>3. \A g \in Auditors : IsFiniteSet(plan'[g])
    BY DEF Audit, MeasureRows, WriteMirror, EndAudit, TrimInv, TrailInv
  <1>4. CASE MeasureRows(h)
    <2>1. phase[h] = "measure" /\ phase'[h] = "trim" /\ plan'[h] = rows
      BY <1>4 DEF MeasureRows, PhaseTyped, TrailInv
    <2> QED BY <1>1, <1>2, <1>3, <2>1, OthersCover DEF TrimInv
  <1>5. CASE Audit(h) \/ WriteMirror(h) \/ EndAudit(h)
    <2>1. phase[h] \notin {"measure", "trim"}
      BY <1>5 DEF Audit, WriteMirror, EndAudit
    <2> QED BY <1>1, <1>2, <1>3, <2>1, OthersCover DEF TrimInv
  <1> QED BY <1>4, <1>5

LEMMA AppendCovers ==
    ASSUME TrimInv, TrailInv, PhaseTyped, NEW h \in Auditors, NEW ok \in BOOLEAN,
           AppendEvent(h, ok)
    PROVE  TrimInv'
  <1>1. plan' = plan /\ phase' = [phase EXCEPT ![h] = IF TableBytes > 0 THEN "measure" ELSE "mirror"]
    BY DEF AppendEvent
  <1>2. IsFiniteSet(rows')
    <2>1. rows' = rows \/ \E x : rows' = rows \cup {x}
      BY DEF AppendEvent
    <2> QED BY <2>1, FS_AddElement DEF TrimInv
  <1>3. TableBytes > 0 => phase'[h] = "measure"
    BY <1>1 DEF PhaseTyped
  <1> QED BY <1>1, <1>2, <1>3 DEF TrimInv

LEMMA DeleteCovers ==
    ASSUME TrimInv, TrailInv, PhaseTyped, NEW h \in Auditors, DeleteRow(h)
    PROVE  TrimInv'
  <1>1. /\ phase' = phase /\ untrimmed' = untrimmed /\ phase[h] = "trim"
        /\ rows' = rows \ {Oldest(plan[h])}
        /\ plan'[h] = plan[h] \ {Oldest(plan[h])}
        /\ \A g \in Auditors \ {h} : plan'[g] = plan[g]
    BY DEF DeleteRow, TrailInv
  <1>2. IsFiniteSet(rows') /\ IsFiniteSet(plan'[h])
    <2>1. IsFiniteSet(rows) /\ IsFiniteSet(plan[h])
      BY DEF TrimInv
    <2>2. \A S, x : IsFiniteSet(S) => IsFiniteSet(S \ {x})
      BY FS_RemoveElement
    <2> QED BY <1>1, <2>1, <2>2
  <1>3. \A g \in Auditors : IsFiniteSet(plan'[g])
    BY <1>1, <1>2 DEF TrimInv
  <1> QED BY <1>1, <1>2, <1>3, OthersCover

LEMMA EndCovers ==
    ASSUME TrimInv, TrailInv, PhaseTyped, NEW h \in Auditors, NEW ok \in BOOLEAN,
           EndTrim(h, ok)
    PROVE  TrimInv'
  <1>1. /\ rows' = rows /\ phase'[h] = "mirror" /\ plan'[h] = {}
        /\ untrimmed' = (~ok \/ (untrimmed /\ rows # plan[h]))
        /\ \A g \in Auditors \ {h} : plan'[g] = plan[g] /\ phase'[g] = phase[g]
    BY DEF EndTrim, PhaseTyped, TrailInv
  <1>2. \A g \in Auditors : IsFiniteSet(plan'[g])
    BY <1>1, FS_EmptySet DEF TrimInv
  <1>3. CASE untrimmed'
    BY <1>1, <1>2, <1>3 DEF TrimInv
  <1>4. CASE ~untrimmed'
    <2>1. phase[h] = "trim" /\ ~TooLong(plan[h])
      BY <1>1, <1>4 DEF EndTrim
    <2>2. CASE untrimmed
      <3>1. ~TooLong(rows')
        BY <1>1, <1>4, <2>1, <2>2
      <3> QED BY <1>1, <1>2, <3>1 DEF TrimInv
    <2>3. CASE ~untrimmed
      <3>1. rows \subseteq plan[h] => ~TooLong(rows)
        BY <2>1, EventsTyped, PartIsNotTooLong DEF TrimInv
      <3>2. (untrimmed' <=> untrimmed) /\ ~untrimmed /\ ~untrimmed'
        BY <1>4, <2>3
      <3>3. ASSUME TableBytes > 0, TooLong(rows)
            PROVE  \E g \in Auditors :
                     \/ phase'[g] = "measure"
                     \/ phase'[g] = "trim" /\ rows' \subseteq plan'[g]
        <4>1. PICK g \in Auditors : \/ phase[g] = "measure"
                                    \/ phase[g] = "trim" /\ rows \subseteq plan[g]
          BY <2>3, <3>3 DEF TrimInv
        <4>2. g # h
          BY <2>1, <3>1, <3>3, <4>1
        <4> QED BY <1>1, <4>1, <4>2
      <3> QED BY <1>1, <1>2, <3>3 DEF TrimInv
    <2> QED BY <2>2, <2>3
  <1> QED BY <1>3, <1>4

LEMMA TrimStep == TypeOK /\ TrailInv /\ TrimInv /\ [Next]_storeVars => TrimInv'
  <1> SUFFICES ASSUME TypeOK, TrailInv, TrimInv, [Next]_storeVars PROVE TrimInv'
    OBVIOUS
  <1>1. PhaseTyped
    BY StoreAssumption DEF TypeOK, PhaseTyped
  <1>2. ASSUME UNCHANGED auditVars PROVE TrimInv'
    BY <1>2 DEF auditVars, TrimInv
  <1>3. ASSUME NEW h \in Handlers, AuditStep(h) PROVE TrimInv'
    <2>1. h \in Auditors
      BY StoreAssumption
    <2>2. CASE Audit(h) \/ MeasureRows(h) \/ WriteMirror(h)
      BY <1>1, <2>1, <2>2, QuietCover
    <2>3. CASE \E ok \in BOOLEAN : AppendEvent(h, ok)
      BY <1>1, <2>1, <2>3, AppendCovers
    <2>4. CASE DeleteRow(h)
      BY <1>1, <2>1, <2>4, DeleteCovers
    <2>5. CASE \E ok \in BOOLEAN : EndTrim(h, ok)
      BY <1>1, <2>1, <2>5, EndCovers
    <2> QED BY <1>3, <2>2, <2>3, <2>4, <2>5 DEF AuditStep
  <1>4. ASSUME NEW h \in Handlers, HookFails(h) PROVE TrimInv'
    BY <1>1, <1>2, <1>4, StoreAssumption, QuietCover DEF HookFails
  <1>5. CASE UNCHANGED storeVars
    BY <1>2, <1>5 DEF storeVars
  <1> QED BY <1>2, <1>3, <1>4, <1>5 DEF Next, StateStep

\* The table that no handler is trimming is within its size, however many
\* handlers measured it while others appended (TrimAuditEventsToMaxBytes).
THEOREM TableIsTrimmed == Spec => []TrimmedAtRest
  <1>1. TrimInv => TrimmedAtRest
    <2> SUFFICES ASSUME TrimInv, \A h \in Handlers : phase[h] = "none", ~untrimmed,
                        TableBytes # 0, TooLong(rows)
                 PROVE  FALSE
      BY DEF TrimmedAtRest
    <2>1. TableBytes > 0
      BY AuditAssumption
    <2> QED BY <2>1, StoreAssumption DEF TrimInv
  <1>2. TypeOK /\ TrailInv /\ TrimInv /\ [Next]_storeVars => (TypeOK /\ TrailInv /\ TrimInv)'
    BY NextKeepsTypes, NextKeepsTrail, TrimStep
  <1> QED BY <1>1, <1>2, InitTyped, InitTrail, InitTrim, PTL DEF Spec

-----------------------------------------------------------------------------
(* The greatest number of a set *)

LEMMA GreatestIn ==
    ASSUME NEW n \in Nat, NEW T, T \subseteq 1..n, T # {}
    PROVE  \E m \in T : \A k \in T : m >= k
  <1> DEFINE above == {l \in Nat : \A k \in T : l >= k}
  <1>1. n \in above /\ above \subseteq Nat
    OBVIOUS
  <1>2. PICK l \in above : \A j \in above : l <= j
    <2> HIDE DEF above
    <2> QED BY <1>1, LeastNumber
  <1>3. l \in Nat /\ \A k \in T : l >= k
    BY <1>2
  <1>4. CASE l \in T
    BY <1>3, <1>4
  <1>5. CASE l \notin T
    <2>1. PICK k \in T : TRUE
      OBVIOUS
    <2>2. l - 1 \in Nat
      BY <1>3, <1>5, <2>1
    <2>3. \A j \in T : l - 1 >= j
      BY <1>3, <1>5
    <2>4. l - 1 \in above
      BY <2>2, <2>3
    <2> QED BY <1>2, <1>3, <2>4
  <1> QED BY <1>4, <1>5

-----------------------------------------------------------------------------
(* The backups move up *)

\* One rename of Shift.
Moved1(state, from, failing) == IF from \in failing THEN state ELSE Rename(from, state)

\* Shift takes the fixed point of this.
ShiftStep(f, state, failing, n) == [s \in SUBSET (1..n) |->
    IF s = {} THEN state ELSE Moved1(f[s \ {Max(s)}], Backups - Max(s), failing)]

LEMMA ShiftExists ==
    ASSUME NEW state, NEW failing, NEW n \in Nat
    PROVE  \E f : f = ShiftStep(f, state, failing, n)
  <1> DEFINE Folds(k, f) == f = [s \in SUBSET (1..k) |->
                 IF s = {} THEN state ELSE Moved1(f[s \ {Max(s)}], Backups - Max(s), failing)]
             bad == {k \in Nat : ~ \E f : Folds(k, f)}
  <1>1. SUFFICES ASSUME bad # {} PROVE FALSE
    BY DEF Folds, ShiftStep
  <1>2. PICK m \in bad : \A k \in bad : m <= k
    <2>1. bad \subseteq Nat
      OBVIOUS
    <2> HIDE DEF bad
    <2> QED BY <1>1, <2>1, LeastNumber
  <1>3. m \in Nat
    BY <1>2
  <1>4. CASE m = 0
    <2> DEFINE f == [s \in SUBSET (1..m) |-> state]
    <2>1. \A s \in SUBSET (1..m) : s = {}
      BY <1>4
    <2>2. f = [s \in SUBSET (1..m) |->
                 IF s = {} THEN state ELSE Moved1(f[s \ {Max(s)}], Backups - Max(s), failing)]
      BY <2>1
    <2>3. Folds(m, f)
      BY <2>2
    <2> QED BY <1>2, <2>3
  <1>5. CASE m # 0
    <2>1. m - 1 \in Nat /\ ~(m <= m - 1)
      BY <1>3, <1>5
    <2>2. PICK f : Folds(m - 1, f)
      BY <1>2, <2>1
    <2> DEFINE g == [s \in SUBSET (1..m) |->
                       IF m \in s THEN Moved1(f[s \ {m}], Backups - m, failing) ELSE f[s]]
    <2>3. \A s \in SUBSET (1..(m - 1)) : f[s] =
              IF s = {} THEN state ELSE Moved1(f[s \ {Max(s)}], Backups - Max(s), failing)
      BY <2>2
    <2>4. ASSUME NEW s \in SUBSET (1..m)
          PROVE  g[s] = IF s = {} THEN state
                        ELSE Moved1(g[s \ {Max(s)}], Backups - Max(s), failing)
      <3>1. CASE m \in s
        <4>1. Max(s) = m
          BY <1>3, <3>1, MaxIs
        <4>2. s \ {m} \in SUBSET (1..m) /\ m \notin s \ {m}
          OBVIOUS
        <4>3. g[s \ {m}] = f[s \ {m}]
          BY <4>2
        <4> QED BY <3>1, <4>1, <4>3
      <3>2. CASE m \notin s
        <4>1. s \in SUBSET (1..(m - 1))
          BY <1>3, <2>1, <3>2
        <4>2. s \ {Max(s)} \in SUBSET (1..m) /\ m \notin s \ {Max(s)}
          BY <3>2
        <4>3. g[s \ {Max(s)}] = f[s \ {Max(s)}] /\ g[s] = f[s]
          BY <3>2, <4>2
        <4> HIDE DEF g
        <4> QED BY <2>3, <4>1, <4>3
      <3> QED BY <3>1, <3>2
    <2>5. g = [s \in SUBSET (1..m) |-> g[s]]
      OBVIOUS
    <2> HIDE DEF g
    <2>6. Folds(m, g)
      BY <2>4, <2>5
    <2> QED BY <1>2, <2>6
  <1> QED BY <1>4, <1>5

\* The states that Shift passes through: before the i-th rename all files below
\* Backups - i + 1 are where they were.
LEMMA ShiftIsLast ==
    ASSUME NEW state, NEW failing, NEW r, r[0] = state,
           \A i \in 1..Backups : r[i] = Moved1(r[i - 1], Backups - i, failing)
    PROVE  Shift(state, failing) = r[Backups]
  <1> DEFINE seq == [i \in 1..Backups |-> Backups - i]
             Step(f) == [s \in SUBSET (1..Backups) |->
                 IF s = {} THEN state
                 ELSE IF seq[Max(s)] \in failing THEN f[s \ {Max(s)}]
                      ELSE Rename(seq[Max(s)], f[s \ {Max(s)}])]
             fold == CHOOSE f : f = Step(f)
  <1>1. Backups \in Nat /\ DOMAIN seq = 1..Backups
    BY AuditAssumption
  <1> HIDE DEF seq
  <1>2. Shift(state, failing) = fold[1..Backups]
    BY <1>1 DEF Shift, FoldLeft, MapThenFoldSet, seq
  <1>3. \A s \in SUBSET (1..Backups) : s # {} => Max(s) \in 1..Backups /\ seq[Max(s)] = Backups - Max(s)
    <2> TAKE s \in SUBSET (1..Backups)
    <2> HAVE s # {}
    <2>1. PICK m \in s : \A y \in s : m >= y
      BY <1>1, GreatestIn
    <2>2. Max(s) \in s
      BY <2>1 DEF Max
    <2>3. Max(s) \in 1..Backups
      BY <2>2
    <2> QED BY <2>3 DEF seq
  <1>4. fold = Step(fold)
    <2>1. \E f : f = ShiftStep(f, state, failing, Backups)
      BY <1>1, ShiftExists
    <2>2. ASSUME NEW f PROVE ShiftStep(f, state, failing, Backups) = Step(f)
      BY <1>3 DEF ShiftStep, Moved1
    <2> HIDE DEF Step
    <2> QED BY <2>1, <2>2
  <1>5. \A s \in SUBSET (1..Backups) :
          fold[s] = IF s = {} THEN state ELSE Moved1(fold[s \ {Max(s)}], Backups - Max(s), failing)
    <2> HIDE DEF fold
    <2> QED BY <1>3, <1>4 DEF Moved1
  <1> HIDE DEF fold, Step
  <1>6. SUFFICES ASSUME fold[1..Backups] # r[Backups] PROVE FALSE
    BY <1>2
  <1> DEFINE wrong == {i \in 0..Backups : fold[1..i] # r[i]}
  <1>7. PICK m \in wrong : \A k \in wrong : m <= k
    <2>1. wrong \subseteq Nat /\ wrong # {}
      BY <1>1, <1>6
    <2> HIDE DEF wrong
    <2> QED BY <2>1, LeastNumber
  <1>8. m \in 0..Backups /\ fold[1..m] # r[m]
    BY <1>7
  <1>9. CASE m = 0
    <2>1. 1..m = {}
      BY <1>9
    <2> QED BY <1>5, <1>8, <1>9, <2>1
  <1>10. CASE m # 0
    <2>1. m \in 1..Backups /\ m \in Nat /\ m \in 1..m /\ 1..m \subseteq 1..Backups /\ 1..m # {}
      BY <1>1, <1>8, <1>10
    <2>2. Max(1..m) = m
      BY <2>1, MaxIs
    <2>3. (1..m) \ {m} = 1..(m - 1)
      BY <2>1
    <2>4. m - 1 \in 0..Backups /\ m - 1 \notin wrong
      <3>1. m - 1 \in 0..Backups /\ ~(m <= m - 1)
        BY <1>1, <2>1
      <3> HIDE DEF wrong
      <3> QED BY <1>7, <3>1
    <2>5. fold[1..(m - 1)] = r[m - 1]
      BY <2>4
    <2>6. fold[1..m] = Moved1(fold[1..(m - 1)], Backups - m, failing)
      BY <1>5, <2>1, <2>2, <2>3
    <2> QED BY <1>8, <2>1, <2>5, <2>6
  <1> QED BY <1>9, <1>10

\* The files that are renamed, and what becomes of all of them.
Moves(state, failing) == {i \in 0..(Backups - 1) : i \in DOMAIN state /\ i \notin failing}

Shifted(state, moves) ==
    [i \in (DOMAIN state \ moves) \cup {m + 1 : m \in moves} |->
        IF i - 1 \in moves THEN state[i - 1] ELSE state[i]]

\* A rename of the file below those that were.
LEMMA OneMore ==
    ASSUME NEW S, NEW D \in SUBSET Nat, NEW state \in [D -> S], NEW from \in Nat,
           NEW moves \in SUBSET Nat, \A m \in moves : m > from
    PROVE  /\ from \in DOMAIN Shifted(state, moves) <=> from \in D
           /\ from \in D => Rename(from, Shifted(state, moves)) = Shifted(state, moves \cup {from})
  <1> DEFINE old == Shifted(state, moves)
             all == moves \cup {from}
             new == Shifted(state, all)
             ups(s) == {m + 1 : m \in s}
             domain == (DOMAIN old \ {from}) \cup {from + 1}
  <1>1. from \notin moves /\ from - 1 \notin moves /\ from \notin ups(moves)
    BY Z3
  <1>2. DOMAIN old = (D \ moves) \cup ups(moves) /\ DOMAIN new = (D \ all) \cup ups(all)
    BY DEF Shifted
  <1>3. from \in DOMAIN old <=> from \in D
    BY <1>1, <1>2
  <1>4. ASSUME from \in D PROVE Rename(from, old) = new
    <2>1. ups(all) = ups(moves) \cup {from + 1}
      OBVIOUS
    <2> HIDE DEF ups
    <2>2. domain = DOMAIN new
      BY <1>1, <1>2, <2>1
    <2>3. old[from] = state[from]
      BY <1>1, <1>2, <1>3, <1>4 DEF Shifted, ups
    <2>4. Rename(from, old) = [i \in domain |-> IF i = from + 1 THEN old[from] ELSE old[i]]
      BY <1>3, <1>4 DEF Rename
    <2>5. ASSUME NEW i \in domain
          PROVE  new[i] = IF i = from + 1 THEN old[from] ELSE old[i]
      <3>1. i \in Nat
        <4>1. \A j \in ups(moves) : j \in Nat
          BY DEF ups
        <4>2. i \in (D \ moves) \cup ups(moves) \cup {from + 1}
          BY <1>2
        <4> HIDE DEF ups, domain
        <4> QED BY <4>1, <4>2
      <3>2. new[i] = IF i - 1 \in all THEN state[i - 1] ELSE state[i]
        BY <2>2 DEF Shifted, ups
      <3>3. CASE i = from + 1
        BY <2>3, <3>2, <3>3
      <3>4. CASE i # from + 1
        <4>1. i \in DOMAIN old
          BY <3>4
        <4>2. old[i] = IF i - 1 \in moves THEN state[i - 1] ELSE state[i]
          BY <4>1 DEF Shifted, ups
        <4>3. i - 1 # from
          BY <3>1, <3>4
        <4> QED BY <3>2, <3>4, <4>2, <4>3
      <3> QED BY <3>3, <3>4
    <2>6. new = [i \in DOMAIN new |-> new[i]]
      BY DEF Shifted
    <2> HIDE DEF new, old, domain
    <2> QED BY <2>2, <2>4, <2>5, <2>6
  <1> QED BY <1>3, <1>4

LEMMA ShiftIs ==
    ASSUME NEW S, NEW D \in SUBSET Nat, NEW state \in [D -> S], NEW failing
    PROVE  Shift(state, failing) = Shifted(state, Moves(state, failing))
  <1> DEFINE upper(k) == {m \in Moves(state, failing) : m >= Backups - k}
             r == [k \in 0..Backups |-> Shifted(state, upper(k))]
  <1>1. Backups \in Nat
    BY AuditAssumption
  <1>2. r[0] = state
    <2>1. upper(0) = {}
      BY <1>1 DEF Moves
    <2>2. Shifted(state, {}) = [i \in D |-> state[i]]
      BY DEF Shifted
    <2>3. r[0] = Shifted(state, upper(0))
      BY <1>1
    <2>4. state = [i \in D |-> state[i]]
      OBVIOUS
    <2> HIDE DEF upper, r
    <2> QED BY <2>1, <2>2, <2>3, <2>4
  <1>3. ASSUME NEW k \in 1..Backups PROVE r[k] = Moved1(r[k - 1], Backups - k, failing)
    <2> DEFINE from == Backups - k
               moves == upper(k - 1)
    <2>1. from \in Nat /\ k \in 0..Backups /\ k - 1 \in 0..Backups /\ from \in 0..(Backups - 1)
      BY <1>1
    <2>2. moves \in SUBSET Nat /\ \A m \in moves : m > from
      BY <1>1 DEF Moves
    <2>3. upper(k) = IF from \in D /\ from \notin failing THEN moves \cup {from} ELSE moves
      BY <1>1, <2>1 DEF Moves
    <2>4. r[k - 1] = Shifted(state, moves) /\ r[k] = Shifted(state, upper(k))
      BY <2>1
    <2> HIDE DEF r, upper, moves, from
    <2>5. /\ from \in DOMAIN Shifted(state, moves) <=> from \in D
          /\ from \in D => Rename(from, Shifted(state, moves)) = Shifted(state, moves \cup {from})
      BY <2>1, <2>2, OneMore
    <2>6. from \notin D => Rename(from, Shifted(state, moves)) = Shifted(state, moves)
      BY <2>5 DEF Rename
    <2>7. Moved1(r[k - 1], from, failing) = r[k]
      BY <2>3, <2>4, <2>5, <2>6 DEF Moved1
    <2> QED BY <2>7 DEF from
  <1>4. r[Backups] = Shifted(state, Moves(state, failing))
    <2>1. upper(Backups) = Moves(state, failing)
      BY <1>1 DEF Moves
    <2> HIDE DEF upper
    <2> QED BY <1>1, <2>1
  <1> HIDE DEF r
  <1> QED BY <1>2, <1>3, <1>4, ShiftIsLast

-----------------------------------------------------------------------------
(* The mirror *)

FileOf(state, i) == IF i \in DOMAIN state THEN state[i] ELSE <<>>

\* Each file holds a piece of what was written; the older its number, the
\* earlier the piece, and the newest ends with the last event.
Pieces(state, written, start) ==
    /\ start \in [0..Backups -> Nat]
    /\ \A i \in 0..Backups : \A k \in 1..Len(FileOf(state, i)) :
            FileOf(state, i)[k].n = written[start[i] + k]
    /\ \A i \in 1..Backups : start[i] + Len(FileOf(state, i)) <= start[i - 1]
    /\ start[0] + Len(FileOf(state, 0)) = Len(written)
    /\ FileOf(state, 0) = <<>> =>
            /\ start[1] + Len(FileOf(state, 1)) = Len(written)
            /\ written = <<>> \/ FileOf(state, 1) # <<>>

\* The pieces meet, and the first is the first that was written unless all
\* backups are there.
Gapless(state, start) ==
    /\ \A i \in 1..Backups : start[i] + Len(FileOf(state, i)) = start[i - 1]
    /\ start[Backups] = 0 \/ 1..Backups \subseteq DOMAIN state
    /\ \A i \in DOMAIN state : i > 1 => i - 1 \in DOMAIN state

FilesTyped(state) ==
    /\ DOMAIN state \in SUBSET (0..Backups)
    /\ state \in [DOMAIN state -> Seq(Event)]

MirrorInv ==
    /\ FilesTyped(files)
    /\ mirrored \in Seq(Nat)
    /\ open => 0 \in DOMAIN files
    /\ \E start : Pieces(files, mirrored, start) /\ ("rename" \notin failed => Gapless(files, start))

LEMMA FileIsSeq ==
    ASSUME NEW state, FilesTyped(state), NEW i
    PROVE  FileOf(state, i) \in Seq(Event) /\ Len(FileOf(state, i)) \in Nat
  <1>1. FileOf(state, i) \in Seq(Event)
    BY DEF FilesTyped, FileOf
  <1> QED BY <1>1

\* Where each file is after a rotation.
LEMMA ShiftedFiles ==
    ASSUME NEW state, FilesTyped(state), NEW failing
    PROVE  LET moves == Moves(state, failing)
               new == Shift(state, failing)
           IN  /\ FilesTyped(new)
               /\ DOMAIN new = (DOMAIN state \ moves) \cup {m + 1 : m \in moves}
               /\ \A i \in 0..Backups :
                    FileOf(new, i) = IF i - 1 \in moves THEN FileOf(state, i - 1)
                                     ELSE IF i \in moves THEN <<>> ELSE FileOf(state, i)
  <1> DEFINE moves == Moves(state, failing)
             new == Shift(state, failing)
             domain == (DOMAIN state \ moves) \cup {m + 1 : m \in moves}
  <1>1. Backups \in Nat /\ DOMAIN state \in SUBSET Nat /\ state \in [DOMAIN state -> Seq(Event)]
    BY AuditAssumption DEF FilesTyped
  <1>2. new = [i \in domain |-> IF i - 1 \in moves THEN state[i - 1] ELSE state[i]]
    <2>1. new = Shifted(state, moves)
      BY <1>1, ShiftIs
    <2> HIDE DEF new, moves
    <2> QED BY <2>1 DEF Shifted
  <1>3. moves \subseteq DOMAIN state /\ moves \subseteq 0..(Backups - 1)
    BY DEF Moves
  <1> HIDE DEF new, moves
  <1>4. \A i \in domain : i \in 0..Backups
    <2>1. \A i \in DOMAIN state : i \in 0..Backups
      BY DEF FilesTyped
    <2>2. \A m \in moves : m + 1 \in 0..Backups
      BY <1>1, <1>3
    <2> QED BY <2>1, <2>2
  <1>5. \A i : i - 1 \in moves => i - 1 + 1 \in domain
    OBVIOUS
  <1>6. \A i \in 0..Backups : i - 1 \in moves => i \in domain
    <2> TAKE i \in 0..Backups
    <2> HAVE i - 1 \in moves
    <2>1. i - 1 + 1 = i
      BY <1>1
    <2> QED BY <1>5, <2>1
  <1>7. ASSUME NEW i \in domain PROVE new[i] \in Seq(Event)
    <2>1. i - 1 \in moves \/ i \in DOMAIN state
      <3>1. CASE i \in {m + 1 : m \in moves}
        <4>1. PICK m \in moves : i = m + 1
          BY <3>1
        <4>2. m \in Int
          BY <1>3
        <4> QED BY <4>1, <4>2
      <3>2. CASE i \notin {m + 1 : m \in moves}
        BY <3>2
      <3> QED BY <3>1, <3>2
    <2> HIDE DEF domain
    <2>2. new[i] = IF i - 1 \in moves THEN state[i - 1] ELSE state[i]
      BY <1>2
    <2> QED BY <1>1, <1>3, <2>1, <2>2
  <1>8. DOMAIN new = domain /\ \A i \in domain : new[i] = IF i - 1 \in moves THEN state[i - 1] ELSE state[i]
    <2> HIDE DEF domain
    <2> QED BY <1>2
  <1>9. FilesTyped(new)
    <2>1. new = [i \in domain |-> new[i]]
      <3> HIDE DEF domain
      <3> QED BY <1>2
    <2> HIDE DEF domain
    <2> QED BY <1>4, <1>7, <1>8, <2>1 DEF FilesTyped
  <1>10. ASSUME NEW i \in 0..Backups
         PROVE  FileOf(new, i) = IF i - 1 \in moves THEN FileOf(state, i - 1)
                                 ELSE IF i \in moves THEN <<>> ELSE FileOf(state, i)
    <2>1. CASE i - 1 \in moves
      <3>1. i \in domain
        BY <1>6, <2>1
      <3> HIDE DEF domain
      <3> QED BY <1>3, <1>8, <2>1, <3>1 DEF FileOf
    <2>2. CASE i - 1 \notin moves
      <3>1. i \notin {m + 1 : m \in moves}
        <4> SUFFICES ASSUME NEW m \in moves, i = m + 1 PROVE FALSE
          OBVIOUS
        <4>1. m \in Int /\ i - 1 = m
          BY <1>3
        <4> QED BY <2>2, <4>1
      <3>2. i \in domain <=> i \in DOMAIN state /\ i \notin moves
        BY <3>1
      <3> HIDE DEF domain
      <3> QED BY <1>3, <1>8, <2>2, <3>2 DEF FileOf
    <2> QED BY <2>1, <2>2
  <1> QED BY <1>8, <1>9, <1>10 DEF new, moves

\* A rotation moves pieces and loses only what it replaces.
LEMMA ShiftPieces ==
    ASSUME NEW state, FilesTyped(state), NEW written, NEW start, Pieces(state, written, start),
           FileOf(state, 0) # <<>>, NEW failing
    PROVE  \E later :
            /\ Pieces(Shift(state, failing), written, later)
            /\ failing = {} /\ Gapless(state, start) => Gapless(Shift(state, failing), later)
  <1> DEFINE moves == Moves(state, failing)
             new == Shift(state, failing)
             old(i) == FileOf(state, i)
             now(i) == FileOf(new, i)
             later == [i \in 0..Backups |->
                 IF i - 1 \in moves THEN start[i - 1]
                 ELSE IF i \in moves THEN start[i] + Len(old(i)) ELSE start[i]]
  <1>1. Backups \in Nat \ {0} /\ 0 \in 0..Backups /\ 1 \in 0..Backups /\ 1 \in 1..Backups
    BY AuditAssumption
  <1>2. \A i : old(i) \in Seq(Event) /\ Len(old(i)) \in Nat
    BY FileIsSeq
  <1>3. /\ DOMAIN new = (DOMAIN state \ moves) \cup {m + 1 : m \in moves}
        /\ \A i \in 0..Backups : now(i) = IF i - 1 \in moves THEN old(i - 1)
                                          ELSE IF i \in moves THEN <<>> ELSE old(i)
    BY ShiftedFiles
  <1>4. moves \subseteq DOMAIN state /\ moves \subseteq 0..(Backups - 1) /\ -1 \notin moves
    BY <1>1 DEF Moves
  <1>5. /\ start \in [0..Backups -> Nat]
        /\ \A i \in 0..Backups : \A k \in 1..Len(old(i)) : old(i)[k].n = written[start[i] + k]
        /\ \A i \in 1..Backups : start[i] + Len(old(i)) <= start[i - 1]
        /\ start[0] + Len(old(0)) = Len(written)
    BY DEF Pieces
  <1>6. old(0) # <<>>
    OBVIOUS
  <1>7. 0 \in moves \/ (0 \notin moves /\ now(0) = old(0))
    BY <1>1, <1>3, <1>4
  <1> DEFINE Gap == failing = {} /\ Gapless(state, start)
  <1>8. Gap => /\ \A i \in 1..Backups : start[i] + Len(old(i)) = start[i - 1]
               /\ start[Backups] = 0 \/ 1..Backups \subseteq DOMAIN state
               /\ \A i \in DOMAIN state : i > 1 => i - 1 \in DOMAIN state
               /\ \A i \in 0..(Backups - 1) : i \in DOMAIN state => i \in moves
    BY DEF Gapless, Moves
  <1> HIDE DEF moves, new, old, now
  <1>9. ASSUME NEW i \in 0..Backups
        PROVE  /\ i - 1 \in moves => i - 1 \in 0..Backups /\ now(i) = old(i - 1) /\ later[i] = start[i - 1]
               /\ i - 1 \notin moves /\ i \in moves => now(i) = <<>> /\ later[i] = start[i] + Len(old(i))
               /\ i - 1 \notin moves /\ i \notin moves => now(i) = old(i) /\ later[i] = start[i]
    <2>1. i - 1 \in moves => i - 1 \in 0..Backups
      BY <1>1, <1>4
    <2> QED BY <1>3, <2>1
  <1>10. later \in [0..Backups -> Nat]
    <2>1. ASSUME NEW i \in 0..Backups PROVE later[i] \in Nat
      <3>1. start[i] \in Nat /\ Len(old(i)) \in Nat
        BY <1>2, <1>5
      <3>2. i - 1 \in 0..Backups => start[i - 1] \in Nat
        BY <1>5
      <3> HIDE DEF later
      <3> QED BY <1>9, <3>1, <3>2
    <2>2. later = [i \in 0..Backups |-> later[i]]
      OBVIOUS
    <2> HIDE DEF later
    <2> QED BY <2>1, <2>2
  <1> HIDE DEF later
  <1>11. ASSUME NEW i \in 0..Backups, NEW k \in 1..Len(now(i))
         PROVE  now(i)[k].n = written[later[i] + k]
    <2>1. CASE i - 1 \in moves
      BY <1>5, <1>9, <2>1
    <2>2. CASE i - 1 \notin moves /\ i \in moves
      BY <1>9, <2>2
    <2>3. CASE i - 1 \notin moves /\ i \notin moves
      BY <1>5, <1>9, <2>3
    <2> QED BY <2>1, <2>2, <2>3
  <1>12. ASSUME NEW i \in 1..Backups
         PROVE  /\ later[i] + Len(now(i)) <= later[i - 1]
                /\ Gap => later[i] + Len(now(i)) = later[i - 1]
    <2>1. i \in 0..Backups /\ i - 1 \in 0..Backups
      BY <1>1
    <2>2. /\ start[i] \in Nat /\ start[i - 1] \in Nat /\ Len(old(i)) \in Nat /\ Len(old(i - 1)) \in Nat
          /\ start[i] + Len(old(i)) <= start[i - 1] /\ Len(<<>>) = 0
      BY <1>2, <1>5, <2>1
    <2>3. /\ later[i - 1] >= start[i - 1]
          /\ i - 1 \in moves => later[i - 1] >= start[i - 1] + Len(old(i - 1))
      <3>1. CASE i - 1 - 1 \in moves
        <4>1. i - 1 \in 1..Backups
          <5>1. i - 1 # 0
            BY <1>4, <3>1
          <5> QED BY <1>1, <2>1, <5>1
        <4>2. start[i - 1] + Len(old(i - 1)) <= start[i - 1 - 1] /\ later[i - 1] = start[i - 1 - 1]
          BY <1>5, <1>9, <2>1, <3>1, <4>1
        <4>3. start[i - 1 - 1] \in Nat
          BY <1>5, <1>9, <2>1, <3>1
        <4> QED BY <2>2, <4>2, <4>3
      <3>2. CASE i - 1 - 1 \notin moves
        <4>1. /\ i - 1 \in moves => later[i - 1] = start[i - 1] + Len(old(i - 1))
              /\ i - 1 \notin moves => later[i - 1] = start[i - 1]
          BY <1>9, <2>1, <3>2
        <4> QED BY <2>2, <4>1
      <3> QED BY <3>1, <3>2
    <2>4. /\ i - 1 \in moves => now(i) = old(i - 1) /\ later[i] = start[i - 1]
          /\ i - 1 \notin moves /\ i \in moves => now(i) = <<>> /\ later[i] = start[i] + Len(old(i))
          /\ i - 1 \notin moves /\ i \notin moves => now(i) = old(i) /\ later[i] = start[i]
      BY <1>9, <2>1
    <2>5. later[i - 1] \in Nat
      BY <1>10, <2>1
    <2>6. later[i] + Len(now(i)) <= later[i - 1]
      <3>1. CASE i - 1 \in moves
        BY <2>2, <2>3, <2>4, <2>5, <3>1
      <3>2. CASE i - 1 \notin moves /\ i \in moves
        BY <2>2, <2>3, <2>4, <2>5, <3>2
      <3>3. CASE i - 1 \notin moves /\ i \notin moves
        BY <2>2, <2>3, <2>4, <2>5, <3>3
      <3> QED BY <3>1, <3>2, <3>3
    <2>7. ASSUME Gap PROVE later[i] + Len(now(i)) = later[i - 1]
      <3>1. start[i] + Len(old(i)) = start[i - 1]
        BY <1>8, <2>7
      <3>2. i - 1 - 1 \in moves => start[i - 1] + Len(old(i - 1)) = start[i - 1 - 1]
        <4> SUFFICES ASSUME i - 1 - 1 \in moves PROVE start[i - 1] + Len(old(i - 1)) = start[i - 1 - 1]
          OBVIOUS
        <4>1. i - 1 # 0
          BY <1>4
        <4>2. i - 1 \in 1..Backups
          BY <1>1, <2>1, <4>1
        <4> QED BY <1>8, <2>7, <4>2
      <3>3. i - 1 \notin moves => i - 1 \notin DOMAIN state /\ old(i - 1) = <<>>
        <4>1. i - 1 \in 0..(Backups - 1)
          BY <1>1
        <4> QED BY <1>8, <2>7, <4>1 DEF FileOf, old
      <3>4. i - 1 \notin moves => i = 1 \/ i \notin DOMAIN state
        <4>1. i \in Nat /\ (i # 1 => i > 1)
          BY <1>1
        <4> QED BY <1>8, <2>7, <3>3, <4>1
      <3>5. i - 1 \notin moves => i # 1
        BY <1>6, <3>3
      <3>6. i - 1 \notin moves => i \notin moves /\ old(i) = <<>>
        BY <1>4, <3>4, <3>5 DEF FileOf, old
      <3>7. /\ i - 1 - 1 \in moves => later[i - 1] = start[i - 1 - 1]
            /\ i - 1 - 1 \notin moves /\ i - 1 \in moves => later[i - 1] = start[i - 1] + Len(old(i - 1))
            /\ i - 1 - 1 \notin moves /\ i - 1 \notin moves => later[i - 1] = start[i - 1]
        BY <1>9, <2>1
      <3>8. CASE i - 1 \in moves
        <4>1. later[i - 1] = start[i - 1] + Len(old(i - 1))
          BY <3>2, <3>7, <3>8
        <4> QED BY <2>2, <2>4, <3>8, <4>1
      <3>9. CASE i - 1 \notin moves
        <4>1. later[i] = start[i] /\ Len(now(i)) = 0 /\ Len(old(i)) = 0 /\ Len(old(i - 1)) = 0
          BY <2>2, <2>4, <3>3, <3>6, <3>9
        <4>2. later[i - 1] = start[i - 1]
          BY <2>2, <3>2, <3>7, <3>9, <4>1
        <4> QED BY <2>2, <3>1, <4>1, <4>2
      <3> QED BY <3>8, <3>9
    <2> QED BY <2>6, <2>7
  <1>13. /\ later[0] + Len(now(0)) = Len(written)
         /\ now(0) = <<>> => later[1] + Len(now(1)) = Len(written) /\ now(1) # <<>>
    <2>1. 0 - 1 \notin moves /\ Len(<<>>) = 0 /\ start[0] + Len(old(0)) = Len(written) /\ 1 - 1 = 0
      BY <1>4, <1>5
    <2>2. CASE 0 \in moves
      <3>1. now(0) = <<>> /\ later[0] = start[0] + Len(old(0))
        BY <1>1, <1>9, <2>1, <2>2
      <3>2. now(1) = old(0) /\ later[1] = start[0]
        BY <1>1, <1>9, <2>1, <2>2
      <3>3. start[0] \in Nat /\ Len(old(0)) \in Nat
        BY <1>1, <1>2, <1>5
      <3> QED BY <1>6, <2>1, <3>1, <3>2, <3>3
    <2>3. CASE 0 \notin moves
      BY <1>1, <1>6, <1>9, <2>1, <2>3
    <2> QED BY <2>2, <2>3
  <1>14. Pieces(new, written, later)
    BY <1>10, <1>11, <1>12, <1>13 DEF Pieces, now
  <1>15. ASSUME Gap PROVE Gapless(new, later)
    <2>1. \A i \in DOMAIN new : i > 1 => i - 1 \in DOMAIN new
      <3> SUFFICES ASSUME NEW i \in DOMAIN new, i > 1 PROVE i - 1 \in DOMAIN new
        OBVIOUS
      <3>1. DOMAIN state \subseteq 0..Backups
        BY DEF FilesTyped
      <3>2. CASE i \in {m + 1 : m \in moves}
        <4>1. PICK m \in moves : i = m + 1
          BY <3>2
        <4>2. m \in Nat /\ m \in 1..Backups /\ m \in DOMAIN state /\ i - 1 = m
          BY <1>1, <1>4, <4>1
        <4>3. CASE m = 1
          <5>1. 0 \in DOMAIN state
            BY <1>6 DEF FileOf, old
          <5>2. 0 \in moves /\ i - 1 = 0 + 1
            BY <1>1, <1>8, <1>15, <4>2, <4>3, <5>1
          <5> QED BY <1>3, <5>2
        <4>4. CASE m # 1
          <5>1. m > 1 /\ m - 1 \in 0..(Backups - 1)
            BY <1>1, <4>2, <4>4
          <5>2. m - 1 \in moves
            BY <1>8, <1>15, <4>2, <5>1
          <5>3. i - 1 = (m - 1) + 1
            BY <4>2
          <5> QED BY <1>3, <5>2, <5>3
        <4> QED BY <4>3, <4>4
      <3>3. CASE i \notin {m + 1 : m \in moves}
        <4>1. i \in DOMAIN state /\ i \notin moves
          BY <1>3, <3>3
        <4>2. i \in 0..Backups /\ i - 1 \in DOMAIN state
          BY <1>8, <1>15, <3>1, <4>1
        <4>3. i - 1 \in 0..(Backups - 1)
          BY <1>1, <4>2
        <4>4. i - 1 \in moves /\ i = (i - 1) + 1
          BY <1>8, <1>15, <4>2, <4>3
        <4> QED BY <3>3, <4>4
      <3> QED BY <3>2, <3>3
    <2>2. later[Backups] = 0 \/ 1..Backups \subseteq DOMAIN new
      <3>1. CASE 0..(Backups - 1) \subseteq moves
        <4>1. \A i \in 1..Backups : i - 1 \in 0..(Backups - 1) /\ i = (i - 1) + 1
          BY <1>1
        <4> QED BY <1>3, <3>1, <4>1
      <3>2. CASE ~(0..(Backups - 1) \subseteq moves)
        <4>1. PICK j \in 0..(Backups - 1) : j \notin moves
          BY <3>2
        <4>2. j \notin DOMAIN state /\ j # 0
          BY <1>6, <1>8, <1>15, <4>1 DEF FileOf, old
        <4>3. start[Backups] = 0
          <5>1. j \in 1..Backups
            BY <1>1, <4>2
          <5> QED BY <1>8, <1>15, <4>2, <5>1
        <4>4. Backups \notin DOMAIN state
          <5> SUFFICES ASSUME Backups \in DOMAIN state PROVE FALSE
            OBVIOUS
          <5> DEFINE above == {i \in Nat : i >= j /\ i \in DOMAIN state}
          <5>1. PICK l \in above : \A i \in above : l <= i
            <6>1. above \subseteq Nat /\ Backups \in above
              BY <1>1
            <6> HIDE DEF above
            <6> QED BY <6>1, LeastNumber
          <5>2. l \in Nat /\ l > j /\ l > 1 /\ l \in DOMAIN state
            BY <4>2
          <5>3. l - 1 \in DOMAIN state /\ l - 1 \in Nat /\ l - 1 >= j /\ ~(l <= l - 1)
            <6>1. l - 1 \in DOMAIN state
              BY <1>8, <1>15, <5>2
            <6>2. j \in Nat
              BY <4>1
            <6> QED BY <5>2, <6>1, <6>2
          <5>4. l - 1 \in above
            BY <5>3
          <5> HIDE DEF above
          <5> QED BY <5>1, <5>3, <5>4
        <4>5. old(Backups) = <<>> /\ Backups \in 1..Backups
          BY <1>1, <4>4 DEF FileOf, old
        <4>6. start[Backups - 1] = 0 /\ Backups \notin moves
          <5>1. start[Backups] + Len(old(Backups)) = start[Backups - 1] /\ Len(<<>>) = 0
            BY <1>8, <1>15, <4>5
          <5> QED BY <1>4, <4>3, <4>4, <4>5, <5>1
        <4>7. Backups \in 0..Backups
          BY <1>1
        <4> QED BY <1>9, <4>3, <4>6, <4>7
      <3> QED BY <3>1, <3>2
    <2> QED BY <1>12, <1>15, <2>1, <2>2 DEF Gapless, now
  <1> QED BY <1>14, <1>15 DEF new, Gap

\* What WriteMirror makes of the files when it writes an event.
Extended(state, e) ==
    [i \in DOMAIN state \cup {0} |->
        IF i # 0 THEN state[i] ELSE IF 0 \in DOMAIN state THEN Append(state[0], e) ELSE <<e>>]

LEMMA WritePieces ==
    ASSUME NEW state, FilesTyped(state), NEW written \in Seq(Nat), NEW start,
           Pieces(state, written, start), NEW e \in Event
    PROVE  LET new == Extended(state, e)
           IN  /\ FilesTyped(new) /\ 0 \in DOMAIN new
               /\ Pieces(new, Append(written, e.n), start)
               /\ Gapless(state, start) => Gapless(new, start)
  <1> DEFINE new == Extended(state, e)
             old(i) == FileOf(state, i)
             now(i) == FileOf(new, i)
             longer == Append(written, e.n)
  <1>1. Backups \in Nat \ {0} /\ 0 \in 0..Backups /\ 1 \in 0..Backups /\ 1 \in 1..Backups
    BY AuditAssumption
  <1>2. \A i : old(i) \in Seq(Event) /\ Len(old(i)) \in Nat
    BY FileIsSeq
  <1>3. DOMAIN new = DOMAIN state \cup {0}
    BY DEF Extended
  <1>4. now(0) = Append(old(0), e) /\ \A i \in 1..Backups : now(i) = old(i)
    <2>1. \A x : Append(<<>>, x) = <<x>>
      OBVIOUS
    <2>2. new[0] = IF 0 \in DOMAIN state THEN Append(state[0], e) ELSE <<e>>
      BY DEF Extended
    <2>3. \A i \in DOMAIN state : i # 0 => new[i] = state[i]
      BY DEF Extended
    <2>4. \A i \in 1..Backups : i # 0
      BY <1>1
    <2> HIDE DEF new
    <2> QED BY <1>3, <2>1, <2>2, <2>3, <2>4 DEF FileOf
  <1>5. FilesTyped(new)
    <2>1. DOMAIN new \in SUBSET (0..Backups)
      BY <1>1, <1>3 DEF FilesTyped
    <2>2. \A i \in DOMAIN state : state[i] \in Seq(Event)
      BY DEF FilesTyped
    <2>3. Append(old(0), e) \in Seq(Event)
      BY <1>2
    <2>4. ASSUME NEW i \in DOMAIN new PROVE new[i] \in Seq(Event)
      <3>1. CASE i = 0
        <4>1. new[0] = now(0)
          BY <1>3 DEF FileOf
        <4> QED BY <1>4, <2>3, <3>1, <4>1
      <3>2. CASE i # 0
        BY <1>3, <2>2, <3>2 DEF Extended
      <3> QED BY <3>1, <3>2
    <2>5. new = [i \in DOMAIN new |-> new[i]]
      BY DEF Extended
    <2> HIDE DEF new
    <2> QED BY <2>1, <2>4, <2>5 DEF FilesTyped
  <1>6. /\ start \in [0..Backups -> Nat]
        /\ \A i \in 0..Backups : \A k \in 1..Len(old(i)) : old(i)[k].n = written[start[i] + k]
        /\ \A i \in 1..Backups : start[i] + Len(old(i)) <= start[i - 1]
        /\ start[0] + Len(old(0)) = Len(written)
    BY DEF Pieces
  <1>7. e.n \in Nat /\ Len(written) \in Nat /\ Len(longer) = Len(written) + 1
        /\ longer[Len(written) + 1] = e.n /\ \A k \in 1..Len(written) : longer[k] = written[k]
    BY DEF Event
  <1>8. Len(now(0)) = Len(old(0)) + 1 /\ now(0)[Len(old(0)) + 1] = e
        /\ \A k \in 1..Len(old(0)) : now(0)[k] = old(0)[k]
    BY <1>2, <1>4
  <1> HIDE DEF new, old, now, longer
  <1>9. ASSUME NEW i \in 0..Backups PROVE start[i] + Len(old(i)) <= Len(written)
    <2> DEFINE past == {j \in Nat : j <= Backups /\ start[j] + Len(old(j)) > Len(written)}
    <2> SUFFICES ASSUME ~(start[i] + Len(old(i)) <= Len(written)) PROVE FALSE
      OBVIOUS
    <2>1. start[i] \in Nat /\ Len(old(i)) \in Nat
      BY <1>2, <1>6
    <2>2. past \subseteq Nat /\ i \in past
      BY <1>1, <1>7, <2>1
    <2>3. PICK m \in past : \A k \in past : m <= k
      <3> HIDE DEF past
      <3> QED BY <2>2, LeastNumber
    <2>4. m \in 1..Backups
      <3>1. m # 0
        <4>1. start[0] + Len(old(0)) \in Nat /\ ~(Len(written) > Len(written))
          BY <1>6, <1>7
        <4>2. 0 \notin past
          BY <1>6, <4>1
        <4> HIDE DEF past
        <4> QED BY <2>3, <4>2
      <3> QED BY <1>1, <2>3, <3>1
    <2>5. m - 1 \in 0..Backups /\ m - 1 \in Nat /\ m - 1 <= Backups /\ m \in 0..Backups
      BY <1>1, <2>4
    <2>6. start[m] \in Nat /\ start[m - 1] \in Nat /\ Len(old(m)) \in Nat /\ Len(old(m - 1)) \in Nat
      BY <1>2, <1>6, <2>5
    <2>7. start[m] + Len(old(m)) <= start[m - 1] /\ start[m] + Len(old(m)) > Len(written)
      BY <1>6, <2>3, <2>4
    <2>8. start[m - 1] + Len(old(m - 1)) > Len(written)
      BY <1>7, <2>6, <2>7
    <2>9. m - 1 \in past /\ ~(m <= m - 1)
      BY <2>5, <2>8
    <2> HIDE DEF past
    <2> QED BY <2>3, <2>9
  <1>10. ASSUME NEW i \in 0..Backups, NEW k \in 1..Len(now(i)) PROVE now(i)[k].n = longer[start[i] + k]
    <2>1. start[i] \in Nat /\ Len(old(i)) \in Nat /\ start[i] + Len(old(i)) <= Len(written)
      BY <1>2, <1>6, <1>9
    <2>2. CASE i = 0
      <3>1. CASE k = Len(old(0)) + 1
        <4>1. start[0] \in Nat /\ Len(old(0)) \in Nat /\ start[0] + Len(old(0)) = Len(written)
          BY <1>1, <1>2, <1>6
        <4>2. start[0] + (Len(old(0)) + 1) = Len(written) + 1
          BY <4>1
        <4> QED BY <1>7, <1>8, <2>2, <3>1, <4>2
      <3>2. CASE k # Len(old(0)) + 1
        <4>1. k \in 1..Len(old(0)) /\ start[0] + k \in 1..Len(written)
          BY <1>7, <1>8, <2>1, <2>2, <3>2
        <4>2. now(0)[k].n = written[start[0] + k]
          BY <1>1, <1>6, <1>8, <4>1
        <4> QED BY <1>7, <2>2, <4>1, <4>2
      <3> QED BY <3>1, <3>2
    <2>3. CASE i # 0
      <3>1. i \in 1..Backups
        BY <1>1, <2>3
      <3>2. k \in 1..Len(old(i)) /\ now(i) = old(i)
        BY <1>4, <3>1 DEF now, old
      <3>3. start[i] + k \in 1..Len(written)
        BY <1>7, <2>1, <3>2
      <3> QED BY <1>6, <1>7, <3>2, <3>3
    <2> QED BY <2>2, <2>3
  <1>11. \A i \in 1..Backups : now(i) = old(i)
    BY <1>4 DEF now, old
  <1>12. start[0] + Len(now(0)) = Len(longer) /\ now(0) # <<>>
    <2>1. start[0] \in Nat /\ Len(old(0)) \in Nat /\ Len(<<>>) = 0
          /\ start[0] + Len(old(0)) = Len(written)
      BY <1>1, <1>2, <1>6
    <2>2. Len(now(0)) = Len(old(0)) + 1 /\ Len(longer) = Len(written) + 1
      BY <1>7, <1>8
    <2>3. Len(now(0)) # 0
      BY <2>1, <2>2
    <2>4. start[0] + (Len(old(0)) + 1) = Len(written) + 1
      BY <2>1
    <2> QED BY <2>1, <2>2, <2>3, <2>4
  <1>13. Pieces(new, longer, start)
    BY <1>6, <1>10, <1>11, <1>12 DEF Pieces, now
  <1>14. ASSUME Gapless(state, start) PROVE Gapless(new, start)
    <2>1. /\ \A i \in 1..Backups : start[i] + Len(old(i)) = start[i - 1]
          /\ start[Backups] = 0 \/ 1..Backups \subseteq DOMAIN state
          /\ \A i \in DOMAIN state : i > 1 => i - 1 \in DOMAIN state
      BY <1>14 DEF Gapless, old
    <2>2. \A i \in DOMAIN new : i > 1 => i - 1 \in DOMAIN new
      BY <1>3, <2>1
    <2>3. \A i \in 1..Backups : start[i] + Len(now(i)) = start[i - 1]
      BY <1>11, <2>1
    <2> QED BY <1>3, <2>1, <2>2, <2>3 DEF Gapless, now
  <1> QED BY <1>3, <1>5, <1>13, <1>14 DEF new, longer

LEMMA InitMirror == Init => MirrorInv
  <1> SUFFICES ASSUME Init PROVE MirrorInv
    OBVIOUS
  <1> DEFINE start == [i \in 0..Backups |-> 0]
  <1>1. Backups \in Nat \ {0} /\ 0 \in 0..Backups /\ 1 \in 0..Backups
    BY AuditAssumption
  <1>2. files = [i \in {0} |-> <<>>] /\ mirrored = <<>>
    BY DEF Init, AuditInit
  <1>3. FilesTyped(files) /\ 0 \in DOMAIN files
    BY <1>1, <1>2 DEF FilesTyped
  <1>4. \A i : FileOf(files, i) = <<>>
    BY <1>2 DEF FileOf
  <1>5. start \in [0..Backups -> Nat] /\ \A i \in 0..Backups : start[i] = 0
    OBVIOUS
  <1>6. \A i \in 1..Backups : i \in 0..Backups /\ i - 1 \in 0..Backups
    BY <1>1
  <1> HIDE DEF start
  <1>7. Pieces(files, mirrored, start)
    BY <1>1, <1>2, <1>4, <1>5, <1>6 DEF Pieces
  <1>8. Gapless(files, start)
    <2>1. \A i \in DOMAIN files : ~(i > 1)
      BY <1>2
    <2>2. Backups \in 0..Backups
      BY <1>1
    <2> QED BY <1>4, <1>5, <1>6, <2>1, <2>2 DEF Gapless
  <1> QED BY <1>2, <1>3, <1>7, <1>8 DEF MirrorInv

LEMMA WriteKeepsMirror ==
    ASSUME TrailInv, MirrorInv, NEW h \in Auditors, WriteMirror(h)
    PROVE  MirrorInv'
  <1> DEFINE e == event[h]
  <1>1. e \in Event /\ mirrored \in Seq(Nat) /\ FilesTyped(files)
    BY DEF TrailInv, MirrorInv, Event
  <1>2. PICK start : Pieces(files, mirrored, start) /\ ("rename" \notin failed => Gapless(files, start))
    BY DEF MirrorInv
  <1>3. e.n \in Nat /\ Append(mirrored, e.n) \in Seq(Nat)
    BY <1>1 DEF Event
  <1>4. \A state : Extended(state, e) =
            [i \in DOMAIN state \cup {0} |->
                IF i # 0 THEN state[i]
                ELSE IF 0 \in DOMAIN state THEN Append(state[0], event[h]) ELSE <<event[h]>>]
    BY DEF Extended
  <1>5. \/ UNCHANGED <<files, open, mirrored, failed>>
        \/ /\ ~RotateNeeded(h)
           /\ files' = Extended(files, e) /\ mirrored' = Append(mirrored, e.n)
           /\ UNCHANGED <<open, failed>>
        \/ /\ open /\ RotateNeeded(h)
           /\ \E failing :
                /\ IF failing = {} THEN UNCHANGED failed ELSE Fails("rename")
                /\ files' = Extended(Shift(files, failing), e)
           /\ mirrored' = Append(mirrored, e.n) /\ UNCHANGED open
        \/ /\ open /\ RotateNeeded(h)
           /\ Fails("reopen") /\ files' = Shift(files, {}) /\ open' = FALSE
           /\ UNCHANGED mirrored
    BY <1>4 DEF WriteMirror
  <1> HIDE DEF e
  <1>6. CASE UNCHANGED <<files, open, mirrored, failed>>
    BY <1>6 DEF MirrorInv
  <1>7. ASSUME NEW state, NEW later, FilesTyped(state), Pieces(state, mirrored, later),
               files' = Extended(state, e), mirrored' = Append(mirrored, e.n),
               "rename" \notin failed' => Gapless(state, later)
        PROVE  MirrorInv'
    BY <1>1, <1>3, <1>7, WritePieces DEF MirrorInv
  <1>8. open /\ RotateNeeded(h) => FileOf(files, 0) # <<>>
    BY DEF MirrorInv, RotateNeeded, FileOf
  <1>9. ASSUME NEW failing, open /\ RotateNeeded(h)
        PROVE  /\ FilesTyped(Shift(files, failing))
               /\ \E later :
                    /\ Pieces(Shift(files, failing), mirrored, later)
                    /\ failing = {} /\ Gapless(files, start) => Gapless(Shift(files, failing), later)
    BY <1>1, <1>2, <1>8, <1>9, ShiftedFiles, ShiftPieces
  <1>10. CASE /\ files' = Extended(files, e) /\ mirrored' = Append(mirrored, e.n)
              /\ UNCHANGED <<open, failed>>
    BY <1>1, <1>2, <1>7, <1>10
  <1>11. CASE /\ open /\ RotateNeeded(h)
              /\ \E failing :
                    /\ IF failing = {} THEN UNCHANGED failed ELSE Fails("rename")
                    /\ files' = Extended(Shift(files, failing), e)
              /\ mirrored' = Append(mirrored, e.n)
    <2>1. PICK failing : /\ IF failing = {} THEN UNCHANGED failed ELSE Fails("rename")
                         /\ files' = Extended(Shift(files, failing), e)
      BY <1>11
    <2>2. PICK later :
            /\ Pieces(Shift(files, failing), mirrored, later)
            /\ failing = {} /\ Gapless(files, start) => Gapless(Shift(files, failing), later)
      BY <1>9, <1>11
    <2>3. "rename" \notin failed' => failing = {} /\ "rename" \notin failed
      BY <2>1 DEF Fails
    <2>4. "rename" \notin failed' => Gapless(Shift(files, failing), later)
      BY <1>2, <2>2, <2>3
    <2>5. FilesTyped(Shift(files, failing))
      BY <1>9, <1>11
    <2> QED BY <1>7, <1>11, <2>1, <2>2, <2>4, <2>5
  <1>12. CASE /\ open /\ RotateNeeded(h)
              /\ Fails("reopen") /\ files' = Shift(files, {}) /\ open' = FALSE
              /\ UNCHANGED mirrored
    <2>1. PICK later :
            /\ Pieces(Shift(files, {}), mirrored, later)
            /\ Gapless(files, start) => Gapless(Shift(files, {}), later)
      BY <1>9, <1>12
    <2>2. "rename" \notin failed' => "rename" \notin failed
      BY <1>12 DEF Fails
    <2>3. FilesTyped(Shift(files, {}))
      BY <1>9, <1>12
    <2> QED BY <1>1, <1>2, <1>12, <2>1, <2>2, <2>3 DEF MirrorInv
  <1> QED BY <1>5, <1>6, <1>10, <1>11, <1>12

LEMMA MirrorStep == TrailInv /\ MirrorInv /\ [Next]_storeVars => MirrorInv'
  <1> SUFFICES ASSUME TrailInv, MirrorInv, [Next]_storeVars PROVE MirrorInv'
    OBVIOUS
  <1>1. ASSUME UNCHANGED <<files, open, mirrored>>, failed \subseteq failed' PROVE MirrorInv'
    BY <1>1 DEF MirrorInv
  <1>2. ASSUME UNCHANGED auditVars PROVE MirrorInv'
    BY <1>1, <1>2 DEF auditVars
  <1>3. ASSUME NEW h \in Handlers, AuditStep(h) PROVE MirrorInv'
    <2>1. h \in Auditors
      BY StoreAssumption
    <2>2. CASE WriteMirror(h)
      BY <2>1, <2>2, WriteKeepsMirror
    <2>3. CASE ~WriteMirror(h)
      <3>1. UNCHANGED <<files, open, mirrored>> /\ failed \subseteq failed'
        BY <1>3, <2>3 DEF AuditStep, Audit, AppendEvent, MeasureRows, DeleteRow, EndTrim, Fails
      <3> QED BY <1>1, <3>1
    <2> QED BY <2>2, <2>3
  <1>4. ASSUME NEW h \in Handlers, HookFails(h) PROVE MirrorInv'
    <2>1. CASE EndAudit(h)
      BY <1>1, <2>1 DEF EndAudit
    <2> QED BY <1>2, <1>4, <2>1 DEF HookFails
  <1>5. CASE UNCHANGED storeVars
    BY <1>2, <1>5 DEF storeVars
  <1> QED BY <1>2, <1>3, <1>4, <1>5 DEF Next, StateStep

-----------------------------------------------------------------------------
(* The files one after the other *)

\* FlattenSeq of the first n parts takes the fixed point of this.
FlattenStep(f, parts, n) == [i \in 1..n |-> IF i = 1 THEN parts[i] ELSE f[i - 1] \o parts[i]]

LEMMA FlattenExists ==
    ASSUME NEW parts, NEW n \in Nat
    PROVE  \E f : f = FlattenStep(f, parts, n)
  <1> DEFINE bad == {m \in Nat : ~ \E f : f = FlattenStep(f, parts, m)}
  <1>1. SUFFICES ASSUME bad # {} PROVE FALSE
    OBVIOUS
  <1>2. PICK m \in bad : \A k \in bad : m <= k
    <2>1. bad \subseteq Nat
      OBVIOUS
    <2> HIDE DEF bad
    <2> QED BY <1>1, <2>1, LeastNumber
  <1>3. m \in Nat /\ ~ \E f : f = FlattenStep(f, parts, m)
    BY <1>2
  <1>4. CASE m = 0
    <2> DEFINE f == [i \in 1..m |-> parts[i]]
    <2>1. f = FlattenStep(f, parts, m)
      BY <1>4 DEF FlattenStep
    <2> QED BY <1>3, <2>1
  <1>5. CASE m # 0
    <2>1. m - 1 \in Nat /\ ~(m <= m - 1)
      BY <1>3, <1>5
    <2>2. PICK f : f = FlattenStep(f, parts, m - 1)
      BY <1>2, <2>1
    <2> DEFINE g == [i \in 1..m |->
                       IF i = m THEN IF m = 1 THEN parts[i] ELSE f[m - 1] \o parts[i] ELSE f[i]]
    <2>3. \A i \in 1..(m - 1) : f[i] = IF i = 1 THEN parts[i] ELSE f[i - 1] \o parts[i]
      BY <2>2 DEF FlattenStep
    <2>4. ASSUME NEW i \in 1..m
          PROVE  g[i] = IF i = 1 THEN parts[i] ELSE g[i - 1] \o parts[i]
      <3>1. \A k \in 1..(m - 1) : g[k] = f[k]
        BY <1>3
      <3>2. CASE i = m
        <4>1. m # 1 => m - 1 \in 1..(m - 1)
          BY <1>3, <1>5
        <4> QED BY <3>1, <3>2, <4>1
      <3>3. CASE i # m
        <4>1. i \in 1..(m - 1) /\ (i # 1 => i - 1 \in 1..(m - 1))
          BY <1>3, <3>3
        <4> QED BY <2>3, <3>1, <4>1
      <3> QED BY <3>2, <3>3
    <2>5. g = [i \in 1..m |-> g[i]]
      OBVIOUS
    <2> HIDE DEF g
    <2>6. g = FlattenStep(g, parts, m)
      BY <2>4, <2>5 DEF FlattenStep
    <2> QED BY <1>3, <2>6
  <1> QED BY <1>4, <1>5

\* FlattenSeq joins the parts one after the other.
LEMMA FlattenJoins ==
    ASSUME NEW n \in Nat \ {0}, NEW parts, Len(parts) = n
    PROVE  \E flat : /\ flat[n] = FlattenSeq(parts)
                     /\ flat[1] = parts[1]
                     /\ \A i \in 2..n : flat[i] = flat[i - 1] \o parts[i]
  <1> DEFINE Step(f) == [i \in 1..n |-> IF i = 1 THEN parts[i] ELSE f[i - 1] \o parts[i]]
             flat == CHOOSE f : f = Step(f)
  <1>1. FlattenSeq(parts) = flat[n]
    BY DEF FlattenSeq
  <1>2. flat = Step(flat)
    <2>1. \E f : f = FlattenStep(f, parts, n)
      BY FlattenExists
    <2>2. \A f : FlattenStep(f, parts, n) = Step(f)
      BY DEF FlattenStep
    <2> HIDE DEF Step
    <2> QED BY <2>1, <2>2
  <1> HIDE DEF flat
  <1>3. \A i \in 1..n : flat[i] = IF i = 1 THEN parts[i] ELSE flat[i - 1] \o parts[i]
    BY <1>2
  <1>4. 1 \in 1..n /\ \A i \in 2..n : i \in 1..n /\ i # 1
    OBVIOUS
  <1> HIDE DEF Step
  <1> QED BY <1>1, <1>3, <1>4

\* Events that were written in this order, none later than the last-th.
Placed(events, written, last, pos) ==
    /\ events \in Seq(Event)
    /\ pos \in [1..Len(events) -> Nat]
    /\ \A k \in 1..Len(events) :
            pos[k] >= 1 /\ pos[k] <= last /\ events[k].n = written[pos[k]]
    /\ \A k, l \in 1..Len(events) : k < l => pos[k] < pos[l]

\* All events that were written after the first-th and up to the last-th.
Spans(events, written, first, last) ==
    /\ events \in Seq(Event)
    /\ first + Len(events) = last
    /\ \A k \in 1..Len(events) : events[k].n = written[first + k]

LEMMA PlacedJoin ==
    ASSUME NEW s, NEW written, NEW last \in Nat, NEW pos, Placed(s, written, last, pos),
           NEW t \in Seq(Event), NEW first \in Nat, last <= first,
           \A k \in 1..Len(t) : t[k].n = written[first + k]
    PROVE  \E wider : Placed(s \o t, written, first + Len(t), wider)
  <1> DEFINE wider == [k \in 1..(Len(s) + Len(t)) |->
                 IF k <= Len(s) THEN pos[k] ELSE first + (k - Len(s))]
  <1>1. s \in Seq(Event) /\ Len(s) \in Nat /\ Len(t) \in Nat
    BY DEF Placed
  <1>2. s \o t \in Seq(Event) /\ Len(s \o t) = Len(s) + Len(t)
        /\ \A k \in 1..(Len(s) + Len(t)) : (s \o t)[k] = IF k <= Len(s) THEN s[k] ELSE t[k - Len(s)]
    BY <1>1
  <1>3. ASSUME NEW k \in 1..(Len(s) + Len(t))
        PROVE  \/ k \in 1..Len(s) /\ k <= Len(s) /\ wider[k] = pos[k]
               \/ k - Len(s) \in 1..Len(t) /\ ~(k <= Len(s)) /\ wider[k] = first + (k - Len(s))
    BY <1>1
  <1> HIDE DEF wider
  <1>4. \A k \in 1..Len(s) : pos[k] \in Nat /\ pos[k] >= 1 /\ pos[k] <= last /\ s[k].n = written[pos[k]]
    BY DEF Placed
  <1>5. ASSUME NEW k \in 1..(Len(s) + Len(t))
        PROVE  /\ wider[k] \in Nat
               /\ wider[k] >= 1 /\ wider[k] <= first + Len(t)
               /\ (s \o t)[k].n = written[wider[k]]
    <2>1. CASE k \in 1..Len(s) /\ k <= Len(s) /\ wider[k] = pos[k]
      <3>1. pos[k] \in Nat /\ pos[k] >= 1 /\ pos[k] <= last /\ s[k].n = written[pos[k]]
        BY <1>4, <2>1
      <3>2. (s \o t)[k] = s[k]
        BY <1>2, <2>1
      <3>3. pos[k] <= first + Len(t)
        BY <1>1, <3>1
      <3> QED BY <2>1, <3>1, <3>2, <3>3
    <2>2. CASE k - Len(s) \in 1..Len(t) /\ ~(k <= Len(s)) /\ wider[k] = first + (k - Len(s))
      <3>1. (s \o t)[k] = t[k - Len(s)] /\ t[k - Len(s)].n = written[first + (k - Len(s))]
        BY <1>2, <2>2
      <3>2. wider[k] \in Nat /\ wider[k] >= 1 /\ wider[k] <= first + Len(t)
        BY <1>1, <2>2
      <3> QED BY <2>2, <3>1, <3>2
    <2> QED BY <1>3, <2>1, <2>2
  <1>6. ASSUME NEW k \in 1..(Len(s) + Len(t)), NEW l \in 1..(Len(s) + Len(t)), k < l
        PROVE  wider[k] < wider[l]
    <2>1. CASE l <= Len(s)
      <3>1. k \in 1..Len(s) /\ l \in 1..Len(s) /\ k <= Len(s)
        BY <1>1, <1>6, <2>1
      <3>2. wider[k] = pos[k] /\ wider[l] = pos[l]
        BY <1>3, <2>1, <3>1
      <3> QED BY <1>6, <3>1, <3>2 DEF Placed
    <2>2. CASE ~(l <= Len(s))
      <3>1. wider[l] = first + (l - Len(s)) /\ l - Len(s) \in 1..Len(t)
        BY <1>3, <2>2
      <3>2. CASE k <= Len(s)
        <4>1. wider[k] = pos[k] /\ k \in 1..Len(s)
          BY <1>3, <3>2
        <4>2. pos[k] \in Nat /\ pos[k] <= last
          BY <1>4, <4>1
        <4> QED BY <3>1, <4>1, <4>2
      <3>3. CASE ~(k <= Len(s))
        <4>1. wider[k] = first + (k - Len(s))
          BY <1>3, <3>3
        <4> QED BY <1>1, <1>6, <3>1, <4>1
      <3> QED BY <3>2, <3>3
    <2> QED BY <2>1, <2>2
  <1>7. wider \in [1..(Len(s) + Len(t)) -> Nat]
    <2>1. wider = [k \in 1..(Len(s) + Len(t)) |-> wider[k]]
      BY DEF wider
    <2> QED BY <1>5, <2>1
  <1> QED BY <1>2, <1>5, <1>6, <1>7 DEF Placed

LEMMA SpansJoin ==
    ASSUME NEW s, NEW written, NEW first \in Nat, NEW last \in Nat, Spans(s, written, first, last),
           NEW t \in Seq(Event), \A k \in 1..Len(t) : t[k].n = written[last + k]
    PROVE  Spans(s \o t, written, first, last + Len(t))
  <1>1. s \in Seq(Event) /\ Len(s) \in Nat /\ Len(t) \in Nat /\ first + Len(s) = last
    BY DEF Spans
  <1>2. s \o t \in Seq(Event) /\ Len(s \o t) = Len(s) + Len(t)
        /\ \A k \in 1..(Len(s) + Len(t)) : (s \o t)[k] = IF k <= Len(s) THEN s[k] ELSE t[k - Len(s)]
    BY <1>1
  <1>3. ASSUME NEW k \in 1..(Len(s) + Len(t))
        PROVE  (s \o t)[k].n = written[first + k]
    <2>1. CASE k <= Len(s)
      <3>1. k \in 1..Len(s)
        BY <1>1, <2>1
      <3>2. s[k].n = written[first + k]
        BY <3>1 DEF Spans
      <3>3. (s \o t)[k] = s[k]
        BY <1>2, <2>1
      <3> QED BY <3>2, <3>3
    <2>2. CASE ~(k <= Len(s))
      <3>1. k - Len(s) \in 1..Len(t) /\ last + (k - Len(s)) = first + k
        <4>1. k - Len(s) \in 1..Len(t)
          BY <1>1, <2>2
        <4>2. \A a, b, c \in Nat : (a + b) + (c - b) = a + c
          OBVIOUS
        <4>3. (first + Len(s)) + (k - Len(s)) = first + k
          BY <1>1, <4>2
        <4> QED BY <1>1, <4>1, <4>3
      <3>2. t[k - Len(s)].n = written[last + (k - Len(s))]
        BY <3>1
      <3>3. (s \o t)[k] = t[k - Len(s)]
        BY <1>2, <2>2
      <3>4. (s \o t)[k].n = written[last + (k - Len(s))]
        BY <3>2, <3>3
      <3> QED BY <3>1, <3>4
    <2> QED BY <2>1, <2>2
  <1>4. first + (Len(s) + Len(t)) = last + Len(t)
    <2>1. \A a, b, c \in Nat : a + (b + c) = (a + b) + c
      OBVIOUS
    <2>2. first + (Len(s) + Len(t)) = (first + Len(s)) + Len(t)
      BY <1>1, <2>1
    <2> QED BY <1>1, <2>2
  <1> DEFINE all == s \o t
  <1>5. all \in Seq(Event) /\ Len(all) = Len(s) + Len(t)
        /\ \A k \in 1..Len(all) : all[k].n = written[first + k]
    BY <1>2, <1>3
  <1> HIDE DEF all
  <1>6. Spans(all, written, first, last + Len(t))
    BY <1>4, <1>5 DEF Spans
  <1> QED BY <1>6 DEF all

Joined(state) == FlattenSeq([i \in 1..(Backups + 1) |-> FileOf(state, Backups + 1 - i)])

LEMMA FilesJoined ==
    ASSUME NEW state, FilesTyped(state), NEW written \in Seq(Nat), NEW start,
           Pieces(state, written, start)
    PROVE  /\ \E pos : Placed(Joined(state), written, Len(written), pos)
           /\ Gapless(state, start) => Spans(Joined(state), written, start[Backups], Len(written))
           /\ written # <<>> => /\ Len(Joined(state)) # 0
                                /\ Joined(state)[Len(Joined(state))].n = written[Len(written)]
  <1> DEFINE file(i) == FileOf(state, i)
             parts == [i \in 1..(Backups + 1) |-> file(Backups + 1 - i)]
             at(i) == Backups + 1 - i
             past(i) == start[at(i)] + Len(file(at(i)))
  <1>1. Backups \in Nat \ {0} /\ Backups + 1 \in Nat \ {0} /\ Len(parts) = Backups + 1
        /\ 0 \in 0..Backups /\ 1 \in 0..Backups /\ Backups \in 0..Backups
    BY AuditAssumption
  <1>2. \A i : file(i) \in Seq(Event) /\ Len(file(i)) \in Nat
    BY FileIsSeq
  <1>3. /\ start \in [0..Backups -> Nat]
        /\ \A i \in 0..Backups : \A k \in 1..Len(file(i)) : file(i)[k].n = written[start[i] + k]
        /\ \A i \in 1..Backups : start[i] + Len(file(i)) <= start[i - 1]
        /\ start[0] + Len(file(0)) = Len(written)
        /\ file(0) = <<>> => /\ start[1] + Len(file(1)) = Len(written)
                             /\ written = <<>> \/ file(1) # <<>>
    BY DEF Pieces
  <1>4. PICK flat : /\ flat[Backups + 1] = FlattenSeq(parts)
                    /\ flat[1] = parts[1]
                    /\ \A i \in 2..(Backups + 1) : flat[i] = flat[i - 1] \o parts[i]
    <2> HIDE DEF parts
    <2> QED BY <1>1, FlattenJoins
  <1>5. Joined(state) = flat[Backups + 1]
    BY <1>4 DEF Joined
  <1>6. /\ flat[1] = file(Backups)
        /\ \A i \in 2..(Backups + 1) : flat[i] = flat[i - 1] \o file(at(i))
    <2>1. 1 \in 1..(Backups + 1) /\ Backups + 1 - 1 = Backups
          /\ \A i \in 2..(Backups + 1) : i \in 1..(Backups + 1)
      BY <1>1
    <2>2. parts[1] = file(Backups) /\ \A i \in 2..(Backups + 1) : parts[i] = file(at(i))
      BY <2>1
    <2> QED BY <1>4, <2>2
  <1>7. Gapless(state, start) => \A i \in 1..Backups : start[i] + Len(file(i)) = start[i - 1]
    BY DEF Gapless
  <1> HIDE DEF file, parts
  <1> DEFINE Good(i) == /\ \E pos : Placed(flat[i], written, past(i), pos)
                        /\ Gapless(state, start) => Spans(flat[i], written, start[Backups], past(i))
             wrong == {i \in 1..(Backups + 1) : ~Good(i)}
  <1>8. Good(1)
    <2>1. at(1) = Backups /\ start[Backups] \in Nat
      BY <1>1, <1>3
    <2>2. \A k \in 1..Len(file(Backups)) : file(Backups)[k].n = written[start[Backups] + k]
      BY <1>1, <1>3
    <2> DEFINE none == [k \in 1..0 |-> 0]
    <2>3. <<>> \in Seq(Event) /\ Len(<<>>) = 0 /\ none \in [1..0 -> Nat]
          /\ \A k \in 1..0 : FALSE
      OBVIOUS
    <2> HIDE DEF none
    <2>4. Placed(<<>>, written, start[Backups], none)
      BY <2>3 DEF Placed
    <2>5. Spans(<<>>, written, start[Backups], start[Backups])
      BY <2>1, <2>3 DEF Spans
    <2>6. <<>> \o file(Backups) = file(Backups)
      BY <1>2
    <2>7. start[Backups] <= start[Backups]
      BY <2>1
    <2>8. \E pos : Placed(<<>> \o file(Backups), written, start[Backups] + Len(file(Backups)), pos)
      BY <1>2, <2>1, <2>2, <2>4, <2>7, PlacedJoin
    <2>9. Spans(<<>> \o file(Backups), written, start[Backups], start[Backups] + Len(file(Backups)))
      BY <1>2, <2>1, <2>2, <2>5, SpansJoin
    <2> QED BY <1>6, <2>1, <2>6, <2>8, <2>9
  <1>9. ASSUME NEW i \in 2..(Backups + 1), Good(i - 1) PROVE Good(i)
    <2>1. at(i) \in 0..Backups /\ at(i - 1) \in 1..Backups /\ at(i - 1) \in 0..Backups
          /\ at(i - 1) - 1 = at(i)
      BY <1>1
    <2>2. /\ start[at(i)] \in Nat /\ start[Backups] \in Nat /\ past(i - 1) \in Nat
          /\ past(i - 1) <= start[at(i)]
          /\ Gapless(state, start) => past(i - 1) = start[at(i)]
      <3>1. start[at(i)] \in Nat /\ start[at(i - 1)] \in Nat /\ start[Backups] \in Nat
            /\ Len(file(at(i - 1))) \in Nat
        BY <1>1, <1>2, <1>3, <2>1
      <3>2. past(i - 1) <= start[at(i - 1) - 1]
            /\ (Gapless(state, start) => past(i - 1) = start[at(i - 1) - 1])
        BY <1>3, <1>7, <2>1
      <3> QED BY <2>1, <3>1, <3>2
    <2>3. \A k \in 1..Len(file(at(i))) : file(at(i))[k].n = written[start[at(i)] + k]
      BY <1>3, <2>1
    <2>4. flat[i] = flat[i - 1] \o file(at(i)) /\ file(at(i)) \in Seq(Event)
      BY <1>2, <1>6
    <2> HIDE DEF at
    <2>5. \E pos : Placed(flat[i - 1] \o file(at(i)), written, start[at(i)] + Len(file(at(i))), pos)
      BY <1>9, <2>2, <2>3, <2>4, PlacedJoin
    <2>6. ASSUME Gapless(state, start)
          PROVE  Spans(flat[i - 1] \o file(at(i)), written, start[Backups], past(i))
      <3>1. past(i - 1) = start[at(i)] /\ Spans(flat[i - 1], written, start[Backups], start[at(i)])
        BY <1>9, <2>2, <2>6
      <3> QED BY <2>2, <2>3, <2>4, <3>1, SpansJoin
    <2> QED BY <2>4, <2>5, <2>6
  <1> HIDE DEF Good
  <1>10. \A i \in 1..(Backups + 1) : Good(i)
    <2> SUFFICES ASSUME wrong # {} PROVE FALSE
      OBVIOUS
    <2>1. PICK m \in wrong : \A k \in wrong : m <= k
      <3>1. wrong \subseteq Nat
        OBVIOUS
      <3> HIDE DEF wrong
      <3> QED BY <3>1, LeastNumber
    <2>2. m \in 1..(Backups + 1) /\ ~Good(m)
      BY <2>1
    <2>3. m # 1
      BY <1>8, <2>2
    <2>4. m \in 2..(Backups + 1) /\ m - 1 \in 1..(Backups + 1) /\ ~(m <= m - 1)
      <3>1. m \in 1..(Backups + 1) /\ Backups \in Nat
        BY <1>1, <2>2
      <3> HIDE DEF wrong
      <3> QED BY <2>3, <3>1
    <2>5. m - 1 \notin wrong
      <3> HIDE DEF wrong
      <3> QED BY <2>1, <2>4
    <2>6. Good(m - 1)
      BY <2>4, <2>5
    <2> QED BY <1>9, <2>2, <2>4, <2>6
  <1>11. Good(Backups + 1) /\ past(Backups + 1) = Len(written)
    <2>1. at(Backups + 1) = 0 /\ Backups + 1 \in 1..(Backups + 1)
      BY <1>1
    <2> QED BY <1>3, <1>10, <2>1
  <1>12. \A i \in 1..(Backups + 1) : flat[i] \in Seq(Event)
    BY <1>10 DEF Good, Placed
  <1>13. ASSUME NEW i \in 1..(Backups + 1), file(at(i)) # <<>>
         PROVE  /\ Len(flat[i]) # 0
                /\ flat[i][Len(flat[i])].n = written[past(i)]
    <2> DEFINE t == file(at(i))
    <2>1. t \in Seq(Event) /\ Len(t) \in Nat /\ t # <<>>
      BY <1>2, <1>13
    <2>2. Len(t) \in 1..Len(t) /\ Len(t) # 0
      BY <2>1
    <2>3. at(i) \in 0..Backups
      BY <1>1
    <2>4. t[Len(t)].n = written[past(i)]
      <3> HIDE DEF t, at
      <3>1. \A k \in 1..Len(t) : t[k].n = written[start[at(i)] + k]
        BY <1>3, <2>3 DEF t
      <3>2. t[Len(t)].n = written[start[at(i)] + Len(t)]
        BY <2>2, <3>1
      <3> QED BY <3>2 DEF t
    <2>5. CASE i = 1
      <3>1. flat[i] = t
        BY <1>1, <1>6, <2>5
      <3> HIDE DEF t
      <3> QED BY <2>2, <2>4, <3>1
    <2>6. CASE i # 1
      <3>1. i \in 2..(Backups + 1) /\ i - 1 \in 1..(Backups + 1)
        BY <1>1, <2>6
      <3>2. flat[i] = flat[i - 1] \o t /\ flat[i - 1] \in Seq(Event)
        BY <1>6, <1>12, <3>1
      <3> DEFINE s == flat[i - 1]
      <3> HIDE DEF t, s
      <3>3. s \in Seq(Event) /\ Len(s) \in Nat /\ flat[i] = s \o t
        BY <3>2 DEF s
      <3>4. Len(s \o t) = Len(s) + Len(t) /\ (s \o t)[Len(s) + Len(t)] = t[Len(t)]
        BY <2>1, <2>2, <3>3
      <3>5. Len(s) + Len(t) # 0
        BY <2>1, <2>2, <3>3
      <3> QED BY <2>4, <3>3, <3>4, <3>5
    <2> QED BY <2>5, <2>6
  <1>14. ASSUME written # <<>>
         PROVE  /\ Len(flat[Backups + 1]) # 0
                /\ flat[Backups + 1][Len(flat[Backups + 1])].n = written[Len(written)]
    <2>1. at(Backups + 1) = 0 /\ at(Backups) = 1 /\ Backups + 1 \in 1..(Backups + 1)
          /\ Backups \in 1..(Backups + 1) /\ Backups + 1 \in 2..(Backups + 1) /\ (Backups + 1) - 1 = Backups
      BY <1>1
    <2>2. CASE file(0) # <<>>
      <3> HIDE DEF at
      <3> QED BY <1>3, <1>13, <2>1, <2>2
    <2>3. CASE file(0) = <<>>
      <3>1. flat[Backups + 1] = flat[Backups] \o <<>> /\ flat[Backups] \in Seq(Event)
        <4> HIDE DEF at
        <4> QED BY <1>6, <1>12, <2>1, <2>3
      <3>2. flat[Backups + 1] = flat[Backups]
        <4> DEFINE s == flat[Backups]
        <4> HIDE DEF s
        <4>1. s \in Seq(Event)
          BY <3>1 DEF s
        <4>2. s \o <<>> = s
          BY <4>1
        <4> QED BY <3>1, <4>2 DEF s
      <3>3. file(1) # <<>> /\ start[1] + Len(file(1)) = Len(written)
        BY <1>3, <1>14, <2>3
      <3> HIDE DEF at
      <3> QED BY <1>13, <2>1, <3>2, <3>3
    <2> QED BY <2>2, <2>3
  <1> QED BY <1>5, <1>11, <1>14 DEF Good

LEMMA SuffixIs ==
    ASSUME NEW s \in Seq(Nat), NEW t \in Seq(Nat), NEW first \in Nat,
           first + Len(s) = Len(t), \A k \in 1..Len(s) : s[k] = t[first + k]
    PROVE  IsSuffix(s, t) /\ (first = 0 => s = t)
  <1> DEFINE rs == Reverse(s)
             rt == Reverse(t)
  <1>1. Len(s) \in Nat /\ Len(t) \in Nat /\ Len(s) <= Len(t)
    OBVIOUS
  <1>2. rs = [i \in 1..Len(s) |-> s[(Len(s) - i) + 1]] /\ rt = [i \in 1..Len(t) |-> t[(Len(t) - i) + 1]]
    BY DEF Reverse
  <1>3. Len(rs) = Len(s) /\ Len(rt) = Len(t)
    BY <1>1, <1>2
  <1>4. ASSUME NEW i \in 1..Len(s) PROVE rs[i] = rt[i]
    <2>1. (Len(s) - i) + 1 \in 1..Len(s) /\ i \in 1..Len(t)
      BY <1>1
    <2>2. (Len(t) - i) + 1 = first + ((Len(s) - i) + 1)
      <3>1. \A a, b, c \in Nat : ((a + b) - c) + 1 = a + ((b - c) + 1)
        OBVIOUS
      <3>2. ((first + Len(s)) - i) + 1 = first + ((Len(s) - i) + 1)
        BY <1>1, <3>1
      <3> QED BY <3>2
    <2>3. s[(Len(s) - i) + 1] = t[first + ((Len(s) - i) + 1)]
      BY <2>1
    <2> QED BY <1>2, <2>1, <2>2, <2>3
  <1>5. rs \in Seq(Nat) /\ rt \in Seq(Nat)
    <2>1. \A u \in Seq(Nat) : \A i \in 1..Len(u) : (Len(u) - i) + 1 \in 1..Len(u)
      OBVIOUS
    <2>2. \A i \in 1..Len(s) : s[(Len(s) - i) + 1] \in Nat
      BY <2>1
    <2>3. \A i \in 1..Len(t) : t[(Len(t) - i) + 1] \in Nat
      BY <2>1
    <2> QED BY <1>1, <1>2, <2>2, <2>3
  <1> HIDE DEF rs, rt
  <1>6. ASSUME NEW u \in Seq(Nat), NEW n \in 0..Len(u)
        PROVE  /\ SubSeq(u, 1, n) \in Seq(Nat) /\ Len(SubSeq(u, 1, n)) = n
               /\ \A i \in 1..n : SubSeq(u, 1, n)[i] = u[i]
    <2>1. 1 \in Int /\ n \in Int /\ n - 1 + 1 = n /\ n \in Nat /\ \A i \in 1..n : u[i] \in Nat
      OBVIOUS
    <2>2. /\ SubSeq(u, 1, n) \in Seq(Nat)
          /\ Len(SubSeq(u, 1, n)) = IF 1 <= n THEN n - 1 + 1 ELSE 0
          /\ \A i \in 1..(n - 1 + 1) : SubSeq(u, 1, n)[i] = u[1 + i - 1]
      BY <2>1, SubSeqProperties
    <2>3. \A i \in 1..n : 1 + i - 1 = i
      BY <2>1
    <2>4. (IF 1 <= n THEN n ELSE 0) = n
      BY <2>1
    <2> QED BY <2>1, <2>2, <2>3, <2>4
  <1>7. SubSeq(rs, 1, Len(s)) = SubSeq(rt, 1, Len(s))
    <2> DEFINE a == SubSeq(rs, 1, Len(s))
               b == SubSeq(rt, 1, Len(s))
    <2>1. Len(s) \in 0..Len(rs) /\ Len(s) \in 0..Len(rt)
      BY <1>1, <1>3
    <2>2. a \in Seq(Nat) /\ b \in Seq(Nat) /\ Len(a) = Len(s) /\ Len(b) = Len(s)
          /\ \A i \in 1..Len(s) : a[i] = rs[i] /\ b[i] = rt[i]
      BY <1>5, <1>6, <2>1
    <2> HIDE DEF a, b
    <2>3. \A i \in 1..Len(s) : a[i] = b[i]
      BY <1>4, <2>2
    <2>4. a = b
      <3>1. Len(a) = Len(b) /\ \A i \in 1..Len(a) : a[i] = b[i]
        BY <2>2, <2>3
      <3> QED BY <2>2, <3>1, SeqEqual
    <2> QED BY <2>4 DEF a, b
  <1>8. IsSuffix(s, t)
    BY <1>1, <1>3, <1>7 DEF IsSuffix, IsPrefix, rs, rt
  <1>9. ASSUME first = 0 PROVE s = t
    <2>1. Len(s) = Len(t)
      BY <1>1, <1>9
    <2>2. \A k \in 1..Len(s) : s[k] = t[k]
      BY <1>9
    <2> QED BY <2>1, <2>2
  <1> QED BY <1>8, <1>9

\* An auditor who reads the mirror and its backups, oldest first, finds the last
\* event, and the others in the order they were written, whatever failed; as
\* long as every rename worked, without a gap between them, and without the
\* first only if all backups are in use (rotateIfNeeded). The files hold pieces
\* of what was written that follow each other (MirrorInv), and a rotation moves
\* pieces from the newest to an older place without exchanging two of them.
THEOREM MirrorKeepsOrder == Spec => []MirrorHasNoGap
  <1>1. MirrorInv => MirrorHasNoGap
    <2> SUFFICES ASSUME MirrorInv PROVE MirrorHasNoGap
      OBVIOUS
    <2> DEFINE all == KeptFiles
               kept == [i \in DOMAIN all |-> all[i].n]
    <2>1. FilesTyped(files) /\ mirrored \in Seq(Nat) /\ Len(mirrored) \in Nat
      BY DEF MirrorInv
    <2>2. PICK start : Pieces(files, mirrored, start) /\ ("rename" \notin failed => Gapless(files, start))
      BY DEF MirrorInv
    <2>3. all = Joined(files)
      BY DEF KeptFiles, Joined, FileOf
    <2> HIDE DEF all
    <2>4. /\ \E pos : Placed(all, mirrored, Len(mirrored), pos)
          /\ Gapless(files, start) => Spans(all, mirrored, start[Backups], Len(mirrored))
          /\ mirrored # <<>> => Len(all) # 0 /\ all[Len(all)].n = mirrored[Len(mirrored)]
      BY <2>1, <2>2, <2>3, FilesJoined
    <2>5. PICK pos : Placed(all, mirrored, Len(mirrored), pos)
      BY <2>4
    <2>6. all \in Seq(Event) /\ Len(all) \in Nat /\ DOMAIN all = 1..Len(all)
      BY <2>5 DEF Placed
    <2>7. /\ DOMAIN kept = 1..Len(all) /\ \A i \in 1..Len(all) : kept[i] = all[i].n
          /\ kept \in Seq(Nat) /\ Len(kept) = Len(all)
      <3>1. kept = [i \in 1..Len(all) |-> all[i].n]
        BY <2>6
      <3>2. \A i \in 1..Len(all) : all[i].n \in Nat
        <4>1. \A i \in 1..Len(all) : all[i] \in Event
          BY <2>6
        <4> QED BY <4>1 DEF Event
      <3> HIDE DEF kept
      <3> QED BY <2>6, <3>1, <3>2
    <2> HIDE DEF kept
    <2>8. mirrored # <<>> => kept # <<>> /\ Last(kept) = Last(mirrored)
      <3> SUFFICES ASSUME mirrored # <<>> PROVE kept # <<>> /\ Last(kept) = Last(mirrored)
        OBVIOUS
      <3>1. Len(all) # 0 /\ all[Len(all)].n = mirrored[Len(mirrored)]
        BY <2>4
      <3>2. Len(all) \in 1..Len(all) /\ Len(<<>>) = 0
        BY <2>6, <3>1
      <3>3. kept # <<>> /\ kept[Len(kept)] = mirrored[Len(mirrored)]
        BY <2>7, <3>1, <3>2
      <3> QED BY <3>3 DEF Last
    <2>9. ASSUME NEW i \in DOMAIN kept, NEW j \in DOMAIN kept, i < j
          PROVE  \E k, l \in DOMAIN mirrored : k < l /\ mirrored[k] = kept[i] /\ mirrored[l] = kept[j]
      <3>1. i \in 1..Len(all) /\ j \in 1..Len(all)
        BY <2>7
      <3>2. /\ pos[i] \in Nat /\ pos[j] \in Nat /\ pos[i] < pos[j]
            /\ pos[i] >= 1 /\ pos[j] >= 1 /\ pos[i] <= Len(mirrored) /\ pos[j] <= Len(mirrored)
            /\ all[i].n = mirrored[pos[i]] /\ all[j].n = mirrored[pos[j]]
        BY <2>5, <2>9, <3>1 DEF Placed
      <3>3. pos[i] \in DOMAIN mirrored /\ pos[j] \in DOMAIN mirrored
        BY <2>1, <3>2
      <3>4. kept[i] = mirrored[pos[i]] /\ kept[j] = mirrored[pos[j]]
        BY <2>7, <3>1, <3>2
      <3> QED BY <3>2, <3>3, <3>4
    <2>10. ASSUME "rename" \notin failed
           PROVE  /\ IsSuffix(kept, mirrored)
                  /\ kept = mirrored \/ 1..Backups \subseteq DOMAIN files
      <3>1. Gapless(files, start)
        BY <2>2, <2>10
      <3>2. Spans(all, mirrored, start[Backups], Len(mirrored))
        BY <2>4, <3>1
      <3>3. start[Backups] \in Nat
        BY <2>2, AuditAssumption DEF Pieces
      <3>4. start[Backups] + Len(kept) = Len(mirrored)
            /\ \A k \in 1..Len(kept) : kept[k] = mirrored[start[Backups] + k]
        BY <2>7, <3>2 DEF Spans
      <3>5. IsSuffix(kept, mirrored) /\ (start[Backups] = 0 => kept = mirrored)
        BY <2>1, <2>7, <3>3, <3>4, SuffixIs
      <3> QED BY <3>1, <3>5 DEF Gapless
    <2> QED BY <2>8, <2>9, <2>10 DEF MirrorHasNoGap, kept, all
  <1>2. TrailInv /\ MirrorInv /\ [Next]_storeVars => (TrailInv /\ MirrorInv)'
    BY NextKeepsTrail, MirrorStep
  <1> QED BY <1>1, <1>2, InitTrail, InitMirror, PTL DEF Spec
=============================================================================
