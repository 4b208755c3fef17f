---------------------------- MODULE ScopedState ----------------------------
(***************************************************************************)
(* The scoped state of a door.  A handler reads the rows of its user, room *)
(* and node, gives them to the hook as a snapshot, and applies the         *)
(* operations the hook answers in one SQLite transaction.  Hooks of other  *)
(* sessions run at the same time.  The Lua runtime keeps a table per scope *)
(* that follows the operations, so that a script reads what it wrote, and  *)
(* turns a script's own changes of its user table into a replacement of    *)
(* the whole row.                                                          *)
(*                                                                         *)
(* SQLite is modelled by its locks, in the rollback-journal mode the node  *)
(* leaves it in: readers share, the first write of a transaction reserves, *)
(* and the commit waits until the other readers are done.  A transaction   *)
(* that has read and finds the write lock reserved fails at once; only a   *)
(* statement that holds no lock waits, up to the busy timeout.             *)
(***************************************************************************)
EXTENDS StateOps, FiniteSets

CONSTANTS
    Handlers,   \* handlers of the node
    Users,      \* passports
    UserOf,     \* the passport of the session a handler works for
    Staff,      \* passports with the admin or sysop role
    Rogue,      \* handlers whose hooks may answer effects their door may not have
    Items,      \* what scripts write
    Changes,    \* what scripts change a key of their table to
    Limit,      \* the length to which scripts append
    Scripts,    \* what the hooks a handler runs may do
    Legacy,     \* rows of the door_state table of earlier versions
    MaxCalls,   \* calls the scripts of a handler make at most
    OpsFail,    \* whether scripts answer operations that cannot be applied
    MaxHooks,   \* hooks run in a behaviour
    None

Scopes == {"user", "room", "global"}

\* An array with one more item, the oldest shifted out beyond the limit.
Appended(items, item) ==
    LET all == Append(items, item)
    IN IF Len(all) > Limit THEN Tail(all) ELSE all

ASSUME StateAssumption ==
    /\ Users \cap {"room", "global"} = {}
    /\ Cells = Users \cup {"room", "global"}
    /\ UserOf \in [Handlers -> Users]
    /\ Staff \subseteq Users /\ Rogue \subseteq Handlers
    /\ Limit \in Nat \ {0}
    /\ <<>> \in Values /\ \A item \in Items : <<item>> \in Values
    /\ \A value \in Values, item \in Items : Appended(value, item) \in Values
    /\ Changes \subseteq Values
    /\ Legacy \in [Users -> Rows]
    /\ None \notin Handlers \cup Users
    /\ MaxCalls \in [Handlers -> Nat] /\ MaxHooks \in Nat /\ OpsFail \in BOOLEAN

VARIABLES
    db,         \* the tables: a row for every cell
    hooks,      \* hooks started so far
    pc,         \* where a handler is
    snap,       \* the snapshot of each scope the hook was given
    local,      \* the runtime's table of each scope
    ops,        \* the operations the hook answers
    done,       \* operations of the transaction already executed
    work,       \* the tables as the transaction sees them
    readers,    \* handlers whose transaction holds a shared lock
    writer,     \* the handler whose transaction has reserved the write lock
    waiting,    \* the writer waits for the readers to finish
    left        \* what a user's last hook left its table at, None before the first

stateVars == <<db, hooks, pc, snap, local, ops, done, work, readers, writer, waiting, left>>

CellOf(h, scope) == IF scope = "user" THEN UserOf[h] ELSE scope

-----------------------------------------------------------------------------
(* The snapshot *)

Blank == [s \in Scopes |-> Empty]

\* A row of the user that is missing or empty is looked up in the old table.
UserRow(u) == IF db[u] = Empty THEN Legacy[u] ELSE db[u]

\* The rows are read by separate statements, the user's first.
ReadUser(h) ==
    /\ pc[h] = "idle" /\ hooks < MaxHooks
    /\ ~waiting
    /\ hooks' = hooks + 1
    /\ snap' = [snap EXCEPT ![h] = [Blank EXCEPT !["user"] = UserRow(UserOf[h])]]
    /\ pc' = [pc EXCEPT ![h] = "reading"]
    /\ UNCHANGED <<db, local, ops, done, work, readers, writer, waiting, left>>

ReadShared(h) ==
    /\ pc[h] = "reading"
    /\ ~waiting
    /\ snap' = [snap EXCEPT ![h] = [@ EXCEPT !["room"] = db["room"],
                                             !["global"] = db["global"]]]
    /\ local' = [local EXCEPT ![h] = snap'[h]]
    /\ pc' = [pc EXCEPT ![h] = "script"]
    /\ UNCHANGED <<hooks, db, ops, done, work, readers, writer, waiting, left>>

-----------------------------------------------------------------------------
(* The script *)

Op(h, op, scope, key, value, row) ==
    [op |-> op, cell |-> CellOf(h, scope), key |-> key, value |-> value, row |-> row]

\* The script calls a helper: the table of the scope changes, and an operation
\* is recorded that changes the row in the same way.
Record(h, scope, row, op) ==
    /\ local' = [local EXCEPT ![h] = [@ EXCEPT ![scope] = row]]
    /\ ops' = [ops EXCEPT ![h] = Append(@, op)]

\* ctx.store.set and the navigation helpers, which set the view stack.
SetKey(h, scope, key, value) ==
    Record(h, scope, [local[h][scope] EXCEPT ![key] = value],
           Op(h, "set", scope, key, value, Empty))

\* ctx.store.append: the array of the script's table is set as a whole.
AppendItem(h, scope, key, item) ==
    SetKey(h, scope, key, Appended(local[h][scope][key], item))

DeleteKey(h, scope, key) ==
    Record(h, scope, [local[h][scope] EXCEPT ![key] = <<>>],
           Op(h, "delete", scope, key, <<>>, Empty))

ClearScope(h, scope) ==
    Record(h, scope, Empty, Op(h, "clear", scope, None, <<>>, Empty))

\* The script changes ctx.state itself; nothing is recorded.
Mutate(h, key, value) ==
    /\ LET row == [local[h]["user"] EXCEPT ![key] = value]
       IN local' = [local EXCEPT ![h] = [@ EXCEPT !["user"] = row]]
    /\ UNCHANGED ops

ScriptCall(h) ==
    /\ pc[h] = "script"
    /\ Len(ops[h]) < MaxCalls[h]
    /\ \E scope \in Scopes, key \in Keys :
        \/ <<"append", scope>> \in Scripts[h]
           /\ \E item \in Items : AppendItem(h, scope, key, item)
        \/ <<"set", scope>> \in Scripts[h]
           /\ \E item \in Items : SetKey(h, scope, key, <<item>>)
        \/ <<"delete", scope>> \in Scripts[h] /\ DeleteKey(h, scope, key)
        \/ <<"clear", scope>> \in Scripts[h] /\ ClearScope(h, scope)
        \/ <<"mutate", scope>> \in Scripts[h] /\ ops[h] = <<>>
           /\ \E value \in Changes : Mutate(h, key, value)
    /\ UNCHANGED <<hooks, db, pc, snap, done, work, readers, writer, waiting, left>>

AnswerUnlessOps(h) ==
    IF local[h]["user"] # snap[h]["user"] /\ ops[h] = <<>>
    THEN <<Op(h, "replace", "user", None, <<>>, local[h]["user"])>>
    ELSE ops[h]

\* A changed user table without an operation on the user's row replaces it.
Answer(h) ==
    IF /\ local[h]["user"] # snap[h]["user"]
       /\ \A i \in DOMAIN ops[h] : ops[h][i].cell # UserOf[h]
    THEN Append(ops[h], Op(h, "replace", "user", None, <<>>, local[h]["user"]))
    ELSE ops[h]

Finish(h) ==
    /\ pc' = [pc EXCEPT ![h] = "idle"]
    /\ snap' = [snap EXCEPT ![h] = Blank]
    /\ local' = [local EXCEPT ![h] = Blank]
    /\ ops' = [ops EXCEPT ![h] = <<>>]
    /\ done' = [done EXCEPT ![h] = 0]
    /\ work' = [work EXCEPT ![h] = None]

Unlock(h) ==
    /\ readers' = readers \ {h}
    /\ writer' = IF writer = h THEN None ELSE writer
    /\ waiting' = (waiting /\ writer # h)

\* The role that the write of a global row takes.
Unauthorized(h, answer) ==
    UserOf[h] \notin Staff /\ \E i \in DOMAIN answer : answer[i].cell = "global"

\* The hook ends. What its door or its user may not do is denied before
\* anything is applied; nothing to write is the end of it.
ScriptEnds(h) ==
    /\ pc[h] = "script"
    /\ \E denied \in (IF Unauthorized(h, Answer(h)) THEN {TRUE}
                      ELSE IF h \in Rogue THEN BOOLEAN ELSE {FALSE}) :
        IF Answer(h) = <<>> /\ ~denied
        THEN /\ Finish(h)
             /\ left' = [left EXCEPT ![UserOf[h]] = local[h]["user"]]
        ELSE /\ ops' = [ops EXCEPT ![h] = Answer(h)]
             /\ pc' = [pc EXCEPT ![h] = IF denied THEN "denied" ELSE "apply"]
             /\ UNCHANGED <<snap, local, done, work, left>>
    /\ UNCHANGED <<hooks, db, readers, writer, waiting>>

\* The hook fails, is stopped at its time limit, or answers what its door may
\* not: nothing of it is applied.
ScriptFails(h) ==
    /\ pc[h] \in {"script", "denied"}
    /\ Finish(h)
    /\ UNCHANGED <<hooks, db, readers, writer, waiting, left>>

-----------------------------------------------------------------------------
(* The transaction *)

\* BEGIN takes no lock: the first read does, and waits while a writer is about
\* to commit.
Begin(h) ==
    /\ pc[h] = "apply"
    /\ ~waiting
    /\ readers' = readers \cup {h}
    /\ work' = [work EXCEPT ![h] = db]
    /\ pc' = [pc EXCEPT ![h] = "write"]
    /\ UNCHANGED <<hooks, db, snap, local, ops, done, writer, waiting, left>>

FailLocked(h) ==
    /\ Finish(h)
    /\ UNCHANGED <<hooks, db, readers, writer, waiting, left>>

Fail(h) ==
    /\ Finish(h)
    /\ Unlock(h)
    /\ UNCHANGED <<hooks, db, left>>

\* The next operation reads its row and writes it back; the first write
\* reserves the lock or, when another transaction has it, fails at once.
Write(h) ==
    /\ pc[h] = "write"
    /\ done[h] < Len(ops[h])
    /\ IF writer \in {None, h}
       THEN /\ writer' = h
            /\ work' = [work EXCEPT ![h] = Apply(@, ops[h][done[h] + 1])]
            /\ done' = [done EXCEPT ![h] = @ + 1]
            /\ UNCHANGED <<hooks, db, pc, snap, local, ops, readers, waiting, left>>
       ELSE Fail(h)

KeepHalf(h) ==
    /\ pc[h] = "write"
    /\ OpsFail
    /\ db' = work[h]
    /\ Finish(h)
    /\ Unlock(h)
    /\ UNCHANGED <<hooks, left>>

\* An operation that cannot be applied (a value that is not an object, a row
\* that grows too large) rolls the transaction back.
WriteFails(h) ==
    /\ pc[h] = "write"
    /\ OpsFail
    /\ Fail(h)

\* COMMIT: no new reader gets in, and the ones there are finish first.
Drain(h) ==
    /\ pc[h] = "write" /\ done[h] = Len(ops[h])
    /\ readers # {h} /\ ~waiting
    /\ waiting' = TRUE
    /\ UNCHANGED <<hooks, db, pc, snap, local, ops, done, work, readers, writer, left>>

CommitTx(h) ==
    /\ pc[h] = "write" /\ done[h] = Len(ops[h])
    /\ readers = {h}
    /\ db' = work[h]
    /\ UNCHANGED hooks
    /\ left' = [left EXCEPT ![UserOf[h]] = local[h]["user"]]
    /\ Finish(h)
    /\ Unlock(h)

\* The statement has waited for the busy timeout.
TimesOut(h) ==
    /\ waiting
    /\ pc[h] \in {"reading", "apply"} \/ writer = h
    /\ Fail(h)

-----------------------------------------------------------------------------
StateInit ==
    /\ db = [c \in Cells |-> Empty]
    /\ hooks = 0
    /\ pc = [h \in Handlers |-> "idle"]
    /\ snap = [h \in Handlers |-> Blank]
    /\ local = [h \in Handlers |-> Blank]
    /\ ops = [h \in Handlers |-> <<>>]
    /\ done = [h \in Handlers |-> 0]
    /\ work = [h \in Handlers |-> None]
    /\ readers = {}
    /\ writer = None
    /\ waiting = FALSE
    /\ left = [u \in Users |-> None]

HookStep(h) ==
    \/ ReadUser(h) \/ ReadShared(h) \/ ScriptCall(h) \/ ScriptEnds(h)
    \/ Begin(h) \/ Write(h) \/ WriteFails(h) \/ Drain(h) \/ CommitTx(h) \/ TimesOut(h)

\* What a handler does of itself, without a limit that runs out.
Proceed(h) ==
    ReadShared(h) \/ ScriptEnds(h) \/ Begin(h) \/ Write(h) \/ Drain(h) \/ CommitTx(h)
=============================================================================
