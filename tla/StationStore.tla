--------------------------- MODULE StationStore ----------------------------
(***************************************************************************)
(* The store of a node: the scoped state that hooks read and write, and    *)
(* the audit trail a handler writes when the answer of a hook is denied.   *)
(* Both are tables of one SQLite file, so the statements of an audit wait  *)
(* for the locks of the transactions.                                      *)
(***************************************************************************)
EXTENDS ScopedState, AuditTrail

ASSUME StoreAssumption == Auditors = Handlers

storeVars == <<stateVars, auditVars>>

\* A single statement that writes needs the file for itself; one that reads
\* gets in unless a writer waits.
Free == readers = {} /\ writer = None

StateStep(h) == HookStep(h) /\ UNCHANGED auditVars

\* invokeDoorLifecycle audits the denied answer and returns.
AuditStep(h) ==
    /\ pc[h] = "denied"
    /\ \/ Audit(h)
       \/ Free /\ AppendEvent(h, TRUE)
       \/ AppendEvent(h, FALSE)
       \/ ~waiting /\ MeasureRows(h)
       \/ Free /\ DeleteRow(h)
       \/ EndTrim(h, TRUE)
       \/ EndTrim(h, FALSE)
       \/ WriteMirror(h)
    /\ UNCHANGED stateVars

HookFails(h) ==
    \/ pc[h] = "script" /\ ScriptFails(h) /\ UNCHANGED auditVars
    \/ pc[h] = "denied" /\ EndAudit(h) /\ ScriptFails(h)

Init ==
    /\ StateInit
    /\ AuditInit

Next == \E h \in Handlers : StateStep(h) \/ AuditStep(h) \/ HookFails(h)

Spec == Init /\ [][Next]_storeVars

\* A handler's goroutine runs on, and the audit of a denial with it.
FairSpec ==
    /\ Spec
    /\ \A h \in Handlers :
        WF_storeVars(\/ Proceed(h) /\ UNCHANGED auditVars
                     \/ AuditStep(h)
                     \/ pc[h] = "denied" /\ HookFails(h))

-----------------------------------------------------------------------------
Operations ==
    [op : {"set", "delete", "clear", "replace"}, cell : Cells, key : Keys \cup {None},
     value : Values, row : Rows]

\* The locks belong to transactions under way: a handler is among the readers
\* while it has one, it writes only with the write lock, and commits only what
\* it has to write.
TypeOK ==
    /\ db \in [Cells -> Rows]
    /\ hooks \in 0..MaxHooks
    /\ pc \in [Handlers -> {"idle", "reading", "script", "denied", "apply", "write"}]
    /\ snap \in [Handlers -> [Scopes -> Rows]]
    /\ local \in [Handlers -> [Scopes -> Rows]]
    /\ ops \in [Handlers -> Seq(Operations)]
    /\ done \in [Handlers -> Nat]
    /\ work \in [Handlers -> [Cells -> Rows] \cup {None}]
    /\ left \in [Users -> Rows \cup {None}]
    /\ phase \in [Handlers -> {"none", "append", "measure", "trim", "mirror", "done"}]
    /\ readers = {h \in Handlers : pc[h] = "write"}
    /\ writer \in readers \cup {None}
    /\ waiting \in BOOLEAN /\ (waiting => writer # None)
    /\ \A h \in Handlers :
        /\ pc[h] \in {"apply", "write"} => ops[h] # <<>>
        /\ pc[h] = "write" => work[h] \in [Cells -> Rows]
        /\ pc[h] # "write" => work[h] = None
        /\ done[h] \in 0..Len(ops[h])
        /\ done[h] > 0 => writer = h
        /\ phase[h] # "none" => pc[h] = "denied"

\* Whatever the interleaving of the transactions, the tables go from the state
\* one batch finds to the state that batch alone makes of it (ApplyStateOps).
Store == INSTANCE AtomicStore WITH
    batch <- [h \in Handlers |-> IF pc[h] \in {"apply", "write"} THEN ops[h] ELSE <<>>]

ImplementsAtomicStore == Store!Spec

\* A user whose hooks run one at a time finds its state as its last hook left
\* it, helpers and direct changes of the table alike: what a script changed is
\* written, and what is written is what it changed (LuaInvoker.Invoke).
SnapshotContinuity ==
    \A h \in Handlers :
        pc[h] \in {"reading", "script"} /\ left[UserOf[h]] # None
            => snap[h]["user"] = left[UserOf[h]]

\* A user has one session and its hooks run one at a time.
OneHookEach == \A g, h \in Handlers : UserOf[g] = UserOf[h] => g = h

\* A script that changes its user's row keeps to one way of doing it: by the
\* helpers, of a user without a row of the old table, ...
UsesHelpers(h) ==
    /\ \A scope \in Scopes : <<"mutate", scope>> \notin Scripts[h]
    /\ Legacy[UserOf[h]] = Empty

\* ... or by changing ctx.state itself, which never empties a row of the old
\* table: an empty row makes the next hook look there again.
ChangesState(h) ==
    /\ \A call \in {"append", "set", "delete", "clear"} : <<call, "user">> \notin Scripts[h]
    /\ Legacy[UserOf[h]] = Empty \/ <<>> \notin Changes

OneStyle == \A h \in Handlers : UsesHelpers(h) \/ ChangesState(h)

\* No lock of SQLite is held for ever and no handler waits for one for ever,
\* even if the busy timeout never expired.
HooksEnd == \A h \in Handlers : pc[h] \in {"denied", "apply", "write"} ~> pc[h] = "idle"

-----------------------------------------------------------------------------
\* An event is never trimmed by the audit of another before a newer one is in
\* the table, so that the last event is always there (TrimAuditEventsToMaxBytes).
NewestKept == lastId > 0 => \E e \in rows : e.id = lastId

\* When no audit is under way the table is within its size, or a single event
\* alone is larger, whatever other audits appended while one trimmed.
TrimmedAtRest ==
    (\A h \in Handlers : phase[h] = "none") /\ ~untrimmed
        => TableBytes = 0 \/ ~TooLong(rows)

\* The mirror and its backups, read from the oldest, hold the events in the
\* order they were written and end with the last. Unless a file could not be
\* renamed nothing between them is missing, and nothing before them while there
\* is room for a backup (rotateIfNeeded).
KeptFiles ==
    FlattenSeq([i \in 1..(Backups + 1) |->
        IF Backups + 1 - i \in DOMAIN files THEN files[Backups + 1 - i] ELSE <<>>])

MirrorHasNoGap ==
    LET kept == [i \in DOMAIN KeptFiles |-> KeptFiles[i].n]
    IN /\ mirrored # <<>> => kept # <<>> /\ Last(kept) = Last(mirrored)
       /\ \A i, j \in DOMAIN kept : i < j =>
            \E k, l \in DOMAIN mirrored : k < l /\ mirrored[k] = kept[i] /\ mirrored[l] = kept[j]
       /\ "rename" \notin failed =>
            /\ IsSuffix(kept, mirrored)
            /\ kept = mirrored \/ 1..Backups \subseteq DOMAIN files
=============================================================================
