---------------------------- MODULE AuditTrail -----------------------------
(***************************************************************************)
(* The audit trail.  A handler appends an event to the audit table, trims  *)
(* the table to its size, and writes the event to a mirror file that is    *)
(* rotated.  The statements are separate and other handlers audit at the   *)
(* same time; only the mirror is under a lock.  Every part may fail and    *)
(* the handler goes on with the next.                                      *)
(***************************************************************************)
EXTENDS Naturals, Sequences, SequencesExt, FiniteSetsExt, Functions

CONSTANTS
    Auditors,       \* handlers that audit
    SizeOf,         \* bytes of the event a handler audits
    TableBytes,     \* auditMaxBytes, 0 for an unlimited table
    FileBytes,      \* maxBytes of the mirror
    Backups,        \* maxBackups of the mirror
    Faults,         \* what may fail, each once: "append", "trim", "rename", "reopen"
    MaxFaults       \* failures in a behaviour

ASSUME AuditAssumption ==
    /\ SizeOf \in [Auditors -> Nat \ {0}]
    /\ TableBytes \in Nat /\ FileBytes \in Nat
    /\ Backups \in Nat \ {0}
    /\ Faults \subseteq {"append", "trim", "rename", "reopen"}
    /\ MaxFaults \in Nat

VARIABLES
    phase,      \* where a handler is in its audit
    event,      \* the event it audits: its number, its id in the table, its bytes
    rows,       \* the events in the table
    lastId,     \* the id the table gave last
    plan,       \* the rows a handler has measured and not deleted
    files,      \* the mirror and, from 1, its backups
    open,       \* the mirror's file is open
    audited,    \* events audited so far
    mirrored,   \* the events written to the mirror, in that order
    untrimmed,  \* a trim failed, and none that saw every row has ended well since
    failed      \* the kinds of failure that have occurred

auditVars == <<phase, event, rows, lastId, plan, files, open,
               audited, mirrored, untrimmed, failed>>

Fails(kind) ==
    /\ kind \in Faults \ failed
    /\ Cardinality(failed) < MaxFaults
    /\ failed' = failed \cup {kind}

NoEvent == [n |-> 0, id |-> 0, bytes |-> 0]
Bytes(events) == MapThenSumSet(LAMBDA e : e.bytes, events)
FileSize(file) == FoldLeft(LAMBDA sum, e : sum + e.bytes, 0, file)

Audit(h) ==
    /\ phase[h] = "none"
    /\ audited' = audited + 1
    /\ event' = [event EXCEPT ![h] = [n |-> audited', id |-> 0, bytes |-> SizeOf[h]]]
    /\ phase' = [phase EXCEPT ![h] = "append"]
    /\ UNCHANGED <<rows, lastId, plan, files, open, mirrored, untrimmed, failed>>

\* An event that could not be appended keeps no id; the trim follows anyway.
AppendEvent(h, ok) ==
    /\ phase[h] = "append"
    /\ IF ok
       THEN /\ lastId' = lastId + 1
            /\ event' = [event EXCEPT ![h] = [n |-> @.n, id |-> lastId', bytes |-> @.bytes]]
            /\ rows' = rows \cup {event'[h]}
            /\ UNCHANGED failed
       ELSE Fails("append") /\ UNCHANGED <<lastId, event, rows>>
    /\ phase' = [phase EXCEPT ![h] = IF TableBytes > 0 THEN "measure" ELSE "mirror"]
    /\ UNCHANGED <<plan, files, open, audited, mirrored, untrimmed>>

MeasureRows(h) ==
    /\ phase[h] = "measure"
    /\ plan' = [plan EXCEPT ![h] = rows]
    /\ phase' = [phase EXCEPT ![h] = "trim"]
    /\ UNCHANGED <<event, rows, lastId, files, open, audited, mirrored, untrimmed, failed>>

Oldest(events) == CHOOSE e \in events : \A f \in events : e.id <= f.id

OverSize(measured) == Bytes(measured) > TableBytes

\* The newest row measured is never deleted, however large it is.
TooLong(measured) == OverSize(measured) /\ Cardinality(measured) > 1

DeleteOnce(h) ==
    /\ phase[h] = "trim"
    /\ TooLong(plan[h])
    /\ rows' = rows \ {Oldest(plan[h])}
    /\ plan' = [plan EXCEPT ![h] = {}]
    /\ phase' = [phase EXCEPT ![h] = "mirror"]
    /\ UNCHANGED <<event, lastId, files, open, audited, mirrored, untrimmed, failed>>

\* One DELETE for each row, of which another handler may have been ahead.
DeleteRow(h) ==
    /\ phase[h] = "trim"
    /\ TooLong(plan[h])
    /\ rows' = rows \ {Oldest(plan[h])}
    /\ plan' = [plan EXCEPT ![h] = @ \ {Oldest(@)}]
    /\ UNCHANGED <<phase, event, lastId, files, open, audited, mirrored, untrimmed, failed>>

EndTrim(h, ok) ==
    /\ IF ok THEN phase[h] = "trim" /\ ~TooLong(plan[h]) /\ UNCHANGED failed
             ELSE phase[h] \in {"measure", "trim"} /\ Fails("trim")
    /\ untrimmed' = (~ok \/ (untrimmed /\ rows # plan[h]))
    /\ plan' = [plan EXCEPT ![h] = {}]
    /\ phase' = [phase EXCEPT ![h] = "mirror"]
    /\ UNCHANGED <<event, rows, lastId, files, open, audited, mirrored>>

-----------------------------------------------------------------------------
(* The mirror *)

\* os.Rename of a file to the next name; a missing file stays missing.
Rename(from, state) ==
    IF from \in DOMAIN state
    THEN [i \in (DOMAIN state \ {from}) \cup {from + 1} |->
             IF i = from + 1 THEN state[from] ELSE state[i]]
    ELSE state

ShiftNewestFirst(state, failing) ==
    FoldLeft(LAMBDA acc, from : IF from \in failing THEN acc ELSE Rename(from, acc),
             state, [i \in 1..Backups |-> i - 1])

\* The backups move up, the oldest first, then the mirror becomes the first
\* backup. The last backup is replaced by the one before it.
Shift(state, failing) ==
    FoldLeft(LAMBDA acc, from : IF from \in failing THEN acc ELSE Rename(from, acc),
             state, [i \in 1..Backups |-> Backups - i])

RotateNeeded(h) ==
    /\ FileBytes > 0
    /\ files[0] # <<>>
    /\ FileSize(files[0]) + event[h].bytes > FileBytes

WriteMirror(h) ==
    LET With(state) == [i \in DOMAIN state \cup {0} |->
            IF i # 0 THEN state[i]
            ELSE IF 0 \in DOMAIN state THEN Append(state[0], event[h]) ELSE <<event[h]>>]
    IN /\ phase[h] = "mirror"
       /\ \/ /\ ~open          \* Stat of the closed file fails
             /\ UNCHANGED <<files, open, mirrored, failed>>
          \/ /\ open /\ ~RotateNeeded(h)
             /\ files' = With(files)
             /\ mirrored' = Append(mirrored, event[h].n)
             /\ UNCHANGED <<open, failed>>
          \/ /\ open /\ RotateNeeded(h)
             /\ \/ \E failing \in SUBSET (0..(Backups - 1)) :
                    /\ IF failing = {} THEN UNCHANGED failed ELSE Fails("rename")
                    /\ files' = With(Shift(files, failing))
                    /\ mirrored' = Append(mirrored, event[h].n)
                    /\ UNCHANGED open
                \/ /\ Fails("reopen")
                   /\ files' = Shift(files, {})
                   /\ open' = FALSE
                   /\ UNCHANGED mirrored
       /\ phase' = [phase EXCEPT ![h] = "done"]
       /\ UNCHANGED <<event, rows, lastId, plan, audited, untrimmed>>

\* The handler goes on with what it was doing.
EndAudit(h) ==
    /\ phase[h] = "done"
    /\ phase' = [phase EXCEPT ![h] = "none"]
    /\ event' = [event EXCEPT ![h] = NoEvent]
    /\ UNCHANGED <<rows, lastId, plan, files, open, audited, mirrored, untrimmed, failed>>

AuditInit ==
    /\ phase = [h \in Auditors |-> "none"]
    /\ event = [h \in Auditors |-> NoEvent]
    /\ rows = {}
    /\ lastId = 0
    /\ plan = [h \in Auditors |-> {}]
    /\ files = [i \in {0} |-> <<>>]
    /\ open = TRUE
    /\ audited = 0
    /\ mirrored = <<>>
    /\ untrimmed = FALSE
    /\ failed = {}
=============================================================================
