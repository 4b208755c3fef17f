-------------------------- MODULE SessionRecovery --------------------------
(***************************************************************************)
(* What the section "Reconnect And Session Recovery" of the runtime        *)
(* contract promises, without saying how: a session that drops waits for   *)
(* its passport to come back; it is then either taken over by exactly one  *)
(* new session of that passport, or it ends and its on_leave runs exactly  *)
(* once.  SessionLifecycle implements it.                                  *)
(***************************************************************************)
CONSTANTS Sessions, KeyOf, None

VARIABLES
    phase,   \* where each session is in its life
    heir     \* the session that claimed a dropped session, or None

vars == <<phase, heir>>

Phases == {"unknown", "present", "grace", "claimed", "resumed", "ending", "left"}

TypeOK ==
    /\ phase \in [Sessions -> Phases]
    /\ heir \in [Sessions -> Sessions \cup {None}]

Move(s, from, to) ==
    /\ phase[s] = from
    /\ phase' = [phase EXCEPT ![s] = to]

Init ==
    /\ phase = [s \in Sessions |-> "unknown"]
    /\ heir = [s \in Sessions |-> None]

\* A connection becomes a session that others can see.
Arrive(s) == Move(s, "unknown", "present") /\ UNCHANGED heir

\* Its connection fails: it waits, or (forced, or without grace) ends.
Drop(s) == Move(s, "present", "grace") /\ UNCHANGED heir
Evict(s) == Move(s, "present", "ending") /\ UNCHANGED heir

\* The wait ends.
Expire(s) == Move(s, "grace", "ending") /\ UNCHANGED heir

\* A newcomer with the same passport claims it, at most one old session each.
Claim(s, n) ==
    /\ phase[n] = "unknown"
    /\ n # s
    /\ KeyOf[n] = KeyOf[s]
    /\ \A p \in Sessions : heir[p] # n
    /\ Move(s, "grace", "claimed")
    /\ heir' = [heir EXCEPT ![s] = n]

\* The newcomer, present by now, goes on where the old session was ...
Resume(s) ==
    /\ Move(s, "claimed", "resumed")
    /\ phase[heir[s]] = "present"
    /\ UNCHANGED heir

\* ... or cannot, and the old session ends after all.
Abandon(s) ==
    /\ Move(s, "claimed", "ending")
    /\ phase[heir[s]] = "present"
    /\ UNCHANGED heir

\* on_leave of the old door runs.
Leave(s) == Move(s, "ending", "left") /\ UNCHANGED heir

Next == \E s \in Sessions :
    \/ Arrive(s) \/ Drop(s) \/ Evict(s) \/ Expire(s)
    \/ \E n \in Sessions : Claim(s, n)
    \/ Resume(s) \/ Abandon(s) \/ Leave(s)

Spec == Init /\ [][Next]_vars
=============================================================================
