---------------------------- MODULE StationTrust ----------------------------
(***************************************************************************)
(* phosphor connect up to the login, and the known-nodes file:             *)
(* newConnectCommand, buildTrustSummary and pinNode of internal/client/    *)
(* cli.go, the prompt of trust_tui.go and internal/knownnodes.             *)
(*                                                                         *)
(* Several clients use one file.  A client reads it once, when it starts,  *)
(* and writes back the whole of what it read together with its own pin.    *)
(***************************************************************************)
CONSTANTS
    Clients,
    Addresses,
    Keys,        \* station identities
    NoKey

\* A client that is off keeps some address; a pinned key is a key.
ASSUME TrustAssumption == Addresses # {} /\ NoKey \notin Keys

VARIABLES
    known,       \* the known-nodes file: the key pinned for each address
    link,        \* what each client is doing
    accepted     \* history: what users agreed to

vars == <<known, link, accepted>>

Records == [Addresses -> Keys \cup {NoKey}]
NoRecords == [a \in Addresses |-> NoKey]

Phases == {"off", "dialling", "asking", "trusted", "login"}

Off == [phase |-> "off", store |-> NoRecords, address |-> CHOOSE a \in Addresses : TRUE,
        key |-> NoKey, replace |-> FALSE]

TypeOK ==
    /\ known \in Records
    /\ link \in [Clients -> [phase : Phases, store : Records, address : Addresses,
                             key : Keys \cup {NoKey}, replace : BOOLEAN]]
    /\ accepted \subseteq Addresses \X Keys

Init ==
    /\ known = NoRecords
    /\ link = [c \in Clients |-> Off]
    /\ accepted = {}

\* A link further on, with the key the station has presented.
Advanced(l, to, k) ==
    [phase |-> to, store |-> l.store, address |-> l.address, key |-> k, replace |-> l.replace]

\* The command ends, with or without an error.
Hangs(c) == link' = [link EXCEPT ![c] = Off]

-----------------------------------------------------------------------------
\* knownnodes.Load, before the station is dialled.
Start(c, a, replace) ==
    /\ link[c].phase = "off"
    /\ link' = [link EXCEPT ![c] = [phase |-> "dialling", store |-> known, address |-> a,
                                    key |-> NoKey, replace |-> replace]]
    /\ UNCHANGED <<known, accepted>>

\* Mutant of Judge: a station seen for the first time needs no prompt.
JudgeKindly(found, k, replace) ==
    IF found \in {k, NoKey} \/ replace THEN "trusted" ELSE "off"

\* buildTrustSummary.
Judge(found, k, replace) ==
    IF found = NoKey THEN "asking"
    ELSE IF found = k \/ replace THEN "trusted" ELSE "off"

\* The station presents its key in a challenge signed with it.
Challenge(c, k) ==
    LET found == link[c].store[link[c].address]
        next == Judge(found, k, link[c].replace)
    IN  /\ link[c].phase = "dialling"
        /\ IF next = "off"
           THEN Hangs(c)
           ELSE link' = [link EXCEPT ![c] = Advanced(link[c], next, k)]
        /\ accepted' = IF next = "trusted" /\ found # k /\ link[c].replace
                       THEN accepted \cup {<<link[c].address, k>>}
                       ELSE accepted
        /\ UNCHANGED known

\* runFirstConnectTrustTUI: the user has all the time in the world.
Accept(c) ==
    /\ link[c].phase = "asking"
    /\ link' = [link EXCEPT ![c] = Advanced(link[c], "trusted", link[c].key)]
    /\ accepted' = accepted \cup {<<link[c].address, link[c].key>>}
    /\ UNCHANGED known

\* pinNode: Upsert into the copy that was loaded, and save the whole of it.
Pin(c) ==
    LET pinned == [link[c].store EXCEPT ![link[c].address] = link[c].key]
    IN  /\ link[c].phase = "trusted"
        /\ link' = [link EXCEPT ![c] = Advanced(Off, "login", NoKey)]
        /\ known' = IF link[c].store = pinned THEN known ELSE pinned
        /\ UNCHANGED accepted

\* A refusal of the user or of the station, an expired deadline, a file that
\* cannot be written: the command ends.
GiveUp(c) ==
    /\ link[c].phase \in {"dialling", "asking", "trusted", "login"}
    /\ Hangs(c)
    /\ UNCHANGED <<known, accepted>>

Steps(c) ==
    \/ \E a \in Addresses, replace \in BOOLEAN : Start(c, a, replace)
    \/ \E k \in Keys : Challenge(c, k)
    \/ Accept(c) \/ Pin(c) \/ GiveUp(c)

Next == \E c \in Clients : Steps(c)

Spec == Init /\ [][Next]_vars

-----------------------------------------------------------------------------
\* The file never holds a key for an address unless somebody agreed to that
\* key for that address, in the prompt or by asking for a replacement: however
\* the clients that share the file interleave (buildTrustSummary, pinNode).
PinsAreAccepted ==
    \A a \in Addresses : known[a] # NoKey => <<a, known[a]>> \in accepted

=============================================================================
