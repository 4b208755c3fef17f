-------------------------- MODULE StationTrustProofs --------------------------
(***************************************************************************)
(* Proofs about StationTrust, for any clients, addresses and keys.         *)
(*                                                                         *)
(* The file is written from copies that clients loaded earlier, so that    *)
(* PinsAreAccepted is not inductive: whatever a client holds, the copy and *)
(* the key it is about to pin, must have been agreed to as well.           *)
(***************************************************************************)
EXTENDS StationTrust, TLAPS

Agreed(records) == \A a \in Addresses : records[a] # NoKey => <<a, records[a]>> \in accepted

\* The copies that clients hold, and the keys they are about to pin.
CopiesAgreed ==
    \A c \in Clients :
        /\ Agreed(link[c].store)
        /\ link[c].phase = "trusted" => <<link[c].address, link[c].key>> \in accepted

\* A key is presented before anybody is asked about it.
KeyPresented ==
    \A c \in Clients : link[c].phase \in {"asking", "trusted"} => link[c].key \in Keys

\* The inductive invariant.
TInv == TypeOK /\ KeyPresented /\ Agreed(known) /\ CopiesAgreed

-----------------------------------------------------------------------------
Links == [phase : Phases, store : Records, address : Addresses,
          key : Keys \cup {NoKey}, replace : BOOLEAN]

\* A client that does nothing is in order.
LEMMA OffIsLink ==
    /\ Off \in Links
    /\ Off.phase = "off"
    /\ \A a \in Addresses : Off.store[a] = NoKey
  BY TrustAssumption DEF Off, Links, Phases, Records, NoRecords

LEMMA InitHolds == Init => TInv
  BY OffIsLink DEF Init, TInv, TypeOK, KeyPresented, Agreed, CopiesAgreed, Links, NoRecords, Records

\* Whatever a client's step does to its own link, the others keep theirs.
LEMMA StepKeeps ==
    ASSUME TInv, NEW c \in Clients, Steps(c)
    PROVE  TInv'
  <1> USE DEF TInv, TypeOK, KeyPresented, Agreed, CopiesAgreed
  <1>1. ASSUME NEW a \in Addresses, NEW replace \in BOOLEAN, Start(c, a, replace)
        PROVE  TInv'
    BY <1>1 DEF Start, Phases
  <1>2. ASSUME NEW k \in Keys, Challenge(c, k)
        PROVE  TInv'
    <2> DEFINE found == link[c].store[link[c].address]
    <2>1. CASE Judge(found, k, link[c].replace) = "off"
      BY <1>2, <2>1, OffIsLink DEF Challenge, Hangs, Links
    <2>2. CASE Judge(found, k, link[c].replace) = "asking"
      <3>1. /\ link' = [link EXCEPT ![c] = Advanced(link[c], "asking", k)]
            /\ accepted' = accepted /\ known' = known
        BY <1>2, <2>2 DEF Challenge
      <3> QED BY <3>1 DEF Advanced, Phases
    <2>3. CASE Judge(found, k, link[c].replace) = "trusted"
      <3>1. found # NoKey /\ (found = k \/ link[c].replace)
        BY <2>3, TrustAssumption DEF Judge, Records
      <3>2. <<link[c].address, k>> \in accepted'
        BY <1>2, <2>3, <3>1, TrustAssumption DEF Challenge
      <3>3. /\ link' = [link EXCEPT ![c] = Advanced(link[c], "trusted", k)]
            /\ accepted \subseteq accepted' /\ accepted' \subseteq Addresses \X Keys
            /\ known' = known
        BY <1>2, <2>3 DEF Challenge
      <3> QED BY <3>2, <3>3 DEF Advanced, Phases
    <2>4. Judge(found, k, link[c].replace) \in {"off", "asking", "trusted"}
      BY DEF Judge, Records
    <2> QED BY <2>1, <2>2, <2>3, <2>4
  <1>3. CASE Accept(c)
    BY <1>3 DEF Accept, Advanced, Phases
  <1>4. CASE Pin(c)
    BY <1>4, OffIsLink DEF Pin, Advanced, Links, Phases, Records
  <1>5. CASE GiveUp(c)
    BY <1>5, OffIsLink DEF GiveUp, Hangs, Links
  <1> QED BY <1>1, <1>2, <1>3, <1>4, <1>5 DEF Steps

\* A stutter changes nothing.
LEMMA NextKeeps == TInv /\ [Next]_vars => TInv'
  <1> SUFFICES ASSUME TInv, [Next]_vars PROVE TInv'
    OBVIOUS
  <1>1. CASE Next
    BY <1>1, StepKeeps DEF Next
  <1>2. CASE UNCHANGED vars
    BY <1>2 DEF vars, TInv, TypeOK, KeyPresented, Agreed, CopiesAgreed
  <1> QED BY <1>1, <1>2

-----------------------------------------------------------------------------
\* The file, the clients and the history keep their types (newConnectCommand).
THEOREM TypeCorrect == Spec => []TypeOK
  <1>1. TInv => TypeOK
    BY DEF TInv
  <1> QED BY InitHolds, NextKeeps, <1>1, PTL DEF Spec

\* No key is pinned that nobody agreed to, however many clients write the file
\* over each other (pinNode).
THEOREM NothingPinnedUnasked == Spec => []PinsAreAccepted
  <1>1. TInv => PinsAreAccepted
    BY DEF TInv, Agreed, PinsAreAccepted
  <1> QED BY InitHolds, NextKeeps, <1>1, PTL DEF Spec
=============================================================================
