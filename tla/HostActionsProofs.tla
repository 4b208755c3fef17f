-------------------------- MODULE HostActionsProofs --------------------------
(***************************************************************************)
(* Proofs about HostActions, for any daemons, rule files and requests.     *)
(*                                                                         *)
(* StaysReachable is not inductive: a daemon that has decided to remove    *)
(* the file it found, to bind, or to remove the file as it ends would take *)
(* the name from the one that serves.  While a daemon serves that was      *)
(* alone when it bound, every other one is down, or has not looked at the  *)
(* file yet, and will find the server listening when it does.              *)
(***************************************************************************)
EXTENDS HostActions, TLAPS

Alone ==
    \A d \in Daemons : Listening(d) /\ d \notin contested =>
        /\ socket = d
        /\ \A e \in Daemons \ {d} : stage[e] \in {"down", "error", "probe"}

HInv == TypeOK /\ Alone

Stages == {"down", "error", "probe", "clear", "bind", "serve", "closing"}

-----------------------------------------------------------------------------
(* Types *)

LEMMA InitTyped == Init => TypeOK
  BY ActionAssumption DEF Init, TypeOK, Up, Valid, Calls

\* A daemon's step changes at most its own stage and rules.
LEMMA DaemonStepTyped ==
    ASSUME TypeOK, NEW d \in Daemons, Start(d) \/ Probe(d) \/ Clear(d) \/ Bind(d) \/ Cancel(d)
    PROVE  TypeOK'
  <1> USE ActionAssumption DEF TypeOK, Up, Valid, callVars, jobVars
  <1>1. CASE Start(d)
    <2>1. PICK cfg \in Configs :
            IF Valid(cfg)
            THEN stage' = [stage EXCEPT ![d] = "probe"] /\ config' = [config EXCEPT ![d] = cfg]
            ELSE stage' = [stage EXCEPT ![d] = "error"] /\ UNCHANGED config
      BY <1>1 DEF Start
    <2>2. CASE Valid(cfg)
      BY <1>1, <2>1, <2>2 DEF Start
    <2>3. CASE ~Valid(cfg)
      BY <1>1, <2>1, <2>3 DEF Start
    <2> QED BY <2>2, <2>3
  <1>2. CASE Probe(d)
    <2>1. PICK s \in {"bind", "error", "clear"} : stage' = [stage EXCEPT ![d] = s]
      BY <1>2 DEF Probe
    <2> QED BY <1>2, <2>1 DEF Probe
  <1>3. CASE Clear(d)
    <2>1. PICK s \in {"bind", "error"} : stage' = [stage EXCEPT ![d] = s]
      BY <1>3 DEF Clear
    <2> QED BY <1>3, <2>1 DEF Clear
  <1>4. CASE Bind(d)
    <2>1. CASE socket = None
      BY <1>4, <2>1 DEF Bind
    <2>2. CASE socket # None
      BY <1>4, <2>2 DEF Bind
    <2> QED BY <2>1, <2>2
  <1>5. CASE Cancel(d)
    BY <1>5 DEF Cancel
  <1> QED BY <1>1, <1>2, <1>3, <1>4, <1>5

\* What a daemon leaves of its requests when it is gone.
LEMMA AbandonTyped ==
    ASSUME TypeOK, NEW d \in Daemons, NEW killed, Abandon(d, killed)
    PROVE  job' \in [Calls -> {"none", "queued", "running", "dropped", "killed", "ended", "adrift"}]
  BY DEF TypeOK, Abandon

LEMMA EndTyped ==
    ASSUME TypeOK, NEW d \in Daemons, Kill(d) \/ Exit(d)
    PROVE  TypeOK'
  <1>1. /\ stage' = [stage EXCEPT ![d] = "down"]
        /\ contested' = contested \ {d}
        /\ socket' \in {socket, None}
        /\ UNCHANGED <<config, starts, callVars, server, answer>>
    BY DEF Kill, Exit
  <1>2. \E killed \in SUBSET Calls : Abandon(d, killed)
    <2>1. CASE Kill(d)
      BY <2>1 DEF Kill
    <2>2. CASE Exit(d)
      BY <2>2 DEF Exit
    <2> QED BY <2>1, <2>2
  <1>3. job' \in [Calls -> {"none", "queued", "running", "dropped", "killed", "ended", "adrift"}]
    BY <1>2, AbandonTyped
  <1> QED BY <1>1, <1>3 DEF TypeOK, Up, Valid, callVars

\* A request's step in the node.
LEMMA CallStepTyped ==
    ASSUME TypeOK, NEW n \in Calls, Execute(n) \/ Receive(n) \/ Broken(n) \/ Expire(n)
    PROVE  TypeOK'
  <1> USE DEF TypeOK, Up, Valid, daemonVars, jobVars
  <1>1. CASE Execute(n)
    BY <1>1 DEF Execute, Listening
  <1>2. ASSUME NEW outcome \in {"ok", "failed", "timeout"}, Conclude(n, outcome)
        PROVE  TypeOK'
    BY <1>2 DEF Conclude
  <1>3. CASE Receive(n)
    <2>1. (IF answer[n] = "garbled" THEN "failed" ELSE answer[n]) \in {"ok", "failed", "timeout"}
      BY <1>3 DEF Receive
    <2> QED BY <1>2, <1>3, <2>1 DEF Receive
  <1>4. CASE Broken(n)
    BY <1>2, <1>4 DEF Broken
  <1>5. CASE Expire(n)
    BY <1>2, <1>5 DEF Expire
  <1> QED BY <1>1, <1>3, <1>4, <1>5

\* A request's step in its daemon.
LEMMA JobStepTyped ==
    ASSUME TypeOK, NEW n \in Calls, Process(n) \/ Drift(n)
    PROVE  TypeOK'
  <1> USE DEF TypeOK, Up, Valid, daemonVars, callVars
  <1>1. ASSUME NEW state \in {"dropped", "killed", "ended"},
               NEW response \in {"ok", "failed", "timeout", "garbled"},
               Reply(n, state, response)
        PROVE  TypeOK'
    BY <1>1 DEF Reply
  <1>2. CASE Refuse(n)
    BY <1>1, <1>2 DEF Refuse
  <1>3. CASE Run(n)
    BY <1>3 DEF Run
  <1>4. CASE End(n, TRUE) \/ End(n, FALSE)
    BY <1>1, <1>4 DEF End
  <1>5. CASE TimeOut(n)
    BY <1>1, <1>5 DEF TimeOut
  <1>6. CASE Drift(n)
    BY <1>6 DEF Drift
  <1> QED BY <1>2, <1>3, <1>4, <1>5, <1>6 DEF Process

-----------------------------------------------------------------------------
(* The name of the socket *)

LEMMA InitAlone == Init => Alone
  BY DEF Init, Alone, Listening

\* Who is not serving alone has not looked at the file, or is down.
LEMMA DaemonStepAlone ==
    ASSUME HInv, NEW d \in Daemons, Start(d) \/ Serve(d) \/ Kill(d) \/ Cancel(d)
    PROVE  Alone'
  <1> USE ActionAssumption DEF HInv, TypeOK, Alone, Listening, Up
  <1>1. CASE Start(d)
    BY <1>1 DEF Start
  <1>2. CASE Probe(d)
    BY <1>2 DEF Probe
  <1>3. CASE Clear(d)
    BY <1>3 DEF Clear
  <1>4. CASE Bind(d)
    <2>1. CASE socket = None
      <3>1. ASSUME NEW e \in Daemons, e # d, stage[e] = "serve"
            PROVE  e \in contested
        BY <1>4, <3>1 DEF Bind
      <3>2. /\ stage' = [stage EXCEPT ![d] = "serve"] /\ socket' = d
            /\ contested' = IF \E e \in Daemons \ {d} : Up(e) THEN contested \cup {d} ELSE contested
        BY <1>4, <2>1 DEF Bind
      <3>3. CASE \E e \in Daemons \ {d} : Up(e)
        BY <3>1, <3>2, <3>3
      <3>4. CASE \A e \in Daemons \ {d} : stage[e] \in {"down", "error"}
        BY <3>1, <3>2, <3>4
      <3> QED BY <3>3, <3>4
    <2>2. CASE socket # None
      BY <1>4, <2>2 DEF Bind
    <2> QED BY <2>1, <2>2
  <1>5. CASE Exit(d)
    BY <1>5 DEF Exit
  <1>6. CASE Kill(d)
    BY <1>6 DEF Kill
  <1>7. CASE Cancel(d)
    BY <1>7 DEF Cancel
  <1> QED BY <1>1, <1>2, <1>3, <1>4, <1>5, <1>6, <1>7 DEF Serve

\* Requests do not touch the daemons.
LEMMA CallKeepsDaemons ==
    ASSUME NEW n \in Calls,
           Execute(n) \/ Receive(n) \/ Broken(n) \/ Expire(n) \/ Process(n) \/ Drift(n)
    PROVE  UNCHANGED daemonVars
  BY DEF Execute, Receive, Broken, Expire, Conclude, Process, Refuse, Run, End, TimeOut, Reply, Drift

-----------------------------------------------------------------------------
LEMMA InitHolds == Init => HInv
  BY InitTyped, InitAlone DEF HInv

LEMMA NextKeeps == HInv /\ [Next]_actionVars => HInv'
  <1> SUFFICES ASSUME HInv, [Next]_actionVars PROVE HInv'
    OBVIOUS
  <1>1. ASSUME NEW d \in Daemons, Start(d) \/ Serve(d) \/ Kill(d) \/ Cancel(d)
        PROVE  HInv'
    BY <1>1, DaemonStepTyped, EndTyped, DaemonStepAlone DEF HInv, Serve
  <1>2. ASSUME NEW n \in Calls,
               Execute(n) \/ Receive(n) \/ Broken(n) \/ Expire(n) \/ Process(n) \/ Drift(n)
        PROVE  HInv'
    <2>1. TypeOK'
      BY <1>2, CallStepTyped, JobStepTyped DEF HInv
    <2>2. Alone'
      BY <1>2, CallKeepsDaemons DEF HInv, Alone, Listening, daemonVars
    <2> QED BY <2>1, <2>2 DEF HInv
  <1>3. CASE UNCHANGED actionVars
    BY <1>3 DEF HInv, TypeOK, Alone, Listening, Up, Valid, actionVars, daemonVars, callVars, jobVars
  <1> QED BY <1>1, <1>2, <1>3 DEF Next

\* The daemons, the requests and what is said of them keep their types; only
\* valid rule files are ever served (ValidateConfig).
THEOREM TypeCorrect == Spec => []TypeOK
  <1>1. HInv => TypeOK
    BY DEF HInv
  <1> QED BY InitHolds, NextKeeps, <1>1, PTL DEF Spec

\* A daemon that was alone when it bound its socket keeps the name, however
\* many others are started, killed and cancelled meanwhile (removeStaleSocket).
THEOREM NameIsKept == Spec => []StaysReachable
  <1>1. HInv => StaysReachable
    BY DEF HInv, Alone, StaysReachable
  <1> QED BY InitHolds, NextKeeps, <1>1, PTL DEF Spec
=============================================================================
