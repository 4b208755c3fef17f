---------------------------- MODULE HostActions ----------------------------
(***************************************************************************)
(* Host actions: a door's request goes over a Unix socket to the daemon    *)
(* phosphor-actiond, which runs a command of its rules.  Daemons are       *)
(* started, killed (nothing catches their signals) and, where their        *)
(* context is cancelled, shut down; what they share is the name of the     *)
(* socket file.  The node waits for an answer up to its own time limit,    *)
(* whatever the command does by then.                                      *)
(***************************************************************************)
EXTENDS Naturals, FiniteSets

CONSTANTS
    Daemons,        \* processes of phosphor-actiond
    Doors,          \* door ids
    Configs,        \* rule files a daemon may find when it starts
    Rules,          \* rule ids
    Wildcard,       \* "*" in allowed_doors
    MaxCalls,       \* requests of the node
    MaxStarts,      \* starts of a daemon
    Cancelled,      \* whether a daemon's context may be cancelled
    None

\* A configuration lists its rules; each has an id and the doors it allows.
ASSUME ActionAssumption ==
    /\ \A cfg \in Configs : cfg \subseteq [id : Rules, doors : SUBSET (Doors \cup {Wildcard}), copy : Nat]
    /\ Wildcard \notin Doors
    /\ None \notin Daemons \cup {"ok", "failed", "timeout", "garbled"}
    /\ MaxCalls \in Nat /\ MaxStarts \in Nat /\ Cancelled \in BOOLEAN

Calls == 1..MaxCalls

VARIABLES
    socket,     \* the daemon that made the socket file, None when there is no file
    stage,      \* how far a daemon is in Serve
    config,     \* the rules a daemon serves
    starts,     \* starts so far
    contested,  \* daemons that bound the socket while another one was up
    call,       \* the state of each request in the node
    request,    \* its rule and its door
    job,        \* the state of each request in its daemon
    server,     \* the daemon it reached
    answer,     \* what the daemon wrote to the connection
    result      \* what the door is told

daemonVars == <<socket, stage, config, starts, contested>>
callVars == <<call, request, result>>
jobVars == <<job, server, answer>>
actionVars == <<daemonVars, callVars, jobVars>>

Up(d) == stage[d] \notin {"down", "error"}
Listening(d) == stage[d] = "serve"

-----------------------------------------------------------------------------
(* The daemon *)

\* ValidateConfig: no id twice, explicit doors for every rule.
Valid(cfg) ==
    /\ \A r, s \in cfg : r.id = s.id => r = s
    /\ \A r \in cfg : r.doors # {} /\ Wildcard \notin r.doors

\* LoadConfig, or the end of the process.
Start(d) ==
    /\ ~Up(d)
    /\ starts < MaxStarts
    /\ starts' = starts + 1
    /\ \E cfg \in Configs :
        IF Valid(cfg)
        THEN /\ stage' = [stage EXCEPT ![d] = "probe"]
             /\ config' = [config EXCEPT ![d] = cfg]
        ELSE /\ stage' = [stage EXCEPT ![d] = "error"]
             /\ UNCHANGED config
    /\ UNCHANGED <<socket, contested, callVars, jobVars>>

ProbeBlindly(d) ==
    /\ stage[d] = "probe"
    /\ stage' = [stage EXCEPT ![d] = IF socket = None THEN "bind" ELSE "clear"]
    /\ UNCHANGED <<socket, config, starts, contested, callVars, jobVars>>

ProbeTimidly(d) ==
    /\ stage[d] = "probe"
    /\ stage' = [stage EXCEPT ![d] = IF socket = None THEN "bind" ELSE "error"]
    /\ UNCHANGED <<socket, config, starts, contested, callVars, jobVars>>

\* removeStaleSocket connects to the socket it finds: a daemon that answers has
\* it in use, one that does not has left it behind.
Probe(d) ==
    /\ stage[d] = "probe"
    /\ stage' = [stage EXCEPT ![d] = IF socket = None THEN "bind"
                                     ELSE IF Listening(socket) THEN "error" ELSE "clear"]
    /\ UNCHANGED <<socket, config, starts, contested, callVars, jobVars>>

\* The file is removed by its name, whoever made it by now; a file that is
\* gone is an error.
Clear(d) ==
    /\ stage[d] = "clear"
    /\ stage' = [stage EXCEPT ![d] = IF socket = None THEN "error" ELSE "bind"]
    /\ socket' = None
    /\ UNCHANGED <<config, starts, contested, callVars, jobVars>>

Bind(d) ==
    /\ stage[d] = "bind"
    /\ IF socket = None
       THEN /\ socket' = d
            /\ stage' = [stage EXCEPT ![d] = "serve"]
            /\ contested' = IF \E e \in Daemons \ {d} : Up(e) THEN contested \cup {d} ELSE contested
       ELSE /\ stage' = [stage EXCEPT ![d] = "error"]
            /\ UNCHANGED <<socket, contested>>
    /\ UNCHANGED <<config, starts, callVars, jobVars>>

\* The commands of a daemon that is gone run on without a time limit, unless
\* its cancelled context has killed them; their connections are closed.
Abandon(d, killed) ==
    job' = [n \in Calls |->
              IF server[n] # d THEN job[n]
              ELSE IF job[n] = "queued" THEN "dropped"
              ELSE IF job[n] # "running" THEN job[n]
              ELSE IF n \in killed THEN "killed" ELSE "adrift"]

Kill(d) ==
    /\ Up(d)
    /\ stage' = [stage EXCEPT ![d] = "down"]
    /\ contested' = contested \ {d}
    /\ Abandon(d, {})
    /\ UNCHANGED <<socket, config, starts, callVars, server, answer>>

\* Closing the listener removes the file by its name.
Cancel(d) ==
    /\ Cancelled
    /\ stage[d] = "serve"
    /\ stage' = [stage EXCEPT ![d] = "closing"]
    /\ socket' = None
    /\ UNCHANGED <<config, starts, contested, callVars, jobVars>>

\* Serve returns without waiting for its connections, and removes the file again.
Exit(d) ==
    /\ stage[d] = "closing"
    /\ stage' = [stage EXCEPT ![d] = "down"]
    /\ contested' = contested \ {d}
    /\ socket' = None
    /\ \E killed \in SUBSET Calls : Abandon(d, killed)
    /\ UNCHANGED <<config, starts, callVars, server, answer>>

-----------------------------------------------------------------------------
(* The node *)

\* executeDoorAction: the door asks, and the client connects to whatever the
\* name of the socket leads to.
Execute(n) ==
    /\ call[n] = "none"
    /\ \A m \in 1..(n - 1) : call[m] # "none"
    /\ \E rule \in Rules, door \in Doors :
        request' = [request EXCEPT ![n] = [rule |-> rule, door |-> door]]
    /\ IF socket # None /\ Listening(socket)
       THEN /\ call' = [call EXCEPT ![n] = "waiting"]
            /\ server' = [server EXCEPT ![n] = socket]
            /\ job' = [job EXCEPT ![n] = "queued"]
            /\ UNCHANGED result
       ELSE /\ call' = [call EXCEPT ![n] = "over"]
            /\ result' = [result EXCEPT ![n] = "failed"]
            /\ UNCHANGED <<server, job>>
    /\ UNCHANGED <<daemonVars, answer>>

Conclude(n, outcome) ==
    /\ call[n] = "waiting"
    /\ call' = [call EXCEPT ![n] = "over"]
    /\ result' = [result EXCEPT ![n] = outcome]
    /\ UNCHANGED <<daemonVars, jobVars, request>>

ReceiveOwn(n) ==
    /\ answer[n] \notin {None, "garbled"}
    /\ Conclude(n, answer[n])

\* An answer that does not carry the request's ids is a failure.
Receive(n) ==
    /\ answer[n] # None
    /\ Conclude(n, IF answer[n] = "garbled" THEN "failed" ELSE answer[n])

\* The connection ends without an answer.
Broken(n) ==
    /\ answer[n] = None
    /\ job[n] \in {"dropped", "adrift", "killed", "ended"}
    /\ Conclude(n, "failed")

\* The node's own limit is not the rule's; the daemon is not told.
Expire(n) == Conclude(n, "timeout")

-----------------------------------------------------------------------------
(* The command *)

Reply(n, state, response) ==
    /\ job' = [job EXCEPT ![n] = state]
    /\ answer' = [answer EXCEPT ![n] = response]
    /\ UNCHANGED <<daemonVars, callVars, server>>

Allowed(cfg, req) == \E r \in cfg : r.id = req.rule /\ req.door \in r.doors

\* handleConnection: a request beyond the size limit cannot be decoded, and the
\* answer does not name it; the rule must be known and allow the door.
Refuse(n) ==
    /\ job[n] = "queued"
    /\ \/ Reply(n, "dropped", "garbled")
       \/ ~Allowed(config[server[n]], request[n]) /\ Reply(n, "dropped", "failed")

Run(n) ==
    /\ job[n] = "queued"
    /\ Allowed(config[server[n]], request[n])
    /\ job' = [job EXCEPT ![n] = "running"]
    /\ UNCHANGED <<daemonVars, callVars, server, answer>>

\* The command exits by itself.
End(n, ok) ==
    /\ job[n] = "running"
    /\ Reply(n, "ended", IF ok THEN "ok" ELSE "failed")

\* The rule's time limit, or the cancelled context, kills the command.
TimeOut(n) ==
    /\ job[n] = "running"
    /\ Reply(n, "killed", IF stage[server[n]] = "closing" THEN "failed" ELSE "timeout")

Drift(n) ==
    /\ job[n] = "adrift"
    /\ job' = [job EXCEPT ![n] = "ended"]
    /\ UNCHANGED <<daemonVars, callVars, server, answer>>

-----------------------------------------------------------------------------
Init ==
    /\ socket = None
    /\ stage = [d \in Daemons |-> "down"]
    /\ config = [d \in Daemons |-> {}]
    /\ starts = 0
    /\ contested = {}
    /\ call = [n \in Calls |-> "none"]
    /\ request = [n \in Calls |-> None]
    /\ job = [n \in Calls |-> "none"]
    /\ server = [n \in Calls |-> None]
    /\ answer = [n \in Calls |-> None]
    /\ result = [n \in Calls |-> None]

Serve(d) == Probe(d) \/ Clear(d) \/ Bind(d) \/ Exit(d)

Process(n) == Refuse(n) \/ Run(n) \/ End(n, TRUE) \/ End(n, FALSE) \/ TimeOut(n)

Next ==
    \/ \E d \in Daemons : Start(d) \/ Serve(d) \/ Kill(d) \/ Cancel(d)
    \/ \E n \in Calls : Execute(n) \/ Receive(n) \/ Broken(n) \/ Expire(n) \/ Process(n) \/ Drift(n)

Spec == Init /\ [][Next]_actionVars

\* A daemon's process runs, and so do the goroutines of its connections and of
\* the node; nothing makes an operator start or stop a daemon.
FairSpec ==
    /\ Spec
    /\ \A d \in Daemons : WF_actionVars(Serve(d))
    /\ \A n \in Calls : WF_actionVars(Process(n)) /\ WF_actionVars(Receive(n) \/ Broken(n))

-----------------------------------------------------------------------------
TypeOK ==
    /\ socket \in Daemons \cup {None}
    /\ stage \in [Daemons -> {"down", "error", "probe", "clear", "bind", "serve", "closing"}]
    /\ config \in [Daemons -> Configs \cup {{}}] /\ \A d \in Daemons : Valid(config[d])
    /\ starts \in 0..MaxStarts
    /\ contested \subseteq {d \in Daemons : stage[d] \in {"serve", "closing"}}
    /\ call \in [Calls -> {"none", "waiting", "over"}]
    /\ request \in [Calls -> [rule : Rules, door : Doors] \cup {None}]
    /\ job \in [Calls -> {"none", "queued", "running", "dropped", "killed", "ended", "adrift"}]
    /\ server \in [Calls -> Daemons \cup {None}]
    /\ answer \in [Calls -> {"ok", "failed", "timeout", "garbled", None}]
    /\ result \in [Calls -> {"ok", "failed", "timeout", None}]

\* A daemon that bound its socket while no other was up can be reached until it
\* ends: one started later finds the socket in use (removeStaleSocket).
StaysReachable ==
    \A d \in Daemons : Listening(d) /\ d \notin contested => socket = d

\* What a killed daemon leaves behind does not keep the next from serving.
StaleIsReplaced ==
    \A d \in Daemons :
        stage[d] = "probe" /\ (\A e \in Daemons \ {d} : ~Up(e))
            ~> Listening(d) \/ stage[d] = "down" \/ \E e \in Daemons \ {d} : Up(e)

\* The door that asked is answered even when the daemon is gone or restarted,
\* without the node's own time limit (executeDoorAction).
EveryCallEnds == \A n \in Calls : call[n] = "waiting" ~> call[n] = "over"
=============================================================================
