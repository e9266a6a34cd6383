------------------------------ MODULE ProxyServer ------------------------------
(***************************************************************************)
(* Starting and stopping the CLIProxyAPI server (cliproxy/manager.py).     *)
(* Every start runs in a thread of its own and all of them share the       *)
(* config file, from which chats and the status route learn the port.      *)
(*                                                                         *)
(* A process is named after the start that spawned it.  It is external: it *)
(* takes its port, if nobody has it, and may die.                          *)
(*                                                                         *)
(* Abstracted: the API key in the config; a health check that fails though *)
(* the server listens; a process that survives SIGTERM; stderr; a start    *)
(* refused at once, because nothing is installed or for its arguments.     *)
(***************************************************************************)
EXTENDS Naturals

CONSTANTS
  StartCall,  \* POST /cliproxy/server/start requests
  Port,
  NoPort
ASSUME PortAssumption == NoPort \notin Port

VARIABLES
  config,    \* the port in ~/.cli-proxy-api/config.yaml
  wants,     \* the port each start asks for
  startAt,   \* where it is, or what it was answered
  server,    \* its process
  logs,      \* temporary files for what processes print
  truly,     \* history: starts whose own process listened when they said so
  overlap,   \* history: two starts have overlapped
  upset      \* history: a start has failed, a server died or was stopped during a start

serverVars == <<config, wants, startAt, server, logs, truly, overlap, upset>>

NothingStarted ==
  /\ config = NoPort /\ wants = [s \in StartCall |-> NoPort]
  /\ server = [s \in StartCall |-> "none"] /\ logs = {}
  /\ truly = {} /\ overlap = FALSE /\ upset = FALSE
ServerInit == NothingStarted /\ startAt = [s \in StartCall |-> "unused"]

StartGoes(s, p) == startAt' = [startAt EXCEPT ![s] = p]
ServerIs(s, p) == server' = [server EXCEPT ![s] = p]
Listens(p) == \E s \in StartCall : server[s] = "up" /\ wants[s] = p
Running(s) == server[s] \in {"booting", "up"}
Pending(s) == startAt[s] \in {"checking", "waiting"}

-----------------------------------------------------------------------------
\* start_cliproxy_server().

\* The config is written before anybody knows that the server can be started.
BeginStart(s, p) ==
  /\ startAt[s] = "unused" /\ StartGoes(s, "checking")
  /\ wants' = [wants EXCEPT ![s] = p] /\ config' = p
  /\ overlap' = (overlap \/ \E o \in StartCall : Pending(o))
  /\ UNCHANGED <<server, logs, truly, upset>>

AlreadyRunning(s) ==
  /\ startAt[s] = "checking" /\ Listens(wants[s]) /\ StartGoes(s, "running")
  /\ UNCHANGED <<config, wants, server, logs, truly, overlap, upset>>

\* Popen(); if that fails, nobody removes the log.
Spawn(s) ==
  /\ startAt[s] = "checking" /\ ~Listens(wants[s]) /\ logs' = logs \cup {s}
  /\ \/ StartGoes(s, "waiting") /\ ServerIs(s, "booting") /\ UNCHANGED upset
     \/ StartGoes(s, "error") /\ upset' = TRUE /\ UNCHANGED server
  /\ UNCHANGED <<config, wants, truly, overlap>>

\* Whoever listens on the port is taken for the process that was started.
Ready(s) ==
  /\ startAt[s] = "waiting" /\ Listens(wants[s]) /\ StartGoes(s, "started") /\ logs' = logs \ {s}
  /\ truly' = IF server[s] = "up" THEN truly \cup {s} ELSE truly
  /\ UNCHANGED <<config, wants, server, overlap, upset>>

\* Ten seconds are over.
BugNotReady(s) ==                   \* the process is left as it is
  /\ startAt[s] = "waiting" /\ StartGoes(s, "error") /\ logs' = logs \ {s}
  /\ upset' = TRUE /\ UNCHANGED <<config, wants, server, truly, overlap>>
NotReady(s) ==
  /\ startAt[s] = "waiting" /\ StartGoes(s, "error") /\ logs' = logs \ {s}
  /\ ServerIs(s, "dead") /\ upset' = TRUE
  /\ UNCHANGED <<config, wants, truly, overlap>>

\* stop_cliproxy_server(): pkill.
StopAll ==
  /\ \E s \in StartCall : Running(s)
  /\ server' = [s \in StartCall |-> IF Running(s) THEN "dead" ELSE server[s]]
  /\ upset' = (upset \/ \E s \in StartCall : Pending(s))
  /\ UNCHANGED <<config, wants, startAt, logs, truly, overlap>>

-----------------------------------------------------------------------------
\* The processes.

Boots(s) ==
  /\ server[s] = "booting" /\ ServerIs(s, IF Listens(wants[s]) THEN "dead" ELSE "up")
  /\ UNCHANGED <<config, wants, startAt, logs, truly, overlap, upset>>
Dies(s) ==
  /\ server[s] = "up" /\ ServerIs(s, "dead") /\ upset' = TRUE
  /\ UNCHANGED <<config, wants, startAt, logs, truly, overlap>>

StartSteps(s) == AlreadyRunning(s) \/ Spawn(s) \/ Ready(s) \/ NotReady(s)
ServerNext ==
  \/ \E s \in StartCall : StartSteps(s) \/ Boots(s) \/ Dies(s) \/ \E p \in Port : BeginStart(s, p)
  \/ StopAll

\* The threads run, and their deadline comes.
ServerFairness == \A s \in StartCall : WF_serverVars(StartSteps(s))

-----------------------------------------------------------------------------
\* Every variable has its type.
ServerTypeOK ==
  /\ config \in Port \cup {NoPort} /\ wants \in [StartCall -> Port \cup {NoPort}]
  /\ startAt \in [StartCall -> {"unused", "checking", "waiting", "running", "started", "error"}]
  /\ server \in [StartCall -> {"none", "booting", "up", "dead"}]
  /\ logs \subseteq StartCall /\ truly \subseteq StartCall /\ {overlap, upset} \subseteq BOOLEAN

\* At most one process has a port, whatever starts and stops overlap.
PortIsOwned ==
  \A s, t \in StartCall : server[s] = "up" /\ server[t] = "up" /\ wants[s] = wants[t] => s = t

\* The pid a start answers is that of a server, unless starts have overlapped: two of
\* them both see no server, and each takes the other's for its own.
PidIsOwn == \A s \in StartCall : startAt[s] = "started" => s \in truly \/ overlap

\* A start that fails leaves no process behind, and one that is over no log, unless
\* the process could not be created.
FailedIsGone ==
  \A s \in StartCall :
    /\ startAt[s] = "error" => ~Running(s)
    /\ s \in logs => startAt[s] = "waiting" \/ (startAt[s] = "error" /\ server[s] = "none")

\* While any server runs the config names one that does, unless a start has failed, which
\* by then has written its port over that of the server, or a server was lost.
ConfigFindsServer ==
  ~upset /\ (\A s \in StartCall : ~Pending(s) /\ server[s] # "booting") /\ (\E p \in Port : Listens(p)) =>
    Listens(config)

\* What is said and kept of the proxy's servers is true of their processes.
ServersAreTold == PortIsOwned /\ PidIsOwn /\ FailedIsGone /\ ConfigFindsServer

\* Every start is answered: in the end, none is pending.
StartsEnd == <>[](\A s \in StartCall : ~Pending(s))
=============================================================================
