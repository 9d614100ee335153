-------------------------- MODULE ConnectorDaemon --------------------------
(***************************************************************************)
(* The processes of the connector and the two files of its home that they  *)
(* share: the management token and the pid file (src/process_runtime.rs,   *)
(* the commands of src/cli.rs, start_server of src/main.rs).               *)
(*                                                                         *)
(* Servers may use one home on several ports.  A pid and the token that    *)
(* its process generates are one number; pids are not used again.  The     *)
(* token is written to a file of the process's own and renamed: it is      *)
(* there whole or not at all.  The module models the Unix build.           *)
(***************************************************************************)
EXTENDS Naturals

CONSTANTS Ports, DefaultPort,
          Commands,                   \* processes of the CLI
          MaxPid, MaxOps, MaxDeaths   \* bounds: processes, commands run, crashes

ASSUME DaemonAssumption == /\ DefaultPort \in Ports
                           /\ MaxPid \in Nat /\ MaxOps \in Nat /\ MaxDeaths \in Nat

VARIABLES
    proc,      \* servers: how far they came, on which port, with which token
    tokenFile, \* 0: missing or too short
    pidFile,   \* 0: missing
    cmd,       \* commands: step, port, the server seen healthy, the child spawned
    ops,       \* commands run so far
    deaths,    \* crashes so far
    crossed    \* servers that wrote the pid file with a write or removal for another under way

vars == <<proc, tokenFile, pidFile, cmd, ops, deaths, crossed>>

Pids == 1..MaxPid
NoCommand == [pc |-> "idle", port |-> DefaultPort, pid |-> 0]
Holding == {"bound", "creating", "renamed", "tokened", "serving"}
Alive == Holding \cup {"new"}
\* Commands that are about to write or remove the pid file for the server they saw.
Settling == {"existing", "found", "kill", "remove"}

Process == [pc : Alive \cup {"none", "dead"}, port : Ports, token : 0..MaxPid]
Command == [pc : {"idle", "start", "stop", "spawn", "wait"} \cup Settling, port : Ports, pid : 0..MaxPid]

\* A command deals with a process of its own port.
OwnPort ==
    \A c \in Commands : cmd[c].pc \in Settling \cup {"wait"} =>
        cmd[c].pid # 0 /\ proc[cmd[c].pid].pc # "none" /\ proc[cmd[c].pid].port = cmd[c].port

TypeOK ==
    /\ proc \in [Pids -> Process] /\ cmd \in [Commands -> Command]
    /\ tokenFile \in 0..MaxPid /\ pidFile \in 0..MaxPid
    /\ ops \in 0..MaxOps /\ deaths \in 0..MaxDeaths /\ crossed \subseteq Pids
    /\ OwnPort

Init ==
    /\ proc = [p \in Pids |-> [pc |-> "none", port |-> DefaultPort, token |-> 0]]
    /\ tokenFile = 0 /\ pidFile = 0
    /\ cmd = [c \in Commands |-> NoCommand]
    /\ ops = 0 /\ deaths = 0 /\ crossed = {}

-----------------------------------------------------------------------------
(* A server.                                                               *)

Fresh(p) == proc[p].pc = "none" /\ \A q \in Pids : q < p => proc[q].pc # "none"
Started(port) == [pc |-> "new", port |-> port, token |-> 0]
Step(p, from, to) == proc[p].pc = from /\ proc' = [proc EXCEPT ![p].pc = to]

\* The host starts a server itself.
Launch(p, port) ==
    /\ Fresh(p)
    /\ proc' = [proc EXCEPT ![p] = Started(port)]
    /\ UNCHANGED <<tokenFile, pidFile, cmd, ops, deaths, crossed>>

PortTaken(p) == \E q \in Pids : proc[q].pc \in Holding /\ proc[q].port = proc[p].port
\* Variant: the port is taken only by a server that answers.
BindLate(p) ==
    /\ Step(p, "new", IF \E q \in Pids : proc[q].pc = "serving" /\ proc[q].port = proc[p].port
                      THEN "dead" ELSE "bound")
    /\ UNCHANGED <<tokenFile, pidFile, cmd, ops, deaths, crossed>>
\* The port is bound before any file is touched; a server that does not get it exits.
Bind(p) ==
    /\ Step(p, "new", IF PortTaken(p) THEN "dead" ELSE "bound")
    /\ UNCHANGED <<tokenFile, pidFile, cmd, ops, deaths, crossed>>

\* A token that is there is used.
LoadToken(p) ==
    /\ proc[p].pc = "bound" /\ tokenFile # 0
    /\ proc' = [proc EXCEPT ![p] = [@ EXCEPT !.pc = "tokened", !.token = tokenFile]]
    /\ UNCHANGED <<tokenFile, pidFile, cmd, ops, deaths, crossed>>

\* Otherwise one is generated and written to a temporary file ...
CreateToken(p) ==
    /\ tokenFile = 0 /\ Step(p, "bound", "creating")
    /\ UNCHANGED <<tokenFile, pidFile, cmd, ops, deaths, crossed>>
\* ... renamed over whatever is there by now ...
RenameToken(p) ==
    /\ Step(p, "creating", "renamed")
    /\ tokenFile' = p
    /\ UNCHANGED <<pidFile, cmd, ops, deaths, crossed>>
\* ... and read back; a server that reads another's does not start.
ReadBack(p) ==
    /\ proc[p].pc = "renamed"
    /\ proc' = IF tokenFile = p
               THEN [proc EXCEPT ![p] = [@ EXCEPT !.pc = "tokened", !.token = p]]
               ELSE [proc EXCEPT ![p].pc = "dead"]
    /\ UNCHANGED <<tokenFile, pidFile, cmd, ops, deaths, crossed>>

\* The pid file is written, and from now on connections are answered.
Serve(p) ==
    /\ Step(p, "tokened", "serving")
    /\ pidFile' = p
    /\ crossed' = IF \E c \in Commands : cmd[c].pc \in Settling /\ cmd[c].pid # p
                  THEN crossed \cup {p} ELSE crossed
    /\ UNCHANGED <<tokenFile, cmd, ops, deaths>>

\* A server crashes, or a file it needs cannot be written.
Die(p) ==
    /\ proc[p].pc \in Alive /\ deaths < MaxDeaths
    /\ proc' = [proc EXCEPT ![p].pc = "dead"] /\ deaths' = deaths + 1
    /\ UNCHANGED <<tokenFile, pidFile, cmd, ops, crossed>>

-----------------------------------------------------------------------------
(* The commands.                                                           *)

Serving(p, port) == proc[p].pc = "serving" /\ proc[p].port = port

\* start --daemon, or stop.
Begin(c, what, port) ==
    /\ cmd[c].pc = "idle" /\ ops < MaxOps
    /\ cmd' = [cmd EXCEPT ![c] = [pc |-> what, port |-> port, pid |-> 0]] /\ ops' = ops + 1
    /\ UNCHANGED <<proc, tokenFile, pidFile, deaths, crossed>>

\* The server of the port answers the health request with its pid ...
Healthy(c, p) ==
    /\ cmd[c].pc \in {"start", "stop"} /\ Serving(p, cmd[c].port)
    /\ cmd' = [cmd EXCEPT ![c].pid = p, ![c].pc = IF @ = "start" THEN "existing" ELSE "kill"]
    /\ UNCHANGED <<proc, tokenFile, pidFile, ops, deaths, crossed>>
\* ... or nobody answers in time.
NotHealthy(c) ==
    /\ cmd[c].pc \in {"start", "stop"}
    /\ cmd' = [cmd EXCEPT ![c] = IF @.pc = "start" THEN [@ EXCEPT !.pc = "spawn"] ELSE NoCommand]
    /\ UNCHANGED <<proc, tokenFile, pidFile, ops, deaths, crossed>>

\* Variant: the port is not passed on.
SpawnDefault(c, p) ==
    /\ cmd[c].pc = "spawn" /\ Fresh(p)
    /\ proc' = [proc EXCEPT ![p] = Started(DefaultPort)]
    /\ cmd' = [cmd EXCEPT ![c] = [@ EXCEPT !.pc = "wait", !.pid = p]]
    /\ UNCHANGED <<tokenFile, pidFile, ops, deaths, crossed>>
Spawn(c, p) ==
    /\ cmd[c].pc = "spawn" /\ Fresh(p)
    /\ proc' = [proc EXCEPT ![p] = Started(cmd[c].port)]
    /\ cmd' = [cmd EXCEPT ![c] = [@ EXCEPT !.pc = "wait", !.pid = p]]
    /\ UNCHANGED <<tokenFile, pidFile, ops, deaths, crossed>>

\* Variant: any healthy server counts as the child.
FoundAny(c) ==
    /\ cmd[c].pc = "wait" /\ \E p \in Pids : Serving(p, cmd[c].port)
    /\ cmd' = [cmd EXCEPT ![c].pc = "found"]
    /\ UNCHANGED <<proc, tokenFile, pidFile, ops, deaths, crossed>>
\* Only the child's own pid ends the wait; another server on the port does not.
Found(c) ==
    /\ cmd[c].pc = "wait" /\ Serving(cmd[c].pid, cmd[c].port)
    /\ cmd' = [cmd EXCEPT ![c].pc = "found"]
    /\ UNCHANGED <<proc, tokenFile, pidFile, ops, deaths, crossed>>
\* The deadline: the child is left to itself.
NotFound(c) ==
    /\ cmd[c].pc = "wait"
    /\ cmd' = [cmd EXCEPT ![c] = NoCommand]
    /\ UNCHANGED <<proc, tokenFile, pidFile, ops, deaths, crossed>>

WritePid(c) ==
    /\ cmd[c].pc \in {"existing", "found"}
    /\ pidFile' = cmd[c].pid /\ cmd' = [cmd EXCEPT ![c] = NoCommand]
    /\ UNCHANGED <<proc, tokenFile, ops, deaths, crossed>>

Terminate(c) ==
    /\ cmd[c].pc = "kill" /\ proc[cmd[c].pid].pc \in Alive
    /\ proc' = [proc EXCEPT ![cmd[c].pid].pc = "dead"] /\ cmd' = [cmd EXCEPT ![c].pc = "remove"]
    /\ UNCHANGED <<tokenFile, pidFile, ops, deaths, crossed>>
\* A process that is gone cannot be terminated: the command fails and leaves the pid file.
TerminateFails(c) ==
    /\ cmd[c].pc = "kill" /\ proc[cmd[c].pid].pc \notin Alive
    /\ cmd' = [cmd EXCEPT ![c] = NoCommand]
    /\ UNCHANGED <<proc, tokenFile, pidFile, ops, deaths, crossed>>
RemovePid(c) ==
    /\ cmd[c].pc = "remove"
    /\ pidFile' = 0 /\ cmd' = [cmd EXCEPT ![c] = NoCommand]
    /\ UNCHANGED <<proc, tokenFile, ops, deaths, crossed>>

Next ==
    \/ \E p \in Pids :
          \/ \E port \in Ports : Launch(p, port)
          \/ Bind(p) \/ LoadToken(p) \/ CreateToken(p) \/ RenameToken(p) \/ ReadBack(p)
          \/ Serve(p) \/ Die(p)
    \/ \E c \in Commands :
          \/ \E what \in {"start", "stop"}, port \in Ports : Begin(c, what, port)
          \/ \E p \in Pids : Healthy(c, p) \/ Spawn(c, p)
          \/ NotHealthy(c) \/ Found(c) \/ NotFound(c) \/ WritePid(c)
          \/ Terminate(c) \/ TerminateFails(c) \/ RemovePid(c)

Spec == Init /\ [][Next]_vars

-----------------------------------------------------------------------------
(* Correctness.                                                            *)

\* A server answers to the token in the file for as long as it runs, through crashes at any
\* step of creating it and competing starts: only a server on another port can have put its own
\* there (load_or_create_management_token, after the bind of start_server).
TokenKept ==
    \A p \in Pids : proc[p].pc = "serving" /\ tokenFile # proc[p].token =>
        tokenFile # 0 /\ proc[tokenFile].port # proc[p].port

\* The pid file names the server of the home while it runs, unless a command was under way for
\* an earlier one when it started: then that command's write or removal comes too late.  The
\* start that loses the race for the port never names its child.
PidFileFollows ==
    \A p \in Pids : proc[p].pc = "serving" /\ pidFile # p =>
        \/ p \in crossed
        \/ \E q \in Pids : proc[q].pc # "none" /\ proc[q].port # proc[p].port
============================================================================
