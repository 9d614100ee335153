----------------------- MODULE ConnectorDaemonProofs -----------------------
(***************************************************************************)
(* What holds of the processes, the token and the pid file for any number  *)
(* of ports, commands, processes and crashes.  One step of induction per   *)
(* action; each invariant rests on those before it:                        *)
(*   Exclusive  a port has one holder, from its bind to its end;           *)
(*   TokenInv   the file has the token of every server of the port that    *)
(*              wrote to it last;                                          *)
(*   PidInv     a command acts on a server that was serving after every    *)
(*              server it does not know of began.                          *)
(***************************************************************************)
EXTENDS ConnectorDaemon, TLAPS

USE DaemonAssumption

Holds(p) == proc[p].pc \in Holding

Exclusive == \A p, q \in Pids : Holds(p) /\ Holds(q) /\ proc[p].port = proc[q].port => p = q

\* The token in the file is that of a process on another port.
Foreign(p) == tokenFile # 0 /\ proc[tokenFile].port # proc[p].port

TokenInv ==
    /\ tokenFile # 0 => proc[tokenFile].pc # "none"
    /\ \A p \in Pids :
          /\ proc[p].pc = "renamed" => tokenFile = p \/ Foreign(p)
          /\ proc[p].pc \in {"tokened", "serving"} => tokenFile = proc[p].token \/ Foreign(p)

Elsewhere(p) == \E q \in Pids : proc[q].pc # "none" /\ proc[q].port # proc[p].port

PidInv ==
    /\ \A c \in Commands : cmd[c].pc = "remove" => proc[cmd[c].pid].pc = "dead"
    /\ \A p \in Pids, c \in Commands :
          proc[p].pc = "serving" /\ p \notin crossed /\ cmd[c].pc \in Settling /\ cmd[c].pid # p =>
              proc[cmd[c].pid].port # proc[p].port
    /\ \A p \in Pids : proc[p].pc = "serving" /\ pidFile # p => p \in crossed \/ Elsewhere(p)

-----------------------------------------------------------------------------
LEMMA InitTypeOK == Init => TypeOK
  BY DEF Init, TypeOK, Process, Command, OwnPort, Pids, NoCommand, Settling, Holding, Alive

LEMMA NextTypeOK == TypeOK /\ [Next]_vars => TypeOK'
<1> SUFFICES ASSUME TypeOK, [Next]_vars PROVE TypeOK'
  OBVIOUS
<1> USE DEF TypeOK, Pids, Settling, Holding, Alive, Process, Command, OwnPort
<1>1. ASSUME NEW p \in Pids, NEW port \in Ports, Launch(p, port) PROVE TypeOK'
  BY <1>1 DEF Launch, Fresh, Started
<1>2. ASSUME NEW p \in Pids, Bind(p) PROVE TypeOK'
  <2>1. PICK v \in {"dead", "bound"} : proc[p].pc = "new" /\ proc' = [proc EXCEPT ![p].pc = v]
    BY <1>2 DEF Bind, PortTaken, Step
  <2>2. proc' \in [Pids -> Process]
    BY <2>1, SMTT(30)
  <2>3. OwnPort'
    BY <1>2, <2>1 DEF Bind
  <2>4. QED
    BY <1>2, <2>2, <2>3 DEF Bind
<1>3. ASSUME NEW p \in Pids, LoadToken(p) PROVE TypeOK'
  <2>1. proc[p] \in Process
    OBVIOUS
  <2>2. [proc[p] EXCEPT !.pc = "tokened", !.token = tokenFile] \in Process
    BY <2>1
  <2>3. proc' \in [Pids -> Process]
    BY <1>3, <2>2 DEF LoadToken
  <2>4. QED
    BY <1>3, <2>3 DEF LoadToken
<1>4. ASSUME NEW p \in Pids, CreateToken(p) PROVE TypeOK'
  <2>1. proc' \in [Pids -> Process]
    BY <1>4, SMTT(30) DEF CreateToken, Step
  <2>2. OwnPort'
    BY <1>4 DEF CreateToken, Step
  <2>3. QED
    BY <1>4, <2>1, <2>2 DEF CreateToken, Step
<1>5. ASSUME NEW p \in Pids, RenameToken(p) PROVE TypeOK'
  BY <1>5 DEF RenameToken, Step
<1>6. ASSUME NEW p \in Pids, ReadBack(p) PROVE TypeOK'
  <2>1. CASE tokenFile = p
    <3>1. proc[p] \in Process /\ p \in 0..MaxPid
      OBVIOUS
    <3>2. [proc[p] EXCEPT !.pc = "tokened", !.token = p] \in Process
      BY <3>1
    <3>3. proc' \in [Pids -> Process]
      BY <1>6, <2>1, <3>2 DEF ReadBack
    <3>4. QED
      BY <1>6, <2>1, <3>3 DEF ReadBack
  <2>2. CASE tokenFile # p
    <3>1. proc' = [proc EXCEPT ![p].pc = "dead"]
      BY <1>6, <2>2 DEF ReadBack
    <3>2. proc' \in [Pids -> Process]
      BY <3>1, SMTT(30)
    <3>3. QED
      BY <1>6, <3>1, <3>2 DEF ReadBack
  <2>3. QED
    BY <2>1, <2>2
<1>7. ASSUME NEW p \in Pids, Serve(p) PROVE TypeOK'
  BY <1>7, SMTT(30) DEF Serve, Step
<1>8. ASSUME NEW p \in Pids, Die(p) PROVE TypeOK'
  <2>1. proc' \in [Pids -> Process]
    BY <1>8, ZenonT(60) DEF Die
  <2>2. OwnPort'
    BY <1>8 DEF Die
  <2>3. QED
    BY <1>8, <2>1, <2>2, SMTT(30) DEF Die
<1>9. ASSUME NEW c \in Commands, NEW what \in {"start", "stop"}, NEW port \in Ports,
             Begin(c, what, port) PROVE TypeOK'
  BY <1>9 DEF Begin
<1>10. ASSUME NEW c \in Commands, NEW p \in Pids, Healthy(c, p) PROVE TypeOK'
  BY <1>10 DEF Healthy, Serving
<1>11. ASSUME NEW c \in Commands, NEW p \in Pids, Spawn(c, p) PROVE TypeOK'
  <2>1. Started(cmd[c].port) \in Process
    BY DEF Started
  <2>2. proc' \in [Pids -> Process]
    BY <1>11, <2>1 DEF Spawn
  <2>3. cmd[c] \in Command /\ p \in 0..MaxPid
    OBVIOUS
  <2>4. [cmd[c] EXCEPT !.pc = "wait", !.pid = p] \in Command
    BY <2>3
  <2>5. cmd' \in [Commands -> Command]
    BY <1>11, <2>4 DEF Spawn
  <2>6. OwnPort'
    BY <1>11 DEF Spawn, Fresh, Started
  <2>7. QED
    BY <1>11, <2>2, <2>5, <2>6 DEF Spawn
<1>12. ASSUME NEW c \in Commands, NotHealthy(c) PROVE TypeOK'
  BY <1>12 DEF NotHealthy, NoCommand
<1>13. ASSUME NEW c \in Commands, Found(c) PROVE TypeOK'
  BY <1>13, SMTT(30) DEF Found, Serving
<1>14. ASSUME NEW c \in Commands, NotFound(c) PROVE TypeOK'
  BY <1>14 DEF NotFound, NoCommand
<1>15. ASSUME NEW c \in Commands, WritePid(c) PROVE TypeOK'
  BY <1>15 DEF WritePid, NoCommand
<1>16. ASSUME NEW c \in Commands, Terminate(c) PROVE TypeOK'
  <2>1. cmd[c].pid \in Pids /\ proc[cmd[c].pid] \in Process
    BY <1>16 DEF Terminate
  <2>2. PICK q \in Pids : q = cmd[c].pid
    BY <2>1
  <2>3. proc' = [proc EXCEPT ![q].pc = "dead"] /\ cmd' = [cmd EXCEPT ![c].pc = "remove"]
    BY <1>16, <2>2 DEF Terminate
  <2>4. proc' \in [Pids -> Process] /\ cmd' \in [Commands -> Command]
    BY <2>1, <2>2, <2>3, ZenonT(60)
  <2>5. OwnPort'
    BY <1>16, <2>1, <2>2, <2>3 DEF Terminate
  <2>6. QED
    BY <1>16, <2>4, <2>5 DEF Terminate
<1>17. ASSUME NEW c \in Commands, TerminateFails(c) PROVE TypeOK'
  BY <1>17 DEF TerminateFails, NoCommand
<1>18. ASSUME NEW c \in Commands, RemovePid(c) PROVE TypeOK'
  BY <1>18 DEF RemovePid, NoCommand
<1>19. CASE UNCHANGED vars
  BY <1>19 DEF vars
<1>20. CASE \E p \in Pids : (\E port \in Ports : Launch(p, port)) \/ Bind(p) \/ LoadToken(p)
                   \/ CreateToken(p) \/ RenameToken(p) \/ ReadBack(p) \/ Serve(p) \/ Die(p)
  BY <1>20, <1>1, <1>2, <1>3, <1>4, <1>5, <1>6, <1>7, <1>8
<1>21. CASE \E c \in Commands :
          \/ \E what \in {"start", "stop"}, port \in Ports : Begin(c, what, port)
          \/ \E p \in Pids : Healthy(c, p) \/ Spawn(c, p)
          \/ NotHealthy(c) \/ Found(c) \/ NotFound(c) \/ WritePid(c)
          \/ Terminate(c) \/ TerminateFails(c) \/ RemovePid(c)
  BY <1>21, <1>9, <1>10, <1>11, <1>12, <1>13, <1>14, <1>15, <1>16, <1>17, <1>18
<1>22. QED
  BY <1>19, <1>20, <1>21 DEF Next

\* Every step keeps processes, files and commands in their types, and a command deals with a
\* process of its own port (daemonize passes --port on).
THEOREM TypeCorrect == Spec => []TypeOK
  BY InitTypeOK, NextTypeOK, PTL DEF Spec

-----------------------------------------------------------------------------
LEMMA InitExclusive == Init => Exclusive
  BY DEF Init, Exclusive, Holds, Holding

LEMMA NextExclusive == TypeOK /\ Exclusive /\ [Next]_vars => Exclusive'
<1> SUFFICES ASSUME TypeOK, Exclusive, [Next]_vars PROVE Exclusive'
  OBVIOUS
<1> USE DEF Exclusive, Holds, TypeOK, Process, Command, OwnPort, Holding, Alive, Pids, Settling
<1>1. ASSUME NEW p \in Pids, NEW port \in Ports, Launch(p, port) PROVE Exclusive'
  BY <1>1 DEF Launch, Fresh, Started
<1>2. ASSUME NEW p \in Pids, Bind(p) PROVE Exclusive'
  BY <1>2 DEF Bind, PortTaken, Step
<1>3. ASSUME NEW p \in Pids, LoadToken(p) PROVE Exclusive'
  BY <1>3 DEF LoadToken
<1>4. ASSUME NEW p \in Pids, CreateToken(p) PROVE Exclusive'
  BY <1>4 DEF CreateToken, Step
<1>5. ASSUME NEW p \in Pids, RenameToken(p) PROVE Exclusive'
  BY <1>5 DEF RenameToken, Step
<1>6. ASSUME NEW p \in Pids, ReadBack(p) PROVE Exclusive'
  BY <1>6 DEF ReadBack
<1>7. ASSUME NEW p \in Pids, Serve(p) PROVE Exclusive'
  BY <1>7 DEF Serve, Step
<1>8. ASSUME NEW p \in Pids, Die(p) PROVE Exclusive'
  BY <1>8 DEF Die
<1>9. ASSUME NEW c \in Commands, NEW what \in {"start", "stop"}, NEW port \in Ports,
             Begin(c, what, port) PROVE Exclusive'
  BY <1>9 DEF Begin
<1>10. ASSUME NEW c \in Commands, NEW p \in Pids, Healthy(c, p) PROVE Exclusive'
  BY <1>10 DEF Healthy, Serving
<1>11. ASSUME NEW c \in Commands, NEW p \in Pids, Spawn(c, p) PROVE Exclusive'
  BY <1>11 DEF Spawn, Fresh, Started
<1>12. ASSUME NEW c \in Commands, NotHealthy(c) PROVE Exclusive'
  BY <1>12 DEF NotHealthy, NoCommand
<1>13. ASSUME NEW c \in Commands, Found(c) PROVE Exclusive'
  BY <1>13 DEF Found, Serving
<1>14. ASSUME NEW c \in Commands, NotFound(c) PROVE Exclusive'
  BY <1>14 DEF NotFound, NoCommand
<1>15. ASSUME NEW c \in Commands, WritePid(c) PROVE Exclusive'
  BY <1>15 DEF WritePid, NoCommand
<1>16. ASSUME NEW c \in Commands, Terminate(c) PROVE Exclusive'
  <2>1. cmd[c].pid \in Pids /\ proc[cmd[c].pid] \in Process
    BY <1>16 DEF Terminate
  <2>2. PICK q \in Pids : q = cmd[c].pid
    BY <2>1
  <2>3. proc' = [proc EXCEPT ![q].pc = "dead"] /\ cmd' = [cmd EXCEPT ![c].pc = "remove"]
    BY <1>16, <2>2 DEF Terminate
  <2>4. QED
    BY <1>16, <2>1, <2>2, <2>3 DEF Terminate
<1>17. ASSUME NEW c \in Commands, TerminateFails(c) PROVE Exclusive'
  BY <1>17 DEF TerminateFails, NoCommand
<1>18. ASSUME NEW c \in Commands, RemovePid(c) PROVE Exclusive'
  BY <1>18 DEF RemovePid, NoCommand
<1>19. CASE UNCHANGED vars
  BY <1>19 DEF vars
<1>20. CASE \E p \in Pids : (\E port \in Ports : Launch(p, port)) \/ Bind(p) \/ LoadToken(p)
                   \/ CreateToken(p) \/ RenameToken(p) \/ ReadBack(p) \/ Serve(p) \/ Die(p)
  BY <1>20, <1>1, <1>2, <1>3, <1>4, <1>5, <1>6, <1>7, <1>8
<1>21. CASE \E c \in Commands :
          \/ \E what \in {"start", "stop"}, port \in Ports : Begin(c, what, port)
          \/ \E p \in Pids : Healthy(c, p) \/ Spawn(c, p)
          \/ NotHealthy(c) \/ Found(c) \/ NotFound(c) \/ WritePid(c)
          \/ Terminate(c) \/ TerminateFails(c) \/ RemovePid(c)
  BY <1>21, <1>9, <1>10, <1>11, <1>12, <1>13, <1>14, <1>15, <1>16, <1>17, <1>18
<1>22. QED
  BY <1>19, <1>20, <1>21 DEF Next

-----------------------------------------------------------------------------
LEMMA InitTokenInv == Init => TokenInv
  BY DEF Init, TokenInv

LEMMA NextTokenInv == TypeOK /\ Exclusive /\ TokenInv /\ [Next]_vars => TokenInv'
<1> SUFFICES ASSUME TypeOK, Exclusive, TokenInv, [Next]_vars PROVE TokenInv'
  OBVIOUS
<1> USE DEF TokenInv, Foreign, Exclusive, Holds, TypeOK, Process, Command, OwnPort, Holding, Alive, Pids, Settling
<1>1. ASSUME NEW p \in Pids, NEW port \in Ports, Launch(p, port) PROVE TokenInv'
  BY <1>1 DEF Launch, Fresh, Started
<1>2. ASSUME NEW p \in Pids, Bind(p) PROVE TokenInv'
  BY <1>2 DEF Bind, PortTaken, Step
<1>3. ASSUME NEW p \in Pids, LoadToken(p) PROVE TokenInv'
  BY <1>3 DEF LoadToken
<1>4. ASSUME NEW p \in Pids, CreateToken(p) PROVE TokenInv'
  BY <1>4 DEF CreateToken, Step
<1>5. ASSUME NEW p \in Pids, RenameToken(p) PROVE TokenInv'
  BY <1>5 DEF RenameToken, Step
<1>6. ASSUME NEW p \in Pids, ReadBack(p) PROVE TokenInv'
  BY <1>6 DEF ReadBack
<1>7. ASSUME NEW p \in Pids, Serve(p) PROVE TokenInv'
  BY <1>7 DEF Serve, Step
<1>8. ASSUME NEW p \in Pids, Die(p) PROVE TokenInv'
  BY <1>8 DEF Die
<1>9. ASSUME NEW c \in Commands, NEW what \in {"start", "stop"}, NEW port \in Ports,
             Begin(c, what, port) PROVE TokenInv'
  BY <1>9 DEF Begin
<1>10. ASSUME NEW c \in Commands, NEW p \in Pids, Healthy(c, p) PROVE TokenInv'
  BY <1>10 DEF Healthy, Serving
<1>11. ASSUME NEW c \in Commands, NEW p \in Pids, Spawn(c, p) PROVE TokenInv'
  BY <1>11 DEF Spawn, Fresh, Started
<1>12. ASSUME NEW c \in Commands, NotHealthy(c) PROVE TokenInv'
  BY <1>12 DEF NotHealthy, NoCommand
<1>13. ASSUME NEW c \in Commands, Found(c) PROVE TokenInv'
  BY <1>13 DEF Found, Serving
<1>14. ASSUME NEW c \in Commands, NotFound(c) PROVE TokenInv'
  BY <1>14 DEF NotFound, NoCommand
<1>15. ASSUME NEW c \in Commands, WritePid(c) PROVE TokenInv'
  BY <1>15 DEF WritePid, NoCommand
<1>16. ASSUME NEW c \in Commands, Terminate(c) PROVE TokenInv'
  <2>1. cmd[c].pid \in Pids /\ proc[cmd[c].pid] \in Process
    BY <1>16 DEF Terminate
  <2>2. PICK q \in Pids : q = cmd[c].pid
    BY <2>1
  <2>3. proc' = [proc EXCEPT ![q].pc = "dead"] /\ cmd' = [cmd EXCEPT ![c].pc = "remove"]
    BY <1>16, <2>2 DEF Terminate
  <2>4. QED
    BY <1>16, <2>1, <2>2, <2>3 DEF Terminate
<1>17. ASSUME NEW c \in Commands, TerminateFails(c) PROVE TokenInv'
  BY <1>17 DEF TerminateFails, NoCommand
<1>18. ASSUME NEW c \in Commands, RemovePid(c) PROVE TokenInv'
  BY <1>18 DEF RemovePid, NoCommand
<1>19. CASE UNCHANGED vars
  BY <1>19 DEF vars
<1>20. CASE \E p \in Pids : (\E port \in Ports : Launch(p, port)) \/ Bind(p) \/ LoadToken(p)
                   \/ CreateToken(p) \/ RenameToken(p) \/ ReadBack(p) \/ Serve(p) \/ Die(p)
  BY <1>20, <1>1, <1>2, <1>3, <1>4, <1>5, <1>6, <1>7, <1>8
<1>21. CASE \E c \in Commands :
          \/ \E what \in {"start", "stop"}, port \in Ports : Begin(c, what, port)
          \/ \E p \in Pids : Healthy(c, p) \/ Spawn(c, p)
          \/ NotHealthy(c) \/ Found(c) \/ NotFound(c) \/ WritePid(c)
          \/ Terminate(c) \/ TerminateFails(c) \/ RemovePid(c)
  BY <1>21, <1>9, <1>10, <1>11, <1>12, <1>13, <1>14, <1>15, <1>16, <1>17, <1>18
<1>22. QED
  BY <1>19, <1>20, <1>21 DEF Next

\* A server answers to the token in the file unless a process on another port put its own
\* there: binding before the token is looked for keeps the servers of one port apart.
THEOREM TokenIsKept == Spec => []TokenKept
<1>1. TokenInv => TokenKept
  BY DEF TokenInv, TokenKept, Foreign
<1>2. QED
  BY InitTypeOK, NextTypeOK, InitExclusive, NextExclusive, InitTokenInv, NextTokenInv, <1>1,
     PTL DEF Spec

-----------------------------------------------------------------------------
LEMMA InitPidInv == Init => PidInv
  BY DEF Init, PidInv, NoCommand, Settling

LEMMA NextPidInv == TypeOK /\ Exclusive /\ PidInv /\ [Next]_vars => PidInv'
<1> SUFFICES ASSUME TypeOK, Exclusive, PidInv, [Next]_vars PROVE PidInv'
  OBVIOUS
<1> USE DEF PidInv, Elsewhere, Exclusive, Holds, TypeOK, Process, Command, OwnPort, Holding, Alive, Pids, Settling
<1>1. ASSUME NEW p \in Pids, NEW port \in Ports, Launch(p, port) PROVE PidInv'
  BY <1>1 DEF Launch, Fresh, Started
<1>2. ASSUME NEW p \in Pids, Bind(p) PROVE PidInv'
  BY <1>2 DEF Bind, PortTaken, Step
<1>3. ASSUME NEW p \in Pids, LoadToken(p) PROVE PidInv'
  BY <1>3 DEF LoadToken
<1>4. ASSUME NEW p \in Pids, CreateToken(p) PROVE PidInv'
  BY <1>4 DEF CreateToken, Step
<1>5. ASSUME NEW p \in Pids, RenameToken(p) PROVE PidInv'
  BY <1>5 DEF RenameToken, Step
<1>6. ASSUME NEW p \in Pids, ReadBack(p) PROVE PidInv'
  BY <1>6 DEF ReadBack
<1>7. ASSUME NEW p \in Pids, Serve(p) PROVE PidInv'
  BY <1>7 DEF Serve, Step
<1>8. ASSUME NEW p \in Pids, Die(p) PROVE PidInv'
  BY <1>8 DEF Die
<1>9. ASSUME NEW c \in Commands, NEW what \in {"start", "stop"}, NEW port \in Ports,
             Begin(c, what, port) PROVE PidInv'
  BY <1>9 DEF Begin
<1>10. ASSUME NEW c \in Commands, NEW p \in Pids, Healthy(c, p) PROVE PidInv'
  BY <1>10 DEF Healthy, Serving
<1>11. ASSUME NEW c \in Commands, NEW p \in Pids, Spawn(c, p) PROVE PidInv'
  BY <1>11 DEF Spawn, Fresh, Started
<1>12. ASSUME NEW c \in Commands, NotHealthy(c) PROVE PidInv'
  BY <1>12, SMTT(30) DEF NotHealthy, NoCommand
<1>13. ASSUME NEW c \in Commands, Found(c) PROVE PidInv'
  BY <1>13 DEF Found, Serving
<1>14. ASSUME NEW c \in Commands, NotFound(c) PROVE PidInv'
  BY <1>14 DEF NotFound, NoCommand
<1>15. ASSUME NEW c \in Commands, WritePid(c) PROVE PidInv'
  BY <1>15 DEF WritePid, NoCommand
<1>16. ASSUME NEW c \in Commands, Terminate(c) PROVE PidInv'
  <2>1. cmd[c].pid \in Pids /\ proc[cmd[c].pid] \in Process
    BY <1>16 DEF Terminate
  <2>2. PICK q \in Pids : q = cmd[c].pid
    BY <2>1
  <2>3. proc' = [proc EXCEPT ![q].pc = "dead"] /\ cmd' = [cmd EXCEPT ![c].pc = "remove"]
    BY <1>16, <2>2 DEF Terminate
  <2>4. QED
    BY <1>16, <2>1, <2>2, <2>3 DEF Terminate
<1>17. ASSUME NEW c \in Commands, TerminateFails(c) PROVE PidInv'
  BY <1>17 DEF TerminateFails, NoCommand
<1>18. ASSUME NEW c \in Commands, RemovePid(c) PROVE PidInv'
  BY <1>18 DEF RemovePid, NoCommand
<1>19. CASE UNCHANGED vars
  BY <1>19 DEF vars
<1>20. CASE \E p \in Pids : (\E port \in Ports : Launch(p, port)) \/ Bind(p) \/ LoadToken(p)
                   \/ CreateToken(p) \/ RenameToken(p) \/ ReadBack(p) \/ Serve(p) \/ Die(p)
  BY <1>20, <1>1, <1>2, <1>3, <1>4, <1>5, <1>6, <1>7, <1>8
<1>21. CASE \E c \in Commands :
          \/ \E what \in {"start", "stop"}, port \in Ports : Begin(c, what, port)
          \/ \E p \in Pids : Healthy(c, p) \/ Spawn(c, p)
          \/ NotHealthy(c) \/ Found(c) \/ NotFound(c) \/ WritePid(c)
          \/ Terminate(c) \/ TerminateFails(c) \/ RemovePid(c)
  BY <1>21, <1>9, <1>10, <1>11, <1>12, <1>13, <1>14, <1>15, <1>16, <1>17, <1>18
<1>22. QED
  BY <1>19, <1>20, <1>21 DEF Next

\* The pid file names the running server unless a command for an earlier one was under way when
\* it started, or the home is used on another port.
THEOREM PidFileIsFollowing == Spec => []PidFileFollows
<1>1. PidInv => PidFileFollows
  BY DEF PidInv, PidFileFollows, Elsewhere
<1>2. QED
  BY InitTypeOK, NextTypeOK, InitExclusive, NextExclusive, InitPidInv, NextPidInv, <1>1,
     PTL DEF Spec
=============================================================================
