-------------------------- MODULE RpcSessionProofs --------------------------
(* Proofs of the safety properties of RpcSession, for any number of callers, *)
(* sessions and calls.                                                       *)
EXTENDS RpcSession, TLAPS

\* Control points at which a caller works on the session in sess.
OnSession == {"fastReady", "lockedReady", "startReady", "publish", "notify",
              "setInitialized"} \cup Requesting

\* A caller marks only the current session, inside a liveness check.
ControlOK ==
    /\ \A c \in Callers : mark[c] # "no" =>
          current # NoSession /\ pc[c] \in LiveChecks /\ mark[c] # "ended"
    /\ \A c \in Callers : pc[c] \in OnSession => sess[c] # NoSession

TypeInv == TypeOK /\ ControlOK

LEMMA InitTypeInv == Init => TypeInv
  BY ConstantsAssumption DEF Init, TypeInv, TypeOK, ClientType, SessionType, ServerType,
     AgentType, CallerType, ControlOK, OnSession, Requesting,
     LiveChecks, PCs, Marks, Agents, Sessions, NoSession, NoReply, Answers, Kinds, Lines, Responses

\* What a step leaves alone keeps its type.
LEMMA TypeFrame ==
    /\ ClientType /\ UNCHANGED clientVars => ClientType'
    /\ SessionType /\ UNCHANGED sessionVars => SessionType'
    /\ ServerType /\ UNCHANGED serverVars => ServerType'
    /\ AgentType /\ UNCHANGED <<readerVars, markVars>> => AgentType'
    /\ CallerType /\ UNCHANGED callerVars => CallerType'
    /\ ControlOK /\ UNCHANGED <<clientVars, markVars, callerVars>> => ControlOK'
  BY DEF ClientType, SessionType, ServerType, AgentType, CallerType, ControlOK,
     clientVars, sessionVars, serverVars, readerVars, markVars, callerVars

LEMMA LineTypes ==
    /\ Unreadable \in Lines
    /\ \A id \in Nat, r \in Answers :
          [id |-> id, res |-> r] \in Responses /\ [id |-> id, res |-> r] \in Lines
    /\ \A id \in Nat, k \in Kinds : [id |-> id, kind |-> k] \in [id : Nat, kind : Kinds]
  BY DEF Unreadable, Lines, Responses

LEMMA CallerNotReader == Callers \cap Sessions = {}
  BY ConstantsAssumption DEF Sessions

LEMMA FunctionTypes ==
  TypeOK => /\ pc \in [Callers -> PCs]
            /\ purpose \in [Callers -> Kinds]
            /\ sess \in [Callers -> Sessions \cup {NoSession}]
            /\ mark \in [Agents -> Marks]
            /\ Callers \subseteq Agents /\ Sessions \subseteq Agents
            /\ NoSession \notin Sessions
            /\ current \in Sessions \cup {NoSession}
            /\ alive \in [Sessions -> BOOLEAN]
            /\ started \in Nat /\ Sessions \subseteq Int /\ NoSession \in Int
            /\ child \in [Sessions -> {"absent", "running", "exited"}]
  BY DEF TypeOK, CallerType, AgentType, ClientType, SessionType, ServerType, Agents,
     Sessions, NoSession

LEMMA TableTypes ==
  TypeOK => /\ pc \in [Callers -> PCs]
            /\ sess \in [Callers -> Sessions \cup {NoSession}]
            /\ req \in [Callers -> Nat]
            /\ chan \in [Callers -> {NoReply, "exited"} \cup Answers]
            /\ nextId \in [Sessions -> Nat]
            /\ pending \in [Sessions -> SUBSET Nat]
            /\ popped \in [Sessions -> SUBSET Responses]
            /\ failing \in [Agents -> SUBSET Nat]
            /\ Callers \subseteq Agents /\ Sessions \subseteq Agents
  BY DEF TypeOK, CallerType, AgentType, SessionType, Agents

LEMMA ReplyTypes ==
  TypeOK => /\ pc \in [Callers -> PCs]
            /\ sess \in [Callers -> Sessions \cup {NoSession}]
            /\ req \in [Callers -> Nat]
            /\ chan \in [Callers -> {NoReply, "exited"} \cup Answers]
            /\ alive \in [Sessions -> BOOLEAN]
            /\ popped \in [Sessions -> SUBSET Responses]
            /\ answered \in [Sessions -> SUBSET Responses]
            /\ out \in [Sessions -> Seq(Lines)]
  BY DEF TypeOK, CallerType, AgentType, SessionType, ServerType

LEMMA HandshakeTypes ==
  TypeOK => /\ pc \in [Callers -> PCs]
            /\ purpose \in [Callers -> Kinds]
            /\ sess \in [Callers -> Sessions \cup {NoSession}]
            /\ alive \in [Sessions -> BOOLEAN]
            /\ initialized \in [Sessions -> BOOLEAN]
            /\ stage \in [Sessions -> {"new", "asked", "ready"}]
  BY DEF TypeOK, CallerType, SessionType, ServerType

LEMMA ExitTypes ==
  TypeOK => /\ pc \in [Callers -> PCs]
            /\ sess \in [Callers -> Sessions \cup {NoSession}]
            /\ current \in Sessions \cup {NoSession}
            /\ alive \in [Sessions -> BOOLEAN]
            /\ exit \in [Sessions -> {"none", "status", "stream"}]
            /\ mark \in [Agents -> Marks]
            /\ Callers \subseteq Agents /\ Sessions \subseteq Agents
  BY DEF TypeOK, CallerType, SessionType, ClientType, AgentType, Agents

LEMMA SubjectType ==
  TypeInv => \A a \in Agents : mark[a] # "no" => Subject(a) \in Sessions
  BY FunctionTypes DEF TypeInv, ControlOK, Subject, Agents

LEMMA SessionTypes ==
  TypeInv => \A c \in Callers : pc[c] \in OnSession => sess[c] \in Sessions
  BY FunctionTypes DEF TypeInv, ControlOK

\* While the runtime mutex is free only readers hold drained senders.
LEMMA DrainedSubject ==
  TypeInv /\ RuntimeFree => \A a \in Agents : failing[a] # {} => Subject(a)' = Subject(a)
  BY DEF TypeInv, TypeOK, AgentType, RuntimeFree, Subject, Agents

LEMMA NextTypeInv == TypeInv /\ [Next]_vars => TypeInv'
<1> SUFFICES ASSUME TypeInv, [Next]_vars PROVE TypeInv'
  OBVIOUS
<1> USE ConstantsAssumption DEF TypeInv, TypeOK
<1>1. ASSUME NEW c \in Callers, Ask(c) PROVE TypeInv'
  <2>1. CallerType'
    BY <1>1 DEF Ask, Go, CallerType, callerVars, PCs, LiveChecks, Requesting, Kinds
  <2>2. ControlOK'
    BY <1>1, FunctionTypes, CallerNotReader DEF Ask, Go, ControlOK, clientVars, markVars, callerVars, OnSession, LiveChecks, Requesting
  <2> QED
    BY <1>1, <2>1, <2>2, TypeFrame DEF Ask
<1>2. ASSUME NEW c \in Callers, RefreshHome(c) PROVE TypeInv'
  <2>1. CallerType'
    BY <1>2 DEF RefreshHome, Go, LifecycleFree, CallerType, callerVars, PCs, LiveChecks, Requesting, Kinds
  <2>2. ControlOK'
    BY <1>2, FunctionTypes, CallerNotReader DEF RefreshHome, Go, LifecycleFree, ControlOK, clientVars, markVars, callerVars, OnSession, LiveChecks, Requesting
  <2> QED
    BY <1>2, <2>1, <2>2, TypeFrame DEF RefreshHome
<1>3. ASSUME NEW c \in Callers, SeeLive(c) PROVE TypeInv'
  <2>1. CallerType'
    BY <1>3 DEF SeeLive, Go, HasLive, IfLive, RuntimeFree, CallerType, callerVars, PCs, LiveChecks, Requesting, Kinds, ClientType
  <2>2. ControlOK'
    BY <1>3, FunctionTypes, CallerNotReader DEF SeeLive, Go, HasLive, IfLive, RuntimeFree, ControlOK, clientVars, markVars, callerVars, OnSession, LiveChecks, Requesting
  <2> QED
    BY <1>3, <2>1, <2>2, TypeFrame DEF SeeLive
<1>4. ASSUME NEW c \in Callers, SeeNone(c) PROVE TypeInv'
  <2>1. ClientType'
    BY <1>4 DEF SeeNone, Go, HasLive, IfNotLive, StatusExit, RuntimeFree, ClientType, clientVars, SessionType
  <2>2. CallerType'
    BY <1>4 DEF SeeNone, Go, HasLive, IfNotLive, StatusExit, RuntimeFree, CallerType, callerVars, PCs, LiveChecks, Requesting, Kinds
  <2>3. ControlOK'
    BY <1>4, FunctionTypes, CallerNotReader DEF SeeNone, Go, HasLive, IfNotLive, StatusExit, RuntimeFree, ControlOK, clientVars, markVars, callerVars, OnSession, LiveChecks, Requesting
  <2> QED
    BY <1>4, <2>1, <2>2, <2>3, TypeFrame DEF SeeNone
<1>5. ASSUME NEW c \in Callers, SeeExited(c) PROVE TypeInv'
  <2>1. AgentType'
    BY <1>5 DEF SeeExited, Go, HasLive, RuntimeFree, AgentType, readerVars, markVars, Marks, Agents
  <2>2. ControlOK'
    BY <1>5, FunctionTypes, CallerNotReader DEF SeeExited, Go, HasLive, RuntimeFree, ControlOK, clientVars, markVars, callerVars, OnSession, LiveChecks, Requesting
  <2> QED
    BY <1>5, <2>1, <2>2, TypeFrame DEF SeeExited
<1>6. ASSUME NEW c \in Callers, CheckReady(c) PROVE TypeInv'
  <2>1. ClientType'
    BY <1>6 DEF CheckReady, Go, Release, ClientType, clientVars
  <2>2. CallerType'
    BY <1>6 DEF CheckReady, Go, Release, CallerType, callerVars, PCs, LiveChecks, Requesting, Kinds
  <2>3. ControlOK'
    BY <1>6, FunctionTypes, CallerNotReader DEF CheckReady, Go, Release, ControlOK, clientVars, markVars, callerVars, OnSession, LiveChecks, Requesting
  <2> QED
    BY <1>6, <2>1, <2>2, <2>3, TypeFrame DEF CheckReady
<1>7. ASSUME NEW c \in Callers, TakeLifecycle(c) PROVE TypeInv'
  <2>1. ClientType'
    BY <1>7 DEF TakeLifecycle, Go, LifecycleFree, ClientType, clientVars
  <2>2. CallerType'
    BY <1>7 DEF TakeLifecycle, Go, LifecycleFree, CallerType, callerVars, PCs, LiveChecks, Requesting, Kinds
  <2>3. ControlOK'
    BY <1>7, FunctionTypes, CallerNotReader DEF TakeLifecycle, Go, LifecycleFree, ControlOK, clientVars, markVars, callerVars, OnSession, LiveChecks, Requesting
  <2> QED
    BY <1>7, <2>1, <2>2, <2>3, TypeFrame DEF TakeLifecycle
<1>8. ASSUME NEW c \in Callers, StartFails(c) PROVE TypeInv'
  <2>1. ClientType'
    BY <1>8 DEF StartFails, Go, Return, Release, ClientType, clientVars
  <2>2. CallerType'
    BY <1>8 DEF StartFails, Go, Return, Release, CallerType, callerVars, PCs, LiveChecks, Requesting, Kinds
  <2>3. ControlOK'
    BY <1>8, FunctionTypes, CallerNotReader DEF StartFails, Go, Return, Release, ControlOK, clientVars, markVars, callerVars, OnSession, LiveChecks, Requesting
  <2> QED
    BY <1>8, <2>1, <2>2, <2>3, TypeFrame DEF StartFails
<1>9. ASSUME NEW c \in Callers, Spawn(c) PROVE TypeInv'
  <2>1. ServerType'
    BY <1>9, LineTypes DEF Spawn, Go, ServerType, serverVars, ClientType, Sessions
  <2>2. SessionType'
    BY <1>9 DEF Spawn, Go, SessionType, sessionVars, ClientType, Sessions
  <2>3. ClientType'
    BY <1>9 DEF Spawn, Go, ClientType, clientVars
  <2>4. CallerType'
    BY <1>9 DEF Spawn, Go, CallerType, callerVars, PCs, LiveChecks, Requesting, Kinds, ClientType, Sessions
  <2>5. ControlOK'
    BY <1>9, FunctionTypes, CallerNotReader DEF Spawn, Go, ControlOK, clientVars, markVars, callerVars, OnSession, LiveChecks, Requesting, ClientType, Sessions, NoSession
  <2> QED
    BY <1>9, <2>1, <2>2, <2>3, <2>4, <2>5, TypeFrame DEF Spawn
<1>10. ASSUME NEW c \in Callers, Publish(c) PROVE TypeInv'
  <2>1. ClientType'
    BY <1>10 DEF Publish, Go, RuntimeFree, ClientType, clientVars, ControlOK, OnSession, CallerType
  <2>2. CallerType'
    BY <1>10 DEF Publish, Go, RuntimeFree, CallerType, callerVars, PCs, LiveChecks, Requesting, Kinds
  <2>3. ControlOK'
    BY <1>10, FunctionTypes, CallerNotReader DEF Publish, Go, RuntimeFree, ControlOK, clientVars, markVars, callerVars, OnSession, LiveChecks, Requesting
  <2> QED
    BY <1>10, <2>1, <2>2, <2>3, TypeFrame DEF Publish
<1>11. ASSUME NEW c \in Callers, CheckInitialized(c) PROVE TypeInv'
  <2>1. ClientType'
    BY <1>11 DEF CheckInitialized, Go, Release, ClientType, clientVars
  <2>2. CallerType'
    BY <1>11 DEF CheckInitialized, Go, Release, CallerType, callerVars, PCs, LiveChecks, Requesting, Kinds
  <2>3. ControlOK'
    BY <1>11, FunctionTypes, CallerNotReader DEF CheckInitialized, Go, Release, ControlOK, clientVars, markVars, callerVars, OnSession, LiveChecks, Requesting
  <2> QED
    BY <1>11, <2>1, <2>2, <2>3, TypeFrame DEF CheckInitialized
<1>12. ASSUME NEW c \in Callers, RefuseDead(c) PROVE TypeInv'
  <2>1. ClientType'
    BY <1>12 DEF RefuseDead, Go, Return, Release, ClientType, clientVars
  <2>2. CallerType'
    BY <1>12 DEF RefuseDead, Go, Return, Release, CallerType, callerVars, PCs, LiveChecks, Requesting, Kinds
  <2>3. ControlOK'
    BY <1>12, FunctionTypes, CallerNotReader DEF RefuseDead, Go, Return, Release, ControlOK, clientVars, markVars, callerVars, OnSession, LiveChecks, Requesting
  <2> QED
    BY <1>12, <2>1, <2>2, <2>3, TypeFrame DEF RefuseDead
<1>13. ASSUME NEW c \in Callers, SeeAlive(c) PROVE TypeInv'
  <2>1. CallerType'
    BY <1>13 DEF SeeAlive, Go, CallerType, callerVars, PCs, LiveChecks, Requesting, Kinds
  <2>2. ControlOK'
    BY <1>13, FunctionTypes, CallerNotReader DEF SeeAlive, Go, ControlOK, clientVars, markVars, callerVars, OnSession, LiveChecks, Requesting
  <2> QED
    BY <1>13, <2>1, <2>2, TypeFrame DEF SeeAlive
<1>14. ASSUME NEW c \in Callers, Register(c) PROVE TypeInv'
  <2>1. SessionType'
    BY <1>14 DEF Register, Go, SessionType, sessionVars, ControlOK, OnSession, Requesting, CallerType
  <2>2. CallerType'
    BY <1>14 DEF Register, Go, CallerType, callerVars, PCs, LiveChecks, Requesting, Kinds, ControlOK, OnSession, SessionType, NoReply
  <2>3. ControlOK'
    BY <1>14, FunctionTypes, CallerNotReader DEF Register, Go, ControlOK, clientVars, markVars, callerVars, OnSession, LiveChecks, Requesting
  <2> QED
    BY <1>14, <2>1, <2>2, <2>3, TypeFrame DEF Register
<1>15. ASSUME NEW c \in Callers, Write(c) PROVE TypeInv'
  <2>1. ServerType'
    BY <1>15, LineTypes DEF Write, Go, ServerType, serverVars, CallerType
  <2>2. CallerType'
    BY <1>15 DEF Write, Go, CallerType, callerVars, PCs, LiveChecks, Requesting, Kinds
  <2>3. ControlOK'
    BY <1>15, FunctionTypes, CallerNotReader DEF Write, Go, ControlOK, clientVars, markVars, callerVars, OnSession, LiveChecks, Requesting
  <2> QED
    BY <1>15, <2>1, <2>2, <2>3, TypeFrame DEF Write
<1>16. ASSUME NEW c \in Callers, WriteFails(c) PROVE TypeInv'
  <2>1. CallerType'
    BY <1>16 DEF WriteFails, Go, CallerType, callerVars, PCs, LiveChecks, Requesting, Kinds
  <2>2. ControlOK'
    BY <1>16, FunctionTypes, CallerNotReader DEF WriteFails, Go, ControlOK, clientVars, markVars, callerVars, OnSession, LiveChecks, Requesting
  <2> QED
    BY <1>16, <2>1, <2>2, TypeFrame DEF WriteFails
<1>17. ASSUME NEW c \in Callers, Receive(c) PROVE TypeInv'
  <2>1. ClientType'
    BY <1>17 DEF Receive, Go, Return, Release, AfterInitialize, ClientType, clientVars
  <2>2. CallerType'
    BY <1>17 DEF Receive, Go, Return, Release, AfterInitialize, CallerType, callerVars, PCs, LiveChecks, Requesting, Kinds
  <2>3. ControlOK'
    BY <1>17, FunctionTypes, CallerNotReader DEF Receive, Go, Return, Release, AfterInitialize, ControlOK, clientVars, markVars, callerVars, OnSession, LiveChecks, Requesting
  <2> QED
    BY <1>17, <2>1, <2>2, <2>3, TypeFrame DEF Receive
<1>18. ASSUME NEW c \in Callers, TimeOut(c) PROVE TypeInv'
  <2>1. CallerType'
    BY <1>18 DEF TimeOut, Go, CallerType, callerVars, PCs, LiveChecks, Requesting, Kinds
  <2>2. ControlOK'
    BY <1>18, FunctionTypes, CallerNotReader DEF TimeOut, Go, ControlOK, clientVars, markVars, callerVars, OnSession, LiveChecks, Requesting
  <2> QED
    BY <1>18, <2>1, <2>2, TypeFrame DEF TimeOut
<1>19. ASSUME NEW c \in Callers, RemovePending(c) PROVE TypeInv'
  <2>1. SessionType'
    BY <1>19 DEF RemovePending, Go, Return, Release, RemoveEntry, SessionType, sessionVars
  <2>2. ClientType'
    BY <1>19 DEF RemovePending, Go, Return, Release, RemoveEntry, ClientType, clientVars
  <2>3. CallerType'
    BY <1>19 DEF RemovePending, Go, Return, Release, RemoveEntry, CallerType, callerVars, PCs, LiveChecks, Requesting, Kinds
  <2>4. ControlOK'
    BY <1>19, FunctionTypes, CallerNotReader DEF RemovePending, Go, Return, Release, RemoveEntry, ControlOK, clientVars, markVars, callerVars, OnSession, LiveChecks, Requesting
  <2> QED
    BY <1>19, <2>1, <2>2, <2>3, <2>4, TypeFrame DEF RemovePending
<1>20. ASSUME NEW c \in Callers, Notify(c) PROVE TypeInv'
  <2>1. ServerType'
    BY <1>20, LineTypes DEF Notify, Go, ServerType, serverVars
  <2>2. CallerType'
    BY <1>20 DEF Notify, Go, CallerType, callerVars, PCs, LiveChecks, Requesting, Kinds
  <2>3. ControlOK'
    BY <1>20, FunctionTypes, CallerNotReader DEF Notify, Go, ControlOK, clientVars, markVars, callerVars, OnSession, LiveChecks, Requesting
  <2> QED
    BY <1>20, <2>1, <2>2, <2>3, TypeFrame DEF Notify
<1>21. ASSUME NEW c \in Callers, NotifyFails(c) PROVE TypeInv'
  <2>1. ClientType'
    BY <1>21 DEF NotifyFails, Go, Return, Release, ClientType, clientVars
  <2>2. CallerType'
    BY <1>21 DEF NotifyFails, Go, Return, Release, CallerType, callerVars, PCs, LiveChecks, Requesting, Kinds
  <2>3. ControlOK'
    BY <1>21, FunctionTypes, CallerNotReader DEF NotifyFails, Go, Return, Release, ControlOK, clientVars, markVars, callerVars, OnSession, LiveChecks, Requesting
  <2> QED
    BY <1>21, <2>1, <2>2, <2>3, TypeFrame DEF NotifyFails
<1>22. ASSUME NEW c \in Callers, SetInitialized(c) PROVE TypeInv'
  <2>1. SessionType'
    BY <1>22 DEF SetInitialized, Go, Release, SessionType, sessionVars
  <2>2. ClientType'
    BY <1>22 DEF SetInitialized, Go, Release, ClientType, clientVars
  <2>3. CallerType'
    BY <1>22 DEF SetInitialized, Go, Release, CallerType, callerVars, PCs, LiveChecks, Requesting, Kinds
  <2>4. ControlOK'
    BY <1>22, FunctionTypes, CallerNotReader DEF SetInitialized, Go, Release, ControlOK, clientVars, markVars, callerVars, OnSession, LiveChecks, Requesting
  <2> QED
    BY <1>22, <2>1, <2>2, <2>3, <2>4, TypeFrame DEF SetInitialized
<1>23. ASSUME NEW c \in Callers, CallerMarked(c) PROVE TypeInv'
  <2>1. ClientType'
    BY <1>23 DEF CallerMarked, Go, IfNotLive, StatusExit, ClientType, clientVars, SessionType
  <2>2. AgentType'
    BY <1>23 DEF CallerMarked, Go, IfNotLive, StatusExit, AgentType, readerVars, markVars, Marks, Agents
  <2>3. CallerType'
    BY <1>23 DEF CallerMarked, Go, IfNotLive, StatusExit, CallerType, callerVars, PCs, LiveChecks, Requesting, Kinds
  <2>4. ControlOK'
    BY <1>23, FunctionTypes, CallerNotReader DEF CallerMarked, Go, IfNotLive, StatusExit, ControlOK, clientVars, markVars, callerVars, OnSession, LiveChecks, Requesting
  <2> QED
    BY <1>23, <2>1, <2>2, <2>3, <2>4, TypeFrame DEF CallerMarked
<1>24. ASSUME NEW a \in Agents, Swap(a) PROVE TypeInv'
  <2>1. SessionType'
    BY <1>24 DEF Swap, Subject, FirstToSee, SessionType, sessionVars
  <2>2. AgentType'
    BY <1>24 DEF Swap, Subject, FirstToSee, AgentType, readerVars, markVars, Marks, Agents
  <2>3. ControlOK'
    BY <1>24, FunctionTypes, CallerNotReader DEF Swap, Subject, FirstToSee, ControlOK, clientVars, markVars, callerVars, OnSession, LiveChecks, Requesting
  <2> QED
    BY <1>24, <2>1, <2>2, <2>3, TypeFrame DEF Swap
<1>25. ASSUME NEW a \in Agents, Unready(a) PROVE TypeInv'
  <2>1. SessionType'
    BY <1>25 DEF Unready, Subject, SessionType, sessionVars
  <2>2. AgentType'
    BY <1>25 DEF Unready, Subject, AgentType, readerVars, markVars, Marks, Agents
  <2>3. ControlOK'
    BY <1>25, FunctionTypes, CallerNotReader DEF Unready, Subject, ControlOK, clientVars, markVars, callerVars, OnSession, LiveChecks, Requesting
  <2> QED
    BY <1>25, <2>1, <2>2, <2>3, TypeFrame DEF Unready
<1>26. ASSUME NEW a \in Agents, Record(a) PROVE TypeInv'
  <2>1. SessionType'
    BY <1>26 DEF Record, Subject, SessionType, sessionVars
  <2>2. AgentType'
    BY <1>26 DEF Record, Subject, AgentType, readerVars, markVars, Marks, Agents
  <2>3. ControlOK'
    BY <1>26, FunctionTypes, CallerNotReader DEF Record, Subject, ControlOK, clientVars, markVars, callerVars, OnSession, LiveChecks, Requesting
  <2> QED
    BY <1>26, <2>1, <2>2, <2>3, TypeFrame DEF Record
<1>27. ASSUME NEW a \in Agents, Drain(a) PROVE TypeInv'
  <2>1. SessionType'
    BY <1>27 DEF Drain, Subject, SessionType, sessionVars
  <2>2. AgentType'
    BY <1>27 DEF Drain, Subject, AgentType, readerVars, markVars, Marks, Agents, SessionType, ClientType, ControlOK
  <2>3. ControlOK'
    BY <1>27, FunctionTypes, CallerNotReader DEF Drain, Subject, ControlOK, clientVars, markVars, callerVars, OnSession, LiveChecks, Requesting
  <2> QED
    BY <1>27, <2>1, <2>2, <2>3, TypeFrame DEF Drain
<1>28. ASSUME NEW a \in Agents, Deliver(a) PROVE TypeInv'
  <2>1. AgentType'
    BY <1>28 DEF Deliver, Send, Subject, AgentType, readerVars, markVars, Marks, Agents
  <2>2. CallerType'
    BY <1>28 DEF Deliver, Send, Subject, CallerType, callerVars, PCs, LiveChecks, Requesting, Kinds
  <2>3. ControlOK'
    BY <1>28, FunctionTypes, CallerNotReader DEF Deliver, Send, Subject, ControlOK, clientVars, markVars, callerVars, OnSession, LiveChecks, Requesting
  <2> QED
    BY <1>28, <2>1, <2>2, <2>3, TypeFrame DEF Deliver
<1>29. ASSUME NEW s \in Sessions, TakeSender(s) PROVE TypeInv'
  <2>1. ServerType'
    BY <1>29, LineTypes DEF TakeSender, Reading, NextLine, RemoveEntry, ServerType, serverVars
  <2>2. SessionType'
    BY <1>29 DEF TakeSender, Reading, NextLine, RemoveEntry, SessionType, sessionVars
  <2>3. AgentType'
    BY <1>29 DEF TakeSender, Reading, NextLine, RemoveEntry, AgentType, readerVars, markVars, Marks, Agents, ServerType, Lines
  <2> QED
    BY <1>29, <2>1, <2>2, <2>3, TypeFrame DEF TakeSender
<1>30. ASSUME NEW s \in Sessions, Unmatched(s) PROVE TypeInv'
  <2>1. ServerType'
    BY <1>30, LineTypes DEF Unmatched, Reading, NextLine, ServerType, serverVars
  <2> QED
    BY <1>30, <2>1, TypeFrame DEF Unmatched
<1>31. ASSUME NEW s \in Sessions, Answer(s) PROVE TypeInv'
  <2>1. AgentType'
    BY <1>31 DEF Answer, Send, AgentType, readerVars, markVars, Marks, Agents
  <2>2. CallerType'
    BY <1>31 DEF Answer, Send, CallerType, callerVars, PCs, LiveChecks, Requesting, Kinds, AgentType, Responses
  <2>3. ControlOK'
    BY <1>31, FunctionTypes, CallerNotReader DEF Answer, Send, ControlOK, clientVars, markVars, callerVars, OnSession, LiveChecks, Requesting
  <2> QED
    BY <1>31, <2>1, <2>2, <2>3, TypeFrame DEF Answer
<1>32. ASSUME NEW s \in Sessions, StreamEnds(s) PROVE TypeInv'
  <2>1. AgentType'
    BY <1>32 DEF StreamEnds, Reading, AgentType, readerVars, markVars, Marks, Agents
  <2>2. ControlOK'
    BY <1>32, FunctionTypes, CallerNotReader DEF StreamEnds, Reading, ControlOK, clientVars, markVars, callerVars, OnSession, LiveChecks, Requesting
  <2> QED
    BY <1>32, <2>1, <2>2, TypeFrame DEF StreamEnds
<1>33. ASSUME NEW s \in Sessions, ReaderEnds(s) PROVE TypeInv'
  <2>1. ServerType'
    BY <1>33, LineTypes DEF ReaderEnds, ServerType, serverVars
  <2>2. AgentType'
    BY <1>33 DEF ReaderEnds, AgentType, readerVars, markVars, Marks, Agents
  <2>3. ControlOK'
    BY <1>33, FunctionTypes, CallerNotReader DEF ReaderEnds, ControlOK, clientVars, markVars, callerVars, OnSession, LiveChecks, Requesting
  <2> QED
    BY <1>33, <2>1, <2>2, <2>3, TypeFrame DEF ReaderEnds
<1>34. ASSUME NEW s \in Sessions, ServerAnswers(s) PROVE TypeInv'
  <2>1. ServerType'
    BY <1>34, LineTypes DEF ServerAnswers, ServerType, serverVars
  <2> QED
    BY <1>34, <2>1, TypeFrame DEF ServerAnswers
<1>35. ASSUME NEW s \in Sessions, ServerGarbles(s) PROVE TypeInv'
  <2>1. ServerType'
    BY <1>35, LineTypes DEF ServerGarbles, ServerType, serverVars
  <2> QED
    BY <1>35, <2>1, TypeFrame DEF ServerGarbles
<1>36. ASSUME NEW s \in Sessions, ServerExits(s) PROVE TypeInv'
  <2>1. ServerType'
    BY <1>36, LineTypes DEF ServerExits, ServerType, serverVars
  <2> QED
    BY <1>36, <2>1, TypeFrame DEF ServerExits
<1>37. CASE UNCHANGED vars
  BY <1>37, TypeFrame DEF vars
<1>38. QED
  BY <1>1, <1>2, <1>3, <1>4, <1>5, <1>6, <1>7, <1>8, <1>9, <1>10, <1>11, <1>12, <1>13, <1>14, <1>15, <1>16, <1>17, <1>18, <1>19, <1>20, <1>21, <1>22, <1>23, <1>24, <1>25, <1>26, <1>27, <1>28, <1>29, <1>30, <1>31, <1>32, <1>33, <1>34, <1>35, <1>36, <1>37 DEF Next, CallerStep, LocalStep, Writing, Marking, ReaderStep, Server, Finished

\* Every variable keeps its type, and an agent holds drained senders only
\* while it is failing them.
THEOREM TypeCorrect == Spec => []TypeOK
<1>1. TypeInv => TypeOK
  BY DEF TypeInv
<1>2. QED
  BY InitTypeInv, NextTypeInv, <1>1, PTL DEF Spec

-----------------------------------------------------------------------------
(* One live session                                                         *)

\* Callers inside the critical section of the lifecycle mutex.
InHandshake(c) ==
    \/ pc[c] \in {"lockedLive", "lockedReady", "startLive", "startReady", "start",
                  "publish", "notify", "setInitialized"}
    \/ pc[c] \in Requesting /\ purpose[c] = "initialize"

LifecycleOK == \A c \in Callers : InHandshake(c) => lifecycle = c

\* Only the last session started can be alive, and it is the current one or is
\* about to be published; nobody starts one while another is alive.
LiveOK ==
    /\ \A s \in Sessions : alive[s] =>
          /\ s = started
          /\ current = s \/ \E c \in Callers : pc[c] = "publish" /\ sess[c] = s
    /\ \A c \in Callers : pc[c] = "publish" => sess[c] = started
    /\ \A c \in Callers : pc[c] = "start" => \A s \in Sessions : ~alive[s]

\* Agents past the swap look at a dead session; what is not started is untouched.
MarkOK ==
    /\ \A a \in Agents : mark[a] \notin {"no", "swap"} => ~alive[Subject(a)]
    /\ \A s \in Sessions : s > started => child[s] = "absent" /\ mark[s] = "no"
    /\ current <= started
    /\ \A c \in Callers : sess[c] <= started

ProcessInv == LifecycleOK /\ LiveOK /\ MarkOK

LEMMA ProcessFrame ==
    /\ LifecycleOK /\ UNCHANGED <<pc, purpose, lifecycle>> => LifecycleOK'
    /\ LiveOK /\ UNCHANGED <<alive, started, current, pc, sess>> => LiveOK'
    /\ MarkOK /\ UNCHANGED <<mark, alive, current, started, child, sess>> => MarkOK'
  BY DEF LifecycleOK, InHandshake, LiveOK, MarkOK, Subject

LEMMA InitProcessInv == Init => ProcessInv
  BY ConstantsAssumption DEF Init, ProcessInv, LifecycleOK, InHandshake, LiveOK, MarkOK,
     Requesting, NoSession, Agents, Sessions, Subject

LEMMA NextProcessInv == TypeInv /\ TypeInv' /\ ProcessInv /\ [Next]_vars => ProcessInv'
<1> SUFFICES ASSUME TypeInv, TypeInv', ProcessInv, [Next]_vars PROVE ProcessInv'
  OBVIOUS
<1> USE DEF ProcessInv, TypeInv
<1>1. ASSUME NEW c \in Callers, Ask(c) PROVE ProcessInv'
  <2>1. LifecycleOK'
    BY <1>1, FunctionTypes DEF Ask, Go, LifecycleOK, InHandshake, Requesting, clientVars, sessionVars, serverVars, readerVars, markVars, callerVars
  <2>2. LiveOK'
    BY <1>1, FunctionTypes DEF Ask, Go, LiveOK, clientVars, sessionVars, serverVars, readerVars, markVars, callerVars
  <2> QED
    BY <1>1, <2>1, <2>2, ProcessFrame DEF Ask, clientVars, sessionVars, serverVars, readerVars, markVars, callerVars
<1>2. ASSUME NEW c \in Callers, RefreshHome(c) PROVE ProcessInv'
  <2>1. LifecycleOK'
    BY <1>2, FunctionTypes DEF RefreshHome, Go, LifecycleFree, LifecycleOK, InHandshake, Requesting, clientVars, sessionVars, serverVars, readerVars, markVars, callerVars
  <2>2. LiveOK'
    BY <1>2, FunctionTypes DEF RefreshHome, Go, LifecycleFree, LiveOK, clientVars, sessionVars, serverVars, readerVars, markVars, callerVars
  <2> QED
    BY <1>2, <2>1, <2>2, ProcessFrame DEF RefreshHome, clientVars, sessionVars, serverVars, readerVars, markVars, callerVars
<1>3. ASSUME NEW c \in Callers, SeeLive(c) PROVE ProcessInv'
  <2>1. LifecycleOK'
    BY <1>3, FunctionTypes DEF SeeLive, Go, HasLive, IfLive, RuntimeFree, LifecycleOK, InHandshake, Requesting, clientVars, sessionVars, serverVars, readerVars, markVars, callerVars, LiveChecks
  <2>2. LiveOK'
    BY <1>3, FunctionTypes DEF SeeLive, Go, HasLive, IfLive, RuntimeFree, LiveOK, clientVars, sessionVars, serverVars, readerVars, markVars, callerVars
  <2>3. MarkOK'
    BY <1>3, FunctionTypes, CallerNotReader DEF SeeLive, Go, HasLive, IfLive, RuntimeFree, MarkOK, Subject, NoSession, clientVars, sessionVars, serverVars, readerVars, markVars, callerVars
  <2> QED
    BY <2>1, <2>2, <2>3
<1>4. ASSUME NEW c \in Callers, SeeNone(c) PROVE ProcessInv'
  <2>1. LifecycleOK'
    BY <1>4, FunctionTypes DEF SeeNone, Go, HasLive, IfNotLive, StatusExit, RuntimeFree, LifecycleOK, InHandshake, Requesting, clientVars, sessionVars, serverVars, readerVars, markVars, callerVars, LiveChecks
  <2>2. LiveOK'
    <3>1. pc[c] = "startLive" => \A s \in Sessions : ~alive[s]
      BY <1>4, FunctionTypes DEF SeeNone, HasLive, LiveOK, LifecycleOK, InHandshake
    <3> QED
      BY <1>4, <3>1, FunctionTypes DEF SeeNone, Go, IfNotLive, LiveOK, LiveChecks, sessionVars
  <2> QED
    BY <1>4, <2>1, <2>2, ProcessFrame DEF SeeNone, clientVars, sessionVars, serverVars, readerVars, markVars, callerVars
<1>5. ASSUME NEW c \in Callers, SeeExited(c) PROVE ProcessInv'
  <2>1. MarkOK'
    BY <1>5, FunctionTypes, CallerNotReader DEF SeeExited, Go, HasLive, RuntimeFree, MarkOK, Subject, NoSession, clientVars, sessionVars, serverVars, readerVars, markVars, callerVars
  <2> QED
    BY <1>5, <2>1, ProcessFrame DEF SeeExited, clientVars, sessionVars, serverVars, readerVars, markVars, callerVars
<1>6. ASSUME NEW c \in Callers, CheckReady(c) PROVE ProcessInv'
  <2>1. LifecycleOK'
    BY <1>6, FunctionTypes DEF CheckReady, Go, Release, LifecycleOK, InHandshake, Requesting, clientVars, sessionVars, serverVars, readerVars, markVars, callerVars
  <2>2. LiveOK'
    BY <1>6, FunctionTypes DEF CheckReady, Go, Release, LiveOK, clientVars, sessionVars, serverVars, readerVars, markVars, callerVars
  <2> QED
    BY <1>6, <2>1, <2>2, ProcessFrame DEF CheckReady, clientVars, sessionVars, serverVars, readerVars, markVars, callerVars
<1>7. ASSUME NEW c \in Callers, TakeLifecycle(c) PROVE ProcessInv'
  <2>1. LifecycleOK'
    BY <1>7, FunctionTypes, ConstantsAssumption DEF TakeLifecycle, Go, LifecycleFree, LifecycleOK, InHandshake, Requesting, clientVars, sessionVars, serverVars, readerVars, markVars, callerVars
  <2>2. LiveOK'
    BY <1>7, FunctionTypes DEF TakeLifecycle, Go, LifecycleFree, LiveOK, clientVars, sessionVars, serverVars, readerVars, markVars, callerVars
  <2> QED
    BY <1>7, <2>1, <2>2, ProcessFrame DEF TakeLifecycle, clientVars, sessionVars, serverVars, readerVars, markVars, callerVars
<1>8. ASSUME NEW c \in Callers, StartFails(c) PROVE ProcessInv'
  <2>1. LifecycleOK'
    BY <1>8, FunctionTypes DEF StartFails, Go, Return, Release, LifecycleOK, InHandshake, Requesting, clientVars, sessionVars, serverVars, readerVars, markVars, callerVars
  <2>2. LiveOK'
    BY <1>8, FunctionTypes DEF StartFails, Go, Return, Release, LiveOK, clientVars, sessionVars, serverVars, readerVars, markVars, callerVars
  <2>3. MarkOK'
    BY <1>8, FunctionTypes, CallerNotReader DEF StartFails, Go, Return, Release, MarkOK, Subject, NoSession, clientVars, sessionVars, serverVars, readerVars, markVars, callerVars
  <2> QED
    BY <2>1, <2>2, <2>3
<1>9. ASSUME NEW c \in Callers, Spawn(c) PROVE ProcessInv'
  <2>1. LifecycleOK'
    BY <1>9, FunctionTypes DEF Spawn, Go, LifecycleOK, InHandshake, Requesting, clientVars, sessionVars, serverVars, readerVars, markVars, callerVars
  <2>2. LiveOK'
    BY <1>9, FunctionTypes DEF Spawn, Go, LiveOK, clientVars, sessionVars, serverVars, readerVars, markVars, callerVars, LifecycleOK, InHandshake
  <2>3. MarkOK'
    BY <1>9, FunctionTypes, CallerNotReader DEF Spawn, Go, MarkOK, Subject, NoSession, clientVars, sessionVars, serverVars, readerVars, markVars, callerVars
  <2> QED
    BY <2>1, <2>2, <2>3
<1>10. ASSUME NEW c \in Callers, Publish(c) PROVE ProcessInv'
  <2>1. LifecycleOK'
    BY <1>10, FunctionTypes DEF Publish, Go, RuntimeFree, LifecycleOK, InHandshake, Requesting, clientVars, sessionVars, serverVars, readerVars, markVars, callerVars
  <2>2. LiveOK'
    BY <1>10, FunctionTypes DEF Publish, Go, RuntimeFree, LiveOK, clientVars, sessionVars, serverVars, readerVars, markVars, callerVars, LifecycleOK, InHandshake
  <2>3. MarkOK'
    <3>1. \A b \in Agents : mark[b] \notin {"no", "swap"} => b \in Sessions
      BY <1>10 DEF Publish, RuntimeFree, Agents
    <3>2. \A b \in Agents : mark[b] \notin {"no", "swap"} => ~alive[Subject(b)']
      BY <3>1 DEF MarkOK, Subject
    <3>3. current' <= started
      BY <1>10 DEF Publish, MarkOK
    <3> QED
      BY <1>10, <3>2, <3>3 DEF Publish, MarkOK, sessionVars, serverVars, markVars
  <2> QED
    BY <2>1, <2>2, <2>3
<1>11. ASSUME NEW c \in Callers, CheckInitialized(c) PROVE ProcessInv'
  <2>1. LifecycleOK'
    BY <1>11, FunctionTypes DEF CheckInitialized, Go, Release, LifecycleOK, InHandshake, Requesting, clientVars, sessionVars, serverVars, readerVars, markVars, callerVars
  <2>2. LiveOK'
    BY <1>11, FunctionTypes DEF CheckInitialized, Go, Release, LiveOK, clientVars, sessionVars, serverVars, readerVars, markVars, callerVars
  <2> QED
    BY <1>11, <2>1, <2>2, ProcessFrame DEF CheckInitialized, clientVars, sessionVars, serverVars, readerVars, markVars, callerVars
<1>12. ASSUME NEW c \in Callers, RefuseDead(c) PROVE ProcessInv'
  <2>1. LifecycleOK'
    BY <1>12, FunctionTypes DEF RefuseDead, Go, Return, Release, LifecycleOK, InHandshake, Requesting, clientVars, sessionVars, serverVars, readerVars, markVars, callerVars
  <2>2. LiveOK'
    BY <1>12, FunctionTypes DEF RefuseDead, Go, Return, Release, LiveOK, clientVars, sessionVars, serverVars, readerVars, markVars, callerVars
  <2>3. MarkOK'
    BY <1>12, FunctionTypes, CallerNotReader DEF RefuseDead, Go, Return, Release, MarkOK, Subject, NoSession, clientVars, sessionVars, serverVars, readerVars, markVars, callerVars
  <2> QED
    BY <2>1, <2>2, <2>3
<1>13. ASSUME NEW c \in Callers, SeeAlive(c) PROVE ProcessInv'
  <2>1. LifecycleOK'
    BY <1>13, FunctionTypes DEF SeeAlive, Go, LifecycleOK, InHandshake, Requesting, clientVars, sessionVars, serverVars, readerVars, markVars, callerVars
  <2>2. LiveOK'
    BY <1>13, FunctionTypes DEF SeeAlive, Go, LiveOK, clientVars, sessionVars, serverVars, readerVars, markVars, callerVars
  <2> QED
    BY <1>13, <2>1, <2>2, ProcessFrame DEF SeeAlive, clientVars, sessionVars, serverVars, readerVars, markVars, callerVars
<1>14. ASSUME NEW c \in Callers, Register(c) PROVE ProcessInv'
  <2>1. LifecycleOK'
    BY <1>14, FunctionTypes DEF Register, Go, LifecycleOK, InHandshake, Requesting, clientVars, sessionVars, serverVars, readerVars, markVars, callerVars
  <2>2. LiveOK'
    BY <1>14, FunctionTypes DEF Register, Go, LiveOK, clientVars, sessionVars, serverVars, readerVars, markVars, callerVars
  <2> QED
    BY <1>14, <2>1, <2>2, ProcessFrame DEF Register, clientVars, sessionVars, serverVars, readerVars, markVars, callerVars
<1>15. ASSUME NEW c \in Callers, Write(c) PROVE ProcessInv'
  <2>1. LifecycleOK'
    BY <1>15, FunctionTypes DEF Write, Go, LifecycleOK, InHandshake, Requesting, clientVars, sessionVars, serverVars, readerVars, markVars, callerVars
  <2>2. LiveOK'
    BY <1>15, FunctionTypes DEF Write, Go, LiveOK, clientVars, sessionVars, serverVars, readerVars, markVars, callerVars
  <2> QED
    BY <1>15, <2>1, <2>2, ProcessFrame DEF Write, clientVars, sessionVars, serverVars, readerVars, markVars, callerVars
<1>16. ASSUME NEW c \in Callers, WriteFails(c) PROVE ProcessInv'
  <2>1. LifecycleOK'
    BY <1>16, FunctionTypes DEF WriteFails, Go, LifecycleOK, InHandshake, Requesting, clientVars, sessionVars, serverVars, readerVars, markVars, callerVars
  <2>2. LiveOK'
    BY <1>16, FunctionTypes DEF WriteFails, Go, LiveOK, clientVars, sessionVars, serverVars, readerVars, markVars, callerVars
  <2> QED
    BY <1>16, <2>1, <2>2, ProcessFrame DEF WriteFails, clientVars, sessionVars, serverVars, readerVars, markVars, callerVars
<1>17. ASSUME NEW c \in Callers, Receive(c) PROVE ProcessInv'
  <2>1. LifecycleOK'
    BY <1>17, FunctionTypes DEF Receive, Go, Return, Release, AfterInitialize, LifecycleOK, InHandshake, Requesting, clientVars, sessionVars, serverVars, readerVars, markVars, callerVars
  <2>2. LiveOK'
    BY <1>17, FunctionTypes DEF Receive, Go, Return, Release, AfterInitialize, LiveOK, clientVars, sessionVars, serverVars, readerVars, markVars, callerVars
  <2>3. MarkOK'
    BY <1>17, FunctionTypes, CallerNotReader DEF Receive, Go, Return, Release, AfterInitialize, MarkOK, Subject, NoSession, clientVars, sessionVars, serverVars, readerVars, markVars, callerVars
  <2> QED
    BY <2>1, <2>2, <2>3
<1>18. ASSUME NEW c \in Callers, TimeOut(c) PROVE ProcessInv'
  <2>1. LifecycleOK'
    BY <1>18, FunctionTypes DEF TimeOut, Go, LifecycleOK, InHandshake, Requesting, clientVars, sessionVars, serverVars, readerVars, markVars, callerVars
  <2>2. LiveOK'
    BY <1>18, FunctionTypes DEF TimeOut, Go, LiveOK, clientVars, sessionVars, serverVars, readerVars, markVars, callerVars
  <2> QED
    BY <1>18, <2>1, <2>2, ProcessFrame DEF TimeOut, clientVars, sessionVars, serverVars, readerVars, markVars, callerVars
<1>19. ASSUME NEW c \in Callers, RemovePending(c) PROVE ProcessInv'
  <2>1. LifecycleOK'
    BY <1>19, FunctionTypes DEF RemovePending, Go, Return, Release, RemoveEntry, LifecycleOK, InHandshake, Requesting, clientVars, sessionVars, serverVars, readerVars, markVars, callerVars
  <2>2. LiveOK'
    BY <1>19, FunctionTypes DEF RemovePending, Go, Return, Release, RemoveEntry, LiveOK, clientVars, sessionVars, serverVars, readerVars, markVars, callerVars
  <2>3. MarkOK'
    BY <1>19, FunctionTypes, CallerNotReader DEF RemovePending, Go, Return, Release, RemoveEntry, MarkOK, Subject, NoSession, clientVars, sessionVars, serverVars, readerVars, markVars, callerVars
  <2> QED
    BY <2>1, <2>2, <2>3
<1>20. ASSUME NEW c \in Callers, Notify(c) PROVE ProcessInv'
  <2>1. LifecycleOK'
    BY <1>20, FunctionTypes DEF Notify, Go, LifecycleOK, InHandshake, Requesting, clientVars, sessionVars, serverVars, readerVars, markVars, callerVars
  <2>2. LiveOK'
    BY <1>20, FunctionTypes DEF Notify, Go, LiveOK, clientVars, sessionVars, serverVars, readerVars, markVars, callerVars
  <2> QED
    BY <1>20, <2>1, <2>2, ProcessFrame DEF Notify, clientVars, sessionVars, serverVars, readerVars, markVars, callerVars
<1>21. ASSUME NEW c \in Callers, NotifyFails(c) PROVE ProcessInv'
  <2>1. LifecycleOK'
    BY <1>21, FunctionTypes DEF NotifyFails, Go, Return, Release, LifecycleOK, InHandshake, Requesting, clientVars, sessionVars, serverVars, readerVars, markVars, callerVars
  <2>2. LiveOK'
    BY <1>21, FunctionTypes DEF NotifyFails, Go, Return, Release, LiveOK, clientVars, sessionVars, serverVars, readerVars, markVars, callerVars
  <2>3. MarkOK'
    BY <1>21, FunctionTypes, CallerNotReader DEF NotifyFails, Go, Return, Release, MarkOK, Subject, NoSession, clientVars, sessionVars, serverVars, readerVars, markVars, callerVars
  <2> QED
    BY <2>1, <2>2, <2>3
<1>22. ASSUME NEW c \in Callers, SetInitialized(c) PROVE ProcessInv'
  <2>1. LifecycleOK'
    BY <1>22, FunctionTypes DEF SetInitialized, Go, Release, LifecycleOK, InHandshake, Requesting, clientVars, sessionVars, serverVars, readerVars, markVars, callerVars
  <2>2. LiveOK'
    BY <1>22, FunctionTypes DEF SetInitialized, Go, Release, LiveOK, clientVars, sessionVars, serverVars, readerVars, markVars, callerVars
  <2> QED
    BY <1>22, <2>1, <2>2, ProcessFrame DEF SetInitialized, clientVars, sessionVars, serverVars, readerVars, markVars, callerVars
<1>23. ASSUME NEW c \in Callers, CallerMarked(c) PROVE ProcessInv'
  <2>1. LifecycleOK'
    BY <1>23, FunctionTypes DEF CallerMarked, Go, IfNotLive, StatusExit, LifecycleOK, InHandshake, Requesting, clientVars, sessionVars, serverVars, readerVars, markVars, callerVars, ControlOK, LiveChecks
  <2>2. LiveOK'
    <3>1. pc[c] \in LiveChecks /\ ~alive[current]
      BY <1>23, FunctionTypes, CallerNotReader DEF CallerMarked, ControlOK, MarkOK, Subject
    <3>2. pc[c] = "startLive" => \A s \in Sessions : ~alive[s]
      BY <3>1, FunctionTypes DEF LiveOK, LifecycleOK, InHandshake
    <3> QED
      BY <1>23, <3>1, <3>2, FunctionTypes
      DEF CallerMarked, Go, IfNotLive, LiveOK, LiveChecks, sessionVars
  <2>3. MarkOK'
    BY <1>23, FunctionTypes, CallerNotReader DEF CallerMarked, Go, IfNotLive, StatusExit, MarkOK, Subject, NoSession, clientVars, sessionVars, serverVars, readerVars, markVars, callerVars
  <2> QED
    BY <2>1, <2>2, <2>3
<1>24. ASSUME NEW a \in Agents, Swap(a) PROVE ProcessInv'
  <2>1. LiveOK'
    BY <1>24, FunctionTypes DEF Swap, Subject, FirstToSee, LiveOK, clientVars, sessionVars, serverVars, readerVars, markVars, callerVars
  <2>2. MarkOK'
    <3>1. Subject(a) \in Sessions /\ \A b \in Agents : Subject(b)' = Subject(b)
      BY <1>24, SubjectType DEF Swap, Subject, clientVars
    <3>2. \A b \in Agents : mark'[b] \notin {"no", "swap"} => ~alive'[Subject(b)]
      BY <1>24, <3>1, FunctionTypes, SubjectType DEF Swap, MarkOK
    <3>3. \A s \in Sessions : s > started => mark'[s] = "no"
      BY <1>24, FunctionTypes DEF Swap, MarkOK
    <3> QED
      BY <1>24, <3>1, <3>2, <3>3 DEF Swap, MarkOK, clientVars, serverVars, callerVars
  <2> QED
    BY <1>24, <2>1, <2>2, ProcessFrame DEF Swap, clientVars, sessionVars, serverVars, readerVars, markVars, callerVars
<1>25. ASSUME NEW a \in Agents, Unready(a) PROVE ProcessInv'
  <2>1. MarkOK'
    BY <1>25, FunctionTypes, CallerNotReader DEF Unready, Subject, MarkOK, NoSession, clientVars, sessionVars, serverVars, readerVars, markVars, callerVars
  <2> QED
    BY <1>25, <2>1, ProcessFrame DEF Unready, clientVars, sessionVars, serverVars, readerVars, markVars, callerVars
<1>26. ASSUME NEW a \in Agents, Record(a) PROVE ProcessInv'
  <2>1. MarkOK'
    BY <1>26, FunctionTypes, CallerNotReader DEF Record, Subject, MarkOK, NoSession, clientVars, sessionVars, serverVars, readerVars, markVars, callerVars
  <2> QED
    BY <1>26, <2>1, ProcessFrame DEF Record, clientVars, sessionVars, serverVars, readerVars, markVars, callerVars
<1>27. ASSUME NEW a \in Agents, Drain(a) PROVE ProcessInv'
  <2>1. MarkOK'
    BY <1>27, FunctionTypes, CallerNotReader DEF Drain, Subject, MarkOK, NoSession, clientVars, sessionVars, serverVars, readerVars, markVars, callerVars
  <2> QED
    BY <1>27, <2>1, ProcessFrame DEF Drain, clientVars, sessionVars, serverVars, readerVars, markVars, callerVars
<1>28. ASSUME NEW a \in Agents, Deliver(a) PROVE ProcessInv'
  BY <1>28, ProcessFrame DEF Deliver, clientVars, sessionVars, serverVars, readerVars, markVars, callerVars
<1>29. ASSUME NEW s \in Sessions, TakeSender(s) PROVE ProcessInv'
  BY <1>29, ProcessFrame DEF TakeSender, clientVars, sessionVars, serverVars, readerVars, markVars, callerVars
<1>30. ASSUME NEW s \in Sessions, Unmatched(s) PROVE ProcessInv'
  BY <1>30, ProcessFrame DEF Unmatched, clientVars, sessionVars, serverVars, readerVars, markVars, callerVars
<1>31. ASSUME NEW s \in Sessions, Answer(s) PROVE ProcessInv'
  BY <1>31, ProcessFrame DEF Answer, clientVars, sessionVars, serverVars, readerVars, markVars, callerVars
<1>32. ASSUME NEW s \in Sessions, StreamEnds(s) PROVE ProcessInv'
  <2>1. MarkOK'
    BY <1>32, FunctionTypes, CallerNotReader DEF StreamEnds, Reading, MarkOK, Subject, NoSession, clientVars, sessionVars, serverVars, readerVars, markVars, callerVars
  <2> QED
    BY <1>32, <2>1, ProcessFrame DEF StreamEnds, clientVars, sessionVars, serverVars, readerVars, markVars, callerVars
<1>33. ASSUME NEW s \in Sessions, ReaderEnds(s) PROVE ProcessInv'
  <2>1. MarkOK'
    BY <1>33, FunctionTypes, CallerNotReader DEF ReaderEnds, MarkOK, Subject, NoSession, clientVars, sessionVars, serverVars, readerVars, markVars, callerVars
  <2> QED
    BY <1>33, <2>1, ProcessFrame DEF ReaderEnds, clientVars, sessionVars, serverVars, readerVars, markVars, callerVars
<1>34. ASSUME NEW s \in Sessions, ServerAnswers(s) PROVE ProcessInv'
  BY <1>34, ProcessFrame DEF ServerAnswers, clientVars, sessionVars, serverVars, readerVars, markVars, callerVars
<1>35. ASSUME NEW s \in Sessions, ServerGarbles(s) PROVE ProcessInv'
  BY <1>35, ProcessFrame DEF ServerGarbles, clientVars, sessionVars, serverVars, readerVars, markVars, callerVars
<1>36. ASSUME NEW s \in Sessions, ServerExits(s) PROVE ProcessInv'
  <2>1. MarkOK'
    BY <1>36, FunctionTypes, CallerNotReader DEF ServerExits, MarkOK, Subject, NoSession, clientVars, sessionVars, serverVars, readerVars, markVars, callerVars
  <2> QED
    BY <1>36, <2>1, ProcessFrame DEF ServerExits, clientVars, sessionVars, serverVars, readerVars, markVars, callerVars
<1>37. CASE UNCHANGED vars
  BY <1>37, ProcessFrame DEF vars, clientVars, sessionVars, serverVars, readerVars, markVars, callerVars
<1>38. QED
  BY <1>1, <1>2, <1>3, <1>4, <1>5, <1>6, <1>7, <1>8, <1>9, <1>10, <1>11, <1>12, <1>13, <1>14, <1>15, <1>16, <1>17, <1>18, <1>19, <1>20, <1>21, <1>22, <1>23, <1>24, <1>25, <1>26, <1>27, <1>28, <1>29, <1>30, <1>31, <1>32, <1>33, <1>34, <1>35, <1>36, <1>37 DEF Next, CallerStep, LocalStep, Writing, Marking, ReaderStep, Server, Finished

\* The client drives at most one app-server at any time.
THEOREM OneLiveSessionHolds == Spec => []OneLiveSession
<1>1. TypeInv /\ ProcessInv => OneLiveSession
  BY DEF ProcessInv, LiveOK, OneLiveSession
<1>2. QED
  BY InitTypeInv, NextTypeInv, InitProcessInv, NextProcessInv, <1>1, PTL DEF Spec

-----------------------------------------------------------------------------
(* The request table                                                        *)

\* Every id in use was handed out, and by one caller only.
IdsOK ==
    /\ \A s \in Sessions :
          /\ \A id \in pending[s] : id < nextId[s]
          /\ \A line \in popped[s] : line.id < nextId[s]
    /\ \A a \in Agents : \A id \in failing[a] : id < nextId[Subject(a)]
    /\ \A c \in Callers : pc[c] \in Registered => req[c] < nextId[sess[c]]
    /\ \A c, d \in Callers :
          pc[c] \in Registered /\ pc[d] \in Registered
             /\ sess[c] = sess[d] /\ req[c] = req[d] => c = d

TableInv == IdsOK /\ PendingOwned /\ OneSender /\ SendNeverBlocks

LEMMA TableFrame ==
    /\ IdsOK /\ UNCHANGED <<pending, popped, failing, nextId, pc, req, sess, current>> => IdsOK'
    /\ PendingOwned /\ UNCHANGED <<pending, pc, sess, req>> => PendingOwned'
    /\ OneSender /\ UNCHANGED <<pending, popped, failing, current>> => OneSender'
    /\ SendNeverBlocks /\ UNCHANGED <<pc, chan, req, sess, pending, popped, failing, current>>
          => SendNeverBlocks'
  BY DEF IdsOK, PendingOwned, OneSender, SendNeverBlocks, PoppedIds, Subject, Waits

LEMMA InitTableInv == Init => TableInv
  BY DEF Init, TableInv, IdsOK, PendingOwned, OneSender, SendNeverBlocks, PoppedIds,
     Registered, Waits, Agents

LEMMA NextTableInv == TypeInv /\ TypeInv' /\ ProcessInv /\ TableInv /\ [Next]_vars => TableInv'
<1> SUFFICES ASSUME TypeInv, TypeInv', ProcessInv, TableInv, [Next]_vars PROVE TableInv'
  OBVIOUS
<1> USE DEF TableInv, TypeInv, ProcessInv
<1>1. ASSUME NEW c \in Callers, Ask(c) PROVE TableInv'
  <2>1. IdsOK'
    BY <1>1, TableTypes DEF Ask, Go, IdsOK, Registered, Subject, clientVars, sessionVars, serverVars, readerVars, markVars, callerVars
  <2>2. PendingOwned'
    BY <1>1, TableTypes DEF Ask, Go, PendingOwned, Waits, Registered, clientVars, sessionVars, serverVars, readerVars, markVars, callerVars
  <2>3. SendNeverBlocks'
    BY <1>1, TableTypes DEF Ask, Go, SendNeverBlocks, Registered, PoppedIds, Subject, clientVars, sessionVars, serverVars, readerVars, markVars, callerVars
  <2> QED
    BY <1>1, <2>1, <2>2, <2>3, TableFrame DEF Ask, clientVars, sessionVars, serverVars, readerVars, markVars, callerVars
<1>2. ASSUME NEW c \in Callers, RefreshHome(c) PROVE TableInv'
  <2>1. IdsOK'
    BY <1>2, TableTypes DEF RefreshHome, Go, LifecycleFree, IdsOK, Registered, Subject, clientVars, sessionVars, serverVars, readerVars, markVars, callerVars
  <2>2. PendingOwned'
    BY <1>2, TableTypes DEF RefreshHome, Go, LifecycleFree, PendingOwned, Waits, Registered, clientVars, sessionVars, serverVars, readerVars, markVars, callerVars
  <2>3. SendNeverBlocks'
    BY <1>2, TableTypes DEF RefreshHome, Go, LifecycleFree, SendNeverBlocks, Registered, PoppedIds, Subject, clientVars, sessionVars, serverVars, readerVars, markVars, callerVars
  <2> QED
    BY <1>2, <2>1, <2>2, <2>3, TableFrame DEF RefreshHome, clientVars, sessionVars, serverVars, readerVars, markVars, callerVars
<1>3. ASSUME NEW c \in Callers, SeeLive(c) PROVE TableInv'
  <2>1. IdsOK'
    BY <1>3, TableTypes DEF SeeLive, Go, HasLive, IfLive, RuntimeFree, IdsOK, Registered, Subject, clientVars, sessionVars, serverVars, readerVars, markVars, callerVars
  <2>2. PendingOwned'
    BY <1>3, TableTypes DEF SeeLive, Go, HasLive, IfLive, RuntimeFree, PendingOwned, Waits, Registered, clientVars, sessionVars, serverVars, readerVars, markVars, callerVars, LiveChecks
  <2>3. SendNeverBlocks'
    BY <1>3, TableTypes DEF SeeLive, Go, HasLive, IfLive, RuntimeFree, SendNeverBlocks, Registered, PoppedIds, Subject, clientVars, sessionVars, serverVars, readerVars, markVars, callerVars
  <2> QED
    BY <1>3, <2>1, <2>2, <2>3, TableFrame DEF SeeLive, clientVars, sessionVars, serverVars, readerVars, markVars, callerVars
<1>4. ASSUME NEW c \in Callers, SeeNone(c) PROVE TableInv'
  <2>1. IdsOK'
    BY <1>4, TableTypes DEF SeeNone, Go, HasLive, IfNotLive, StatusExit, RuntimeFree, IdsOK, Registered, Subject, clientVars, sessionVars, serverVars, readerVars, markVars, callerVars
  <2>2. PendingOwned'
    BY <1>4, TableTypes DEF SeeNone, Go, HasLive, IfNotLive, StatusExit, RuntimeFree, PendingOwned, Waits, Registered, clientVars, sessionVars, serverVars, readerVars, markVars, callerVars, LiveChecks
  <2>3. SendNeverBlocks'
    BY <1>4, TableTypes DEF SeeNone, Go, HasLive, IfNotLive, StatusExit, RuntimeFree, SendNeverBlocks, Registered, PoppedIds, Subject, clientVars, sessionVars, serverVars, readerVars, markVars, callerVars
  <2> QED
    BY <1>4, <2>1, <2>2, <2>3, TableFrame DEF SeeNone, clientVars, sessionVars, serverVars, readerVars, markVars, callerVars
<1>5. ASSUME NEW c \in Callers, SeeExited(c) PROVE TableInv'
  BY <1>5, TableFrame DEF SeeExited, clientVars, sessionVars, serverVars, readerVars, markVars, callerVars
<1>6. ASSUME NEW c \in Callers, CheckReady(c) PROVE TableInv'
  <2>1. IdsOK'
    BY <1>6, TableTypes DEF CheckReady, Go, Release, IdsOK, Registered, Subject, clientVars, sessionVars, serverVars, readerVars, markVars, callerVars
  <2>2. PendingOwned'
    BY <1>6, TableTypes DEF CheckReady, Go, Release, PendingOwned, Waits, Registered, clientVars, sessionVars, serverVars, readerVars, markVars, callerVars
  <2>3. SendNeverBlocks'
    BY <1>6, TableTypes DEF CheckReady, Go, Release, SendNeverBlocks, Registered, PoppedIds, Subject, clientVars, sessionVars, serverVars, readerVars, markVars, callerVars
  <2> QED
    BY <1>6, <2>1, <2>2, <2>3, TableFrame DEF CheckReady, clientVars, sessionVars, serverVars, readerVars, markVars, callerVars
<1>7. ASSUME NEW c \in Callers, TakeLifecycle(c) PROVE TableInv'
  <2>1. IdsOK'
    BY <1>7, TableTypes DEF TakeLifecycle, Go, LifecycleFree, IdsOK, Registered, Subject, clientVars, sessionVars, serverVars, readerVars, markVars, callerVars
  <2>2. PendingOwned'
    BY <1>7, TableTypes DEF TakeLifecycle, Go, LifecycleFree, PendingOwned, Waits, Registered, clientVars, sessionVars, serverVars, readerVars, markVars, callerVars
  <2>3. SendNeverBlocks'
    BY <1>7, TableTypes DEF TakeLifecycle, Go, LifecycleFree, SendNeverBlocks, Registered, PoppedIds, Subject, clientVars, sessionVars, serverVars, readerVars, markVars, callerVars
  <2> QED
    BY <1>7, <2>1, <2>2, <2>3, TableFrame DEF TakeLifecycle, clientVars, sessionVars, serverVars, readerVars, markVars, callerVars
<1>8. ASSUME NEW c \in Callers, StartFails(c) PROVE TableInv'
  <2>1. IdsOK'
    BY <1>8, TableTypes DEF StartFails, Go, Return, Release, IdsOK, Registered, Subject, clientVars, sessionVars, serverVars, readerVars, markVars, callerVars
  <2>2. PendingOwned'
    BY <1>8, TableTypes DEF StartFails, Go, Return, Release, PendingOwned, Waits, Registered, clientVars, sessionVars, serverVars, readerVars, markVars, callerVars
  <2>3. SendNeverBlocks'
    BY <1>8, TableTypes DEF StartFails, Go, Return, Release, SendNeverBlocks, Registered, PoppedIds, Subject, clientVars, sessionVars, serverVars, readerVars, markVars, callerVars
  <2> QED
    BY <1>8, <2>1, <2>2, <2>3, TableFrame DEF StartFails, clientVars, sessionVars, serverVars, readerVars, markVars, callerVars
<1>9. ASSUME NEW c \in Callers, Spawn(c) PROVE TableInv'
  <2>1. IdsOK'
    BY <1>9, TableTypes DEF Spawn, Go, IdsOK, Registered, Subject, clientVars, sessionVars, serverVars, readerVars, markVars, callerVars
  <2>2. PendingOwned'
    BY <1>9, TableTypes DEF Spawn, Go, PendingOwned, Waits, Registered, clientVars, sessionVars, serverVars, readerVars, markVars, callerVars
  <2>3. SendNeverBlocks'
    BY <1>9, TableTypes DEF Spawn, Go, SendNeverBlocks, Registered, PoppedIds, Subject, clientVars, sessionVars, serverVars, readerVars, markVars, callerVars
  <2> QED
    BY <1>9, <2>1, <2>2, <2>3, TableFrame DEF Spawn, clientVars, sessionVars, serverVars, readerVars, markVars, callerVars
<1>10. ASSUME NEW c \in Callers, Publish(c) PROVE TableInv'
  <2>1. IdsOK'
    <3>1. \A a \in Agents : failing[a] # {} => Subject(a)' = Subject(a)
      BY <1>10, DrainedSubject DEF Publish
    <3> QED
      BY <1>10, <3>1, TableTypes
      DEF Publish, Go, IdsOK, Registered, sessionVars, readerVars, markVars
  <2>2. PendingOwned'
    BY <1>10, TableTypes DEF Publish, Go, RuntimeFree, PendingOwned, Waits, Registered, clientVars, sessionVars, serverVars, readerVars, markVars, callerVars
  <2>3. OneSender'
    <3>1. \A a \in Agents : failing[a] # {} => Subject(a)' = Subject(a)
      BY <1>10, DrainedSubject DEF Publish
    <3> QED
      BY <1>10, <3>1 DEF Publish, OneSender, PoppedIds, sessionVars, readerVars, markVars
  <2>4. SendNeverBlocks'
    <3>1. \A a \in Agents : failing[a] # {} => Subject(a)' = Subject(a)
      BY <1>10, DrainedSubject DEF Publish
    <3> QED
      BY <1>10, <3>1, TableTypes
      DEF Publish, Go, SendNeverBlocks, Registered, PoppedIds, sessionVars, readerVars, markVars
  <2> QED
    BY <2>1, <2>2, <2>3, <2>4
<1>11. ASSUME NEW c \in Callers, CheckInitialized(c) PROVE TableInv'
  <2>1. IdsOK'
    BY <1>11, TableTypes DEF CheckInitialized, Go, Release, IdsOK, Registered, Subject, clientVars, sessionVars, serverVars, readerVars, markVars, callerVars
  <2>2. PendingOwned'
    BY <1>11, TableTypes DEF CheckInitialized, Go, Release, PendingOwned, Waits, Registered, clientVars, sessionVars, serverVars, readerVars, markVars, callerVars
  <2>3. SendNeverBlocks'
    BY <1>11, TableTypes DEF CheckInitialized, Go, Release, SendNeverBlocks, Registered, PoppedIds, Subject, clientVars, sessionVars, serverVars, readerVars, markVars, callerVars
  <2> QED
    BY <1>11, <2>1, <2>2, <2>3, TableFrame DEF CheckInitialized, clientVars, sessionVars, serverVars, readerVars, markVars, callerVars
<1>12. ASSUME NEW c \in Callers, RefuseDead(c) PROVE TableInv'
  <2>1. IdsOK'
    BY <1>12, TableTypes DEF RefuseDead, Go, Return, Release, IdsOK, Registered, Subject, clientVars, sessionVars, serverVars, readerVars, markVars, callerVars
  <2>2. PendingOwned'
    BY <1>12, TableTypes DEF RefuseDead, Go, Return, Release, PendingOwned, Waits, Registered, clientVars, sessionVars, serverVars, readerVars, markVars, callerVars
  <2>3. SendNeverBlocks'
    BY <1>12, TableTypes DEF RefuseDead, Go, Return, Release, SendNeverBlocks, Registered, PoppedIds, Subject, clientVars, sessionVars, serverVars, readerVars, markVars, callerVars
  <2> QED
    BY <1>12, <2>1, <2>2, <2>3, TableFrame DEF RefuseDead, clientVars, sessionVars, serverVars, readerVars, markVars, callerVars
<1>13. ASSUME NEW c \in Callers, SeeAlive(c) PROVE TableInv'
  <2>1. IdsOK'
    BY <1>13, TableTypes DEF SeeAlive, Go, IdsOK, Registered, Subject, clientVars, sessionVars, serverVars, readerVars, markVars, callerVars
  <2>2. PendingOwned'
    BY <1>13, TableTypes DEF SeeAlive, Go, PendingOwned, Waits, Registered, clientVars, sessionVars, serverVars, readerVars, markVars, callerVars
  <2>3. SendNeverBlocks'
    BY <1>13, TableTypes DEF SeeAlive, Go, SendNeverBlocks, Registered, PoppedIds, Subject, clientVars, sessionVars, serverVars, readerVars, markVars, callerVars
  <2> QED
    BY <1>13, <2>1, <2>2, <2>3, TableFrame DEF SeeAlive, clientVars, sessionVars, serverVars, readerVars, markVars, callerVars
<1>14. ASSUME NEW c \in Callers, Register(c) PROVE TableInv'
  <2>1. IdsOK'
    <3>1. sess[c] \in Sessions
      BY <1>14, SessionTypes DEF Register, OnSession, Requesting
    <3>2. /\ \A s \in Sessions : nextId[s] \in Nat /\ nextId'[s] \in Nat /\ nextId[s] <= nextId'[s]
          /\ nextId'[sess[c]] = nextId[sess[c]] + 1
      BY <1>14, <3>1, TableTypes DEF Register
    <3>3. \A s \in Sessions : \A id \in pending'[s] : id < nextId'[s]
      BY <1>14, <3>1, TableTypes DEF Register, IdsOK
    <3>4. \A s \in Sessions : \A line \in popped[s] : line.id < nextId'[s]
      <4>1. \A s \in Sessions : \A line \in popped[s] : line.id \in Nat
        BY TableTypes DEF Responses
      <4> QED BY <3>2, <4>1 DEF IdsOK
    <3>5. \A a \in Agents : \A id \in failing[a] : id < nextId'[Subject(a)]
      <4>1. \A a \in Agents : \A id \in failing[a] : id \in Nat /\ Subject(a) \in Sessions
        BY TableTypes, SubjectType DEF TypeOK, AgentType
      <4> QED BY <3>2, <4>1 DEF IdsOK
    <3>6. \A d \in Callers : pc'[d] \in Registered => req'[d] < nextId'[sess[d]]
      <4> TAKE d \in Callers
      <4> HAVE pc'[d] \in Registered
      <4>1. CASE d = c
        BY <1>14, <3>1, <3>2, <4>1, TableTypes DEF Register
      <4>2. CASE d # c
        <5>1. pc[d] \in Registered /\ req'[d] = req[d] /\ req[d] \in Nat
          BY <1>14, <4>2, TableTypes DEF Register, Go
        <5>2. sess[d] \in Sessions
          BY <5>1, SessionTypes DEF OnSession, Requesting, Registered
        <5>3. req[d] < nextId[sess[d]]
          BY <5>1 DEF IdsOK
        <5> QED
          BY <5>1, <5>2, <5>3, <3>2
      <4> QED BY <4>1, <4>2
    <3>7. \A d, e \in Callers :
            pc'[d] \in Registered /\ pc'[e] \in Registered
               /\ sess[d] = sess[e] /\ req'[d] = req'[e] => d = e
      BY <1>14, <3>1, TableTypes DEF Register, Go, IdsOK
    <3> QED
      BY <1>14, <3>3, <3>4, <3>5, <3>6, <3>7
      DEF Register, IdsOK, Subject, clientVars, readerVars, markVars
  <2>2. PendingOwned'
    BY <1>14, TableTypes DEF Register, Go, PendingOwned, Waits, Registered, clientVars, sessionVars, serverVars, readerVars, markVars, callerVars
  <2>3. OneSender'
    <3>1. sess[c] \in Sessions
      BY <1>14, SessionTypes DEF Register, OnSession, Requesting
    <3>2. /\ nextId[sess[c]] \notin PoppedIds(sess[c])
          /\ \A a \in Agents : Subject(a) = sess[c] => nextId[sess[c]] \notin failing[a]
      BY <3>1, TableTypes DEF IdsOK, PoppedIds, Responses
    <3>3. \A s \in Sessions : pending'[s] \subseteq pending[s] \cup
                                 (IF s = sess[c] THEN {nextId[s]} ELSE {})
      BY <1>14, <3>1, TableTypes DEF Register
    <3>4. \A a \in Agents : Subject(a)' = Subject(a) /\ failing'[a] = failing[a]
      BY <1>14 DEF Register, Subject, clientVars, markVars
    <3>5. \A s \in Sessions : PoppedIds(s)' = PoppedIds(s)
      BY <1>14 DEF Register, PoppedIds, readerVars
    <3> QED
      BY <3>2, <3>3, <3>4, <3>5 DEF OneSender
  <2>4. SendNeverBlocks'
    <3>1. \A d \in Callers : pc'[d] \in Registered /\ chan'[d] # NoReply =>
            d # c /\ pc[d] \in Registered /\ chan[d] # NoReply /\ req'[d] = req[d]
      BY <1>14, TableTypes DEF Register, Go
    <3>2. \A d \in Callers : d # c /\ pc[d] \in Registered => req[d] # nextId[sess[d]]
      BY TableTypes, SessionTypes DEF IdsOK, OnSession, Requesting, Registered
    <3>3. \A d \in Callers : pc[d] \in Registered => sess[d] \in Sessions
      BY SessionTypes DEF OnSession, Requesting, Registered
    <3>4. \A s \in Sessions : pending'[s] \subseteq pending[s] \cup {nextId[s]}
      BY <1>14, TableTypes DEF Register
    <3>5. \A a \in Agents : Subject(a)' = Subject(a)
      BY <1>14 DEF Register, Subject, clientVars
    <3> QED
      BY <1>14, <3>1, <3>2, <3>3, <3>4, <3>5
      DEF Register, SendNeverBlocks, PoppedIds, readerVars, markVars
  <2> QED
    BY <2>1, <2>2, <2>3, <2>4
<1>15. ASSUME NEW c \in Callers, Write(c) PROVE TableInv'
  <2>1. IdsOK'
    BY <1>15, TableTypes DEF Write, Go, IdsOK, Registered, Subject, clientVars, sessionVars, serverVars, readerVars, markVars, callerVars
  <2>2. PendingOwned'
    BY <1>15, TableTypes DEF Write, Go, PendingOwned, Waits, Registered, clientVars, sessionVars, serverVars, readerVars, markVars, callerVars
  <2>3. SendNeverBlocks'
    BY <1>15, TableTypes DEF Write, Go, SendNeverBlocks, Registered, PoppedIds, Subject, clientVars, sessionVars, serverVars, readerVars, markVars, callerVars
  <2> QED
    BY <1>15, <2>1, <2>2, <2>3, TableFrame DEF Write, clientVars, sessionVars, serverVars, readerVars, markVars, callerVars
<1>16. ASSUME NEW c \in Callers, WriteFails(c) PROVE TableInv'
  <2>1. IdsOK'
    BY <1>16, TableTypes DEF WriteFails, Go, IdsOK, Registered, Subject, clientVars, sessionVars, serverVars, readerVars, markVars, callerVars
  <2>2. PendingOwned'
    BY <1>16, TableTypes DEF WriteFails, Go, PendingOwned, Waits, Registered, clientVars, sessionVars, serverVars, readerVars, markVars, callerVars
  <2>3. SendNeverBlocks'
    BY <1>16, TableTypes DEF WriteFails, Go, SendNeverBlocks, Registered, PoppedIds, Subject, clientVars, sessionVars, serverVars, readerVars, markVars, callerVars
  <2> QED
    BY <1>16, <2>1, <2>2, <2>3, TableFrame DEF WriteFails, clientVars, sessionVars, serverVars, readerVars, markVars, callerVars
<1>17. ASSUME NEW c \in Callers, Receive(c) PROVE TableInv'
  <2>1. IdsOK'
    BY <1>17, TableTypes DEF Receive, Go, Return, Release, AfterInitialize, IdsOK, Registered, Subject, clientVars, sessionVars, serverVars, readerVars, markVars, callerVars
  <2>2. PendingOwned'
    BY <1>17, TableTypes DEF Receive, Go, Return, Release, AfterInitialize, PendingOwned, Waits, Registered, clientVars, sessionVars, serverVars, readerVars, markVars, callerVars, SendNeverBlocks
  <2>3. SendNeverBlocks'
    BY <1>17, TableTypes DEF Receive, Go, Return, Release, AfterInitialize, SendNeverBlocks, Registered, PoppedIds, Subject, clientVars, sessionVars, serverVars, readerVars, markVars, callerVars
  <2> QED
    BY <1>17, <2>1, <2>2, <2>3, TableFrame DEF Receive, clientVars, sessionVars, serverVars, readerVars, markVars, callerVars
<1>18. ASSUME NEW c \in Callers, TimeOut(c) PROVE TableInv'
  <2>1. IdsOK'
    BY <1>18, TableTypes DEF TimeOut, Go, IdsOK, Registered, Subject, clientVars, sessionVars, serverVars, readerVars, markVars, callerVars
  <2>2. PendingOwned'
    BY <1>18, TableTypes DEF TimeOut, Go, PendingOwned, Waits, Registered, clientVars, sessionVars, serverVars, readerVars, markVars, callerVars
  <2>3. SendNeverBlocks'
    BY <1>18, TableTypes DEF TimeOut, Go, SendNeverBlocks, Registered, PoppedIds, Subject, clientVars, sessionVars, serverVars, readerVars, markVars, callerVars
  <2> QED
    BY <1>18, <2>1, <2>2, <2>3, TableFrame DEF TimeOut, clientVars, sessionVars, serverVars, readerVars, markVars, callerVars
<1>19. ASSUME NEW c \in Callers, RemovePending(c) PROVE TableInv'
  <2>1. IdsOK'
    BY <1>19, TableTypes DEF RemovePending, Go, Return, Release, RemoveEntry, IdsOK, Registered, Subject, clientVars, sessionVars, serverVars, readerVars, markVars, callerVars
  <2>2. PendingOwned'
    BY <1>19, TableTypes DEF RemovePending, Go, Return, Release, RemoveEntry, PendingOwned, Waits, Registered, clientVars, sessionVars, serverVars, readerVars, markVars, callerVars
  <2>3. OneSender'
    BY <1>19, TableTypes DEF RemovePending, Go, Return, Release, RemoveEntry, OneSender, PoppedIds, Subject, clientVars, sessionVars, serverVars, readerVars, markVars, callerVars
  <2>4. SendNeverBlocks'
    BY <1>19, TableTypes DEF RemovePending, Go, Return, Release, RemoveEntry, SendNeverBlocks, Registered, PoppedIds, Subject, clientVars, sessionVars, serverVars, readerVars, markVars, callerVars
  <2> QED
    BY <2>1, <2>2, <2>3, <2>4
<1>20. ASSUME NEW c \in Callers, Notify(c) PROVE TableInv'
  <2>1. IdsOK'
    BY <1>20, TableTypes DEF Notify, Go, IdsOK, Registered, Subject, clientVars, sessionVars, serverVars, readerVars, markVars, callerVars
  <2>2. PendingOwned'
    BY <1>20, TableTypes DEF Notify, Go, PendingOwned, Waits, Registered, clientVars, sessionVars, serverVars, readerVars, markVars, callerVars
  <2>3. SendNeverBlocks'
    BY <1>20, TableTypes DEF Notify, Go, SendNeverBlocks, Registered, PoppedIds, Subject, clientVars, sessionVars, serverVars, readerVars, markVars, callerVars
  <2> QED
    BY <1>20, <2>1, <2>2, <2>3, TableFrame DEF Notify, clientVars, sessionVars, serverVars, readerVars, markVars, callerVars
<1>21. ASSUME NEW c \in Callers, NotifyFails(c) PROVE TableInv'
  <2>1. IdsOK'
    BY <1>21, TableTypes DEF NotifyFails, Go, Return, Release, IdsOK, Registered, Subject, clientVars, sessionVars, serverVars, readerVars, markVars, callerVars
  <2>2. PendingOwned'
    BY <1>21, TableTypes DEF NotifyFails, Go, Return, Release, PendingOwned, Waits, Registered, clientVars, sessionVars, serverVars, readerVars, markVars, callerVars
  <2>3. SendNeverBlocks'
    BY <1>21, TableTypes DEF NotifyFails, Go, Return, Release, SendNeverBlocks, Registered, PoppedIds, Subject, clientVars, sessionVars, serverVars, readerVars, markVars, callerVars
  <2> QED
    BY <1>21, <2>1, <2>2, <2>3, TableFrame DEF NotifyFails, clientVars, sessionVars, serverVars, readerVars, markVars, callerVars
<1>22. ASSUME NEW c \in Callers, SetInitialized(c) PROVE TableInv'
  <2>1. IdsOK'
    BY <1>22, TableTypes DEF SetInitialized, Go, Release, IdsOK, Registered, Subject, clientVars, sessionVars, serverVars, readerVars, markVars, callerVars
  <2>2. PendingOwned'
    BY <1>22, TableTypes DEF SetInitialized, Go, Release, PendingOwned, Waits, Registered, clientVars, sessionVars, serverVars, readerVars, markVars, callerVars
  <2>3. SendNeverBlocks'
    BY <1>22, TableTypes DEF SetInitialized, Go, Release, SendNeverBlocks, Registered, PoppedIds, Subject, clientVars, sessionVars, serverVars, readerVars, markVars, callerVars
  <2> QED
    BY <1>22, <2>1, <2>2, <2>3, TableFrame DEF SetInitialized, clientVars, sessionVars, serverVars, readerVars, markVars, callerVars
<1>23. ASSUME NEW c \in Callers, CallerMarked(c) PROVE TableInv'
  <2>1. IdsOK'
    BY <1>23, TableTypes DEF CallerMarked, Go, IfNotLive, StatusExit, IdsOK, Registered, Subject, clientVars, sessionVars, serverVars, readerVars, markVars, callerVars
  <2>2. PendingOwned'
    BY <1>23, TableTypes DEF CallerMarked, Go, IfNotLive, StatusExit, PendingOwned, Waits, Registered, clientVars, sessionVars, serverVars, readerVars, markVars, callerVars, LiveChecks, ControlOK
  <2>3. SendNeverBlocks'
    BY <1>23, TableTypes DEF CallerMarked, Go, IfNotLive, StatusExit, SendNeverBlocks, Registered, PoppedIds, Subject, clientVars, sessionVars, serverVars, readerVars, markVars, callerVars
  <2> QED
    BY <1>23, <2>1, <2>2, <2>3, TableFrame DEF CallerMarked, clientVars, sessionVars, serverVars, readerVars, markVars, callerVars
<1>24. ASSUME NEW a \in Agents, Swap(a) PROVE TableInv'
  BY <1>24, TableFrame DEF Swap, clientVars, sessionVars, serverVars, readerVars, markVars, callerVars
<1>25. ASSUME NEW a \in Agents, Unready(a) PROVE TableInv'
  BY <1>25, TableFrame DEF Unready, clientVars, sessionVars, serverVars, readerVars, markVars, callerVars
<1>26. ASSUME NEW a \in Agents, Record(a) PROVE TableInv'
  BY <1>26, TableFrame DEF Record, clientVars, sessionVars, serverVars, readerVars, markVars, callerVars
<1>27. ASSUME NEW a \in Agents, Drain(a) PROVE TableInv'
  <2>1. IdsOK'
    <3>1. Subject(a) \in Sessions /\ Subject(a)' = Subject(a)
      BY <1>27, SubjectType DEF Drain, Subject, clientVars
    <3>2. \A b \in Agents : Subject(b)' = Subject(b)
      BY <1>27 DEF Drain, Subject, clientVars
    <3>3. \A b \in Agents : \A id \in failing'[b] : id < nextId[Subject(b)]
      BY <1>27, <3>1, TableTypes DEF Drain, IdsOK
    <3>4. \A s \in Sessions : pending'[s] \subseteq pending[s]
      BY <1>27, TableTypes DEF Drain
    <3> QED
      BY <1>27, <3>2, <3>3, <3>4 DEF Drain, IdsOK, readerVars, callerVars
  <2>2. PendingOwned'
    BY <1>27, TableTypes DEF Drain, Subject, PendingOwned, Waits, Registered, clientVars, sessionVars, serverVars, readerVars, markVars, callerVars
  <2>3. OneSender'
    BY <1>27, TableTypes DEF Drain, Subject, OneSender, PoppedIds, clientVars, sessionVars, serverVars, readerVars, markVars, callerVars
  <2>4. SendNeverBlocks'
    BY <1>27, TableTypes DEF Drain, Subject, SendNeverBlocks, Registered, PoppedIds, clientVars, sessionVars, serverVars, readerVars, markVars, callerVars
  <2> QED
    BY <2>1, <2>2, <2>3, <2>4
<1>28. ASSUME NEW a \in Agents, Deliver(a) PROVE TableInv'
  <2>1. IdsOK'
    BY <1>28, TableTypes DEF Deliver, Send, Subject, IdsOK, Registered, clientVars, sessionVars, serverVars, readerVars, markVars, callerVars
  <2>2. OneSender'
    BY <1>28, TableTypes DEF Deliver, Send, Subject, OneSender, PoppedIds, clientVars, sessionVars, serverVars, readerVars, markVars, callerVars
  <2>3. SendNeverBlocks'
    <3>1. PICK id \in failing[a] :
             /\ Send(Subject(a), id, "exited")
             /\ failing' = [failing EXCEPT ![a] = @ \ {id}]
      BY <1>28 DEF Deliver
    <3>2. Subject(a) \in Sessions /\ \A b \in Agents : Subject(b)' = Subject(b)
      BY <1>28, SubjectType DEF Deliver, Subject, clientVars
    <3>3. /\ id \notin pending[Subject(a)] \cup PoppedIds(Subject(a))
          /\ \A b \in Agents : b # a /\ Subject(b) = Subject(a) => id \notin failing[b]
      BY <3>1, <3>2 DEF OneSender
    <3>4. \A b \in Agents : failing'[b] \subseteq failing[b] /\ id \notin failing'[a]
      BY <3>1, TableTypes
    <3>5. \A s \in Sessions : PoppedIds(s)' = PoppedIds(s) /\ pending'[s] = pending[s]
      BY <1>28 DEF Deliver, PoppedIds, readerVars, sessionVars
    <3>6. \A c \in Callers : \/ sess[c] = Subject(a) /\ req[c] = id
                             \/ chan'[c] = chan[c]
      BY <3>1 DEF Send, Waits
    <3>7. \A c \in Callers : pc[c] \in Registered => sess[c] \in Sessions
      BY SessionTypes DEF OnSession, Requesting, Registered
    <3> QED
      BY <1>28, <3>2, <3>3, <3>4, <3>5, <3>6, <3>7 DEF Deliver, SendNeverBlocks
  <2> QED
    BY <1>28, <2>1, <2>2, <2>3, TableFrame DEF Deliver, clientVars, sessionVars, serverVars, readerVars, markVars, callerVars
<1>29. ASSUME NEW s \in Sessions, TakeSender(s) PROVE TableInv'
  <2>1. IdsOK'
    BY <1>29, TableTypes DEF TakeSender, Reading, NextLine, RemoveEntry, IdsOK, Registered, Subject, clientVars, sessionVars, serverVars, readerVars, markVars, callerVars
  <2>2. PendingOwned'
    BY <1>29, TableTypes DEF TakeSender, Reading, NextLine, RemoveEntry, PendingOwned, Waits, Registered, clientVars, sessionVars, serverVars, readerVars, markVars, callerVars
  <2>3. OneSender'
    BY <1>29, TableTypes DEF TakeSender, Reading, NextLine, RemoveEntry, OneSender, PoppedIds, Subject, clientVars, sessionVars, serverVars, readerVars, markVars, callerVars
  <2>4. SendNeverBlocks'
    BY <1>29, TableTypes DEF TakeSender, Reading, NextLine, RemoveEntry, SendNeverBlocks, Registered, PoppedIds, Subject, clientVars, sessionVars, serverVars, readerVars, markVars, callerVars
  <2> QED
    BY <2>1, <2>2, <2>3, <2>4
<1>30. ASSUME NEW s \in Sessions, Unmatched(s) PROVE TableInv'
  BY <1>30, TableFrame DEF Unmatched, clientVars, sessionVars, serverVars, readerVars, markVars, callerVars
<1>31. ASSUME NEW s \in Sessions, Answer(s) PROVE TableInv'
  <2>1. IdsOK'
    BY <1>31, TableTypes DEF Answer, Send, IdsOK, Registered, Subject, clientVars, sessionVars, serverVars, readerVars, markVars, callerVars
  <2>2. OneSender'
    BY <1>31, TableTypes DEF Answer, Send, OneSender, PoppedIds, Subject, clientVars, sessionVars, serverVars, readerVars, markVars, callerVars
  <2>3. SendNeverBlocks'
    <3>1. PICK line \in popped[s] :
             Send(s, line.id, line.res) /\ popped' = [popped EXCEPT ![s] = {}]
      BY <1>31 DEF Answer
    <3>2. \A b \in Agents : Subject(b)' = Subject(b) /\ failing'[b] = failing[b]
      BY <1>31 DEF Answer, Subject, clientVars, markVars
    <3>3. /\ line.id \notin pending[s]
          /\ \A b \in Agents : Subject(b) = s => line.id \notin failing[b]
      BY <3>1 DEF OneSender, PoppedIds
    <3>4. PoppedIds(s)' = {} /\ \A r \in Sessions : PoppedIds(r)' \subseteq PoppedIds(r)
      BY <3>1, TableTypes DEF PoppedIds
    <3>5. pending' = pending
      BY <1>31 DEF Answer, sessionVars
    <3>6. \A c \in Callers : \/ sess[c] = s /\ req[c] = line.id
                             \/ chan'[c] = chan[c]
      BY <3>1 DEF Send, Waits
    <3>7. \A c \in Callers : pc[c] \in Registered => sess[c] \in Sessions
      BY SessionTypes DEF OnSession, Requesting, Registered
    <3> QED
      BY <1>31, <3>2, <3>3, <3>4, <3>5, <3>6, <3>7 DEF Answer, SendNeverBlocks
  <2> QED
    BY <1>31, <2>1, <2>2, <2>3, TableFrame DEF Answer, clientVars, sessionVars, serverVars, readerVars, markVars, callerVars
<1>32. ASSUME NEW s \in Sessions, StreamEnds(s) PROVE TableInv'
  BY <1>32, TableFrame DEF StreamEnds, clientVars, sessionVars, serverVars, readerVars, markVars, callerVars
<1>33. ASSUME NEW s \in Sessions, ReaderEnds(s) PROVE TableInv'
  BY <1>33, TableFrame DEF ReaderEnds, clientVars, sessionVars, serverVars, readerVars, markVars, callerVars
<1>34. ASSUME NEW s \in Sessions, ServerAnswers(s) PROVE TableInv'
  BY <1>34, TableFrame DEF ServerAnswers, clientVars, sessionVars, serverVars, readerVars, markVars, callerVars
<1>35. ASSUME NEW s \in Sessions, ServerGarbles(s) PROVE TableInv'
  BY <1>35, TableFrame DEF ServerGarbles, clientVars, sessionVars, serverVars, readerVars, markVars, callerVars
<1>36. ASSUME NEW s \in Sessions, ServerExits(s) PROVE TableInv'
  BY <1>36, TableFrame DEF ServerExits, clientVars, sessionVars, serverVars, readerVars, markVars, callerVars
<1>37. CASE UNCHANGED vars
  BY <1>37, TableFrame DEF vars, clientVars, sessionVars, serverVars, readerVars, markVars, callerVars
<1>38. QED
  BY <1>1, <1>2, <1>3, <1>4, <1>5, <1>6, <1>7, <1>8, <1>9, <1>10, <1>11, <1>12, <1>13, <1>14, <1>15, <1>16, <1>17, <1>18, <1>19, <1>20, <1>21, <1>22, <1>23, <1>24, <1>25, <1>26, <1>27, <1>28, <1>29, <1>30, <1>31, <1>32, <1>33, <1>34, <1>35, <1>36, <1>37 DEF Next, CallerStep, LocalStep, Writing, Marking, ReaderStep, Server, Finished

\* Every entry of the request table belongs to a request that still runs; the
\* sender of a request exists once; sending an answer never blocks.
THEOREM RequestTable == Spec => []TableSound
<1>1. TableInv => TableSound
  BY DEF TableInv, TableSound
<1>2. QED
  BY InitTypeInv, NextTypeInv, InitProcessInv, NextProcessInv, InitTableInv, NextTableInv,
     <1>1, PTL DEF Spec

\* What is on its way to a caller was answered by the app-server.
RepliesOK ==
    \A s \in Sessions :
        /\ popped[s] \subseteq answered[s]
        /\ \A i \in 1 .. Len(out[s]) : out[s][i] # Unreadable => out[s][i] \in answered[s]

ReplyInv == RepliesOK /\ ReplyIsTrue

LEMMA ReplyFrame ==
    /\ RepliesOK /\ UNCHANGED <<popped, out, answered>> => RepliesOK'
    /\ ReplyIsTrue /\ UNCHANGED <<pc, chan, req, sess, alive, answered>> => ReplyIsTrue'
  BY DEF RepliesOK, ReplyIsTrue

LEMMA InitReplyInv == Init => ReplyInv
  BY DEF Init, ReplyInv, RepliesOK, ReplyIsTrue, Registered

LEMMA NextReplyInv == TypeInv /\ TypeInv' /\ ProcessInv /\ ReplyInv /\ [Next]_vars => ReplyInv'
<1> SUFFICES ASSUME TypeInv, TypeInv', ProcessInv, ReplyInv, [Next]_vars PROVE ReplyInv'
  OBVIOUS
<1> USE DEF ReplyInv, TypeInv, ProcessInv
<1>1. ASSUME NEW c \in Callers, Ask(c) PROVE ReplyInv'
  <2>1. ReplyIsTrue'
    BY <1>1, ReplyTypes DEF Ask, Go, ReplyIsTrue, Registered, clientVars, sessionVars, serverVars, readerVars, markVars, callerVars
  <2> QED
    BY <1>1, <2>1, ReplyFrame DEF Ask, clientVars, sessionVars, serverVars, readerVars, markVars, callerVars
<1>2. ASSUME NEW c \in Callers, RefreshHome(c) PROVE ReplyInv'
  <2>1. ReplyIsTrue'
    BY <1>2, ReplyTypes DEF RefreshHome, Go, LifecycleFree, ReplyIsTrue, Registered, clientVars, sessionVars, serverVars, readerVars, markVars, callerVars
  <2> QED
    BY <1>2, <2>1, ReplyFrame DEF RefreshHome, clientVars, sessionVars, serverVars, readerVars, markVars, callerVars
<1>3. ASSUME NEW c \in Callers, SeeLive(c) PROVE ReplyInv'
  <2>1. ReplyIsTrue'
    BY <1>3, ReplyTypes DEF SeeLive, Go, HasLive, IfLive, RuntimeFree, ReplyIsTrue, Registered, clientVars, sessionVars, serverVars, readerVars, markVars, callerVars
  <2> QED
    BY <1>3, <2>1, ReplyFrame DEF SeeLive, clientVars, sessionVars, serverVars, readerVars, markVars, callerVars
<1>4. ASSUME NEW c \in Callers, SeeNone(c) PROVE ReplyInv'
  <2>1. ReplyIsTrue'
    BY <1>4, ReplyTypes DEF SeeNone, Go, HasLive, IfNotLive, StatusExit, RuntimeFree, ReplyIsTrue, Registered, clientVars, sessionVars, serverVars, readerVars, markVars, callerVars
  <2> QED
    BY <1>4, <2>1, ReplyFrame DEF SeeNone, clientVars, sessionVars, serverVars, readerVars, markVars, callerVars
<1>5. ASSUME NEW c \in Callers, SeeExited(c) PROVE ReplyInv'
  BY <1>5, ReplyFrame DEF SeeExited, clientVars, sessionVars, serverVars, readerVars, markVars, callerVars
<1>6. ASSUME NEW c \in Callers, CheckReady(c) PROVE ReplyInv'
  <2>1. ReplyIsTrue'
    BY <1>6, ReplyTypes DEF CheckReady, Go, Release, ReplyIsTrue, Registered, clientVars, sessionVars, serverVars, readerVars, markVars, callerVars
  <2> QED
    BY <1>6, <2>1, ReplyFrame DEF CheckReady, clientVars, sessionVars, serverVars, readerVars, markVars, callerVars
<1>7. ASSUME NEW c \in Callers, TakeLifecycle(c) PROVE ReplyInv'
  <2>1. ReplyIsTrue'
    BY <1>7, ReplyTypes DEF TakeLifecycle, Go, LifecycleFree, ReplyIsTrue, Registered, clientVars, sessionVars, serverVars, readerVars, markVars, callerVars
  <2> QED
    BY <1>7, <2>1, ReplyFrame DEF TakeLifecycle, clientVars, sessionVars, serverVars, readerVars, markVars, callerVars
<1>8. ASSUME NEW c \in Callers, StartFails(c) PROVE ReplyInv'
  <2>1. ReplyIsTrue'
    BY <1>8, ReplyTypes DEF StartFails, Go, Return, Release, ReplyIsTrue, Registered, clientVars, sessionVars, serverVars, readerVars, markVars, callerVars
  <2> QED
    BY <1>8, <2>1, ReplyFrame DEF StartFails, clientVars, sessionVars, serverVars, readerVars, markVars, callerVars
<1>9. ASSUME NEW c \in Callers, Spawn(c) PROVE ReplyInv'
  <2>1. ReplyIsTrue'
    <3>1. started' \notin {sess[d] : d \in Callers}
      BY <1>9, FunctionTypes DEF Spawn, MarkOK
    <3>2. \A d \in Callers : pc'[d] \in Registered => pc[d] \in Registered /\ sess'[d] = sess[d]
      BY <1>9, ReplyTypes DEF Spawn, Go, Registered
    <3>3. \A d \in Callers : alive'[sess[d]] => alive[sess[d]]
      BY <1>9, <3>1, ReplyTypes DEF Spawn
    <3> QED
      BY <1>9, <3>2, <3>3 DEF Spawn, ReplyIsTrue
  <2> QED
    BY <1>9, <2>1, ReplyFrame DEF Spawn, clientVars, sessionVars, serverVars, readerVars, markVars, callerVars
<1>10. ASSUME NEW c \in Callers, Publish(c) PROVE ReplyInv'
  <2>1. ReplyIsTrue'
    BY <1>10, ReplyTypes DEF Publish, Go, RuntimeFree, ReplyIsTrue, Registered, clientVars, sessionVars, serverVars, readerVars, markVars, callerVars
  <2> QED
    BY <1>10, <2>1, ReplyFrame DEF Publish, clientVars, sessionVars, serverVars, readerVars, markVars, callerVars
<1>11. ASSUME NEW c \in Callers, CheckInitialized(c) PROVE ReplyInv'
  <2>1. ReplyIsTrue'
    BY <1>11, ReplyTypes DEF CheckInitialized, Go, Release, ReplyIsTrue, Registered, clientVars, sessionVars, serverVars, readerVars, markVars, callerVars
  <2> QED
    BY <1>11, <2>1, ReplyFrame DEF CheckInitialized, clientVars, sessionVars, serverVars, readerVars, markVars, callerVars
<1>12. ASSUME NEW c \in Callers, RefuseDead(c) PROVE ReplyInv'
  <2>1. ReplyIsTrue'
    BY <1>12, ReplyTypes DEF RefuseDead, Go, Return, Release, ReplyIsTrue, Registered, clientVars, sessionVars, serverVars, readerVars, markVars, callerVars
  <2> QED
    BY <1>12, <2>1, ReplyFrame DEF RefuseDead, clientVars, sessionVars, serverVars, readerVars, markVars, callerVars
<1>13. ASSUME NEW c \in Callers, SeeAlive(c) PROVE ReplyInv'
  <2>1. ReplyIsTrue'
    BY <1>13, ReplyTypes DEF SeeAlive, Go, ReplyIsTrue, Registered, clientVars, sessionVars, serverVars, readerVars, markVars, callerVars
  <2> QED
    BY <1>13, <2>1, ReplyFrame DEF SeeAlive, clientVars, sessionVars, serverVars, readerVars, markVars, callerVars
<1>14. ASSUME NEW c \in Callers, Register(c) PROVE ReplyInv'
  <2>1. ReplyIsTrue'
    BY <1>14, ReplyTypes DEF Register, Go, ReplyIsTrue, Registered, clientVars, sessionVars, serverVars, readerVars, markVars, callerVars, NoReply, Answers
  <2> QED
    BY <1>14, <2>1, ReplyFrame DEF Register, clientVars, sessionVars, serverVars, readerVars, markVars, callerVars
<1>15. ASSUME NEW c \in Callers, Write(c) PROVE ReplyInv'
  <2>1. ReplyIsTrue'
    BY <1>15, ReplyTypes DEF Write, Go, ReplyIsTrue, Registered, clientVars, sessionVars, serverVars, readerVars, markVars, callerVars
  <2> QED
    BY <1>15, <2>1, ReplyFrame DEF Write, clientVars, sessionVars, serverVars, readerVars, markVars, callerVars
<1>16. ASSUME NEW c \in Callers, WriteFails(c) PROVE ReplyInv'
  <2>1. ReplyIsTrue'
    BY <1>16, ReplyTypes DEF WriteFails, Go, ReplyIsTrue, Registered, clientVars, sessionVars, serverVars, readerVars, markVars, callerVars
  <2> QED
    BY <1>16, <2>1, ReplyFrame DEF WriteFails, clientVars, sessionVars, serverVars, readerVars, markVars, callerVars
<1>17. ASSUME NEW c \in Callers, Receive(c) PROVE ReplyInv'
  <2>1. ReplyIsTrue'
    BY <1>17, ReplyTypes, ZenonT(60) DEF Receive, Go, Return, Release, AfterInitialize, ReplyIsTrue, Registered, clientVars, sessionVars, serverVars, readerVars, markVars, callerVars
  <2> QED
    BY <1>17, <2>1, ReplyFrame DEF Receive, clientVars, sessionVars, serverVars, readerVars, markVars, callerVars
<1>18. ASSUME NEW c \in Callers, TimeOut(c) PROVE ReplyInv'
  <2>1. ReplyIsTrue'
    BY <1>18, ReplyTypes DEF TimeOut, Go, ReplyIsTrue, Registered, clientVars, sessionVars, serverVars, readerVars, markVars, callerVars
  <2> QED
    BY <1>18, <2>1, ReplyFrame DEF TimeOut, clientVars, sessionVars, serverVars, readerVars, markVars, callerVars
<1>19. ASSUME NEW c \in Callers, RemovePending(c) PROVE ReplyInv'
  <2>1. ReplyIsTrue'
    BY <1>19, ReplyTypes DEF RemovePending, Go, Return, Release, RemoveEntry, ReplyIsTrue, Registered, clientVars, sessionVars, serverVars, readerVars, markVars, callerVars
  <2> QED
    BY <1>19, <2>1, ReplyFrame DEF RemovePending, clientVars, sessionVars, serverVars, readerVars, markVars, callerVars
<1>20. ASSUME NEW c \in Callers, Notify(c) PROVE ReplyInv'
  <2>1. ReplyIsTrue'
    BY <1>20, ReplyTypes DEF Notify, Go, ReplyIsTrue, Registered, clientVars, sessionVars, serverVars, readerVars, markVars, callerVars
  <2> QED
    BY <1>20, <2>1, ReplyFrame DEF Notify, clientVars, sessionVars, serverVars, readerVars, markVars, callerVars
<1>21. ASSUME NEW c \in Callers, NotifyFails(c) PROVE ReplyInv'
  <2>1. ReplyIsTrue'
    BY <1>21, ReplyTypes DEF NotifyFails, Go, Return, Release, ReplyIsTrue, Registered, clientVars, sessionVars, serverVars, readerVars, markVars, callerVars
  <2> QED
    BY <1>21, <2>1, ReplyFrame DEF NotifyFails, clientVars, sessionVars, serverVars, readerVars, markVars, callerVars
<1>22. ASSUME NEW c \in Callers, SetInitialized(c) PROVE ReplyInv'
  <2>1. ReplyIsTrue'
    BY <1>22, ReplyTypes DEF SetInitialized, Go, Release, ReplyIsTrue, Registered, clientVars, sessionVars, serverVars, readerVars, markVars, callerVars
  <2> QED
    BY <1>22, <2>1, ReplyFrame DEF SetInitialized, clientVars, sessionVars, serverVars, readerVars, markVars, callerVars
<1>23. ASSUME NEW c \in Callers, CallerMarked(c) PROVE ReplyInv'
  <2>1. ReplyIsTrue'
    BY <1>23, ReplyTypes DEF CallerMarked, Go, IfNotLive, StatusExit, ReplyIsTrue, Registered, clientVars, sessionVars, serverVars, readerVars, markVars, callerVars
  <2> QED
    BY <1>23, <2>1, ReplyFrame DEF CallerMarked, clientVars, sessionVars, serverVars, readerVars, markVars, callerVars
<1>24. ASSUME NEW a \in Agents, Swap(a) PROVE ReplyInv'
  <2>1. ReplyIsTrue'
    <3>1. \A d \in Callers : pc[d] \in Registered => sess[d] \in Sessions
      BY SessionTypes DEF OnSession, Requesting, Registered
    <3>2. \A s \in Sessions : alive'[s] => alive[s]
      BY <1>24, ReplyTypes DEF Swap
    <3> QED
      BY <1>24, <3>1, <3>2 DEF Swap, ReplyIsTrue, serverVars, callerVars
  <2> QED
    BY <1>24, <2>1, ReplyFrame DEF Swap, clientVars, sessionVars, serverVars, readerVars, markVars, callerVars
<1>25. ASSUME NEW a \in Agents, Unready(a) PROVE ReplyInv'
  BY <1>25, ReplyFrame DEF Unready, clientVars, sessionVars, serverVars, readerVars, markVars, callerVars
<1>26. ASSUME NEW a \in Agents, Record(a) PROVE ReplyInv'
  BY <1>26, ReplyFrame DEF Record, clientVars, sessionVars, serverVars, readerVars, markVars, callerVars
<1>27. ASSUME NEW a \in Agents, Drain(a) PROVE ReplyInv'
  BY <1>27, ReplyFrame DEF Drain, clientVars, sessionVars, serverVars, readerVars, markVars, callerVars
<1>28. ASSUME NEW a \in Agents, Deliver(a) PROVE ReplyInv'
  <2>1. ReplyIsTrue'
    <3>1. ~alive[Subject(a)]
      BY <1>28 DEF Deliver, MarkOK
    <3>2. \A d \in Callers : \/ chan'[d] = chan[d]
                             \/ sess[d] = Subject(a) /\ chan'[d] = "exited"
      BY <1>28, ReplyTypes DEF Deliver, Send, Waits
    <3> QED
      BY <1>28, <3>1, <3>2 DEF Deliver, ReplyIsTrue, Answers, sessionVars, serverVars
  <2> QED
    BY <1>28, <2>1, ReplyFrame DEF Deliver, clientVars, sessionVars, serverVars, readerVars, markVars, callerVars
<1>29. ASSUME NEW s \in Sessions, TakeSender(s) PROVE ReplyInv'
  <2>1. RepliesOK'
    <3>1. Head(out[s]) \in answered[s] /\ out[s] \in Seq(Lines) /\ out[s] # <<>>
      BY <1>29, ReplyTypes DEF TakeSender, RepliesOK
    <3>2. /\ Len(Tail(out[s])) = Len(out[s]) - 1
          /\ \A i \in 1 .. Len(Tail(out[s])) :
                i + 1 \in 1 .. Len(out[s]) /\ Tail(out[s])[i] = out[s][i + 1]
      BY <3>1
    <3>3. \A i \in 1 .. Len(Tail(out[s])) : Tail(out[s])[i] # Unreadable =>
             Tail(out[s])[i] \in answered[s]
      BY <3>2 DEF RepliesOK
    <3>4. popped'[s] = {Head(out[s])} /\ out'[s] = Tail(out[s])
             /\ \A r \in Sessions \ {s} : popped'[r] = popped[r] /\ out'[r] = out[r]
      BY <1>29, ReplyTypes DEF TakeSender, NextLine
    <3>5. answered' = answered
      BY <1>29 DEF TakeSender
    <3> QED
      BY <3>1, <3>3, <3>4, <3>5 DEF RepliesOK
  <2> QED
    BY <1>29, <2>1, ReplyFrame DEF TakeSender, clientVars, sessionVars, serverVars, readerVars, markVars, callerVars
<1>30. ASSUME NEW s \in Sessions, Unmatched(s) PROVE ReplyInv'
  <2>1. RepliesOK'
    BY <1>30, ReplyTypes DEF Unmatched, Reading, NextLine, RepliesOK, clientVars, sessionVars, serverVars, readerVars, markVars, callerVars
  <2> QED
    BY <1>30, <2>1, ReplyFrame DEF Unmatched, clientVars, sessionVars, serverVars, readerVars, markVars, callerVars
<1>31. ASSUME NEW s \in Sessions, Answer(s) PROVE ReplyInv'
  <2>1. RepliesOK'
    BY <1>31, ReplyTypes DEF Answer, Send, RepliesOK, clientVars, sessionVars, serverVars, readerVars, markVars, callerVars
  <2>2. ReplyIsTrue'
    <3>1. PICK line \in popped[s] : Send(s, line.id, line.res)
      BY <1>31 DEF Answer
    <3>2. line \in answered[s] /\ line = [id |-> line.id, res |-> line.res]
             /\ line.res \in Answers
      BY <3>1, ReplyTypes DEF RepliesOK, Responses
    <3>3. \A d \in Callers :
             \/ chan'[d] = chan[d]
             \/ sess[d] = s /\ req[d] = line.id /\ chan'[d] = line.res
      BY <3>1, ReplyTypes DEF Send, Waits
    <3> QED
      BY <1>31, <3>2, <3>3 DEF Answer, ReplyIsTrue, Answers, sessionVars, serverVars
  <2> QED
    BY <2>1, <2>2
<1>32. ASSUME NEW s \in Sessions, StreamEnds(s) PROVE ReplyInv'
  BY <1>32, ReplyFrame DEF StreamEnds, clientVars, sessionVars, serverVars, readerVars, markVars, callerVars
<1>33. ASSUME NEW s \in Sessions, ReaderEnds(s) PROVE ReplyInv'
  <2>1. RepliesOK'
    BY <1>33, ReplyTypes DEF ReaderEnds, RepliesOK, clientVars, sessionVars, serverVars, readerVars, markVars, callerVars
  <2> QED
    BY <1>33, <2>1, ReplyFrame DEF ReaderEnds, clientVars, sessionVars, serverVars, readerVars, markVars, callerVars
<1>34. ASSUME NEW s \in Sessions, ServerAnswers(s) PROVE ReplyInv'
  <2>1. RepliesOK'
    BY <1>34, ReplyTypes DEF ServerAnswers, RepliesOK, clientVars, sessionVars, serverVars, readerVars, markVars, callerVars
  <2>2. ReplyIsTrue'
    BY <1>34, ReplyTypes DEF ServerAnswers, ReplyIsTrue, Registered, clientVars, sessionVars, serverVars, readerVars, markVars, callerVars
  <2> QED
    BY <2>1, <2>2
<1>35. ASSUME NEW s \in Sessions, ServerGarbles(s) PROVE ReplyInv'
  <2>1. RepliesOK'
    BY <1>35, ReplyTypes DEF ServerGarbles, RepliesOK, clientVars, sessionVars, serverVars, readerVars, markVars, callerVars
  <2> QED
    BY <1>35, <2>1, ReplyFrame DEF ServerGarbles, clientVars, sessionVars, serverVars, readerVars, markVars, callerVars
<1>36. ASSUME NEW s \in Sessions, ServerExits(s) PROVE ReplyInv'
  BY <1>36, ReplyFrame DEF ServerExits, clientVars, sessionVars, serverVars, readerVars, markVars, callerVars
<1>37. CASE UNCHANGED vars
  BY <1>37, ReplyFrame DEF vars, clientVars, sessionVars, serverVars, readerVars, markVars, callerVars
<1>38. QED
  BY <1>1, <1>2, <1>3, <1>4, <1>5, <1>6, <1>7, <1>8, <1>9, <1>10, <1>11, <1>12, <1>13, <1>14, <1>15, <1>16, <1>17, <1>18, <1>19, <1>20, <1>21, <1>22, <1>23, <1>24, <1>25, <1>26, <1>27, <1>28, <1>29, <1>30, <1>31, <1>32, <1>33, <1>34, <1>35, <1>36, <1>37 DEF Next, CallerStep, LocalStep, Writing, Marking, ReaderStep, Server, Finished

\* Every answer a caller receives is true of its own request.
THEOREM RepliesAreTrue == Spec => []ReplyIsTrue
<1>1. ReplyInv => ReplyIsTrue
  BY DEF ReplyInv
<1>2. QED
  BY InitTypeInv, NextTypeInv, InitProcessInv, NextProcessInv, InitReplyInv, NextReplyInv,
     <1>1, PTL DEF Spec

-----------------------------------------------------------------------------
(* The handshake                                                            *)

\* What was initialized, or is used for calls, went through the handshake.
HandshakenOK ==
    /\ \A s \in Sessions : initialized[s] => stage[s] = "ready"
    /\ \A c \in Callers :
          pc[c] = "setInitialized" \/ (pc[c] \in Requesting /\ purpose[c] = "call") =>
             stage[sess[c]] = "ready"
    /\ \A s \in Sessions : s > started => stage[s] = "new"

\* A live session that went through the handshake is initialized, or is
\* about to be: this is where clearing `alive` before `initialized` matters.
SettingOK ==
    \A s \in Sessions : alive[s] /\ stage[s] = "ready" =>
        initialized[s] \/ \E c \in Callers : pc[c] = "setInitialized" /\ sess[c] = s

\* Nobody who is about to write initialize looks at such a session.
OpeningOK ==
    \A c \in Callers :
        /\ pc[c] = "begin" /\ purpose[c] = "initialize" =>
              ~(alive[sess[c]] /\ stage[sess[c]] = "ready")
        /\ pc[c] = "notify" => purpose[c] = "initialize" /\ stage[sess[c]] # "ready"
        /\ pc[c] \in {"register", "write", "await", "undo"} /\ purpose[c] = "initialize"
             => stage[sess[c]] # "ready"

HandshakeInv == HandshakenOK /\ SettingOK /\ OpeningOK

LEMMA HandshakeFrame ==
    /\ HandshakenOK /\ UNCHANGED <<initialized, stage, pc, purpose, sess, started>> => HandshakenOK'
    /\ SettingOK /\ UNCHANGED <<alive, stage, initialized, pc, sess>> => SettingOK'
    /\ OpeningOK /\ UNCHANGED <<pc, purpose, sess, alive, stage>> => OpeningOK'
  BY DEF HandshakenOK, SettingOK, OpeningOK

LEMMA InitHandshakeInv == Init => HandshakeInv
  BY DEF Init, HandshakeInv, HandshakenOK, SettingOK, OpeningOK, Requesting

LEMMA NextHandshakeInv == TypeInv /\ TypeInv' /\ ProcessInv /\ HandshakeInv /\ [Next]_vars => HandshakeInv'
<1> SUFFICES ASSUME TypeInv, TypeInv', ProcessInv, HandshakeInv, [Next]_vars PROVE HandshakeInv'
  OBVIOUS
<1> USE DEF HandshakeInv, TypeInv, ProcessInv
<1>1. ASSUME NEW c \in Callers, Ask(c) PROVE HandshakeInv'
  <2>1. HandshakenOK'
    BY <1>1, HandshakeTypes DEF Ask, Go, HandshakenOK, Requesting, clientVars, sessionVars, serverVars, readerVars, markVars, callerVars
  <2>2. SettingOK'
    BY <1>1, HandshakeTypes DEF Ask, Go, SettingOK, clientVars, sessionVars, serverVars, readerVars, markVars, callerVars
  <2>3. OpeningOK'
    BY <1>1, HandshakeTypes DEF Ask, Go, OpeningOK, clientVars, sessionVars, serverVars, readerVars, markVars, callerVars
  <2> QED
    BY <2>1, <2>2, <2>3
<1>2. ASSUME NEW c \in Callers, RefreshHome(c) PROVE HandshakeInv'
  <2>1. HandshakenOK'
    BY <1>2, HandshakeTypes DEF RefreshHome, Go, LifecycleFree, HandshakenOK, Requesting, clientVars, sessionVars, serverVars, readerVars, markVars, callerVars
  <2>2. SettingOK'
    BY <1>2, HandshakeTypes DEF RefreshHome, Go, LifecycleFree, SettingOK, clientVars, sessionVars, serverVars, readerVars, markVars, callerVars
  <2>3. OpeningOK'
    BY <1>2, HandshakeTypes DEF RefreshHome, Go, LifecycleFree, OpeningOK, clientVars, sessionVars, serverVars, readerVars, markVars, callerVars
  <2> QED
    BY <2>1, <2>2, <2>3
<1>3. ASSUME NEW c \in Callers, SeeLive(c) PROVE HandshakeInv'
  <2>1. HandshakenOK'
    BY <1>3, HandshakeTypes DEF SeeLive, Go, HasLive, IfLive, RuntimeFree, HandshakenOK, Requesting, clientVars, sessionVars, serverVars, readerVars, markVars, callerVars
  <2>2. SettingOK'
    BY <1>3, HandshakeTypes DEF SeeLive, Go, HasLive, IfLive, RuntimeFree, SettingOK, clientVars, sessionVars, serverVars, readerVars, markVars, callerVars, LiveChecks
  <2>3. OpeningOK'
    BY <1>3, HandshakeTypes DEF SeeLive, Go, HasLive, IfLive, RuntimeFree, OpeningOK, clientVars, sessionVars, serverVars, readerVars, markVars, callerVars
  <2> QED
    BY <2>1, <2>2, <2>3
<1>4. ASSUME NEW c \in Callers, SeeNone(c) PROVE HandshakeInv'
  <2>1. HandshakenOK'
    BY <1>4, HandshakeTypes DEF SeeNone, Go, HasLive, IfNotLive, StatusExit, RuntimeFree, HandshakenOK, Requesting, clientVars, sessionVars, serverVars, readerVars, markVars, callerVars
  <2>2. SettingOK'
    BY <1>4, HandshakeTypes DEF SeeNone, Go, HasLive, IfNotLive, StatusExit, RuntimeFree, SettingOK, clientVars, sessionVars, serverVars, readerVars, markVars, callerVars, LiveChecks
  <2>3. OpeningOK'
    BY <1>4, HandshakeTypes DEF SeeNone, Go, HasLive, IfNotLive, StatusExit, RuntimeFree, OpeningOK, clientVars, sessionVars, serverVars, readerVars, markVars, callerVars
  <2> QED
    BY <2>1, <2>2, <2>3
<1>5. ASSUME NEW c \in Callers, SeeExited(c) PROVE HandshakeInv'
  BY <1>5, HandshakeFrame DEF SeeExited, clientVars, sessionVars, serverVars, readerVars, markVars, callerVars
<1>6. ASSUME NEW c \in Callers, CheckReady(c) PROVE HandshakeInv'
  <2>1. HandshakenOK'
    BY <1>6, HandshakeTypes, SessionTypes DEF CheckReady, Go, Release, HandshakenOK, Requesting, clientVars, sessionVars, serverVars, readerVars, markVars, callerVars, OnSession, InHandshake
  <2>2. SettingOK'
    BY <1>6, HandshakeTypes DEF CheckReady, Go, Release, SettingOK, clientVars, sessionVars, serverVars, readerVars, markVars, callerVars
  <2>3. OpeningOK'
    BY <1>6, HandshakeTypes DEF CheckReady, Go, Release, OpeningOK, clientVars, sessionVars, serverVars, readerVars, markVars, callerVars
  <2> QED
    BY <2>1, <2>2, <2>3
<1>7. ASSUME NEW c \in Callers, TakeLifecycle(c) PROVE HandshakeInv'
  <2>1. HandshakenOK'
    BY <1>7, HandshakeTypes DEF TakeLifecycle, Go, LifecycleFree, HandshakenOK, Requesting, clientVars, sessionVars, serverVars, readerVars, markVars, callerVars
  <2>2. SettingOK'
    BY <1>7, HandshakeTypes DEF TakeLifecycle, Go, LifecycleFree, SettingOK, clientVars, sessionVars, serverVars, readerVars, markVars, callerVars
  <2>3. OpeningOK'
    BY <1>7, HandshakeTypes DEF TakeLifecycle, Go, LifecycleFree, OpeningOK, clientVars, sessionVars, serverVars, readerVars, markVars, callerVars
  <2> QED
    BY <2>1, <2>2, <2>3
<1>8. ASSUME NEW c \in Callers, StartFails(c) PROVE HandshakeInv'
  <2>1. HandshakenOK'
    BY <1>8, HandshakeTypes DEF StartFails, Go, Return, Release, HandshakenOK, Requesting, clientVars, sessionVars, serverVars, readerVars, markVars, callerVars
  <2>2. SettingOK'
    BY <1>8, HandshakeTypes DEF StartFails, Go, Return, Release, SettingOK, clientVars, sessionVars, serverVars, readerVars, markVars, callerVars
  <2>3. OpeningOK'
    BY <1>8, HandshakeTypes DEF StartFails, Go, Return, Release, OpeningOK, clientVars, sessionVars, serverVars, readerVars, markVars, callerVars
  <2> QED
    BY <2>1, <2>2, <2>3
<1>9. ASSUME NEW c \in Callers, Spawn(c) PROVE HandshakeInv'
  <2>1. HandshakenOK'
    <3>1. started \in Int /\ started' \in Int /\ started' > started
      BY <1>9, FunctionTypes DEF Spawn
    <3>2. \A d \in Callers : pc'[d] \in Requesting \cup {"setInitialized"} =>
             pc'[d] = pc[d] /\ sess'[d] = sess[d]
      BY <1>9, HandshakeTypes DEF Spawn, Go, Requesting
    <3>3. \A s \in Sessions : s > started' => s > started
      BY <3>1 DEF Sessions
    <3> QED
      BY <1>9, <3>2, <3>3 DEF Spawn, HandshakenOK
  <2>2. SettingOK'
    <3>1. /\ started' > started /\ started' \in Sessions
          /\ \A s \in Sessions : s # started' => alive'[s] = alive[s]
      BY <1>9, FunctionTypes DEF Spawn, TypeOK, ClientType, Sessions
    <3>2. stage[started'] = "new"
      BY <3>1 DEF HandshakenOK
    <3>3. \A d \in Callers : pc[d] = "setInitialized" =>
             pc'[d] = "setInitialized" /\ sess'[d] = sess[d]
      BY <1>9, HandshakeTypes DEF Spawn, Go
    <3> QED
      BY <1>9, <3>1, <3>2, <3>3 DEF Spawn, SettingOK
  <2>3. OpeningOK'
    <3>1. /\ \A d \in Callers : sess[d] # started'
          /\ \A s \in Sessions : s # started' => alive'[s] = alive[s]
      BY <1>9, FunctionTypes DEF Spawn, MarkOK
    <3>2. \A d \in Callers : pc'[d] \in Requesting \cup {"notify"} =>
             pc'[d] = pc[d] /\ sess'[d] = sess[d] /\ sess[d] \in Sessions
      BY <1>9, HandshakeTypes, SessionTypes DEF Spawn, Go, Requesting, OnSession
    <3> QED
      BY <1>9, <3>1, <3>2 DEF Spawn, OpeningOK, Requesting
  <2> QED
    BY <2>1, <2>2, <2>3
<1>10. ASSUME NEW c \in Callers, Publish(c) PROVE HandshakeInv'
  <2>1. HandshakenOK'
    BY <1>10, HandshakeTypes DEF Publish, Go, RuntimeFree, HandshakenOK, Requesting, clientVars, sessionVars, serverVars, readerVars, markVars, callerVars
  <2>2. SettingOK'
    BY <1>10, HandshakeTypes DEF Publish, Go, RuntimeFree, SettingOK, clientVars, sessionVars, serverVars, readerVars, markVars, callerVars
  <2>3. OpeningOK'
    BY <1>10, HandshakeTypes DEF Publish, Go, RuntimeFree, OpeningOK, clientVars, sessionVars, serverVars, readerVars, markVars, callerVars
  <2> QED
    BY <2>1, <2>2, <2>3
<1>11. ASSUME NEW c \in Callers, CheckInitialized(c) PROVE HandshakeInv'
  <2>1. HandshakenOK'
    BY <1>11, HandshakeTypes, SessionTypes DEF CheckInitialized, Go, Release, HandshakenOK, Requesting, clientVars, sessionVars, serverVars, readerVars, markVars, callerVars, OnSession
  <2>2. SettingOK'
    BY <1>11, HandshakeTypes DEF CheckInitialized, Go, Release, SettingOK, clientVars, sessionVars, serverVars, readerVars, markVars, callerVars
  <2>3. OpeningOK'
    <3>1. sess[c] \in Sessions
      BY <1>11, SessionTypes DEF CheckInitialized, OnSession
    <3>2. \A d \in Callers : pc[d] # "setInitialized"
      BY <1>11 DEF CheckInitialized, LifecycleOK, InHandshake
    <3>3. ~initialized[sess[c]] => ~(alive[sess[c]] /\ stage[sess[c]] = "ready")
      BY <3>1, <3>2 DEF SettingOK
    <3> QED
      BY <1>11, <3>3, HandshakeTypes
      DEF CheckInitialized, Go, Release, OpeningOK, sessionVars, serverVars
  <2> QED
    BY <2>1, <2>2, <2>3
<1>12. ASSUME NEW c \in Callers, RefuseDead(c) PROVE HandshakeInv'
  <2>1. HandshakenOK'
    BY <1>12, HandshakeTypes DEF RefuseDead, Go, Return, Release, HandshakenOK, Requesting, clientVars, sessionVars, serverVars, readerVars, markVars, callerVars
  <2>2. SettingOK'
    BY <1>12, HandshakeTypes DEF RefuseDead, Go, Return, Release, SettingOK, clientVars, sessionVars, serverVars, readerVars, markVars, callerVars
  <2>3. OpeningOK'
    BY <1>12, HandshakeTypes DEF RefuseDead, Go, Return, Release, OpeningOK, clientVars, sessionVars, serverVars, readerVars, markVars, callerVars
  <2> QED
    BY <2>1, <2>2, <2>3
<1>13. ASSUME NEW c \in Callers, SeeAlive(c) PROVE HandshakeInv'
  <2>1. HandshakenOK'
    BY <1>13, HandshakeTypes DEF SeeAlive, Go, HandshakenOK, Requesting, clientVars, sessionVars, serverVars, readerVars, markVars, callerVars
  <2>2. SettingOK'
    BY <1>13, HandshakeTypes DEF SeeAlive, Go, SettingOK, clientVars, sessionVars, serverVars, readerVars, markVars, callerVars
  <2>3. OpeningOK'
    BY <1>13, HandshakeTypes DEF SeeAlive, Go, OpeningOK, clientVars, sessionVars, serverVars, readerVars, markVars, callerVars
  <2> QED
    BY <2>1, <2>2, <2>3
<1>14. ASSUME NEW c \in Callers, Register(c) PROVE HandshakeInv'
  <2>1. HandshakenOK'
    BY <1>14, HandshakeTypes DEF Register, Go, HandshakenOK, Requesting, clientVars, sessionVars, serverVars, readerVars, markVars, callerVars
  <2>2. SettingOK'
    BY <1>14, HandshakeTypes DEF Register, Go, SettingOK, clientVars, sessionVars, serverVars, readerVars, markVars, callerVars
  <2>3. OpeningOK'
    BY <1>14, HandshakeTypes DEF Register, Go, OpeningOK, clientVars, sessionVars, serverVars, readerVars, markVars, callerVars
  <2> QED
    BY <2>1, <2>2, <2>3
<1>15. ASSUME NEW c \in Callers, Write(c) PROVE HandshakeInv'
  <2>1. HandshakenOK'
    BY <1>15, HandshakeTypes, SessionTypes, FunctionTypes DEF Write, Go, HandshakenOK, Requesting, clientVars, sessionVars, serverVars, readerVars, markVars, callerVars, MarkOK, OnSession
  <2>2. SettingOK'
    BY <1>15, HandshakeTypes DEF Write, Go, SettingOK, clientVars, sessionVars, serverVars, readerVars, markVars, callerVars
  <2>3. OpeningOK'
    BY <1>15, HandshakeTypes DEF Write, Go, OpeningOK, clientVars, sessionVars, serverVars, readerVars, markVars, callerVars
  <2> QED
    BY <2>1, <2>2, <2>3
<1>16. ASSUME NEW c \in Callers, WriteFails(c) PROVE HandshakeInv'
  <2>1. HandshakenOK'
    BY <1>16, HandshakeTypes DEF WriteFails, Go, HandshakenOK, Requesting, clientVars, sessionVars, serverVars, readerVars, markVars, callerVars
  <2>2. SettingOK'
    BY <1>16, HandshakeTypes DEF WriteFails, Go, SettingOK, clientVars, sessionVars, serverVars, readerVars, markVars, callerVars
  <2>3. OpeningOK'
    BY <1>16, HandshakeTypes DEF WriteFails, Go, OpeningOK, clientVars, sessionVars, serverVars, readerVars, markVars, callerVars
  <2> QED
    BY <2>1, <2>2, <2>3
<1>17. ASSUME NEW c \in Callers, Receive(c) PROVE HandshakeInv'
  <2>1. HandshakenOK'
    BY <1>17, HandshakeTypes DEF Receive, Go, Return, Release, AfterInitialize, HandshakenOK, Requesting, clientVars, sessionVars, serverVars, readerVars, markVars, callerVars
  <2>2. SettingOK'
    BY <1>17, HandshakeTypes DEF Receive, Go, Return, Release, AfterInitialize, SettingOK, clientVars, sessionVars, serverVars, readerVars, markVars, callerVars
  <2>3. OpeningOK'
    BY <1>17, HandshakeTypes DEF Receive, Go, Return, Release, AfterInitialize, OpeningOK, clientVars, sessionVars, serverVars, readerVars, markVars, callerVars
  <2> QED
    BY <2>1, <2>2, <2>3
<1>18. ASSUME NEW c \in Callers, TimeOut(c) PROVE HandshakeInv'
  <2>1. HandshakenOK'
    BY <1>18, HandshakeTypes DEF TimeOut, Go, HandshakenOK, Requesting, clientVars, sessionVars, serverVars, readerVars, markVars, callerVars
  <2>2. SettingOK'
    BY <1>18, HandshakeTypes DEF TimeOut, Go, SettingOK, clientVars, sessionVars, serverVars, readerVars, markVars, callerVars
  <2>3. OpeningOK'
    BY <1>18, HandshakeTypes DEF TimeOut, Go, OpeningOK, clientVars, sessionVars, serverVars, readerVars, markVars, callerVars
  <2> QED
    BY <2>1, <2>2, <2>3
<1>19. ASSUME NEW c \in Callers, RemovePending(c) PROVE HandshakeInv'
  <2>1. HandshakenOK'
    BY <1>19, HandshakeTypes DEF RemovePending, Go, Return, Release, RemoveEntry, HandshakenOK, Requesting, clientVars, sessionVars, serverVars, readerVars, markVars, callerVars
  <2>2. SettingOK'
    BY <1>19, HandshakeTypes DEF RemovePending, Go, Return, Release, RemoveEntry, SettingOK, clientVars, sessionVars, serverVars, readerVars, markVars, callerVars
  <2>3. OpeningOK'
    BY <1>19, HandshakeTypes DEF RemovePending, Go, Return, Release, RemoveEntry, OpeningOK, clientVars, sessionVars, serverVars, readerVars, markVars, callerVars
  <2> QED
    BY <2>1, <2>2, <2>3
<1>20. ASSUME NEW c \in Callers, Notify(c) PROVE HandshakeInv'
  <2>1. HandshakenOK'
    <3>1. sess[c] \in Sessions /\ sess[c] <= started
      BY <1>20, SessionTypes DEF Notify, OnSession, MarkOK
    <3>2. /\ stage'[sess[c]] = "ready"
          /\ \A s \in Sessions : s # sess[c] => stage'[s] = stage[s]
      BY <1>20, <3>1, HandshakeTypes DEF Notify
    <3>3. \A d \in Callers : d # c => pc'[d] = pc[d]
      BY <1>20, HandshakeTypes DEF Notify, Go
    <3>4. pc'[c] = "setInitialized"
      BY <1>20, HandshakeTypes DEF Notify, Go
    <3>5. \A d \in Callers : pc[d] \in OnSession => sess[d] \in Sessions
      BY SessionTypes
    <3>6. \A s \in Sessions : s > started => stage'[s] = "new"
      BY <3>1, <3>2, FunctionTypes DEF HandshakenOK
    <3> QED
      BY <1>20, <3>2, <3>3, <3>4, <3>5, <3>6
      DEF Notify, HandshakenOK, OnSession, Requesting, clientVars, sessionVars
  <2>2. SettingOK'
    BY <1>20, HandshakeTypes DEF Notify, Go, SettingOK, clientVars, sessionVars, serverVars, readerVars, markVars, callerVars
  <2>3. OpeningOK'
    <3>1. \A d \in Callers : d # c => ~InHandshake(d)
      BY <1>20 DEF Notify, LifecycleOK, InHandshake
    <3>2. \A d \in Callers : d # c => pc'[d] = pc[d]
      BY <1>20, HandshakeTypes DEF Notify, Go
    <3>3. pc'[c] = "setInitialized"
      BY <1>20, HandshakeTypes DEF Notify, Go
    <3> QED
      BY <1>20, <3>1, <3>2, <3>3 DEF Notify, OpeningOK, InHandshake, Requesting
  <2> QED
    BY <2>1, <2>2, <2>3
<1>21. ASSUME NEW c \in Callers, NotifyFails(c) PROVE HandshakeInv'
  <2>1. HandshakenOK'
    BY <1>21, HandshakeTypes DEF NotifyFails, Go, Return, Release, HandshakenOK, Requesting, clientVars, sessionVars, serverVars, readerVars, markVars, callerVars
  <2>2. SettingOK'
    BY <1>21, HandshakeTypes DEF NotifyFails, Go, Return, Release, SettingOK, clientVars, sessionVars, serverVars, readerVars, markVars, callerVars
  <2>3. OpeningOK'
    BY <1>21, HandshakeTypes DEF NotifyFails, Go, Return, Release, OpeningOK, clientVars, sessionVars, serverVars, readerVars, markVars, callerVars
  <2> QED
    BY <2>1, <2>2, <2>3
<1>22. ASSUME NEW c \in Callers, SetInitialized(c) PROVE HandshakeInv'
  <2>1. HandshakenOK'
    BY <1>22, HandshakeTypes DEF SetInitialized, Go, Release, HandshakenOK, Requesting, clientVars, sessionVars, serverVars, readerVars, markVars, callerVars
  <2>2. SettingOK'
    BY <1>22, HandshakeTypes DEF SetInitialized, Go, Release, SettingOK, clientVars, sessionVars, serverVars, readerVars, markVars, callerVars
  <2>3. OpeningOK'
    BY <1>22, HandshakeTypes DEF SetInitialized, Go, Release, OpeningOK, clientVars, sessionVars, serverVars, readerVars, markVars, callerVars
  <2> QED
    BY <2>1, <2>2, <2>3
<1>23. ASSUME NEW c \in Callers, CallerMarked(c) PROVE HandshakeInv'
  <2>1. HandshakenOK'
    BY <1>23, HandshakeTypes DEF CallerMarked, Go, IfNotLive, StatusExit, HandshakenOK, Requesting, clientVars, sessionVars, serverVars, readerVars, markVars, callerVars
  <2>2. SettingOK'
    BY <1>23, HandshakeTypes DEF CallerMarked, Go, IfNotLive, StatusExit, SettingOK, clientVars, sessionVars, serverVars, readerVars, markVars, callerVars, LiveChecks, ControlOK
  <2>3. OpeningOK'
    BY <1>23, HandshakeTypes DEF CallerMarked, Go, IfNotLive, StatusExit, OpeningOK, clientVars, sessionVars, serverVars, readerVars, markVars, callerVars
  <2> QED
    BY <2>1, <2>2, <2>3
<1>24. ASSUME NEW a \in Agents, Swap(a) PROVE HandshakeInv'
  <2>1. SettingOK'
    BY <1>24, HandshakeTypes DEF Swap, Subject, FirstToSee, SettingOK, clientVars, sessionVars, serverVars, readerVars, markVars, callerVars
  <2>2. OpeningOK'
    BY <1>24, HandshakeTypes DEF Swap, Subject, FirstToSee, OpeningOK, clientVars, sessionVars, serverVars, readerVars, markVars, callerVars
  <2> QED
    BY <1>24, <2>1, <2>2, HandshakeFrame DEF Swap, clientVars, sessionVars, serverVars, readerVars, markVars, callerVars
<1>25. ASSUME NEW a \in Agents, Unready(a) PROVE HandshakeInv'
  <2>1. HandshakenOK'
    BY <1>25, HandshakeTypes DEF Unready, Subject, HandshakenOK, Requesting, clientVars, sessionVars, serverVars, readerVars, markVars, callerVars
  <2>2. SettingOK'
    <3>1. Subject(a) \in Sessions /\ ~alive[Subject(a)]
      BY <1>25, SubjectType DEF Unready, MarkOK
    <3>2. \A s \in Sessions : s # Subject(a) => initialized'[s] = initialized[s]
      BY <1>25, HandshakeTypes DEF Unready
    <3> QED
      BY <1>25, <3>1, <3>2 DEF Unready, SettingOK, serverVars, callerVars
  <2> QED
    BY <1>25, <2>1, <2>2, HandshakeFrame DEF Unready, clientVars, sessionVars, serverVars, readerVars, markVars, callerVars
<1>26. ASSUME NEW a \in Agents, Record(a) PROVE HandshakeInv'
  BY <1>26, HandshakeFrame DEF Record, clientVars, sessionVars, serverVars, readerVars, markVars, callerVars
<1>27. ASSUME NEW a \in Agents, Drain(a) PROVE HandshakeInv'
  BY <1>27, HandshakeFrame DEF Drain, clientVars, sessionVars, serverVars, readerVars, markVars, callerVars
<1>28. ASSUME NEW a \in Agents, Deliver(a) PROVE HandshakeInv'
  BY <1>28, HandshakeFrame DEF Deliver, clientVars, sessionVars, serverVars, readerVars, markVars, callerVars
<1>29. ASSUME NEW s \in Sessions, TakeSender(s) PROVE HandshakeInv'
  BY <1>29, HandshakeFrame DEF TakeSender, clientVars, sessionVars, serverVars, readerVars, markVars, callerVars
<1>30. ASSUME NEW s \in Sessions, Unmatched(s) PROVE HandshakeInv'
  BY <1>30, HandshakeFrame DEF Unmatched, clientVars, sessionVars, serverVars, readerVars, markVars, callerVars
<1>31. ASSUME NEW s \in Sessions, Answer(s) PROVE HandshakeInv'
  BY <1>31, HandshakeFrame DEF Answer, clientVars, sessionVars, serverVars, readerVars, markVars, callerVars
<1>32. ASSUME NEW s \in Sessions, StreamEnds(s) PROVE HandshakeInv'
  BY <1>32, HandshakeFrame DEF StreamEnds, clientVars, sessionVars, serverVars, readerVars, markVars, callerVars
<1>33. ASSUME NEW s \in Sessions, ReaderEnds(s) PROVE HandshakeInv'
  BY <1>33, HandshakeFrame DEF ReaderEnds, clientVars, sessionVars, serverVars, readerVars, markVars, callerVars
<1>34. ASSUME NEW s \in Sessions, ServerAnswers(s) PROVE HandshakeInv'
  BY <1>34, HandshakeFrame DEF ServerAnswers, clientVars, sessionVars, serverVars, readerVars, markVars, callerVars
<1>35. ASSUME NEW s \in Sessions, ServerGarbles(s) PROVE HandshakeInv'
  BY <1>35, HandshakeFrame DEF ServerGarbles, clientVars, sessionVars, serverVars, readerVars, markVars, callerVars
<1>36. ASSUME NEW s \in Sessions, ServerExits(s) PROVE HandshakeInv'
  BY <1>36, HandshakeFrame DEF ServerExits, clientVars, sessionVars, serverVars, readerVars, markVars, callerVars
<1>37. CASE UNCHANGED vars
  BY <1>37, HandshakeFrame DEF vars, clientVars, sessionVars, serverVars, readerVars, markVars, callerVars
<1>38. QED
  BY <1>1, <1>2, <1>3, <1>4, <1>5, <1>6, <1>7, <1>8, <1>9, <1>10, <1>11, <1>12, <1>13, <1>14, <1>15, <1>16, <1>17, <1>18, <1>19, <1>20, <1>21, <1>22, <1>23, <1>24, <1>25, <1>26, <1>27, <1>28, <1>29, <1>30, <1>31, <1>32, <1>33, <1>34, <1>35, <1>36, <1>37 DEF Next, CallerStep, LocalStep, Writing, Marking, ReaderStep, Server, Finished

\* A session handed out by the fast path is initialized on the app-server too.
THEOREM ReadyIsHandshaken == Spec => []ReadyMeansHandshaken
<1>1. HandshakeInv => ReadyMeansHandshaken
  BY DEF HandshakeInv, HandshakenOK, ReadyMeansHandshaken
<1>2. QED
  BY InitTypeInv, NextTypeInv, InitProcessInv, NextProcessInv, InitHandshakeInv,
     NextHandshakeInv, <1>1, PTL DEF Spec

\* At most one session lives, and the one handed out is through its handshake.
THEOREM SessionIsSound == Spec => []SessionSound
<1>1. OneLiveSession /\ ReadyMeansHandshaken => SessionSound
  BY DEF SessionSound
<1>2. QED
  BY OneLiveSessionHolds, ReadyIsHandshaken, <1>1, PTL

\* Which steps write the inbox of a session.
LEMMA InboxWriters ==
    [Next]_vars =>
        \/ inbox' = inbox
        \/ \E c \in Callers : Write(c)
        \/ \E s \in Sessions : ServerAnswers(s) \/ ServerExits(s)
<1>1. ASSUME NEW c \in Callers, Ask(c) \/ CallerStep(c)
      PROVE  inbox' = inbox \/ Write(c)
  BY <1>1 DEF Ask, CallerStep, LocalStep, Writing, RefreshHome, SeeLive, SeeNone, SeeExited, CheckReady,
      TakeLifecycle, StartFails, Spawn, Publish, CheckInitialized, RefuseDead,
      SeeAlive, Register, WriteFails, Receive, TimeOut, RemovePending, Notify,
      NotifyFails, SetInitialized, CallerMarked, clientVars, sessionVars,
      serverVars, callerVars
<1>2. ASSUME NEW a \in Agents, Marking(a) PROVE inbox' = inbox
  BY <1>2 DEF Marking, Swap, Unready, Record, Drain, Deliver, serverVars
<1>3. ASSUME NEW s \in Sessions, ReaderStep(s) PROVE inbox' = inbox
  BY <1>3 DEF ReaderStep, TakeSender, Unmatched, Answer, StreamEnds, ReaderEnds,
      serverVars
<1>4. ASSUME NEW s \in Sessions, Server(s)
      PROVE  inbox' = inbox \/ ServerAnswers(s) \/ ServerExits(s)
  BY <1>4 DEF Server, ServerGarbles
<1>5. CASE UNCHANGED vars
  BY <1>5 DEF vars, serverVars
<1>6. QED
  BY <1>1, <1>2, <1>3, <1>4, <1>5 DEF Next, Finished

\* Calls follow the handshake on the wire of every session, and no initialize
\* comes after it.
THEOREM HandshakeOrdered == Spec => HandshakeOrder
<1> DEFINE Ordered == \A s \in Sessions : \A m \in inbox'[s] \ inbox[s] :
                          m.kind = (IF stage[s] = "ready" THEN "call" ELSE "initialize")
<1>1. TypeInv /\ HandshakeInv /\ [Next]_vars => [Ordered]_vars
  <2> SUFFICES ASSUME TypeInv, HandshakeInv, [Next]_vars PROVE Ordered
    OBVIOUS
  <2>1. inbox \in [Sessions -> SUBSET [id : Nat, kind : Kinds]]
    BY DEF TypeInv, TypeOK, ServerType
  <2>2. ASSUME NEW c \in Callers, Write(c) PROVE Ordered
    <3> DEFINE message == [id |-> req[c], kind |-> purpose[c]]
    <3>1. \A s \in Sessions : inbox'[s] \ inbox[s] \subseteq
             IF s = sess[c] THEN {message} ELSE {}
      BY <2>1, <2>2 DEF Write
    <3>2. purpose[c] = (IF stage[sess[c]] = "ready" THEN "call" ELSE "initialize")
      BY <2>2, HandshakeTypes
      DEF Write, TypeInv, HandshakeInv, HandshakenOK, OpeningOK, Requesting, Kinds
    <3>3. message.kind = purpose[c]
      OBVIOUS
    <3> QED
      BY <3>1, <3>2, <3>3
  <2>3. ASSUME NEW s \in Sessions, ServerAnswers(s) \/ ServerExits(s) PROVE Ordered
    <3>1. \A r \in Sessions : inbox'[r] \subseteq inbox[r]
      BY <2>1, <2>3 DEF ServerAnswers, ServerExits
    <3> QED
      BY <3>1
  <2> QED
    BY <2>2, <2>3, InboxWriters
<1>2. QED
  BY InitTypeInv, NextTypeInv, InitProcessInv, NextProcessInv, InitHandshakeInv,
     NextHandshakeInv, <1>1, PTL DEF Spec, HandshakeOrder

-----------------------------------------------------------------------------
(* The record of an exit                                                    *)

Recording(a) == mark[a] \in {"unready", "record"}

\* One agent at most is about to record the exit of a session, and only of a
\* session that is dead and has no record yet.
RecordOK ==
    /\ \A s \in Sessions : alive[s] \/ s > started => exit[s] = "none"
    /\ \A a \in Agents : Recording(a) => exit[Subject(a)] = "none"
    /\ \A a, b \in Agents : Recording(a) /\ Recording(b) /\ Subject(a) = Subject(b) => a = b

\* The status shows the record of the current session, or nothing.
ShownOK ==
    /\ lastExit # "none" => current # NoSession /\ lastExit = exit[current]
    /\ \A c \in Callers : pc[c] = "publish" => current < sess[c]

ExitInv == RecordOK /\ ShownOK

LEMMA ExitFrame ==
    /\ RecordOK /\ UNCHANGED <<alive, exit, mark, current, started>> => RecordOK'
    /\ ShownOK /\ UNCHANGED <<lastExit, current, exit, pc, sess>> => ShownOK'
  BY DEF RecordOK, ShownOK, Recording, Subject

LEMMA InitExitInv == Init => ExitInv
  BY ConstantsAssumption DEF Init, ExitInv, RecordOK, ShownOK, Recording, Agents, Sessions

LEMMA NextExitInv == TypeInv /\ TypeInv' /\ ProcessInv /\ ExitInv /\ [Next]_vars => ExitInv'
<1> SUFFICES ASSUME TypeInv, TypeInv', ProcessInv, ExitInv, [Next]_vars PROVE ExitInv'
  OBVIOUS
<1> USE DEF ExitInv, TypeInv, ProcessInv
<1>1. ASSUME NEW c \in Callers, Ask(c) PROVE ExitInv'
  <2>1. ShownOK'
    BY <1>1, ExitTypes DEF Ask, Go, ShownOK, clientVars, sessionVars, serverVars, readerVars, markVars, callerVars
  <2> QED
    BY <1>1, <2>1, ExitFrame DEF Ask, clientVars, sessionVars, serverVars, readerVars, markVars, callerVars
<1>2. ASSUME NEW c \in Callers, RefreshHome(c) PROVE ExitInv'
  <2>1. ShownOK'
    BY <1>2, ExitTypes DEF RefreshHome, Go, LifecycleFree, ShownOK, clientVars, sessionVars, serverVars, readerVars, markVars, callerVars
  <2> QED
    BY <1>2, <2>1, ExitFrame DEF RefreshHome, clientVars, sessionVars, serverVars, readerVars, markVars, callerVars
<1>3. ASSUME NEW c \in Callers, SeeLive(c) PROVE ExitInv'
  <2>1. ShownOK'
    BY <1>3, ExitTypes DEF SeeLive, Go, HasLive, IfLive, RuntimeFree, ShownOK, clientVars, sessionVars, serverVars, readerVars, markVars, callerVars
  <2> QED
    BY <1>3, <2>1, ExitFrame DEF SeeLive, clientVars, sessionVars, serverVars, readerVars, markVars, callerVars
<1>4. ASSUME NEW c \in Callers, SeeNone(c) PROVE ExitInv'
  <2>1. ShownOK'
    BY <1>4, ExitTypes DEF SeeNone, Go, HasLive, IfNotLive, StatusExit, RuntimeFree, ShownOK, clientVars, sessionVars, serverVars, readerVars, markVars, callerVars
  <2> QED
    BY <1>4, <2>1, ExitFrame DEF SeeNone, clientVars, sessionVars, serverVars, readerVars, markVars, callerVars
<1>5. ASSUME NEW c \in Callers, SeeExited(c) PROVE ExitInv'
  <2>1. RecordOK'
    BY <1>5, ExitTypes DEF SeeExited, Go, HasLive, RuntimeFree, RecordOK, Recording, Subject, clientVars, sessionVars, serverVars, readerVars, markVars, callerVars
  <2> QED
    BY <1>5, <2>1, ExitFrame DEF SeeExited, clientVars, sessionVars, serverVars, readerVars, markVars, callerVars
<1>6. ASSUME NEW c \in Callers, CheckReady(c) PROVE ExitInv'
  <2>1. ShownOK'
    BY <1>6, ExitTypes DEF CheckReady, Go, Release, ShownOK, clientVars, sessionVars, serverVars, readerVars, markVars, callerVars
  <2> QED
    BY <1>6, <2>1, ExitFrame DEF CheckReady, clientVars, sessionVars, serverVars, readerVars, markVars, callerVars
<1>7. ASSUME NEW c \in Callers, TakeLifecycle(c) PROVE ExitInv'
  <2>1. ShownOK'
    BY <1>7, ExitTypes DEF TakeLifecycle, Go, LifecycleFree, ShownOK, clientVars, sessionVars, serverVars, readerVars, markVars, callerVars
  <2> QED
    BY <1>7, <2>1, ExitFrame DEF TakeLifecycle, clientVars, sessionVars, serverVars, readerVars, markVars, callerVars
<1>8. ASSUME NEW c \in Callers, StartFails(c) PROVE ExitInv'
  <2>1. ShownOK'
    BY <1>8, ExitTypes DEF StartFails, Go, Return, Release, ShownOK, clientVars, sessionVars, serverVars, readerVars, markVars, callerVars
  <2> QED
    BY <1>8, <2>1, ExitFrame DEF StartFails, clientVars, sessionVars, serverVars, readerVars, markVars, callerVars
<1>9. ASSUME NEW c \in Callers, Spawn(c) PROVE ExitInv'
  <2>1. RecordOK'
    <3>1. /\ started' > started /\ started' \in Sessions /\ started \in Nat
          /\ \A s \in Sessions : s # started' => alive'[s] = alive[s]
      BY <1>9, FunctionTypes DEF Spawn, TypeOK, ClientType, Sessions
    <3>2. \A s \in Sessions : alive'[s] \/ s > started' => alive[s] \/ s > started
      BY <3>1, FunctionTypes
    <3> QED
      BY <1>9, <3>2 DEF Spawn, RecordOK, Recording, Subject, markVars
  <2>2. ShownOK'
    <3>1. current < started'
      BY <1>9, FunctionTypes DEF Spawn, MarkOK
    <3> QED
      BY <1>9, <3>1, ExitTypes DEF Spawn, Go, ShownOK
  <2> QED
    BY <2>1, <2>2
<1>10. ASSUME NEW c \in Callers, Publish(c) PROVE ExitInv'
  <2>1. RecordOK'
    <3>1. \A a \in Agents : Recording(a) => a \in Sessions
      BY <1>10 DEF Publish, RuntimeFree, Recording, Agents
    <3>2. \A a \in Agents : Recording(a) => Subject(a)' = Subject(a)
      BY <3>1 DEF Subject
    <3> QED
      BY <1>10, <3>2 DEF Publish, RecordOK, Recording, sessionVars, markVars
  <2>2. ShownOK'
    <3>1. lastExit' = "none" /\ current' = sess[c]
      BY <1>10 DEF Publish
    <3>2. \A d \in Callers : pc'[d] # "publish"
      BY <1>10, ExitTypes DEF Publish, Go, LifecycleOK, InHandshake
    <3> QED
      BY <1>10, <3>1, <3>2 DEF ShownOK
  <2> QED
    BY <2>1, <2>2
<1>11. ASSUME NEW c \in Callers, CheckInitialized(c) PROVE ExitInv'
  <2>1. ShownOK'
    BY <1>11, ExitTypes DEF CheckInitialized, Go, Release, ShownOK, clientVars, sessionVars, serverVars, readerVars, markVars, callerVars
  <2> QED
    BY <1>11, <2>1, ExitFrame DEF CheckInitialized, clientVars, sessionVars, serverVars, readerVars, markVars, callerVars
<1>12. ASSUME NEW c \in Callers, RefuseDead(c) PROVE ExitInv'
  <2>1. ShownOK'
    BY <1>12, ExitTypes DEF RefuseDead, Go, Return, Release, ShownOK, clientVars, sessionVars, serverVars, readerVars, markVars, callerVars
  <2> QED
    BY <1>12, <2>1, ExitFrame DEF RefuseDead, clientVars, sessionVars, serverVars, readerVars, markVars, callerVars
<1>13. ASSUME NEW c \in Callers, SeeAlive(c) PROVE ExitInv'
  <2>1. ShownOK'
    BY <1>13, ExitTypes DEF SeeAlive, Go, ShownOK, clientVars, sessionVars, serverVars, readerVars, markVars, callerVars
  <2> QED
    BY <1>13, <2>1, ExitFrame DEF SeeAlive, clientVars, sessionVars, serverVars, readerVars, markVars, callerVars
<1>14. ASSUME NEW c \in Callers, Register(c) PROVE ExitInv'
  <2>1. ShownOK'
    BY <1>14, ExitTypes DEF Register, Go, ShownOK, clientVars, sessionVars, serverVars, readerVars, markVars, callerVars
  <2> QED
    BY <1>14, <2>1, ExitFrame DEF Register, clientVars, sessionVars, serverVars, readerVars, markVars, callerVars
<1>15. ASSUME NEW c \in Callers, Write(c) PROVE ExitInv'
  <2>1. ShownOK'
    BY <1>15, ExitTypes DEF Write, Go, ShownOK, clientVars, sessionVars, serverVars, readerVars, markVars, callerVars
  <2> QED
    BY <1>15, <2>1, ExitFrame DEF Write, clientVars, sessionVars, serverVars, readerVars, markVars, callerVars
<1>16. ASSUME NEW c \in Callers, WriteFails(c) PROVE ExitInv'
  <2>1. ShownOK'
    BY <1>16, ExitTypes DEF WriteFails, Go, ShownOK, clientVars, sessionVars, serverVars, readerVars, markVars, callerVars
  <2> QED
    BY <1>16, <2>1, ExitFrame DEF WriteFails, clientVars, sessionVars, serverVars, readerVars, markVars, callerVars
<1>17. ASSUME NEW c \in Callers, Receive(c) PROVE ExitInv'
  <2>1. ShownOK'
    BY <1>17, ExitTypes DEF Receive, Go, Return, Release, AfterInitialize, ShownOK, clientVars, sessionVars, serverVars, readerVars, markVars, callerVars
  <2> QED
    BY <1>17, <2>1, ExitFrame DEF Receive, clientVars, sessionVars, serverVars, readerVars, markVars, callerVars
<1>18. ASSUME NEW c \in Callers, TimeOut(c) PROVE ExitInv'
  <2>1. ShownOK'
    BY <1>18, ExitTypes DEF TimeOut, Go, ShownOK, clientVars, sessionVars, serverVars, readerVars, markVars, callerVars
  <2> QED
    BY <1>18, <2>1, ExitFrame DEF TimeOut, clientVars, sessionVars, serverVars, readerVars, markVars, callerVars
<1>19. ASSUME NEW c \in Callers, RemovePending(c) PROVE ExitInv'
  <2>1. ShownOK'
    BY <1>19, ExitTypes DEF RemovePending, Go, Return, Release, RemoveEntry, ShownOK, clientVars, sessionVars, serverVars, readerVars, markVars, callerVars
  <2> QED
    BY <1>19, <2>1, ExitFrame DEF RemovePending, clientVars, sessionVars, serverVars, readerVars, markVars, callerVars
<1>20. ASSUME NEW c \in Callers, Notify(c) PROVE ExitInv'
  <2>1. ShownOK'
    BY <1>20, ExitTypes DEF Notify, Go, ShownOK, clientVars, sessionVars, serverVars, readerVars, markVars, callerVars
  <2> QED
    BY <1>20, <2>1, ExitFrame DEF Notify, clientVars, sessionVars, serverVars, readerVars, markVars, callerVars
<1>21. ASSUME NEW c \in Callers, NotifyFails(c) PROVE ExitInv'
  <2>1. ShownOK'
    BY <1>21, ExitTypes DEF NotifyFails, Go, Return, Release, ShownOK, clientVars, sessionVars, serverVars, readerVars, markVars, callerVars
  <2> QED
    BY <1>21, <2>1, ExitFrame DEF NotifyFails, clientVars, sessionVars, serverVars, readerVars, markVars, callerVars
<1>22. ASSUME NEW c \in Callers, SetInitialized(c) PROVE ExitInv'
  <2>1. ShownOK'
    BY <1>22, ExitTypes DEF SetInitialized, Go, Release, ShownOK, clientVars, sessionVars, serverVars, readerVars, markVars, callerVars
  <2> QED
    BY <1>22, <2>1, ExitFrame DEF SetInitialized, clientVars, sessionVars, serverVars, readerVars, markVars, callerVars
<1>23. ASSUME NEW c \in Callers, CallerMarked(c) PROVE ExitInv'
  <2>1. RecordOK'
    BY <1>23, ExitTypes DEF CallerMarked, Go, IfNotLive, StatusExit, RecordOK, Recording, Subject, clientVars, sessionVars, serverVars, readerVars, markVars, callerVars
  <2>2. ShownOK'
    BY <1>23, ExitTypes DEF CallerMarked, Go, IfNotLive, StatusExit, ShownOK, clientVars, sessionVars, serverVars, readerVars, markVars, callerVars
  <2> QED
    BY <2>1, <2>2
<1>24. ASSUME NEW a \in Agents, Swap(a) PROVE ExitInv'
  <2>1. RecordOK'
    <3>1. Subject(a) \in Sessions /\ \A b \in Agents : Subject(b)' = Subject(b)
      BY <1>24, SubjectType DEF Swap, Subject, clientVars
    <3>2. \A b \in Agents : Recording(b)' =>
             Recording(b) \/ (b = a /\ alive[Subject(a)])
      BY <1>24, ExitTypes DEF Swap, FirstToSee, Recording
    <3>3. \A b \in Agents : Recording(b) => ~alive[Subject(b)]
      BY DEF Recording, MarkOK
    <3>4. \A s \in Sessions : alive'[s] => alive[s]
      BY <1>24, ExitTypes DEF Swap
    <3>5. exit' = exit /\ started' = started
      BY <1>24 DEF Swap, clientVars
    <3>6. \A b, d \in Agents : Recording(b)' /\ Recording(d)' /\ Subject(b) = Subject(d) => b = d
      BY <3>2, <3>3 DEF RecordOK
    <3>7. \A b \in Agents : Recording(b)' => exit[Subject(b)] = "none"
      BY <3>1, <3>2 DEF RecordOK
    <3> QED
      BY <3>1, <3>4, <3>5, <3>6, <3>7 DEF RecordOK
  <2> QED
    BY <1>24, <2>1, ExitFrame DEF Swap, clientVars, sessionVars, serverVars, readerVars, markVars, callerVars
<1>25. ASSUME NEW a \in Agents, Unready(a) PROVE ExitInv'
  <2>1. RecordOK'
    BY <1>25, ExitTypes DEF Unready, Subject, RecordOK, Recording, clientVars, sessionVars, serverVars, readerVars, markVars, callerVars
  <2> QED
    BY <1>25, <2>1, ExitFrame DEF Unready, clientVars, sessionVars, serverVars, readerVars, markVars, callerVars
<1>26. ASSUME NEW a \in Agents, Record(a) PROVE ExitInv'
  <2>1. RecordOK'
    <3>1. Subject(a) \in Sessions /\ ~alive[Subject(a)] /\ ~(Subject(a) > started)
      BY <1>26, SubjectType, FunctionTypes DEF Record, MarkOK, Subject, Agents
    <3>2. \A b \in Agents : Subject(b)' = Subject(b)
      BY <1>26 DEF Record, Subject, clientVars
    <3>3. \A b \in Agents : Recording(b)' => b # a /\ Recording(b)
      BY <1>26, ExitTypes DEF Record, Recording
    <3>4. \A b \in Agents : Recording(b)' => Subject(b) # Subject(a)
      BY <1>26, <3>3 DEF Record, RecordOK, Recording
    <3>5. \A s \in Sessions : s # Subject(a) => exit'[s] = exit[s]
      BY <1>26, ExitTypes DEF Record
    <3>6. \A b \in Agents : Recording(b)' => Subject(b) \in Sessions
      BY <3>3, SubjectType DEF Recording
    <3>7. alive' = alive /\ started' = started
      BY <1>26 DEF Record, clientVars
    <3> QED
      BY <3>1, <3>2, <3>3, <3>4, <3>5, <3>6, <3>7 DEF RecordOK
  <2>2. ShownOK'
    <3>1. exit[Subject(a)] = "none"
      BY <1>26 DEF Record, RecordOK, Recording
    <3>2. lastExit # "none" => current # Subject(a) /\ current \in Sessions
      BY <3>1, ExitTypes DEF ShownOK
    <3>3. \A s \in Sessions : s # Subject(a) => exit'[s] = exit[s]
      BY <1>26, ExitTypes DEF Record
    <3> QED
      BY <1>26, <3>2, <3>3 DEF Record, ShownOK, clientVars, callerVars
  <2> QED
    BY <2>1, <2>2
<1>27. ASSUME NEW a \in Agents, Drain(a) PROVE ExitInv'
  <2>1. RecordOK'
    BY <1>27, ExitTypes DEF Drain, Subject, RecordOK, Recording, clientVars, sessionVars, serverVars, readerVars, markVars, callerVars
  <2> QED
    BY <1>27, <2>1, ExitFrame DEF Drain, clientVars, sessionVars, serverVars, readerVars, markVars, callerVars
<1>28. ASSUME NEW a \in Agents, Deliver(a) PROVE ExitInv'
  BY <1>28, ExitFrame DEF Deliver, clientVars, sessionVars, serverVars, readerVars, markVars, callerVars
<1>29. ASSUME NEW s \in Sessions, TakeSender(s) PROVE ExitInv'
  BY <1>29, ExitFrame DEF TakeSender, clientVars, sessionVars, serverVars, readerVars, markVars, callerVars
<1>30. ASSUME NEW s \in Sessions, Unmatched(s) PROVE ExitInv'
  BY <1>30, ExitFrame DEF Unmatched, clientVars, sessionVars, serverVars, readerVars, markVars, callerVars
<1>31. ASSUME NEW s \in Sessions, Answer(s) PROVE ExitInv'
  BY <1>31, ExitFrame DEF Answer, clientVars, sessionVars, serverVars, readerVars, markVars, callerVars
<1>32. ASSUME NEW s \in Sessions, StreamEnds(s) PROVE ExitInv'
  <2>1. RecordOK'
    BY <1>32, ExitTypes DEF StreamEnds, Reading, RecordOK, Recording, Subject, clientVars, sessionVars, serverVars, readerVars, markVars, callerVars
  <2> QED
    BY <1>32, <2>1, ExitFrame DEF StreamEnds, clientVars, sessionVars, serverVars, readerVars, markVars, callerVars
<1>33. ASSUME NEW s \in Sessions, ReaderEnds(s) PROVE ExitInv'
  <2>1. RecordOK'
    BY <1>33, ExitTypes DEF ReaderEnds, RecordOK, Recording, Subject, clientVars, sessionVars, serverVars, readerVars, markVars, callerVars
  <2> QED
    BY <1>33, <2>1, ExitFrame DEF ReaderEnds, clientVars, sessionVars, serverVars, readerVars, markVars, callerVars
<1>34. ASSUME NEW s \in Sessions, ServerAnswers(s) PROVE ExitInv'
  BY <1>34, ExitFrame DEF ServerAnswers, clientVars, sessionVars, serverVars, readerVars, markVars, callerVars
<1>35. ASSUME NEW s \in Sessions, ServerGarbles(s) PROVE ExitInv'
  BY <1>35, ExitFrame DEF ServerGarbles, clientVars, sessionVars, serverVars, readerVars, markVars, callerVars
<1>36. ASSUME NEW s \in Sessions, ServerExits(s) PROVE ExitInv'
  BY <1>36, ExitFrame DEF ServerExits, clientVars, sessionVars, serverVars, readerVars, markVars, callerVars
<1>37. CASE UNCHANGED vars
  BY <1>37, ExitFrame DEF vars, clientVars, sessionVars, serverVars, readerVars, markVars, callerVars
<1>38. QED
  BY <1>1, <1>2, <1>3, <1>4, <1>5, <1>6, <1>7, <1>8, <1>9, <1>10, <1>11, <1>12, <1>13, <1>14, <1>15, <1>16, <1>17, <1>18, <1>19, <1>20, <1>21, <1>22, <1>23, <1>24, <1>25, <1>26, <1>27, <1>28, <1>29, <1>30, <1>31, <1>32, <1>33, <1>34, <1>35, <1>36, <1>37 DEF Next, CallerStep, LocalStep, Writing, Marking, ReaderStep, Server, Finished

\* Which steps write the flags and records that ExitIsFinal is about.
LEMMA ExitWriters ==
    [Next]_vars =>
        /\ \/ alive' = alive
           \/ \E c \in Callers : Spawn(c)
           \/ \E a \in Agents : Swap(a)
        /\ exit' = exit \/ \E a \in Agents : Record(a)
        /\ \/ lastExit' = lastExit
           \/ \E c \in Callers : SeeNone(c) \/ CallerMarked(c)
           \/ \E c \in Callers : Publish(c)
<1> DEFINE Same == alive' = alive /\ exit' = exit /\ lastExit' = lastExit
<1>1. ASSUME NEW c \in Callers, Ask(c) \/ CallerStep(c)
      PROVE  /\ alive' = alive \/ Spawn(c)
             /\ exit' = exit
             /\ lastExit' = lastExit \/ SeeNone(c) \/ CallerMarked(c) \/ Publish(c)
  <2>1. CASE Ask(c) \/ RefreshHome(c) \/ SeeLive(c) \/ SeeExited(c) \/ CheckReady(c)
    BY <2>1 DEF Ask, RefreshHome, SeeLive, SeeExited, CheckReady, clientVars, sessionVars
  <2>2. CASE SeeNone(c) \/ CallerMarked(c) \/ Publish(c)
    <3>1. alive' = alive /\ exit' = exit
      BY <2>2 DEF SeeNone, CallerMarked, Publish, sessionVars
    <3> QED
      BY <2>2, <3>1
  <2>3. CASE Spawn(c)
    <3>1. exit' = exit /\ lastExit' = lastExit
      BY <2>3 DEF Spawn
    <3> QED
      BY <2>3, <3>1
  <2>4. CASE TakeLifecycle(c) \/ StartFails(c) \/ CheckInitialized(c) \/ RefuseDead(c)
               \/ SeeAlive(c) \/ Register(c) \/ Write(c) \/ WriteFails(c) \/ Receive(c)
    BY <2>4 DEF TakeLifecycle, StartFails, CheckInitialized, RefuseDead, SeeAlive,
         Register, Write, WriteFails, Receive, clientVars, sessionVars
  <2>5. CASE TimeOut(c) \/ RemovePending(c) \/ Notify(c) \/ NotifyFails(c) \/ SetInitialized(c)
    BY <2>5 DEF TimeOut, RemovePending, Notify, NotifyFails, SetInitialized,
         clientVars, sessionVars
  <2> QED
    BY <1>1, <2>1, <2>2, <2>3, <2>4, <2>5 DEF CallerStep, LocalStep, Writing
<1>2. ASSUME NEW a \in Agents, Marking(a)
      PROVE  /\ alive' = alive \/ Swap(a)
             /\ exit' = exit \/ Record(a)
             /\ lastExit' = lastExit
  <2>1. CASE Swap(a)
    <3>1. exit' = exit /\ lastExit' = lastExit
      BY <2>1 DEF Swap, clientVars
    <3> QED
      BY <2>1, <3>1
  <2>2. CASE Record(a)
    <3>1. alive' = alive /\ lastExit' = lastExit
      BY <2>2 DEF Record, clientVars
    <3> QED
      BY <2>2, <3>1
  <2>3. CASE Unready(a) \/ Drain(a) \/ Deliver(a)
    BY <2>3 DEF Unready, Drain, Deliver, clientVars, sessionVars
  <2> QED
    BY <1>2, <2>1, <2>2, <2>3 DEF Marking
<1>3. ASSUME NEW s \in Sessions, ReaderStep(s) PROVE Same
  BY <1>3 DEF ReaderStep, TakeSender, Unmatched, Answer, StreamEnds, ReaderEnds,
      clientVars, sessionVars
<1>4. ASSUME NEW s \in Sessions, Server(s) PROVE Same
  BY <1>4 DEF Server, ServerAnswers, ServerGarbles, ServerExits, clientVars, sessionVars
<1>5. CASE UNCHANGED vars
  BY <1>5 DEF vars, clientVars, sessionVars
<1>6. QED
  BY <1>1, <1>2, <1>3, <1>4, <1>5 DEF Next, Finished

\* A session dies once, its first exit record stays, and the status keeps
\* showing it until another session is current.
THEOREM ExitStays == Spec => ExitIsFinal
<1> DEFINE Final == /\ \A s \in 1 .. started : ~alive[s] => ~alive'[s]
                    /\ \A s \in Sessions : exit[s] # "none" => exit'[s] = exit[s]
                    /\ lastExit # "none" /\ current' = current => lastExit' = lastExit
<1>1. TypeInv /\ ProcessInv /\ ExitInv /\ [Next]_vars => [Final]_vars
  <2> SUFFICES ASSUME TypeInv, ProcessInv, ExitInv, [Next]_vars PROVE Final
    OBVIOUS
  <2> USE DEF TypeInv, ProcessInv, ExitInv
  <2>1. \A s \in 1 .. started : s \in Sessions
    BY ConstantsAssumption DEF TypeOK, ClientType, Sessions
  <2>2. \A s \in 1 .. started : ~alive[s] => ~alive'[s]
    <3>1. ASSUME NEW c \in Callers, Spawn(c) PROVE \A s \in 1 .. started : ~alive[s] => ~alive'[s]
      BY <2>1, <3>1, FunctionTypes DEF Spawn
    <3>2. ASSUME NEW a \in Agents, Swap(a) PROVE \A s \in 1 .. started : ~alive[s] => ~alive'[s]
      BY <2>1, <3>2, FunctionTypes DEF Swap
    <3> QED
      BY <3>1, <3>2, ExitWriters
  <2>3. \A s \in Sessions : exit[s] # "none" => exit'[s] = exit[s]
    <3>1. ASSUME NEW a \in Agents, Record(a), NEW s \in Sessions, exit[s] # "none"
          PROVE exit'[s] = exit[s]
      BY <3>1, ExitTypes DEF Record, RecordOK, Recording
    <3> QED
      BY <3>1, ExitWriters
  <2>4. lastExit # "none" /\ current' = current => lastExit' = lastExit
    <3> SUFFICES ASSUME lastExit # "none", current' = current PROVE lastExit' = lastExit
      OBVIOUS
    <3>1. ASSUME NEW c \in Callers, SeeNone(c) \/ CallerMarked(c)
          PROVE lastExit' = lastExit
      BY <3>1 DEF SeeNone, CallerMarked, StatusExit, ShownOK
    <3>2. ASSUME NEW c \in Callers, Publish(c) PROVE FALSE
      BY <3>2, FunctionTypes DEF Publish, ShownOK
    <3> QED
      BY <3>1, <3>2, ExitWriters
  <2> QED
    BY <2>2, <2>3, <2>4
<1>2. QED
  BY InitTypeInv, NextTypeInv, InitProcessInv, NextProcessInv, InitExitInv, NextExitInv,
     <1>1, PTL DEF Spec, ExitIsFinal
=============================================================================
