----------------------------- MODULE RpcSession -----------------------------
(***************************************************************************)
(* The JSON-RPC client of the connector: CodexClient and ProcessSession.   *)
(*                                                                         *)
(* HTTP worker threads (Callers) share one CodexClient.  A call obtains a  *)
(* ready session (ensure_session: a fast check, then the lifecycle mutex,  *)
(* a re-check, a start of the app-server and the initialize handshake) and *)
(* runs one request on it.  Every session has its own stdout reader, which *)
(* answers the requests and, at the end of the stream, marks the session   *)
(* exited; a caller that polls the child (refresh_process_state) may mark  *)
(* it at the same time.  One action is one critical section, atomic access *)
(* or blocking call of the code.  The app-server is external: it answers   *)
(* what it received in any order, at most once, may emit a line that       *)
(* cannot be read, may stop reading its stdin, and may exit at any moment. *)
(*                                                                         *)
(* An operator commented "Variant" is a plausible mistake in the operator  *)
(* after it; no behaviour of Spec uses it.  PROJECT.json pairs it with the *)
(* property that tells the two apart.                                      *)
(***************************************************************************)
EXTENDS Integers, Sequences

CONSTANTS Callers,      \* HTTP worker threads
          NoCaller,     \* the lifecycle mutex is free
          MaxSessions,  \* bound: app-server processes started in one run
          MaxCalls      \* bound: calls accepted in one run

Sessions == 1 .. MaxSessions
NoSession == 0
Agents == Callers \cup Sessions  \* a session stands for its stdout reader

ASSUME ConstantsAssumption ==
    /\ MaxSessions \in Nat /\ MaxCalls \in Nat
    /\ Callers \cap Int = {}
    /\ NoCaller \notin Callers

VARIABLES
    current,      \* ClientRuntime.session
    lastExit,     \* ClientRuntime.last_exit
    lifecycle,    \* holder of CodexClient.lifecycle
    started,      \* how many sessions were started
    alive, initialized, exit, nextId, pending,  \* fields of ProcessSession
    child,        \* the app-server process of a session
    stage,        \* how far the handshake went, seen by the app-server
    inbox,        \* requests the app-server received and has not answered
    answered,     \* every answer the app-server gave (history)
    out,          \* its stdout: lines not yet read
    popped,       \* answer whose sender the reader took and has not used yet
    mark,         \* progress of set_exit / fail_pending, per agent
    failing,      \* senders an agent drained and has not used yet
    pc, purpose, sess, req, chan,  \* per caller: control, request, channel
    asked         \* calls accepted so far

clientVars == <<current, lastExit, lifecycle, started>>
sessionVars == <<alive, initialized, exit, nextId, pending>>
serverVars == <<child, stage, inbox, answered, out>>
readerVars == <<popped>>
markVars == <<mark, failing>>
callerVars == <<pc, purpose, sess, req, chan, asked>>
vars == <<clientVars, sessionVars, serverVars, readerVars, markVars, callerVars>>

Answers == {"ok", "rpcError"}
Unreadable == [id |-> 0, res |-> "unreadable"]
Responses == [id : Nat, res : Answers]
Lines == Responses \cup {Unreadable}
Kinds == {"initialize", "call"}
NoReply == "none"

\* Where a caller polls the child, and where it goes when the current session
\* is live and when there is none.
LiveChecks == {"fastLive", "lockedLive", "startLive", "statusLive"}
IfLive(p) ==
    IF p = "fastLive" THEN "fastReady"
    ELSE IF p = "lockedLive" THEN "lockedReady"
    ELSE IF p = "startLive" THEN "startReady" ELSE "idle"
IfNotLive(p) ==
    IF p = "fastLive" THEN "lock"
    ELSE IF p = "lockedLive" THEN "startLive"
    ELSE IF p = "startLive" THEN "start" ELSE "idle"
Requesting == {"begin", "register", "write", "await", "undo"}
Registered == {"write", "await", "undo"}
PCs == {"idle", "refresh", "lock", "fastReady", "lockedReady", "startReady",
        "start", "publish", "notify", "setInitialized"}
          \cup LiveChecks \cup Requesting
Marks == {"no", "swap", "unready", "record", "drain", "deliver", "ended"}

ClientType ==
    /\ current \in Sessions \cup {NoSession}
    /\ lastExit \in {"none", "status", "stream"}
    /\ lifecycle \in Callers \cup {NoCaller}
    /\ started \in 0 .. MaxSessions
SessionType ==
    /\ alive \in [Sessions -> BOOLEAN]
    /\ initialized \in [Sessions -> BOOLEAN]
    /\ exit \in [Sessions -> {"none", "status", "stream"}]
    /\ nextId \in [Sessions -> Nat]
    /\ pending \in [Sessions -> SUBSET Nat]
ServerType ==
    /\ child \in [Sessions -> {"absent", "running", "exited"}]
    /\ stage \in [Sessions -> {"new", "asked", "ready"}]
    /\ inbox \in [Sessions -> SUBSET [id : Nat, kind : Kinds]]
    /\ answered \in [Sessions -> SUBSET Responses]
    /\ out \in [Sessions -> Seq(Lines)]
AgentType ==
    /\ popped \in [Sessions -> SUBSET Responses]
    /\ mark \in [Agents -> Marks]
    /\ failing \in [Agents -> SUBSET Nat]
    /\ \A a \in Agents : mark[a] # "deliver" => failing[a] = {}
CallerType ==
    /\ pc \in [Callers -> PCs]
    /\ purpose \in [Callers -> Kinds]
    /\ sess \in [Callers -> Sessions \cup {NoSession}]
    /\ req \in [Callers -> Nat]
    /\ chan \in [Callers -> {NoReply, "exited"} \cup Answers]
    /\ asked \in 0 .. MaxCalls

TypeOK == ClientType /\ SessionType /\ ServerType /\ AgentType /\ CallerType

Init ==
    /\ current = NoSession /\ lastExit = "none" /\ lifecycle = NoCaller
    /\ started = 0
    /\ alive = [s \in Sessions |-> FALSE]
    /\ initialized = [s \in Sessions |-> FALSE]
    /\ exit = [s \in Sessions |-> "none"]
    /\ nextId = [s \in Sessions |-> 1]
    /\ pending = [s \in Sessions |-> {}]
    /\ child = [s \in Sessions |-> "absent"]
    /\ stage = [s \in Sessions |-> "new"]
    /\ inbox = [s \in Sessions |-> {}]
    /\ answered = [s \in Sessions |-> {}]
    /\ out = [s \in Sessions |-> <<>>]
    /\ popped = [s \in Sessions |-> {}]
    /\ mark = [a \in Agents |-> "no"]
    /\ failing = [a \in Agents |-> {}]
    /\ pc = [c \in Callers |-> "idle"]
    /\ purpose = [c \in Callers |-> "call"]
    /\ sess = [c \in Callers |-> NoSession]
    /\ req = [c \in Callers |-> 0]
    /\ chan = [c \in Callers |-> NoReply]
    /\ asked = 0

\* The runtime mutex is held for more than one step only by a caller that
\* found the child gone and is marking its session exited.
RuntimeFree == \A c \in Callers : mark[c] = "no"
HasLive == current # NoSession /\ alive[current]
\* The session an agent is marking.
Subject(a) == IF a \in Sessions THEN a ELSE current
\* Variant: nobody waits for the lifecycle mutex.
AlwaysFree == TRUE
\* The lifecycle mutex can be taken.
LifecycleFree == lifecycle = NoCaller
\* Variant: the lifecycle guard outlives the call that took it.
NeverRelease(c) == lifecycle
\* The lifecycle guard is dropped when ensure_session returns.
Release(c) == IF lifecycle = c THEN NoCaller ELSE lifecycle
\* Variant: the `initialized` notification is forgotten.
SkipNotify == "setInitialized"
\* What follows a successful initialize.
AfterInitialize == "notify"
\* Variant: the entry is looked up and stays in the table.
KeepEntry(s, id) == UNCHANGED pending
\* Removal of an entry of the request table.
RemoveEntry(s, id) == pending' = [pending EXCEPT ![s] = @ \ {id}]
\* Variant: the exit is recorded by whoever sees it.
AnyoneFirst(s) == TRUE
\* The result of the swap of `alive`: this agent saw the exit first.
FirstToSee(s) == alive[s]
Go(c, p) == pc' = [pc EXCEPT ![c] = p]
\* The call returns: its locals and the receiver of its channel are dropped.
Return(c) ==
    /\ Go(c, "idle") /\ lifecycle' = Release(c)
    /\ purpose' = [purpose EXCEPT ![c] = "call"]
    /\ sess' = [sess EXCEPT ![c] = NoSession]
    /\ req' = [req EXCEPT ![c] = 0]
    /\ chan' = [chan EXCEPT ![c] = NoReply]

-----------------------------------------------------------------------------
(* Callers: entry, liveness and readiness checks, lifecycle mutex, start    *)

\* A call enters CodexClient::request, directly or, for the listing
\* operations, after refresh_active_home; or CodexClient::status.
Ask(c) ==
    /\ pc[c] = "idle" /\ asked < MaxCalls
    /\ \E p \in {"fastLive", "refresh", "statusLive"} : Go(c, p)
    /\ asked' = asked + 1
    /\ UNCHANGED <<clientVars, sessionVars, serverVars, readerVars, markVars,
                   purpose, sess, req, chan>>

\* refresh_active_home waits for the lifecycle mutex and gives it back.
RefreshHome(c) ==
    /\ pc[c] = "refresh" /\ LifecycleFree
    /\ Go(c, "fastLive")
    /\ UNCHANGED <<clientVars, sessionVars, serverVars, readerVars, markVars,
                   purpose, sess, req, chan, asked>>

\* What a status call copies when the session it looked at is dead.
StatusExit(c) ==
    IF pc[c] = "statusLive" /\ current # NoSession THEN exit[current] ELSE lastExit

\* current_live_session / status: the session is live and try_wait says that
\* the child still runs.
SeeLive(c) ==
    /\ pc[c] \in LiveChecks /\ RuntimeFree
    /\ HasLive /\ child[current] = "running"
    /\ Go(c, IfLive(pc[c]))
    /\ sess' = [sess EXCEPT ![c] = IF pc[c] = "statusLive" THEN @ ELSE current]
    /\ UNCHANGED <<clientVars, sessionVars, serverVars, readerVars, markVars,
                   purpose, req, chan, asked>>

\* There is no session, or it was already marked exited.
SeeNone(c) ==
    /\ pc[c] \in LiveChecks /\ RuntimeFree
    /\ ~HasLive
    /\ Go(c, IfNotLive(pc[c]))
    /\ lastExit' = StatusExit(c)
    /\ UNCHANGED <<current, lifecycle, started, sessionVars, serverVars,
                   readerVars, markVars, purpose, sess, req, chan, asked>>

\* try_wait reports the exit: mark the session while holding the runtime mutex.
SeeExited(c) ==
    /\ pc[c] \in LiveChecks /\ RuntimeFree
    /\ HasLive /\ child[current] = "exited"
    /\ mark' = [mark EXCEPT ![c] = "swap"]
    /\ UNCHANGED <<clientVars, sessionVars, serverVars, readerVars, failing, callerVars>>

\* current_ready_session loads `initialized` after the runtime mutex is released.
CheckReady(c) ==
    /\ pc[c] \in {"fastReady", "lockedReady"}
    /\ IF initialized[sess[c]]
         THEN /\ Go(c, "begin")
              /\ purpose' = [purpose EXCEPT ![c] = "call"]
              /\ lifecycle' = Release(c)
         ELSE /\ Go(c, IF pc[c] = "fastReady" THEN "lock" ELSE "startLive")
              /\ UNCHANGED <<purpose, lifecycle>>
    /\ UNCHANGED <<current, lastExit, started, sessionVars, serverVars,
                   readerVars, markVars, sess, req, chan, asked>>

TakeLifecycle(c) ==
    /\ pc[c] = "lock" /\ LifecycleFree
    /\ lifecycle' = c
    /\ Go(c, "lockedLive")
    /\ UNCHANGED <<current, lastExit, started, sessionVars, serverVars,
                   readerVars, markVars, purpose, sess, req, chan, asked>>

\* Inspection, preparation of the home or the spawn failed.
StartFails(c) ==
    /\ pc[c] = "start"
    /\ Return(c)
    /\ UNCHANGED <<current, lastExit, started, sessionVars, serverVars,
                   readerVars, markVars, asked>>

\* The child is spawned and its reader runs before the session is published.
Spawn(c) ==
    /\ pc[c] = "start" /\ started < MaxSessions
    /\ started' = started + 1
    /\ child' = [child EXCEPT ![started'] = "running"]
    /\ alive' = [alive EXCEPT ![started'] = TRUE]
    /\ sess' = [sess EXCEPT ![c] = started']
    /\ Go(c, "publish")
    /\ UNCHANGED <<current, lastExit, lifecycle, initialized, exit, nextId, pending,
                   stage, inbox, answered, out, readerVars, markVars,
                   purpose, req, chan, asked>>

Publish(c) ==
    /\ pc[c] = "publish" /\ RuntimeFree
    /\ current' = sess[c]
    /\ lastExit' = "none"
    /\ Go(c, "startReady")
    /\ UNCHANGED <<lifecycle, started, sessionVars, serverVars, readerVars,
                   markVars, purpose, sess, req, chan, asked>>

\* With a live session under the lifecycle mutex: initialize it unless that
\* was done.
CheckInitialized(c) ==
    /\ pc[c] = "startReady"
    /\ Go(c, "begin")
    /\ IF initialized[sess[c]]
         THEN purpose' = [purpose EXCEPT ![c] = "call"] /\ lifecycle' = Release(c)
         ELSE purpose' = [purpose EXCEPT ![c] = "initialize"] /\ UNCHANGED lifecycle
    /\ UNCHANGED <<current, lastExit, started, sessionVars, serverVars,
                   readerVars, markVars, sess, req, chan, asked>>

-----------------------------------------------------------------------------
(* Callers: ProcessSession::request and the handshake                       *)

RefuseDead(c) ==
    /\ pc[c] = "begin" /\ ~alive[sess[c]]
    /\ Return(c)
    /\ UNCHANGED <<current, lastExit, started, sessionVars, serverVars,
                   readerVars, markVars, asked>>

SeeAlive(c) ==
    /\ pc[c] = "begin" /\ alive[sess[c]]
    /\ Go(c, "register")
    /\ UNCHANGED <<clientVars, sessionVars, serverVars, readerVars, markVars,
                   purpose, sess, req, chan, asked>>

\* fetch_add of the id and insertion of a fresh channel.
Register(c) ==
    LET s == sess[c] IN
    /\ pc[c] = "register"
    /\ req' = [req EXCEPT ![c] = nextId[s]]
    /\ nextId' = [nextId EXCEPT ![s] = @ + 1]
    /\ pending' = [pending EXCEPT ![s] = @ \cup {nextId[s]}]
    /\ chan' = [chan EXCEPT ![c] = NoReply]
    /\ Go(c, "write")
    /\ UNCHANGED <<clientVars, alive, initialized, exit, serverVars, readerVars,
                   markVars, purpose, sess, asked>>

\* write_message is a blocking writeln! and flush under the stdin mutex, outside
\* every timeout.  The step is the moment the app-server has taken the whole
\* line.  Until then the caller waits at "write", for the mutex or in the pipe,
\* for ever when the app-server runs on and no longer reads; the initialize
\* request waits there with the lifecycle mutex held.
Write(c) ==
    LET s == sess[c] IN
    /\ pc[c] = "write" /\ child[s] = "running"
    /\ inbox' = [inbox EXCEPT ![s] = @ \cup {[id |-> req[c], kind |-> purpose[c]]}]
    /\ stage' = [stage EXCEPT ![s] =
                   IF purpose[c] = "initialize" /\ @ = "new" THEN "asked" ELSE @]
    /\ Go(c, "await")
    /\ UNCHANGED <<clientVars, sessionVars, child, answered, out, readerVars,
                   markVars, purpose, sess, req, chan, asked>>

\* The pipe is closed, or its reading end was.
WriteFails(c) ==
    /\ pc[c] = "write"
    /\ Go(c, "undo")
    /\ UNCHANGED <<clientVars, sessionVars, serverVars, readerVars, markVars,
                   purpose, sess, req, chan, asked>>

\* recv_timeout returns a message.
Receive(c) ==
    /\ pc[c] = "await" /\ chan[c] # NoReply
    /\ IF purpose[c] = "initialize" /\ chan[c] = "ok"
         THEN Go(c, AfterInitialize) /\ UNCHANGED <<lifecycle, purpose, sess, req, chan>>
         ELSE Return(c)
    /\ UNCHANGED <<current, lastExit, started, sessionVars, serverVars,
                   readerVars, markVars, asked>>

TimeOut(c) ==
    /\ pc[c] = "await" /\ chan[c] = NoReply
    /\ Go(c, "undo")
    /\ UNCHANGED <<clientVars, sessionVars, serverVars, readerVars, markVars,
                   purpose, sess, req, chan, asked>>

\* remove_pending after a failed write or a timeout; the call fails.
RemovePending(c) ==
    /\ pc[c] = "undo"
    /\ RemoveEntry(sess[c], req[c])
    /\ Return(c)
    /\ UNCHANGED <<current, lastExit, started, alive, initialized, exit, nextId,
                   serverVars, readerVars, markVars, asked>>

\* The `initialized` notification: the same blocking write, with the lifecycle
\* mutex held; a failed one fails the call.
Notify(c) ==
    /\ pc[c] = "notify" /\ child[sess[c]] = "running"
    /\ stage' = [stage EXCEPT ![sess[c]] = "ready"]
    /\ Go(c, "setInitialized")
    /\ UNCHANGED <<clientVars, sessionVars, child, inbox, answered, out,
                   readerVars, markVars, purpose, sess, req, chan, asked>>

NotifyFails(c) ==
    /\ pc[c] = "notify"
    /\ Return(c)
    /\ UNCHANGED <<current, lastExit, started, sessionVars, serverVars,
                   readerVars, markVars, asked>>

SetInitialized(c) ==
    /\ pc[c] = "setInitialized"
    /\ initialized' = [initialized EXCEPT ![sess[c]] = TRUE]
    /\ purpose' = [purpose EXCEPT ![c] = "call"]
    /\ Go(c, "begin")
    /\ lifecycle' = Release(c)
    /\ UNCHANGED <<current, lastExit, started, alive, exit, nextId, pending,
                   serverVars, readerVars, markVars, sess, req, chan, asked>>

-----------------------------------------------------------------------------
(* Marking a session exited: set_exit, then fail_pending, by any agent      *)

\* The swap of `alive` decides which agent records the exit.
Swap(a) ==
    LET s == Subject(a) IN
    /\ mark[a] = "swap"
    /\ mark' = [mark EXCEPT ![a] = IF FirstToSee(s) THEN "unready" ELSE "drain"]
    /\ alive' = [alive EXCEPT ![s] = FALSE]
    /\ UNCHANGED <<clientVars, initialized, exit, nextId, pending, serverVars,
                   readerVars, failing, callerVars>>

Unready(a) ==
    /\ mark[a] = "unready"
    /\ initialized' = [initialized EXCEPT ![Subject(a)] = FALSE]
    /\ mark' = [mark EXCEPT ![a] = "record"]
    /\ UNCHANGED <<clientVars, alive, exit, nextId, pending, serverVars,
                   readerVars, failing, callerVars>>

Record(a) ==
    /\ mark[a] = "record"
    /\ exit' = [exit EXCEPT ![Subject(a)] = IF a \in Sessions THEN "stream" ELSE "status"]
    /\ mark' = [mark EXCEPT ![a] = "drain"]
    /\ UNCHANGED <<clientVars, alive, initialized, nextId, pending, serverVars,
                   readerVars, failing, callerVars>>

Drain(a) ==
    LET s == Subject(a) IN
    /\ mark[a] = "drain"
    /\ failing' = [failing EXCEPT ![a] = pending[s]]
    /\ pending' = [pending EXCEPT ![s] = {}]
    /\ mark' = [mark EXCEPT ![a] = "deliver"]
    /\ UNCHANGED <<clientVars, alive, initialized, exit, nextId, serverVars,
                   readerVars, callerVars>>

\* Variant: the requests of all sessions in one table, by id alone.
WaitsAnywhere(c, s, id) == pc[c] \in Registered /\ req[c] = id
\* Request id of session s is that of caller c, which still holds its receiver.
Waits(c, s, id) == pc[c] \in Registered /\ sess[c] = s /\ req[c] = id

\* SyncSender::send: the message reaches the request that owns the channel,
\* or nobody when that request has returned.
Send(s, id, msg) ==
    chan' = [c \in Callers |-> IF Waits(c, s, id) THEN msg ELSE chan[c]]

Deliver(a) ==
    /\ mark[a] = "deliver"
    /\ \E id \in failing[a] :
         /\ Send(Subject(a), id, "exited")
         /\ failing' = [failing EXCEPT ![a] = @ \ {id}]
    /\ UNCHANGED <<clientVars, sessionVars, serverVars, readerVars, mark,
                   pc, purpose, sess, req, asked>>

\* Variant: fail_pending stops before the last drained sender.
StopsEarly(c) ==
    /\ mark[c] = "deliver"
    /\ mark' = [mark EXCEPT ![c] = "no"]
    /\ Go(c, IfNotLive(pc[c]))
    /\ lastExit' = StatusExit(c)
    /\ UNCHANGED <<current, lifecycle, started, sessionVars, serverVars,
                   readerVars, failing, purpose, sess, req, chan, asked>>

\* A caller ends its check without a live session.
CallerMarked(c) ==
    /\ mark[c] = "deliver" /\ failing[c] = {}
    /\ mark' = [mark EXCEPT ![c] = "no"]
    /\ Go(c, IfNotLive(pc[c]))
    /\ lastExit' = StatusExit(c)
    /\ UNCHANGED <<current, lifecycle, started, sessionVars, serverVars,
                   readerVars, failing, purpose, sess, req, chan, asked>>

-----------------------------------------------------------------------------
(* The stdout reader of a session                                           *)

Reading(s) == mark[s] = "no" /\ popped[s] = {} /\ child[s] # "absent"
NextLine(s) == out' = [out EXCEPT ![s] = Tail(@)]

\* A response whose request is pending: take its sender out of the table.
TakeSender(s) ==
    /\ Reading(s) /\ out[s] # <<>>
    /\ Head(out[s]) # Unreadable /\ Head(out[s]).id \in pending[s]
    /\ RemoveEntry(s, Head(out[s]).id)
    /\ popped' = [popped EXCEPT ![s] = {Head(out[s])}]
    /\ NextLine(s)
    /\ UNCHANGED <<clientVars, alive, initialized, exit, nextId, child, stage,
                   inbox, answered, markVars, callerVars>>

\* Nobody waits for it any more: connector/unmatchedResponse.
Unmatched(s) ==
    /\ Reading(s) /\ out[s] # <<>>
    /\ Head(out[s]) # Unreadable /\ Head(out[s]).id \notin pending[s]
    /\ NextLine(s)
    /\ UNCHANGED <<clientVars, sessionVars, child, stage, inbox, answered,
                   readerVars, markVars, callerVars>>

Answer(s) ==
    /\ mark[s] = "no"
    /\ \E line \in popped[s] :
         /\ Send(s, line.id, line.res)
         /\ popped' = [popped EXCEPT ![s] = {}]
    /\ UNCHANGED <<clientVars, sessionVars, serverVars, markVars,
                   pc, purpose, sess, req, asked>>

\* Variant: the thread returns without marking the session.
EndsSilently(s) ==
    /\ Reading(s) /\ child[s] = "exited"
    /\ mark' = [mark EXCEPT ![s] = "ended"]
    /\ UNCHANGED <<clientVars, sessionVars, serverVars, readerVars, failing, callerVars>>

\* End of the stream, or a line that cannot be read while the child still runs.
StreamEnds(s) ==
    /\ Reading(s)
    /\ \/ out[s] = <<>> /\ child[s] = "exited"
       \/ out[s] # <<>> /\ Head(out[s]) = Unreadable
    /\ mark' = [mark EXCEPT ![s] = "swap"]
    /\ UNCHANGED <<clientVars, sessionVars, serverVars, readerVars, failing, callerVars>>

\* The thread returns and its end of the pipe is closed.
ReaderEnds(s) ==
    /\ mark[s] = "deliver" /\ failing[s] = {}
    /\ mark' = [mark EXCEPT ![s] = "ended"]
    /\ out' = [out EXCEPT ![s] = <<>>]
    /\ UNCHANGED <<clientVars, sessionVars, child, stage, inbox, answered,
                   readerVars, failing, callerVars>>

-----------------------------------------------------------------------------
(* The app-server process (external)                                        *)

ServerAnswers(s) ==
    /\ child[s] = "running" /\ mark[s] # "ended"
    /\ \E m \in inbox[s], r \in Answers :
         LET line == [id |-> m.id, res |-> r] IN
         /\ inbox' = [inbox EXCEPT ![s] = @ \ {m}]
         /\ out' = [out EXCEPT ![s] = Append(@, line)]
         /\ answered' = [answered EXCEPT ![s] = @ \cup {line}]
    /\ UNCHANGED <<clientVars, sessionVars, child, stage, readerVars, markVars, callerVars>>

\* One unreadable line is enough: the reader stops at it.
ServerGarbles(s) ==
    /\ child[s] = "running" /\ mark[s] # "ended"
    /\ \A i \in 1 .. Len(out[s]) : out[s][i] # Unreadable
    /\ out' = [out EXCEPT ![s] = Append(@, Unreadable)]
    /\ UNCHANGED <<clientVars, sessionVars, child, stage, inbox, answered,
                   readerVars, markVars, callerVars>>

ServerExits(s) ==
    /\ child[s] = "running"
    /\ child' = [child EXCEPT ![s] = "exited"]
    /\ inbox' = [inbox EXCEPT ![s] = {}]
    /\ UNCHANGED <<clientVars, sessionVars, stage, answered, out,
                   readerVars, markVars, callerVars>>

-----------------------------------------------------------------------------
\* The blocking writes to the stdin of the app-server.
Writing(c) == Write(c) \/ WriteFails(c) \/ Notify(c) \/ NotifyFails(c)
\* A write into the pipe of a child that is gone fails at once.
BrokenPipe(c) ==
    sess[c] # NoSession /\ child[sess[c]] = "exited" /\ (WriteFails(c) \/ NotifyFails(c))
\* The steps of a caller that wait for nothing but other threads.
LocalStep(c) ==
    \/ RefreshHome(c) \/ SeeLive(c) \/ SeeNone(c) \/ SeeExited(c)
    \/ CheckReady(c) \/ TakeLifecycle(c) \/ StartFails(c) \/ Spawn(c)
    \/ Publish(c) \/ CheckInitialized(c) \/ RefuseDead(c) \/ SeeAlive(c)
    \/ Register(c) \/ Receive(c) \/ TimeOut(c) \/ RemovePending(c)
    \/ SetInitialized(c) \/ CallerMarked(c)
CallerStep(c) == LocalStep(c) \/ Writing(c)
Marking(a) == Swap(a) \/ Unready(a) \/ Record(a) \/ Drain(a) \/ Deliver(a)
ReaderStep(s) == TakeSender(s) \/ Unmatched(s) \/ Answer(s) \/ StreamEnds(s) \/ ReaderEnds(s)
Server(s) == ServerAnswers(s) \/ ServerGarbles(s) \/ ServerExits(s)

\* The bound on calls is reached and every process is gone.
Finished ==
    /\ asked = MaxCalls /\ \A c \in Callers : pc[c] = "idle"
    /\ \A s \in Sessions : child[s] # "running" /\ (s <= started => mark[s] = "ended")
    /\ UNCHANGED vars

Next ==
    \/ Finished
    \/ \E c \in Callers : Ask(c) \/ CallerStep(c)
    \/ \E a \in Agents : Marking(a)
    \/ \E s \in Sessions : ReaderStep(s) \/ Server(s)

Spec == Init /\ [][Next]_vars

\* Threads that can run do run; recv_timeout bounds every wait for an answer,
\* and a write fails once the child is gone.  Nothing is assumed of the
\* app-server, not even that it reads what is written to it, and nobody has
\* to call.
FairSpec ==
    /\ Spec
    /\ \A c \in Callers : WF_vars(LocalStep(c) \/ BrokenPipe(c) \/ Marking(c))
    /\ \A s \in Sessions : WF_vars(ReaderStep(s) \/ Marking(s))

-----------------------------------------------------------------------------
(* Properties                                                               *)

\* The request table never leaks: every entry belongs to a request that still
\* runs and that will remove it, whichever of answer, timeout, failed write
\* and exit of the process came first.
PendingOwned ==
    \A s \in Sessions : \A id \in pending[s] : \E c \in Callers : Waits(c, s, id)

\* The sender of a request is in one place only: in the table, in the hand of
\* the reader, or in that of one agent failing the drained requests.
PoppedIds(s) == {line.id : line \in popped[s]}
OneSender ==
    \A s \in Sessions :
        /\ pending[s] \cap PoppedIds(s) = {}
        /\ \A a, b \in Agents : Subject(a) = s =>
              /\ failing[a] \cap (pending[s] \cup PoppedIds(s)) = {}
              /\ a # b /\ Subject(b) = s => failing[a] \cap failing[b] = {}

\* The channel of a request is empty while its sender is still around, so the
\* channel of capacity one never blocks the reader or the agent that fails it.
SendNeverBlocks ==
    \A c \in Callers :
        pc[c] \in Registered /\ chan[c] # NoReply =>
            /\ req[c] \notin pending[sess[c]] \cup PoppedIds(sess[c])
            /\ \A a \in Agents : Subject(a) = sess[c] => req[c] \notin failing[a]

\* The request table through every race of answer, timeout, failed write and
\* exit (app_server.rs request, read loop, mark_exited): no entry leaks, no
\* sender is in two places, and nobody blocks on a full channel.
TableSound == PendingOwned /\ OneSender /\ SendNeverBlocks

\* A call is told only what is true of its own request: the answer the
\* app-server gave to this id of this session, or that the session is dead.
ReplyIsTrue ==
    \A c \in Callers : pc[c] \in Registered =>
        /\ chan[c] \in Answers => [id |-> req[c], res |-> chan[c]] \in answered[sess[c]]
        /\ chan[c] = "exited" => ~alive[sess[c]]

\* The client never drives two app-servers at once: a session is started only
\* after the previous one was marked exited.
OneLiveSession == \A s, t \in Sessions : alive[s] /\ alive[t] => s = t

\* A session that the fast path may hand out went through the whole handshake.
ReadyMeansHandshaken ==
    \A s \in Sessions : alive[s] /\ initialized[s] => stage[s] = "ready"

\* What ensure_started hands out: never a second app-server beside a live one,
\* and never one that has not accepted `initialized`.
SessionSound == OneLiveSession /\ ReadyMeansHandshaken

\* On the wire of a session calls come only after `initialized`, and no
\* initialize comes after it.
HandshakeOrder ==
    [][\A s \in Sessions : \A m \in inbox'[s] \ inbox[s] :
          m.kind = (IF stage[s] = "ready" THEN "call" ELSE "initialize")]_vars

\* A session dies once and keeps the first record of its exit, and a status
\* answer that has shown it is not taken back while the session is current.
ExitIsFinal ==
    [][/\ \A s \in 1 .. started : ~alive[s] => ~alive'[s]
       /\ \A s \in Sessions : exit[s] # "none" => exit'[s] = exit[s]
       /\ lastExit # "none" /\ current' = current => lastExit' = lastExit]_vars

\* No app-server runs on for ever without taking a line written to it.
ServersRead ==
    \A c \in Callers :
        []<>~(pc[c] \in {"write", "notify"} /\ child[sess[c]] = "running")

\* Every call and every status query returns, whatever the app-server answers
\* or leaves unanswered and however threads meet on the lifecycle mutex,
\* provided it reads its stdin or ends: the timeout of a request covers the
\* wait for its answer and not the write (app_server.rs request, write_message).
CallsReturn ==
    ServersRead => \A c \in Callers : pc[c] # "idle" ~> pc[c] = "idle"

\* A session whose child exited is noticed without anyone calling, and its
\* table is emptied.
DeathIsNoticed ==
    \A s \in Sessions :
        child[s] = "exited" ~> (~alive[s] /\ exit[s] # "none" /\ pending[s] = {})
=============================================================================
