--------------------------- MODULE ServerRequests ---------------------------
(***************************************************************************)
(* Requests the app-server makes of the user (approvals, questions): the   *)
(* table server_requests of a ProcessSession, the reader that fills it and *)
(* clears it, and the HTTP threads that answer from it.                    *)
(*                                                                         *)
(* A request is known to a client by its id, its thread and its turn.  Ids *)
(* are fresh within one app-server process and start again with the next,  *)
(* while threads live on: an answer given late may meet another request    *)
(* under the same id.  A response holds the table's mutex from the lookup  *)
(* to the end of its write, so that it is one action here.  A failed write *)
(* may have arrived or not: both are outcomes.  Start and handshake of a   *)
(* session are those of RpcSession, here one step.                         *)
(*                                                                         *)
(* An operator commented "Variant" is a plausible mistake in the operator  *)
(* after it; no behaviour of Spec uses it.                                 *)
(***************************************************************************)
EXTENDS Integers, Sequences, FiniteSets

CONSTANTS Responders,   \* HTTP worker threads
          Threads,      \* Codex threads (conversations)
          NoReply,      \* a thread without a call
          Kinds,        \* what is asked: an approval, a question, something else
          Capacity,     \* MAX_PENDING_REQUESTS
          MaxSessions,  \* bound: app-server processes
          MaxRequests,  \* bound: requests of each app-server process
          MaxTurns      \* bound: turns of one thread in one process

Sessions == 1 .. MaxSessions
Turns == [sess : Sessions, thread : Threads, n : 1 .. MaxTurns]
Requests == [sess : Sessions, id : Nat, turn : Turns, kind : Kinds]
Bodies == {"decision", "answers"}
Replies == [req : Requests, sess : Sessions]

ASSUME BoundsAssumption ==
    /\ Kinds \subseteq {"approval", "question", "other"}
    /\ Capacity \in Nat \ {0}
    /\ MaxSessions \in Nat \ {0} /\ MaxTurns \in Nat
    /\ MaxRequests \in [Sessions -> Nat]

VARIABLES
    current,   \* the session of the client
    running,   \* the app-server process of a session runs
    alive,     \* ProcessSession.alive (and initialized)
    out,       \* stdout of the app-server: lines not yet read
    asked,     \* how many requests a process has made
    open,      \* requests the app-server waits for
    done,      \* turns that were completed
    received,  \* what was written to the app-server, in order
    table,     \* ProcessSession.server_requests
    seen,      \* requests a client can know of, by event or by listing
    reply,     \* per HTTP thread: the reply it carries, for the session it obtained
    lost       \* requests whose answer or refusal did not arrive (history)

serverVars == <<running, asked, open, done>>
sessionVars == <<current, alive>>
wireVars == <<out, received>>
tableVars == <<table, seen, lost>>
vars == <<sessionVars, serverVars, wireVars, tableVars, reply>>

Lines == [type : {"request"}, req : Requests]
           \cup [type : {"resolved"}, req : Requests]
           \cup [type : {"completed"}, turn : Turns]
Writes == [id : Nat, body : {"refused"}]
            \cup [id : Nat, body : Bodies, meant : Requests]

TypeOK ==
    /\ current \in Sessions
    /\ running \in [Sessions -> BOOLEAN] /\ alive \in [Sessions -> BOOLEAN]
    /\ out \in [Sessions -> Seq(Lines)]
    /\ asked \in [Sessions -> Nat]
    /\ open \in [Sessions -> SUBSET Requests]
    /\ done \in SUBSET Turns
    /\ received \in [Sessions -> Seq(Writes)]
    /\ table \in [Sessions -> SUBSET Requests]
    /\ \A s \in Sessions : Cardinality(table[s]) <= Capacity
    /\ seen \in SUBSET Requests
    /\ reply \in [Responders -> {NoReply} \cup Replies]
    /\ lost \in SUBSET Requests

Init ==
    /\ current = 1
    /\ running = [s \in Sessions |-> s = 1] /\ alive = [s \in Sessions |-> s = 1]
    /\ out = [s \in Sessions |-> <<>>]
    /\ asked = [s \in Sessions |-> 0]
    /\ open = [s \in Sessions |-> {}]
    /\ done = {}
    /\ received = [s \in Sessions |-> <<>>]
    /\ table = [s \in Sessions |-> {}]
    /\ seen = {}
    /\ reply = [c \in Responders |-> NoReply]
    /\ lost = {}

WrittenIds(s) == {received[s][i].id : i \in 1 .. Len(received[s])}
Send(s, msg) == received' = [received EXCEPT ![s] = Append(@, msg)]
\* write_message, a blocking write: the step is its end, and may never come
\* while the app-server does not read.  The line arrived, whatever the write
\* reports, or it did not.  A report of failure changes nothing else here: a
\* client may answer again whether or not it was told of one (Accept).
Write(s, r, msg) ==
    \/ running[s] /\ Send(s, msg) /\ UNCHANGED lost
    \/ lost' = lost \cup {r} /\ UNCHANGED received
Say(s, line) == out' = [out EXCEPT ![s] = Append(@, line)]

-----------------------------------------------------------------------------
(* The app-server (external)                                                *)

\* A running turn asks the user something.
AskUser(s) ==
    /\ running[s] /\ asked[s] < MaxRequests[s]
    /\ \E turn \in Turns \ done, kind \in Kinds :
         LET r == [sess |-> s, id |-> asked[s] + 1, turn |-> turn, kind |-> kind] IN
         /\ turn.sess = s
         /\ open' = [open EXCEPT ![s] = @ \cup {r}]
         /\ Say(s, [type |-> "request", req |-> r])
    /\ asked' = [asked EXCEPT ![s] = @ + 1]
    /\ UNCHANGED <<sessionVars, running, done, received, tableVars, reply>>

\* It is done with a request: it says so, unless it got a reply to it.
Close(s) ==
    /\ running[s]
    /\ \E r \in open[s] :
         /\ open' = [open EXCEPT ![s] = @ \ {r}]
         /\ \/ Say(s, [type |-> "resolved", req |-> r])
            \/ r.id \in WrittenIds(s) /\ UNCHANGED out
    /\ UNCHANGED <<sessionVars, running, asked, done, received, tableVars, reply>>

\* A turn ends, and with it every request it made.
CompleteTurn(s) ==
    /\ running[s]
    /\ \E turn \in Turns \ done :
         /\ turn.sess = s /\ \E r \in open[s] : r.turn = turn
         /\ done' = done \cup {turn}
         /\ open' = [open EXCEPT ![s] = {r \in @ : r.turn # turn}]
         /\ Say(s, [type |-> "completed", turn |-> turn])
    /\ UNCHANGED <<sessionVars, running, asked, received, tableVars, reply>>

ServerExits(s) ==
    /\ running[s]
    /\ running' = [running EXCEPT ![s] = FALSE]
    /\ UNCHANGED <<sessionVars, asked, open, done, wireVars, tableVars, reply>>

-----------------------------------------------------------------------------
(* The session: noticing the exit, starting the next one                    *)

MarkDead(s) ==
    /\ alive[s] /\ ~running[s]
    /\ alive' = [alive EXCEPT ![s] = FALSE]
    /\ UNCHANGED <<current, serverVars, wireVars, tableVars, reply>>

StartNext ==
    /\ ~alive[current] /\ current < MaxSessions
    /\ current' = current + 1
    /\ running' = [running EXCEPT ![current'] = TRUE]
    /\ alive' = [alive EXCEPT ![current'] = TRUE]
    /\ UNCHANGED <<asked, open, done, wireVars, tableVars, reply>>

-----------------------------------------------------------------------------
(* The stdout reader of a session                                           *)

Reads(s, type) ==
    /\ out[s] # <<>> /\ Head(out[s]).type = type
    /\ out' = [out EXCEPT ![s] = Tail(@)]
\* Variant: one entry more than there is room for.
OneMore(s, r) == Cardinality(table[s]) > Capacity \/ \E q \in table[s] : q.id = r.id
\* No room, or the id is pending already.
Conflict(s, r) == Cardinality(table[s]) >= Capacity \/ \E q \in table[s] : q.id = r.id

\* Not one of the three methods, or no room: an error is written at once, if
\* the process can still take it, and nothing is remembered.
Refuse(s) ==
    /\ Reads(s, "request")
    /\ LET r == Head(out[s]).req IN
         /\ r.kind = "other" \/ Conflict(s, r)
         /\ Write(s, r, [id |-> r.id, body |-> "refused"])
    /\ UNCHANGED <<sessionVars, serverVars, table, seen, reply>>

\* Once the mutex is released a listing may show the entry, before
\* connector/serverRequest is pushed.
Insert(s) ==
    /\ Reads(s, "request")
    /\ LET r == Head(out[s]).req IN
         /\ r.kind # "other" /\ ~Conflict(s, r)
         /\ table' = [table EXCEPT ![s] = @ \cup {r}]
         /\ seen' = seen \cup {r}
    /\ UNCHANGED <<sessionVars, serverVars, received, lost, reply>>

\* Variant: the whole table is cleared when a turn completes.
ClearAll(s, turn) == {}
\* Variant: entries of a completed turn stay.
KeepAll(s, turn) == table[s]
\* What turn/completed leaves in the table.
Retained(s, turn) ==
    {r \in table[s] : r.turn.thread # turn.thread \/ r.turn # turn}

Resolved(s) ==
    /\ Reads(s, "resolved")
    /\ LET q == Head(out[s]).req IN
         table' = [table EXCEPT ![s] =
                     {r \in @ : r.id # q.id \/ r.turn.thread # q.turn.thread}]
    /\ UNCHANGED <<sessionVars, serverVars, received, seen, lost, reply>>

Completed(s) ==
    /\ Reads(s, "completed")
    /\ table' = [table EXCEPT ![s] = Retained(s, Head(out[s]).turn)]
    /\ UNCHANGED <<sessionVars, serverVars, received, seen, lost, reply>>

-----------------------------------------------------------------------------
(* HTTP threads: respondToRequest                                           *)

\* A reply to a request some client has seen comes in and obtains the current
\* session, if it is ready (409 otherwise).  Nothing tells the client that the
\* request is still the one it saw, and the session may die right after.  The
\* form of its result matters only when it is compared: it is chosen there.
Accept(c) ==
    /\ reply[c] = NoReply /\ alive[current]
    /\ \E r \in seen : reply' = [reply EXCEPT ![c] = [req |-> r, sess |-> current]]
    /\ UNCHANGED <<sessionVars, serverVars, wireVars, tableVars>>

\* Variant: the turn of the reply is not compared.
SameThread(r, q) == r.id = q.id /\ r.turn.thread = q.turn.thread
\* validate_reply: thread, turn and id of the reply are those of the entry.
Matches(r, q) == r.id = q.id /\ r.turn.thread = q.turn.thread /\ r.turn = q.turn
\* validate_reply: the result has the form the method asks for.
Fits(r, body) ==
    \/ r.kind = "approval" /\ body = "decision"
    \/ r.kind = "question" /\ body = "answers"

Accepts(c, r, body) == Matches(r, reply[c].req) /\ Fits(r, body)

\* 409 not pending, 403 another thread or turn, 400 wrong form.
Reject(c) ==
    /\ reply[c] # NoReply
    /\ \E body \in Bodies : \A r \in table[reply[c].sess] : ~Accepts(c, r, body)
    /\ reply' = [reply EXCEPT ![c] = NoReply]
    /\ UNCHANGED <<sessionVars, serverVars, wireVars, tableVars>>

\* Variant: the entry stays until the app-server reports it resolved.
KeepEntry(s, r) == table
\* The entry is removed before the write.
TakeEntry(s, r) == [table EXCEPT ![s] = @ \ {r}]

Respond(c) ==
    /\ reply[c] # NoReply
    /\ LET s == reply[c].sess IN
       \E r \in table[s], body \in Bodies :
         /\ Accepts(c, r, body)
         /\ table' = TakeEntry(s, r)
         /\ Write(s, r, [id |-> r.id, body |-> body, meant |-> reply[c].req])
    /\ reply' = [reply EXCEPT ![c] = NoReply]
    /\ UNCHANGED <<sessionVars, serverVars, out, seen>>

-----------------------------------------------------------------------------
\* The last session is gone and nothing is in flight.
Finished ==
    /\ current = MaxSessions /\ ~alive[current]
    /\ \A s \in Sessions : out[s] = <<>>
    /\ \A c \in Responders : reply[c] = NoReply
    /\ UNCHANGED vars

Next ==
    \/ Finished
    \/ StartNext
    \/ \E s \in Sessions :
         \/ AskUser(s) \/ Close(s) \/ CompleteTurn(s) \/ ServerExits(s) \/ MarkDead(s)
         \/ Refuse(s) \/ Insert(s) \/ Resolved(s) \/ Completed(s)
    \/ \E c \in Responders : Accept(c) \/ Reject(c) \/ Respond(c)

Spec == Init /\ [][Next]_vars

-----------------------------------------------------------------------------
(* Properties                                                               *)

\* Nothing is ever written twice for one request of the app-server: two
\* clients answering, a refusal, or an answer tried again after a write that
\* was reported as failed and had arrived (server_requests.rs:110-116).
AnsweredOnce ==
    \A s \in Sessions : \A i, j \in 1 .. Len(received[s]) :
        received[s][i].id = received[s][j].id => i = j

\* An answer reaches the request its author saw, although ids start again
\* with every app-server and the thread is the same; and it has the form the
\* request asks for.
AnswerMeantForIt ==
    \A s \in Sessions : \A i \in 1 .. Len(received[s]) :
        LET w == received[s][i] IN
        w.body # "refused" =>
            /\ w.meant.sess = s /\ w.meant.id = w.id
            /\ Fits(w.meant, w.body)

\* The table follows the app-server: an entry the app-server no longer waits
\* for is one whose closing line the reader has not reached.
Closes(line, r) ==
    \/ line.type = "resolved" /\ line.req = r
    \/ line.type = "completed" /\ line.turn = r.turn
EntriesAreOpen ==
    \A s \in Sessions : \A r \in table[s] :
        \/ r \in open[s]
        \/ \E i \in 1 .. Len(out[s]) : Closes(out[s][i], r)

\* No request is forgotten: while the app-server runs and waits for it, it is
\* on its way to the reader, pending, or was replied to; only a write that
\* did not arrive can leave it unanswered.
NothingForgotten ==
    \A s \in Sessions : running[s] => \A r \in open[s] :
        \/ \E i \in 1 .. Len(out[s]) : out[s][i] = [type |-> "request", req |-> r]
        \/ r \in table[s] \cup lost
        \/ r.id \in WrittenIds(s)
=============================================================================
