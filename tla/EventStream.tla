---------------------------- MODULE EventStream ----------------------------
(***************************************************************************)
(* The live notification stream: the EventStore's sequence numbers, its    *)
(* retained window and its subscribers, the thread that serves each SSE    *)
(* connection, and a client that reconnects with the last id it received.  *)
(*                                                                         *)
(* flow[c] holds every message of the client's connection that it has not  *)
(* received, in order: the first sent[c] are in the socket, the next       *)
(* left[c] are backlog (resync included) not yet written, the rest is the  *)
(* subscriber's channel.  Keepalive comments and payloads are left out; of *)
(* EventStore::push only what happens under the store's mutex is here (the *)
(* read state is ThreadReadState's, the event handoff EventHandoff's).     *)
(*                                                                         *)
(* An operator commented "Variant" is a plausible mistake in the operator  *)
(* after it; no behaviour of Spec uses it.                                 *)
(***************************************************************************)
EXTENDS Integers, Sequences

CONSTANTS Clients,    \* consumers (Bridge agents); one connection each
          Nowhere,    \* no Last-Event-ID
          MaxEvents,  \* size of the retained window
          ChannelCap, \* STREAM_SUBSCRIBER_CAPACITY
          MaxRuns,    \* bound: runs of the connector
          MaxSeq,     \* bound: notifications in one run
          MaxLosses   \* bound: connections a client loses

Runs == 1 .. MaxRuns

ASSUME StreamAssumption ==
    /\ MaxEvents \in Nat \ {0} /\ ChannelCap \in Nat \ {0}
    /\ MaxRuns \in Nat \ {0} /\ MaxSeq \in Nat /\ MaxLosses \in Nat
    /\ Nowhere \notin [run : Runs, seq : Nat]

VARIABLES
    run,       \* the current run; stands for EventStore.stream_id
    tail,      \* EventState.sequence of every run
    retained,  \* EventState.retained: the numbers kept in this run
    listed,    \* the client's sender is in EventState.subscribers
    stream,    \* run the client is connected to, 0 for none
    flow, sent, left,  \* messages of its connection, see above
    closed,    \* the server closed the connection
    cursor,    \* last id the client received
    told,      \* it came with a resync
    losses     \* connections it lost (for the bound)

storeVars == <<run, tail, retained>>
connVars == <<stream, sent, left, closed>>
vars == <<storeVars, listed, connVars, flow, cursor, told, losses>>

Messages == [type : {"notification", "resync"}, seq : Nat]
Notification(n) == [type |-> "notification", seq |-> n]

StoreType ==
    /\ run \in Runs
    /\ tail \in [Runs -> Nat]
    /\ retained \in Seq(Nat) /\ Len(retained) <= MaxEvents
ClientType ==
    /\ listed \in [Clients -> BOOLEAN]
    /\ stream \in [Clients -> Runs \cup {0}]
    /\ flow \in [Clients -> Seq(Messages)]
    /\ sent \in [Clients -> Nat] /\ left \in [Clients -> Nat]
    /\ closed \in [Clients -> BOOLEAN]
    /\ cursor \in [Clients -> {Nowhere} \cup [run : Runs, seq : Nat]]
    /\ told \in [Clients -> BOOLEAN]
    /\ losses \in [Clients -> 0 .. MaxLosses]
    /\ \A c \in Clients : sent[c] + left[c] <= Len(flow[c])
TypeOK == StoreType /\ ClientType

Init ==
    /\ run = 1
    /\ tail = [r \in Runs |-> 0]
    /\ retained = <<>>
    /\ listed = [c \in Clients |-> FALSE]
    /\ stream = [c \in Clients |-> 0]
    /\ flow = [c \in Clients |-> <<>>]
    /\ sent = [c \in Clients |-> 0]
    /\ left = [c \in Clients |-> 0]
    /\ closed = [c \in Clients |-> FALSE]
    /\ cursor = [c \in Clients |-> Nowhere]
    /\ told = [c \in Clients |-> FALSE]
    /\ losses = [c \in Clients |-> 0]

-----------------------------------------------------------------------------
(* The store                                                                *)

InChannel(c) == Len(flow[c]) - sent[c] - left[c]
\* Variant: a full channel loses the message and the subscriber stays.
SkipsFull(c) == TRUE
\* try_send succeeds, or the subscriber is dropped.
HasRoom(c) == InChannel(c) < ChannelCap

\* Variant: the window keeps one entry too many.
TrimmedLate(kept) == IF Len(kept) > MaxEvents + 1 THEN Tail(kept) ELSE kept
\* The window after an entry was added: the oldest leaves when it is full.
Trimmed(kept) == IF Len(kept) > MaxEvents THEN Tail(kept) ELSE kept

\* EventStore::push, from lock to unlock.
Push ==
    LET n == tail[run] + 1 IN
    /\ tail[run] < MaxSeq
    /\ tail' = [tail EXCEPT ![run] = n]
    /\ retained' = Trimmed(Append(retained, n))
    /\ flow' = [c \in Clients |->
                  IF listed[c] /\ InChannel(c) < ChannelCap
                    THEN Append(flow[c], Notification(n)) ELSE flow[c]]
    /\ listed' = [c \in Clients |-> listed[c] /\ HasRoom(c)]
    /\ UNCHANGED <<run, connVars, cursor, told, losses>>

\* One less than the oldest number still kept.
Oldest == IF retained = <<>> THEN tail[run] ELSE retained[1] - 1
\* Variant: the entry before the window is thought to be there.
ContinuesTooEarly(p) == p.run = run /\ p.seq >= Oldest - 1 /\ p.seq <= tail[run]
\* Variant: the client whose next entry is the oldest one is sent away.
ContinuesTooLate(p) == p.run = run /\ p.seq > Oldest /\ p.seq <= tail[run]
\* The cursor is of this run and everything after it is still kept.
Continues(p) == p.run = run /\ p.seq >= Oldest /\ p.seq <= tail[run]

\* The retained entries after number n, oldest first.
FirstAfter(n) ==
    CHOOSE i \in 1 .. Len(retained) + 1 :
        /\ \A j \in 1 .. i - 1 : retained[j] <= n
        /\ \A j \in i .. Len(retained) : retained[j] > n
Backlog(n) ==
    [j \in 1 .. Len(retained) + 1 - FirstAfter(n) |->
        Notification(retained[FirstAfter(n) + j - 1])]

\* What subscribe gives a client besides the live channel.
Opening(p) ==
    IF p = Nowhere THEN <<>>
    ELSE IF Continues(p) THEN Backlog(p.seq)
    ELSE <<[type |-> "resync", seq |-> tail[run]]>>

-----------------------------------------------------------------------------
(* Connections                                                              *)

\* The client connects with its last id: subscribe takes the backlog and
\* registers the channel under one lock.
Connect(c) ==
    /\ stream[c] = 0
    /\ stream' = [stream EXCEPT ![c] = run]
    /\ flow' = [flow EXCEPT ![c] = Opening(cursor[c])]
    /\ left' = [left EXCEPT ![c] = Len(Opening(cursor[c]))]
    /\ listed' = [listed EXCEPT ![c] = TRUE]
    /\ UNCHANGED <<storeVars, sent, closed, cursor, told, losses>>

\* serve writes the resync and the backlog ...
WriteBacklog(c) ==
    /\ stream[c] # 0 /\ ~closed[c] /\ left[c] > 0
    /\ left' = [left EXCEPT ![c] = @ - 1]
    /\ sent' = [sent EXCEPT ![c] = @ + 1]
    /\ UNCHANGED <<storeVars, listed, stream, closed, flow, cursor, told, losses>>

\* ... then what arrives on the channel, also after the sender was dropped.
WriteLive(c) ==
    /\ stream[c] # 0 /\ ~closed[c] /\ left[c] = 0 /\ InChannel(c) > 0
    /\ sent' = [sent EXCEPT ![c] = @ + 1]
    /\ UNCHANGED <<storeVars, listed, stream, left, closed, flow, cursor, told, losses>>

\* Variant: a dropped subscriber is never told.
NeverHangsUp(c) == FALSE
\* The channel is empty and its sender gone.
Disconnected(c) == left[c] = 0 /\ InChannel(c) = 0 /\ ~listed[c]

HangUp(c) ==
    /\ stream[c] # 0 /\ ~closed[c] /\ Disconnected(c)
    /\ closed' = [closed EXCEPT ![c] = TRUE]
    /\ UNCHANGED <<storeVars, listed, stream, sent, left, flow, cursor, told, losses>>

Receive(c) ==
    /\ sent[c] > 0
    /\ cursor' = [cursor EXCEPT ![c] = [run |-> stream[c], seq |-> Head(flow[c]).seq]]
    /\ told' = [told EXCEPT ![c] = Head(flow[c]).type = "resync"]
    /\ flow' = [flow EXCEPT ![c] = Tail(@)]
    /\ sent' = [sent EXCEPT ![c] = @ - 1]
    /\ UNCHANGED <<storeVars, listed, stream, left, closed, losses>>

Leave(c) ==
    /\ stream' = [stream EXCEPT ![c] = 0]
    /\ flow' = [flow EXCEPT ![c] = <<>>]
    /\ sent' = [sent EXCEPT ![c] = 0]
    /\ left' = [left EXCEPT ![c] = 0]
    /\ closed' = [closed EXCEPT ![c] = FALSE]
    /\ listed' = [listed EXCEPT ![c] = FALSE]
    /\ UNCHANGED <<storeVars, cursor, told>>

\* The client has read everything the server wrote before closing.
SeeEnd(c) ==
    /\ closed[c] /\ sent[c] = 0
    /\ Leave(c)
    /\ UNCHANGED losses

\* The connection breaks (a write that times out included); what was in
\* flight is gone.  The dead sender leaves the list at the next push, which
\* nobody can observe.
LoseConnection(c) ==
    /\ stream[c] # 0 /\ losses[c] < MaxLosses
    /\ losses' = [losses EXCEPT ![c] = @ + 1]
    /\ Leave(c)

\* The connector ends and starts again: a new stream id, nothing retained.
\* What its sockets hold can still be read.
Restart ==
    /\ run < MaxRuns
    /\ run' = run + 1
    /\ retained' = <<>>
    /\ listed' = [c \in Clients |-> FALSE]
    /\ closed' = [c \in Clients |-> stream[c] # 0]
    /\ flow' = [c \in Clients |-> SubSeq(flow[c], 1, sent[c])]
    /\ left' = [c \in Clients |-> 0]
    /\ UNCHANGED <<tail, stream, sent, cursor, told, losses>>

-----------------------------------------------------------------------------
Client(c) ==
    \/ Connect(c) \/ WriteBacklog(c) \/ WriteLive(c) \/ HangUp(c)
    \/ Receive(c) \/ SeeEnd(c)

\* The bounds are used up, and every client waits on a live connection that
\* has nothing for it: any other end is a deadlock.
Finished ==
    /\ run = MaxRuns /\ tail[run] = MaxSeq
    /\ \A c \in Clients : stream[c] = run /\ listed[c] /\ flow[c] = <<>>
    /\ UNCHANGED vars

Next ==
    \/ Push \/ Restart \/ Finished
    \/ \E c \in Clients : Client(c) \/ LoseConnection(c)

Spec == Init /\ [][Next]_vars

\* The serving thread writes, a live client reads and reconnects.
FairSpec == Spec /\ \A c \in Clients : WF_vars(Client(c))

-----------------------------------------------------------------------------
(* Properties                                                               *)

\* The stream implements the log: no consumer misses a notification without
\* being told, gets one twice or goes back, whatever overflow, loss of a
\* connection, trimming of the window or restart happens.
Log == INSTANCE NotificationLog WITH pos <- cursor
ImplementsLog == Log!Spec

\* A client is told to resynchronise only when the next entry it needs is
\* not kept any more, and then at the very end of the log.
ResyncOnlyWhenLost ==
    [][\A c \in Clients :
         flow[c] = <<>> /\ flow'[c] # <<>> /\ Head(flow'[c]).type = "resync" =>
            /\ Head(flow'[c]).seq = tail[run]
            /\ cursor[c].run = run =>
                 ~ \E i \in 1 .. Len(retained) : retained[i] = cursor[c].seq + 1]_vars

\* Once nothing more is published, a client that received anything at all
\* reaches the end of the log, however its connections ended.
CatchesUp ==
    \A c \in Clients :
        <>[](cursor[c] = Nowhere \/ cursor[c] = [run |-> run, seq |-> tail[run]])
=============================================================================
