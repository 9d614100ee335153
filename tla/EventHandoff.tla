---------------------------- MODULE EventHandoff ----------------------------
(***************************************************************************)
(* The handoff of domain events to the host: EventStore::push gives the    *)
(* normalized event to a bounded queue, one worker posts it until the host *)
(* returns a receipt that names it.                                        *)
(*                                                                         *)
(* An app-server session has its own stdout reader, and the reader of the  *)
(* session before it may still be at work, so that there are several.  A   *)
(* reader numbers the notification under the store's mutex and enqueues    *)
(* the event after it released it; a full queue makes it wait.  The queue  *)
(* is in memory: a restart loses it.  The pauses between attempts are only *)
(* time and are left out; window and subscribers are EventStream's.        *)
(*                                                                         *)
(* An operator commented "Variant" is a plausible mistake in the operator  *)
(* after it; no behaviour of Spec uses it.                                 *)
(***************************************************************************)
EXTENDS Integers, Sequences

CONSTANTS Readers,   \* stdout readers
          Subjects,  \* turns and threads events are about
          Nothing,   \* no event, no answer
          Refused,   \* an answer that is not a valid receipt
          Capacity,  \* EVENT_PUBLISH_QUEUE_CAPACITY
          MaxRuns,   \* bound: runs of the connector
          MaxSeq     \* bound: notifications in each run

Runs == 1 .. MaxRuns
\* DomainEvent: "turn" is codexTurnCompleted, "thread" the lifecycle events.
Events == [type : {"turn", "thread"}, subject : Subjects,
           run : Runs, seq : Nat, reader : Readers]

\* Variant: the identity of a lifecycle event leaves the stream id out.
IdOfSequence(e) ==
    [type |-> e.type, subject |-> e.subject, run |-> 0,
     seq |-> IF e.type = "turn" THEN 0 ELSE e.seq]
\* stable_event_id: a turn completes once, whoever reports it and how often;
\* a lifecycle event is one notification of one run.
Id(e) ==
    [type |-> e.type, subject |-> e.subject,
     run |-> IF e.type = "turn" THEN 0 ELSE e.run,
     seq |-> IF e.type = "turn" THEN 0 ELSE e.seq]
Ids == [type : {"turn", "thread"}, subject : Subjects, run : Runs \cup {0}, seq : Nat]

ASSUME HandoffAssumption ==
    /\ Capacity \in Nat \ {0} /\ MaxRuns \in Nat \ {0} /\ MaxSeq \in [Runs -> Nat]
    /\ Nothing \notin Events \cup Ids /\ Refused \notin Ids \cup {Nothing}

VARIABLES
    run,       \* the current run (its stream id)
    sequence,  \* EventState.sequence
    holding,   \* per reader: the event it has not enqueued yet
    queue,     \* the bounded queue
    job,       \* event the worker took from it
    waiting,   \* the worker waits for the answer to its POST
    answer,    \* that answer
    arriving,  \* POSTs the host has not handled, also abandoned ones
    owned,     \* events the host durably owns, in the order it took them
    emitted    \* events made so far, in all runs

vars == <<run, sequence, holding, queue, job, waiting, answer, arriving, owned, emitted>>
workerVars == <<job, waiting, answer>>
hostVars == <<arriving, owned>>

TypeOK ==
    /\ run \in Runs /\ sequence \in Nat
    /\ holding \in [Readers -> Events \cup {Nothing}]
    /\ queue \in Seq(Events) /\ Len(queue) <= Capacity
    /\ job \in Events \cup {Nothing}
    /\ waiting \in BOOLEAN
    /\ answer \in Ids \cup {Refused, Nothing}
    /\ arriving \in SUBSET Events
    /\ owned \in Seq(Events)
    /\ emitted \in SUBSET Events

Init ==
    /\ run = 1 /\ sequence = 0
    /\ holding = [r \in Readers |-> Nothing]
    /\ queue = <<>> /\ job = Nothing
    /\ waiting = FALSE /\ answer = Nothing
    /\ arriving = {} /\ owned = <<>> /\ emitted = {}

Entries(s) == {s[i] : i \in 1 .. Len(s)}
OwnedIds == {Id(e) : e \in Entries(owned)}

-----------------------------------------------------------------------------
(* Readers                                                                  *)

\* A notification that is no domain event only takes a number.
PushPlain(r) ==
    /\ holding[r] = Nothing /\ sequence < MaxSeq[run]
    /\ sequence' = sequence + 1
    /\ UNCHANGED <<run, holding, queue, workerVars, hostVars, emitted>>

\* EventStore::push up to the unlock.
PushEvent(r) ==
    /\ holding[r] = Nothing /\ sequence < MaxSeq[run]
    /\ sequence' = sequence + 1
    /\ \E type \in {"turn", "thread"}, x \in Subjects :
         LET e == [type |-> type, subject |-> x, run |-> run,
                   seq |-> sequence + 1, reader |-> r] IN
         /\ holding' = [holding EXCEPT ![r] = e]
         /\ emitted' = emitted \cup {e}
    /\ UNCHANGED <<run, queue, workerVars, hostVars>>

\* Variant: the queue takes one event too many.
HasRoomForOneMore == Len(queue) <= Capacity
\* sync_channel: send waits for room.
HasRoom == Len(queue) < Capacity

Enqueue(r) ==
    /\ holding[r] # Nothing /\ HasRoom
    /\ queue' = Append(queue, holding[r])
    /\ holding' = [holding EXCEPT ![r] = Nothing]
    /\ UNCHANGED <<run, sequence, workerVars, hostVars, emitted>>

-----------------------------------------------------------------------------
(* The worker                                                               *)

Take ==
    /\ job = Nothing /\ queue # <<>>
    /\ job' = Head(queue) /\ queue' = Tail(queue)
    /\ UNCHANGED <<run, sequence, holding, waiting, answer, hostVars, emitted>>

\* A POST goes out, and reaches the host or is lost.
Post(arrives) ==
    /\ job # Nothing /\ ~waiting
    /\ waiting' = TRUE
    /\ arriving' = IF arrives THEN arriving \cup {job} ELSE arriving
    /\ UNCHANGED <<run, sequence, holding, queue, job, answer, owned, emitted>>

\* Variant: any receipt will do.
AnyReceipt(a, e) == a # Refused
\* HostEventReceipt::accepts, on a well-formed receipt.
Accepts(a, e) == a = Id(e)

Release ==
    /\ waiting /\ answer # Nothing /\ Accepts(answer, job)
    /\ job' = Nothing /\ waiting' = FALSE /\ answer' = Nothing
    /\ UNCHANGED <<run, sequence, holding, queue, hostVars, emitted>>

\* Variant: the event goes back to the end of the queue.
RetryLater == job' = Nothing /\ queue' = Append(queue, job)
\* The same event is posted again.
Retry == UNCHANGED <<job, queue>>

\* Another receipt, a malformed one, or an error status.
Reject ==
    /\ waiting /\ answer # Nothing /\ ~Accepts(answer, job)
    /\ waiting' = FALSE /\ answer' = Nothing
    /\ Retry
    /\ UNCHANGED <<run, sequence, holding, hostVars, emitted>>

\* Variant: the request has no timeout.
WaitsForever == FALSE
\* No answer within ten seconds, or the connection fails.
GivesUp == waiting /\ answer = Nothing

\* What the request did at the host stays unknown.
TimeOut ==
    /\ GivesUp
    /\ waiting' = FALSE
    /\ Retry
    /\ UNCHANGED <<run, sequence, holding, answer, hostVars, emitted>>

-----------------------------------------------------------------------------
(* The host and the network (external)                                      *)

\* The host owns an event once, by its id.
HostOwns(e) ==
    /\ e \in arriving
    /\ arriving' = arriving \ {e}
    /\ owned' = IF Id(e) \in OwnedIds THEN owned ELSE Append(owned, e)
    /\ UNCHANGED <<run, sequence, holding, queue, workerVars, emitted>>

\* A receipt is for an event the host owns, not always the one it was asked
\* for.
HostAnswers(a) ==
    /\ waiting /\ answer = Nothing
    /\ a \in OwnedIds \cup {Refused}
    /\ answer' = a
    /\ UNCHANGED <<run, sequence, holding, queue, job, waiting, hostVars, emitted>>

\* The connector ends and starts again; posted requests may still arrive.
Restart ==
    /\ run < MaxRuns
    /\ run' = run + 1 /\ sequence' = 0
    /\ holding' = [r \in Readers |-> Nothing]
    /\ queue' = <<>> /\ job' = Nothing
    /\ waiting' = FALSE /\ answer' = Nothing
    /\ UNCHANGED <<hostVars, emitted>>

-----------------------------------------------------------------------------
\* The bounds are used up and everything was handed over.
Finished ==
    /\ run = MaxRuns /\ sequence = MaxSeq[run]
    /\ \A r \in Readers : holding[r] = Nothing
    /\ queue = <<>> /\ job = Nothing
    /\ UNCHANGED vars

Next ==
    \/ \E r \in Readers : PushPlain(r) \/ PushEvent(r) \/ Enqueue(r)
    \/ Take \/ Post(TRUE) \/ Post(FALSE) \/ Release \/ Reject \/ TimeOut
    \/ \E e \in arriving : HostOwns(e)
    \/ \E a \in OwnedIds \cup {Refused} : HostAnswers(a)
    \/ Restart \/ Finished

Spec == Init /\ [][Next]_vars

\* The readers and the worker keep running.  The network and the host
\* are only assumed to work now and then: of the requests posted again and
\* again some arrive, some are handled and some are acknowledged.
FairSpec ==
    /\ Spec
    /\ \A r \in Readers : WF_vars(Enqueue(r))
    /\ WF_vars(Take) /\ WF_vars(\E b \in BOOLEAN : Post(b)) /\ WF_vars(Release) /\ WF_vars(Reject)
    /\ WF_vars(TimeOut)
    /\ SF_vars(Post(TRUE))
    /\ SF_vars(job \in arriving /\ HostOwns(job))
    /\ SF_vars(job # Nothing /\ HostAnswers(Id(job)))

-----------------------------------------------------------------------------
(* Properties                                                               *)

\* An event of this run is never discarded: until the host owns it (or, for
\* the completion of a turn, an earlier report of the same completion) the
\* connector has it, whatever the host answers and however full the queue is.
Kept(e) ==
    \/ \E r \in Readers : holding[r] = e
    \/ e \in Entries(queue) \cup {job}
Owns(e) ==
    \E o \in Entries(owned) :
        o = e \/ (e.type = "turn" /\ o.type = "turn" /\ o.subject = e.subject)
NothingDiscarded == \A e \in emitted : e.run = run => Kept(e) \/ Owns(e)

\* The host takes the events of one reader in the order in which the reader
\* got them, over retries, timeouts and requests that arrive late.
HandedOverInOrder ==
    \A i \in 1 .. Len(owned) : \A e \in emitted :
        e.reader = owned[i].reader /\ e.run = owned[i].run /\ e.seq < owned[i].seq =>
            \E j \in 1 .. i - 1 : Id(owned[j]) = Id(e)

\* Every event is handed over, or the connector restarts first.  A run makes at
\* most MaxSeq events and the host keeps what it owns, so that this says: the
\* connector is not for ever behind.
HandedOver == []<>(\A e \in emitted : e.run = run => Owns(e))

\* Backpressure ends: a reader that waits for room gets on.
ReaderGetsOn == \A r \in Readers : []<>(holding[r] = Nothing)
=============================================================================
