------------------------- MODULE EventHandoffProofs -------------------------
(* Proofs of the safety properties of EventHandoff, for any number of        *)
(* readers, subjects, runs and notifications and any capacity of the queue.  *)
EXTENDS EventHandoff, TLAPS

-----------------------------------------------------------------------------
(* Sequences                                                                *)

LEMMA EntriesOfAppend ==
  ASSUME NEW S, NEW s \in Seq(S), NEW x \in S
  PROVE  /\ Entries(Append(s, x)) = Entries(s) \cup {x}
         /\ Append(s, x) \in Seq(S) /\ Len(Append(s, x)) = Len(s) + 1
         /\ \A i \in 1 .. Len(s) : Append(s, x)[i] = s[i]
         /\ Append(s, x)[Len(s) + 1] = x
  BY DEF Entries

LEMMA EntriesOfTail ==
  ASSUME NEW S, NEW s \in Seq(S), s # <<>>
  PROVE  /\ Entries(s) = {Head(s)} \cup Entries(Tail(s))
         /\ Head(s) \in S /\ Head(s) = s[1]
         /\ Tail(s) \in Seq(S) /\ Len(Tail(s)) = Len(s) - 1
         /\ \A i \in 1 .. Len(s) - 1 : Tail(s)[i] = s[i + 1]
<1>1. /\ Head(s) \in S /\ Head(s) = s[1] /\ Tail(s) \in Seq(S)
      /\ Len(Tail(s)) = Len(s) - 1 /\ Len(s) \in Nat /\ Len(s) # 0
      /\ \A i \in 1 .. Len(s) - 1 : Tail(s)[i] = s[i + 1]
  OBVIOUS
<1>2. Entries(s) \subseteq {Head(s)} \cup Entries(Tail(s))
  <2> SUFFICES ASSUME NEW i \in 1 .. Len(s), i # 1
               PROVE  s[i] \in Entries(Tail(s))
    BY <1>1 DEF Entries
  <2>1. i - 1 \in 1 .. Len(Tail(s)) /\ Tail(s)[i - 1] = s[i]
    BY <1>1
  <2> QED BY <2>1 DEF Entries
<1>3. {Head(s)} \cup Entries(Tail(s)) \subseteq Entries(s)
  BY <1>1 DEF Entries
<1> QED BY <1>1, <1>2, <1>3

-----------------------------------------------------------------------------
(* Types                                                                    *)

\* An event has an identity.
LEMMA IdType == \A e \in Events : Id(e) \in Ids /\ Id(e) # Refused /\ Id(e) # Nothing
  BY HandoffAssumption DEF Id, Ids, Events, Runs

LEMMA NothingIsNoEvent == Nothing \notin Events /\ Nothing # Refused
  BY HandoffAssumption

LEMMA OwnedTypes == TypeOK => OwnedIds \subseteq Ids
<1> SUFFICES ASSUME TypeOK, NEW e \in Entries(owned) PROVE Id(e) \in Ids
  BY DEF OwnedIds
<1> QED BY IdType DEF Entries, TypeOK

LEMMA EmptyQueue == <<>> \in Seq(Events) /\ Len(<<>>) <= Capacity
<1>1. Capacity \in Nat
  BY HandoffAssumption
<1> QED BY <1>1

LEMMA InitTypeOK == Init => TypeOK
<1>1. 1 \in Runs
  BY HandoffAssumption DEF Runs
<1> SUFFICES ASSUME Init PROVE TypeOK
  OBVIOUS
<1>2. run \in Runs /\ sequence \in Nat /\ holding \in [Readers -> Events \cup {Nothing}]
  BY <1>1 DEF Init
<1>3. queue \in Seq(Events) /\ Len(queue) <= Capacity /\ owned \in Seq(Events)
  BY EmptyQueue DEF Init
<1>4. job \in Events \cup {Nothing} /\ waiting \in BOOLEAN
      /\ answer \in Ids \cup {Refused, Nothing}
      /\ arriving \in SUBSET Events /\ emitted \in SUBSET Events
  BY DEF Init
<1> QED BY <1>2, <1>3, <1>4 DEF TypeOK

LEMMA NextTypeOK == TypeOK /\ [Next]_vars => TypeOK'
<1> SUFFICES ASSUME TypeOK, [Next]_vars PROVE TypeOK'
  OBVIOUS
<1> USE DEF workerVars, hostVars
<1>1. ASSUME NEW r \in Readers, PushPlain(r) PROVE TypeOK'
  BY <1>1 DEF PushPlain, TypeOK
<1>2. ASSUME NEW r \in Readers, PushEvent(r) PROVE TypeOK'
  <2>1. PICK type \in {"turn", "thread"}, x \in Subjects :
          LET e == [type |-> type, subject |-> x, run |-> run,
                    seq |-> sequence + 1, reader |-> r] IN
          /\ holding' = [holding EXCEPT ![r] = e]
          /\ emitted' = emitted \cup {e}
    BY <1>2 DEF PushEvent
  <2> DEFINE e == [type |-> type, subject |-> x, run |-> run,
                   seq |-> sequence + 1, reader |-> r]
  <2>2. e \in Events
    BY DEF TypeOK, Events
  <2> HIDE DEF e
  <2>3. holding' = [holding EXCEPT ![r] = e] /\ emitted' = emitted \cup {e}
    BY <2>1 DEF e
  <2> QED BY <1>2, <2>2, <2>3 DEF PushEvent, TypeOK
<1>3. ASSUME NEW r \in Readers, Enqueue(r) PROVE TypeOK'
  <2>1. holding[r] \in Events
    BY <1>3 DEF Enqueue, TypeOK
  <2>2. queue' \in Seq(Events) /\ Len(queue') = Len(queue) + 1
    BY <1>3, <2>1, EntriesOfAppend DEF Enqueue, TypeOK
  <2>3. Len(queue') <= Capacity
    BY <1>3, <2>2, HandoffAssumption DEF Enqueue, HasRoom, TypeOK
  <2> QED BY <1>3, <2>2, <2>3 DEF Enqueue, TypeOK
<1>4. ASSUME Take PROVE TypeOK'
  <2>1. Head(queue) \in Events /\ Tail(queue) \in Seq(Events)
        /\ Len(Tail(queue)) = Len(queue) - 1
    BY <1>4, EntriesOfTail DEF Take, TypeOK
  <2> QED BY <1>4, <2>1, HandoffAssumption DEF Take, TypeOK
<1>5. ASSUME NEW b \in BOOLEAN, Post(b) PROVE TypeOK'
  BY <1>5 DEF Post, TypeOK
<1>6. ASSUME Release PROVE TypeOK'
  BY <1>6 DEF Release, TypeOK
<1>7. ASSUME Reject \/ TimeOut PROVE TypeOK'
  BY <1>7 DEF Reject, TimeOut, Retry, TypeOK
<1>8. ASSUME NEW e \in arriving, HostOwns(e) PROVE TypeOK'
  <2>1. e \in Events
    BY DEF TypeOK
  <2>2. Append(owned, e) \in Seq(Events)
    BY <2>1, EntriesOfAppend DEF TypeOK
  <2>3. owned' \in Seq(Events)
    BY <1>8, <2>2 DEF HostOwns, TypeOK
  <2> QED BY <1>8, <2>3 DEF HostOwns, TypeOK
<1>9. ASSUME NEW a \in OwnedIds \cup {Refused}, HostAnswers(a) PROVE TypeOK'
  BY <1>9, OwnedTypes DEF HostAnswers, TypeOK
<1>10. ASSUME Restart PROVE TypeOK'
  <2>1. run' \in Runs
    BY <1>10, HandoffAssumption DEF Restart, TypeOK, Runs
  <2> QED BY <1>10, <2>1, EmptyQueue DEF Restart, TypeOK
<1>11. ASSUME Finished \/ UNCHANGED vars PROVE TypeOK'
  BY <1>11 DEF Finished, TypeOK, vars
<1> QED
  BY <1>1, <1>2, <1>3, <1>4, <1>5, <1>6, <1>7, <1>8, <1>9, <1>10, <1>11 DEF Next

\* The queue never holds more than its capacity, and the handoff's state
\* keeps its types, in every reachable state.
THEOREM TypeCorrect == Spec => []TypeOK
  BY InitTypeOK, NextTypeOK, PTL DEF Spec

-----------------------------------------------------------------------------
(* Nothing is discarded, and the order of each reader is kept               *)

\* The host owns the event, by its identity.
Settled(e) == Id(e) \in OwnedIds
\* The reader of both got e before f.
Before(e, f) == e.reader = f.reader /\ e.run = f.run /\ e.seq < f.seq

\* Every event has its own number in its run.
Numbered ==
    /\ \A e \in emitted : e.run <= run /\ (e.run = run => e.seq <= sequence)
    /\ \A e, f \in emitted : e.run = f.run /\ e.seq = f.seq => e = f

\* What is under way was emitted; a receipt names an event the host owns.
Known ==
    /\ \A r \in Readers : holding[r] # Nothing =>
          holding[r] \in emitted /\ holding[r].reader = r /\ holding[r].run = run
    /\ Entries(queue) \subseteq emitted
    /\ job # Nothing => job \in emitted
    /\ arriving \subseteq emitted /\ Entries(owned) \subseteq emitted
    /\ answer \in Ids => answer \in OwnedIds

Safe == \A e \in emitted : e.run = run => Kept(e) \/ Settled(e)

\* What came before an event is owned already, or ahead of it.
QueueOrder ==
    \A i \in 1 .. Len(queue) : \A e \in emitted : Before(e, queue[i]) =>
        Settled(e) \/ e = job \/ \E j \in 1 .. i - 1 : queue[j] = e
PostOrder ==
    /\ \A f \in arriving, e \in emitted : Before(e, f) => Settled(e)
    /\ job # Nothing => \A e \in emitted : Before(e, job) => Settled(e)

HandoffInv ==
    Numbered /\ Known /\ Safe /\ QueueOrder /\ PostOrder /\ HandedOverInOrder

LEMMA InitHandoffInv == Init => HandoffInv
<1> SUFFICES ASSUME Init PROVE HandoffInv
  OBVIOUS
<1>1. Entries(<<>>) = {}
  BY DEF Entries
<1>2. Numbered /\ Safe
  BY DEF Init, Numbered, Safe
<1>3. Known
  BY <1>1, IdType, HandoffAssumption DEF Init, Known
<1>4. QueueOrder /\ PostOrder /\ HandedOverInOrder
  BY DEF Init, QueueOrder, PostOrder, HandedOverInOrder
<1> QED BY <1>2, <1>3, <1>4 DEF HandoffInv

\* Without a step of the host the owned identities stay.
LEMMA OwnedFrame == UNCHANGED owned => OwnedIds' = OwnedIds /\ Entries(owned)' = Entries(owned)
  BY DEF OwnedIds, Entries

LEMMA EventFields ==
  \A e \in Events : e.run \in Int /\ e.seq \in Int /\ e.reader \in Readers
  BY DEF Events, Runs

LEMMA NextHandoffInv == TypeOK /\ TypeOK' /\ HandoffInv /\ [Next]_vars => HandoffInv'
<1> SUFFICES ASSUME TypeOK, TypeOK', HandoffInv, [Next]_vars PROVE HandoffInv'
  OBVIOUS
<1> USE DEF workerVars, hostVars, HandoffInv
<1>a. emitted \subseteq Events /\ run \in Int /\ sequence \in Int
      /\ owned \in Seq(Events) /\ queue \in Seq(Events)
  BY DEF TypeOK, Runs
<1>b. \A e \in emitted : e # Nothing /\ e.run \in Int /\ e.seq \in Int
  BY <1>a, NothingIsNoEvent, EventFields
<1>c. /\ \A i \in 1 .. Len(queue) : queue[i] \in Entries(queue)
      /\ \A i \in 1 .. Len(owned) : owned[i] \in Entries(owned) /\ owned[i] \in emitted
  BY DEF Entries, Known
<1>1. ASSUME NEW r \in Readers, PushPlain(r) PROVE HandoffInv'
  <2>1. UNCHANGED <<run, holding, queue, job, answer, arriving, owned, emitted>>
        /\ sequence' = sequence + 1
    BY <1>1 DEF PushPlain
  <2>2. Numbered'
    BY <2>1, <1>a, <1>b DEF Numbered
  <2>3. Known' /\ Safe'
    BY <2>1, OwnedFrame DEF Known, Safe, Settled, Kept, Entries
  <2>4. QueueOrder' /\ PostOrder' /\ HandedOverInOrder'
    BY <2>1, OwnedFrame DEF QueueOrder, PostOrder, Before, Settled, HandedOverInOrder
  <2> QED BY <2>2, <2>3, <2>4
<1>2. ASSUME NEW r \in Readers, PushEvent(r) PROVE HandoffInv'
  <2>1. PICK type \in {"turn", "thread"}, x \in Subjects :
          LET e == [type |-> type, subject |-> x, run |-> run,
                    seq |-> sequence + 1, reader |-> r] IN
          /\ holding' = [holding EXCEPT ![r] = e]
          /\ emitted' = emitted \cup {e}
    BY <1>2 DEF PushEvent
  <2> DEFINE new == [type |-> type, subject |-> x, run |-> run,
                     seq |-> sequence + 1, reader |-> r]
  <2>2. new.run = run /\ new.seq = sequence + 1 /\ new.reader = r /\ new \in Events
    BY DEF TypeOK, Events
  <2> HIDE DEF new
  <2>3. /\ holding' = [holding EXCEPT ![r] = new] /\ emitted' = emitted \cup {new}
        /\ holding[r] = Nothing /\ sequence' = sequence + 1
        /\ UNCHANGED <<run, queue, job, answer, arriving, owned>>
    BY <1>2, <2>1 DEF PushEvent, new
  <2>4. Numbered'
    BY <2>2, <2>3, <1>a, <1>b DEF Numbered
  <2>5. Known'
    BY <2>2, <2>3, OwnedFrame DEF Known, TypeOK, Entries
  <2>6. Safe'
    BY <2>2, <2>3, <1>b, OwnedFrame DEF Safe, Settled, Kept, TypeOK, Entries
  <2>7. \A f \in emitted : ~Before(new, f)
    BY <2>2, <1>a, <1>b DEF Before, Numbered
  <2>8. QueueOrder'
    BY <2>3, <2>7, <1>c, OwnedFrame DEF QueueOrder, Settled, Known
  <2>9. PostOrder'
    BY <2>3, <2>7, OwnedFrame DEF PostOrder, Settled, Known
  <2>10. HandedOverInOrder'
    BY <2>3, <2>7, <1>c DEF HandedOverInOrder, Before
  <2> QED BY <2>4, <2>5, <2>6, <2>8, <2>9, <2>10
<1>3. ASSUME NEW r \in Readers, Enqueue(r) PROVE HandoffInv'
  <2> DEFINE x == holding[r]
  <2>1. /\ x \in emitted /\ x \in Events /\ x.reader = r /\ x.run = run
        /\ queue' = Append(queue, x) /\ holding' = [holding EXCEPT ![r] = Nothing]
        /\ UNCHANGED <<run, sequence, job, answer, arriving, owned, emitted>>
    BY <1>3, <1>a DEF Enqueue, Known
  <2>2. /\ Entries(queue') = Entries(queue) \cup {x}
        /\ Len(queue') = Len(queue) + 1 /\ Len(queue) \in Nat
        /\ \A i \in 1 .. Len(queue) : queue'[i] = queue[i]
        /\ queue'[Len(queue) + 1] = x
    BY <2>1, <1>a, EntriesOfAppend
  <2>3. Entries(queue)' = Entries(queue')
    BY DEF Entries
  <2>4. Numbered' /\ PostOrder' /\ HandedOverInOrder'
    BY <2>1, OwnedFrame DEF Numbered, PostOrder, Before, Settled, HandedOverInOrder
  <2>5. Known'
    BY <2>1, <2>2, <2>3, OwnedFrame DEF Known, TypeOK
  <2>6. Safe'
    BY <2>1, <2>2, <2>3, OwnedFrame DEF Safe, Settled, Kept, TypeOK
  <2>7. ASSUME NEW e \in emitted, Before(e, x)
        PROVE  Settled(e) \/ e = job \/ \E j \in 1 .. Len(queue) : queue[j] = e
    <3>1. e.run = run /\ e.reader = r /\ e # x
      BY <2>1, <2>7, <1>b DEF Before
    <3>2. \A q \in Readers : holding[q] # e
      BY <3>1, <1>b DEF Known
    <3> QED BY <3>1, <3>2 DEF Safe, Kept, Entries
  <2>8. QueueOrder'
    <3> SUFFICES ASSUME NEW i \in 1 .. Len(queue) + 1, NEW e \in emitted, Before(e, queue'[i])
                 PROVE  Settled(e) \/ e = job \/ \E j \in 1 .. i - 1 : queue'[j] = e
      BY <2>1, <2>2, OwnedFrame DEF QueueOrder, Settled, Before
    <3>1. CASE i = Len(queue) + 1
      <4>1. Settled(e) \/ e = job \/ \E j \in 1 .. Len(queue) : queue[j] = e
        BY <3>1, <2>2, <2>7
      <4> QED BY <4>1, <3>1, <2>2
    <3>2. CASE i \in 1 .. Len(queue)
      <4>1. Settled(e) \/ e = job \/ \E j \in 1 .. i - 1 : queue[j] = e
        BY <3>2, <2>2 DEF QueueOrder
      <4> QED BY <4>1, <3>2, <2>2
    <3> QED BY <3>1, <3>2, <2>2
  <2> QED BY <2>4, <2>5, <2>6, <2>8
<1>4. ASSUME Take PROVE HandoffInv'
  <2> DEFINE h == Head(queue)
  <2>1. /\ job = Nothing /\ queue # <<>> /\ job' = h /\ queue' = Tail(queue)
        /\ UNCHANGED <<run, sequence, holding, answer, arriving, owned, emitted>>
    BY <1>4 DEF Take
  <2>2. /\ Entries(queue) = {h} \cup Entries(queue')
        /\ h = queue[1] /\ h \in emitted /\ 1 \in 1 .. Len(queue)
        /\ Len(queue') = Len(queue) - 1 /\ Len(queue) \in Nat
        /\ \A i \in 1 .. Len(queue) - 1 : queue'[i] = queue[i + 1]
    <3>1. /\ Entries(queue) = {h} \cup Entries(queue')
          /\ h = queue[1]
          /\ Len(queue') = Len(queue) - 1 /\ queue' \in Seq(Events)
          /\ \A i \in 1 .. Len(queue) - 1 : queue'[i] = queue[i + 1]
      BY <2>1, <1>a, EntriesOfTail
    <3>2. Len(queue) \in Nat /\ Len(queue') \in Nat
      BY <1>a, <3>1
    <3> QED BY <3>1, <3>2 DEF Known
  <2>3. Entries(queue)' = Entries(queue')
    BY DEF Entries
  <2>4. Numbered' /\ HandedOverInOrder'
    BY <2>1 DEF Numbered, HandedOverInOrder
  <2>5. Known'
    BY <2>1, <2>2, <2>3, OwnedFrame DEF Known
  <2>6. Safe'
    BY <2>1, <2>2, <2>3, <1>b, OwnedFrame DEF Safe, Settled, Kept
  <2>7. \A e \in emitted : Before(e, h) => Settled(e)
    BY <2>1, <2>2, <1>b DEF QueueOrder
  <2>8. PostOrder'
    BY <2>1, <2>7, OwnedFrame DEF PostOrder, Settled, Before
  <2>9. QueueOrder'
    <3> SUFFICES ASSUME NEW i \in 1 .. Len(queue'), NEW e \in emitted, Before(e, queue'[i])
                 PROVE  Settled(e) \/ e = h \/ \E j \in 1 .. i - 1 : queue'[j] = e
      BY <2>1, OwnedFrame DEF QueueOrder, Settled, Before
    <3>1. i + 1 \in 1 .. Len(queue) /\ queue'[i] = queue[i + 1]
      BY <2>2
    <3>2. Settled(e) \/ \E j \in 1 .. i : queue[j] = e
      BY <3>1, <2>1, <1>b DEF QueueOrder
    <3>3. ASSUME NEW j \in 1 .. i, queue[j] = e, j # 1
          PROVE  j - 1 \in 1 .. i - 1 /\ queue'[j - 1] = e
      BY <3>3, <2>2
    <3> QED BY <3>2, <3>3, <2>2
  <2> QED BY <2>4, <2>5, <2>6, <2>8, <2>9
<1>5. ASSUME NEW b \in BOOLEAN, Post(b) PROVE HandoffInv'
  <2>1. /\ job # Nothing /\ arriving' \subseteq arriving \cup {job}
        /\ UNCHANGED <<run, sequence, holding, queue, job, answer, owned, emitted>>
    BY <1>5 DEF Post
  <2>2. Numbered' /\ HandedOverInOrder' /\ Safe' /\ QueueOrder'
    BY <2>1, OwnedFrame
       DEF Numbered, HandedOverInOrder, Safe, QueueOrder, Settled, Kept, Before, Entries
  <2>3. Known' /\ PostOrder'
    BY <2>1, OwnedFrame DEF Known, PostOrder, Settled, Entries
  <2> QED BY <2>2, <2>3
<1>6. ASSUME Release PROVE HandoffInv'
  <2>1. /\ answer = Id(job) /\ answer # Nothing /\ job' = Nothing /\ answer' = Nothing
        /\ UNCHANGED <<run, sequence, holding, queue, arriving, owned, emitted>>
    BY <1>6 DEF Release, Accepts
  <2>2. job # Nothing => Settled(job)
    BY <2>1, <1>a, IdType DEF Known, Settled
  <2>3. Numbered' /\ HandedOverInOrder'
    BY <2>1 DEF Numbered, HandedOverInOrder
  <2>4. Known' /\ PostOrder'
    BY <2>1, OwnedFrame, HandoffAssumption DEF Known, PostOrder, Settled, Entries
  <2>5. Safe'
    BY <2>1, <2>2, <1>b, OwnedFrame DEF Safe, Settled, Kept, Entries
  <2>6. QueueOrder'
    BY <2>1, <2>2, <1>b, OwnedFrame DEF QueueOrder, Settled, Before
  <2> QED BY <2>3, <2>4, <2>5, <2>6
<1>7. ASSUME Reject \/ TimeOut PROVE HandoffInv'
  <2>1. /\ answer' \in {answer, Nothing}
        /\ UNCHANGED <<run, sequence, holding, queue, job, arriving, owned, emitted>>
    BY <1>7 DEF Reject, TimeOut, Retry
  <2>2. Numbered' /\ HandedOverInOrder' /\ Safe' /\ QueueOrder' /\ PostOrder'
    BY <2>1, OwnedFrame DEF Numbered, HandedOverInOrder, Safe, QueueOrder, PostOrder,
       Settled, Kept, Before, Entries
  <2>3. Known'
    BY <2>1, OwnedFrame, HandoffAssumption DEF Known, Entries
  <2> QED BY <2>2, <2>3
<1>8. ASSUME NEW x \in arriving, HostOwns(x) PROVE HandoffInv'
  <2>1. /\ arriving' = arriving \ {x} /\ x \in emitted /\ x \in Events
        /\ owned' = IF Id(x) \in OwnedIds THEN owned ELSE Append(owned, x)
        /\ UNCHANGED <<run, sequence, holding, queue, job, answer, emitted>>
    BY <1>8, <1>a DEF HostOwns, Known
  <2>2. \A e \in emitted : Before(e, x) => Settled(e)
    BY DEF PostOrder
  <2>3. CASE Id(x) \in OwnedIds
    <3>1. UNCHANGED owned
      BY <2>1, <2>3
    <3>2. Numbered' /\ HandedOverInOrder' /\ Safe' /\ QueueOrder'
      BY <2>1, <3>1, OwnedFrame
         DEF Numbered, HandedOverInOrder, Safe, QueueOrder, Settled, Kept, Before, Entries
    <3>3. Known' /\ PostOrder'
      BY <2>1, <3>1, OwnedFrame DEF Known, PostOrder, Settled, Entries
    <3> QED BY <3>2, <3>3
  <2>4. CASE Id(x) \notin OwnedIds
    <3>1. /\ Entries(owned') = Entries(owned) \cup {x}
          /\ Len(owned') = Len(owned) + 1 /\ Len(owned) \in Nat
          /\ \A i \in 1 .. Len(owned) : owned'[i] = owned[i]
          /\ owned'[Len(owned) + 1] = x
      BY <2>1, <2>4, <1>a, EntriesOfAppend
    <3>2. Entries(owned)' = Entries(owned') /\ Entries(queue)' = Entries(queue)
      BY <2>1 DEF Entries
    <3>3. OwnedIds \subseteq OwnedIds'
      BY <3>1, <3>2 DEF OwnedIds
    <3>4. Numbered' /\ Known'
      BY <2>1, <3>1, <3>2, <3>3 DEF Numbered, Known
    <3>5. Safe' /\ QueueOrder' /\ PostOrder'
      BY <2>1, <3>2, <3>3 DEF Safe, QueueOrder, PostOrder, Settled, Kept, Before
    <3>6. ASSUME NEW e \in emitted, Settled(e)
          PROVE  \E j \in 1 .. Len(owned) : Id(owned[j]) = Id(e)
      BY <3>6 DEF Settled, OwnedIds, Entries
    <3>7. HandedOverInOrder'
      <4> SUFFICES ASSUME NEW i \in 1 .. Len(owned) + 1, NEW e \in emitted,
                          Before(e, owned'[i])
                   PROVE  \E j \in 1 .. i - 1 : Id(owned'[j]) = Id(e)
        BY <2>1, <3>1 DEF HandedOverInOrder, Before
      <4>1. CASE i = Len(owned) + 1
        <5>1. PICK j \in 1 .. Len(owned) : Id(owned[j]) = Id(e)
          BY <4>1, <3>1, <2>2, <3>6
        <5> QED BY <5>1, <4>1, <3>1
      <4>2. CASE i \in 1 .. Len(owned)
        <5>1. PICK j \in 1 .. i - 1 : Id(owned[j]) = Id(e)
          BY <4>2, <3>1 DEF HandedOverInOrder, Before
        <5> QED BY <5>1, <4>2, <3>1
      <4> QED BY <4>1, <4>2, <3>1
    <3> QED BY <3>4, <3>5, <3>7
  <2> QED BY <2>3, <2>4
<1>9. ASSUME NEW a \in OwnedIds \cup {Refused}, HostAnswers(a) PROVE HandoffInv'
  <2>1. /\ answer' = a
        /\ UNCHANGED <<run, sequence, holding, queue, job, arriving, owned, emitted>>
    BY <1>9 DEF HostAnswers
  <2>2. Numbered' /\ HandedOverInOrder' /\ Safe' /\ QueueOrder' /\ PostOrder'
    BY <2>1, OwnedFrame DEF Numbered, HandedOverInOrder, Safe, QueueOrder, PostOrder,
       Settled, Kept, Before, Entries
  <2>3. Known'
    BY <2>1, OwnedFrame, HandoffAssumption DEF Known, Entries
  <2> QED BY <2>2, <2>3
<1>10. ASSUME Restart PROVE HandoffInv'
  <2>1. /\ run' = run + 1 /\ sequence' = 0 /\ holding' = [r \in Readers |-> Nothing]
        /\ queue' = <<>> /\ job' = Nothing /\ answer' = Nothing
        /\ UNCHANGED <<arriving, owned, emitted>>
    BY <1>10 DEF Restart
  <2>2. \A e \in emitted : e.run # run'
    BY <2>1, <1>a, <1>b DEF Numbered
  <2>3. Numbered'
    BY <2>1, <2>2, <1>a, <1>b DEF Numbered
  <2>4. Safe' /\ HandedOverInOrder'
    BY <2>1, <2>2 DEF Safe, HandedOverInOrder
  <2>5. Entries(queue)' = {} /\ Len(queue') = 0
    BY <2>1 DEF Entries
  <2>6. Known' /\ QueueOrder' /\ PostOrder'
    BY <2>1, <2>5, OwnedFrame, HandoffAssumption DEF Known, QueueOrder, PostOrder, Settled
  <2> QED BY <2>3, <2>4, <2>6
<1>11. ASSUME Finished \/ UNCHANGED vars PROVE HandoffInv'
  <2>1. UNCHANGED <<run, sequence, holding, queue, job, answer, arriving, owned, emitted>>
    BY <1>11 DEF Finished, vars
  <2> QED BY <2>1, OwnedFrame DEF Numbered, Known, Safe, QueueOrder, PostOrder,
     HandedOverInOrder, Settled, Kept, Before, Entries
<1> QED
  BY <1>1, <1>2, <1>3, <1>4, <1>5, <1>6, <1>7, <1>8, <1>9, <1>10, <1>11 DEF Next

\* An identity that the host owns is that of the event itself, or of another
\* report of the same completion.
LEMMA SettledIsOwned ==
  ASSUME TypeOK, HandoffInv, NEW e \in emitted, Settled(e)
  PROVE  Owns(e)
<1>1. PICK o \in Entries(owned) : Id(o) = Id(e)
  BY DEF Settled, OwnedIds
<1>2. o \in emitted /\ o \in Events /\ e \in Events
  BY DEF HandoffInv, Known, TypeOK
<1>3. o.type = e.type /\ o.subject = e.subject
  BY <1>1 DEF Id
<1>4. CASE e.type = "turn"
  BY <1>3, <1>4 DEF Owns
<1>5. CASE e.type # "turn"
  <2>1. o.run = e.run /\ o.seq = e.seq
    BY <1>1, <1>3, <1>5 DEF Id
  <2> QED BY <1>2, <2>1 DEF HandoffInv, Numbered, Owns
<1> QED BY <1>4, <1>5

\* Until the host owns an event of this run, the connector has it: in the hand
\* of a reader, in the queue or at the worker.
THEOREM NothingIsDiscarded == Spec => []NothingDiscarded
<1>1. TypeOK /\ HandoffInv => NothingDiscarded
  BY SettledIsOwned DEF HandoffInv, Safe, NothingDiscarded
<1> QED BY <1>1, TypeCorrect, InitHandoffInv, NextHandoffInv, PTL DEF Spec

\* The host takes the events of one reader in the order of their numbers.
THEOREM OrderIsKept == Spec => []HandedOverInOrder
<1>1. HandoffInv => HandedOverInOrder
  BY DEF HandoffInv
<1> QED BY <1>1, TypeCorrect, InitHandoffInv, NextHandoffInv, PTL DEF Spec
=============================================================================
