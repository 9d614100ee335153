----------------------- MODULE ThreadReadStateProofs -----------------------
(***************************************************************************)
(* What is kept of the unread marks although nothing locks their file, for *)
(* any number of threads, clients, operations and revisions.  Each         *)
(* invariant rests on those before it:                                     *)
(*   CodexInv   a turn runs at every other revision;                       *)
(*   ReqInv     a listing under way shows a revision there was;            *)
(*   EntryInv   no copy of an entry is ahead of Codex;                     *)
(*   OwedInv    a copy that could lose an owed turn shows it running, at   *)
(*              no revision at which a listing shows it finished;          *)
(*   FreshInv   an actor that nobody overtook has every mark of the file.  *)
(***************************************************************************)
EXTENDS ThreadReadState, TLAPS

USE ReadStateAssumption

CodexInv == \A t \in Threads :
    /\ codex[t].at >= 1
    /\ codex[t].running <=> codex[t].at % 2 = 0
    /\ codex[t].running => codex[t].at + 1 <= MaxVersion

Shows(t, item) == item = NotListed \/ (/\ item.at >= 1 /\ item.at <= codex[t].at
                                       /\ item.running <=> item.at % 2 = 0)

ReqInv == \A a \in Actors :
    /\ pc[a] = "idle" <=> req[a] = NoReq
    /\ req[a].kind = "list" => a \in Clients /\ \A t \in Threads : Shows(t, req[a].items[t])
    /\ req[a].kind = "set" => req[a].at >= 1 /\ req[a].at <= codex[req[a].thread].at

EntryOK(t, e) == e.at <= codex[t].at /\ (e.active => e.at # 0)
EntryInv == \A t \in Threads : EntryOK(t, store[t]) /\ \A a \in Actors : EntryOK(t, held[a][t])

\* A listing that shows t finished.
ShowsFinished(a, t) ==
    req[a].kind = "list" /\ req[a].items[t] # NotListed /\ ~req[a].items[t].running

Remembers(t, e) ==
    \/ e.unread
    \/ /\ e.active
       /\ codex[t].running \/ e.at # codex[t].at
       /\ \A a \in Actors : ShowsFinished(a, t) => e.at # req[a].items[t].at
OwedInv == \A t \in owed : \A e \in Copies(t) : Remembers(t, e)

FreshInv == \A a \in Actors, t \in Threads :
    fresh[a] /\ Busy(a) /\ ~MarksRead(a, t) /\ store[t].unread => held[a][t].unread

IInv == TypeOK /\ CodexInv /\ ReqInv /\ EntryInv /\ OwedInv /\ DesktopMarkKept /\ FreshInv

-----------------------------------------------------------------------------
(* What the operators return.                                              *)

LEMMA CopiesAre ==
    ASSUME NEW t, NEW e
    PROVE  e \in Copies(t) <=> \/ e = store[t]
                               \/ \E a \in Actors : Busy(a) /\ ~MarksRead(a, t) /\ e = held[a][t]
  BY DEF Copies

LEMMA ModifiedIs ==
    ASSUME NEW s, NEW r
    PROVE  /\ r.kind = "complete" => Modified(s, r) = [s EXCEPT ![r.thread] = MarkUnread(@)]
           /\ r.kind = "set" =>
                Modified(s, r) = [s EXCEPT ![r.thread] = SetRead(@, r, r.thread \in desktop)]
           /\ r.kind = "list" =>
                Modified(s, r) = [t \in Threads |-> IF r.items[t] = NotListed THEN s[t]
                                                    ELSE Observe(s[t], r.items[t], t \in desktop)]
  <1>1. ASSUME r.kind = "complete"
        PROVE  Modified(s, r) = [s EXCEPT ![r.thread] = MarkUnread(@)]
    BY <1>1, Zenon DEF Modified
  <1>2. ASSUME r.kind = "set"
        PROVE  Modified(s, r) = [s EXCEPT ![r.thread] = SetRead(@, r, r.thread \in desktop)]
    BY <1>2, Zenon DEF Modified
  <1>3. ASSUME r.kind = "list"
        PROVE  Modified(s, r) = [t \in Threads |-> IF r.items[t] = NotListed THEN s[t]
                                                   ELSE Observe(s[t], r.items[t], t \in desktop)]
    BY <1>3, Zenon DEF Modified
  <1> QED BY <1>1, <1>2, <1>3

LEMMA SetReadType ==
    ASSUME NEW e \in Entry, NEW r, r.unread \in BOOLEAN, r.at \in 0..MaxVersion, NEW P
    PROVE  SetRead(e, r, P \in desktop) \in Entry
  <1>1. (P \in desktop) \in BOOLEAN
    OBVIOUS
  <1>2. \A b \in BOOLEAN : SetRead(e, r, b) \in Entry
    <2> SUFFICES ASSUME NEW b \in BOOLEAN PROVE SetRead(e, r, b) \in Entry
      OBVIOUS
    <2> DEFINE v == IF r.at # 0 THEN r.at ELSE e.at
    <2>1. v \in 0..MaxVersion
      BY DEF Entry
    <2>2. SetRead(e, r, b) = [e EXCEPT !.unread = r.unread, !.at = v, !.desktop = b]
      BY DEF SetRead, Entry
    <2> HIDE DEF v
    <2> QED BY <2>1, <2>2 DEF Entry
  <1> QED BY <1>1, <1>2

\* What an operation makes of one entry.
LEMMA ModifiedEntry ==
    ASSUME NEW s \in [Threads -> Entry], NEW r \in Req, r # NoReq
    PROVE  /\ Modified(s, r) \in [Threads -> Entry]
           /\ \A t \in Threads :
                \/ Modified(s, r)[t] = s[t]
                \/ r.kind = "complete" /\ r.thread = t /\ Modified(s, r)[t] = MarkUnread(s[t])
                \/ /\ r.kind = "set" /\ r.thread = t
                   /\ Modified(s, r)[t] = SetRead(s[t], r, t \in desktop)
                \/ /\ r.kind = "list" /\ r.items[t] # NotListed
                   /\ Modified(s, r)[t] = Observe(s[t], r.items[t], t \in desktop)
  <1>1. CASE r.kind = "complete"
    <2>1. r.thread \in Threads
      BY <1>1 DEF Req, NoReq
    <2>2. MarkUnread(s[r.thread]) \in Entry
      BY <2>1 DEF MarkUnread, Entry
    <2>3. Modified(s, r) = [s EXCEPT ![r.thread] = MarkUnread(@)]
      BY <1>1, ModifiedIs
    <2> QED BY <1>1, <2>1, <2>2, <2>3
  <1>2. CASE r.kind = "set"
    <2>1. r.thread \in Threads /\ r.unread \in BOOLEAN /\ r.at \in 0..MaxVersion
      BY <1>2 DEF Req, NoReq
    <2>2. SetRead(s[r.thread], r, r.thread \in desktop) \in Entry
      BY <2>1, SetReadType
    <2>3. Modified(s, r) = [s EXCEPT ![r.thread] = SetRead(@, r, r.thread \in desktop)]
      BY <1>2, ModifiedIs
    <2> QED BY <1>2, <2>1, <2>2, <2>3
  <1>3. CASE r.kind = "list"
    <2>1. r.items \in [Threads -> Item]
      BY <1>3 DEF Req, NoReq
    <2>2. \A u \in Threads : Observe(s[u], r.items[u], u \in desktop) \in Entry
      BY <2>1 DEF Observe, Observed, Raises, Entry, Item
    <2>3. Modified(s, r) = [u \in Threads |-> IF r.items[u] = NotListed THEN s[u]
                                              ELSE Observe(s[u], r.items[u], u \in desktop)]
      BY <1>3, ModifiedIs
    <2>4. \A t \in Threads :
            Modified(s, r)[t] = IF r.items[t] = NotListed THEN s[t]
                                ELSE Observe(s[t], r.items[t], t \in desktop)
      BY <2>3
    <2>5. Modified(s, r) \in [Threads -> Entry]
      BY <2>2, <2>3
    <2> QED BY <1>3, <2>4, <2>5
  <1>4. r.kind \in {"complete", "set", "list"}
    BY DEF Req, NoReq
  <1> QED BY <1>1, <1>2, <1>3, <1>4

\* A list of the fields that the operations leave or set.
LEMMA MadeOf ==
    ASSUME NEW e \in Entry
    PROVE  /\ MarkUnread(e).unread /\ MarkUnread(e).at = e.at /\ MarkUnread(e).active = e.active
           /\ \A r, b : /\ SetRead(e, r, b).unread = r.unread
                        /\ SetRead(e, r, b).active = e.active
                        /\ SetRead(e, r, b).at = IF r.at # 0 THEN r.at ELSE e.at
           /\ \A i, b : /\ Observe(e, i, b).unread = (e.unread \/ Raises(e, i, b))
                        /\ Observe(e, i, b).active = i.running
                        /\ Observe(e, i, b).at = i.at
                        /\ Observe(e, i, b).desktop = b
  BY DEF Entry, MarkUnread, SetRead, Observe, Observed

-----------------------------------------------------------------------------
(* The steps.                                                              *)

LEMMA InitInv == Init => IInv
  <1> SUFFICES ASSUME Init PROVE IInv
    OBVIOUS
  <1>1. TypeOK
    <2>1. NoEntry \in Entry
      BY DEF NoEntry, Entry
    <2>2. [t \in Threads |-> [at |-> 1, running |-> FALSE]] \in [Threads -> Item]
      BY DEF Item
    <2> QED BY <2>1, <2>2 DEF Init, TypeOK, Req, Marks
  <1>2. CodexInv
    <2>1. 1 % 2 # 0
      OBVIOUS
    <2>2. \A t \in Threads : codex[t].at = 1 /\ ~codex[t].running
      BY DEF Init
    <2>3. \A t \in Threads : codex[t].at >= 1 /\ codex[t].at % 2 # 0
      <3>1. 1 >= 1
        OBVIOUS
      <3> QED BY <2>1, <2>2, <3>1, Zenon
    <2> QED BY <2>2, <2>3, Zenon DEF CodexInv
  <1>3. ReqInv
    BY DEF Init, ReqInv, NoReq
  <1>4. EntryInv
    <2>1. \A t \in Threads : codex[t].at = 1 /\ store[t] = NoEntry /\ \A a \in Actors : held[a][t] = NoEntry
      BY DEF Init
    <2>2. NoEntry.at <= 1 /\ ~NoEntry.active
      BY DEF NoEntry
    <2> QED BY <2>1, <2>2 DEF EntryInv, EntryOK
  <1> QED BY <1>1, <1>2, <1>3, <1>4 DEF Init, IInv, OwedInv, DesktopMarkKept, FreshInv

LEMMA CopyOK ==
    ASSUME IInv, NEW t \in Threads, NEW e \in Copies(t)
    PROVE  e \in Entry /\ EntryOK(t, e)
  <1>1. store[t] \in Entry /\ EntryOK(t, store[t])
    BY DEF IInv, TypeOK, EntryInv
  <1>2. \A a \in Actors : held[a][t] \in Entry /\ EntryOK(t, held[a][t])
    BY DEF IInv, TypeOK, EntryInv
  <1> QED BY <1>1, <1>2, CopiesAre

\* The steps of Codex touch no copy and no request.
RestTypes == /\ desktop \in SUBSET Threads /\ inbox \in Seq(Threads)
             /\ owed \in SUBSET Threads /\ raised \in SUBSET Threads
             /\ told \in [Threads -> Marks]

Outer == \E t \in Threads : StartTurn(t) \/ CompleteTurn(t) \/ DesktopMarks(t)

LEMMA CopiesKept ==
    ASSUME UNCHANGED <<store, pc, req, held>>, NEW t
    PROVE  Copies(t)' = Copies(t)
  BY DEF Copies, Busy, MarksRead

\* The revisions only grow, and the one that is reached decides whether a turn runs.
LEMMA OuterCodex ==
    ASSUME IInv, Outer
    PROVE  /\ codex' \in [Threads -> Item] /\ CodexInv'
           /\ \A t \in Threads : \/ codex'[t] = codex[t]
                                 \/ codex'[t].at = codex[t].at + 1 /\ codex[t].at \in Nat
  <1>0. codex \in [Threads -> Item] /\ CodexInv
    BY DEF IInv, TypeOK
  <1>1. ASSUME NEW t \in Threads, StartTurn(t)
        PROVE  codex' = [codex EXCEPT ![t] = [at |-> codex[t].at + 1, running |-> TRUE]]
               /\ ~codex[t].running /\ codex[t].at + 2 <= MaxVersion
    BY <1>1 DEF StartTurn
  <1>2. ASSUME NEW t \in Threads, CompleteTurn(t)
        PROVE  codex' = [codex EXCEPT ![t] = [at |-> codex[t].at + 1, running |-> FALSE]]
               /\ codex[t].running
    BY <1>2 DEF CompleteTurn
  <1>3. ASSUME NEW t \in Threads, DesktopMarks(t) PROVE codex' = codex
    BY <1>3 DEF DesktopMarks
  <1>4. ASSUME NEW t \in Threads, NEW b \in BOOLEAN, b # codex[t].running,
               codex' = [codex EXCEPT ![t] = [at |-> codex[t].at + 1, running |-> b]],
               b => codex[t].at + 2 <= MaxVersion
        PROVE  /\ codex' \in [Threads -> Item] /\ CodexInv'
               /\ \A u \in Threads : \/ codex'[u] = codex[u]
                                     \/ codex'[u].at = codex[u].at + 1 /\ codex[u].at \in Nat
    <2>1. codex[t] \in Item /\ codex[t].at \in Nat /\ codex[t].running \in BOOLEAN
      BY <1>0 DEF Item
    <2>2. codex[t].at + 1 \in 0..MaxVersion
      BY <1>0, <1>4, <2>1 DEF CodexInv, Item
    <2>3. codex' \in [Threads -> Item]
      BY <1>0, <1>4, <2>2 DEF Item
    <2>4. codex'[t].at = codex[t].at + 1 /\ codex'[t].running = b
          /\ \A u \in Threads : u # t => codex'[u] = codex[u]
      BY <1>0, <1>4
    <2>5. (codex[t].at + 1) % 2 = 0 <=> codex[t].at % 2 # 0
      BY <2>1
    <2>6. codex'[t].at >= 1 /\ (codex'[t].running <=> codex'[t].at % 2 = 0)
      BY <1>0, <1>4, <2>1, <2>4, <2>5 DEF CodexInv
    <2>7. codex'[t].running => codex'[t].at + 1 <= MaxVersion
      BY <1>4, <2>1, <2>4
    <2>8. CodexInv'
      <3> SUFFICES ASSUME NEW u \in Threads
                   PROVE  /\ codex'[u].at >= 1
                          /\ codex'[u].running <=> codex'[u].at % 2 = 0
                          /\ codex'[u].running => codex'[u].at + 1 <= MaxVersion
        BY DEF CodexInv
      <3> QED BY <1>0, <2>4, <2>6, <2>7 DEF CodexInv
    <2> QED BY <2>1, <2>3, <2>4, <2>8
  <1>5. ASSUME codex' = codex
        PROVE  codex' \in [Threads -> Item] /\ CodexInv' /\ \A t \in Threads : codex'[t] = codex[t]
    BY <1>0, <1>5 DEF CodexInv
  <1> QED BY <1>1, <1>2, <1>3, <1>4, <1>5 DEF Outer

LEMMA OuterInv ==
    ASSUME IInv, Outer
    PROVE  IInv'
  <1>0. /\ codex' \in [Threads -> Item] /\ CodexInv'
        /\ \A t \in Threads : \/ codex'[t] = codex[t]
                              \/ codex'[t].at = codex[t].at + 1 /\ codex[t].at \in Nat
    BY OuterCodex
  <1>t. TypeOK
    BY DEF IInv
  <1>u. UNCHANGED <<store, pc, req, held, ops, fresh>>
    BY DEF Outer, StartTurn, CompleteTurn, DesktopMarks
  <1>g. \A t \in Threads, n \in 0..MaxVersion : n <= codex[t].at => n <= codex'[t].at
    <2> SUFFICES ASSUME NEW t \in Threads, NEW n \in 0..MaxVersion, n <= codex[t].at
                 PROVE  n <= codex'[t].at
      OBVIOUS
    <2>1. codex[t].at \in Nat
      BY <1>t DEF TypeOK, Item
    <2> QED BY <1>0, <2>1
  <1>1. TypeOK'
    <2>1. RestTypes'
      <3>1. \A t \in Threads : [told EXCEPT ![t] = "nothing"] \in [Threads -> Marks]
        BY <1>t DEF TypeOK, Marks
      <3>2. ASSUME NEW t \in Threads, StartTurn(t)
            PROVE  UNCHANGED <<desktop, inbox, owed, raised, told>>
        BY <3>2 DEF StartTurn
      <3>3. ASSUME NEW t \in Threads, CompleteTurn(t)
            PROVE  /\ UNCHANGED <<desktop, raised>> /\ inbox' = Append(inbox, t)
                   /\ owed' \in SUBSET (owed \cup {t}) /\ told' = [told EXCEPT ![t] = "nothing"]
        BY <3>3 DEF CompleteTurn
      <3>4. ASSUME NEW t \in Threads, DesktopMarks(t)
            PROVE  /\ UNCHANGED <<inbox, owed>> /\ desktop' = {t}
                   /\ raised' \in SUBSET (raised \cup {t}) /\ told' = [told EXCEPT ![t] = "nothing"]
        BY <3>4 DEF DesktopMarks
      <3>5. ASSUME NEW t \in Threads, CompleteTurn(t) PROVE inbox' \in Seq(Threads)
        <4>1. inbox \in Seq(Threads) /\ inbox' = Append(inbox, t)
          BY <1>t, <3>3, <3>5 DEF TypeOK
        <4> QED BY <4>1
      <3>6. ASSUME NEW t \in Threads, StartTurn(t) PROVE RestTypes'
        BY <1>t, <3>2, <3>6 DEF TypeOK, RestTypes
      <3>7. ASSUME NEW t \in Threads, CompleteTurn(t) PROVE RestTypes'
        <4>1. inbox' \in Seq(Threads) /\ told' \in [Threads -> Marks]
          BY <3>1, <3>3, <3>5, <3>7
        <4>2. desktop' \in SUBSET Threads /\ raised' \in SUBSET Threads
          BY <1>t, <3>3, <3>7 DEF TypeOK
        <4>3. owed' \in SUBSET Threads
          BY <1>t, <3>3, <3>7 DEF TypeOK
        <4> QED BY <4>1, <4>2, <4>3 DEF RestTypes
      <3>8. ASSUME NEW t \in Threads, DesktopMarks(t) PROVE RestTypes'
        BY <1>t, <3>1, <3>4, <3>8 DEF TypeOK, RestTypes
      <3> QED BY <3>6, <3>7, <3>8 DEF Outer
    <2> QED BY <1>0, <1>t, <1>u, <2>1 DEF TypeOK, RestTypes, Actors
  <1>2. ReqInv'
    <2> SUFFICES ASSUME NEW a \in Actors
                 PROVE  /\ pc[a] = "idle" <=> req[a] = NoReq
                        /\ req[a].kind = "list" => a \in Clients /\ \A t \in Threads : Shows(t, req[a].items[t])'
                        /\ req[a].kind = "set" => req[a].at >= 1 /\ req[a].at <= codex'[req[a].thread].at
      BY <1>u DEF ReqInv
    <2>1. req[a] \in Req
      BY <1>t DEF TypeOK
    <2>2. ASSUME req[a].kind = "list" PROVE \A t \in Threads : Shows(t, req[a].items[t])'
      <3>1. req[a].items \in [Threads -> Item] /\ \A t \in Threads : Shows(t, req[a].items[t])
        BY <2>1, <2>2 DEF IInv, ReqInv, Req, NoReq
      <3> QED BY <1>g, <1>u, <3>1 DEF Shows, Item
    <2>3. ASSUME req[a].kind = "set" PROVE req[a].at >= 1 /\ req[a].at <= codex'[req[a].thread].at
      <3>1. req[a].thread \in Threads /\ req[a].at \in 0..MaxVersion
        BY <2>1, <2>3 DEF Req, NoReq
      <3> QED BY <1>g, <2>3, <3>1 DEF IInv, ReqInv
    <2> QED BY <2>2, <2>3 DEF IInv, ReqInv
  <1>3. EntryInv'
    <2>1. \A t \in Threads : store[t].at \in 0..MaxVersion /\ \A a \in Actors : held[a][t].at \in 0..MaxVersion
      BY <1>t DEF TypeOK, Entry
    <2> QED BY <1>g, <1>u, <2>1 DEF IInv, EntryInv, EntryOK
  <1>c. \A t : Copies(t)' = Copies(t)
    BY <1>u, CopiesKept
  <1>e. \A t \in Threads : \A e \in Copies(t) : e \in Entry /\ EntryOK(t, e)
    BY CopyOK
  <1>4. OwedInv'
    <2> SUFFICES ASSUME NEW t \in owed', NEW e \in Copies(t), ~e.unread PROVE Remembers(t, e)'
      BY <1>c DEF OwedInv, Remembers
    <2>0. t \in Threads
      BY <1>1 DEF TypeOK
    <2>1. e \in Entry /\ e.at <= codex[t].at /\ e.at \in Nat
      BY <1>e, <2>0 DEF EntryOK, Entry
    <2>2. codex'[t] = codex[t] \/ e.at # codex'[t].at
      BY <1>0, <2>0, <2>1
    <2>3. CASE t \in owed
      <3>1. /\ e.active
            /\ codex[t].running \/ e.at # codex[t].at
            /\ \A a \in Actors : ShowsFinished(a, t) => e.at # req[a].items[t].at
        BY <2>3 DEF IInv, OwedInv, Remembers
      <3>2. codex'[t].running \/ e.at # codex'[t].at
        BY <2>2, <3>1
      <3>3. \A a \in Actors : ShowsFinished(a, t)' => e.at # req'[a].items[t].at
        BY <1>u, <3>1 DEF ShowsFinished
      <3> QED BY <3>1, <3>2, <3>3 DEF Remembers
    <2>4. CASE t \notin owed
      <3>1. CompleteTurn(t) /\ SeenRunning(t)
        BY <2>4 DEF Outer, StartTurn, CompleteTurn, DesktopMarks
      <3>2. e.active /\ \A a \in Actors : ~ShowsFinished(a, t)
        BY <3>1 DEF SeenRunning, ShowsFinished, IInv, ReqInv
      <3>3. codex'[t].at = codex[t].at + 1 /\ codex[t].at \in Nat
        BY <1>t, <2>0, <3>1 DEF CompleteTurn, TypeOK, Item
      <3>4. e.at # codex'[t].at
        BY <2>1, <3>3
      <3> QED BY <1>u, <3>2, <3>4 DEF Remembers, ShowsFinished
    <2> QED BY <2>3, <2>4
  <1>5. DesktopMarkKept'
    <2> SUFFICES ASSUME NEW t \in raised', NEW e \in Copies(t) PROVE e.unread \/ ~e.desktop
      BY <1>c DEF DesktopMarkKept
    <2>1. CASE t \in raised
      BY <2>1 DEF IInv, DesktopMarkKept
    <2>2. CASE t \notin raised
      BY <2>2 DEF Outer, StartTurn, CompleteTurn, DesktopMarks
    <2> QED BY <2>1, <2>2
  <1>6. FreshInv'
    BY <1>u DEF IInv, FreshInv, Busy, MarksRead
  <1> QED BY <1>0, <1>1, <1>2, <1>3, <1>4, <1>5, <1>6 DEF IInv

\* An operation begins: its request says what there is, and nothing is loaded yet.
LEMMA AskedInv ==
    ASSUME IInv, NEW a \in Actors, NEW r \in Req, r # NoReq, pc[a] = "idle",
           pc' = [pc EXCEPT ![a] = "asked"], req' = [req EXCEPT ![a] = r],
           r.kind = "list" => a \in Clients /\ \A t \in Threads : r.items[t] = codex[t] \/ r.items[t] = NotListed,
           r.kind = "set" => r.at >= 1 /\ r.at <= codex[r.thread].at,
           inbox' \in Seq(Threads), ops' \in [Clients -> 0..MaxOps],
           UNCHANGED <<codex, desktop, store, held, fresh, owed, raised, told>>
    PROVE  IInv'
  <1>t. TypeOK
    BY DEF IInv
  <1>0. pc \in [Actors -> {"idle", "asked", "loaded", "modified"}] /\ req \in [Actors -> Req]
    BY <1>t DEF TypeOK
  <1>1. TypeOK'
    BY <1>t DEF TypeOK
  <1>2. CodexInv' /\ EntryInv'
    BY DEF IInv, CodexInv, EntryInv, EntryOK
  <1>3. ReqInv'
    <2> SUFFICES ASSUME NEW b \in Actors
                 PROVE  /\ pc'[b] = "idle" <=> req'[b] = NoReq
                        /\ req'[b].kind = "list" => b \in Clients /\ \A t \in Threads : Shows(t, req'[b].items[t])
                        /\ req'[b].kind = "set" => req'[b].at >= 1 /\ req'[b].at <= codex[req'[b].thread].at
      BY DEF ReqInv, Shows
    <2>1. CASE b # a
      BY <1>0, <2>1 DEF IInv, ReqInv
    <2>2. CASE b = a
      <3>1. req'[b] = r /\ pc'[b] = "asked"
        BY <1>0, <2>2
      <3>2. r.kind = "list" => \A t \in Threads : Shows(t, r.items[t])
        BY <1>t DEF IInv, CodexInv, Shows, TypeOK, Item
      <3> QED BY <2>2, <3>1, <3>2
    <2> QED BY <2>1, <2>2
  <1>4. \A b \in Actors : (Busy(b)' <=> Busy(b)) /\ (Busy(b) => req'[b] = req[b])
    BY <1>0 DEF Busy
  <1>5. \A t : Copies(t)' = Copies(t)
    <2> SUFFICES ASSUME NEW t PROVE Copies(t)' = Copies(t)
      OBVIOUS
    <2>1. {b \in Actors : Busy(b) /\ ~MarksRead(b, t)}'
            = {b \in Actors : Busy(b) /\ ~MarksRead(b, t)}
      BY <1>4 DEF MarksRead
    <2> QED BY <2>1 DEF Copies
  <1>6. OwedInv'
    <2> SUFFICES ASSUME NEW t \in owed, NEW e \in Copies(t), ~e.unread PROVE Remembers(t, e)'
      BY <1>5 DEF OwedInv, Remembers
    <2>0. t \in Threads
      BY <1>t DEF TypeOK
    <2>1. /\ e.active
          /\ codex[t].running \/ e.at # codex[t].at
          /\ \A b \in Actors : ShowsFinished(b, t) => e.at # req[b].items[t].at
      BY DEF IInv, OwedInv, Remembers
    <2>2. ASSUME NEW b \in Actors, ShowsFinished(b, t)' PROVE e.at # req'[b].items[t].at
      <3>1. CASE b # a
        BY <1>0, <2>1, <2>2, <3>1 DEF ShowsFinished
      <3>2. CASE b = a
        <4>1. req'[b] = r
          BY <1>0, <3>2
        <4>2. r.items[t] = codex[t] /\ ~codex[t].running
          BY <2>0, <2>2, <4>1 DEF ShowsFinished
        <4> QED BY <2>1, <4>1, <4>2
      <3> QED BY <3>1, <3>2
    <2>3. \A b \in Actors : ShowsFinished(b, t)' => e.at # req'[b].items[t].at
      BY <2>2
    <2> QED BY <2>1, <2>3 DEF Remembers
  <1>7. DesktopMarkKept'
    BY <1>5 DEF IInv, DesktopMarkKept
  <1>8. FreshInv'
    BY <1>4 DEF IInv, FreshInv, MarksRead
  <1> QED BY <1>1, <1>2, <1>3, <1>6, <1>7, <1>8 DEF IInv

LEMMA BeginInv ==
    ASSUME IInv, Receive \/ \E c \in Clients : List(c) \/ Set(c)
    PROVE  IInv'
  <1>t. TypeOK
    BY DEF IInv
  <1>1. ASSUME Receive PROVE IInv'
    <2> DEFINE r == [kind |-> "complete", thread |-> Head(inbox)]
    <2>1. Head(inbox) \in Threads /\ Tail(inbox) \in Seq(Threads)
      BY <1>t, <1>1 DEF Receive, TypeOK
    <2>2. r \in Req /\ r # NoReq /\ r.kind = "complete"
      BY <2>1 DEF Req, NoReq
    <2>3. /\ pc[Reader] = "idle" /\ pc' = [pc EXCEPT ![Reader] = "asked"]
          /\ req' = [req EXCEPT ![Reader] = r]
          /\ inbox' = Tail(inbox)
          /\ UNCHANGED <<codex, desktop, store, held, ops, fresh, owed, raised, told>>
      BY <1>1 DEF Receive
    <2>4. ops' \in [Clients -> 0..MaxOps] /\ Reader \in Actors
      BY <1>t, <2>3 DEF TypeOK, Actors
    <2> HIDE DEF r
    <2> QED BY <2>1, <2>2, <2>3, <2>4, AskedInv
  <1>2. ASSUME NEW c \in Clients, NEW r \in Req, r # NoReq, Ask(c, r),
               r.kind = "list" =>
                  \A t \in Threads : r.items[t] = codex[t] \/ r.items[t] = NotListed,
               r.kind = "set" => r.at >= 1 /\ r.at <= codex[r.thread].at
        PROVE  IInv'
    <2>1. /\ pc[c] = "idle" /\ pc' = [pc EXCEPT ![c] = "asked"]
          /\ req' = [req EXCEPT ![c] = r]
          /\ ops[c] < MaxOps /\ ops' = [ops EXCEPT ![c] = @ + 1]
          /\ UNCHANGED <<codex, desktop, inbox, store, held, fresh, owed, raised, told>>
      BY <1>2 DEF Ask
    <2>2. ops[c] + 1 \in 0..MaxOps
      BY <1>t, <2>1 DEF TypeOK
    <2>3. ops' \in [Clients -> 0..MaxOps] /\ inbox' \in Seq(Threads) /\ c \in Actors
      BY <1>t, <2>1, <2>2 DEF TypeOK, Actors
    <2> QED BY <1>2, <2>1, <2>3, AskedInv
  <1>3. ASSUME NEW c \in Clients, List(c) PROVE IInv'
    <2>1. PICK S \in SUBSET Threads \ {{}} :
            Ask(c, [kind |-> "list",
                    items |-> [t \in Threads |-> IF t \in S THEN codex[t] ELSE NotListed]])
      BY <1>3 DEF List
    <2> DEFINE items == [t \in Threads |-> IF t \in S THEN codex[t] ELSE NotListed]
               r == [kind |-> "list", items |-> items]
    <2>2. \A t \in Threads : items[t] = codex[t] \/ items[t] = NotListed
      OBVIOUS
    <2>3. items \in [Threads -> Item]
      BY <1>t DEF TypeOK, Item, NotListed
    <2> HIDE DEF items
    <2>4. r \in Req /\ r # NoReq /\ r.kind = "list" /\ r.items = items
      BY <2>3 DEF Req, NoReq
    <2>5. Ask(c, r)
      BY <2>1 DEF items
    <2> HIDE DEF r
    <2> QED BY <1>2, <2>2, <2>4, <2>5
  <1>4. ASSUME NEW c \in Clients, Set(c) PROVE IInv'
    <2>1. PICK t \in Threads, u \in BOOLEAN : \E v \in 1..codex[t].at :
            Ask(c, [kind |-> "set", thread |-> t, unread |-> u, at |-> v])
      BY <1>4 DEF Set
    <2>2. PICK v \in 1..codex[t].at : Ask(c, [kind |-> "set", thread |-> t, unread |-> u, at |-> v])
      BY <2>1
    <2> DEFINE r == [kind |-> "set", thread |-> t, unread |-> u, at |-> v]
    <2>3. v \in 0..MaxVersion /\ v >= 1 /\ v <= codex[t].at
      BY <1>t, <2>2 DEF TypeOK, Item
    <2>4. r \in Req /\ r # NoReq /\ r.kind = "set" /\ r.thread = t /\ r.at = v
      BY <2>3 DEF Req, NoReq
    <2>5. Ask(c, r)
      BY <2>2
    <2> HIDE DEF r
    <2> QED BY <1>2, <2>3, <2>4, <2>5
  <1> QED BY <1>1, <1>3, <1>4

\* A loaded copy is the file's.
LEMMA LoadInv ==
    ASSUME IInv, NEW a \in Actors, Load(a)
    PROVE  IInv'
  <1>t. TypeOK
    BY DEF IInv
  <1>0. /\ pc[a] = "asked" /\ pc' = [pc EXCEPT ![a] = "loaded"]
        /\ held' = [held EXCEPT ![a] = store] /\ fresh' = [fresh EXCEPT ![a] = TRUE]
        /\ UNCHANGED <<outside, file, req, ops>>
    BY DEF Load
  <1>1. TypeOK'
    BY <1>t, <1>0 DEF TypeOK, outside, file
  <1>2. CodexInv'
    BY <1>0 DEF IInv, CodexInv, outside
  <1>3. ReqInv'
    BY <1>t, <1>0 DEF IInv, ReqInv, TypeOK, Shows, outside
  <1>h. \A b \in Actors : held'[b] = IF b = a THEN store ELSE held[b]
    BY <1>t, <1>0 DEF TypeOK
  <1>p. \A b \in Actors : b # a => (Busy(b)' <=> Busy(b))
    BY <1>t, <1>0 DEF TypeOK, Busy
  <1>4. EntryInv'
    BY <1>0, <1>h DEF IInv, EntryInv, EntryOK, outside, file
  <1>5. \A t : Copies(t)' \subseteq Copies(t)
    <2> SUFFICES ASSUME NEW t, NEW e \in Copies(t)' PROVE e \in Copies(t)
      OBVIOUS
    <2>1. e = store[t] \/ \E b \in Actors : Busy(b)' /\ ~MarksRead(b, t) /\ e = held'[b][t]
      BY <1>0 DEF Copies, MarksRead, file
    <2> QED BY <1>h, <1>p, <2>1, CopiesAre
  <1>6. OwedInv'
    BY <1>0, <1>5 DEF IInv, OwedInv, Remembers, ShowsFinished, outside, file
  <1>7. DesktopMarkKept'
    BY <1>0, <1>5 DEF IInv, DesktopMarkKept, file
  <1>8. FreshInv'
    <2>1. \A b \in Actors : b # a => fresh'[b] = fresh[b]
      BY <1>t, <1>0 DEF TypeOK
    <2> QED BY <1>0, <1>h, <1>p, <2>1 DEF IInv, FreshInv, MarksRead, file
  <1> QED BY <1>1, <1>2, <1>3, <1>4, <1>6, <1>7, <1>8 DEF IInv

\* What an operation may make of an entry.
Keeps(a, t, e, f) ==
    /\ EntryOK(t, f)
    /\ ~MarksRead(a, t) => /\ e.unread => f.unread
                           /\ Remembers(t, e) => Remembers(t, f)
                           /\ e.unread \/ ~e.desktop => f.unread \/ ~f.desktop

LEMMA ListedKeeps ==
    ASSUME IInv, NEW a \in Actors, NEW t \in Threads, NEW e \in Entry, EntryOK(t, e),
           req[a] \in Req, req[a].kind = "list", req[a].items[t] # NotListed,
           NEW f, f = Observe(e, req[a].items[t], t \in desktop)
    PROVE  Keeps(a, t, e, f)
  <1> DEFINE i == req[a].items[t]
             listed == t \in desktop
  <1>1. i \in Item
    BY DEF Req, NoReq
  <1>2. i.at >= 1 /\ i.at <= codex[t].at /\ (i.running <=> i.at % 2 = 0)
    BY DEF IInv, ReqInv, Shows
  <1>3. /\ f.unread = (e.unread \/ Raises(e, i, listed))
        /\ f.active = i.running /\ f.at = i.at /\ f.desktop = listed
    BY MadeOf
  <1> HIDE DEF listed
  <1>4. codex[t].at \in Nat /\ (codex[t].running <=> codex[t].at % 2 = 0)
    BY DEF IInv, TypeOK, CodexInv, Item
  <1>5. EntryOK(t, f)
    BY <1>1, <1>2, <1>3 DEF EntryOK, Item
  <1>6. e.unread => f.unread
    BY <1>3
  <1>7. e.unread \/ ~e.desktop => f.unread \/ ~f.desktop
    BY <1>3 DEF Raises
  <1>8. ASSUME Remembers(t, e) PROVE Remembers(t, f)
    <2>1. CASE e.unread
      BY <1>6, <2>1 DEF Remembers
    <2>2. CASE ~e.unread /\ i.running
      <3>1. codex[t].running \/ f.at # codex[t].at
        BY <1>2, <1>3, <1>4, <2>2
      <3>2. \A b \in Actors : ShowsFinished(b, t) => f.at # req[b].items[t].at
        BY <1>2, <1>3, <2>2 DEF ShowsFinished, IInv, ReqInv, Shows
      <3>3. f.active
        BY <1>3, <2>2
      <3> QED BY <3>1, <3>2, <3>3 DEF Remembers
    <2>3. CASE ~e.unread /\ ~i.running
      <3>1. e.active /\ e.at # i.at
        BY <1>8, <2>3 DEF Remembers, ShowsFinished
      <3>2. e.at # 0
        BY <3>1 DEF EntryOK
      <3> QED BY <1>3, <2>3, <3>1, <3>2 DEF Remembers, Raises
    <2> QED BY <2>1, <2>2, <2>3
  <1> QED BY <1>5, <1>6, <1>7, <1>8 DEF Keeps

LEMMA SetKeeps ==
    ASSUME IInv, NEW a \in Actors, NEW t \in Threads, NEW e \in Entry, EntryOK(t, e),
           req[a] \in Req, req[a].kind = "set", req[a].thread = t,
           NEW f, f = SetRead(e, req[a], t \in desktop)
    PROVE  Keeps(a, t, e, f)
  <1>1. req[a].at >= 1 /\ req[a].at <= codex[t].at /\ req[a].at \in Nat /\ req[a].unread \in BOOLEAN
    BY DEF IInv, ReqInv, Req, NoReq
  <1>2. f.unread = req[a].unread /\ f.active = e.active /\ f.at = req[a].at
    BY <1>1, MadeOf
  <1>3. ~MarksRead(a, t) => f.unread
    BY <1>2 DEF MarksRead
  <1> QED BY <1>1, <1>2, <1>3 DEF Keeps, EntryOK, Remembers

LEMMA ModifiedKeeps ==
    ASSUME IInv, NEW a \in Actors, pc[a] = "loaded"
    PROVE  /\ Modified(held[a], req[a]) \in [Threads -> Entry]
           /\ \A t \in Threads : Keeps(a, t, held[a][t], Modified(held[a], req[a])[t])
  <1>1. req[a] \in Req /\ req[a] # NoReq /\ held[a] \in [Threads -> Entry]
    BY DEF IInv, TypeOK, ReqInv
  <1> SUFFICES ASSUME NEW t \in Threads
               PROVE  /\ Modified(held[a], req[a]) \in [Threads -> Entry]
                      /\ Keeps(a, t, held[a][t], Modified(held[a], req[a])[t])
    BY <1>1, ModifiedEntry
  <1> DEFINE e == held[a][t]
             f == Modified(held[a], req[a])[t]
  <1>2. \/ f = e
        \/ f = MarkUnread(e)
        \/ req[a].kind = "set" /\ req[a].thread = t /\ f = SetRead(e, req[a], t \in desktop)
        \/ /\ req[a].kind = "list" /\ req[a].items[t] # NotListed
           /\ f = Observe(e, req[a].items[t], t \in desktop)
    BY <1>1, ModifiedEntry
  <1>3. e \in Entry /\ EntryOK(t, e)
    BY <1>1 DEF IInv, EntryInv
  <1>4. Modified(held[a], req[a]) \in [Threads -> Entry]
    BY <1>1, ModifiedEntry
  <1> HIDE DEF e, f
  <1>5. Keeps(a, t, e, f)
    <2>1. CASE f = e
      BY <1>3, <2>1 DEF Keeps
    <2>2. CASE f = MarkUnread(e)
      BY <1>3, <2>2, MadeOf DEF Keeps, EntryOK, Remembers
    <2>3. CASE req[a].kind = "set" /\ req[a].thread = t /\ f = SetRead(e, req[a], t \in desktop)
      BY <1>1, <1>3, <2>3, SetKeeps
    <2>4. CASE /\ req[a].kind = "list" /\ req[a].items[t] # NotListed
               /\ f = Observe(e, req[a].items[t], t \in desktop)
      BY <1>1, <1>3, <2>4, ListedKeeps
    <2> QED BY <1>2, <2>1, <2>2, <2>3, <2>4
  <1> QED BY <1>4, <1>5 DEF e, f

\* A step that makes of each copy what an operation may make of it.
LEMMA ModifyInv ==
    ASSUME IInv, NEW a \in Actors, Modify(a)
    PROVE  IInv'
  <1>t. TypeOK
    BY DEF IInv
  <1>0. /\ pc[a] = "loaded" /\ pc' = [pc EXCEPT ![a] = "modified"]
        /\ held' = [held EXCEPT ![a] = Modified(held[a], req[a])]
        /\ UNCHANGED <<outside, file, req, ops, fresh>>
    BY DEF Modify
  <1>h. \A b \in Actors : held'[b] = IF b = a THEN Modified(held[a], req[a]) ELSE held[b]
    BY <1>t, <1>0 DEF TypeOK
  <1>k. /\ held'[a] \in [Threads -> Entry]
        /\ \A t \in Threads : Keeps(a, t, held[a][t], held'[a][t])
    BY <1>0, <1>h, ModifiedKeeps
  <1>p. \A b \in Actors : (Busy(b)' <=> Busy(b)) /\ (MarksRead(b, 0)' <=> MarksRead(b, 0)) /\ Busy(a)
    BY <1>t, <1>0 DEF TypeOK, Busy, MarksRead
  <1>1. TypeOK'
    <2>1. held' \in [Actors -> [Threads -> Entry]]
      BY <1>t, <1>0, <1>h, <1>k DEF TypeOK
    <2>2. pc' \in [Actors -> {"idle", "asked", "loaded", "modified"}]
      BY <1>t, <1>0 DEF TypeOK
    <2> QED BY <1>t, <1>0, <2>1, <2>2 DEF TypeOK, outside, file
  <1>2. CodexInv'
    BY <1>0 DEF IInv, CodexInv, outside
  <1>3. ReqInv'
    BY <1>t, <1>0 DEF IInv, ReqInv, TypeOK, Shows, outside
  <1>4. EntryInv'
    BY <1>0, <1>h, <1>k DEF IInv, EntryInv, EntryOK, Keeps, outside, file
  <1>5. \A t : \A f \in Copies(t)' :
            f \in Copies(t) \/ (~MarksRead(a, t) /\ f = held'[a][t] /\ held[a][t] \in Copies(t))
    <2> SUFFICES ASSUME NEW t, NEW f \in Copies(t)'
                 PROVE  \/ f \in Copies(t)
                        \/ ~MarksRead(a, t) /\ f = held'[a][t] /\ held[a][t] \in Copies(t)
      OBVIOUS
    <2>1. f = store[t] \/ \E b \in Actors : Busy(b)' /\ ~MarksRead(b, t) /\ f = held'[b][t]
      BY <1>0 DEF Copies, MarksRead, file
    <2> QED BY <1>h, <1>p, <2>1, CopiesAre
  <1>6. OwedInv'
    <2> SUFFICES ASSUME NEW t \in owed, NEW f \in Copies(t)' PROVE Remembers(t, f)
      BY <1>0 DEF OwedInv, Remembers, ShowsFinished, outside, file
    <2>1. t \in Threads
      BY <1>t DEF TypeOK
    <2>2. CASE f \in Copies(t)
      BY <2>2 DEF IInv, OwedInv
    <2>3. CASE ~MarksRead(a, t) /\ f = held'[a][t] /\ held[a][t] \in Copies(t)
      BY <1>k, <2>1, <2>3 DEF IInv, OwedInv, Keeps
    <2> QED BY <1>5, <2>2, <2>3
  <1>7. DesktopMarkKept'
    <2> SUFFICES ASSUME NEW t \in raised, NEW f \in Copies(t)' PROVE f.unread \/ ~f.desktop
      BY <1>0 DEF DesktopMarkKept, file
    <2>1. t \in Threads
      BY <1>t DEF TypeOK
    <2>2. CASE f \in Copies(t)
      BY <2>2 DEF IInv, DesktopMarkKept
    <2>3. CASE ~MarksRead(a, t) /\ f = held'[a][t] /\ held[a][t] \in Copies(t)
      BY <1>k, <2>1, <2>3 DEF IInv, DesktopMarkKept, Keeps
    <2> QED BY <1>5, <2>2, <2>3
  <1>8. FreshInv'
    <2> SUFFICES ASSUME NEW b \in Actors, NEW t \in Threads,
                        fresh[b], Busy(b), ~MarksRead(b, t), store[t].unread
                 PROVE  held'[b][t].unread
      BY <1>0, <1>p DEF FreshInv, MarksRead, file
    <2>1. held[b][t].unread
      BY DEF IInv, FreshInv
    <2> QED BY <1>h, <1>k, <2>1 DEF Keeps
  <1> QED BY <1>1, <1>2, <1>3, <1>4, <1>6, <1>7, <1>8 DEF IInv

\* An operation ends: its copy becomes the file's or is given up.
LEMMA EndInv ==
    ASSUME IInv, NEW a \in Actors, Busy(a), Done(a), UNCHANGED <<outside, ops>>,
           told' \in [Threads -> Marks],
           \/ fresh' = [fresh EXCEPT ![a] = FALSE] /\ UNCHANGED <<store, owed, raised>>
           \/ /\ store' = held[a] /\ fresh' = [b \in Actors |-> FALSE]
              /\ owed' = {t \in owed : ~MarksRead(a, t)}
              /\ raised' = {t \in raised : ~MarksRead(a, t)}
    PROVE  IInv'
  <1>t. TypeOK
    BY DEF IInv
  <1> DEFINE empty == [t \in Threads |-> NoEntry]
  <1>0. /\ pc' = [pc EXCEPT ![a] = "idle"] /\ req' = [req EXCEPT ![a] = NoReq]
        /\ held' = [held EXCEPT ![a] = empty]
    BY DEF Done
  <1>n. empty \in [Threads -> Entry] /\ \A t \in Threads : EntryOK(t, empty[t])
    <2>1. NoEntry \in Entry /\ NoEntry.at = 0 /\ ~NoEntry.active
      BY DEF NoEntry, Entry
    <2>2. \A t \in Threads : codex[t].at \in Nat
      BY <1>t DEF TypeOK, Item
    <2> QED BY <2>1, <2>2 DEF EntryOK
  <1> HIDE DEF empty
  <1>h. \A b \in Actors : held'[b] = IF b = a THEN empty ELSE held[b]
    BY <1>t, <1>0 DEF TypeOK
  <1>r. /\ req'[a] = NoReq /\ pc'[a] = "idle"
        /\ \A b \in Actors : b # a => req'[b] = req[b] /\ pc'[b] = pc[b]
    BY <1>t, <1>0 DEF TypeOK
  <1>f. /\ fresh' \in [Actors -> BOOLEAN]
        /\ \A b \in Actors : fresh'[b] => b # a /\ fresh[b] /\ store' = store
    BY <1>t DEF TypeOK
  <1>p. Busy(a) /\ ~Busy(a)' /\ \A b \in Actors : b # a => (Busy(b)' <=> Busy(b))
    BY <1>r DEF Busy
  <1>1. TypeOK'
    <2>1. held' \in [Actors -> [Threads -> Entry]] /\ store' \in [Threads -> Entry]
      BY <1>t, <1>0, <1>n DEF TypeOK
    <2>2. /\ pc' \in [Actors -> {"idle", "asked", "loaded", "modified"}]
          /\ req' \in [Actors -> Req]
      BY <1>t, <1>0 DEF TypeOK, Req
    <2>3. owed' \in SUBSET Threads /\ raised' \in SUBSET Threads
      BY <1>t DEF TypeOK
    <2> QED BY <1>t, <1>f, <2>1, <2>2, <2>3 DEF TypeOK, outside
  <1>2. CodexInv'
    BY DEF IInv, CodexInv, outside
  <1>3. ReqInv'
    <2> SUFFICES ASSUME NEW b \in Actors
                 PROVE  /\ pc'[b] = "idle" <=> req'[b] = NoReq
                        /\ req'[b].kind = "list" => b \in Clients /\ \A t \in Threads : Shows(t, req'[b].items[t])
                        /\ req'[b].kind = "set" => req'[b].at >= 1 /\ req'[b].at <= codex[req'[b].thread].at
      BY DEF ReqInv, Shows, outside
    <2>1. NoReq.kind = "none"
      BY DEF NoReq
    <2> QED BY <1>r, <2>1 DEF IInv, ReqInv
  <1>4. EntryInv'
    <2> SUFFICES ASSUME NEW t \in Threads
                 PROVE  EntryOK(t, store'[t]) /\ \A b \in Actors : EntryOK(t, held'[b][t])
      BY DEF EntryInv, EntryOK, outside
    <2> QED BY <1>h, <1>n DEF IInv, EntryInv
  <1>5. \A t : (store' = store \/ ~MarksRead(a, t)) => Copies(t)' \subseteq Copies(t)
    <2> SUFFICES ASSUME NEW t, store' = store \/ ~MarksRead(a, t), NEW e \in Copies(t)'
                 PROVE  e \in Copies(t)
      OBVIOUS
    <2>1. e = store'[t] \/ \E b \in Actors : Busy(b)' /\ ~MarksRead(b, t)' /\ e = held'[b][t]
      BY DEF Copies
    <2>2. CASE e = store'[t]
      BY <1>p, <2>2, CopiesAre
    <2>3. CASE \E b \in Actors : Busy(b)' /\ ~MarksRead(b, t)' /\ e = held'[b][t]
      BY <1>h, <1>p, <1>r, <2>3, CopiesAre DEF MarksRead
    <2> QED BY <2>1, <2>2, <2>3
  <1>o. /\ \A t \in owed' : t \in owed /\ (store' = store \/ ~MarksRead(a, t))
        /\ \A t \in raised' : t \in raised /\ (store' = store \/ ~MarksRead(a, t))
    OBVIOUS
  <1>6. OwedInv'
    <2> SUFFICES ASSUME NEW t \in owed', NEW e \in Copies(t)' PROVE Remembers(t, e)'
      BY DEF OwedInv
    <2>1. Remembers(t, e)
      BY <1>5, <1>o DEF IInv, OwedInv
    <2>2. \A b \in Actors : ShowsFinished(b, t)' => ShowsFinished(b, t) /\ req'[b] = req[b]
      BY <1>r DEF ShowsFinished, NoReq
    <2> QED BY <2>1, <2>2 DEF Remembers, outside
  <1>7. DesktopMarkKept'
    BY <1>5, <1>o DEF IInv, DesktopMarkKept
  <1>8. FreshInv'
    BY <1>f, <1>h, <1>p, <1>r DEF IInv, FreshInv, MarksRead
  <1> QED BY <1>1, <1>2, <1>3, <1>4, <1>6, <1>7, <1>8 DEF IInv

LEMMA SaveInv ==
    ASSUME IInv, NEW a \in Actors, Save(a)
    PROVE  IInv'
  <1>t. told \in [Threads -> Marks] /\ req[a] \in Req /\ (pc[a] = "idle" <=> req[a] = NoReq)
    BY DEF IInv, TypeOK, ReqInv
  <1>1. pc[a] = "modified" /\ Done(a) /\ UNCHANGED <<outside, ops>>
    BY DEF Save
  <1>2. /\ store' = held[a] /\ fresh' = [b \in Actors |-> FALSE]
        /\ owed' = {t \in owed : ~MarksRead(a, t)} /\ raised' = {t \in raised : ~MarksRead(a, t)}
    BY DEF Save
  <1>3. told' \in [Threads -> Marks]
    <2>1. ASSUME req[a].kind = "list" PROVE told' = told
      BY <2>1, Zenon DEF Save
    <2>2. ASSUME req[a].kind = "complete" PROVE told' = [told EXCEPT ![req[a].thread] = "nothing"]
      BY <2>2, Zenon DEF Save
    <2>3. ASSUME req[a].kind = "set"
          PROVE  told' = [told EXCEPT ![req[a].thread] = IF req[a].unread THEN "unread" ELSE "read"]
      BY <2>3, Zenon DEF Save
    <2>4. req[a].kind \in {"complete", "set", "list"}
      BY <1>1, <1>t DEF Req, NoReq
    <2> QED BY <1>t, <2>1, <2>2, <2>3, <2>4 DEF Marks
  <1>4. Busy(a)
    BY <1>1 DEF Busy
  <1> QED BY <1>1, <1>2, <1>3, <1>4, EndInv

LEMMA FailInv ==
    ASSUME IInv, NEW a \in Actors, Fail(a)
    PROVE  IInv'
  <1>1. /\ Busy(a) /\ Done(a) /\ UNCHANGED <<outside, ops>>
        /\ fresh' = [fresh EXCEPT ![a] = FALSE] /\ UNCHANGED <<store, owed, raised>>
        /\ told' = told
    BY DEF Fail, file, Busy
  <1>2. told' \in [Threads -> Marks]
    BY <1>1 DEF IInv, TypeOK
  <1> QED BY <1>1, <1>2, EndInv

LEMMA SkipInv ==
    ASSUME IInv, NEW a \in Actors, Skip(a)
    PROVE  IInv'
  <1>1. /\ Busy(a) /\ Done(a) /\ UNCHANGED <<outside, ops>>
        /\ fresh' = [fresh EXCEPT ![a] = FALSE] /\ UNCHANGED <<store, owed, raised>>
        /\ told' = told
    BY DEF Skip, file, Busy
  <1>2. told' \in [Threads -> Marks]
    BY <1>1 DEF IInv, TypeOK
  <1> QED BY <1>1, <1>2, EndInv

LEMMA NextInv == IInv /\ [Next]_vars => IInv'
  <1> SUFFICES ASSUME IInv, [Next]_vars PROVE IInv'
    OBVIOUS
  <1>1. ASSUME UNCHANGED vars PROVE IInv'
    BY <1>1 DEF vars, IInv, TypeOK, CodexInv, ReqInv, Shows, EntryInv, EntryOK, OwedInv, Remembers,
          ShowsFinished, DesktopMarkKept, FreshInv, Copies, Busy, MarksRead
  <1>2. ASSUME NEW a \in Actors, Load(a) \/ Modify(a) \/ Skip(a) \/ Save(a) \/ Fail(a) PROVE IInv'
    BY <1>2, LoadInv, ModifyInv, SkipInv, SaveInv, FailInv
  <1> QED BY <1>1, <1>2, OuterInv, BeginInv DEF Next, Outer, Finished

-----------------------------------------------------------------------------
(* The theorems.                                                           *)

\* The invariants above hold in every state that the operations reach.
THEOREM Invariance == Spec => []IInv
  BY InitInv, NextInv, PTL DEF Spec

\* The variables keep their types: the file and every copy of it hold an entry of a revision
\* that there is (ThreadReadStore).
THEOREM TypeCorrect == Spec => []TypeOK
  <1>1. IInv => TypeOK
    BY DEF IInv
  <1> QED BY <1>1, Invariance, PTL

\* A turn that every copy showed running when it completed is not forgotten, although no lock
\* spans load_store and save_store.
THEOREM TurnsAreKept == Spec => []SeenTurnKept
  <1>1. IInv => SeenTurnKept
    BY DEF IInv, OwedInv, Remembers, SeenTurnKept
  <1> QED BY <1>1, Invariance, PTL

\* Nor is a desktop mark that is seen for the first time (enrich_thread_list).
THEOREM DesktopMarksAreKept == Spec => []DesktopMarkKept
  <1>1. IInv => DesktopMarkKept
    BY DEF IInv
  <1> QED BY <1>1, Invariance, PTL

\* An unread mark falls only by a client's request or by the save of an operation that was
\* overtaken (save_store).
THEOREM MarksFall == Spec => FallsByRequestOrOverlap
  <1> DEFINE Allowed == \A t \in Threads : store[t].unread /\ ~store'[t].unread =>
                \E a \in Actors : pc[a] = "modified" /\ pc'[a] = "idle" /\ (MarksRead(a, t) \/ ~fresh[a])
  <1>1. IInv /\ [Next]_vars => [Allowed]_vars
    <2> SUFFICES ASSUME IInv, [Next]_vars, NEW t \in Threads, store[t].unread, ~store'[t].unread
                 PROVE  \E a \in Actors : /\ pc[a] = "modified" /\ pc'[a] = "idle"
                                          /\ MarksRead(a, t) \/ ~fresh[a]
      BY DEF Allowed
    <2>1. store' # store
      OBVIOUS
    <2>2. PICK a \in Actors : Save(a)
      BY <2>1 DEF Next, StartTurn, CompleteTurn, DesktopMarks, List, Set, Ask, Receive, Load, Modify,
            Skip, Fail, Finished, vars, file
    <2>3. pc[a] = "modified" /\ pc' = [pc EXCEPT ![a] = "idle"] /\ store' = held[a]
      BY <2>2 DEF Save, Done
    <2>4. pc'[a] = "idle"
      BY <2>3 DEF IInv, TypeOK
    <2>5. fresh[a] => MarksRead(a, t)
      BY <2>3 DEF IInv, FreshInv, Busy
    <2> QED BY <2>3, <2>4, <2>5
  <1> QED BY <1>1, Invariance, PTL DEF Spec, FallsByRequestOrOverlap
============================================================================
