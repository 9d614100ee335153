-------------------------- MODULE ThreadReadState --------------------------
(***************************************************************************)
(* The unread marks of src/thread_state.rs: one JSON file that the stdout  *)
(* reader and the HTTP threads load, modify and save with no lock between  *)
(* the load and the save.                                                  *)
(*                                                                         *)
(* The file is a total function, since a missing entry (or file) and       *)
(* ThreadReadEntry::default() lead to the same entry everywhere.  The      *)
(* status of the latest turn is taken to follow the runtime status, as it  *)
(* does for the items of thread/list, which carry no turns.  The module    *)
(* models the Unix build, where the rename replaces the file at once; what *)
(* the Windows branch does is SaveInPlace.  Codex and its desktop          *)
(* application are external.                                               *)
(***************************************************************************)
EXTENDS Naturals, Sequences

CONSTANTS Threads, Clients, Reader,
          MaxVersion, MaxOps    \* bounds: revisions of a thread, operations of a client

ASSUME ReadStateAssumption == /\ Reader \notin Clients
                              /\ MaxVersion \in Nat \ {0} /\ MaxOps \in Nat

VARIABLES
    codex,    \* codex[t]: revision (updatedAt) of thread t, and whether a turn runs
    desktop,  \* the threads the desktop application lists as unread
    inbox,    \* completions the reader has not handled
    store,    \* the file
    pc,       \* where an actor stands in its operation
    req,      \* what the operation was asked, or was told by Codex
    held,     \* the store as the operation loaded and modified it
    ops,      \* operations a client has begun
    fresh,    \* nobody saved since the actor loaded
    owed,     \* threads whose turn completed when SeenRunning
    raised,   \* desktop marks that no copy of the store knew of
    told      \* the mark a client was last told to be persisted

file == <<store, owed, raised, told>>
outside == <<codex, desktop, inbox>>
vars == <<codex, desktop, inbox, store, pc, req, held, ops, fresh, owed, raised, told>>

Actors == Clients \cup {Reader}
Entry == [unread : BOOLEAN, at : 0..MaxVersion, active : BOOLEAN, desktop : BOOLEAN]
NoEntry == [unread |-> FALSE, at |-> 0, active |-> FALSE, desktop |-> FALSE]
Item == [at : 0..MaxVersion, running : BOOLEAN]
NotListed == [at |-> 0, running |-> FALSE]
NoReq == [kind |-> "none"]
Req == {NoReq} \cup [kind : {"complete"}, thread : Threads]
       \cup [kind : {"set"}, thread : Threads, unread : BOOLEAN, at : 0..MaxVersion]
       \cup [kind : {"list"}, items : [Threads -> Item]]

\* The copies of the entry of t that may still be (or are) the file's.
Busy(a) == pc[a] \in {"loaded", "modified"}
MarksRead(a, t) == req[a].kind = "set" /\ req[a].thread = t /\ ~req[a].unread
Copies(t) == {store[t]} \cup {held[a][t] : a \in {b \in Actors : Busy(b) /\ ~MarksRead(b, t)}}

\* Every copy, and every listing under way that has t, says that t runs.
SeenRunning(t) ==
    /\ \A e \in Copies(t) : e.active
    /\ \A c \in Clients : req[c].kind = "list" =>
          req[c].items[t] = NotListed \/ req[c].items[t].running

Init == /\ codex = [t \in Threads |-> [at |-> 1, running |-> FALSE]]
        /\ desktop = {} /\ inbox = <<>>
        /\ store = [t \in Threads |-> NoEntry]
        /\ pc = [a \in Actors |-> "idle"]
        /\ req = [a \in Actors |-> NoReq]
        /\ held = [a \in Actors |-> store]
        /\ ops = [c \in Clients |-> 0]
        /\ fresh = [a \in Actors |-> FALSE]
        /\ owed = {} /\ raised = {}
        /\ told = [t \in Threads |-> "nothing"]

----------------------------------------------------------------------------
(* Codex (external) *)

StartTurn(t) ==
    /\ ~codex[t].running /\ codex[t].at + 2 <= MaxVersion
    /\ codex' = [codex EXCEPT ![t] = [at |-> @.at + 1, running |-> TRUE]]
    /\ UNCHANGED <<desktop, inbox, store, pc, req, held, ops, fresh, owed, raised, told>>

CompleteTurn(t) ==
    /\ codex[t].running
    /\ codex' = [codex EXCEPT ![t] = [at |-> @.at + 1, running |-> FALSE]]
    /\ inbox' = Append(inbox, t)
    /\ owed' = IF SeenRunning(t) THEN owed \cup {t} ELSE owed
    /\ told' = [told EXCEPT ![t] = "nothing"]
    /\ UNCHANGED <<desktop, store, pc, req, held, ops, fresh, raised>>

\* The desktop application lists t as unread, once per behaviour.
DesktopMarks(t) ==
    /\ desktop = {}
    /\ desktop' = {t}
    /\ raised' = IF \A e \in Copies(t) : ~e.desktop THEN raised \cup {t} ELSE raised
    /\ told' = [told EXCEPT ![t] = "nothing"]
    /\ UNCHANGED <<codex, inbox, store, pc, req, held, ops, fresh, owed>>

----------------------------------------------------------------------------
(* What an operation makes of the store it loaded *)

\* What makes a listed thread unread: it finished at a new revision, or the
\* desktop application began to list it.
Raises(e, item, listed) ==
    \/ e.at # 0 /\ e.at # item.at /\ e.active /\ ~item.running
    \/ ~e.desktop /\ listed

Observed(unread, item, listed) ==
    [unread |-> unread, at |-> item.at, active |-> item.running, desktop |-> listed]

\* Variant: the mark follows the item, whatever it was.
ObserveAnew(e, item, listed) == Observed(Raises(e, item, listed), item, listed)

\* Variant: an entry made by a listing starts as read.
ObserveRead(e, item, listed) ==
    Observed(e.unread \/ (e # NoEntry /\ Raises(e, item, listed)), item, listed)

\* enrich_thread_list, for one item.
Observe(e, item, listed) == Observed(e.unread \/ Raises(e, item, listed), item, listed)

\* Variant: the mark counts as a revision.
MarkUnreadNow(e) == [e EXCEPT !.unread = TRUE, !.at = @ + 1]

MarkUnread(e) == [e EXCEPT !.unread = TRUE]

\* set_thread_read_state, for the entry.
SetRead(e, r, listed) ==
    [e EXCEPT !.unread = r.unread, !.at = IF r.at # 0 THEN r.at ELSE @, !.desktop = listed]

Modified(s, r) ==
    CASE r.kind = "complete" -> [s EXCEPT ![r.thread] = MarkUnread(@)]
      [] r.kind = "set" -> [s EXCEPT ![r.thread] = SetRead(@, r, r.thread \in desktop)]
      [] r.kind = "list" -> [t \in Threads |-> IF r.items[t] = NotListed
                                THEN s[t] ELSE Observe(s[t], r.items[t], t \in desktop)]

----------------------------------------------------------------------------
(* The operations *)

Ask(c, r) ==
    /\ pc[c] = "idle" /\ ops[c] < MaxOps
    /\ ops' = [ops EXCEPT ![c] = @ + 1]
    /\ pc' = [pc EXCEPT ![c] = "asked"]
    /\ req' = [req EXCEPT ![c] = r]
    /\ UNCHANGED <<codex, desktop, inbox, store, held, fresh, owed, raised, told>>

\* list_threads: Codex answers with a page of threads before the file is read.
List(c) == \E S \in SUBSET Threads \ {{}} :
    Ask(c, [kind |-> "list", items |-> [t \in Threads |-> IF t \in S THEN codex[t] ELSE NotListed]])

\* setThreadReadState: the client names the revision it saw, or the
\* current one is read from Codex.
Set(c) == \E t \in Threads, u \in BOOLEAN : \E v \in 1..codex[t].at :
    Ask(c, [kind |-> "set", thread |-> t, unread |-> u, at |-> v])

\* EventStore::push of turn/completed, in the reader.
Receive ==
    /\ pc[Reader] = "idle" /\ inbox # <<>>
    /\ inbox' = Tail(inbox)
    /\ pc' = [pc EXCEPT ![Reader] = "asked"]
    /\ req' = [req EXCEPT ![Reader] = [kind |-> "complete", thread |-> Head(inbox)]]
    /\ UNCHANGED <<codex, desktop, store, held, ops, fresh, owed, raised, told>>

Load(a) ==
    /\ pc[a] = "asked"
    /\ pc' = [pc EXCEPT ![a] = "loaded"]
    /\ held' = [held EXCEPT ![a] = store]
    /\ fresh' = [fresh EXCEPT ![a] = TRUE]
    /\ UNCHANGED <<outside, file, req, ops>>

\* A listing that observed nothing new.
NothingNew(a) == req[a].kind = "list" /\ Modified(held[a], req[a]) = held[a]

\* The list of the desktop application is read after the store.
Modify(a) ==
    /\ pc[a] = "loaded" /\ ~NothingNew(a)
    /\ pc' = [pc EXCEPT ![a] = "modified"]
    /\ held' = [held EXCEPT ![a] = Modified(@, req[a])]
    /\ UNCHANGED <<outside, file, req, ops, fresh>>

Done(a) == /\ pc' = [pc EXCEPT ![a] = "idle"]
           /\ req' = [req EXCEPT ![a] = NoReq]
           /\ held' = [held EXCEPT ![a] = [t \in Threads |-> NoEntry]]

\* Only what changed is saved.
Skip(a) ==
    /\ pc[a] = "loaded" /\ NothingNew(a)
    /\ Done(a)
    /\ fresh' = [fresh EXCEPT ![a] = FALSE]
    /\ UNCHANGED <<outside, file, ops>>

\* Variant, the Windows branch: the file is removed before the rename.
SaveInPlace(a) ==
    /\ pc[a] = "modified"
    /\ \/ /\ store' = [t \in Threads |-> NoEntry]
          /\ UNCHANGED <<pc, req, held, owed, raised, fresh, told>>
       \/ /\ store' = held[a]
          /\ Done(a)
          /\ owed' = {t \in owed : ~MarksRead(a, t)}
          /\ raised' = {t \in raised : ~MarksRead(a, t)}
          /\ fresh' = [b \in Actors |-> FALSE]
          /\ UNCHANGED told
    /\ UNCHANGED <<outside, ops>>

\* save_store: the rename replaces the file.
Save(a) ==
    /\ pc[a] = "modified"
    /\ Done(a)
    /\ store' = held[a]
    /\ fresh' = [b \in Actors |-> FALSE]
    /\ owed' = {t \in owed : ~MarksRead(a, t)}
    /\ raised' = {t \in raised : ~MarksRead(a, t)}
    /\ told' = CASE req[a].kind = "list" -> told
                 [] req[a].kind = "complete" -> [told EXCEPT ![req[a].thread] = "nothing"]
                 [] req[a].kind = "set" ->
                      [told EXCEPT ![req[a].thread] = IF req[a].unread THEN "unread" ELSE "read"]
    /\ UNCHANGED <<outside, ops>>

\* A file that cannot be written: the operation is given up.
Fail(a) ==
    /\ pc[a] = "modified"
    /\ Done(a)
    /\ fresh' = [fresh EXCEPT ![a] = FALSE]
    /\ UNCHANGED <<outside, file, ops>>

\* Used up: no client calls any more and nothing runs.
Finished == /\ \A c \in Clients : ops[c] = MaxOps
            /\ \A a \in Actors : pc[a] = "idle"
            /\ inbox = <<>> /\ desktop # {}
            /\ \A t \in Threads : ~codex[t].running /\ codex[t].at + 2 > MaxVersion
            /\ UNCHANGED vars

Next == \/ \E t \in Threads : StartTurn(t) \/ CompleteTurn(t) \/ DesktopMarks(t)
        \/ \E c \in Clients : List(c) \/ Set(c)
        \/ Receive
        \/ \E a \in Actors : Load(a) \/ Modify(a) \/ Skip(a) \/ Save(a) \/ Fail(a)
        \/ Finished

Spec == Init /\ [][Next]_vars

----------------------------------------------------------------------------
Marks == {"nothing", "read", "unread"}

TypeOK ==
    /\ codex \in [Threads -> Item]
    /\ desktop \in SUBSET Threads /\ inbox \in Seq(Threads)
    /\ store \in [Threads -> Entry]
    /\ pc \in [Actors -> {"idle", "asked", "loaded", "modified"}]
    /\ req \in [Actors -> Req]
    /\ held \in [Actors -> [Threads -> Entry]]
    /\ ops \in [Clients -> 0..MaxOps]
    /\ fresh \in [Actors -> BOOLEAN]
    /\ owed \in SUBSET Threads /\ raised \in SUBSET Threads
    /\ told \in [Threads -> Marks]

\* A turn that the file, and every copy of it under way, showed running when
\* it completed is not forgotten, whatever operations overlap or fail:
\* until a client marks the thread as read, every copy of its entry is unread
\* or still says that an older revision was running, so that the next listing
\* of the finished thread marks it.
SeenTurnKept == \A t \in owed : \A e \in Copies(t) :
    \/ e.unread
    \/ e.active /\ (e.at # codex[t].at \/ codex[t].running)

\* The same for a mark of the desktop application that is seen for the first
\* time: every copy is unread or has not seen the mark.
DesktopMarkKept == \A t \in raised : \A e \in Copies(t) : e.unread \/ ~e.desktop

\* An unread mark falls only because a client asked for it, or because the
\* operation that saves had loaded the file before another one saved.
FallsByRequestOrOverlap == [][\A t \in Threads : store[t].unread /\ ~store'[t].unread =>
    \E a \in Actors : pc[a] = "modified" /\ pc'[a] = "idle" /\ (MarksRead(a, t) \/ ~fresh[a])]_vars

\* connector.json:753: setThreadReadState marks a thread as read or unread and
\* persists it.  A mark that a client was told to be persisted is in the file
\* when nothing is under way and nothing happened to the thread since.
PersistedMarkKept == (\A a \in Actors : pc[a] = "idle") => \A t \in Threads :
    told[t] # "nothing" => store[t].unread = (told[t] = "unread")
============================================================================
