------------------------------ MODULE Listings ------------------------------
(***************************************************************************)
(* The listings of src/invoke.rs: listThreads and searchThreads            *)
(* (request_unique_threads) and listProjects (read_thread_projects) page   *)
(* through thread/list of Codex and merge the copies of one thread, while  *)
(* threads are used and move in the order of the list.                     *)
(*                                                                         *)
(* Codex (external) lists copies of threads by falling position; its       *)
(* cursor is the position of the last item.  If it is not orderly, it may  *)
(* answer any items with any cursor, as far as the connector can tell.  A  *)
(* copy may lack its id, its directory and its dates, and the copies of a  *)
(* thread need not agree.  A client walks a listing by asking again with   *)
(* the cursor of the answer.                                               *)
(***************************************************************************)
EXTENDS ProjectIndex

CONSTANTS Ids,              \* threads
          NoId,             \* what a record without an id has for one
          Worlds,           \* [copies, global, orderly]: initial lists and states
          Limits,           \* limits a client may ask for; 0 is none
          PageSize,         \* items of a page when no limit is asked for
          MaxAt,            \* bound: positions in the list
          MaxListPages,     \* MAX_THREAD_LIST_PAGES
          MaxProjectPages   \* maxThreadPages

ASSUME ListingsAssumption ==
    /\ Limits \subseteq Nat /\ MaxAt \in Nat
    /\ {PageSize, MaxListPages, MaxProjectPages} \subseteq Nat \ {0}

VARIABLES copies,   \* what Codex lists
          global,   \* .codex-global-state.json and config.toml
          orderly,  \* whether the cursors of Codex are
          touched,  \* threads that moved in the list
          call,     \* the listing under way, or the last one
          walk      \* the client's walk through the list of threads

vars == <<copies, global, orderly, touched, call, walk>>

NoPath == 0
Top == MaxAt + 1   \* no cursor: from the first item
End == 0           \* nextCursor null
Cursors == 0..Top
Copy == [id : Ids \cup {NoId}, at : 1..MaxAt, live : BOOLEAN, path : Paths \cup {NoPath},
         recency : Values, updated : Values]

\* Codex lists copies of the threads, each once; the positions of an orderly list tell its
\* items apart.
ASSUME WorldsAssumption == \A w \in Worlds :
    /\ w.copies \subseteq Copy /\ IsFiniteSet(w.copies) /\ w.orderly \in BOOLEAN /\ w.global \in Global
    /\ w.orderly => \A c, d \in w.copies : c.at = d.at => c = d

Idle == [kind |-> "none", pc |-> "idle", limit |-> 0, cursor |-> Top, next |-> End, pages |-> 0,
         visited |-> {}, threads |-> <<>>, received |-> {}]

\* What a page asks for: the connector asks for what is missing to the limit.
Asked == IF call.limit = 0 THEN PageSize ELSE call.limit - Len(call.threads)

TypeOK ==
    /\ copies \subseteq Copy /\ orderly \in BOOLEAN /\ touched \subseteq Ids \cup {NoId}
    /\ call.kind \in {"none", "threads", "projects"} /\ call.pc \in {"idle", "paging", "done", "failed"}
    /\ call.limit \in Limits \cup {0} /\ call.cursor \in Cursors /\ call.next \in Cursors
    /\ call.pages \in 0..(MaxListPages + MaxProjectPages) /\ call.visited \subseteq Cursors
    /\ ToSet(call.threads) \subseteq Copy /\ call.received \subseteq Copy
    /\ walk \in [cursor : Cursors, got : SUBSET (Ids \cup {NoId}), on : BOOLEAN]
    /\ call.pc = "paging" => Asked \in Nat \ {0}

Init ==
    /\ \E w \in Worlds : copies = w.copies /\ global = w.global /\ orderly = w.orderly
    /\ touched = {} /\ call = Idle /\ walk = [cursor |-> Top, got |-> {}, on |-> TRUE]

-----------------------------------------------------------------------------
(* Merging the copies of a thread.                                         *)

\* compare_thread_recency: dates of one type are compared, one that is there is after one
\* that is not, and all others are equal.
After(v, w) ==
    \/ v.type = w.type /\ v.type \in {"number", "text"} /\ v.n > w.n
    \/ v.type # "absent" /\ w.type = "absent"
\* Variant: recency alone decides.
BetterRecent(c, d) == After(Timestamp(c), Timestamp(d))
\* A live copy before one that is not loaded, then the more recent one.
Better(c, d) ==
    \/ c.live /\ ~d.live
    \/ c.live = d.live /\ After(Timestamp(c), Timestamp(d))

\* value_is_missing, for a value and for a directory.
Gaps == {v \in Values : v.type \in {"absent", "null"} \/ v = Text(0)}
Fill(v, w, gaps) == IF v \in gaps /\ w \notin gaps THEN w ELSE v
\* What the preferred copy lacks is taken from the other one, dates included; whether it is
\* live cannot change, since of two copies a live one is preferred and says so by its status
\* (runtimeStatusAvailability is written after the merge, thread_state.rs:120).
Filled(c, d) ==
    [c EXCEPT !.path = Fill(@, d.path, {NoPath}),
              !.recency = Fill(@, d.recency, Gaps), !.updated = Fill(@, d.updated, Gaps)]
MergeCopies(old, new) == IF Better(new, old) THEN Filled(new, old) ELSE Filled(old, new)
\* A record without an id is appended as it is.
MergeThread(threads, c) ==
    IF c.id # NoId /\ \E i \in DOMAIN threads : threads[i].id = c.id
    THEN [i \in DOMAIN threads |-> IF threads[i].id = c.id THEN MergeCopies(threads[i], c) ELSE threads[i]]
    ELSE Append(threads, c)
MergeThreads(threads, page) == FoldLeft(MergeThread, threads, page)

-----------------------------------------------------------------------------
(* What Codex answers.                                                     *)

Sorted(S) == InOrder(S, LAMBDA c, d : c.at > d.at)
\* The items of an orderly page: the next n of the list.
NextPage(cursor, n) ==
    LET rest == Sorted({c \in copies : c.at < cursor})
        items == SubSeq(rest, 1, Min({n, Len(rest)}))
    IN  [items |-> items, next |-> IF Len(rest) <= n THEN End ELSE Last(items).at]
Answers(cursor, n) ==
    IF orderly
    THEN {NextPage(cursor, n)}
    ELSE [items : {Sorted(S) : S \in {T \in SUBSET copies : Cardinality(T) <= 1}}, next : 0..MaxAt]

Moved(v, at) == IF v.type \in {"number", "text"} THEN Value(v.type, at) ELSE v
\* A thread is used: one of its copies becomes the first item, with new dates where it has any.
Touch(c) ==
    LET at == Max({d.at : d \in copies}) + 1 IN
    /\ at <= MaxAt
    /\ copies' = (copies \ {c}) \cup {[c EXCEPT !.at = at, !.recency = Moved(@, at),
                                                !.updated = Moved(@, at)]}
    /\ touched' = touched \cup {c.id}
    /\ UNCHANGED <<global, orderly, call, walk>>

-----------------------------------------------------------------------------
(* The connector.                                                          *)

\* A client asks for threads from the cursor it was given; it keeps no limit between calls.
ListThreads(limit) ==
    /\ call.pc # "paging" /\ walk.on
    /\ call' = [Idle EXCEPT !.kind = "threads", !.pc = "paging", !.limit = limit, !.cursor = walk.cursor,
                            !.visited = IF walk.cursor = Top THEN {} ELSE {walk.cursor}]
    /\ UNCHANGED <<copies, global, orderly, touched, walk>>

ListProjects ==
    /\ call.pc # "paging"
    /\ call' = [Idle EXCEPT !.kind = "projects", !.pc = "paging"]
    /\ UNCHANGED <<copies, global, orderly, touched, walk>>

\* Variant: the limit does not end the loop.
ThreadsEndLate(threads, page) ==
    call.limit = 0 \/ page.next = End \/ page.items = <<>> \/ page.next \in call.visited
\* The loop of request_unique_threads ends at this page ...
ThreadsEnd(threads, page) ==
    \/ call.limit = 0 \/ Len(threads) >= call.limit
    \/ page.next = End \/ page.items = <<>>
    \/ page.next \in call.visited
    \/ call.pages + 1 = MaxListPages
\* Variant: only what Codex answers ends the loop.
ProjectsEndUnbounded(page) == page.next = End \/ page.items = <<>>
\* ... and that of read_thread_projects, which does not remember cursors.
ProjectsEnd(page) == page.next = End \/ page.items = <<>> \/ call.pages + 1 = MaxProjectPages

\* The pages that a listing may ask for; no count goes beyond.
MaxPages == IF call.kind = "threads" THEN MaxListPages ELSE MaxProjectPages

AfterPage(page) ==
    LET threads == MergeThreads(call.threads, page.items)
        ends == IF call.kind = "threads" THEN ThreadsEnd(threads, page) ELSE ProjectsEnd(page)
    IN  [call EXCEPT !.threads = threads, !.received = @ \cup ToSet(page.items),
                     !.next = page.next, !.cursor = page.next, !.visited = @ \cup {page.next},
                     !.pages = IF @ >= MaxPages THEN @ ELSE @ + 1,
                     !.pc = IF ends THEN "done" ELSE "paging"]

\* The client of listThreads takes the answer and the cursor to go on with.
Walked(c) ==
    IF c.kind = "threads" /\ c.pc = "done"
    THEN [cursor |-> IF c.next = End THEN walk.cursor ELSE c.next,
          got |-> walk.got \cup {t.id : t \in ToSet(c.threads)}, on |-> c.next # End]
    ELSE walk

Page ==
    /\ call.pc = "paging"
    /\ \E page \in Answers(call.cursor, Asked) :
          call' = AfterPage(page) /\ walk' = Walked(AfterPage(page))
    /\ UNCHANGED <<copies, global, orderly, touched>>

\* Variant: a request that fails counts as an empty page.
PageFailsEmpty ==
    /\ call.pc = "paging"
    /\ call' = [call EXCEPT !.pc = "done"] /\ walk' = Walked([call EXCEPT !.pc = "done"])
    /\ UNCHANGED <<copies, global, orderly, touched>>
\* The request fails or times out: so does the listing, and the client may ask again.
PageFails ==
    /\ call.pc = "paging"
    /\ call' = [call EXCEPT !.pc = "failed"]
    /\ UNCHANGED <<copies, global, orderly, touched, walk>>

Next ==
    \/ \E c \in copies : Touch(c)
    \/ \E limit \in Limits : ListThreads(limit)
    \/ ListProjects
    \/ Page
    \/ PageFails

\* Every request of a listing is answered, times out or fails: its write is taken not to
\* block for ever (RpcSession, ServersRead).
Spec == Init /\ [][Next]_vars /\ WF_vars(Page \/ PageFails)

-----------------------------------------------------------------------------
(* Correctness.                                                            *)

\* A client that follows nextCursor to its end was given every thread that Codex lists and
\* nobody used meanwhile, whatever limits it asked with and whichever calls failed: no cursor
\* of an answer lies behind a thread that was not in it (request_unique_threads).
NothingSkipped == orderly /\ ~walk.on => {c.id : c \in copies} \ touched \subseteq walk.got

\* The dates of all the copies are of one kind: they have a recency of one type, or none has
\* a recency and their other dates are of one type.
OneType(values) == \E type \in {"number", "text"} : \A v \in values : v.type = type /\ v \notin Gaps
DatedAlike(all) ==
    \/ OneType({c.recency : c \in all})
    \/ (\A c \in all : c.recency = Absent) /\ OneType({c.updated : c \in all})

\* A field of a merged record is that of the copy it is mostly from, and what this copy lacks
\* is another's if any copy has it.
FieldOf(v, own, values, gaps) ==
    /\ v \in values
    /\ own \notin gaps => v = own
    /\ v \in gaps => values \subseteq gaps

\* Record t is made of all these copies of a thread.
MadeOf(t, all) ==
    /\ t.live <=> \E c \in all : c.live
    /\ \E own \in all :
          /\ own.live = t.live
          /\ FieldOf(t.path, own.path, {c.path : c \in all}, {NoPath})
          /\ FieldOf(t.recency, own.recency, {c.recency : c \in all}, Gaps)
          /\ FieldOf(t.updated, own.updated, {c.updated : c \in all}, Gaps)
    /\ DatedAlike(all) => \A c \in all : c.live = t.live => ~After(Timestamp(c), Timestamp(t))

\* An answer has each thread of the pages once and no more than asked for: as a live copy if
\* any page had one, with every field that any copy had, and, when the dates of the copies can
\* be compared, as the most recent of the live or else of all copies, in whichever order they
\* came.  Records without an id are given as they are.  (merge_thread_projections: where dates
\* are missing or of several kinds, the order decides which copy is preferred, since a date
\* filled in from one copy counts when the next one is compared.)
AnswerIsMerged ==
    call.pc = "done" =>
        LET threads == ToSet(call.threads) IN
        /\ call.limit # 0 => Len(call.threads) <= call.limit
        /\ {t.id : t \in threads} = {c.id : c \in call.received}
        /\ {t \in threads : t.id = NoId} = {c \in call.received : c.id = NoId}
        /\ \A i, j \in DOMAIN call.threads :
              call.threads[i].id = call.threads[j].id => i = j \/ call.threads[i].id = NoId
        /\ \A t \in threads : t.id # NoId => MadeOf(t, {c \in call.received : c.id = t.id})

\* listProjects shows what its three sources say, by the definitions of ProjectIndex that
\* follow no list: the directories, their projects and pins, and one session for each thread
\* placed there.  Pages asked for by offset, as a number, show each of them once and in order.
IndexIsRight ==
    call.kind = "projects" /\ call.pc = "done" =>
        LET index == ProjectIndexOf(global, call.threads)
            items == Listed(global, call.threads)
        IN  /\ IndexIs(global, call.threads, index)
            /\ ToSet(items) = {index[p] : p \in DOMAIN index}
            /\ \A limit \in Limits \ {0} : PagesCover(items, limit)

\* connector.json:353-355: the cursor of listProjects is a text.  The page at the cursor that
\* an answer gave, sent back as it was given, shows nothing of that answer again.
CursorAdvances ==
    call.kind = "projects" /\ call.pc = "done" =>
        LET items == Listed(global, call.threads)
        IN  \A limit \in Limits \ {0} :
                LET first == PageOf(items, Absent, limit)
                IN  first.next # Null =>
                        ToSet(PageOf(items, first.next, limit).items) \cap ToSet(first.items) = {}

\* Every listing ends, whatever cursors Codex answers: one that repeats ends the listing of
\* threads, and the bound on pages both of them.
CallEnds == call.pc = "paging" ~> call.pc # "paging"
=============================================================================
