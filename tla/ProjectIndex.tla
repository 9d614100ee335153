---------------------------- MODULE ProjectIndex ----------------------------
(***************************************************************************)
(* The project index of list_projects (src/invoke.rs): what the global     *)
(* state of Codex, its config.toml and the listed threads make of the      *)
(* directories they name.                                                  *)
(*                                                                         *)
(* A path is a number and stands for its normalised form; the title of a   *)
(* project is ordered like its path.  The request asks for everything: the *)
(* filters of the answer (search term, existing directories) only select.  *)
(* local is ordered like the keys of the JSON object; assigned is in the   *)
(* order the HashMap happens to give.  A JSON value of an item or of a     *)
(* request is its type and a number: that of a number, or the place of a   *)
(* text among texts, 0 for a blank one.                                    *)
(***************************************************************************)
EXTENDS Naturals, FiniteSets, Sequences, SequencesExt

CONSTANTS Paths, Projects, NoProject

ASSUME IndexAssumption ==
    /\ Paths \subseteq Nat \ {0} /\ Projects \cap Paths = {}
    /\ NoProject \notin Projects \cup Paths

\* JSON values; "absent" for a key that is not there.
Values == [type : {"absent", "null", "number", "text"}, n : Nat]
Value(type, n) == [type |-> type, n |-> n]
Number(n) == Value("number", n)
Text(n) == Value("text", n)
Null == Value("null", 0)
Absent == Value("absent", 0)

\* thread_timestamp: the first date key that is there, whatever it holds.  updated stands for
\* the keys after recencyAt.
Timestamp(t) == IF t.recency.type # "absent" THEN t.recency ELSE t.updated

\* usize_param, for a default of 0: only a number is read.
UsizeParam(v) == IF v.type = "number" THEN v.n ELSE 0

\* What the two files say: projects with their roots, and lists of references.
Global ==
    LET Configured == [id : Projects, roots : Seq(Paths)]
        References == Seq(Projects \cup Paths)
    IN  [local : Seq(Configured), assigned : Seq(Configured), order : References, saved : References,
         active : References, pinned : References, trusted : Seq(Paths)]

\* The members of S in the strict order before.
InOrder(S, before(_, _)) ==
    CHOOSE s \in [1..Cardinality(S) -> S] : \A i, j \in DOMAIN s : i < j => before(s[i], s[j])

\* One root of a project [id, roots] of the global state, as StateProjectRoot carries it.
Root(path, project, roots) == [path |-> path, project |-> project, roots |-> roots]
RootsOf(p) == [i \in DOMAIN p.roots |-> Root(p.roots[i], p.id, p.roots)]
\* The roots of the projects ps but the ones to skip.
AllRoots(ps, skip) == FlattenSeq([i \in DOMAIN ps |-> IF ps[i].id \in skip THEN <<>> ELSE RootsOf(ps[i])])

\* Of several roots with one path, the first stays.
AppendNew(known, r) == IF \E k \in ToSet(known) : k.path = r.path THEN known ELSE Append(known, r)
UniqueRoots(roots) == FoldLeft(AppendNew, <<>>, roots)

\* Variant: assignments of threads count for every project.
NoneRooted(g) == {}
\* Assignments of threads count only for projects without a root of their own.
Rooted(g) == {r.project : r \in ToSet(AllRoots(g.local, {}))}
StateRoots(g) == UniqueRoots(AllRoots(g.local, {}) \o AllRoots(g.assigned, Rooted(g)))

\* A reference is a project id, or else a path.
OfProject(known, id) ==
    FlattenSeq([i \in DOMAIN known |-> IF known[i].project = id THEN <<known[i]>> ELSE <<>>])
Referred(known, ref) ==
    LET byId == OfProject(known, ref)
        at == {i \in DOMAIN known : known[i].path = ref}
    IN  CASE byId # <<>> -> byId
          [] byId = <<>> /\ ref \notin Paths -> <<>>
          [] byId = <<>> /\ ref \in Paths /\ at # {} -> <<known[Min(at)]>>
          [] OTHER -> <<Root(ref, NoProject, <<ref>>)>>
Resolve(g, refs) ==
    UniqueRoots(FlattenSeq([i \in DOMAIN refs |-> Referred(StateRoots(g), refs[i])]))

\* project-order, then the saved workspace roots.
Saved(g) == UniqueRoots(Resolve(g, g.order) \o Resolve(g, g.saved))

NewEntry(path) ==
    [path |-> path, project |-> NoProject, roots |-> <<path>>, active |-> FALSE,
     pinned |-> FALSE, sources |-> {}, sessions |-> 0, last |-> Null]
Upsert(index, path, source) ==
    LET old == IF path \in DOMAIN index THEN index[path] ELSE NewEntry(path)
    IN  [p \in DOMAIN index \cup {path} |->
            IF p = path THEN [old EXCEPT !.sources = @ \cup {source}] ELSE index[p]]

\* The identity of the root overwrites what the entry had; a root of no project leaves the id.
UpsertRoot(index, r, source) ==
    [Upsert(index, r.path, source) EXCEPT
        ![r.path].project = IF r.project = NoProject THEN @ ELSE r.project,
        ![r.path].roots = r.roots,
        ![r.path].active = @ \/ source = "active",
        ![r.path].pinned = @ \/ source = "pinned"]
UpsertRoots(index, roots, source) ==
    FoldLeft(LAMBDA i, r : UpsertRoot(i, r, source), index, roots)
UpsertThread(index, t) ==
    IF t.path \notin Paths
    THEN index
    ELSE [Upsert(index, t.path, "threads") EXCEPT
            ![t.path].sessions = @ + 1,
            ![t.path].last = IF Timestamp(t).type = "absent" THEN @ ELSE Timestamp(t)]

ConfiguredIndex(g) ==
    LET saved  == UpsertRoots(<<>>, Saved(g), "saved")
        active == UpsertRoots(saved, Resolve(g, g.active), "active")
        pinned == UpsertRoots(active, Resolve(g, g.pinned), "pinned")
    IN  FoldLeft(LAMBDA i, p : Upsert(i, p, "trusted"), pinned, g.trusted)
ProjectIndexOf(g, threads) == FoldLeft(UpsertThread, ConfiguredIndex(g), threads)

\* Pinned projects first, then the saved ones in their order, then by title.
SavedRank(g, path) ==
    LET saved == Saved(g)
        at == {i \in DOMAIN saved : saved[i].path = path}
    IN  IF at = {} THEN Len(saved) + 1 ELSE CHOOSE i \in at : TRUE
Before(g, d, e) ==
    \/ d.pinned /\ ~e.pinned
    \/ /\ d.pinned = e.pinned
       /\ \/ SavedRank(g, d.path) < SavedRank(g, e.path)
          \/ SavedRank(g, d.path) = SavedRank(g, e.path) /\ d.path < e.path
Listed(g, threads) ==
    LET index == ProjectIndexOf(g, threads)
    IN  InOrder({index[p] : p \in DOMAIN index}, LAMBDA d, e : Before(g, d, e))

\* One page of the answer.  The offset of the next page is given as a text.
PageOf(items, cursor, limit) ==
    LET from == UsizeParam(cursor)
    IN  [items |-> SubSeq(items, from + 1, Min({from + limit, Len(items)})),
         next |-> IF from + limit < Len(items) THEN Text(from + limit) ELSE Null]

-----------------------------------------------------------------------------
(* What the index should be, without reference to how it is built.         *)

\* The project a path belongs to: the first that has it as a root, assignments of threads
\* counting only where a project has no root.
Holding(ps, skip, path) == {i \in DOMAIN ps : ps[i].id \notin skip /\ path \in ToSet(ps[i].roots)}
Holder(g, path) ==
    LET rooted == {p.id : p \in {q \in ToSet(g.local) : q.roots # <<>>}}
        local == Holding(g.local, {}, path)
        assigned == Holding(g.assigned, rooted, path)
    IN  CASE local # {} -> g.local[Min(local)]
          [] local = {} /\ assigned # {} -> g.assigned[Min(assigned)]
          [] OTHER -> [id |-> NoProject, roots |-> <<path>>]
Owner(g, path) == Holder(g, path).id

\* The paths that a list of references stands for.
Named(g, refs) == {p \in Paths : p \in ToSet(refs) \/ Owner(g, p) \in ToSet(refs)}

\* The index of the threads a listing gathered.
IndexIs(g, threads, index) ==
    LET referred == Named(g, g.order) \cup Named(g, g.saved) \cup Named(g, g.active)
                      \cup Named(g, g.pinned)
        placed == {t.path : t \in ToSet(threads)} \cap Paths
    IN  /\ DOMAIN index = referred \cup ToSet(g.trusted) \cup placed
        /\ \A p \in DOMAIN index :
              /\ index[p].project = IF p \in referred THEN Owner(g, p) ELSE NoProject
              /\ index[p].roots = IF p \in referred THEN Holder(g, p).roots ELSE <<p>>
              /\ index[p].pinned <=> p \in Named(g, g.pinned)
              /\ index[p].active <=> p \in Named(g, g.active)
              /\ index[p].sessions = Cardinality({i \in DOMAIN threads : threads[i].path = p})

\* What a client is given that asks for each page by its offset, a number.
WalkOf(items, limit) ==
    LET walk[c \in 0..Len(items)] ==
            LET page == PageOf(items, Number(c), limit)
            IN  page.items \o (IF page.next = Null THEN <<>> ELSE walk[page.next.n])
    IN  walk[0]
PagesCover(items, limit) ==
    /\ WalkOf(items, limit) = items
    /\ \A i, j \in DOMAIN items : i < j =>
          ~(items[j].pinned /\ ~items[i].pinned) /\ items[i].path # items[j].path
=============================================================================
