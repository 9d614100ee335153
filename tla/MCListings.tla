----------------------------- MODULE MCListings -----------------------------
(* Initial worlds: two threads with three to five copies, dated alike, in an *)
(* orderly list; copies of one thread whose dates are missing or of several  *)
(* kinds; a Codex with any cursors; one thread and the global states in      *)
(* which two projects share roots, assignments, orders and pins.             *)
EXTENDS Listings

CONSTANTS a, b, p, q

NoGlobal == [local |-> <<>>, assigned |-> <<>>, order |-> <<>>, saved |-> <<>>, active |-> <<>>,
             pinned |-> <<>>, trusted |-> <<>>]
Project(id, roots) == [id |-> id, roots |-> roots]
GlobalStates ==
    [local : {<<>>, <<Project(p, <<1, 2>>)>>, <<Project(p, <<1, 2>>), Project(q, <<2, 3>>)>>,
              <<Project(p, <<2>>), Project(q, <<2>>)>>, <<Project(q, <<>>)>>},
     assigned : {<<>>, <<Project(p, <<3>>)>>, <<Project(q, <<3, 1>>), Project(p, <<1>>)>>},
     order : {<<>>, <<q, 1>>},
     saved : {<<>>, <<3>>, <<2, q>>},
     active : {<<>>, <<p>>, <<3>>},
     pinned : {<<>>, <<q>>, <<2, p>>},
     trusted : {<<>>, <<3>>}]

Dated(id, at, live, path, recency, updated) ==
    [id |-> id, at |-> at, live |-> live, path |-> path, recency |-> recency, updated |-> updated]
Item(id, at, live, path) == Dated(id, at, live, path, Number(at), Absent)

\* Three copies, the first of thread a: live or not, with a directory or without.
Kinds == {<<a, 1>>, <<a, NoPath>>, <<b, 2>>} \X BOOLEAN
Listed3(k, l, m) == {Item(k[1][1], 4, k[2], k[1][2]), Item(l[1][1], 3, l[2], l[1][2]),
                     Item(m[1][1], 2, m[2], m[1][2])}
Lists == {Listed3(k, l, m) : k \in {j \in Kinds : j[1][1] = a}, l \in Kinds, m \in Kinds}
Long == {Item(a, 5, FALSE, NoPath), Item(a, 4, TRUE, NoPath), Item(a, 3, FALSE, 1),
         Item(a, 2, TRUE, 3), Item(b, 1, FALSE, 2)}

\* <<recency, updated>>: dates by one key, by another, not comparable, or none.
Dates == {<<Number(2), Absent>>, <<Absent, Number(1)>>, <<Absent, Number(3)>>, <<Null, Number(2)>>,
          <<Text(0), Text(2)>>, <<Absent, Absent>>}
Mixed == {{Dated(a, 5, live, NoPath, d[1], d[2]), Dated(a, 4, FALSE, 1, e[1], e[2]),
           Dated(a, 3, live, 2, f[1], f[2])} :
              live \in BOOLEAN, d \in Dates, e \in Dates, f \in Dates}
Unnamed == {Dated(NoId, 5, TRUE, 1, Null, Text(1)), Item(NoId, 4, FALSE, NoPath),
            Item(a, 3, TRUE, NoPath), Item(a, 2, FALSE, 1)}

MCWorlds ==
    [copies : Lists \cup Mixed \cup {Long, Unnamed}, global : {NoGlobal}, orderly : {TRUE}]
    \cup [copies : {{Item(a, 3, TRUE, NoPath), Item(b, 4, FALSE, 2), Item(a, 5, FALSE, 1)}},
          global : {NoGlobal}, orderly : {FALSE}]
    \cup [copies : {{Item(a, MaxAt, FALSE, 1)}}, global : GlobalStates, orderly : {TRUE}]
=============================================================================
