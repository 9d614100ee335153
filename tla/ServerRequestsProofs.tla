------------------------ MODULE ServerRequestsProofs ------------------------
(***************************************************************************)
(* The table of server requests for any number of app-servers, threads,    *)
(* responders, requests and turns, and any capacity.  Everything is said   *)
(* of one session, since a session is touched by its own app-server and    *)
(* reader, and by the replies that obtained it:                            *)
(*   NumberOK  an id means one request of the session;                     *)
(*   WaitOK    a request is on its way to the reader, or in the table, or  *)
(*             was replied to, never two of them;                          *)
(*   MeantOK   what was written was meant for the request;                 *)
(*   FollowOK  what the app-server no longer waits for is closed by a line *)
(*             that comes after the request;                               *)
(*   ForgetOK  what it waits for is somewhere.                             *)
(***************************************************************************)
EXTENDS ServerRequests, FiniteSetTheorems, TLAPS

USE BoundsAssumption

TypeInv ==
    /\ current \in Sessions
    /\ running \in [Sessions -> BOOLEAN] /\ alive \in [Sessions -> BOOLEAN]
    /\ out \in [Sessions -> Seq(Lines)]
    /\ asked \in [Sessions -> Nat]
    /\ open \in [Sessions -> SUBSET Requests]
    /\ done \in SUBSET Turns
    /\ received \in [Sessions -> Seq(Writes)]
    /\ table \in [Sessions -> SUBSET Requests]
    /\ \A s \in Sessions : IsFiniteSet(table[s]) /\ Cardinality(table[s]) <= Capacity
    /\ seen \in SUBSET Requests
    /\ reply \in [Responders -> {NoReply} \cup Replies]
    /\ lost \in SUBSET Requests

SeenInv == \A c \in Responders : reply[c] # NoReply => reply[c].req \in seen

Positions(s) == 1 .. Len(out[s])
Unread(s, i) == i \in Positions(s) /\ out[s][i].type = "request"

\* The session's request r is mentioned anywhere.
Knows(s, r) ==
    \/ r \in open[s] \cup table[s]
    \/ r \in seen /\ r.sess = s
    \/ \E i \in Positions(s) : out[s][i].type # "completed" /\ out[s][i].req = r

NumberOK(s) ==
    /\ \A r \in Requests : Knows(s, r) => r.sess = s /\ r.turn.sess = s /\ r.id <= asked[s]
    /\ \A r, q \in Requests : Knows(s, r) /\ Knows(s, q) /\ r.id = q.id => r = q

WaitOK(s) ==
    /\ \A i, j \in Positions(s) :
          Unread(s, i) /\ Unread(s, j) /\ out[s][i].req.id = out[s][j].req.id => i = j
    /\ \A i \in Positions(s) : Unread(s, i) =>
          /\ out[s][i].req.id \notin WrittenIds(s)
          /\ \A r \in table[s] : r.id # out[s][i].req.id
    /\ \A r \in table[s] : r.id \notin WrittenIds(s)
    /\ \A i, j \in 1 .. Len(received[s]) : received[s][i].id = received[s][j].id => i = j
    /\ \A n \in WrittenIds(s) : n <= asked[s]

MeantOK(s) ==
    \A i \in 1 .. Len(received[s]) : received[s][i].body # "refused" =>
        /\ received[s][i].meant.sess = s /\ received[s][i].meant.id = received[s][i].id
        /\ Fits(received[s][i].meant, received[s][i].body)

FollowOK(s) ==
    /\ \A r \in table[s] : r \in open[s] \/ \E i \in Positions(s) : Closes(out[s][i], r)
    /\ \A i \in Positions(s) : Unread(s, i) =>
          \/ out[s][i].req \in open[s]
          \/ \E j \in Positions(s) : i < j /\ Closes(out[s][j], out[s][i].req)

ForgetOK(s) ==
    /\ \A r \in open[s] :
          \/ \E i \in Positions(s) : Unread(s, i) /\ out[s][i].req = r
          \/ r \in table[s] \cup lost
          \/ r.id \in WrittenIds(s)
    /\ \A i \in Positions(s) :
          /\ out[s][i].type = "resolved" => out[s][i].req \notin open[s]
          /\ out[s][i].type = "completed" => out[s][i].turn \in done
    /\ \A r \in open[s] : r.turn \notin done

SessionOK(s) == NumberOK(s) /\ WaitOK(s) /\ MeantOK(s) /\ FollowOK(s) /\ ForgetOK(s)
IInv == TypeInv /\ SeenInv /\ \A s \in Sessions : SessionOK(s)

-----------------------------------------------------------------------------
(* What the helpers do.                                                    *)

LEMMA LineType ==
    ASSUME NEW line \in Lines
    PROVE  /\ line.type \in {"request", "resolved", "completed"}
           /\ line.type # "completed" => line.req \in Requests
           /\ line.type = "completed" => line.turn \in Turns
           /\ line.type = "request" => line = [type |-> "request", req |-> line.req]
  BY DEF Lines

LEMMA SayIs ==
    ASSUME out \in [Sessions -> Seq(Lines)], NEW s \in Sessions, NEW line \in Lines, Say(s, line)
    PROVE  /\ out' \in [Sessions -> Seq(Lines)]
           /\ Len(out'[s]) = Len(out[s]) + 1 /\ Len(out[s]) \in Nat
           /\ \A i \in 1 .. Len(out[s]) : out'[s][i] = out[s][i]
           /\ out'[s][Len(out[s]) + 1] = line
           /\ \A u \in Sessions : u # s => out'[u] = out[u]
  BY DEF Say

LEMMA SendIs ==
    ASSUME received \in [Sessions -> Seq(Writes)], NEW s \in Sessions, NEW w \in Writes, Send(s, w)
    PROVE  /\ received' \in [Sessions -> Seq(Writes)]
           /\ Len(received'[s]) = Len(received[s]) + 1 /\ Len(received[s]) \in Nat
           /\ \A i \in 1 .. Len(received[s]) : received'[s][i] = received[s][i]
           /\ received'[s][Len(received[s]) + 1] = w
           /\ WrittenIds(s)' = WrittenIds(s) \cup {w.id}
           /\ \A u \in Sessions : u # s => received'[u] = received[u]
  <1>1. /\ received' \in [Sessions -> Seq(Writes)]
        /\ Len(received'[s]) = Len(received[s]) + 1 /\ Len(received[s]) \in Nat
        /\ \A i \in 1 .. Len(received[s]) : received'[s][i] = received[s][i]
        /\ received'[s][Len(received[s]) + 1] = w
        /\ \A u \in Sessions : u # s => received'[u] = received[u]
    BY DEF Send
  <1>2. WrittenIds(s)' = WrittenIds(s) \cup {w.id}
    <2> DEFINE n == Len(received[s])
    <2>1. \A x \in WrittenIds(s)' : x \in WrittenIds(s) \cup {w.id}
      <3> SUFFICES ASSUME NEW i \in 1 .. Len(received'[s])
                   PROVE  received'[s][i].id \in WrittenIds(s) \cup {w.id}
        BY DEF WrittenIds
      <3>1. CASE i = n + 1
        BY <1>1, <3>1
      <3>2. CASE i # n + 1
        <4>1. i \in 1 .. n /\ received'[s][i] = received[s][i]
          BY <1>1, <3>2
        <4> QED BY <4>1 DEF WrittenIds
      <3> QED BY <3>1, <3>2
    <2>2. WrittenIds(s) \subseteq WrittenIds(s)'
      <3> SUFFICES ASSUME NEW i \in 1 .. n PROVE received[s][i].id \in WrittenIds(s)'
        BY DEF WrittenIds
      <3>1. i \in 1 .. Len(received'[s]) /\ received'[s][i] = received[s][i]
        BY <1>1
      <3> QED BY <3>1 DEF WrittenIds
    <2>3. w.id \in WrittenIds(s)'
      <3>1. n + 1 \in 1 .. Len(received'[s]) /\ received'[s][n + 1].id = w.id
        BY <1>1
      <3> QED BY <3>1 DEF WrittenIds
    <2> QED BY <2>1, <2>2, <2>3
  <1> QED BY <1>1, <1>2

LEMMA ReadsIs ==
    ASSUME out \in [Sessions -> Seq(Lines)], NEW s \in Sessions, NEW type, Reads(s, type)
    PROVE  /\ out' \in [Sessions -> Seq(Lines)]
           /\ Len(out[s]) \in Nat /\ Len(out[s]) >= 1 /\ Len(out'[s]) = Len(out[s]) - 1
           /\ Head(out[s]) = out[s][1] /\ out[s][1] \in Lines /\ out[s][1].type = type
           /\ \A i \in 1 .. Len(out'[s]) : out'[s][i] = out[s][i + 1]
           /\ \A u \in Sessions : u # s => out'[u] = out[u]
  BY DEF Reads

\* What a step may change of the rest of the system without disturbing session u.
Same(u) ==
    /\ open'[u] = open[u] /\ table'[u] = table[u] /\ out'[u] = out[u]
    /\ received'[u] = received[u] /\ asked'[u] = asked[u]
    /\ lost \subseteq lost' /\ done \subseteq done'
    /\ \A r \in Requests : r.sess = u => (r \in seen' <=> r \in seen)
    /\ \A turn \in Turns : turn.sess = u => (turn \in done' <=> turn \in done)

LEMMA SameOK ==
    ASSUME IInv, TypeInv', NEW u \in Sessions, Same(u)
    PROVE  SessionOK(u)'
  <1>0. SessionOK(u) /\ WrittenIds(u)' = WrittenIds(u)
    BY DEF IInv, Same, WrittenIds
  <1>1. \A r \in Requests : Knows(u, r)' <=> Knows(u, r)
    BY DEF Same, Knows, Positions
  <1>2. NumberOK(u)'
    BY <1>0, <1>1 DEF Same, SessionOK, NumberOK
  <1>3. WaitOK(u)' /\ MeantOK(u)' /\ FollowOK(u)'
    BY <1>0 DEF Same, SessionOK, WaitOK, MeantOK, FollowOK, Unread, Positions
  <1>4. ForgetOK(u)'
    <2>1. \A r \in open[u] : r.turn \notin done'
      <3> SUFFICES ASSUME NEW r \in open[u] PROVE r.turn \notin done'
        OBVIOUS
      <3>1. r \in Requests /\ r.turn \in Turns
        BY DEF IInv, TypeInv, Requests
      <3>2. r.turn.sess = u /\ r.turn \notin done
        BY <1>0, <3>1 DEF SessionOK, NumberOK, Knows, ForgetOK
      <3> QED BY <3>1, <3>2 DEF Same
    <2> QED BY <1>0, <2>1 DEF Same, SessionOK, ForgetOK, Unread, Positions
  <1> QED BY <1>2, <1>3, <1>4 DEF SessionOK

-----------------------------------------------------------------------------
(* Types.                                                                  *)

LEMMA TableShrinks ==
    ASSUME NEW S, IsFiniteSet(S), Cardinality(S) <= Capacity, NEW T \in SUBSET S
    PROVE  IsFiniteSet(T) /\ Cardinality(T) <= Capacity
  <1>1. IsFiniteSet(T) /\ Cardinality(T) <= Cardinality(S)
    BY FS_Subset
  <1>2. Cardinality(S) \in Nat /\ Cardinality(T) \in Nat
    BY <1>1, FS_CardinalityType
  <1> QED BY <1>1, <1>2

\* An action that may only take entries from the table of s.
LEMMA TableType ==
    ASSUME TypeInv, NEW s \in Sessions, NEW T \in SUBSET table[s], table' = [table EXCEPT ![s] = T]
    PROVE  /\ table' \in [Sessions -> SUBSET Requests]
           /\ \A u \in Sessions : IsFiniteSet(table'[u]) /\ Cardinality(table'[u]) <= Capacity
  BY TableShrinks DEF TypeInv

LEMMA InitInv == Init => IInv
  <1> SUFFICES ASSUME Init PROVE IInv
    OBVIOUS
  <1>0. 1 \in Sessions
    BY DEF Sessions
  <1>1. IsFiniteSet({}) /\ Cardinality({}) = 0
    BY FS_EmptySet
  <1>2. TypeInv
    BY <1>0, <1>1 DEF Init, TypeInv
  <1>3. SeenInv
    BY DEF Init, SeenInv
  <1>4. ASSUME NEW s \in Sessions PROVE SessionOK(s)
    <2>1. /\ out[s] = <<>> /\ received[s] = <<>> /\ open[s] = {} /\ table[s] = {} /\ seen = {}
          /\ Positions(s) = {} /\ WrittenIds(s) = {}
      BY <1>4 DEF Init, Positions, WrittenIds
    <2> QED BY <2>1 DEF SessionOK, NumberOK, Knows, WaitOK, MeantOK, FollowOK, ForgetOK
  <1> QED BY <1>2, <1>3, <1>4 DEF IInv

LEMMA AskUserType ==
    ASSUME TypeInv, NEW s \in Sessions, AskUser(s)
    PROVE  TypeInv'
  <1>1. PICK turn \in Turns \ done, kind \in Kinds :
          /\ turn.sess = s
          /\ open' = [open EXCEPT ![s] = @ \cup {[sess |-> s, id |-> asked[s] + 1, turn |-> turn, kind |-> kind]}]
          /\ Say(s, [type |-> "request", req |-> [sess |-> s, id |-> asked[s] + 1, turn |-> turn, kind |-> kind]])
    BY DEF AskUser
  <1> DEFINE r == [sess |-> s, id |-> asked[s] + 1, turn |-> turn, kind |-> kind]
  <1>2. r \in Requests
    BY DEF TypeInv, Requests
  <1>3. [type |-> "request", req |-> r] \in Lines
    BY <1>2 DEF Lines
  <1>4. out' \in [Sessions -> Seq(Lines)]
    <2> HIDE DEF r
    <2> QED BY <1>1, <1>3, SayIs DEF r, TypeInv
  <1>5. open' \in [Sessions -> SUBSET Requests]
    <2> HIDE DEF r
    <2> QED BY <1>1, <1>2 DEF r, TypeInv
  <1> QED BY <1>4, <1>5 DEF AskUser, TypeInv, sessionVars, tableVars

LEMMA CloseType ==
    ASSUME TypeInv, NEW s \in Sessions, Close(s)
    PROVE  TypeInv'
  <1>1. PICK r \in open[s] : /\ open' = [open EXCEPT ![s] = @ \ {r}]
                             /\ Say(s, [type |-> "resolved", req |-> r]) \/ UNCHANGED out
    BY DEF Close
  <1>2. [type |-> "resolved", req |-> r] \in Lines
    BY DEF TypeInv, Lines
  <1>3. out' \in [Sessions -> Seq(Lines)]
    BY <1>1, <1>2, SayIs DEF TypeInv
  <1> QED BY <1>1, <1>3 DEF Close, TypeInv, sessionVars, tableVars

LEMMA CompleteTurnType ==
    ASSUME TypeInv, NEW s \in Sessions, CompleteTurn(s)
    PROVE  TypeInv'
  <1>1. PICK turn \in Turns \ done : /\ done' = done \cup {turn}
                                     /\ open' = [open EXCEPT ![s] = {r \in @ : r.turn # turn}]
                                     /\ Say(s, [type |-> "completed", turn |-> turn])
    BY DEF CompleteTurn
  <1>2. [type |-> "completed", turn |-> turn] \in Lines
    BY DEF Lines
  <1>3. out' \in [Sessions -> Seq(Lines)]
    BY <1>1, <1>2, SayIs DEF TypeInv
  <1> QED BY <1>1, <1>3 DEF CompleteTurn, TypeInv, sessionVars, tableVars

LEMMA HeadRequest ==
    ASSUME TypeInv, NEW s \in Sessions, Reads(s, "request")
    PROVE  Head(out[s]).req \in Requests
  BY ReadsIs, LineType DEF TypeInv

LEMMA RefuseType ==
    ASSUME TypeInv, NEW s \in Sessions, Refuse(s)
    PROVE  TypeInv'
  <1>1. out' \in [Sessions -> Seq(Lines)] /\ Head(out[s]).req \in Requests
    BY ReadsIs, HeadRequest DEF Refuse, Write, TypeInv
  <1>2. [id |-> Head(out[s]).req.id, body |-> "refused"] \in Writes
    BY <1>1 DEF Writes, Requests
  <1>3. received' \in [Sessions -> Seq(Writes)] /\ lost' \in SUBSET Requests
    BY <1>1, <1>2, SendIs DEF Refuse, Write, TypeInv
  <1> QED BY <1>1, <1>3 DEF Refuse, Write, TypeInv, sessionVars, serverVars

LEMMA InsertType ==
    ASSUME TypeInv, NEW s \in Sessions, Insert(s)
    PROVE  TypeInv'
  <1> DEFINE r == Head(out[s]).req
  <1>1. out' \in [Sessions -> Seq(Lines)] /\ r \in Requests
    BY ReadsIs, HeadRequest DEF Insert, TypeInv
  <1>2. table' = [table EXCEPT ![s] = @ \cup {r}] /\ seen' = seen \cup {r} /\ Cardinality(table[s]) < Capacity
    <2>1. IsFiniteSet(table[s])
      BY DEF TypeInv
    <2>2. Cardinality(table[s]) \in Nat
      BY <2>1, FS_CardinalityType
    <2> QED BY <2>2 DEF Insert, Conflict
  <1> HIDE DEF r
  <1>3. IsFiniteSet(table[s] \cup {r}) /\ Cardinality(table[s] \cup {r}) <= Capacity
    <2>1. IsFiniteSet(table[s])
      BY DEF TypeInv
    <2>2. Cardinality(table[s]) \in Nat
      BY <2>1, FS_CardinalityType
    <2>3. IsFiniteSet(table[s] \cup {r}) /\ Cardinality(table[s] \cup {r}) <= Cardinality(table[s]) + 1
      BY <2>1, <2>2, FS_AddElement
    <2>4. Cardinality(table[s] \cup {r}) \in Nat
      BY <2>3, FS_CardinalityType
    <2> QED BY <1>2, <2>2, <2>3, <2>4
  <1>4. table' \in [Sessions -> SUBSET Requests]
    BY <1>1, <1>2 DEF TypeInv
  <1>5. \A u \in Sessions : IsFiniteSet(table'[u]) /\ Cardinality(table'[u]) <= Capacity
    BY <1>2, <1>3 DEF TypeInv
  <1>6. UNCHANGED <<sessionVars, serverVars, received, lost, reply>>
    BY DEF Insert
  <1> QED BY <1>1, <1>2, <1>4, <1>5, <1>6 DEF TypeInv, sessionVars, serverVars

LEMMA ClearedType ==
    ASSUME TypeInv, NEW s \in Sessions, Resolved(s) \/ Completed(s)
    PROVE  TypeInv'
  <1>1. out' \in [Sessions -> Seq(Lines)]
    BY ReadsIs DEF Resolved, Completed, TypeInv
  <1>2. \E T \in SUBSET table[s] : table' = [table EXCEPT ![s] = T]
    BY DEF Resolved, Completed, Retained
  <1>3. /\ table' \in [Sessions -> SUBSET Requests]
        /\ \A u \in Sessions : IsFiniteSet(table'[u]) /\ Cardinality(table'[u]) <= Capacity
    BY <1>2, TableType
  <1> QED BY <1>1, <1>3 DEF Resolved, Completed, TypeInv, sessionVars, serverVars

\* What a response does, with its session and entry named.
Answers(c, s, r, body) ==
    /\ reply[c] # NoReply /\ reply[c] \in Replies /\ reply[c].sess = s
    /\ Accepts(c, r, body)
    /\ table' = [table EXCEPT ![s] = @ \ {r}]
    /\ \/ /\ Send(s, [id |-> r.id, body |-> body, meant |-> reply[c].req])
          /\ UNCHANGED lost
       \/ lost' = lost \cup {r} /\ UNCHANGED received
    /\ reply' = [reply EXCEPT ![c] = NoReply]
    /\ UNCHANGED <<sessionVars, serverVars, out, seen>>

LEMMA RespondIs ==
    ASSUME TypeInv, NEW c \in Responders, Respond(c)
    PROVE  \E s \in Sessions : \E r \in table[s], body \in Bodies : Answers(c, s, r, body)
  <1>1. reply[c] \in Replies /\ reply[c].sess \in Sessions
    BY DEF Respond, Write, TypeInv, Replies
  <1> QED BY <1>1 DEF Respond, Write, TakeEntry, Answers

LEMMA RespondType ==
    ASSUME TypeInv, NEW c \in Responders, Respond(c)
    PROVE  TypeInv'
  <1>s. PICK s \in Sessions : \E r \in table[s], body \in Bodies : Answers(c, s, r, body)
    BY RespondIs
  <1>r. PICK r \in table[s], body \in Bodies : Answers(c, s, r, body)
    BY <1>s
  <1>1. /\ reply[c] \in Replies /\ table' = [table EXCEPT ![s] = @ \ {r}]
        /\ reply' = [reply EXCEPT ![c] = NoReply]
        /\ UNCHANGED <<sessionVars, serverVars, out, seen>>
        /\ \/ /\ Send(s, [id |-> r.id, body |-> body, meant |-> reply[c].req])
              /\ UNCHANGED lost
           \/ lost' = lost \cup {r} /\ UNCHANGED received
    BY <1>r DEF Answers
  <1>2. r \in Requests
    BY DEF TypeInv
  <1>3. [id |-> r.id, body |-> body, meant |-> reply[c].req] \in Writes
    BY <1>1, <1>2 DEF Writes, Requests, Replies
  <1>4. received' \in [Sessions -> Seq(Writes)] /\ lost' \in SUBSET Requests
    BY <1>1, <1>2, <1>3, SendIs DEF TypeInv
  <1>5. /\ table' \in [Sessions -> SUBSET Requests]
        /\ \A u \in Sessions : IsFiniteSet(table'[u]) /\ Cardinality(table'[u]) <= Capacity
    <2>1. table[s] \ {r} \in SUBSET table[s] /\ table' = [table EXCEPT ![s] = table[s] \ {r}]
      BY <1>1
    <2> QED BY <2>1, TableType
  <1>6. reply' \in [Responders -> {NoReply} \cup Replies]
    BY <1>1 DEF TypeInv
  <1> QED BY <1>1, <1>4, <1>5, <1>6 DEF TypeInv, sessionVars, serverVars

\* The steps that touch no session's requests.
Elsewhere ==
    \/ Finished \/ StartNext
    \/ \E s \in Sessions : ServerExits(s) \/ MarkDead(s)
    \/ \E c \in Responders : Accept(c) \/ Reject(c)
    \/ UNCHANGED vars

LEMMA ElsewhereType ==
    ASSUME TypeInv, Elsewhere
    PROVE  TypeInv'
  <1> USE DEF TypeInv
  <1>1. CASE Finished \/ UNCHANGED vars
    BY <1>1 DEF Finished, vars, sessionVars, serverVars, wireVars, tableVars
  <1>2. CASE StartNext
    <2>1. current + 1 \in Sessions
      BY <1>2 DEF StartNext, Sessions
    <2> QED BY <1>2, <2>1 DEF StartNext, wireVars, tableVars
  <1>3. ASSUME NEW s \in Sessions, ServerExits(s) PROVE TypeInv'
    BY <1>3 DEF ServerExits, sessionVars, wireVars, tableVars
  <1>4. ASSUME NEW s \in Sessions, MarkDead(s) PROVE TypeInv'
    BY <1>4 DEF MarkDead, serverVars, wireVars, tableVars
  <1>5. ASSUME NEW c \in Responders, Accept(c) PROVE TypeInv'
    <2>1. \E v \in Replies : reply' = [reply EXCEPT ![c] = v]
      BY <1>5 DEF Accept, Replies
    <2> QED BY <1>5, <2>1 DEF Accept, sessionVars, serverVars, wireVars, tableVars
  <1>6. ASSUME NEW c \in Responders, Reject(c) PROVE TypeInv'
    BY <1>6 DEF Reject, sessionVars, serverVars, wireVars, tableVars
  <1> QED BY <1>1, <1>2, <1>3, <1>4, <1>5, <1>6 DEF Elsewhere

-----------------------------------------------------------------------------
(* The app-server's steps, for the session they belong to.                 *)

\* What is said of the lines on the way, when one is added.
LEMMA SaidIs ==
    ASSUME TypeInv, NEW s \in Sessions, NEW line \in Lines, Say(s, line)
    PROVE  /\ Len(out[s]) \in Nat /\ Len(out'[s]) = Len(out[s]) + 1
           /\ Len(out[s]) + 1 \in Positions(s)' /\ out'[s][Len(out[s]) + 1] = line
           /\ \A i \in Positions(s) : i \in Positions(s)' /\ out'[s][i] = out[s][i]
           /\ \A i \in Positions(s)' : (i \in Positions(s) /\ i < Len(out[s]) + 1) \/ i = Len(out[s]) + 1
  <1>1. /\ Len(out[s]) \in Nat /\ Len(out'[s]) = Len(out[s]) + 1
        /\ out'[s][Len(out[s]) + 1] = line
        /\ \A i \in 1 .. Len(out[s]) : out'[s][i] = out[s][i]
    BY SayIs DEF TypeInv
  <1> QED BY <1>1 DEF Positions

LEMMA LineAt ==
    ASSUME TypeInv, NEW s \in Sessions, NEW i \in Positions(s)
    PROVE  /\ out[s][i] \in Lines
           /\ out[s][i].type \in {"request", "resolved", "completed"}
           /\ out[s][i].type # "completed" => out[s][i].req \in Requests
           /\ out[s][i].type = "completed" => out[s][i].turn \in Turns
  <1>1. out[s][i] \in Lines
    BY DEF TypeInv, Positions
  <1> QED BY <1>1, LineType

LEMMA WrittenNat ==
    ASSUME TypeInv, NEW s \in Sessions
    PROVE  WrittenIds(s) \subseteq Nat
  <1> SUFFICES ASSUME NEW i \in 1 .. Len(received[s]) PROVE received[s][i].id \in Nat
    BY DEF WrittenIds
  <1>1. received[s][i] \in Writes
    BY DEF TypeInv
  <1> QED BY <1>1 DEF Writes

\* Every request on the way is known.
LEMMA UnreadKnown ==
    ASSUME TypeInv, NEW s \in Sessions, NEW i \in Positions(s), out[s][i].type # "completed"
    PROVE  out[s][i].req \in Requests /\ Knows(s, out[s][i].req)
  BY LineAt DEF Knows

LEMMA KnownIs ==
    ASSUME TypeInv, NEW s \in Sessions, NumberOK(s), NEW r \in Requests, Knows(s, r)
    PROVE  r.sess = s /\ r.turn.sess = s /\ r.id \in Nat /\ r.id <= asked[s] /\ asked[s] \in Nat
  BY DEF NumberOK, Requests, TypeInv

LEMMA AskUserOK ==
    ASSUME IInv, TypeInv', NEW s \in Sessions, AskUser(s), NEW u \in Sessions
    PROVE  SessionOK(u)'
  <1>1. PICK turn \in Turns \ done, kind \in Kinds :
          /\ turn.sess = s
          /\ open' = [open EXCEPT ![s] = @ \cup {[sess |-> s, id |-> asked[s] + 1, turn |-> turn, kind |-> kind]}]
          /\ Say(s, [type |-> "request", req |-> [sess |-> s, id |-> asked[s] + 1, turn |-> turn, kind |-> kind]])
    BY DEF AskUser
  <1> DEFINE r == [sess |-> s, id |-> asked[s] + 1, turn |-> turn, kind |-> kind]
             line == [type |-> "request", req |-> r]
             n == Len(out[s]) + 1
  <1>2. /\ r \in Requests /\ r.sess = s /\ r.id = asked[s] + 1 /\ r.turn = turn
        /\ turn \in Turns /\ turn.sess = s /\ turn \notin done
    BY <1>1 DEF IInv, TypeInv, Requests
  <1>3. line \in Lines /\ line.type = "request" /\ line.req = r
    BY <1>2 DEF Lines
  <1>4. open' = [open EXCEPT ![s] = @ \cup {r}] /\ Say(s, line)
    BY <1>1
  <1> HIDE DEF r, line
  <1>5. asked' = [asked EXCEPT ![s] = @ + 1] /\ UNCHANGED <<done, received, table, seen, lost>>
    BY DEF AskUser, tableVars
  <1>t. TypeInv /\ SessionOK(s) /\ asked[s] \in Nat /\ asked'[s] = asked[s] + 1 /\ open'[s] = open[s] \cup {r}
    BY <1>4, <1>5 DEF IInv, TypeInv
  <1>6. CASE u # s
    <2>1. out'[u] = out[u]
      <3>1. out \in [Sessions -> Seq(Lines)]
        BY <1>t DEF TypeInv
      <3> QED BY <1>3, <1>4, <1>6, <3>1, SayIs
    <2>2. open'[u] = open[u] /\ asked'[u] = asked[u]
      BY <1>4, <1>5, <1>6, <1>t DEF TypeInv
    <2>3. Same(u)
      BY <1>5, <2>1, <2>2 DEF Same
    <2> QED BY <2>3, SameOK
  <1>7. CASE u = s
    <2>1. /\ n \in Positions(s)' /\ out'[s][n] = line
          /\ \A i \in Positions(s) : i \in Positions(s)' /\ out'[s][i] = out[s][i]
          /\ \A i \in Positions(s)' : (i \in Positions(s) /\ i < n) \/ i = n
      BY <1>3, <1>4, <1>t, SaidIs
    <2> HIDE DEF n
    <2>2. \A q \in Requests : Knows(s, q)' => Knows(s, q) \/ q = r
      BY <1>3, <1>5, <1>t, <2>1 DEF Knows
    <2>3. NumberOK(s)'
      <3>1. \A q \in Requests : Knows(s, q) => q.sess = s /\ q.turn.sess = s /\ q.id <= asked[s] /\ q.id \in Nat
        BY <1>t DEF SessionOK, NumberOK, Requests
      <3>2. \A q \in Requests : Knows(s, q)' => q.sess = s /\ q.turn.sess = s /\ q.id <= asked'[s]
        BY <1>2, <1>t, <2>2, <3>1
      <3>3. ASSUME NEW q1 \in Requests, NEW q2 \in Requests, Knows(s, q1)', Knows(s, q2)', q1.id = q2.id
            PROVE  q1 = q2
        <4>1. Knows(s, q1) /\ Knows(s, q2) => q1 = q2
          BY <1>t, <3>3 DEF SessionOK, NumberOK
        <4> QED BY <1>2, <1>t, <2>2, <3>1, <3>3, <4>1
      <3> QED BY <3>2, <3>3 DEF NumberOK
    <2>w. WrittenIds(s)' = WrittenIds(s) /\ received' = received
      BY <1>5 DEF WrittenIds
    <2>4. WaitOK(s)'
      <3>1. \A k \in WrittenIds(s) : k # r.id
        BY <1>2, <1>t DEF SessionOK, WaitOK
      <3>2. \A q \in table[s] : q.id # r.id
        <4> SUFFICES ASSUME NEW q \in table[s] PROVE q.id # r.id
          OBVIOUS
        <4>1. q \in Requests /\ Knows(s, q)
          BY <1>t DEF Knows, TypeInv
        <4>2. q.id <= asked[s] /\ q.id \in Nat
          BY <1>t, <4>1, KnownIs DEF SessionOK
        <4> QED BY <1>2, <1>t, <4>2
      <3>3. \A i \in Positions(s) : Unread(s, i) => out[s][i].req.id # r.id
        <4> SUFFICES ASSUME NEW i \in Positions(s), Unread(s, i) PROVE out[s][i].req.id # r.id
          OBVIOUS
        <4>1. out[s][i].req \in Requests /\ out[s][i].type = "request"
          BY <1>t, LineAt DEF Unread
        <4>2. Knows(s, out[s][i].req)
          BY <4>1 DEF Knows
        <4> QED BY <1>2, <1>t, <4>1, <4>2 DEF SessionOK, NumberOK
      <3>4. \A i \in Positions(s)' : Unread(s, i)' => i = n \/ (Unread(s, i) /\ out'[s][i] = out[s][i])
        BY <2>1 DEF Unread
      <3>5. \A k \in WrittenIds(s) : k \in Nat
        BY <1>t, WrittenNat
      <3>6. \A k \in WrittenIds(s) : k <= asked'[s]
        BY <1>t, <3>5 DEF SessionOK, WaitOK
      <3>7. ASSUME NEW i \in Positions(s)', NEW j \in Positions(s)', Unread(s, i)', Unread(s, j)',
                   out'[s][i].req.id = out'[s][j].req.id
            PROVE  i = j
        <4>1. CASE i = n /\ j # n
          BY <1>3, <2>1, <3>3, <3>4, <3>7, <4>1
        <4>2. CASE i # n /\ j = n
          BY <1>3, <2>1, <3>3, <3>4, <3>7, <4>2
        <4>3. CASE i # n /\ j # n
          BY <1>t, <2>1, <3>4, <3>7, <4>3 DEF SessionOK, WaitOK
        <4> QED BY <4>1, <4>2, <4>3
      <3>8. ASSUME NEW i \in Positions(s)', Unread(s, i)'
            PROVE  /\ out'[s][i].req.id \notin WrittenIds(s)
                   /\ \A q \in table[s] : q.id # out'[s][i].req.id
        <4>1. CASE i = n
          BY <1>3, <2>1, <3>1, <3>2, <4>1
        <4>2. CASE i # n
          BY <1>t, <2>1, <3>4, <3>8, <4>2 DEF SessionOK, WaitOK
        <4> QED BY <4>1, <4>2
      <3>9. table' = table
        BY <1>5
      <3>10. /\ \A q \in table[s] : q.id \notin WrittenIds(s)
             /\ \A i, j \in 1 .. Len(received[s]) : received[s][i].id = received[s][j].id => i = j
        BY <1>t DEF SessionOK, WaitOK
      <3> QED BY <2>w, <3>6, <3>7, <3>8, <3>9, <3>10 DEF WaitOK
    <2>5. MeantOK(s)'
      BY <1>5, <1>t DEF SessionOK, MeantOK
    <2>6. FollowOK(s)'
      <3>1. \A q \in table[s] : q \in open'[s] \/ \E i \in Positions(s)' : Closes(out'[s][i], q)
        BY <1>t, <2>1 DEF SessionOK, FollowOK
      <3>2. ASSUME NEW i \in Positions(s)', Unread(s, i)'
            PROVE  \/ out'[s][i].req \in open'[s]
                   \/ \E j \in Positions(s)' : i < j /\ Closes(out'[s][j], out'[s][i].req)
        <4>1. CASE i = n
          BY <1>3, <1>t, <2>1, <4>1
        <4>2. CASE i # n
          <5>1. Unread(s, i) /\ out'[s][i] = out[s][i] /\ i \in Positions(s)
            BY <2>1, <3>2, <4>2 DEF Unread
          <5> QED BY <1>t, <2>1, <5>1 DEF SessionOK, FollowOK
        <4> QED BY <4>1, <4>2
      <3> QED BY <1>5, <3>1, <3>2 DEF FollowOK
    <2>7. ForgetOK(s)'
      <3>1. ASSUME NEW q \in open'[s]
            PROVE  \/ \E i \in Positions(s)' : Unread(s, i)' /\ out'[s][i].req = q
                   \/ q \in table[s] \cup lost
                   \/ q.id \in WrittenIds(s)
        <4>1. CASE q = r
          BY <1>3, <2>1, <4>1 DEF Unread
        <4>2. CASE q \in open[s]
          <5>1. CASE \E i \in Positions(s) : Unread(s, i) /\ out[s][i].req = q
            BY <2>1, <5>1 DEF Unread
          <5> QED BY <1>t, <4>2, <5>1 DEF SessionOK, ForgetOK
        <4> QED BY <1>t, <4>1, <4>2
      <3>2. ASSUME NEW i \in Positions(s)', out'[s][i].type = "resolved"
            PROVE  out'[s][i].req \notin open'[s]
        <4>1. i \in Positions(s) /\ out'[s][i] = out[s][i]
          BY <1>3, <2>1, <3>2
        <4>2. out[s][i].req \in Requests /\ out[s][i].req \notin open[s]
          BY <1>t, <3>2, <4>1, LineAt DEF SessionOK, ForgetOK
        <4>3. Knows(s, out[s][i].req)
          BY <3>2, <4>1 DEF Knows
        <4>4. out[s][i].req # r
          BY <1>2, <1>t, <4>2, <4>3 DEF SessionOK, NumberOK
        <4> QED BY <1>t, <4>1, <4>2, <4>4
      <3>3. ASSUME NEW i \in Positions(s)', out'[s][i].type = "completed"
            PROVE  out'[s][i].turn \in done
        BY <1>3, <1>t, <2>1, <3>3 DEF SessionOK, ForgetOK
      <3>4. \A q \in open'[s] : q.turn \notin done
        BY <1>2, <1>t DEF SessionOK, ForgetOK
      <3> QED BY <1>5, <2>w, <3>1, <3>2, <3>3, <3>4 DEF ForgetOK
    <2> QED BY <1>7, <2>3, <2>4, <2>5, <2>6, <2>7 DEF SessionOK
  <1> QED BY <1>6, <1>7

\* The app-server stops waiting for some requests and says so.
LEMMA ClosingOK ==
    ASSUME IInv, TypeInv', NEW s \in Sessions, NEW line \in Lines, NEW O \in SUBSET open[s],
           line.type # "request", Say(s, line),
           open' = [open EXCEPT ![s] = O],
           \A q \in open[s] \ O : Closes(line, q),
           line.type = "resolved" => line.req \in open[s] \ O /\ done' = done,
           line.type = "completed" => /\ line.turn.sess = s /\ done' = done \cup {line.turn}
                                      /\ \A q \in O : q.turn # line.turn,
           UNCHANGED <<asked, received, table, seen, lost>>,
           NEW u \in Sessions
    PROVE  SessionOK(u)'
  <1> DEFINE n == Len(out[s]) + 1
  <1>t. TypeInv /\ SessionOK(s) /\ open'[s] = O
    BY DEF IInv, TypeInv
  <1>y. line.type \in {"resolved", "completed"} /\ (line.type = "completed" => line.turn \in Turns)
    BY LineType
  <1>6. CASE u # s
    <2>1. out'[u] = out[u]
      <3>1. out \in [Sessions -> Seq(Lines)]
        BY <1>t DEF TypeInv
      <3> QED BY <1>6, <3>1, SayIs
    <2>2. open'[u] = open[u]
      BY <1>6, <1>t DEF TypeInv
    <2>3. Same(u)
      BY <1>6, <1>y, <2>1, <2>2 DEF Same
    <2> QED BY <2>3, SameOK
  <1>7. CASE u = s
    <2>1. /\ n \in Positions(s)' /\ out'[s][n] = line /\ n \in Nat
          /\ \A i \in Positions(s) : i \in Positions(s)' /\ out'[s][i] = out[s][i] /\ i < n
          /\ \A i \in Positions(s)' : (i \in Positions(s) /\ i < n) \/ i = n
      BY <1>t, SaidIs DEF Positions
    <2> HIDE DEF n
    <2>2. \A i \in Positions(s)' : Unread(s, i)' => Unread(s, i) /\ out'[s][i] = out[s][i] /\ i \in Positions(s)
      BY <2>1 DEF Unread
    <2>w. WrittenIds(s)' = WrittenIds(s)
      BY DEF WrittenIds
    <2>3. NumberOK(s)'
      <3>1. \A q \in Requests : Knows(s, q)' => Knows(s, q)
        BY <1>y, <1>t, <2>1 DEF Knows
      <3> QED BY <1>t, <3>1 DEF SessionOK, NumberOK
    <2>4. WaitOK(s)'
      BY <1>t, <2>2, <2>w DEF SessionOK, WaitOK
    <2>5. MeantOK(s)'
      BY <1>t DEF SessionOK, MeantOK
    <2>6. FollowOK(s)'
      <3>1. ASSUME NEW q \in table[s]
            PROVE  q \in O \/ \E i \in Positions(s)' : Closes(out'[s][i], q)
        <4>1. CASE q \in open[s]
          BY <2>1, <4>1
        <4>2. CASE \E i \in Positions(s) : Closes(out[s][i], q)
          BY <2>1, <4>2
        <4> QED BY <1>t, <4>1, <4>2 DEF SessionOK, FollowOK
      <3>2. ASSUME NEW i \in Positions(s)', Unread(s, i)'
            PROVE  \/ out'[s][i].req \in O
                   \/ \E j \in Positions(s)' : i < j /\ Closes(out'[s][j], out'[s][i].req)
        <4>1. Unread(s, i) /\ out'[s][i] = out[s][i] /\ i \in Positions(s) /\ i < n
          BY <2>1, <2>2, <3>2
        <4>2. CASE out[s][i].req \in open[s]
          BY <2>1, <4>1, <4>2
        <4>3. CASE \E j \in Positions(s) : i < j /\ Closes(out[s][j], out[s][i].req)
          BY <2>1, <4>1, <4>3
        <4> QED BY <1>t, <4>1, <4>2, <4>3 DEF SessionOK, FollowOK
      <3> QED BY <1>t, <3>1, <3>2 DEF FollowOK
    <2>7. ForgetOK(s)'
      <3>1. ASSUME NEW q \in O
            PROVE  \/ \E i \in Positions(s)' : Unread(s, i)' /\ out'[s][i].req = q
                   \/ q \in table[s] \cup lost
                   \/ q.id \in WrittenIds(s)
        <4>1. CASE \E i \in Positions(s) : Unread(s, i) /\ out[s][i].req = q
          BY <2>1, <4>1 DEF Unread
        <4> QED BY <1>t, <4>1 DEF SessionOK, ForgetOK
      <3>2. ASSUME NEW i \in Positions(s)'
            PROVE  /\ out'[s][i].type = "resolved" => out'[s][i].req \notin O
                   /\ out'[s][i].type = "completed" => out'[s][i].turn \in done'
        <4>1. CASE i = n
          BY <2>1, <4>1
        <4>2. CASE i # n
          <5>1. i \in Positions(s) /\ out'[s][i] = out[s][i]
            BY <2>1, <4>2
          <5>2. /\ out[s][i].type = "resolved" => out[s][i].req \notin open[s]
                /\ out[s][i].type = "completed" => out[s][i].turn \in done
            BY <1>t, <5>1 DEF SessionOK, ForgetOK
          <5>3. done \subseteq done'
            BY <1>y
          <5> QED BY <5>1, <5>2, <5>3
        <4> QED BY <4>1, <4>2
      <3>3. \A q \in O : q.turn \notin done'
        BY <1>y, <1>t DEF SessionOK, ForgetOK
      <3> QED BY <1>t, <2>w, <3>1, <3>2, <3>3 DEF ForgetOK
    <2> QED BY <1>7, <2>3, <2>4, <2>5, <2>6, <2>7 DEF SessionOK
  <1> QED BY <1>6, <1>7

LEMMA CloseOK ==
    ASSUME IInv, TypeInv', NEW s \in Sessions, Close(s), NEW u \in Sessions
    PROVE  SessionOK(u)'
  <1>1. PICK r \in open[s] :
          /\ open' = [open EXCEPT ![s] = @ \ {r}]
          /\ \/ Say(s, [type |-> "resolved", req |-> r])
             \/ r.id \in WrittenIds(s) /\ UNCHANGED out
    BY DEF Close
  <1>2. UNCHANGED <<asked, done, received, table, seen, lost>>
    BY DEF Close, tableVars
  <1>t. TypeInv /\ SessionOK(s) /\ r \in Requests /\ open'[s] = open[s] \ {r}
    BY <1>1 DEF IInv, TypeInv
  <1>3. CASE Say(s, [type |-> "resolved", req |-> r])
    <2> DEFINE line == [type |-> "resolved", req |-> r]
               O == open[s] \ {r}
    <2>1. line \in Lines /\ line.type = "resolved" /\ line.req = r
      BY <1>t DEF Lines
    <2>2. open' = [open EXCEPT ![s] = O] /\ O \in SUBSET open[s] /\ Say(s, line)
      BY <1>1, <1>3
    <2>3. \A q \in open[s] \ O : Closes(line, q)
      BY <2>1 DEF Closes
    <2>4. line.req \in open[s] \ O
      BY <2>1
    <2> HIDE DEF line, O
    <2> QED BY <1>2, <2>1, <2>2, <2>3, <2>4, ClosingOK
  <1>4. CASE r.id \in WrittenIds(s) /\ UNCHANGED out
    <2>1. CASE u # s
      <3>1. Same(u)
        BY <1>1, <1>2, <1>4, <1>t, <2>1 DEF Same, TypeInv
      <3> QED BY <3>1, SameOK
    <2>2. CASE u = s
      <3>w. WrittenIds(s)' = WrittenIds(s)
        BY <1>2 DEF WrittenIds
      <3>1. NumberOK(s)'
        <4>1. \A q \in Requests : Knows(s, q)' => Knows(s, q)
          BY <1>2, <1>4, <1>t DEF Knows, Positions
        <4> QED BY <1>2, <1>t, <4>1 DEF SessionOK, NumberOK
      <3>2. WaitOK(s)' /\ MeantOK(s)'
        BY <1>2, <1>4, <1>t, <3>w, SMTT(30) DEF SessionOK, WaitOK, MeantOK, Unread, Positions
      <3>3. FollowOK(s)'
        <4>1. r \notin table[s] /\ \A i \in Positions(s) : Unread(s, i) => out[s][i].req # r
          BY <1>4, <1>t DEF SessionOK, WaitOK
        <4> QED BY <1>2, <1>4, <1>t, <4>1 DEF SessionOK, FollowOK, Unread, Positions
      <3>4. ForgetOK(s)'
        BY <1>2, <1>4, <1>t, <3>w DEF SessionOK, ForgetOK, Unread, Positions
      <3> QED BY <2>2, <3>1, <3>2, <3>3, <3>4 DEF SessionOK
    <2> QED BY <2>1, <2>2
  <1> QED BY <1>1, <1>3, <1>4

LEMMA CompleteTurnOK ==
    ASSUME IInv, TypeInv', NEW s \in Sessions, CompleteTurn(s), NEW u \in Sessions
    PROVE  SessionOK(u)'
  <1>1. PICK turn \in Turns \ done :
          /\ turn.sess = s /\ done' = done \cup {turn}
          /\ open' = [open EXCEPT ![s] = {r \in @ : r.turn # turn}]
          /\ Say(s, [type |-> "completed", turn |-> turn])
    BY DEF CompleteTurn
  <1>2. UNCHANGED <<asked, received, table, seen, lost>>
    BY DEF CompleteTurn, tableVars
  <1> DEFINE line == [type |-> "completed", turn |-> turn]
             O == {r \in open[s] : r.turn # turn}
  <1>3. line \in Lines /\ line.type = "completed" /\ line.turn = turn
    BY DEF Lines
  <1>4. open' = [open EXCEPT ![s] = O] /\ O \in SUBSET open[s] /\ Say(s, line)
    BY <1>1
  <1>5. \A q \in open[s] \ O : Closes(line, q)
    BY <1>3 DEF Closes
  <1>6. \A q \in O : q.turn # turn
    OBVIOUS
  <1> HIDE DEF line, O
  <1> QED BY <1>1, <1>2, <1>3, <1>4, <1>5, <1>6, ClosingOK

-----------------------------------------------------------------------------
(* The reader's steps.                                                     *)

\* The lines after the one that is read move up.
LEMMA ReadIs ==
    ASSUME TypeInv, NEW s \in Sessions, NEW type, Reads(s, type)
    PROVE  /\ 1 \in Positions(s) /\ Head(out[s]) = out[s][1] /\ out[s][1].type = type
           /\ \A i \in Positions(s)' : i \in Nat /\ i + 1 \in Positions(s) /\ out'[s][i] = out[s][i + 1]
           /\ \A i \in Positions(s) : i # 1 =>
                 \E k \in Positions(s)' : i = k + 1 /\ out'[s][k] = out[s][i]
           /\ \A v \in Sessions : v # s => out'[v] = out[v]
  <1>1. /\ Len(out[s]) \in Nat /\ Len(out[s]) >= 1 /\ Len(out'[s]) = Len(out[s]) - 1
        /\ Head(out[s]) = out[s][1] /\ out[s][1].type = type
        /\ \A i \in 1 .. Len(out'[s]) : out'[s][i] = out[s][i + 1]
        /\ \A v \in Sessions : v # s => out'[v] = out[v]
    <2>1. out \in [Sessions -> Seq(Lines)]
      BY DEF TypeInv
    <2> QED BY <2>1, ReadsIs
  <1>2. \A i \in Positions(s) : i # 1 => \E k \in Positions(s)' : i = k + 1 /\ out'[s][k] = out[s][i]
    <2> SUFFICES ASSUME NEW i \in Positions(s), i # 1
                 PROVE  \E k \in Positions(s)' : i = k + 1 /\ out'[s][k] = out[s][i]
      OBVIOUS
    <2>1. i - 1 \in Positions(s)' /\ i = (i - 1) + 1 /\ i - 1 \in 1 .. Len(out'[s])
      BY <1>1 DEF Positions
    <2>2. out'[s][i - 1] = out[s][i]
      BY <1>1, <2>1
    <2> QED BY <2>1, <2>2
  <1> QED BY <1>1, <1>2 DEF Positions

\* What holds of the lines that are left, whatever becomes of the one that was read.
LEMMA LeftKnown ==
    ASSUME TypeInv, NEW s \in Sessions, NEW type, Reads(s, type), NEW q,
           \E i \in Positions(s)' : out'[s][i].type # "completed" /\ out'[s][i].req = q
    PROVE  Knows(s, q)
  BY ReadIs DEF Knows

\* A request that was read is known by nothing else, and its end is still to come.
LEMMA TakenIs ==
    ASSUME IInv, NEW s \in Sessions, Reads(s, "request")
    PROVE  LET r == out[s][1].req IN
           /\ r \in Requests /\ Knows(s, r) /\ r.sess = s /\ r.id <= asked[s] /\ Head(out[s]).req = r
           /\ r.id \notin WrittenIds(s)
           /\ \A q \in table[s] : q.id # r.id
           /\ \A i \in Positions(s)' : Unread(s, i)' => out'[s][i].req.id # r.id
           /\ r \in open[s] \/ \E i \in Positions(s)' : Closes(out'[s][i], r)
  <1> DEFINE r == out[s][1].req
  <1>t. TypeInv /\ SessionOK(s)
    BY DEF IInv
  <1>1. /\ 1 \in Positions(s) /\ Head(out[s]) = out[s][1] /\ out[s][1].type = "request"
        /\ \A i \in Positions(s)' : i \in Nat /\ i + 1 \in Positions(s) /\ out'[s][i] = out[s][i + 1]
        /\ \A i \in Positions(s) : i # 1 =>
              \E k \in Positions(s)' : i = k + 1 /\ out'[s][k] = out[s][i]
    BY <1>t, ReadIs
  <1>2. Unread(s, 1) /\ r \in Requests /\ Knows(s, r)
    BY <1>t, <1>1, UnreadKnown DEF Unread
  <1>3. r.sess = s /\ r.id <= asked[s]
    BY <1>t, <1>2, KnownIs DEF SessionOK
  <1>4. r.id \notin WrittenIds(s) /\ \A q \in table[s] : q.id # r.id
    BY <1>t, <1>1, <1>2 DEF SessionOK, WaitOK
  <1>5. ASSUME NEW i \in Positions(s)', Unread(s, i)' PROVE out'[s][i].req.id # r.id
    <2>1. i + 1 \in Positions(s) /\ Unread(s, i + 1) /\ out'[s][i] = out[s][i + 1] /\ i + 1 # 1
      <3>1. i \in Nat /\ i # 0
        BY <1>1 DEF Positions
      <3> QED BY <1>1, <1>5, <3>1 DEF Unread
    <2> QED BY <1>t, <1>1, <1>2, <2>1 DEF SessionOK, WaitOK
  <1>6. r \in open[s] \/ \E i \in Positions(s)' : Closes(out'[s][i], r)
    <2>1. CASE \E j \in Positions(s) : 1 < j /\ Closes(out[s][j], r)
      <3>1. PICK j \in Positions(s) : 1 < j /\ Closes(out[s][j], r)
        BY <2>1
      <3> QED BY <1>1, <3>1
    <2> QED BY <1>t, <1>1, <1>2, <2>1 DEF SessionOK, FollowOK
  <1> QED BY <1>1, <1>2, <1>3, <1>4, <1>5, <1>6

LEMMA LeftFollow ==
    ASSUME TypeInv, NEW s \in Sessions, NEW type, Reads(s, type), FollowOK(s), open' = open
    PROVE  \A i \in Positions(s)' : Unread(s, i)' =>
              \/ out'[s][i].req \in open'[s]
              \/ \E j \in Positions(s)' : i < j /\ Closes(out'[s][j], out'[s][i].req)
  <1> SUFFICES ASSUME NEW i \in Positions(s)', Unread(s, i)', out'[s][i].req \notin open[s]
               PROVE  \E j \in Positions(s)' : i < j /\ Closes(out'[s][j], out'[s][i].req)
    OBVIOUS
  <1>1. /\ \A k \in Positions(s)' : k \in Nat /\ k + 1 \in Positions(s) /\ out'[s][k] = out[s][k + 1]
        /\ \A k \in Positions(s) : k # 1 =>
              \E l \in Positions(s)' : k = l + 1 /\ out'[s][l] = out[s][k]
    BY ReadIs
  <1>2. i \in Nat /\ i + 1 \in Positions(s) /\ Unread(s, i + 1) /\ out'[s][i] = out[s][i + 1]
    BY <1>1 DEF Unread
  <1>3. PICK j \in Positions(s) : i + 1 < j /\ Closes(out[s][j], out[s][i + 1].req)
    BY <1>2 DEF FollowOK
  <1>4. PICK l \in Positions(s)' : j = l + 1 /\ out'[s][l] = out[s][j]
    <2>1. j # 1
      BY <1>2, <1>3
    <2> QED BY <1>1, <2>1
  <1>5. i < l
    <2>1. l \in Nat
      BY <1>1
    <2> QED BY <1>2, <1>3, <1>4, <2>1
  <1> QED BY <1>2, <1>3, <1>4, <1>5

LEMMA WrittenOnce ==
    ASSUME TypeInv, NEW s \in Sessions, NEW id, id \notin WrittenIds(s),
           \A i, j \in 1 .. Len(received[s]) : received[s][i].id = received[s][j].id => i = j,
           \/ received' = received
           \/ /\ Len(received'[s]) = Len(received[s]) + 1 /\ Len(received[s]) \in Nat
              /\ \A i \in 1 .. Len(received[s]) : received'[s][i] = received[s][i]
              /\ received'[s][Len(received[s]) + 1].id = id
    PROVE  \A i, j \in 1 .. Len(received'[s]) : received'[s][i].id = received'[s][j].id => i = j
  <1>1. CASE received' = received
    BY <1>1
  <1>2. CASE /\ Len(received'[s]) = Len(received[s]) + 1 /\ Len(received[s]) \in Nat
             /\ \A i \in 1 .. Len(received[s]) : received'[s][i] = received[s][i]
             /\ received'[s][Len(received[s]) + 1].id = id
    <2> DEFINE n == Len(received[s])
    <2>1. \A i \in 1 .. Len(received'[s]) : i = n + 1 \/ (i \in 1 .. n /\ received'[s][i] = received[s][i])
      BY <1>2
    <2>2. \A i \in 1 .. n : received[s][i].id # id
      BY DEF WrittenIds
    <2>3. received'[s][n + 1].id = id
      BY <1>2
    <2> HIDE DEF n
    <2> QED BY <2>1, <2>2, <2>3 DEF n
  <1> QED BY <1>1, <1>2

LEMMA InsertOK ==
    ASSUME IInv, TypeInv', NEW s \in Sessions, Insert(s), NEW u \in Sessions
    PROVE  SessionOK(u)'
  <1> DEFINE r == out[s][1].req
  <1>t. TypeInv /\ SessionOK(s) /\ Reads(s, "request")
    BY DEF IInv, Insert
  <1>1. /\ r \in Requests /\ Knows(s, r) /\ r.sess = s /\ r.id <= asked[s] /\ Head(out[s]).req = r
        /\ r.id \notin WrittenIds(s)
        /\ \A q \in table[s] : q.id # r.id
        /\ \A i \in Positions(s)' : Unread(s, i)' => out'[s][i].req.id # r.id
        /\ r \in open[s] \/ \E i \in Positions(s)' : Closes(out'[s][i], r)
    BY <1>t, TakenIs
  <1>2. table' = [table EXCEPT ![s] = @ \cup {r}] /\ seen' = seen \cup {r}
    BY <1>1 DEF Insert
  <1>3. UNCHANGED <<open, asked, done, received, lost>>
    BY DEF Insert, serverVars
  <1>4. /\ 1 \in Positions(s) /\ out[s][1].type = "request"
        /\ \A i \in Positions(s)' : i \in Nat /\ i + 1 \in Positions(s) /\ out'[s][i] = out[s][i + 1]
        /\ \A i \in Positions(s) : i # 1 =>
              \E k \in Positions(s)' : i = k + 1 /\ out'[s][k] = out[s][i]
        /\ \A v \in Sessions : v # s => out'[v] = out[v]
    BY <1>t, ReadIs
  <1>5. table'[s] = table[s] \cup {r} /\ WrittenIds(s)' = WrittenIds(s)
    BY <1>2, <1>3, <1>t DEF TypeInv, WrittenIds
  <1> HIDE DEF r
  <1>6. CASE u # s
    <2>1. table'[u] = table[u] /\ \A q \in Requests : q.sess = u => (q \in seen' <=> q \in seen)
      BY <1>1, <1>2, <1>6, <1>t DEF TypeInv
    <2>2. Same(u)
      BY <1>3, <1>4, <1>6, <2>1 DEF Same
    <2> QED BY <2>2, SameOK
  <1>7. CASE u = s
    <2>u. \A i \in Positions(s)' : Unread(s, i)' =>
             i \in Nat /\ i + 1 \in Positions(s) /\ Unread(s, i + 1) /\ out'[s][i] = out[s][i + 1]
      BY <1>4 DEF Unread
    <2>1. NumberOK(s)'
      <3>1. \A q \in Requests : Knows(s, q)' => Knows(s, q)
        <4> SUFFICES ASSUME NEW q \in Requests, Knows(s, q)' PROVE Knows(s, q)
          OBVIOUS
        <4>1. CASE \E i \in Positions(s)' : out'[s][i].type # "completed" /\ out'[s][i].req = q
          BY <1>t, <4>1, LeftKnown
        <4>2. CASE q \in open'[s] \cup table'[s] \/ (q \in seen' /\ q.sess = s)
          BY <1>1, <1>2, <1>3, <1>5, <4>2 DEF Knows
        <4> QED BY <4>1, <4>2 DEF Knows
      <3> QED BY <1>3, <1>t, <3>1 DEF SessionOK, NumberOK
    <2>2. WaitOK(s)'
      <3>1. ASSUME NEW i \in Positions(s)', NEW j \in Positions(s)', Unread(s, i)', Unread(s, j)',
                   out'[s][i].req.id = out'[s][j].req.id
            PROVE  i = j
        <4>1. i + 1 = j + 1 /\ i \in Nat /\ j \in Nat
          BY <1>t, <2>u, <3>1 DEF SessionOK, WaitOK
        <4> QED BY <4>1
      <3>2. ASSUME NEW i \in Positions(s)', Unread(s, i)'
            PROVE  /\ out'[s][i].req.id \notin WrittenIds(s)
                   /\ \A q \in table'[s] : q.id # out'[s][i].req.id
        BY <1>1, <1>5, <1>t, <2>u, <3>2 DEF SessionOK, WaitOK
      <3>3. \A q \in table'[s] : q.id \notin WrittenIds(s)
        BY <1>1, <1>5, <1>t DEF SessionOK, WaitOK
      <3> QED BY <1>3, <1>5, <1>t, <3>1, <3>2, <3>3 DEF SessionOK, WaitOK
    <2>3. MeantOK(s)'
      BY <1>3, <1>t DEF SessionOK, MeantOK
    <2>4. FollowOK(s)'
      <3>1. ASSUME NEW q \in table'[s]
            PROVE  q \in open[s] \/ \E i \in Positions(s)' : Closes(out'[s][i], q)
        <4>1. CASE q = r
          BY <1>1, <4>1
        <4>2. CASE q \in table[s] /\ q \notin open[s]
          <5>1. PICK i \in Positions(s) : Closes(out[s][i], q)
            BY <1>t, <4>2 DEF SessionOK, FollowOK
          <5>2. i # 1
            BY <1>4, <5>1 DEF Closes
          <5> QED BY <1>4, <5>1, <5>2
        <4> QED BY <1>5, <4>1, <4>2
      <3> QED BY <1>3, <3>1, <1>t, LeftFollow DEF SessionOK, FollowOK
    <2>5. ForgetOK(s)'
      <3>1. ASSUME NEW q \in open[s]
            PROVE  \/ \E i \in Positions(s)' : Unread(s, i)' /\ out'[s][i].req = q
                   \/ q \in table'[s] \cup lost
                   \/ q.id \in WrittenIds(s)
        <4>1. CASE \E i \in Positions(s) : Unread(s, i) /\ out[s][i].req = q
          <5>1. PICK i \in Positions(s) : Unread(s, i) /\ out[s][i].req = q
            BY <4>1
          <5>2. CASE i = 1
            BY <1>5, <5>1, <5>2 DEF r
          <5>3. CASE i # 1
            BY <1>4, <5>1, <5>3 DEF Unread
          <5> QED BY <5>2, <5>3
        <4> QED BY <1>5, <1>t, <4>1 DEF SessionOK, ForgetOK
      <3>2. \A i \in Positions(s)' :
              /\ out'[s][i].type = "resolved" => out'[s][i].req \notin open[s]
              /\ out'[s][i].type = "completed" => out'[s][i].turn \in done
        BY <1>4, <1>t DEF SessionOK, ForgetOK
      <3> QED BY <1>3, <1>5, <1>t, <3>1, <3>2 DEF SessionOK, ForgetOK
    <2> QED BY <1>7, <2>1, <2>2, <2>3, <2>4, <2>5 DEF SessionOK
  <1> QED BY <1>6, <1>7

LEMMA RefuseOK ==
    ASSUME IInv, TypeInv', NEW s \in Sessions, Refuse(s), NEW u \in Sessions
    PROVE  SessionOK(u)'
  <1> DEFINE r == out[s][1].req
             w == [id |-> r.id, body |-> "refused"]
  <1>t. TypeInv /\ SessionOK(s) /\ Reads(s, "request")
    BY DEF IInv, Refuse, Write
  <1>1. /\ r \in Requests /\ Knows(s, r) /\ r.sess = s /\ r.id <= asked[s] /\ Head(out[s]).req = r
        /\ r.id \notin WrittenIds(s)
        /\ \A q \in table[s] : q.id # r.id
        /\ \A i \in Positions(s)' : Unread(s, i)' => out'[s][i].req.id # r.id
    BY <1>t, TakenIs
  <1>2. (Send(s, w) /\ lost' = lost) \/ (lost' = lost \cup {r} /\ received' = received)
    BY <1>1 DEF Refuse, Write
  <1>3. UNCHANGED <<open, asked, done, table, seen>>
    BY DEF Refuse, Write, serverVars
  <1>4. /\ 1 \in Positions(s) /\ out[s][1].type = "request"
        /\ \A i \in Positions(s)' : i \in Nat /\ i + 1 \in Positions(s) /\ out'[s][i] = out[s][i + 1]
        /\ \A i \in Positions(s) : i # 1 =>
              \E k \in Positions(s)' : i = k + 1 /\ out'[s][k] = out[s][i]
        /\ \A v \in Sessions : v # s => out'[v] = out[v]
    BY <1>t, ReadIs
  <1>w. w \in Writes /\ w.id = r.id /\ w.body = "refused" /\ received \in [Sessions -> Seq(Writes)]
    BY <1>1, <1>t DEF Writes, Requests, TypeInv
  <1>r. \/ /\ r \in lost' /\ received' = received /\ WrittenIds(s)' = WrittenIds(s)
        \/ /\ lost' = lost /\ WrittenIds(s)' = WrittenIds(s) \cup {r.id}
           /\ Len(received'[s]) = Len(received[s]) + 1 /\ Len(received[s]) \in Nat
           /\ \A i \in 1 .. Len(received[s]) : received'[s][i] = received[s][i]
           /\ received'[s][Len(received[s]) + 1] = w
    <2>1. CASE Send(s, w) /\ lost' = lost
      <3> HIDE DEF w
      <3> QED BY <1>w, <2>1, SendIs
    <2>2. CASE lost' = lost \cup {r} /\ received' = received
      BY <2>2 DEF WrittenIds
    <2> QED BY <1>2, <2>1, <2>2
  <1> HIDE DEF r, w
  <1>6. CASE u # s
    <2>1. received'[u] = received[u]
      BY <1>2, <1>6, <1>w, SendIs
    <2>2. Same(u)
      BY <1>2, <1>3, <1>4, <1>6, <2>1 DEF Same
    <2> QED BY <2>2, SameOK
  <1>7. CASE u = s
    <2>u. \A i \in Positions(s)' : Unread(s, i)' =>
             i \in Nat /\ i + 1 \in Positions(s) /\ Unread(s, i + 1) /\ out'[s][i] = out[s][i + 1]
      BY <1>4 DEF Unread
    <2>1. NumberOK(s)'
      <3>1. \A q \in Requests : Knows(s, q)' => Knows(s, q)
        <4> SUFFICES ASSUME NEW q \in Requests, Knows(s, q)' PROVE Knows(s, q)
          OBVIOUS
        <4>1. CASE \E i \in Positions(s)' : out'[s][i].type # "completed" /\ out'[s][i].req = q
          BY <1>t, <4>1, LeftKnown
        <4>2. CASE q \in open'[s] \cup table'[s] \/ (q \in seen' /\ q.sess = s)
          BY <1>3, <4>2 DEF Knows
        <4> QED BY <4>1, <4>2 DEF Knows
      <3> QED BY <1>3, <1>t, <3>1 DEF SessionOK, NumberOK
    <2>2. WaitOK(s)'
      <3>1. ASSUME NEW i \in Positions(s)', NEW j \in Positions(s)', Unread(s, i)', Unread(s, j)',
                   out'[s][i].req.id = out'[s][j].req.id
            PROVE  i = j
        <4>1. i + 1 = j + 1 /\ i \in Nat /\ j \in Nat
          BY <1>t, <2>u, <3>1 DEF SessionOK, WaitOK
        <4> QED BY <4>1
      <3>2. ASSUME NEW i \in Positions(s)', Unread(s, i)'
            PROVE  /\ out'[s][i].req.id \notin WrittenIds(s)'
                   /\ \A q \in table[s] : q.id # out'[s][i].req.id
        <4>1. out'[s][i].req.id \notin WrittenIds(s) /\ \A q \in table[s] : q.id # out'[s][i].req.id
          BY <1>t, <2>u, <3>2 DEF SessionOK, WaitOK
        <4> QED BY <1>1, <1>r, <3>2, <4>1
      <3>3. \A q \in table[s] : q.id \notin WrittenIds(s)'
        BY <1>1, <1>r, <1>t DEF SessionOK, WaitOK
      <3>4. \A n \in WrittenIds(s)' : n <= asked[s]
        BY <1>1, <1>r, <1>t DEF SessionOK, WaitOK
      <3>5. \A i, j \in 1 .. Len(received[s]) : received[s][i].id = received[s][j].id => i = j
        BY <1>t DEF SessionOK, WaitOK
      <3>w. \/ received' = received
             \/ /\ Len(received'[s]) = Len(received[s]) + 1 /\ Len(received[s]) \in Nat
                /\ \A i \in 1 .. Len(received[s]) : received'[s][i] = received[s][i]
                /\ received'[s][Len(received[s]) + 1].id = r.id
        BY <1>w, <1>r
      <3>6. \A i, j \in 1 .. Len(received'[s]) : received'[s][i].id = received'[s][j].id => i = j
        BY <1>1, <1>t, <3>5, <3>w, WrittenOnce
      <3> QED BY <1>3, <3>1, <3>2, <3>3, <3>4, <3>6 DEF WaitOK
    <2>3. MeantOK(s)'
      <3> SUFFICES ASSUME NEW i \in 1 .. Len(received'[s]), received'[s][i].body # "refused"
                   PROVE  i \in 1 .. Len(received[s]) /\ received'[s][i] = received[s][i]
        BY <1>t DEF SessionOK, MeantOK
      <3>1. CASE received' = received
        BY <3>1
      <3>2. CASE received' # received
        <4>1. /\ Len(received'[s]) = Len(received[s]) + 1 /\ Len(received[s]) \in Nat
              /\ \A k \in 1 .. Len(received[s]) : received'[s][k] = received[s][k]
              /\ received'[s][Len(received[s]) + 1] = w
          BY <1>r, <3>2
        <4>2. i # Len(received[s]) + 1
          BY <1>w, <4>1
        <4> QED BY <4>1, <4>2
      <3> QED BY <3>1, <3>2
    <2>4. FollowOK(s)'
      <3>1. ASSUME NEW q \in table[s]
            PROVE  q \in open[s] \/ \E i \in Positions(s)' : Closes(out'[s][i], q)
        <4>2. CASE q \notin open[s]
          <5>1. PICK i \in Positions(s) : Closes(out[s][i], q)
            BY <1>t, <4>2 DEF SessionOK, FollowOK
          <5>2. i # 1
            BY <1>4, <5>1 DEF Closes
          <5> QED BY <1>4, <5>1, <5>2
        <4> QED BY <4>2
      <3> QED BY <1>3, <3>1, <1>t, LeftFollow DEF SessionOK, FollowOK
    <2>5. ForgetOK(s)'
      <3>1. ASSUME NEW q \in open[s]
            PROVE  \/ \E i \in Positions(s)' : Unread(s, i)' /\ out'[s][i].req = q
                   \/ q \in table[s] \cup lost'
                   \/ q.id \in WrittenIds(s)'
        <4>1. CASE \E i \in Positions(s) : Unread(s, i) /\ out[s][i].req = q
          <5>1. PICK i \in Positions(s) : Unread(s, i) /\ out[s][i].req = q
            BY <4>1
          <5>2. CASE i = 1
            BY <1>r, <5>1, <5>2 DEF r
          <5>3. CASE i # 1
            BY <1>4, <5>1, <5>3 DEF Unread
          <5> QED BY <5>2, <5>3
        <4>2. CASE q \in table[s] \cup lost \/ q.id \in WrittenIds(s)
          BY <1>2, <1>r, <4>2
        <4> QED BY <1>t, <4>1, <4>2 DEF SessionOK, ForgetOK
      <3>2. \A i \in Positions(s)' :
              /\ out'[s][i].type = "resolved" => out'[s][i].req \notin open[s]
              /\ out'[s][i].type = "completed" => out'[s][i].turn \in done
        BY <1>4, <1>t DEF SessionOK, ForgetOK
      <3> QED BY <1>3, <1>t, <3>1, <3>2 DEF SessionOK, ForgetOK
    <2> QED BY <1>7, <2>1, <2>2, <2>3, <2>4, <2>5 DEF SessionOK
  <1> QED BY <1>6, <1>7

\* The reader takes entries that the line it read closes, or that the app-server closed before.
LEMMA ClearingOK ==
    ASSUME IInv, TypeInv', NEW s \in Sessions, NEW type, Reads(s, type), type # "request",
           NEW T \in SUBSET table[s], table' = [table EXCEPT ![s] = T],
           \A q \in table[s] \ T : q \notin open[s],
           \A q \in T : ~Closes(out[s][1], q),
           UNCHANGED <<open, asked, done, received, seen, lost>>,
           NEW u \in Sessions
    PROVE  SessionOK(u)'
  <1>t. TypeInv /\ SessionOK(s) /\ table'[s] = T
    BY DEF IInv, TypeInv
  <1>4. /\ 1 \in Positions(s) /\ out[s][1].type = type
        /\ \A i \in Positions(s)' : i \in Nat /\ i + 1 \in Positions(s) /\ out'[s][i] = out[s][i + 1]
        /\ \A i \in Positions(s) : i # 1 =>
              \E k \in Positions(s)' : i = k + 1 /\ out'[s][k] = out[s][i]
        /\ \A v \in Sessions : v # s => out'[v] = out[v]
    BY <1>t, ReadIs
  <1>w. WrittenIds(s)' = WrittenIds(s)
    BY DEF WrittenIds
  <1>6. CASE u # s
    <2>1. Same(u)
      BY <1>4, <1>6, <1>t DEF Same, TypeInv
    <2> QED BY <2>1, SameOK
  <1>7. CASE u = s
    <2>u. \A i \in Positions(s)' : Unread(s, i)' =>
             i \in Nat /\ i + 1 \in Positions(s) /\ Unread(s, i + 1) /\ out'[s][i] = out[s][i + 1]
      BY <1>4 DEF Unread
    <2>1. NumberOK(s)'
      <3>1. \A q \in Requests : Knows(s, q)' => Knows(s, q)
        <4> SUFFICES ASSUME NEW q \in Requests, Knows(s, q)' PROVE Knows(s, q)
          OBVIOUS
        <4>1. CASE \E i \in Positions(s)' : out'[s][i].type # "completed" /\ out'[s][i].req = q
          BY <1>t, <4>1, LeftKnown
        <4>2. CASE q \in open'[s] \cup table'[s] \/ (q \in seen' /\ q.sess = s)
          BY <1>t, <4>2 DEF Knows
        <4> QED BY <4>1, <4>2 DEF Knows
      <3> QED BY <1>t, <3>1 DEF SessionOK, NumberOK
    <2>2. WaitOK(s)'
      <3>1. ASSUME NEW i \in Positions(s)', NEW j \in Positions(s)', Unread(s, i)', Unread(s, j)',
                   out'[s][i].req.id = out'[s][j].req.id
            PROVE  i = j
        <4>1. i + 1 = j + 1 /\ i \in Nat /\ j \in Nat
          BY <1>t, <2>u, <3>1 DEF SessionOK, WaitOK
        <4> QED BY <4>1
      <3>2. ASSUME NEW i \in Positions(s)', Unread(s, i)'
            PROVE  /\ out'[s][i].req.id \notin WrittenIds(s)
                   /\ \A q \in T : q.id # out'[s][i].req.id
        BY <1>t, <2>u, <3>2 DEF SessionOK, WaitOK
      <3> QED BY <1>t, <1>w, <3>1, <3>2 DEF SessionOK, WaitOK
    <2>3. MeantOK(s)'
      BY <1>t DEF SessionOK, MeantOK
    <2>4. FollowOK(s)'
      <3>1. ASSUME NEW q \in T
            PROVE  q \in open[s] \/ \E i \in Positions(s)' : Closes(out'[s][i], q)
        <4>1. CASE q \notin open[s]
          <5>1. PICK i \in Positions(s) : Closes(out[s][i], q)
            BY <1>t, <4>1 DEF SessionOK, FollowOK
          <5> QED BY <1>4, <5>1
        <4> QED BY <4>1
      <3> QED BY <3>1, <1>t, LeftFollow DEF SessionOK, FollowOK
    <2>5. ForgetOK(s)'
      <3>1. ASSUME NEW q \in open[s]
            PROVE  \/ \E i \in Positions(s)' : Unread(s, i)' /\ out'[s][i].req = q
                   \/ q \in T \cup lost
                   \/ q.id \in WrittenIds(s)
        <4>1. CASE \E i \in Positions(s) : Unread(s, i) /\ out[s][i].req = q
          BY <1>4, <4>1 DEF Unread
        <4> QED BY <1>t, <4>1 DEF SessionOK, ForgetOK
      <3>2. \A i \in Positions(s)' :
              /\ out'[s][i].type = "resolved" => out'[s][i].req \notin open[s]
              /\ out'[s][i].type = "completed" => out'[s][i].turn \in done
        BY <1>4, <1>t DEF SessionOK, ForgetOK
      <3> QED BY <1>w, <1>t, <3>1, <3>2 DEF SessionOK, ForgetOK
    <2> QED BY <1>7, <2>1, <2>2, <2>3, <2>4, <2>5 DEF SessionOK
  <1> QED BY <1>6, <1>7

LEMMA ResolvedOK ==
    ASSUME IInv, TypeInv', NEW s \in Sessions, Resolved(s), NEW u \in Sessions
    PROVE  SessionOK(u)'
  <1> DEFINE q == out[s][1].req
             T == {r \in table[s] : r.id # q.id \/ r.turn.thread # q.turn.thread}
  <1>t. TypeInv /\ SessionOK(s) /\ Reads(s, "resolved")
    BY DEF IInv, Resolved
  <1>1. 1 \in Positions(s) /\ Head(out[s]) = out[s][1] /\ out[s][1].type = "resolved"
    BY <1>t, ReadIs
  <1>2. table' = [table EXCEPT ![s] = T] /\ UNCHANGED <<open, asked, done, received, seen, lost>>
    BY <1>1 DEF Resolved, serverVars
  <1>3. q \in Requests /\ Knows(s, q) /\ q \notin open[s]
    BY <1>1, <1>t, UnreadKnown DEF SessionOK, ForgetOK
  <1>4. \A r \in table[s] \ T : r \notin open[s]
    <2> SUFFICES ASSUME NEW r \in table[s], r.id = q.id PROVE r \notin open[s]
      OBVIOUS
    <2>1. r \in Requests /\ Knows(s, r)
      BY <1>t DEF TypeInv, Knows
    <2>2. r = q
      BY <1>3, <1>t, <2>1 DEF SessionOK, NumberOK
    <2> QED BY <1>3, <2>2
  <1>5. \A r \in T : ~Closes(out[s][1], r)
    BY <1>1 DEF Closes
  <1>6. T \in SUBSET table[s]
    OBVIOUS
  <1> HIDE DEF T
  <1> QED BY <1>t, <1>2, <1>4, <1>5, <1>6, ClearingOK

LEMMA CompletedOK ==
    ASSUME IInv, TypeInv', NEW s \in Sessions, Completed(s), NEW u \in Sessions
    PROVE  SessionOK(u)'
  <1> DEFINE turn == out[s][1].turn
             T == {r \in table[s] : r.turn.thread # turn.thread \/ r.turn # turn}
  <1>t. TypeInv /\ SessionOK(s) /\ Reads(s, "completed")
    BY DEF IInv, Completed
  <1>1. 1 \in Positions(s) /\ Head(out[s]) = out[s][1] /\ out[s][1].type = "completed"
    BY <1>t, ReadIs
  <1>2. table' = [table EXCEPT ![s] = T] /\ UNCHANGED <<open, asked, done, received, seen, lost>>
    BY <1>1 DEF Completed, Retained, serverVars
  <1>3. turn \in done
    BY <1>1, <1>t DEF SessionOK, ForgetOK
  <1>4. \A r \in table[s] \ T : r \notin open[s]
    BY <1>3, <1>t DEF SessionOK, ForgetOK
  <1>5. \A r \in T : ~Closes(out[s][1], r)
    BY <1>1 DEF Closes
  <1>6. T \in SUBSET table[s]
    OBVIOUS
  <1> HIDE DEF T
  <1> QED BY <1>t, <1>2, <1>4, <1>5, <1>6, ClearingOK

-----------------------------------------------------------------------------
(* Responses, and the steps that touch no request.                         *)

LEMMA RespondOK ==
    ASSUME IInv, TypeInv', NEW c \in Responders, Respond(c), NEW u \in Sessions
    PROVE  SessionOK(u)'
  <1>a. TypeInv
    BY DEF IInv
  <1>s. PICK s \in Sessions : \E r \in table[s], body \in Bodies : Answers(c, s, r, body)
    BY <1>a, RespondIs
  <1>r. PICK r \in table[s], body \in Bodies : Answers(c, s, r, body)
    BY <1>s
  <1> DEFINE q == reply[c].req
             w == [id |-> r.id, body |-> body, meant |-> q]
  <1>t. SessionOK(s) /\ r \in Requests /\ Knows(s, r)
    BY <1>a DEF IInv, TypeInv, Knows
  <1>1. /\ reply[c] # NoReply /\ q \in Requests
        /\ r.id = q.id /\ r.turn = q.turn /\ Fits(r, body)
        /\ table' = [table EXCEPT ![s] = @ \ {r}]
        /\ (Send(s, w) /\ lost' = lost) \/ (lost' = lost \cup {r} /\ received' = received)
        /\ UNCHANGED <<open, asked, done, out, seen>>
    BY <1>r DEF Answers, Accepts, Matches, Replies, serverVars
  <1>2. r = q
    <2>1. q \in seen
      BY <1>1 DEF IInv, SeenInv
    <2>2. q.turn.sess = q.sess
      <3>1. SessionOK(q.sess) /\ q.sess \in Sessions /\ Knows(q.sess, q)
        BY <1>1, <2>1 DEF IInv, Requests, Knows
      <3> QED BY <1>a, <1>1, <3>1, KnownIs DEF SessionOK
    <2>3. r.turn.sess = s
      BY <1>a, <1>t, KnownIs DEF SessionOK
    <2>4. Knows(s, q)
      BY <1>1, <2>1, <2>2, <2>3 DEF Knows
    <2> QED BY <1>t, <1>1, <2>4 DEF SessionOK, NumberOK
  <1>3. r.sess = s /\ r.id <= asked[s] /\ r.id \notin WrittenIds(s)
    BY <1>a, <1>t, KnownIs DEF SessionOK, WaitOK
  <1>w. /\ w \in Writes /\ w.id = r.id /\ w.meant = r /\ w.body = body
        /\ received \in [Sessions -> Seq(Writes)]
    BY <1>1, <1>2, <1>t, <1>a DEF Writes, Requests, TypeInv
  <1>n. \/ /\ r \in lost' /\ received' = received /\ WrittenIds(s)' = WrittenIds(s)
        \/ /\ lost' = lost /\ WrittenIds(s)' = WrittenIds(s) \cup {r.id}
           /\ Len(received'[s]) = Len(received[s]) + 1 /\ Len(received[s]) \in Nat
           /\ \A i \in 1 .. Len(received[s]) : received'[s][i] = received[s][i]
           /\ received'[s][Len(received[s]) + 1] = w
    <2>1. CASE Send(s, w) /\ lost' = lost
      <3> HIDE DEF w
      <3> QED BY <1>w, <2>1, SendIs
    <2>2. CASE lost' = lost \cup {r} /\ received' = received
      BY <2>2 DEF WrittenIds
    <2> QED BY <1>1, <2>1, <2>2
  <1> HIDE DEF w, q
  <1>5. table'[s] = table[s] \ {r}
    BY <1>1, <1>a DEF TypeInv
  <1>6. CASE u # s
    <2>1. received'[u] = received[u]
      BY <1>1, <1>6, <1>w, SendIs
    <2>2. table'[u] = table[u]
      BY <1>1, <1>6, <1>a DEF TypeInv
    <2>3. Same(u)
      BY <1>1, <1>6, <2>1, <2>2 DEF Same
    <2> QED BY <2>3, SameOK
  <1>7. CASE u = s
    <2>p. Positions(s)' = Positions(s) /\ \A i : Unread(s, i)' <=> Unread(s, i)
      BY <1>1 DEF Positions, Unread
    <2>1. NumberOK(s)'
      <3>1. \A k \in Requests : Knows(s, k)' => Knows(s, k)
        BY <1>1, <1>5, <2>p DEF Knows
      <3> QED BY <1>1, <1>t, <3>1 DEF SessionOK, NumberOK
    <2>2. WaitOK(s)'
      <3>1. \A i \in Positions(s) : Unread(s, i) =>
              /\ out[s][i].req.id \notin WrittenIds(s)'
              /\ \A k \in table'[s] : k.id # out[s][i].req.id
        BY <1>5, <1>n, <1>t, <1>r DEF SessionOK, WaitOK
      <3>2. \A k \in table'[s] : k.id \notin WrittenIds(s)'
        <4> SUFFICES ASSUME NEW k \in table'[s] PROVE k.id \notin WrittenIds(s)'
          OBVIOUS
        <4>1. k \in table[s] /\ k # r /\ k \in Requests /\ Knows(s, k)
          BY <1>5, <1>a DEF TypeInv, Knows
        <4>2. k.id # r.id
          BY <1>t, <4>1 DEF SessionOK, NumberOK
        <4> QED BY <1>n, <1>t, <4>1, <4>2 DEF SessionOK, WaitOK
      <3>3. \A n \in WrittenIds(s)' : n <= asked[s]
        BY <1>3, <1>n, <1>t DEF SessionOK, WaitOK
      <3>4. \A i, j \in 1 .. Len(received[s]) : received[s][i].id = received[s][j].id => i = j
        BY <1>t DEF SessionOK, WaitOK
      <3>w. \/ received' = received
             \/ /\ Len(received'[s]) = Len(received[s]) + 1 /\ Len(received[s]) \in Nat
                /\ \A i \in 1 .. Len(received[s]) : received'[s][i] = received[s][i]
                /\ received'[s][Len(received[s]) + 1].id = r.id
        BY <1>w, <1>n
      <3>5. \A i, j \in 1 .. Len(received'[s]) : received'[s][i].id = received'[s][j].id => i = j
        BY <1>3, <1>a, <3>4, <3>w, WrittenOnce
      <3>6. \A i, j \in Positions(s) :
              Unread(s, i) /\ Unread(s, j) /\ out[s][i].req.id = out[s][j].req.id => i = j
        BY <1>t DEF SessionOK, WaitOK
      <3> QED BY <1>1, <2>p, <3>1, <3>2, <3>3, <3>5, <3>6 DEF WaitOK
    <2>3. MeantOK(s)'
      <3> SUFFICES ASSUME NEW i \in 1 .. Len(received'[s]), received'[s][i].body # "refused"
                   PROVE  /\ received'[s][i].meant.sess = s /\ received'[s][i].meant.id = received'[s][i].id
                          /\ Fits(received'[s][i].meant, received'[s][i].body)
        BY DEF MeantOK, Fits
      <3>1. CASE i \in 1 .. Len(received[s]) /\ received'[s][i] = received[s][i]
        BY <1>t, <3>1 DEF SessionOK, MeantOK
      <3>2. CASE received'[s][i] = w
        BY <1>1, <1>3, <1>w, <3>2
      <3> QED BY <1>n, <3>1, <3>2
    <2>4. FollowOK(s)'
      BY <1>1, <1>5, <1>t, <2>p DEF SessionOK, FollowOK
    <2>5. ForgetOK(s)'
      <3>1. ASSUME NEW k \in open[s]
            PROVE  \/ \E i \in Positions(s) : Unread(s, i) /\ out[s][i].req = k
                   \/ k \in table'[s] \cup lost'
                   \/ k.id \in WrittenIds(s)'
        BY <1>1, <1>5, <1>n, <1>t DEF SessionOK, ForgetOK
      <3> QED BY <1>1, <1>t, <2>p, <3>1 DEF SessionOK, ForgetOK
    <2> QED BY <1>7, <2>1, <2>2, <2>3, <2>4, <2>5 DEF SessionOK
  <1> QED BY <1>6, <1>7

LEMMA ElsewhereOK ==
    ASSUME IInv, TypeInv', Elsewhere, NEW u \in Sessions
    PROVE  SessionOK(u)'
  <1>1. UNCHANGED <<out, received, table, seen, lost, asked, open, done>>
    BY DEF Elsewhere, Finished, StartNext, ServerExits, MarkDead, Accept, Reject,
           vars, sessionVars, serverVars, wireVars, tableVars
  <1>2. Same(u)
    BY <1>1 DEF Same
  <1> QED BY <1>2, SameOK

\* The steps of a session's own app-server and reader.
Works(s) ==
    \/ AskUser(s) \/ Close(s) \/ CompleteTurn(s)
    \/ Refuse(s) \/ Insert(s) \/ Resolved(s) \/ Completed(s)

LEMMA NextIs ==
    ASSUME [Next]_vars
    PROVE  \/ Elsewhere
           \/ \E s \in Sessions : Works(s)
           \/ \E c \in Responders : Respond(c)
  BY DEF Next, Elsewhere, Works

LEMMA SeenStep ==
    ASSUME IInv, [Next]_vars
    PROVE  SeenInv'
  <1>t. TypeInv /\ SeenInv
    BY DEF IInv
  <1>1. ASSUME NEW c \in Responders, Accept(c) PROVE SeenInv'
    <2>1. PICK r \in seen : reply' = [reply EXCEPT ![c] = [req |-> r, sess |-> current]]
      BY <1>1 DEF Accept
    <2>2. seen' = seen
      BY <1>1 DEF Accept, tableVars
    <2> QED BY <1>t, <2>1, <2>2 DEF SeenInv, TypeInv
  <1>2. ASSUME NEW c \in Responders, Reject(c) \/ Respond(c) PROVE SeenInv'
    <2>1. reply' = [reply EXCEPT ![c] = NoReply] /\ seen' = seen
      BY <1>2 DEF Reject, Respond, Write, tableVars
    <2> QED BY <1>t, <2>1 DEF SeenInv, TypeInv
  <1>3. CASE reply' = reply /\ seen \subseteq seen'
    BY <1>t, <1>3 DEF SeenInv
  <1>4. ASSUME NEW s \in Sessions, Works(s) PROVE reply' = reply /\ seen \subseteq seen'
    BY <1>4 DEF Works, AskUser, Close, CompleteTurn, Refuse, Write, Insert, Resolved, Completed, tableVars
  <1>5. ASSUME Elsewhere PROVE SeenInv'
    <2>1. CASE \E c \in Responders : Accept(c) \/ Reject(c)
      BY <1>1, <1>2, <2>1
    <2>2. CASE Finished \/ StartNext \/ (\E s \in Sessions : ServerExits(s) \/ MarkDead(s)) \/ UNCHANGED vars
      BY <1>3, <2>2 DEF Finished, StartNext, ServerExits, MarkDead, vars, tableVars
    <2> QED BY <1>5, <2>1, <2>2 DEF Elsewhere
  <1> QED BY <1>2, <1>3, <1>4, <1>5, NextIs

LEMMA NextInv == IInv /\ [Next]_vars => IInv'
  <1> SUFFICES ASSUME IInv, [Next]_vars PROVE IInv'
    OBVIOUS
  <1>t. TypeInv
    BY DEF IInv
  <1>1. TypeInv'
    <2>1. ASSUME NEW s \in Sessions, Works(s) PROVE TypeInv'
      BY <1>t, <2>1, AskUserType, CloseType, CompleteTurnType, RefuseType, InsertType, ClearedType DEF Works
    <2> QED BY <1>t, <2>1, NextIs, ElsewhereType, RespondType
  <1>2. SeenInv'
    BY SeenStep
  <1>3. ASSUME NEW u \in Sessions PROVE SessionOK(u)'
    <2>1. ASSUME NEW s \in Sessions, Works(s) PROVE SessionOK(u)'
      BY <1>1, <2>1, AskUserOK, CloseOK, CompleteTurnOK, RefuseOK, InsertOK, ResolvedOK, CompletedOK DEF Works
    <2> QED BY <1>1, <2>1, NextIs, ElsewhereOK, RespondOK
  <1> QED BY <1>1, <1>2, <1>3 DEF IInv

-----------------------------------------------------------------------------
(* The theorems.                                                           *)

\* The invariant holds in every behaviour of the table and its readers and writers.
THEOREM Invariance == Spec => []IInv
  BY InitInv, NextInv, PTL DEF Spec

\* The types; the table never exceeds its capacity (insert in server_requests.rs).
THEOREM TypeCorrect == Spec => []TypeOK
  <1>1. IInv => TypeOK
    BY DEF IInv, TypeInv, TypeOK
  <1> QED BY <1>1, Invariance, PTL

\* One write at most for a request of the app-server, whoever answers and however often
\* (respond, and the refusals of receive).
THEOREM RepliesOnce == Spec => []AnsweredOnce
  <1>1. IInv => AnsweredOnce
    BY DEF IInv, SessionOK, WaitOK, AnsweredOnce
  <1> QED BY <1>1, Invariance, PTL

\* What is written answers the request its author saw, over any number of restarts
\* (validate_reply).
THEOREM RepliesAreMeant == Spec => []AnswerMeantForIt
  <1>1. IInv => AnswerMeantForIt
    BY DEF IInv, SessionOK, MeantOK, AnswerMeantForIt
  <1> QED BY <1>1, Invariance, PTL

\* The table holds what the app-server waits for, or the reader has yet to read otherwise
\* (observe_notification).
THEOREM TableFollows == Spec => []EntriesAreOpen
  <1>1. IInv => EntriesAreOpen
    BY DEF IInv, SessionOK, FollowOK, EntriesAreOpen, Positions
  <1> QED BY <1>1, Invariance, PTL

\* No request of the app-server is lost, except by a write that failed.
THEOREM NoneForgotten == Spec => []NothingForgotten
  <1>1. IInv => NothingForgotten
    <2> SUFFICES ASSUME IInv, NEW s \in Sessions, NEW r \in open[s]
                 PROVE  \/ \E i \in 1 .. Len(out[s]) : out[s][i] = [type |-> "request", req |-> r]
                        \/ r \in table[s] \cup lost
                        \/ r.id \in WrittenIds(s)
      BY DEF NothingForgotten
    <2>1. CASE \E i \in Positions(s) : Unread(s, i) /\ out[s][i].req = r
      <3>1. PICK i \in Positions(s) : Unread(s, i) /\ out[s][i].req = r
        BY <2>1
      <3>2. out[s][i] \in Lines /\ out[s][i].type = "request"
        BY <3>1, LineAt DEF IInv, Unread
      <3> QED BY <3>1, <3>2, LineType DEF Positions
    <2> QED BY <2>1 DEF IInv, SessionOK, ForgetOK
  <1> QED BY <1>1, Invariance, PTL
=============================================================================
