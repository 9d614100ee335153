-------------------------- MODULE EventStreamProofs --------------------------
(* EventStream implements NotificationLog: the proof, for any number of      *)
(* clients, runs, notifications and lost connections and any capacities.     *)
EXTENDS EventStream, TLAPS

-----------------------------------------------------------------------------
(* Sequences                                                                *)

LEMMA AppendFacts ==
  ASSUME NEW S, NEW s \in Seq(S), NEW x \in S
  PROVE  /\ Append(s, x) \in Seq(S) /\ Len(Append(s, x)) = Len(s) + 1
         /\ \A i \in 1 .. Len(s) : Append(s, x)[i] = s[i]
         /\ Append(s, x)[Len(s) + 1] = x /\ Append(s, x) # <<>>
         /\ Len(s) \in Nat
  OBVIOUS

LEMMA TailFacts ==
  ASSUME NEW S, NEW s \in Seq(S), s # <<>>
  PROVE  /\ Head(s) \in S /\ Head(s) = s[1]
         /\ Tail(s) \in Seq(S) /\ Len(Tail(s)) = Len(s) - 1
         /\ \A i \in 1 .. Len(s) - 1 : Tail(s)[i] = s[i + 1]
         /\ Len(s) \in Nat /\ Len(s) >= 1
  OBVIOUS

LEMMA PrefixFacts ==
  ASSUME NEW S, NEW s \in Seq(S), NEW m \in 0 .. Len(s)
  PROVE  /\ SubSeq(s, 1, m) \in Seq(S) /\ Len(SubSeq(s, 1, m)) = m
         /\ \A i \in 1 .. m : SubSeq(s, 1, m)[i] = s[i]
  OBVIOUS

LEMMA EmptyFacts ==
  ASSUME NEW S, NEW s \in Seq(S)
  PROVE  /\ Len(s) \in Nat /\ (s = <<>> <=> Len(s) = 0)
         /\ \A i \in 1 .. Len(s) : s[i] \in S
  OBVIOUS

LEMMA FunctionIsSeq ==
  ASSUME NEW S, NEW d \in Nat, NEW f \in [1 .. d -> S]
  PROVE  f \in Seq(S) /\ Len(f) = d
  OBVIOUS

LEMMA NotificationType ==
  \A n \in Nat : Notification(n) \in Messages /\ Notification(n).seq = n
                 /\ Notification(n).type = "notification"
  BY DEF Notification, Messages

-----------------------------------------------------------------------------
(* The store: the window is the end of the log                              *)

WindowInv ==
    /\ \A i \in 1 .. Len(retained) : retained[i] = tail[run] - Len(retained) + i
    /\ \A r \in Runs : r > run => tail[r] = 0

LEMMA StoreFacts ==
  StoreType => /\ run \in Nat /\ run >= 1 /\ run \in Runs /\ tail[run] \in Nat
               /\ retained \in Seq(Nat) /\ Len(retained) \in Nat
               /\ \A r \in Runs : r \in Nat /\ tail[r] \in Nat
  BY StreamAssumption DEF StoreType, Runs

LEMMA StoreInit == Init => StoreType /\ WindowInv
<1> SUFFICES ASSUME Init PROVE StoreType /\ WindowInv
  OBVIOUS
<1>1. 1 \in Runs
  BY StreamAssumption DEF Runs
<1>2. <<>> \in Seq(Nat) /\ Len(<<>>) = 0 /\ 0 <= MaxEvents
  BY StreamAssumption
<1> QED BY <1>1, <1>2 DEF Init, StoreType, WindowInv

LEMMA StoreFrame ==
  UNCHANGED storeVars => (StoreType => StoreType') /\ (WindowInv => WindowInv')
  BY DEF storeVars, StoreType, WindowInv

LEMMA PushStore == StoreType /\ WindowInv /\ Push => StoreType' /\ WindowInv'
<1> SUFFICES ASSUME StoreType, WindowInv, Push PROVE StoreType' /\ WindowInv'
  OBVIOUS
<1> DEFINE n == tail[run] + 1
           kept == Append(retained, n)
<1>1. /\ n \in Nat /\ run \in Runs /\ tail \in [Runs -> Nat] /\ run' = run
      /\ tail' = [tail EXCEPT ![run] = n] /\ retained' = Trimmed(kept)
      /\ retained \in Seq(Nat) /\ tail[run] \in Nat /\ n = tail[run] + 1
  BY StoreFacts DEF Push, StoreType
<1> HIDE DEF n
<1>2. /\ kept \in Seq(Nat) /\ Len(kept) = Len(retained) + 1 /\ Len(retained) \in Nat
      /\ \A i \in 1 .. Len(retained) : kept[i] = retained[i]
      /\ kept[Len(retained) + 1] = n /\ kept # <<>>
  BY <1>1, AppendFacts
<1> HIDE DEF kept
<1>3. \A i \in 1 .. Len(kept) : kept[i] = n - Len(kept) + i
  <2> SUFFICES ASSUME NEW i \in 1 .. Len(kept) PROVE kept[i] = n - Len(kept) + i
    OBVIOUS
  <2>1. CASE i = Len(retained) + 1
    BY <2>1, <1>1, <1>2
  <2>2. CASE i # Len(retained) + 1
    <3>1. i \in 1 .. Len(retained)
      BY <2>2, <1>2
    <3>2. kept[i] = tail[run] - Len(retained) + i
      BY <3>1, <1>2 DEF WindowInv
    <3> QED BY <3>1, <3>2, <1>1, <1>2
  <2> QED BY <2>1, <2>2
<1>4. /\ retained' \in Seq(Nat) /\ Len(retained') <= MaxEvents
      /\ \A i \in 1 .. Len(retained') : retained'[i] = n - Len(retained') + i
  <2>1. CASE Len(kept) > MaxEvents
    <3>1. retained' = Tail(kept)
      BY <1>1, <2>1 DEF Trimmed
    <3>2. /\ Tail(kept) \in Seq(Nat) /\ Len(Tail(kept)) = Len(kept) - 1
          /\ \A i \in 1 .. Len(kept) - 1 : Tail(kept)[i] = kept[i + 1]
      BY <1>2, TailFacts
    <3>3. Len(retained) <= MaxEvents /\ MaxEvents \in Nat
      BY StreamAssumption DEF StoreType
    <3>4. ASSUME NEW i \in 1 .. Len(kept) - 1
          PROVE  Tail(kept)[i] = n - (Len(kept) - 1) + i
      <4>1. i + 1 \in 1 .. Len(kept) /\ i \in Int
        BY <1>2
      <4>2. Tail(kept)[i] = n - Len(kept) + (i + 1)
        BY <4>1, <3>2, <1>3
      <4> QED BY <4>1, <4>2, <1>1, <1>2
    <3>5. Len(retained') = Len(kept) - 1 /\ retained' \in Seq(Nat)
      BY <3>1, <3>2
    <3>6. Len(retained') <= MaxEvents
      BY <3>3, <3>5, <1>2
    <3>7. \A i \in 1 .. Len(retained') : retained'[i] = n - Len(retained') + i
      BY <3>1, <3>4, <3>5
    <3> QED BY <3>5, <3>6, <3>7
  <2>2. CASE ~(Len(kept) > MaxEvents)
    <3>1. retained' = kept
      BY <1>1, <2>2 DEF Trimmed
    <3> QED BY <3>1, <2>2, <1>2, <1>3, StreamAssumption
  <2> QED BY <2>1, <2>2
<1>5. StoreType'
  BY <1>1, <1>4 DEF StoreType
<1>6. tail'[run'] = n /\ \A r \in Runs : r > run => tail'[r] = tail[r]
  BY <1>1, StoreFacts
<1>7. WindowInv'
  BY <1>1, <1>4, <1>6 DEF WindowInv
<1> QED BY <1>5, <1>7

LEMMA RestartStore == StoreType /\ WindowInv /\ Restart => StoreType' /\ WindowInv'
<1> SUFFICES ASSUME StoreType, WindowInv, Restart PROVE StoreType' /\ WindowInv'
  OBVIOUS
<1>1. run' = run + 1 /\ retained' = <<>> /\ tail' = tail /\ run' \in Runs
  BY StoreFacts, StreamAssumption DEF Restart, Runs
<1>2. <<>> \in Seq(Nat) /\ Len(<<>>) = 0 /\ 0 <= MaxEvents
  BY StreamAssumption
<1> QED BY <1>1, <1>2, StoreFacts DEF StoreType, WindowInv

-----------------------------------------------------------------------------
(* What a client gets when it connects                                      *)

LEMMA OldestInt == StoreType /\ WindowInv => Oldest \in Int /\ Oldest <= tail[run]
<1> SUFFICES ASSUME StoreType, WindowInv PROVE Oldest \in Int /\ Oldest <= tail[run]
  OBVIOUS
<1>1. CASE retained = <<>>
  BY <1>1, StoreFacts DEF Oldest
<1>2. CASE retained # <<>>
  <2>1. Len(retained) \in Nat /\ Len(retained) # 0
    BY <1>2, EmptyFacts, StoreFacts
  <2>2. retained[1] = tail[run] - Len(retained) + 1
    BY <2>1 DEF WindowInv
  <2> QED BY <2>1, <2>2, <1>2, StoreFacts DEF Oldest
<1> QED BY <1>1, <1>2

\* The part of the window after number n, when the window reaches back to n.
LEMMA BacklogIs ==
  ASSUME StoreType, WindowInv, NEW n \in Nat, n >= Oldest, n <= tail[run]
  PROVE  /\ Len(Backlog(n)) = tail[run] - n /\ Backlog(n) \in Seq(Messages)
         /\ \A j \in 1 .. tail[run] - n : Backlog(n)[j] = Notification(n + j)
<1> DEFINE L == Len(retained)
           k == n - (tail[run] - L) + 1
           First(i) == /\ \A j \in 1 .. i - 1 : retained[j] <= n
                       /\ \A j \in i .. Len(retained) : retained[j] > n
<1>1. L \in Nat /\ tail[run] \in Nat /\ \A j \in 1 .. L : retained[j] = tail[run] - L + j
  BY StoreFacts DEF WindowInv
<1>2. n >= tail[run] - L
  <2>1. CASE retained = <<>>
    BY <2>1, <1>1 DEF Oldest
  <2>2. CASE retained # <<>>
    <3>1. 1 \in 1 .. L
      BY <2>2, EmptyFacts, StoreFacts
    <3> QED BY <3>1, <2>2, <1>1 DEF Oldest
  <2> QED BY <2>1, <2>2
<1>3. k \in 1 .. L + 1
  BY <1>1, <1>2
<1>4. First(k)
  <2>1. ASSUME NEW j \in 1 .. k - 1 PROVE retained[j] <= n
    <3>1. j \in 1 .. L
      BY <1>1, <1>3
    <3>2. retained[j] = tail[run] - L + j
      BY <3>1, <1>1
    <3> QED BY <3>1, <3>2, <1>1
  <2>2. ASSUME NEW j \in k .. Len(retained) PROVE retained[j] > n
    <3>1. j \in 1 .. L
      BY <1>1, <1>3
    <3>2. retained[j] = tail[run] - L + j
      BY <3>1, <1>1
    <3> QED BY <3>1, <3>2, <1>1
  <2> QED BY <2>1, <2>2
<1>5. \A i \in 1 .. L + 1 : First(i) => i = k
  <2> SUFFICES ASSUME NEW i \in 1 .. L + 1, First(i), i # k PROVE FALSE
    OBVIOUS
  <2>1. CASE i < k
    <3>1. i \in 1 .. L /\ retained[i] = tail[run] - L + i
      BY <2>1, <1>1, <1>3
    <3> QED BY <3>1, <2>1, <1>1
  <2>2. CASE i > k
    <3>1. k \in 1 .. L /\ k \in 1 .. i - 1 /\ retained[k] = tail[run] - L + k
      BY <2>2, <1>1, <1>3, SMTT(30)
    <3> QED BY <3>1, <1>1, SMTT(30)
  <2> QED BY <2>1, <2>2, <1>1, <1>3
<1>6. FirstAfter(n) = k
  <2> HIDE DEF k
  <2>1. FirstAfter(n) = CHOOSE i \in 1 .. L + 1 : First(i)
    BY DEF FirstAfter
  <2> HIDE DEF First
  <2> QED BY <2>1, <1>3, <1>4, <1>5
<1>7. PICK m \in 1 .. L + 1 :
          m = k /\ m = n - (tail[run] - L) + 1 /\ L + 1 - m = tail[run] - n
  BY <1>1, <1>3
<1>8. Backlog(n) = [j \in 1 .. tail[run] - n |-> Notification(retained[m + j - 1])]
  <2> HIDE DEF k
  <2> QED BY <1>6, <1>7 DEF Backlog
<1>9. \A j \in 1 .. tail[run] - n : retained[m + j - 1] = n + j
  <2> HIDE DEF k, L
  <2> SUFFICES ASSUME NEW j \in 1 .. tail[run] - n PROVE retained[m + j - 1] = n + j
    OBVIOUS
  <2>1. m + j - 1 \in 1 .. L
    BY <1>1, <1>7
  <2>2. retained[m + j - 1] = tail[run] - L + (m + j - 1)
    BY <2>1, <1>1
  <2> QED BY <2>1, <2>2, <1>1, <1>7
<1>10. \A j \in 1 .. tail[run] - n : Notification(n + j) \in Messages
  BY NotificationType
<1>11. tail[run] - n \in Nat
  BY <1>1
<1>12. Backlog(n) \in [1 .. tail[run] - n -> Messages]
  BY <1>8, <1>9, <1>10
<1>13. Backlog(n) \in Seq(Messages) /\ Len(Backlog(n)) = tail[run] - n
  BY <1>11, <1>12, FunctionIsSeq
<1> QED BY <1>13, <1>8, <1>9
-----------------------------------------------------------------------------
(* What a connection holds: it takes its client from position p through run *)
(* r without a gap, up to number n at most.                                 *)

Consecutive(s) == \A i \in 1 .. Len(s) - 1 : s[i + 1] = Notification(s[i].seq + 1)
Bounded(s, n) == \A i \in 1 .. Len(s) : s[i].seq <= n
Before(p, r, n) == p # Nowhere /\ (p.run < r \/ (p.run = r /\ p.seq < n))
StartsAt(s, p, r) ==
    s # <<>> => IF s[1].type = "resync" THEN Before(p, r, s[1].seq)
                ELSE p \in {Nowhere, [run |-> r, seq |-> s[1].seq - 1]}
Flows(s, p, r, n) == Consecutive(s) /\ Bounded(s, n) /\ StartsAt(s, p, r)
\* Its last message, or the client if there is none, is at number n.
EndsAt(s, p, r, n) ==
    IF s = <<>> THEN p \in {Nowhere, [run |-> r, seq |-> n]}
    ELSE s[Len(s)].seq = n

LEMMA MessageFacts ==
  \A m \in Messages : m.seq \in Nat /\ m.type \in {"notification", "resync"}
  BY DEF Messages

LEMMA EmptyFlow == \A p, r, n : Flows(<<>>, p, r, n)
  BY DEF Flows, Consecutive, Bounded, StartsAt

LEMMA GrowFlow ==
  ASSUME NEW s \in Seq(Messages), NEW p, NEW r, NEW n \in Nat, Flows(s, p, r, n)
  PROVE  Flows(s, p, r, n + 1)
<1>1. \A i \in 1 .. Len(s) : s[i].seq \in Nat
  BY EmptyFacts, MessageFacts
<1> QED BY <1>1 DEF Flows, Bounded

LEMMA AppendFlow ==
  ASSUME NEW s \in Seq(Messages), NEW p, NEW r, NEW n \in Nat,
         Flows(s, p, r, n), EndsAt(s, p, r, n)
  PROVE  LET t == Append(s, Notification(n + 1)) IN
         Flows(t, p, r, n + 1) /\ EndsAt(t, p, r, n + 1)
<1> DEFINE t == Append(s, Notification(n + 1))
           L == Len(s)
<1>1. /\ Notification(n + 1) \in Messages /\ Notification(n + 1).seq = n + 1
      /\ Notification(n + 1).type = "notification"
  BY NotificationType
<1>2. /\ t \in Seq(Messages) /\ Len(t) = L + 1 /\ L \in Nat /\ t # <<>>
      /\ \A i \in 1 .. L : t[i] = s[i]
      /\ t[L + 1] = Notification(n + 1)
  BY <1>1, AppendFacts
<1>3. s = <<>> <=> L = 0
  BY EmptyFacts
<1> HIDE DEF t, L
<1>4. Consecutive(t)
  <2> SUFFICES ASSUME NEW i \in 1 .. Len(t) - 1
               PROVE  t[i + 1] = Notification(t[i].seq + 1)
    BY DEF Consecutive
  <2>1. CASE i = L
    <3>1. t[i] = s[i] /\ s # <<>>
      BY <2>1, <1>2, <1>3
    <3>2. s[L].seq = n
      BY <3>1 DEF EndsAt, L
    <3> QED BY <3>1, <3>2, <2>1, <1>2
  <2>2. CASE i # L
    <3>1. i \in 1 .. L - 1 /\ i \in 1 .. L /\ i + 1 \in 1 .. L
      BY <2>2, <1>2
    <3>2. s[i + 1] = Notification(s[i].seq + 1)
      BY <3>1 DEF Flows, Consecutive, L
    <3> QED BY <3>1, <3>2, <1>2
  <2> QED BY <2>1, <2>2
<1>5. Bounded(t, n + 1)
  <2> SUFFICES ASSUME NEW i \in 1 .. Len(t) PROVE t[i].seq <= n + 1
    BY DEF Bounded
  <2>1. CASE i = L + 1
    BY <2>1, <1>1, <1>2
  <2>2. CASE i # L + 1
    <3>1. i \in 1 .. L
      BY <2>2, <1>2
    <3>2. s[i].seq \in Nat /\ s[i].seq <= n
      BY <3>1, EmptyFacts, MessageFacts DEF Flows, Bounded, L
    <3> QED BY <3>1, <3>2, <1>2
  <2> QED BY <2>1, <2>2
<1>6. StartsAt(t, p, r)
  <2>1. CASE s = <<>>
    <3>1. t[1] = Notification(n + 1) /\ p \in {Nowhere, [run |-> r, seq |-> n]}
      BY <2>1, <1>2, <1>3 DEF EndsAt
    <3> QED BY <3>1, <1>1 DEF StartsAt
  <2>2. CASE s # <<>>
    <3>1. t[1] = s[1]
      BY <2>2, <1>2, <1>3
    <3> QED BY <3>1, <2>2 DEF Flows, StartsAt
  <2> QED BY <2>1, <2>2
<1>7. EndsAt(t, p, r, n + 1)
  BY <1>1, <1>2 DEF EndsAt
<1> QED BY <1>4, <1>5, <1>6, <1>7 DEF Flows, t

LEMMA TailFlow ==
  ASSUME NEW s \in Seq(Messages), s # <<>>, NEW p, NEW r, NEW n, Flows(s, p, r, n)
  PROVE  LET q == [run |-> r, seq |-> Head(s).seq] IN
         /\ Flows(Tail(s), q, r, n)
         /\ EndsAt(s, p, r, n) => EndsAt(Tail(s), q, r, n)
<1> DEFINE t == Tail(s)
           q == [run |-> r, seq |-> Head(s).seq]
           L == Len(s)
<1>1. /\ Head(s) = s[1] /\ t \in Seq(Messages) /\ Len(t) = L - 1
      /\ \A i \in 1 .. L - 1 : t[i] = s[i + 1]
      /\ L \in Nat /\ L >= 1
  BY TailFacts
<1>2. /\ t = <<>> <=> L = 1
      /\ \A i \in 1 .. L : s[i] \in Messages /\ s[i].seq \in Nat
  <2>1. t = <<>> <=> Len(t) = 0
    BY <1>1, EmptyFacts
  <2>2. \A i \in 1 .. L : s[i] \in Messages
    BY EmptyFacts
  <2> QED BY <2>1, <2>2, <1>1, MessageFacts
<1>3. /\ \A i \in 1 .. L - 1 : s[i + 1] = Notification(s[i].seq + 1)
      /\ \A i \in 1 .. L : s[i].seq <= n
  BY DEF Flows, Consecutive, Bounded
<1> HIDE DEF t, L
<1>4. Consecutive(t)
  <2> SUFFICES ASSUME NEW i \in 1 .. Len(t) - 1
               PROVE  t[i + 1] = Notification(t[i].seq + 1)
    BY DEF Consecutive
  <2>1. i \in 1 .. L - 1 /\ i + 1 \in 1 .. L - 1
    BY <1>1
  <2> QED BY <2>1, <1>1, <1>3
<1>5. Bounded(t, n)
  <2> SUFFICES ASSUME NEW i \in 1 .. Len(t) PROVE t[i].seq <= n
    BY DEF Bounded
  <2>1. i \in 1 .. L - 1 /\ i + 1 \in 1 .. L
    BY <1>1
  <2> QED BY <2>1, <1>1, <1>3
<1>6. StartsAt(t, q, r)
  <2> SUFFICES ASSUME t # <<>> PROVE StartsAt(t, q, r)
    BY DEF StartsAt
  <2>1. 1 \in 1 .. L - 1 /\ 1 \in 1 .. L
    BY <1>1, <1>2
  <2>2. t[1] = Notification(s[1].seq + 1) /\ s[1].seq \in Nat
    BY <2>1, <1>1, <1>2, <1>3
  <2>3. t[1].type = "notification" /\ t[1].seq - 1 = s[1].seq
    BY <2>2, NotificationType
  <2> QED BY <2>3, <1>1 DEF StartsAt
<1>7. EndsAt(s, p, r, n) => EndsAt(t, q, r, n)
  <2> SUFFICES ASSUME EndsAt(s, p, r, n) PROVE EndsAt(t, q, r, n)
    OBVIOUS
  <2>1. s[L].seq = n
    BY DEF EndsAt, L
  <2>2. CASE L = 1
    BY <2>1, <2>2, <1>1, <1>2 DEF EndsAt
  <2>3. CASE L # 1
    <3>1. L - 1 \in 1 .. L - 1 /\ (L - 1) + 1 = L
      BY <2>3, <1>1
    <3>2. t[L - 1] = s[L]
      BY <3>1, <1>1
    <3> QED BY <3>2, <2>1, <2>3, <1>1, <1>2 DEF EndsAt
  <2> QED BY <2>2, <2>3
<1> QED BY <1>4, <1>5, <1>6, <1>7 DEF Flows, t

LEMMA PrefixFlow ==
  ASSUME NEW s \in Seq(Messages), NEW m \in 0 .. Len(s), NEW p, NEW r, NEW n,
         Flows(s, p, r, n)
  PROVE  Flows(SubSeq(s, 1, m), p, r, n)
<1> DEFINE t == SubSeq(s, 1, m)
<1>1. /\ t \in Seq(Messages) /\ Len(t) = m /\ \A i \in 1 .. m : t[i] = s[i]
      /\ Len(s) \in Nat /\ m \in Nat /\ m <= Len(s)
  BY PrefixFacts, EmptyFacts
<1>2. (t = <<>> <=> m = 0) /\ (s = <<>> <=> Len(s) = 0)
  BY <1>1, EmptyFacts
<1> HIDE DEF t
<1>3. Consecutive(t)
  <2> SUFFICES ASSUME NEW i \in 1 .. Len(t) - 1
               PROVE  t[i + 1] = Notification(t[i].seq + 1)
    BY DEF Consecutive
  <2>1. i \in 1 .. m /\ i + 1 \in 1 .. m /\ i \in 1 .. Len(s) - 1
    BY <1>1
  <2> QED BY <2>1, <1>1 DEF Flows, Consecutive
<1>4. Bounded(t, n)
  BY <1>1 DEF Flows, Bounded
<1>5. StartsAt(t, p, r)
  <2> SUFFICES ASSUME t # <<>> PROVE StartsAt(t, p, r)
    BY DEF StartsAt
  <2>1. t[1] = s[1] /\ s # <<>>
    BY <1>1, <1>2
  <2> QED BY <2>1 DEF Flows, StartsAt
<1> QED BY <1>3, <1>4, <1>5 DEF Flows, t
-----------------------------------------------------------------------------
(* The invariant                                                            *)

CursorKnown(c) ==
    cursor[c] # Nowhere =>
        cursor[c].run <= run /\ cursor[c].seq <= tail[cursor[c].run]
\* A registered client will reach the end of the current log.
ClientOK(c) ==
    /\ stream[c] <= run
    /\ stream[c] = 0 => flow[c] = <<>> /\ ~listed[c]
    /\ Flows(flow[c], cursor[c], stream[c], tail[stream[c]])
    /\ listed[c] => stream[c] = run /\ EndsAt(flow[c], cursor[c], run, tail[run])
    /\ CursorKnown(c)
ClientInv == \A c \in Clients : ClientOK(c)

IInv == StoreType /\ WindowInv /\ ClientType /\ ClientInv

LEMMA OpeningIs ==
  ASSUME StoreType, WindowInv, ClientType, NEW c \in Clients, CursorKnown(c)
  PROVE  LET o == Opening(cursor[c]) IN
         /\ o \in Seq(Messages)
         /\ Flows(o, cursor[c], run, tail[run])
         /\ EndsAt(o, cursor[c], run, tail[run])
<1> DEFINE p == cursor[c]
           o == Opening(p)
           N == tail[run]
<1>1. /\ p \in {Nowhere} \cup [run : Runs, seq : Nat] /\ N \in Nat /\ run \in Nat
      /\ p # Nowhere => p.run \in Nat /\ p.seq \in Nat
      /\ p # Nowhere => p = [run |-> p.run, seq |-> p.seq]
  BY StoreFacts DEF ClientType, Runs
<1>2. CASE p = Nowhere
  <2>1. o = <<>>
    BY <1>2 DEF Opening
  <2>2. <<>> \in Seq(Messages)
    OBVIOUS
  <2> QED BY <2>1, <2>2, <1>2, EmptyFlow DEF EndsAt
<1>3. CASE p # Nowhere /\ Continues(p)
  <2> DEFINE n == p.seq
  <2>1. n \in Nat /\ p.run = run /\ n >= Oldest /\ n <= N /\ o = Backlog(n)
    BY <1>1, <1>3 DEF Continues, Opening
  <2>2. /\ Len(o) = N - n /\ o \in Seq(Messages)
        /\ \A j \in 1 .. N - n : o[j] = Notification(n + j)
    BY <2>1, BacklogIs
  <2>3. p = [run |-> run, seq |-> n]
    BY <1>1, <1>3, <2>1
  <2>4. o = <<>> <=> N - n = 0
    BY <2>2, EmptyFacts
  <2> HIDE DEF o, p, n, N
  <2>5. \A j \in 1 .. N - n : /\ o[j].seq = n + j /\ o[j].type = "notification"
                              /\ j \in Nat
    BY <2>1, <2>2, NotificationType
  <2>6. Consecutive(o)
    <3> SUFFICES ASSUME NEW i \in 1 .. Len(o) - 1
                 PROVE  o[i + 1] = Notification(o[i].seq + 1)
      BY DEF Consecutive
    <3>1. i \in 1 .. N - n /\ i + 1 \in 1 .. N - n
      BY <2>1, <2>2, <1>1
    <3>2. o[i + 1] = Notification(n + (i + 1)) /\ o[i].seq = n + i
      BY <3>1, <2>2, <2>5
    <3>3. n + (i + 1) = (n + i) + 1
      BY <3>1, <2>1
    <3> QED BY <3>2, <3>3
  <2>7. Bounded(o, N)
    BY <2>1, <2>2, <2>5, <1>1 DEF Bounded
  <2>8. CASE N - n = 0
    BY <2>3, <2>4, <2>6, <2>7, <2>8, <2>1, <2>2, <1>1 DEF Flows, StartsAt, EndsAt, o, p, N
  <2>9. CASE N - n # 0
    <3>1. 1 \in 1 .. N - n /\ N - n \in 1 .. N - n
      BY <2>9, <2>1, <1>1
    <3>2. o # <<>> /\ o[1].seq = n + 1 /\ o[1].type = "notification"
          /\ o[Len(o)].seq = n + (N - n)
      BY <3>1, <2>9, <2>2, <2>4, <2>5
    <3>3. StartsAt(o, p, run)
      BY <3>2, <2>1, <2>3 DEF StartsAt
    <3>4. EndsAt(o, p, run, N)
      BY <3>2, <2>1, <1>1 DEF EndsAt
    <3> QED BY <3>3, <3>4, <2>2, <2>6, <2>7 DEF Flows, o, p, N
  <2> QED BY <2>8, <2>9
<1>4. CASE p # Nowhere /\ ~Continues(p)
  <2> DEFINE m == [type |-> "resync", seq |-> N]
  <2>1. o = <<m>> /\ m \in Messages
    BY <1>1, <1>4 DEF Opening, Messages
  <2>2. o \in Seq(Messages) /\ Len(o) = 1 /\ o[1] = m /\ o # <<>>
    BY <2>1
  <2>3. p.run <= run /\ p.seq <= tail[p.run]
    BY <1>4 DEF CursorKnown
  <2>4. Before(p, run, N)
    <3>1. CASE p.run = run
      <4>1. p.seq < Oldest
        BY <3>1, <2>3, <1>1, <1>4, OldestInt DEF Continues
      <4> QED BY <4>1, <3>1, <1>1, <1>4, OldestInt DEF Before
    <3>2. CASE p.run # run
      BY <3>2, <2>3, <1>1, <1>4 DEF Before
    <3> QED BY <3>1, <3>2
  <2> HIDE DEF o, p, N
  <2>5. Consecutive(o) /\ Bounded(o, N) /\ StartsAt(o, p, run) /\ EndsAt(o, p, run, N)
    BY <2>2, <2>4, <1>1 DEF Consecutive, Bounded, StartsAt, EndsAt
  <2> QED BY <2>2, <2>5 DEF Flows, o, p, N
<1> QED BY <1>2, <1>3, <1>4
-----------------------------------------------------------------------------
(* Every action keeps it                                                    *)

LEMMA ClientFacts ==
  ASSUME ClientType, NEW c \in Clients
  PROVE  /\ listed[c] \in BOOLEAN /\ stream[c] \in Runs \cup {0}
         /\ flow[c] \in Seq(Messages) /\ Len(flow[c]) \in Nat
         /\ sent[c] \in Nat /\ left[c] \in Nat /\ sent[c] + left[c] <= Len(flow[c])
         /\ cursor[c] \in {Nowhere} \cup [run : Runs, seq : Nat]
         /\ losses[c] \in 0 .. MaxLosses
  BY DEF ClientType

LEMMA ClientInit == Init => ClientType /\ ClientInv
<1> SUFFICES ASSUME Init PROVE ClientType /\ ClientInv
  OBVIOUS
<1>1. <<>> \in Seq(Messages) /\ Len(<<>>) = 0
  OBVIOUS
<1>2. 0 \in 0 .. MaxLosses
  BY StreamAssumption
<1>3. ClientType
  BY <1>1, <1>2 DEF Init, ClientType
<1>4. ASSUME NEW c \in Clients PROVE ClientOK(c)
  BY EmptyFlow DEF Init, ClientOK, CursorKnown
<1> QED BY <1>3, <1>4 DEF ClientInv

\* A client that a step does not touch.
LEMMA OtherClient ==
  ASSUME NEW d \in Clients, ClientOK(d), run' = run, tail' = tail,
         listed'[d] = listed[d], stream'[d] = stream[d],
         flow'[d] = flow[d], cursor'[d] = cursor[d]
  PROVE  ClientOK(d)'
  BY DEF ClientOK, CursorKnown

LEMMA ClientFrame == UNCHANGED vars => (IInv => IInv')
  BY DEF vars, connVars, storeVars, IInv, StoreType, WindowInv, ClientType,
         ClientInv, ClientOK, CursorKnown

LEMMA PushClients == IInv /\ Push => ClientType' /\ ClientInv'
<1> SUFFICES ASSUME IInv, Push PROVE ClientType' /\ ClientInv'
  OBVIOUS
<1> USE DEF IInv
<1> DEFINE n == tail[run] + 1
<1>1. /\ run \in Runs /\ run \in Nat /\ run >= 1 /\ tail[run] \in Nat
      /\ tail \in [Runs -> Nat]
      /\ run' = run /\ tail' = [tail EXCEPT ![run] = n]
  BY StoreFacts DEF Push, StoreType
<1>2. ASSUME NEW c \in Clients
      PROVE  /\ stream'[c] = stream[c] /\ sent'[c] = sent[c] /\ left'[c] = left[c]
             /\ cursor'[c] = cursor[c]
             /\ listed'[c] <=> listed[c] /\ HasRoom(c)
             /\ flow'[c] = IF listed[c] /\ HasRoom(c)
                           THEN Append(flow[c], Notification(n)) ELSE flow[c]
  BY DEF Push, connVars, HasRoom
<1>3. ASSUME NEW c \in Clients
      PROVE  /\ Append(flow[c], Notification(n)) \in Seq(Messages)
             /\ Len(Append(flow[c], Notification(n))) = Len(flow[c]) + 1
  BY <1>1, ClientFacts, NotificationType, AppendFacts
<1>4. ASSUME NEW c \in Clients
      PROVE  flow'[c] \in Seq(Messages) /\ sent'[c] + left'[c] <= Len(flow'[c])
  <2> HIDE DEF n
  <2>1. CASE listed[c] /\ HasRoom(c)
    <3>1. /\ flow'[c] = Append(flow[c], Notification(n))
          /\ sent'[c] = sent[c] /\ left'[c] = left[c]
      BY <2>1, <1>2
    <3>2. Len(flow'[c]) = Len(flow[c]) + 1 /\ flow'[c] \in Seq(Messages)
      BY <3>1, <1>3
    <3>3. sent[c] \in Nat /\ left[c] \in Nat /\ Len(flow[c]) \in Nat
          /\ sent[c] + left[c] <= Len(flow[c])
      BY ClientFacts
    <3> QED BY <3>1, <3>2, <3>3
  <2>2. CASE ~(listed[c] /\ HasRoom(c))
    BY <2>2, <1>2, ClientFacts
  <2> QED BY <2>1, <2>2
<1>5. ClientType'
  <2>1. flow' \in [Clients -> Seq(Messages)]
    BY <1>4 DEF Push
  <2>2. listed' \in [Clients -> BOOLEAN]
    BY ClientFacts DEF Push, HasRoom
  <2> QED BY <2>1, <2>2, <1>4 DEF ClientType, Push, connVars
<1> HIDE DEF n, IInv
<1>6. ASSUME NEW c \in Clients PROVE ClientOK(c)'
  <2>1. /\ ClientOK(c) /\ flow[c] \in Seq(Messages) /\ stream[c] \in Runs \cup {0}
        /\ cursor[c] \in {Nowhere} \cup [run : Runs, seq : Nat]
    BY ClientFacts DEF IInv, ClientInv
  <2>2. /\ n = tail[run] + 1 /\ tail'[run] = n
        /\ \A r \in Runs : tail[r] \in Nat /\ tail'[r] >= tail[r]
        /\ \A r \in Runs : r # run => tail'[r] = tail[r]
    BY <1>1 DEF n
  <2>3. CursorKnown(c)'
    <3>1. CASE cursor[c] = Nowhere
      BY <3>1, <1>2 DEF CursorKnown
    <3>2. CASE cursor[c] # Nowhere
      <4>1. cursor[c].run \in Runs /\ cursor[c].seq \in Nat
        BY <3>2, <2>1
      <4>2. cursor[c].run <= run /\ cursor[c].seq <= tail[cursor[c].run]
        BY <3>2, <2>1 DEF ClientOK, CursorKnown
      <4>3. cursor[c].seq <= tail'[cursor[c].run]
        BY <4>1, <4>2, <2>2, <1>1
      <4> QED BY <4>2, <4>3, <1>1, <1>2 DEF CursorKnown
    <3> QED BY <3>1, <3>2
  <2>4. CASE listed[c] /\ HasRoom(c)
    <3>1. /\ flow'[c] = Append(flow[c], Notification(n)) /\ stream[c] = run
          /\ EndsAt(flow[c], cursor[c], run, tail[run])
          /\ Flows(flow[c], cursor[c], run, tail[run])
      BY <2>4, <2>1, <1>2 DEF ClientOK
    <3>2. Flows(flow'[c], cursor[c], run, n) /\ EndsAt(flow'[c], cursor[c], run, n)
      BY <3>1, <2>1, <2>2, <1>1, AppendFlow
    <3> QED BY <3>1, <3>2, <2>1, <2>2, <2>3, <1>1, <1>2 DEF ClientOK
  <2>5. CASE ~(listed[c] /\ HasRoom(c))
    <3>1. flow'[c] = flow[c] /\ ~listed'[c] /\ stream'[c] = stream[c]
          /\ cursor'[c] = cursor[c] /\ run' = run
      BY <2>5, <1>1, <1>2
    <3>2. Flows(flow[c], cursor[c], stream[c], tail'[stream[c]])
      <4>1. CASE stream[c] = 0
        BY <4>1, <2>1, EmptyFlow DEF ClientOK
      <4>2. CASE stream[c] = run
        BY <4>2, <2>1, <2>2, <1>1, GrowFlow DEF ClientOK
      <4>3. CASE stream[c] # 0 /\ stream[c] # run
        BY <4>3, <2>1, <2>2 DEF ClientOK
      <4> QED BY <4>1, <4>2, <4>3
    <3> QED BY <3>1, <3>2, <2>1, <2>3 DEF ClientOK
  <2> QED BY <2>4, <2>5
<1> QED BY <1>5, <1>6 DEF ClientInv

LEMMA RestartClients == IInv /\ Restart => ClientType' /\ ClientInv'
<1> SUFFICES ASSUME IInv, Restart PROVE ClientType' /\ ClientInv'
  OBVIOUS
<1>1. /\ run \in Nat /\ run >= 1 /\ run' = run + 1 /\ tail' = tail
      /\ ClientType /\ ClientInv
  BY StoreFacts DEF IInv, Restart
<1>2. ASSUME NEW c \in Clients
      PROVE  /\ stream'[c] = stream[c] /\ sent'[c] = sent[c] /\ left'[c] = 0
             /\ cursor'[c] = cursor[c] /\ ~listed'[c]
             /\ flow'[c] = SubSeq(flow[c], 1, sent[c])
             /\ stream[c] \in Nat
  BY <1>1, ClientFacts DEF Restart, Runs
<1>3. ASSUME NEW c \in Clients
      PROVE  /\ SubSeq(flow[c], 1, sent[c]) \in Seq(Messages)
             /\ Len(SubSeq(flow[c], 1, sent[c])) = sent[c]
             /\ sent[c] \in 0 .. Len(flow[c]) /\ sent[c] \in Nat
  <2>1. sent[c] \in 0 .. Len(flow[c])
    BY <1>1, ClientFacts
  <2> QED BY <2>1, <1>1, ClientFacts, PrefixFacts
<1>4. ClientType'
  <2>1. flow' \in [Clients -> Seq(Messages)]
    BY <1>3 DEF Restart
  <2>2. \A c \in Clients : sent'[c] + left'[c] <= Len(flow'[c])
    BY <1>2, <1>3
  <2> QED BY <1>1, <2>1, <2>2 DEF ClientType, Restart
<1>5. ASSUME NEW c \in Clients PROVE ClientOK(c)'
  <2>1. ClientOK(c)
    BY <1>1 DEF ClientInv
  <2>2. Flows(flow'[c], cursor[c], stream[c], tail[stream[c]])
    BY <2>1, <1>1, <1>2, <1>3, ClientFacts, PrefixFlow DEF ClientOK
  <2>3. stream[c] = 0 => flow'[c] = <<>>
    <3> SUFFICES ASSUME stream[c] = 0 PROVE flow'[c] = <<>>
      OBVIOUS
    <3>1. Len(flow[c]) = 0
      BY <2>1, <1>1, ClientFacts, EmptyFacts DEF ClientOK
    <3> QED BY <3>1, <1>2, <1>3, EmptyFacts
  <2>4. cursor[c] # Nowhere => cursor[c].run \in Nat
    BY <1>1, ClientFacts DEF Runs
  <2>5. CursorKnown(c)'
    BY <2>1, <2>4, <1>1, <1>2 DEF ClientOK, CursorKnown
  <2>6. stream[c] <= run + 1
    BY <2>1, <1>1, <1>2 DEF ClientOK
  <2> QED BY <2>2, <2>3, <2>5, <2>6, <1>1, <1>2 DEF ClientOK
<1> QED BY <1>4, <1>5 DEF ClientInv

LEMMA ConnectClients ==
  ASSUME IInv, NEW c \in Clients, Connect(c) PROVE ClientType' /\ ClientInv'
<1> DEFINE o == Opening(cursor[c])
<1>1. /\ run \in Runs /\ run \in Nat /\ run >= 1 /\ run' = run /\ tail' = tail
      /\ ClientType /\ ClientInv /\ stream[c] = 0
  BY StoreFacts DEF IInv, Connect, storeVars
<1>2. ClientOK(c)
  BY <1>1 DEF ClientInv
<1>3. /\ o \in Seq(Messages) /\ Flows(o, cursor[c], run, tail[run])
      /\ EndsAt(o, cursor[c], run, tail[run])
  BY <1>1, <1>2, OpeningIs DEF IInv, ClientOK
<1>4. /\ stream' = [stream EXCEPT ![c] = run] /\ flow' = [flow EXCEPT ![c] = o]
      /\ left' = [left EXCEPT ![c] = Len(o)] /\ listed' = [listed EXCEPT ![c] = TRUE]
      /\ UNCHANGED <<sent, closed, cursor, told, losses>>
  BY DEF Connect
<1> HIDE DEF o
<1>5. Len(o) \in Nat /\ sent[c] = 0
  <2>1. Len(flow[c]) = 0
    BY <1>1, <1>2, ClientFacts, EmptyFacts DEF ClientOK
  <2> QED BY <2>1, <1>1, <1>3, ClientFacts, EmptyFacts
<1>6. ClientType'
  <2>1. \A d \in Clients : sent'[d] + left'[d] <= Len(flow'[d])
    <3> SUFFICES ASSUME NEW d \in Clients PROVE sent'[d] + left'[d] <= Len(flow'[d])
      OBVIOUS
    <3>1. CASE d = c
      BY <3>1, <1>1, <1>4, <1>5 DEF ClientType
    <3>2. CASE d # c
      BY <3>2, <1>1, <1>4 DEF ClientType
    <3> QED BY <3>1, <3>2
  <2> QED BY <2>1, <1>1, <1>3, <1>4, <1>5 DEF ClientType
<1>7. ASSUME NEW d \in Clients PROVE ClientOK(d)'
  <2>1. CASE d = c
    <3>1. /\ flow'[c] = o /\ stream'[c] = run /\ cursor'[c] = cursor[c]
          /\ stream'[c] # 0 /\ stream'[c] <= run
      BY <1>1, <1>4 DEF ClientType
    <3>2. CursorKnown(c)'
      BY <3>1, <1>1, <1>2 DEF ClientOK, CursorKnown
    <3> QED BY <2>1, <3>1, <3>2, <1>1, <1>3 DEF ClientOK
  <2>2. CASE d # c
    <3>1. /\ listed'[d] = listed[d] /\ stream'[d] = stream[d] /\ flow'[d] = flow[d]
          /\ cursor'[d] = cursor[d]
      BY <2>2, <1>1, <1>4 DEF ClientType
    <3> QED BY <3>1, <1>1, OtherClient DEF ClientInv
  <2> QED BY <2>1, <2>2
<1> QED BY <1>6, <1>7 DEF ClientInv

\* Steps of the serving thread.
LEMMA WriteClients ==
  ASSUME IInv, NEW c \in Clients, WriteBacklog(c) \/ WriteLive(c) \/ HangUp(c)
  PROVE  ClientType' /\ ClientInv'
<1>1. ClientType /\ ClientInv /\ run' = run /\ tail' = tail
  BY DEF IInv, storeVars, WriteBacklog, WriteLive, HangUp
<1>2. UNCHANGED <<listed, stream, flow, cursor, told, losses>>
  BY DEF WriteBacklog, WriteLive, HangUp
<1>3. ClientInv'
  BY <1>1, <1>2, OtherClient DEF ClientInv
<1>4. /\ sent[c] \in Nat /\ left[c] \in Nat /\ Len(flow[c]) \in Nat
      /\ sent[c] + left[c] <= Len(flow[c])
  BY <1>1, ClientFacts
<1>5. CASE WriteBacklog(c)
  <2>1. /\ left' = [left EXCEPT ![c] = left[c] - 1] /\ sent' = [sent EXCEPT ![c] = sent[c] + 1]
        /\ left[c] > 0 /\ closed' = closed
    BY <1>5 DEF WriteBacklog
  <2>2. \A d \in Clients : sent'[d] + left'[d] <= Len(flow'[d])
    <3> SUFFICES ASSUME NEW d \in Clients PROVE sent'[d] + left'[d] <= Len(flow'[d])
      OBVIOUS
    <3>1. CASE d = c
      BY <3>1, <2>1, <1>1, <1>2, <1>4 DEF ClientType
    <3>2. CASE d # c
      BY <3>2, <2>1, <1>1, <1>2 DEF ClientType
    <3> QED BY <3>1, <3>2
  <2> QED BY <2>1, <2>2, <1>1, <1>2, <1>3, <1>4 DEF ClientType
<1>6. CASE WriteLive(c)
  <2>1. /\ left' = left /\ sent' = [sent EXCEPT ![c] = sent[c] + 1] /\ closed' = closed
        /\ left[c] = 0 /\ InChannel(c) > 0
    BY <1>6 DEF WriteLive
  <2>2. sent[c] + 1 <= Len(flow[c])
    BY <2>1, <1>4 DEF InChannel
  <2>3. \A d \in Clients : sent'[d] + left'[d] <= Len(flow'[d])
    <3> SUFFICES ASSUME NEW d \in Clients PROVE sent'[d] + left'[d] <= Len(flow'[d])
      OBVIOUS
    <3>1. CASE d = c
      BY <3>1, <2>1, <2>2, <1>1, <1>2, <1>4 DEF ClientType
    <3>2. CASE d # c
      BY <3>2, <2>1, <1>1, <1>2 DEF ClientType
    <3> QED BY <3>1, <3>2
  <2> QED BY <2>1, <2>3, <1>1, <1>2, <1>3, <1>4 DEF ClientType
<1>7. CASE HangUp(c)
  BY <1>7, <1>1, <1>2, <1>3 DEF ClientType, HangUp
<1> QED BY <1>5, <1>6, <1>7

LEMMA ReceiveClients ==
  ASSUME IInv, NEW c \in Clients, Receive(c) PROVE ClientType' /\ ClientInv'
<1> DEFINE q == [run |-> stream[c], seq |-> Head(flow[c]).seq]
<1>1. /\ ClientType /\ ClientInv /\ run' = run /\ tail' = tail /\ sent[c] > 0
      /\ flow' = [flow EXCEPT ![c] = Tail(flow[c])]
      /\ sent' = [sent EXCEPT ![c] = sent[c] - 1]
      /\ cursor' = [cursor EXCEPT ![c] = q]
      /\ told' = [told EXCEPT ![c] = Head(flow[c]).type = "resync"]
      /\ UNCHANGED <<listed, stream, left, closed, losses>>
  BY DEF IInv, Receive, storeVars
<1>2. /\ sent[c] \in Nat /\ left[c] \in Nat /\ Len(flow[c]) \in Nat
      /\ sent[c] + left[c] <= Len(flow[c]) /\ flow[c] \in Seq(Messages)
      /\ stream[c] \in Runs \cup {0}
  BY <1>1, ClientFacts
<1>3. ClientOK(c) /\ flow[c] # <<>>
  BY <1>1, <1>2, EmptyFacts DEF ClientInv
<1>4. /\ Head(flow[c]) = flow[c][1] /\ Head(flow[c]) \in Messages
      /\ Tail(flow[c]) \in Seq(Messages) /\ Len(Tail(flow[c])) = Len(flow[c]) - 1
      /\ Head(flow[c]).seq \in Nat
  BY <1>2, <1>3, TailFacts, MessageFacts
<1>5. stream[c] \in Runs /\ stream[c] <= run
  BY <1>2, <1>3 DEF ClientOK
<1>6. q \in [run : Runs, seq : Nat] /\ q.run = stream[c] /\ q.seq = flow[c][1].seq
  BY <1>4, <1>5
<1>7. flow[c][1].seq <= tail[stream[c]]
  BY <1>2, <1>3, EmptyFacts DEF ClientOK, Flows, Bounded
<1>8. /\ Flows(Tail(flow[c]), q, stream[c], tail[stream[c]])
      /\ listed[c] => stream[c] = run /\ EndsAt(Tail(flow[c]), q, run, tail[run])
  BY <1>2, <1>3, TailFlow DEF ClientOK
<1> HIDE DEF q
<1>9. ClientType'
  <2>1. \A d \in Clients : sent'[d] + left'[d] <= Len(flow'[d])
    <3> SUFFICES ASSUME NEW d \in Clients PROVE sent'[d] + left'[d] <= Len(flow'[d])
      OBVIOUS
    <3>1. CASE d = c
      BY <3>1, <1>1, <1>2, <1>4 DEF ClientType
    <3>2. CASE d # c
      BY <3>2, <1>1 DEF ClientType
    <3> QED BY <3>1, <3>2
  <2>2. told' \in [Clients -> BOOLEAN]
    BY <1>1 DEF ClientType
  <2>3. cursor' \in [Clients -> {Nowhere} \cup [run : Runs, seq : Nat]]
    BY <1>1, <1>6 DEF ClientType
  <2>4. sent' \in [Clients -> Nat] /\ flow' \in [Clients -> Seq(Messages)]
    BY <1>1, <1>2, <1>4 DEF ClientType
  <2> QED BY <2>1, <2>2, <2>3, <2>4, <1>1 DEF ClientType
<1>10. ASSUME NEW d \in Clients PROVE ClientOK(d)'
  <2>1. CASE d = c
    <3>1. /\ flow'[c] = Tail(flow[c]) /\ cursor'[c] = q /\ stream'[c] = stream[c]
          /\ stream[c] # 0 /\ listed'[c] = listed[c]
      BY <1>1, <1>5, StreamAssumption DEF ClientType, Runs
    <3>2. CursorKnown(c)'
      BY <3>1, <1>1, <1>5, <1>6, <1>7 DEF CursorKnown
    <3> QED BY <2>1, <3>1, <3>2, <1>1, <1>5, <1>8 DEF ClientOK
  <2>2. CASE d # c
    <3>1. /\ listed'[d] = listed[d] /\ stream'[d] = stream[d] /\ flow'[d] = flow[d]
          /\ cursor'[d] = cursor[d]
      BY <2>2, <1>1 DEF ClientType
    <3> QED BY <3>1, <1>1, OtherClient DEF ClientInv
  <2> QED BY <2>1, <2>2
<1> QED BY <1>9, <1>10 DEF ClientInv

LEMMA LeaveClients ==
  ASSUME IInv, NEW c \in Clients, SeeEnd(c) \/ LoseConnection(c)
  PROVE  ClientType' /\ ClientInv'
<1>1. /\ run' = run /\ tail' = tail /\ ClientType /\ ClientInv
      /\ stream' = [stream EXCEPT ![c] = 0] /\ flow' = [flow EXCEPT ![c] = <<>>]
      /\ sent' = [sent EXCEPT ![c] = 0] /\ left' = [left EXCEPT ![c] = 0]
      /\ closed' = [closed EXCEPT ![c] = FALSE] /\ listed' = [listed EXCEPT ![c] = FALSE]
      /\ cursor' = cursor /\ told' = told
  BY DEF IInv, SeeEnd, LoseConnection, Leave, storeVars
<1>2. losses' \in [Clients -> 0 .. MaxLosses]
  <2>1. CASE SeeEnd(c)
    BY <2>1, <1>1 DEF SeeEnd, ClientType
  <2>2. CASE LoseConnection(c)
    <3>1. losses[c] + 1 \in 0 .. MaxLosses
      BY <2>2, <1>1, ClientFacts, StreamAssumption DEF LoseConnection
    <3> QED BY <3>1, <2>2, <1>1 DEF LoseConnection, ClientType
  <2> QED BY <2>1, <2>2
<1>3. <<>> \in Seq(Messages) /\ Len(<<>>) = 0
  OBVIOUS
<1>4. ClientType'
  <2>1. \A d \in Clients : sent'[d] + left'[d] <= Len(flow'[d])
    <3> SUFFICES ASSUME NEW d \in Clients PROVE sent'[d] + left'[d] <= Len(flow'[d])
      OBVIOUS
    <3>1. CASE d = c
      BY <3>1, <1>1, <1>3 DEF ClientType
    <3>2. CASE d # c
      BY <3>2, <1>1 DEF ClientType
    <3> QED BY <3>1, <3>2
  <2> QED BY <2>1, <1>1, <1>2, <1>3 DEF ClientType
<1>5. ASSUME NEW d \in Clients PROVE ClientOK(d)'
  <2>1. CASE d = c
    <3>1. /\ flow'[c] = <<>> /\ cursor'[c] = cursor[c] /\ stream'[c] = 0 /\ ~listed'[c]
      BY <1>1 DEF ClientType
    <3>2. ClientOK(c) /\ 0 <= run
      BY <1>1, StoreFacts DEF ClientInv, IInv
    <3>3. CursorKnown(c)'
      BY <3>1, <3>2, <1>1 DEF ClientOK, CursorKnown
    <3> QED BY <2>1, <3>1, <3>2, <3>3, <1>1, EmptyFlow DEF ClientOK
  <2>2. CASE d # c
    <3>1. /\ listed'[d] = listed[d] /\ stream'[d] = stream[d] /\ flow'[d] = flow[d]
          /\ cursor'[d] = cursor[d]
      BY <2>2, <1>1 DEF ClientType
    <3> QED BY <3>1, <1>1, OtherClient DEF ClientInv
  <2> QED BY <2>1, <2>2
<1> QED BY <1>4, <1>5 DEF ClientInv
-----------------------------------------------------------------------------
(* Theorems                                                                 *)

LEMMA Inductive == IInv /\ [Next]_vars => IInv'
<1> SUFFICES ASSUME IInv, [Next]_vars PROVE IInv'
  OBVIOUS
<1>1. CASE Push
  BY <1>1, PushStore, PushClients DEF IInv
<1>2. CASE Restart
  BY <1>2, RestartStore, RestartClients DEF IInv
<1>3. ASSUME NEW c \in Clients, Client(c) \/ LoseConnection(c) PROVE IInv'
  <2>1. UNCHANGED storeVars
    BY <1>3 DEF Client, Connect, WriteBacklog, WriteLive, HangUp, Receive, SeeEnd,
                LoseConnection, Leave
  <2>2. StoreType' /\ WindowInv'
    BY <2>1, StoreFrame DEF IInv
  <2>3. ClientType' /\ ClientInv'
    BY <1>3, ConnectClients, WriteClients, ReceiveClients, LeaveClients DEF Client
  <2> QED BY <2>2, <2>3 DEF IInv
<1>4. CASE UNCHANGED vars
  BY <1>4, ClientFrame
<1> QED BY <1>1, <1>2, <1>3, <1>4 DEF Next, Finished

\* The window is always the end of the current log, and every connection holds
\* a run of consecutive notifications that starts where its client is and, as
\* long as it is registered, ends where the log ends.
THEOREM Invariance == Spec => []IInv
<1>1. Init => IInv
  BY StoreInit, ClientInit DEF IInv
<1> QED BY <1>1, Inductive, PTL DEF Spec

\* Types of the store and of the connections; in particular the window never
\* holds more than MaxEvents entries.
THEOREM TypeCorrect == Spec => []TypeOK
<1>1. IInv => TypeOK
  BY DEF IInv, TypeOK
<1> QED BY <1>1, Invariance, PTL

LEMMA InitMaps == Init => Log!Init
  BY DEF Init, Log!Init, Runs, Log!Runs

LEMMA PositionIs ==
  ASSUME StoreType, NEW r \in Runs, r <= run, NEW n \in Nat, n <= tail[r]
  PROVE  [run |-> r, seq |-> n] \in Log!Positions
<1>1. r \in 1 .. run /\ n \in 0 .. tail[r]
  BY StoreFacts DEF Runs
<1> QED BY <1>1 DEF Log!Positions

LEMMA ReceiveMaps ==
  ASSUME IInv, NEW c \in Clients, Receive(c)
  PROVE  Log!Join(c) \/ Log!Deliver(c) \/ Log!Resync(c)
<1> DEFINE h == Head(flow[c])
           q == [run |-> stream[c], seq |-> h.seq]
<1>1. /\ cursor' = [cursor EXCEPT ![c] = q]
      /\ told' = [told EXCEPT ![c] = h.type = "resync"]
      /\ UNCHANGED <<run, tail>> /\ sent[c] > 0
  BY DEF Receive, storeVars
<1>2. /\ flow[c] \in Seq(Messages) /\ Len(flow[c]) \in Nat /\ Len(flow[c]) > 0
      /\ stream[c] \in Runs \cup {0} /\ ClientOK(c) /\ StoreType
  BY <1>1, ClientFacts DEF IInv, ClientInv
<1>3. flow[c] # <<>> /\ h = flow[c][1] /\ h \in Messages /\ h.seq \in Nat
      /\ h.type \in {"notification", "resync"}
  BY <1>2, EmptyFacts, TailFacts, MessageFacts
<1>4. stream[c] \in Runs /\ stream[c] <= run /\ h.seq <= tail[stream[c]]
  BY <1>2, <1>3 DEF ClientOK, Flows, Bounded
<1>5. q \in Log!Positions /\ q.run = stream[c] /\ q.seq = h.seq
  BY <1>2, <1>3, <1>4, PositionIs
<1>6. IF h.type = "resync" THEN Before(cursor[c], stream[c], h.seq)
      ELSE cursor[c] \in {Nowhere, [run |-> stream[c], seq |-> h.seq - 1]}
  BY <1>2, <1>3 DEF ClientOK, Flows, StartsAt
<1> HIDE DEF h, q
<1>7. CASE h.type = "resync"
  <2>1. Log!Move(c, q, TRUE)
    BY <1>1, <1>7 DEF Log!Move
  <2>2. cursor[c] # Nowhere /\ Log!After(q, cursor[c])
    <3>1. cursor[c] # Nowhere /\ cursor[c].run \in Nat /\ cursor[c].seq \in Nat
      BY <1>6, <1>7, ClientFacts DEF Before, IInv, Runs
    <3> QED BY <3>1, <1>3, <1>4, <1>5, <1>6, <1>7 DEF Before, Log!After, Runs
  <2> QED BY <2>1, <2>2, <1>5 DEF Log!Resync
<1>8. CASE h.type # "resync"
  <2>1. Log!Move(c, q, FALSE)
    BY <1>1, <1>8 DEF Log!Move
  <2>2. CASE cursor[c] = Nowhere
    BY <2>1, <2>2, <1>5 DEF Log!Join
  <2>3. CASE cursor[c] # Nowhere
    <3>1. cursor[c].run = stream[c] /\ cursor[c].seq + 1 = h.seq
      BY <2>3, <1>3, <1>6, <1>8
    <3> QED BY <3>1, <2>1, <2>3, <1>5 DEF Log!Deliver
  <2> QED BY <2>2, <2>3
<1> QED BY <1>7, <1>8

LEMMA StepMaps == IInv /\ [Next]_vars => [Log!Next]_(Log!vars)
<1> SUFFICES ASSUME IInv, [Next]_vars PROVE [Log!Next]_(Log!vars)
  OBVIOUS
<1>1. CASE Push
  <2>1. tail' = [tail EXCEPT ![run] = tail[run] + 1]
    BY <1>1 DEF Push
  <2> QED BY <2>1, <1>1 DEF Push, Log!Next, Log!Publish
<1>2. CASE Restart
  BY <1>2 DEF Restart, Log!Next, Log!Restart
<1>3. ASSUME NEW c \in Clients, Receive(c) PROVE Log!Next
  BY <1>3, ReceiveMaps DEF Log!Next
<1>4. ASSUME NEW c \in Clients,
             Connect(c) \/ WriteBacklog(c) \/ WriteLive(c) \/ HangUp(c)
                \/ SeeEnd(c) \/ LoseConnection(c)
      PROVE  UNCHANGED Log!vars
  BY <1>4 DEF Connect, WriteBacklog, WriteLive, HangUp, SeeEnd, LoseConnection,
              Leave, storeVars, Log!vars
<1>5. CASE UNCHANGED vars
  BY <1>5 DEF vars, storeVars, Log!vars
<1> QED BY <1>1, <1>2, <1>3, <1>4, <1>5 DEF Next, Client, Finished

\* The notification stream implements NotificationLog: through full channels,
\* lost connections, a window that forgets and restarts, each client gets
\* the next notification or is told to resynchronise further on.
THEOREM Implements == Spec => ImplementsLog
<1>1. Init /\ [][Next]_vars /\ []IInv => Log!Init /\ [][Log!Next]_(Log!vars)
  BY InitMaps, StepMaps, PTL
<1> QED BY <1>1, Invariance, PTL DEF Spec, ImplementsLog, Log!Spec

\* Which message opens an empty connection in one step.
JustifiedResync(c) ==
    flow[c] = <<>> /\ flow'[c] # <<>> /\ Head(flow'[c]).type = "resync" =>
        /\ Head(flow'[c]).seq = tail[run]
        /\ cursor[c].run = run =>
             ~ \E i \in 1 .. Len(retained) : retained[i] = cursor[c].seq + 1

LEMMA ConnectJustified ==
  ASSUME IInv, NEW c \in Clients, Connect(c) PROVE JustifiedResync(c)
<1> DEFINE o == Opening(cursor[c])
           p == cursor[c]
<1> SUFFICES ASSUME o # <<>>, Head(o).type = "resync"
             PROVE  /\ Head(o).seq = tail[run]
                    /\ cursor[c].run = run =>
                         ~ \E i \in 1 .. Len(retained) : retained[i] = cursor[c].seq + 1
  <2>1. flow'[c] = o
    BY DEF Connect, IInv, ClientType
  <2> QED BY <2>1 DEF JustifiedResync
<1>1. /\ StoreType /\ WindowInv /\ CursorKnown(c) /\ tail[run] \in Nat /\ run \in Nat
      /\ p # Nowhere => p.run \in Nat /\ p.seq \in Nat
  BY StoreFacts, ClientFacts DEF IInv, ClientInv, ClientOK, Runs
<1>2. p # Nowhere
  BY DEF Opening
<1>3. ~Continues(p)
  <2> SUFFICES ASSUME Continues(p) PROVE FALSE
    OBVIOUS
  <2> DEFINE n == p.seq
  <2>1. n \in Nat /\ n >= Oldest /\ n <= tail[run] /\ o = Backlog(n)
    BY <1>1, <1>2 DEF Continues, Opening
  <2>2. /\ o \in Seq(Messages) /\ Len(o) = tail[run] - n
        /\ \A j \in 1 .. tail[run] - n : o[j] = Notification(n + j)
    BY <1>1, <2>1, BacklogIs
  <2> HIDE DEF o, n
  <2>3. Head(o) = o[1] /\ 1 \in 1 .. tail[run] - n
    BY <2>1, <2>2, <1>1, TailFacts
  <2>4. Head(o).type = "notification"
    BY <2>1, <2>2, <2>3, NotificationType
  <2> QED BY <2>4
<1>4. o = <<[type |-> "resync", seq |-> tail[run]]>>
  BY <1>2, <1>3 DEF Opening
<1>5. ASSUME p.run = run, NEW i \in 1 .. Len(retained), retained[i] = p.seq + 1
      PROVE  FALSE
  <2>1. p.seq <= tail[run]
    BY <1>1, <1>2, <1>5 DEF CursorKnown
  <2>2. p.seq < Oldest
    BY <1>1, <1>2, <1>3, <1>5, <2>1, OldestInt DEF Continues
  <2>3. retained # <<>> /\ Len(retained) \in Nat /\ 1 \in 1 .. Len(retained)
    BY <1>1, EmptyFacts, StoreFacts
  <2>4. /\ retained[1] = tail[run] - Len(retained) + 1
        /\ retained[i] = tail[run] - Len(retained) + i
    BY <2>3, <1>1 DEF WindowInv
  <2>5. Oldest = tail[run] - Len(retained)
    BY <2>3, <2>4, <1>1 DEF Oldest
  <2>6. p.seq + 1 = tail[run] - Len(retained) + i /\ i \in Nat /\ i >= 1
    BY <2>3, <2>4, <1>5
  <2> HIDE DEF p
  <2> QED BY <2>2, <2>3, <2>5, <2>6, <1>1, <1>2
<1> QED BY <1>4, <1>5

\* A resync opens a connection only when the window no longer holds the next
\* notification of the client, and it stands at the end of the log.
THEOREM Justified == Spec => ResyncOnlyWhenLost
<1>1. ASSUME IInv, [Next]_vars, NEW c \in Clients PROVE JustifiedResync(c)
  <2>1. CASE Push
    <3>1. flow'[c] = flow[c] \/ flow'[c] = Append(flow[c], Notification(tail[run] + 1))
      BY <2>1 DEF Push
    <3>2. ASSUME flow[c] = <<>>, flow'[c] = Append(flow[c], Notification(tail[run] + 1))
          PROVE  Head(flow'[c]) = Notification(tail[run] + 1)
      BY <3>2
    <3>3. Notification(tail[run] + 1).type = "notification"
      BY DEF Notification
    <3> QED BY <3>1, <3>2, <3>3 DEF JustifiedResync
  <2>2. CASE Restart
    <3>1. flow'[c] = SubSeq(flow[c], 1, sent[c]) /\ ClientType
      BY <2>2, <1>1 DEF Restart, IInv
    <3>2. flow[c] = <<>> => sent[c] = 0
      BY <3>1, ClientFacts, EmptyFacts
    <3>3. flow[c] = <<>> => flow'[c] = <<>>
      BY <3>1, <3>2
    <3> QED BY <3>3 DEF JustifiedResync
  <2>3. ASSUME NEW d \in Clients, Connect(d) PROVE JustifiedResync(c)
    <3>1. CASE d = c
      BY <2>3, <3>1, <1>1, ConnectJustified
    <3>2. CASE d # c
      <4>1. flow'[c] = flow[c]
        BY <2>3, <3>2, <1>1 DEF Connect, IInv, ClientType
      <4> QED BY <4>1 DEF JustifiedResync
    <3> QED BY <3>1, <3>2
  <2>4. ASSUME NEW d \in Clients,
               WriteBacklog(d) \/ WriteLive(d) \/ HangUp(d) \/ Receive(d)
                  \/ SeeEnd(d) \/ LoseConnection(d)
        PROVE  JustifiedResync(c)
    <3>1. CASE Receive(d)
      <4>1. sent[d] > 0 /\ flow' = [flow EXCEPT ![d] = Tail(flow[d])] /\ ClientType
        BY <3>1, <1>1 DEF Receive, IInv
      <4>2. flow[d] # <<>>
        BY <4>1, ClientFacts, EmptyFacts
      <4>3. flow[c] = <<>> => flow'[c] = flow[c]
        BY <4>1, <4>2 DEF ClientType
      <4> QED BY <4>3 DEF JustifiedResync
    <3>2. CASE WriteBacklog(d) \/ WriteLive(d) \/ HangUp(d)
      <4>1. flow' = flow
        BY <3>2 DEF WriteBacklog, WriteLive, HangUp
      <4> QED BY <4>1 DEF JustifiedResync
    <3>3. CASE SeeEnd(d) \/ LoseConnection(d)
      <4>1. flow' = [flow EXCEPT ![d] = <<>>] /\ ClientType
        BY <3>3, <1>1 DEF SeeEnd, LoseConnection, Leave, IInv
      <4>2. flow'[c] = flow[c] \/ flow'[c] = <<>>
        BY <4>1 DEF ClientType
      <4> QED BY <4>2 DEF JustifiedResync
    <3> QED BY <2>4, <3>1, <3>2, <3>3
  <2>5. CASE UNCHANGED vars
    <3>1. flow' = flow
      BY <2>5 DEF vars
    <3> QED BY <3>1 DEF JustifiedResync
  <2> QED BY <1>1, <2>1, <2>2, <2>3, <2>4, <2>5 DEF Next, Client, Finished
<1>2. IInv /\ [Next]_vars =>
        [\A c \in Clients :
           flow[c] = <<>> /\ flow'[c] # <<>> /\ Head(flow'[c]).type = "resync" =>
             /\ Head(flow'[c]).seq = tail[run]
             /\ cursor[c].run = run =>
                  ~ \E i \in 1 .. Len(retained) : retained[i] = cursor[c].seq + 1]_vars
  BY <1>1 DEF JustifiedResync
<1> QED BY <1>2, Invariance, PTL DEF Spec, ResyncOnlyWhenLost
=============================================================================
