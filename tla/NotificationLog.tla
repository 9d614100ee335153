--------------------------- MODULE NotificationLog ---------------------------
(***************************************************************************)
(* What the notification stream promises its consumers, whatever buffers,  *)
(* retention, reconnections and restarts lie in between.  Each run of the  *)
(* connector has a log of numbered notifications.  A consumer has a        *)
(* position in the log of one run.  Without a position it may join         *)
(* anywhere.  From then on it gets the very next notification, or it is    *)
(* told (resync) that it continues further on: it never misses one         *)
(* silently, gets none twice, and never goes back.                         *)
(***************************************************************************)
EXTENDS Integers

CONSTANTS Clients,  \* consumers of the stream
          Nowhere,  \* position of a consumer that received nothing yet
          MaxRuns   \* bound: runs of the connector

Runs == 1 .. MaxRuns

VARIABLES run,   \* the current run
          tail,  \* last number given out in each run
          pos,   \* position of each consumer
          told   \* the consumer came to it by a resync
vars == <<run, tail, pos, told>>

Positions == UNION {[run : {r}, seq : 0 .. tail[r]] : r \in 1 .. run}
After(p, q) == p.run > q.run \/ (p.run = q.run /\ p.seq > q.seq)

Init ==
    /\ run = 1
    /\ tail = [r \in Runs |-> 0]
    /\ pos = [c \in Clients |-> Nowhere]
    /\ told = [c \in Clients |-> FALSE]

Publish ==
    /\ tail' = [tail EXCEPT ![run] = @ + 1]
    /\ UNCHANGED <<run, pos, told>>

Restart ==
    /\ run < MaxRuns
    /\ run' = run + 1
    /\ UNCHANGED <<tail, pos, told>>

Move(c, p, resync) ==
    /\ pos' = [pos EXCEPT ![c] = p]
    /\ told' = [told EXCEPT ![c] = resync]
    /\ UNCHANGED <<run, tail>>

\* Its first notification.
Join(c) == pos[c] = Nowhere /\ \E p \in Positions : Move(c, p, FALSE)

Deliver(c) ==
    /\ pos[c] # Nowhere
    /\ \E p \in Positions :
         p.run = pos[c].run /\ p.seq = pos[c].seq + 1 /\ Move(c, p, FALSE)

Resync(c) ==
    /\ pos[c] # Nowhere
    /\ \E p \in Positions : After(p, pos[c]) /\ Move(c, p, TRUE)

Next ==
    \/ Publish
    \/ Restart
    \/ \E c \in Clients : Join(c) \/ Deliver(c) \/ Resync(c)

Spec == Init /\ [][Next]_vars
=============================================================================
