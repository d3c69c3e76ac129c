------------------------- MODULE PriorityScheduler -------------------------
(***************************************************************************)
(* What the scheduler promises to those who give it groups.  Groups wait   *)
(* in five queues and are worked on from the oldest of the first queue     *)
(* that need not wait; nobody jumps a queue.  What a group has left to do  *)
(* only shrinks while it is worked on, a group put aside may have to start *)
(* over, a cancelled one never works again, and only a group with nothing  *)
(* left goes.  How requests, rounds, locks and threads bring this about is *)
(* not visible here.                                                       *)
(***************************************************************************)
EXTENDS Integers, Sequences

CONSTANTS Groups,  \* identities of groups
          None     \* no group is being worked on

VARIABLES queue,      \* per priority, the groups that wait, oldest first
          left,       \* how much each group has left to do
          running,    \* the group that is worked on, or None
          automatic,  \* the groups that are not a user's move
          mode        \* the run mode in force

vars == <<queue, left, running, automatic, mode>>

Queue  == 0 .. 4
Manual == 2
Charge == 3
Patrol == 4

Present == UNION { { queue[p][k] : k \in DOMAIN queue[p] } : p \in Queue }

Waits(p) == queue[p] # <<>>

\* The mode leaves the oldest group of queue p alone.
HeldByMode(p) ==
  \/ mode \in { "HANDLE_CONTROL_MODE", "NONE_MODE" }
  \/ mode = "TASK_MODE" /\ p = Manual /\ Head(queue[p]) \notin automatic
  \/ mode = "REMOTE_CONTROL_MODE" /\ p = Patrol
  \/ mode = "SCAN_MODE" /\ p # Manual

\* An obstacle may hold the oldest group of queue p.
HeldByObstacle(p) ==
  p = Patrol \/ (p = Manual /\ Head(queue[p]) \in automatic)

\* It is the turn of the oldest group of queue p.
Turn(p) ==
  /\ Waits(p)
  /\ ~HeldByMode(p)
  /\ \A q \in 0 .. p - 1 : Waits(q) => HeldByMode(q) \/ HeldByObstacle(q)

-----------------------------------------------------------------------------

Init ==
  /\ queue = [p \in Queue |-> <<>>]
  /\ left = [i \in Groups |-> 0]
  /\ running = None
  /\ mode = "NONE_MODE"

\* Some of the groups of the queues P are cancelled.
Cancelled(P) ==
  \A q \in Queue : \A k \in DOMAIN queue[q] :
    LET i == queue[q][k]
    IN  /\ left'[i] = left[i] \/ (q \in P /\ left'[i] = 0)
        /\ i \in automatic' <=> i \in automatic

\* New groups, with work to do, join queue p from the right; a request may
\* cancel what waits there, and may do no more than that.
Request(p) ==
  /\ \E n \in 0 .. Len(queue'[p]) :
       /\ queue[p] = SubSeq(queue'[p], 1, n)
       /\ \A k \in n + 1 .. Len(queue'[p]) :
            queue'[p][k] \notin Present /\ left'[queue'[p][k]] > 0
  /\ \A q \in Queue \ {p} : queue'[q] = queue[q]
  /\ Cancelled({p})
  /\ UNCHANGED <<running, mode>>

\* The motor is locked: what the user wanted of it is cancelled.
Lock ==
  /\ Cancelled({Manual})
  /\ running' = None
  /\ UNCHANGED <<queue, mode>>

\* A new mode cancels everything but charging.
ChangeMode ==
  /\ Cancelled(Queue)
  /\ \A q \in Queue \ {0, Charge} : \A k \in DOMAIN queue[q] :
       left'[queue[q][k]] = 0
  /\ \A q \in {0, Charge} : \A k \in DOMAIN queue[q] :
       left'[queue[q][k]] = left[queue[q][k]]
  /\ running' = None
  /\ mode' # mode
  /\ UNCHANGED queue

\* The group whose turn it is takes the place of the one worked on, and does
\* all that it had to do from the beginning.
Begin(p) ==
  LET i == Head(queue[p])
  IN  /\ Turn(p)
      /\ running' = i
      /\ IF left[i] = 0 THEN left'[i] = 0 ELSE left'[i] >= left[i]
      /\ \A j \in Groups \ {i} : left'[j] = left[j]
      /\ UNCHANGED <<queue, automatic, mode>>

\* A step of the group worked on, whose turn it still is.
Work(p) ==
  LET i == Head(queue[p])
  IN  /\ Turn(p)
      /\ running = i
      /\ left[i] > 0
      /\ left'[i] = left[i] - 1
      /\ \A j \in Groups \ {i} : left'[j] = left[j]
      /\ UNCHANGED <<queue, running, automatic, mode>>

\* The group worked on has nothing left to do and goes.
Leave(p) ==
  /\ Waits(p)
  /\ running = Head(queue[p])
  /\ left[running] = 0
  /\ queue' = [queue EXCEPT ![p] = Tail(@)]
  /\ \A i \in Groups \ {running} : i \in automatic' <=> i \in automatic
  /\ running' = None
  /\ UNCHANGED <<left, mode>>

Next ==
  \/ \E p \in Queue : Request(p) \/ Begin(p) \/ Work(p) \/ Leave(p)
  \/ Lock \/ ChangeMode

Spec == Init /\ [][Next]_vars
=============================================================================
