---------------------------- MODULE RequestReply ----------------------------
(***************************************************************************)
(* What a client of the boards promises to the drivers.  A request goes to *)
(* the board once at most, and its reply comes back once at most and is    *)
(* taken by one driver at most.  A driver gets the reply to its own        *)
(* request or none; only one that does not compare the numbers may get     *)
(* that of another request, and only when identifiers have been used       *)
(* again.  Frames, connections, locks and lists are not visible here.      *)
(***************************************************************************)
EXTENDS Naturals

CONSTANTS Drivers,    \* threads that send requests
          Comparing,  \* those that compare the number in the reply
          Total,      \* requests are numbered 1 .. Total in the order they are made
          Ids         \* how many requests have identifiers of their own

VARIABLES asks,  \* per driver the request it waits for, or None
          took,  \* per driver the request whose reply it got last, or None
          fate   \* of each request

vars == <<asks, took, fate>>

Numbers == 1 .. Total
None == 0

\* The identifiers of the requests made so far are used again.
Reused == \E r \in Numbers : r > Ids /\ fate[r] # "new"

Moves(r, to) == fate' = [fate EXCEPT ![r] = to]

Init ==
  /\ asks = [d \in Drivers |-> None]
  /\ took = [d \in Drivers |-> None]
  /\ fate = [r \in Numbers |-> "new"]

Ask(d, r) ==
  /\ asks[d] = None
  /\ fate[r] = "new"
  /\ \A q \in 1 .. r - 1 : fate[q] # "new"
  /\ asks' = [asks EXCEPT ![d] = r]
  /\ took' = [took EXCEPT ![d] = None]
  /\ Moves(r, "made")

\* Without a connection the request goes nowhere.
Send(r) ==
  /\ fate[r] = "made"
  /\ \E to \in {"sent", "gone"} : Moves(r, to)
  /\ UNCHANGED <<asks, took>>

\* The reply to r is there, and one reply that nobody took may have to go.
Answer(r) ==
  /\ fate[r] = "sent"
  /\ \/ Moves(r, "answered")
     \/ \E q \in Numbers :
          /\ fate[q] = "answered"
          /\ fate' = [fate EXCEPT ![r] = "answered", ![q] = "gone"]
  /\ UNCHANGED <<asks, took>>

\* The requests R are lost with their connection.
Lose(R) ==
  /\ \A r \in R : fate[r] = "sent"
  /\ fate' = [r \in Numbers |-> IF r \in R THEN "gone" ELSE fate[r]]
  /\ UNCHANGED <<asks, took>>

\* A driver looks for a reply once its request is out of its hands.
Waiting(d) == asks[d] # None /\ fate[asks[d]] \notin {"new", "made"}

Take(d, r) ==
  /\ Waiting(d)
  /\ fate[r] = "answered"
  /\ \/ r = asks[d] /\ took' = [took EXCEPT ![d] = r]
     \/ r # asks[d] /\ Reused /\ d \in Comparing /\ UNCHANGED took
     \/ r # asks[d] /\ Reused /\ d \notin Comparing /\ took' = [took EXCEPT ![d] = r]
  /\ asks' = [asks EXCEPT ![d] = None]
  /\ Moves(r, "gone")

GiveUp(d) ==
  /\ Waiting(d)
  /\ asks' = [asks EXCEPT ![d] = None]
  /\ UNCHANGED <<took, fate>>

Next ==
  \/ \E d \in Drivers : GiveUp(d) \/ \E r \in Numbers : Ask(d, r) \/ Take(d, r)
  \/ \E r \in Numbers : Send(r) \/ Answer(r)
  \/ \E R \in SUBSET Numbers : Lose(R)

Spec == Init /\ [][Next]_vars
=============================================================================
