------------------------------- MODULE Routes -------------------------------
(* The order in which a patrol visits its viewpoints and in which the       *)
(* groups of a charge try the piles, on the rail of a robot with one        *)
(* coordinate.  A viewpoint or a pile is its position.                      *)
EXTENDS Integers, Sequences, SequencesExt

Distance(p, q) == IF p < q THEN q - p ELSE p - q

\* Every order of the elements of a list.
Orders(list) ==
  { [i \in DOMAIN list |-> list[f[i]]] :
      f \in { g \in [DOMAIN list -> DOMAIN list] : Range(g) = DOMAIN list } }

Ascending(list) == \A i, j \in DOMAIN list : i < j => list[i] <= list[j]

---------------------------------------------------------------------------
(* selectBestViewPointRoute                                                 *)

Sorted(points) == CHOOSE list \in Orders(points) : Ascending(list)

\* Walking up the sorted list, the first viewpoint that is not behind the
\* robot, or the end of the list.
Border(sorted, curPos) ==
  CHOOSE b \in 1 .. Len(sorted) + 1 :
    /\ \A i \in 1 .. b - 1 : curPos > sorted[i]
    /\ b <= Len(sorted) => ~(curPos > sorted[b])

\* The viewpoints behind the robot, the nearest first, and those at or ahead
\* of it.
Behind(sorted, curPos) == Reverse(SubSeq(sorted, 1, Border(sorted, curPos) - 1))
Ahead(sorted, curPos) == SubSeq(sorted, Border(sorted, curPos), Len(sorted))

\* Fault: the side with more viewpoints comes first.
MoreBehind(sorted, curPos) ==
  Len(Behind(sorted, curPos)) > Len(Ahead(sorted, curPos))

\* The end behind is nearer than the end ahead; a side without viewpoints has
\* a negative distance.
NearerBehind(sorted, curPos) ==
  curPos - sorted[1] < sorted[Len(sorted)] - curPos

\* The nearer side first.  A list without viewpoints is not an input: the
\* code reads its first element.
selectBestViewPointRoute(points, curPos) ==
  LET sorted == Sorted(points)
  IN  IF NearerBehind(sorted, curPos)
      THEN Behind(sorted, curPos) \o Ahead(sorted, curPos)
      ELSE Ahead(sorted, curPos) \o Behind(sorted, curPos)

---------------------------------------------------------------------------
(* getSortedChargingPilePos                                                 *)

\* Fault: the difference is compared with its sign.
NearestSigned(curPos, piles) ==
  CHOOSE i \in DOMAIN piles :
    \A j \in DOMAIN piles : curPos - piles[i] <= curPos - piles[j]

\* The first of the piles nearest to curPos.
Nearest(curPos, piles) ==
  CHOOSE i \in DOMAIN piles :
    /\ \A j \in DOMAIN piles : Distance(curPos, piles[i]) <= Distance(curPos, piles[j])
    /\ \A j \in 1 .. i - 1 : Distance(curPos, piles[i]) < Distance(curPos, piles[j])

\* One call: the nearest pile goes from pilePos to sortedPos, and the rest is
\* sorted from there.  The element is read after it was erased, before
\* anything else could use its memory.
Sort(call) ==
  LET i == Nearest(call.curPos, call.pilePos)
  IN  [ curPos    |-> call.pilePos[i],
        sortedPos |-> Append(call.sortedPos, call.pilePos[i]),
        pilePos   |-> RemoveAt(call.pilePos, i) ]

\* The calls, until no pile is left.
getSortedChargingPilePos(curPos, piles) ==
  LET call[n \in 0 .. Len(piles)] ==
        IF n = 0 THEN [ curPos |-> curPos, sortedPos |-> <<>>, pilePos |-> piles ]
        ELSE Sort(call[n - 1])
  IN  call[Len(piles)].sortedPos

---------------------------------------------------------------------------
(* Reference                                                                *)

\* How far the robot drives from curPos along a route.
Driven(curPos, route) ==
  LET driven[n \in 0 .. Len(route)] ==
        IF n = 0 THEN 0
        ELSE driven[n - 1] + Distance(IF n = 1 THEN curPos ELSE route[n - 1], route[n])
  IN  driven[Len(route)]

\* The route visits each viewpoint once, and no other order drives less.
Shortest(points, curPos) ==
  LET route == selectBestViewPointRoute(points, curPos)
  IN  /\ route \in Orders(points)
      /\ \A other \in Orders(points) : Driven(curPos, route) <= Driven(curPos, other)

\* Each pile is tried once, and the robot passes no pile on the way to another
\* one that it has not tried before.
NonePassedUntried(piles, curPos) ==
  LET tried == getSortedChargingPilePos(curPos, piles)
      from(i) == IF i = 1 THEN curPos ELSE tried[i - 1]
  IN  /\ tried \in Orders(piles)
      /\ \A i \in DOMAIN tried : \A j \in i + 1 .. Len(tried) :
           ~ \/ from(i) < tried[j] /\ tried[j] < tried[i]
             \/ tried[i] < tried[j] /\ tried[j] < from(i)

=============================================================================
