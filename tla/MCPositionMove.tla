--------------------------- MODULE MCPositionMove ---------------------------
(* Three plans on a short rail, two of them on the map of the start and     *)
(* passed in one look by a fast robot, one with an action ahead only.  The  *)
(* same position of the robot is where routes begin.                        *)
EXTENDS PositionMove, Routes

PlansOfTwoMaps == <<"near", "far", "other">>

PositionOfPlans == [p \in {"near", "far", "other"} |-> IF p = "far" THEN 2 ELSE 1]

MapOfPlans == [p \in {"near", "far", "other"} |-> IF p = "other" THEN 2 ELSE 1]

ActionsOfPlans ==
  [p \in {"near", "far", "other"} |-> IF p = "other" THEN {"AHEAD"} ELSE {"AHEAD", "BACK"}]

\* Lists of viewpoints, in any order and also on one place, and of piles, at
\* places the robot reaches and beyond both ends of its rail.
ListsOfPlaces == UNION { [1..n -> -1..(Length + 1)] : n \in 1..4 }

ShortestFrom == [p \in 0..Length |-> \A points \in ListsOfPlaces : Shortest(points, p)]

NoneUntriedFrom ==
  [p \in 0..Length |-> \A piles \in ListsOfPlaces : NonePassedUntried(piles, p)]

\* Wherever the robot is when a patrol is created, the route chosen for its
\* viewpoints visits each of them and no other order is shorter
\* (selectBestViewPointRoute, "the best route").
RouteIsShortest == ShortestFrom[position]

\* Wherever the robot is when it has to charge, the order of the groups tries
\* every pile once and passes none that has not been tried
\* (getSortedChargingPilePos).
PilesTriedOnTheWay == NoneUntriedFrom[position]

=============================================================================
