------------------------- MODULE PositionMoveProofs -------------------------
(* Proofs about the actions bound to places: the group that waits is the    *)
(* one for the side on which the robot was last seen, and the groups of a   *)
(* plan alternate; and that from wherever the robot is the routes on the    *)
(* rail are the best ones.                                                  *)
EXTENDS MCPositionMove, RoutesProofs

Sign(direction) == IF direction = "AHEAD" THEN 1 ELSE -1

\* A plan with both actions was left on the side of its last group: whenever
\* the robot passes it, a group is queued.
LastIsSide ==
  \A p \in Plan :
    Actions[p] = Direction /\ lastGroup[p] # "none" => side[p] = Sign(lastGroup[p])

SideInv == TypeOK /\ LastIsSide /\ GroupFollowsRobot

LEMMA SideInit == Init => SideInv
<1>. SUFFICES ASSUME Init PROVE SideInv
  OBVIOUS
<1>1. TypeOK
  <2>1. /\ side \in [Plan -> {-1, 0, 1}] /\ lastGroup \in [Plan -> Direction \cup {"none"}]
        /\ group \in Group /\ posPlan \subseteq Plan
    BY DEF Init, Group
  <2>2. position \in 0..Length /\ map \in Maps /\ currPos \in (0..Length) \cup {NotRead}
        /\ ready \in BOOLEAN
    BY DEF Init
  <2>3. threads \in {0, 1} /\ loads \in 0..MaxLoads
    BY BoundsAssumption DEF Init
  <2>. QED
    BY <2>1, <2>2, <2>3 DEF TypeOK
<1>. QED
  BY <1>1 DEF Init, SideInv, LastIsSide, GroupFollowsRobot

\* A load forgets the sides, and the groups it has seen.
LEMMA LoadStep ==
  ASSUME SideInv, NEW answers \in BOOLEAN, Load(answers), ready' \in BOOLEAN
  PROVE  SideInv'
<1>1. TypeOK'
  BY BoundsAssumption DEF SideInv, TypeOK, Load, Query, Started
<1>2. \A p \in Plan : lastGroup'[p] = "none"
  BY DEF Load
<1>3. posPlan' \subseteq Plan
  BY <1>1 DEF TypeOK
<1>. QED
  BY <1>1, <1>2, <1>3 DEF SideInv, LastIsSide, GroupFollowsRobot

\* What a look notes of a plan with both actions.
LEMMA LookNotes ==
  ASSUME SideInv, LookAtPlans, NEW p \in Plan
  PROVE  /\ Seen(p) \in {1, -1}
         /\ Towards(p) \in Direction
         /\ Seen(p) = Sign(Towards(p))
         /\ side'[p] = IF p \in posPlan THEN Seen(p) ELSE side[p]
         /\ lastGroup'[p] = IF p \in Creating THEN Towards(p) ELSE lastGroup[p]
BY DEF Seen, Towards, Sign, Direction, LookAtPlans, Noted

\* A plan with both actions that is not passed keeps its side.
LEMMA NotPassedStays ==
  ASSUME SideInv, LookAtPlans, NEW p \in Plan,
         Actions[p] = Direction, lastGroup[p] # "none", p \notin Creating
  PROVE  side'[p] = side[p]
<1>1. side[p] \in {1, -1}
  BY DEF SideInv, LastIsSide, Sign
<1>2. p \in posPlan => ~Passed(p)
  BY LookNotes DEF Creating
<1>. QED
  BY <1>1, <1>2, LookNotes DEF Passed

LEMMA LookStep ==
  ASSUME SideInv, LookAtPlans
  PROVE  SideInv'
<1>1. Creating \subseteq posPlan /\ posPlan \subseteq Plan
  BY DEF Creating, SideInv, TypeOK
<1>2. /\ currPos' = NotRead
      /\ side' = [p \in Plan |-> IF p \in posPlan THEN Seen(p) ELSE side[p]]
      /\ lastGroup' = [p \in Plan |-> IF p \in Creating THEN Towards(p) ELSE lastGroup[p]]
      /\ UNCHANGED <<position, map, posPlan, ready, threads, loads>>
  BY DEF LookAtPlans, Noted
<1>3. \/ Creating = {} /\ group' = group
      \/ \E p \in Creating : group' = [plan |-> p, direction |-> Towards(p)]
  BY DEF LookAtPlans, Create
<1>4. TypeOK'
  <2>1. group' \in Group
    BY <1>1, <1>3, LookNotes DEF Group, SideInv, TypeOK
  <2>2. side' \in [Plan -> {-1, 0, 1}]
    BY <1>2, LookNotes DEF SideInv, TypeOK
  <2>3. lastGroup' \in [Plan -> Direction \cup {"none"}]
    BY <1>2, LookNotes DEF SideInv, TypeOK
  <2>. QED
    BY <1>2, <2>1, <2>2, <2>3 DEF SideInv, TypeOK
<1>5. LastIsSide'
  <2>1. ASSUME NEW p \in Plan, Actions[p] = Direction, lastGroup'[p] # "none"
        PROVE  side'[p] = Sign(lastGroup'[p])
    <3>1. CASE p \in Creating
      BY <1>1, <3>1, LookNotes
    <3>2. CASE p \notin Creating
      <4>1. lastGroup'[p] = lastGroup[p]
        BY <3>2, LookNotes
      <4>2. side'[p] = side[p]
        BY <2>1, <3>2, <4>1, NotPassedStays
      <4>. QED
        BY <2>1, <4>1, <4>2 DEF SideInv, LastIsSide
    <3>. QED
      BY <3>1, <3>2
  <2>. QED
    BY <2>1 DEF LastIsSide
<1>6. GroupFollowsRobot'
  <2>1. ASSUME NEW p \in posPlan, Actions[p] = Direction, group'.plan = p,
               lastGroup'[p] # "none"
        PROVE  side'[p] = Sign(group'.direction)
    <3>1. CASE Creating = {} /\ group' = group
      <4>1. lastGroup'[p] = lastGroup[p]
        BY <1>1, <3>1, LookNotes
      <4>2. side'[p] = side[p]
        BY <1>1, <2>1, <3>1, <4>1, NotPassedStays
      <4>. QED
        BY <2>1, <3>1, <4>1, <4>2 DEF SideInv, GroupFollowsRobot, Sign
    <3>2. CASE \E q \in Creating : group' = [plan |-> q, direction |-> Towards(q)]
      <4>1. p \in Creating /\ group'.direction = Towards(p)
        BY <2>1, <3>2
      <4>. QED
        BY <1>1, <4>1, LookNotes
    <3>. QED
      BY <1>3, <3>1, <3>2
  <2>. QED
    BY <1>2, <2>1 DEF GroupFollowsRobot, Sign
<1>. QED
  BY <1>4, <1>5, <1>6 DEF SideInv

\* The steps that leave the plans and their sides alone.
LEMMA OtherStep ==
  ASSUME SideInv,
         \/ \E m \in Maps : BindSimpleMap(m)
         \/ ReadPosition
         \/ \E p \in 0..Length : Travel(p)
         \/ GroupEnds
         \/ UNCHANGED vars
  PROVE  SideInv'
<1>1. UNCHANGED <<posPlan, side, ready, threads, lastGroup, loads>>
  BY DEF BindSimpleMap, ReadPosition, Travel, GroupEnds, vars
<1>2. group' \in {group, None} /\ map' \in Maps /\ position' \in 0..Length
  BY DEF SideInv, TypeOK, BindSimpleMap, ReadPosition, Travel, GroupEnds, vars
<1>3. currPos' \in (0..Length) \cup {NotRead}
  BY DEF SideInv, TypeOK, BindSimpleMap, ReadPosition, Travel, GroupEnds, vars
<1>4. TypeOK'
  BY <1>1, <1>2, <1>3 DEF SideInv, TypeOK, Group
<1>5. \A p \in posPlan : group'.plan = p => group' = group
  BY <1>2, NoneAssumption DEF None, SideInv, TypeOK
<1>. QED
  BY <1>1, <1>4, <1>5 DEF SideInv, LastIsSide, GroupFollowsRobot

LEMMA SideNext == SideInv /\ [Next]_vars => SideInv'
<1>. SUFFICES ASSUME SideInv, [Next]_vars PROVE SideInv'
  OBVIOUS
<1>1. ASSUME NEW answers \in Answers, init(answers) \/ PosPlanUpdate(answers)
      PROVE  SideInv'
  <2>1. answers \in BOOLEAN /\ Load(answers) /\ ready' \in BOOLEAN
    BY <1>1 DEF Answers, init, PosPlanUpdate, SideInv, TypeOK
  <2>. QED
    BY <2>1, LoadStep
<1>. QED
  BY <1>1, LookStep, OtherStep DEF Next, Trigger

THEOREM TypeCorrect == Spec => []TypeOK
<1>1. SideInv => TypeOK
  BY DEF SideInv
<1>. QED
  BY <1>1, SideInit, SideNext, PTL DEF Spec

\* The group that waits is the one for the side where the robot was last seen
\* (movementTrigger queues and notes the side in one look, and a look passes
\* over no change of side), whatever the plans, the rail and the speed.
THEOREM AlwaysFollowsRobot == Spec => []GroupFollowsRobot
<1>1. SideInv => GroupFollowsRobot
  BY DEF SideInv
<1>. QED
  BY <1>1, SideInit, SideNext, PTL DEF Spec

\* One group per passage: between two loads the groups of a plan with both
\* actions alternate, for any number of plans passed in one look.
THEOREM AlwaysAlternate == Spec => ActionsAlternate
<1>1. ASSUME SideInv, [Next]_vars, NEW p \in Plan, Actions[p] = Direction,
             loads' = loads, group' # group, group'.plan = p
      PROVE  lastGroup[p] # group'.direction
  <2>1. CASE LookAtPlans
    <3>1. p \in Creating /\ group' = [plan |-> p, direction |-> Towards(p)]
      BY <1>1, <2>1 DEF LookAtPlans, Create
    <3>2. side[p] = -Seen(p)
      BY <3>1 DEF Creating, Passed
    <3>3. Seen(p) = Sign(Towards(p)) /\ Seen(p) \in {1, -1}
      BY <1>1, <2>1, LookNotes
    <3>4. lastGroup[p] = Towards(p) => FALSE
      BY <1>1, <3>2, <3>3, LookNotes, <2>1 DEF SideInv, LastIsSide, Direction
    <3>. QED
      BY <3>1, <3>4
  <2>2. CASE ~LookAtPlans
    <3>1. group' = None
      BY <1>1, <2>2 DEF Next, Trigger, init, PosPlanUpdate, Load, BindSimpleMap,
        ReadPosition, Travel, GroupEnds, vars, SideInv, TypeOK
    <3>. QED
      BY <1>1, <3>1, NoneAssumption DEF None
  <2>. QED
    BY <2>1, <2>2
<1>2. SideInv /\ [Next]_vars =>
        [\A p \in Plan :
           Actions[p] = Direction /\ loads' = loads /\ group' # group /\ group'.plan = p
             => lastGroup[p] # group'.direction]_vars
  BY <1>1
<1>. QED
  BY <1>2, SideInit, SideNext, PTL DEF Spec, ActionsAlternate

LEMMA ListsAreSequences ==
  ASSUME NEW list \in ListsOfPlaces
  PROVE  list \in Seq(Int) /\ list # <<>>
<1>1. PICK n \in 1 .. 4 : list \in [1 .. n -> -1 .. (Length + 1)]
  BY DEF ListsOfPlaces
<1>2. list \in [1 .. n -> Int] /\ n \in Nat
  BY <1>1, BoundsAssumption
<1>3. list \in Seq(Int) /\ Len(list) = n
  BY <1>2, ListOf
<1>. QED
  BY <1>1, <1>3, EmptySeq

\* Wherever the robot is, the route chosen for the viewpoints of a patrol
\* visits each of them once and no other order is shorter
\* (selectBestViewPointRoute): BestRoute, which holds of lists of any length
\* and of places anywhere on the rail, at the places of the runs.
THEOREM AlwaysShortest == Spec => []RouteIsShortest
<1>1. TypeOK => RouteIsShortest
  <2>1. ASSUME NEW at \in 0 .. Length, NEW points \in ListsOfPlaces
        PROVE  Shortest(points, at)
    <3>1. at \in Int
      BY BoundsAssumption
    <3>. QED
      BY <3>1, ListsAreSequences, BestRoute
  <2>. SUFFICES ASSUME TypeOK PROVE RouteIsShortest
    OBVIOUS
  <2>2. position \in 0 .. Length
    BY DEF TypeOK
  <2>. QED
    BY <2>1, <2>2 DEF RouteIsShortest, ShortestFrom
<1>. QED
  BY <1>1, TypeCorrect, PTL

\* Wherever the robot is, the groups of a charge try every pile once and the
\* robot passes none that has not been tried (getSortedChargingPilePos):
\* NoneUntried, which holds of lists of any length, at the places of the runs.
THEOREM AlwaysTriedOnTheWay == Spec => []PilesTriedOnTheWay
<1>1. TypeOK => PilesTriedOnTheWay
  <2>1. ASSUME NEW at \in 0 .. Length, NEW piles \in ListsOfPlaces
        PROVE  NonePassedUntried(piles, at)
    <3>1. at \in Int
      BY BoundsAssumption
    <3>. QED
      BY <3>1, ListsAreSequences, NoneUntried
  <2>. SUFFICES ASSUME TypeOK PROVE PilesTriedOnTheWay
    OBVIOUS
  <2>2. position \in 0 .. Length
    BY DEF TypeOK
  <2>. QED
    BY <2>1, <2>2 DEF PilesTriedOnTheWay, NoneUntriedFrom
<1>. QED
  BY <1>1, TypeCorrect, PTL

=============================================================================
