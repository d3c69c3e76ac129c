---------------------------- MODULE PositionMove ----------------------------
(* The actions bound to places of the rail: a thread compares the position  *)
(* of the robot with that of each plan ten times per second and, when the   *)
(* robot has passed a plan, queues the group of actions for that direction. *)
(* The plans of the map are loaded at the start and again on request, while *)
(* the thread looks; the scheduler takes the queued group at any time.      *)
EXTENDS Integers, Sequences, Functions

CONSTANTS
  Plans,       \* the plans of the database, in the order a query returns them
  Position,    \* position of each plan
  PlanMap,     \* map of each plan
  Actions,     \* directions in which a plan has an action
  Maps,        \* maps the robot may be bound to
  Length,      \* bound: last position of the rail
  MaxJump,     \* bound: how far the robot gets between two looks
  MaxLoads,    \* bound: loads of a behaviour
  DbMayFail    \* whether the query of the plans may fail

Plan == Range(Plans)
Direction == {"AHEAD", "BACK"}

ASSUME PlansAssumption ==
  /\ IsInjective(Plans)
  /\ Position \in [Plan -> 0..Length]
  /\ PlanMap \in [Plan -> Maps]
  /\ Actions \in [Plan -> SUBSET Direction]
ASSUME BoundsAssumption ==
  Length \in Nat /\ MaxJump \in Nat \ {0} /\ MaxLoads \in Nat \ {0} /\ DbMayFail \in BOOLEAN

VARIABLES
  position,   \* what MotorDriver last read
  map,        \* m_nMapId
  posPlan,    \* m_PosPlan: the plans loaded; their order is that of Plans
  side,       \* robot_position of each plan
  ready,      \* m_ready
  threads,    \* trigger threads started so far; m_ThreadRun is threads # 0
  currPos,    \* position the thread has read, before it takes the mutex
  group,      \* _rootTasks[TP_PLAN]: the group not terminated yet
  lastGroup,  \* history: direction of the last group of each plan
  loads       \* loads so far

vars == <<position, map, posPlan, side, ready, threads, currPos, group, lastGroup, loads>>

None == [plan |-> "none", direction |-> "none"]

ASSUME NoneAssumption == "none" \notin Plan

NotRead == -1
Group == [plan : Plan, direction : Direction] \cup {None}

TypeOK ==
  /\ position \in 0..Length
  /\ map \in Maps
  /\ posPlan \subseteq Plan
  /\ side \in [Plan -> {-1, 0, 1}]
  /\ ready \in BOOLEAN
  /\ threads \in {0, 1}
  /\ currPos \in (0..Length) \cup {NotRead}
  /\ group \in Group
  /\ lastGroup \in [Plan -> Direction \cup {"none"}]
  /\ loads \in 0..MaxLoads

Init ==
  /\ position \in 0..Length
  /\ map \in Maps
  /\ posPlan = {}
  /\ side = [p \in Plan |-> 0]
  /\ ready = FALSE
  /\ threads = 0
  /\ currPos = NotRead
  /\ group = None
  /\ lastGroup = [p \in Plan |-> "none"]
  /\ loads = 0

---------------------------------------------------------------------------
(* Loading the plans.                                                       *)

\* queryPPListByRobotMap: a query that fails returns no plan.
Query(answers) == { p \in Plan : answers /\ PlanMap[p] = map }

\* Fault: a thread is started by every load that finds plans.
StartedEachTime(plans) == IF plans # {} THEN threads + 1 ELSE threads

\* Fault: only a load that is not the first starts no thread.
StartedAtFirst(plans) == IF plans # {} /\ loads = 0 THEN 1 ELSE threads

Started(plans) == IF plans # {} /\ threads = 0 THEN 1 ELSE threads

\* updatePosPlan, under g_mutex: every plan begins without a side.
Load(answers) ==
  /\ loads < MaxLoads
  /\ loads' = loads + 1
  /\ posPlan' = Query(answers)
  /\ side' = [p \in Plan |-> 0]
  /\ lastGroup' = [p \in Plan |-> "none"]
  /\ threads' = Started(Query(answers))
  /\ UNCHANGED <<position, map, currPos, group>>

init(answers) ==
  /\ ~ready
  /\ ready' = TRUE
  /\ Load(answers)

\* POSPLAN_UPDATE is refused before init has ended.
PosPlanUpdate(answers) ==
  /\ ready
  /\ Load(answers)
  /\ UNCHANGED ready

\* bindSimpleMap changes the map; the plans stay those of the map before until
\* the next load.
BindSimpleMap(m) ==
  /\ m # map
  /\ map' = m
  /\ UNCHANGED <<position, posPlan, side, ready, threads, currPos, group, lastGroup, loads>>

---------------------------------------------------------------------------
(* movementTrigger.                                                         *)

ReadPosition ==
  /\ threads # 0
  /\ currPos = NotRead
  /\ currPos' = position
  /\ UNCHANGED <<position, map, posPlan, side, ready, threads, group, lastGroup, loads>>

\* The side of plan p on which the position that was read lies.
Seen(p) == IF currPos >= Position[p] THEN 1 ELSE -1

Towards(p) == IF Seen(p) = 1 THEN "AHEAD" ELSE "BACK"

\* The robot was last seen on the other side of p.
Passed(p) == side[p] = -Seen(p)

\* The loaded plans a group is queued for: those the robot has passed in a
\* direction they have an action for.
Creating == { p \in posPlan : Passed(p) /\ Towards(p) \in Actions[p] }

\* Fault: a group that waits is not terminated by a new one.
CreateKeeping ==
  IF Creating = {} \/ group # None
  THEN group' = group
  ELSE \E p \in Creating : group' = [plan |-> p, direction |-> Towards(p)]

\* createPositionPlanTaskItem for each of them in order: the group before is
\* terminated, so that the last one's stays.
Create ==
  \/ Creating = {} /\ group' = group
  \/ \E k \in DOMAIN Plans :
       /\ Plans[k] \in Creating
       /\ \A j \in DOMAIN Plans : Plans[j] \in Creating => j <= k
       /\ group' = [plan |-> Plans[k], direction |-> Towards(Plans[k])]

\* Fault: the side is noted only where no group is queued.
NotedUnlessPassed == [p \in Plan |-> IF p \in posPlan \ Creating THEN Seen(p) ELSE side[p]]

Noted == [p \in Plan |-> IF p \in posPlan THEN Seen(p) ELSE side[p]]

\* All plans, under g_mutex.
LookAtPlans ==
  /\ currPos # NotRead
  /\ currPos' = NotRead
  /\ Create
  /\ side' = Noted
  /\ lastGroup' = [p \in Plan |-> IF p \in Creating THEN Towards(p) ELSE lastGroup[p]]
  /\ UNCHANGED <<position, map, posPlan, ready, threads, loads>>

---------------------------------------------------------------------------
\* The robot has moved when its position is read again.
Travel(p) ==
  /\ p # position
  /\ p - position <= MaxJump /\ position - p <= MaxJump
  /\ position' = p
  /\ UNCHANGED <<map, posPlan, side, ready, threads, currPos, group, lastGroup, loads>>

\* External: the scheduler has executed the group, or cleared its queue.
GroupEnds ==
  /\ group # None
  /\ group' = None
  /\ UNCHANGED <<position, map, posPlan, side, ready, threads, currPos, lastGroup, loads>>

Answers == IF DbMayFail THEN BOOLEAN ELSE {TRUE}

Trigger == ReadPosition \/ LookAtPlans

Next ==
  \/ \E answers \in Answers : init(answers) \/ PosPlanUpdate(answers)
  \/ \E m \in Maps : BindSimpleMap(m)
  \/ Trigger
  \/ \E p \in 0..Length : Travel(p)
  \/ GroupEnds

Spec == Init /\ [][Next]_vars

\* The trigger thread is a loop without an end.
FairSpec == Spec /\ WF_vars(Trigger)

---------------------------------------------------------------------------
\* Between two loads the groups of a plan with both actions alternate: the robot
\* that goes to and fro gets the action for each direction once per passage,
\* also when another plan terminated the group before it could start.
ActionsAlternate ==
  [][\A p \in Plan :
       Actions[p] = Direction /\ loads' = loads /\ group' # group /\ group'.plan = p
         => lastGroup[p] # group'.direction]_vars

\* A plan with an action for both directions never has the group for one
\* direction waiting once the robot was seen on the other side, as long as the
\* plans were not loaded in between: a load forgets the sides and leaves the
\* group.
GroupFollowsRobot ==
  \A p \in posPlan :
    (Actions[p] = Direction /\ group.plan = p /\ lastGroup[p] # "none") =>
      side[p] = (IF group.direction = "AHEAD" THEN 1 ELSE -1)

\* A robot that stays beyond a loaded plan, or before it, is seen there,
\* however the plans were reloaded, and no matter which load found the first
\* plan.
RestingIsSeen ==
  \A p \in Plan :
    /\ <>[](p \in posPlan /\ position >= Position[p]) => <>[](side[p] = 1)
    /\ <>[](p \in posPlan /\ position < Position[p]) => <>[](side[p] = -1)

=============================================================================
