SPECIFICATION FairSpec
CONSTANTS
  Plans <- PlansOfTwoMaps
  Position <- PositionOfPlans
  PlanMap <- MapOfPlans
  Actions <- ActionsOfPlans
  Maps = {1, 2}
  Length = 3
  MaxJump = 2
  MaxLoads = 3
  DbMayFail = TRUE
INVARIANTS TypeOK GroupFollowsRobot RouteIsShortest PilesTriedOnTheWay
PROPERTIES ActionsAlternate RestingIsSeen
