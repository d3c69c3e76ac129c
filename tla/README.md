# A verification development of the inspection robot

The program (`src/Slave`) drives a rail robot: it patrols viewpoints, takes
photos and recordings at each, records them in a database, obeys a user at a
remote control, charges itself and stops at obstacles. This directory holds
TLA+ models of its core, the TLC configurations that check them and proofs for
the TLA+ proof system.

The first part describes the program, the second the models, the third what is
checked and what is proved, the last what is left and in which order it should
be done. Paths are relative to `src/Slave/src/Transaction` unless they start
with `src/`; `MTM` is `MoveTaskManage/MoveTaskManage.cpp`.

## 1. The system

### Components

| Component | State it keeps | Operations | Talks to |
|---|---|---|---|
| Task scheduler (`MTM`, `MoveTask`, `MoveTaskItem`, `MoveTaskComponent`) | five trees of groups (`_rootTasks`), the current group, the last run mode seen, per group its commands, `curIter`, exceptions and the active flag | `process` (one round), `createXxxTaskItem`, `manulCharge`, `manulMoveControl`, `lowBatteryCharge`, `clearTaskCommands`, `regularTaskAgingCheck` | commands (calls), settings (shared), `g_taskMtx` |
| Commands (`MoveTaskManage/*Command.cpp`, `GotoHome`) | `_exeRet`, `_exeStatus`, `_tryCnt`, `_waitCnt`; the shared parameters of their MoveTask; the global `patrolViewPointInfo`; the static counter of `GotoCommand` | `exec`, called again until it has a result | motors, pan-tilt, cameras, database |
| Records (`MySQLServer`, `SQLOperationCommand`, `SQLInsertCommand`, `TakePicException`) | `task_exec_record`, `task_detail_record` (external) | open, close, fail, insert | database |
| Robot (`Robot.cpp`) | task list, piles, lamps, power saving | requests of clients; threads for rotation of tasks, low battery, no operation, current protection, anti-discharge, self inspection, reports | scheduler, settings, all drivers |
| Movement exceptions (`MoveException`, `RadarManager`) | the flags of front, back and below; the warn bits of the radars | observer `update`, `judgeWarn` | scheduler (flags), alarms |
| Position plans (`PositionMove`) | the plans and on which side of each the robot is | `movementTrigger`, `updatePosPlan` | scheduler |
| Warnings (`WarningManager`, `WarningService`) | counts, last times, flags for the PLC | `judgeWarn` once a second | database |
| Image recognition (`ImageProcessManager`) | a queue of viewpoints | `appendViewPointInfo`, `run` | HTTP service, database |
| Data services (`TaskService`, `SettingService`, `MapService`, ...) | copies of tables | load, store | database |
| Motor and drivers (`Motor`, `src/Slave/src/Driver`, `src/Slave/src/base`) | last values read | calls | hardware |
| Network clients and the request server (`TcpClient`, `src/zmq`) | sockets, listeners | request, receive | boards, user interface |

Every component, with the reason where it is not modelled, is listed in
`PROJECT.json`.

### How they interact

One thread, `MTM:74 process`, executes everything the robot does. Each round
takes `g_taskMtx`, deletes the current group if it has no commands left, looks
at the motor lock, chooses a group (`queryHighestPrioriyTaskItem`, by priority,
run mode and obstacles) and calls `run` once, which calls `exec` of one command
once. Then it sleeps without the mutex. All other threads append groups or
empty them under the mutex; they never delete a group. The run mode, the motor
lock and the obstacle flags are plain fields, written without the mutex and
read in the middle of a round. What the threads know of the motor is the state
a thread of the driver stores every half second.

A patrol is a MoveTask of several groups: the first opens the execution record,
one per viewpoint drives, lifts, turns, photographs and inserts, and the last
returns or charges. The groups of a patrol share a JSON value with the
execution id and the result of the last command.

### What is hard

* Groups are emptied by one thread while another holds a pointer to them across
  rounds, and an address is used again after a deletion.
* Settings change between two statements of a round.
* A patrol is preempted at any command, started again from the group's first
  command, or cancelled, and its record must not lie.
* Commands fail, time out and are sent again, with counters and results that
  outlive them (a static, a shared value, a global).
* Several producers decide on what they have read before they took the mutex.
* Lists are loaded again under the threads that walk them; replies come late,
  time passes while a patrol is being created.

What makes each part correct:

* scheduler: no pointer to a deleted group, no `exec` through an iterator into
  an emptied group, no command executed in a mode that executes nothing, a
  failed patrol stays failed, a cancelled viewpoint closes its record, a patrol ends, a
  cleared group goes away;
* commands: a photo is taken in place, a record names its own photo, a failure
  at one viewpoint does not spoil the next, success only after all viewpoints,
  retries end;
* exceptions: a flag stands for a radar that warns and goes when all are silent;
  warnings: none without ten warning rounds in a row, and a standing one is
  alarmed again; position plans: one group per crossing, for the side the robot
  was last seen on; recognition: a viewpoint is recorded before it is
  recognised; rotation: one patrol per promised second; network clients: the
  reply to the own request, or none.

The hazards, each at its line, with the properties aimed at it, are in
`PROJECT.json`.

## 2. The models

### `MoveTaskItem.tla`: the groups

A group is a record: `type`, `cmds` (its commands, by kind), `at` (`curIter`),
`ret` (the result of the command there), `active`, `except` (whether an
exception is registered) and `task` (whose shared parameters it uses).
`initStatusPara`, `clearCommands`, `exceptionsExit` are the methods of that
name; `ChargeItem`, `ViewPointItem`, ... are what the `createXxx` functions
build. A command is one of the kinds the scheduler's properties tell apart:
`Motion` (drives the hardware), `Lock` (sets the lock and stops the motor, and
is called again until the stop is accepted), `SetSpeed`, `SQLOperation`
(opens or closes the record), `SQLInsert` and `SQLInsertLast` (the result of a
viewpoint). Only `Motion` and `Lock` may need further calls.

### `MoveTaskManage.tla`: the scheduler and the threads that feed it

`rootTasks` maps each priority to the sequence of its groups: only the order
from left to right matters to the code (`findLeftMostChild`, `add`, `remove`),
so the tree of MoveTasks is flattened. A group is an element of `Items`, its
address; `Enqueue` takes a free one, so an address is used again after
`ProcessReap` has deleted the group.

A round of `process` is the actions `ProcessReap`, `LockCheck`, `QueryMode`,
`QueryScan` (once per priority) and `Start` or `RunCurrent`. They are separate
because another thread may write a setting between any two; the producers wait
for `process.at = "unlocked"`, which is the mutex. Every other thread is a pair
of actions, one where it looks and one where it acts, if the code separates
them: `TaskNow`/`PatrolHome`/`PatrolAdd`, `Rotation`, `LowBatteryLook`/`Add`,
`AntiDischargeLook`/`Charge`, `NoOperationTimeout`/`Switch`,
`ProtectLook`/`GoTo`, `AgeingLook`/`Check`. `Requests` says which of them an
instance contains.

Abstractions: the commands inside are results (their detail is in
`PatrolCommands`); the record of a patrol is one of `none`, `open`, `success`,
`fail`; allocation of addresses is deterministic, because which free address is
taken does not matter to anything; a power cycle is not an action, as the
program starts from `Init` again. `RFID` tasks are not modelled: nothing calls
`createRFIDTaskItem`.

`motor` is what the motor does, `motorStatus` the state the driver last stored of
it: `getCurStatus` returns the second, which `UpdateInfo` brings up to date at any
time or never. The threads that look at the motor (`ProtectLook`,
`AntiDischargeLook`) and the stop at a change of mode (`StopMotor`) look at the copy,
and the stop may fail besides, as nobody asks for its result. `UpdateInfo` is one of
`Requests`; where an instance leaves it out the copy stays at rest, so that no
change of mode stops the motor and the two threads go ahead whenever they may.

`AgeingCheck` empties the aged patrol, runs the exceptions of its first group if that
is active, and ends the program (`alive = FALSE`), or ends it at once where the
patrol was deleted since the list was copied.

### `PatrolCommands.tla`: what the commands of a patrol do

The groups of one patrol in a row (`Groups`: homing, start, one per viewpoint,
return or charge), built as `createPatroPlanTaskItem`,
`createPtzArmHomeTaskItem` and `createChargeTaskItem` build them. Each command
has an operator of its name that is one call of `exec`: its states
(`_exeStatus`), its tries, what it writes to the shared result, to
`patrolViewPointInfo` (`info`), to the database (`records`, `verdict`) and to
the hardware (`hw`: per motor a place and a goal). `ExecCurrent`, `ExecNext` and
`NextGroup` are the three branches of `MoveTaskItem::run`. `Preempt` is a group
of higher priority in between: the hardware and the static counter come back
different, `patrolViewPointInfo` may hold the photo of another patrol, and the
group starts again from its first command.

Abstractions: a timer that has not run out is a stuttering step; the limits of
retries are constants (`ReachRetries` is 5 in the code, `LiftChecks` 60,
`RotateChecks` 30), the small ones are literal; a height up to 20 is `Folded`,
and viewpoints are assumed above that; the arm and the pan-tilt are present and
there is one coordinate (the robots with two use other commands); charges are of
the manual kind, the only one a patrol ends with. Reads the code leaves
undefined are nondeterministic: `ptzState[4]` of a vector of four elements in
`PddDet` (whose test of the size fails the command where the vector is shorter), the uninitialised start of a recording in `RecordVideo`. A statement
of the database is lost or not (`DbMayFail`); a record whose number could not be read
back after its insertion stays open in the table and is none to the patrol, which is
what `verdict` stands for. Cancelling a patrol is the
scheduler's matter and is not repeated here; how the two fit is described below.

### `PatrolReport.tla`: what a patrol promises about its records

The patrol is at a `stop`, one viewpoint after the other; `spoilt` says that
something failed there and `told` that the database was told about it. `Open` opens
the report before the first viewpoint; `Tell` writes the row of the viewpoint, once,
and at the last one the verdict with it; a row names the own photo or, of a spoilt
viewpoint, any; `Again` starts the viewpoint again; `GoOn` leaves one that was
told. `PatrolCommands` implements it: `stop` is read off the group that runs
(`Stop`), `spoilt` and `told` off the results of its commands. Statements may be
lost (`MayLose`) where the database may fail.

### `ImageProcessManager.tla`: recognition beside the patrol

Extends `PatrolCommands`: whenever a step of the patrol is the call of `ImageRec`
that appends, `Patrol` appends the viewpoint to `queue`. `Clear`, `Take` and
`Answer` are the three ways through a round of the thread (`run`): everything is
dropped past `MaxQueue`, or one viewpoint is taken and `getProcessResult` returns.
Each critical section of `m_lck` is one action. What the service answers, and
what becomes an alarm, is left out: it ends in tables nothing reads.

### `PriorityScheduler.tla`: what the scheduler promises

Queues by priority, whose elements are names. `Request` appends to one queue and may
cancel what waits there; `Lock` cancels what the user wanted of the motor,
`ChangeMode` everything but charging. `Begin` makes the oldest group of a queue the
current one if it is its `Turn`: the mode does not hold it, and in every queue
before it waits nothing, or a group the mode holds or an obstacle may hold. A group
that is begun again may have to start over. `Work` takes one step off the current
group; `Leave` removes it when nothing is left. The module knows no rounds, no
mutex, no iterators and no commands.
`MoveTaskManageScheduler` maps the scheduler to it: a group to its address and the
number of commands ahead of it (`Remaining`). A round, which the detailed model
splits so that the other threads get in between, is one abstract step.

### `Routes.tla`: orders of viewpoints and piles

`selectBestViewPointRoute` and `getSortedChargingPilePos` as operators over lists
of positions. `std::sort` is the ascending one of the `Orders` of a list, the walk to
the robot's place the `Border`, and the recursion over the piles a recursive function
of the number of calls. The references beside them (`Shortest`,
`NonePassedUntried`) quantify over every order. The robots with two
coordinates sort by the number in the name instead and are left out.

### `MoveException.tla` and `WarningManager.tla`: obstacles and alarms

`MoveException` has the round of the radars (`JudgeRadars`), the observer they
notify (`UpdateUltrasound`, a step of its own, since the status may change before it
is read), and the errors of the motors with the alarms they store. `WarningManager`
extends it with `JudgeWarn`: a count per kind, back to zero in a silent round,
the decision at `CountLimit`, and the two rules of repetition (another place, or
`Interval` later), which read the last alarm of the item from the database all
threads write to. The loop over the kinds is the set `alarmed` of those for which
it stores an alarm; what an earlier kind of the same round stores is seen by a
later one of the same item (`LastPlace`), which is all the order matters for. `inARow` is a history variable. Sensor kinds are over their
thresholds at will; the warning of the front radar is its flag in `MoveException`.

### `TcpClient.tla`: requests to the boards

`request` in the steps another thread can come between: the mutex `lck`, the claim
of the frame layer (`TF_ClaimTx`), the identifier (`TF_ComposeHead`), the write, the
unlock, and the rounds of looking for the reply in `m_tfMsgList`. `Receive` is the
receiving thread, which drops its oldest replies past `MaxMsgs`. External: the
board, which answers any pending frame at any time or never, and the connection.
Some drivers compare the number of the request in the reply (`Checking`), most
do not.

### `RequestReply.tla`: what the client promises

Requests, numbered, each with a `fate`: new, made, sent, answered, gone. A driver
that has none may `Ask`; `Send` hands the request to the board, or loses it; `Answer`
brings the reply and may push out another; `Lose` is the end of a connection; and a
driver that waits may `Take` a reply, its own unless identifiers were `Reused`, or
`GiveUp`. `TcpClient` implements it: the fate of a request is read off the threads
that hold it, the frames pending and the lists of replies (`Fate`).

### `PositionMove.tla`: position plans

`movementTrigger` as `ReadPosition` (without the mutex) and `LookAtPlans` (all plans
under it); `PosPlanUpdate` and `BindSimpleMap` load plans and change the map.
The loaded plans are a set, and a look is told plan by plan: the side a plan is
`Seen` on, whether the robot has `Passed` it, what is `Noted`. The order of the
plans matters only to the group that stays, the last one's.
`Create` is `createPositionPlanTaskItem`, seen from here: the group in the plan queue
is replaced. A load of no plan leaves the thread as it is.

### `TaskRotation.tla`: patrols by the clock

A pass of `taskRotation` is `BeginPass`, one `PassOver` or
`BeginCreate`/`EndCreate` per patrol, and the clock goes on during creations.
Days and hours are units of seconds. `TasksRefreshUnderPass` is the reload that
frees the element the thread stands on: it goes on anywhere in the new list,
which is what the undefined behaviour may do short of ending the program. A creation
under way has a copy of its patrol and goes on (`Passing`).

### How the modules fit

`MoveTaskManage` decides between groups and treats a command as a result;
`PatrolCommands` executes commands and treats the other groups as `Preempt`. What
the first assumes of the second is that a command it goes on calling ends
(strong fairness of `RunCurrent(i, "ST_DONE")`); `PatrolOver` of the second is
that claim. What the second assumes of the first is that a group is
restarted from `initStatusPara` whenever it was not the current one, which is
`Start`. `SetUSSExcep` of `MoveTaskManage` lets the obstacle flags change at any
time; `ObstacleGone` of `WarningManager` is what `PatrolEnds` assumes of them.
`Rotation` and `PositionPlan` of `MoveTaskManage` are the calls that
`TaskRotation` and `PositionMove` decide on.

## 3. The runs

| Run | Instance | Question |
|---|---|---|
| `modes` | task, remote control and handle mode; manual moves, locks, position plans, scheduled patrols of two viewpoints, ageing | do the pointers, the iterator, the records and the order of priorities survive a change of mode between any two steps of a round, and does nothing run in handle mode (`NothingRuns`)? |
| `patrolEnds` | scheduled patrols, obstacles, low battery and the cancelling of charges, current protection, no operation; fairness | does a patrol end with a verdict, and does no group work out of turn (`ImplementsScheduler`)? |
| `clearedGo` | gotos, charges, anti-discharge and patrols ordered now, with homing, in remote control; a database that may fail; fairness | is what was cleared deleted, and does no pointer dangle (`HeadsOnly`)? |
| `commands` | two viewpoints, the second with photo, detector and recording; homing; one preemption; the thread of the recognition | photos in place, own photos, no failure carried over, success only after all, recorded before recognised; the report of `PatrolReport` (`ImplementsReport`)? |
| `commandsEnd` | one viewpoint and a charge, one preemption, a database that fails; fairness | do the retries end, whatever a preemption leaves in the static counter? |
| `warnings` | front and bottom radar, one motor, gas; fairness | do flags follow radars, and warnings counts; is a standing warning alarmed again? |
| `tcp` | two threads, one client, three identifiers; fairness | own reply or none; each request sent once and each reply taken once (`ImplementsExchange`); no unlock of another's mutex; does everybody come back? |
| `positions` | three plans of two maps on a rail of four places; fairness; all lists of up to four viewpoints or piles | one group per crossing, sides seen; shortest routes, no pile passed untried |
| `rotation` | five patrols, periodic by day, on other days, one-time and now, twelve seconds | is what is promised created, once, and nothing else? |
| `cancelledStaysOpen`, `keepsDriving`, `drivesUnfolded` | | the disagreements of section 3.3 |

`CHECK_DEADLOCK FALSE` appears where the system really may stop: where ageing
may end the program (`modes`), where a patrol ends (`commands`, `commandsEnd`,
`drivesUnfolded`), and where the clock reaches its bound (`rotation`).

### 3.1 Bounds, and why they are enough

* `Items`: one more than the groups that can be queued at once in the instance,
  so that addresses are used again and a producer is never short of one before
  the interesting case (a producer that finds no free address waits).
* `Tasks`: one patrol whose record is followed to its end. A second patrol beside
  it is a limit of the runs; the theorems hold for any number.
* `ViewPoints`: two in `modes`, where a patrol is cut between viewpoints, one
  elsewhere; the code treats all but the last alike.
* `MaxPiles`: 1 in `patrolEnds`, 0 where the charge is not the question; piles are
  tried one after another.
* `MutexFree` lets producers act before homing at boot only on empty queues:
  `Robot::init` runs before the threads start, apart from requests.
* `Requests`: the producers are divided among the three passing runs. Homing on a request (`"home"`) is in none of them: it
  is `createPtzArmHomeTaskItem`, as at boot and before a patrol; the theorems are
  about all requests at once.
* `patrolEnds` has no homing before patrols: homing cancels a patrol under way
  and leaves its record open, which is the finding `cancelledStaysOpen`.
* `commands` uses `ReachRetries` 1 and two looks at the arm and at the
  pan-tilt: all branches of the counters, before, at and past the limit, are
  taken. `commandsEnd` uses `ReachRetries` 2 and one look, for the same reason; a
  longer timeout differs only in stuttering. It leaves out the homing before the
  patrol, whose commands `commands` contains, to keep the liveness check small.
  `MaxPreempts` is 1: a preemption makes the group start again with any count in
  the static and the motors anywhere, so that a second adds no new state of the
  group. `MaxQueue`
  is 1 against 100: a viewpoint that is started again fills and overflows the
  queue.
* `warnings`: `CountLimit` 2 against 10 and `Interval` 3 against 300 seconds keep
  the cases below, at and past the limit; the theorem holds for every limit. Two
  places of the rail: the rule only asks whether they are apart.
* `tcp`: `IdMod` 3 lets the identifiers wrap around within `MaxRequests` 4
  requests; `MaxMsgs` 2 against 128 lets the list overflow; one retry and one
  poll, since both loops treat all but the last alike.
* `positions`: `MaxJump` 2 lets the robot pass two plans between two looks, and
  `MaxLoads` 3 lets plans be loaded, changed and loaded again. Lists of up to four
  places hold every relation of a robot and the ends of both sides.
* `rotation`: days of three seconds, `Lead` 1 against 300: a creation may last
  past its second, past its day and past the end of its period.

### 3.2 Fairness

`MoveTaskManage!Fairness`: the process thread runs for ever (weak fairness of
`Process`); a command that is called again and again ends (strong fairness, as
the group may be preempted in between); a patrol that was ordered is queued,
because the process thread gives up the mutex and sleeps every round (strong
fairness); a moving motor arrives. `PatrolEnds` assumes besides that the
obstacle disappears and that charging ends, since both legitimately hold a
patrol up. `PatrolCommands!FairSpec`: `run` is called again, and the walking and
the lifting motor stop. Nothing is assumed of the pan-tilt, the pile, or of any
answer being good: the timeouts have to end those.

`WarningManager`: an observer that was notified returns, and the thread of the
warnings is a loop; nothing is assumed of the radars, for a round that sees no
change is a stutter. `TcpClient`: a thread inside `request` goes on, no more;
board and connection owe nothing. `PositionMove`: the thread that looks is a loop.
`modes`, `commands` and `rotation` check safety only. `UpdateInfo` owes nothing.

### 3.3 Disagreements between the code and its comments

Checked as runs TLC finds violated:

* `cancelledStaysOpen`. A patrol that has opened its record and is cancelled
  before its first viewpoint or between two has no active group with an
  exception, and its record stays open. Homing before the next patrol does the
  same to a patrol under way.
* `keepsDriving`. "Stop the motor if it still moves", says the comment at a change of
  mode (`MTM:256`). What is asked is the copy of its state, up to half a second old: a
  move that has set off since looks at rest, is not stopped, and no later
  round stops it. The robot drives on to its target in handle mode. `NothingRuns`
  is what remains true: nothing new is executed there.
* `drivesUnfolded`. A goto does not look at the result of the fold before it.

Met while modelling, and part of the models where they have the state for it:

* Ageing a scheduled patrol empties it, fails its record if it is under way, and then
  calls `remove` on a group, whose base class throws;
  nothing catches it, and the program terminates with `g_taskMtx` held
  (`AgeingCheck`). The age tested is ten seconds; the comment says an hour.
* A lock of the motor requested in task mode waits in the manual queue, which
  task mode passes over. The same filter keeps cleared manual moves at the head
  of that queue, so that a patrol ordered now in task mode may never start:
  `ClearedGroupsGo` holds in remote control only.
* A homing may slip in between `lowBatteryCharge`'s test and its groups; a charge
  of the anti-discharge thread may stand beside a patrol ordered now; a user's
  move that arrives while `noOperationDetectThread` stores the mode is cancelled
  by the switch; `motorCurrentProtectThread` may shift a motor that a group has
  meanwhile started to drive, in any run mode. `NothingRuns` therefore speaks of
  groups, not of the protection (`motor = "protect"`).
* A one-time patrol reads the clock again: it is created twice if the creation of
  an earlier patrol of the list crosses into its second, and not at all if it
  crosses beyond (`PeriodicOnce` and `PromisedIsCreated` say so). A reload of the
  list under the pass may do either to any patrol, which is why both leave such passes
  out. A second that comes and goes while one pass lasts gets none of its own, and what
  starts in it is not created: `PromisedIsCreated` is about the seconds that have one.
* A goto that is given up, a fold that timed out or a photo that was refused does not keep the
  photo of the viewpoint from being taken, or its record from being written with the
  photo of another. `PhotoInPlace` and `OwnPhoto` exempt a viewpoint one of whose commands
  has failed; what they show is that a preemption alone cannot do it.
* `getSortedChargingPilePos` is announced as a sort by the distance from the
  robot; it chains nearest neighbours, which is the better order
  (`PilesTriedOnTheWay`) and another one.
* The flag of the front stays while only the radar below warns: `FlagsFollowRadar`
  says no more than some radar. An alarm of an obstacle bypasses the rules of
  repetition, the camera's and the imager's reach their count of ten only after
  minutes, or never. A motor error that returns after a 0 is not told again.
* The last alarm of an item is looked up over all robots, and none found is place
  -1, which is apart from everywhere.
* `bindSimpleMap` changes the map without loading its plans: the old ones stay in
  force until the next update.
* A viewpoint that was started again has two records: its photo is read from the
  first row found, and the result is stored with the latest one. Results are
  paired with the meters in order, not by their numbers.

## 4. The proofs

`MoveTaskManageSafety` proves the type invariant, two more invariants and three
action properties, from `ConstantsOK` and the assumptions of `MoveTaskItem` only,
hence for any sets of items and patrols, any numbers of viewpoints and piles, any
requests:

* `TypeCorrect`, `[]TypeOK`, which all others use.
* `HeadsAlways`, `[]HeadsOnly`. `HeadsOnly` is inductive together with `TypeOK`.
  It has four parts that need each other: queues are duplicate-free and
  disjoint; the current group, each active group and the group the scan has
  chosen are heads. A group leaves a queue only in `ProcessReap`, which removes
  the current one, hence a head: with no duplicates, no other head changes but
  the one of that queue. Appending leaves the heads of non-empty queues alone,
  and uses addresses outside all queues.
* `RunAlwaysHasCommand`, `[]RunHasCommand`. The strengthening `CommandInv` says
  where `at` may point in a group that has commands, and that after
  `ProcessReap` the current group has commands as long as the mutex is held.
* `NothingEverRuns`, `NothingRuns`: from the round in which the process thread has seen
  a mode that executes nothing until it sees another, no command sets the motor in
  motion, locks it, opens a record or completes one, though the setting may change at
  every step. The strengthening `ModeInv` ties the mode the round works with to the
  last mode seen: a round that dispatches a group works in a mode that executes one,
  and in a mode that executes nothing no group is current. Whether the motor has
  stopped is another matter (`keepsDriving`).
* `FailAlwaysFinal`, `FailIsFinal`, and `StartedAlwaysCloses`,
  `StartedViewpointCloses`. Both follow from `PatrolInv`: all groups of a patrol
  stand in one queue, one that a change of mode empties and a motor lock leaves
  alone; an exception is registered only in a group of a patrol; a started group
  that is empty was emptied with its whole patrol; and of a patrol that has failed
  no command is left. The first parts say that whoever empties one group of a
  patrol empties them all, the last ones what that means for its record. It is
  inductive together with `TypeOK`, `HeadsOnly` and `RunHasCommand`.

The steps of the other threads are reduced in one lemma to what they do to the
queues (append fresh groups, or empty groups in place), so that each invariant
has one case for all of them.

`MoveTaskManageRefinement` proves `SchedulerImplemented`, `Spec => Scheduler!Spec`:
every step of the scheduler is a step of `PriorityScheduler` or a stutter. The
invariants it adds to those above: `ScanInv` (during the scan the mode is the one last seen, every queue before the one
it is at is empty or held, and the group it dispatches is the oldest of a queue the
mode does not hold) and `AtInv` (the iterator stands inside the commands, so that the commands
remaining are well defined and one call takes off at most one). A round maps to
`Work`, `Begin`, `Leave`, `ChangeMode`, `Lock` or a stutter; the producers map to
`Request`, with the queues they clear as what is cancelled.

`PatrolCommandsProofs` proves `TypeCorrect`, `FailureAlwaysHasCause` and
`VerdictAlwaysAfterAll` for any viewpoints, retries and preemptions. `TypeInv` adds
to the types that `cmd` has the length of the group (`RunInv`) and which kinds of
commands have which targets. `Recorded` says that every viewpoint before the
command that runs has its record, which makes the last one's verdict true.
`PhotoAlwaysInPlace` and `AlwaysOwnPhoto` rest on `PoseInv`: the commands behind the
iterator are done and those in front of it untouched (`InOrder`); a command that
has found its motor in place leaves it there until a later command of the group
uses the same motor (`Posed`); and once the photo is taken, `patrolViewPointInfo`
names it (`Shown`). A preemption restarts the group, hence the premises with it.

`ReportImplemented`, `Spec => ImplementsReport`: every step of the commands is a step
of `PatrolReport` or a stutter, also with a database that fails. It needs no
invariant beyond `PoseInv`, but facts about the groups (`StatementLayout`): only a
group before the viewpoints opens a record, and a viewpoint has one insertion, behind
everything that could spoil its row. An insertion maps to `Tell` (`InsertTells`),
the end of a group to `GoOn`, since by `InOrder` its insertion has been called, a
command that fails at a viewpoint to `Fail`, a preemption there to `Again`.

The patrol beside the recognition is a behaviour of the patrol
(`RecognitionIsBeside`, `ImageSpec => Spec`), so that these theorems hold there too.
`ImageTypeCorrect` and `AlwaysRecordedFirst` follow for the queue: the insertion
stands before the recognition in every viewpoint, and what is recorded stays so.

`TcpClientProofs` proves `TypeCorrect`, `AlwaysUnlockedByHolder` and `AlwaysOwnReply`.
By `LockInv` the interface of a client is claimed only by the thread that holds
`lck`, so that the claim never fails and the second unlock is not reached.
`ReplyInv` is about the identifiers, as long as no more than `IdMod` requests were
made: those given away and the threads that will take one are no more than the
requests (`Counted`), so that they have not wrapped around; the next is above all
in pending frames, replies and waiting threads (`NextIsNew`), unless all are
`Spent`; and a reply with the identifier a thread looks for is to its request
(`Matching`). A driver that compares the number of the request needs none of this.

`ExchangeImplemented`, `Spec => ImplementsExchange`: every step of the client is a
step of `RequestReply` or a stutter, for any threads, clients and limits. `PlaceInv`
says that a request is in one place only: it stands in the hands of one thread, in
one set of pending frames or at one position of one list (`Once`, `Apart`,
`Distinct`), and its number is one that was made. This makes `Fate` a function of where the
request is, so that a step that moves one request changes one fate. `Write` maps to
`Send`, `Receive` to `Answer` (with the reply pushed out, if any), `Disconnect` to
`Lose`, `TakeReply` to `Take`, the last round of `KeepWaiting` to `GiveUp`; the
mutex, the claim, the other rounds and the opening and closing of clients stutter.
That a thread without a comparison takes another's reply only with `Reused`
identifiers is `AlwaysOwnReply` at that step.

`PositionMoveProofs` proves `TypeCorrect` (there is one trigger thread at most,
whatever is loaded), `AlwaysFollowsRobot` and `AlwaysAlternate`. Both rest on
`LastIsSide`: a plan with both actions was left on the side of its last group, so
that each passage queues the other one.

`RoutesProofs` proves the two route algorithms right for lists of any length and any
positions, and `PositionMoveProofs` concludes `AlwaysShortest` and
`AlwaysTriedOnTheWay` from it:

* `BestRoute`: the route chosen visits each viewpoint once, and no order of them
  drives less. An ascending order exists (`SortedFacts`, by ranking the
  elements). Whatever the order, the robot drives at least to the nearer end of
  the list and from there to the other, or straight to the one end when all viewpoints
  are on one side (`Detour`, `Straight`, from the triangle inequality summed along
  the route); a walk down or up a sorted side drives exactly from end to end
  (`DownRoute`, `UpRoute`), so that the route chosen drives no more than that.
* `NoneUntried`: after n calls what was tried followed by what is left is an
  order of the piles, and each pile tried is the nearest, from where the robot stood,
  of all that come after it (`CallInv`). No pile after it can lie on the way
  to it, since that one would be nearer.

What happens n times is stated over the set of the numbers for which it holds
(`LeastNumber`, `UpTo`, `Iterates`), because the induction theorems of the library
have operators as parameters.

`WarningManagerProofs` proves `TypeCorrect`, `FlagsAlwaysFollow`,
`AlwaysStandsAfterLimit` and `AlwaysNeedsCount`; the last two from `CountsTheRow`:
the count stays below `CountLimit` and is the length of the row as long as the row
is, whatever the limit.

`TaskRotationProofs` proves `TypeCorrect` and what a list of patrols gets:

* `AlwaysPromised`: the days and the seconds of the day the code compares are
  those of `Promised`. It rests on lemmas on quotients and remainders
  (`WholePeriods`, `DueIsPromised`), for every unit and period.
* `AlwaysOnce` proves `PeriodicOnce` from `OnceInv`: what the pass has created for
  its second lies behind `at` in a list without repetitions.
* `AlwaysCreated` proves `PromisedIsCreated`, the other direction: every promised
  patrol passes the test of the code (`PromisedIsDue`, from `QuotientUnique` and
  `PeriodsApart`), and those the thread has looked at are created
  (`LookedIsCreated`). `PassInv` says that until a creation outlasts its second the
  clock shows the second of the pass, which one-time patrols depend on.

All theorems rest on the named assumptions on the constants in their modules,
which TLC evaluates in every run.

Only model-checked: liveness (`PatrolEnds`, `ClearedGroupsGo`, `PatrolOver`,
`ObstacleGone`, `StandingIsAlarmed`, `RequestReturns`, `RestingIsSeen`), since
fairness needs ENABLED, which the prover cannot reason about. Every other property
of the passing runs is a theorem.

## 5. Plan

What is left, in the order in which it would add most:

1. The rows of the records in their order, to state that a result belongs to the
   photo of its row, which a viewpoint started again breaks.
2. The commands of the robots with two coordinates (`T7AGotoCommand`,
   `T7AChargeCommand`), as alternatives of `Goto` and `Recharge`.
3. Two patrols in the records of `modes`; the theorems hold for any number.

## 6. Not modelled

The vendored libraries, which are most of the lines of the repository (the headers
under `src/Slave/include/ThirdParty` and of the vendors' clients under
`include/Common`): what of them matters is external to the models. Serial lines,
buses and register maps; the reports to the user interface; settings that are
stored and shown only; speech and sound; the cameras beyond the event of a photo;
fire doors, infrared sensors and all commands that only an RFID task would use,
none of which is ever reached; power saving, whose thread is disabled code; data
races that are undefined in C++ (the copy of the task list in
`regularTaskAgingCheck`, the pointer followed without the mutex in
`queryCurPlanTaskAndViewPoint`) beyond listing them as hazards. A power cycle is
not an action: nothing is persisted that the program reads again at its start
beyond settings and plans, so that it starts from `Init`.
