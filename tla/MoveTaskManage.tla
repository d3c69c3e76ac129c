--------------------------- MODULE MoveTaskManage ---------------------------
(***************************************************************************)
(* The task scheduler of the robot: MoveTaskManage with the threads of     *)
(* Robot that feed it.  The process thread polls five priority queues      *)
(* under g_taskMtx, runs one command of the leftmost group of the highest  *)
(* admissible queue per round, and deletes groups whose commands are gone. *)
(* Every other thread appends groups or empties them under the mutex, and  *)
(* writes the run mode, the motor lock and the obstacle flag without it.   *)
(* What the threads know of the motor is a copy the driver refreshes.      *)
(*                                                                         *)
(* A step of another thread is one critical section.  A round of the       *)
(* process thread is several steps, because between two of them the        *)
(* unprotected settings may change; the mutex is held as long as           *)
(* process.at is neither "boot" nor "unlocked".                            *)
(***************************************************************************)
EXTENDS MoveTaskItem, FiniteSets

CONSTANTS
  Items,       \* identities (addresses) of groups
  RunModes,    \* the run modes a client may set
  Requests,    \* what the environment does in this instance
  ViewPoints,  \* numbers of viewpoints a patrol may have
  MaxPiles,    \* bound on the charging piles a charge visits
  HomeFirst,   \* the arm and pan-tilt are homed at boot and before a patrol
  DbMayFail    \* a statement to the database may fail

TP_RFID    == 0
TP_PLAN    == 1
TP_MANUL   == 2
TP_RECHARGE == 3
TP_REGULAR == 4
Priority   == TP_RFID .. TP_REGULAR

RunMode == { "TASK_MODE", "REMOTE_CONTROL_MODE", "HANDLE_CONTROL_MODE",
             "SCAN_MODE", "NONE_MODE" }

ASSUME ConstantsOK ==
  /\ None \notin Items
  /\ RunModes \subseteq RunMode
  /\ RunModes # {}
  /\ ViewPoints \subseteq Nat \ {0}
  /\ MaxPiles \in Nat
  /\ HomeFirst \in BOOLEAN
  /\ DbMayFail \in BOOLEAN

Thread == { "zmq", "rotation", "lowBattery", "antiDischarge",
            "noOperation", "ageing", "currentProtect" }

VARIABLES
  rootTasks,    \* _rootTasks: per priority, the groups from left to right
  item,         \* the groups
  curTaskItem,  \* _curTaskItem
  lastRunMode,  \* the static of queryHighestPrioriyTaskItem
  process,      \* where the process thread is, and its local variables
  thread,       \* where the other threads are
  runMode,      \* Setting::m_nRunMode
  motorLock,    \* Setting::m_bMotorIsLock
  ussExcep,     \* getForewardUSSExcep() || getBackUSSExcep()
  motor,        \* "still", or who has set it in motion
  motorStatus,  \* the state of the motor in m_motorInfo, a copy of some age
  execRes,      \* the execution record of each patrol
  alive         \* the program has not been terminated

settings == <<runMode, motorLock, ussExcep>>
vars == <<rootTasks, item, curTaskItem, lastRunMode, process, thread,
          settings, motor, motorStatus, execRes, alive>>

Result == { "none", "open", "success", "fail" }

\* MOVING stands for every state but STOP_STATE.
MoveState == { "STOP_STATE", "MOVING" }

At(where) == [ at |-> where, mode |-> "NONE_MODE", pri |-> 0, next |-> None ]

TypeOK ==
  /\ rootTasks \in [Priority -> Seq(Items)]
  /\ item \in [Items -> MoveTaskItem]
  /\ curTaskItem \in Items \cup {None}
  /\ lastRunMode \in RunMode
  /\ process \in [ at : { "boot", "unlocked", "lockCheck", "query", "scan",
                          "dispatch" },
                   mode : RunMode, pri : Priority, next : Items \cup {None} ]
  /\ thread \in [Thread -> { "idle", "home", "patrol", "add", "charge",
                             "switch", "check", "goTo" }]
  /\ runMode \in RunMode
  /\ motorLock \in BOOLEAN
  /\ ussExcep \in BOOLEAN
  /\ motor \in { "still", "driven", "protect" }
  /\ motorStatus \in MoveState
  /\ execRes \in [Tasks -> Result]
  /\ alive \in BOOLEAN

-----------------------------------------------------------------------------
(* The tree of tasks.  A root holds groups, or MoveTasks that hold groups; *)
(* only the order of the groups matters to the code, so a root is the      *)
(* sequence of its groups.                                                 *)

Members(p) == Range(rootTasks[p])
Queued == UNION { Members(p) : p \in Priority }

\* Fault: the newest group instead of the oldest.
findRightMostChild(p) ==
  IF rootTasks[p] = <<>> THEN None ELSE rootTasks[p][Len(rootTasks[p])]

findLeftMostChild(p) ==
  IF rootTasks[p] = <<>> THEN None ELSE Head(rootTasks[p])

\* Fault: push_front instead of push_back.
addFirst(s, news) == news \o s

\* MoveTask::add
add(s, news) == s \o news

\* Fault: the first child is erased, whichever it is.
removeFirst(s, i) == IF s = <<>> THEN s ELSE Tail(s)

\* MoveTask::remove: the first occurrence of i leaves the sequence.
remove(s, i) ==
  IF i \notin Range(s) THEN s
  ELSE LET k == CHOOSE j \in DOMAIN s : s[j] = i
       IN  SubSeq(s, 1, k - 1) \o SubSeq(s, k + 1, Len(s))

\* Fault: the recursion ends at the first group.
clearLeftMostCommands(P) ==
  [ i \in Items |-> IF \E p \in P : findLeftMostChild(p) = i
                    THEN clearCommands(item[i]) ELSE item[i] ]

\* clearTaskCommands on the roots in P.
clearTaskCommands(P) ==
  [ i \in Items |-> IF \E p \in P : i \in Members(p)
                    THEN clearCommands(item[i]) ELSE item[i] ]

clearTaskCommandsExceptPatroPlan(p) ==
  [ i \in Items |-> IF i \in Members(p) /\ item[i].type \notin PatrolType
                    THEN clearCommands(item[i]) ELSE item[i] ]

\* Fault: the exception was not given the patrol's shared parameters.
ExceptionExitUnbound(i) == UNCHANGED execRes

\* The effect on the records of exceptionsExit of group i: the exception of
\* a viewpoint writes EXEC_FAIL if the patrol has an execution id.
ExceptionExit(i) ==
  LET t == item[i].task
      writes == item[i].except /\ t # None /\ execRes[t] # "none"
  IN  \/ execRes' = IF writes THEN [execRes EXCEPT ![t] = "fail"] ELSE execRes
      \/ DbMayFail /\ execRes' = execRes

\* Groups have been emptied, which leaves cleared; if group i is active, its
\* exceptions are run.
CancelWith(cleared, i) ==
  IF i # None /\ item[i].active
  THEN /\ ExceptionExit(i)
       /\ item' = [cleared EXCEPT ![i] = exceptionsExit(@)]
  ELSE /\ item' = cleared
       /\ UNCHANGED execRes

\* The addresses the allocator gives to n new groups: an address is reused
\* once its group has been deleted.
Free(n) == Injection(1 .. n, Items \ Queued)
NewIds(n) == CHOOSE s \in Free(n) : TRUE

\* New groups go to the right end of root p; base is the function the other
\* groups are taken from.
Enqueue(p, news, base) ==
  LET s == NewIds(Len(news))
  IN  /\ Free(Len(news)) # {}
      /\ rootTasks' = [rootTasks EXCEPT ![p] = add(@, s)]
      /\ item' = [ i \in Items |->
                     IF i \in Range(s)
                     THEN news[CHOOSE k \in DOMAIN s : s[k] = i]
                     ELSE base[i] ]
-----------------------------------------------------------------------------
(* The program has just started; Robot::init is about to home the arm.     *)

Init ==
  /\ rootTasks = [p \in Priority |-> <<>>]
  /\ item = [i \in Items |-> Blank]
  /\ curTaskItem = None
  /\ lastRunMode = "NONE_MODE"
  /\ process = At("boot")
  /\ thread = [t \in Thread |-> "idle"]
  /\ runMode \in RunModes
  /\ motorLock = FALSE
  /\ ussExcep = FALSE
  /\ motor = "still"
  /\ motorStatus = "STOP_STATE"
  /\ execRes = [t \in Tasks |-> "none"]
  /\ alive = TRUE

(***************************************************************************)
(* What the producers do inside one critical section.                      *)
(***************************************************************************)

ProcessAt(where) == alive /\ process.at = where

\* Bound: before the arm is homed, groups are only added to empty queues.
MutexFree ==
  \/ process.at = "unlocked"
  \/ process.at = "boot" /\ Queued = {}

\* What a producer leaves alone.
others == <<curTaskItem, lastRunMode, settings, motor, motorStatus, execRes,
            alive>>

Charges(type, task, k) == [ j \in 1 .. k |-> ChargeItem(type, task) ]

createPtzArmHomeTaskItem(p) ==
  Enqueue(p, <<PowerOnItem>>, clearTaskCommands({p}))

\* A patrol gets an identity no earlier patrol left a trace of.
FreshTasks ==
  { t \in Tasks : execRes[t] = "none" /\ \A i \in Queued : item[i].task # t }

\* The patrol over n viewpoints and what follows it (getOverType).
createPatroPlanTaskItem(p) ==
  \E t \in FreshTasks, n \in ViewPoints :
    \E over \in { <<>>, <<ReturnItem(t)>> } \cup
                { Charges("PATRO_PLAN_CHARGE_ITEM", t, k) : k \in 0 .. MaxPiles } :
      Enqueue(p, <<PatrolHead(t)>>
                   \o [ k \in 1 .. n |-> ViewPointItem(t, k = n) ] \o over,
              item)

manulCharge ==
  \E k \in 0 .. MaxPiles :
    Enqueue(TP_MANUL, Charges("MANUAL_CHARGE_ITEM", None, k),
            clearTaskCommands({TP_MANUL}))

manulMoveControl(news) ==
  Enqueue(TP_MANUL, news, clearTaskCommands({TP_MANUL}))

-----------------------------------------------------------------------------
(* The process thread.                                                     *)

\* Robot::init homes the arm before the threads of main start.
Boot ==
  /\ ProcessAt("boot")
  /\ IF HomeFirst THEN createPtzArmHomeTaskItem(TP_RECHARGE)
                  ELSE UNCHANGED <<rootTasks, item>>
  /\ process' = At("unlocked")
  /\ UNCHANGED <<others, thread>>

\* Fault: a group that ended by itself is not deleted.
ActiveZombie ==
  curTaskItem # None /\ Emptied(item[curTaskItem]) /\ item[curTaskItem].active

\* The current group has nothing left to run.
Zombie == curTaskItem # None /\ Emptied(item[curTaskItem])

\* The round starts: a current group without commands is deleted, and if it
\* is still active its exceptions are run first.
ProcessReap ==
  /\ ProcessAt("unlocked")
  /\ process' = At("lockCheck")
  /\ \/ /\ Zombie
        /\ IF item[curTaskItem].active THEN ExceptionExit(curTaskItem)
                                       ELSE UNCHANGED execRes
        /\ rootTasks' = [p \in Priority |-> remove(rootTasks[p], curTaskItem)]
        /\ item' = [item EXCEPT ![curTaskItem] = Blank]
        /\ curTaskItem' = None
     \/ /\ ~Zombie
        /\ UNCHANGED <<rootTasks, item, curTaskItem, execRes>>
  /\ UNCHANGED <<lastRunMode, thread, settings, motor, motorStatus, alive>>

\* A locked motor drops the manual operations and ends the round.
LockCheck ==
  /\ ProcessAt("lockCheck")
  /\ IF motorLock
     THEN /\ item' = clearTaskCommandsExceptPatroPlan(TP_MANUL)
          /\ curTaskItem' = None
          /\ process' = At("unlocked")
     ELSE /\ process' = At("query")
          /\ UNCHANGED <<item, curTaskItem>>
  /\ UNCHANGED <<rootTasks, lastRunMode, thread, settings, motor, motorStatus,
                 execRes, alive>>

\* emergencyStop, which is called on a motor that looks as if it moved; nobody
\* asks whether the request got through.
StopMotor ==
  motor' \in IF motorStatus = "STOP_STATE" THEN {motor} ELSE {motor, "still"}

\* The first half of queryHighestPrioriyTaskItem: a new run mode cancels
\* what the old one had queued and stops the motor.
QueryMode ==
  /\ ProcessAt("query")
  /\ process' = [At("scan") EXCEPT !.mode = runMode]
  /\ \/ /\ runMode = lastRunMode
        /\ UNCHANGED <<item, curTaskItem, lastRunMode, motor, execRes>>
     \/ /\ runMode # lastRunMode
        /\ CancelWith(clearTaskCommands({TP_MANUL, TP_PLAN, TP_REGULAR}),
                      curTaskItem)
        /\ StopMotor
        /\ lastRunMode' = runMode
        /\ curTaskItem' = None
  /\ UNCHANGED <<rootTasks, thread, settings, motorStatus, alive>>

SkipsInMode(p, l) ==
  \/ /\ process.mode = "TASK_MODE"
     /\ p = TP_MANUL
     /\ item[l].type \notin AutomaticType
  \/ process.mode = "REMOTE_CONTROL_MODE" /\ p = TP_REGULAR
  \/ process.mode = "SCAN_MODE" /\ p # TP_MANUL

SkipsAtObstacle(p, l) ==
  \/ p = TP_REGULAR
  \/ p = TP_MANUL /\ item[l].type \in AutomaticType

\* Fault: the handheld mode is treated like task mode's other queues.
SkipsButHandle(p, l) ==
  SkipsInMode(p, l) \/ (ussExcep /\ SkipsAtObstacle(p, l))

\* Fault: the obstacle test is inverted.
SkipsWithoutObstacle(p, l) ==
  \/ SkipsInMode(p, l)
  \/ process.mode = "HANDLE_CONTROL_MODE"
  \/ ~ussExcep /\ SkipsAtObstacle(p, l)

\* Fault: remote control passes over the manual queue as task mode does.
SkipsManual(p, l) ==
  SkipsButHandle(p, l) \/ (p = TP_MANUL /\ item[l].type \notin AutomaticType)

\* Fault: an obstacle holds up the charging too.
SkipsCharge(p, l) ==
  \/ SkipsInMode(p, l)
  \/ process.mode = "HANDLE_CONTROL_MODE"
  \/ ussExcep /\ (SkipsAtObstacle(p, l) \/ p = TP_RECHARGE)

\* The scan passes over group l at the head of root p.
Skips(p, l) ==
  \/ SkipsInMode(p, l)
  \/ process.mode = "HANDLE_CONTROL_MODE"
  \/ ussExcep /\ SkipsAtObstacle(p, l)

\* Fault: one priority too many.
ScansPastTheEnd == TP_REGULAR + 1

LastScanned == TP_REGULAR

\* The second half looks at one priority per step, because the obstacle
\* flags are read again for every priority.
QueryScan ==
  /\ ProcessAt("scan")
  /\ LET p == process.pri
         l == findLeftMostChild(p)
     IN  process' =
           IF process.mode = "NONE_MODE" THEN At("unlocked")
           ELSE IF l # None /\ ~Skips(p, l)
                THEN [process EXCEPT !.at = "dispatch", !.next = l]
           ELSE IF p = LastScanned THEN At("unlocked")
           ELSE [process EXCEPT !.pri = p + 1]
  /\ UNCHANGED <<rootTasks, item, others, thread>>

\* The record of the patrol of group i becomes res, or the database fails.
Record(i, res) ==
  \/ execRes' = [execRes EXCEPT ![item[i].task] = res]
  \/ DbMayFail /\ UNCHANGED execRes

\* exec of the command curIter points at in c, the state of group i; a
\* command that speaks to the motors may need further calls.
Exec(i, c, r) ==
  LET kind == c.cmds[c.at]
      t == c.task
  IN  /\ item' = [item EXCEPT ![i] = [c EXCEPT !.ret = r]]
      /\ kind \notin { "Motion", "Lock" } => r = "ST_DONE"
      /\ motorLock' = (motorLock \/ kind = "Lock")
      /\ CASE kind = "Motion" -> motor' \in { "still", "driven", motor }
           [] kind = "Lock"   -> motor' \in { "still", motor }
           [] OTHER           -> UNCHANGED motor
      /\ CASE kind = "SQLOperation" /\ execRes[t] = "none" -> Record(i, "open")
           [] kind = "SQLInsertLast" /\ execRes[t] # "none" -> Record(i, "success")
           [] OTHER -> UNCHANGED execRes

\* MoveTaskItem::run, which leaves result r at the command.
Run(i, r) ==
  LET c == item[i]
  IN  \/ /\ c.ret # "ST_DONE"
         /\ Exec(i, [c EXCEPT !.active = @ \/ (c.at = 1 /\ c.ret = "ST_SLEEP")],
                 r)
      \/ /\ c.ret = "ST_DONE"
         /\ c.at < Len(c.cmds)
         /\ Exec(i, [c EXCEPT !.at = @ + 1], r)
      \/ /\ c.ret = "ST_DONE"
         /\ c.at = Len(c.cmds)
         /\ r = "ST_DONE"
         /\ item' = [item EXCEPT ![i] = clearCommands([c EXCEPT !.active = FALSE])]
         /\ UNCHANGED <<motorLock, motor, execRes>>

\* A group the process thread has not started yet: it becomes current.
Start ==
  /\ ProcessAt("dispatch")
  /\ process.next # curTaskItem
  /\ item' = [item EXCEPT ![process.next] = initStatusPara(@)]
  /\ curTaskItem' = process.next
  /\ process' = At("unlocked")
  /\ UNCHANGED <<rootTasks, lastRunMode, thread, settings, motor, motorStatus,
                 execRes, alive>>

RunCurrent(i, r) ==
  /\ ProcessAt("dispatch")
  /\ process.next = i
  /\ i = curTaskItem
  /\ Run(i, r)
  /\ process' = At("unlocked")
  /\ UNCHANGED <<rootTasks, curTaskItem, lastRunMode, thread, runMode,
                 ussExcep, motorStatus, alive>>

Process ==
  \/ Boot \/ ProcessReap \/ LockCheck \/ QueryMode \/ QueryScan \/ Start
  \/ \E i \in Items, r \in { "ST_GOING", "ST_DONE" } : RunCurrent(i, r)

-----------------------------------------------------------------------------
(* The other threads.  A request of the user or a trigger of the robot is  *)
(* possible in an instance if Requests names it.                           *)

In(t, where) == alive /\ thread[t] = where
Idle(t) == In(t, "idle")
Goes(t, where) == thread' = [thread EXCEPT ![t] = where]

\* The frame of one critical section of a thread.
Section == UNCHANGED <<others, process>>

\* The requests the single thread of the zmq server serves at once.
ManualRequest ==
  /\ MutexFree
  /\ Idle("zmq")
  /\ \/ "goto" \in Requests
        /\ manulMoveControl(<<MoveControlItem("SetSpeed"),
                               MoveControlItem("Motion")>>)
     \/ "move" \in Requests /\ manulMoveControl(<<MoveControlItem("Motion")>>)
     \/ "lock" \in Requests /\ manulMoveControl(<<MoveControlItem("Lock")>>)
     \/ "manulCharge" \in Requests /\ manulCharge
     \/ "home" \in Requests /\ createPtzArmHomeTaskItem(TP_RECHARGE)
     \/ /\ "clearCharge" \in Requests
        /\ item' = clearTaskCommands({TP_RECHARGE})
        /\ UNCHANGED rootTasks
  /\ Section
  /\ UNCHANGED thread

\* Releasing the motor and changing the mode only write the settings, at any
\* point of a round of the process thread.
Unlock ==
  /\ "unlock" \in Requests
  /\ Idle("zmq")
  /\ motorLock' = FALSE
  /\ UNCHANGED <<rootTasks, item, curTaskItem, lastRunMode, process, thread,
                 runMode, ussExcep, motor, motorStatus, execRes, alive>>

SetRunMode ==
  /\ "setRunMode" \in Requests
  /\ Idle("zmq")
  /\ runMode' \in RunModes
  /\ UNCHANGED <<rootTasks, item, curTaskItem, lastRunMode, process, thread,
                 motorLock, ussExcep, motor, motorStatus, execRes, alive>>

\* A patrol ordered now: the manual queue is cleared, the arm homed and the
\* patrol appended, in critical sections of their own.
TaskNow ==
  /\ "taskNow" \in Requests
  /\ MutexFree
  /\ Idle("zmq")
  /\ item' = clearTaskCommands({TP_MANUL})
  /\ UNCHANGED rootTasks
  /\ Goes("zmq", IF HomeFirst THEN "home" ELSE "patrol")
  /\ Section

\* A scheduled patrol, when taskRotation finds its second.
Rotation ==
  /\ "rotation" \in Requests
  /\ Idle("rotation")
  /\ Goes("rotation", IF HomeFirst THEN "home" ELSE "patrol")
  /\ UNCHANGED <<rootTasks, item>>
  /\ Section

Patroller == { "zmq", "rotation" }

PatrolRoot(t) == IF t = "zmq" THEN TP_MANUL ELSE TP_REGULAR

PatrolHome(t) ==
  /\ In(t, "home")
  /\ MutexFree
  /\ createPtzArmHomeTaskItem(PatrolRoot(t))
  /\ Goes(t, "patrol")
  /\ Section

PatrolAdd(t) ==
  /\ In(t, "patrol")
  /\ MutexFree
  /\ createPatroPlanTaskItem(PatrolRoot(t))
  /\ Goes(t, "idle")
  /\ Section

\* The robot reaches a position with an action bound to it.
PositionPlan ==
  /\ "positionPlan" \in Requests
  /\ MutexFree
  /\ Enqueue(TP_PLAN, <<PositionPlanItem>>, clearTaskCommands({TP_PLAN}))
  /\ UNCHANGED thread
  /\ Section

\* lowBatteryCharge looks at the queue before it takes the mutex.
LowBatteryLook ==
  /\ "lowBattery" \in Requests
  /\ Idle("lowBattery")
  /\ rootTasks[TP_RECHARGE] = <<>>
  /\ Goes("lowBattery", "add")
  /\ UNCHANGED <<rootTasks, item>>
  /\ Section

LowBatteryAdd ==
  /\ In("lowBattery", "add")
  /\ MutexFree
  /\ \E k \in 0 .. MaxPiles :
       Enqueue(TP_RECHARGE, Charges("LOW_BATTERY_CHARGE_ITEM", None, k), item)
  /\ Goes("lowBattery", "idle")
  /\ Section

\* antiBatDischargeDetectThread charges a robot that seems to stand and does
\* nothing.
AntiDischargeLook ==
  /\ "antiDischarge" \in Requests
  /\ Idle("antiDischarge")
  /\ motorStatus = "STOP_STATE"
  /\ curTaskItem = None
  /\ Goes("antiDischarge", "charge")
  /\ UNCHANGED <<rootTasks, item>>
  /\ Section

AntiDischargeCharge ==
  /\ In("antiDischarge", "charge")
  /\ MutexFree
  /\ manulCharge
  /\ Goes("antiDischarge", "idle")
  /\ Section

\* noOperationDetectThread counts seconds in remote control without a manual
\* group, then stores the mode and only after that sets it.
NoOperationTimeout ==
  /\ "noOperation" \in Requests
  /\ Idle("noOperation")
  /\ runMode = "REMOTE_CONTROL_MODE"
  /\ rootTasks[TP_MANUL] = <<>>
  /\ Goes("noOperation", "switch")
  /\ UNCHANGED <<rootTasks, item>>
  /\ Section

NoOperationSwitch ==
  /\ In("noOperation", "switch")
  /\ Goes("noOperation", "idle")
  /\ \/ runMode' = "TASK_MODE"
     \/ DbMayFail /\ UNCHANGED runMode
  /\ UNCHANGED <<rootTasks, item, curTaskItem, lastRunMode, process, motorLock,
                 ussExcep, motor, motorStatus, execRes, alive>>

\* motorCurrentProtectThread shifts a motor that heats up at standstill.
ProtectLook ==
  /\ "currentProtect" \in Requests
  /\ Idle("currentProtect")
  /\ motorStatus = "STOP_STATE"
  /\ curTaskItem = None
  /\ Goes("currentProtect", "goTo")
  /\ UNCHANGED <<rootTasks, item>>
  /\ Section

ProtectGoTo ==
  /\ In("currentProtect", "goTo")
  /\ Goes("currentProtect", "idle")
  /\ motor' = "protect"
  /\ UNCHANGED <<rootTasks, item, curTaskItem, lastRunMode, process, settings,
                 motorStatus, execRes, alive>>

\* regularTaskAgingCheck copies the scheduled patrols without the mutex.
AgeingLook ==
  /\ "ageing" \in Requests
  /\ Idle("ageing")
  /\ runMode = "TASK_MODE"
  /\ rootTasks[TP_REGULAR] # <<>>
  /\ Goes("ageing", "check")
  /\ UNCHANGED <<rootTasks, item>>
  /\ Section

\* The groups that belong to the MoveTask of group i, which homing has of its own.
MoveTaskOf(i) ==
  { j \in Members(TP_REGULAR) :
      j = i \/ (item[i].task # None /\ item[j].task = item[i].task) }

\* clearTaskCommands on that MoveTask.
clearMoveTask(i) ==
  [ j \in Items |-> IF j \in MoveTaskOf(i) THEN clearCommands(item[j])
                                           ELSE item[j] ]

\* Group i is the leftmost of its MoveTask.
Leftmost(i) ==
  \E k \in DOMAIN rootTasks[TP_REGULAR] :
    /\ i = rootTasks[TP_REGULAR][k]
    /\ \A m \in 1 .. k - 1 : rootTasks[TP_REGULAR][m] \notin MoveTaskOf(i)

\* A patrol past its age is emptied, leaves by its exceptions if it has been
\* started, and is deleted by deleteDownDeep, which calls remove on a group: the
\* base class throws, nothing catches, the program terminates.
AgeingCheck ==
  /\ In("ageing", "check")
  /\ Goes("ageing", "idle")
  /\ \/ UNCHANGED <<item, execRes, alive>>      \* every patrol is young
     \/ /\ MutexFree
        /\ alive' = FALSE
        /\ \/ UNCHANGED <<item, execRes>>       \* it was deleted since the copy
           \/ \E i \in Members(TP_REGULAR) :
                Leftmost(i) /\ CancelWith(clearMoveTask(i), i)
  /\ UNCHANGED <<rootTasks, curTaskItem, lastRunMode, process, settings, motor,
                 motorStatus>>

\* The radar thread raises and drops the obstacle flags.
SetUSSExcep ==
  /\ "uss" \in Requests
  /\ alive
  /\ ussExcep' = ~ussExcep
  /\ UNCHANGED <<rootTasks, item, curTaskItem, lastRunMode, process, thread,
                 runMode, motorLock, motor, motorStatus, execRes, alive>>

\* A moving motor comes to its target.
MotorArrives ==
  /\ alive
  /\ motor # "still"
  /\ motor' = "still"
  /\ UNCHANGED <<rootTasks, item, curTaskItem, lastRunMode, process, thread,
                 settings, motorStatus, execRes, alive>>

\* updateInfo of the driver asks for the state of the motor every half second;
\* a request that fails leaves the old one.
UpdateInfo ==
  /\ "updateInfo" \in Requests
  /\ alive
  /\ motorStatus' = IF motor = "still" THEN "STOP_STATE" ELSE "MOVING"
  /\ UNCHANGED <<rootTasks, item, curTaskItem, lastRunMode, process, thread,
                 settings, motor, execRes, alive>>

-----------------------------------------------------------------------------

Continuation ==
  \/ \E t \in Patroller : PatrolHome(t) \/ PatrolAdd(t)
  \/ LowBatteryAdd \/ AntiDischargeCharge \/ NoOperationSwitch
  \/ ProtectGoTo \/ AgeingCheck

Trigger ==
  \/ ManualRequest \/ Unlock \/ SetRunMode \/ TaskNow \/ Rotation
  \/ PositionPlan \/ LowBatteryLook \/ AntiDischargeLook
  \/ NoOperationTimeout \/ ProtectLook \/ AgeingLook \/ SetUSSExcep
  \/ MotorArrives \/ UpdateInfo

Next == Process \/ Continuation \/ Trigger

Spec == Init /\ [][Next]_vars

\* The process thread runs for ever; a command it goes on calling ends; a
\* patrol that has been ordered is queued, because the process thread sleeps
\* without the mutex after each of its rounds.
Fairness ==
  /\ WF_vars(Process)
  /\ \A i \in Items : SF_vars(RunCurrent(i, "ST_DONE"))
  /\ \A t \in Patroller : SF_vars(PatrolHome(t) \/ PatrolAdd(t))
  /\ WF_vars(MotorArrives)

FairSpec == Spec /\ Fairness

-----------------------------------------------------------------------------
(* Properties.                                                             *)

IsHead(i) ==
  \E p \in Priority : rootTasks[p] # <<>> /\ Head(rootTasks[p]) = i

\* The pointers the process thread keeps between rounds never dangle: every
\* group is queued once, a current or started group is at the head of its
\* queue, and the group the scan has chosen is at the head of the queue it
\* was found in.  Groups are appended, emptied and reset by seven threads,
\* and their addresses are reused.
HeadsOnly ==
  /\ \A p, q \in Priority :
       \A j \in DOMAIN rootTasks[p], k \in DOMAIN rootTasks[q] :
         rootTasks[p][j] = rootTasks[q][k] => p = q /\ j = k
  /\ curTaskItem # None => IsHead(curTaskItem)
  /\ \A i \in Items : item[i].active => IsHead(i)
  /\ process.at = "dispatch" => IsHead(process.next)

\* run dereferences curIter without a test: when the process thread calls it,
\* the group still has commands and curIter points at one of them, although
\* another thread may have emptied the group since the last round.
RunHasCommand ==
  process.at = "dispatch" /\ process.next = curTaskItem
    => item[curTaskItem].at \in DOMAIN item[curTaskItem].cmds

\* Once the process thread has seen a mode that executes nothing, and until it
\* sees another, no command of a group is executed: none sets the motor in
\* motion, locks it or opens or completes a record, whatever is queued and
\* however often the clients set the mode to and fro; only a patrol past its age
\* is still reported as failed.
NothingRuns ==
  [][ /\ lastRunMode \in { "HANDLE_CONTROL_MODE", "NONE_MODE" }
      /\ lastRunMode' = lastRunMode
      => /\ motor' = "driven" => motor = "driven"
         /\ motorLock' => motorLock
         /\ curTaskItem' = None
         /\ \A t \in Tasks : execRes'[t] \in { execRes[t], "fail" } ]_vars

\* A patrol reported as failed stays failed: no group of it that is still
\* queued writes another verdict.
FailIsFinal ==
  [][ \A t \in Tasks : execRes[t] = "fail" => execRes'[t] = "fail" ]_vars

\* A viewpoint that has been started and is cancelled, by a new mode or by
\* another thread, loses its exception only with the record of its patrol no
\* longer open, if the database takes the statement; a viewpoint that ends by
\* itself keeps the exception.
StartedViewpointCloses ==
  [][ \A i \in Items :
        /\ ~DbMayFail
        /\ item[i].active /\ item[i].except
        /\ ~item'[i].active /\ ~item'[i].except
        => execRes'[item[i].task] # "open" ]_vars

\* A patrol that has opened its record ends with a verdict, if the obstacle
\* in its way disappears for good and the robot does not go charging for ever.
PatrolEnds ==
  <>[](~ussExcep /\ rootTasks[TP_RECHARGE] = <<>>)
    => \A t \in Tasks : execRes[t] = "open" ~> execRes[t] \in { "success", "fail" }

\* A group whose commands were cleared is deleted in the end.
Cleared(i) == i \in Queued /\ Emptied(item[i])
ClearedGroupsGo == \A i \in Items : Cleared(i) ~> ~Cleared(i)

-----------------------------------------------------------------------------
(* What a comment of the code promises.                                    *)

\* "The task is still under way, so leave it by its exceptions": a patrol
\* that is no longer queued has not left its record open.
CancelledPatrolCloses ==
  \A t \in Tasks :
    execRes[t] = "open" => \E i \in Queued : item[i].task = t

\* "Stop the motor if it still moves": when the process thread acts on a new run
\* mode, the motor stands afterwards.
ModeChangeStops ==
  [][ lastRunMode' # lastRunMode => motor' = "still" ]_vars
=============================================================================
