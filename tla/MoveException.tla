--------------------------- MODULE MoveException ---------------------------
(* What the radars and the motors report, and the flags and alarms that     *)
(* come of it: the thread of RadarManager looks at the radars and tells     *)
(* MoveException when their state changed; the thread of MotorDriver reads  *)
(* the error of each motor and tells it of a new one.  The scheduler does   *)
(* not start a group, and WarningManager counts a warning, while a flag is  *)
(* up.  Both threads store alarms in the database that WarningManager asks  *)
(* for the place of the last alarm.                                         *)
EXTENDS Integers, FiniteSets

CONSTANTS
  Radars,       \* the radars added to m_radardisMap
  Motors,       \* the motors of g_nMotorId
  MotorErrors,  \* error numbers a motor may report, 0 for none
  HomingError,  \* HOMING_ERROR
  Positions,    \* metres along the rail; the bound of the rail
  DbMayFail     \* whether a call of the database may fail

ASSUME RadarsAssumption == Radars \subseteq {"FRONT", "BACK", "DOWN"}
ASSUME MotorsAssumption == Motors \subseteq {"WALK", "LIFT"}
ASSUME ErrorsAssumption == 0 \in MotorErrors /\ MotorErrors \subseteq Nat
ASSUME PositionsAssumption == Positions \subseteq Nat /\ Positions # {}
ASSUME DbAssumption == DbMayFail \in BOOLEAN

VARIABLES
  warnType,    \* RadarManager::m_eWarnType, the radars that warn
  notifying,   \* judgeWarn has found a change and has not told it yet
  ussExcep,    \* m_warmFlag of the front and of the back radar
  motorErr,    \* error number in m_motorInfo
  lastWarn,    \* updateInfo: the last error told, per motor
  position,    \* Motor::getCurPosition
  alarmAt      \* database: position of the last alarm of each item

exceptionVars ==
  <<warnType, notifying, ussExcep, motorErr, lastWarn, position, alarmAt>>

Sides == {"FRONT", "BACK"}

NoAlarm == -1

\* Names of alarm_item_config the modelled code uses.
Item == {"USS", "MOTOR", "HOMING", "CH4_HIGH", "CO_HIGH", "BATTERY_TEMP_HIGH"}

DbOutcomes == IF DbMayFail THEN BOOLEAN ELSE {TRUE}

---------------------------------------------------------------------------
(* WarningService.  A session that is not connected, or a statement that    *)
(* throws, stores nothing, and the caller is not told.                      *)

InsertAlarm(at, item, pos, ok) == IF ok THEN [at EXCEPT ![item] = pos] ELSE at

QueryAlarmNearbydis(at, item, ok) == IF ok THEN at[item] ELSE NoAlarm

---------------------------------------------------------------------------
ExceptionTypeOK ==
  /\ warnType \subseteq Radars
  /\ notifying \in BOOLEAN
  /\ ussExcep \in [Sides -> BOOLEAN]
  /\ motorErr \in [Motors -> MotorErrors]
  /\ lastWarn \in [Motors -> MotorErrors]
  /\ position \in Positions
  /\ alarmAt \in [Item -> Positions \cup {NoAlarm}]

ExceptionInit ==
  /\ warnType = {}
  /\ notifying = FALSE
  /\ ussExcep = [s \in Sides |-> FALSE]
  /\ motorErr = [m \in Motors |-> 0]
  /\ lastWarn = [m \in Motors |-> 0]
  /\ position \in Positions
  /\ alarmAt = [i \in Item |-> NoAlarm]

---------------------------------------------------------------------------
(* The thread of RadarManager.                                              *)

\* Fault: only an obstacle that appears is told, not one that goes.
JudgeRadarsAppearing(seen) ==
  /\ ~notifying
  /\ warnType' = seen
  /\ notifying' = (seen \ warnType # {})
  /\ UNCHANGED <<ussExcep, motorErr, lastWarn, position, alarmAt>>

\* One round of judgeWarn.  Every subset may be seen: a radar warns when its
\* switch is on and it is blocked, and the answer is not initialised when the
\* driver fails, whose result is not tested.
JudgeRadars(seen) ==
  /\ ~notifying
  /\ warnType' = seen
  /\ notifying' = (seen # warnType)
  /\ UNCHANGED <<ussExcep, motorErr, lastWarn, position, alarmAt>>

\* Fault: the silence of all radars is not a case of its own.
UpdateUltrasoundNoReset(ok) ==
  /\ notifying
  /\ notifying' = FALSE
  /\ ussExcep' = [s \in Sides |-> s \in warnType \/ ussExcep[s]]
  /\ alarmAt' = IF warnType = {} THEN alarmAt
                ELSE InsertAlarm(alarmAt, "USS", position, ok)
  /\ UNCHANGED <<warnType, motorErr, lastWarn, position>>

\* MoveException::update(SUB_ULTRASOUND): a flag goes up for each radar that
\* warns; no flag goes down before every radar is silent, the one below
\* included.
UpdateUltrasound(ok) ==
  /\ notifying
  /\ notifying' = FALSE
  /\ ussExcep' = [s \in Sides |-> s \in warnType \/ (ussExcep[s] /\ warnType # {})]
  /\ alarmAt' = IF warnType = {} THEN alarmAt
                ELSE InsertAlarm(alarmAt, "USS", position, ok)
  /\ UNCHANGED <<warnType, motorErr, lastWarn, position>>

---------------------------------------------------------------------------
(* The thread of MotorDriver.                                               *)

\* MoveException::update(SUB_MOTOR_WARN) and (SUB_LIFT_MOTOR_WARN).
MotorItem(m, err) ==
  IF m = "LIFT" /\ err = HomingError THEN "HOMING" ELSE "MOTOR"

\* One motor in updateInfo.  A motor that does not answer is passed over (no
\* step); an error is told once, also when it has gone and come back.
UpdateInfo(m, err, ok) ==
  /\ motorErr' = [motorErr EXCEPT ![m] = err]
  /\ IF err # lastWarn[m] /\ err # 0
     THEN /\ lastWarn' = [lastWarn EXCEPT ![m] = err]
          /\ alarmAt' = InsertAlarm(alarmAt, MotorItem(m, err), position, ok)
     ELSE UNCHANGED <<lastWarn, alarmAt>>
  /\ UNCHANGED <<warnType, notifying, ussExcep, position>>

\* The robot is somewhere else when the thread of MotorDriver asks again.
Travel(p) ==
  /\ p # position
  /\ position' = p
  /\ UNCHANGED <<warnType, notifying, ussExcep, motorErr, lastWarn, alarmAt>>

ExceptionNext ==
  \/ \E seen \in SUBSET Radars : JudgeRadars(seen)
  \/ \E ok \in DbOutcomes : UpdateUltrasound(ok)
  \/ \E m \in Motors, err \in MotorErrors, ok \in DbOutcomes : UpdateInfo(m, err, ok)
  \/ \E p \in Positions : Travel(p)

---------------------------------------------------------------------------
\* Between two rounds of the radar thread, a side whose radar warns is flagged,
\* and a flag is up only while some radar warns: the scheduler neither drives
\* at an obstacle the radar saw, nor waits for one that has gone.
FlagsFollowRadar ==
  ~notifying =>
    /\ \A s \in Sides : s \in warnType => ussExcep[s]
    /\ (\E s \in Sides : ussExcep[s]) => warnType # {}

\* When every radar stays silent, the flags go down for good and the scheduler
\* may start groups again.
ObstacleGone ==
  <>[](warnType = {}) => <>[](\A s \in Sides : ~ussExcep[s])

=============================================================================
