--------------------------- MODULE WarningManager ---------------------------
(* The thread of WarningManager: once per second it compares what the       *)
(* sensors, the radars and the motors say with the thresholds, counts how   *)
(* often in a row each kind of warning stands and, at every CountLimit-th   *)
(* time, decides whether to store an alarm.  It runs beside the threads of  *)
(* MoveException, reads their flags and shares the alarms with them.        *)
EXTENDS MoveException

CONSTANTS
  Kinds,       \* the kinds of warning looked at, of those in Kind
  CountLimit,  \* rounds in a row before a warning counts: 10 in the code
  Interval,    \* MIN_ALARM_INTERVEL, in rounds: 300 in the code
  MaxLag       \* seconds one round may take

Kind == {"BATTERY_TEMP", "CH4", "CO", "ULTRA_FRONT", "ULTRA_BACK", "MOTOR_DISCONNECT"}

ASSUME KindsAssumption == Kinds \subseteq Kind
ASSUME LimitAssumption == CountLimit \in Nat \ {0}
ASSUME IntervalAssumption == Interval \in Nat /\ Interval >= CountLimit
ASSUME LagAssumption == MaxLag \in Nat \ {0}

VARIABLES
  count,        \* judgeWarn: rounds in a row since the last decision
  checkStatus,  \* the kinds whose warning stands, read by setCallPlcFlag
  since,        \* seconds since lastWarnTime, Interval + 1 for any longer time
  inARow        \* history: rounds in a row the kind was over its threshold

warningVars == <<count, checkStatus, since, inARow>>
vars == <<exceptionVars, warningVars>>

\* The order of enum WarnNum, which is the order of the loop.
KindOrder ==
  <<"BATTERY_TEMP", "CH4", "CO", "ULTRA_FRONT", "ULTRA_BACK", "MOTOR_DISCONNECT">>

ItemOf ==
  [k \in Kind |-> CASE k = "BATTERY_TEMP" -> "BATTERY_TEMP_HIGH"
                    [] k = "CH4" -> "CH4_HIGH"
                    [] k = "CO" -> "CO_HIGH"
                    [] k \in {"ULTRA_FRONT", "ULTRA_BACK"} -> "USS"
                    [] k = "MOTOR_DISCONNECT" -> "MOTOR"]

NeedPositionCheck == Kind \ {"MOTOR_DISCONNECT"}

SensorKinds == Kinds \cap {"BATTERY_TEMP", "CH4", "CO"}

AtMost(limit, n) == IF n > limit THEN limit ELSE n

Apart(p, q) == p - q > 1 \/ q - p > 1

---------------------------------------------------------------------------
WarningTypeOK ==
  /\ ExceptionTypeOK
  /\ count \in [Kinds -> 0..(CountLimit - 1)]
  /\ checkStatus \subseteq Kinds
  /\ since \in [Kinds -> 0..(Interval + 1)]
  /\ inARow \in [Kinds -> 0..CountLimit]

Init ==
  /\ ExceptionInit
  /\ count = [k \in Kinds |-> 0]
  /\ checkStatus = {}
  /\ since = [k \in Kinds |-> Interval + 1]
  /\ inARow = [k \in Kinds |-> 0]

---------------------------------------------------------------------------
\* The kinds whose warnFlag is raised, given the sensors over their threshold.
Raised(over) ==
  over \cup {k \in Kinds : \/ k = "ULTRA_FRONT" /\ ussExcep["FRONT"]
                           \/ k = "ULTRA_BACK" /\ ussExcep["BACK"]
                           \/ k = "MOTOR_DISCONNECT" /\ "WALK" \in Motors
                                /\ motorErr["WALK"] # 0}

\* Kinds that reach the limit in this round.
Decided(raised) == {k \in raised : count[k] + 1 >= CountLimit}

\* Fault: the count goes on after a decision.
CountedPast(raised) ==
  [k \in Kinds |-> IF k \in raised THEN count[k] + 1 ELSE 0]

\* Fault: a round without the warning does not start the count again.
CountedThrough(raised) ==
  [k \in Kinds |-> IF k \in raised THEN (count[k] + 1) % CountLimit ELSE count[k]]

Counted(raised) ==
  [k \in Kinds |-> IF k \in raised THEN (count[k] + 1) % CountLimit ELSE 0]

\* Fault: a warning that is over is kept until the next decision.
StandingKept(raised) == checkStatus \cup Decided(raised)

Standing(raised) == (checkStatus \cap raised) \cup Decided(raised)

Earlier(j, k) ==
  \E a, b \in DOMAIN KindOrder : a < b /\ KindOrder[a] = j /\ KindOrder[b] = k

\* The place of the last alarm of k's item when it is the turn of k in the
\* loop, the alarms stored before it in this round included.
LastPlace(k, alarmed, read, write) ==
  QueryAlarmNearbydis(
    IF \E j \in alarmed : ItemOf[j] = ItemOf[k] /\ Earlier(j, k)
    THEN InsertAlarm(alarmAt, ItemOf[k], position, write) ELSE alarmAt,
    ItemOf[k], read)

\* Fault: the interval is tested only for a kind that is not tied to a place.
StoresOnlyByPlace(k, alarmed, elapsed, read, write) ==
  IF k \in NeedPositionCheck
  THEN Apart(LastPlace(k, alarmed, read, write), position) /\ position > 0
  ELSE elapsed[k] > Interval

\* Whether the alarm of k is stored: far from the last one of its item, or
\* long enough after the last one of its kind.
Stores(k, alarmed, elapsed, read, write) ==
  \/ /\ k \in NeedPositionCheck
     /\ Apart(LastPlace(k, alarmed, read, write), position)
     /\ position > 0
  \/ elapsed[k] > Interval

\* One round of judgeWarn, lag seconds after the one before.
\* alarmed are the kinds for which the loop stores an alarm; lastWarnTime is set
\* before the insertion, which may fail.
JudgeWarn(over, lag, read, write) ==
  LET raised == Raised(over)
      elapsed == [k \in Kinds |-> AtMost(Interval + 1, since[k] + lag)]
  IN \E alarmed \in SUBSET Decided(raised) :
       /\ \A k \in Decided(raised) :
            k \in alarmed <=> Stores(k, alarmed, elapsed, read, write)
       /\ count' = Counted(raised)
       /\ checkStatus' = Standing(raised)
       /\ since' = [k \in Kinds |-> IF k \in alarmed THEN 0 ELSE elapsed[k]]
       /\ alarmAt' = [i \in Item |-> IF write /\ \E k \in alarmed : ItemOf[k] = i
                                    THEN position ELSE alarmAt[i]]
       /\ inARow' = [k \in Kinds |->
                       IF k \in raised THEN AtMost(CountLimit, inARow[k] + 1) ELSE 0]
       /\ UNCHANGED <<warnType, notifying, ussExcep, motorErr, lastWarn, position>>

JudgeWarnRound ==
  \E over \in SUBSET SensorKinds, lag \in 1..MaxLag, read, write \in DbOutcomes :
    JudgeWarn(over, lag, read, write)

Next ==
  \/ ExceptionNext /\ UNCHANGED warningVars
  \/ JudgeWarnRound

Spec == Init /\ [][Next]_vars

\* The threads are loops without an end.  Nothing is assumed of what the radars
\* see: a round that sees no change is a stuttering step.
FairSpec ==
  /\ Spec
  /\ WF_vars(\E ok \in DbOutcomes : UpdateUltrasound(ok) /\ UNCHANGED warningVars)
  /\ WF_vars(JudgeWarnRound)

---------------------------------------------------------------------------
\* A warning stands exactly while the kind has been over its threshold in at
\* least CountLimit rounds in a row: a single reading raises nothing, and one
\* reading below takes it back ("count ten times in a row, then judge").
StandsAfterLimit ==
  \A k \in Kinds : k \in checkStatus <=> inARow[k] = CountLimit

\* An alarm of a kind is stored only when its warning has stood for a whole
\* count since the last one.
AlarmNeedsCount ==
  [][\A k \in Kinds :
       (since'[k] = 0 /\ since[k] # 0) => (inARow'[k] = CountLimit /\ count'[k] = 0)]_vars

\* A warning that stands for good is alarmed again and again, wherever the
\* robot rests and whatever alarms other threads store for the same item.
StandingIsAlarmed ==
  \A k \in Kinds : <>[](k \in checkStatus) => []<>(since[k] = 0)

=============================================================================
