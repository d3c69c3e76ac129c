------------------------ MODULE WarningManagerProofs ------------------------
(* Proofs about the flags, the counts and the alarms of the warnings, for    *)
(* any radars, kinds, thresholds and databases.                              *)
EXTENDS WarningManager, TLAPS

---------------------------------------------------------------------------
(* The flags of the obstacles.                                              *)

FlagTypes ==
  /\ notifying \in BOOLEAN
  /\ ussExcep \in [Sides -> BOOLEAN]

\* Between two rounds of the radar thread, a side whose radar warns is flagged,
\* and a flag is up only while some radar warns (MoveException::update).
THEOREM FlagsAlwaysFollow == Spec => []FlagsFollowRadar
<1>. DEFINE Inv == FlagTypes /\ FlagsFollowRadar
<1>1. Init => Inv
  BY DEF Init, ExceptionInit, FlagTypes, FlagsFollowRadar
<1>2. Inv /\ [Next]_vars => Inv'
  <2>. SUFFICES ASSUME Inv, [Next]_vars PROVE Inv'
    OBVIOUS
  <2>. USE DEF FlagTypes, FlagsFollowRadar
  <2>1. ASSUME NEW seen \in SUBSET Radars, JudgeRadars(seen) PROVE Inv'
    BY <2>1 DEF JudgeRadars
  <2>2. ASSUME NEW ok \in DbOutcomes, UpdateUltrasound(ok) PROVE Inv'
    BY <2>2 DEF UpdateUltrasound
  <2>3. ASSUME NEW m \in Motors, NEW err \in MotorErrors, NEW ok \in DbOutcomes,
               UpdateInfo(m, err, ok)
        PROVE  Inv'
    BY <2>3 DEF UpdateInfo
  <2>4. ASSUME NEW p \in Positions, Travel(p) PROVE Inv'
    BY <2>4 DEF Travel
  <2>5. CASE JudgeWarnRound
    <3>1. UNCHANGED <<warnType, notifying, ussExcep>>
      BY <2>5 DEF JudgeWarnRound, JudgeWarn
    <3>. QED
      BY <3>1
  <2>6. CASE UNCHANGED vars
    BY <2>6 DEF vars, exceptionVars
  <2>. QED
    BY <2>1, <2>2, <2>3, <2>4, <2>5, <2>6 DEF Next, ExceptionNext
<1>3. Inv => FlagsFollowRadar
  OBVIOUS
<1>. QED
  BY <1>1, <1>2, <1>3, PTL DEF Spec

---------------------------------------------------------------------------
(* The counts.                                                              *)

CountTypes ==
  /\ count \in [Kinds -> Nat]
  /\ inARow \in [Kinds -> 0..CountLimit]
  /\ checkStatus \subseteq Kinds

\* The count that decides goes round below the limit, the history stops at it:
\* before the first decision of a row they are the same.
CountsTheRow ==
  \A k \in Kinds :
    /\ count[k] < CountLimit
    /\ inARow[k] < CountLimit => count[k] = inARow[k]

CountInv == CountTypes /\ CountsTheRow /\ StandsAfterLimit

LEMMA CountInit == Init => CountInv
BY LimitAssumption
DEF Init, CountInv, CountTypes, CountsTheRow, StandsAfterLimit

\* What a round makes of the count, the row and the standing of one kind.
LEMMA CountOfKind ==
  ASSUME CountInv, NEW raised \in SUBSET Kinds, NEW k \in Kinds
  PROVE  /\ Counted(raised)[k] \in Nat
         /\ Counted(raised)[k] < CountLimit
         /\ k \in raised /\ inARow[k] + 1 < CountLimit =>
              Counted(raised)[k] = inARow[k] + 1 /\ k \notin Decided(raised)
         /\ k \in raised /\ inARow[k] + 1 = CountLimit => k \in Decided(raised)
         /\ k \notin raised => Counted(raised)[k] = 0
<1>1. /\ count[k] \in Nat /\ count[k] < CountLimit
      /\ inARow[k] \in Nat /\ inARow[k] <= CountLimit
      /\ inARow[k] < CountLimit => count[k] = inARow[k]
      /\ CountLimit \in Nat \ {0}
  BY LimitAssumption DEF CountInv, CountTypes, CountsTheRow
<1>2. k \in raised => Counted(raised)[k] = (count[k] + 1) % CountLimit
  BY DEF Counted
<1>3. k \notin raised => Counted(raised)[k] = 0
  BY DEF Counted
<1>4. (count[k] + 1) % CountLimit \in 0..(CountLimit - 1)
  BY <1>1
<1>5. count[k] + 1 < CountLimit => (count[k] + 1) % CountLimit = count[k] + 1
  BY <1>1
<1>6. k \in Decided(raised) <=> k \in raised /\ count[k] + 1 >= CountLimit
  BY DEF Decided
<1>7. k \in raised /\ inARow[k] + 1 < CountLimit => count[k] = inARow[k]
  BY <1>1
<1>8. k \in raised /\ inARow[k] + 1 = CountLimit => count[k] + 1 >= CountLimit
  BY <1>1
<1>. QED
  BY <1>1, <1>2, <1>3, <1>4, <1>5, <1>6, <1>7, <1>8

LEMMA RoundCounts ==
  ASSUME CountInv, JudgeWarnRound
  PROVE  CountInv'
<1>1. PICK raised \in SUBSET Kinds :
        /\ count' = Counted(raised)
        /\ checkStatus' = Standing(raised)
        /\ inARow' = [k \in Kinds |->
                        IF k \in raised THEN AtMost(CountLimit, inARow[k] + 1) ELSE 0]
  <2>1. PICK over \in SUBSET SensorKinds, lag \in 1..MaxLag,
             read \in DbOutcomes, write \in DbOutcomes :
          JudgeWarn(over, lag, read, write)
    BY DEF JudgeWarnRound
  <2>2. Raised(over) \in SUBSET Kinds
    BY <2>1 DEF Raised, SensorKinds
  <2>. QED
    BY <2>1, <2>2 DEF JudgeWarn
<1>. DEFINE row(k) == IF k \in raised THEN AtMost(CountLimit, inARow[k] + 1) ELSE 0
<1>2. ASSUME NEW k \in Kinds
      PROVE  /\ row(k) \in 0..CountLimit
             /\ Counted(raised)[k] \in Nat /\ Counted(raised)[k] < CountLimit
             /\ row(k) < CountLimit => Counted(raised)[k] = row(k)
             /\ k \in Standing(raised) <=> row(k) = CountLimit
  <2>1. /\ inARow[k] \in Nat /\ inARow[k] <= CountLimit
        /\ k \in checkStatus <=> inARow[k] = CountLimit
        /\ CountLimit \in Nat \ {0}
    BY <1>2, LimitAssumption DEF CountInv, CountTypes, StandsAfterLimit
  <2>2. CASE k \notin raised
    <3>1. row(k) = 0 /\ Counted(raised)[k] = 0
      BY <2>2, CountOfKind
    <3>2. k \notin Standing(raised)
      BY <2>2 DEF Standing, Decided
    <3>. QED
      BY <2>1, <3>1, <3>2
  <2>3. CASE k \in raised /\ inARow[k] + 1 < CountLimit
    <3>1. row(k) = inARow[k] + 1
      BY <2>1, <2>3 DEF AtMost
    <3>2. Counted(raised)[k] = inARow[k] + 1 /\ k \notin Decided(raised)
      BY <2>3, CountOfKind
    <3>3. k \notin Standing(raised)
      BY <2>1, <2>3, <3>2 DEF Standing
    <3>. QED
      BY <2>1, <2>3, <3>1, <3>2, <3>3
  <2>4. CASE k \in raised /\ inARow[k] + 1 >= CountLimit
    <3>1. row(k) = CountLimit
      BY <2>1, <2>4 DEF AtMost
    <3>2. k \in Standing(raised)
      <4>1. inARow[k] = CountLimit => k \in checkStatus
        BY <2>1
      <4>2. inARow[k] # CountLimit => k \in Decided(raised)
        BY <2>1, <2>4, CountOfKind
      <4>. QED
        BY <2>4, <4>1, <4>2 DEF Standing
    <3>3. Counted(raised)[k] \in Nat /\ Counted(raised)[k] < CountLimit
      BY CountOfKind
    <3>. QED
      BY <2>1, <3>1, <3>2, <3>3
  <2>. QED
    BY <2>1, <2>2, <2>3, <2>4
<1>3. Standing(raised) \subseteq Kinds
  BY DEF Standing, Decided, CountInv, CountTypes
<1>4. \A k \in Kinds : inARow'[k] = row(k) /\ count'[k] = Counted(raised)[k]
  BY <1>1
<1>5. count' \in [Kinds -> Nat] /\ inARow' \in [Kinds -> 0..CountLimit]
  <2>1. count' = [k \in Kinds |-> Counted(raised)[k]]
    BY <1>1 DEF Counted
  <2>2. inARow' = [k \in Kinds |-> row(k)]
    BY <1>1
  <2>. HIDE DEF row
  <2>. QED
    BY <1>2, <2>1, <2>2
<1>. HIDE DEF row
<1>. QED
  BY <1>1, <1>2, <1>3, <1>4, <1>5 DEF CountInv, CountTypes, CountsTheRow, StandsAfterLimit

LEMMA CountStep ==
  ASSUME CountInv, [Next]_vars
  PROVE  CountInv'
<1>1. CASE JudgeWarnRound
  BY <1>1, RoundCounts
<1>2. CASE UNCHANGED warningVars
  BY <1>2 DEF warningVars, CountInv, CountTypes, CountsTheRow, StandsAfterLimit
<1>. QED
  BY <1>1, <1>2 DEF Next, vars

\* A warning stands exactly while the kind has been over its threshold in at
\* least CountLimit rounds in a row (WarningManager::judgeWarn).
THEOREM AlwaysStandsAfterLimit == Spec => []StandsAfterLimit
<1>1. Init => CountInv
  BY CountInit
<1>2. CountInv /\ [Next]_vars => CountInv'
  BY CountStep
<1>3. CountInv => StandsAfterLimit
  BY DEF CountInv
<1>. QED
  BY <1>1, <1>2, <1>3, PTL DEF Spec

---------------------------------------------------------------------------
(* The types.                                                               *)

LEMMA ExceptionStepTypes ==
  ASSUME ExceptionTypeOK, ExceptionNext
  PROVE  ExceptionTypeOK'
<1>. USE DEF ExceptionTypeOK
<1>1. ASSUME NEW seen \in SUBSET Radars, JudgeRadars(seen) PROVE ExceptionTypeOK'
  BY <1>1 DEF JudgeRadars
<1>2. ASSUME NEW item \in Item, NEW ok \in DbOutcomes
      PROVE  InsertAlarm(alarmAt, item, position, ok)
               \in [Item -> Positions \cup {NoAlarm}]
  BY DEF InsertAlarm
<1>3. ASSUME NEW ok \in DbOutcomes, UpdateUltrasound(ok) PROVE ExceptionTypeOK'
  <2>1. alarmAt' \in [Item -> Positions \cup {NoAlarm}]
    BY <1>2, <1>3 DEF UpdateUltrasound, Item
  <2>2. ussExcep' \in [Sides -> BOOLEAN]
    BY <1>3 DEF UpdateUltrasound
  <2>. QED
    BY <1>3, <2>1, <2>2 DEF UpdateUltrasound
<1>4. ASSUME NEW m \in Motors, NEW err \in MotorErrors, NEW ok \in DbOutcomes,
             UpdateInfo(m, err, ok)
      PROVE  ExceptionTypeOK'
  <2>1. MotorItem(m, err) \in Item
    BY DEF MotorItem, Item
  <2>2. alarmAt' \in [Item -> Positions \cup {NoAlarm}]
    BY <1>2, <1>4, <2>1 DEF UpdateInfo
  <2>. QED
    BY <1>4, <2>2 DEF UpdateInfo
<1>5. ASSUME NEW p \in Positions, Travel(p) PROVE ExceptionTypeOK'
  BY <1>5 DEF Travel
<1>. QED
  BY <1>1, <1>3, <1>4, <1>5 DEF ExceptionNext

WarnInv == CountInv /\ WarningTypeOK

LEMMA RoundTypes ==
  ASSUME WarnInv, JudgeWarnRound
  PROVE  WarningTypeOK'
<1>1. PICK over \in SUBSET SensorKinds, lag \in 1..MaxLag,
           read \in DbOutcomes, write \in DbOutcomes :
        JudgeWarn(over, lag, read, write)
  BY DEF JudgeWarnRound
<1>. DEFINE elapsed == [k \in Kinds |-> AtMost(Interval + 1, since[k] + lag)]
<1>2. PICK alarmed \in SUBSET Decided(Raised(over)) :
        /\ since' = [k \in Kinds |-> IF k \in alarmed THEN 0 ELSE elapsed[k]]
        /\ alarmAt' = [i \in Item |-> IF write /\ \E k \in alarmed : ItemOf[k] = i
                                      THEN position ELSE alarmAt[i]]
        /\ UNCHANGED <<warnType, notifying, ussExcep, motorErr, lastWarn, position>>
        /\ count' = Counted(Raised(over))
  BY <1>1 DEF JudgeWarn
<1>3. ExceptionTypeOK'
  BY <1>2 DEF WarnInv, WarningTypeOK, ExceptionTypeOK
<1>4. CountInv'
  BY RoundCounts DEF WarnInv
<1>5. count' \in [Kinds -> 0..(CountLimit - 1)]
  <2>1. ASSUME NEW k \in Kinds PROVE Counted(Raised(over))[k] \in 0..(CountLimit - 1)
    <3>1. count'[k] \in Nat /\ count'[k] < CountLimit
      BY <1>4 DEF CountInv, CountTypes, CountsTheRow
    <3>. QED
      BY <1>2, <3>1, LimitAssumption
  <2>2. count' = [k \in Kinds |-> Counted(Raised(over))[k]]
    BY <1>2 DEF Counted
  <2>. QED
    BY <2>1, <2>2
<1>6. since' \in [Kinds -> 0..(Interval + 1)]
  <2>1. ASSUME NEW k \in Kinds PROVE elapsed[k] \in 0..(Interval + 1)
    <3>1. since[k] \in Nat /\ lag \in Nat /\ Interval \in Nat
      BY LagAssumption, IntervalAssumption DEF WarnInv, WarningTypeOK
    <3>. QED
      BY <3>1 DEF AtMost
  <2>2. 0 \in 0..(Interval + 1)
    BY IntervalAssumption
  <2>. HIDE DEF elapsed
  <2>. QED
    BY <1>2, <2>1, <2>2
<1>. QED
  BY <1>3, <1>4, <1>5, <1>6 DEF WarningTypeOK, CountInv, CountTypes

LEMMA WarnInvHolds == Spec => []WarnInv
<1>1. Init => WarnInv
  <2>. SUFFICES ASSUME Init PROVE WarnInv
    OBVIOUS
  <2>1. CountInv
    BY CountInit
  <2>2. ExceptionTypeOK
    BY ErrorsAssumption DEF Init, ExceptionInit, ExceptionTypeOK
  <2>3. 0 \in 0..(CountLimit - 1) /\ Interval + 1 \in 0..(Interval + 1)
        /\ 0 \in 0..CountLimit
    BY LimitAssumption, IntervalAssumption
  <2>. QED
    BY <2>1, <2>2, <2>3 DEF Init, WarnInv, WarningTypeOK
<1>2. WarnInv /\ [Next]_vars => WarnInv'
  <2>. SUFFICES ASSUME WarnInv, [Next]_vars PROVE WarnInv'
    OBVIOUS
  <2>1. CountInv'
    BY CountStep DEF WarnInv
  <2>2. CASE JudgeWarnRound
    BY <2>1, <2>2, RoundTypes DEF WarnInv
  <2>3. CASE ExceptionNext /\ UNCHANGED warningVars
    BY <2>1, <2>3, ExceptionStepTypes DEF WarnInv, WarningTypeOK, warningVars
  <2>4. CASE UNCHANGED vars
    BY <2>1, <2>4
    DEF WarnInv, WarningTypeOK, ExceptionTypeOK, vars, warningVars, exceptionVars
  <2>. QED
    BY <2>2, <2>3, <2>4 DEF Next
<1>. QED
  BY <1>1, <1>2, PTL DEF Spec

\* The types: above all, the count that decides stays below its limit and the
\* place of an alarm is one the robot has been at (WarningManager::judgeWarn).
THEOREM TypeCorrect == Spec => []WarningTypeOK
BY WarnInvHolds, PTL DEF WarnInv

---------------------------------------------------------------------------
(* The alarms.                                                              *)

\* An alarm of a kind is stored only when its warning has stood for a whole
\* count since the last one (WarningManager::judgeWarn, lines 248 to 257).
THEOREM AlwaysNeedsCount == Spec => AlarmNeedsCount
<1>. DEFINE Needs == \A k \in Kinds :
              (since'[k] = 0 /\ since[k] # 0) => (inARow'[k] = CountLimit /\ count'[k] = 0)
<1>1. WarnInv /\ WarnInv' /\ [Next]_vars => [Needs]_vars
  <2>. SUFFICES ASSUME WarnInv, WarnInv', [Next]_vars, NEW k \in Kinds,
                       since'[k] = 0, since[k] # 0
                PROVE  inARow'[k] = CountLimit /\ count'[k] = 0
    OBVIOUS
  <2>1. JudgeWarnRound
    BY DEF Next, vars, warningVars
  <2>2. PICK over \in SUBSET SensorKinds, lag \in 1..MaxLag,
             read \in DbOutcomes, write \in DbOutcomes :
          JudgeWarn(over, lag, read, write)
    BY <2>1 DEF JudgeWarnRound
  <2>. DEFINE raised == Raised(over)
              elapsed == [j \in Kinds |-> AtMost(Interval + 1, since[j] + lag)]
  <2>3. PICK alarmed \in SUBSET Decided(raised) :
          /\ since' = [j \in Kinds |-> IF j \in alarmed THEN 0 ELSE elapsed[j]]
          /\ count' = Counted(raised)
          /\ checkStatus' = Standing(raised)
    BY <2>2 DEF JudgeWarn
  \* A kind that is not alarmed only grows older.
  <2>4. elapsed[k] # 0
    <3>1. since[k] \in Nat /\ lag \in Nat \ {0} /\ Interval \in Nat
      BY LagAssumption, IntervalAssumption DEF WarnInv, WarningTypeOK
    <3>. QED
      BY <3>1 DEF AtMost
  <2>5. k \in Decided(raised)
    <3>. HIDE DEF elapsed
    <3>. QED
      BY <2>3, <2>4
  <2>6. inARow'[k] = CountLimit
    <3>1. k \in checkStatus'
      BY <2>3, <2>5 DEF Standing
    <3>. QED
      BY <3>1 DEF WarnInv, CountInv, StandsAfterLimit
  \* The count is below its limit, so one that decides is the last but one.
  <2>7. count'[k] = 0
    <3>1. k \in raised /\ count[k] + 1 >= CountLimit
      BY <2>5 DEF Decided
    <3>2. count[k] \in 0..(CountLimit - 1) /\ CountLimit \in Nat \ {0}
      BY LimitAssumption DEF WarnInv, WarningTypeOK
    <3>3. count[k] + 1 = CountLimit
      BY <3>1, <3>2
    <3>4. count'[k] = (count[k] + 1) % CountLimit
      BY <2>3, <3>1 DEF Counted
    <3>5. CountLimit % CountLimit = 0
      BY <3>2
    <3>. QED
      BY <3>3, <3>4, <3>5
  <2>. QED
    BY <2>6, <2>7
<1>2. Spec => []WarnInv
  BY WarnInvHolds
<1>. QED
  BY <1>1, <1>2, PTL DEF Spec, AlarmNeedsCount

=============================================================================
