--------------------------- MODULE PatrolCommands ---------------------------
(***************************************************************************)
(* The commands of one patrol, from homing to the charge that ends it: the *)
(* state machines of exec with their retries and timeouts, the result they *)
(* hand to each other through the shared parameters of the MoveTask, the   *)
(* global patrolViewPointInfo, and the hardware that answers or does not.  *)
(*                                                                         *)
(* MoveTaskManage decides when a group runs; here the groups of the patrol *)
(* run one after the other, and Preempt stands for a group of a higher     *)
(* priority in between, after which the group starts again.  A call of     *)
(* exec whose timer (sleeepWaitTimeOut) has not run out changes nothing    *)
(* else, and is a stuttering step.                                         *)
(***************************************************************************)
EXTENDS Integers, Sequences, Functions

CONSTANTS
  Views,          \* the viewpoints: [pos, has], has \subseteq Wish
  HomeFirst,      \* createPtzArmHomeTaskItem queued a homing before
  ArmLiftMoving,  \* the setting: fold the arm between two viewpoints
  Over,           \* getOverType
  Pile,           \* the position of the charging pile
  DbMayFail,      \* a statement to the database may fail
  MaxPreempts,    \* bound on preemptions
  ReachRetries,   \* gotos sent again for a missed position: 5 in the code
  LiftChecks,     \* looks at the arm before the timeout: 60 in the code
  RotateChecks    \* looks at the pan-tilt before the timeout: 30 in the code

Wish == { "pic", "pdd", "vid" }
Point == DOMAIN Views

ASSUME PlanOK ==
  /\ Views \in Seq([pos : Nat \ {0}, has : SUBSET Wish])
  /\ Views # <<>>
  /\ HomeFirst \in BOOLEAN
  /\ ArmLiftMoving \in BOOLEAN
  /\ Over \in { "OVER_STAND_STILL", "OVER_TO_BEGINNING", "OVER_CHARGE" }
  /\ Pile \in Nat
  /\ DbMayFail \in BOOLEAN
  /\ MaxPreempts \in Nat
  /\ ReachRetries \in Nat
  /\ LiftChecks \in Nat
  /\ RotateChecks \in Nat

VARIABLES
  grp,         \* the group that runs, one past the last at the end
  cur,         \* curIter
  cmd,         \* the commands of the group: [ret, status, tries]
  shared,      \* JSON_EXEC_RESULT
  reachRetry,  \* the static of GotoCommand::exec
  info,        \* patrolViewPointInfo: whose photos and videos it names
  records,     \* task_detail_record: per viewpoint, the photos recorded
  verdict,     \* task_exec_record: "none" while there is no execution id
  hw,          \* the walking motor, the lifting motor, the pan-tilt
  preempts

vars == <<grp, cur, cmd, shared, reachRetry, info, records, verdict, hw,
          preempts>>

-----------------------------------------------------------------------------
(* The hardware.  Where a motor is and where it is going: a position of    *)
(* the track, the height or the preset of a viewpoint, Folded for the      *)
(* lifting motor and the pan-tilt at home.                                 *)

Folded == 0
High   == Len(Views) + 1     \* the height homing starts from
Begin  == 0                  \* getBeginPos
Off    == -1                 \* anywhere else
Still  == -2                 \* no goal: STOP_STATE

Motors == { "walk", "arm", "ptz" }
Place  == 0 .. High \cup { Views[k].pos : k \in Point } \cup { Begin, Pile, Off }

Stopped(m) == hw[m].goal = Still
Move(m, to) == hw' = [hw EXCEPT ![m].goal = to]
InPlace(m, to) == hw[m] = [ at |-> to, goal |-> Still ]

\* A motor reaches its goal, or is stopped somewhere else.
Arrive(m) ==
  /\ ~Stopped(m)
  /\ \E p \in { hw[m].goal, Off } :
       hw' = [hw EXCEPT ![m] = [ at |-> p, goal |-> Still ]]
  /\ UNCHANGED <<grp, cur, cmd, shared, reachRetry, info, records, verdict,
                 preempts>>

\* armPos <= 20 may be read of an arm between two heights.
MayReadLow == InPlace("arm", Folded) \/ ~Stopped("arm") \/ hw.arm.at = Off
MayReadHigh == ~InPlace("arm", Folded)

-----------------------------------------------------------------------------
(* The groups createPatroPlanTaskItem and createPtzArmHomeTaskItem build.  *)

Cmd(kind, to) == [ kind |-> kind, to |-> to ]

If(b, s) == IF b THEN s ELSE <<>>

\* Fault: the record is written before the photo is taken.
ViewCommandsRecordFirst(k) ==
  << Cmd("Goto", k), Cmd("MoveControl", k), Cmd("PtzRotate", k),
     Cmd("SQLInsert", k), Cmd("TakePhoto", k) >>

\* Fault: the recognition is asked for before the record is written.
ViewCommandsAskFirst(k) ==
  << Cmd("Goto", k), Cmd("MoveControl", k), Cmd("PtzRotate", k),
     Cmd("TakePhoto", k), Cmd("ImageRec", k), Cmd("SQLInsert", k) >>

ViewCommands(k) ==
  LET has == Views[k].has
      fold == /\ ArmLiftMoving
              /\ k < Len(Views)
              /\ Views[k].pos # Views[k + 1].pos
  IN  << Cmd("Goto", k), Cmd("MoveControl", k), Cmd("PtzRotate", k) >>
      \o If("pdd" \in has, <<Cmd("PddDet", k)>>)
      \o If("pic" \in has, <<Cmd("TakePhoto", k)>>)
      \o If("vid" \in has, <<Cmd("RecordVideo", k)>>)
      \o <<Cmd("SQLInsert", k)>>
      \o If("pic" \in has, <<Cmd("ImageRec", k)>>)
      \o If(fold, <<Cmd("PtzRotate", Folded), Cmd("MoveControl", Folded)>>)

\* own: the commands share the parameters of this group, not the patrol's,
\* or are the first to use the patrol's.
Group(view, own, cmds) == [ view |-> view, own |-> own, cmds |-> cmds ]

Homing ==
  Group(0, TRUE, << Cmd("MoveControl", High), Cmd("PddDet", Folded),
                    Cmd("PtzRotate", Folded), Cmd("GotoHome", Folded) >>)

PatrolStart ==
  Group(0, TRUE, << Cmd("SetSpeed", 0), Cmd("SQLOperation", 0) >>)

ToBeginning ==
  Group(0, FALSE, << Cmd("PtzRotate", Folded), Cmd("MoveControl", Folded),
                     Cmd("Goto", Begin) >>)

Charge ==
  Group(0, TRUE, << Cmd("SetSpeed", 0), Cmd("PtzRotate", Folded),
                    Cmd("MoveControl", Folded), Cmd("Recharge", 0) >>)

Groups ==
  If(HomeFirst, <<Homing>>)
  \o <<PatrolStart>>
  \o [ k \in Point |-> Group(k, FALSE, ViewCommands(k)) ]
  \o If(Over = "OVER_TO_BEGINNING", <<ToBeginning>>)
  \o If(Over = "OVER_CHARGE", <<Charge>>)

Commands == Groups[grp].cmds
Kind(j) == Commands[j].kind
To(j) == Commands[j].to
Position(k) == IF k = Begin THEN Begin ELSE Views[k].pos

Asleep == [ ret |-> "ST_SLEEP", status |-> "start", tries |-> 0 ]
Done(c) == c.ret \in { "ST_SUCCESS", "ST_FAIL" }

\* Whose photo or video the record of a viewpoint may name: its own, that
\* of another viewpoint, of another patrol, or none.
Foreign == -1
Shot == Point \cup { 0, Foreign }

\* MoveTaskItem::initStatusPara on group g.
Rewound(g) == [ j \in DOMAIN Groups[g].cmds |-> Asleep ]

TypeOK ==
  /\ grp \in 1 .. Len(Groups) + 1
  /\ cur \in Nat \ {0}
  /\ cmd \in Seq([ ret : { "ST_SLEEP", "ST_GOING", "ST_SUCCESS", "ST_FAIL" },
                   status : { "start", "wait", "back", "backResult", "finish" },
                   tries : Nat ])
  /\ shared \in { "ST_SUCCESS", "ST_FAIL" }
  /\ reachRetry \in 0 .. ReachRetries + 1
  /\ info \in [ photo : Shot, video : Shot ]
  /\ records \in [Point -> SUBSET Shot]
  /\ verdict \in { "none", "open", "success" }
  /\ hw \in [Motors -> [ at : Place, goal : Place \cup {Still} ]]
  /\ preempts \in 0 .. MaxPreempts

\* The robot rests at the beginning of the track, folded.
Init ==
  /\ grp = 1
  /\ cur = 1
  /\ cmd = Rewound(1)
  /\ shared = "ST_SUCCESS"
  /\ reachRetry = 0
  /\ info = [ photo |-> 0, video |-> 0 ]
  /\ records = [k \in Point |-> {}]
  /\ verdict = "none"
  /\ hw = [m \in Motors |-> [ at |-> Folded, goal |-> Still ]]
  /\ preempts = 0
-----------------------------------------------------------------------------
(* exec of command j.  Step leaves the command with a result, a state and  *)
(* a count of tries; what an exec does not name stays.                     *)

Step(j, c) == cur' = j /\ cmd' = [cmd EXCEPT ![j] = c]

Goes(j, status, tries) ==
  Step(j, [ ret |-> "ST_GOING", status |-> status, tries |-> tries ])

\* Nobody reads the state and the count of a command that has ended.
Ends(j, ret) == Step(j, [ Asleep EXCEPT !.ret = ret ])

\* One more try, the last of which fails.
Tries(j, status, more) ==
  IF more THEN Goes(j, status, cmd[j].tries + 1) ELSE Ends(j, "ST_FAIL")

\* The timer of the state has not run out.
Waits(j) == Goes(j, cmd[j].status, cmd[j].tries) /\ UNCHANGED <<shared, hw>>

notes == <<info, records, verdict>>

\* Fault: the record too is refused after a failure.
ChainedRecord ==
  { "MoveControl", "PtzRotate", "GotoHome", "TakePhoto", "RecordVideo", "SQLInsert" }

\* The commands that look at the shared result at every call, and end with
\* "last command execute failed, exit!".
Chained == { "MoveControl", "PtzRotate", "GotoHome", "TakePhoto", "RecordVideo" }

Refused(j) ==
  /\ Kind(j) \in Chained
  /\ shared = "ST_FAIL"
  /\ Ends(j, "ST_FAIL")
  /\ UNCHANGED <<shared, hw, notes, reachRetry>>

\* Fault: a missed position is not counted.
MissUncounted == reachRetry

\* The static counter of the positions missed.
Miss == reachRetry + 1

\* Fault: a missed position is always tried again.
AlwaysAgain == TRUE
Again == reachRetry <= ReachRetries

\* Fault: a robot in place does not set the shared result.
ReachedSilent == "ST_FAIL"
Reached == "ST_SUCCESS"

\* The robot has stopped: at the viewpoint, or the goto is sent once more,
\* or given up, with success as the shared result.
GotoWait(j) ==
  /\ Stopped("walk")
  /\ \/ /\ InPlace("walk", Position(To(j)))
        /\ Ends(j, "ST_SUCCESS")
        /\ shared' = Reached
        /\ reachRetry' = 0
     \/ /\ ~InPlace("walk", Position(To(j)))
        /\ Again
        /\ Goes(j, "start", 0)
        /\ shared' = "ST_FAIL"
        /\ reachRetry' = Miss
     \/ /\ ~InPlace("walk", Position(To(j)))
        /\ ~Again
        /\ Ends(j, "ST_FAIL")
        /\ shared' = "ST_SUCCESS"
        /\ reachRetry' = 0

GotoSend(j) ==
  /\ shared' = "ST_FAIL"
  /\ \/ Move("walk", Position(To(j))) /\ Goes(j, "wait", 0)
     \/ UNCHANGED hw /\ Tries(j, "start", cmd[j].tries <= 5)
  /\ UNCHANGED reachRetry

Goto(j) ==
  /\ \/ cmd[j].status = "start" /\ GotoSend(j)
     \/ cmd[j].status = "wait" /\ GotoWait(j) /\ UNCHANGED hw
  /\ UNCHANGED notes

\* Fault: the height is not compared.
LiftedAnywhere(to) == Stopped("arm")

Lifted(to) == InPlace("arm", to)

\* Motion_Arm_MoveTo; the timeout of the check leaves the shared result.
MoveControl(j) ==
  LET n == cmd[j].tries
  IN  /\ \/ /\ cmd[j].status = "start"
            /\ \/ Move("arm", To(j)) /\ Goes(j, "wait", 0) /\ UNCHANGED shared
               \/ /\ UNCHANGED hw
                  /\ Tries(j, "start", n + 1 < 3)
                  /\ shared' = IF n + 1 < 3 THEN shared ELSE "ST_FAIL"
         \/ /\ cmd[j].status = "wait"
            /\ IF Lifted(To(j)) /\ n + 1 <= LiftChecks
               THEN Ends(j, "ST_SUCCESS")
               ELSE Tries(j, "wait", n + 1 <= LiftChecks)
            /\ UNCHANGED <<shared, hw>>
      /\ UNCHANGED <<notes, reachRetry>>

\* The pan-tilt moves only above a height of the arm that is read at every
\* call; a command of which a motor has refused its part is sent again.
PtzRotate(j) ==
  LET n == cmd[j].tries
  IN  /\ \/ /\ MayReadLow
            /\ Ends(j, "ST_FAIL") /\ shared' = "ST_FAIL" /\ UNCHANGED hw
         \/ /\ MayReadHigh
            /\ CASE cmd[j].status = "start" ->
                      \/ Waits(j)
                      \/ Move("ptz", To(j)) /\ Goes(j, "wait", 1)
                      \/ /\ UNCHANGED hw \/ Move("ptz", Off)
                         /\ Tries(j, "start", n + 1 <= 5)
                 [] cmd[j].status = "wait" ->
                      /\ UNCHANGED hw
                      /\ \/ Tries(j, "wait", n + 1 <= RotateChecks)
                         \/ /\ InPlace("ptz", To(j)) /\ n + 1 <= RotateChecks
                            /\ Goes(j, "finish", n + 1)
                 [] cmd[j].status = "finish" ->
                      UNCHANGED hw /\ Ends(j, "ST_SUCCESS")
            /\ UNCHANGED shared
      /\ UNCHANGED <<notes, reachRetry>>

\* Homing the lifting motor.
GotoHome(j) ==
  LET n == cmd[j].tries
  IN  /\ \/ /\ cmd[j].status = "start"
            /\ \/ Move("arm", Folded) /\ Goes(j, "wait", 0) /\ UNCHANGED shared
               \/ /\ UNCHANGED hw
                  /\ Tries(j, "start", n <= 5)
                  /\ shared' = IF n <= 5 THEN shared ELSE "ST_FAIL"
         \/ /\ cmd[j].status = "wait" /\ Stopped("arm")
            /\ Ends(j, "ST_SUCCESS") /\ UNCHANGED <<shared, hw>>
      /\ UNCHANGED <<notes, reachRetry>>

\* The detector moves out and back.  Whether it has arrived is read beyond
\* the end of a vector on the way out, and has no timeout; a vector with too
\* few motors is a failure.  No earlier failure is looked at, and the end is a
\* success for all that follow.
PddDet(j) ==
  LET n == cmd[j].tries
  IN  /\ CASE cmd[j].status = "start" ->
                \/ Goes(j, IF To(j) = Folded THEN "backResult" ELSE "wait", 0)
                \/ Tries(j, "start", n <= 3)
           [] cmd[j].status = "wait"       -> Goes(j, "back", n) \/ Ends(j, "ST_FAIL")
           [] cmd[j].status = "back"       -> Goes(j, "backResult", n)
           [] cmd[j].status = "backResult" -> Goes(j, "finish", n) \/ Ends(j, "ST_FAIL")
           [] cmd[j].status = "finish"     -> Ends(j, "ST_SUCCESS")
      /\ shared' = IF cmd[j].status = "finish" THEN "ST_SUCCESS" ELSE shared
      /\ UNCHANGED <<hw, notes, reachRetry>>

TakePhoto(j) ==
  /\ IF cmd[j].status = "start"
     THEN Goes(j, "finish", 0) /\ info' = [info EXCEPT !.photo = To(j)]
     ELSE Ends(j, "ST_SUCCESS") /\ UNCHANGED info
  /\ UNCHANGED <<shared, hw, records, verdict, reachRetry>>

\* The time of the start is a local variable of an earlier call: whether the
\* recording is over is undefined.  Its last state falls through to failure.
RecordVideo(j) ==
  /\ CASE cmd[j].status = "start"  -> Goes(j, "wait", 0)
       [] cmd[j].status = "wait"   -> Goes(j, "finish", 0)
       [] cmd[j].status = "finish" -> Ends(j, "ST_FAIL")
  /\ info' = IF cmd[j].status = "start" THEN [info EXCEPT !.video = To(j)] ELSE info
  /\ UNCHANGED <<shared, hw, records, verdict, reachRetry>>

\* Fault: the flag of the first viewpoint instead of the last.
FirstPoint(k) == k = 1

LastPoint(k) == k = Len(Views)

\* A statement of the database, which may change nothing.
Stored(done, undone) == done \/ (DbMayFail /\ undone)

\* The first state falls through to the last: one call, always a success.
SQLInsert(j) ==
  LET k    == To(j)
      kept == [ photo |-> IF "pic" \in Views[k].has THEN info.photo ELSE 0,
                video |-> IF "vid" \in Views[k].has THEN info.video ELSE 0 ]
  IN  /\ info' = kept
      /\ Stored(records' = [records EXCEPT ![k] = @ \cup {kept.photo}],
                UNCHANGED records)
      /\ IF LastPoint(k) /\ verdict # "none"
         THEN Stored(verdict' = "success", UNCHANGED verdict)
         ELSE UNCHANGED verdict
      /\ Ends(j, "ST_SUCCESS")
      /\ UNCHANGED <<shared, hw, reachRetry>>

ImageRec(j) ==
  /\ IF cmd[j].status = "start" THEN Goes(j, "finish", 0)
                                ELSE Ends(j, "ST_SUCCESS")
  /\ UNCHANGED <<shared, hw, notes, reachRetry>>

SetSpeed(j) ==
  /\ Ends(j, "ST_SUCCESS") \/ Ends(j, "ST_FAIL")
  /\ UNCHANGED <<shared, hw, notes, reachRetry>>

\* The execution record of the patrol, once.  verdict is what the patrol knows
\* of it: a row whose id could not be read back stays without a patrol, and is
\* no record of it.
SQLOperation(j) ==
  /\ \/ verdict # "none" /\ Ends(j, "ST_FAIL") /\ UNCHANGED verdict
     \/ verdict = "none" /\ Ends(j, "ST_SUCCESS") /\ verdict' = "open"
     \/ verdict = "none" /\ DbMayFail /\ Ends(j, "ST_FAIL") /\ UNCHANGED verdict
  /\ UNCHANGED <<shared, hw, info, records, reachRetry>>

\* A manual charge, which the pile and its driver answer at will.
Recharge(j) ==
  LET n == cmd[j].tries
  IN  /\ \/ /\ cmd[j].status = "start"
            /\ \/ Waits(j)
               \/ Ends(j, "ST_SUCCESS") /\ UNCHANGED hw       \* is charging
               \/ Move("walk", Pile) /\ Goes(j, "wait", 0)
               \/ Tries(j, "start", n + 1 < 5) /\ UNCHANGED hw
         \/ /\ cmd[j].status = "wait"
            /\ \/ /\ Stopped("walk")                          \* CP_IN_SEARCHING
                  /\ Tries(j, "wait", n < 3)
                  /\ UNCHANGED hw \/ (n < 3 /\ Move("walk", Pile))
               \/ /\ Ends(j, "ST_SUCCESS") \/ Ends(j, "ST_FAIL")
                  /\ UNCHANGED hw
      /\ UNCHANGED <<shared, notes, reachRetry>>

-----------------------------------------------------------------------------
(* MoveTaskItem::run, and what stands around it. *)

Exec(j) ==
  \/ Refused(j)
  \/ /\ Kind(j) \in Chained => shared = "ST_SUCCESS"
     /\ \/ Kind(j) = "Goto" /\ Goto(j)
        \/ Kind(j) = "MoveControl" /\ MoveControl(j)
        \/ Kind(j) = "PtzRotate" /\ PtzRotate(j)
        \/ Kind(j) = "GotoHome" /\ GotoHome(j)
        \/ Kind(j) = "PddDet" /\ PddDet(j)
        \/ Kind(j) = "TakePhoto" /\ TakePhoto(j)
        \/ Kind(j) = "RecordVideo" /\ RecordVideo(j)
        \/ Kind(j) = "SQLInsert" /\ SQLInsert(j)
        \/ Kind(j) = "ImageRec" /\ ImageRec(j)
        \/ Kind(j) = "SetSpeed" /\ SetSpeed(j)
        \/ Kind(j) = "SQLOperation" /\ SQLOperation(j)
        \/ Kind(j) = "Recharge" /\ Recharge(j)

Running == grp <= Len(Groups)

ExecCurrent ==
  /\ Running
  /\ ~Done(cmd[cur])
  /\ Exec(cur)
  /\ UNCHANGED <<grp, preempts>>

ExecNext ==
  /\ Running
  /\ Done(cmd[cur])
  /\ cur < Len(Commands)
  /\ Exec(cur + 1)
  /\ UNCHANGED <<grp, preempts>>

\* The commands are finished; the next group starts.
NextGroup ==
  /\ Running
  /\ Done(cmd[cur])
  /\ cur = Len(Commands)
  /\ grp' = grp + 1
  /\ cur' = 1
  /\ cmd' = IF grp < Len(Groups) THEN Rewound(grp + 1) ELSE <<>>
  /\ shared' = IF grp < Len(Groups) /\ Groups[grp + 1].own
               THEN "ST_SUCCESS" ELSE shared
  /\ UNCHANGED <<reachRetry, notes, hw, preempts>>

\* Bound: MaxPreempts.  Groups of other tasks have run, with the static
\* counter, the global patrolViewPointInfo and the hardware; this group
\* starts again.
Preempt ==
  /\ Running
  /\ preempts < MaxPreempts
  /\ preempts' = preempts + 1
  /\ cur' = 1
  /\ cmd' = Rewound(grp)
  /\ reachRetry' \in 0 .. ReachRetries + 1
  /\ info' \in { info, [ photo |-> Foreign, video |-> Foreign ] }
  /\ \E a, p \in { Folded, Off } :
       hw' = [ m \in Motors |->
                 [ at   |-> CASE m = "walk" -> Off [] m = "arm" -> a [] m = "ptz" -> p,
                   goal |-> Still ] ]
  /\ UNCHANGED <<grp, shared, records, verdict>>

Run == ExecCurrent \/ ExecNext \/ NextGroup

Next == Run \/ Preempt \/ \E m \in Motors : Arrive(m)

Spec == Init /\ [][Next]_vars

\* The process thread goes on calling run, and reads in the end what it
\* waits for; a motor stops.
FairSpec ==
  Spec /\ WF_vars(Run) /\ WF_vars(Arrive("walk")) /\ WF_vars(Arrive("arm"))
-----------------------------------------------------------------------------
(* Properties. *)

View == Running /\ Groups[grp].view # 0
FailedBefore(j) == \E i \in 1 .. j - 1 : cmd[i].ret = "ST_FAIL"

\* A failure does not outlive the viewpoint it happened at: once the goto of
\* a viewpoint has ended, a failed shared result comes from a command of this
\* viewpoint, so that none is refused for what happened at an earlier one.
FailureHasCause ==
  View /\ Done(cmd[1]) /\ shared = "ST_FAIL"
    => \E i \in 1 .. cur : cmd[i].ret = "ST_FAIL"

\* A photo is taken with the robot, the arm and the pan-tilt at rest where
\* its viewpoint wants them, or after a command of its viewpoint has failed.
PhotoInPlace ==
  [][ \A k \in Point :
        info'.photo = k /\ info.photo # k =>
          \/ FailedBefore(cur')
          \/ /\ InPlace("walk", Views[k].pos)
             /\ InPlace("arm", k)
             /\ InPlace("ptz", k) ]_vars

\* The record of a viewpoint names the photo of another one, which the
\* global patrolViewPointInfo still holds, only after one of its commands
\* has failed.
OwnPhoto ==
  [][ \A k \in Point :
        \A p \in records'[k] \ records[k] :
          \/ p = IF "pic" \in Views[k].has THEN k ELSE 0
          \/ FailedBefore(cur') ]_vars

\* The patrol is reported as a success only when every viewpoint has its
\* record, however often a viewpoint was given up or started again.
VerdictAfterAll ==
  verdict = "success" /\ ~DbMayFail => \A k \in Point : records[k] # {}

\* A patrol comes to its end through all its retries, whatever the hardware
\* answers, if no viewpoint asks for the detector or a recording: these have
\* no timeout.
PatrolOver == <>~Running

\* "Fold the arm before moving": the robot is sent somewhere else only with
\* the arm folded and at rest.
DrivesFolded ==
  [][ hw'.walk.goal \notin { hw.walk.goal, hw.walk.at, Still }
        => InPlace("arm", Folded) ]_vars
-----------------------------------------------------------------------------
(* The commands implement PatrolReport. *)

\* The groups before the first viewpoint.
Base == IF HomeFirst THEN 2 ELSE 1

\* The viewpoint the patrol is at: 0 before the first, one more than there are
\* after the last.
Stop ==
  IF grp <= Base THEN 0
  ELSE IF grp - Base \in Point THEN grp - Base ELSE Len(Views) + 1

Spoilt == View /\ \E j \in DOMAIN cmd : cmd[j].ret = "ST_FAIL"

Told == View /\ \E j \in DOMAIN cmd : Kind(j) = "SQLInsert" /\ Done(cmd[j])

Report ==
  INSTANCE PatrolReport WITH
    Stops     <- Len(Views),
    Pictured  <- { k \in Point : "pic" \in Views[k].has },
    Pictures  <- Shot,
    NoPicture <- 0,
    MayLose   <- DbMayFail,
    stop      <- Stop,
    spoilt    <- Spoilt,
    told      <- Told,
    rows      <- records,
    report    <- verdict

\* However often a viewpoint is refused, given up or started again: the patrol
\* leaves none without having written its row, each start writes one, the row
\* names the photo of another only if a command of this start has failed, and
\* the verdict comes with the last viewpoint's row and at no other time.
ImplementsReport == Report!Spec
=============================================================================
