---------------------------- MODULE TaskRotation ----------------------------
(* The thread of Robot::taskRotation, which looks at the patrols of the map *)
(* once in each second and creates those that are due in that second.  Time *)
(* goes on while a patrol is created, and a request of the server may load  *)
(* the list of patrols again under the thread, which holds no mutex.  The    *)
(* bits of m_saving the thread keeps are left out: only disabled code reads  *)
(* them (powerSavingThread).                                                *)
EXTENDS Integers, Sequences, FiniteSets, SequencesExt

CONSTANTS
  Tasks,     \* the patrols of the database
  Type,      \* TASK_PERIOD, TASK_ONETIME or TASK_NOW
  Unit,      \* seconds of repeatUnit: a day or an hour
  Period,    \* repeatPeriod, in units
  Start,     \* startTime, in seconds
  End,       \* endTime
  Viewed,    \* the patrols with viewpoints
  Lists,     \* the lists a load may return
  Lead,      \* 300 seconds before the start of a patrol
  LastTime   \* bound: last second of a behaviour

ASSUME TypeAssumption == Type \in [Tasks -> {"PERIOD", "ONETIME", "NOW"}]
ASSUME PeriodAssumption ==
  Unit \in [Tasks -> Nat \ {0}] /\ Period \in [Tasks -> Nat \ {0}]
ASSUME TimesAssumption ==
  /\ Start \in [Tasks -> Nat] /\ End \in [Tasks -> Nat]
  /\ Lead \in Nat /\ LastTime \in Nat
  /\ \A t \in Tasks : Lead < Unit[t]
ASSUME ListsAssumption ==
  Viewed \subseteq Tasks /\ Lists \subseteq Seq(Tasks) /\ \A l \in Lists : IsInjective(l)

VARIABLES
  now,       \* the clock, in seconds
  taskList,  \* m_taskList
  at,        \* the patrol the thread looks at, 0 between two passes
  curTime,   \* the second of the pass
  lastTime,  \* the second of the last pass
  creating,  \* createPatroPlanTaskItem has not returned
  passList,  \* history: the list the pass began with
  created,   \* history: patrols created since the second of the pass
  slow,      \* history: the pass was creating a patrol when its second ended
  raced,     \* history: the list was loaded again under the pass
  again      \* history: the patrols the pass created a second time

historyVars == <<passList, created, slow, raced, again>>
vars == <<now, taskList, at, curTime, lastTime, creating, historyVars>>

SomeList == Lists \cup {<<>>}

TypeOK ==
  /\ now \in 0..LastTime
  /\ taskList \in SomeList
  /\ at \in 0..Len(taskList)
  /\ curTime \in 0..LastTime
  /\ lastTime \in -1..LastTime
  /\ creating \in BOOLEAN
  /\ passList \in SomeList
  /\ created \subseteq Tasks \X (0..LastTime)
  /\ slow \in BOOLEAN
  /\ raced \in BOOLEAN
  /\ again \subseteq Tasks

Init ==
  /\ now = 0
  /\ taskList \in SomeList
  /\ at = 0
  /\ curTime = 0
  /\ lastTime = -1
  /\ creating = FALSE
  /\ passList = <<>>
  /\ created = {}
  /\ slow = FALSE
  /\ raced = FALSE
  /\ again = {}

---------------------------------------------------------------------------
(* When a patrol is due.                                                    *)

UnitOf(task, time) == time \div Unit[task]
SecondOf(task, time) == time % Unit[task]

\* Fault: the last second of the period is left out.
PeriodDueOpen(task, time) ==
  /\ time >= Start[task] - Lead /\ time < End[task]
  /\ (UnitOf(task, time) - UnitOf(task, Start[task])) % Period[task] = 0
  /\ SecondOf(task, time) = SecondOf(task, Start[task])

\* Fault: the repetition counts from the origin of time, not from the start.
PeriodDueAbsolute(task, time) ==
  /\ time >= Start[task] - Lead /\ time <= End[task]
  /\ UnitOf(task, time) % Period[task] = 0
  /\ SecondOf(task, time) = SecondOf(task, Start[task])

\* TASK_PERIOD: in the period, every Period-th day (or hour), at the second of
\* the day (or hour) of the start.
PeriodDue(task, time) ==
  /\ time >= Start[task] - Lead /\ time <= End[task]
  /\ (UnitOf(task, time) - UnitOf(task, Start[task])) % Period[task] = 0
  /\ SecondOf(task, time) = SecondOf(task, Start[task])

\* The second a patrol is compared with: a one-time patrol reads the clock
\* again, a periodic one takes the second of the pass.
SecondSeen(task) == IF Type[task] = "PERIOD" THEN curTime ELSE now

\* addTaskFlag after the switch; TASK_NOW falls through to default.
AddTask(task) ==
  \/ Type[task] = "PERIOD" /\ PeriodDue(task, SecondSeen(task))
  \/ Type[task] = "ONETIME" /\ SecondSeen(task) = Start[task]

---------------------------------------------------------------------------
\* Fault: the thread does not notice that it has looked at this second.
NewSecondAlways == TRUE

NewSecond == now # lastTime

\* The thread is in the middle of a pass; at is 0 while it creates a patrol if
\* the list was loaded under it.
Passing == at # 0 \/ creating

\* A pass begins, once for each second.
BeginPass ==
  /\ ~Passing
  /\ NewSecond
  /\ curTime' = now
  /\ lastTime' = now
  /\ at' = IF taskList = <<>> THEN 0 ELSE 1
  /\ passList' = taskList
  /\ created' = {entry \in created : entry[2] >= now}
  /\ slow' = FALSE
  /\ raced' = FALSE
  /\ again' = {}
  /\ UNCHANGED <<now, taskList, creating>>

\* Fault: the iterator is moved on behind the last patrol.
FollowingPastEnd == at + 1

Following == IF at = Len(taskList) THEN 0 ELSE at + 1

\* The patrol is not due, or has no viewpoint.
PassOver ==
  /\ at # 0 /\ ~creating
  /\ taskList[at] \in Viewed => ~AddTask(taskList[at])
  /\ at' = Following
  /\ UNCHANGED <<now, taskList, curTime, lastTime, creating, historyVars>>

\* The patrol is due: createPatroPlanTaskItem is called, which waits for the
\* mutex of the scheduler and for the database.
BeginCreate ==
  LET task == taskList[at]
      entry == <<task, SecondSeen(task)>>
  IN /\ at # 0 /\ ~creating
     /\ task \in Viewed
     /\ AddTask(task)
     /\ creating' = TRUE
     /\ created' = created \cup {entry}
     /\ again' = IF entry \in created THEN again \cup {task} ELSE again
     /\ UNCHANGED <<now, taskList, at, curTime, lastTime, passList, slow, raced>>

EndCreate ==
  /\ creating
  /\ creating' = FALSE
  /\ at' = Following
  /\ UNCHANGED <<now, taskList, curTime, lastTime, historyVars>>

\* The thread sleeps half a second and needs no time to compare, so that a
\* second ends only while a patrol is created or when its pass has ended.
Tick ==
  /\ now < LastTime
  /\ creating \/ (at = 0 /\ lastTime = now)
  /\ now' = now + 1
  /\ slow' = (slow \/ creating)
  /\ UNCHANGED <<taskList, at, curTime, lastTime, creating, passList, created, raced, again>>

\* tasksRefresh between two passes.  It clears the list and then fills it, so
\* that a pass may also find it empty.
TasksRefresh ==
  /\ ~Passing
  /\ taskList' \in SomeList \ {taskList}
  /\ UNCHANGED <<now, at, curTime, lastTime, creating, historyVars>>

\* tasksRefresh during a pass frees the element the iterator is at, and the
\* thread goes on with whatever it finds there: any element, or the end.  A
\* creation under way has its own copy of the patrol, and ends.
TasksRefreshUnderPass ==
  /\ Passing
  /\ taskList' \in SomeList \ {taskList}
  /\ at' \in 0..Len(taskList')
  /\ raced' = TRUE
  /\ UNCHANGED <<now, curTime, lastTime, creating, passList, created, slow, again>>

Next ==
  \/ BeginPass
  \/ PassOver
  \/ BeginCreate
  \/ EndCreate
  \/ Tick
  \/ TasksRefresh
  \/ TasksRefreshUnderPass

Spec == Init /\ [][Next]_vars

---------------------------------------------------------------------------
\* What a patrol promises: a periodic one is due at the start and every Period
\* days (or hours) after it, until the end.
Promised(task, time) ==
  \/ /\ Type[task] = "PERIOD"
     /\ time >= Start[task] /\ time <= End[task]
     /\ (time - Start[task]) % (Period[task] * Unit[task]) = 0
  \/ /\ Type[task] = "ONETIME"
     /\ time = Start[task]

\* A patrol is created only for a second it was promised for, although that
\* second is found from the number of the day and the second of the day, and
\* the period opens before the start.
CreatedIsPromised ==
  \A entry \in created : Promised(entry[1], entry[2])

\* A periodic patrol is created at most once for one second, however often the
\* thread looks at the clock and whatever the creation of others takes, unless
\* the list was loaded in the middle of the pass.
PeriodicOnce ==
  ~raced => \A task \in again : Type[task] # "PERIOD"

\* At the end of a pass every periodic patrol promised for its second has been
\* created, also behind another one whose creation outlasted the second; a
\* one-time patrol, which reads the clock again, when no creation did.
PromisedIsCreated ==
  (at = 0 /\ ~raced) =>
    \A task \in Range(passList) \cap Viewed :
      (Promised(task, curTime) /\ (Type[task] = "PERIOD" \/ ~slow))
        => <<task, curTime>> \in created

=============================================================================
