------------------------- MODULE TaskRotationProofs -------------------------
(* Proofs that patrols are created for the seconds they were promised for   *)
(* and for no others, and a periodic one once for each, whatever the        *)
(* periods, the lists and the time the creation of a patrol takes.          *)
EXTENDS TaskRotation, SequenceTheorems, TLAPS

---------------------------------------------------------------------------
(* The arithmetic of periods.                                               *)

\* A number is its quotient and its remainder.
LEMMA QuotientRemainder ==
  ASSUME NEW n \in Int, NEW u \in Nat \ {0}
  PROVE  /\ n \div u \in Int /\ n % u \in 0..(u - 1)
         /\ n = u * (n \div u) + (n % u)
OBVIOUS

\* A multiple leaves no remainder.
LEMMA MultipleRemainder ==
  ASSUME NEW m \in Nat \ {0}, NEW k \in Int
  PROVE  (m * k) % m = 0
<1>. DEFINE q == (m * k) \div m
            r == (m * k) % m
<1>1. q \in Int /\ r \in 0..(m - 1) /\ m * k = m * q + r
  <2>1. m * k \in Int
    OBVIOUS
  <2>. QED
    BY <2>1, QuotientRemainder
<1>. HIDE DEF q, r
<1>2. r = m * (k - q)
  BY <1>1
<1>3. CASE k - q >= 1
  <2>1. m * (k - q) >= m
    BY <1>1, <1>3
  <2>. QED
    BY <1>1, <1>2, <2>1
<1>4. CASE k - q <= -1
  <2>1. m * (k - q) <= -m
    BY <1>1, <1>4
  <2>. QED
    BY <1>1, <1>2, <2>1
<1>5. CASE k - q = 0
  BY <1>2, <1>5 DEF r
<1>. QED
  BY <1>1, <1>3, <1>4, <1>5

\* Two times with the same second of the day and a multiple of p days between
\* them, the first not a whole day before the second, are p days times a number
\* apart.
LEMMA WholePeriods ==
  ASSUME NEW u \in Nat \ {0}, NEW p \in Nat \ {0}, NEW lead \in Nat, lead < u,
         NEW s \in Nat, NEW t \in Nat, t >= s - lead,
         ((t \div u) - (s \div u)) % p = 0,
         t % u = s % u
  PROVE  t >= s /\ (t - s) % (p * u) = 0
<1>. DEFINE a == t \div u
            b == s \div u
            k == (a - b) \div p
<1>1. a \in Int /\ b \in Int /\ t - s = u * a - u * b
  <2>1. a \in Int /\ t = u * a + (t % u) /\ t % u \in Int
    BY QuotientRemainder
  <2>2. b \in Int /\ s = u * b + (s % u)
    BY QuotientRemainder
  <2>. HIDE DEF a, b
  <2>. QED
    BY <2>1, <2>2
<1>2. k \in Int /\ a - b = p * k
  <2>1. a - b \in Int /\ (a - b) % p = 0
    BY <1>1
  <2>. HIDE DEF a, b
  <2>2. k \in Int /\ a - b = p * k + ((a - b) % p)
    BY <2>1, QuotientRemainder
  <2>. QED
    BY <2>1, <2>2
<1>. HIDE DEF a, b, k
<1>3. t - s = u * (a - b)
  BY <1>1
<1>4. a >= b
  <2>1. SUFFICES ASSUME a - b <= -1 PROVE FALSE
    BY <1>1
  <2>2. u * (a - b) <= -u
    BY <1>1, <2>1
  <2>. QED
    BY <1>3, <2>2
<1>5. t >= s
  <2>1. u * (a - b) >= 0
    BY <1>1, <1>4
  <2>. QED
    BY <1>3, <2>1
<1>6. t - s = (p * u) * k
  BY <1>1, <1>2, <1>3
<1>7. p * u \in Nat \ {0}
  OBVIOUS
<1>. QED
  BY <1>2, <1>5, <1>6, <1>7, MultipleRemainder

---------------------------------------------------------------------------
(* A patrol is created only for a second it was promised for.               *)

TimeTypes ==
  /\ now \in Nat
  /\ curTime \in Nat
  /\ taskList \in Seq(Tasks)
  /\ at \in 0..Len(taskList)

LEMMA ListsAreSequences == ASSUME NEW l \in SomeList PROVE l \in Seq(Tasks)
<1>1. <<>> \in Seq(Tasks)
  OBVIOUS
<1>2. Lists \subseteq Seq(Tasks)
  BY ListsAssumption
<1>. QED
  BY <1>1, <1>2 DEF SomeList

\* Every step keeps the types of the clock and of the place in the list.
LEMMA TypesKept ==
  ASSUME TimeTypes, [Next]_vars
  PROVE  TimeTypes'
<1>. USE DEF TimeTypes
<1>1. CASE BeginPass
  <2>1. curTime' = now /\ UNCHANGED <<now, taskList>>
        /\ at' = IF taskList = <<>> THEN 0 ELSE 1
    BY <1>1 DEF BeginPass
  <2>2. taskList # <<>> => Len(taskList) >= 1
    OBVIOUS
  <2>. QED
    BY <2>1, <2>2
<1>2. CASE PassOver \/ EndCreate
  <2>1. UNCHANGED <<now, curTime, taskList>> /\ at' = Following
    BY <1>2 DEF PassOver, EndCreate, historyVars
  <2>. QED
    BY <2>1 DEF Following
<1>3. CASE BeginCreate
  BY <1>3 DEF BeginCreate
<1>4. CASE Tick
  BY <1>4 DEF Tick
<1>5. CASE TasksRefresh
  <2>1. at = 0 /\ UNCHANGED <<now, at, curTime>> /\ taskList' \in SomeList
    BY <1>5 DEF TasksRefresh, Passing
  <2>. QED
    BY <2>1, ListsAreSequences
<1>6. CASE TasksRefreshUnderPass
  <2>1. UNCHANGED <<now, curTime>> /\ taskList' \in SomeList /\ at' \in 0..Len(taskList')
    BY <1>6 DEF TasksRefreshUnderPass
  <2>. QED
    BY <2>1, ListsAreSequences
<1>7. CASE UNCHANGED vars
  BY <1>7 DEF vars
<1>. QED
  BY <1>1, <1>2, <1>3, <1>4, <1>5, <1>6, <1>7 DEF Next

LEMMA TypesAtFirst == Init => TimeTypes
BY ListsAreSequences DEF Init, TimeTypes

\* The second a patrol is created for was promised.
LEMMA DueIsPromised ==
  ASSUME NEW task \in Tasks, TimeTypes, AddTask(task)
  PROVE  Promised(task, SecondSeen(task))
<1>. DEFINE t == SecondSeen(task)
<1>1. t \in Nat
  BY DEF SecondSeen, TimeTypes
<1>2. CASE Type[task] = "PERIOD"
  <2>1. PeriodDue(task, t)
    BY <1>2 DEF AddTask
  <2>. HIDE DEF t
  <2>2. /\ t >= Start[task] - Lead /\ t <= End[task]
        /\ ((t \div Unit[task]) - (Start[task] \div Unit[task])) % Period[task] = 0
        /\ t % Unit[task] = Start[task] % Unit[task]
    BY <2>1 DEF PeriodDue, UnitOf, SecondOf
  <2>3. /\ Unit[task] \in Nat \ {0} /\ Period[task] \in Nat \ {0}
        /\ Start[task] \in Nat /\ Lead \in Nat /\ Lead < Unit[task]
    BY PeriodAssumption, TimesAssumption
  <2>4. t >= Start[task] /\ (t - Start[task]) % (Period[task] * Unit[task]) = 0
    <3>. DEFINE u == Unit[task]
                p == Period[task]
                s == Start[task]
    <3>1. /\ u \in Nat \ {0} /\ p \in Nat \ {0} /\ s \in Nat /\ Lead \in Nat /\ Lead < u
          /\ t >= s - Lead /\ ((t \div u) - (s \div u)) % p = 0 /\ t % u = s % u
      BY <2>2, <2>3
    <3>2. t >= s /\ (t - s) % (p * u) = 0
      <4>. HIDE DEF u, p, s
      <4>. QED
        BY <1>1, <3>1, WholePeriods
    <3>. QED
      BY <3>2
  <2>5. Promised(task, t)
    BY <1>2, <2>2, <2>4 DEF Promised
  <2>. QED
    BY <2>5 DEF t
<1>3. CASE Type[task] # "PERIOD"
  BY <1>3 DEF AddTask, Promised
<1>. QED
  BY <1>2, <1>3

\* A patrol is created only for a second it was promised for, although the
\* code finds that second from the number of the day and the second of the day,
\* and opens the period before the start (Robot::taskRotation).
THEOREM AlwaysPromised == Spec => []CreatedIsPromised
<1>. DEFINE Inv == TimeTypes /\ CreatedIsPromised
<1>1. Init => Inv
  BY TypesAtFirst DEF Init, CreatedIsPromised
<1>2. Inv /\ [Next]_vars => Inv'
  <2>. SUFFICES ASSUME Inv, [Next]_vars PROVE CreatedIsPromised'
    BY TypesKept
  <2>1. CASE BeginPass
    BY <2>1 DEF BeginPass, CreatedIsPromised, Promised
  <2>2. CASE BeginCreate
    <3>1. taskList[at] \in Tasks /\ AddTask(taskList[at])
      BY <2>2 DEF BeginCreate, TimeTypes
    <3>2. Promised(taskList[at], SecondSeen(taskList[at]))
      BY <3>1, DueIsPromised
    <3>3. created' = created \cup {<<taskList[at], SecondSeen(taskList[at])>>}
      BY <2>2 DEF BeginCreate
    <3>. QED
      BY <3>2, <3>3 DEF CreatedIsPromised, Promised
  <2>3. CASE \/ PassOver \/ EndCreate \/ Tick \/ TasksRefresh
             \/ TasksRefreshUnderPass \/ UNCHANGED vars
    <3>1. created' = created
      BY <2>3 DEF PassOver, EndCreate, Tick, TasksRefresh, TasksRefreshUnderPass,
                  historyVars, vars
    <3>. QED
      BY <3>1 DEF CreatedIsPromised, Promised
  <2>. QED
    BY <2>1, <2>2, <2>3 DEF Next
<1>3. Inv => CreatedIsPromised
  OBVIOUS
<1>. QED
  BY <1>1, <1>2, <1>3, PTL DEF Spec

---------------------------------------------------------------------------
(* A periodic patrol is created once for one second.                        *)

\* The clock does not run backwards, and no periodic patrol was created for a
\* second after the last pass.
ClockInv ==
  /\ lastTime \in Int /\ lastTime <= now
  /\ Passing => curTime = lastTime
  /\ creating \in BOOLEAN
  /\ creating => at # 0 \/ raced
  /\ created \subseteq Tasks \X Nat
  /\ \A entry \in created : Type[entry[1]] = "PERIOD" => entry[2] <= lastTime

\* In an undisturbed pass no patrol stands twice in the list, and the periodic
\* ones created in it are those the thread has passed, or is creating.
PassedInv ==
  ~raced /\ at # 0 =>
    \A i \in 1..Len(taskList) :
      Type[taskList[i]] = "PERIOD" /\ <<taskList[i], curTime>> \in created =>
        i < at \/ (i = at /\ creating)

ListInv == \A i, j \in 1..Len(taskList) : taskList[i] = taskList[j] => i = j

OnceInv == TimeTypes /\ ClockInv /\ ListInv /\ PassedInv /\ PeriodicOnce

LEMMA ListsAreInjective ==
  ASSUME NEW l \in SomeList
  PROVE  \A i, j \in 1..Len(l) : l[i] = l[j] => i = j
<1>1. CASE l = <<>>
  BY <1>1
<1>2. CASE l \in Lists
  <2>1. IsInjective(l) /\ l \in Seq(Tasks)
    BY <1>2, ListsAssumption
  <2>2. DOMAIN l = 1..Len(l)
    BY <2>1
  <2>. QED
    BY <2>1, <2>2 DEF IsInjective
<1>. QED
  BY <1>1, <1>2 DEF SomeList

LEMMA OnceAtFirst == Init => OnceInv
<1>. SUFFICES ASSUME Init PROVE OnceInv
  OBVIOUS
<1>1. TimeTypes
  BY TypesAtFirst
<1>2. ListInv
  <2>1. taskList \in SomeList
    BY DEF Init
  <2>. QED
    BY <2>1, ListsAreInjective DEF ListInv
<1>3. now = 0 /\ lastTime = -1 /\ at = 0 /\ creating = FALSE /\ created = {} /\ again = {}
  BY DEF Init
<1>4. ClockInv
  <2>1. lastTime \in Int /\ lastTime <= now
    BY <1>3
  <2>2. creating \in BOOLEAN /\ ~creating /\ at = 0
    BY <1>3
  <2>3. \A entry \in created : FALSE
    BY <1>3
  <2>. QED
    BY <2>1, <2>2, <2>3 DEF ClockInv, Passing
<1>5. PassedInv /\ PeriodicOnce
  BY <1>3 DEF PassedInv, PeriodicOnce
<1>. QED
  BY <1>1, <1>2, <1>4, <1>5 DEF OnceInv

\* A pass begins in a new second, for which nothing periodic was created.
LEMMA OnceBeginPass ==
  ASSUME OnceInv, BeginPass
  PROVE  ClockInv' /\ ListInv' /\ PassedInv' /\ PeriodicOnce'
<1>1. /\ now \in Nat /\ lastTime \in Int /\ lastTime < now
      /\ created \subseteq Tasks \X Nat
      /\ \A entry \in created : Type[entry[1]] = "PERIOD" => entry[2] <= lastTime
      /\ at = 0 /\ ~creating /\ creating \in BOOLEAN
  BY DEF OnceInv, TimeTypes, ClockInv, BeginPass, NewSecond, Passing
<1>2. /\ curTime' = now /\ lastTime' = now /\ again' = {}
      /\ created' = {entry \in created : entry[2] >= now}
      /\ UNCHANGED <<now, taskList, creating>>
  BY DEF BeginPass
<1>3. \A entry \in created' : entry \in created /\ Type[entry[1]] # "PERIOD"
  <2>. SUFFICES ASSUME NEW entry \in created, entry[2] >= now PROVE Type[entry[1]] # "PERIOD"
    BY <1>2
  <2>1. entry[2] \in Nat
    BY <1>1
  <2>. QED
    BY <1>1, <2>1
<1>4. ClockInv'
  BY <1>1, <1>2, <1>3 DEF ClockInv, Passing
<1>5. ListInv'
  BY <1>2 DEF OnceInv, ListInv
<1>6. PassedInv'
  <2>. SUFFICES ASSUME NEW i \in 1..Len(taskList'), Type[taskList'[i]] = "PERIOD",
                       <<taskList'[i], curTime'>> \in created'
                PROVE  FALSE
    BY DEF PassedInv
  <2>. QED
    BY <1>3
<1>. QED
  BY <1>2, <1>4, <1>5, <1>6 DEF PeriodicOnce

\* The patrol the thread is at was not created in this pass before.
LEMMA OnceBeginCreate ==
  ASSUME OnceInv, BeginCreate
  PROVE  ClockInv' /\ ListInv' /\ PassedInv' /\ PeriodicOnce'
<1>. DEFINE task == taskList[at]
            entry == <<task, SecondSeen(task)>>
<1>1. /\ at \in 1..Len(taskList) /\ ~creating /\ creating' = TRUE
      /\ created' = created \cup {entry}
      /\ again' = IF entry \in created THEN again \cup {task} ELSE again
      /\ UNCHANGED <<now, taskList, at, curTime, lastTime, raced>>
  BY DEF BeginCreate, OnceInv, TimeTypes
<1>2. task \in Tasks /\ SecondSeen(task) \in Nat
  BY <1>1 DEF OnceInv, TimeTypes, SecondSeen
<1>3. Type[task] = "PERIOD" => SecondSeen(task) = curTime /\ curTime = lastTime
  BY <1>1 DEF SecondSeen, OnceInv, ClockInv, Passing
<1>4. ClockInv'
  <2>1. created' \subseteq Tasks \X Nat
    BY <1>1, <1>2 DEF OnceInv, ClockInv
  <2>2. ASSUME NEW e \in created', Type[e[1]] = "PERIOD" PROVE e[2] <= lastTime
    <3>1. CASE e \in created
      BY <2>2, <3>1 DEF OnceInv, ClockInv
    <3>2. CASE e = entry
      <4>1. e[2] = lastTime
        BY <1>3, <2>2, <3>2
      <4>2. lastTime \in Int
        BY DEF OnceInv, ClockInv
      <4>. QED
        BY <4>1, <4>2
    <3>. QED
      BY <1>1, <2>2, <3>1, <3>2
  <2>. QED
    BY <1>1, <2>1, <2>2 DEF OnceInv, ClockInv, Passing
<1>5. ListInv'
  BY <1>1 DEF OnceInv, ListInv
<1>6. PassedInv'
  <2>. SUFFICES ASSUME ~raced, NEW i \in 1..Len(taskList), Type[taskList[i]] = "PERIOD",
                       <<taskList[i], curTime>> \in created'
                PROVE  i < at \/ i = at
    BY <1>1 DEF PassedInv
  <2>1. CASE <<taskList[i], curTime>> \in created
    BY <1>1, <2>1 DEF OnceInv, PassedInv
  <2>2. CASE <<taskList[i], curTime>> = entry
    BY <1>1, <2>2 DEF OnceInv, ListInv
  <2>. QED
    BY <1>1, <2>1, <2>2
<1>7. PeriodicOnce'
  <2>1. ~raced /\ Type[task] = "PERIOD" => entry \notin created
    <3>. SUFFICES ASSUME ~raced, Type[task] = "PERIOD", <<task, curTime>> \in created PROVE FALSE
      BY <1>3
    <3>1. at < at \/ (at = at /\ creating)
      BY <1>1 DEF OnceInv, PassedInv
    <3>. QED
      BY <1>1, <3>1
  <2>. QED
    BY <1>1, <2>1 DEF OnceInv, PeriodicOnce
<1>. QED
  BY <1>4, <1>5, <1>6, <1>7

\* The thread goes on to the next patrol, or the pass is over.
LEMMA OnceFollowing ==
  ASSUME OnceInv, PassOver \/ EndCreate
  PROVE  ClockInv' /\ ListInv' /\ PassedInv' /\ PeriodicOnce'
<1>1. /\ at # 0 \/ raced
      /\ Passing /\ at' = Following /\ creating' = FALSE
      /\ UNCHANGED <<now, taskList, curTime, lastTime, created, raced, again>>
  BY DEF PassOver, EndCreate, historyVars, OnceInv, ClockInv, Passing
<1>2. at # 0 => at \in 1..Len(taskList) /\ (at' = 0 \/ at' = at + 1)
  BY <1>1 DEF OnceInv, TimeTypes, Following
<1>3. PassedInv'
  <2>. SUFFICES ASSUME ~raced, NEW i \in 1..Len(taskList), Type[taskList[i]] = "PERIOD",
                       <<taskList[i], curTime>> \in created, at' # 0
                PROVE  i < at'
    BY <1>1 DEF PassedInv
  <2>1. i < at \/ i = at
    BY <1>1 DEF OnceInv, PassedInv
  <2>. QED
    BY <1>1, <1>2, <2>1
<1>. QED
  BY <1>1, <1>3 DEF OnceInv, ClockInv, ListInv, PeriodicOnce

\* Time that goes on, and a list loaded again, disturb nothing.
LEMMA OnceOthers ==
  ASSUME OnceInv, Tick \/ TasksRefresh \/ TasksRefreshUnderPass
  PROVE  ClockInv' /\ ListInv' /\ PassedInv' /\ PeriodicOnce'
<1>1. CASE Tick
  <2>1. /\ now' = now + 1
        /\ UNCHANGED <<taskList, at, curTime, lastTime, creating, created, raced, again>>
    BY <1>1 DEF Tick
  <2>2. now \in Nat
    BY DEF OnceInv, TimeTypes
  <2>3. ClockInv'
    BY <2>1, <2>2 DEF OnceInv, ClockInv, Passing
  <2>. QED
    BY <2>1, <2>3 DEF OnceInv, ListInv, PassedInv, PeriodicOnce
<1>2. CASE TasksRefresh
  <2>1. /\ at = 0 /\ taskList' \in SomeList
        /\ UNCHANGED <<now, at, curTime, lastTime, creating, created, raced, again>>
    BY <1>2 DEF TasksRefresh, Passing, historyVars
  <2>2. ListInv'
    BY <2>1, ListsAreInjective DEF ListInv
  <2>. QED
    BY <2>1, <2>2 DEF OnceInv, ClockInv, PassedInv, PeriodicOnce, Passing
<1>3. CASE TasksRefreshUnderPass
  <2>1. /\ Passing /\ taskList' \in SomeList /\ raced' = TRUE
        /\ UNCHANGED <<now, curTime, lastTime, creating, created, again>>
    BY <1>3 DEF TasksRefreshUnderPass
  <2>2. ListInv'
    BY <2>1, ListsAreInjective DEF ListInv
  <2>. QED
    BY <2>1, <2>2 DEF OnceInv, ClockInv, PassedInv, PeriodicOnce
<1>. QED
  BY <1>1, <1>2, <1>3

LEMMA OnceHolds == Spec => []OnceInv
<1>1. Init => OnceInv
  BY OnceAtFirst
<1>2. OnceInv /\ [Next]_vars => OnceInv'
  <2>. SUFFICES ASSUME OnceInv, [Next]_vars
                PROVE  ClockInv' /\ ListInv' /\ PassedInv' /\ PeriodicOnce'
    BY TypesKept DEF OnceInv
  <2>1. CASE UNCHANGED vars
    BY <2>1 DEF vars, historyVars, OnceInv, ClockInv, Passing, ListInv, PassedInv,
                PeriodicOnce
  <2>. QED
    BY <2>1, OnceBeginPass, OnceBeginCreate, OnceFollowing, OnceOthers DEF Next
<1>. QED
  BY <1>1, <1>2, PTL DEF Spec

\* A periodic patrol is created at most once for one second, unless the list was
\* loaded in the middle of the pass (Robot::taskRotation, lastTime).
THEOREM AlwaysOnce == Spec => []PeriodicOnce
<1>1. OnceInv => PeriodicOnce
  BY DEF OnceInv
<1>. QED
  BY <1>1, OnceHolds, PTL

---------------------------------------------------------------------------
(* The types.                                                               *)

LEMMA TypesStep ==
  ASSUME TypeOK, [Next]_vars
  PROVE  TypeOK'
<1>1. /\ at \in 0..Len(taskList) /\ taskList \in Seq(Tasks)
      /\ Len(taskList) \in Nat /\ LastTime \in Nat
  <2>1. taskList \in Seq(Tasks)
    BY ListsAreSequences DEF TypeOK
  <2>. QED
    BY <2>1, TimesAssumption DEF TypeOK
<1>2. Following \in 0..Len(taskList)
  BY <1>1 DEF Following
<1>3. CASE BeginPass
  <2>1. (IF taskList = <<>> THEN 0 ELSE 1) \in 0..Len(taskList)
    BY <1>1
  <2>2. created' \subseteq created
    BY <1>3 DEF BeginPass
  <2>3. now \in -1..LastTime
    BY <1>1 DEF TypeOK
  <2>. QED
    BY <1>3, <2>1, <2>2, <2>3 DEF BeginPass, TypeOK
<1>4. CASE PassOver
  BY <1>2, <1>4 DEF PassOver, TypeOK, historyVars
<1>5. CASE BeginCreate
  <2>1. at \in 1..Len(taskList)
    BY <1>1, <1>5 DEF BeginCreate
  <2>2. taskList[at] \in Tasks
    BY <1>1, <2>1, ElementOfSeq
  <2>3. SecondSeen(taskList[at]) \in 0..LastTime
    BY DEF SecondSeen, TypeOK
  <2>4. created' \subseteq Tasks \X (0..LastTime) /\ again' \subseteq Tasks
    BY <1>5, <2>2, <2>3 DEF BeginCreate, TypeOK
  <2>. QED
    BY <1>5, <2>4 DEF BeginCreate, TypeOK
<1>6. CASE EndCreate
  BY <1>2, <1>6 DEF EndCreate, TypeOK, historyVars
<1>7. CASE Tick
  <2>1. now + 1 \in 0..LastTime
    BY <1>1, <1>7 DEF Tick, TypeOK
  <2>. QED
    BY <1>7, <2>1 DEF Tick, TypeOK
<1>8. CASE TasksRefresh
  <2>1. at = 0 /\ taskList' \in SomeList
    BY <1>8 DEF TasksRefresh, Passing
  <2>2. at' \in 0..Len(taskList')
    <3>1. taskList' \in Seq(Tasks) /\ at' = 0
      BY <1>8, <2>1, ListsAreSequences DEF TasksRefresh
    <3>2. Len(taskList') \in Nat
      BY <3>1, LenProperties
    <3>. QED
      BY <3>1, <3>2
  <2>. QED
    BY <1>8, <2>1, <2>2 DEF TasksRefresh, TypeOK, historyVars
<1>9. CASE TasksRefreshUnderPass
  BY <1>9 DEF TasksRefreshUnderPass, TypeOK
<1>10. CASE UNCHANGED vars
  BY <1>10 DEF vars, historyVars, TypeOK
<1>. QED
  BY <1>3, <1>4, <1>5, <1>6, <1>7, <1>8, <1>9, <1>10 DEF Next

\* The types: above all, the thread is never behind the end of the list of
\* patrols, whenever that is loaded again (Robot::taskRotation, m_taskList).
THEOREM TypeCorrect == Spec => []TypeOK
<1>1. Init => TypeOK
  <2>. SUFFICES ASSUME Init PROVE TypeOK
    OBVIOUS
  <2>1. Len(taskList) \in Nat
    BY ListsAreSequences, LenProperties DEF Init
  <2>2. LastTime \in Nat
    BY TimesAssumption
  <2>3. 0 \in 0..Len(taskList) /\ 0 \in 0..LastTime /\ -1 \in -1..LastTime
    BY <2>1, <2>2
  <2>4. <<>> \in SomeList
    BY DEF SomeList
  <2>. QED
    BY <2>3, <2>4 DEF Init, TypeOK
<1>2. TypeOK /\ [Next]_vars => TypeOK'
  BY TypesStep
<1>. QED
  BY <1>1, <1>2, PTL DEF Spec

---------------------------------------------------------------------------
(* Every promised patrol is created.                                        *)

\* The quotient and the remainder are the only ones.
LEMMA QuotientUnique ==
  ASSUME NEW u \in Nat \ {0}, NEW q \in Int, NEW r \in 0..(u - 1)
  PROVE  (u * q + r) \div u = q /\ (u * q + r) % u = r
<1>. DEFINE n == u * q + r
            q2 == n \div u
            r2 == n % u
<1>1. n \in Int
  OBVIOUS
<1>2. q2 \in Int /\ r2 \in 0..(u - 1) /\ n = u * q2 + r2
  <2>. HIDE DEF n
  <2>. QED
    BY <1>1, QuotientRemainder
<1>3. u * q + r = u * q2 + r2
  BY <1>2
<1>. HIDE DEF n, q2, r2
<1>4. u * (q - q2) = r2 - r
  BY <1>2, <1>3
<1>5. r2 - r < u /\ r2 - r > -u
  BY <1>2
<1>6. CASE q - q2 >= 1
  <2>1. u * (q - q2) >= u
    BY <1>2, <1>6
  <2>. QED
    BY <1>2, <1>4, <1>5, <2>1
<1>7. CASE q - q2 <= -1
  <2>1. u * (q - q2) <= -u
    BY <1>2, <1>7
  <2>. QED
    BY <1>2, <1>4, <1>5, <2>1
<1>8. CASE q - q2 = 0
  <2>1. q2 = q /\ r2 = r
    BY <1>2, <1>3, <1>8
  <2>. QED
    BY <2>1 DEF n, q2, r2
<1>. QED
  BY <1>2, <1>6, <1>7, <1>8

\* A time whole periods behind the start has its second of the day, and a
\* multiple of Period days between them.
LEMMA PeriodsApart ==
  ASSUME NEW task \in Tasks, NEW t \in Nat,
         (t - Start[task]) % (Period[task] * Unit[task]) = 0
  PROVE  /\ (UnitOf(task, t) - UnitOf(task, Start[task])) % Period[task] = 0
         /\ SecondOf(task, t) = SecondOf(task, Start[task])
<1>. DEFINE u == Unit[task]
            p == Period[task]
            s == Start[task]
            m == p * u
            k == (t - s) \div m
            b == s \div u
            r == s % u
            c == b + p * k
<1>1. u \in Nat \ {0} /\ p \in Nat \ {0} /\ s \in Nat /\ (t - s) % m = 0
  BY PeriodAssumption, TimesAssumption
<1>. HIDE DEF u, p, s
<1>2. m \in Nat \ {0}
  BY <1>1
<1>3. k \in Int /\ t - s = m * k
  <2>. HIDE DEF m
  <2>1. t - s \in Int
    BY <1>1
  <2>2. k \in Int /\ t - s = m * k + ((t - s) % m)
    BY <1>2, <2>1, QuotientRemainder
  <2>. HIDE DEF k
  <2>. QED
    BY <1>1, <1>2, <2>1, <2>2
<1>4. b \in Int /\ r \in 0..(u - 1) /\ s = u * b + r
  BY <1>1, QuotientRemainder
<1>5. t - s = (p * u) * k
  BY <1>3
<1>. HIDE DEF k, b, r, m
<1>6. c \in Int /\ t = u * c + r
  BY <1>1, <1>3, <1>4, <1>5
<1>7. c - b = p * k
  BY <1>1, <1>3, <1>4
<1>. HIDE DEF c
<1>8. t \div u = c /\ t % u = r
  BY <1>1, <1>4, <1>6, QuotientUnique
<1>9. (p * k) % p = 0
  BY <1>1, <1>3, MultipleRemainder
<1>10. UnitOf(task, t) = c /\ UnitOf(task, Start[task]) = b
  BY <1>8 DEF UnitOf, u, b, s
<1>11. SecondOf(task, t) = r /\ SecondOf(task, Start[task]) = r
  BY <1>8 DEF SecondOf, u, r, s
<1>. QED
  BY <1>7, <1>9, <1>10, <1>11 DEF p

\* A patrol that is promised for the second it is compared with is due.
LEMMA PromisedIsDue ==
  ASSUME NEW task \in Tasks, TimeTypes, Promised(task, SecondSeen(task))
  PROVE  AddTask(task)
<1>. DEFINE t == SecondSeen(task)
<1>1. t \in Nat
  BY DEF SecondSeen, TimeTypes
<1>2. CASE Type[task] = "PERIOD"
  <2>1. /\ t >= Start[task] /\ t <= End[task]
        /\ (t - Start[task]) % (Period[task] * Unit[task]) = 0
    BY <1>2 DEF Promised
  <2>2. /\ (UnitOf(task, t) - UnitOf(task, Start[task])) % Period[task] = 0
        /\ SecondOf(task, t) = SecondOf(task, Start[task])
    <3>. HIDE DEF t
    <3>. QED
      BY <1>1, <2>1, PeriodsApart
  <2>3. t >= Start[task] - Lead
    <3>1. Start[task] \in Nat /\ Lead \in Nat
      BY TimesAssumption
    <3>. HIDE DEF t
    <3>. QED
      BY <1>1, <2>1, <3>1
  <2>. QED
    BY <1>2, <2>1, <2>2, <2>3 DEF AddTask, PeriodDue
<1>3. CASE Type[task] # "PERIOD"
  BY <1>3 DEF AddTask, Promised
<1>. QED
  BY <1>2, <1>3

\* While no creation has outlasted its second, the clock shows the second of
\* the pass; an undisturbed pass goes through the list it began with.
PassInv ==
  /\ Passing /\ ~slow => now = curTime
  /\ at # 0 /\ ~raced => taskList = passList
  /\ passList \in Seq(Tasks)

Wanted(i) ==
  /\ passList[i] \in Viewed
  /\ Promised(passList[i], curTime)
  /\ Type[passList[i]] = "PERIOD" \/ ~slow

LookedAt(i) == at = 0 \/ i < at \/ (i = at /\ creating)

\* Of the patrols the thread has looked at, the promised ones are created.
LookedIsCreated ==
  ~raced =>
    \A i \in 1..Len(passList) :
      Wanted(i) /\ LookedAt(i) => <<passList[i], curTime>> \in created

PromiseInv == PassInv /\ LookedIsCreated

LEMMA PassKept ==
  ASSUME OnceInv, PromiseInv, [Next]_vars
  PROVE  PassInv'
<1>. USE DEF PassInv, Passing
<1>1. creating => at # 0 \/ raced
  BY DEF OnceInv, ClockInv
<1>2. CASE BeginPass
  BY <1>2 DEF BeginPass, OnceInv, TimeTypes
<1>3. CASE PassOver \/ EndCreate
  <2>1. /\ Passing /\ (at # 0 \/ raced) /\ creating' = FALSE
        /\ UNCHANGED <<now, taskList, curTime, slow, raced, passList>>
    BY <1>1, <1>3 DEF PassOver, EndCreate, historyVars, OnceInv, ClockInv
  <2>. QED
    BY <2>1 DEF PromiseInv
<1>4. CASE BeginCreate
  BY <1>4 DEF BeginCreate, PromiseInv
<1>5. CASE Tick
  BY <1>1, <1>5 DEF Tick, PromiseInv
<1>6. CASE TasksRefresh
  BY <1>6 DEF TasksRefresh, historyVars, PromiseInv
<1>7. CASE TasksRefreshUnderPass
  BY <1>7 DEF TasksRefreshUnderPass, PromiseInv
<1>8. CASE UNCHANGED vars
  BY <1>8 DEF vars, historyVars, PromiseInv
<1>. QED
  BY <1>2, <1>3, <1>4, <1>5, <1>6, <1>7, <1>8 DEF Next

\* The thread goes on behind the patrol it is at: that one is created, or has
\* no viewpoint, or is not due, and so not wanted.
LEMMA LookedFollowing ==
  ASSUME OnceInv, PromiseInv, PassOver \/ EndCreate
  PROVE  LookedIsCreated'
<1>1. /\ at # 0 \/ raced
      /\ Passing /\ at' = Following /\ ~creating'
      /\ UNCHANGED <<now, taskList, curTime, slow, raced, created, passList>>
  BY DEF PassOver, EndCreate, historyVars, OnceInv, ClockInv, Passing
<1>. SUFFICES ASSUME ~raced, NEW i \in 1..Len(passList), Wanted(i), LookedAt(i)'
              PROVE  <<passList[i], curTime>> \in created
  BY <1>1 DEF LookedIsCreated, Wanted, Promised
<1>2. at \in 1..Len(taskList) /\ taskList \in Seq(Tasks) /\ (at' = 0 \/ at' = at + 1)
      /\ (at' = 0 => at = Len(taskList))
  BY <1>1 DEF OnceInv, TimeTypes, Following
<1>3. taskList = passList
  BY <1>1 DEF PromiseInv, PassInv
<1>4. i <= at
  BY <1>1, <1>2, <1>3 DEF LookedAt
<1>5. CASE i < at \/ creating
  BY <1>4, <1>5, <1>2 DEF PromiseInv, LookedIsCreated, LookedAt
<1>6. CASE i = at /\ ~creating
  <2>1. ~AddTask(passList[i])
    BY <1>3, <1>6 DEF PassOver, EndCreate, Wanted
  <2>2. passList[i] \in Tasks
    BY <1>2, <1>3, ElementOfSeq
  <2>3. SecondSeen(passList[i]) = curTime
    BY <1>1 DEF SecondSeen, Wanted, PromiseInv, PassInv
  <2>. QED
    BY <2>1, <2>2, <2>3, PromisedIsDue DEF Wanted, OnceInv
<1>. QED
  BY <1>2, <1>4, <1>5, <1>6

LEMMA LookedBeginCreate ==
  ASSUME OnceInv, PromiseInv, BeginCreate
  PROVE  LookedIsCreated'
<1>1. /\ at # 0 /\ created' = created \cup {<<taskList[at], SecondSeen(taskList[at])>>}
      /\ UNCHANGED <<now, taskList, at, curTime, slow, raced, passList>>
  BY DEF BeginCreate
<1>. SUFFICES ASSUME ~raced, NEW i \in 1..Len(passList), Wanted(i), LookedAt(i)'
              PROVE  <<passList[i], curTime>> \in created'
  BY <1>1 DEF LookedIsCreated, Wanted, Promised
<1>2. taskList = passList
  BY <1>1 DEF PromiseInv, PassInv
<1>3. CASE i < at
  BY <1>1, <1>3 DEF PromiseInv, LookedIsCreated, LookedAt
<1>4. CASE i = at
  <2>1. SecondSeen(taskList[at]) = curTime
    BY <1>1, <1>2, <1>4 DEF SecondSeen, Wanted, PromiseInv, PassInv, Passing
  <2>. QED
    BY <1>1, <1>2, <1>4, <2>1
<1>. QED
  BY <1>1, <1>3, <1>4 DEF LookedAt

LEMMA PromiseStep ==
  ASSUME OnceInv, PromiseInv, [Next]_vars
  PROVE  PromiseInv'
<1>1. PassInv'
  BY PassKept
<1>2. LookedIsCreated'
  <2>1. CASE BeginPass
    <3>1. /\ passList' = taskList /\ creating' = creating /\ ~creating
          /\ at' = IF taskList = <<>> THEN 0 ELSE 1
      BY <2>1 DEF BeginPass, Passing
    <3>2. ASSUME NEW i \in 1..Len(passList') PROVE ~LookedAt(i)'
      BY <3>1, <3>2 DEF LookedAt
    <3>. QED
      BY <3>2 DEF LookedIsCreated
  <2>2. CASE PassOver \/ EndCreate
    BY <2>2, LookedFollowing
  <2>3. CASE BeginCreate
    BY <2>3, LookedBeginCreate
  <2>4. CASE Tick
    <3>1. /\ UNCHANGED <<at, curTime, creating, passList, created, raced>>
          /\ ~slow' => ~slow
      BY <2>4 DEF Tick
    <3>. QED
      BY <3>1 DEF PromiseInv, LookedIsCreated, LookedAt, Wanted, Promised
  <2>5. CASE TasksRefresh \/ UNCHANGED vars
    <3>1. UNCHANGED <<at, curTime, creating, passList, created, raced, slow>>
      BY <2>5 DEF TasksRefresh, vars, historyVars
    <3>. QED
      BY <3>1 DEF PromiseInv, LookedIsCreated, LookedAt, Wanted, Promised
  <2>6. CASE TasksRefreshUnderPass
    BY <2>6 DEF TasksRefreshUnderPass, LookedIsCreated
  <2>. QED
    BY <2>1, <2>2, <2>3, <2>4, <2>5, <2>6 DEF Next
<1>. QED
  BY <1>1, <1>2 DEF PromiseInv

\* At the end of an undisturbed pass every periodic patrol promised for its
\* second has been created, and a one-time patrol if no creation outlasted the
\* second (Robot::taskRotation).
THEOREM AlwaysCreated == Spec => []PromisedIsCreated
<1>1. Init => PromiseInv
  <2>. SUFFICES ASSUME Init PROVE PromiseInv
    OBVIOUS
  <2>1. ~Passing /\ passList = <<>> /\ Len(<<>>) = 0 /\ <<>> \in Seq(Tasks)
    BY DEF Init, Passing
  <2>2. \A i \in 1..Len(passList) : FALSE
    BY <2>1
  <2>. QED
    BY <2>1, <2>2 DEF PromiseInv, PassInv, LookedIsCreated, Passing
<1>2. OnceInv /\ PromiseInv /\ [Next]_vars => PromiseInv'
  BY PromiseStep
<1>3. PromiseInv => PromisedIsCreated
  <2>. SUFFICES ASSUME PromiseInv, at = 0, ~raced,
                       NEW task \in Range(passList) \cap Viewed, Promised(task, curTime),
                       Type[task] = "PERIOD" \/ ~slow
                PROVE  <<task, curTime>> \in created
    BY DEF PromisedIsCreated
  <2>1. PICK i \in DOMAIN passList : passList[i] = task
    BY DEF Range
  <2>2. i \in 1..Len(passList)
    BY DEF PromiseInv, PassInv
  <2>. QED
    BY <2>1, <2>2 DEF PromiseInv, LookedIsCreated, Wanted, LookedAt
<1>. QED
  BY <1>1, <1>2, <1>3, OnceHolds, PTL DEF Spec

=============================================================================
