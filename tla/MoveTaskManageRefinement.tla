---------------------- MODULE MoveTaskManageRefinement ----------------------
(***************************************************************************)
(* MoveTaskManage implements PriorityScheduler, for every value of its     *)
(* constants: each step of a thread is a step of the abstract scheduler or *)
(* invisible to it.                                                        *)
(***************************************************************************)
EXTENDS MoveTaskManageScheduler, MoveTaskManageSafety

-----------------------------------------------------------------------------
(* What the operations of a group do to what it has left.                  *)

LEMMA QueueIsPriority == Scheduler!Queue = Priority
BY DEF Scheduler!Queue, Priority, TP_RFID, TP_REGULAR

LEMMA PresentIsQueued == Scheduler!Present = Queued
BY QueueIsPriority DEF Scheduler!Present, Queued, Members, Range

LEMMA RemainingFacts ==
  ASSUME NEW c \in MoveTaskItem
  PROVE  /\ Remaining(clearCommands(c)) = 0
         /\ clearCommands(c).type = c.type
         /\ Remaining(exceptionsExit(c)) = Remaining(c)
         /\ exceptionsExit(c).type = c.type
         /\ initStatusPara(c).type = c.type
         /\ c \in NewItems => Remaining(c) > 0
         /\ Runnable(c) => Remaining(c) \in Nat /\ (Remaining(c) = 0 <=> Emptied(c))
<1>1. Remaining(clearCommands(c)) = 0 /\ clearCommands(c).type = c.type
  BY DEF clearCommands, Remaining, Emptied, MoveTaskItem
<1>2. /\ Remaining(exceptionsExit(c)) = Remaining(c)
      /\ exceptionsExit(c).type = c.type
  BY DEF exceptionsExit, Remaining, Emptied, MoveTaskItem
<1>3. initStatusPara(c).type = c.type
  BY DEF initStatusPara, MoveTaskItem
<1>4. c.cmds \in Seq(CommandKind) /\ c.at \in Nat
  BY DEF MoveTaskItem
<1>5. c.cmds # <<>> => Len(c.cmds) \in Nat /\ Len(c.cmds) > 0
  BY <1>4
<1>6. c \in NewItems => Remaining(c) > 0
  BY <1>5 DEF NewItems, Remaining, Emptied
<1>7. Runnable(c) => Remaining(c) \in Nat /\ (Remaining(c) = 0 <=> Emptied(c))
  <2>1. c.at \in DOMAIN c.cmds => c.at \in 1 .. Len(c.cmds)
    BY <1>4
  <2>2. QED
    BY <1>4, <1>5, <2>1 DEF Runnable, Remaining, Emptied
<1>8. QED
  BY <1>1, <1>2, <1>3, <1>6, <1>7

\* What the mapping makes of a step that changes at most the groups.
LEMMA MapUnchanged ==
  ASSUME UNCHANGED <<rootTasks, item, curTaskItem, lastRunMode>>
  PROVE  UNCHANGED Scheduler!vars
BY DEF Scheduler!vars

LEMMA CancelledIntro ==
  ASSUME TypeOK, NEW P,
         \A q \in Priority : \A k \in DOMAIN rootTasks[q] :
           LET i == rootTasks[q][k]
           IN  /\ \/ Remaining(item'[i]) = Remaining(item[i])
                  \/ q \in P /\ Remaining(item'[i]) = 0
               /\ item'[i].type = item[i].type
  PROVE  Scheduler!Cancelled(P)
<1>1. ASSUME NEW q \in Priority, NEW k \in DOMAIN rootTasks[q]
      PROVE  rootTasks[q][k] \in Items
  BY DEF TypeOK
<1>2. QED
  BY <1>1, QueueIsPriority DEF Scheduler!Cancelled

\* A group is queued in one root only.
LEMMA OneRoot ==
  ASSUME TypeOK, HeadsOnly, NEW q \in Priority, NEW k \in DOMAIN rootTasks[q],
         NEW p \in Priority
  PROVE  /\ rootTasks[q][k] \in Items
         /\ rootTasks[q][k] \in Queued
         /\ rootTasks[q][k] \in Members(p) <=> q = p
<1>1. rootTasks[q][k] \in Items
  BY DEF TypeOK
<1>2. rootTasks[q][k] \in Members(q)
  BY DEF Members, Range
<1>3. rootTasks[q][k] \in Members(p) => q = p
  BY DEF HeadsOnly, Members, Range
<1>4. QED
  BY <1>1, <1>2, <1>3 DEF Queued

\* What emptying the roots in P does to the group at place k of root q.
LEMMA ClearedPlace ==
  ASSUME TypeOK, HeadsOnly, NEW q \in Priority, NEW k \in DOMAIN rootTasks[q],
         NEW P \in SUBSET Priority
  PROVE  LET i == rootTasks[q][k]
             d == clearTaskCommands(P)[i]
         IN  /\ d.type = item[i].type
             /\ q \in P => Remaining(d) = 0
             /\ q \notin P => d = item[i]
<1>. DEFINE i == rootTasks[q][k]
<1>1. i \in Items /\ item[i] \in MoveTaskItem
  BY OneRoot DEF TypeOK
<1>2. (\E p \in P : i \in Members(p)) <=> q \in P
  BY OneRoot
<1>3. QED
  BY <1>1, <1>2, RemainingFacts DEF clearTaskCommands

-----------------------------------------------------------------------------
(* The steps of the producers.                                             *)

LEMMA EnqueueRequests ==
  ASSUME TypeOK, HeadsOnly, NEW p \in Priority, NEW news \in Seq(NewItems),
         NEW base, base = item \/ base = clearTaskCommands({p}),
         Enqueue(p, news, base), UNCHANGED <<curTaskItem, lastRunMode>>
  PROVE  Scheduler!Request(p)
<1>1. news \in Seq(MoveTaskItem)
  <2>1. NewItems \subseteq MoveTaskItem
    BY DEF NewItems
  <2>2. QED
    BY <2>1
<1>2. PICK s \in Seq(Items) : Appended(p, news, base, s)
  BY <1>1, EnqueueFacts DEF TypeOK
<1>. DEFINE n == Len(rootTasks[p])
<1>3. rootTasks[p] \in Seq(Items) /\ n \in Nat
  BY DEF TypeOK
<1>4. rootTasks'[p] = rootTasks[p] \o s
  BY <1>2 DEF Appended, TypeOK
<1>5. /\ n \in 0 .. Len(rootTasks'[p])
      /\ rootTasks[p] = SubSeq(rootTasks'[p], 1, n)
  BY <1>3, <1>4
<1>6. ASSUME NEW k \in n + 1 .. Len(rootTasks'[p])
      PROVE  /\ rootTasks'[p][k] \in Items
             /\ rootTasks'[p][k] \notin Queued
             /\ Remaining(item'[rootTasks'[p][k]]) > 0
  <2>1. k - n \in DOMAIN s /\ rootTasks'[p][k] = s[k - n]
    BY <1>3, <1>4
  <2>2. s[k - n] \in Items /\ s[k - n] \in Range(s)
    BY <2>1 DEF Range
  <2>3. item'[s[k - n]] = news[k - n] /\ news[k - n] \in NewItems
    BY <1>2, <2>1 DEF Appended
  <2>4. QED
    BY <1>2, <2>1, <2>2, <2>3, RemainingFacts DEF Appended, NewItems
<1>7. \A q \in Priority \ {p} : rootTasks'[q] = rootTasks[q]
  BY <1>2 DEF Appended, TypeOK
<1>8. Scheduler!Cancelled({p})
  <2>1. ASSUME NEW q \in Priority, NEW k \in DOMAIN rootTasks[q]
        PROVE  LET i == rootTasks[q][k]
               IN  /\ \/ Remaining(item'[i]) = Remaining(item[i])
                      \/ q \in {p} /\ Remaining(item'[i]) = 0
                   /\ item'[i].type = item[i].type
    <3>. DEFINE i == rootTasks[q][k]
    <3>1. i \in Items /\ i \notin Range(s)
      BY <1>2, OneRoot DEF Appended
    <3>2. item'[i] = base[i]
      BY <1>2, <3>1 DEF Appended
    <3>3. QED
      BY <3>2, ClearedPlace
  <2>2. QED
    BY <2>1, CancelledIntro
<1>9. UNCHANGED <<curTaskItem, lastRunMode>>
  OBVIOUS
<1>10. QED
  <2>. HIDE DEF n
  <2>1. \A k \in n + 1 .. Len(rootTasks'[p]) :
          /\ rootTasks'[p][k] \notin Scheduler!Present
          /\ [i \in Items |-> Remaining(item'[i])][rootTasks'[p][k]] > 0
    BY <1>6, PresentIsQueued
  <2>2. QED
    BY <1>5, <1>7, <1>8, <1>9, <2>1, QueueIsPriority DEF Scheduler!Request

LEMMA ProducerRequests ==
  ASSUME TypeOK, HeadsOnly, UNCHANGED <<curTaskItem, lastRunMode>>,
         NEW p \in Priority,
         Produces(p) \/ (item' = clearTaskCommands({p}) /\ UNCHANGED rootTasks)
  PROVE  Scheduler!Request(p)
<1>1. CASE Produces(p)
  BY <1>1, EnqueueRequests, ProducesNews
<1>2. CASE item' = clearTaskCommands({p}) /\ UNCHANGED rootTasks
  <2>1. Scheduler!Cancelled({p})
    BY <1>2, ClearedPlace, CancelledIntro
  <2>. DEFINE n == Len(rootTasks[p])
  <2>2. /\ n \in 0 .. Len(rootTasks'[p])
        /\ rootTasks[p] = SubSeq(rootTasks'[p], 1, n)
        /\ n + 1 .. Len(rootTasks'[p]) = {}
    <3>1. rootTasks[p] \in Seq(Items) /\ rootTasks'[p] = rootTasks[p]
      BY <1>2 DEF TypeOK
    <3>2. QED
      BY <3>1
  <2>3. \A q \in Priority \ {p} : rootTasks'[q] = rootTasks[q]
    BY <1>2
  <2>. HIDE DEF n
  <2>4. QED
    BY <2>1, <2>2, <2>3, QueueIsPriority DEF Scheduler!Request
<1>3. QED
  BY <1>1, <1>2

-----------------------------------------------------------------------------
(* The scan and the mutex: what the scan has passed over need not go first *)
(* until the mutex is released, and the group it has chosen has its turn.  *)

Held(q) == Scheduler!Waits(q)
             => Scheduler!HeldByMode(q) \/ Scheduler!HeldByObstacle(q)

ScanInv ==
  /\ process.at \in { "scan", "dispatch" } =>
       /\ process.mode = lastRunMode
       /\ \A q \in 0 .. process.pri - 1 : Held(q)
  /\ process.at = "dispatch" =>
       /\ Scheduler!Waits(process.pri)
       /\ process.next = Head(rootTasks[process.pri])
       /\ ~Scheduler!HeldByMode(process.pri)

LEMMA ScanFrame ==
  ASSUME ScanInv, UNCHANGED <<rootTasks, item, lastRunMode, process>>
  PROVE  ScanInv'
BY DEF ScanInv, Held, Scheduler!Waits, Scheduler!HeldByMode,
       Scheduler!HeldByObstacle

LEMMA HeldFrame ==
  ASSUME UNCHANGED <<rootTasks, item, lastRunMode>>, NEW q
  PROVE  /\ Held(q) <=> Held(q)'
         /\ Scheduler!Waits(q) <=> Scheduler!Waits(q)'
         /\ Scheduler!HeldByMode(q) <=> Scheduler!HeldByMode(q)'
BY DEF Held, Scheduler!Waits, Scheduler!HeldByMode, Scheduler!HeldByObstacle

\* The filter of the scan is that of the abstract scheduler.
LEMMA SkipsIsHeld ==
  ASSUME TypeOK, NEW p \in Priority, rootTasks[p] # <<>>,
         process.mode = lastRunMode
  PROVE  /\ Skips(p, Head(rootTasks[p])) =>
               Scheduler!HeldByMode(p) \/ Scheduler!HeldByObstacle(p)
         /\ /\ ~Skips(p, Head(rootTasks[p]))
            /\ process.mode # "NONE_MODE"
            => ~Scheduler!HeldByMode(p)
<1>. DEFINE l == Head(rootTasks[p])
<1>1. l \in Items
  <2>1. rootTasks[p] \in Seq(Items)
    BY DEF TypeOK
  <2>2. QED
    BY <2>1
<1>. HIDE DEF l
<1>2. l \in { i \in Items : item[i].type \in AutomaticType }
        <=> item[l].type \in AutomaticType
  BY <1>1
<1>3. /\ Scheduler!HeldByMode(p) <=>
           \/ lastRunMode \in { "HANDLE_CONTROL_MODE", "NONE_MODE" }
           \/ lastRunMode = "TASK_MODE" /\ p = 2 /\ item[l].type \notin AutomaticType
           \/ lastRunMode = "REMOTE_CONTROL_MODE" /\ p = 4
           \/ lastRunMode = "SCAN_MODE" /\ p # 2
      /\ Scheduler!HeldByObstacle(p) <=>
           p = 4 \/ (p = 2 /\ item[l].type \in AutomaticType)
  BY <1>2 DEF l, Scheduler!HeldByMode, Scheduler!HeldByObstacle,
              Scheduler!Manual, Scheduler!Patrol
<1>4. Skips(p, l) <=>
        \/ process.mode = "TASK_MODE" /\ p = 2 /\ item[l].type \notin AutomaticType
        \/ process.mode = "REMOTE_CONTROL_MODE" /\ p = 4
        \/ process.mode = "SCAN_MODE" /\ p # 2
        \/ process.mode = "HANDLE_CONTROL_MODE"
        \/ ussExcep /\ (p = 4 \/ (p = 2 /\ item[l].type \in AutomaticType))
  BY DEF Skips, SkipsInMode, SkipsAtObstacle, TP_MANUL, TP_REGULAR
<1>5. QED
  BY <1>3, <1>4 DEF l

LEMMA ScanInvIntro ==
  ASSUME process'.mode = lastRunMode', NEW p, process'.pri = p,
         \A q \in 0 .. p - 1 : Held(q)',
         process'.at = "dispatch" =>
           /\ Scheduler!Waits(p)' /\ ~Scheduler!HeldByMode(p)'
           /\ process'.next = Head(rootTasks'[p])
  PROVE  ScanInv'
BY DEF ScanInv, Held, Scheduler!Waits, Scheduler!HeldByMode,
       Scheduler!HeldByObstacle

LEMMA QueryScanStep ==
  ASSUME TypeOK, ScanInv, QueryScan, NEW p, p = process.pri
  PROVE  ScanInv'
<1>. DEFINE l == findLeftMostChild(p)
<1>0. process \in ProcessType /\ p \in Priority /\ process.mode = lastRunMode
  BY DEF TypeOK, ProcessType, QueryScan, ProcessAt, ScanInv
<1>1. UNCHANGED <<rootTasks, item, lastRunMode>>
  BY DEF QueryScan, others
<1>2. /\ l # None <=> rootTasks[p] # <<>>
      /\ l # None => l = Head(rootTasks[p])
  <2>1. rootTasks[p] \in Seq(Items)
    BY <1>0 DEF TypeOK
  <2>2. rootTasks[p] # <<>> => Head(rootTasks[p]) \in Items
    BY <2>1
  <2>3. QED
    BY <2>2, ConstantsOK DEF findLeftMostChild
<1>3. \A q \in 0 .. p - 1 : Held(q)
  BY DEF ScanInv, QueryScan, ProcessAt
<1>4. \/ process' = At("unlocked")
      \/ /\ process' = [process EXCEPT !.at = "dispatch", !.next = l]
         /\ process.mode # "NONE_MODE" /\ l # None /\ ~Skips(p, l)
      \/ /\ process' = [process EXCEPT !.pri = p + 1]
         /\ l = None \/ Skips(p, l)
  BY DEF QueryScan
<1>. HIDE DEF l
<1>5. CASE process' = At("unlocked")
  BY <1>5 DEF ScanInv, At
<1>6. CASE /\ process' = [process EXCEPT !.at = "dispatch", !.next = l]
           /\ process.mode # "NONE_MODE" /\ l # None /\ ~Skips(p, l)
  <2>1. /\ process'.pri = p /\ process'.next = l
        /\ process'.mode = process.mode
    BY <1>0, <1>6 DEF ProcessType
  <2>2. Scheduler!Waits(p) /\ ~Scheduler!HeldByMode(p)
    BY <1>0, <1>2, <1>6, SkipsIsHeld DEF Scheduler!Waits
  <2>3. Scheduler!Waits(p)' /\ ~Scheduler!HeldByMode(p)'
    BY <1>1, <2>2, HeldFrame
  <2>4. \A q \in 0 .. p - 1 : Held(q)'
    BY <1>1, <1>3, HeldFrame
  <2>5. Head(rootTasks'[p]) = l
    BY <1>1, <1>2, <1>6
  <2>6. QED
    BY <1>0, <1>1, <2>1, <2>3, <2>4, <2>5, ScanInvIntro
<1>7. CASE /\ process' = [process EXCEPT !.pri = p + 1]
           /\ l = None \/ Skips(p, l)
  <2>0. PICK n : n = p + 1
    OBVIOUS
  <2>1. /\ process'.pri = n /\ process'.at = "scan"
        /\ process'.mode = process.mode
    BY <1>0, <1>7, <2>0 DEF ProcessType, QueryScan, ProcessAt
  <2>2. Held(p)
    BY <1>0, <1>2, <1>7, SkipsIsHeld DEF Held, Scheduler!Waits
  <2>3. p \in Int
    BY <1>0 DEF Priority, TP_RFID, TP_REGULAR
  <2>4. \A q \in 0 .. n - 1 : q \in 0 .. p - 1 \/ q = p
    BY <2>0, <2>3
  <2>5. \A q \in 0 .. n - 1 : Held(q)'
    BY <1>1, <1>3, <2>2, <2>4, HeldFrame
  <2>6. process'.mode = lastRunMode' /\ process'.at # "dispatch"
    BY <1>0, <1>1, <2>1
  <2>7. QED
    BY <2>1, <2>5, <2>6, ScanInvIntro
<1>8. QED
  BY <1>4, <1>5, <1>6, <1>7

LEMMA ScanStep ==
  ASSUME TypeOK, ScanInv, [Next]_vars
  PROVE  ScanInv'
<1>1. CASE Boot \/ ProcessReap \/ LockCheck \/ Start
  <2>1. process'.at \notin { "scan", "dispatch" }
    BY <1>1 DEF Boot, ProcessReap, LockCheck, Start, At
  <2>2. QED
    BY <2>1 DEF ScanInv
<1>2. CASE QueryMode
  <2>1. /\ process'.at = "scan" /\ process'.mode = runMode
        /\ process'.pri = 0 /\ lastRunMode' = runMode
    BY <1>2 DEF QueryMode, At
  <2>2. 0 .. process'.pri - 1 = {}
    BY <2>1
  <2>3. QED
    BY <2>1, <2>2 DEF ScanInv
<1>3. CASE QueryScan
  BY <1>3, QueryScanStep
<1>4. ASSUME NEW i \in Items, NEW r \in { "ST_GOING", "ST_DONE" }, RunCurrent(i, r)
      PROVE  ScanInv'
  BY <1>4 DEF RunCurrent, At, ScanInv
<1>5. CASE ProducerStep
  BY <1>5 DEF ProducerStep, MutexFree, ScanInv
<1>6. CASE AgeStep
  BY <1>6 DEF AgeStep, MutexFree, ScanInv
<1>7. CASE QuietStep
  BY <1>7, ScanFrame DEF QuietStep
<1>8. CASE UNCHANGED vars
  BY <1>8, ScanFrame DEF vars
<1>9. QED
  BY <1>1, <1>2, <1>3, <1>4, <1>5, <1>6, <1>7, <1>8, OtherThreads DEF Next, Process

-----------------------------------------------------------------------------
(* curIter is never past the end of the commands.                          *)

Within(c) == c.at <= Len(c.cmds)

AtInv == \A i \in Items : Within(item[i])

LEMMA WithinFacts ==
  /\ \A c \in NewItems : Within(c)
  /\ Within(Blank)
  /\ \A c \in MoveTaskItem :
       /\ Within(clearCommands(c))
       /\ Within(c) => Within(initStatusPara(c)) /\ Within(exceptionsExit(c))
       /\ \A a, r, e :
            Within(c) => Within([c EXCEPT !.active = a, !.ret = r, !.except = e])
<1>1. \A c \in MoveTaskItem : c.cmds \in Seq(CommandKind) /\ c.at \in Nat
  BY DEF MoveTaskItem
<1>2. \A c \in NewItems : Within(c)
  BY <1>1 DEF NewItems, Within
<1>3. Within(Blank)
  BY DEF Blank, NewItem, Within
<1>4. ASSUME NEW c \in MoveTaskItem
      PROVE  /\ Within(clearCommands(c))
             /\ Within(c) => Within(exceptionsExit(c))
             /\ \A a, r, e :
                  Within(c) => Within([c EXCEPT !.active = a, !.ret = r, !.except = e])
  BY DEF clearCommands, exceptionsExit, MoveTaskItem, Within
<1>5. ASSUME NEW c \in MoveTaskItem, Within(c) PROVE Within(initStatusPara(c))
  <2>1. CASE Emptied(c)
    BY <1>5, <2>1 DEF initStatusPara
  <2>2. CASE ~Emptied(c)
    <3>1. /\ initStatusPara(c).at = 1
          /\ initStatusPara(c).cmds = c.cmds
      BY <2>2 DEF initStatusPara, MoveTaskItem
    <3>2. Len(c.cmds) >= 1
      BY <1>1, <2>2 DEF Emptied
    <3>3. QED
      BY <3>1, <3>2 DEF Within
  <2>3. QED
    BY <2>1, <2>2
<1>6. QED
  BY <1>2, <1>3, <1>4, <1>5

LEMMA ClearWithin ==
  ASSUME TypeOK, AtInv, NEW i \in Items
  PROVE  /\ \A P : Within(clearTaskCommands(P)[i])
         /\ \A p : Within(clearTaskCommandsExceptPatroPlan(p)[i])
BY WithinFacts DEF AtInv, TypeOK, clearTaskCommands, clearTaskCommandsExceptPatroPlan

LEMMA ProducesWithin ==
  ASSUME TypeOK, AtInv, NEW p \in Priority, Produces(p)
  PROVE  AtInv'
<1>1. PICK news \in Seq(NewItems) :
        Enqueue(p, news, item) \/ Enqueue(p, news, clearTaskCommands({p}))
  BY ProducesNews
<1>2. news \in Seq(MoveTaskItem)
  <2>1. NewItems \subseteq MoveTaskItem
    BY DEF NewItems
  <2>2. QED
    BY <2>1
<1>3. ASSUME NEW base, Enqueue(p, news, base), \A i \in Items : Within(base[i])
      PROVE  AtInv'
  <2>1. PICK s \in Seq(Items) : Appended(p, news, base, s)
    BY <1>2, <1>3, EnqueueFacts DEF TypeOK
  <2>2. ASSUME NEW i \in Items PROVE Within(item'[i])
    <3>1. CASE i \in Range(s)
      <4>1. PICK k \in DOMAIN s : s[k] = i
        BY <3>1 DEF Range
      <4>2. item'[i] = news[k] /\ news[k] \in NewItems
        BY <2>1, <4>1 DEF Appended
      <4>3. QED
        BY <4>2, WithinFacts
    <3>2. CASE i \notin Range(s)
      BY <1>3, <2>1, <3>2 DEF Appended
    <3>3. QED
      BY <3>1, <3>2
  <2>3. QED
    BY <2>2 DEF AtInv
<1>4. QED
  BY <1>1, <1>3, ClearWithin DEF AtInv

LEMMA AgeWithin ==
  ASSUME TypeOK, AtInv, NEW i \in Members(TP_REGULAR),
         CancelWith(clearMoveTask(i), i)
  PROVE  AtInv'
<1>1. i \in Items
  BY Priorities, MembersAreItems
<1>2. ASSUME NEW j \in Items
      PROVE  Within(item'[j])
  <2>1. /\ clearMoveTask(i) \in [Items -> MoveTaskItem]
        /\ \/ clearMoveTask(i)[j] = item[j]
           \/ clearMoveTask(i)[j] = clearCommands(item[j])
    BY <1>1, ClearMoveTaskKeeps
  <2>2. /\ clearMoveTask(i)[j] \in MoveTaskItem
        /\ Within(clearMoveTask(i)[j])
    BY <2>1, WithinFacts DEF AtInv, TypeOK
  <2>3. \/ item'[j] = clearMoveTask(i)[j]
        \/ item'[j] = exceptionsExit(clearMoveTask(i)[j])
    BY <1>1, <2>1, CancelWithFacts
  <2>4. QED
    BY <2>2, <2>3, WithinFacts
<1>3. QED
  BY <1>2 DEF AtInv

LEMMA RunWithin ==
  ASSUME TypeOK, AtInv, NEW i \in Items, NEW r \in { "ST_GOING", "ST_DONE" },
         Run(i, r)
  PROVE  AtInv'
<1>. DEFINE c == item[i]
<1>1. c \in MoveTaskItem /\ c.cmds \in Seq(CommandKind) /\ c.at \in Nat
  BY DEF TypeOK, MoveTaskItem
<1>2. ASSUME NEW d \in MoveTaskItem, Exec(i, d, r), Within(d)
      PROVE  AtInv'
  <2>1. item' = [item EXCEPT ![i] = [d EXCEPT !.ret = r]]
    BY <1>2 DEF Exec
  <2>2. Within([d EXCEPT !.ret = r])
    BY <1>2 DEF Within, MoveTaskItem
  <2>3. QED
    BY <2>1, <2>2 DEF AtInv, TypeOK
<1>3. CASE Exec(i, [c EXCEPT !.active = @ \/ (c.at = 1 /\ c.ret = "ST_SLEEP")], r)
  <2>. DEFINE d == [c EXCEPT !.active = @ \/ (c.at = 1 /\ c.ret = "ST_SLEEP")]
  <2>1. d \in MoveTaskItem /\ d.at = c.at /\ d.cmds = c.cmds
    BY <1>1 DEF MoveTaskItem
  <2>2. Within(d)
    BY <2>1 DEF AtInv, Within
  <2>3. QED
    BY <1>2, <1>3, <2>1, <2>2
<1>4. CASE Exec(i, [c EXCEPT !.at = @ + 1], r) /\ c.at < Len(c.cmds)
  <2>. DEFINE d == [c EXCEPT !.at = @ + 1]
  <2>1. d \in MoveTaskItem /\ d.at = c.at + 1 /\ d.cmds = c.cmds
    BY <1>1 DEF MoveTaskItem
  <2>2. Within(d)
    <3>1. c.at + 1 <= Len(c.cmds)
      BY <1>1, <1>4
    <3>2. QED
      BY <2>1, <3>1 DEF Within
  <2>3. QED
    BY <1>2, <1>4, <2>1, <2>2
<1>5. CASE item' = [item EXCEPT ![i] = clearCommands([c EXCEPT !.active = FALSE])]
  <2>1. [c EXCEPT !.active = FALSE] \in MoveTaskItem
    BY <1>1 DEF MoveTaskItem
  <2>2. QED
    BY <1>5, <2>1, WithinFacts DEF AtInv, TypeOK
<1>6. QED
  BY <1>3, <1>4, <1>5 DEF Run

LEMMA AtStep ==
  ASSUME TypeOK, AtInv, [Next]_vars
  PROVE  AtInv'
<1>1. CASE Boot
  BY <1>1, Priorities, ProducersProduce, ProducesWithin DEF Boot, AtInv
<1>2. CASE ProcessReap
  BY <1>2, WithinFacts DEF ProcessReap, AtInv, TypeOK
<1>3. CASE LockCheck
  BY <1>3, ClearWithin DEF LockCheck, AtInv
<1>4. CASE QueryMode
  <2>. DEFINE cleared == clearTaskCommands({TP_MANUL, TP_PLAN, TP_REGULAR})
  <2>1. cleared \in [Items -> MoveTaskItem] /\ \A i \in Items : Within(cleared[i])
    BY ClearType, ClearWithin DEF TypeOK
  <2>2. \/ item' = item
        \/ item' = cleared
        \/ item' = [cleared EXCEPT ![curTaskItem] = exceptionsExit(@)]
    BY <1>4 DEF QueryMode, CancelWith
  <2>. HIDE DEF cleared
  <2>3. QED
    BY <2>1, <2>2, WithinFacts DEF AtInv
<1>5. CASE QueryScan
  BY <1>5 DEF QueryScan, AtInv
<1>6. CASE Start
  BY <1>6, WithinFacts DEF Start, AtInv, TypeOK
<1>7. ASSUME NEW i \in Items, NEW r \in { "ST_GOING", "ST_DONE" }, RunCurrent(i, r)
      PROVE  AtInv'
  BY <1>7, RunWithin DEF RunCurrent
<1>8. CASE ProducerStep
  BY <1>8, ProducesWithin, ClearWithin DEF ProducerStep, AtInv
<1>9. CASE AgeStep
  BY <1>9, AgeWithin DEF AgeStep
<1>10. CASE QuietStep
  BY <1>10 DEF QuietStep, AtInv
<1>11. CASE UNCHANGED vars
  BY <1>11 DEF vars, AtInv
<1>12. QED
  BY <1>1, <1>2, <1>3, <1>4, <1>5, <1>6, <1>7, <1>8, <1>9, <1>10, <1>11,
     OtherThreads
     DEF Next, Process

-----------------------------------------------------------------------------
(* The steps of the process thread.                                        *)

\* The oldest group of the root whose head is i.
LEMMA AtHead ==
  ASSUME TypeOK, NEW p \in Priority, rootTasks[p] # <<>>
  PROVE  /\ rootTasks[p] \in Seq(Items)
         /\ 1 \in DOMAIN rootTasks[p]
         /\ Head(rootTasks[p]) = rootTasks[p][1]
         /\ Head(rootTasks[p]) \in Items
<1>1. rootTasks[p] \in Seq(Items)
  BY DEF TypeOK
<1>2. QED
  BY <1>1

LEMMA ReapLeaves ==
  ASSUME TypeOK, HeadsOnly, ProcessReap
  PROVE  (\E p \in Priority : Scheduler!Leave(p)) \/ UNCHANGED Scheduler!vars
<1>1. CASE ~Zombie
  BY <1>1, MapUnchanged DEF ProcessReap
<1>2. CASE Zombie
  <2>. DEFINE i == curTaskItem
  <2>1. i \in Items /\ Emptied(item[i])
    BY <1>2 DEF Zombie, TypeOK
  <2>2. PICK p \in Priority : rootTasks[p] # <<>> /\ Head(rootTasks[p]) = i
    BY <1>2 DEF Zombie, HeadsOnly, IsHead
  <2>3. /\ rootTasks' = [q \in Priority |-> remove(rootTasks[q], i)]
        /\ item' = [item EXCEPT ![i] = Blank]
        /\ curTaskItem' = None /\ lastRunMode' = lastRunMode
    BY <1>2 DEF ProcessReap
  <2>4. remove(rootTasks[p], i) = Tail(rootTasks[p])
    <3>1. \A j, k \in DOMAIN rootTasks[p] : rootTasks[p][j] = rootTasks[p][k] => j = k
      BY DEF HeadsOnly
    <3>2. QED
      BY <2>2, <3>1, AtHead, RemoveHead
  <2>5. ASSUME NEW q \in Priority, q # p
        PROVE  remove(rootTasks[q], i) = rootTasks[q]
    <3>1. i \notin Members(q)
      BY <2>2, <2>5, AtHead, OneRoot
    <3>2. QED
      BY <3>1, RemoveElsewhere DEF Members
  <2>6. rootTasks' = [rootTasks EXCEPT ![p] = Tail(@)]
    <3>. HIDE DEF i
    <3>1. rootTasks = [q \in Priority |-> rootTasks[q]]
      BY DEF TypeOK
    <3>2. QED
      BY <2>3, <2>4, <2>5, <3>1
  <2>7. Remaining(Blank) = 0 /\ Remaining(item[i]) = 0
    BY <2>1 DEF Remaining, Emptied, Blank, NewItem
  <2>8. \A j \in Items : Remaining(item'[j]) = Remaining(item[j])
    BY <2>1, <2>3, <2>7 DEF TypeOK
  <2>9. \A j \in Items \ {i} : item'[j] = item[j]
    BY <2>1, <2>3 DEF TypeOK
  <2>10. Scheduler!Leave(p)
    <3>1. [j \in Items |-> Remaining(item'[j])] = [j \in Items |-> Remaining(item[j])]
      BY <2>8
    <3>2. \A j \in Items \ {i} :
            j \in { k \in Items : item'[k].type \in AutomaticType }
              <=> j \in { k \in Items : item[k].type \in AutomaticType }
      BY <2>9
    <3>3. [j \in Items |-> Remaining(item[j])][i] = 0
      BY <2>1, <2>7
    <3>4. QED
      BY <2>2, <2>3, <2>6, <3>1, <3>2, <3>3 DEF Scheduler!Leave, Scheduler!Waits
  <2>11. QED
    BY <2>10
<1>3. QED
  BY <1>1, <1>2

LEMMA LockCheckLocks ==
  ASSUME TypeOK, HeadsOnly, LockCheck
  PROVE  Scheduler!Lock \/ UNCHANGED Scheduler!vars
<1>1. CASE ~motorLock
  BY <1>1, MapUnchanged DEF LockCheck
<1>2. CASE motorLock
  <2>1. /\ item' = clearTaskCommandsExceptPatroPlan(TP_MANUL)
        /\ curTaskItem' = None /\ UNCHANGED <<rootTasks, lastRunMode>>
    BY <1>2 DEF LockCheck
  <2>2. ASSUME NEW q \in Priority, NEW k \in DOMAIN rootTasks[q]
        PROVE  LET i == rootTasks[q][k]
               IN  /\ \/ Remaining(item'[i]) = Remaining(item[i])
                      \/ q \in {Scheduler!Manual} /\ Remaining(item'[i]) = 0
                   /\ item'[i].type = item[i].type
    <3>. DEFINE i == rootTasks[q][k]
    <3>1. i \in Items /\ (i \in Members(TP_MANUL) <=> q = TP_MANUL)
      BY OneRoot, Priorities
    <3>2. item[i] \in MoveTaskItem
      BY <3>1 DEF TypeOK
    <3>3. item'[i] = item[i] \/ (q = TP_MANUL /\ item'[i] = clearCommands(item[i]))
      BY <2>1, <3>1 DEF clearTaskCommandsExceptPatroPlan
    <3>4. QED
      BY <3>2, <3>3, RemainingFacts DEF Scheduler!Manual, TP_MANUL
  <2>3. Scheduler!Cancelled({Scheduler!Manual})
    BY <2>2, CancelledIntro
  <2>4. QED
    BY <2>1, <2>3 DEF Scheduler!Lock
<1>3. QED
  BY <1>1, <1>2

LEMMA QueryModeChanges ==
  ASSUME TypeOK, HeadsOnly, QueryMode
  PROVE  Scheduler!ChangeMode \/ UNCHANGED Scheduler!vars
<1>1. CASE runMode = lastRunMode
  BY <1>1, MapUnchanged DEF QueryMode
<1>2. CASE runMode # lastRunMode
  <2>. DEFINE P == {TP_MANUL, TP_PLAN, TP_REGULAR}
              cleared == clearTaskCommands(P)
  <2>1. /\ curTaskItem' = None /\ lastRunMode' = runMode
        /\ UNCHANGED rootTasks
        /\ \/ item' = cleared
           \/ item' = [cleared EXCEPT ![curTaskItem] = exceptionsExit(@)]
    BY <1>2 DEF QueryMode, CancelWith
  <2>2. P \subseteq Priority
    BY Priorities
  <2>3. cleared \in [Items -> MoveTaskItem]
    BY ClearType DEF TypeOK
  <2>4. ASSUME NEW i \in Items
        PROVE  /\ Remaining(item'[i]) = Remaining(cleared[i])
               /\ item'[i].type = cleared[i].type
    <3>1. cleared[i] \in MoveTaskItem
      BY <2>3
    <3>. HIDE DEF cleared
    <3>2. item'[i] = cleared[i] \/ item'[i] = exceptionsExit(cleared[i])
      BY <2>1, <2>3
    <3>3. QED
      BY <3>1, <3>2, RemainingFacts
  <2>5. ASSUME NEW q \in Priority, NEW k \in DOMAIN rootTasks[q]
        PROVE  LET i == rootTasks[q][k]
               IN  /\ i \in Items
                   /\ q \in P => Remaining(item'[i]) = 0
                   /\ q \notin P => Remaining(item'[i]) = Remaining(item[i])
                   /\ item'[i].type = item[i].type
    BY <2>2, <2>4, ClearedPlace, OneRoot
  <2>6. /\ P \cap {0, Scheduler!Charge} = {}
        /\ Priority \ {0, Scheduler!Charge} = P
    BY DEF TP_MANUL, TP_PLAN, TP_REGULAR, Scheduler!Charge, Priority, TP_RFID
  <2>. HIDE DEF P, cleared
  <2>7. Scheduler!Cancelled(Scheduler!Queue)
    BY <2>5, CancelledIntro, QueueIsPriority
  <2>8. \A q \in Priority \ {0, Scheduler!Charge} : \A k \in DOMAIN rootTasks[q] :
          [i \in Items |-> Remaining(item'[i])][rootTasks[q][k]] = 0
    BY <2>5, <2>6
  <2>9. \A q \in {0, Scheduler!Charge} : \A k \in DOMAIN rootTasks[q] :
          [i \in Items |-> Remaining(item'[i])][rootTasks[q][k]]
            = [i \in Items |-> Remaining(item[i])][rootTasks[q][k]]
    <3>1. {0, Scheduler!Charge} \subseteq Priority
      BY DEF Scheduler!Charge, Priority, TP_RFID, TP_REGULAR
    <3>2. QED
      BY <2>5, <2>6, <3>1
  <2>10. QED
    BY <1>2, <2>1, <2>7, <2>8, <2>9, QueueIsPriority DEF Scheduler!ChangeMode
<1>3. QED
  BY <1>1, <1>2

\* A patrol past its age is cancelled, as a request for its queue may do.
LEMMA AgeCancels ==
  ASSUME TypeOK, HeadsOnly, AgeStep
  PROVE  Scheduler!Request(TP_REGULAR)
<1>1. PICK i \in Members(TP_REGULAR) : CancelWith(clearMoveTask(i), i)
  BY DEF AgeStep
<1>2. i \in Items /\ TP_REGULAR \in Priority
  BY Priorities, MembersAreItems
<1>3. UNCHANGED <<rootTasks, curTaskItem, lastRunMode>>
  BY DEF AgeStep
<1>4. ASSUME NEW q \in Priority, NEW k \in DOMAIN rootTasks[q]
      PROVE  LET j == rootTasks[q][k]
             IN  /\ \/ Remaining(item'[j]) = Remaining(item[j])
                    \/ q \in {TP_REGULAR} /\ Remaining(item'[j]) = 0
                 /\ item'[j].type = item[j].type
  <2>. DEFINE j == rootTasks[q][k]
  <2>1. j \in Items /\ (j \in Members(TP_REGULAR) <=> q = TP_REGULAR)
    BY <1>2, OneRoot
  <2>2. item[j] \in MoveTaskItem
    BY <2>1 DEF TypeOK
  <2>3. /\ clearMoveTask(i) \in [Items -> MoveTaskItem]
        /\ \/ clearMoveTask(i)[j] = item[j]
           \/ clearMoveTask(i)[j] = clearCommands(item[j])
        /\ j \notin MoveTaskOf(i) => clearMoveTask(i)[j] = item[j]
    BY <1>2, <2>1, ClearMoveTaskKeeps
  <2>4. \/ item'[j] = clearMoveTask(i)[j]
        \/ item'[j] = exceptionsExit(clearMoveTask(i)[j])
    BY <1>1, <1>2, <2>1, <2>3, CancelWithFacts
  <2>5. j \in MoveTaskOf(i) => q = TP_REGULAR
    BY <2>1 DEF MoveTaskOf
  <2>. HIDE DEF j
  <2>6. clearMoveTask(i)[j] \in MoveTaskItem
    BY <2>1, <2>3
  <2>7. /\ Remaining(item'[j]) = Remaining(clearMoveTask(i)[j])
        /\ item'[j].type = clearMoveTask(i)[j].type
    BY <2>4, <2>6, RemainingFacts
  <2>8. /\ \/ Remaining(item'[j]) = Remaining(item[j])
           \/ q = TP_REGULAR /\ Remaining(item'[j]) = 0
        /\ item'[j].type = item[j].type
    BY <2>2, <2>3, <2>5, <2>7, RemainingFacts
  <2>9. QED
    BY <2>8 DEF j
<1>5. Scheduler!Cancelled({TP_REGULAR})
  BY <1>4, CancelledIntro
<1>. DEFINE n == Len(rootTasks[TP_REGULAR])
<1>6. /\ n \in 0 .. Len(rootTasks'[TP_REGULAR])
      /\ rootTasks[TP_REGULAR] = SubSeq(rootTasks'[TP_REGULAR], 1, n)
      /\ n + 1 .. Len(rootTasks'[TP_REGULAR]) = {}
  <2>1. /\ rootTasks[TP_REGULAR] \in Seq(Items)
        /\ rootTasks'[TP_REGULAR] = rootTasks[TP_REGULAR]
    BY <1>2, <1>3 DEF TypeOK
  <2>2. QED
    BY <2>1
<1>7. \A q \in Priority \ {TP_REGULAR} : rootTasks'[q] = rootTasks[q]
  BY <1>3
<1>. HIDE DEF n
<1>8. QED
  BY <1>3, <1>5, <1>6, <1>7, QueueIsPriority DEF Scheduler!Request

\* The group the scan has chosen has its turn.
LEMMA DispatchIsTurn ==
  ASSUME TypeOK, ScanInv, process.at = "dispatch", NEW p, p = process.pri
  PROVE  /\ p \in Priority
         /\ rootTasks[p] # <<>>
         /\ process.next = Head(rootTasks[p])
         /\ process.next \in Items
         /\ Scheduler!Turn(p)
<1>1. p \in Priority
  BY DEF TypeOK
<1>2. /\ Scheduler!Waits(p) /\ ~Scheduler!HeldByMode(p)
      /\ process.next = Head(rootTasks[p])
      /\ \A q \in 0 .. p - 1 : Held(q)
  BY DEF ScanInv
<1>3. rootTasks[p] # <<>> /\ process.next \in Items
  BY <1>1, <1>2, AtHead DEF Scheduler!Waits
<1>4. Scheduler!Turn(p)
  BY <1>2 DEF Scheduler!Turn, Held
<1>5. QED
  BY <1>1, <1>2, <1>3, <1>4

\* Only group i is written: what the abstract scheduler sees of the groups.
LEMMA OneItem ==
  ASSUME TypeOK, NEW i \in Items, NEW d \in MoveTaskItem,
         item' = [item EXCEPT ![i] = d], d.type = item[i].type
  PROVE  /\ [j \in Items |-> Remaining(item'[j])][i] = Remaining(d)
         /\ \A j \in Items \ {i} :
              [k \in Items |-> Remaining(item'[k])][j]
                = [k \in Items |-> Remaining(item[k])][j]
         /\ { j \in Items : item'[j].type \in AutomaticType }
              = { j \in Items : item[j].type \in AutomaticType }
         /\ Remaining(d) = Remaining(item[i]) =>
              [j \in Items |-> Remaining(item'[j])]
                = [j \in Items |-> Remaining(item[j])]
<1>1. item'[i] = d /\ \A j \in Items \ {i} : item'[j] = item[j]
  BY DEF TypeOK
<1>2. \A j \in Items : item'[j].type = item[j].type
  BY <1>1
<1>3. Remaining(d) = Remaining(item[i]) =>
        \A j \in Items : Remaining(item'[j]) = Remaining(item[j])
  BY <1>1
<1>4. QED
  BY <1>1, <1>2, <1>3

LEMMA StartBegins ==
  ASSUME TypeOK, AtInv, ScanInv, Start
  PROVE  \E p \in Priority : Scheduler!Begin(p)
<1>1. PICK p : p = process.pri
  OBVIOUS
<1>0. PICK i : i = process.next
  OBVIOUS
<1>. DEFINE c == item[i]
            d == initStatusPara(c)
<1>2. /\ p \in Priority /\ Scheduler!Turn(p)
      /\ i = Head(rootTasks[p]) /\ i \in Items
  BY <1>0, <1>1, DispatchIsTurn DEF Start, ProcessAt
<1>3. /\ item' = [item EXCEPT ![i] = d] /\ curTaskItem' = i
      /\ UNCHANGED <<rootTasks, lastRunMode>>
  BY <1>0, <1>2 DEF Start, TypeOK
<1>4. c \in MoveTaskItem /\ d \in MoveTaskItem /\ d.type = c.type
  BY <1>2, OperationType, RemainingFacts DEF TypeOK
<1>5. IF Remaining(c) = 0 THEN Remaining(d) = 0 ELSE Remaining(d) >= Remaining(c)
  <2>1. c.cmds \in Seq(CommandKind) /\ c.at \in Nat /\ Len(c.cmds) \in Nat
    BY <1>4 DEF MoveTaskItem
  <2>2. c.at <= Len(c.cmds)
    BY <1>2 DEF AtInv, Within
  <2>3. CASE Emptied(c)
    BY <2>3 DEF initStatusPara, Remaining
  <2>4. CASE ~Emptied(c)
    <3>1. d.at = 1 /\ d.cmds = c.cmds
      BY <1>4, <2>4 DEF initStatusPara, MoveTaskItem
    <3>2. Remaining(d) = Len(c.cmds)
      BY <2>1, <2>4, <3>1 DEF Remaining, Emptied
    <3>3. /\ Remaining(c) \in Int /\ Remaining(c) <= Len(c.cmds)
          /\ Remaining(c) > 0
      <4>1. Len(c.cmds) > 0
        BY <2>1, <2>4 DEF Emptied
      <4>2. QED
        BY <2>1, <2>2, <2>4, <4>1 DEF Remaining
    <3>4. QED
      BY <3>2, <3>3
  <2>5. QED
    BY <2>3, <2>4
<1>6. [j \in Items |-> Remaining(item[j])][i] = Remaining(c)
  BY <1>2
<1>7. /\ [j \in Items |-> Remaining(item'[j])][i] = Remaining(d)
      /\ \A j \in Items \ {i} :
           [k \in Items |-> Remaining(item'[k])][j]
             = [k \in Items |-> Remaining(item[k])][j]
      /\ { j \in Items : item'[j].type \in AutomaticType }
           = { j \in Items : item[j].type \in AutomaticType }
  <2>1. /\ i \in Items /\ d \in MoveTaskItem /\ d.type = item[i].type
        /\ item' = [item EXCEPT ![i] = d]
    BY <1>2, <1>3, <1>4
  <2>. HIDE DEF c, d
  <2>2. QED
    BY <2>1, OneItem
<1>. HIDE DEF c, d
<1>8. Scheduler!Begin(p)
  BY <1>2, <1>3, <1>5, <1>6, <1>7 DEF Scheduler!Begin
<1>9. QED
  BY <1>2, <1>8

LEMMA RunWorks ==
  ASSUME TypeOK, RunHasCommand, ScanInv, NEW i \in Items,
         NEW r \in { "ST_GOING", "ST_DONE" }, RunCurrent(i, r)
  PROVE  (\E p \in Priority : Scheduler!Work(p)) \/ UNCHANGED Scheduler!vars
<1>1. PICK p : p = process.pri
  OBVIOUS
<1>. DEFINE c == item[i]
<1>2. /\ p \in Priority /\ Scheduler!Turn(p) /\ i = Head(rootTasks[p])
      /\ i = curTaskItem /\ curTaskItem' = i
      /\ UNCHANGED <<rootTasks, lastRunMode>>
      /\ Run(i, r)
  BY <1>1, DispatchIsTurn DEF RunCurrent, ProcessAt
<1>3. c \in MoveTaskItem /\ c.at \in 1 .. Len(c.cmds) /\ Len(c.cmds) \in Nat
  <2>1. c \in MoveTaskItem /\ c.cmds \in Seq(CommandKind)
    BY DEF TypeOK, MoveTaskItem
  <2>2. c.at \in DOMAIN c.cmds
    BY DEF RunHasCommand, RunCurrent, ProcessAt
  <2>3. QED
    BY <2>1, <2>2
<1>4. Remaining(c) = Len(c.cmds) - c.at + 1 /\ ~Emptied(c)
  BY <1>3 DEF Remaining, Emptied
<1>5. ASSUME NEW d \in MoveTaskItem, item' = [item EXCEPT ![i] = d],
             d.type = c.type,
             Remaining(d) = Remaining(c) \/ Remaining(d) = Remaining(c) - 1
      PROVE  Scheduler!Work(p) \/ UNCHANGED Scheduler!vars
  <2>1. CASE Remaining(d) = Remaining(c)
    BY <1>2, <1>5, <2>1, OneItem DEF Scheduler!vars
  <2>2. CASE Remaining(d) = Remaining(c) - 1
    <3>1. Remaining(c) > 0
      BY <1>3, <1>4
    <3>2. [j \in Items |-> Remaining(item[j])][i] = Remaining(c)
      OBVIOUS
    <3>3. /\ [j \in Items |-> Remaining(item'[j])][i] = Remaining(d)
          /\ \A j \in Items \ {i} :
               [k \in Items |-> Remaining(item'[k])][j]
                 = [k \in Items |-> Remaining(item[k])][j]
          /\ { j \in Items : item'[j].type \in AutomaticType }
               = { j \in Items : item[j].type \in AutomaticType }
      BY <1>5, OneItem
    <3>. HIDE DEF c
    <3>4. QED
      BY <1>2, <2>2, <3>1, <3>2, <3>3 DEF Scheduler!Work
  <2>3. QED
    BY <1>5, <2>1, <2>2
<1>6. CASE Exec(i, [c EXCEPT !.active = @ \/ (c.at = 1 /\ c.ret = "ST_SLEEP")], r)
  <2>. DEFINE e == [c EXCEPT !.active = @ \/ (c.at = 1 /\ c.ret = "ST_SLEEP")]
              d == [e EXCEPT !.ret = r]
  <2>1. /\ d \in MoveTaskItem /\ d.type = c.type
        /\ d.cmds = c.cmds /\ d.at = c.at
    BY <1>3 DEF MoveTaskItem, ExeRet
  <2>2. item' = [item EXCEPT ![i] = d]
    BY <1>6 DEF Exec
  <2>3. Remaining(d) = Remaining(c)
    BY <2>1 DEF Remaining, Emptied
  <2>. HIDE DEF d, e
  <2>4. QED
    BY <1>2, <1>5, <2>1, <2>2, <2>3
<1>7. CASE Exec(i, [c EXCEPT !.at = @ + 1], r) /\ c.at < Len(c.cmds)
  <2>. DEFINE e == [c EXCEPT !.at = @ + 1]
              d == [e EXCEPT !.ret = r]
  <2>0. c.at + 1 \in Nat
    BY <1>3
  <2>1. /\ d \in MoveTaskItem /\ d.type = c.type
        /\ d.cmds = c.cmds /\ d.at = c.at + 1
    BY <1>3, <2>0 DEF MoveTaskItem, ExeRet
  <2>2. item' = [item EXCEPT ![i] = d]
    BY <1>7 DEF Exec
  <2>3. Remaining(d) = Remaining(c) - 1
    BY <1>3, <1>4, <2>1 DEF Remaining, Emptied
  <2>. HIDE DEF d, e
  <2>4. QED
    BY <1>2, <1>5, <2>1, <2>2, <2>3
<1>8. CASE /\ c.at = Len(c.cmds)
           /\ item' = [item EXCEPT ![i] = clearCommands([c EXCEPT !.active = FALSE])]
  <2>. DEFINE e == [c EXCEPT !.active = FALSE]
              d == clearCommands(e)
  <2>1. e \in MoveTaskItem /\ e.type = c.type
    BY <1>3 DEF MoveTaskItem
  <2>2. d \in MoveTaskItem /\ d.type = c.type /\ Remaining(d) = 0
    BY <2>1, OperationType, RemainingFacts
  <2>3. Remaining(d) = Remaining(c) - 1
    BY <1>3, <1>4, <1>8, <2>2
  <2>. HIDE DEF d, e
  <2>4. QED
    BY <1>2, <1>5, <1>8, <2>2, <2>3 DEF d, e
<1>9. QED
  BY <1>2, <1>6, <1>7, <1>8 DEF Run

-----------------------------------------------------------------------------
(* The refinement.                                                         *)

LEMMA StepIsAbstract ==
  ASSUME TypeOK, HeadsOnly, RunHasCommand, AtInv, ScanInv, [Next]_vars
  PROVE  [Scheduler!Next]_(Scheduler!vars)
<1>1. CASE Boot
  <2>1. UNCHANGED <<curTaskItem, lastRunMode>>
    BY <1>1 DEF Boot, others
  <2>2. CASE createPtzArmHomeTaskItem(TP_RECHARGE)
    BY <2>1, <2>2, Priorities, ProducersProduce, ProducerRequests, QueueIsPriority
       DEF Scheduler!Next
  <2>3. CASE UNCHANGED <<rootTasks, item>>
    BY <2>1, <2>3, MapUnchanged
  <2>4. QED
    BY <1>1, <2>2, <2>3 DEF Boot
<1>2. CASE ProcessReap
  BY <1>2, ReapLeaves, QueueIsPriority DEF Scheduler!Next
<1>3. CASE LockCheck
  BY <1>3, LockCheckLocks DEF Scheduler!Next
<1>4. CASE QueryMode
  BY <1>4, QueryModeChanges DEF Scheduler!Next
<1>5. CASE QueryScan
  BY <1>5, MapUnchanged DEF QueryScan, others
<1>6. CASE Start
  BY <1>6, StartBegins, QueueIsPriority DEF Scheduler!Next
<1>7. ASSUME NEW i \in Items, NEW r \in { "ST_GOING", "ST_DONE" }, RunCurrent(i, r)
      PROVE  [Scheduler!Next]_(Scheduler!vars)
  BY <1>7, RunWorks, QueueIsPriority DEF Scheduler!Next
<1>8. CASE ProducerStep
  BY <1>8, ProducerRequests, QueueIsPriority DEF ProducerStep, others, Scheduler!Next
<1>9. CASE AgeStep
  BY <1>9, AgeCancels, Priorities, QueueIsPriority DEF Scheduler!Next
<1>10. CASE QuietStep
  BY <1>10, MapUnchanged DEF QuietStep
<1>11. CASE UNCHANGED vars
  BY <1>11, MapUnchanged DEF vars
<1>12. QED
  BY <1>1, <1>2, <1>3, <1>4, <1>5, <1>6, <1>7, <1>8, <1>9, <1>10, <1>11,
     OtherThreads
     DEF Next, Process

\* The scheduler, with all its threads and rounds, behaves as queues with
\* priorities: groups are begun and worked on only in their turn, what was
\* cancelled does not work again, and only finished groups go.
THEOREM SchedulerImplemented == Spec => ImplementsScheduler
<1>1. Init => Scheduler!Init
  <2>. SUFFICES ASSUME Init PROVE Scheduler!Init
    OBVIOUS
  <2>1. \A i \in Items : Remaining(item[i]) = 0
    BY DEF Init, Blank, NewItem, Remaining, Emptied
  <2>2. QED
    BY <2>1, QueueIsPriority DEF Init, Scheduler!Init
<1>2. Init => AtInv /\ ScanInv
  <2>1. Init => AtInv
    BY WithinFacts DEF Init, AtInv
  <2>2. Init => process.at = "boot"
    BY DEF Init, At
  <2>3. QED
    BY <2>1, <2>2 DEF ScanInv
<1>3. TypeOK /\ AtInv /\ ScanInv /\ [Next]_vars => AtInv' /\ ScanInv'
  BY AtStep, ScanStep
<1>4. TypeOK /\ HeadsOnly /\ RunHasCommand /\ AtInv /\ ScanInv /\ [Next]_vars
        => [Scheduler!Next]_(Scheduler!vars)
  BY StepIsAbstract
<1>5. QED
  BY <1>1, <1>2, <1>3, <1>4, TypeCorrect, HeadsAlways, RunAlwaysHasCommand, PTL
     DEF Spec, ImplementsScheduler, Scheduler!Spec
=============================================================================
