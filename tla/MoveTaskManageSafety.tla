------------------------ MODULE MoveTaskManageSafety ------------------------
(***************************************************************************)
(* Safety of the scheduler, for every value of its constants: its types,   *)
(* the pointers of the process thread, the command it runs, the modes that *)
(* execute nothing, and the verdicts of patrols.                           *)
(***************************************************************************)
EXTENDS MoveTaskManage, TLAPS

-----------------------------------------------------------------------------
(* The operations of a group keep it well-typed.                           *)

\* What a producer builds: a group with commands nothing has been done with.
NewItems == { c \in MoveTaskItem : ~c.active /\ c.at = 0 /\ c.cmds # <<>> }

\* New groups that belong to no patrol, and new groups of patrol t.
PlainItems == { c \in NewItems : c.task = None /\ ~c.except }
ItemsOf(t) == { c \in NewItems : c.task = t /\ c.type \in PatrolType }

LEMMA NewItemType ==
  ASSUME NEW type \in ItemType, NEW task \in Tasks \cup {None},
         NEW cmds \in Seq(CommandKind), NEW except \in BOOLEAN
  PROVE  /\ NewItem(type, task, cmds, except) \in MoveTaskItem
         /\ cmds # <<>> /\ task = None /\ ~except
              => NewItem(type, task, cmds, except) \in PlainItems
         /\ cmds # <<>> /\ type \in PatrolType
              => NewItem(type, task, cmds, except) \in ItemsOf(task)
BY DEF NewItem, NewItems, PlainItems, ItemsOf, MoveTaskItem, ExeRet

LEMMA ProducedType ==
  /\ Blank \in MoveTaskItem
  /\ \A kind \in CommandKind : MoveControlItem(kind) \in PlainItems
  /\ PositionPlanItem \in PlainItems
  /\ PowerOnItem \in PlainItems
  /\ \A type \in ItemType : ChargeItem(type, None) \in PlainItems
  /\ \A t \in Tasks :
       /\ PatrolHead(t) \in ItemsOf(t)
       /\ ReturnItem(t) \in ItemsOf(t)
       /\ \A last \in BOOLEAN : ViewPointItem(t, last) \in ItemsOf(t)
       /\ ChargeItem("PATRO_PLAN_CHARGE_ITEM", t) \in ItemsOf(t)
<1>1. /\ <<>> \in Seq(CommandKind)
      /\ <<"Motion">> \in Seq(CommandKind)
      /\ <<"SetSpeed", "SQLOperation">> \in Seq(CommandKind)
      /\ <<"Motion", "SQLInsert", "Motion">> \in Seq(CommandKind)
      /\ <<"Motion", "SQLInsertLast", "Motion">> \in Seq(CommandKind)
  BY DEF CommandKind
<1>2. Blank \in MoveTaskItem
  BY <1>1, NewItemType DEF Blank, ItemType
<1>3. ASSUME NEW kind \in CommandKind PROVE MoveControlItem(kind) \in PlainItems
  <2>1. <<kind>> \in Seq(CommandKind) /\ <<kind>> # <<>>
    OBVIOUS
  <2>2. QED
    BY <2>1, NewItemType DEF MoveControlItem, ItemType
<1>4. PositionPlanItem \in PlainItems /\ PowerOnItem \in PlainItems
  BY <1>1, NewItemType DEF PositionPlanItem, PowerOnItem, ItemType
<1>5. ASSUME NEW type \in ItemType PROVE ChargeItem(type, None) \in PlainItems
  BY <1>1, NewItemType DEF ChargeItem
<1>6. ASSUME NEW t \in Tasks
      PROVE  PatrolHead(t) \in ItemsOf(t) /\ ReturnItem(t) \in ItemsOf(t)
  BY <1>1, NewItemType DEF PatrolHead, ReturnItem, ItemType, PatrolType
<1>7. ASSUME NEW t \in Tasks, NEW last \in BOOLEAN
      PROVE  ViewPointItem(t, last) \in ItemsOf(t)
  BY <1>1, NewItemType DEF ViewPointItem, ItemType, PatrolType
<1>8. ASSUME NEW t \in Tasks
      PROVE  ChargeItem("PATRO_PLAN_CHARGE_ITEM", t) \in ItemsOf(t)
  BY <1>1, NewItemType DEF ChargeItem, ItemType, PatrolType
<1>9. QED
  BY <1>2, <1>3, <1>4, <1>5, <1>6, <1>7, <1>8

LEMMA OperationType ==
  ASSUME NEW c \in MoveTaskItem
  PROVE  /\ clearCommands(c) \in MoveTaskItem
         /\ initStatusPara(c) \in MoveTaskItem
         /\ exceptionsExit(c) \in MoveTaskItem
<1>1. clearCommands(c) \in MoveTaskItem
  <2>1. <<>> \in Seq(CommandKind)
    OBVIOUS
  <2>2. QED
    BY <2>1 DEF clearCommands, MoveTaskItem, ExeRet
<1>2. initStatusPara(c) \in MoveTaskItem
  BY DEF initStatusPara, MoveTaskItem, ExeRet
<1>3. exceptionsExit(c) \in MoveTaskItem
  BY DEF exceptionsExit, MoveTaskItem
<1>4. QED
  BY <1>1, <1>2, <1>3
-----------------------------------------------------------------------------
(* The queues.                                                             *)

LEMMA RemoveType ==
  ASSUME NEW s \in Seq(Items), NEW i
  PROVE  remove(s, i) \in Seq(Items)
<1>1. CASE i \notin Range(s)
  BY <1>1 DEF remove
<1>2. CASE i \in Range(s)
  <2>1. PICK k \in DOMAIN s : s[k] = i
    BY <1>2 DEF Range
  <2>. DEFINE k0 == CHOOSE j \in DOMAIN s : s[j] = i
  <2>2. k0 \in DOMAIN s
    BY <2>1
  <2>3. SubSeq(s, 1, k0 - 1) \in Seq(Items) /\ SubSeq(s, k0 + 1, Len(s)) \in Seq(Items)
    <3>. HIDE DEF k0
    <3>1. k0 \in 1 .. Len(s) /\ Len(s) \in Nat
      BY <2>2
    <3>2. QED
      BY <3>1
  <2>4. QED
    BY <1>2, <2>3 DEF remove
<1>3. QED
  BY <1>1, <1>2

\* Enqueue appends the free identities s, each once, that carry the new groups.
Appended(p, news, base, s) ==
  /\ Len(s) = Len(news)
  /\ \A j, k \in DOMAIN s : s[j] = s[k] => j = k
  /\ Range(s) \cap Queued = {}
  /\ rootTasks' = [rootTasks EXCEPT ![p] = @ \o s]
  /\ \A k \in DOMAIN s : item'[s[k]] = news[k]
  /\ \A i \in Items \ Range(s) : item'[i] = base[i]
  /\ item' = [i \in Items |-> item'[i]]

LEMMA EnqueueFacts ==
  ASSUME NEW p \in Priority, NEW news \in Seq(MoveTaskItem), NEW base,
         rootTasks \in [Priority -> Seq(Items)],
         Enqueue(p, news, base)
  PROVE  \E s \in Seq(Items) : Appended(p, news, base, s)
<1>. DEFINE s == NewIds(Len(news))
<1>1. Len(news) \in Nat
  OBVIOUS
<1>2. s \in Free(Len(news))
  BY DEF Enqueue, NewIds
<1>3. /\ s \in [1 .. Len(news) -> Items \ Queued]
      /\ \A j, k \in DOMAIN s : s[j] = s[k] => j = k
  BY <1>2 DEF Free, Injection, IsInjective
<1>4. s \in Seq(Items) /\ Len(s) = Len(news)
  <2>1. s \in [1 .. Len(news) -> Items]
    BY <1>3
  <2>. HIDE DEF s
  <2>2. QED
    BY <1>1, <2>1
<1>5. Range(s) \cap Queued = {}
  BY <1>3 DEF Range
<1>6. rootTasks' = [rootTasks EXCEPT ![p] = @ \o s]
  BY DEF Enqueue, add
<1>7. item' = [ i \in Items |-> IF i \in Range(s)
                                THEN news[CHOOSE k \in DOMAIN s : s[k] = i]
                                ELSE base[i] ]
  BY DEF Enqueue
<1>8. ASSUME NEW k \in DOMAIN s PROVE item'[s[k]] = news[k]
  <2>1. s[k] \in Items /\ s[k] \in Range(s)
    BY <1>3 DEF Range
  <2>2. (CHOOSE j \in DOMAIN s : s[j] = s[k]) = k
    BY <1>3
  <2>3. QED
    BY <1>7, <2>1, <2>2
<1>9. \A i \in Items \ Range(s) : item'[i] = base[i]
  BY <1>7
<1>10. item' = [i \in Items |-> item'[i]]
  BY <1>7
<1>11. Appended(p, news, base, s)
  BY <1>3, <1>4, <1>5, <1>6, <1>8, <1>9, <1>10 DEF Appended
<1>12. QED
  BY <1>4, <1>11
LEMMA EnqueueType ==
  ASSUME NEW p \in Priority, NEW news \in Seq(MoveTaskItem),
         NEW base \in [Items -> MoveTaskItem],
         rootTasks \in [Priority -> Seq(Items)],
         Enqueue(p, news, base)
  PROVE  /\ rootTasks' \in [Priority -> Seq(Items)]
         /\ item' \in [Items -> MoveTaskItem]
<1>1. PICK s \in Seq(Items) : Appended(p, news, base, s)
  BY EnqueueFacts
<1>2. rootTasks' \in [Priority -> Seq(Items)]
  <2>1. rootTasks[p] \o s \in Seq(Items)
    OBVIOUS
  <2>2. QED
    BY <1>1, <2>1 DEF Appended
<1>3. item' \in [Items -> MoveTaskItem]
  <2>1. ASSUME NEW i \in Items PROVE item'[i] \in MoveTaskItem
    <3>1. CASE i \in Range(s)
      <4>1. PICK k \in DOMAIN s : s[k] = i
        BY <3>1 DEF Range
      <4>2. news[k] \in MoveTaskItem
        BY <1>1 DEF Appended
      <4>3. QED
        BY <1>1, <4>1, <4>2 DEF Appended
    <3>2. CASE i \notin Range(s)
      BY <1>1, <3>2 DEF Appended
    <3>3. QED
      BY <3>1, <3>2
  <2>2. QED
    BY <1>1, <2>1 DEF Appended
<1>4. QED
  BY <1>2, <1>3

LEMMA ClearType ==
  ASSUME item \in [Items -> MoveTaskItem]
  PROVE  /\ \A P : clearTaskCommands(P) \in [Items -> MoveTaskItem]
         /\ \A p : clearTaskCommandsExceptPatroPlan(p) \in [Items -> MoveTaskItem]
BY OperationType DEF clearTaskCommands, clearTaskCommandsExceptPatroPlan

\* What the producers append is a sequence of groups.
LEMMA NewsType ==
  /\ \A type \in ItemType, k \in Nat : Charges(type, None, k) \in Seq(PlainItems)
  /\ \A t \in Tasks, k \in Nat :
       Charges("PATRO_PLAN_CHARGE_ITEM", t, k) \in Seq(ItemsOf(t))
  /\ \A t \in Tasks, n \in Nat :
       [ k \in 1 .. n |-> ViewPointItem(t, k = n) ] \in Seq(ItemsOf(t))
  /\ \A c, d \in PlainItems :
       <<c>> \in Seq(PlainItems) /\ <<c, d>> \in Seq(PlainItems)
<1>1. ASSUME NEW type \in ItemType, NEW k \in Nat
      PROVE  Charges(type, None, k) \in Seq(PlainItems)
  <2>1. Charges(type, None, k) \in [1 .. k -> PlainItems]
    BY ProducedType DEF Charges
  <2>2. QED
    BY <2>1
<1>2. ASSUME NEW t \in Tasks, NEW k \in Nat
      PROVE  Charges("PATRO_PLAN_CHARGE_ITEM", t, k) \in Seq(ItemsOf(t))
  <2>1. Charges("PATRO_PLAN_CHARGE_ITEM", t, k) \in [1 .. k -> ItemsOf(t)]
    BY ProducedType DEF Charges
  <2>2. QED
    BY <2>1
<1>3. ASSUME NEW t \in Tasks, NEW n \in Nat
      PROVE  [ k \in 1 .. n |-> ViewPointItem(t, k = n) ] \in Seq(ItemsOf(t))
  <2>1. ASSUME NEW k \in 1 .. n PROVE ViewPointItem(t, k = n) \in ItemsOf(t)
    <3>1. (k = n) \in BOOLEAN
      OBVIOUS
    <3>2. QED
      BY <3>1, ProducedType
  <2>2. [ k \in 1 .. n |-> ViewPointItem(t, k = n) ] \in [1 .. n -> ItemsOf(t)]
    BY <2>1
  <2>3. QED
    BY <2>2
<1>4. QED
  BY <1>1, <1>2, <1>3
-----------------------------------------------------------------------------
(* The producers.                                                          *)

\* A producer appends a new patrol to the manual or the regular root, or groups
\* of no patrol to root p, which it may have emptied before.
Produces(p) ==
  \/ \E news \in Seq(PlainItems) :
       Enqueue(p, news, item) \/ Enqueue(p, news, clearTaskCommands({p}))
  \/ /\ p \in { TP_MANUL, TP_REGULAR }
     /\ \E t \in FreshTasks : \E news \in Seq(ItemsOf(t)) : Enqueue(p, news, item)

LEMMA ProducesNews ==
  ASSUME NEW p \in Priority, Produces(p)
  PROVE  \E news \in Seq(NewItems) :
           Enqueue(p, news, item) \/ Enqueue(p, news, clearTaskCommands({p}))
<1>1. Seq(PlainItems) \subseteq Seq(NewItems)
  BY DEF PlainItems
<1>2. \A t : Seq(ItemsOf(t)) \subseteq Seq(NewItems)
  BY DEF ItemsOf
<1>3. QED
  BY <1>1, <1>2 DEF Produces

LEMMA ProducesType ==
  ASSUME rootTasks \in [Priority -> Seq(Items)], item \in [Items -> MoveTaskItem],
         NEW p \in Priority, Produces(p)
  PROVE  rootTasks' \in [Priority -> Seq(Items)] /\ item' \in [Items -> MoveTaskItem]
<1>1. PICK news \in Seq(NewItems) :
        Enqueue(p, news, item) \/ Enqueue(p, news, clearTaskCommands({p}))
  BY ProducesNews
<1>2. news \in Seq(MoveTaskItem)
  <2>1. NewItems \subseteq MoveTaskItem
    BY DEF NewItems
  <2>2. QED
    BY <2>1
<1>3. QED
  BY <1>1, <1>2, ClearType, EnqueueType

LEMMA Priorities == {TP_PLAN, TP_MANUL, TP_RECHARGE, TP_REGULAR, 0} \subseteq Priority
BY DEF TP_PLAN, TP_MANUL, TP_RECHARGE, TP_REGULAR, Priority, TP_RFID

LEMMA ProducersProduce ==
  /\ \A p \in Priority : createPtzArmHomeTaskItem(p) => Produces(p)
  /\ \A p \in { TP_MANUL, TP_REGULAR } : createPatroPlanTaskItem(p) => Produces(p)
  /\ manulCharge => Produces(TP_MANUL)
  /\ \A news \in Seq(PlainItems) : manulMoveControl(news) => Produces(TP_MANUL)
<1>1. ASSUME NEW p \in Priority, createPtzArmHomeTaskItem(p) PROVE Produces(p)
  <2>1. <<PowerOnItem>> \in Seq(PlainItems)
    BY ProducedType
  <2>2. QED
    BY <1>1, <2>1 DEF createPtzArmHomeTaskItem, Produces
<1>2. ASSUME NEW p \in { TP_MANUL, TP_REGULAR }, createPatroPlanTaskItem(p)
      PROVE  Produces(p)
  <2>1. PICK t \in FreshTasks, n \in ViewPoints :
          \E over \in { <<>>, <<ReturnItem(t)>> } \cup
                      { Charges("PATRO_PLAN_CHARGE_ITEM", t, k) : k \in 0 .. MaxPiles } :
            Enqueue(p, <<PatrolHead(t)>>
                         \o [ k \in 1 .. n |-> ViewPointItem(t, k = n) ] \o over,
                    item)
    BY <1>2 DEF createPatroPlanTaskItem
  <2>2. PICK over \in { <<>>, <<ReturnItem(t)>> } \cup
                      { Charges("PATRO_PLAN_CHARGE_ITEM", t, k) : k \in 0 .. MaxPiles } :
            Enqueue(p, <<PatrolHead(t)>>
                         \o [ k \in 1 .. n |-> ViewPointItem(t, k = n) ] \o over,
                    item)
    BY <2>1
  <2>3. t \in Tasks /\ n \in Nat
    BY ConstantsOK DEF FreshTasks
  <2>4. over \in Seq(ItemsOf(t))
    <3>1. CASE over \in { <<>>, <<ReturnItem(t)>> }
      <4>1. <<>> \in Seq(ItemsOf(t))
        OBVIOUS
      <4>2. <<ReturnItem(t)>> \in Seq(ItemsOf(t))
        BY <2>3, ProducedType
      <4>3. QED
        BY <3>1, <4>1, <4>2
    <3>2. CASE over \in { Charges("PATRO_PLAN_CHARGE_ITEM", t, k) : k \in 0 .. MaxPiles }
      <4>1. PICK k \in 0 .. MaxPiles : over = Charges("PATRO_PLAN_CHARGE_ITEM", t, k)
        BY <3>2
      <4>2. k \in Nat
        BY ConstantsOK
      <4>3. QED
        BY <2>3, <4>1, <4>2, NewsType
    <3>3. QED
      BY <2>2, <3>1, <3>2
  <2>5. <<PatrolHead(t)>> \in Seq(ItemsOf(t))
    BY <2>3, ProducedType
  <2>6. [ k \in 1 .. n |-> ViewPointItem(t, k = n) ] \in Seq(ItemsOf(t))
    BY <2>3, NewsType
  <2>7. <<PatrolHead(t)>> \o [ k \in 1 .. n |-> ViewPointItem(t, k = n) ] \o over
          \in Seq(ItemsOf(t))
    BY <2>4, <2>5, <2>6
  <2>8. QED
    BY <1>2, <2>2, <2>7 DEF Produces
<1>3. ASSUME manulCharge PROVE Produces(TP_MANUL)
  <2>1. PICK k \in 0 .. MaxPiles :
          Enqueue(TP_MANUL, Charges("MANUAL_CHARGE_ITEM", None, k),
                  clearTaskCommands({TP_MANUL}))
    BY <1>3 DEF manulCharge
  <2>2. k \in Nat /\ "MANUAL_CHARGE_ITEM" \in ItemType
    BY ConstantsOK DEF ItemType
  <2>3. Charges("MANUAL_CHARGE_ITEM", None, k) \in Seq(PlainItems)
    BY <2>2, NewsType
  <2>4. QED
    BY <2>1, <2>3 DEF Produces
<1>4. ASSUME NEW news \in Seq(PlainItems), manulMoveControl(news)
      PROVE  Produces(TP_MANUL)
  BY <1>4 DEF manulMoveControl, Produces
<1>5. QED
  BY <1>1, <1>2, <1>3, <1>4
-----------------------------------------------------------------------------
(* What a step of another thread does to the scheduler is one of three     *)
(* things: a producer's critical section, the end of a patrol past its     *)
(* age, or nothing.                                                        *)

ProducerStep ==
  /\ MutexFree
  /\ UNCHANGED <<others, process>>
  /\ \/ \E p \in Priority : Produces(p)
     \/ \E p \in Priority : item' = clearTaskCommands({p}) /\ UNCHANGED rootTasks

AgeStep ==
  /\ MutexFree
  /\ UNCHANGED <<rootTasks, curTaskItem, lastRunMode, process, motorLock, motor,
                 motorStatus>>
  /\ \E i \in Members(TP_REGULAR) : CancelWith(clearMoveTask(i), i)

QuietStep ==
  /\ UNCHANGED <<rootTasks, item, curTaskItem, lastRunMode, process, execRes>>
  /\ motorLock' \in { motorLock, FALSE }
  /\ motor' \in { motor, "still", "protect" }
  /\ motorStatus' \in { motorStatus, "STOP_STATE", "MOVING" }

ThreadType ==
  [Thread -> { "idle", "home", "patrol", "add", "charge", "switch", "check",
               "goTo" }]

LEMMA OtherThreads ==
  ASSUME TypeOK, Continuation \/ Trigger
  PROVE  /\ ProducerStep \/ AgeStep \/ QuietStep
         /\ thread' \in ThreadType
         /\ runMode' \in RunMode /\ motorLock' \in BOOLEAN
         /\ ussExcep' \in BOOLEAN /\ alive' \in BOOLEAN
<1>. DEFINE Typed == /\ thread' \in ThreadType
                     /\ runMode' \in RunMode /\ motorLock' \in BOOLEAN
                     /\ ussExcep' \in BOOLEAN /\ alive' \in BOOLEAN
            G == (ProducerStep \/ AgeStep \/ QuietStep) /\ Typed
<1>0. ASSUME NEW t \in Thread,
             NEW where \in { "idle", "home", "patrol", "add", "charge", "switch",
                             "check", "goTo" },
             Goes(t, where)
      PROVE  thread' \in ThreadType
  BY <1>0 DEF Goes, TypeOK, ThreadType
<1>1. CASE ManualRequest
  <2>1. Typed
    BY <1>1 DEF ManualRequest, Section, others, settings, TypeOK, ThreadType
  <2>2. CASE \/ manulMoveControl(<<MoveControlItem("SetSpeed"),
                                   MoveControlItem("Motion")>>)
             \/ manulMoveControl(<<MoveControlItem("Motion")>>)
             \/ manulMoveControl(<<MoveControlItem("Lock")>>)
    <3>1. /\ MoveControlItem("SetSpeed") \in PlainItems
          /\ MoveControlItem("Motion") \in PlainItems
          /\ MoveControlItem("Lock") \in PlainItems
      BY ProducedType DEF CommandKind
    <3>2. PICK news \in Seq(PlainItems) : manulMoveControl(news)
      BY <2>2, <3>1, NewsType
    <3>3. Produces(TP_MANUL)
      BY <3>2, ProducersProduce
    <3>4. QED
      BY <1>1, <2>1, <3>3, Priorities DEF ManualRequest, Section, ProducerStep
  <2>3. CASE manulCharge \/ createPtzArmHomeTaskItem(TP_RECHARGE)
    BY <1>1, <2>1, <2>3, Priorities, ProducersProduce
       DEF ManualRequest, Section, ProducerStep
  <2>4. CASE item' = clearTaskCommands({TP_RECHARGE}) /\ UNCHANGED rootTasks
    BY <1>1, <2>1, <2>4, Priorities DEF ManualRequest, Section, ProducerStep
  <2>5. QED
    BY <1>1, <2>2, <2>3, <2>4 DEF ManualRequest
<1>2. CASE Unlock
  BY <1>2 DEF Unlock, QuietStep, TypeOK, ThreadType
<1>3. CASE SetRunMode
  BY <1>3, ConstantsOK DEF SetRunMode, QuietStep, TypeOK, ThreadType
<1>4. CASE TaskNow
  <2>1. thread' \in ThreadType
    BY <1>0, <1>4 DEF TaskNow, Thread
  <2>2. QED
    BY <1>4, <2>1, Priorities DEF TaskNow, Section, others, settings, ProducerStep, TypeOK
<1>5. CASE Rotation
  <2>1. thread' \in ThreadType
    BY <1>0, <1>5 DEF Rotation, Thread
  <2>2. QED
    BY <1>5, <2>1 DEF Rotation, Section, others, settings, QuietStep, TypeOK
<1>6. ASSUME NEW t \in Patroller, PatrolHome(t) \/ PatrolAdd(t) PROVE G
  <2>1. PatrolRoot(t) \in Priority
    BY Priorities DEF PatrolRoot
  <2>2. Produces(PatrolRoot(t))
    <3>1. PatrolRoot(t) \in { TP_MANUL, TP_REGULAR }
      BY DEF PatrolRoot
    <3>2. QED
      BY <1>6, <2>1, <3>1, ProducersProduce DEF PatrolHome, PatrolAdd
  <2>3. thread' \in ThreadType
    BY <1>0, <1>6 DEF PatrolHome, PatrolAdd, Patroller, Thread
  <2>4. QED
    BY <1>6, <2>1, <2>2, <2>3
       DEF PatrolHome, PatrolAdd, Section, others, settings, ProducerStep, TypeOK
<1>7. CASE PositionPlan
  <2>1. <<PositionPlanItem>> \in Seq(PlainItems)
    BY ProducedType
  <2>2. Produces(TP_PLAN)
    BY <1>7, <2>1 DEF PositionPlan, Produces
  <2>3. QED
    BY <1>7, <2>2, Priorities
       DEF PositionPlan, Section, others, settings, ProducerStep, TypeOK, ThreadType
<1>8. CASE LowBatteryLook
  <2>1. thread' \in ThreadType
    BY <1>0, <1>8 DEF LowBatteryLook, Thread
  <2>2. QED
    BY <1>8, <2>1 DEF LowBatteryLook, Section, others, settings, QuietStep, TypeOK
<1>9. CASE LowBatteryAdd
  <2>1. PICK k \in 0 .. MaxPiles :
          Enqueue(TP_RECHARGE, Charges("LOW_BATTERY_CHARGE_ITEM", None, k), item)
    BY <1>9 DEF LowBatteryAdd
  <2>2. k \in Nat /\ "LOW_BATTERY_CHARGE_ITEM" \in ItemType
    BY ConstantsOK DEF ItemType
  <2>3. Charges("LOW_BATTERY_CHARGE_ITEM", None, k) \in Seq(PlainItems)
    BY <2>2, NewsType
  <2>4. Produces(TP_RECHARGE)
    BY <2>1, <2>3 DEF Produces
  <2>5. thread' \in ThreadType
    BY <1>0, <1>9 DEF LowBatteryAdd, Thread
  <2>6. QED
    BY <1>9, <2>4, <2>5, Priorities
       DEF LowBatteryAdd, Section, others, settings, ProducerStep, TypeOK
<1>10. CASE AntiDischargeLook
  <2>1. thread' \in ThreadType
    BY <1>0, <1>10 DEF AntiDischargeLook, Thread
  <2>2. QED
    BY <1>10, <2>1 DEF AntiDischargeLook, Section, others, settings, QuietStep, TypeOK
<1>11. CASE AntiDischargeCharge
  <2>1. thread' \in ThreadType
    BY <1>0, <1>11 DEF AntiDischargeCharge, Thread
  <2>2. QED
    BY <1>11, <2>1, Priorities, ProducersProduce
       DEF AntiDischargeCharge, Section, others, settings, ProducerStep, TypeOK
<1>12. CASE NoOperationTimeout
  <2>1. thread' \in ThreadType
    BY <1>0, <1>12 DEF NoOperationTimeout, Thread
  <2>2. QED
    BY <1>12, <2>1 DEF NoOperationTimeout, Section, others, settings, QuietStep, TypeOK
<1>13. CASE NoOperationSwitch
  <2>1. thread' \in ThreadType
    BY <1>0, <1>13 DEF NoOperationSwitch, Thread
  <2>2. runMode' \in RunMode
    BY <1>13 DEF NoOperationSwitch, TypeOK, RunMode
  <2>3. QED
    BY <1>13, <2>1, <2>2 DEF NoOperationSwitch, QuietStep, TypeOK
<1>14. CASE ProtectLook
  <2>1. thread' \in ThreadType
    BY <1>0, <1>14 DEF ProtectLook, Thread
  <2>2. QED
    BY <1>14, <2>1 DEF ProtectLook, Section, others, settings, QuietStep, TypeOK
<1>15. CASE ProtectGoTo
  <2>1. thread' \in ThreadType
    BY <1>0, <1>15 DEF ProtectGoTo, Thread
  <2>2. QED
    BY <1>15, <2>1 DEF ProtectGoTo, settings, QuietStep, TypeOK
<1>16. CASE AgeingLook
  <2>1. thread' \in ThreadType
    BY <1>0, <1>16 DEF AgeingLook, Thread
  <2>2. QED
    BY <1>16, <2>1 DEF AgeingLook, Section, others, settings, QuietStep, TypeOK
<1>17. CASE AgeingCheck
  <2>1. thread' \in ThreadType
    BY <1>0, <1>17 DEF AgeingCheck, Thread
  <2>2. CASE UNCHANGED <<item, execRes>>
    BY <1>17, <2>1, <2>2 DEF AgeingCheck, settings, QuietStep, TypeOK
  <2>3. CASE /\ MutexFree /\ alive' = FALSE
             /\ \E i \in Members(TP_REGULAR) : CancelWith(clearMoveTask(i), i)
    BY <1>17, <2>1, <2>3 DEF AgeingCheck, settings, AgeStep, TypeOK
  <2>4. QED
    BY <1>17, <2>2, <2>3 DEF AgeingCheck
<1>18. CASE SetUSSExcep
  BY <1>18 DEF SetUSSExcep, QuietStep, TypeOK, ThreadType
<1>19. CASE MotorArrives
  BY <1>19 DEF MotorArrives, settings, QuietStep, TypeOK, ThreadType
<1>20. CASE UpdateInfo
  BY <1>20 DEF UpdateInfo, settings, QuietStep, TypeOK, ThreadType
<1>21. QED
  BY <1>1, <1>2, <1>3, <1>4, <1>5, <1>6, <1>7, <1>8, <1>9, <1>10, <1>11, <1>12,
     <1>13, <1>14, <1>15, <1>16, <1>17, <1>18, <1>19, <1>20
     DEF Continuation, Trigger

\* A patrol past its age is emptied; nothing else about its groups changes.
LEMMA ClearMoveTaskKeeps ==
  ASSUME TypeOK, NEW i \in Items
  PROVE  /\ clearMoveTask(i) \in [Items -> MoveTaskItem]
         /\ \A j \in Items :
              LET c == clearMoveTask(i)[j]
              IN  /\ c.task = item[j].task /\ c.type = item[j].type
                  /\ c.except = item[j].except /\ c.active = item[j].active
                  /\ Emptied(c) <=> Emptied(item[j]) \/ j \in MoveTaskOf(i)
                  /\ c = item[j] \/ c = clearCommands(item[j])
                  /\ j \notin MoveTaskOf(i) => c = item[j]
<1>1. ASSUME NEW c \in MoveTaskItem
      PROVE  LET d == clearCommands(c)
             IN  /\ d.task = c.task /\ d.type = c.type
                 /\ d.except = c.except /\ d.active = c.active
                 /\ Emptied(d)
  BY DEF clearCommands, MoveTaskItem, Emptied
<1>2. QED
  BY <1>1, OperationType DEF clearMoveTask, TypeOK

LEMMA MembersAreItems ==
  ASSUME TypeOK, NEW p \in Priority
  PROVE  Members(p) \subseteq Items
BY DEF TypeOK, Members, Range

\* Cancelling groups: the group whose exceptions are run loses its activity and
\* its exceptions, and the only verdict written is a failure.
LEMMA CancelWithFacts ==
  ASSUME TypeOK, NEW cleared \in [Items -> MoveTaskItem],
         NEW i \in Items \cup {None}, CancelWith(cleared, i)
  PROVE  /\ item' \in [Items -> MoveTaskItem]
         /\ execRes' \in [Tasks -> Result]
         /\ \A t \in Tasks : execRes'[t] \in { execRes[t], "fail" }
         /\ \A j \in Items :
              \/ item'[j] = cleared[j]
              \/ j = i /\ item'[j] = exceptionsExit(cleared[j])
         /\ \/ item' = cleared /\ execRes' = execRes
            \/ ExceptionExit(i) /\ i \in Items
<1>1. CASE item' = cleared /\ execRes' = execRes
  BY <1>1 DEF TypeOK
<1>2. CASE /\ i \in Items /\ ExceptionExit(i)
           /\ item' = [cleared EXCEPT ![i] = exceptionsExit(@)]
  <2>1. exceptionsExit(cleared[i]) \in MoveTaskItem
    BY <1>2, OperationType
  <2>2. /\ item' \in [Items -> MoveTaskItem]
        /\ \A j \in Items :
             item'[j] = IF j = i THEN exceptionsExit(cleared[j]) ELSE cleared[j]
    BY <1>2, <2>1
  <2>3. \/ execRes' = execRes
        \/ execRes' = [execRes EXCEPT ![item[i].task] = "fail"]
    BY <1>2 DEF ExceptionExit
  <2>4. /\ execRes' \in [Tasks -> Result]
        /\ \A t \in Tasks : execRes'[t] \in { execRes[t], "fail" }
    BY <2>3 DEF TypeOK, Result
  <2>5. QED
    BY <1>2, <2>2, <2>4
<1>3. QED
  BY <1>1, <1>2 DEF CancelWith
-----------------------------------------------------------------------------
(* Type correctness.                                                       *)

LEMMA RunType ==
  ASSUME TypeOK, NEW i \in Items, NEW r \in { "ST_GOING", "ST_DONE" }, Run(i, r)
  PROVE  /\ item' \in [Items -> MoveTaskItem]
         /\ motorLock' \in BOOLEAN
         /\ motor' \in { "still", "driven", "protect" }
         /\ execRes' \in [Tasks -> Result]
<1>. DEFINE c == item[i]
<1>1. c \in MoveTaskItem
  BY DEF TypeOK
<1>2. ASSUME NEW d \in MoveTaskItem, Exec(i, d, r)
      PROVE  /\ item' \in [Items -> MoveTaskItem]
             /\ motorLock' \in BOOLEAN
             /\ motor' \in { "still", "driven", "protect" }
             /\ execRes' \in [Tasks -> Result]
  <2>1. [d EXCEPT !.ret = r] \in MoveTaskItem
    BY DEF MoveTaskItem, ExeRet
  <2>2. item' \in [Items -> MoveTaskItem]
    BY <1>2, <2>1 DEF Exec, TypeOK
  <2>3. motorLock' \in BOOLEAN
    BY <1>2 DEF Exec, TypeOK
  <2>4. motor' \in { "still", "driven", "protect" }
    BY <1>2 DEF Exec, TypeOK
  <2>5. execRes' \in [Tasks -> Result]
    BY <1>2 DEF Exec, Record, Result, TypeOK
  <2>6. QED
    BY <2>2, <2>3, <2>4, <2>5
<1>3. CASE Exec(i, [c EXCEPT !.active = @ \/ (c.at = 1 /\ c.ret = "ST_SLEEP")], r)
  <2>1. [c EXCEPT !.active = @ \/ (c.at = 1 /\ c.ret = "ST_SLEEP")] \in MoveTaskItem
    BY <1>1 DEF MoveTaskItem
  <2>2. QED
    BY <1>2, <1>3, <2>1
<1>4. CASE Exec(i, [c EXCEPT !.at = @ + 1], r)
  <2>1. [c EXCEPT !.at = @ + 1] \in MoveTaskItem
    BY <1>1 DEF MoveTaskItem
  <2>2. QED
    BY <1>2, <1>4, <2>1
<1>5. CASE /\ item' = [item EXCEPT ![i] = clearCommands([c EXCEPT !.active = FALSE])]
           /\ UNCHANGED <<motorLock, motor, execRes>>
  <2>1. [c EXCEPT !.active = FALSE] \in MoveTaskItem
    BY <1>1 DEF MoveTaskItem
  <2>2. clearCommands([c EXCEPT !.active = FALSE]) \in MoveTaskItem
    BY <2>1, OperationType
  <2>3. QED
    BY <1>5, <2>2 DEF TypeOK
<1>6. QED
  BY <1>3, <1>4, <1>5 DEF Run

ProcessType ==
  [ at : { "boot", "unlocked", "lockCheck", "query", "scan", "dispatch" },
    mode : RunMode, pri : Priority, next : Items \cup {None} ]

LEMMA AtType ==
  \A where \in { "boot", "unlocked", "lockCheck", "query", "scan", "dispatch" } :
    At(where) \in ProcessType
BY DEF At, ProcessType, RunMode, Priority, TP_RFID, TP_REGULAR

\* Every variable of the scheduler keeps its type, whatever the instance.
THEOREM TypeCorrect == Spec => []TypeOK
<1>1. Init => TypeOK
  <2>. SUFFICES ASSUME Init PROVE TypeOK
    OBVIOUS
  <2>1. rootTasks \in [Priority -> Seq(Items)] /\ item \in [Items -> MoveTaskItem]
    BY ProducedType DEF Init
  <2>2. process \in ProcessType
    BY AtType DEF Init
  <2>3. runMode \in RunMode /\ lastRunMode \in RunMode
    BY ConstantsOK DEF Init, RunMode
  <2>4. execRes \in [Tasks -> Result]
    BY DEF Init, Result
  <2>5. QED
    BY <2>1, <2>2, <2>3, <2>4 DEF Init, TypeOK, ProcessType, MoveState
<1>2. TypeOK /\ [Next]_vars => TypeOK'
  <2>. SUFFICES ASSUME TypeOK, [Next]_vars PROVE TypeOK'
    OBVIOUS
  <2>1. CASE Boot
    <3>1. rootTasks' \in [Priority -> Seq(Items)] /\ item' \in [Items -> MoveTaskItem]
      BY <2>1, Priorities, ProducersProduce, ProducesType DEF Boot, TypeOK
    <3>2. process' \in ProcessType
      BY <2>1, AtType DEF Boot
    <3>3. QED
      BY <2>1, <3>1, <3>2 DEF Boot, TypeOK, others, settings, ProcessType
  <2>2. CASE ProcessReap
    <3>1. rootTasks' \in [Priority -> Seq(Items)]
      BY <2>2, RemoveType DEF ProcessReap, TypeOK
    <3>2. item' \in [Items -> MoveTaskItem]
      BY <2>2, ProducedType DEF ProcessReap, Zombie, TypeOK
    <3>3. execRes' \in [Tasks -> Result]
      BY <2>2 DEF ProcessReap, ExceptionExit, TypeOK, Result
    <3>4. process' \in ProcessType
      BY <2>2, AtType DEF ProcessReap
    <3>5. QED
      BY <2>2, <3>1, <3>2, <3>3, <3>4 DEF ProcessReap, TypeOK, settings, ProcessType
  <2>3. CASE LockCheck
    <3>1. item' \in [Items -> MoveTaskItem]
      BY <2>3, ClearType DEF LockCheck, TypeOK
    <3>2. process' \in ProcessType
      BY <2>3, AtType DEF LockCheck
    <3>3. QED
      BY <2>3, <3>1, <3>2 DEF LockCheck, TypeOK, settings, ProcessType
  <2>4. CASE QueryMode
    <3>1. item' \in [Items -> MoveTaskItem]
      <4>. DEFINE cleared == clearTaskCommands({TP_MANUL, TP_PLAN, TP_REGULAR})
      <4>1. cleared \in [Items -> MoveTaskItem]
        BY ClearType DEF TypeOK
      <4>2. \/ item' = item
            \/ item' = cleared
            \/ item' = [cleared EXCEPT ![curTaskItem] = exceptionsExit(@)]
        BY <2>4 DEF QueryMode, CancelWith
      <4>. HIDE DEF cleared
      <4>3. QED
        BY <4>1, <4>2, OperationType DEF TypeOK
    <3>2. execRes' \in [Tasks -> Result]
      BY <2>4 DEF QueryMode, CancelWith, ExceptionExit, TypeOK, Result
    <3>3. process' \in ProcessType
      <4>1. At("scan") \in ProcessType
        BY AtType
      <4>2. QED
        BY <2>4, <4>1 DEF QueryMode, TypeOK, ProcessType
    <3>4. QED
      BY <2>4, <3>1, <3>2, <3>3
         DEF QueryMode, StopMotor, TypeOK, settings, ProcessType
  <2>5. CASE QueryScan
    <3>1. process.pri # LastScanned => process.pri + 1 \in Priority
      BY DEF TypeOK, LastScanned, TP_REGULAR, Priority, TP_RFID
    <3>2. findLeftMostChild(process.pri) \in Items \cup {None}
      BY DEF TypeOK, findLeftMostChild
    <3>3. process' \in ProcessType
      <4>. DEFINE l == findLeftMostChild(process.pri)
      <4>0. process \in ProcessType
        BY DEF TypeOK, ProcessType
      <4>1. \/ process' = At("unlocked")
            \/ process' = [process EXCEPT !.at = "dispatch", !.next = l]
            \/ /\ process.pri # LastScanned
               /\ process' = [process EXCEPT !.pri = process.pri + 1]
        BY <2>5 DEF QueryScan
      <4>3. [process EXCEPT !.at = "dispatch", !.next = l] \in ProcessType
        BY <3>2, <4>0 DEF ProcessType
      <4>4. process.pri # LastScanned
              => [process EXCEPT !.pri = process.pri + 1] \in ProcessType
        BY <3>1, <4>0 DEF ProcessType
      <4>5. QED
        BY <4>1, <4>3, <4>4, AtType
    <3>4. QED
      BY <2>5, <3>3 DEF QueryScan, TypeOK, others, settings, ProcessType
  <2>6. CASE Start
    <3>1. item' \in [Items -> MoveTaskItem]
      BY <2>6, OperationType DEF Start, TypeOK
    <3>2. process' \in ProcessType
      BY <2>6, AtType DEF Start
    <3>3. QED
      BY <2>6, <3>1, <3>2 DEF Start, TypeOK, settings, ProcessType
  <2>7. ASSUME NEW i \in Items, NEW r \in { "ST_GOING", "ST_DONE" }, RunCurrent(i, r)
        PROVE  TypeOK'
    <3>1. process' \in ProcessType
      BY <2>7, AtType DEF RunCurrent
    <3>2. Run(i, r)
      BY <2>7 DEF RunCurrent
    <3>3. QED
      BY <2>7, <3>1, <3>2, RunType DEF RunCurrent, TypeOK, ProcessType
  <2>8. CASE Continuation \/ Trigger
    <3>1. /\ thread' \in ThreadType
          /\ runMode' \in RunMode /\ motorLock' \in BOOLEAN
          /\ ussExcep' \in BOOLEAN /\ alive' \in BOOLEAN
      BY <2>8, OtherThreads
    <3>2. CASE ProducerStep
      <4>1. rootTasks' \in [Priority -> Seq(Items)] /\ item' \in [Items -> MoveTaskItem]
        BY <3>2, ProducesType, ClearType DEF ProducerStep, TypeOK
      <4>2. QED
        BY <3>1, <3>2, <4>1 DEF ProducerStep, others, settings, ThreadType, TypeOK
    <3>3. CASE AgeStep
      <4>1. PICK i \in Members(TP_REGULAR) : CancelWith(clearMoveTask(i), i)
        BY <3>3 DEF AgeStep
      <4>2. i \in Items
        BY MembersAreItems, Priorities
      <4>3. item' \in [Items -> MoveTaskItem] /\ execRes' \in [Tasks -> Result]
        BY <4>1, <4>2, ClearMoveTaskKeeps, CancelWithFacts
      <4>4. QED
        BY <3>1, <3>3, <4>3 DEF AgeStep, ThreadType, TypeOK
    <3>4. CASE QuietStep
      BY <3>1, <3>4 DEF QuietStep, ThreadType, TypeOK, MoveState
    <3>5. QED
      BY <2>8, <3>2, <3>3, <3>4, OtherThreads
  <2>9. CASE UNCHANGED vars
    BY <2>9 DEF vars, TypeOK, settings
  <2>10. QED
    BY <2>1, <2>2, <2>3, <2>4, <2>5, <2>6, <2>7, <2>8, <2>9 DEF Next, Process
<1>3. QED
  BY <1>1, <1>2, PTL DEF Spec


-----------------------------------------------------------------------------
(* Queues R of distinct groups.                                            *)

Queues == [Priority -> Seq(Items)]

\* No group is queued twice.
Once(R) ==
  \A p, q \in Priority :
    \A j \in DOMAIN R[p], k \in DOMAIN R[q] : R[p][j] = R[q][k] => p = q /\ j = k

\* Group i is at the left end of a queue.
HeadOf(R, i) == \E p \in Priority : R[p] # <<>> /\ Head(R[p]) = i

LEMMA HeadsOnlyParts ==
  HeadsOnly <=>
    /\ Once(rootTasks)
    /\ curTaskItem # None => HeadOf(rootTasks, curTaskItem)
    /\ \A i \in Items : item[i].active => HeadOf(rootTasks, i)
    /\ process.at = "dispatch" => HeadOf(rootTasks, process.next)
BY DEF HeadsOnly, Once, HeadOf, IsHead

LEMMA HeadsOnlyPartsNext ==
  HeadsOnly' <=>
    /\ Once(rootTasks')
    /\ curTaskItem' # None => HeadOf(rootTasks', curTaskItem')
    /\ \A i \in Items : item'[i].active => HeadOf(rootTasks', i)
    /\ process'.at = "dispatch" => HeadOf(rootTasks', process'.next)
BY DEF HeadsOnly, Once, HeadOf, IsHead

LEMMA AppendHeads ==
  ASSUME NEW R \in Queues, NEW p \in Priority, NEW s \in Seq(Items), NEW i,
         HeadOf(R, i)
  PROVE  HeadOf([R EXCEPT ![p] = @ \o s], i)
<1>. DEFINE T == [R EXCEPT ![p] = @ \o s]
<1>1. PICK q \in Priority : R[q] # <<>> /\ Head(R[q]) = i
  BY DEF HeadOf
<1>2. R[q] \in Seq(Items)
  BY DEF Queues
<1>3. T[q] # <<>> /\ Head(T[q]) = i
  <2>1. CASE q = p
    <3>1. T[q] = R[q] \o s
      BY <2>1 DEF Queues
    <3>2. QED
      BY <1>1, <1>2, <3>1
  <2>2. CASE q # p
    BY <1>1, <2>2 DEF Queues
  <2>3. QED
    BY <2>1, <2>2
<1>4. QED
  BY <1>3 DEF HeadOf

LEMMA AppendOnce ==
  ASSUME NEW R \in Queues, NEW p \in Priority, NEW s \in Seq(Items), Once(R),
         \A j, k \in DOMAIN s : s[j] = s[k] => j = k,
         \A q \in Priority : Range(s) \cap Range(R[q]) = {}
  PROVE  Once([R EXCEPT ![p] = @ \o s])
<1>. DEFINE T == [R EXCEPT ![p] = @ \o s]
<1>1. ASSUME NEW q \in Priority, NEW j \in DOMAIN T[q]
      PROVE  \/ j \in DOMAIN R[q] /\ T[q][j] = R[q][j]
             \/ /\ q = p
                /\ j - Len(R[q]) \in DOMAIN s
                /\ T[q][j] = s[j - Len(R[q])]
  <2>1. R[q] \in Seq(Items)
    BY DEF Queues
  <2>2. CASE q = p
    <3>1. T[q] = R[q] \o s
      BY <2>2 DEF Queues
    <3>2. j \in 1 .. Len(R[q]) + Len(s)
      BY <1>1, <2>1, <3>1
    <3>3. QED
      BY <2>1, <2>2, <3>1, <3>2
  <2>3. CASE q # p
    BY <1>1, <2>3 DEF Queues
  <2>4. QED
    BY <2>2, <2>3
<1>2. ASSUME NEW q \in Priority, NEW r \in Priority,
             NEW j \in DOMAIN T[q], NEW k \in DOMAIN T[r], T[q][j] = T[r][k]
      PROVE  q = r /\ j = k
  <2>1. CASE /\ j \in DOMAIN R[q] /\ T[q][j] = R[q][j]
             /\ k \in DOMAIN R[r] /\ T[r][k] = R[r][k]
    BY <1>2, <2>1 DEF Once
  <2>2. CASE /\ j \in DOMAIN R[q] /\ T[q][j] = R[q][j]
             /\ k - Len(R[r]) \in DOMAIN s /\ T[r][k] = s[k - Len(R[r])]
    BY <1>2, <2>2 DEF Range
  <2>3. CASE /\ k \in DOMAIN R[r] /\ T[r][k] = R[r][k]
             /\ j - Len(R[q]) \in DOMAIN s /\ T[q][j] = s[j - Len(R[q])]
    BY <1>2, <2>3 DEF Range
  <2>4. CASE /\ q = p /\ r = p
             /\ j - Len(R[q]) \in DOMAIN s /\ T[q][j] = s[j - Len(R[q])]
             /\ k - Len(R[r]) \in DOMAIN s /\ T[r][k] = s[k - Len(R[r])]
    <3>1. j - Len(R[p]) = k - Len(R[p])
      BY <1>2, <2>4
    <3>2. j \in Int /\ k \in Int /\ Len(R[p]) \in Int
      <4>1. R[p] \in Seq(Items) /\ T[p] \in Seq(Items)
        BY DEF Queues
      <4>2. QED
        BY <2>4, <4>1
    <3>3. QED
      BY <2>4, <3>1, <3>2
  <2>5. QED
    BY <1>1, <2>1, <2>2, <2>3, <2>4
<1>3. QED
  BY <1>2 DEF Once

LEMMA RemoveElsewhere ==
  ASSUME NEW s, NEW i, i \notin Range(s)
  PROVE  remove(s, i) = s
BY DEF remove

LEMMA RemoveHead ==
  ASSUME NEW s \in Seq(Items), s # <<>>,
         \A j, k \in DOMAIN s : s[j] = s[k] => j = k
  PROVE  remove(s, Head(s)) = Tail(s)
<1>1. 1 \in DOMAIN s /\ Head(s) = s[1]
  OBVIOUS
<1>2. Head(s) \in Range(s)
  BY <1>1 DEF Range
<1>3. (CHOOSE j \in DOMAIN s : s[j] = Head(s)) = 1
  BY <1>1
<1>4. remove(s, Head(s)) = SubSeq(s, 1, 0) \o SubSeq(s, 2, Len(s))
  BY <1>2, <1>3 DEF remove
<1>5. SubSeq(s, 1, 0) \o SubSeq(s, 2, Len(s)) = Tail(s)
  OBVIOUS
<1>6. QED
  BY <1>4, <1>5

LEMMA TailAt ==
  ASSUME NEW s \in Seq(Items), s # <<>>, NEW j \in DOMAIN Tail(s)
  PROVE  j \in Int /\ j + 1 \in DOMAIN s /\ Tail(s)[j] = s[j + 1]
OBVIOUS

\* The head i of a queue leaves it: nothing else changes place in the order.
LEMMA RemoveFacts ==
  ASSUME NEW R \in Queues, Once(R), NEW i, HeadOf(R, i)
  PROVE  LET T == [p \in Priority |-> remove(R[p], i)]
         IN  /\ Once(T)
             /\ \A j : j # i /\ HeadOf(R, j) => HeadOf(T, j)
<1>. DEFINE T == [p \in Priority |-> remove(R[p], i)]
<1>1. PICK q \in Priority : R[q] # <<>> /\ Head(R[q]) = i
  BY DEF HeadOf
<1>2. ASSUME NEW p \in Priority
      PROVE  R[p] \in Seq(Items)
             /\ \A j, k \in DOMAIN R[p] : R[p][j] = R[p][k] => j = k
  BY DEF Queues, Once
<1>3. T[q] = Tail(R[q])
  BY <1>1, <1>2, RemoveHead
<1>4. ASSUME NEW p \in Priority, p # q PROVE T[p] = R[p]
  <2>1. 1 \in DOMAIN R[q] /\ R[q][1] = i
    BY <1>1, <1>2
  <2>2. i \notin Range(R[p])
    BY <1>4, <2>1 DEF Once, Range
  <2>3. QED
    BY <2>2, RemoveElsewhere
<1>5. ASSUME NEW j \in DOMAIN T[q]
      PROVE  j \in Int /\ j + 1 \in DOMAIN R[q] /\ T[q][j] = R[q][j + 1]
  <2>1. R[q] \in Seq(Items)
    BY <1>2
  <2>2. j \in DOMAIN Tail(R[q])
    BY <1>3, <1>5
  <2>3. QED
    BY <1>1, <1>3, <2>1, <2>2, TailAt
<1>6. Once(T)
  <2>1. SUFFICES ASSUME NEW a \in Priority, NEW b \in Priority,
                        NEW j \in DOMAIN T[a], NEW k \in DOMAIN T[b],
                        T[a][j] = T[b][k]
                 PROVE  a = b /\ j = k
    BY DEF Once
  <2>. HIDE DEF T
  <2>2. CASE a = q /\ b = q
    BY <1>5, <2>1, <2>2 DEF Once
  <2>3. CASE a = q /\ b # q
    BY <1>4, <1>5, <2>1, <2>3 DEF Once
  <2>4. CASE a # q /\ b = q
    BY <1>4, <1>5, <2>1, <2>4 DEF Once
  <2>5. CASE a # q /\ b # q
    BY <1>4, <2>1, <2>5 DEF Once
  <2>6. QED
    BY <2>2, <2>3, <2>4, <2>5
<1>7. ASSUME NEW j, j # i, HeadOf(R, j) PROVE HeadOf(T, j)
  <2>1. PICK p \in Priority : R[p] # <<>> /\ Head(R[p]) = j
    BY <1>7 DEF HeadOf
  <2>2. p # q
    BY <1>1, <1>7, <2>1
  <2>3. QED
    BY <1>4, <2>1, <2>2 DEF HeadOf
<1>8. QED
  BY <1>6, <1>7
-----------------------------------------------------------------------------
(* The pointers of the process thread never dangle.                        *)

\* Emptying groups activates none of them.
LEMMA ClearKeepsActive ==
  ASSUME TypeOK, NEW i \in Items
  PROVE  /\ \A P : clearTaskCommands(P)[i].active = item[i].active
         /\ \A p : clearTaskCommandsExceptPatroPlan(p)[i].active = item[i].active
<1>1. clearCommands(item[i]).active = item[i].active
  BY DEF clearCommands, TypeOK, MoveTaskItem
<1>2. QED
  BY <1>1 DEF clearTaskCommands, clearTaskCommandsExceptPatroPlan

\* A step that moves no group, activates none and chooses none.
LEMMA FrameHeads ==
  ASSUME HeadsOnly, rootTasks' = rootTasks, curTaskItem' \in { curTaskItem, None },
         \A i \in Items : item'[i].active => item[i].active,
         process'.at = "dispatch" => process' = process
  PROVE  HeadsOnly'
BY HeadsOnlyParts, HeadsOnlyPartsNext

LEMMA EnqueueHeads ==
  ASSUME TypeOK, HeadsOnly, NEW p \in Priority, NEW news \in Seq(NewItems), NEW base,
         \A i \in Items : base[i].active = item[i].active,
         Enqueue(p, news, base), curTaskItem' = curTaskItem,
         process'.at # "dispatch"
  PROVE  HeadsOnly'
<1>1. news \in Seq(MoveTaskItem)
  <2>1. NewItems \subseteq MoveTaskItem
    BY DEF NewItems
  <2>2. QED
    BY <2>1
<1>2. rootTasks \in Queues
  BY DEF TypeOK, Queues
<1>3. PICK s \in Seq(Items) : Appended(p, news, base, s)
  BY <1>1, EnqueueFacts DEF TypeOK
<1>4. rootTasks' = [rootTasks EXCEPT ![p] = @ \o s]
  BY <1>3 DEF Appended
<1>5. Once(rootTasks')
  <2>1. \A q \in Priority : Range(s) \cap Range(rootTasks[q]) = {}
    BY <1>3 DEF Appended, Queued, Members
  <2>2. \A j, k \in DOMAIN s : s[j] = s[k] => j = k
    BY <1>3 DEF Appended
  <2>3. QED
    BY <1>2, <1>4, <2>1, <2>2, AppendOnce, HeadsOnlyParts
<1>6. \A i : HeadOf(rootTasks, i) => HeadOf(rootTasks', i)
  BY <1>2, <1>4, AppendHeads
<1>7. ASSUME NEW i \in Items, item'[i].active PROVE HeadOf(rootTasks', i)
  <2>1. CASE i \in Range(s)
    <3>1. PICK k \in DOMAIN s : s[k] = i
      BY <2>1 DEF Range
    <3>2. item'[i] = news[k] /\ k \in DOMAIN news
      BY <1>3, <3>1 DEF Appended
    <3>3. QED
      BY <1>7, <3>2 DEF NewItems
  <2>2. CASE i \notin Range(s)
    <3>1. item'[i] = base[i]
      BY <1>3, <2>2 DEF Appended
    <3>2. item[i].active
      BY <1>7, <3>1
    <3>3. QED
      BY <1>6, <3>2, HeadsOnlyParts
  <2>3. QED
    BY <2>1, <2>2
<1>8. QED
  BY <1>5, <1>6, <1>7, HeadsOnlyParts, HeadsOnlyPartsNext

LEMMA ProducesHeads ==
  ASSUME TypeOK, HeadsOnly, NEW p \in Priority, Produces(p),
         curTaskItem' = curTaskItem, process'.at # "dispatch"
  PROVE  HeadsOnly'
<1>1. PICK news \in Seq(NewItems) :
        Enqueue(p, news, item) \/ Enqueue(p, news, clearTaskCommands({p}))
  BY ProducesNews
<1>2. CASE Enqueue(p, news, item)
  BY <1>2, EnqueueHeads
<1>3. CASE Enqueue(p, news, clearTaskCommands({p}))
  BY <1>3, EnqueueHeads, ClearKeepsActive
<1>4. QED
  BY <1>1, <1>2, <1>3

LEMMA InitHeads == Init => HeadsOnly
<1>. SUFFICES ASSUME Init PROVE HeadsOnly
  OBVIOUS
<1>1. Once(rootTasks)
  BY DEF Init, Once
<1>2. curTaskItem = None /\ process.at = "boot"
  BY DEF Init, At
<1>3. \A i \in Items : ~item[i].active
  BY DEF Init, Blank, NewItem
<1>4. QED
  BY <1>1, <1>2, <1>3, HeadsOnlyParts

\* The process thread deletes the head of a queue, dispatches a head and
\* activates only the group it has dispatched.
LEMMA ProcessHeads ==
  ASSUME TypeOK, HeadsOnly, Process
  PROVE  HeadsOnly'
<1>1. CASE Boot
  <2>1. curTaskItem' = curTaskItem /\ process'.at # "dispatch"
    BY <1>1 DEF Boot, others, At
  <2>2. CASE createPtzArmHomeTaskItem(TP_RECHARGE)
    BY <2>1, <2>2, Priorities, ProducersProduce, ProducesHeads
  <2>3. CASE UNCHANGED <<rootTasks, item>>
    BY <2>1, <2>3, FrameHeads
  <2>4. QED
    BY <1>1, <2>2, <2>3 DEF Boot
<1>2. CASE ProcessReap
  <2>1. process'.at # "dispatch"
    BY <1>2 DEF ProcessReap, At
  <2>2. CASE UNCHANGED <<rootTasks, item, curTaskItem, execRes>>
    BY <2>1, <2>2, FrameHeads
  <2>3. CASE /\ Zombie
             /\ rootTasks' = [p \in Priority |-> remove(rootTasks[p], curTaskItem)]
             /\ item' = [item EXCEPT ![curTaskItem] = Blank]
             /\ curTaskItem' = None
    <3>1. HeadOf(rootTasks, curTaskItem) /\ Once(rootTasks)
      BY <2>3, HeadsOnlyParts DEF Zombie
    <3>2. rootTasks \in Queues
      BY DEF TypeOK, Queues
    <3>3. /\ Once(rootTasks')
          /\ \A j : j # curTaskItem /\ HeadOf(rootTasks, j) => HeadOf(rootTasks', j)
      BY <2>3, <3>1, <3>2, RemoveFacts
    <3>4. ASSUME NEW i \in Items, item'[i].active
          PROVE  i # curTaskItem /\ item[i].active
      BY <2>3, <3>4 DEF TypeOK, Blank, NewItem
    <3>5. QED
      BY <2>1, <2>3, <3>3, <3>4, HeadsOnlyParts, HeadsOnlyPartsNext
  <2>4. QED
    BY <1>2, <2>2, <2>3 DEF ProcessReap
<1>3. CASE LockCheck
  <2>1. process'.at # "dispatch"
    BY <1>3 DEF LockCheck, At
  <2>2. rootTasks' = rootTasks /\ curTaskItem' \in { curTaskItem, None }
    BY <1>3 DEF LockCheck
  <2>3. \A i \in Items : item'[i].active => item[i].active
    BY <1>3, ClearKeepsActive DEF LockCheck
  <2>4. QED
    BY <2>1, <2>2, <2>3, FrameHeads
<1>4. CASE QueryMode
  <2>1. process'.at # "dispatch"
    BY <1>4 DEF QueryMode, At
  <2>2. rootTasks' = rootTasks /\ curTaskItem' \in { curTaskItem, None }
    BY <1>4 DEF QueryMode
  <2>3. ASSUME NEW i \in Items, item'[i].active PROVE item[i].active
    <3>. DEFINE cleared == clearTaskCommands({TP_MANUL, TP_PLAN, TP_REGULAR})
    <3>1. CASE item' = item
      BY <2>3, <3>1
    <3>2. CASE item' = cleared
      BY <2>3, <3>2, ClearKeepsActive
    <3>3. CASE item' = [cleared EXCEPT ![curTaskItem] = exceptionsExit(@)]
               /\ curTaskItem # None
      <4>1. cleared \in [Items -> MoveTaskItem] /\ curTaskItem \in Items
        BY <3>3, ClearType DEF TypeOK
      <4>2. ~exceptionsExit(cleared[curTaskItem]).active
        BY <4>1 DEF exceptionsExit, MoveTaskItem
      <4>3. i # curTaskItem /\ cleared[i].active
        <5>. HIDE DEF cleared
        <5>1. QED
          BY <2>3, <3>3, <4>1, <4>2
      <4>4. QED
        BY <4>3, ClearKeepsActive
    <3>4. QED
      BY <1>4, <3>1, <3>2, <3>3 DEF QueryMode, CancelWith
  <2>4. QED
    BY <2>1, <2>2, <2>3, FrameHeads
<1>5. CASE QueryScan
  <2>. DEFINE l == findLeftMostChild(process.pri)
  <2>1. /\ rootTasks' = rootTasks /\ item' = item /\ curTaskItem' = curTaskItem
        /\ process.at = "scan"
    BY <1>5 DEF QueryScan, ProcessAt, others
  <2>2. \/ process' = At("unlocked")
        \/ process' = [process EXCEPT !.at = "dispatch", !.next = l] /\ l # None
        \/ process' = [process EXCEPT !.pri = process.pri + 1]
    BY <1>5 DEF QueryScan
  <2>3. process \in ProcessType
    BY DEF TypeOK, ProcessType
  <2>4. CASE process' = [process EXCEPT !.at = "dispatch", !.next = l] /\ l # None
    <3>1. process'.next = l
      BY <2>3, <2>4 DEF ProcessType
    <3>2. process.pri \in Priority /\ rootTasks[process.pri] # <<>>
          /\ Head(rootTasks[process.pri]) = l
      BY <2>3, <2>4 DEF findLeftMostChild, ProcessType
    <3>3. HeadOf(rootTasks', process'.next)
      BY <2>1, <3>1, <3>2 DEF HeadOf
    <3>4. QED
      BY <2>1, <3>3, HeadsOnlyParts, HeadsOnlyPartsNext
  <2>5. CASE process' = At("unlocked")
             \/ process' = [process EXCEPT !.pri = process.pri + 1]
    <3>1. process'.at # "dispatch"
      BY <2>1, <2>3, <2>5 DEF At, ProcessType
    <3>2. QED
      BY <2>1, <3>1, FrameHeads
  <2>6. QED
    BY <2>2, <2>4, <2>5
<1>6. CASE Start
  <2>1. /\ process.at = "dispatch" /\ process'.at # "dispatch"
        /\ rootTasks' = rootTasks /\ curTaskItem' = process.next
    BY <1>6 DEF Start, ProcessAt, At
  <2>2. \A i \in Items : item'[i].active = item[i].active
    <3>1. \A c \in MoveTaskItem : initStatusPara(c).active = c.active
      BY DEF initStatusPara, MoveTaskItem
    <3>2. item' = [item EXCEPT ![process.next] = initStatusPara(@)]
      BY <1>6 DEF Start
    <3>3. QED
      BY <3>1, <3>2 DEF TypeOK
  <2>3. QED
    BY <2>1, <2>2, HeadsOnlyParts, HeadsOnlyPartsNext
<1>7. ASSUME NEW i \in Items, NEW r \in { "ST_GOING", "ST_DONE" }, RunCurrent(i, r)
      PROVE  HeadsOnly'
  <2>1. /\ process'.at # "dispatch" /\ rootTasks' = rootTasks
        /\ i = curTaskItem /\ curTaskItem' = curTaskItem /\ i # None
    BY <1>7, ConstantsOK DEF RunCurrent, At
  <2>2. \A j \in Items : j # i => item'[j] = item[j]
    BY <1>7 DEF RunCurrent, Run, Exec, TypeOK
  <2>3. HeadOf(rootTasks, i)
    BY <2>1, HeadsOnlyParts
  <2>4. QED
    BY <2>1, <2>2, <2>3, HeadsOnlyParts, HeadsOnlyPartsNext
<1>8. QED
  BY <1>1, <1>2, <1>3, <1>4, <1>5, <1>6, <1>7 DEF Process

\* In every state each group is queued once, and the current group, every
\* started group and the group about to be run are heads of their queues.
THEOREM HeadsAlways == Spec => []HeadsOnly
<1>1. TypeOK /\ HeadsOnly /\ [Next]_vars => HeadsOnly'
  <2>. SUFFICES ASSUME TypeOK, HeadsOnly, [Next]_vars PROVE HeadsOnly'
    OBVIOUS
  <2>1. CASE Process
    BY <2>1, ProcessHeads
  <2>2. CASE ProducerStep
    <3>1. process'.at # "dispatch" /\ curTaskItem' = curTaskItem /\ process' = process
      BY <2>2 DEF ProducerStep, MutexFree, others
    <3>2. CASE \E p \in Priority : Produces(p)
      BY <3>1, <3>2, ProducesHeads
    <3>3. CASE \E p \in Priority : item' = clearTaskCommands({p}) /\ UNCHANGED rootTasks
      BY <3>1, <3>3, ClearKeepsActive, FrameHeads
    <3>4. QED
      BY <2>2, <3>2, <3>3 DEF ProducerStep
  <2>3. CASE AgeStep
    <3>1. PICK i \in Members(TP_REGULAR) : CancelWith(clearMoveTask(i), i)
      BY <2>3 DEF AgeStep
    <3>2. i \in Items
      BY MembersAreItems, Priorities
    <3>3. ASSUME NEW j \in Items, item'[j].active PROVE item[j].active
      <4>1. /\ clearMoveTask(i)[j] \in MoveTaskItem
            /\ clearMoveTask(i)[j].active = item[j].active
        BY <3>2, ClearMoveTaskKeeps
      <4>2. \/ item'[j] = clearMoveTask(i)[j]
            \/ item'[j] = exceptionsExit(clearMoveTask(i)[j])
        BY <3>1, <3>2, ClearMoveTaskKeeps, CancelWithFacts
      <4>3. QED
        BY <3>3, <4>1, <4>2 DEF exceptionsExit, MoveTaskItem
    <3>4. QED
      BY <2>3, <3>3, FrameHeads DEF AgeStep
  <2>4. CASE QuietStep
    BY <2>4, FrameHeads DEF QuietStep
  <2>5. CASE UNCHANGED vars
    BY <2>5, FrameHeads DEF vars
  <2>6. QED
    BY <2>1, <2>2, <2>3, <2>4, <2>5, OtherThreads DEF Next
<1>2. QED
  BY <1>1, InitHeads, TypeCorrect, PTL DEF Spec
-----------------------------------------------------------------------------
(* run never uses an iterator that points at nothing.                      *)

\* The iterator of a group with commands points at one of them.
Runnable(c) == Emptied(c) \/ c.at \in DOMAIN c.cmds

\* A current group without commands has been deleted at the start of the
\* round, and for the rest of it nobody else can empty a group.
CommandInv ==
  /\ curTaskItem # None => Runnable(item[curTaskItem])
  /\ curTaskItem # None /\ process.at \in { "lockCheck", "query", "scan", "dispatch" }
       => ~Emptied(item[curTaskItem])

LEMMA ClearRunnable ==
  \A c \in MoveTaskItem : Runnable(clearCommands(c))
BY DEF clearCommands, Runnable, Emptied, MoveTaskItem

LEMMA ClearedRunnable ==
  ASSUME TypeOK, NEW i \in Items, Runnable(item[i])
  PROVE  \A P : Runnable(clearTaskCommands(P)[i])
BY ClearRunnable DEF clearTaskCommands, TypeOK

\* The current group is queued, so no new group takes its place.
LEMMA ProducesRunnable ==
  ASSUME TypeOK, HeadsOnly, CommandInv, NEW p \in Priority, Produces(p),
         curTaskItem # None
  PROVE  Runnable(item'[curTaskItem])
<1>1. PICK news \in Seq(NewItems) :
        Enqueue(p, news, item) \/ Enqueue(p, news, clearTaskCommands({p}))
  BY ProducesNews
<1>2. news \in Seq(MoveTaskItem)
  <2>1. NewItems \subseteq MoveTaskItem
    BY DEF NewItems
  <2>2. QED
    BY <2>1
<1>3. curTaskItem \in Items /\ curTaskItem \in Queued
  <2>1. PICK q \in Priority : rootTasks[q] # <<>> /\ Head(rootTasks[q]) = curTaskItem
    BY DEF HeadsOnly, IsHead
  <2>2. rootTasks[q] \in Seq(Items)
    BY DEF TypeOK
  <2>3. 1 \in DOMAIN rootTasks[q] /\ rootTasks[q][1] = curTaskItem
    BY <2>1, <2>2
  <2>4. QED
    BY <2>3 DEF TypeOK, Queued, Members, Range
<1>4. ASSUME NEW base, Enqueue(p, news, base) PROVE item'[curTaskItem] = base[curTaskItem]
  <2>1. PICK s \in Seq(Items) : Appended(p, news, base, s)
    BY <1>2, <1>4, EnqueueFacts DEF TypeOK
  <2>2. QED
    BY <1>3, <2>1 DEF Appended
<1>5. QED
  BY <1>1, <1>3, <1>4, ClearedRunnable DEF CommandInv

LEMMA RunRunnable ==
  ASSUME TypeOK, NEW i \in Items, NEW r \in { "ST_GOING", "ST_DONE" }, Run(i, r),
         item[i].at \in DOMAIN item[i].cmds
  PROVE  Runnable(item'[i])
<1>. DEFINE c == item[i]
<1>1. c \in MoveTaskItem /\ c.cmds \in Seq(CommandKind) /\ c.at \in Nat
  BY DEF TypeOK, MoveTaskItem
<1>2. ASSUME NEW d \in MoveTaskItem, Exec(i, d, r), d.at \in DOMAIN d.cmds
      PROVE  Runnable(item'[i])
  <2>1. item'[i] = [d EXCEPT !.ret = r]
    BY <1>2 DEF Exec, TypeOK
  <2>2. item'[i].at = d.at /\ item'[i].cmds = d.cmds
    BY <2>1 DEF MoveTaskItem
  <2>3. QED
    BY <1>2, <2>2 DEF Runnable
<1>3. CASE Exec(i, [c EXCEPT !.active = @ \/ (c.at = 1 /\ c.ret = "ST_SLEEP")], r)
  <2>. DEFINE d == [c EXCEPT !.active = @ \/ (c.at = 1 /\ c.ret = "ST_SLEEP")]
  <2>1. d \in MoveTaskItem /\ d.at = c.at /\ d.cmds = c.cmds
    BY <1>1 DEF MoveTaskItem
  <2>2. QED
    BY <1>2, <1>3, <2>1
<1>4. CASE Exec(i, [c EXCEPT !.at = @ + 1], r) /\ c.at < Len(c.cmds)
  <2>. DEFINE d == [c EXCEPT !.at = @ + 1]
  <2>1. d \in MoveTaskItem /\ d.at = c.at + 1 /\ d.cmds = c.cmds
    BY <1>1 DEF MoveTaskItem
  <2>2. d.at \in DOMAIN d.cmds
    <3>1. c.at + 1 \in DOMAIN c.cmds
      BY <1>1, <1>4
    <3>2. QED
      BY <2>1, <3>1
  <2>3. QED
    BY <1>2, <1>4, <2>1, <2>2
<1>5. CASE item' = [item EXCEPT ![i] = clearCommands([c EXCEPT !.active = FALSE])]
  <2>1. [c EXCEPT !.active = FALSE] \in MoveTaskItem
    BY <1>1 DEF MoveTaskItem
  <2>2. item'[i] = clearCommands([c EXCEPT !.active = FALSE])
    BY <1>5 DEF TypeOK
  <2>3. QED
    BY <2>1, <2>2, ClearRunnable
<1>6. QED
  BY <1>3, <1>4, <1>5 DEF Run

LEMMA ProcessCommand ==
  ASSUME TypeOK, HeadsOnly, CommandInv, Process
  PROVE  CommandInv'
<1>1. CASE Boot
  <2>1. process'.at = "unlocked" /\ curTaskItem' = curTaskItem
    BY <1>1 DEF Boot, At, others
  <2>2. curTaskItem # None => Runnable(item'[curTaskItem])
    BY <1>1, Priorities, ProducersProduce, ProducesRunnable DEF Boot, CommandInv
  <2>3. QED
    BY <2>1, <2>2 DEF CommandInv, Runnable, Emptied
<1>2. CASE ProcessReap
  BY <1>2 DEF ProcessReap, Zombie, CommandInv, Runnable, Emptied
<1>3. CASE LockCheck
  <2>1. \/ curTaskItem' = None
        \/ /\ UNCHANGED <<item, curTaskItem>>
           /\ process.at = "lockCheck"
    BY <1>3 DEF LockCheck, ProcessAt
  <2>2. QED
    BY <2>1 DEF CommandInv, Runnable, Emptied
<1>4. CASE QueryMode
  <2>1. \/ curTaskItem' = None
        \/ /\ UNCHANGED <<item, curTaskItem>>
           /\ process.at = "query"
    BY <1>4 DEF QueryMode, ProcessAt
  <2>2. QED
    BY <2>1 DEF CommandInv, Runnable, Emptied
<1>5. CASE QueryScan
  <2>1. UNCHANGED <<item, curTaskItem>> /\ process.at = "scan"
    BY <1>5 DEF QueryScan, ProcessAt, others
  <2>2. QED
    BY <2>1 DEF CommandInv, Runnable, Emptied
<1>6. CASE Start
  <2>1. process.next \in Items
    <3>1. PICK q \in Priority : rootTasks[q] # <<>> /\ Head(rootTasks[q]) = process.next
      BY <1>6 DEF Start, ProcessAt, HeadsOnly, IsHead
    <3>2. rootTasks[q] \in Seq(Items)
      BY DEF TypeOK
    <3>3. QED
      BY <3>1, <3>2
  <2>2. item[process.next] \in MoveTaskItem
    BY <2>1 DEF TypeOK
  <2>3. /\ item'[process.next] = initStatusPara(item[process.next])
        /\ curTaskItem' = process.next
        /\ process'.at = "unlocked"
    BY <1>6, <2>1 DEF Start, TypeOK, At
  <2>4. \A c \in MoveTaskItem : Runnable(initStatusPara(c))
    <3>1. SUFFICES ASSUME NEW c \in MoveTaskItem, c.cmds # <<>>
                   PROVE  Runnable([c EXCEPT !.at = 1, !.ret = "ST_SLEEP"])
      BY DEF initStatusPara, Runnable, Emptied
    <3>2. c.cmds \in Seq(CommandKind)
      BY DEF MoveTaskItem
    <3>3. 1 \in DOMAIN c.cmds
      BY <3>1, <3>2
    <3>4. QED
      BY <3>3 DEF Runnable, MoveTaskItem
  <2>5. QED
    BY <2>2, <2>3, <2>4 DEF CommandInv, Runnable, Emptied
<1>7. ASSUME NEW i \in Items, NEW r \in { "ST_GOING", "ST_DONE" }, RunCurrent(i, r)
      PROVE  CommandInv'
  <2>1. /\ process.at = "dispatch" /\ process'.at = "unlocked"
        /\ i = curTaskItem /\ curTaskItem' = i /\ i # None
        /\ Run(i, r)
    BY <1>7, ConstantsOK DEF RunCurrent, ProcessAt, At
  <2>2. item[i].at \in DOMAIN item[i].cmds
    BY <2>1 DEF CommandInv, Runnable
  <2>3. Runnable(item'[i])
    BY <2>1, <2>2, RunRunnable
  <2>4. QED
    BY <2>1, <2>3 DEF CommandInv, Runnable, Emptied
<1>8. QED
  BY <1>1, <1>2, <1>3, <1>4, <1>5, <1>6, <1>7 DEF Process

\* The process thread calls run only on a group whose iterator points at a
\* command, whatever the other threads have emptied in the meantime.
THEOREM RunAlwaysHasCommand == Spec => []RunHasCommand
<1>1. Init => CommandInv
  BY DEF Init, CommandInv
<1>2. TypeOK /\ HeadsOnly /\ CommandInv /\ [Next]_vars => CommandInv'
  <2>. SUFFICES ASSUME TypeOK, HeadsOnly, CommandInv, [Next]_vars PROVE CommandInv'
    OBVIOUS
  <2>1. CASE Process
    BY <2>1, ProcessCommand
  <2>2. CASE ProducerStep
    <3>1. /\ process' = process /\ curTaskItem' = curTaskItem
          /\ process.at \in { "unlocked", "boot" }
      BY <2>2 DEF ProducerStep, MutexFree, others
    <3>2. curTaskItem # None => Runnable(item'[curTaskItem])
      <4>1. CASE \E p \in Priority : Produces(p)
        BY <4>1, ProducesRunnable
      <4>2. CASE \E p \in Priority : item' = clearTaskCommands({p})
        BY <4>2, ClearedRunnable DEF CommandInv, TypeOK
      <4>3. QED
        BY <2>2, <4>1, <4>2 DEF ProducerStep
    <3>3. QED
      BY <3>1, <3>2 DEF CommandInv, Runnable, Emptied
  <2>3. CASE AgeStep
    <3>1. /\ process' = process /\ curTaskItem' = curTaskItem
          /\ process.at \in { "unlocked", "boot" }
      BY <2>3 DEF AgeStep, MutexFree
    <3>2. curTaskItem # None => Runnable(item'[curTaskItem])
      <4>1. PICK i \in Members(TP_REGULAR) : CancelWith(clearMoveTask(i), i)
        BY <2>3 DEF AgeStep
      <4>2. i \in Items
        BY MembersAreItems, Priorities
      <4>. SUFFICES ASSUME NEW j \in Items, Runnable(item[j])
                    PROVE  Runnable(item'[j])
        BY DEF CommandInv, TypeOK
      <4>3. /\ clearMoveTask(i)[j] \in MoveTaskItem
            /\ Runnable(clearMoveTask(i)[j])
        <5>1. /\ clearMoveTask(i)[j] \in MoveTaskItem
              /\ \/ clearMoveTask(i)[j] = item[j]
                 \/ clearMoveTask(i)[j] = clearCommands(item[j])
          BY <4>2, ClearMoveTaskKeeps
        <5>2. item[j] \in MoveTaskItem
          BY DEF TypeOK
        <5>3. QED
          BY <5>1, <5>2, ClearRunnable
      <4>4. \/ item'[j] = clearMoveTask(i)[j]
            \/ item'[j] = exceptionsExit(clearMoveTask(i)[j])
        BY <4>1, <4>2, ClearMoveTaskKeeps, CancelWithFacts
      <4>5. QED
        BY <4>3, <4>4 DEF exceptionsExit, MoveTaskItem, Runnable, Emptied
    <3>3. QED
      BY <3>1, <3>2 DEF CommandInv, Runnable, Emptied
  <2>4. CASE QuietStep
    BY <2>4 DEF QuietStep, CommandInv, Runnable, Emptied
  <2>5. CASE UNCHANGED vars
    BY <2>5 DEF vars, CommandInv, Runnable, Emptied
  <2>6. QED
    BY <2>1, <2>2, <2>3, <2>4, <2>5, OtherThreads DEF Next
<1>3. TypeOK /\ HeadsOnly /\ CommandInv => RunHasCommand
  <2>. SUFFICES ASSUME TypeOK, HeadsOnly, CommandInv, process.at = "dispatch",
                       process.next = curTaskItem
                PROVE  item[curTaskItem].at \in DOMAIN item[curTaskItem].cmds
    BY DEF RunHasCommand
  <2>1. curTaskItem # None
    <3>1. PICK q \in Priority : rootTasks[q] # <<>> /\ Head(rootTasks[q]) = process.next
      BY DEF HeadsOnly, IsHead
    <3>2. rootTasks[q] \in Seq(Items)
      BY DEF TypeOK
    <3>3. process.next \in Items
      BY <3>1, <3>2
    <3>4. QED
      BY <3>3, ConstantsOK
  <2>2. QED
    BY <2>1 DEF CommandInv, Runnable
<1>4. QED
  BY <1>1, <1>2, <1>3, TypeCorrect, HeadsAlways, PTL DEF Spec
-----------------------------------------------------------------------------
(* In a mode that executes nothing, nothing runs.                          *)

Resting == { "HANDLE_CONTROL_MODE", "NONE_MODE" }

\* The mode of the round is the one last acted upon; a mode that runs nothing
\* dispatches nothing and has no current group, so that no group is reaped.
ModeInv ==
  /\ process.at \in { "scan", "dispatch" } => process.mode = lastRunMode
  /\ process.at = "dispatch" => process.mode \notin Resting
  /\ lastRunMode \in Resting => curTaskItem = None

\* What no step does in such a mode.
Rests ==
  /\ motor' = "driven" => motor = "driven"
  /\ motorLock' => motorLock
  /\ curTaskItem' = None
  /\ \A t \in Tasks : execRes'[t] \in { execRes[t], "fail" }

LEMMA ProcessRests ==
  ASSUME TypeOK, ModeInv, Process
  PROVE  /\ ModeInv'
         /\ lastRunMode \in Resting /\ lastRunMode' = lastRunMode => Rests
<1>. DEFINE Quiet == lastRunMode \in Resting /\ lastRunMode' = lastRunMode => Rests
<1>0. process \in ProcessType
  BY DEF TypeOK, ProcessType
<1>1. CASE Boot
  BY <1>1 DEF Boot, At, others, settings, ModeInv, Rests
<1>2. CASE ProcessReap
  <2>1. /\ process'.at = "lockCheck" /\ lastRunMode' = lastRunMode
        /\ motor' = motor /\ motorLock' = motorLock
        /\ curTaskItem' \in { curTaskItem, None }
    BY <1>2 DEF ProcessReap, At, settings
  <2>2. curTaskItem = None => execRes' = execRes
    BY <1>2 DEF ProcessReap, Zombie
  <2>3. QED
    BY <2>1, <2>2 DEF ModeInv, Rests
<1>3. CASE LockCheck
  BY <1>3 DEF LockCheck, At, settings, ModeInv, Rests
<1>4. CASE QueryMode
  <2>1. process'.at = "scan" /\ process'.mode = runMode
    BY <1>4 DEF QueryMode, At
  <2>2. motorLock' = motorLock
    BY <1>4 DEF QueryMode, settings
  <2>3. \/ /\ runMode = lastRunMode
           /\ UNCHANGED <<curTaskItem, lastRunMode, motor, execRes>>
        \/ runMode # lastRunMode /\ lastRunMode' = runMode /\ curTaskItem' = None
    BY <1>4 DEF QueryMode
  <2>4. QED
    BY <2>1, <2>2, <2>3 DEF ModeInv, Rests
<1>5. CASE QueryScan
  <2>. DEFINE l == findLeftMostChild(process.pri)
  <2>1. /\ UNCHANGED <<curTaskItem, lastRunMode, motor, motorLock, execRes>>
        /\ process.at = "scan"
    BY <1>5 DEF QueryScan, ProcessAt, others, settings
  <2>2. \/ process' = At("unlocked")
        \/ /\ process' = [process EXCEPT !.at = "dispatch", !.next = l]
           /\ process.mode # "NONE_MODE" /\ ~Skips(process.pri, l)
        \/ process' = [process EXCEPT !.pri = process.pri + 1]
    BY <1>5 DEF QueryScan
  <2>3. ~Skips(process.pri, l) => process.mode # "HANDLE_CONTROL_MODE"
    BY DEF Skips
  <2>4. CASE process' = At("unlocked")
    BY <2>1, <2>4 DEF ModeInv, Rests, At
  <2>5. CASE /\ process' = [process EXCEPT !.at = "dispatch", !.next = l]
             /\ process.mode # "NONE_MODE" /\ ~Skips(process.pri, l)
    <3>. HIDE DEF l
    <3>1. process'.mode = process.mode
      BY <1>0, <2>5 DEF ProcessType
    <3>2. process.mode \notin Resting
      BY <2>3, <2>5 DEF Resting
    <3>3. QED
      BY <2>1, <2>5, <3>1, <3>2 DEF ModeInv, Rests
  <2>6. CASE process' = [process EXCEPT !.pri = process.pri + 1]
    <3>1. process'.mode = process.mode /\ process'.at = process.at
      BY <1>0, <2>6 DEF ProcessType
    <3>2. QED
      BY <2>1, <3>1 DEF ModeInv, Rests
  <2>7. QED
    BY <2>2, <2>4, <2>5, <2>6
<1>6. CASE Start
  <2>1. lastRunMode \notin Resting
    BY <1>6 DEF Start, ProcessAt, ModeInv
  <2>2. QED
    BY <1>6, <2>1 DEF Start, At, ModeInv
<1>7. ASSUME NEW i \in Items, NEW r \in { "ST_GOING", "ST_DONE" }, RunCurrent(i, r)
      PROVE  ModeInv' /\ Quiet
  <2>1. lastRunMode \notin Resting
    BY <1>7 DEF RunCurrent, ProcessAt, ModeInv
  <2>2. QED
    BY <1>7, <2>1 DEF RunCurrent, At, ModeInv
<1>8. QED
  BY <1>1, <1>2, <1>3, <1>4, <1>5, <1>6, <1>7 DEF Process

LEMMA NextRests ==
  ASSUME TypeOK, ModeInv, [Next]_vars
  PROVE  /\ ModeInv'
         /\ lastRunMode \in Resting /\ lastRunMode' = lastRunMode => Rests
<1>1. CASE Process
  BY <1>1, ProcessRests
<1>2. CASE ProducerStep
  BY <1>2 DEF ProducerStep, others, settings, ModeInv, Rests
<1>3. CASE AgeStep
  <2>1. /\ UNCHANGED <<curTaskItem, lastRunMode, process, motorLock, motor>>
        /\ \E i \in Members(TP_REGULAR) : CancelWith(clearMoveTask(i), i)
    BY <1>3 DEF AgeStep
  <2>2. PICK i \in Items : CancelWith(clearMoveTask(i), i)
    BY <2>1, Priorities, MembersAreItems
  <2>3. \A t \in Tasks : execRes'[t] \in { execRes[t], "fail" }
    BY <2>2, ClearMoveTaskKeeps, CancelWithFacts
  <2>4. QED
    BY <2>1, <2>3 DEF ModeInv, Rests
<1>4. CASE QuietStep
  <2>1. motorLock' = motorLock \/ motorLock' = FALSE
    BY <1>4 DEF QuietStep
  <2>2. motorLock' => motorLock
    BY <2>1
  <2>3. /\ UNCHANGED <<curTaskItem, lastRunMode, process, execRes>>
        /\ motor' = "driven" => motor = "driven"
    BY <1>4 DEF QuietStep
  <2>4. QED
    BY <2>2, <2>3 DEF ModeInv, Rests
<1>5. CASE UNCHANGED vars
  BY <1>5 DEF vars, settings, ModeInv, Rests
<1>6. Continuation \/ Trigger => ProducerStep \/ AgeStep \/ QuietStep
  BY OtherThreads
<1>7. Process \/ ProducerStep \/ AgeStep \/ QuietStep \/ UNCHANGED vars
  BY <1>6 DEF Next
<1>8. QED
  BY <1>1, <1>2, <1>3, <1>4, <1>5, <1>7

\* In the handheld mode, or in none, no command of a group is executed, whatever
\* is queued: no group drives or locks the motor or reports its patrol.
THEOREM NothingEverRuns == Spec => NothingRuns
<1>1. Init => ModeInv
  BY DEF Init, At, ModeInv
<1>2. TypeOK /\ ModeInv /\ [Next]_vars => ModeInv'
  BY NextRests
<1>3. TypeOK /\ ModeInv /\ [Next]_vars
        => [ /\ lastRunMode \in { "HANDLE_CONTROL_MODE", "NONE_MODE" }
             /\ lastRunMode' = lastRunMode
             => /\ motor' = "driven" => motor = "driven"
                /\ motorLock' => motorLock
                /\ curTaskItem' = None
                /\ \A t \in Tasks : execRes'[t] \in { execRes[t], "fail" } ]_vars
  BY NextRests DEF Resting, Rests
<1>4. QED
  BY <1>1, <1>2, <1>3, TypeCorrect, PTL DEF Spec, NothingRuns
-----------------------------------------------------------------------------
(* A failed patrol stays failed, and a cancelled viewpoint closes its      *)
(* record.  The groups of a patrol stand in one queue, so that whoever     *)
(* empties one of them empties them all: what is emptied once has nothing  *)
(* left that could write another verdict.                                  *)

\* Of patrol t nothing is left to run.
Over(it, t) == \A i \in Items : it[i].task = t => Emptied(it[i])

\* The groups of a patrol are of the types the motor lock leaves, and wait in a
\* queue that a new run mode empties.
Placed(R, it) ==
  \A i \in Items : it[i].task # None =>
    /\ it[i].type \in PatrolType
    /\ \E p \in { TP_MANUL, TP_REGULAR } : i \in Range(R[p])

\* They wait in the same queue.
Together(R, it) ==
  \A i, j \in Items, p \in Priority :
    it[i].task # None /\ it[j].task = it[i].task /\ i \in Range(R[p])
      => j \in Range(R[p])

ExceptOfPatrol(it) == \A i \in Items : it[i].except => it[i].task # None

\* A group that was started and then emptied was emptied with its patrol.
GoneTogether(it) ==
  \A i \in Items :
    it[i].active /\ Emptied(it[i]) /\ it[i].task # None => Over(it, it[i].task)

FailedIsOver(it, res) == \A t \in Tasks : res[t] = "fail" => Over(it, t)

Patrols(R, it, res) ==
  /\ Placed(R, it)
  /\ Together(R, it)
  /\ ExceptOfPatrol(it)
  /\ GoneTogether(it)
  /\ FailedIsOver(it, res)

PatrolInv == Patrols(rootTasks, item, execRes)

\* No group moves, changes its patrol or gets commands; what becomes a started
\* group without commands, or a failed patrol, has nothing left to run.
LEMMA PatrolsFrame ==
  ASSUME NEW R, NEW it, NEW jt, NEW res, NEW ses, Patrols(R, it, res),
         \A i \in Items : /\ jt[i].task = it[i].task
                          /\ jt[i].type = it[i].type
                          /\ jt[i].except => it[i].except
                          /\ Emptied(it[i]) => Emptied(jt[i]),
         \A i \in Items :
           jt[i].active /\ Emptied(jt[i]) /\ jt[i].task # None
             => (it[i].active /\ Emptied(it[i])) \/ Over(jt, jt[i].task),
         \A t \in Tasks : ses[t] = "fail" => res[t] = "fail" \/ Over(jt, t)
  PROVE  Patrols(R, jt, ses)
<1>1. \A t : Over(it, t) => Over(jt, t)
  BY DEF Over
<1>2. Placed(R, jt)
  BY DEF Patrols, Placed
<1>3. Together(R, jt)
  BY DEF Patrols, Together
<1>4. ExceptOfPatrol(jt)
  BY DEF Patrols, ExceptOfPatrol
<1>5. GoneTogether(jt)
  BY <1>1 DEF Patrols, GoneTogether
<1>6. FailedIsOver(jt, ses)
  BY <1>1 DEF Patrols, FailedIsOver
<1>7. QED
  BY <1>2, <1>3, <1>4, <1>5, <1>6 DEF Patrols

LEMMA AppendMembers ==
  ASSUME NEW s \in Seq(Items), NEW r \in Seq(Items)
  PROVE  Range(s \o r) = Range(s) \cup Range(r)
<1>1. s \o r \in Seq(Items) /\ Len(s \o r) = Len(s) + Len(r)
  OBVIOUS
<1>2. ASSUME NEW j \in DOMAIN (s \o r)
      PROVE  (s \o r)[j] \in Range(s) \cup Range(r)
  <2>1. j \in 1 .. Len(s) + Len(r)
    BY <1>1, <1>2
  <2>2. CASE j <= Len(s)
    <3>1. j \in DOMAIN s /\ (s \o r)[j] = s[j]
      BY <2>1, <2>2
    <3>2. QED
      BY <3>1 DEF Range
  <2>3. CASE j > Len(s)
    <3>1. j - Len(s) \in DOMAIN r /\ (s \o r)[j] = r[j - Len(s)]
      BY <2>1, <2>3
    <3>2. QED
      BY <3>1 DEF Range
  <2>4. QED
    BY <2>1, <2>2, <2>3
<1>3. ASSUME NEW j \in DOMAIN s PROVE s[j] \in Range(s \o r)
  <2>1. j \in DOMAIN (s \o r) /\ (s \o r)[j] = s[j]
    BY <1>1
  <2>2. QED
    BY <2>1 DEF Range
<1>4. ASSUME NEW j \in DOMAIN r PROVE r[j] \in Range(s \o r)
  <2>1. j \in 1 .. Len(r) /\ Len(s) \in Nat /\ Len(r) \in Nat
    OBVIOUS
  <2>2. Len(s) + j \in 1 .. Len(s) + Len(r) /\ (s \o r)[Len(s) + j] = r[j]
    BY <2>1
  <2>3. Len(s) + j \in DOMAIN (s \o r)
    BY <1>1, <2>2
  <2>4. QED
    BY <2>2, <2>3 DEF Range
<1>5. QED
  BY <1>2, <1>3, <1>4 DEF Range

\* New groups s of patrol x, or of none, are appended to root p.
LEMMA PatrolsAppend ==
  ASSUME NEW R \in Queues, NEW it, NEW jt, NEW res, NEW s \in Seq(Items),
         NEW p \in Priority, NEW x \in Tasks \cup {None}, Patrols(R, it, res),
         \A q \in Priority : Range(s) \cap Range(R[q]) = {},
         \A i \in Items \ Range(s) : jt[i] = it[i],
         \A i \in Range(s) : jt[i].task = x /\ ~jt[i].active,
         x = None => \A i \in Range(s) : ~jt[i].except,
         x # None => /\ p \in { TP_MANUL, TP_REGULAR }
                     /\ res[x] # "fail"
                     /\ \A i \in Items : it[i].task # x
                     /\ \A i \in Range(s) : jt[i].type \in PatrolType
  PROVE  Patrols([R EXCEPT ![p] = @ \o s], jt, res)
<1>. DEFINE T == [R EXCEPT ![p] = @ \o s]
<1>1. \A q \in Priority : Range(T[q]) = Range(R[q]) \cup (IF q = p THEN Range(s) ELSE {})
  <2>1. \A q \in Priority : R[q] \in Seq(Items)
    BY DEF Queues
  <2>2. ASSUME NEW q \in Priority
        PROVE  T[q] = IF q = p THEN R[q] \o s ELSE R[q]
    BY DEF Queues
  <2>. HIDE DEF T
  <2>3. QED
    BY <2>1, <2>2, AppendMembers
<1>. HIDE DEF T
<1>2. { TP_MANUL, TP_REGULAR } \subseteq Priority
  BY Priorities
<1>3. \A i \in Items \ Range(s) : it[i].task # None => it[i].task # x
  OBVIOUS
<1>4. Placed(T, jt)
  <2>1. SUFFICES ASSUME NEW i \in Items, jt[i].task # None
                 PROVE  /\ jt[i].type \in PatrolType
                        /\ \E q \in { TP_MANUL, TP_REGULAR } : i \in Range(T[q])
    BY DEF Placed
  <2>2. CASE i \in Range(s)
    BY <1>1, <1>2, <2>1, <2>2
  <2>3. CASE i \notin Range(s)
    BY <1>1, <1>2, <2>1, <2>3 DEF Patrols, Placed
  <2>4. QED
    BY <2>2, <2>3
<1>5. Together(T, jt)
  <2>1. SUFFICES ASSUME NEW i \in Items, NEW j \in Items, NEW q \in Priority,
                        jt[i].task # None, jt[j].task = jt[i].task, i \in Range(T[q])
                 PROVE  j \in Range(T[q])
    BY DEF Together
  <2>2. CASE i \in Range(s)
    BY <1>1, <1>3, <2>1, <2>2
  <2>3. CASE i \notin Range(s)
    <3>1. j \notin Range(s)
      BY <1>3, <2>1, <2>3
    <3>2. QED
      BY <1>1, <2>1, <2>3, <3>1 DEF Patrols, Together
  <2>4. QED
    BY <2>2, <2>3
<1>6. ExceptOfPatrol(jt)
  BY DEF Patrols, ExceptOfPatrol
<1>7. ASSUME NEW t \in Tasks, Over(it, t), t # x PROVE Over(jt, t)
  BY <1>7 DEF Over
<1>8. GoneTogether(jt)
  <2>1. SUFFICES ASSUME NEW i \in Items, jt[i].active, Emptied(jt[i]), jt[i].task # None
                 PROVE  Over(jt, jt[i].task)
    BY DEF GoneTogether
  <2>2. i \notin Range(s) /\ jt[i] = it[i]
    BY <2>1
  <2>3. Over(it, it[i].task) /\ it[i].task # x
    BY <1>3, <2>1, <2>2 DEF Patrols, GoneTogether
  <2>4. QED
    BY <2>2, <2>3 DEF Over
<1>9. FailedIsOver(jt, res)
  BY <1>7, NoneIsNoTask DEF Patrols, FailedIsOver
<1>10. QED
  BY <1>4, <1>5, <1>6, <1>8, <1>9 DEF Patrols, T

LEMMA RemoveMembers ==
  ASSUME NEW s \in Seq(Items), NEW i
  PROVE  /\ Range(remove(s, i)) \subseteq Range(s)
         /\ Range(s) \ {i} \subseteq Range(remove(s, i))
<1>1. CASE i \notin Range(s)
  BY <1>1, RemoveElsewhere
<1>2. CASE i \in Range(s)
  <2>. DEFINE k == CHOOSE j \in DOMAIN s : s[j] = i
              a == SubSeq(s, 1, k - 1)
              b == SubSeq(s, k + 1, Len(s))
  <2>1. k \in DOMAIN s /\ s[k] = i
    BY <1>2 DEF Range
  <2>2. remove(s, i) = a \o b
    BY <1>2 DEF remove
  <2>3. /\ a \in Seq(Items) /\ Len(a) = k - 1
        /\ b \in Seq(Items) /\ Len(b) = Len(s) - k
        /\ \A j \in 1 .. k - 1 : a[j] = s[j]
        /\ \A j \in 1 .. Len(s) - k : b[j] = s[k + j]
    <3>. HIDE DEF k
    <3>1. k \in 1 .. Len(s) /\ Len(s) \in Nat
      BY <2>1
    <3>2. QED
      BY <3>1
  <2>. HIDE DEF k, a, b
  <2>4. k \in 1 .. Len(s) /\ Len(s) \in Nat
    BY <2>1
  <2>5. Range(remove(s, i)) = Range(a) \cup Range(b)
    BY <2>2, <2>3, AppendMembers
  <2>6. ASSUME NEW j \in DOMAIN a PROVE a[j] \in Range(s)
    <3>1. j \in 1 .. k - 1
      BY <2>3
    <3>2. j \in DOMAIN s /\ a[j] = s[j]
      BY <2>3, <2>4, <3>1
    <3>3. QED
      BY <3>2 DEF Range
  <2>7. ASSUME NEW j \in DOMAIN b PROVE b[j] \in Range(s)
    <3>1. j \in 1 .. Len(s) - k
      BY <2>3
    <3>2. k + j \in DOMAIN s /\ b[j] = s[k + j]
      BY <2>3, <2>4, <3>1
    <3>3. QED
      BY <3>2 DEF Range
  <2>8. ASSUME NEW j \in DOMAIN s, s[j] # i PROVE s[j] \in Range(a) \cup Range(b)
    <3>1. j \in 1 .. Len(s) /\ j # k
      BY <2>1, <2>8
    <3>2. CASE j < k
      <4>1. j \in 1 .. k - 1
        BY <2>4, <3>1, <3>2
      <4>2. j \in DOMAIN a /\ a[j] = s[j]
        BY <2>3, <2>4, <4>1
      <4>3. QED
        BY <4>2 DEF Range
    <3>3. CASE j > k
      <4>1. j - k \in 1 .. Len(s) - k /\ k + (j - k) = j
        BY <2>4, <3>1, <3>3
      <4>2. j - k \in DOMAIN b /\ b[j - k] = s[j]
        <5>1. b[j - k] = s[k + (j - k)]
          BY <2>3, <4>1
        <5>2. j - k \in DOMAIN b
          BY <2>3, <2>4, <4>1
        <5>3. QED
          BY <4>1, <5>1, <5>2
      <4>3. QED
        BY <4>2 DEF Range
    <3>4. QED
      BY <2>4, <3>1, <3>2, <3>3
  <2>9. QED
    BY <2>5, <2>6, <2>7, <2>8 DEF Range
<1>3. QED
  BY <1>1, <1>2

\* The group c is deleted.
LEMMA PatrolsReap ==
  ASSUME NEW R \in Queues, NEW it \in [Items -> MoveTaskItem], NEW res, NEW ses,
         NEW c \in Items, Patrols(R, it, res),
         \A t \in Tasks : ses[t] = "fail" => res[t] = "fail" \/ Over(it, t)
  PROVE  Patrols([p \in Priority |-> remove(R[p], c)], [it EXCEPT ![c] = Blank], ses)
<1>. DEFINE T == [p \in Priority |-> remove(R[p], c)]
            jt == [it EXCEPT ![c] = Blank]
<1>1. \A p \in Priority : /\ Range(T[p]) \subseteq Range(R[p])
                          /\ Range(R[p]) \ {c} \subseteq Range(T[p])
  BY RemoveMembers DEF Queues
<1>2. \A i \in Items : jt[i] = IF i = c THEN Blank ELSE it[i]
  OBVIOUS
<1>3. Blank.task = None /\ ~Blank.active /\ ~Blank.except
  BY DEF Blank, NewItem
<1>. HIDE DEF T, jt
<1>4. { TP_MANUL, TP_REGULAR } \subseteq Priority
  BY Priorities
<1>5. ASSUME NEW t \in Tasks, Over(it, t) PROVE Over(jt, t)
  BY <1>2, <1>3, <1>5, NoneIsNoTask DEF Over
<1>6. Placed(T, jt)
  BY <1>1, <1>2, <1>3, <1>4 DEF Patrols, Placed
<1>7. Together(T, jt)
  <2>1. SUFFICES ASSUME NEW i \in Items, NEW j \in Items, NEW p \in Priority,
                        jt[i].task # None, jt[j].task = jt[i].task, i \in Range(T[p])
                 PROVE  j \in Range(T[p])
    BY DEF Together
  <2>2. i # c /\ j # c /\ i \in Range(R[p])
    BY <1>1, <1>2, <1>3, <2>1
  <2>3. j \in Range(R[p])
    BY <1>2, <2>1, <2>2 DEF Patrols, Together
  <2>4. QED
    BY <1>1, <2>2, <2>3
<1>8. ExceptOfPatrol(jt)
  BY <1>2, <1>3 DEF Patrols, ExceptOfPatrol
<1>9. GoneTogether(jt)
  <2>1. SUFFICES ASSUME NEW i \in Items, jt[i].active, Emptied(jt[i]), jt[i].task # None
                 PROVE  Over(jt, jt[i].task)
    BY DEF GoneTogether
  <2>2. jt[i] = it[i] /\ it[i].task \in Tasks
    BY <1>2, <1>3, <2>1 DEF MoveTaskItem
  <2>3. QED
    BY <1>5, <2>1, <2>2 DEF Patrols, GoneTogether
<1>10. FailedIsOver(jt, ses)
  BY <1>5 DEF Patrols, FailedIsOver
<1>11. QED
  BY <1>6, <1>7, <1>8, <1>9, <1>10 DEF Patrols, T, jt

\* Emptying groups changes nothing else about them.
LEMMA ClearKeeps ==
  ASSUME TypeOK, NEW i \in Items
  PROVE  /\ \A P : LET c == clearTaskCommands(P)[i]
                   IN  /\ c.task = item[i].task /\ c.type = item[i].type
                       /\ c.except = item[i].except /\ c.active = item[i].active
                       /\ Emptied(c) <=> Emptied(item[i]) \/ \E p \in P : i \in Members(p)
         /\ \A p : item[i].type \in PatrolType
                     => clearTaskCommandsExceptPatroPlan(p)[i] = item[i]
         /\ \A p : LET c == clearTaskCommandsExceptPatroPlan(p)[i]
                   IN  /\ c.task = item[i].task /\ c.type = item[i].type
                       /\ c.except = item[i].except /\ c.active = item[i].active
                       /\ Emptied(item[i]) => Emptied(c)
<1>1. LET c == clearCommands(item[i])
      IN  /\ c.task = item[i].task /\ c.type = item[i].type
          /\ c.except = item[i].except /\ c.active = item[i].active
          /\ Emptied(c)
  BY DEF clearCommands, TypeOK, MoveTaskItem, Emptied
<1>2. QED
  BY <1>1 DEF clearTaskCommands, clearTaskCommandsExceptPatroPlan

\* A producer empties a root: a patrol whose group it empties loses all of them.
LEMMA PatrolsClear ==
  ASSUME TypeOK, PatrolInv, NEW p \in Priority
  PROVE  Patrols(rootTasks, clearTaskCommands({p}), execRes)
<1>. DEFINE jt == clearTaskCommands({p})
<1>1. \A i \in Items : /\ jt[i].task = item[i].task /\ jt[i].type = item[i].type
                       /\ jt[i].except = item[i].except /\ jt[i].active = item[i].active
                       /\ Emptied(jt[i]) <=> Emptied(item[i]) \/ i \in Members(p)
  BY ClearKeeps
<1>. HIDE DEF jt
<1>2. ASSUME NEW i \in Items, jt[i].active, Emptied(jt[i]), jt[i].task # None,
             ~Emptied(item[i])
      PROVE  Over(jt, jt[i].task)
  <2>1. i \in Range(rootTasks[p])
    BY <1>1, <1>2 DEF Members
  <2>2. \A j \in Items : item[j].task = item[i].task => j \in Members(p)
    BY <1>1, <1>2, <2>1 DEF PatrolInv, Patrols, Together, Members
  <2>3. QED
    BY <1>1, <2>2 DEF Over
<1>3. QED
  BY <1>1, <1>2, PatrolsFrame DEF PatrolInv, jt

\* A producer of groups.
LEMMA ProducesPatrols ==
  ASSUME TypeOK, PatrolInv, NEW p \in Priority, Produces(p)
  PROVE  Patrols(rootTasks', item', execRes)
<1>1. rootTasks \in Queues
  BY DEF TypeOK, Queues
<1>2. ASSUME NEW news \in Seq(NewItems), NEW base, NEW x \in Tasks \cup {None},
             Enqueue(p, news, base), Patrols(rootTasks, base, execRes),
             \A k \in DOMAIN news : news[k].task = x,
             x = None => \A k \in DOMAIN news : ~news[k].except,
             x # None => /\ p \in { TP_MANUL, TP_REGULAR }
                         /\ execRes[x] # "fail"
                         /\ \A i \in Items : base[i].task # x
                         /\ \A k \in DOMAIN news : news[k].type \in PatrolType
      PROVE  Patrols(rootTasks', item', execRes)
  <2>1. news \in Seq(MoveTaskItem) /\ \A k \in DOMAIN news : ~news[k].active
    BY DEF NewItems
  <2>2. PICK s \in Seq(Items) : Appended(p, news, base, s)
    BY <1>2, <2>1, EnqueueFacts DEF TypeOK
  <2>3. rootTasks' = [rootTasks EXCEPT ![p] = @ \o s]
    BY <2>2 DEF Appended
  <2>4. \A q \in Priority : Range(s) \cap Range(rootTasks[q]) = {}
    BY <2>2 DEF Appended, Queued, Members
  <2>5. \A i \in Items \ Range(s) : item'[i] = base[i]
    BY <2>2 DEF Appended
  <2>6. ASSUME NEW i \in Range(s) PROVE \E k \in DOMAIN news : item'[i] = news[k]
    <3>1. PICK k \in DOMAIN s : s[k] = i
      BY DEF Range
    <3>2. k \in DOMAIN news /\ item'[i] = news[k]
      BY <2>2, <3>1 DEF Appended
    <3>3. QED
      BY <3>2
  <2>7. \A i \in Range(s) : /\ item'[i].task = x /\ ~item'[i].active
                            /\ x = None => ~item'[i].except
                            /\ x # None => item'[i].type \in PatrolType
    BY <1>2, <2>1, <2>6
  <2>8. Patrols([rootTasks EXCEPT ![p] = @ \o s], item', execRes)
    BY <1>1, <1>2, <2>4, <2>5, <2>7, PatrolsAppend
  <2>9. QED
    BY <2>3, <2>8
<1>3. CASE \E news \in Seq(PlainItems) :
             Enqueue(p, news, item) \/ Enqueue(p, news, clearTaskCommands({p}))
  <2>1. PICK news \in Seq(PlainItems) :
          Enqueue(p, news, item) \/ Enqueue(p, news, clearTaskCommands({p}))
    BY <1>3
  <2>2. /\ news \in Seq(NewItems)
        /\ \A k \in DOMAIN news : news[k].task = None /\ ~news[k].except
    BY DEF PlainItems
  <2>3. Patrols(rootTasks, item, execRes)
    BY DEF PatrolInv
  <2>4. QED
    BY <1>2, <2>1, <2>2, <2>3, PatrolsClear
<1>4. CASE /\ p \in { TP_MANUL, TP_REGULAR }
           /\ \E t \in FreshTasks : \E news \in Seq(ItemsOf(t)) : Enqueue(p, news, item)
  <2>0. PICK t \in FreshTasks : \E news \in Seq(ItemsOf(t)) : Enqueue(p, news, item)
    BY <1>4
  <2>1. PICK news \in Seq(ItemsOf(t)) : Enqueue(p, news, item)
    BY <2>0
  <2>2. /\ news \in Seq(NewItems)
        /\ \A k \in DOMAIN news : news[k].task = t /\ news[k].type \in PatrolType
    BY DEF ItemsOf
  <2>3. t \in Tasks /\ t # None /\ execRes[t] = "none"
    BY NoneIsNoTask DEF FreshTasks
  <2>4. ASSUME NEW i \in Items, item[i].task = t PROVE FALSE
    <3>1. PICK q \in { TP_MANUL, TP_REGULAR } : i \in Members(q)
      BY <2>3, <2>4 DEF PatrolInv, Patrols, Placed, Members
    <3>2. i \in Queued
      BY <3>1, Priorities DEF Queued
    <3>3. QED
      BY <2>4, <3>2 DEF FreshTasks
  <2>5. Patrols(rootTasks, item, execRes)
    BY DEF PatrolInv
  <2>6. QED
    BY <1>2, <1>4, <2>1, <2>2, <2>3, <2>4, <2>5
<1>5. QED
  BY <1>3, <1>4 DEF Produces

\* A started group is queued, so that no new group takes its place.
LEMMA ProducesActive ==
  ASSUME TypeOK, HeadsOnly, NEW p \in Priority, Produces(p),
         NEW i \in Items, item[i].active
  PROVE  item'[i].active
<1>1. PICK news \in Seq(NewItems) :
        Enqueue(p, news, item) \/ Enqueue(p, news, clearTaskCommands({p}))
  BY ProducesNews
<1>2. news \in Seq(MoveTaskItem)
  <2>1. NewItems \subseteq MoveTaskItem
    BY DEF NewItems
  <2>2. QED
    BY <2>1
<1>3. i \in Queued
  <2>1. PICK q \in Priority : rootTasks[q] # <<>> /\ Head(rootTasks[q]) = i
    BY DEF HeadsOnly, IsHead
  <2>2. rootTasks[q] \in Seq(Items)
    BY DEF TypeOK
  <2>3. 1 \in DOMAIN rootTasks[q] /\ rootTasks[q][1] = i
    BY <2>1, <2>2
  <2>4. QED
    BY <2>3 DEF Queued, Members, Range
<1>4. ASSUME NEW base, Enqueue(p, news, base) PROVE item'[i] = base[i]
  <2>1. PICK s \in Seq(Items) : Appended(p, news, base, s)
    BY <1>2, <1>4, EnqueueFacts DEF TypeOK
  <2>2. QED
    BY <1>3, <2>1 DEF Appended
<1>5. QED
  BY <1>1, <1>4, ClearKeepsActive

\* The exceptions of a group write no verdict but a failure of its own patrol.
LEMMA ExitFails ==
  ASSUME TypeOK, PatrolInv, NEW i \in Items, ExceptionExit(i)
  PROVE  /\ \A t \in Tasks : execRes[t] = "fail" => execRes'[t] = "fail"
         /\ \A t \in Tasks : execRes'[t] = "fail" => execRes[t] = "fail" \/ item[i].task = t
         /\ ~DbMayFail /\ item[i].except => execRes'[item[i].task] # "open"
<1>1. item[i].except => item[i].task \in Tasks
  BY DEF PatrolInv, Patrols, ExceptOfPatrol, TypeOK, MoveTaskItem
<1>2. \/ execRes' = execRes
      \/ item[i].except /\ execRes' = [execRes EXCEPT ![item[i].task] = "fail"]
  BY DEF ExceptionExit
<1>3. ~DbMayFail /\ item[i].except
        => \/ execRes' = [execRes EXCEPT ![item[i].task] = "fail"]
           \/ execRes' = execRes /\ execRes[item[i].task] = "none"
  BY <1>1, NoneIsNoTask DEF ExceptionExit
<1>4. execRes \in [Tasks -> Result]
  BY DEF TypeOK
<1>5. QED
  BY <1>1, <1>2, <1>3, <1>4

\* A command of a patrol that has failed is not executed.
LEMMA RunPatrols ==
  ASSUME TypeOK, PatrolInv, NEW i \in Items, NEW r \in { "ST_GOING", "ST_DONE" },
         Run(i, r), item[i].at \in DOMAIN item[i].cmds
  PROVE  /\ Patrols(rootTasks, item', execRes')
         /\ \A t \in Tasks : execRes[t] = "fail" => execRes'[t] = "fail"
         /\ \A j \in Items : item'[j].except = item[j].except
<1>. DEFINE c == item[i]
<1>1. c \in MoveTaskItem /\ c.cmds # <<>>
  BY DEF TypeOK
<1>2. ASSUME NEW t \in Tasks, execRes[t] = "fail" PROVE c.task # t
  BY <1>1, <1>2 DEF PatrolInv, Patrols, FailedIsOver, Over, Emptied
<1>3. ASSUME NEW d \in MoveTaskItem, Exec(i, d, r), d.cmds = c.cmds, d.task = c.task,
             d.type = c.type, d.except = c.except
      PROVE  /\ item' = [item EXCEPT ![i] = item'[i]]
             /\ item'[i].task = c.task /\ item'[i].type = c.type
             /\ item'[i].except = c.except /\ ~Emptied(item'[i])
             /\ \A t \in Tasks : execRes[t] = "fail" <=> execRes'[t] = "fail"
  <2>1. item' = [item EXCEPT ![i] = [d EXCEPT !.ret = r]]
    BY <1>3 DEF Exec
  <2>2. item'[i] = [d EXCEPT !.ret = r] /\ item' = [item EXCEPT ![i] = item'[i]]
    BY <2>1 DEF TypeOK
  <2>3. /\ item'[i].task = c.task /\ item'[i].type = c.type
        /\ item'[i].except = c.except /\ item'[i].cmds = c.cmds
    BY <1>3, <2>2 DEF MoveTaskItem
  <2>4. \/ execRes' = execRes
        \/ execRes' = [execRes EXCEPT ![c.task] = "open"] /\ execRes[c.task] = "none"
        \/ execRes' = [execRes EXCEPT ![c.task] = "success"]
    BY <1>3 DEF Exec, Record
  <2>5. \A t \in Tasks : execRes[t] = "fail" <=> execRes'[t] = "fail"
    BY <1>2, <2>4 DEF TypeOK
  <2>6. QED
    BY <1>1, <2>2, <2>3, <2>5 DEF Emptied
<1>4. /\ item' = [item EXCEPT ![i] = item'[i]]
      /\ item'[i].task = c.task /\ item'[i].type = c.type
      /\ item'[i].except = c.except
      /\ ~Emptied(item'[i]) \/ ~item'[i].active
      /\ \A t \in Tasks : execRes[t] = "fail" <=> execRes'[t] = "fail"
  <2>1. CASE Exec(i, [c EXCEPT !.active = @ \/ (c.at = 1 /\ c.ret = "ST_SLEEP")], r)
    <3>. DEFINE d == [c EXCEPT !.active = @ \/ (c.at = 1 /\ c.ret = "ST_SLEEP")]
    <3>1. /\ d \in MoveTaskItem /\ d.cmds = c.cmds /\ d.task = c.task
          /\ d.type = c.type /\ d.except = c.except
      BY <1>1 DEF MoveTaskItem
    <3>2. QED
      BY <1>3, <2>1, <3>1
  <2>2. CASE Exec(i, [c EXCEPT !.at = @ + 1], r)
    <3>. DEFINE d == [c EXCEPT !.at = @ + 1]
    <3>1. /\ d \in MoveTaskItem /\ d.cmds = c.cmds /\ d.task = c.task
          /\ d.type = c.type /\ d.except = c.except
      BY <1>1 DEF MoveTaskItem
    <3>2. QED
      BY <1>3, <2>2, <3>1
  <2>3. CASE /\ item' = [item EXCEPT ![i] = clearCommands([c EXCEPT !.active = FALSE])]
             /\ UNCHANGED <<motorLock, motor, execRes>>
    <3>. DEFINE d == clearCommands([c EXCEPT !.active = FALSE])
    <3>1. /\ d.task = c.task /\ d.type = c.type /\ d.except = c.except /\ ~d.active
      BY <1>1 DEF clearCommands, MoveTaskItem
    <3>2. item'[i] = d /\ item' = [item EXCEPT ![i] = item'[i]]
      BY <2>3 DEF TypeOK
    <3>. HIDE DEF d
    <3>3. QED
      BY <2>3, <3>1, <3>2
  <2>4. QED
    BY <2>1, <2>2, <2>3 DEF Run
<1>5. \A j \in Items : j # i => item'[j] = item[j]
  BY <1>4 DEF TypeOK
<1>6. \A j \in Items : /\ item'[j].task = item[j].task
                       /\ item'[j].type = item[j].type
                       /\ item'[j].except = item[j].except
                       /\ Emptied(item[j]) => Emptied(item'[j])
  BY <1>1, <1>4, <1>5 DEF Emptied
<1>7. \A j \in Items : item'[j].active /\ Emptied(item'[j])
                         => item[j].active /\ Emptied(item[j])
  BY <1>4, <1>5
<1>8. Patrols(rootTasks, item', execRes')
  BY <1>4, <1>6, <1>7, PatrolsFrame DEF PatrolInv
<1>9. QED
  BY <1>4, <1>6, <1>8

\* What the process thread does to patrols and their records.
LEMMA ProcessPatrols ==
  ASSUME TypeOK, HeadsOnly, RunHasCommand, PatrolInv, Process
  PROVE  /\ PatrolInv'
         /\ \A t \in Tasks : execRes[t] = "fail" => execRes'[t] = "fail"
         /\ \A i \in Items :
              /\ ~DbMayFail
              /\ item[i].active /\ item[i].except /\ ~item'[i].active /\ ~item'[i].except
              => execRes'[item[i].task] # "open"
<1>. DEFINE Closes == \A i \in Items :
                        /\ ~DbMayFail
                        /\ item[i].active /\ item[i].except
                        /\ ~item'[i].active /\ ~item'[i].except
                        => execRes'[item[i].task] # "open"
            Final == \A t \in Tasks : execRes[t] = "fail" => execRes'[t] = "fail"
            G == PatrolInv' /\ Final /\ Closes
<1>0. \A jt, ses : rootTasks' = rootTasks /\ item' = jt /\ execRes' = ses
                     /\ Patrols(rootTasks, jt, ses) => PatrolInv'
  BY DEF PatrolInv
<1>1. CASE Boot
  <2>1. execRes' = execRes
    BY <1>1 DEF Boot, others
  <2>2. CASE createPtzArmHomeTaskItem(TP_RECHARGE)
    <3>1. Produces(TP_RECHARGE) /\ TP_RECHARGE \in Priority
      BY <2>2, Priorities, ProducersProduce
    <3>2. PatrolInv'
      BY <2>1, <3>1, ProducesPatrols DEF PatrolInv
    <3>3. \A i \in Items : item[i].active => item'[i].active
      BY <3>1, ProducesActive
    <3>4. QED
      BY <2>1, <3>2, <3>3
  <2>3. CASE UNCHANGED <<rootTasks, item>>
    BY <2>1, <2>3 DEF PatrolInv
  <2>4. QED
    BY <1>1, <2>2, <2>3 DEF Boot
<1>2. CASE ProcessReap
  <2>1. CASE UNCHANGED <<rootTasks, item, curTaskItem, execRes>>
    BY <2>1 DEF PatrolInv
  <2>2. CASE /\ Zombie
             /\ IF item[curTaskItem].active THEN ExceptionExit(curTaskItem)
                                            ELSE UNCHANGED execRes
             /\ rootTasks' = [p \in Priority |-> remove(rootTasks[p], curTaskItem)]
             /\ item' = [item EXCEPT ![curTaskItem] = Blank]
    <3>1. curTaskItem \in Items /\ Emptied(item[curTaskItem])
      BY <2>2 DEF Zombie, TypeOK
    <3>2. Final
      BY <2>2, <3>1, ExitFails
    <3>3. \A t \in Tasks : execRes'[t] = "fail" => execRes[t] = "fail" \/ Over(item, t)
      <4>1. ASSUME NEW t \in Tasks, item[curTaskItem].task = t, item[curTaskItem].active
            PROVE  Over(item, t)
        BY <3>1, <4>1, NoneIsNoTask DEF PatrolInv, Patrols, GoneTogether
      <4>2. QED
        BY <2>2, <3>1, <4>1, ExitFails
    <3>4. rootTasks \in Queues /\ item \in [Items -> MoveTaskItem]
      BY DEF TypeOK, Queues
    <3>5. Patrols([p \in Priority |-> remove(rootTasks[p], curTaskItem)],
                  [item EXCEPT ![curTaskItem] = Blank], execRes')
      BY <3>1, <3>3, <3>4, PatrolsReap DEF PatrolInv
    <3>6. PatrolInv'
      BY <2>2, <3>5 DEF PatrolInv
    <3>7. Closes
      <4>1. \A i \in Items : i # curTaskItem => item'[i] = item[i]
        BY <2>2, <3>4
      <4>2. QED
        BY <2>2, <3>1, <4>1, ExitFails
    <3>8. QED
      BY <3>2, <3>6, <3>7
  <2>3. QED
    BY <1>2, <2>1, <2>2 DEF ProcessReap
<1>3. CASE LockCheck
  <2>1. rootTasks' = rootTasks /\ execRes' = execRes
    BY <1>3 DEF LockCheck
  <2>2. CASE item' = clearTaskCommandsExceptPatroPlan(TP_MANUL)
    <3>1. \A i \in Items : /\ item'[i].task = item[i].task
                           /\ item'[i].type = item[i].type
                           /\ item'[i].except = item[i].except
                           /\ item'[i].active = item[i].active
                           /\ Emptied(item[i]) => Emptied(item'[i])
                           /\ item[i].type \in PatrolType => item'[i] = item[i]
      BY <2>2, ClearKeeps
    <3>2. \A i \in Items : item'[i].task # None => item'[i] = item[i]
      BY <3>1 DEF PatrolInv, Patrols, Placed
    <3>3. Patrols(rootTasks, item', execRes)
      BY <3>1, <3>2, PatrolsFrame DEF PatrolInv
    <3>4. QED
      BY <2>1, <3>1, <3>3 DEF PatrolInv
  <2>3. CASE item' = item
    BY <2>1, <2>3 DEF PatrolInv
  <2>4. QED
    BY <1>3, <2>2, <2>3 DEF LockCheck
<1>4. CASE QueryMode
  <2>1. rootTasks' = rootTasks
    BY <1>4 DEF QueryMode
  <2>2. CASE item' = item /\ execRes' = execRes
    BY <2>1, <2>2 DEF PatrolInv
  <2>. DEFINE cleared == clearTaskCommands({TP_MANUL, TP_PLAN, TP_REGULAR})
  <2>3. \A i \in Items : /\ cleared[i].task = item[i].task
                         /\ cleared[i].type = item[i].type
                         /\ cleared[i].except = item[i].except
                         /\ cleared[i].active = item[i].active
                         /\ Emptied(item[i]) => Emptied(cleared[i])
                         /\ item[i].task # None => Emptied(cleared[i])
    <3>1. \A i \in Items : item[i].task # None
             => \E p \in { TP_MANUL, TP_PLAN, TP_REGULAR } : i \in Members(p)
      BY DEF PatrolInv, Patrols, Placed, Members
    <3>2. QED
      BY <3>1, ClearKeeps
  <2>4. cleared \in [Items -> MoveTaskItem]
    BY ClearType DEF TypeOK
  <2>. HIDE DEF cleared
  <2>5. ASSUME NEW jt, NEW ses,
               \A i \in Items : /\ jt[i].task = cleared[i].task
                                /\ jt[i].type = cleared[i].type
                                /\ jt[i].except => cleared[i].except
                                /\ Emptied(cleared[i]) => Emptied(jt[i])
        PROVE  Patrols(rootTasks, jt, ses)
    <3>1. \A t \in Tasks : Over(jt, t)
      BY <2>3, <2>5, NoneIsNoTask DEF Over
    <3>2. \A i \in Items : jt[i].task # None => jt[i].task \in Tasks
      BY <2>3, <2>5 DEF TypeOK, MoveTaskItem
    <3>3. QED
      BY <2>3, <2>5, <3>1, <3>2, PatrolsFrame DEF PatrolInv
  <2>6. CASE /\ curTaskItem # None /\ item[curTaskItem].active
             /\ ExceptionExit(curTaskItem)
             /\ item' = [cleared EXCEPT ![curTaskItem] = exceptionsExit(@)]
    <3>1. curTaskItem \in Items
      BY <2>6 DEF TypeOK
    <3>2. item' = [cleared EXCEPT ![curTaskItem] = exceptionsExit(cleared[curTaskItem])]
      BY <2>6
    <3>3. LET c == exceptionsExit(cleared[curTaskItem])
          IN  /\ c.task = cleared[curTaskItem].task /\ c.type = cleared[curTaskItem].type
              /\ ~c.except /\ c.cmds = cleared[curTaskItem].cmds
      BY <2>4, <3>1 DEF exceptionsExit, MoveTaskItem
    <3>4. \A i \in Items : /\ item'[i].task = cleared[i].task
                           /\ item'[i].type = cleared[i].type
                           /\ item'[i].except => cleared[i].except
                           /\ Emptied(cleared[i]) => Emptied(item'[i])
                           /\ i # curTaskItem => item'[i] = cleared[i]
      BY <2>4, <3>2, <3>3 DEF Emptied
    <3>5. Patrols(rootTasks, item', execRes')
      BY <2>5, <3>4
    <3>6. Final /\ Closes
      BY <2>3, <2>6, <3>1, <3>4, ExitFails
    <3>7. QED
      BY <2>1, <3>5, <3>6 DEF PatrolInv
  <2>7. CASE item' = cleared /\ execRes' = execRes
    <3>1. Patrols(rootTasks, item', execRes')
      BY <2>5, <2>7
    <3>2. QED
      BY <2>1, <2>3, <2>7, <3>1 DEF PatrolInv
  <2>8. QED
    BY <1>4, <2>2, <2>6, <2>7 DEF QueryMode, CancelWith, cleared
<1>5. CASE QueryScan
  BY <1>5 DEF QueryScan, others, PatrolInv
<1>6. CASE Start
  <2>1. /\ rootTasks' = rootTasks /\ execRes' = execRes
        /\ item' = [item EXCEPT ![process.next] = initStatusPara(@)]
    BY <1>6 DEF Start
  <2>2. ASSUME NEW c \in MoveTaskItem
        PROVE  /\ initStatusPara(c).task = c.task /\ initStatusPara(c).type = c.type
               /\ initStatusPara(c).except = c.except
               /\ initStatusPara(c).active = c.active
               /\ initStatusPara(c).cmds = c.cmds
    BY DEF initStatusPara, MoveTaskItem
  <2>3. \A i \in Items : /\ item'[i].task = item[i].task
                         /\ item'[i].type = item[i].type
                         /\ item'[i].except = item[i].except
                         /\ item'[i].active = item[i].active
                         /\ Emptied(item'[i]) <=> Emptied(item[i])
    BY <2>1, <2>2 DEF TypeOK, Emptied
  <2>4. Patrols(rootTasks, item', execRes)
    BY <2>3, PatrolsFrame DEF PatrolInv
  <2>5. QED
    BY <2>1, <2>3, <2>4 DEF PatrolInv
<1>7. ASSUME NEW i \in Items, NEW r \in { "ST_GOING", "ST_DONE" }, RunCurrent(i, r)
      PROVE  G
  <2>1. /\ rootTasks' = rootTasks /\ Run(i, r)
        /\ process.at = "dispatch" /\ process.next = curTaskItem /\ i = curTaskItem
    BY <1>7 DEF RunCurrent, ProcessAt
  <2>2. item[i].at \in DOMAIN item[i].cmds
    BY <2>1 DEF RunHasCommand
  <2>3. QED
    BY <2>1, <2>2, RunPatrols DEF PatrolInv
<1>8. QED
  BY <1>1, <1>2, <1>3, <1>4, <1>5, <1>6, <1>7 DEF Process

\* The ageing thread cancels a whole patrol, which leaves nothing of it to run.
LEMMA AgePatrols ==
  ASSUME TypeOK, PatrolInv, NEW i \in Members(TP_REGULAR),
         CancelWith(clearMoveTask(i), i)
  PROVE  /\ Patrols(rootTasks, item', execRes')
         /\ \A t \in Tasks : execRes[t] = "fail" => execRes'[t] = "fail"
         /\ \A j \in Items :
              /\ ~DbMayFail
              /\ item[j].active /\ item[j].except /\ ~item'[j].active /\ ~item'[j].except
              => execRes'[item[j].task] # "open"
<1>. DEFINE cleared == clearMoveTask(i)
<1>1. i \in Items
  BY Priorities, MembersAreItems
<1>2. \A j \in Items : /\ cleared[j].task = item[j].task
                       /\ cleared[j].type = item[j].type
                       /\ cleared[j].except = item[j].except
                       /\ cleared[j].active = item[j].active
                       /\ Emptied(cleared[j]) <=> Emptied(item[j]) \/ j \in MoveTaskOf(i)
  BY <1>1, ClearMoveTaskKeeps
<1>3. cleared \in [Items -> MoveTaskItem]
  BY <1>1, ClearMoveTaskKeeps
<1>4. item[i].task # None
        => \A j \in Items : item[j].task = item[i].task => j \in MoveTaskOf(i)
  <2>1. TP_REGULAR \in Priority
    BY Priorities
  <2>2. QED
    BY <1>1, <2>1 DEF PatrolInv, Patrols, Together, Members, MoveTaskOf
<1>. HIDE DEF cleared
<1>5. ASSUME NEW jt, NEW ses,
             \A j \in Items : /\ jt[j].task = cleared[j].task
                              /\ jt[j].type = cleared[j].type
                              /\ jt[j].except => cleared[j].except
                              /\ jt[j].active => cleared[j].active
                              /\ Emptied(cleared[j]) <=> Emptied(jt[j]),
             \A t \in Tasks : ses[t] = "fail" => execRes[t] = "fail" \/ item[i].task = t
      PROVE  Patrols(rootTasks, jt, ses)
  <2>1. item[i].task # None => Over(jt, item[i].task)
    BY <1>2, <1>4, <1>5 DEF Over
  <2>2. \A j \in Items : j \in MoveTaskOf(i) /\ item[j].task # None
                           => item[j].task = item[i].task
    BY DEF MoveTaskOf
  <2>3. \A j \in Items : /\ jt[j].task = item[j].task
                         /\ jt[j].type = item[j].type
                         /\ jt[j].except => item[j].except
                         /\ Emptied(item[j]) => Emptied(jt[j])
    BY <1>2, <1>5
  <2>4. \A j \in Items :
          jt[j].active /\ Emptied(jt[j]) /\ jt[j].task # None
            => (item[j].active /\ Emptied(item[j])) \/ Over(jt, jt[j].task)
    BY <1>2, <1>5, <2>1, <2>2
  <2>5. \A t \in Tasks : ses[t] = "fail" => execRes[t] = "fail" \/ Over(jt, t)
    BY <1>5, <2>1, NoneIsNoTask
  <2>6. QED
    BY <2>3, <2>4, <2>5, PatrolsFrame DEF PatrolInv
<1>6. CASE /\ item[i].active /\ ExceptionExit(i)
           /\ item' = [cleared EXCEPT ![i] = exceptionsExit(@)]
  <2>1. item' = [cleared EXCEPT ![i] = exceptionsExit(cleared[i])]
    BY <1>6
  <2>2. LET c == exceptionsExit(cleared[i])
        IN  /\ c.task = cleared[i].task /\ c.type = cleared[i].type
            /\ ~c.except /\ ~c.active /\ c.cmds = cleared[i].cmds
    BY <1>1, <1>3 DEF exceptionsExit, MoveTaskItem
  <2>3. \A j \in Items : /\ item'[j].task = cleared[j].task
                         /\ item'[j].type = cleared[j].type
                         /\ item'[j].except => cleared[j].except
                         /\ item'[j].active => cleared[j].active
                         /\ Emptied(cleared[j]) <=> Emptied(item'[j])
                         /\ j # i => item'[j] = cleared[j]
    BY <1>1, <1>3, <2>1, <2>2 DEF Emptied
  <2>4. /\ \A t \in Tasks : execRes[t] = "fail" => execRes'[t] = "fail"
        /\ \A t \in Tasks : execRes'[t] = "fail" => execRes[t] = "fail" \/ item[i].task = t
        /\ ~DbMayFail /\ item[i].except => execRes'[item[i].task] # "open"
    BY <1>1, <1>6, ExitFails
  <2>5. Patrols(rootTasks, item', execRes')
    BY <1>5, <2>3, <2>4
  <2>6. QED
    BY <1>2, <2>3, <2>4, <2>5
<1>7. CASE item' = cleared /\ execRes' = execRes
  <2>1. Patrols(rootTasks, item', execRes')
    BY <1>5, <1>7
  <2>2. QED
    BY <1>2, <1>7, <2>1
<1>8. QED
  BY <1>6, <1>7 DEF CancelWith, cleared

\* What a step does to patrols and their records.
LEMMA NextPatrols ==
  ASSUME TypeOK, HeadsOnly, RunHasCommand, PatrolInv, [Next]_vars
  PROVE  /\ PatrolInv'
         /\ \A t \in Tasks : execRes[t] = "fail" => execRes'[t] = "fail"
         /\ \A i \in Items :
              /\ ~DbMayFail
              /\ item[i].active /\ item[i].except /\ ~item'[i].active /\ ~item'[i].except
              => execRes'[item[i].task] # "open"
<1>1. CASE Process
  BY <1>1, ProcessPatrols
<1>2. CASE ProducerStep
  <2>1. execRes' = execRes
    BY <1>2 DEF ProducerStep, others
  <2>2. ASSUME NEW p \in Priority, Produces(p)
        PROVE  PatrolInv' /\ \A i \in Items : item[i].active => item'[i].active
    BY <2>1, <2>2, ProducesPatrols, ProducesActive DEF PatrolInv
  <2>3. ASSUME NEW p \in Priority, item' = clearTaskCommands({p}), UNCHANGED rootTasks
        PROVE  PatrolInv' /\ \A i \in Items : item[i].active => item'[i].active
    BY <2>1, <2>3, PatrolsClear, ClearKeepsActive DEF PatrolInv
  <2>4. QED
    BY <1>2, <2>1, <2>2, <2>3 DEF ProducerStep
<1>3. CASE AgeStep
  <2>1. PICK i \in Members(TP_REGULAR) : CancelWith(clearMoveTask(i), i)
    BY <1>3 DEF AgeStep
  <2>2. i \in Members(TP_REGULAR) /\ rootTasks' = rootTasks
    BY <1>3 DEF AgeStep
  <2>3. QED
    BY <2>1, <2>2, AgePatrols DEF PatrolInv
<1>4. CASE QuietStep
  BY <1>4 DEF QuietStep, PatrolInv
<1>5. CASE UNCHANGED vars
  BY <1>5 DEF vars, PatrolInv
<1>6. QED
  BY <1>1, <1>2, <1>3, <1>4, <1>5, OtherThreads DEF Next

LEMMA PatrolsAlways == Spec => []PatrolInv
<1>1. Init => PatrolInv
  <2>. SUFFICES ASSUME Init PROVE PatrolInv
    OBVIOUS
  <2>2. \A i \in Items : item[i].task = None /\ ~item[i].active /\ ~item[i].except
    BY DEF Init, Blank, NewItem
  <2>3. \A t \in Tasks : execRes[t] # "fail"
    BY DEF Init
  <2>4. QED
    BY <2>2, <2>3
       DEF PatrolInv, Patrols, Placed, Together, ExceptOfPatrol, GoneTogether, FailedIsOver
<1>2. QED
  BY <1>1, NextPatrols, TypeCorrect, HeadsAlways, RunAlwaysHasCommand, PTL DEF Spec

\* The verdict of a cancelled patrol is never overwritten: no group of it that is
\* still queued, or still runs, writes another one.
THEOREM FailAlwaysFinal == Spec => FailIsFinal
<1>1. TypeOK /\ HeadsOnly /\ RunHasCommand /\ PatrolInv /\ [Next]_vars
        => [\A t \in Tasks : execRes[t] = "fail" => execRes'[t] = "fail"]_vars
  BY NextPatrols
<1>2. QED
  BY <1>1, PatrolsAlways, TypeCorrect, HeadsAlways, RunAlwaysHasCommand, PTL
     DEF Spec, FailIsFinal

\* A viewpoint that was started and is cancelled, whoever cancels it, loses its
\* exception only with the record of its patrol no longer open.
THEOREM StartedAlwaysCloses == Spec => StartedViewpointCloses
<1>1. TypeOK /\ HeadsOnly /\ RunHasCommand /\ PatrolInv /\ [Next]_vars
        => [\A i \in Items :
              /\ ~DbMayFail
              /\ item[i].active /\ item[i].except
              /\ ~item'[i].active /\ ~item'[i].except
              => execRes'[item[i].task] # "open"]_vars
  BY NextPatrols
<1>2. QED
  BY <1>1, PatrolsAlways, TypeCorrect, HeadsAlways, RunAlwaysHasCommand, PTL
     DEF Spec, StartedViewpointCloses
=============================================================================
