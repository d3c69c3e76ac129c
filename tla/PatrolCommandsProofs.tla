------------------------ MODULE PatrolCommandsProofs ------------------------
(* Proofs about the commands of a patrol and the recognition of its photos  *)
(* beside it, for any number of viewpoints with any wishes, any limits of   *)
(* the retries and of the queue and any answers of the hardware.            *)
EXTENDS ImageProcessManager, SequenceTheorems, TLAPS

---------------------------------------------------------------------------
(* The groups of a patrol.                                                  *)

CommandKinds ==
  {"Goto", "MoveControl", "PtzRotate", "GotoHome", "PddDet", "TakePhoto",
   "RecordVideo", "SQLInsert", "ImageRec", "SetSpeed", "SQLOperation", "Recharge"}

\* What a command of any group may ask for.
Command ==
  {c \in [kind : CommandKinds, to : 0..High] :
     /\ c.kind = "Goto" => c.to \in 0..Len(Views)
     /\ c.kind \in {"TakePhoto", "RecordVideo", "SQLInsert"} => c.to \in Point}

\* The commands only viewpoints have; a group without one has none of them.
ViewKinds == {"TakePhoto", "RecordVideo", "SQLInsert", "ImageRec"}
PlainCommand == {c \in Command : c.kind \notin ViewKinds}

\* Between the moves to a viewpoint and its record: nothing that moves.
Shots(k) == {Cmd("PddDet", k), Cmd("TakePhoto", k), Cmd("RecordVideo", k)}

\* Behind the record.
Afterwards == {c \in Command : c.kind \in {"ImageRec", "PtzRotate", "MoveControl"}}

Takes(s, m) == \E i \in 4..m : s[i].kind = "TakePhoto"

\* The commands of the viewpoint k in front of its record.
Front(k, s) ==
  /\ s \in Seq(Command) /\ Len(s) >= 3
  /\ s[1] = Cmd("Goto", k) /\ s[2] = Cmd("MoveControl", k) /\ s[3] = Cmd("PtzRotate", k)
  /\ \A i \in 4..Len(s) : s[i] \in Shots(k)

\* The commands of the viewpoint k: the moves, what it asks for, its record as
\* the command m + 1, and what follows.
Laid(k, s, m) ==
  /\ s \in Seq(Command) /\ m \in Nat /\ m >= 3 /\ Len(s) >= m + 1
  /\ s[1] = Cmd("Goto", k) /\ s[2] = Cmd("MoveControl", k) /\ s[3] = Cmd("PtzRotate", k)
  /\ \A i \in 4..m : s[i] \in Shots(k)
  /\ Takes(s, m) <=> "pic" \in Views[k].has
  /\ s[m + 1] = Cmd("SQLInsert", k)
  /\ \A i \in (m + 2)..Len(s) : s[i] \in Afterwards

LEMMA ViewsFacts ==
  /\ Len(Views) \in Nat \ {0}
  /\ Point = 1..Len(Views)
  /\ High \in Nat /\ High = Len(Views) + 1
  /\ \A k \in Point : Views[k].pos \in Nat /\ Views[k].has \subseteq Wish
<1>. DEFINE V == [pos : Nat \ {0}, has : SUBSET Wish]
<1>1. Views \in Seq(V) /\ Views # <<>>
  BY PlanOK
<1>2. Len(Views) \in Nat \ {0} /\ Point = 1..Len(Views)
  BY <1>1, EmptySeq, LenProperties DEF Point
<1>3. ASSUME NEW k \in Point PROVE Views[k] \in V
  BY <1>1, <1>2, ElementOfSeq
<1>. QED
  BY <1>2, <1>3 DEF High

\* The elements of two sequences put together.
LEMMA Joined ==
  ASSUME NEW S, NEW s \in Seq(S), NEW t \in Seq(S)
  PROVE  /\ s \o t \in Seq(S) /\ Len(s) \in Nat /\ Len(t) \in Nat
         /\ Len(s \o t) = Len(s) + Len(t)
         /\ \A i \in 1..Len(s) : (s \o t)[i] = s[i]
         /\ \A i \in (Len(s) + 1)..(Len(s) + Len(t)) :
              (s \o t)[i] = t[i - Len(s)] /\ i - Len(s) \in 1..Len(t)
<1>1. Len(s) \in Nat /\ Len(t) \in Nat
  BY LenProperties
<1>2. /\ s \o t \in Seq(S) /\ Len(s \o t) = Len(s) + Len(t)
      /\ \A i \in 1..(Len(s) + Len(t)) :
           (s \o t)[i] = IF i <= Len(s) THEN s[i] ELSE t[i - Len(s)]
  BY ConcatProperties
<1>. QED
  BY <1>1, <1>2

LEMMA ViewCommandTypes ==
  ASSUME NEW k \in Point
  PROVE  /\ Cmd("Goto", k) \in Command /\ Shots(k) \subseteq Command
         /\ Cmd("SQLInsert", k) \in Command
         /\ \A kind \in {"MoveControl", "PtzRotate", "ImageRec"}, to \in {Folded, k} :
              Cmd(kind, to) \in Command
BY ViewsFacts DEF Command, CommandKinds, Shots, Cmd, Folded

LEMMA LongerFront ==
  ASSUME NEW k \in Point, NEW s, Front(k, s), NEW t \in Seq(Shots(k))
  PROVE  /\ Front(k, s \o t)
         /\ Takes(s \o t, Len(s \o t)) <=>
              Takes(s, Len(s)) \/ \E i \in 1..Len(t) : t[i].kind = "TakePhoto"
<1>1. s \in Seq(Command) /\ t \in Seq(Command)
  BY ViewCommandTypes, SeqMonotonic DEF Front
<1>2. /\ s \o t \in Seq(Command) /\ Len(s) \in Nat /\ Len(t) \in Nat
      /\ Len(s \o t) = Len(s) + Len(t)
      /\ \A i \in 1..Len(s) : (s \o t)[i] = s[i]
      /\ \A i \in (Len(s) + 1)..(Len(s) + Len(t)) :
           (s \o t)[i] = t[i - Len(s)] /\ i - Len(s) \in 1..Len(t)
  BY <1>1, Joined
<1>3. \A i \in 1..Len(t) : t[i] \in Shots(k)
  BY ElementOfSeq
<1>4. Len(s) >= 3
  BY DEF Front
<1>5. ASSUME NEW i \in 4..Len(s \o t)
      PROVE  \/ i \in 4..Len(s) /\ (s \o t)[i] = s[i]
             \/ (s \o t)[i] = t[i - Len(s)] /\ i - Len(s) \in 1..Len(t)
  BY <1>2
<1>6. Front(k, s \o t)
  <2>1. \A i \in 4..Len(s \o t) : (s \o t)[i] \in Shots(k)
    BY <1>3, <1>5 DEF Front
  <2>2. /\ (s \o t)[1] = s[1] /\ (s \o t)[2] = s[2] /\ (s \o t)[3] = s[3]
        /\ Len(s \o t) >= 3
    BY <1>2, <1>4
  <2>. QED
    BY <1>2, <2>1, <2>2 DEF Front
<1>7. ASSUME Takes(s \o t, Len(s \o t))
      PROVE  Takes(s, Len(s)) \/ \E i \in 1..Len(t) : t[i].kind = "TakePhoto"
  BY <1>5, <1>7 DEF Takes
<1>8. ASSUME Takes(s, Len(s)) PROVE Takes(s \o t, Len(s \o t))
  <2>1. PICK i \in 4..Len(s) : s[i].kind = "TakePhoto"
    BY <1>8 DEF Takes
  <2>2. i \in 4..Len(s \o t) /\ i \in 1..Len(s)
    BY <1>2
  <2>. QED
    BY <1>2, <2>1, <2>2 DEF Takes
<1>9. ASSUME NEW i \in 1..Len(t), t[i].kind = "TakePhoto"
      PROVE  Takes(s \o t, Len(s \o t))
  <2>. DEFINE j == i + Len(s)
  <2>1. j \in 4..Len(s \o t) /\ j \in (Len(s) + 1)..(Len(s) + Len(t)) /\ j - Len(s) = i
    BY <1>2, <1>4
  <2>2. (s \o t)[j] = t[j - Len(s)]
    BY <1>2, <2>1
  <2>. HIDE DEF j
  <2>. QED
    BY <1>9, <2>1, <2>2 DEF Takes
<1>. QED
  BY <1>6, <1>7, <1>8, <1>9

LEMMA LongerLaid ==
  ASSUME NEW k \in Point, NEW m, NEW s, Laid(k, s, m), NEW t \in Seq(Afterwards)
  PROVE  Laid(k, s \o t, m)
<1>1. s \in Seq(Command) /\ t \in Seq(Command)
  BY SeqMonotonic DEF Laid, Afterwards
<1>2. /\ s \o t \in Seq(Command) /\ Len(s) \in Nat /\ Len(t) \in Nat
      /\ Len(s \o t) = Len(s) + Len(t)
      /\ \A i \in 1..Len(s) : (s \o t)[i] = s[i]
      /\ \A i \in (Len(s) + 1)..(Len(s) + Len(t)) :
           (s \o t)[i] = t[i - Len(s)] /\ i - Len(s) \in 1..Len(t)
  BY <1>1, Joined
<1>3. \A i \in 1..Len(t) : t[i] \in Afterwards
  BY ElementOfSeq
<1>4. m \in Nat /\ m >= 3 /\ Len(s) >= m + 1
  BY DEF Laid
<1>5. \A i \in 1..(m + 1) : (s \o t)[i] = s[i]
  BY <1>2, <1>4
<1>6. \A i \in (m + 2)..Len(s \o t) : (s \o t)[i] \in Afterwards
  <2>. SUFFICES ASSUME NEW i \in (m + 2)..Len(s \o t) PROVE (s \o t)[i] \in Afterwards
    OBVIOUS
  <2>1. CASE i <= Len(s)
    <3>1. i \in (m + 2)..Len(s) /\ i \in 1..Len(s)
      BY <1>2, <1>4, <2>1
    <3>. QED
      BY <1>2, <3>1 DEF Laid
  <2>2. CASE i > Len(s)
    <3>1. i \in (Len(s) + 1)..(Len(s) + Len(t))
      BY <1>2, <1>4, <2>2
    <3>. QED
      BY <1>2, <1>3, <3>1
  <2>. QED
    BY <1>2, <1>4, <2>1, <2>2
<1>7. Takes(s \o t, m) <=> Takes(s, m)
  <2>1. \A i \in 4..m : (s \o t)[i] = s[i]
    BY <1>4, <1>5
  <2>. QED
    BY <2>1 DEF Takes
<1>8. \A i \in 4..m : (s \o t)[i] \in Shots(k)
  BY <1>4, <1>5 DEF Laid
<1>9. /\ (s \o t)[1] = s[1] /\ (s \o t)[2] = s[2] /\ (s \o t)[3] = s[3]
      /\ (s \o t)[m + 1] = s[m + 1] /\ Len(s \o t) >= m + 1
  BY <1>2, <1>4, <1>5
<1>. QED
  BY <1>2, <1>4, <1>6, <1>7, <1>8, <1>9 DEF Laid

LEMMA IfSeq ==
  ASSUME NEW S, NEW b, NEW s \in Seq(S)
  PROVE  If(b, s) \in Seq(S)
<1>1. CASE b
  BY <1>1 DEF If
<1>2. CASE ~b
  <2>1. If(b, s) = <<>>
    BY <1>2 DEF If
  <2>. QED
    BY <2>1, EmptySeq
<1>. QED
  BY <1>1, <1>2

\* The commands of a viewpoint: the moves come first, then the photo if it asks
\* for one, then the record, and only then what moves the robot on.
LEMMA ViewCommandsFacts ==
  ASSUME NEW k \in Point
  PROVE  \E m \in Nat : Laid(k, ViewCommands(k), m)
<1>. DEFINE has == Views[k].has
            fold == /\ ArmLiftMoving
                    /\ k < Len(Views)
                    /\ Views[k].pos # Views[k + 1].pos
            b0 == << Cmd("Goto", k), Cmd("MoveControl", k), Cmd("PtzRotate", k) >>
            t1 == If("pdd" \in has, <<Cmd("PddDet", k)>>)
            t2 == If("pic" \in has, <<Cmd("TakePhoto", k)>>)
            t3 == If("vid" \in has, <<Cmd("RecordVideo", k)>>)
            t4 == <<Cmd("SQLInsert", k)>>
            t5 == If("pic" \in has, <<Cmd("ImageRec", k)>>)
            t6 == If(fold, <<Cmd("PtzRotate", Folded), Cmd("MoveControl", Folded)>>)
<1>1. ViewCommands(k) = b0 \o t1 \o t2 \o t3 \o t4 \o t5 \o t6
  BY DEF ViewCommands
<1>2. /\ Cmd("PddDet", k) \in Shots(k) /\ Cmd("TakePhoto", k) \in Shots(k)
      /\ Cmd("RecordVideo", k) \in Shots(k)
  BY DEF Shots
<1>3. /\ Cmd("ImageRec", k) \in Afterwards /\ Cmd("PtzRotate", Folded) \in Afterwards
      /\ Cmd("MoveControl", Folded) \in Afterwards
  BY ViewCommandTypes DEF Afterwards, Cmd
<1>4. t1 \in Seq(Shots(k)) /\ t2 \in Seq(Shots(k)) /\ t3 \in Seq(Shots(k))
  <2>1. /\ <<Cmd("PddDet", k)>> \in Seq(Shots(k)) /\ <<Cmd("TakePhoto", k)>> \in Seq(Shots(k))
        /\ <<Cmd("RecordVideo", k)>> \in Seq(Shots(k))
    BY <1>2
  <2>. QED
    BY <2>1, IfSeq
<1>5. t5 \in Seq(Afterwards) /\ t6 \in Seq(Afterwards)
  <2>1. /\ <<Cmd("ImageRec", k)>> \in Seq(Afterwards)
        /\ <<Cmd("PtzRotate", Folded), Cmd("MoveControl", Folded)>> \in Seq(Afterwards)
    BY <1>3
  <2>. QED
    BY <2>1, IfSeq
<1>6. Front(k, b0) /\ ~Takes(b0, Len(b0))
  <2>1. b0 \in Seq(Command) /\ Len(b0) = 3
    <3>1. Cmd("Goto", k) \in Command /\ Cmd("MoveControl", k) \in Command
          /\ Cmd("PtzRotate", k) \in Command
      BY ViewCommandTypes
    <3>. QED
      BY <3>1
  <2>2. \A i \in 4..3 : FALSE
    OBVIOUS
  <2>3. /\ b0[1] = Cmd("Goto", k) /\ b0[2] = Cmd("MoveControl", k)
        /\ b0[3] = Cmd("PtzRotate", k)
    OBVIOUS
  <2>. HIDE DEF b0
  <2>. QED
    BY <2>1, <2>2, <2>3 DEF Front, Takes
<1>7. /\ ~ \E i \in 1..Len(t1) : t1[i].kind = "TakePhoto"
      /\ ~ \E i \in 1..Len(t3) : t3[i].kind = "TakePhoto"
      /\ (\E i \in 1..Len(t2) : t2[i].kind = "TakePhoto") <=> "pic" \in has
  <2>1. ~ \E i \in 1..Len(t1) : t1[i].kind = "TakePhoto"
    BY DEF If, Cmd
  <2>2. ~ \E i \in 1..Len(t3) : t3[i].kind = "TakePhoto"
    BY DEF If, Cmd
  <2>3. (\E i \in 1..Len(t2) : t2[i].kind = "TakePhoto") <=> "pic" \in has
    <3>1. CASE "pic" \in has
      <4>1. t2 = <<Cmd("TakePhoto", k)>>
        BY <3>1 DEF If
      <4>2. 1 \in 1..Len(t2) /\ t2[1].kind = "TakePhoto"
        BY <4>1 DEF Cmd
      <4>. QED
        BY <3>1, <4>2
    <3>2. CASE "pic" \notin has
      BY <3>2 DEF If
    <3>. QED
      BY <3>1, <3>2
  <2>. QED
    BY <2>1, <2>2, <2>3
<1>8. t4 \in Seq(Command) /\ Len(t4) = 1 /\ t4[1] = Cmd("SQLInsert", k)
  BY ViewCommandTypes
<1>. HIDE DEF t1, t2, t3, t4, t5, t6, b0
<1>9. Front(k, b0 \o t1) /\ ~Takes(b0 \o t1, Len(b0 \o t1))
  BY <1>4, <1>6, <1>7, LongerFront
<1>10. /\ Front(k, b0 \o t1 \o t2)
       /\ Takes(b0 \o t1 \o t2, Len(b0 \o t1 \o t2)) <=> "pic" \in has
  <2>. DEFINE s == b0 \o t1
  <2>1. Front(k, s) /\ ~Takes(s, Len(s))
    BY <1>9
  <2>. HIDE DEF s
  <2>2. /\ Front(k, s \o t2)
        /\ Takes(s \o t2, Len(s \o t2)) <=>
             Takes(s, Len(s)) \/ \E i \in 1..Len(t2) : t2[i].kind = "TakePhoto"
    BY <1>4, <2>1, LongerFront
  <2>3. Takes(s \o t2, Len(s \o t2)) <=> "pic" \in has
    BY <1>7, <2>1, <2>2
  <2>. QED
    BY <2>2, <2>3 DEF s
<1>11. /\ Front(k, b0 \o t1 \o t2 \o t3)
       /\ Takes(b0 \o t1 \o t2 \o t3, Len(b0 \o t1 \o t2 \o t3)) <=> "pic" \in has
  <2>. DEFINE s == b0 \o t1 \o t2
  <2>1. Front(k, s) /\ (Takes(s, Len(s)) <=> "pic" \in has)
    BY <1>10
  <2>. HIDE DEF s
  <2>2. /\ Front(k, s \o t3)
        /\ Takes(s \o t3, Len(s \o t3)) <=>
             Takes(s, Len(s)) \/ \E i \in 1..Len(t3) : t3[i].kind = "TakePhoto"
    BY <1>4, <2>1, LongerFront
  <2>3. Takes(s \o t3, Len(s \o t3)) <=> "pic" \in has
    BY <1>7, <2>1, <2>2
  <2>. QED
    BY <2>2, <2>3 DEF s
<1>. DEFINE f == b0 \o t1 \o t2 \o t3
            m == Len(f)
<1>12. Laid(k, f \o t4, m) /\ m \in Nat
  <2>1. Front(k, f) /\ (Takes(f, m) <=> "pic" \in has)
    BY <1>11
  <2>. HIDE DEF f
  <2>2. f \in Seq(Command) /\ m >= 3
    BY <2>1 DEF Front
  <2>3. /\ f \o t4 \in Seq(Command) /\ m \in Nat /\ Len(f \o t4) = m + 1
        /\ \A i \in 1..m : (f \o t4)[i] = f[i]
        /\ \A i \in (m + 1)..(m + 1) :
             (f \o t4)[i] = t4[i - m] /\ i - m \in 1..1
    <3>1. /\ f \o t4 \in Seq(Command) /\ Len(f) \in Nat
          /\ Len(f \o t4) = Len(f) + Len(t4)
          /\ \A i \in 1..Len(f) : (f \o t4)[i] = f[i]
          /\ \A i \in (Len(f) + 1)..(Len(f) + Len(t4)) :
               (f \o t4)[i] = t4[i - Len(f)] /\ i - Len(f) \in 1..Len(t4)
      BY <1>8, <2>2, Joined
    <3>. QED
      BY <1>8, <3>1
  <2>. HIDE DEF m
  <2>4. (f \o t4)[m + 1] = t4[1]
    <3>1. m + 1 \in (m + 1)..(m + 1) /\ (m + 1) - m = 1
      BY <2>3
    <3>. QED
      BY <2>3, <3>1
  <2>5. \A i \in 4..m : (f \o t4)[i] = f[i]
    BY <2>2, <2>3
  <2>6. Takes(f \o t4, m) <=> Takes(f, m)
    BY <2>5 DEF Takes
  <2>7. \A i \in 4..m : (f \o t4)[i] \in Shots(k)
    BY <2>1, <2>5 DEF Front, m
  <2>8. \A i \in (m + 2)..Len(f \o t4) : FALSE
    BY <2>3
  <2>9. (f \o t4)[1] = f[1] /\ (f \o t4)[2] = f[2] /\ (f \o t4)[3] = f[3]
    BY <2>2, <2>3
  <2>. QED
    BY <1>8, <2>1, <2>2, <2>3, <2>4, <2>6, <2>7, <2>8, <2>9 DEF Laid, Front
<1>. HIDE DEF f, m
<1>13. Laid(k, f \o t4 \o t5, m)
  BY <1>5, <1>12, LongerLaid
<1>14. Laid(k, f \o t4 \o t5 \o t6, m)
  BY <1>5, <1>13, LongerLaid
<1>15. ViewCommands(k) = f \o t4 \o t5 \o t6
  BY <1>1 DEF f
<1>. QED
  BY <1>12, <1>14, <1>15

\* A group without a viewpoint.
Plain(g) ==
  /\ g.view = 0
  /\ g.cmds \in Seq(PlainCommand)
  /\ Len(g.cmds) >= 1

\* The group of viewpoint k.
OfView(k, g) ==
  /\ g.view = k
  /\ ~g.own
  /\ \E m \in Nat : Laid(k, g.cmds, m)

\* What comes after the viewpoints opens no record.
Closing(g) ==
  /\ Plain(g)
  /\ \A i \in 1..Len(g.cmds) : g.cmds[i].kind # "SQLOperation"

LEMMA PlainGroups ==
  Plain(Homing) /\ Plain(PatrolStart) /\ Closing(ToBeginning) /\ Closing(Charge)
<1>1. \A kind \in CommandKinds \ (ViewKinds \cup {"Goto"}) : Cmd(kind, 0) \in PlainCommand
  BY ViewsFacts DEF PlainCommand, ViewKinds, Command, CommandKinds, Cmd
<1>2. Cmd("MoveControl", High) \in PlainCommand /\ Cmd("Goto", Begin) \in PlainCommand
  BY ViewsFacts DEF PlainCommand, ViewKinds, Command, CommandKinds, Cmd, Begin
<1>3. /\ Cmd("PddDet", Folded) \in PlainCommand /\ Cmd("PtzRotate", Folded) \in PlainCommand
      /\ Cmd("GotoHome", Folded) \in PlainCommand /\ Cmd("SetSpeed", 0) \in PlainCommand
      /\ Cmd("SQLOperation", 0) \in PlainCommand /\ Cmd("Recharge", 0) \in PlainCommand
      /\ Cmd("MoveControl", Folded) \in PlainCommand
  BY <1>1 DEF Folded, CommandKinds, ViewKinds
<1>4. Plain(Homing)
  BY <1>2, <1>3 DEF Plain, Homing, Group
<1>5. Plain(PatrolStart)
  BY <1>3 DEF Plain, PatrolStart, Group
<1>6. Closing(ToBeginning)
  <2>1. Plain(ToBeginning)
    BY <1>2, <1>3 DEF Plain, ToBeginning, Group
  <2>. QED
    BY <2>1 DEF Closing, ToBeginning, Group, Cmd
<1>7. Closing(Charge)
  <2>1. Plain(Charge)
    BY <1>3 DEF Plain, Charge, Group
  <2>. QED
    BY <2>1 DEF Closing, Charge, Group, Cmd
<1>. QED
  BY <1>4, <1>5, <1>6, <1>7

\* The groups are plain, but for those of the viewpoints, in their order, and
\* after these comes the way home, if any.
LEMMA GroupsFacts ==
  /\ Len(Groups) \in Nat /\ Len(Groups) >= Base + Len(Views)
  /\ \A g \in 1..Len(Groups) :
       IF g - Base \in Point THEN OfView(g - Base, Groups[g]) ELSE Plain(Groups[g])
  /\ \A g \in 1..Len(Groups) : g > Base + Len(Views) => Closing(Groups[g])
<1>. DEFINE G == {g \in {Homing, PatrolStart, ToBeginning, Charge} : TRUE}
                   \cup {Group(k, FALSE, ViewCommands(k)) : k \in Point}
            a == If(HomeFirst, <<Homing>>)
            b == <<PatrolStart>>
            c == [k \in Point |-> Group(k, FALSE, ViewCommands(k))]
            d == If(Over = "OVER_TO_BEGINNING", <<ToBeginning>>)
            e == If(Over = "OVER_CHARGE", <<Charge>>)
<1>1. Groups = a \o b \o c \o d \o e
  BY DEF Groups
<1>2. a \in Seq(G) /\ b \in Seq(G) /\ d \in Seq(G) /\ e \in Seq(G)
  <2>1. /\ <<Homing>> \in Seq(G) /\ <<PatrolStart>> \in Seq(G)
        /\ <<ToBeginning>> \in Seq(G) /\ <<Charge>> \in Seq(G)
    <3>1. Homing \in G /\ PatrolStart \in G /\ ToBeginning \in G /\ Charge \in G
      OBVIOUS
    <3>. HIDE DEF G
    <3>. QED
      BY <3>1
  <2>. HIDE DEF G
  <2>. QED
    BY <2>1, IfSeq
<1>3. c \in Seq(G) /\ Len(c) = Len(Views)
  <2>1. c \in [1..Len(Views) -> G]
    BY ViewsFacts
  <2>. HIDE DEF c, G
  <2>. QED
    BY <2>1, ViewsFacts, SeqDef
<1>4. Len(a) = Base - 1 /\ Len(b) = 1
  BY DEF If, Base
<1>5. Base \in {1, 2} /\ Len(Views) \in Nat
  BY ViewsFacts DEF Base
<1>6. /\ \A i \in 1..Len(a) : Plain(a[i])
      /\ \A i \in 1..Len(b) : Plain(b[i])
      /\ \A i \in 1..Len(d) : Closing(d[i])
      /\ \A i \in 1..Len(e) : Closing(e[i])
  <2>1. \A i \in 1..Len(a) : Plain(a[i])
    BY PlainGroups DEF If
  <2>2. \A i \in 1..Len(b) : Plain(b[i])
    BY PlainGroups
  <2>3. \A i \in 1..Len(d) : Closing(d[i])
    BY PlainGroups DEF If
  <2>4. \A i \in 1..Len(e) : Closing(e[i])
    BY PlainGroups DEF If
  <2>. QED
    BY <2>1, <2>2, <2>3, <2>4
<1>7. \A k \in Point : OfView(k, c[k])
  BY ViewCommandsFacts DEF OfView, Group
<1>. HIDE DEF a, b, c, d, e, G
<1>8. Len(d) \in Nat /\ Len(e) \in Nat
  BY <1>2, LenProperties
<1>9. /\ a \o b \in Seq(G) /\ Len(a \o b) = Base
      /\ \A i \in 1..Base : Plain((a \o b)[i])
  <2>1. /\ a \o b \in Seq(G) /\ Len(a \o b) = Len(a) + Len(b)
        /\ \A i \in 1..(Len(a) + Len(b)) :
             (a \o b)[i] = IF i <= Len(a) THEN a[i] ELSE b[i - Len(a)]
    BY <1>2, ConcatProperties
  <2>2. ASSUME NEW i \in 1..Base PROVE Plain((a \o b)[i])
    <3>1. CASE i <= Len(a)
      BY <1>4, <1>5, <1>6, <2>1, <3>1
    <3>2. CASE i = Base
      BY <1>4, <1>5, <1>6, <2>1, <3>2
    <3>. QED
      BY <1>4, <1>5, <3>1, <3>2
  <2>3. Len(a) + Len(b) = Base
    BY <1>4, <1>5
  <2>. QED
    BY <2>1, <2>2, <2>3
<1>. DEFINE ab == a \o b
            abc == ab \o c
            abcd == abc \o d
<1>. HIDE DEF ab
<1>10. /\ abc \in Seq(G) /\ Len(abc) = Base + Len(Views)
       /\ \A i \in 1..Base : Plain(abc[i])
       /\ \A k \in Point : OfView(k, abc[k + Base])
  <2>1. ab \in Seq(G) /\ Len(ab) = Base /\ \A i \in 1..Base : Plain(ab[i])
    BY <1>9 DEF ab
  <2>2. /\ abc \in Seq(G) /\ Len(abc) = Len(ab) + Len(c)
        /\ \A i \in 1..(Len(ab) + Len(c)) :
             abc[i] = IF i <= Len(ab) THEN ab[i] ELSE c[i - Len(ab)]
    BY <1>3, <2>1, ConcatProperties
  <2>. HIDE DEF abc
  <2>3. \A i \in 1..Base : abc[i] = ab[i]
    BY <1>3, <1>5, <2>1, <2>2
  <2>4. \A k \in Point : abc[k + Base] = c[k]
    BY <1>3, <1>5, <2>1, <2>2, ViewsFacts
  <2>. QED
    BY <1>3, <1>7, <2>1, <2>2, <2>3, <2>4
<1>. HIDE DEF abc
<1>11. /\ abcd \in Seq(G) /\ Len(abcd) = Len(abc) + Len(d)
       /\ \A i \in 1..Len(abc) : abcd[i] = abc[i]
       /\ \A i \in (Len(abc) + 1)..Len(abcd) : Closing(abcd[i])
  <2>1. /\ abcd \in Seq(G) /\ Len(abcd) = Len(abc) + Len(d)
        /\ \A i \in 1..(Len(abc) + Len(d)) :
             abcd[i] = IF i <= Len(abc) THEN abc[i] ELSE d[i - Len(abc)]
    <3>1. abc \in Seq(G) /\ d \in Seq(G)
      BY <1>2, <1>10
    <3>. QED
      BY <3>1, ConcatProperties
  <2>2. Len(abc) \in Nat
    BY <1>5, <1>10
  <2>. HIDE DEF abcd
  <2>3. ASSUME NEW i \in (Len(abc) + 1)..Len(abcd) PROVE Closing(abcd[i])
    <3>1. abcd[i] = d[i - Len(abc)] /\ i - Len(abc) \in 1..Len(d)
      BY <1>8, <2>1, <2>2
    <3>. QED
      BY <1>6, <3>1
  <2>. QED
    BY <1>8, <2>1, <2>2, <2>3
<1>. HIDE DEF abcd
<1>12. /\ Groups \in Seq(G) /\ Len(Groups) = Len(abcd) + Len(e)
       /\ \A i \in 1..Len(abcd) : Groups[i] = abcd[i]
       /\ \A i \in (Len(abcd) + 1)..Len(Groups) : Closing(Groups[i])
  <2>1. Groups = abcd \o e
    BY <1>1 DEF abcd, abc, ab
  <2>2. /\ abcd \o e \in Seq(G) /\ Len(abcd \o e) = Len(abcd) + Len(e)
        /\ \A i \in 1..(Len(abcd) + Len(e)) :
             (abcd \o e)[i] = IF i <= Len(abcd) THEN abcd[i] ELSE e[i - Len(abcd)]
    <3>1. abcd \in Seq(G) /\ e \in Seq(G)
      BY <1>2, <1>11
    <3>. QED
      BY <3>1, ConcatProperties
  <2>3. Len(abcd) \in Nat
    BY <1>11, LenProperties
  <2>4. ASSUME NEW i \in (Len(abcd) + 1)..Len(Groups) PROVE Closing(Groups[i])
    <3>1. Groups[i] = e[i - Len(abcd)] /\ i - Len(abcd) \in 1..Len(e)
      BY <1>8, <2>1, <2>2, <2>3
    <3>. QED
      BY <1>6, <3>1
  <2>. QED
    BY <1>8, <2>1, <2>2, <2>3, <2>4
<1>13. ASSUME NEW g \in 1..Len(Groups)
       PROVE  /\ IF g - Base \in Point THEN OfView(g - Base, Groups[g]) ELSE Plain(Groups[g])
              /\ g > Base + Len(Views) => Closing(Groups[g])
  <2>1. CASE g \in 1..Base
    <3>1. Groups[g] = abc[g] /\ g - Base \notin Point /\ ~(g > Base + Len(Views))
      BY <1>5, <1>8, <1>10, <1>11, <1>12, <2>1, ViewsFacts
    <3>. QED
      BY <1>10, <2>1, <3>1
  <2>2. CASE g - Base \in Point
    <3>1. Groups[g] = abc[(g - Base) + Base] /\ ~(g > Base + Len(Views))
      BY <1>5, <1>8, <1>10, <1>11, <1>12, <2>2, ViewsFacts
    <3>. QED
      BY <1>10, <2>2, <3>1
  <2>3. CASE g > Base + Len(Views)
    <3>1. Closing(Groups[g])
      <4>1. Len(abcd) \in Nat /\ Len(abc) = Base + Len(Views) /\ g \in Int /\ g <= Len(Groups)
        BY <1>5, <1>8, <1>10, <1>11
      <4>2. CASE g <= Len(abcd)
        <5>1. g \in (Len(abc) + 1)..Len(abcd) /\ g \in 1..Len(abcd)
          BY <1>5, <2>3, <4>1, <4>2
        <5>2. Groups[g] = abcd[g] /\ Closing(abcd[g])
          BY <1>11, <1>12, <5>1
        <5>. QED
          BY <5>2
      <4>3. CASE g > Len(abcd)
        <5>1. g \in (Len(abcd) + 1)..Len(Groups)
          BY <4>1, <4>3
        <5>. QED
          BY <1>12, <5>1
      <4>. QED
        BY <4>1, <4>2, <4>3
    <3>2. g - Base \notin Point
      BY <1>5, <2>3, ViewsFacts
    <3>. QED
      BY <3>1, <3>2 DEF Closing
  <2>. QED
    BY <1>5, <2>1, <2>2, <2>3, ViewsFacts
<1>. QED
  BY <1>5, <1>8, <1>10, <1>11, <1>12, <1>13

---------------------------------------------------------------------------
(* The states of the commands.                                              *)

Result == {"ST_SLEEP", "ST_GOING", "ST_SUCCESS", "ST_FAIL"}
Status == {"start", "wait", "back", "backResult", "finish"}
CmdState == [ret : Result, status : Status, tries : Nat]

\* The states of exec a command of this kind can be in, where they are fewer.
Fits(kind, c) ==
  kind \in {"PtzRotate", "RecordVideo"} => c.status \in {"start", "wait", "finish"}

\* While a group runs, the iterator points into its commands.
RunInv ==
  Running =>
    /\ cur \in 1..Len(Commands)
    /\ Len(cmd) = Len(Commands)
    /\ \A j \in 1..Len(Commands) : Fits(Kind(j), cmd[j])

\* The commands of the running group, when it is that of the viewpoint k.
LEMMA RunningView ==
  ASSUME grp \in 1..Len(Groups), NEW k \in Point, grp - Base = k
  PROVE  Groups[grp].view = k /\ \E m \in Nat : Laid(k, Commands, m)
BY GroupsFacts DEF OfView, Commands

\* The group that runs is plain, or that of a viewpoint.
LEMMA RunningGroup ==
  ASSUME grp \in 1..Len(Groups)
  PROVE  /\ Len(Commands) \in Nat \ {0}
         /\ \A j \in 1..Len(Commands) : Commands[j] \in Command
         /\ \A j \in 1..Len(Commands) :
              /\ Kind(j) \in ViewKinds => grp - Base \in Point
              /\ Kind(j) \in {"SQLInsert", "TakePhoto"} => To(j) = grp - Base
         /\ Groups[grp].view # 0 <=> grp - Base \in Point
         /\ Groups[grp].view # 0 =>
              /\ Kind(1) = "Goto"
              /\ \A j \in 1..Len(Commands) : Kind(j) = "Goto" => j = 1
              /\ \E j \in 1..Len(Commands) : Kind(j) = "SQLInsert"
<1>1. CASE grp - Base \in Point
  <2>. DEFINE k == grp - Base
  <2>1. k \in Point /\ k # 0 /\ Groups[grp].view = k
    BY <1>1, RunningView, ViewsFacts
  <2>2. PICK m \in Nat : Laid(k, Commands, m)
    BY <2>1, RunningView
  <2>. HIDE DEF k
  <2>3. /\ Commands \in Seq(Command) /\ m >= 3 /\ Len(Commands) >= m + 1
        /\ Len(Commands) \in Nat
    BY <2>2, LenProperties DEF Laid
  <2>4. \A j \in 1..Len(Commands) : Commands[j] \in Command
    BY <2>3, ElementOfSeq
  <2>5. ASSUME NEW j \in 1..Len(Commands)
        PROVE  \/ j = 1 /\ Commands[j] = Cmd("Goto", k)
               \/ /\ j # 1
                  /\ Commands[j] \in {Cmd("MoveControl", k), Cmd("PtzRotate", k),
                                      Cmd("SQLInsert", k)} \cup Shots(k) \cup Afterwards
    <3>1. j = 1 \/ j = 2 \/ j = 3 \/ j \in 4..m \/ j = m + 1 \/ j \in (m + 2)..Len(Commands)
      BY <2>3
    <3>. QED
      BY <2>2, <2>3, <3>1 DEF Laid
  <2>6. ASSUME NEW j \in 1..Len(Commands)
        PROVE  /\ Kind(j) \in {"SQLInsert", "TakePhoto"} => To(j) = k
               /\ Kind(j) = "Goto" => j = 1
    BY <2>5 DEF Kind, To, Cmd, Shots, Afterwards
  <2>7. 1 \in 1..Len(Commands) /\ Kind(1) = "Goto"
    BY <2>2, <2>3 DEF Laid, Kind, Cmd
  <2>8. m + 1 \in 1..Len(Commands) /\ Kind(m + 1) = "SQLInsert"
    BY <2>2, <2>3 DEF Laid, Kind, Cmd
  <2>. QED
    BY <1>1, <2>1, <2>3, <2>4, <2>6, <2>7, <2>8 DEF k
<1>2. CASE grp - Base \notin Point
  <2>1. Plain(Groups[grp])
    BY <1>2, GroupsFacts
  <2>2. /\ Commands \in Seq(PlainCommand) /\ Len(Commands) >= 1 /\ Groups[grp].view = 0
    BY <2>1 DEF Plain, Commands
  <2>3. Len(Commands) \in Nat \ {0}
    BY <2>2, LenProperties
  <2>4. \A j \in 1..Len(Commands) : Commands[j] \in PlainCommand
    BY <2>2, ElementOfSeq
  <2>. QED
    BY <1>2, <2>2, <2>3, <2>4 DEF Kind, PlainCommand, ViewKinds
<1>. QED
  BY <1>1, <1>2

\* What one call of exec leaves the command and the shared result in: a result
\* of failure is only ever passed on by a command that has failed itself, or by
\* a goto under way.
Passes(j, c) ==
  /\ shared' = "ST_FAIL" =>
       shared = "ST_FAIL" \/ c.ret = "ST_FAIL" \/ (Kind(j) = "Goto" /\ ~Done(c))
  /\ Kind(j) = "Goto" /\ Done(c) /\ shared' = "ST_FAIL" => c.ret = "ST_FAIL"

Leaves(j) ==
  \E c \in CmdState :
    /\ cur' = j
    /\ cmd' = [cmd EXCEPT ![j] = c]
    /\ Fits(Kind(j), c)
    /\ Passes(j, c)

LEMMA GoesLeaves ==
  ASSUME NEW j, NEW status \in Status, NEW tries \in Nat,
         Kind(j) \in {"PtzRotate", "RecordVideo"} => status \in {"start", "wait", "finish"},
         shared' = "ST_FAIL" => shared = "ST_FAIL" \/ Kind(j) = "Goto",
         Goes(j, status, tries)
  PROVE  Leaves(j)
<1>. DEFINE c == [ret |-> "ST_GOING", status |-> status, tries |-> tries]
<1>1. c \in CmdState /\ c.ret = "ST_GOING" /\ c.status = status
  BY DEF CmdState, Result
<1>2. cur' = j /\ cmd' = [cmd EXCEPT ![j] = c]
  BY DEF Goes, Step
<1>. HIDE DEF c
<1>. QED
  BY <1>1, <1>2 DEF Leaves, Fits, Passes, Done

LEMMA EndsLeaves ==
  ASSUME NEW j, NEW ret \in {"ST_SUCCESS", "ST_FAIL"},
         \/ ret = "ST_FAIL"
         \/ shared' # "ST_FAIL"
         \/ shared = "ST_FAIL" /\ Kind(j) # "Goto",
         Ends(j, ret)
  PROVE  Leaves(j)
<1>. DEFINE c == [Asleep EXCEPT !.ret = ret]
<1>1. c \in CmdState /\ c.ret = ret /\ c.status = "start"
  BY DEF CmdState, Result, Status, Asleep
<1>2. cur' = j /\ cmd' = [cmd EXCEPT ![j] = c]
  BY DEF Ends, Step
<1>. HIDE DEF c
<1>. QED
  BY <1>1, <1>2 DEF Leaves, Fits, Passes, Done

LEMMA TriesLeaves ==
  ASSUME NEW j, cmd[j] \in CmdState, NEW status \in Status, NEW more,
         Kind(j) \in {"PtzRotate", "RecordVideo"} => status \in {"start", "wait", "finish"},
         more /\ shared' = "ST_FAIL" => shared = "ST_FAIL" \/ Kind(j) = "Goto",
         Tries(j, status, more)
  PROVE  Leaves(j)
<1>1. cmd[j].tries + 1 \in Nat
  BY DEF CmdState
<1>2. CASE more
  BY <1>1, <1>2, GoesLeaves DEF Tries
<1>3. CASE ~more
  BY <1>3, EndsLeaves DEF Tries
<1>. QED
  BY <1>2, <1>3

\* A command never leaves its states, and passes on no failure but its own.
LEMMA ExecLeaves ==
  ASSUME NEW j, cmd[j] \in CmdState, Fits(Kind(j), cmd[j]), Exec(j)
  PROVE  Leaves(j)
<1>. DEFINE n == cmd[j].tries
<1>. n \in Nat /\ n + 1 \in Nat /\ 0 \in Nat /\ 1 \in Nat /\ cmd[j].status \in Status
  BY DEF CmdState
<1>. USE DEF Status
<1>0. CASE Refused(j)
  BY <1>0, EndsLeaves DEF Refused, Chained
<1>1. CASE Kind(j) = "Goto" /\ Goto(j)
  <2>1. CASE GotoSend(j)
    BY <1>1, <2>1, GoesLeaves, TriesLeaves DEF GotoSend
  <2>2. CASE GotoWait(j)
    BY <1>1, <2>2, GoesLeaves, EndsLeaves DEF GotoWait, Reached
  <2>. QED
    BY <1>1, <2>1, <2>2 DEF Goto
<1>2. CASE Kind(j) = "MoveControl" /\ MoveControl(j)
  BY <1>2, GoesLeaves, EndsLeaves, TriesLeaves DEF MoveControl
<1>3. CASE Kind(j) = "PtzRotate" /\ PtzRotate(j)
  <2>1. cmd[j].status \in {"start", "wait", "finish"}
    BY <1>3 DEF Fits
  <2>2. CASE shared' = shared
    <3>1. \/ Ends(j, "ST_FAIL") \/ Ends(j, "ST_SUCCESS")
          \/ Goes(j, cmd[j].status, n) \/ Goes(j, "wait", 1) \/ Goes(j, "finish", n + 1)
          \/ Tries(j, "start", n + 1 <= 5) \/ Tries(j, "wait", n + 1 <= RotateChecks)
      <4>1. CASE cmd[j].status = "start"
        BY <1>3, <4>1 DEF PtzRotate, Waits
      <4>2. CASE cmd[j].status = "wait"
        BY <1>3, <4>2 DEF PtzRotate
      <4>3. CASE cmd[j].status = "finish"
        BY <1>3, <4>3 DEF PtzRotate
      <4>. QED
        BY <2>1, <4>1, <4>2, <4>3
    <3>2. CASE Ends(j, "ST_FAIL") \/ Ends(j, "ST_SUCCESS")
      BY <1>3, <2>2, <3>2, EndsLeaves
    <3>3. CASE Tries(j, "start", n + 1 <= 5) \/ Tries(j, "wait", n + 1 <= RotateChecks)
      BY <1>3, <2>2, <3>3, TriesLeaves
    <3>4. CASE \/ Goes(j, cmd[j].status, n) \/ Goes(j, "wait", 1) \/ Goes(j, "finish", n + 1)
      BY <1>3, <2>1, <2>2, <3>4, GoesLeaves
    <3>. QED
      BY <3>1, <3>2, <3>3, <3>4
  <2>3. CASE Ends(j, "ST_FAIL")
    BY <2>3, EndsLeaves
  <2>. QED
    BY <1>3, <2>2, <2>3 DEF PtzRotate
<1>4. CASE Kind(j) = "GotoHome" /\ GotoHome(j)
  BY <1>4, GoesLeaves, EndsLeaves, TriesLeaves DEF GotoHome
<1>5. CASE Kind(j) = "PddDet" /\ PddDet(j)
  BY <1>5, GoesLeaves, EndsLeaves, TriesLeaves DEF PddDet
<1>6. CASE Kind(j) = "TakePhoto" /\ TakePhoto(j)
  BY <1>6, GoesLeaves, EndsLeaves DEF TakePhoto
<1>7. CASE Kind(j) = "RecordVideo" /\ RecordVideo(j)
  BY <1>7, GoesLeaves, EndsLeaves DEF RecordVideo, Fits
<1>8. CASE Kind(j) = "SQLInsert" /\ SQLInsert(j)
  BY <1>8, EndsLeaves DEF SQLInsert
<1>9. CASE Kind(j) = "ImageRec" /\ ImageRec(j)
  BY <1>9, GoesLeaves, EndsLeaves DEF ImageRec
<1>10. CASE Kind(j) = "SetSpeed" /\ SetSpeed(j)
  BY <1>10, EndsLeaves DEF SetSpeed
<1>11. CASE Kind(j) = "SQLOperation" /\ SQLOperation(j)
  BY <1>11, EndsLeaves DEF SQLOperation
<1>12. CASE Kind(j) = "Recharge" /\ Recharge(j)
  BY <1>12, GoesLeaves, EndsLeaves, TriesLeaves DEF Recharge, Waits
<1>. QED
  BY <1>0, <1>1, <1>2, <1>3, <1>4, <1>5, <1>6, <1>7, <1>8, <1>9, <1>10, <1>11, <1>12
  DEF Exec

---------------------------------------------------------------------------
(* Types.                                                                   *)

\* The types of everything but the state of the commands.
DataTypes ==
  /\ shared \in {"ST_SUCCESS", "ST_FAIL"}
  /\ reachRetry \in 0..(ReachRetries + 1)
  /\ info \in [photo : Shot, video : Shot]
  /\ records \in [Point -> SUBSET Shot]
  /\ verdict \in {"none", "open", "success"}
  /\ hw \in [Motors -> [at : Place, goal : Place \cup {Still}]]

LEMMA MoveTyped ==
  ASSUME DataTypes, NEW m \in Motors, NEW to \in Place, Move(m, to)
  PROVE  hw' \in [Motors -> [at : Place, goal : Place \cup {Still}]]
BY DEF DataTypes, Move

LEMMA PlaceFacts ==
  /\ 0..High \subseteq Place /\ Folded \in Place /\ Begin \in Place
  /\ Pile \in Place /\ Off \in Place
  /\ \A k \in 0..Len(Views) : Position(k) \in Place
BY ViewsFacts DEF Place, Folded, Begin, Position

\* One call of exec of a command keeps the types.
LEMMA ExecTypes ==
  ASSUME DataTypes, NEW j, Commands[j] \in Command, cmd[j] \in CmdState,
         Fits(Kind(j), cmd[j]), Exec(j)
  PROVE  DataTypes'
<1>. DEFINE Hw == [Motors -> [at : Place, goal : Place \cup {Still}]]
<1>. "walk" \in Motors /\ "arm" \in Motors /\ "ptz" \in Motors
  BY DEF Motors
<1>a. To(j) \in 0..High /\ To(j) \in Place
  BY PlaceFacts DEF To, Command
<1>0. CASE Refused(j)
  BY <1>0 DEF Refused, notes, DataTypes
<1>1. CASE Kind(j) = "Goto" /\ Goto(j)
  <2>1. Position(To(j)) \in Place
    BY <1>1, PlaceFacts DEF Kind, To, Command
  <2>2. CASE GotoSend(j)
    <3>1. hw' \in Hw
      BY <2>1, <2>2, MoveTyped DEF GotoSend, DataTypes
    <3>. QED
      BY <1>1, <2>2, <3>1 DEF GotoSend, Goto, notes, DataTypes
  <2>3. CASE GotoWait(j) /\ UNCHANGED hw
    <3>1. reachRetry \in Nat /\ ReachRetries \in Nat
      BY PlanOK DEF DataTypes
    <3>2. reachRetry' \in 0..(ReachRetries + 1) /\ shared' \in {"ST_SUCCESS", "ST_FAIL"}
      BY <2>3, <3>1 DEF GotoWait, Miss, Again, Reached
    <3>. QED
      BY <1>1, <2>3, <3>2 DEF Goto, notes, DataTypes
  <2>. QED
    BY <1>1, <2>2, <2>3 DEF Goto
<1>2. CASE Kind(j) = "MoveControl" /\ MoveControl(j)
  <2>1. hw' \in Hw
    BY <1>2, <1>a, MoveTyped DEF MoveControl, DataTypes
  <2>2. shared' \in {"ST_SUCCESS", "ST_FAIL"}
    BY <1>2 DEF MoveControl, DataTypes
  <2>. QED
    BY <1>2, <2>1, <2>2 DEF MoveControl, notes, DataTypes
<1>3. CASE Kind(j) = "PtzRotate" /\ PtzRotate(j)
  <2>1. cmd[j].status \in {"start", "wait", "finish"}
    BY <1>3 DEF Fits
  <2>2. UNCHANGED hw \/ Move("ptz", To(j)) \/ Move("ptz", Off)
    <3>1. CASE cmd[j].status = "start"
      BY <1>3, <3>1 DEF PtzRotate, Waits
    <3>2. CASE cmd[j].status = "wait"
      BY <1>3, <3>2 DEF PtzRotate
    <3>3. CASE cmd[j].status = "finish"
      BY <1>3, <3>3 DEF PtzRotate
    <3>. QED
      BY <2>1, <3>1, <3>2, <3>3
  <2>3. hw' \in Hw
    BY <1>a, <2>2, MoveTyped, PlaceFacts DEF DataTypes
  <2>4. shared' = shared \/ shared' = "ST_FAIL"
    BY <1>3 DEF PtzRotate
  <2>. QED
    BY <1>3, <2>3, <2>4 DEF PtzRotate, notes, DataTypes
<1>4. CASE Kind(j) = "GotoHome" /\ GotoHome(j)
  <2>1. hw' \in Hw
    BY <1>4, MoveTyped, PlaceFacts DEF GotoHome, DataTypes
  <2>2. shared' \in {"ST_SUCCESS", "ST_FAIL"}
    BY <1>4 DEF GotoHome, DataTypes
  <2>. QED
    BY <1>4, <2>1, <2>2 DEF GotoHome, notes, DataTypes
<1>5. CASE Kind(j) = "PddDet" /\ PddDet(j)
  BY <1>5 DEF PddDet, notes, DataTypes
<1>6. CASE Kind(j) = "TakePhoto" /\ TakePhoto(j)
  <2>1. To(j) \in Point
    BY <1>6 DEF Kind, To, Command
  <2>2. info' \in [photo : Shot, video : Shot]
    BY <1>6, <2>1 DEF TakePhoto, DataTypes, Shot
  <2>. QED
    BY <1>6, <2>2 DEF TakePhoto, DataTypes
<1>7. CASE Kind(j) = "RecordVideo" /\ RecordVideo(j)
  <2>1. To(j) \in Point
    BY <1>7 DEF Kind, To, Command
  <2>2. info' \in [photo : Shot, video : Shot]
    BY <1>7, <2>1 DEF RecordVideo, DataTypes, Shot
  <2>. QED
    BY <1>7, <2>2 DEF RecordVideo, DataTypes
<1>8. CASE Kind(j) = "SQLInsert" /\ SQLInsert(j)
  <2>. DEFINE k == To(j)
              kept == [photo |-> IF "pic" \in Views[k].has THEN info.photo ELSE 0,
                       video |-> IF "vid" \in Views[k].has THEN info.video ELSE 0]
  <2>1. k \in Point
    BY <1>8 DEF Kind, To, Command
  <2>2. kept \in [photo : Shot, video : Shot]
    BY DEF DataTypes, Shot
  <2>3. info' = kept
    BY <1>8 DEF SQLInsert
  <2>4. records' = [records EXCEPT ![k] = @ \cup {kept.photo}] \/ records' = records
    BY <1>8 DEF SQLInsert, Stored
  <2>5. verdict' = "success" \/ verdict' = verdict
    BY <1>8 DEF SQLInsert, Stored
  <2>. HIDE DEF kept, k
  <2>6. kept.photo \in Shot
    BY <2>2
  <2>7. records' \in [Point -> SUBSET Shot]
    BY <2>1, <2>4, <2>6 DEF DataTypes
  <2>8. UNCHANGED <<shared, hw, reachRetry>>
    BY <1>8 DEF SQLInsert
  <2>. QED
    BY <2>2, <2>3, <2>5, <2>7, <2>8 DEF DataTypes
<1>9. CASE Kind(j) = "ImageRec" /\ ImageRec(j)
  BY <1>9 DEF ImageRec, notes, DataTypes
<1>10. CASE Kind(j) = "SetSpeed" /\ SetSpeed(j)
  BY <1>10 DEF SetSpeed, notes, DataTypes
<1>11. CASE Kind(j) = "SQLOperation" /\ SQLOperation(j)
  BY <1>11 DEF SQLOperation, DataTypes
<1>12. CASE Kind(j) = "Recharge" /\ Recharge(j)
  <2>1. UNCHANGED hw \/ Move("walk", Pile)
    BY <1>12 DEF Recharge, Waits
  <2>2. hw' \in Hw
    BY <2>1, MoveTyped, PlaceFacts DEF DataTypes
  <2>. QED
    BY <1>12, <2>2 DEF Recharge, notes, DataTypes
<1>. QED
  BY <1>0, <1>1, <1>2, <1>3, <1>4, <1>5, <1>6, <1>7, <1>8, <1>9, <1>10, <1>11, <1>12
  DEF Exec

TypeInv == TypeOK /\ RunInv

LEMMA RewoundFacts ==
  ASSUME NEW g \in 1..Len(Groups)
  PROVE  /\ Rewound(g) \in Seq(CmdState)
         /\ Len(Rewound(g)) = Len(Groups[g].cmds)
         /\ Len(Groups[g].cmds) \in Nat \ {0}
         /\ \A j \in 1..Len(Groups[g].cmds) : Rewound(g)[j] = Asleep
<1>1. \E S : Groups[g].cmds \in Seq(S) /\ Len(Groups[g].cmds) >= 1
  <2>1. CASE g - Base \in Point
    <3>1. PICK m \in Nat : Laid(g - Base, Groups[g].cmds, m)
      BY <2>1, GroupsFacts DEF OfView
    <3>2. Groups[g].cmds \in Seq(Command) /\ Len(Groups[g].cmds) >= 1
      BY <3>1, LenProperties DEF Laid
    <3>. QED
      BY <3>2
  <2>2. CASE g - Base \notin Point
    BY <2>2, GroupsFacts DEF Plain
  <2>. QED
    BY <2>1, <2>2
<1>2. DOMAIN Groups[g].cmds = 1..Len(Groups[g].cmds) /\ Len(Groups[g].cmds) \in Nat \ {0}
  BY <1>1, LenProperties
<1>3. Asleep \in CmdState
  BY DEF Asleep, CmdState, Result, Status
<1>4. Rewound(g) \in [1..Len(Groups[g].cmds) -> CmdState]
  BY <1>2, <1>3 DEF Rewound
<1>. QED
  BY <1>2, <1>4 DEF Rewound

\* What one call of exec changes of the commands: only the one that was called.
Called(j, c) ==
  /\ cur' = j
  /\ Len(cmd') = Len(cmd)
  /\ \A i \in 1..Len(cmd) : cmd'[i] = IF i = j THEN c ELSE cmd[i]

LEMMA ExecStep ==
  ASSUME TypeInv, Running, NEW j \in 1..Len(Commands), Exec(j), UNCHANGED <<grp, preempts>>
  PROVE  TypeInv' /\ \E c \in CmdState : Called(j, c) /\ Passes(j, c)
<1>1. /\ grp \in 1..Len(Groups) /\ Len(cmd) = Len(Commands) /\ cmd \in Seq(CmdState)
      /\ \A i \in 1..Len(Commands) : Fits(Kind(i), cmd[i])
  BY GroupsFacts DEF TypeInv, TypeOK, RunInv, Running, CmdState, Result, Status
<1>2. cmd[j] \in CmdState /\ Commands[j] \in Command
  BY <1>1, ElementOfSeq, RunningGroup
<1>3. DataTypes
  BY DEF TypeInv, TypeOK, DataTypes
<1>4. DataTypes'
  BY <1>1, <1>2, <1>3, ExecTypes
<1>5. PICK c \in CmdState : /\ cur' = j /\ cmd' = [cmd EXCEPT ![j] = c]
                            /\ Fits(Kind(j), c) /\ Passes(j, c)
  BY <1>1, <1>2, ExecLeaves DEF Leaves
<1>6. /\ cmd' \in Seq(CmdState) /\ Len(cmd') = Len(cmd)
      /\ \A i \in 1..Len(cmd) : cmd'[i] = IF i = j THEN c ELSE cmd[i]
  BY <1>1, <1>5, ExceptSeq
<1>7. Called(j, c)
  BY <1>5, <1>6 DEF Called
<1>8. RunInv'
  <2>1. Commands' = Commands
    BY DEF Commands
  <2>2. \A i \in 1..Len(Commands) : Fits(Kind(i), cmd'[i])
    BY <1>1, <1>5, <1>6
  <2>. QED
    BY <1>1, <1>5, <1>6, <2>1, <2>2 DEF RunInv, Kind, Fits
<1>9. TypeOK'
  <2>1. Len(Commands) \in Nat
    BY <1>1, RunningGroup
  <2>. QED
    BY <1>4, <1>5, <1>6, <2>1 DEF TypeInv, TypeOK, DataTypes, CmdState, Result, Status
<1>. QED
  BY <1>5, <1>7, <1>8, <1>9 DEF TypeInv

\* A group begins, for the first time or again, with all commands asleep.
LEMMA GroupBegins ==
  ASSUME NEW g \in 1..Len(Groups), grp' = g, cur' = 1, cmd' = Rewound(g)
  PROVE  /\ RunInv' /\ cmd' \in Seq(CmdState)
         /\ \A j \in 1..Len(Commands)' : cmd'[j] = Asleep
         /\ 1 \in 1..Len(Commands)'
<1>1. Commands' = Groups[g].cmds
  BY DEF Commands
<1>2. \A j \in 1..Len(Commands') : cmd'[j] = Asleep
  BY <1>1, RewoundFacts
<1>3. Asleep.status = "start"
  BY DEF Asleep
<1>. QED
  BY <1>1, <1>2, <1>3, RewoundFacts DEF RunInv, Fits

\* A group that begins has called none of its commands.
LEMMA FreshGroup ==
  ASSUME TypeInv, NextGroup \/ Preempt, Running'
  PROVE  /\ cur' = 1 /\ 1 \in 1..Len(Commands)'
         /\ \A j \in 1..Len(Commands)' : cmd'[j] = Asleep
<1>1. grp \in 1..Len(Groups) /\ Len(Groups) \in Nat
  BY GroupsFacts DEF TypeInv, TypeOK, NextGroup, Preempt, Running
<1>2. CASE Preempt
  BY <1>1, <1>2, GroupBegins DEF Preempt
<1>3. CASE NextGroup
  <2>1. CASE grp < Len(Groups)
    <3>1. grp + 1 \in 1..Len(Groups) /\ grp' = grp + 1 /\ cur' = 1 /\ cmd' = Rewound(grp + 1)
      BY <1>1, <1>3, <2>1 DEF NextGroup
    <3>. QED
      BY <3>1, GroupBegins
  <2>2. CASE grp = Len(Groups)
    BY <1>1, <1>3, <2>2 DEF NextGroup, Running
  <2>. QED
    BY <1>1, <2>1, <2>2
<1>. QED
  BY <1>2, <1>3

LEMMA NextGroupTypes ==
  ASSUME TypeInv, NextGroup
  PROVE  TypeInv'
<1>1. grp \in 1..Len(Groups) /\ Len(Groups) \in Nat
  BY GroupsFacts DEF TypeInv, TypeOK, NextGroup, Running
<1>2. DataTypes'
  BY DEF TypeInv, TypeOK, DataTypes, NextGroup, notes
<1>3. grp' = grp + 1 /\ cur' = 1 /\ preempts' = preempts
  BY DEF NextGroup
<1>4. RunInv' /\ cmd' \in Seq(CmdState)
  <2>1. CASE grp < Len(Groups)
    <3>1. grp + 1 \in 1..Len(Groups) /\ cmd' = Rewound(grp + 1)
      BY <1>1, <2>1 DEF NextGroup
    <3>. QED
      BY <1>3, <3>1, GroupBegins
  <2>2. CASE grp = Len(Groups)
    <3>1. cmd' = <<>> /\ ~Running'
      BY <1>1, <1>3, <2>2 DEF NextGroup, Running
    <3>. QED
      BY <3>1 DEF RunInv
  <2>. QED
    BY <1>1, <2>1, <2>2
<1>. QED
  BY <1>1, <1>2, <1>3, <1>4 DEF TypeInv, TypeOK, DataTypes, CmdState, Result, Status

LEMMA PreemptTypes ==
  ASSUME TypeInv, Preempt
  PROVE  TypeInv'
<1>1. grp \in 1..Len(Groups)
  BY GroupsFacts DEF TypeInv, TypeOK, Preempt, Running
<1>2. hw' \in [Motors -> [at : Place, goal : Place \cup {Still}]]
  <2>1. PICK a \in {Folded, Off}, p \in {Folded, Off} :
          hw' = [m \in Motors |->
                   [at |-> CASE m = "walk" -> Off [] m = "arm" -> a [] m = "ptz" -> p,
                    goal |-> Still]]
    BY DEF Preempt
  <2>2. a \in Place /\ p \in Place /\ Off \in Place
    BY PlaceFacts
  <2>. QED
    BY <2>1, <2>2 DEF Motors
<1>3. DataTypes'
  <2>1. info' \in [photo : Shot, video : Shot]
    <3>1. info \in [photo : Shot, video : Shot] /\ Foreign \in Shot
      BY DEF TypeInv, TypeOK, Shot
    <3>2. info' = info \/ info' = [photo |-> Foreign, video |-> Foreign]
      BY DEF Preempt
    <3>. QED
      BY <3>1, <3>2
  <2>2. reachRetry' \in 0..(ReachRetries + 1) /\ UNCHANGED <<shared, records, verdict>>
    BY DEF Preempt
  <2>. QED
    BY <1>2, <2>1, <2>2 DEF TypeInv, TypeOK, DataTypes
<1>4. RunInv' /\ cmd' \in Seq(CmdState)
  BY <1>1, GroupBegins DEF Preempt
<1>5. preempts' \in 0..MaxPreempts
  <2>1. preempts \in Nat /\ MaxPreempts \in Nat
    BY PlanOK DEF TypeInv, TypeOK
  <2>2. preempts < MaxPreempts /\ preempts' = preempts + 1
    BY DEF Preempt
  <2>. QED
    BY <2>1, <2>2
<1>6. grp' = grp /\ cur' = 1
  BY DEF Preempt
<1>7. TypeOK'
  BY <1>3, <1>4, <1>5, <1>6 DEF TypeInv, TypeOK, DataTypes, CmdState, Result, Status
<1>. QED
  BY <1>4, <1>7 DEF TypeInv

LEMMA ArriveTypes ==
  ASSUME TypeInv, NEW m \in Motors, Arrive(m)
  PROVE  TypeInv'
<1>1. PICK p \in {hw[m].goal, Off} : hw' = [hw EXCEPT ![m] = [at |-> p, goal |-> Still]]
  BY DEF Arrive
<1>2. p \in Place
  BY <1>1, PlaceFacts DEF TypeInv, TypeOK, Arrive, Stopped
<1>3. hw' \in [Motors -> [at : Place, goal : Place \cup {Still}]]
  BY <1>1, <1>2 DEF TypeInv, TypeOK
<1>4. UNCHANGED <<grp, cur, cmd, shared, reachRetry, info, records, verdict, preempts>>
  BY DEF Arrive
<1>5. RunInv'
  BY <1>4 DEF TypeInv, RunInv, Running, Commands, Kind, Fits
<1>. QED
  BY <1>3, <1>4, <1>5 DEF TypeInv, TypeOK

\* The command that ExecCurrent or ExecNext calls.
LEMMA CalledIsCommand ==
  ASSUME TypeInv, ExecCurrent \/ ExecNext
  PROVE  /\ Running /\ UNCHANGED <<grp, preempts>> /\ cur \in 1..Len(Commands)
         /\ \E j \in 1..Len(Commands) :
              /\ Exec(j)
              /\ \/ j = cur /\ ~Done(cmd[cur])
                 \/ j = cur + 1 /\ Done(cmd[cur])
<1>1. Running
  BY DEF ExecCurrent, ExecNext
<1>2. grp \in 1..Len(Groups)
  BY <1>1, GroupsFacts DEF TypeInv, TypeOK, Running
<1>3. cur \in 1..Len(Commands) /\ Len(Commands) \in Nat
  BY <1>1, <1>2, RunningGroup DEF TypeInv, RunInv
<1>4. CASE ExecCurrent
  BY <1>1, <1>3, <1>4 DEF ExecCurrent
<1>5. CASE ExecNext
  <2>1. cur + 1 \in 1..Len(Commands)
    BY <1>3, <1>5 DEF ExecNext
  <2>. QED
    BY <1>1, <1>3, <1>5, <2>1 DEF ExecNext
<1>. QED
  BY <1>4, <1>5

LEMMA TypesAtFirst == Init => TypeInv
<1>. SUFFICES ASSUME Init PROVE TypeInv
  OBVIOUS
<1>1. 1 \in 1..Len(Groups) /\ Len(Groups) \in Nat
  BY GroupsFacts, ViewsFacts DEF Base
<1>2. /\ Rewound(1) \in Seq(CmdState) /\ Len(Rewound(1)) = Len(Groups[1].cmds)
      /\ Len(Groups[1].cmds) \in Nat \ {0}
      /\ \A j \in 1..Len(Groups[1].cmds) : Rewound(1)[j] = Asleep
  BY <1>1, RewoundFacts
<1>3. RunInv
  BY <1>2 DEF Init, RunInv, Commands, Fits, Asleep
<1>4. DataTypes
  BY PlaceFacts, PlanOK DEF Init, DataTypes, Shot
<1>. QED
  BY <1>1, <1>2, <1>3, <1>4, PlanOK
  DEF Init, TypeInv, TypeOK, DataTypes, CmdState, Result, Status

LEMMA TypesKept ==
  ASSUME TypeInv, [Next]_vars
  PROVE  TypeInv'
<1>1. CASE ExecCurrent \/ ExecNext
  BY <1>1, CalledIsCommand, ExecStep
<1>2. CASE NextGroup
  BY <1>2, NextGroupTypes
<1>3. CASE Preempt
  BY <1>3, PreemptTypes
<1>4. ASSUME NEW m \in Motors, Arrive(m) PROVE TypeInv'
  BY <1>4, ArriveTypes
<1>5. CASE UNCHANGED vars
  BY <1>5 DEF vars, TypeInv, TypeOK, RunInv, Running, Commands, Kind, Fits
<1>. QED
  BY <1>1, <1>2, <1>3, <1>4, <1>5 DEF Next, Run

\* The variables keep their types: in particular the static counter of
\* GotoCommand::exec never passes the limit by more than one, whichever groups
\* it outlives.
THEOREM TypeCorrect == Spec => []TypeOK
<1>1. TypeInv => TypeOK
  BY DEF TypeInv
<1>2. TypeInv /\ [Next]_vars => TypeInv'
  BY TypesKept
<1>. QED
  BY <1>1, <1>2, TypesAtFirst, PTL DEF Spec

---------------------------------------------------------------------------
(* No failure outlives its viewpoint.                                       *)

LEMMA FreshGroupFailsNot ==
  ASSUME NextGroup \/ Preempt, TypeInv
  PROVE  FailureHasCause'
<1>2. Running' => cmd'[1] = Asleep
  BY FreshGroup
<1>3. ~Done(Asleep)
  BY DEF Done, Asleep
<1>. QED
  BY <1>2, <1>3 DEF FailureHasCause, View

LEMMA CallKeepsCause ==
  ASSUME TypeInv, FailureHasCause, ExecCurrent \/ ExecNext
  PROVE  FailureHasCause'
<1>1. /\ Running /\ UNCHANGED <<grp, preempts>> /\ cur \in 1..Len(Commands)
      /\ grp \in 1..Len(Groups) /\ Len(cmd) = Len(Commands) /\ Len(Commands) \in Nat
  BY CalledIsCommand, RunningGroup, GroupsFacts DEF TypeInv, TypeOK, RunInv, Running
<1>2. PICK j \in 1..Len(Commands) :
        /\ Exec(j)
        /\ \/ j = cur /\ ~Done(cmd[cur])
           \/ j = cur + 1 /\ Done(cmd[cur])
  BY CalledIsCommand
<1>3. PICK c \in CmdState : Called(j, c) /\ Passes(j, c)
  BY <1>1, <1>2, ExecStep
<1>. SUFFICES ASSUME View, Done(cmd'[1]), shared' = "ST_FAIL"
              PROVE  \E i \in 1..j : cmd'[i].ret = "ST_FAIL"
  BY <1>1, <1>3 DEF FailureHasCause, View, Running, Called
<1>4. /\ \A i \in 1..Len(Commands) : Kind(i) = "Goto" => i = 1
      /\ Kind(1) = "Goto"
  BY <1>1, RunningGroup DEF View
<1>5. \A i \in 1..Len(Commands) : cmd'[i] = IF i = j THEN c ELSE cmd[i]
  BY <1>1, <1>3 DEF Called
<1>6. CASE c.ret = "ST_FAIL"
  <2>1. cmd'[j].ret = "ST_FAIL" /\ j \in 1..j
    BY <1>1, <1>2, <1>5, <1>6
  <2>. QED
    BY <2>1
<1>7. CASE j = 1
  <2>1. Kind(j) = "Goto" /\ Done(c)
    BY <1>1, <1>4, <1>5, <1>7
  <2>. QED
    BY <1>3, <1>6, <2>1 DEF Passes
<1>8. CASE j # 1 /\ c.ret # "ST_FAIL"
  <2>1. shared = "ST_FAIL"
    BY <1>2, <1>3, <1>4, <1>8 DEF Passes
  <2>2. Done(cmd[1])
    <3>1. 1 \in 1..Len(Commands)
      BY <1>1
    <3>. QED
      BY <1>5, <1>8, <3>1
  <2>3. PICK i \in 1..cur : cmd[i].ret = "ST_FAIL"
    BY <2>1, <2>2 DEF FailureHasCause
  <2>4. i # j
    <3>1. Done(cmd[i])
      BY <2>3 DEF Done
    <3>. QED
      BY <1>1, <1>2, <2>3, <3>1
  <2>5. i \in 1..j /\ i \in 1..Len(Commands)
    BY <1>1, <1>2, <2>3
  <2>6. cmd'[i].ret = "ST_FAIL"
    BY <1>5, <2>3, <2>4, <2>5
  <2>. QED
    BY <2>5, <2>6
<1>. QED
  BY <1>6, <1>7, <1>8

\* A failure does not outlive the viewpoint it happened at: the goto of the next
\* one takes the shared result back, whatever the hardware answers, although
\* only some of the commands reset it (GotoCommand::exec).
THEOREM FailureAlwaysHasCause == Spec => []FailureHasCause
<1>. DEFINE Inv == TypeInv /\ FailureHasCause
<1>1. Init => FailureHasCause
  <2>. SUFFICES ASSUME Init PROVE FailureHasCause
    OBVIOUS
  <2>1. shared = "ST_SUCCESS"
    BY DEF Init
  <2>. QED
    BY <2>1 DEF FailureHasCause
<1>2. Inv /\ [Next]_vars => Inv'
  <2>. SUFFICES ASSUME Inv, [Next]_vars PROVE FailureHasCause'
    BY TypesKept
  <2>1. CASE ExecCurrent \/ ExecNext
    BY <2>1, CallKeepsCause
  <2>2. CASE NextGroup \/ Preempt
    BY <2>2, FreshGroupFailsNot
  <2>3. ASSUME NEW m \in Motors, Arrive(m) PROVE FailureHasCause'
    <3>1. UNCHANGED <<grp, cur, cmd, shared>>
      BY <2>3 DEF Arrive
    <3>. QED
      BY <3>1 DEF FailureHasCause, View, Running, Done
  <2>4. CASE UNCHANGED vars
    BY <2>4 DEF vars, FailureHasCause, View, Running, Done
  <2>. QED
    BY <2>1, <2>2, <2>3, <2>4 DEF Next, Run
<1>. QED
  BY <1>1, <1>2, TypesAtFirst, PTL DEF Spec

---------------------------------------------------------------------------
(* Success only after all viewpoints.                                       *)

\* The viewpoints of the groups that are over have their records, and so has
\* that of the running group once its insertion was called.
Recorded ==
  /\ \A k \in Point : k + Base < grp => records[k] # {}
  /\ Running =>
       \A j \in 1..Len(Commands) :
         Kind(j) = "SQLInsert" /\ (j < cur \/ (j = cur /\ Done(cmd[cur])))
           => records[To(j)] # {}
  /\ verdict = "success" => \A k \in Point : records[k] # {}

\* What one call of exec makes of the records, when the database keeps them.
LEMMA ExecRecords ==
  ASSUME NEW j, ~DbMayFail, records \in [Point -> SUBSET Shot],
         Kind(j) = "SQLInsert" => To(j) \in Point, Exec(j)
  PROVE  /\ \A k \in Point : records[k] # {} => records'[k] # {}
         /\ Kind(j) = "SQLInsert" => records'[To(j)] # {}
         /\ verdict' = "success" /\ verdict # "success" =>
              Kind(j) = "SQLInsert" /\ To(j) = Len(Views)
<1>1. CASE Kind(j) = "SQLInsert"
  <2>1. SQLInsert(j)
    BY <1>1 DEF Exec, Refused, Chained
  <2>2. \E p : records' = [records EXCEPT ![To(j)] = @ \cup {p}]
    BY <2>1 DEF SQLInsert, Stored
  <2>3. verdict' = verdict \/ To(j) = Len(Views)
    BY <2>1 DEF SQLInsert, LastPoint
  <2>. QED
    BY <1>1, <2>2, <2>3
<1>2. CASE Kind(j) # "SQLInsert"
  <2>1. records' = records /\ (verdict' = verdict \/ verdict' = "open")
    BY <1>2 DEF Exec, Refused, notes, Goto, MoveControl, PtzRotate, GotoHome, PddDet,
                TakePhoto, RecordVideo, ImageRec, SetSpeed, SQLOperation, Recharge
  <2>. QED
    BY <1>2, <2>1
<1>. QED
  BY <1>1, <1>2

LEMMA CallRecords ==
  ASSUME TypeInv, ~DbMayFail, Recorded, ExecCurrent \/ ExecNext
  PROVE  Recorded'
<1>1. /\ Running /\ UNCHANGED <<grp, preempts>> /\ cur \in 1..Len(Commands)
      /\ grp \in 1..Len(Groups) /\ Len(cmd) = Len(Commands) /\ Len(Commands) \in Nat
  BY CalledIsCommand, RunningGroup, GroupsFacts DEF TypeInv, TypeOK, RunInv, Running
<1>2. PICK j \in 1..Len(Commands) :
        /\ Exec(j)
        /\ \/ j = cur /\ ~Done(cmd[cur])
           \/ j = cur + 1 /\ Done(cmd[cur])
  BY CalledIsCommand
<1>3. PICK c \in CmdState : Called(j, c)
  BY <1>1, <1>2, ExecStep
<1>4. \A i \in 1..Len(Commands) :
        Kind(i) = "SQLInsert" => grp - Base \in Point /\ To(i) = grp - Base
  BY <1>1, RunningGroup DEF ViewKinds
<1>5. /\ \A k \in Point : records[k] # {} => records'[k] # {}
      /\ Kind(j) = "SQLInsert" => records'[To(j)] # {}
      /\ verdict' = "success" /\ verdict # "success" =>
           Kind(j) = "SQLInsert" /\ To(j) = Len(Views)
  BY <1>2, <1>4, ExecRecords DEF TypeInv, TypeOK
<1>6. \A k \in Point : k + Base < grp' => records'[k] # {}
  BY <1>1, <1>5 DEF Recorded
<1>7. ASSUME NEW i \in 1..Len(Commands), Kind(i) = "SQLInsert", i < j \/ i = j
      PROVE  records'[To(i)] # {}
  <2>1. CASE i = j
    BY <1>5, <1>7, <2>1
  <2>2. CASE i < j
    <3>1. i < cur \/ (i = cur /\ Done(cmd[cur]))
      BY <1>1, <1>2, <2>2
    <3>2. records[To(i)] # {} /\ To(i) \in Point
      BY <1>1, <1>4, <1>7, <3>1 DEF Recorded
    <3>. QED
      BY <1>5, <3>2
  <2>. QED
    BY <1>7, <2>1, <2>2
<1>8. ASSUME verdict' = "success", NEW k \in Point
      PROVE  records'[k] # {}
  <2>1. CASE verdict = "success"
    BY <1>5, <2>1 DEF Recorded
  <2>2. CASE verdict # "success"
    <3>1. Kind(j) = "SQLInsert" /\ To(j) = Len(Views) /\ grp - Base = Len(Views)
      BY <1>4, <1>5, <1>8, <2>2
    <3>2. CASE k = Len(Views)
      BY <1>5, <3>1, <3>2
    <3>3. CASE k < Len(Views)
      <4>1. k + Base < grp
        BY <1>1, <3>1, <3>3, ViewsFacts DEF Base
      <4>. QED
        BY <1>1, <1>6, <4>1
    <3>. QED
      BY <3>2, <3>3, ViewsFacts
  <2>. QED
    BY <2>1, <2>2
<1>9. cur' = j /\ Commands' = Commands /\ Len(Commands') = Len(Commands)
  BY <1>1, <1>3 DEF Called, Commands
<1>10. ASSUME NEW i \in 1..Len(Commands)', Kind(i)' = "SQLInsert",
              i < cur' \/ (i = cur' /\ Done(cmd[cur])')
       PROVE  records'[To(i)'] # {}
  <2>1. Kind(i)' = Kind(i) /\ To(i)' = To(i) /\ i \in 1..Len(Commands)
    BY <1>9 DEF Kind, To
  <2>. QED
    BY <1>7, <1>9, <1>10, <2>1
<1>. QED
  BY <1>6, <1>8, <1>10 DEF Recorded

LEMMA NextGroupRecords ==
  ASSUME TypeInv, Recorded, NextGroup \/ Preempt
  PROVE  Recorded'
<1>1. grp \in 1..Len(Groups) /\ Len(Groups) \in Nat /\ Base \in Nat
  BY GroupsFacts DEF TypeInv, TypeOK, NextGroup, Preempt, Running, Base
<1>2. UNCHANGED <<records, verdict>> /\ cur' = 1
  BY DEF NextGroup, Preempt, notes
<1>3. Running' => cmd'[1] = Asleep
  BY FreshGroup
<1>4. ~Done(Asleep)
  BY DEF Done, Asleep
<1>5. ASSUME NEW k \in Point, k + Base < grp' PROVE records[k] # {}
  <2>1. k \in Nat
    BY ViewsFacts
  <2>2. CASE k + Base < grp
    BY <2>2 DEF Recorded
  <2>3. CASE k + Base = grp /\ NextGroup
    <3>1. Groups[grp].view # 0
      BY <1>1, <2>1, <2>3, RunningGroup
    <3>2. PICK j \in 1..Len(Commands) : Kind(j) = "SQLInsert"
      BY <1>1, <3>1, RunningGroup
    <3>3. To(j) = k
      BY <1>1, <2>1, <2>3, <3>2, RunningGroup
    <3>4. Running /\ cur = Len(Commands) /\ Done(cmd[cur]) /\ Len(Commands) \in Nat
      BY <1>1, <2>3, RunningGroup DEF NextGroup
    <3>5. j < cur \/ (j = cur /\ Done(cmd[cur]))
      BY <3>2, <3>4
    <3>. QED
      BY <3>2, <3>3, <3>4, <3>5 DEF Recorded
  <2>4. grp' = grp \/ (NextGroup /\ grp' = grp + 1)
    BY DEF NextGroup, Preempt
  <2>. QED
    BY <1>1, <1>5, <2>1, <2>2, <2>3, <2>4
<1>6. ASSUME Running', NEW j \in 1..Len(Commands)' PROVE ~(j < cur' \/ (j = cur' /\ Done(cmd[cur])'))
  BY <1>2, <1>3, <1>4, <1>6 DEF Done
<1>. QED
  BY <1>2, <1>5, <1>6 DEF Recorded

LEMMA RecordedHolds == Spec => [](TypeInv /\ (~DbMayFail => Recorded))
<1>. DEFINE Inv == TypeInv /\ (~DbMayFail => Recorded)
<1>1. Init => Recorded
  <2>. SUFFICES ASSUME Init PROVE Recorded
    OBVIOUS
  <2>1. grp = 1 /\ cur = 1 /\ verdict = "none" /\ cmd = Rewound(1)
    BY DEF Init
  <2>2. \A k \in Point : ~(k + Base < 1)
    BY ViewsFacts DEF Base
  <2>3. cmd[1] = Asleep
    <3>1. 1 \in 1..Len(Groups)
      BY GroupsFacts, ViewsFacts DEF Base
    <3>2. 1 \in 1..Len(Groups[1].cmds)
      BY <3>1, RewoundFacts
    <3>. QED
      BY <2>1, <3>1, <3>2, RewoundFacts
  <2>4. ~Done(cmd[1])
    BY <2>3 DEF Done, Asleep
  <2>5. \A j \in 1..Len(Commands) : ~(j < cur)
    BY <2>1
  <2>. QED
    BY <2>1, <2>2, <2>4, <2>5 DEF Recorded
<1>2. Inv /\ [Next]_vars => Inv'
  <2>. SUFFICES ASSUME TypeInv, [Next]_vars, ~DbMayFail, Recorded PROVE Recorded'
    BY TypesKept
  <2>1. CASE ExecCurrent \/ ExecNext
    BY <2>1, CallRecords
  <2>2. CASE NextGroup \/ Preempt
    BY <2>2, NextGroupRecords
  <2>3. ASSUME NEW m \in Motors, Arrive(m) PROVE Recorded'
    <3>1. UNCHANGED <<grp, cur, cmd, records, verdict>>
      BY <2>3 DEF Arrive
    <3>. QED
      BY <3>1 DEF Recorded, Running, Done, Kind, To, Commands
  <2>4. CASE UNCHANGED vars
    BY <2>4 DEF vars, Recorded, Running, Done, Kind, To, Commands
  <2>. QED
    BY <2>1, <2>2, <2>3, <2>4 DEF Next, Run
<1>. QED
  BY <1>1, <1>2, TypesAtFirst, PTL DEF Spec

\* The patrol is reported as a success only when every viewpoint has its record,
\* however often one was given up or started again (SQLInsertCommand::exec,
\* which writes the verdict with the record of the last viewpoint).
THEOREM VerdictAlwaysAfterAll == Spec => []VerdictAfterAll
<1>1. (~DbMayFail => Recorded) => VerdictAfterAll
  BY DEF Recorded, VerdictAfterAll
<1>. QED
  BY <1>1, RecordedHolds, PTL

---------------------------------------------------------------------------
(* What the commands of a group have reached.                               *)

\* The motor a command moves.
Motor(kind) ==
  CASE kind \in {"Goto", "Recharge"} -> "walk"
    [] kind \in {"MoveControl", "GotoHome"} -> "arm"
    [] kind = "PtzRotate" -> "ptz"
    [] OTHER -> "none"

Goal(i) == IF Kind(i) = "Goto" THEN Position(To(i)) ELSE To(i)

\* The command i has found its motor where it wants it.
Settled(i) ==
  \/ cmd[i].ret = "ST_SUCCESS"
  \/ Kind(i) = "PtzRotate" /\ cmd[i].status = "finish"

\* The commands behind the iterator are done, those in front of it untouched.
InOrder ==
  Running =>
    \A i \in 1..Len(Commands) :
      /\ i < cur => Done(cmd[i])
      /\ i > cur => cmd[i] = Asleep

\* A motor rests where the last command that moved it has left it.
Posed ==
  Running =>
    \A i \in 1..Len(Commands) :
      /\ Kind(i) \in {"Goto", "MoveControl", "PtzRotate"}
      /\ Settled(i)
      /\ \A j \in (i + 1)..cur : Motor(Kind(j)) # Motor(Kind(i))
      => InPlace(Motor(Kind(i)), Goal(i))

\* Once a photo is taken, patrolViewPointInfo names it.
Shown ==
  Running =>
    \A i \in 1..Len(Commands) :
      Kind(i) = "TakePhoto" /\ (cmd[i].ret = "ST_SUCCESS" \/ cmd[i].status # "start")
        => info.photo = To(i)

PoseInv == TypeInv /\ InOrder /\ Posed /\ Shown

\* The state a call of exec leaves its command in.
LEMMA CallResults ==
  ASSUME cmd \in Seq(CmdState), NEW j \in 1..Len(cmd), NEW status, NEW tries, NEW ret
  PROVE  /\ Goes(j, status, tries) => cmd'[j].ret = "ST_GOING" /\ cmd'[j].status = status
         /\ Ends(j, ret) => cmd'[j].ret = ret /\ cmd'[j].status = "start"
<1>1. \A c : Step(j, c) => cmd'[j] = c
  BY DEF Step
<1>. QED
  BY <1>1 DEF Goes, Ends, Asleep

LEMMA TryResults ==
  ASSUME cmd \in Seq(CmdState), NEW j \in 1..Len(cmd), NEW status, NEW more,
         Tries(j, status, more)
  PROVE  cmd'[j].ret \in {"ST_GOING", "ST_FAIL"} /\ cmd'[j].status \in {status, "start"}
BY CallResults DEF Tries

\* A call of exec moves the motor of its command and no other.
LEMMA ExecMoves ==
  ASSUME NEW j, hw \in [Motors -> [at : Place, goal : Place \cup {Still}]],
         Kind(j) = "PtzRotate" => cmd[j].status \in {"start", "wait", "finish"},
         Exec(j), NEW m \in Motors, m # Motor(Kind(j))
  PROVE  hw'[m] = hw[m]
<1>. DEFINE moved == Motor(Kind(j))
<1>1. \A to : Move(moved, to) => hw'[m] = hw[m]
  BY DEF Move
<1>0. CASE Refused(j)
  BY <1>0 DEF Refused
<1>2. CASE Kind(j) = "Goto" /\ Goto(j)
  BY <1>1, <1>2 DEF Goto, GotoSend, Motor
<1>3. CASE Kind(j) = "MoveControl" /\ MoveControl(j)
  BY <1>1, <1>3 DEF MoveControl, Motor
<1>4. CASE Kind(j) = "PtzRotate" /\ PtzRotate(j)
  <2>1. moved = "ptz"
    BY <1>4 DEF Motor
  <2>2. CASE cmd[j].status = "start"
    BY <1>1, <1>4, <2>1, <2>2 DEF PtzRotate, Waits
  <2>3. CASE cmd[j].status = "wait"
    BY <1>4, <2>3 DEF PtzRotate
  <2>4. CASE cmd[j].status = "finish"
    BY <1>4, <2>4 DEF PtzRotate
  <2>. QED
    BY <1>4, <2>2, <2>3, <2>4
<1>5. CASE Kind(j) = "GotoHome" /\ GotoHome(j)
  BY <1>1, <1>5 DEF GotoHome, Motor
<1>6. CASE Kind(j) = "Recharge" /\ Recharge(j)
  BY <1>1, <1>6 DEF Recharge, Waits, Motor
<1>. QED
  BY <1>0, <1>2, <1>3, <1>4, <1>5, <1>6
  DEF Exec, PddDet, TakePhoto, RecordVideo, SQLInsert, ImageRec, SetSpeed, SQLOperation

\* A command ends with success only where it wanted its motor.
LEMMA ExecSettles ==
  ASSUME cmd \in Seq(CmdState), NEW j \in 1..Len(cmd), Fits(Kind(j), cmd[j]),
         Kind(j) \in {"Goto", "MoveControl", "PtzRotate"}, Exec(j),
         cmd'[j].ret = "ST_SUCCESS" \/ (Kind(j) = "PtzRotate" /\ cmd'[j].status = "finish"),
         Kind(j) = "PtzRotate" /\ cmd[j].status = "finish" => InPlace("ptz", To(j))
  PROVE  InPlace(Motor(Kind(j)), Goal(j)) /\ hw' = hw
<1>0. ~Refused(j)
  BY CallResults DEF Refused
<1>1. CASE Kind(j) = "Goto"
  <2>1. Goto(j)
    BY <1>0, <1>1 DEF Exec
  <2>2. ~GotoSend(j)
    BY <1>1, CallResults, TryResults DEF GotoSend
  <2>3. InPlace("walk", Position(To(j)))
    <3>1. GotoWait(j)
      BY <2>1, <2>2 DEF Goto
    <3>2. ~Ends(j, "ST_FAIL") /\ ~Goes(j, "start", 0)
      BY <1>1, CallResults
    <3>. QED
      BY <3>1, <3>2 DEF GotoWait
  <2>. QED
    BY <1>1, <2>1, <2>2, <2>3 DEF Goto, Motor, Goal
<1>2. CASE Kind(j) = "MoveControl"
  <2>1. MoveControl(j)
    BY <1>0, <1>2 DEF Exec
  <2>2. cmd'[j].ret = "ST_SUCCESS"
    BY <1>2
  <2>3. Lifted(To(j)) /\ hw' = hw
    BY <2>1, <2>2, CallResults, TryResults DEF MoveControl
  <2>. QED
    BY <1>2, <2>3 DEF Lifted, Motor, Goal
<1>3. CASE Kind(j) = "PtzRotate"
  <2>1. PtzRotate(j)
    BY <1>0, <1>3 DEF Exec
  <2>2. cmd[j].status \in {"start", "wait", "finish"}
    BY <1>3 DEF Fits
  <2>3. ~Ends(j, "ST_FAIL")
    BY CallResults
  <2>4. CASE cmd[j].status = "start"
    <3>1. \/ Goes(j, "start", cmd[j].tries) \/ Goes(j, "wait", 1)
          \/ Tries(j, "start", cmd[j].tries + 1 <= 5)
      BY <2>1, <2>3, <2>4 DEF PtzRotate, Waits
    <3>. QED
      BY <3>1, CallResults, TryResults
  <2>5. CASE cmd[j].status = "wait"
    <3>1. ~Tries(j, "wait", cmd[j].tries + 1 <= RotateChecks)
      BY <1>3, TryResults
    <3>2. InPlace("ptz", To(j)) /\ hw' = hw
      BY <2>1, <2>3, <2>5, <3>1 DEF PtzRotate
    <3>. QED
      BY <1>3, <3>2 DEF Motor, Goal
  <2>6. CASE cmd[j].status = "finish"
    <3>1. hw' = hw
      BY <2>1, <2>6 DEF PtzRotate
    <3>. QED
      BY <1>3, <2>6, <3>1 DEF Motor, Goal
  <2>. QED
    BY <2>2, <2>4, <2>5, <2>6
<1>. QED
  BY <1>1, <1>2, <1>3

\* Only a photo taken, and the record of a viewpoint without one, change what
\* patrolViewPointInfo says of the photo.
LEMMA ExecShows ==
  ASSUME cmd \in Seq(CmdState), NEW j \in 1..Len(cmd), Exec(j),
         info \in [photo : Shot, video : Shot]
  PROVE  /\ info'.photo # info.photo =>
              \/ /\ Kind(j) = "TakePhoto" /\ info'.photo = To(j)
              \/ /\ Kind(j) = "SQLInsert" /\ "pic" \notin Views[To(j)].has
                 /\ info'.photo = 0
         /\ /\ Kind(j) = "TakePhoto"
            /\ cmd'[j].ret = "ST_SUCCESS" \/ cmd'[j].status # "start"
            /\ cmd[j].status # "start" => info.photo = To(j)
            => info'.photo = To(j)
<1>1. CASE Refused(j)
  <2>1. info' = info
    BY <1>1 DEF Refused, notes
  <2>2. cmd'[j].ret = "ST_FAIL" /\ cmd'[j].status = "start"
    BY <1>1, CallResults DEF Refused
  <2>. QED
    BY <2>1, <2>2
<1>2. CASE Kind(j) = "TakePhoto" /\ TakePhoto(j)
  <2>1. CASE cmd[j].status = "start"
    BY <1>2, <2>1 DEF TakePhoto
  <2>2. CASE cmd[j].status # "start"
    BY <1>2, <2>2 DEF TakePhoto
  <2>. QED
    BY <2>1, <2>2
<1>3. CASE Kind(j) = "RecordVideo" /\ RecordVideo(j)
  BY <1>3 DEF RecordVideo
<1>4. CASE Kind(j) = "SQLInsert" /\ SQLInsert(j)
  BY <1>4 DEF SQLInsert
<1>5. CASE /\ ~Refused(j) /\ Kind(j) \notin {"TakePhoto", "RecordVideo", "SQLInsert"}
  BY <1>5
  DEF Exec, notes, Goto, MoveControl, PtzRotate, GotoHome, PddDet, ImageRec, SetSpeed,
      SQLOperation, Recharge
<1>. QED
  BY <1>1, <1>2, <1>3, <1>4, <1>5 DEF Exec

---------------------------------------------------------------------------
(* The order of the commands of a viewpoint.                                *)

LEMMA PhotoLayout ==
  ASSUME grp \in 1..Len(Groups), NEW i \in 1..Len(Commands), Kind(i) = "TakePhoto"
  PROVE  /\ grp - Base \in Point /\ To(i) = grp - Base
         /\ "pic" \in Views[grp - Base].has
         /\ i >= 4
         /\ Commands[1] = Cmd("Goto", To(i)) /\ Commands[2] = Cmd("MoveControl", To(i))
         /\ Commands[3] = Cmd("PtzRotate", To(i))
         /\ \A l \in 4..i : Motor(Kind(l)) = "none"
<1>. DEFINE k == grp - Base
<1>1. k \in Point /\ To(i) = k
  BY RunningGroup DEF ViewKinds
<1>2. PICK m \in Nat : Laid(k, Commands, m)
  BY <1>1, RunningView
<1>. HIDE DEF k
<1>3. i \in 4..m
  <2>1. i = 1 \/ i = 2 \/ i = 3 \/ i \in 4..m \/ i = m + 1 \/ i \in (m + 2)..Len(Commands)
    BY <1>2 DEF Laid
  <2>2. i \notin {1, 2, 3, m + 1} /\ i \notin (m + 2)..Len(Commands)
    BY <1>2 DEF Laid, Kind, Cmd, Afterwards
  <2>. QED
    BY <2>1, <2>2
<1>4. \A l \in 4..i : l \in 4..m
  BY <1>3
<1>5. \A l \in 4..i : Motor(Kind(l)) = "none"
  <2>. SUFFICES ASSUME NEW l \in 4..i PROVE Motor(Kind(l)) = "none"
    OBVIOUS
  <2>1. Commands[l] \in Shots(k)
    BY <1>2, <1>4 DEF Laid
  <2>2. Kind(l) \in {"PddDet", "TakePhoto", "RecordVideo"}
    BY <2>1 DEF Shots, Cmd, Kind
  <2>. QED
    BY <2>2 DEF Motor
<1>6. "pic" \in Views[k].has
  BY <1>2, <1>3 DEF Laid, Takes, Kind
<1>7. i >= 4
  BY <1>3
<1>. QED
  BY <1>1, <1>2, <1>5, <1>6, <1>7 DEF Laid, k

LEMMA RecordLayout ==
  ASSUME grp \in 1..Len(Groups), NEW j \in 1..Len(Commands), Kind(j) = "SQLInsert",
         "pic" \in Views[To(j)].has
  PROVE  \E i \in 1..(j - 1) : Kind(i) = "TakePhoto" /\ To(i) = To(j)
<1>. DEFINE k == grp - Base
<1>1. k \in Point /\ To(j) = k
  BY RunningGroup DEF ViewKinds
<1>2. PICK m \in Nat : Laid(k, Commands, m)
  BY <1>1, RunningView
<1>. HIDE DEF k
<1>3. PICK i \in 4..m : Commands[i].kind = "TakePhoto"
  BY <1>1, <1>2 DEF Laid, Takes
<1>4. Len(Commands) \in Nat /\ Len(Commands) >= m + 1
  BY <1>2, RunningGroup DEF Laid
<1>5. j >= m + 1
  <2>1. SUFFICES ASSUME j < m + 1 PROVE FALSE
    BY <1>2
  <2>2. j = 1 \/ j = 2 \/ j = 3 \/ j \in 4..m
    BY <2>1
  <2>. QED
    BY <1>2, <2>2 DEF Laid, Shots, Kind, Cmd
<1>6. i \in 1..(j - 1) /\ i \in 1..Len(Commands)
  BY <1>3, <1>4, <1>5
<1>7. To(i) = k
  BY <1>3, <1>6, PhotoLayout DEF Kind, k
<1>. QED
  BY <1>1, <1>3, <1>6, <1>7 DEF Kind

LEMMA AskLayout ==
  ASSUME grp \in 1..Len(Groups), NEW j \in 1..Len(Commands), Kind(j) = "ImageRec"
  PROVE  /\ grp - Base \in Point /\ Groups[grp].view = grp - Base
         /\ \E i \in 1..(j - 1) : Kind(i) = "SQLInsert" /\ To(i) = grp - Base
<1>. DEFINE k == grp - Base
<1>1. k \in Point
  BY RunningGroup DEF ViewKinds
<1>2. PICK m \in Nat : Laid(k, Commands, m)
  BY <1>1, RunningView
<1>3. Groups[grp].view = k
  BY <1>1, RunningView
<1>. HIDE DEF k
<1>4. j > m + 1
  <2>1. SUFFICES ASSUME j <= m + 1 PROVE FALSE
    BY <1>2
  <2>2. j = 1 \/ j = 2 \/ j = 3 \/ j \in 4..m \/ j = m + 1
    BY <2>1
  <2>. QED
    BY <1>2, <2>2 DEF Laid, Shots, Kind, Cmd
<1>5. Kind(m + 1) = "SQLInsert" /\ To(m + 1) = k
  BY <1>2 DEF Laid, Kind, To, Cmd
<1>6. m + 1 \in 1..(j - 1)
  BY <1>4
<1>. QED
  BY <1>1, <1>3, <1>5, <1>6 DEF k

---------------------------------------------------------------------------
(* Photos are taken in place and recorded for their own viewpoint.          *)

\* The facts about a call of exec the proofs below start from.
LEMMA CallFacts ==
  ASSUME PoseInv, ExecCurrent \/ ExecNext
  PROVE  /\ Running /\ UNCHANGED <<grp, preempts>> /\ cur \in 1..Len(Commands)
         /\ grp \in 1..Len(Groups) /\ Len(Commands) \in Nat
         /\ cmd \in Seq(CmdState) /\ Len(cmd) = Len(Commands)
         /\ hw \in [Motors -> [at : Place, goal : Place \cup {Still}]]
         /\ info \in [photo : Shot, video : Shot]
         /\ records \in [Point -> SUBSET Shot]
         /\ \E j \in 1..Len(Commands) :
              /\ Exec(j) /\ cur' = j /\ j \in {cur, cur + 1}
              /\ Fits(Kind(j), cmd[j])
              /\ \A i \in 1..Len(Commands) : i # j => cmd'[i] = cmd[i]
              /\ \A i \in 1..Len(Commands) : i < j => Done(cmd[i])
              /\ \A i \in 1..Len(Commands) : i > j => cmd[i] = Asleep
              /\ j # cur => cmd[j] = Asleep
              /\ ~Done(cmd[j])
<1>1. /\ Running /\ UNCHANGED <<grp, preempts>> /\ cur \in 1..Len(Commands)
      /\ grp \in 1..Len(Groups) /\ Len(cmd) = Len(Commands) /\ Len(Commands) \in Nat
  BY CalledIsCommand, RunningGroup, GroupsFacts DEF PoseInv, TypeInv, TypeOK, RunInv, Running
<1>2. PICK j \in 1..Len(Commands) :
        /\ Exec(j)
        /\ \/ j = cur /\ ~Done(cmd[cur])
           \/ j = cur + 1 /\ Done(cmd[cur])
  BY CalledIsCommand DEF PoseInv
<1>3. PICK c \in CmdState : Called(j, c)
  BY <1>1, <1>2, ExecStep DEF PoseInv
<1>4. cmd \in Seq(CmdState) /\ Fits(Kind(j), cmd[j])
  BY <1>1 DEF PoseInv, TypeInv, TypeOK, RunInv, CmdState, Result, Status
<1>5. \A i \in 1..Len(Commands) : i # j => cmd'[i] = cmd[i]
  BY <1>1, <1>3 DEF Called
<1>6. \A i \in 1..Len(Commands) :
        (i < cur => Done(cmd[i])) /\ (i > cur => cmd[i] = Asleep)
  BY <1>1 DEF PoseInv, InOrder
<1>7. \A i \in 1..Len(Commands) :
        (i < j => i < cur \/ (i = cur /\ Done(cmd[cur]))) /\ (i > j => i > cur)
  BY <1>1, <1>2
<1>8. cur' = j /\ j \in {cur, cur + 1} /\ (j # cur => j > cur)
  BY <1>1, <1>2, <1>3 DEF Called
<1>9. /\ hw \in [Motors -> [at : Place, goal : Place \cup {Still}]]
      /\ info \in [photo : Shot, video : Shot] /\ records \in [Point -> SUBSET Shot]
  BY DEF PoseInv, TypeInv, TypeOK
<1>10. ~Done(cmd[j])
  BY <1>2, <1>6, <1>8 DEF Done, Asleep
<1>. QED
  BY <1>1, <1>2, <1>4, <1>5, <1>6, <1>7, <1>8, <1>9, <1>10

LEMMA CallPoses ==
  ASSUME PoseInv, ExecCurrent \/ ExecNext
  PROVE  InOrder' /\ Posed' /\ Shown'
<1>1. /\ Running /\ UNCHANGED <<grp, preempts>> /\ cur \in 1..Len(Commands)
      /\ grp \in 1..Len(Groups) /\ Len(Commands) \in Nat
      /\ cmd \in Seq(CmdState) /\ Len(cmd) = Len(Commands)
      /\ hw \in [Motors -> [at : Place, goal : Place \cup {Still}]]
      /\ info \in [photo : Shot, video : Shot]
  BY CallFacts
<1>2. PICK j \in 1..Len(Commands) :
        /\ Exec(j) /\ cur' = j /\ j \in {cur, cur + 1}
        /\ Fits(Kind(j), cmd[j])
        /\ \A i \in 1..Len(Commands) : i # j => cmd'[i] = cmd[i]
        /\ \A i \in 1..Len(Commands) : i < j => Done(cmd[i])
        /\ \A i \in 1..Len(Commands) : i > j => cmd[i] = Asleep
        /\ j # cur => cmd[j] = Asleep
  BY CallFacts
<1>3. /\ Commands' = Commands /\ Len(Commands') = Len(Commands)
      /\ \A i : Kind(i)' = Kind(i) /\ To(i)' = To(i)
  BY <1>1 DEF Commands, Kind, To
<1>4. InOrder'
  BY <1>1, <1>2, <1>3 DEF InOrder, Done
<1>5. Posed'
  <2>. SUFFICES ASSUME NEW i \in 1..Len(Commands),
                       Kind(i) \in {"Goto", "MoveControl", "PtzRotate"}, Settled(i)',
                       \A l \in (i + 1)..j : Motor(Kind(l)) # Motor(Kind(i))
                PROVE  InPlace(Motor(Kind(i)), Goal(i))'
    BY <1>2, <1>3 DEF Posed
  <2>1. Goal(i)' = Goal(i) /\ Motor(Kind(i))' = Motor(Kind(i)) /\ Motor(Kind(i)) \in Motors
    BY <1>3 DEF Goal, Motor, Motors, Position
  <2>2. CASE i = j
    <3>1. cmd'[j].ret = "ST_SUCCESS" \/ (Kind(j) = "PtzRotate" /\ cmd'[j].status = "finish")
      BY <1>3, <2>2 DEF Settled
    <3>2. ASSUME Kind(j) = "PtzRotate", cmd[j].status = "finish" PROVE InPlace("ptz", To(j))
      <4>1. j = cur
        BY <1>2, <3>2 DEF Asleep
      <4>2. Settled(j) /\ \A l \in (j + 1)..cur : FALSE
        BY <1>1, <3>2, <4>1 DEF Settled
      <4>3. InPlace(Motor(Kind(j)), Goal(j))
        BY <1>1, <3>2, <4>2 DEF PoseInv, Posed
      <4>. QED
        BY <3>2, <4>3 DEF Motor, Goal
    <3>3. InPlace(Motor(Kind(j)), Goal(j)) /\ hw' = hw
      BY <1>1, <1>2, <2>2, <3>1, <3>2, ExecSettles
    <3>. QED
      BY <2>1, <2>2, <3>3 DEF InPlace
  <2>3. CASE i # j
    <3>1. cmd'[i] = cmd[i] /\ Settled(i)
      BY <1>2, <1>3, <2>3 DEF Settled
    <3>2. i < j
      BY <1>2, <2>3, <3>1 DEF Settled, Asleep
    <3>3. \A l \in (i + 1)..cur : l \in (i + 1)..j
      BY <1>1, <1>2
    <3>4. InPlace(Motor(Kind(i)), Goal(i))
      BY <1>1, <3>1, <3>3 DEF PoseInv, Posed
    <3>5. Motor(Kind(i)) # Motor(Kind(j))
      <4>1. j \in (i + 1)..j
        BY <3>2
      <4>. QED
        BY <4>1
    <3>6. hw'[Motor(Kind(i))] = hw[Motor(Kind(i))]
      BY <1>1, <1>2, <2>1, <3>5, ExecMoves DEF Fits
    <3>. QED
      BY <2>1, <3>4, <3>6 DEF InPlace
  <2>. QED
    BY <2>2, <2>3
<1>6. Shown'
  <2>. SUFFICES ASSUME NEW i \in 1..Len(Commands), Kind(i) = "TakePhoto",
                       cmd'[i].ret = "ST_SUCCESS" \/ cmd'[i].status # "start"
                PROVE  info'.photo = To(i)
    BY <1>3 DEF Shown
  <2>1. CASE i = j
    <3>1. cmd[j].status # "start" => info.photo = To(j)
      BY <1>1, <2>1 DEF PoseInv, Shown
    <3>. QED
      BY <1>1, <1>2, <2>1, <3>1, ExecShows
  <2>2. CASE i # j
    <3>1. info.photo = To(i)
      BY <1>1, <1>2, <2>2 DEF PoseInv, Shown
    <3>2. To(i) = grp - Base /\ "pic" \in Views[grp - Base].has
      BY <1>1, PhotoLayout
    <3>3. Kind(j) \in {"TakePhoto", "SQLInsert"} => To(j) = grp - Base
      BY <1>1, RunningGroup
    <3>4. info'.photo # info.photo =>
              \/ /\ Kind(j) = "TakePhoto" /\ info'.photo = To(j)
              \/ /\ Kind(j) = "SQLInsert" /\ "pic" \notin Views[To(j)].has
                 /\ info'.photo = 0
      BY <1>1, <1>2, ExecShows
    <3>. QED
      BY <3>1, <3>2, <3>3, <3>4
  <2>. QED
    BY <2>1, <2>2
<1>. QED
  BY <1>4, <1>5, <1>6

LEMMA PoseStep ==
  ASSUME PoseInv, [Next]_vars
  PROVE  PoseInv'
<1>. SUFFICES InOrder' /\ Posed' /\ Shown'
  BY TypesKept DEF PoseInv
<1>1. CASE ExecCurrent \/ ExecNext
  BY <1>1, CallPoses
<1>2. CASE NextGroup \/ Preempt
  <2>. SUFFICES ASSUME Running' PROVE InOrder' /\ Posed' /\ Shown'
    BY DEF InOrder, Posed, Shown
  <2>1. cur' = 1 /\ \A i \in 1..Len(Commands)' : cmd'[i] = Asleep
    BY <1>2, FreshGroup DEF PoseInv
  <2>2. Asleep.ret = "ST_SLEEP" /\ Asleep.status = "start"
    BY DEF Asleep
  <2>3. InOrder'
    BY <2>1 DEF InOrder
  <2>4. \A i \in 1..Len(Commands)' : ~Settled(i)'
    BY <2>1, <2>2 DEF Settled
  <2>. QED
    BY <2>1, <2>2, <2>3, <2>4 DEF Posed, Shown
<1>3. ASSUME NEW m \in Motors, Arrive(m) PROVE InOrder' /\ Posed' /\ Shown'
  <2>1. /\ UNCHANGED <<grp, cur, cmd, info>> /\ hw[m].goal # Still
        /\ \A n \in Motors : n # m => hw'[n] = hw[n]
    BY <1>3 DEF Arrive, Stopped, PoseInv, TypeInv, TypeOK
  <2>2. ASSUME NEW n \in Motors, NEW to, InPlace(n, to) PROVE hw'[n] = [at |-> to, goal |-> Still]
    BY <2>1, <2>2 DEF InPlace
  <2>3. InOrder' /\ Shown'
    BY <2>1 DEF PoseInv, InOrder, Shown, Running, Commands, Kind, To, Done
  <2>4. Posed'
    <3>. SUFFICES ASSUME Running, NEW i \in 1..Len(Commands),
                         Kind(i) \in {"Goto", "MoveControl", "PtzRotate"}, Settled(i),
                         \A l \in (i + 1)..cur : Motor(Kind(l)) # Motor(Kind(i))
                  PROVE  hw'[Motor(Kind(i))] = [at |-> Goal(i), goal |-> Still]
      <4>1. Running' = Running /\ Commands' = Commands /\ cur' = cur
        BY <2>1 DEF Running, Commands
      <4>2. ASSUME NEW i \in 1..Len(Commands)
            PROVE  /\ Kind(i)' = Kind(i) /\ Settled(i)' = Settled(i)
                   /\ Goal(i)' = Goal(i) /\ Motor(Kind(i))' = Motor(Kind(i))
        BY <2>1, <4>1 DEF Kind, To, Settled, Goal, Position, Motor
      <4>3. ASSUME NEW l PROVE Motor(Kind(l))' = Motor(Kind(l))
        BY <4>1 DEF Kind, Motor
      <4>. QED
        BY <4>1, <4>2, <4>3 DEF Posed, InPlace
    <3>1. InPlace(Motor(Kind(i)), Goal(i))
      BY DEF PoseInv, Posed
    <3>2. Motor(Kind(i)) \in Motors
      BY DEF Motor, Motors
    <3>. QED
      BY <2>2, <3>1, <3>2
  <2>. QED
    BY <2>3, <2>4
<1>4. CASE UNCHANGED vars
  <2>1. InOrder'
    BY <1>4 DEF vars, PoseInv, InOrder, Running, Commands, Done
  <2>2. Posed'
    <3>1. Running' = Running /\ Commands' = Commands /\ cur' = cur /\ hw' = hw
      BY <1>4 DEF vars, Running, Commands
    <3>2. ASSUME NEW i
          PROVE  /\ Kind(i)' = Kind(i) /\ Settled(i)' = Settled(i)
                 /\ Goal(i)' = Goal(i) /\ Motor(Kind(i))' = Motor(Kind(i))
      BY <1>4, <3>1 DEF vars, Kind, To, Settled, Goal, Position, Motor
    <3>. QED
      BY <3>1, <3>2 DEF PoseInv, Posed, InPlace
  <2>3. Shown'
    BY <1>4 DEF vars, PoseInv, Shown, Running, Commands, Kind, To, Done
  <2>. QED
    BY <2>1, <2>2, <2>3
<1>. QED
  BY <1>1, <1>2, <1>3, <1>4 DEF Next, Run

LEMMA PoseHolds == Spec => []PoseInv
<1>1. Init => PoseInv
  <2>. SUFFICES ASSUME Init PROVE PoseInv
    OBVIOUS
  <2>1. 1 \in 1..Len(Groups)
    BY GroupsFacts, ViewsFacts DEF Base
  <2>2. cur = 1 /\ \A j \in 1..Len(Commands) : cmd[j] = Asleep
    BY <2>1, RewoundFacts DEF Init, Commands
  <2>3. Asleep.ret = "ST_SLEEP" /\ Asleep.status = "start"
    BY DEF Asleep
  <2>4. InOrder
    BY <2>2 DEF InOrder
  <2>5. Posed /\ Shown
    BY <2>2, <2>3 DEF Posed, Shown, Settled
  <2>. QED
    BY <2>4, <2>5, TypesAtFirst DEF PoseInv
<1>2. PoseInv /\ [Next]_vars => PoseInv'
  BY PoseStep
<1>. QED
  BY <1>1, <1>2, PTL DEF Spec

\* A photo is taken with the robot, the arm and the pan-tilt at rest where its
\* viewpoint wants them, or after a command of its viewpoint has failed: the
\* moves come before it, none of them ends with success elsewhere, and whatever
\* interrupts them makes them all start again (TakePhotoCommand::exec and
\* MoveTaskItem::run).
THEOREM PhotoAlwaysInPlace == Spec => PhotoInPlace
<1>. DEFINE InView == \A k \in Point :
              info'.photo = k /\ info.photo # k =>
                \/ FailedBefore(cur')
                \/ /\ InPlace("walk", Views[k].pos)
                   /\ InPlace("arm", k)
                   /\ InPlace("ptz", k)
<1>1. PoseInv /\ [Next]_vars => [InView]_vars
  <2>. SUFFICES ASSUME PoseInv, [Next]_vars, NEW k \in Point, info'.photo = k,
                       info.photo # k, ~FailedBefore(cur')
                PROVE  /\ InPlace("walk", Views[k].pos)
                       /\ InPlace("arm", k)
                       /\ InPlace("ptz", k)
    OBVIOUS
  <2>1. CASE ExecCurrent \/ ExecNext
    <3>1. /\ Running /\ cur \in 1..Len(Commands) /\ Len(Commands) \in Nat
          /\ grp \in 1..Len(Groups)
          /\ cmd \in Seq(CmdState) /\ Len(cmd) = Len(Commands)
          /\ info \in [photo : Shot, video : Shot]
      BY <2>1, CallFacts
    <3>2. PICK j \in 1..Len(Commands) :
            /\ Exec(j) /\ cur' = j /\ j \in {cur, cur + 1}
            /\ \A i \in 1..Len(Commands) : i < j => Done(cmd[i])
      BY <2>1, CallFacts
    <3>3. Kind(j) = "TakePhoto" /\ To(j) = k
      <4>1. k # 0
        BY ViewsFacts
      <4>. QED
        BY <3>1, <3>2, <4>1, ExecShows
    <3>4. /\ j >= 4
          /\ Commands[1] = Cmd("Goto", k) /\ Commands[2] = Cmd("MoveControl", k)
          /\ Commands[3] = Cmd("PtzRotate", k)
          /\ \A l \in 4..j : Motor(Kind(l)) = "none"
      BY <3>1, <3>3, PhotoLayout
    <3>5. /\ Kind(1) = "Goto" /\ Kind(2) = "MoveControl" /\ Kind(3) = "PtzRotate"
          /\ To(1) = k /\ To(2) = k /\ To(3) = k
      BY <3>4 DEF Kind, To, Cmd
    <3>6. Motor(Kind(1)) = "walk" /\ Motor(Kind(2)) = "arm" /\ Motor(Kind(3)) = "ptz"
      BY <3>5 DEF Motor
    <3>7. ASSUME NEW i \in {1, 2, 3}
          PROVE  InPlace(Motor(Kind(i)), Goal(i))
      <4>1. i \in 1..Len(Commands) /\ i < j /\ i \in 1..(j - 1)
        BY <3>1, <3>4
      <4>2. Settled(i)
        BY <3>2, <4>1 DEF Done, FailedBefore, Settled
      <4>3. ASSUME NEW l \in (i + 1)..cur PROVE Motor(Kind(l)) # Motor(Kind(i))
        <5>1. l \in {2, 3} \/ l \in 4..j
          BY <3>1, <3>2
        <5>2. l # i
          OBVIOUS
        <5>. QED
          BY <3>4, <3>6, <5>1, <5>2
      <4>. QED
        BY <3>1, <3>5, <4>1, <4>2, <4>3 DEF PoseInv, Posed
    <3>8. Goal(1) = Views[k].pos /\ Goal(2) = k /\ Goal(3) = k
      BY <3>5, ViewsFacts DEF Goal, Position, Begin
    <3>9. /\ InPlace(Motor(Kind(1)), Goal(1)) /\ InPlace(Motor(Kind(2)), Goal(2))
          /\ InPlace(Motor(Kind(3)), Goal(3))
      BY <3>7
    <3>. QED
      BY <3>6, <3>8, <3>9
  <2>2. CASE NextGroup \/ \E m \in Motors : Arrive(m)
    BY <2>2 DEF NextGroup, Arrive, notes
  <2>3. CASE Preempt
    <3>1. info' = info \/ info'.photo = Foreign
      BY <2>3 DEF Preempt
    <3>. QED
      BY <3>1, ViewsFacts DEF Foreign
  <2>4. CASE UNCHANGED vars
    BY <2>4 DEF vars
  <2>. QED
    BY <2>1, <2>2, <2>3, <2>4 DEF Next, Run
<1>. QED
  BY <1>1, PoseHolds, PTL DEF Spec, PhotoInPlace

\* What a call of exec adds to the records.
LEMMA ExecAdds ==
  ASSUME NEW j, records \in [Point -> SUBSET Shot], Exec(j),
         NEW k \in Point, NEW p \in records'[k] \ records[k]
  PROVE  /\ Kind(j) = "SQLInsert" /\ To(j) = k
         /\ p = IF "pic" \in Views[k].has THEN info.photo ELSE 0
<1>1. CASE Kind(j) = "SQLInsert"
  <2>1. SQLInsert(j)
    BY <1>1 DEF Exec, Refused, Chained
  <2>2. \/ records' = records
        \/ records' = [records EXCEPT ![To(j)] =
                         @ \cup {IF "pic" \in Views[To(j)].has THEN info.photo ELSE 0}]
    BY <2>1 DEF SQLInsert, Stored
  <2>. QED
    BY <1>1, <2>2
<1>2. CASE Kind(j) # "SQLInsert"
  BY <1>2 DEF Exec, Refused, notes, Goto, MoveControl, PtzRotate, GotoHome, PddDet,
              TakePhoto, RecordVideo, ImageRec, SetSpeed, SQLOperation, Recharge
<1>. QED
  BY <1>1, <1>2

\* The record of a viewpoint names the photo of another one, which the global
\* patrolViewPointInfo still holds, only after one of its commands has failed
\* (SQLInsertCommand::exec).
THEOREM AlwaysOwnPhoto == Spec => OwnPhoto
<1>. DEFINE Own == \A k \in Point :
              \A p \in records'[k] \ records[k] :
                \/ p = IF "pic" \in Views[k].has THEN k ELSE 0
                \/ FailedBefore(cur')
<1>1. PoseInv /\ [Next]_vars => [Own]_vars
  <2>. SUFFICES ASSUME PoseInv, [Next]_vars, NEW k \in Point,
                       NEW p \in records'[k] \ records[k], ~FailedBefore(cur')
                PROVE  p = IF "pic" \in Views[k].has THEN k ELSE 0
    OBVIOUS
  <2>1. CASE ExecCurrent \/ ExecNext
    <3>1. /\ Running /\ Len(Commands) \in Nat /\ grp \in 1..Len(Groups)
          /\ records \in [Point -> SUBSET Shot]
      BY <2>1, CallFacts
    <3>2. PICK j \in 1..Len(Commands) :
            /\ Exec(j) /\ cur' = j
            /\ \A i \in 1..Len(Commands) : i < j => Done(cmd[i])
      BY <2>1, CallFacts
    <3>3. /\ Kind(j) = "SQLInsert" /\ To(j) = k
          /\ p = IF "pic" \in Views[k].has THEN info.photo ELSE 0
      BY <3>1, <3>2, ExecAdds
    <3>4. ASSUME "pic" \in Views[k].has PROVE info.photo = k
      <4>1. PICK i \in 1..(j - 1) : Kind(i) = "TakePhoto" /\ To(i) = k
        BY <3>1, <3>3, <3>4, RecordLayout
      <4>2. i \in 1..Len(Commands) /\ i < j
        BY <3>1
      <4>3. cmd[i].ret = "ST_SUCCESS"
        BY <3>2, <4>2 DEF Done, FailedBefore
      <4>. QED
        BY <3>1, <4>1, <4>2, <4>3 DEF PoseInv, Shown
    <3>. QED
      BY <3>3, <3>4
  <2>2. CASE NextGroup \/ Preempt \/ \E m \in Motors : Arrive(m)
    BY <2>2 DEF NextGroup, Preempt, Arrive, notes
  <2>3. CASE UNCHANGED vars
    BY <2>3 DEF vars
  <2>. QED
    BY <2>1, <2>2, <2>3 DEF Next, Run
<1>. QED
  BY <1>1, PoseHolds, PTL DEF Spec, OwnPhoto

---------------------------------------------------------------------------
(* The commands implement PatrolReport.                                     *)

\* Where the patrol is in its list of viewpoints.
LEMMA StopFacts ==
  ASSUME grp \in 1..(Len(Groups) + 1)
  PROVE  /\ Stop \in 0..(Len(Views) + 1)
         /\ View <=> Stop \in 1..Len(Views)
         /\ Stop \in 1..Len(Views) =>
              Stop = grp - Base /\ Stop \in Point /\ grp \in 1..Len(Groups)
         /\ grp <= Base <=> Stop = 0
<1>1. /\ Base \in {1, 2} /\ Len(Views) \in Nat /\ Len(Views) >= 1 /\ Point = 1..Len(Views)
      /\ Len(Groups) \in Nat /\ Len(Groups) >= Base + Len(Views)
  BY ViewsFacts, GroupsFacts DEF Base
<1>2. /\ Stop \in 0..(Len(Views) + 1)
      /\ Stop \in 1..Len(Views) <=> grp - Base \in Point
      /\ grp - Base \in Point => Stop = grp - Base /\ grp \in 1..Len(Groups)
      /\ grp <= Base <=> Stop = 0
  BY <1>1 DEF Stop
<1>3. View <=> grp - Base \in Point
  <2>1. Running <=> grp \in 1..Len(Groups)
    BY <1>1 DEF Running
  <2>2. grp \in 1..Len(Groups) => (Groups[grp].view # 0 <=> grp - Base \in Point)
    BY RunningGroup
  <2>. QED
    BY <1>2, <2>1, <2>2 DEF View
<1>. QED
  BY <1>1, <1>2, <1>3

\* A record is opened by a group before the viewpoints, and a viewpoint has one
\* insertion.
LEMMA StatementLayout ==
  ASSUME grp \in 1..Len(Groups), NEW j \in 1..Len(Commands)
  PROVE  /\ Kind(j) = "SQLOperation" => grp <= Base
         /\ Kind(j) = "SQLInsert" =>
              \A i \in 1..Len(Commands) : Kind(i) = "SQLInsert" => i = j
<1>1. /\ Base \in {1, 2} /\ Len(Views) \in Nat /\ Point = 1..Len(Views)
      /\ Len(Commands) \in Nat /\ Len(Groups) \in Nat
  BY ViewsFacts, GroupsFacts, RunningGroup DEF Base
<1>2. CASE grp - Base \in Point
  <2>. DEFINE k == grp - Base
  <2>1. k \in Point
    BY <1>2
  <2>2. PICK m \in Nat : Laid(k, Commands, m)
    BY <1>2, RunningView
  <2>. HIDE DEF k
  <2>3. m >= 3 /\ Len(Commands) >= m + 1
    BY <2>2 DEF Laid
  <2>4. ASSUME NEW i \in 1..Len(Commands)
        PROVE  Kind(i) # "SQLOperation" /\ (Kind(i) = "SQLInsert" => i = m + 1)
    <3>1. CASE i = 1 \/ i = 2 \/ i = 3
      BY <2>2, <3>1 DEF Laid, Kind, Cmd
    <3>2. CASE i \in 4..m
      <4>1. Commands[i] \in Shots(k)
        BY <2>2, <3>2 DEF Laid
      <4>. QED
        BY <4>1 DEF Shots, Kind, Cmd
    <3>3. CASE i = m + 1
      BY <2>2, <3>3 DEF Laid, Kind, Cmd
    <3>4. CASE i \in (m + 2)..Len(Commands)
      <4>1. Commands[i] \in Afterwards
        BY <2>2, <3>4 DEF Laid
      <4>. QED
        BY <4>1 DEF Afterwards, Kind
    <3>5. i = 1 \/ i = 2 \/ i = 3 \/ i \in 4..m \/ i = m + 1 \/ i \in (m + 2)..Len(Commands)
      BY <1>1, <2>3
    <3>. QED
      BY <3>1, <3>2, <3>3, <3>4, <3>5
  <2>. QED
    BY <2>4
<1>3. CASE grp - Base \notin Point
  <2>1. Kind(j) # "SQLInsert"
    BY <1>3, RunningGroup DEF ViewKinds
  <2>2. ASSUME ~(grp <= Base) PROVE Kind(j) # "SQLOperation"
    <3>1. grp > Base + Len(Views)
      BY <1>1, <1>3, <2>2
    <3>2. Closing(Groups[grp])
      BY <3>1, GroupsFacts
    <3>. QED
      BY <3>2 DEF Closing, Kind, Commands
  <2>. QED
    BY <2>1, <2>2
<1>. QED
  BY <1>2, <1>3

\* What a call of exec makes of the report.
LEMMA ExecTells ==
  ASSUME NEW j, Exec(j)
  PROVE  /\ Kind(j) \notin {"SQLInsert", "SQLOperation"} => UNCHANGED <<records, verdict>>
         /\ Kind(j) = "SQLOperation" =>
              /\ records' = records
              /\ verdict' = verdict \/ (verdict = "none" /\ verdict' = "open")
         /\ Kind(j) = "SQLInsert" => SQLInsert(j)
<1>1. CASE Kind(j) \notin {"SQLInsert", "SQLOperation"}
  BY <1>1 DEF Exec, Refused, notes, Goto, MoveControl, PtzRotate, GotoHome, PddDet,
              TakePhoto, RecordVideo, ImageRec, SetSpeed, Recharge
<1>2. CASE Kind(j) = "SQLOperation"
  BY <1>2 DEF Exec, Refused, Chained, SQLOperation
<1>3. CASE Kind(j) = "SQLInsert"
  BY <1>3 DEF Exec, Refused, Chained
<1>. QED
  BY <1>1, <1>2, <1>3

\* The insertion of a viewpoint's result tells the database about it: its row
\* names its own photo unless a command has failed, and the last one's brings
\* the verdict.
LEMMA InsertTells ==
  ASSUME PoseInv, Running, grp \in 1..Len(Groups), Stop \in Point,
         NEW j \in 1..Len(Commands), Kind(j) = "SQLInsert", To(j) = Stop, SQLInsert(j),
         \A i \in 1..Len(Commands) : i < j => Done(cmd[i]),
         Len(cmd) = Len(Commands)
  PROVE  Report!Row /\ Report!Verdict
<1>. DEFINE k == Stop
            kept == IF "pic" \in Views[k].has THEN info.photo ELSE 0
<1>1. /\ records' = [records EXCEPT ![k] = @ \cup {kept}] \/ (DbMayFail /\ records' = records)
      /\ IF k = Len(Views) /\ verdict # "none"
         THEN verdict' = "success" \/ (DbMayFail /\ verdict' = verdict)
         ELSE verdict' = verdict
  BY DEF SQLInsert, Stored, LastPoint
<1>2. kept \in Shot
  BY DEF PoseInv, TypeInv, TypeOK, Shot
<1>3. kept = Report!Own \/ Spoilt
  <2>1. CASE "pic" \notin Views[k].has
    BY <2>1 DEF Report!Own
  <2>2. CASE "pic" \in Views[k].has
    <3>1. PICK i \in 1..(j - 1) : Kind(i) = "TakePhoto" /\ To(i) = k
      BY <2>2, RecordLayout
    <3>2. i \in 1..Len(Commands) /\ i < j /\ Done(cmd[i])
      BY <3>1, RunningGroup
    <3>3. CASE cmd[i].ret = "ST_SUCCESS"
      <4>1. info.photo = k
        BY <3>1, <3>2, <3>3 DEF PoseInv, Shown
      <4>. QED
        BY <2>2, <4>1 DEF Report!Own
    <3>4. CASE cmd[i].ret = "ST_FAIL"
      <4>1. View
        <5>1. grp \in 1..(Len(Groups) + 1) /\ Point = 1..Len(Views)
          BY GroupsFacts, ViewsFacts
        <5>. QED
          BY <5>1, StopFacts
      <4>2. i \in DOMAIN cmd
        <5>1. cmd \in Seq(CmdState)
          BY DEF PoseInv, TypeInv, TypeOK, CmdState, Result, Status
        <5>. QED
          BY <3>2, <5>1, LenProperties
      <4>. QED
        BY <3>4, <4>1, <4>2 DEF Spoilt
    <3>. QED
      BY <3>2, <3>3, <3>4 DEF Done
  <2>. QED
    BY <2>1, <2>2
<1>. HIDE DEF kept
<1>4. Report!Row
  BY <1>1, <1>2, <1>3 DEF Report!Row
<1>5. Report!Verdict
  BY <1>1 DEF Report!Verdict
<1>. QED
  BY <1>4, <1>5

LEMMA CallReports ==
  ASSUME PoseInv, PoseInv', ExecCurrent \/ ExecNext
  PROVE  [Report!Next]_(Report!vars)
<1>1. /\ Running /\ grp' = grp /\ grp \in 1..Len(Groups) /\ Len(Commands) \in Nat
      /\ cmd \in Seq(CmdState) /\ Len(cmd) = Len(Commands)
  BY CallFacts
<1>2. PICK j \in 1..Len(Commands) :
        /\ Exec(j)
        /\ \A i \in 1..Len(Commands) : i # j => cmd'[i] = cmd[i]
        /\ \A i \in 1..Len(Commands) : i < j => Done(cmd[i])
        /\ ~Done(cmd[j])
  BY CallFacts
<1>3. /\ Commands' = Commands /\ Stop' = Stop /\ Running' /\ View' = View
      /\ \A i : Kind(i)' = Kind(i)
  BY <1>1 DEF Commands, Stop, Running, View, Kind
<1>4. DOMAIN cmd = 1..Len(Commands) /\ DOMAIN cmd' = 1..Len(Commands)
  <2>1. cmd' \in Seq(CmdState) /\ Len(cmd') = Len(Commands)
    BY <1>3 DEF PoseInv, TypeInv, TypeOK, RunInv, CmdState, Result, Status
  <2>. QED
    BY <1>1, <2>1, LenProperties
<1>5. grp \in 1..(Len(Groups) + 1) /\ Point = 1..Len(Views) /\ Len(Views) \in Nat
  BY <1>1, GroupsFacts, ViewsFacts
<1>6. CASE ~View
  <2>1. /\ Spoilt = FALSE /\ Told = FALSE /\ Spoilt' = FALSE /\ Told' = FALSE
    BY <1>3, <1>6 DEF Spoilt, Told
  <2>2. Kind(j) # "SQLInsert"
    BY <1>1, <1>5, <1>6, RunningGroup DEF ViewKinds, View
  <2>3. CASE UNCHANGED <<records, verdict>>
    BY <1>3, <2>1, <2>3 DEF Report!vars
  <2>4. CASE /\ Kind(j) = "SQLOperation" /\ records' = records
             /\ verdict = "none" /\ verdict' = "open"
    <3>1. Stop = 0
      BY <1>1, <1>5, <2>4, StatementLayout, StopFacts
    <3>2. Report!Open
      BY <1>3, <2>1, <2>4, <3>1 DEF Report!Open
    <3>. QED
      BY <3>2 DEF Report!Next
  <2>. QED
    BY <1>2, <2>2, <2>3, <2>4, ExecTells
<1>7. CASE View
  <2>1. Stop \in 1..Len(Views) /\ Stop \in Point /\ Stop = grp - Base
    BY <1>5, <1>7, StopFacts
  <2>2. Spoilt' <=> Spoilt \/ cmd'[j].ret = "ST_FAIL"
    <3>1. \A i \in 1..Len(Commands) :
            cmd'[i].ret = "ST_FAIL" <=>
              cmd[i].ret = "ST_FAIL" \/ (i = j /\ cmd'[j].ret = "ST_FAIL")
      BY <1>2 DEF Done
    <3>. QED
      BY <1>3, <1>4, <1>7, <3>1 DEF Spoilt
  <2>3. Told' <=> Told \/ (Kind(j) = "SQLInsert" /\ Done(cmd'[j]))
    <3>1. \A i \in 1..Len(Commands) :
            Done(cmd[i])' <=> Done(cmd[i]) \/ (i = j /\ Done(cmd'[j]))
      BY <1>2 DEF Done
    <3>. QED
      BY <1>3, <1>4, <1>7, <3>1 DEF Told
  <2>4. CASE Kind(j) = "SQLInsert"
    <3>1. SQLInsert(j) /\ To(j) = Stop
      BY <1>1, <1>2, <2>1, <2>4, ExecTells, RunningGroup
    <3>2. cmd'[j].ret = "ST_SUCCESS"
      BY <1>1, <1>2, <3>1, CallResults DEF SQLInsert
    <3>3. ~Told
      <4>1. \A i \in 1..Len(Commands) : Kind(i) = "SQLInsert" => i = j
        BY <1>1, <2>4, StatementLayout
      <4>. QED
        BY <1>2, <1>4, <4>1 DEF Told
    <3>4. Told' = TRUE /\ Spoilt' = Spoilt
      BY <2>2, <2>3, <2>4, <3>2 DEF Done, Told, Spoilt
    <3>5. Report!Row /\ Report!Verdict
      BY <1>1, <1>2, <2>1, <2>4, <3>1, InsertTells
    <3>6. Report!Tell
      BY <1>3, <2>1, <3>3, <3>4, <3>5 DEF Report!Tell, Report!AtViewpoint
    <3>. QED
      BY <3>6 DEF Report!Next
  <2>5. CASE Kind(j) # "SQLInsert"
    <3>1. UNCHANGED <<records, verdict>>
      <4>1. Kind(j) # "SQLOperation"
        BY <1>1, <1>5, <2>1, StatementLayout, StopFacts
      <4>. QED
        BY <1>2, <2>5, <4>1, ExecTells
    <3>2. Told' = Told
      BY <2>3, <2>5 DEF Told
    <3>3. CASE cmd'[j].ret = "ST_FAIL"
      <4>1. Spoilt' = TRUE
        BY <2>2, <3>3 DEF Spoilt
      <4>2. Report!Fail
        BY <1>3, <2>1, <3>1, <3>2, <4>1 DEF Report!Fail, Report!AtViewpoint
      <4>. QED
        BY <4>2 DEF Report!Next
    <3>4. CASE cmd'[j].ret # "ST_FAIL"
      <4>1. Spoilt' = Spoilt
        BY <2>2, <3>4 DEF Spoilt
      <4>. QED
        BY <1>3, <3>1, <3>2, <4>1 DEF Report!vars
    <3>. QED
      BY <3>3, <3>4
  <2>. QED
    BY <2>4, <2>5
<1>. QED
  BY <1>6, <1>7

\* A group that begins has not told the database anything, and nothing of it
\* has failed.
LEMMA FreshReport ==
  ASSUME PoseInv, PoseInv', NextGroup \/ Preempt
  PROVE  Spoilt' = FALSE /\ Told' = FALSE
<1>1. CASE ~Running'
  BY <1>1 DEF Spoilt, Told, View
<1>2. CASE Running'
  <2>1. \A i \in 1..Len(Commands)' : cmd'[i] = Asleep
    BY <1>2, FreshGroup DEF PoseInv
  <2>2. DOMAIN cmd' = 1..Len(Commands)'
    <3>1. cmd' \in Seq(CmdState) /\ Len(cmd') = Len(Commands)'
      BY <1>2 DEF PoseInv, TypeInv, TypeOK, RunInv, CmdState, Result, Status
    <3>. QED
      BY <3>1, LenProperties
  <2>3. \A i \in DOMAIN cmd' : cmd'[i].ret = "ST_SLEEP"
    BY <2>1, <2>2 DEF Asleep
  <2>. QED
    BY <2>3 DEF Spoilt, Told, Done
<1>. QED
  BY <1>1, <1>2

LEMMA GroupReports ==
  ASSUME PoseInv, PoseInv', NextGroup
  PROVE  [Report!Next]_(Report!vars)
<1>1. /\ Running /\ Done(cmd[cur]) /\ cur = Len(Commands) /\ grp' = grp + 1
      /\ UNCHANGED <<records, verdict>>
  BY DEF NextGroup, notes
<1>2. /\ grp \in 1..Len(Groups) /\ grp \in 1..(Len(Groups) + 1) /\ Len(Groups) \in Nat
      /\ Base \in {1, 2} /\ Point = 1..Len(Views) /\ Len(Views) \in Nat /\ Len(Views) >= 1
  BY <1>1, GroupsFacts, ViewsFacts DEF PoseInv, TypeInv, TypeOK, Running, Base
<1>3. Spoilt' = FALSE /\ Told' = FALSE
  BY FreshReport
<1>4. ASSUME Stop \in 1..Len(Views) PROVE Told
  <2>1. View /\ Groups[grp].view # 0
    BY <1>2, <1>4, StopFacts DEF View
  <2>2. PICK j \in 1..Len(Commands) : Kind(j) = "SQLInsert"
    BY <1>2, <2>1, RunningGroup
  <2>3. Done(cmd[j])
    <3>1. Len(Commands) \in Nat
      BY <1>2, RunningGroup
    <3>2. j < cur \/ j = cur
      BY <1>1, <3>1
    <3>. QED
      BY <1>1, <3>2 DEF PoseInv, InOrder
  <2>4. j \in DOMAIN cmd
    <3>1. cmd \in Seq(CmdState) /\ Len(cmd) = Len(Commands)
      BY <1>1 DEF PoseInv, TypeInv, TypeOK, RunInv, CmdState, Result, Status
    <3>. QED
      BY <3>1, LenProperties
  <2>. QED
    BY <2>1, <2>2, <2>3, <2>4 DEF Told
<1>5. CASE Stop' = Stop /\ Stop \notin 1..Len(Views)
  <2>1. Spoilt = FALSE /\ Told = FALSE
    BY <1>2, <1>5, StopFacts DEF Spoilt, Told
  <2>. QED
    BY <1>1, <1>3, <1>5, <2>1 DEF Report!vars
<1>6. CASE Stop \in 0..Len(Views) /\ Stop' = Stop + 1
  <2>1. Report!GoOn
    BY <1>1, <1>3, <1>4, <1>6 DEF Report!GoOn, Report!AtViewpoint
  <2>. QED
    BY <2>1 DEF Report!Next
<1>7. \/ Stop' = Stop /\ Stop \notin 1..Len(Views)
      \/ Stop \in 0..Len(Views) /\ Stop' = Stop + 1
  <2>1. /\ Stop = IF grp <= Base THEN 0
                  ELSE IF grp - Base \in 1..Len(Views) THEN grp - Base ELSE Len(Views) + 1
        /\ Stop' = IF grp + 1 <= Base THEN 0
                   ELSE IF (grp + 1) - Base \in 1..Len(Views) THEN (grp + 1) - Base
                        ELSE Len(Views) + 1
    BY <1>1, <1>2 DEF Stop
  <2>. QED
    BY <1>2, <2>1
<1>. QED
  BY <1>5, <1>6, <1>7

LEMMA PreemptReports ==
  ASSUME PoseInv, PoseInv', Preempt
  PROVE  [Report!Next]_(Report!vars)
<1>1. grp' = grp /\ UNCHANGED <<records, verdict>>
  BY DEF Preempt
<1>2. Stop' = Stop
  BY <1>1 DEF Stop
<1>3. Spoilt' = FALSE /\ Told' = FALSE
  BY FreshReport
<1>4. CASE View
  <2>1. grp \in 1..(Len(Groups) + 1)
    BY DEF PoseInv, TypeInv, TypeOK
  <2>2. Stop \in 1..Len(Views)
    BY <1>4, <2>1, StopFacts
  <2>3. Report!Again
    BY <1>1, <1>2, <1>3, <2>2 DEF Report!Again, Report!AtViewpoint
  <2>. QED
    BY <2>3 DEF Report!Next
<1>5. CASE ~View
  <2>1. Spoilt = FALSE /\ Told = FALSE
    BY <1>5 DEF Spoilt, Told
  <2>. QED
    BY <1>1, <1>2, <1>3, <2>1 DEF Report!vars
<1>. QED
  BY <1>4, <1>5

LEMMA ReportStep == PoseInv /\ PoseInv' /\ [Next]_vars => [Report!Next]_(Report!vars)
<1>. SUFFICES ASSUME PoseInv, PoseInv', [Next]_vars PROVE [Report!Next]_(Report!vars)
  OBVIOUS
<1>1. CASE ExecCurrent \/ ExecNext
  BY <1>1, CallReports
<1>2. CASE NextGroup
  BY <1>2, GroupReports
<1>3. CASE Preempt
  BY <1>3, PreemptReports
<1>4. CASE UNCHANGED <<grp, cmd, records, verdict>>
  <2>1. Stop' = Stop /\ Spoilt' = Spoilt /\ Told' = Told
    BY <1>4 DEF Stop, Spoilt, Told, View, Running, Kind, Commands, Done
  <2>. QED
    BY <1>4, <2>1 DEF Report!vars
<1>. QED
  BY <1>1, <1>2, <1>3, <1>4 DEF Next, Run, Arrive, vars

LEMMA ReportInit == Init => Report!Init
<1>. SUFFICES ASSUME Init PROVE Report!Init
  OBVIOUS
<1>1. grp = 1 /\ verdict = "none" /\ records = [k \in Point |-> {}] /\ Point = 1..Len(Views)
  BY ViewsFacts DEF Init
<1>2. Stop = 0 /\ ~View
  <2>1. grp \in 1..(Len(Groups) + 1)
    BY TypesAtFirst DEF TypeInv, TypeOK
  <2>2. grp <= Base
    BY <1>1 DEF Base
  <2>3. Stop = 0
    BY <2>2 DEF Stop
  <2>. QED
    BY <2>1, <2>3, StopFacts
<1>3. Spoilt = FALSE /\ Told = FALSE
  BY <1>2 DEF Spoilt, Told
<1>. QED
  BY <1>1, <1>2, <1>3 DEF Report!Init

\* The commands of a patrol keep the promise of PatrolReport, for any viewpoints
\* and wishes, any limits of the retries, any preemptions, any answers of the
\* hardware and of the database: one viewpoint after the other is told, none is
\* left out, no row names a photo of another unless something failed there, and
\* the verdict comes with the row of the last (SQLOperationCommand::exec,
\* SQLInsertCommand::exec and MoveTaskItem::run).
THEOREM ReportImplemented == Spec => ImplementsReport
BY ReportInit, ReportStep, PoseHolds, PTL DEF Spec, ImplementsReport, Report!Spec

---------------------------------------------------------------------------
(* The recognition beside the patrol.                                       *)

\* The recognition does nothing to the patrol: all that holds of a patrol alone
\* holds beside it (ImageProcessManager::run has no access to the groups).
THEOREM RecognitionIsBeside == ImageSpec => Spec
<1>1. ImageInit => Init
  BY DEF ImageInit
<1>2. [ImageNext]_allVars => [Next]_vars
  BY DEF ImageNext, allVars, Patrol, Recognise, Clear, Take, Answer
<1>. QED
  BY <1>1, <1>2, PTL DEF ImageSpec, Spec

QueueTypes ==
  /\ queue \in Seq(Point)
  /\ entry \in Point \cup {0}

Waiting(k) == k = entry \/ \E i \in DOMAIN queue : queue[i] = k

\* A command of ImageRec leaves its first state only in a call of its own; the
\* record of its viewpoint was called before.
LEMMA AskingIsCalled ==
  ASSUME PoseInv, Next, Asks
  PROVE  /\ Groups[grp].view \in Point
         /\ ~DbMayFail /\ Recorded' => records'[Groups[grp].view] # {}
<1>1. PICK j \in DOMAIN cmd :
        /\ Running /\ Kind(j) = "ImageRec" /\ cmd[j].status = "start"
        /\ grp' = grp /\ cmd'[j].status = "finish"
  BY DEF Asks
<1>2. grp \in 1..Len(Groups) /\ Len(Groups) \in Nat
  BY <1>1, GroupsFacts DEF PoseInv, TypeInv, TypeOK, Running
<1>3. j \in 1..Len(Commands)
  BY <1>1 DEF PoseInv, TypeInv, TypeOK, RunInv
<1>4. Commands' = Commands /\ Running' /\ \A i : Kind(i)' = Kind(i) /\ To(i)' = To(i)
  BY <1>1 DEF Commands, Running, Kind, To
<1>5. ~NextGroup
  BY <1>1, <1>2 DEF NextGroup
<1>6. ~Preempt
  BY <1>1, <1>3, <1>4, FreshGroup DEF PoseInv, Asleep
<1>7. \A m \in Motors : ~Arrive(m)
  BY <1>1 DEF Arrive
<1>8. ExecCurrent \/ ExecNext
  BY <1>5, <1>6, <1>7 DEF Next, Run
<1>9. cur' = j
  BY <1>1, <1>3, <1>8, CallFacts
<1>10. /\ grp - Base \in Point /\ Groups[grp].view = grp - Base
       /\ \E i \in 1..(j - 1) : Kind(i) = "SQLInsert" /\ To(i) = grp - Base
  BY <1>1, <1>2, <1>3, AskLayout
<1>11. ASSUME Recorded' PROVE records'[grp - Base] # {}
  <2>1. PICK i \in 1..(j - 1) : Kind(i) = "SQLInsert" /\ To(i) = grp - Base
    BY <1>10
  <2>2. i \in 1..Len(Commands) /\ i < j
    BY <1>2, <1>3, RunningGroup
  <2>. QED
    BY <1>4, <1>9, <1>11, <2>1, <2>2 DEF Recorded
<1>. QED
  BY <1>10, <1>11

\* A record once written stays, when the database keeps what it is given.
LEMMA RecordsStay ==
  ASSUME PoseInv, ~DbMayFail, [Next]_vars, NEW k \in Point, records[k] # {}
  PROVE  records'[k] # {}
<1>1. CASE ExecCurrent \/ ExecNext
  <2>1. PICK j \in 1..Len(Commands) : Exec(j)
    BY <1>1, CallFacts
  <2>2. grp \in 1..Len(Groups) /\ records \in [Point -> SUBSET Shot]
    BY <1>1, CallFacts
  <2>3. Kind(j) = "SQLInsert" => To(j) \in Point
    BY <2>2, RunningGroup DEF ViewKinds
  <2>. QED
    BY <2>1, <2>2, <2>3, ExecRecords
<1>2. CASE NextGroup \/ Preempt \/ \E m \in Motors : Arrive(m)
  BY <1>2 DEF NextGroup, Preempt, Arrive, notes
<1>3. CASE UNCHANGED vars
  BY <1>3 DEF vars
<1>. QED
  BY <1>1, <1>2, <1>3 DEF Next, Run

\* What waits after a step has waited before, or was asked for in it.
LEMMA QueueStep ==
  ASSUME PoseInv, QueueTypes, [ImageNext]_allVars
  PROVE  /\ QueueTypes'
         /\ \A k \in Point : Waiting(k)' =>
              Waiting(k) \/ (Next /\ Asks /\ k = Groups[grp].view)
<1>. USE DEF QueueTypes
<1>1. CASE Patrol /\ Asks
  <2>. DEFINE view == Groups[grp].view
  <2>1. Next /\ queue' = Append(queue, view) /\ entry' = entry
    BY <1>1 DEF Patrol, Appended
  <2>2. view \in Point
    BY <1>1, <2>1, AskingIsCalled
  <2>. HIDE DEF view
  <2>3. /\ Append(queue, view) \in Seq(Point)
        /\ Len(Append(queue, view)) = Len(queue) + 1
        /\ \A i \in 1..Len(queue) : Append(queue, view)[i] = queue[i]
        /\ Append(queue, view)[Len(queue) + 1] = view
    BY <2>2, AppendProperties
  <2>4. DOMAIN queue = 1..Len(queue) /\ DOMAIN queue' = 1..(Len(queue) + 1) /\ Len(queue) \in Nat
    BY <2>1, <2>3, LenProperties
  <2>5. \A i \in DOMAIN queue' : i \in DOMAIN queue \/ i = Len(queue) + 1
    BY <2>4
  <2>6. ASSUME NEW k \in Point, Waiting(k)', ~Waiting(k) PROVE k = view
    BY <2>1, <2>3, <2>4, <2>5, <2>6 DEF Waiting
  <2>. QED
    BY <1>1, <2>1, <2>3, <2>6 DEF view
<1>2. CASE (Patrol /\ ~Asks) \/ UNCHANGED allVars
  <2>1. UNCHANGED <<queue, entry>>
    BY <1>2 DEF Patrol, allVars, imageVars
  <2>. QED
    BY <2>1 DEF Waiting
<1>3. CASE Clear
  <2>1. queue' = <<>> /\ entry' = entry /\ <<>> \in Seq(Point) /\ DOMAIN <<>> = {}
    BY <1>3 DEF Clear
  <2>. QED
    BY <2>1 DEF Waiting
<1>4. CASE Take
  <2>1. /\ entry' = Head(queue) /\ queue' = Tail(queue) /\ Len(queue) >= 1
    BY <1>4 DEF Take
  <2>2. /\ Len(queue) \in Nat /\ queue # <<>> /\ DOMAIN queue = 1..Len(queue)
    BY <2>1, LenProperties
  <2>3. /\ Head(queue) \in Point /\ Head(queue) = queue[1]
        /\ Tail(queue) \in Seq(Point) /\ Len(Tail(queue)) = Len(queue) - 1
        /\ \A i \in 1..Len(Tail(queue)) : Tail(queue)[i] = queue[i + 1]
    BY <2>2, HeadTailProperties, ElementOfSeq
  <2>4. \A i \in DOMAIN queue' : queue'[i] = queue[i + 1] /\ i + 1 \in DOMAIN queue
    BY <2>1, <2>2, <2>3, LenProperties
  <2>5. 1 \in DOMAIN queue
    BY <2>1, <2>2
  <2>. QED
    BY <2>1, <2>3, <2>4, <2>5 DEF Waiting
<1>5. CASE Answer
  <2>1. entry' = 0 /\ queue' = queue
    BY <1>5 DEF Answer
  <2>. QED
    BY <2>1, ViewsFacts DEF Waiting
<1>. QED
  BY <1>1, <1>2, <1>3, <1>4, <1>5 DEF ImageNext, Recognise

LEMMA QueueTyped == ImageSpec => []QueueTypes
<1>1. ImageInit => QueueTypes
  BY DEF ImageInit, QueueTypes
<1>2. PoseInv /\ QueueTypes /\ [ImageNext]_allVars => QueueTypes'
  BY QueueStep
<1>. QED
  BY <1>1, <1>2, RecognitionIsBeside, PoseHolds, PTL DEF ImageSpec

\* The types, the queue of the recognition included: only viewpoints ever wait
\* in it (ImageProcessManager::appendViewPointInfo).
THEOREM ImageTypeCorrect == ImageSpec => []ImageTypeOK
<1>1. TypeOK /\ QueueTypes => ImageTypeOK
  BY DEF QueueTypes, ImageTypeOK
<1>. QED
  BY <1>1, QueueTyped, RecognitionIsBeside, TypeCorrect, PTL

\* A viewpoint that waits for its recognition, or is being recognised, has its
\* record, even if it is started again meanwhile (ImageRecCommand::exec and
\* ImageProcessManager::getProcessResult).
THEOREM AlwaysRecordedFirst == ImageSpec => []RecordedFirst
<1>. DEFINE Recs == ~DbMayFail => Recorded
<1>1. ImageInit => RecordedFirst
  <2>1. ImageInit => \A k \in Point : ~Waiting(k)
    BY ViewsFacts DEF ImageInit, Waiting
  <2>. QED
    BY <2>1 DEF RecordedFirst, Waiting
<1>2. /\ PoseInv /\ QueueTypes /\ Recs' /\ RecordedFirst
      /\ [ImageNext]_allVars /\ [Next]_vars
      => RecordedFirst'
  <2>. SUFFICES ASSUME PoseInv, QueueTypes, Recs', RecordedFirst,
                       [ImageNext]_allVars, [Next]_vars, ~DbMayFail,
                       NEW k \in Point, Waiting(k)'
                PROVE  records'[k] # {}
    BY DEF RecordedFirst, Waiting
  <2>1. CASE Waiting(k)
    <3>1. records[k] # {}
      BY <2>1 DEF RecordedFirst, Waiting
    <3>. QED
      BY <3>1, RecordsStay
  <2>2. CASE Next /\ Asks /\ k = Groups[grp].view
    BY <2>2, AskingIsCalled
  <2>. QED
    BY <2>1, <2>2, QueueStep
<1>3. [ImageNext]_allVars => [Next]_vars
  BY DEF ImageNext, allVars, Patrol, Recognise, Clear, Take, Answer
<1>4. ImageSpec => []Recs
  BY RecognitionIsBeside, RecordedHolds, PTL
<1>5. ImageSpec => []PoseInv
  BY RecognitionIsBeside, PoseHolds, PTL
<1>. HIDE DEF Recs
<1>. QED
  BY <1>1, <1>2, <1>3, <1>4, <1>5, QueueTyped, PTL DEF ImageSpec

=============================================================================
