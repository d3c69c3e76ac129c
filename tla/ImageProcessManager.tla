------------------------- MODULE ImageProcessManager -------------------------
(***************************************************************************)
(* The recognition of the photos of a patrol beside the patrol: the        *)
(* command ImageRec appends its viewpoint to a queue, and a thread of its  *)
(* own takes the viewpoints one by one, asks the service for the values of *)
(* their meters and stores them with the records of the viewpoints.        *)
(*                                                                         *)
(* Every access to the queue is one critical section of m_lck, and one     *)
(* action here.  The service and its transport are external: it answers,   *)
(* or the request ends in its timeout.  Viewpoints other patrols append    *)
(* are left out: they only take places of the queue.                       *)
(***************************************************************************)
EXTENDS PatrolCommands

CONSTANT MaxQueue   \* viewpoints kept: 100 in the code

ASSUME MaxQueueOK == MaxQueue \in Nat

VARIABLES
  queue,   \* m_ViewPointInfo, by viewpoint: the entries are copies
  entry    \* the viewpoint getProcessResult works on, or 0

imageVars == <<queue, entry>>
allVars == <<vars, imageVars>>

ImageTypeOK ==
  /\ TypeOK
  /\ queue \in Seq(Point)
  /\ entry \in Point \cup {0}

ImageInit ==
  /\ Init
  /\ queue = <<>>
  /\ entry = 0
-----------------------------------------------------------------------------
\* exec of ImageRec has left its first state.
Asks ==
  \E j \in DOMAIN cmd :
    /\ Running
    /\ Kind(j) = "ImageRec"
    /\ cmd[j].status = "start"
    /\ grp' = grp
    /\ cmd'[j].status = "finish"

\* appendViewPointInfo(patrolViewPointInfo): a copy, with the viewpoint's id.
Appended == Append(queue, Groups[grp].view)

Patrol ==
  /\ Next
  /\ queue' = IF Asks THEN Appended ELSE queue
  /\ UNCHANGED entry

\* run: more than the queue may keep, and all of it goes.
Clear ==
  /\ entry = 0
  /\ Len(queue) > MaxQueue
  /\ queue' = <<>>
  /\ UNCHANGED <<vars, entry>>

Take ==
  /\ entry = 0
  /\ Len(queue) \in 1 .. MaxQueue
  /\ entry' = Head(queue)
  /\ queue' = Tail(queue)
  /\ UNCHANGED vars

\* getProcessResult returns, with or without results: they are stored in
\* tables nothing here reads.
Answer ==
  /\ entry # 0
  /\ entry' = 0
  /\ UNCHANGED <<vars, queue>>

Recognise == Clear \/ Take \/ Answer

ImageNext == Patrol \/ Recognise

ImageSpec == ImageInit /\ [][ImageNext]_allVars
-----------------------------------------------------------------------------
(* Properties. *)

\* A viewpoint that waits for its recognition, or is being recognised, has
\* its record: the path of the photo is read from it, and the results are
\* stored with it, even if the viewpoint is started again meanwhile.
RecordedFirst ==
  ~DbMayFail =>
    \A k \in Point :
      k = entry \/ (\E i \in DOMAIN queue : queue[i] = k) => records[k] # {}
=============================================================================
