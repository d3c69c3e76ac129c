---------------------------- MODULE PatrolReport ----------------------------
(***************************************************************************)
(* What a patrol promises to the reader of its records.  It comes to one   *)
(* viewpoint after the other and leaves none before it has told the        *)
(* database about it; a row names the photo of its own viewpoint, unless   *)
(* something failed there; and the verdict is written with the row of the  *)
(* last viewpoint, in a report that was opened before the first.  A        *)
(* viewpoint may be started again, which tells about it again.  Commands,  *)
(* motors, retries and what the commands share are not visible here.       *)
(***************************************************************************)
EXTENDS Naturals

CONSTANTS Stops,     \* viewpoints are numbered 1 .. Stops in their order
          Pictured,  \* those that ask for a photo
          Pictures,  \* what a row may name: the photo of a viewpoint, or another
          NoPicture, \* what a row names without a photo
          MayLose    \* a statement to the database may be lost

VARIABLES stop,    \* the viewpoint the patrol is at, 0 before, Stops + 1 after
          spoilt,  \* something has failed at this viewpoint
          told,    \* the database was told about this viewpoint
          rows,    \* per viewpoint the pictures its rows name
          report   \* "none", "open" or "success"

vars == <<stop, spoilt, told, rows, report>>

AtViewpoint == stop \in 1 .. Stops
Own == IF stop \in Pictured THEN stop ELSE NoPicture

Init ==
  /\ stop = 0
  /\ spoilt = FALSE /\ told = FALSE
  /\ rows = [k \in 1 .. Stops |-> {}]
  /\ report = "none"

Open ==
  /\ stop = 0
  /\ report = "none"
  /\ report' = "open"
  /\ UNCHANGED <<stop, spoilt, told, rows>>

Fail ==
  /\ AtViewpoint
  /\ spoilt' = TRUE
  /\ UNCHANGED <<stop, told, rows, report>>

Row ==
  \/ \E p \in Pictures :
       /\ p = Own \/ spoilt
       /\ rows' = [rows EXCEPT ![stop] = @ \cup {p}]
  \/ MayLose /\ UNCHANGED rows

\* Nothing is judged in a report that was never opened.
Verdict ==
  \/ stop = Stops /\ report # "none" /\ report' = "success"
  \/ (stop = Stops /\ report # "none" => MayLose) /\ UNCHANGED report

Tell ==
  /\ AtViewpoint
  /\ ~told
  /\ told' = TRUE
  /\ Row
  /\ Verdict
  /\ UNCHANGED <<stop, spoilt>>

Again ==
  /\ AtViewpoint
  /\ spoilt' = FALSE /\ told' = FALSE
  /\ UNCHANGED <<stop, rows, report>>

GoOn ==
  /\ stop \in 0 .. Stops
  /\ AtViewpoint => told
  /\ stop' = stop + 1
  /\ spoilt' = FALSE /\ told' = FALSE
  /\ UNCHANGED <<rows, report>>

Next == Open \/ Fail \/ Tell \/ Again \/ GoOn

Spec == Init /\ [][Next]_vars
=============================================================================
