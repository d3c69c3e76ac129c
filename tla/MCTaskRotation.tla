--------------------------- MODULE MCTaskRotation ---------------------------
(* Days of three seconds: a patrol of every day, one of every second day    *)
(* that begins on an odd day and is due together with it, a one-time patrol *)
(* due one second after it, one to be executed at once and one without      *)
(* viewpoints.                                                              *)
EXTENDS TaskRotation

AllTasks == {"everyday", "alternate", "once", "now", "empty"}

TypeOf == [t \in AllTasks |->
             CASE t = "once" -> "ONETIME" [] t = "now" -> "NOW" [] OTHER -> "PERIOD"]

DayOf == [t \in AllTasks |-> 3]

PeriodOf == [t \in AllTasks |-> IF t = "alternate" THEN 2 ELSE 1]

StartOf == [t \in AllTasks |->
              CASE t = "alternate" -> 4 [] t = "once" -> 2 [] OTHER -> 1]

EndOf == [t \in AllTasks |-> IF t = "alternate" THEN 11 ELSE 7]

WithViewpoints == AllTasks \ {"empty"}

ListsOfServer == {<<"everyday", "once", "alternate">>, <<"empty", "now", "everyday">>}

=============================================================================
