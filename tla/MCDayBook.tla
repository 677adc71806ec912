------------------------------ MODULE MCDayBook ------------------------------
(* The day's book on a small instance. *)
EXTENDS DayBook, TLC

CONSTANTS b1, s1

Falling == <<2, 1>>
TwoAndOne == (b1 :> 2) @@ (s1 :> 1)
Two == [o \in Orders |-> 2]

Steady == <<1>>
=============================================================================
