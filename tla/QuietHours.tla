----------------------------- MODULE QuietHours -----------------------------
(***************************************************************************)
(* approval/quiet_hours.py: does the operator's local time fall into the   *)
(* quiet window?  A window has a start and an end on a clock of Hours; an  *)
(* end that is not set makes no window.  No state.                         *)
(***************************************************************************)
EXTENDS Integers

CONSTANT Hours      \* divisions of the clock's day

ASSUME QuietHoursAssumption == Hours \in Nat \ {0}

Clock == 0 .. Hours - 1
Unset == -1
Times == Clock \cup {Unset}
Windows == [start : Times, end : Times]

NoWindow == [start |-> Unset, end |-> Unset]

IsSet(w) == w.start # Unset /\ w.end # Unset

\* A strategy that sets both ends goes before the user.
Operative(user, strategy) == IF IsSet(strategy) THEN strategy ELSE user

InWindowPlain(w, t) ==       \* faulty variant: no window spans midnight
    IsSet(w) /\ w.start <= t /\ t < w.end

InWindow(w, t) ==
    /\ IsSet(w)
    /\ IF w.start > w.end
       THEN t >= w.start \/ t < w.end
       ELSE w.start <= t /\ t < w.end

Quiet(user, strategy, t) == InWindow(Operative(user, strategy), t)

\* Reference: how far round the clock t is from the start s, and whether that
\* is short of the end.
Since(s, t) == IF t < s THEN t - s + Hours ELSE t - s

OnArc(w, t) == IsSet(w) /\ Since(w.start, t) < Since(w.start, w.end)
=============================================================================
