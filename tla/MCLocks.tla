------------------------------- MODULE MCLocks -------------------------------
(* The two components whose threads let go of a lock in the middle of a job:    *)
(* the outbox, whose drain sends outside the budget lock, and the endstop, whose *)
(* OFF is stored after the session lock.  They share no state, so each behaviour *)
(* of the run is one of either part; the other stands still.                    *)
EXTENDS Outbox, Endstop

VARIABLE which

LocksVars == <<which, vars, endstopVars>>

LocksInit == which \in {"outbox", "endstop"} /\ Init /\ EndstopInit

LocksNext ==
  /\ UNCHANGED which
  /\ \/ which = "outbox" /\ Next /\ UNCHANGED endstopVars
     \/ which = "endstop" /\ EndstopNext /\ UNCHANGED vars

LocksSpec == LocksInit /\ [][LocksNext]_LocksVars
==============================================================================
