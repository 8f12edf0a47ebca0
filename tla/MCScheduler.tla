----------------------------- MODULE MCScheduler -----------------------------
(* Model-checking instance of Scheduler: an epoch of 2 slots (the code's   *)
(* 32 only scales the mod/div arithmetic), 11 slots of wall clock, so      *)
(* that up to three epoch boundaries and three finalized epochs occur.     *)
EXTENDS Scheduler

MCSlotsPerEpoch == 2
MCMaxSlot == 10
MCInitSlots == {1, 4, 5}
=============================================================================
