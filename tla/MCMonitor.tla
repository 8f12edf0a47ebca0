------------------------------ MODULE MCMonitor ------------------------------
(* Model-checking instance of Monitor: two validators and one worker, so   *)
(* the job channel holds 2 jobs and a single tick (two Status jobs plus a  *)
(* Duties or Rewards job) can fill it and block runLoop in Submit.  The    *)
(* process starts at slot 6 of 2-slot epochs, where the chain may already  *)
(* have finalized epoch 0..1, and runs until slot 8, so the ticks cross    *)
(* two epoch boundaries and finality can advance to epoch 2.               *)
EXTENDS Monitor

CONSTANTS w1

MCSlotsPerEpoch == 2
MCMaxSlot == 8
MCInitSlots == {6}
MCWorkers == {w1}
MCValidators == <<1, 2>>
=============================================================================
