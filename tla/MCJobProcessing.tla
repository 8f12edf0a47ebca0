--------------------------- MODULE MCJobProcessing ---------------------------
(***************************************************************************)
(* Job processing for two validators and one job of each type, as one      *)
(* tick at slot 33 hands them to the pool: the status of validator 1, the  *)
(* duties of epoch 2 and the rewards of finalized epoch 0.  The node may   *)
(* report rewards whose total is positive, zero or negative, and with      *)
(* DBFaults a write may fail on its own.                                   *)
(***************************************************************************)
EXTENDS JobProcessing

MCValidators == << 1, 2 >>

MCJobs ==
    { [type |-> "Status",  slot |-> 33, epoch |-> 1, validator |-> 1],
      [type |-> "Duties",  slot |-> 33, epoch |-> 2, validator |-> 0],
      [type |-> "Rewards", slot |-> 33, epoch |-> 0, validator |-> 0] }

(* totals 3, 0 and -1: a reward, the zero boundary and a penalty.          *)
MCRewardTriples == { << 1, 1, 1 >>, << 0, 0, 0 >>, << -2, 1, 0 >> }

=============================================================================
