---------------------------- MODULE MCStoreAccess ----------------------------
(***************************************************************************)
(* The status jobs of validator 1 at slots 33 and 34, as two ticks in a   *)
(* row hand them to the pool, and the rewards job of finalized epoch 0.   *)
(* Validator 1 gets two snapshot rows, so a range read can return several  *)
(* rows and GetLatestSnapshot has a choice.  The duties job of             *)
(* MCJobProcessing writes a table no read touches and is left out.  The   *)
(* reader asks about either validator, for every slot and epoch or for     *)
(* slot 34 onwards.                                                        *)
(***************************************************************************)
EXTENDS StoreAccess

MCValidators == << 1, 2 >>

MCJobs ==
    { [type |-> "Status",  slot |-> 33, epoch |-> 1, validator |-> 1],
      [type |-> "Status",  slot |-> 34, epoch |-> 1, validator |-> 1],
      [type |-> "Rewards", slot |-> 33, epoch |-> 0, validator |-> 0] }

(* totals 3, 0 and -1: a reward, the zero boundary and a penalty.          *)
MCRewardTriples == { << 1, 1, 1 >>, << 0, 0, 0 >>, << -2, 1, 0 >> }

MCRanges == { << 0, 40 >>, << 34, 40 >> }

=============================================================================
