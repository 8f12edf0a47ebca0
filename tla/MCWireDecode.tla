---------------------------- MODULE MCWireDecode ----------------------------
(***************************************************************************)
(* Integer decoding at width 4: uint values 0..15 and int values -8..7.    *)
(* The digits reach every boundary: 15/16, 7/8 and -8/-9, and three-digit  *)
(* literals far past the range.                                            *)
(*                                                                         *)
(* The beacon helpers take the decoded uint as a slot with the epoch        *)
(* length 32 scaled to 4: slots 0..15 are epochs 0..3, and the last        *)
(* epoch's end overflows.                                                   *)
(***************************************************************************)
EXTENDS BeaconHelpers

MCDigits == {"0", "1", "5", "6", "7", "8", "9"}

=============================================================================
