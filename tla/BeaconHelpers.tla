---------------------------- MODULE BeaconHelpers ----------------------------
(***************************************************************************)
(* The pure helpers of the beacon package: the epoch arithmetic of         *)
(* src/internal/beacon/duties.go 43-62 (SlotToEpoch, EpochStartSlot,       *)
(* EpochEndSlot, IsEpochBoundary) in uint64 arithmetic with the width 64   *)
(* replaced by Width.                                                      *)
(*                                                                         *)
(* They sit on the decoded wire types of module WireDecode: a response's   *)
(* Slot is a Uint64Str field.  The helpers are checked against a reference *)
(* definition on the value the field decoded to, so every value of the     *)
(* type is reached.                                                        *)
(***************************************************************************)
EXTENDS WireDecode

CONSTANT SlotsPerEpoch  \* the literal 32 of the helpers

ASSUME SlotsPerEpoch \in Nat \ {0}

(* uint64 arithmetic wraps modulo 2^64.                                    *)
U(x) == x % 2^Width

-----------------------------------------------------------------------------
(* Epoch arithmetic (duties.go 43-62).                                     *)

(* return slot / 32                                                        *)
SlotToEpoch(slot) == slot \div SlotsPerEpoch

(* return epoch * 32                                                       *)
EpochStartSlot(epoch) == U(epoch * SlotsPerEpoch)

(* Seeded fault for EpochHelpersConsistent: the "- 1" is dropped, so the   *)
(* end is the next epoch's first slot.                                     *)
EpochEndSlotPastEnd(epoch) == U((epoch + 1) * SlotsPerEpoch)

(* return (epoch+1)*32 - 1: for the last epoch (epoch+1)*32 wraps to 0,    *)
(* and 0 - 1 wraps back to the largest slot.                               *)
EpochEndSlot(epoch) == U(U((epoch + 1) * SlotsPerEpoch) - 1)

(* return slot%32 == 0                                                     *)
IsEpochBoundary(slot) == slot % SlotsPerEpoch = 0

-----------------------------------------------------------------------------
(* Properties: the helpers against their reference definition.               *)

(* The epoch helpers agree with "epoch e is the slots 32e .. 32e+31": for  *)
(* every slot a Uint64Str field decodes to, its epoch's first and last    *)
(* slots enclose it, the last slot belongs to the same epoch (so no slot   *)
(* is skipped or counted twice at an epoch's end), and a slot is a         *)
(* boundary exactly when it is its epoch's first -- including the last    *)
(* epoch, where EpochEndSlot's (epoch+1)*32 overflows uint64 and relies on *)
(* the wrap of "- 1".                                                      *)
EpochHelpersConsistent ==
    (decoded /\ ~decodeErr /\ kind = "Uint64Str") =>
        LET s == field
            e == SlotToEpoch(s)
        IN  /\ SlotsPerEpoch * e <= s /\ s < SlotsPerEpoch * (e + 1)
            /\ EpochStartSlot(e) <= s /\ s <= EpochEndSlot(e)
            /\ SlotToEpoch(EpochEndSlot(e)) = e
            /\ IsEpochBoundary(s) <=> s = EpochStartSlot(e)

=============================================================================
