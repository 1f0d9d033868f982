------------------------- MODULE MCEscrowSettlement -------------------------
(* Settlement of one deal with the kinds of faults a configuration allows.   *)
EXTENDS EscrowSettlement, TLC

(* Faults the recovery is meant to survive.                                  *)
MCBenignFaults == {"crash", "prepare", "transfer", "unlock", "topic"}

MCAllFaults == FaultKinds

MCSymmetry == Permutations(Workers)
=============================================================================
