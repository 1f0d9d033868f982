--------------------------- MODULE MCEscrowFunding ---------------------------
(* Funding of one deal with the kinds of faults a configuration allows.      *)
EXTENDS EscrowFunding, TLC

MCAllFaults == FaultKinds

MCSymmetry == Permutations(Workers)
=============================================================================
