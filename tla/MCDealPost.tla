----------------------------- MODULE MCDealPost -----------------------------
(* The post of one deal with the kinds of faults a configuration allows.     *)
EXTENDS DealPost, TLC

(* Faults that sender and checker are meant to survive.                      *)
MCBenignFaults == FaultKinds \ (Misleading \cup Repeating)

MCAllFaults == FaultKinds

MCSymmetry == Permutations(Workers)
=============================================================================
