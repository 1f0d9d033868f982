----------------------------- MODULE MCDealChat -----------------------------
(* Requests of either side and of a stranger, with every kind of fault.      *)
EXTENDS DealChat

MCAllFaults == FaultKinds
=============================================================================
