--------------------------- MODULE MCBlockTraversal ---------------------------
(* One worker and a chain of up to three blocks a shard, every kind of fault.*)
EXTENDS BlockTraversal

MCAllFaults == FaultKinds
=============================================================================
