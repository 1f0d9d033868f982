---------------------------- MODULE MCEventStream ----------------------------
(* Any of the three streams, with every kind of fault.                       *)
EXTENDS EventStream

MCAllFaults == FaultKinds
=============================================================================
