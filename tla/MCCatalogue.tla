---------------------------- MODULE MCCatalogue ----------------------------
(* Two users, two requests of each kind, a cooldown of two ticks and a       *)
(* commission of 5%.  19 and 20 half nanotons are both 10 nanoton; a         *)
(* negative price is asked for, too.                                         *)
EXTENDS Catalogue

(* The activities that write the same rows, together.                        *)
MCScenes == {{"time", "refresh", "grow"}, {"refresh", "update"}, {"listing", "update"},
             {"listing", "deal"}}
MCAllFaults == FaultKinds
MCPrices == {-19, 19, 20, 29}
=============================================================================
