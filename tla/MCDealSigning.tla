---------------------------- MODULE MCDealSigning ----------------------------
(* A listing with the price options of 1 hour for 12 and of 11 hours for 2:  *)
(* written one after the other, the two durations and prices are the same    *)
(* digits, so only the type tells the two options apart.                     *)
EXTENDS DealSigning, TLC

MCOptions == {[type |-> "1hr",  duration |-> 1,  price |-> 12],
              [type |-> "11hr", duration |-> 11, price |-> 2]}

MCDecimal == (1 :> <<1>>) @@ (2 :> <<2>>) @@ (11 :> <<1, 1>>) @@ (12 :> <<1, 2>>)

MCUserId == (Lessor :> <<1>>) @@ (Lessee :> <<2>>)
                @@ [u \in Users \ {Lessor, Lessee} |-> <<3>>]

(* Two addresses that are written the same in either order.                  *)
MCAddresses == {<<10>>, <<10, 10>>}

MCSymmetry == Permutations(Requests)
=============================================================================
