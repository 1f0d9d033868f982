---------------------------- MODULE DealLifecycle ----------------------------
(***************************************************************************)
(* What the marketplace promises of a deal, without any of the machinery:  *)
(* the order in which a deal goes through its statuses, and that the       *)
(* escrow is paid out once, to the lessor when the deal was honoured and   *)
(* to the lessee when it was not.  The detailed modules implement the part *)
(* of this specification that begins in their initial status.              *)
(***************************************************************************)
EXTENDS Naturals

CONSTANT InitialStatus

VARIABLES
    status, \* market.deal.status
    due,    \* to whom the escrow is owed, once that is decided
    paid    \* payouts received by each side

vars == <<status, due, paid>>

Parties == {"lessor", "lessee"}

Successors ==
    [draft                    |-> {"approved", "rejected"},
     approved                 |-> {"waiting_escrow_deposit"},
     waiting_escrow_deposit   |-> {"escrow_deposit_confirmed", "expired"},
     escrow_deposit_confirmed |-> {"in_progress"},
     in_progress              |-> {"waiting_escrow_release", "waiting_escrow_refund"},
     waiting_escrow_release   |-> {"escrow_release_confirmed"},
     waiting_escrow_refund    |-> {"escrow_refund_confirmed"},
     escrow_release_confirmed |-> {"completed"},
     escrow_refund_confirmed  |-> {"completed"},
     completed                |-> {},
     expired                  |-> {},
     rejected                 |-> {}]

Statuses == DOMAIN Successors

Owed(s) ==
    CASE s = "waiting_escrow_release" -> "lessor"
      [] s = "waiting_escrow_refund"  -> "lessee"
      [] OTHER                        -> due

Init ==
    /\ status = InitialStatus
    /\ due = "nobody"
    /\ paid = [p \in Parties |-> 0]

Advance ==
    /\ \E s \in Successors[status] : status' = s /\ due' = Owed(s)
    /\ UNCHANGED paid

PayOut ==
    /\ due \in Parties
    /\ \A p \in Parties : paid[p] = 0
    /\ paid' = [paid EXCEPT ![due] = 1]
    /\ UNCHANGED <<status, due>>

Next == Advance \/ PayOut

Spec == Init /\ [][Next]_vars
=============================================================================
