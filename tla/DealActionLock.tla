--------------------------- MODULE DealActionLock ---------------------------
(***************************************************************************)
(* The rows of market.deal_action_lock for one deal and one action type,   *)
(* in the order of created_at.  A row is "locked" until it is released;    *)
(* live says that expire_at still lies in the future.  The statements of   *)
(* the repository are operators on the sequence of rows, for the modules   *)
(* of the workers that execute them.                                       *)
(***************************************************************************)
EXTENDS Naturals, Sequences

LockRow == [status : {"locked", "completed", "failed"}, live : BOOLEAN]

(* The test made of GetLastDealActionLock's row before an action is tried  *)
(* again: the last holder did not come back and its time is over.          *)
LastLockExpired(rows) ==
    /\ rows # << >>
    /\ rows[Len(rows)].status = "locked"
    /\ ~rows[Len(rows)].live

(* TakeDealActionLock, a READ COMMITTED transaction without a constraint   *)
(* on the table, is a SELECT ...                                           *)
HasActiveLock(rows) ==
    \E i \in 1..Len(rows) : rows[i].status = "locked" /\ rows[i].live

(* ... followed by an INSERT.                                              *)
InsertLock(rows) == Append(rows, [status |-> "locked", live |-> TRUE])

(* ReleaseDealActionLock, by id and whatever the row's status.             *)
ReleaseDealActionLock(rows, i, status) ==
    IF i \in 1..Len(rows) THEN [rows EXCEPT ![i].status = status] ELSE rows

(* dealActionLockTTL has passed.                                           *)
ExpireLock(rows, i) == [rows EXCEPT ![i].live = FALSE]
=============================================================================
