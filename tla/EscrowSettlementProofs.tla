----------------------- MODULE EscrowSettlementProofs -----------------------
(***************************************************************************)
(* Proofs about EscrowSettlement, for any number of faults and any balance *)
(* of the escrow wallet.                                                   *)
(***************************************************************************)
EXTENDS EscrowSettlement, SequenceTheorems, TLAPS

-----------------------------------------------------------------------------
(* What the statements on market.deal_action_lock keep of the rows.         *)

(* A new lock row is appended, locked and live.                            *)
LEMMA InsertLockRow ==
    ASSUME NEW rows \in Seq(LockRow)
    PROVE  /\ InsertLock(rows) \in Seq(LockRow)
           /\ Len(InsertLock(rows)) = Len(rows) + 1
           /\ InsertLock(rows)[Len(rows) + 1].status = "locked"
           /\ InsertLock(rows)[Len(rows) + 1].live
  BY DEF InsertLock, LockRow

(* Writing one row keeps the others and the length.                        *)
LEMMA WriteLockRow ==
    ASSUME NEW rows \in Seq(LockRow), NEW i \in 1..Len(rows), NEW row \in LockRow
    PROVE  /\ [rows EXCEPT ![i] = row] \in Seq(LockRow)
           /\ Len([rows EXCEPT ![i] = row]) = Len(rows)
           /\ \A j \in 1..Len(rows) :
                [rows EXCEPT ![i] = row][j] = IF j = i THEN row ELSE rows[j]
  BY ExceptSeq, ElementOfSeq, LenProperties

(* Releasing a row of the table keeps its expiry and the other rows' too.   *)
LEMMA ReleaseLockRow ==
    ASSUME NEW rows \in Seq(LockRow), NEW i \in Nat,
           NEW s \in {"completed", "failed"}
    PROVE  /\ ReleaseDealActionLock(rows, i, s) \in Seq(LockRow)
           /\ Len(ReleaseDealActionLock(rows, i, s)) = Len(rows)
           /\ \A j \in 1..Len(rows) :
                ReleaseDealActionLock(rows, i, s)[j].live = rows[j].live
<1>1. CASE i \notin 1..Len(rows)
  BY <1>1 DEF ReleaseDealActionLock
<1>2. CASE i \in 1..Len(rows)
  <2>1. rows[i] \in LockRow
    BY <1>2, ElementOfSeq
  <2>2. [rows[i] EXCEPT !.status = s] \in LockRow
    BY <2>1 DEF LockRow
  <2>3. ReleaseDealActionLock(rows, i, s)
          = [rows EXCEPT ![i] = [rows[i] EXCEPT !.status = s]]
    BY <1>2 DEF ReleaseDealActionLock
  <2>4. [rows[i] EXCEPT !.status = s].live = rows[i].live
    BY <2>1 DEF LockRow
  <2>5. QED BY <1>2, <2>2, <2>3, <2>4, WriteLockRow
<1>3. QED BY <1>1, <1>2

(* Expiring a row of the table keeps its status and the other rows.        *)
LEMMA ExpireLockRow ==
    ASSUME NEW rows \in Seq(LockRow), NEW i \in 1..Len(rows)
    PROVE  /\ ExpireLock(rows, i) \in Seq(LockRow)
           /\ Len(ExpireLock(rows, i)) = Len(rows)
           /\ \A j \in 1..Len(rows) : ExpireLock(rows, i)[j].status = rows[j].status
           /\ \A j \in 1..Len(rows) : j # i => ExpireLock(rows, i)[j] = rows[j]
<1>1. rows[i] \in LockRow
  BY ElementOfSeq
<1>2. [rows[i] EXCEPT !.live = FALSE] \in LockRow
  BY <1>1 DEF LockRow
<1>3. [rows[i] EXCEPT !.live = FALSE].status = rows[i].status
  BY <1>1 DEF LockRow
<1>4. ExpireLock(rows, i) = [rows EXCEPT ![i] = [rows[i] EXCEPT !.live = FALSE]]
  BY DEF ExpireLock
<1>5. QED BY <1>2, <1>3, <1>4, WriteLockRow

-----------------------------------------------------------------------------
(* What a step of payout worker w may write to its locals.                 *)
JobWritten(w) ==
    \/ \E p \in Steps : job' = [job EXCEPT ![w].pc = p]
    \/ \E p \in Steps, a \in Actions : job' = [job EXCEPT ![w].pc = p, ![w].act = a]
    \/ \E p \in Steps, l \in Nat : job' = [job EXCEPT ![w].pc = p, ![w].lock = l]
    \/ \E p \in Steps :
        job' = [job EXCEPT ![w].pc = p, ![w].outcome = "completed"]
    \/ job' = [job EXCEPT ![w] = IdleJob]

(* What a value of the payout worker's locals consists of.                 *)
LEMMA JobType ==
    ASSUME job \in [Workers -> JobState], NEW w \in Workers
    PROVE  /\ job[w] \in JobState
           /\ job[w].act \in Actions /\ job[w].lock \in Nat
           /\ job[w].outcome \in {"completed", "failed"}
  BY DEF JobState

(* Each way of writing a job of a payout worker keeps its type.            *)
LEMMA JobWrite ==
    ASSUME job \in [Workers -> JobState], NEW w \in Workers, JobWritten(w)
    PROVE  job' \in [Workers -> JobState]
<1>0. job[w] \in JobState
  OBVIOUS
<1>1. ASSUME NEW p \in Steps, job' = [job EXCEPT ![w].pc = p]
      PROVE  job' \in [Workers -> JobState]
  BY <1>0, <1>1 DEF JobState
<1>2. ASSUME NEW p \in Steps, NEW a \in Actions,
             job' = [job EXCEPT ![w].pc = p, ![w].act = a]
      PROVE  job' \in [Workers -> JobState]
  BY <1>0, <1>2 DEF JobState
<1>3. ASSUME NEW p \in Steps, NEW l \in Nat,
             job' = [job EXCEPT ![w].pc = p, ![w].lock = l]
      PROVE  job' \in [Workers -> JobState]
  BY <1>0, <1>3 DEF JobState
<1>4. ASSUME NEW p \in Steps,
             job' = [job EXCEPT ![w].pc = p, ![w].outcome = "completed"]
      PROVE  job' \in [Workers -> JobState]
  BY <1>0, <1>4 DEF JobState
<1>5. CASE job' = [job EXCEPT ![w] = IdleJob]
  <2>1. IdleJob \in JobState
    BY DEF JobState, IdleJob, Steps, Actions
  <2>2. QED BY <1>5, <2>1
<1>6. QED BY <1>1, <1>2, <1>3, <1>4, <1>5 DEF JobWritten

(* The waiting and confirmed statuses are statuses of a deal.              *)
LEMMA StatusType ==
    ASSUME NEW a \in Actions
    PROVE  Waiting(a) \in DealStatuses /\ Confirmed(a) \in DealStatuses
  BY DEF DealStatuses

(* The judged deal the module starts with is well typed.                   *)
LEMMA TypeInit == Init => TypeOK
<1> SUFFICES ASSUME Init PROVE TypeOK
  OBVIOUS
<1>1. locks \in [Actions -> Seq(LockRow)]
  BY DEF Init
<1>2. job \in [Workers -> JobState]
  BY DEF Init, IdleJob, JobState, Steps, Actions
<1>3. PICK f \in 1..MaxFunds :
        chain = [seqno |-> 0, funds |-> f, paid |-> [a \in Actions |-> 0],
                 inflight |-> {}]
  BY DEF Init
<1>4. chain \in WalletState
  BY <1>3, FundsAssumption DEF WalletState
<1>5. QED BY <1>1, <1>2, <1>4 DEF Init, TypeOK, DealStatuses

(* Every step preserves the types.                                         *)
LEMMA TypeNext == TypeOK /\ [Next]_vars => TypeOK'
<1>a. SUFFICES ASSUME TypeOK, [Next]_vars PROVE TypeOK'
  OBVIOUS
<1>0. /\ job \in [Workers -> JobState]
      /\ locks \in [Actions -> Seq(LockRow)]
      /\ chain \in WalletState
      /\ status \in DealStatuses
      /\ faults \in Nat
      /\ \A a \in Actions : Len(locks[a]) \in Nat
  BY <1>a, LenProperties DEF TypeOK
<1>1. ASSUME NEW w \in Workers, ListDealPostMessageByStatus(w) PROVE TypeOK'
  BY <1>a, <1>1 DEF ListDealPostMessageByStatus, TypeOK
<1>2. ASSUME NEW w \in Workers, CompleteDealPostMessages(w) \/ FailDealPostMessages(w)
      PROVE  TypeOK'
  <2>1. status' \in DealStatuses /\ faults' \in Nat
    BY <1>0, <1>2, StatusType DEF CompleteDealPostMessages, FailDealPostMessages, Settle,
                                  Fault, Actions
  <2>2. QED
    BY <1>a, <1>2, <2>1 DEF CompleteDealPostMessages, FailDealPostMessages, Settle, TypeOK
<1>3. ASSUME NEW w \in Workers, NEW a \in Actions, PrepareAction(w, a) PROVE TypeOK'
  <2>1. JobWritten(w) \/ UNCHANGED job
    BY <1>0, <1>3, JobType DEF PrepareAction, Steps, Goto, Finish, JobWritten
  <2>2. job' \in [Workers -> JobState]
    BY <1>0, <2>1, JobWrite
  <2>3. faults' \in Nat
    BY <1>0, <1>3 DEF PrepareAction, Fault
  <2>4. QED BY <1>a, <1>3, <2>2, <2>3 DEF PrepareAction, TypeOK
<1>4. ASSUME NEW w \in Workers, GetLastDealActionLock(w) PROVE TypeOK'
  <2>1. JobWritten(w)
    BY <1>0, <1>4, JobType DEF GetLastDealActionLock, Steps, Goto, Finish, JobWritten
  <2>2. job' \in [Workers -> JobState]
    BY <1>0, <2>1, JobWrite
  <2>3. faults' \in Nat
    BY <1>0, <1>4 DEF GetLastDealActionLock, Fault
  <2>4. QED BY <1>a, <1>4, <2>2, <2>3 DEF GetLastDealActionLock, TypeOK
<1>5. ASSUME NEW w \in Workers, HasOutgoingTxTo(w) PROVE TypeOK'
  <2>1. JobWritten(w)
    BY <1>0, <1>5, JobType DEF HasOutgoingTxTo, Steps, Goto, Finish, JobWritten
  <2>2. job' \in [Workers -> JobState]
    BY <1>0, <2>1, JobWrite
  <2>3. faults' \in Nat
    BY <1>0, <1>5 DEF HasOutgoingTxTo, Fault
  <2>4. QED BY <1>a, <1>5, <2>2, <2>3 DEF HasOutgoingTxTo, TypeOK
<1>6. ASSUME NEW w \in Workers, RecoverConfirmed(w) PROVE TypeOK'
  <2>1. JobWritten(w)
    BY <1>0, <1>6, JobType DEF RecoverConfirmed, Steps, Goto, Finish, JobWritten
  <2>2. job' \in [Workers -> JobState]
    BY <1>0, <2>1, JobWrite
  <2>3. faults' \in Nat
    BY <1>0, <1>6 DEF RecoverConfirmed, Fault
  <2>4. status' \in DealStatuses
    BY <1>0, <1>6, JobType, StatusType DEF RecoverConfirmed, SetConfirmed
  <2>5. QED BY <1>a, <1>6, <2>2, <2>3, <2>4 DEF RecoverConfirmed, TypeOK
<1>7. ASSUME NEW w \in Workers, GiveUpExpiredLock(w) PROVE TypeOK'
  <2>1. JobWritten(w)
    BY <1>0, <1>7, JobType DEF GiveUpExpiredLock, Steps, Goto, Finish, JobWritten
  <2>2. job' \in [Workers -> JobState]
    BY <1>0, <2>1, JobWrite
  <2>3. faults' \in Nat
    BY <1>0, <1>7 DEF GiveUpExpiredLock, Fault
  <2>4. ReleaseDealActionLock(locks[job[w].act], job[w].lock, "failed")
          \in Seq(LockRow)
    BY <1>0, JobType, ReleaseLockRow
  <2>5. locks' \in [Actions -> Seq(LockRow)]
    BY <1>0, <1>7, <2>4 DEF GiveUpExpiredLock
  <2>6. QED BY <1>a, <1>7, <2>2, <2>3, <2>5 DEF GiveUpExpiredLock, TypeOK
<1>8. ASSUME NEW w \in Workers, TakeLockSelect(w) PROVE TypeOK'
  <2>1. JobWritten(w)
    BY <1>0, <1>8, JobType DEF TakeLockSelect, Steps, Goto, Finish, JobWritten
  <2>2. job' \in [Workers -> JobState]
    BY <1>0, <2>1, JobWrite
  <2>3. faults' \in Nat
    BY <1>0, <1>8 DEF TakeLockSelect, Fault
  <2>4. QED BY <1>a, <1>8, <2>2, <2>3 DEF TakeLockSelect, TypeOK
<1>9. ASSUME NEW w \in Workers, TakeLockInsert(w) PROVE TypeOK'
  <2>1. JobWritten(w)
    BY <1>0, <1>9, JobType DEF TakeLockInsert, Steps, Goto, Finish, JobWritten
  <2>2. job' \in [Workers -> JobState]
    BY <1>0, <2>1, JobWrite
  <2>3. faults' \in Nat
    BY <1>0, <1>9 DEF TakeLockInsert, Fault
  <2>4. InsertLock(locks[job[w].act])
          \in Seq(LockRow)
    BY <1>0, JobType, InsertLockRow
  <2>5. locks' \in [Actions -> Seq(LockRow)]
    BY <1>0, <1>9, <2>4 DEF TakeLockInsert
  <2>6. QED BY <1>a, <1>9, <2>2, <2>3, <2>5 DEF TakeLockInsert, TypeOK
<1>10. ASSUME NEW w \in Workers, Transfer(w) PROVE TypeOK'
  <2>1. JobWritten(w)
    BY <1>0, <1>10, JobType DEF Transfer, Steps, Goto, Finish, JobWritten
  <2>2. job' \in [Workers -> JobState]
    BY <1>0, <2>1, JobWrite
  <2>3. faults' \in Nat
    BY <1>0, <1>10 DEF Transfer, Fault
  <2>4. [act |-> job[w].act, seqno |-> chain.seqno, lock |-> job[w].lock] \in Messages
    BY <1>0, JobType DEF Messages, WalletState
  <2>5. Send(w) => chain' \in WalletState
    BY <1>0, <2>4 DEF Send, WalletState
  <2>6. QED BY <1>a, <1>10, <2>2, <2>3, <2>5 DEF Transfer, TypeOK
<1>11. ASSUME NEW w \in Workers, SetDealStatusConfirmed(w) PROVE TypeOK'
  <2>1. JobWritten(w)
    BY <1>0, <1>11, JobType DEF SetDealStatusConfirmed, Steps, Goto, Finish, JobWritten
  <2>2. job' \in [Workers -> JobState]
    BY <1>0, <2>1, JobWrite
  <2>3. faults' \in Nat
    BY <1>0, <1>11 DEF SetDealStatusConfirmed, Fault
  <2>4. status' \in DealStatuses
    BY <1>0, <1>11, JobType, StatusType DEF SetDealStatusConfirmed, SetConfirmed
  <2>5. QED BY <1>a, <1>11, <2>2, <2>3, <2>4 DEF SetDealStatusConfirmed, TypeOK
<1>12. ASSUME NEW w \in Workers, DeleteDealForumTopic(w) PROVE TypeOK'
  <2>1. JobWritten(w)
    BY <1>0, <1>12, JobType DEF DeleteDealForumTopic, Steps, Goto, Finish, JobWritten
  <2>2. job' \in [Workers -> JobState]
    BY <1>0, <2>1, JobWrite
  <2>3. faults' \in Nat
    BY <1>0, <1>12 DEF DeleteDealForumTopic, Fault
  <2>4. QED BY <1>a, <1>12, <2>2, <2>3 DEF DeleteDealForumTopic, TypeOK
<1>13. ASSUME NEW w \in Workers, ReleaseLock(w) PROVE TypeOK'
  <2>1. JobWritten(w)
    BY <1>0, <1>13, JobType DEF ReleaseLock, Steps, Goto, Finish, JobWritten
  <2>2. job' \in [Workers -> JobState]
    BY <1>0, <2>1, JobWrite
  <2>3. faults' \in Nat
    BY <1>0, <1>13 DEF ReleaseLock, Fault
  <2>4. ReleaseDealActionLock(locks[job[w].act], job[w].lock, job[w].outcome)
          \in Seq(LockRow)
    BY <1>0, JobType, ReleaseLockRow
  <2>5. locks' \in [Actions -> Seq(LockRow)]
    BY <1>0, <1>13, <2>4 DEF ReleaseLock
  <2>6. QED BY <1>a, <1>13, <2>2, <2>3, <2>5 DEF ReleaseLock, TypeOK
<1>14. ASSUME NEW w \in Workers, Crash(w) PROVE TypeOK'
  <2>1. JobWritten(w)
    BY <1>0, <1>14, JobType DEF Crash, Steps, Goto, Finish, JobWritten
  <2>2. job' \in [Workers -> JobState]
    BY <1>0, <2>1, JobWrite
  <2>3. faults' \in Nat
    BY <1>0, <1>14 DEF Crash, Fault
  <2>4. QED BY <1>a, <1>14, <2>2, <2>3 DEF Crash, TypeOK
<1>15. CASE SetDealStatusCompleted
  BY <1>a, <1>15 DEF SetDealStatusCompleted, DealStatuses, TypeOK
<1>16. ASSUME NEW m \in chain.inflight, ApplyTransfer(m) PROVE TypeOK'
  <2>1. chain.seqno \in Nat /\ chain.funds \in Nat /\ chain.paid \in [Actions -> Nat]
        /\ m.act \in Actions /\ chain.inflight \in SUBSET Messages
    BY <1>0 DEF WalletState, Messages
  <2>2. chain' \in WalletState
    BY <1>16, <2>1 DEF ApplyTransfer, WalletState
  <2>3. QED BY <1>a, <1>16, <2>2 DEF ApplyTransfer, TypeOK
<1>17. ASSUME NEW m \in chain.inflight, DropTransfer(m) PROVE TypeOK'
  <2>1. chain' \in WalletState
    BY <1>0, <1>17 DEF DropTransfer, WalletState
  <2>2. faults' \in Nat
    BY <1>0, <1>17 DEF DropTransfer, Fault
  <2>3. QED BY <1>a, <1>17, <2>1, <2>2 DEF DropTransfer, TypeOK
<1>18. ASSUME NEW a \in Actions, NEW i \in 1..Len(locks[a]), LockExpires(a, i)
       PROVE  TypeOK'
  <2>1. locks' \in [Actions -> Seq(LockRow)]
    BY <1>0, <1>18, ExpireLockRow DEF LockExpires
  <2>2. faults' \in Nat
    BY <1>0, <1>18 DEF LockExpires, Fault
  <2>3. QED BY <1>a, <1>18, <2>1, <2>2 DEF LockExpires, TypeOK
<1>19. CASE UNCHANGED vars
  BY <1>a, <1>19 DEF vars, TypeOK
<1>20. QED
  BY <1>a, <1>1, <1>2, <1>3, <1>4, <1>5, <1>6, <1>7, <1>8, <1>9, <1>10, <1>11, <1>12,
     <1>13, <1>14, <1>15, <1>16, <1>17, <1>18, <1>19 DEF Next, PayoutStep

(* The rows, the goroutines' locals and the wallet keep their types: any   *)
(* number of market instances, any faults.                                 *)
THEOREM TypeCorrect == Spec => []TypeOK
  BY TypeInit, TypeNext, PTL DEF Spec

-----------------------------------------------------------------------------
(* The verdict decides where the money goes.                               *)

(* Nothing has been read, decided or paid at the start.                    *)
LEMMA VerdictInit == Init => VerdictInv
<1> SUFFICES ASSUME Init PROVE VerdictInv
  OBVIOUS
<1>1. chain.paid = [a \in Actions |-> 0] /\ chain.inflight = {}
  BY DEF Init
<1>2. MoneyAgrees
  BY <1>1 DEF MoneyAgrees, Sent
<1>3. ListedAgrees /\ JobsAgree /\ StatusAgrees
  BY DEF Init, ListedAgrees, JobsAgree, StatusAgrees, IdleJob, Waiting, Confirmed
<1>4. QED BY <1>2, <1>3, TypeInit DEF VerdictInv

(* A step that leaves the verdict, the status and the money alone and does *)
(* not give a worker an action of its own keeps the invariant.             *)
LEMMA VerdictKept ==
    ASSUME VerdictInv, TypeOK', UNCHANGED <<postStatus, status, chain>>,
           \A v \in Workers : listed'[v] \in {listed[v], "none"},
           \A v \in Workers : job'[v].pc # "idle" =>
               job[v].pc # "idle" /\ job'[v].act = job[v].act
    PROVE  VerdictInv'
<1>1. ListedAgrees'
  BY DEF VerdictInv, ListedAgrees
<1>2. JobsAgree'
  BY DEF VerdictInv, JobsAgree
<1>3. StatusAgrees' /\ MoneyAgrees'
  BY DEF VerdictInv, StatusAgrees, MoneyAgrees, Sent
<1>4. QED BY <1>1, <1>2, <1>3 DEF VerdictInv

(* Every step keeps the agreement with the verdict.                        *)
LEMMA VerdictNext == VerdictInv /\ [Next]_vars => VerdictInv'
<1>a. SUFFICES ASSUME VerdictInv, [Next]_vars PROVE VerdictInv'
  OBVIOUS
<1>b. TypeOK /\ TypeOK'
  BY <1>a, TypeNext DEF VerdictInv
<1>c. /\ job \in [Workers -> JobState] /\ listed \in [Workers -> {"none", "passed", "deleted"}]
      /\ \A v \in Workers : job[v] \in JobState
  BY <1>b DEF TypeOK
<1>1. ASSUME NEW w \in Workers, ListDealPostMessageByStatus(w) PROVE VerdictInv'
  <2>1. ListedAgrees'
    BY <1>a, <1>c, <1>1 DEF ListDealPostMessageByStatus, VerdictInv, ListedAgrees
  <2>2. JobsAgree' /\ StatusAgrees' /\ MoneyAgrees'
    BY <1>a, <1>1 DEF ListDealPostMessageByStatus, VerdictInv, JobsAgree, StatusAgrees,
                      MoneyAgrees, Sent
  <2>3. QED BY <1>b, <2>1, <2>2 DEF VerdictInv
<1>2. ASSUME NEW w \in Workers, NEW verdict \in {"passed", "deleted"},
             NEW a \in Actions, Settle(w, verdict, Outcome(a), a),
             verdict = IF a = "escrow_release" THEN "passed" ELSE "deleted"
      PROVE  VerdictInv'
  <2>1. CASE UNCHANGED <<postStatus, status>>
    <3>1. UNCHANGED <<postStatus, status, chain, job>>
      BY <1>2, <2>1 DEF Settle
    <3>2. \A v \in Workers : listed'[v] \in {listed[v], "none"}
      BY <1>2, <1>c DEF Settle
    <3>3. QED BY <1>a, <1>b, <3>1, <3>2, VerdictKept
  <2>2. CASE postStatus' = Outcome(a) /\ status' = Waiting(a)
    <3>1. postStatus \in {verdict, Outcome(a)}
      BY <1>a, <1>2 DEF Settle, VerdictInv, ListedAgrees, Outcome, Actions
    <3>2. UNCHANGED <<job, chain>>
      BY <1>2 DEF Settle
    <3>3. \A b \in Actions : postStatus = Outcome(b) => Outcome(b) = Outcome(a)
      BY <3>1, <1>2 DEF Outcome, Actions
    <3>4. JobsAgree'
      BY <1>a, <1>c, <2>2, <3>2, <3>3 DEF VerdictInv, JobsAgree, JobState
    <3>5. MoneyAgrees'
      BY <1>a, <2>2, <3>2, <3>3 DEF VerdictInv, MoneyAgrees, Sent
    <3>6. StatusAgrees'
      BY <2>2 DEF StatusAgrees, Waiting, Confirmed, Outcome, Actions
    <3>7. \A v \in Workers : listed'[v] \in {listed[v], "none"}
      BY <1>2, <1>c DEF Settle
    <3>8. ListedAgrees'
      BY <1>a, <1>2, <2>2, <3>1, <3>7 DEF VerdictInv, ListedAgrees, Outcome, Actions
    <3>9. QED BY <1>b, <3>4, <3>5, <3>6, <3>8 DEF VerdictInv
  <2>3. QED BY <1>2, <2>1, <2>2 DEF Settle
<1>3. ASSUME NEW w \in Workers, NEW a \in Actions, PrepareAction(w, a) PROVE VerdictInv'
  <2>1. postStatus = Outcome(a)
    BY <1>a, <1>3 DEF PrepareAction, VerdictInv, StatusAgrees
  <2>2. job'[w].act = a \/ job'[w] = job[w]
    BY <1>c, <1>3 DEF PrepareAction, JobState
  <2>3. \A v \in Workers : v # w => job'[v] = job[v]
    BY <1>c, <1>3 DEF PrepareAction
  <2>4. JobsAgree'
    BY <1>a, <1>3, <2>1, <2>2, <2>3 DEF PrepareAction, VerdictInv, JobsAgree
  <2>5. ListedAgrees' /\ StatusAgrees' /\ MoneyAgrees'
    BY <1>a, <1>3 DEF PrepareAction, VerdictInv, ListedAgrees, StatusAgrees, MoneyAgrees,
                      Sent
  <2>6. QED BY <1>b, <2>4, <2>5 DEF VerdictInv
<1>4. ASSUME NEW w \in Workers, GetLastDealActionLock(w) PROVE VerdictInv'
  <2>1. \A v \in Workers : job'[v].pc # "idle" =>
            job[v].pc # "idle" /\ job'[v].act = job[v].act
    BY <1>c, <1>4 DEF GetLastDealActionLock, Goto, Finish, IdleJob, JobState
  <2>2. \A v \in Workers : listed'[v] \in {listed[v], "none"}
    BY <1>c, <1>4 DEF GetLastDealActionLock
  <2>3. QED BY <1>a, <1>b, <1>4, <2>1, <2>2, VerdictKept DEF GetLastDealActionLock
<1>5. ASSUME NEW w \in Workers, HasOutgoingTxTo(w) PROVE VerdictInv'
  <2>1. \A v \in Workers : job'[v].pc # "idle" =>
            job[v].pc # "idle" /\ job'[v].act = job[v].act
    BY <1>c, <1>5 DEF HasOutgoingTxTo, Goto, Finish, IdleJob, JobState
  <2>2. \A v \in Workers : listed'[v] \in {listed[v], "none"}
    BY <1>c, <1>5 DEF HasOutgoingTxTo
  <2>3. QED BY <1>a, <1>b, <1>5, <2>1, <2>2, VerdictKept DEF HasOutgoingTxTo
<1>6. ASSUME NEW w \in Workers, RecoverConfirmed(w) PROVE VerdictInv'
  <2>1. \A v \in Workers : job'[v].pc # "idle" =>
            job[v].pc # "idle" /\ job'[v].act = job[v].act
    BY <1>c, <1>6 DEF RecoverConfirmed, Goto, Finish, IdleJob, JobState
  <2>2. JobsAgree'
    BY <1>a, <1>6, <2>1 DEF RecoverConfirmed, VerdictInv, JobsAgree
  <2>3. postStatus = Outcome(job[w].act) /\ job[w].act \in Actions
    BY <1>a, <1>c, <1>6 DEF RecoverConfirmed, VerdictInv, JobsAgree, JobState
  <2>4. status' \in {status, Confirmed(job[w].act)}
    BY <1>6 DEF RecoverConfirmed, SetConfirmed
  <2>5. StatusAgrees'
    BY <1>a, <1>6, <2>3, <2>4 DEF RecoverConfirmed, VerdictInv, StatusAgrees, Waiting, Confirmed,
                                    Actions
  <2>6. ListedAgrees' /\ MoneyAgrees'
    BY <1>a, <1>6 DEF RecoverConfirmed, VerdictInv, ListedAgrees, MoneyAgrees, Sent
  <2>7. QED BY <1>b, <2>2, <2>5, <2>6 DEF VerdictInv
<1>7. ASSUME NEW w \in Workers, GiveUpExpiredLock(w) PROVE VerdictInv'
  <2>1. \A v \in Workers : job'[v].pc # "idle" =>
            job[v].pc # "idle" /\ job'[v].act = job[v].act
    BY <1>c, <1>7 DEF GiveUpExpiredLock, Goto, Finish, IdleJob, JobState
  <2>2. \A v \in Workers : listed'[v] \in {listed[v], "none"}
    BY <1>c, <1>7 DEF GiveUpExpiredLock
  <2>3. QED BY <1>a, <1>b, <1>7, <2>1, <2>2, VerdictKept DEF GiveUpExpiredLock
<1>8. ASSUME NEW w \in Workers, TakeLockSelect(w) PROVE VerdictInv'
  <2>1. \A v \in Workers : job'[v].pc # "idle" =>
            job[v].pc # "idle" /\ job'[v].act = job[v].act
    BY <1>c, <1>8 DEF TakeLockSelect, Goto, Finish, IdleJob, JobState
  <2>2. \A v \in Workers : listed'[v] \in {listed[v], "none"}
    BY <1>c, <1>8 DEF TakeLockSelect
  <2>3. QED BY <1>a, <1>b, <1>8, <2>1, <2>2, VerdictKept DEF TakeLockSelect
<1>9. ASSUME NEW w \in Workers, TakeLockInsert(w) PROVE VerdictInv'
  <2>1. \A v \in Workers : job'[v].pc # "idle" =>
            job[v].pc # "idle" /\ job'[v].act = job[v].act
    BY <1>c, <1>9 DEF TakeLockInsert, Goto, Finish, IdleJob, JobState
  <2>2. \A v \in Workers : listed'[v] \in {listed[v], "none"}
    BY <1>c, <1>9 DEF TakeLockInsert
  <2>3. QED BY <1>a, <1>b, <1>9, <2>1, <2>2, VerdictKept DEF TakeLockInsert
<1>10. ASSUME NEW w \in Workers, Transfer(w) PROVE VerdictInv'
  <2>1. \A v \in Workers : job'[v].pc # "idle" =>
            job[v].pc # "idle" /\ job'[v].act = job[v].act
    BY <1>c, <1>10 DEF Transfer, Goto, JobState
  <2>2. JobsAgree'
    BY <1>a, <1>10, <2>1 DEF Transfer, VerdictInv, JobsAgree
  <2>3. postStatus = Outcome(job[w].act)
    BY <1>a, <1>10 DEF Transfer, VerdictInv, JobsAgree
  <2>4. chain' = chain \/ Send(w)
    BY <1>10 DEF Transfer
  <2>5. \A a \in Actions : Sent(a)' => Sent(a) \/ a = job[w].act
    BY <1>b, <2>4 DEF Send, Sent, TypeOK, WalletState
  <2>6. MoneyAgrees'
    BY <1>a, <1>10, <2>3, <2>5 DEF Transfer, VerdictInv, MoneyAgrees
  <2>7. ListedAgrees' /\ StatusAgrees'
    BY <1>a, <1>10 DEF Transfer, VerdictInv, ListedAgrees, StatusAgrees
  <2>8. QED BY <1>b, <2>2, <2>6, <2>7 DEF VerdictInv
<1>11. ASSUME NEW w \in Workers, SetDealStatusConfirmed(w) PROVE VerdictInv'
  <2>1. \A v \in Workers : job'[v].pc # "idle" =>
            job[v].pc # "idle" /\ job'[v].act = job[v].act
    BY <1>c, <1>11 DEF SetDealStatusConfirmed, Goto, Finish, IdleJob, JobState
  <2>2. JobsAgree'
    BY <1>a, <1>11, <2>1 DEF SetDealStatusConfirmed, VerdictInv, JobsAgree
  <2>3. postStatus = Outcome(job[w].act) /\ job[w].act \in Actions
    BY <1>a, <1>c, <1>11 DEF SetDealStatusConfirmed, VerdictInv, JobsAgree, JobState
  <2>4. status' \in {status, Confirmed(job[w].act)}
    BY <1>11 DEF SetDealStatusConfirmed, SetConfirmed
  <2>5. StatusAgrees'
    BY <1>a, <1>11, <2>3, <2>4 DEF SetDealStatusConfirmed, VerdictInv, StatusAgrees, Waiting, Confirmed,
                                    Actions
  <2>6. ListedAgrees' /\ MoneyAgrees'
    BY <1>a, <1>11 DEF SetDealStatusConfirmed, VerdictInv, ListedAgrees, MoneyAgrees, Sent
  <2>7. QED BY <1>b, <2>2, <2>5, <2>6 DEF VerdictInv
<1>12. ASSUME NEW w \in Workers, DeleteDealForumTopic(w) PROVE VerdictInv'
  <2>1. \A v \in Workers : job'[v].pc # "idle" =>
            job[v].pc # "idle" /\ job'[v].act = job[v].act
    BY <1>c, <1>12 DEF DeleteDealForumTopic, Goto, Finish, IdleJob, JobState
  <2>2. \A v \in Workers : listed'[v] \in {listed[v], "none"}
    BY <1>c, <1>12 DEF DeleteDealForumTopic
  <2>3. QED BY <1>a, <1>b, <1>12, <2>1, <2>2, VerdictKept DEF DeleteDealForumTopic
<1>13. ASSUME NEW w \in Workers, ReleaseLock(w) PROVE VerdictInv'
  <2>1. \A v \in Workers : job'[v].pc # "idle" =>
            job[v].pc # "idle" /\ job'[v].act = job[v].act
    BY <1>c, <1>13 DEF ReleaseLock, Goto, Finish, IdleJob, JobState
  <2>2. \A v \in Workers : listed'[v] \in {listed[v], "none"}
    BY <1>c, <1>13 DEF ReleaseLock
  <2>3. QED BY <1>a, <1>b, <1>13, <2>1, <2>2, VerdictKept DEF ReleaseLock
<1>14. ASSUME NEW w \in Workers, Crash(w) PROVE VerdictInv'
  <2>1. \A v \in Workers : job'[v].pc # "idle" =>
            job[v].pc # "idle" /\ job'[v].act = job[v].act
    BY <1>c, <1>14 DEF Crash, Goto, Finish, IdleJob, JobState
  <2>2. \A v \in Workers : listed'[v] \in {listed[v], "none"}
    BY <1>c, <1>14 DEF Crash
  <2>3. QED BY <1>a, <1>b, <1>14, <2>1, <2>2, VerdictKept DEF Crash
<1>15. CASE SetDealStatusCompleted
  <2>1. StatusAgrees'
    BY <1>15 DEF SetDealStatusCompleted, StatusAgrees, Waiting, Confirmed
  <2>2. ListedAgrees' /\ JobsAgree' /\ MoneyAgrees'
    BY <1>a, <1>15 DEF SetDealStatusCompleted, VerdictInv, ListedAgrees, JobsAgree,
                       MoneyAgrees, Sent
  <2>3. QED BY <1>b, <2>1, <2>2 DEF VerdictInv
<1>16. ASSUME NEW m \in chain.inflight, ApplyTransfer(m) \/ DropTransfer(m)
       PROVE  VerdictInv'
  <2>1. UNCHANGED <<status, postStatus, listed, job>>
    BY <1>16 DEF ApplyTransfer, DropTransfer
  <2>2. \A a \in Actions : Sent(a)' => Sent(a)
    <3>1. CASE ApplyTransfer(m)
      <4>1. /\ chain'.inflight \subseteq chain.inflight
            /\ \A a \in Actions : a # m.act => chain'.paid[a] = chain.paid[a]
        BY <1>b, <3>1 DEF ApplyTransfer, TypeOK, WalletState
      <4>2. QED BY <4>1 DEF Sent
    <3>2. CASE DropTransfer(m)
      BY <1>b, <3>2 DEF DropTransfer, Sent, TypeOK, WalletState
    <3>3. QED BY <1>16, <3>1, <3>2
  <2>3. MoneyAgrees'
    BY <1>a, <2>1, <2>2 DEF VerdictInv, MoneyAgrees
  <2>4. ListedAgrees' /\ JobsAgree' /\ StatusAgrees'
    BY <1>a, <2>1 DEF VerdictInv, ListedAgrees, JobsAgree, StatusAgrees
  <2>5. QED BY <1>b, <2>3, <2>4 DEF VerdictInv
<1>17. ASSUME NEW a \in Actions, NEW i \in 1..Len(locks[a]), LockExpires(a, i)
       PROVE  VerdictInv'
  BY <1>a, <1>b, <1>17, VerdictKept DEF LockExpires
<1>18. CASE UNCHANGED vars
  BY <1>a, <1>b, <1>18, VerdictKept DEF vars
<1>19. ASSUME NEW w \in Workers, CompleteDealPostMessages(w) \/ FailDealPostMessages(w)
       PROVE  VerdictInv'
  BY <1>2, <1>19 DEF CompleteDealPostMessages, FailDealPostMessages, Outcome, Actions
<1>20. QED
  BY <1>a, <1>1, <1>3, <1>4, <1>5, <1>6, <1>7, <1>8, <1>9, <1>10, <1>11, <1>12, <1>13,
     <1>14, <1>15, <1>16, <1>17, <1>18, <1>19 DEF Next, PayoutStep

(* Whatever fails, and however many market instances run, the escrow is    *)
(* only ever paid, or about to be paid, to the side that the verdict on    *)
(* the post gives it to.                                                   *)
THEOREM PaymentFollowsVerdict == Spec => []PaidByVerdict
<1>1. VerdictInv => PaidByVerdict
  BY DEF VerdictInv, MoneyAgrees, Sent, Outcome, PaidByVerdict
<1>2. QED BY <1>1, VerdictInit, VerdictNext, PTL DEF Spec

-----------------------------------------------------------------------------
(* One market instance, and faults the recovery is meant to survive.       *)

(* Nothing has been sent at the start.                                     *)
LEMMA PayoutInit == Init => PayoutInv
<1> SUFFICES ASSUME Init PROVE PayoutInv
  OBVIOUS
<1>1. chain.paid = [a \in Actions |-> 0] /\ chain.inflight = {}
  BY DEF Init
<1>2. \A a \in Actions : ~Sent(a)
  BY <1>1 DEF Sent
<1>3. SentRemembered /\ OneMessage /\ PaidOnce
  BY <1>1, <1>2 DEF SentRemembered, OneMessage, PaidOnce, Actions
<1>4. Judged /\ ReadsFresh /\ SendsFirst
  BY DEF Init, Judged, ReadsFresh, SendsFirst, IdleJob
<1>5. QED BY <1>3, <1>4, VerdictInit DEF PayoutInv

(* A worker at work and the money agree on the action.                     *)
LEMMA SentIsAct ==
    ASSUME VerdictInv, NEW w \in Workers, job[w].pc # "idle", NEW a \in Actions, Sent(a)
    PROVE  a = job[w].act
<1>1. job[w].act \in Actions
  BY JobType DEF VerdictInv, TypeOK
<1>2. QED BY <1>1 DEF VerdictInv, JobsAgree, MoneyAgrees, Outcome, Actions

(* Every step of a single instance keeps the invariant.                    *)
LEMMA PayoutNext ==
    ASSUME OneInstance, Faults \subseteq BenignFaults, PayoutInv, [Next]_vars
    PROVE  PayoutInv'
<1>b. /\ TypeOK /\ VerdictInv /\ TypeOK' /\ VerdictInv'
      /\ Judged /\ ReadsFresh /\ SendsFirst /\ SentRemembered /\ OneMessage /\ PaidOnce
  BY VerdictNext DEF PayoutInv, VerdictInv
<1>c. /\ job \in [Workers -> JobState] /\ locks \in [Actions -> Seq(LockRow)]
      /\ listed \in [Workers -> {"none", "passed", "deleted"}]
      /\ \A v \in Workers : job[v] \in JobState
      /\ \A v \in Workers : job[v].act \in Actions /\ job[v].lock \in Nat
      /\ \A a \in Actions : Len(locks[a]) \in Nat
  BY <1>b, LenProperties, JobType DEF TypeOK
<1>d. /\ ~Fault("confirm") /\ ~Fault("commit") /\ ~Fault("probe")
      /\ ~Fault("ambiguous") /\ ~Fault("skew") /\ ~Fault("stall")
  BY DEF Fault, BenignFaults
<1>e. ASSUME NEW w \in Workers PROVE \A v \in Workers : v = w
  BY DEF OneInstance
<1>f. ASSUME UNCHANGED chain PROVE (\A a \in Actions : Sent(a)' = Sent(a)) /\ OneMessage'
                                   /\ PaidOnce'
  BY <1>b, <1>f DEF Sent, OneMessage, PaidOnce
<1>1. ASSUME NEW w \in Workers, ListDealPostMessageByStatus(w) PROVE PayoutInv'
  <2>1. UNCHANGED <<status, postStatus, job, locks, chain>>
    BY <1>1 DEF ListDealPostMessageByStatus
  <2>2. SentRemembered' /\ SendsFirst' /\ Judged'
    BY <1>b, <2>1 DEF SentRemembered, SendsFirst, Judged, Sent, Remembered, LastLock
  <2>3. listed'[w] = postStatus /\ status = "in_progress"
    BY <1>b, <1>c, <1>1 DEF ListDealPostMessageByStatus, Judged
  <2>4. ReadsFresh'
    BY <1>b, <1>e, <2>1, <2>3 DEF ReadsFresh
  <2>5. QED BY <1>b, <1>f, <2>1, <2>2, <2>4 DEF PayoutInv
<1>2. ASSUME NEW w \in Workers, NEW verdict \in {"passed", "deleted"},
             NEW a \in Actions, Settle(w, verdict, Outcome(a), a)
      PROVE  PayoutInv'
  <2>1. /\ postStatus' = Outcome(a) /\ status' = Waiting(a)
        /\ UNCHANGED <<job, locks, chain>>
    BY <1>2, <1>d DEF Settle
  <2>2. listed'[w] = "none"
    BY <1>2, <1>c DEF Settle
  <2>3. status = "in_progress" /\ postStatus = verdict
    BY <1>2, <1>b DEF Settle, ReadsFresh
  <2>4. \A b \in Actions : postStatus # Outcome(b)
    BY <2>3 DEF Outcome
  <2>5. job[w].pc = "idle" /\ job'[w].pc = "idle" /\ \A b \in Actions : ~Sent(b)'
    BY <1>b, <1>c, <1>f, <2>1, <2>4 DEF VerdictInv, JobsAgree, MoneyAgrees
  <2>6. Judged'
    BY <2>1 DEF Judged, Outcome, Waiting
  <2>7. ReadsFresh'
    BY <1>e, <2>2, <2>5 DEF ReadsFresh
  <2>8. SendsFirst'
    BY <1>e, <2>5 DEF SendsFirst
  <2>9. SentRemembered'
    BY <2>5 DEF SentRemembered
  <2>10. QED BY <1>b, <1>f, <2>1, <2>6, <2>7, <2>8, <2>9 DEF PayoutInv
<1>3. ASSUME NEW w \in Workers, NEW a \in Actions, PrepareAction(w, a) PROVE PayoutInv'
  <2>1. UNCHANGED <<status, postStatus, listed, locks, chain>> /\ status = Waiting(a)
        /\ job[w].pc = "idle"
    BY <1>3 DEF PrepareAction
  <2>2. (job'[w].pc = "last" /\ job'[w].act = a) \/ UNCHANGED job
    BY <1>c, <1>3 DEF PrepareAction, JobState
  <2>3. ReadsFresh' /\ SendsFirst' /\ Judged'
    BY <1>b, <1>e, <2>1, <2>2 DEF ReadsFresh, SendsFirst, Judged
  <2>4. ASSUME NEW b \in Actions, Sent(b) PROVE Remembered(b)'
    BY <1>b, <1>e, <2>1, <2>2, <2>4
       DEF SentRemembered, Remembered, LastLock, Waiting, Confirmed, Actions
  <2>5. SentRemembered'
    BY <1>f, <2>1, <2>4 DEF SentRemembered
  <2>6. QED BY <1>b, <1>f, <2>1, <2>3, <2>5 DEF PayoutInv
<1>4. ASSUME NEW w \in Workers, GetLastDealActionLock(w) PROVE PayoutInv'
  <2> DEFINE act == job[w].act
  <2>1. UNCHANGED <<status, postStatus, listed, locks, chain>> /\ job[w].pc = "last"
    BY <1>4 DEF GetLastDealActionLock
  <2>2. job'[w].act = act
        /\ job'[w].pc = IF LastLockExpired(locks[act]) THEN "probe" ELSE "take"
    BY <1>c, <1>d, <1>4 DEF GetLastDealActionLock, Goto, JobState
  <2>3. ReadsFresh' /\ SendsFirst' /\ Judged'
    BY <1>b, <1>e, <2>1, <2>2 DEF ReadsFresh, SendsFirst, Judged
  <2>4. status = Waiting(act)
    BY <1>b, <2>1 DEF ReadsFresh
  <2>5. ASSUME NEW b \in Actions, Sent(b) PROVE Remembered(b)'
    <3>1. b = act
      BY <1>b, <2>1, <2>5, SentIsAct
    <3>2. /\ \A m \in chain.inflight : m.act = b =>
                m.lock = Len(locks[b]) /\ m.lock > 0 /\ LastLock(b).live
          /\ locks[b] # << >> /\ LastLock(b).status = "locked"
      BY <1>b, <1>e, <2>1, <2>4, <2>5, <3>1
         DEF SentRemembered, Remembered, Waiting, Confirmed, Actions
    <3>3. ~LastLock(b).live => chain.paid[b] > 0
      BY <2>5, <3>2 DEF Sent
    <3>4. LastLockExpired(locks[b]) <=> ~LastLock(b).live
      BY <3>2 DEF LastLockExpired, LastLock
    <3>5. QED BY <1>e, <2>1, <2>2, <3>1, <3>2, <3>3, <3>4 DEF Remembered, LastLock
  <2>6. SentRemembered'
    BY <1>f, <2>1, <2>5 DEF SentRemembered
  <2>7. QED BY <1>b, <1>f, <2>1, <2>3, <2>6 DEF PayoutInv
<1>5. ASSUME NEW w \in Workers, HasOutgoingTxTo(w) PROVE PayoutInv'
  <2> DEFINE act == job[w].act
  <2>1. UNCHANGED <<status, postStatus, listed, locks, chain>> /\ job[w].pc = "probe"
    BY <1>5 DEF HasOutgoingTxTo
  <2>2. job'[w].act = act /\ job'[w].pc = IF chain.paid[act] > 0 THEN "recover" ELSE "giveup"
    BY <1>c, <1>d, <1>5 DEF HasOutgoingTxTo, Goto, JobState
  <2>3. ReadsFresh' /\ Judged'
    BY <1>b, <1>e, <2>1, <2>2 DEF ReadsFresh, Judged
  <2>4. status = Waiting(act)
    BY <1>b, <2>1 DEF ReadsFresh
  <2>5. ASSUME NEW b \in Actions, Sent(b) PROVE Remembered(b)' /\ job'[w].pc = "recover"
    <3>1. b = act
      BY <1>b, <2>1, <2>5, SentIsAct
    <3>2. /\ \A m \in chain.inflight : m.act = b =>
                m.lock = Len(locks[b]) /\ m.lock > 0 /\ LastLock(b).live
          /\ locks[b] # << >> /\ LastLock(b).status = "locked" /\ chain.paid[b] > 0
      BY <1>b, <1>e, <2>1, <2>4, <2>5, <3>1
         DEF SentRemembered, Remembered, Waiting, Confirmed, Actions
    <3>3. QED BY <1>e, <2>1, <2>2, <3>1, <3>2 DEF Remembered, LastLock
  <2>6. SentRemembered' /\ SendsFirst'
    BY <1>e, <1>f, <2>1, <2>2, <2>5 DEF SentRemembered, SendsFirst
  <2>7. QED BY <1>b, <1>f, <2>1, <2>3, <2>6 DEF PayoutInv
<1>6. ASSUME NEW w \in Workers, RecoverConfirmed(w) PROVE PayoutInv'
  <2> DEFINE act == job[w].act
  <2>1. UNCHANGED <<postStatus, listed, locks, chain>> /\ job[w].pc = "recover"
    BY <1>6 DEF RecoverConfirmed
  <2>2. status = Waiting(act)
    BY <1>b, <2>1 DEF ReadsFresh
  <2>3. job'[w].pc = "recovered" /\ status' = Confirmed(act)
    BY <1>c, <1>d, <1>6, <2>2 DEF RecoverConfirmed, SetConfirmed, JobState
  <2>4. listed[w] = "none"
    BY <1>b, <1>c, <2>2 DEF ReadsFresh, Waiting, Actions
  <2>5. ReadsFresh' /\ SendsFirst' /\ Judged'
    BY <1>b, <1>c, <1>e, <2>1, <2>2, <2>3, <2>4
       DEF ReadsFresh, SendsFirst, Judged, Waiting, Confirmed, Actions
  <2>6. ASSUME NEW b \in Actions, Sent(b) PROVE Remembered(b)'
    <3>1. b = act
      BY <1>b, <2>1, <2>6, SentIsAct
    <3>2. QED BY <1>b, <2>1, <2>3, <2>6, <3>1 DEF SentRemembered, Remembered, LastLock
  <2>7. SentRemembered'
    BY <1>f, <2>1, <2>6 DEF SentRemembered
  <2>8. QED BY <1>b, <1>f, <2>1, <2>5, <2>7 DEF PayoutInv
<1>7. ASSUME NEW w \in Workers, GiveUpExpiredLock(w) PROVE PayoutInv'
  <2>1. UNCHANGED <<status, postStatus, listed, chain>> /\ job[w].pc = "giveup"
    BY <1>7 DEF GiveUpExpiredLock
  <2>2. job'[w].act = job[w].act /\ job'[w].pc = "take"
    BY <1>c, <1>7 DEF GiveUpExpiredLock, JobState
  <2>3. \A a \in Actions : ~Sent(a)'
    BY <1>b, <1>f, <2>1 DEF SendsFirst
  <2>4. ReadsFresh' /\ SendsFirst' /\ Judged'
    BY <1>b, <1>e, <2>1, <2>2 DEF ReadsFresh, SendsFirst, Judged
  <2>5. SentRemembered'
    BY <2>3 DEF SentRemembered
  <2>6. QED BY <1>b, <1>f, <2>1, <2>4, <2>5 DEF PayoutInv
<1>8. ASSUME NEW w \in Workers, TakeLockSelect(w) PROVE PayoutInv'
  <2> DEFINE act == job[w].act
  <2>1. UNCHANGED <<status, postStatus, listed, locks, chain>> /\ job[w].pc = "take"
    BY <1>8 DEF TakeLockSelect
  <2>2. status = Waiting(act)
    BY <1>b, <2>1 DEF ReadsFresh
  <2>3. ASSUME NEW b \in Actions, Sent(b)
        PROVE  /\ HasActiveLock(locks[act])
               /\ \A m \in chain.inflight : m.act = b =>
                    m.lock = Len(locks[b]) /\ m.lock > 0 /\ LastLock(b).live
               /\ locks[b] # << >> /\ LastLock(b).status = "locked"
    <3>1. b = act
      BY <1>b, <2>1, <2>3, SentIsAct
    <3>2. /\ \A m \in chain.inflight : m.act = b =>
                m.lock = Len(locks[b]) /\ m.lock > 0 /\ LastLock(b).live
          /\ locks[b] # << >> /\ LastLock(b).status = "locked" /\ LastLock(b).live
      BY <1>b, <1>e, <2>1, <2>2, <2>3, <3>1
         DEF SentRemembered, Remembered, Waiting, Confirmed, Actions
    <3>3. Len(locks[b]) \in 1..Len(locks[b])
      BY <1>c, <3>2
    <3>4. QED BY <3>1, <3>2, <3>3 DEF HasActiveLock, LastLock
  <2>4. CASE HasActiveLock(locks[act])
    <3>1. job'[w].pc = "idle"
      BY <1>c, <1>8, <2>4 DEF TakeLockSelect, Finish, IdleJob
    <3>2. ReadsFresh' /\ SendsFirst' /\ Judged'
      BY <1>b, <1>e, <2>1, <3>1 DEF ReadsFresh, SendsFirst, Judged
    <3>3. ASSUME NEW b \in Actions, Sent(b) PROVE Remembered(b)'
      BY <1>e, <2>1, <2>3, <3>1, <3>3 DEF Remembered, LastLock
    <3>4. QED BY <1>b, <1>f, <2>1, <3>2, <3>3 DEF PayoutInv, SentRemembered
  <2>5. CASE ~HasActiveLock(locks[act])
    <3>1. job'[w].pc = "insert" /\ job'[w].act = act
      BY <1>c, <1>8, <2>5 DEF TakeLockSelect, Goto, JobState
    <3>2. \A b \in Actions : ~Sent(b)'
      BY <1>f, <2>1, <2>3, <2>5
    <3>3. ReadsFresh' /\ SendsFirst' /\ Judged' /\ SentRemembered'
      BY <1>b, <1>e, <2>1, <2>2, <3>1, <3>2
         DEF ReadsFresh, SendsFirst, Judged, SentRemembered
    <3>4. QED BY <1>b, <1>f, <2>1, <3>3 DEF PayoutInv
  <2>6. QED BY <2>4, <2>5
<1>9. ASSUME NEW w \in Workers, TakeLockInsert(w) PROVE PayoutInv'
  <2> DEFINE act == job[w].act
  <2>1. UNCHANGED <<status, postStatus, listed, chain>> /\ job[w].pc = "insert"
    BY <1>9 DEF TakeLockInsert
  <2>2. /\ job'[w].act = act /\ job'[w].pc = "transfer"
        /\ job'[w].lock = Len(locks[act]) + 1
        /\ locks' = [locks EXCEPT ![act] = InsertLock(locks[act])]
    BY <1>c, <1>d, <1>9 DEF TakeLockInsert, JobState
  <2>3. /\ Len(locks'[act]) = Len(locks[act]) + 1
        /\ locks'[act][Len(locks[act]) + 1].status = "locked"
        /\ locks'[act][Len(locks[act]) + 1].live
    BY <1>c, <2>2, InsertLockRow
  <2>4. \A a \in Actions : ~Sent(a)'
    BY <1>b, <1>f, <2>1 DEF SendsFirst
  <2>5. ReadsFresh' /\ Judged' /\ SentRemembered'
    BY <1>b, <1>e, <2>1, <2>2, <2>4 DEF ReadsFresh, Judged, SentRemembered
  <2>6. SendsFirst'
    BY <1>c, <1>e, <2>2, <2>3, <2>4 DEF SendsFirst, LastLock
  <2>7. QED BY <1>b, <1>f, <2>1, <2>5, <2>6 DEF PayoutInv
<1>10. ASSUME NEW w \in Workers, Transfer(w) PROVE PayoutInv'
  <2> DEFINE act == job[w].act
             msg == [act |-> act, seqno |-> chain.seqno, lock |-> job[w].lock]
  <2>1. UNCHANGED <<status, postStatus, listed, locks>> /\ job[w].pc = "transfer"
    BY <1>10 DEF Transfer
  <2>2. /\ \A a \in Actions : ~Sent(a)
        /\ job[w].lock = Len(locks[act]) /\ job[w].lock > 0
        /\ LastLock(act).status = "locked" /\ LastLock(act).live
    BY <1>b, <2>1 DEF SendsFirst
  <2>3. chain.inflight = {} /\ \A a \in Actions : chain.paid[a] = 0
    BY <1>b, <2>2 DEF Sent, TypeOK, WalletState, Messages
  <2>4. CASE Send(w) /\ Goto(w, "confirm")
    <3>1. job'[w].pc = "confirm" /\ job'[w].act = act /\ job'[w].lock = job[w].lock
      BY <1>c, <2>4 DEF Goto, JobState
    <3>2. chain'.inflight = {msg} /\ chain'.paid = chain.paid
      BY <1>b, <2>3, <2>4 DEF Send, TypeOK, WalletState
    <3>3. ReadsFresh' /\ Judged'
      BY <1>b, <1>e, <2>1, <3>1 DEF ReadsFresh, Judged
    <3>4. SendsFirst'
      BY <1>e, <2>1, <2>2, <3>1 DEF SendsFirst, LastLock
    <3>5. OneMessage' /\ PaidOnce'
      BY <2>3, <3>2 DEF OneMessage, PaidOnce, Actions
    <3>6. SentRemembered'
      BY <2>1, <2>2, <3>1, <3>2 DEF SentRemembered, Remembered, LastLock
    <3>7. QED BY <1>b, <3>3, <3>4, <3>5, <3>6 DEF PayoutInv
  <2>5. CASE Goto(w, "unlock") /\ UNCHANGED chain
    <3>1. job'[w].pc = "unlock"
      BY <1>c, <2>5 DEF Goto, JobState
    <3>2. ReadsFresh' /\ SendsFirst' /\ Judged' /\ SentRemembered'
      BY <1>b, <1>e, <1>f, <2>1, <2>2, <2>5, <3>1
         DEF ReadsFresh, SendsFirst, Judged, SentRemembered
    <3>3. QED BY <1>b, <1>f, <2>5, <3>2 DEF PayoutInv
  <2>6. QED BY <1>d, <1>10, <2>4, <2>5 DEF Transfer
<1>11. ASSUME NEW w \in Workers, SetDealStatusConfirmed(w) PROVE PayoutInv'
  <2> DEFINE act == job[w].act
  <2>1. UNCHANGED <<postStatus, listed, locks, chain>> /\ job[w].pc = "confirm"
    BY <1>11 DEF SetDealStatusConfirmed
  <2>2. status = Waiting(act)
    BY <1>b, <2>1 DEF ReadsFresh
  <2>3. job'[w].pc = "topic" /\ status' = Confirmed(act)
    BY <1>c, <1>d, <1>11, <2>2 DEF SetDealStatusConfirmed, SetConfirmed, JobState
  <2>4. listed[w] = "none"
    BY <1>b, <1>c, <2>2 DEF ReadsFresh, Waiting, Actions
  <2>5. ReadsFresh' /\ SendsFirst' /\ Judged'
    BY <1>b, <1>c, <1>e, <2>1, <2>2, <2>3, <2>4
       DEF ReadsFresh, SendsFirst, Judged, Waiting, Confirmed, Actions
  <2>6. ASSUME NEW b \in Actions, Sent(b) PROVE Remembered(b)'
    <3>1. b = act
      BY <1>b, <2>1, <2>6, SentIsAct
    <3>2. QED BY <1>b, <2>1, <2>3, <2>6, <3>1 DEF SentRemembered, Remembered, LastLock
  <2>7. SentRemembered'
    BY <1>f, <2>1, <2>6 DEF SentRemembered
  <2>8. QED BY <1>b, <1>f, <2>1, <2>5, <2>7 DEF PayoutInv
<1>12. ASSUME NEW w \in Workers, DeleteDealForumTopic(w) PROVE PayoutInv'
  <2>1. UNCHANGED <<status, postStatus, listed, locks, chain>> /\ job[w].pc = "topic"
    BY <1>12 DEF DeleteDealForumTopic
  <2>2. job'[w].pc \in {"idle", "unlock"}
    BY <1>c, <1>12 DEF DeleteDealForumTopic, Finish, IdleJob, JobState
  <2>3. ReadsFresh' /\ SendsFirst' /\ Judged'
    BY <1>b, <1>e, <2>1, <2>2 DEF ReadsFresh, SendsFirst, Judged
  <2>4. ASSUME NEW b \in Actions, Sent(b) PROVE Remembered(b)'
    BY <1>b, <1>e, <2>1, <2>4 DEF SentRemembered, Remembered, LastLock
  <2>5. SentRemembered'
    BY <1>f, <2>1, <2>4 DEF SentRemembered
  <2>6. QED BY <1>b, <1>f, <2>1, <2>3, <2>5 DEF PayoutInv
<1>13. ASSUME NEW w \in Workers, ReleaseLock(w) PROVE PayoutInv'
  <2>1. UNCHANGED <<status, postStatus, listed, chain>>
        /\ job[w].pc \in {"unlock", "recovered"}
    BY <1>13 DEF ReleaseLock
  <2>2. job'[w].pc \in {"idle", "topic"}
    BY <1>c, <1>13 DEF ReleaseLock, Goto, Finish, IdleJob, JobState
  <2>3. ReadsFresh' /\ SendsFirst' /\ Judged'
    BY <1>b, <1>e, <2>1, <2>2 DEF ReadsFresh, SendsFirst, Judged
  <2>4. \A a \in Actions : Len(locks'[a]) = Len(locks[a])
            /\ \A j \in 1..Len(locks[a]) : locks'[a][j].live = locks[a][j].live
    <3>1. CASE UNCHANGED locks
      BY <3>1
    <3>2. CASE locks' = [locks EXCEPT ![job[w].act] =
              ReleaseDealActionLock(locks[job[w].act], job[w].lock, job[w].outcome)]
      <4>1. job[w].outcome \in {"completed", "failed"}
        BY <1>c, JobType
      <4>2. /\ Len(ReleaseDealActionLock(locks[job[w].act], job[w].lock, job[w].outcome))
                  = Len(locks[job[w].act])
            /\ \A j \in 1..Len(locks[job[w].act]) :
                ReleaseDealActionLock(locks[job[w].act], job[w].lock, job[w].outcome)[j].live
                  = locks[job[w].act][j].live
        BY <1>c, <4>1, ReleaseLockRow
      <4>3. QED BY <1>c, <3>2, <4>2
    <3>3. QED BY <1>13, <3>1, <3>2 DEF ReleaseLock
  <2>5. ASSUME NEW b \in Actions, Sent(b) PROVE Remembered(b)'
    <3>1. status \in {Confirmed(b), "completed"}
      BY <1>b, <1>e, <2>1, <2>5 DEF SentRemembered, Remembered
    <3>2. ASSUME NEW m \in chain.inflight, m.act = b
          PROVE  m.lock = Len(locks'[b]) /\ m.lock > 0 /\ locks'[b][Len(locks'[b])].live
      <4>1. m.lock = Len(locks[b]) /\ m.lock > 0 /\ LastLock(b).live
        BY <1>b, <2>5, <3>2 DEF SentRemembered, Remembered
      <4>2. Len(locks[b]) \in 1..Len(locks[b])
        BY <1>c, <4>1
      <4>3. QED BY <2>4, <4>1, <4>2 DEF LastLock
    <3>3. QED BY <2>1, <3>1, <3>2 DEF Remembered, LastLock
  <2>6. SentRemembered'
    BY <1>f, <2>1, <2>5 DEF SentRemembered
  <2>7. QED BY <1>b, <1>f, <2>1, <2>3, <2>6 DEF PayoutInv
<1>14. ASSUME NEW w \in Workers, Crash(w) PROVE PayoutInv'
  <2>1. UNCHANGED <<status, postStatus, locks, chain>>
    BY <1>14 DEF Crash
  <2>2. job'[w].pc = "idle" /\ listed'[w] = "none"
    BY <1>c, <1>14 DEF Crash, Finish, IdleJob
  <2>3. ReadsFresh' /\ SendsFirst' /\ Judged'
    BY <1>b, <1>e, <2>1, <2>2 DEF ReadsFresh, SendsFirst, Judged
  <2>4. ASSUME NEW b \in Actions, Sent(b) PROVE Remembered(b)'
    <3>1. CASE job[w].pc = "confirm"
      <4>1. b = job[w].act
        BY <1>b, <2>4, <3>1, SentIsAct
      <4>2. Len(locks[b]) > 0 /\ LastLock(b).status = "locked"
        BY <1>b, <3>1, <4>1 DEF SendsFirst
      <4>3. locks[b] # << >>
        BY <4>2
      <4>4. QED BY <1>b, <1>e, <2>1, <2>2, <2>4, <4>2, <4>3
               DEF SentRemembered, Remembered, LastLock
    <3>2. CASE job[w].pc # "confirm"
      BY <1>b, <1>e, <2>1, <2>2, <2>4, <3>2 DEF SentRemembered, Remembered, LastLock
    <3>3. QED BY <3>1, <3>2
  <2>5. SentRemembered'
    BY <1>f, <2>1, <2>4 DEF SentRemembered
  <2>6. QED BY <1>b, <1>f, <2>1, <2>3, <2>5 DEF PayoutInv
<1>15. CASE SetDealStatusCompleted
  <2>1. UNCHANGED <<postStatus, listed, job, locks, chain>> /\ status' = "completed"
    BY <1>15 DEF SetDealStatusCompleted
  <2>2. status \in {"escrow_release_confirmed", "escrow_refund_confirmed"}
    BY <1>15 DEF SetDealStatusCompleted, Confirmed
  <2>3. \A v \in Workers : status # Waiting(job[v].act) /\ status # "in_progress"
    BY <2>2 DEF Waiting
  <2>4. ReadsFresh' /\ SendsFirst' /\ Judged'
    BY <1>b, <2>1, <2>3, <2>2 DEF ReadsFresh, SendsFirst, Judged, Sent, LastLock
  <2>5. ASSUME NEW b \in Actions, Sent(b) PROVE Remembered(b)'
    BY <1>b, <2>1, <2>5 DEF SentRemembered, Remembered, LastLock
  <2>6. SentRemembered'
    BY <1>f, <2>1, <2>5 DEF SentRemembered
  <2>7. QED BY <1>b, <1>f, <2>1, <2>4, <2>6 DEF PayoutInv
<1>16. ASSUME NEW m \in chain.inflight, ApplyTransfer(m) PROVE PayoutInv'
  <2>1. UNCHANGED <<status, postStatus, listed, job, locks>>
    BY <1>16 DEF ApplyTransfer
  <2>2. m.act \in Actions /\ Sent(m.act) /\ \A a \in Actions : chain.paid[a] = 0
    BY <1>b DEF TypeOK, WalletState, Messages, Sent, OneMessage
  <2>3. /\ chain'.inflight = {}
        /\ \A a \in Actions : chain'.paid[a] = 0 \/ (a = m.act /\ chain'.paid[a] = 1)
    BY <1>b, <1>16, <2>2 DEF ApplyTransfer, TypeOK, WalletState, OneMessage
  <2>4. OneMessage' /\ PaidOnce'
    BY <2>3 DEF OneMessage, PaidOnce, Actions
  <2>5. ReadsFresh' /\ Judged'
    BY <1>b, <2>1 DEF ReadsFresh, Judged
  <2>6. SendsFirst'
    BY <1>b, <2>1, <2>2 DEF SendsFirst, LastLock
  <2>7. ASSUME NEW b \in Actions, Sent(b)' PROVE Remembered(b)'
    <3>1. b = m.act /\ chain'.paid[b] > 0
      BY <2>3, <2>7 DEF Sent
    <3>2. Remembered(b)
      BY <1>b, <2>2, <3>1 DEF SentRemembered
    <3>3. QED BY <2>1, <2>3, <3>1, <3>2 DEF Remembered, LastLock
  <2>8. QED BY <1>b, <2>4, <2>5, <2>6, <2>7 DEF PayoutInv, SentRemembered
<1>17. ASSUME NEW m \in chain.inflight, DropTransfer(m) PROVE PayoutInv'
  <2>1. UNCHANGED <<status, postStatus, listed, job, locks>>
    BY <1>17 DEF DropTransfer
  <2>2. chain'.inflight = {} /\ \A a \in Actions : chain'.paid[a] = 0
    BY <1>b, <1>17 DEF DropTransfer, TypeOK, WalletState, OneMessage
  <2>3. \A a \in Actions : ~Sent(a)'
    BY <2>2 DEF Sent
  <2>4. SentRemembered' /\ OneMessage' /\ PaidOnce'
    BY <2>2, <2>3 DEF SentRemembered, OneMessage, PaidOnce, Actions
  <2>5. ReadsFresh' /\ Judged' /\ SendsFirst'
    BY <1>b, <2>1, <2>3 DEF ReadsFresh, Judged, SendsFirst, LastLock
  <2>6. QED BY <1>b, <2>4, <2>5 DEF PayoutInv
<1>18. ASSUME NEW a \in Actions, NEW i \in 1..Len(locks[a]), LockExpires(a, i)
       PROVE  PayoutInv'
  <2>1. UNCHANGED <<status, postStatus, listed, job, chain>>
        /\ locks' = [locks EXCEPT ![a] = ExpireLock(locks[a], i)]
    BY <1>18 DEF LockExpires
  <2>2. /\ \A m \in chain.inflight : ~(m.act = a /\ m.lock = i)
        /\ \A w \in Workers : ~(job[w].pc = "transfer" /\ job[w].act = a /\ job[w].lock = i)
        /\ \A w \in Workers : ~(job[w].pc = "take" /\ job[w].act = a)
    BY <1>18, <1>d DEF LockExpires
  <2>3. /\ \A b \in Actions : Len(locks'[b]) = Len(locks[b])
        /\ \A b \in Actions : \A j \in 1..Len(locks[b]) :
            /\ locks'[b][j].status = locks[b][j].status
            /\ ~(b = a /\ j = i) => locks'[b][j] = locks[b][j]
    BY <1>c, <2>1, ExpireLockRow
  <2>4. ReadsFresh' /\ Judged'
    BY <1>b, <2>1 DEF ReadsFresh, Judged
  <2>5. \A b \in Actions : Len(locks[b]) > 0 =>
            /\ LastLock(b)'.status = LastLock(b).status
            /\ ~(b = a /\ Len(locks[b]) = i) => LastLock(b)' = LastLock(b)
    BY <1>c, <2>3 DEF LastLock
  <2>6. SendsFirst'
    <3>1. ASSUME NEW v \in Workers, job[v].pc \in {"giveup", "insert", "transfer"}
          PROVE  \A b \in Actions : ~Sent(b)'
      BY <1>b, <1>f, <2>1, <3>1 DEF SendsFirst
    <3>2. ASSUME NEW v \in Workers, job[v].pc \in {"transfer", "confirm"}
          PROVE  /\ job[v].lock = Len(locks'[job[v].act]) /\ job[v].lock > 0
                 /\ LastLock(job[v].act)'.status = "locked"
      BY <1>b, <1>c, <2>1, <2>3, <2>5, <3>2 DEF SendsFirst, LastLock
    <3>3. ASSUME NEW v \in Workers, job[v].pc = "transfer"
          PROVE  LastLock(job[v].act)'.live
      BY <1>b, <1>c, <2>1, <2>2, <2>5, <3>3 DEF SendsFirst, LastLock
    <3>4. QED BY <2>1, <3>1, <3>2, <3>3 DEF SendsFirst
  <2>7. ASSUME NEW b \in Actions, Sent(b) PROVE Remembered(b)'
    <3>1. Remembered(b)
      BY <1>b, <2>7 DEF SentRemembered
    <3>2. ASSUME NEW m \in chain.inflight, m.act = b
          PROVE  m.lock = Len(locks'[b]) /\ m.lock > 0 /\ LastLock(b)'.live
      BY <2>2, <2>3, <2>5, <3>1, <3>2 DEF Remembered
    <3>3. CASE status \in {Confirmed(b), "completed"} \/ \E w \in Workers : job[w].pc = "confirm"
      BY <2>1, <3>2, <3>3 DEF Remembered
    <3>4. CASE /\ locks[b] # << >> /\ LastLock(b).status = "locked"
               /\ \A w \in Workers :
                    /\ job[w].pc \in {"idle", "last", "probe", "recover", "take"}
                    /\ job[w].pc = "probe" => chain.paid[b] > 0
                    /\ job[w].pc = "take" => LastLock(b).live
      <4>1. Len(locks[b]) > 0 /\ locks'[b] # << >>
        BY <1>c, <2>3, <3>4
      <4>2. ASSUME NEW w \in Workers, job[w].pc = "take" PROVE LastLock(b)'.live
        <5>1. b = job[w].act
          BY <1>b, <2>7, <4>2, SentIsAct
        <5>2. QED BY <2>2, <2>5, <3>4, <4>1, <4>2, <5>1
      <4>3. QED BY <2>1, <2>5, <3>2, <3>4, <4>1, <4>2 DEF Remembered
    <3>5. QED BY <3>1, <3>3, <3>4 DEF Remembered
  <2>8. SentRemembered'
    BY <1>f, <2>1, <2>7 DEF SentRemembered
  <2>9. QED BY <1>b, <1>f, <2>1, <2>4, <2>6, <2>8 DEF PayoutInv
<1>19. CASE UNCHANGED vars
  <2>1. UNCHANGED <<status, postStatus, listed, job, locks, chain>>
    BY <1>19 DEF vars
  <2>2. ReadsFresh' /\ Judged' /\ SendsFirst' /\ SentRemembered'
    BY <1>b, <2>1 DEF ReadsFresh, Judged, SendsFirst, SentRemembered, Remembered,
                      LastLock, Sent
  <2>3. QED BY <1>b, <1>f, <2>1, <2>2 DEF PayoutInv
<1>20. ASSUME NEW w \in Workers, CompleteDealPostMessages(w) \/ FailDealPostMessages(w)
       PROVE  PayoutInv'
  BY <1>2, <1>20 DEF CompleteDealPostMessages, FailDealPostMessages, Outcome, Actions
<1>21. QED
  BY <1>1, <1>3, <1>4, <1>5, <1>6, <1>7, <1>8, <1>9, <1>10, <1>11, <1>12, <1>13,
     <1>14, <1>15, <1>16, <1>17, <1>18, <1>19, <1>20 DEF Next, PayoutStep

(* With a single market instance the escrow is paid out at most once, in   *)
(* spite of any number of crashes, lost or refused transfers and failed    *)
(* releases of the lock: the expired lock makes the next attempt look for  *)
(* the transfer of the last one.                                           *)
THEOREM PayoutIsUnique ==
    ASSUME OneInstance, Faults \subseteq BenignFaults
    PROVE  Spec => []PaidOnce
<1>1. Init => PayoutInv
  BY PayoutInit
<1>2. PayoutInv /\ [Next]_vars => PayoutInv'
  BY PayoutNext
<1>3. PayoutInv => PaidOnce
  BY DEF PayoutInv
<1>4. QED BY <1>1, <1>2, <1>3, PTL DEF Spec
-----------------------------------------------------------------------------
(* What a step does to the deal, the verdict and the money.                *)
Judges ==
    \E a \in Actions :
        /\ status = "in_progress" /\ postStatus \in {"passed", "deleted"}
        /\ status' = Waiting(a) /\ postStatus' = Outcome(a)
        /\ chain'.paid = chain.paid

Closes ==
    /\ \/ \E a \in Actions : status = Waiting(a) /\ status' = Confirmed(a)
       \/ status \in {Confirmed(a) : a \in Actions} /\ status' = "completed"
    /\ postStatus' = postStatus /\ chain'.paid = chain.paid

Pays ==
    \E a \in Actions :
        /\ postStatus = Outcome(a) /\ \A b \in Actions : chain.paid[b] = 0
        /\ chain'.paid = [chain.paid EXCEPT ![a] = 1]
        /\ status' = status /\ postStatus' = postStatus

Idles == status' = status /\ postStatus' = postStatus /\ chain'.paid = chain.paid

(* With one instance and benign faults each step does one of these.        *)
LEMMA SettlementStep ==
    ASSUME OneInstance, Faults \subseteq BenignFaults, PayoutInv, [Next]_vars
    PROVE  Judges \/ Closes \/ Pays \/ Idles
<1>1. /\ chain \in WalletState /\ job \in [Workers -> JobState]
      /\ \A m \in chain.inflight : m.act \in Actions
  BY DEF PayoutInv, VerdictInv, TypeOK, WalletState, Messages
<1>2. ASSUME NEW w \in Workers, CompleteDealPostMessages(w) \/ FailDealPostMessages(w)
      PROVE  Judges \/ Idles
  <2>1. PICK a \in Actions :
          /\ listed[w] # "none" /\ UNCHANGED chain
          /\ \/ postStatus' = Outcome(a) /\ status' = Waiting(a)
             \/ UNCHANGED <<postStatus, status>>
    BY <1>2 DEF CompleteDealPostMessages, FailDealPostMessages, Settle, Outcome, Actions
  <2>2. status = "in_progress" /\ postStatus \in {"passed", "deleted"}
    BY <2>1 DEF PayoutInv, ReadsFresh, Judged
  <2>3. QED BY <2>1, <2>2 DEF Judges, Idles
<1>3. ASSUME NEW w \in Workers, RecoverConfirmed(w) \/ SetDealStatusConfirmed(w)
      PROVE  Closes \/ Idles
  <2>1. job[w].act \in Actions
    BY <1>1, JobType
  <2>2. QED
    BY <1>3, <2>1
    DEF RecoverConfirmed, SetDealStatusConfirmed, SetConfirmed, Closes, Idles
<1>4. CASE SetDealStatusCompleted
  BY <1>4 DEF SetDealStatusCompleted, Closes
<1>5. ASSUME NEW m \in chain.inflight, ApplyTransfer(m) PROVE Pays \/ Idles
  <2>1. /\ m.act \in Actions /\ chain.paid \in [Actions -> Nat]
        /\ \A b \in Actions : chain.paid[b] = 0
    BY <1>1 DEF PayoutInv, OneMessage, WalletState
  <2>2. postStatus = Outcome(m.act)
    BY <2>1 DEF PayoutInv, VerdictInv, MoneyAgrees, Sent
  <2>3. CASE chain.funds > 0
    <3>1. chain'.paid = [chain.paid EXCEPT ![m.act] = 1]
      BY <1>5, <2>1, <2>3 DEF ApplyTransfer
    <3>2. QED BY <1>5, <2>1, <2>2, <3>1 DEF ApplyTransfer, Pays
  <2>4. CASE ~(chain.funds > 0)
    <3>1. chain'.paid = [chain.paid EXCEPT ![m.act] = chain.paid[m.act]]
      BY <1>5, <2>4 DEF ApplyTransfer
    <3>2. QED BY <1>5, <2>1, <3>1 DEF ApplyTransfer, Idles
  <2>5. QED BY <2>3, <2>4
<1>6. ASSUME NEW m \in chain.inflight, DropTransfer(m) PROVE Idles
  BY <1>1, <1>6 DEF DropTransfer, Idles, WalletState
<1>7. ASSUME NEW w \in Workers, Transfer(w) PROVE Idles
  BY <1>1, <1>7 DEF Transfer, Send, Idles, WalletState
<1>8. ASSUME NEW w \in Workers,
             \/ ListDealPostMessageByStatus(w) \/ (\E a \in Actions : PrepareAction(w, a))
             \/ GetLastDealActionLock(w) \/ HasOutgoingTxTo(w) \/ GiveUpExpiredLock(w)
             \/ TakeLockSelect(w) \/ TakeLockInsert(w) \/ DeleteDealForumTopic(w)
             \/ ReleaseLock(w) \/ Crash(w)
      PROVE  Idles
  BY <1>8 DEF ListDealPostMessageByStatus, PrepareAction, GetLastDealActionLock,
              HasOutgoingTxTo, GiveUpExpiredLock, TakeLockSelect, TakeLockInsert,
              DeleteDealForumTopic, ReleaseLock, Crash, Idles
<1>9. CASE \/ \E a \in Actions : \E i \in 1..Len(locks[a]) : LockExpires(a, i)
           \/ UNCHANGED vars
  BY <1>9 DEF LockExpires, vars, Idles
<1>10. QED
  BY <1>2, <1>3, <1>4, <1>5, <1>6, <1>7, <1>8, <1>9 DEF Next, PayoutStep

(* With a single market instance, and whatever crashes, is lost or refused, *)
(* the settlement implements the lifecycle: statuses follow each other in   *)
(* order, the verdict decides once who is owed the escrow, and it is paid   *)
(* once, to that side.                                                      *)
THEOREM ImplementsLifecycleTheorem ==
    ASSUME OneInstance, Faults \subseteq BenignFaults
    PROVE  Spec => ImplementsLifecycle
<1>1. Init => Lifecycle!Init
  <2> SUFFICES ASSUME Init PROVE Lifecycle!Init
    OBVIOUS
  <2>1. chain.paid = [a \in Actions |-> 0]
    BY DEF Init
  <2>2. QED BY <2>1 DEF Init, Lifecycle!Init, Lifecycle!Parties, Actions
<1>2. PayoutInv /\ [Next]_vars => [Lifecycle!Next]_Lifecycle!vars
  <2> SUFFICES ASSUME PayoutInv, [Next]_vars PROVE [Lifecycle!Next]_Lifecycle!vars
    OBVIOUS
  <2>1. chain.paid \in [Actions -> Nat]
    BY DEF PayoutInv, VerdictInv, TypeOK, WalletState
  <2>2. CASE Judges
    <3>1. Lifecycle!Advance
      BY <2>2 DEF Judges, Lifecycle!Advance, Lifecycle!Successors, Lifecycle!Owed,
                  Waiting, Outcome, Actions
    <3>2. QED BY <3>1 DEF Lifecycle!Next
  <2>3. CASE Closes
    <3>1. Lifecycle!Advance
      BY <2>3 DEF Closes, Lifecycle!Advance, Lifecycle!Successors, Lifecycle!Owed,
                  Waiting, Confirmed, Actions
    <3>2. QED BY <3>1 DEF Lifecycle!Next
  <2>4. CASE Pays
    <3>1. Lifecycle!PayOut
      BY <2>1, <2>4 DEF Pays, Lifecycle!PayOut, Lifecycle!Parties, Outcome, Actions
    <3>2. QED BY <3>1 DEF Lifecycle!Next
  <2>5. CASE Idles
    BY <2>5 DEF Idles, Lifecycle!vars
  <2>6. QED BY <2>2, <2>3, <2>4, <2>5, SettlementStep
<1>3. Init => PayoutInv
  BY PayoutInit
<1>4. PayoutInv /\ [Next]_vars => PayoutInv'
  BY PayoutNext
<1>5. QED
  BY <1>1, <1>2, <1>3, <1>4, PTL DEF Spec, ImplementsLifecycle, Lifecycle!Spec
=============================================================================
