-------------------------- MODULE EscrowSettlement --------------------------
(***************************************************************************)
(* Settlement of one deal whose post has been judged: from the verdict of  *)
(* the post checker (the post message is "passed" or "deleted") to the     *)
(* payout from the escrow wallet and the final status.                     *)
(*                                                                         *)
(* Every instance of the market service runs three goroutines: the passed  *)
(* worker (RunPassedWorker), the payout worker (ReleaseRefundWorker, which *)
(* calls ReleaseOrRefundEscrow) and RunCompletedWorker.  They share        *)
(* market.deal, market.deal_post_message and market.deal_action_lock, and  *)
(* the payout worker talks to the TON network, where a transfer that has   *)
(* been sent is applied later or not at all.                               *)
(*                                                                         *)
(* Failures are explicit: a fault happens only when its kind is in Faults, *)
(* and at most MaxFaults of them happen in a behaviour.                    *)
(***************************************************************************)
EXTENDS DealActionLock, FiniteSets

CONSTANTS
    Workers,    \* instances of the market service
    Faults,     \* the kinds of faults that may happen
    MaxFaults,  \* bound: faults in a behaviour
    MaxFunds    \* payouts the escrow wallet's balance may cover (1: exact deposit)

FaultKinds ==
    {"crash",     \* the process stops anywhere
     "prepare",   \* the deal cannot be read, or the seed from Vault, or the key and
                  \* wallet cannot be made from it
     "drop",      \* the network loses a sent transfer
     "unlock",    \* the statement that releases a lock fails
     "transfer",  \* w.Transfer fails and nothing was sent
     "ambiguous", \* w.Transfer reports an error for a message that was sent
     "confirm",   \* the statement that sets the confirmed status fails
     "probe",     \* the last lock cannot be read, HasOutgoingTxTo fails, or the
                  \* tx is not among the last 20
     "commit",    \* a commit fails unnoticed (EndTx's error is dropped)
     "topic",     \* the forum topic is not deleted
     "skew",      \* a lock expires between the worker's and the database's
                  \* look at the clock
     "stall"}     \* a lock expires before its holder has sent the transfer

ASSUME WorkersAssumption == IsFiniteSet(Workers) /\ Workers # {}
ASSUME FaultsAssumption == Faults \subseteq FaultKinds /\ MaxFaults \in Nat
ASSUME FundsAssumption == MaxFunds \in Nat \ {0}

Actions == {"escrow_release", "escrow_refund"}

VARIABLES
    status,     \* market.deal.status
    postStatus, \* market.deal_post_message.status
    payable,    \* actions whose payout address parses; it was stored unchecked
    topic,      \* the deal has a forum topic
    listed,     \* the list each passed worker has read and not yet written back
    job,        \* where each payout worker is in ReleaseOrRefundEscrow
    locks,      \* market.deal_action_lock, per action type
    chain,      \* the escrow wallet on the network
    faults      \* faults so far

vars == <<status, postStatus, payable, topic, listed, job, locks, chain, faults>>

-----------------------------------------------------------------------------
Waiting(a) == IF a = "escrow_release" THEN "waiting_escrow_release"
                                      ELSE "waiting_escrow_refund"

Confirmed(a) == IF a = "escrow_release" THEN "escrow_release_confirmed"
                                        ELSE "escrow_refund_confirmed"

IdleJob == [pc |-> "idle", act |-> "escrow_release", lock |-> 0, outcome |-> "failed"]

Init ==
    /\ status = "in_progress"
    /\ postStatus \in {"passed", "deleted"}
    /\ payable \in SUBSET Actions
    /\ topic \in BOOLEAN
    /\ listed = [w \in Workers |-> "none"]
    /\ job = [w \in Workers |-> IdleJob]
    /\ locks = [a \in Actions |-> << >>]
    /\ \E f \in 1..MaxFunds :
        chain = [seqno |-> 0, funds |-> f, paid |-> [a \in Actions |-> 0],
                 inflight |-> {}]
    /\ faults = 0

Fault(kind) == kind \in Faults /\ faults < MaxFaults /\ faults' = faults + 1

-----------------------------------------------------------------------------
(* RunPassedWorker: lists the judged posts, then writes the verdict to both  *)
(* rows in one transaction, whose statements do not look at either status.   *)

ListDealPostMessageByStatus(w) ==
    /\ listed[w] = "none"
    /\ postStatus \in {"passed", "deleted"}
    /\ listed' = [listed EXCEPT ![w] = postStatus]
    /\ UNCHANGED <<status, postStatus, payable, topic, job, locks, chain, faults>>

(* The commit may fail unnoticed: nothing changes and the next round tries   *)
(* again.                                                                    *)
Settle(w, verdict, outcome, action) ==
    /\ listed[w] = verdict
    /\ \/ postStatus' = outcome /\ status' = Waiting(action) /\ UNCHANGED faults
       \/ Fault("commit") /\ UNCHANGED <<postStatus, status>>
    /\ listed' = [listed EXCEPT ![w] = "none"]
    /\ UNCHANGED <<payable, topic, job, locks, chain>>

(* Mutants: the two statuses are swapped; a failed post releases the escrow. *)
CompleteSwapped(w) == Settle(w, "passed", "escrow_release", "completed")
FailReleases(w)    == Settle(w, "deleted", "failed", "escrow_release")

CompleteDealPostMessages(w) == Settle(w, "passed", "completed", "escrow_release")

FailDealPostMessages(w) == Settle(w, "deleted", "failed", "escrow_refund")

(* Mutants: the statement has no condition on the status, or on one of two.  *)
CompleteAnyStatus ==
    /\ status # "completed"
    /\ status' = "completed"
    /\ UNCHANGED <<postStatus, payable, topic, listed, job, locks, chain, faults>>

CompleteReleasedOnly ==
    /\ status = Confirmed("escrow_release")
    /\ status' = "completed"
    /\ UNCHANGED <<postStatus, payable, topic, listed, job, locks, chain, faults>>

(* RunCompletedWorker: the statement repeats the condition of the list.      *)
SetDealStatusCompleted ==
    /\ status \in {Confirmed(a) : a \in Actions}
    /\ status' = "completed"
    /\ UNCHANGED <<postStatus, payable, topic, listed, job, locks, chain, faults>>

-----------------------------------------------------------------------------
(* ReleaseOrRefundEscrow, statement by statement.                            *)

Goto(w, pc) == job' = [job EXCEPT ![w].pc = pc]
Finish(w)   == job' = [job EXCEPT ![w] = IdleJob]

(* The deal is read and its status checked once, here; the round is given up *)
(* when its payout address does not parse, as is every later one.            *)
PrepareAction(w, a) ==
    /\ job[w].pc = "idle"
    /\ status = Waiting(a)
    /\ \/ /\ a \in payable
          /\ job' = [job EXCEPT ![w].pc = "last", ![w].act = a]
          /\ UNCHANGED faults
       \/ a \notin payable /\ UNCHANGED <<job, faults>>
       \/ Fault("prepare") /\ UNCHANGED job
    /\ UNCHANGED <<status, postStatus, payable, topic, listed, locks, chain>>

GetLastDealActionLock(w) ==
    /\ job[w].pc = "last"
    /\ LET rows == locks[job[w].act]
       IN  \/ /\ IF LastLockExpired(rows)
                 THEN job' = [job EXCEPT ![w].pc = "probe", ![w].lock = Len(rows)]
                 ELSE Goto(w, "take")
              /\ UNCHANGED faults
           \/ Fault("probe") /\ Goto(w, "take")
    /\ UNCHANGED <<status, postStatus, payable, topic, listed, locks, chain>>

(* Mutant: the search is skipped.                                            *)
HasNoOutgoingTx(w) ==
    /\ job[w].pc = "probe"
    /\ Goto(w, "giveup")
    /\ UNCHANGED <<status, postStatus, payable, topic, listed, locks, chain, faults>>

(* Recovery: is there an outgoing transfer of the amount to the payee?       *)
HasOutgoingTxTo(w) ==
    /\ job[w].pc = "probe"
    /\ \/ /\ Goto(w, IF chain.paid[job[w].act] > 0 THEN "recover" ELSE "giveup")
          /\ UNCHANGED faults
       \/ Fault("probe") /\ Goto(w, "giveup")
    /\ UNCHANGED <<status, postStatus, payable, topic, listed, locks, chain>>

SetConfirmed(a) == status' = IF status = Waiting(a) THEN Confirmed(a) ELSE status

(* The transfer was found: only the status is missing.  A failure returns    *)
(* and leaves the lock as it is.                                             *)
RecoverConfirmed(w) ==
    /\ job[w].pc = "recover"
    /\ \/ /\ SetConfirmed(job[w].act)
          /\ job' = [job EXCEPT ![w].pc = "recovered", ![w].outcome = "completed"]
          /\ UNCHANGED faults
       \/ Fault("confirm") /\ Finish(w) /\ UNCHANGED status
    /\ UNCHANGED <<postStatus, payable, topic, listed, locks, chain>>

(* It was not: the expired lock is closed and the action tried again.        *)
GiveUpExpiredLock(w) ==
    /\ job[w].pc = "giveup"
    /\ LET a == job[w].act
       IN  \/ /\ locks' = [locks EXCEPT ![a] =
                    ReleaseDealActionLock(locks[a], job[w].lock, "failed")]
              /\ UNCHANGED faults
           \/ Fault("unlock") /\ UNCHANGED locks
    /\ job' = [job EXCEPT ![w].pc = "take", ![w].lock = 0]
    /\ UNCHANGED <<status, postStatus, payable, topic, listed, chain>>

TakeLockSelect(w) ==
    /\ job[w].pc = "take"
    /\ IF HasActiveLock(locks[job[w].act]) THEN Finish(w) ELSE Goto(w, "insert")
    /\ UNCHANGED <<status, postStatus, payable, topic, listed, locks, chain, faults>>

TakeLockInsert(w) ==
    /\ job[w].pc = "insert"
    /\ LET a == job[w].act
       IN  \/ /\ locks' = [locks EXCEPT ![a] = InsertLock(locks[a])]
              /\ job' = [job EXCEPT ![w].pc = "transfer",
                                    ![w].lock = Len(locks[a]) + 1]
              /\ UNCHANGED faults
           \/ Fault("commit") /\ Goto(w, "transfer") /\ UNCHANGED locks
    /\ UNCHANGED <<status, postStatus, payable, topic, listed, chain>>

Send(w) == chain' = [chain EXCEPT !.inflight = @ \cup
               {[act |-> job[w].act, seqno |-> chain.seqno, lock |-> job[w].lock]}]

(* w.Transfer signs a message with the wallet's current seqno and returns    *)
(* once the message is handed to the network.                                *)
Transfer(w) ==
    /\ job[w].pc = "transfer"
    /\ \/ Send(w) /\ Goto(w, "confirm") /\ UNCHANGED faults
       \/ Fault("transfer") /\ Goto(w, "unlock") /\ UNCHANGED chain
       \/ Fault("ambiguous") /\ Goto(w, "unlock") /\ Send(w)
    /\ UNCHANGED <<status, postStatus, payable, topic, listed, locks>>

SetDealStatusConfirmed(w) ==
    /\ job[w].pc = "confirm"
    /\ \/ /\ SetConfirmed(job[w].act)
          /\ job' = [job EXCEPT ![w].pc = "topic"]
          /\ UNCHANGED faults
       \/ Fault("confirm") /\ Goto(w, "unlock") /\ UNCHANGED status
    /\ UNCHANGED <<postStatus, payable, topic, listed, locks, chain>>

(* Before the deferred release, or after it when the payout was recovered.   *)
DeleteDealForumTopic(w) ==
    /\ job[w].pc = "topic"
    /\ \/ topic' = FALSE /\ UNCHANGED faults
       \/ Fault("topic") /\ UNCHANGED topic
    /\ IF job[w].outcome = "completed" THEN Finish(w)
       ELSE job' = [job EXCEPT ![w].pc = "unlock", ![w].outcome = "completed"]
    /\ UNCHANGED <<status, postStatus, payable, listed, locks, chain>>

(* The release of the lock with the outcome reached so far: deferred, or     *)
(* after a recovery.                                                         *)
ReleaseLock(w) ==
    /\ job[w].pc \in {"unlock", "recovered"}
    /\ LET a == job[w].act
       IN  \/ /\ locks' = [locks EXCEPT ![a] =
                    ReleaseDealActionLock(locks[a], job[w].lock, job[w].outcome)]
              /\ UNCHANGED faults
           \/ Fault("unlock") /\ UNCHANGED locks
    /\ IF job[w].pc = "recovered" THEN Goto(w, "topic") ELSE Finish(w)
    /\ UNCHANGED <<status, postStatus, payable, topic, listed, chain>>

(* A restart loses what the goroutines hold.                                 *)
Crash(w) ==
    /\ Fault("crash")
    /\ Finish(w)
    /\ listed' = [listed EXCEPT ![w] = "none"]
    /\ UNCHANGED <<status, postStatus, payable, topic, locks, chain>>

PayoutStep(w) ==
    \/ \E a \in Actions : PrepareAction(w, a)
    \/ GetLastDealActionLock(w) \/ HasOutgoingTxTo(w) \/ RecoverConfirmed(w)
    \/ GiveUpExpiredLock(w) \/ TakeLockSelect(w) \/ TakeLockInsert(w)
    \/ Transfer(w) \/ SetDealStatusConfirmed(w) \/ DeleteDealForumTopic(w)
    \/ ReleaseLock(w)

-----------------------------------------------------------------------------
(* The network applies a message once, and only with the wallet's next       *)
(* seqno; a transfer the balance does not cover uses up the seqno only.      *)
ApplyTransfer(m) ==
    /\ m \in chain.inflight /\ m.seqno = chain.seqno
    /\ LET covered == chain.funds > 0
       IN  chain' = [seqno    |-> chain.seqno + 1,
                     funds    |-> IF covered THEN chain.funds - 1 ELSE 0,
                     paid     |-> [chain.paid EXCEPT ![m.act] =
                                     IF covered THEN @ + 1 ELSE @],
                     inflight |-> chain.inflight \ {m}]
    /\ UNCHANGED <<status, postStatus, payable, topic, listed, job, locks, faults>>

DropTransfer(m) ==
    /\ m \in chain.inflight
    /\ IF m.seqno # chain.seqno THEN UNCHANGED faults ELSE Fault("drop")
    /\ chain' = [chain EXCEPT !.inflight = @ \ {m}]
    /\ UNCHANGED <<status, postStatus, payable, topic, listed, job, locks>>

(* Five minutes after it was taken a lock expires.  By then a message sent   *)
(* under it has been applied or has lapsed, for a wallet message is valid    *)
(* for three minutes, unless the holder stalled before sending it.           *)
LockExpires(a, i) ==
    /\ i \in 1..Len(locks[a])
    /\ locks[a][i].status = "locked" /\ locks[a][i].live
    /\ \A m \in chain.inflight : ~(m.act = a /\ m.lock = i)
    /\ IF \E w \in Workers : job[w].pc = "transfer" /\ job[w].act = a /\ job[w].lock = i
       THEN Fault("stall")
       ELSE IF \E w \in Workers : job[w].pc = "take" /\ job[w].act = a THEN Fault("skew")
       ELSE UNCHANGED faults
    /\ locks' = [locks EXCEPT ![a] = ExpireLock(locks[a], i)]
    /\ UNCHANGED <<status, postStatus, payable, topic, listed, job, chain>>

Next ==
    \/ \E w \in Workers :
        \/ ListDealPostMessageByStatus(w)
        \/ CompleteDealPostMessages(w) \/ FailDealPostMessages(w)
        \/ PayoutStep(w) \/ Crash(w)
    \/ SetDealStatusCompleted
    \/ \E m \in chain.inflight : ApplyTransfer(m) \/ DropTransfer(m)
    \/ \E a \in Actions : \E i \in 1..Len(locks[a]) : LockExpires(a, i)

Spec == Init /\ [][Next]_vars

(* The goroutines' tickers keep firing and the network keeps working.  A     *)
(* lock's five minutes pass although the payout worker looks at it every     *)
(* minute, hence strong fairness for its expiry.                             *)
Fairness ==
    /\ \A w \in Workers :
        /\ WF_vars(ListDealPostMessageByStatus(w))
        /\ WF_vars(CompleteDealPostMessages(w) \/ FailDealPostMessages(w))
        /\ WF_vars(PayoutStep(w))
    /\ WF_vars(SetDealStatusCompleted)
    /\ WF_vars(\E m \in chain.inflight : ApplyTransfer(m))
    /\ SF_vars(\E a \in Actions : \E i \in 1..Len(locks[a]) : LockExpires(a, i))

FairSpec == Spec /\ Fairness

-----------------------------------------------------------------------------
DealStatuses == {"in_progress", "completed"} \cup {Waiting(a) : a \in Actions}
                                           \cup {Confirmed(a) : a \in Actions}

Steps == {"idle", "last", "probe", "recover", "recovered", "giveup", "take", "insert",
          "transfer", "confirm", "topic", "unlock"}

JobState == [pc : Steps, act : Actions, lock : Nat, outcome : {"completed", "failed"}]

Messages == [act : Actions, seqno : Nat, lock : Nat]

WalletState == [seqno : Nat, funds : Nat, paid : [Actions -> Nat],
                inflight : SUBSET Messages]

(* Types of the rows, of the goroutines' locals and of the wallet.           *)
TypeOK ==
    /\ status \in DealStatuses
    /\ postStatus \in {"passed", "deleted", "completed", "failed"}
    /\ payable \subseteq Actions
    /\ topic \in BOOLEAN
    /\ listed \in [Workers -> {"none", "passed", "deleted"}]
    /\ job \in [Workers -> JobState]
    /\ locks \in [Actions -> Seq(LockRow)]
    /\ chain \in WalletState
    /\ faults \in Nat

(* The escrow is paid out at most once, release and refund together: what    *)
(* the lock, its expiry and the search for an outgoing transfer are there    *)
(* for, whatever crashes between the transfer and the status update.         *)
PaidOnce == chain.paid["escrow_release"] + chain.paid["escrow_refund"] <= 1

(* Money moves, or is on its way, only to the side the verdict on the post   *)
(* gives it to: the lessor if the post stayed, the lessee if it was deleted. *)
(* Holds for any number of market instances and under every fault.           *)
PaidByVerdict ==
    \A a \in Actions :
        (chain.paid[a] > 0 \/ \E m \in chain.inflight : m.act = a) =>
            postStatus = IF a = "escrow_release" THEN "completed" ELSE "failed"

(* With one market instance the settlement implements the lifecycle: no      *)
(* status is taken back or skipped, and the escrow is paid out once, to the  *)
(* side it is owed to.                                                       *)
Lifecycle == INSTANCE DealLifecycle WITH
    InitialStatus <- "in_progress",
    due  <- CASE postStatus = "completed" -> "lessor"
              [] postStatus = "failed"    -> "lessee"
              [] OTHER                    -> "nobody",
    paid <- [p \in {"lessor", "lessee"} |->
                chain.paid[IF p = "lessor" THEN "escrow_release" ELSE "escrow_refund"]]

ImplementsLifecycle == Lifecycle!Spec

(* The payout the verdict on the post asks for.                              *)
Owed == IF postStatus \in {"passed", "completed"} THEN "escrow_release"
                                                  ELSE "escrow_refund"

(* README: "When last check is done escrow funds are released to lessor.     *)
(* Otherwise escrow funds are refunded to a lessee": a judged deal is        *)
(* completed in the end and its money arrives where it is owed, also when    *)
(* the process crashes between any two statements, restarts, and cannot      *)
(* reach Vault.  One whose payee stored an address that does not parse waits *)
(* for ever: nothing checked it when it was stored.                          *)
Settled ==
    Owed \in payable =>
        <>(status = "completed") /\ <>(\E a \in Actions : a = Owed /\ chain.paid[a] > 0)

-----------------------------------------------------------------------------
(* The inductive invariants behind the theorems of EscrowSettlementProofs.   *)

Outcome(a) == IF a = "escrow_release" THEN "completed" ELSE "failed"

Sent(a) == chain.paid[a] > 0 \/ \E m \in chain.inflight : m.act = a

(* Everything that is under way agrees with the verdict on the post: the     *)
(* verdict a passed worker has read, the action of a payout worker, the      *)
(* status of the deal and the money.                                         *)
ListedAgrees ==
    \A w \in Workers :
        /\ listed[w] = "passed" => postStatus \in {"passed", "completed"}
        /\ listed[w] = "deleted" => postStatus \in {"deleted", "failed"}

JobsAgree == \A w \in Workers : job[w].pc # "idle" => postStatus = Outcome(job[w].act)

StatusAgrees ==
    \A a \in Actions : status \in {Waiting(a), Confirmed(a)} => postStatus = Outcome(a)

MoneyAgrees == \A a \in Actions : Sent(a) => postStatus = Outcome(a)

VerdictInv == TypeOK /\ ListedAgrees /\ JobsAgree /\ StatusAgrees /\ MoneyAgrees

OneInstance == \A v, w \in Workers : v = w

BenignFaults == {"crash", "prepare", "drop", "unlock", "transfer", "topic"}

LastLock(a) == locks[a][Len(locks[a])]

(* A transfer that is out is remembered: by the status, by the worker about  *)
(* to set it, or by the last lock, which was not released; a message in      *)
(* flight keeps that lock from expiring.                                     *)
Remembered(a) ==
    /\ \A m \in chain.inflight : m.act = a =>
        m.lock = Len(locks[a]) /\ m.lock > 0 /\ LastLock(a).live
    /\ \/ status \in {Confirmed(a), "completed"}
       \/ \E w \in Workers : job[w].pc = "confirm"
       \/ /\ locks[a] # << >> /\ LastLock(a).status = "locked"
          /\ \A w \in Workers :
              /\ job[w].pc \in {"idle", "last", "probe", "recover", "take"}
              /\ job[w].pc = "probe" => chain.paid[a] > 0
              /\ job[w].pc = "take" => LastLock(a).live

Judged == postStatus \in {"passed", "deleted"} <=> status = "in_progress"

(* What the goroutines have read is still so when they use it.               *)
ReadsFresh ==
    \A w \in Workers :
        /\ listed[w] # "none" => status = "in_progress" /\ postStatus = listed[w]
        /\ job[w].pc \in {"last", "probe", "recover", "giveup", "take", "insert",
                          "transfer", "confirm"} => status = Waiting(job[w].act)

(* A worker that goes on to send is the first to do so, and holds the lock.  *)
SendsFirst ==
    \A w \in Workers :
        /\ job[w].pc \in {"giveup", "insert", "transfer"} =>
            \A a \in Actions : ~Sent(a)
        /\ job[w].pc \in {"transfer", "confirm"} =>
            /\ job[w].lock = Len(locks[job[w].act]) /\ job[w].lock > 0
            /\ LastLock(job[w].act).status = "locked"
        /\ job[w].pc = "transfer" => LastLock(job[w].act).live

SentRemembered == \A a \in Actions : Sent(a) => Remembered(a)

(* At most one message is in flight, and only before the payout.             *)
OneMessage ==
    /\ \A m, n \in chain.inflight : m = n
    /\ \A m \in chain.inflight, a \in Actions : chain.paid[a] = 0

PayoutInv ==
    /\ VerdictInv
    /\ Judged /\ ReadsFresh /\ SendsFirst /\ SentRemembered /\ OneMessage /\ PaidOnce
=============================================================================
