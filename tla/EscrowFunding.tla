---------------------------- MODULE EscrowFunding ----------------------------
(***************************************************************************)
(* Funding of one approved deal: the escrow wallet is created, its address *)
(* is watched for an hour, and a sufficient deposit confirms the deal or   *)
(* its time runs out.                                                      *)
(*                                                                         *)
(* Three processes take part: every market instance runs the creator       *)
(* worker (CreateEscrow) and the deposit worker (DepositStreamWorker); the *)
(* blockchain observer learns from Redis key events which addresses to     *)
(* watch and puts what it sees on a Redis stream; the lessee pays when and *)
(* what they like.  Vault keeps the seed of the wallet, under the deal.    *)
(*                                                                         *)
(* The stream is read with ">" and pending entries are never claimed, so a *)
(* deposit that was read and not processed is not read again, whether or   *)
(* not it was acknowledged.                                                *)
(***************************************************************************)
EXTENDS Naturals, Sequences, FiniteSets

CONSTANTS
    Workers,     \* instances of the market service
    EscrowAmount, \* market.deal.escrow_amount
    Capacity,    \* capacity of the observer's depositEvents channel
    MaxWallets,  \* bound: wallets generated
    MaxDeposits, \* bound: transfers to escrow wallets
    Faults,      \* the kinds of faults that may happen
    MaxFaults    \* bound: faults in a behaviour

FaultKinds ==
    {"crash",    \* a market instance stops anywhere and restarts
     "preload",  \* so it does, and ExpireTimedOutDeposits fails
     "observer", \* the observer stops anywhere and restarts
     "vault",    \* the seed is not stored
     "address",  \* the statement that stores the address fails
     "set",      \* the Redis key is not set
     "expire",   \* the statement that expires the deal fails
     "block",    \* a block or a transaction cannot be read
     "push",     \* XADD fails
     "lookup",   \* the deal of an event cannot be read
     "confirm",  \* the statement that confirms the deposit fails
     "del"}      \* the Redis key is not deleted

ASSUME WorkersAssumption == IsFiniteSet(Workers) /\ Workers # {}
ASSUME AmountAssumption == EscrowAmount \in Nat \ {0}
ASSUME CapacityAssumption == Capacity \in Nat \ {0}
ASSUME BoundAssumption == MaxWallets \in Nat /\ MaxDeposits \in Nat /\ MaxFaults \in Nat
ASSUME FaultsAssumption == Faults \subseteq FaultKinds

Wallets == 1..MaxWallets  \* 0 stands for SQL NULL, or no secret

(* An incoming transaction of a wallet, known by its number.                 *)
DepositEvents == [id : 1..MaxDeposits, wallet : Wallets, amount : 1..EscrowAmount]

VARIABLES
    status,    \* market.deal.status
    address,   \* market.deal.escrow_address
    overdue,   \* updated_at lies an hour back
    vault,     \* whose seed Vault holds for the deal
    generated, \* wallets generated so far
    creator,   \* where each creator worker is in CreateEscrow
    keys,      \* addresses with a live Redis key
    events,    \* key events on their way to the observer
    watched,   \* the observer's addresses
    deposits,  \* transfers the network has applied
    unseen,    \* of these, the ones in blocks the observer has not handled
    checked,   \* the ones a shard worker found to be of a watched address
    queue,     \* the observer's depositEvents channel
    held,      \* the event its notifier has taken and not yet pushed
    stream,    \* events:escrow_deposit entries not read yet
    reader,    \* the entries each deposit worker has read and not processed,
               \* and whether it has found the deal of the first
    faults     \* faults so far

observerVars == <<events, watched, unseen, checked, queue, held>>
vars == <<status, address, overdue, vault, generated, creator, keys, observerVars,
          deposits, stream, reader, faults>>

-----------------------------------------------------------------------------
IdleCreator == [pc |-> "idle", wallet |-> 0]
IdleReader  == [batch |-> << >>, found |-> FALSE]

Init ==
    /\ status = "approved" /\ address = 0 /\ overdue = FALSE
    /\ vault = 0 /\ generated = 0
    /\ creator = [w \in Workers |-> IdleCreator]
    /\ keys = {} /\ events = << >> /\ watched = {}
    /\ deposits = {} /\ unseen = {} /\ checked = {} /\ queue = << >> /\ held = {}
    /\ stream = << >> /\ reader = [w \in Workers |-> IdleReader]
    /\ faults = 0

Fault(kind) == kind \in Faults /\ faults < MaxFaults /\ faults' = faults + 1

-----------------------------------------------------------------------------
(* The creator worker.                                                       *)

(* The approved deal is listed and read again, and a wallet generated.       *)
CreateEscrow(w) ==
    /\ creator[w].pc = "idle"
    /\ status = "approved" /\ address = 0
    /\ generated < MaxWallets
    /\ generated' = generated + 1
    /\ creator' = [creator EXCEPT ![w] = [pc |-> "seed", wallet |-> generated + 1]]
    /\ UNCHANGED <<status, address, overdue, vault, keys, observerVars, deposits,
                   stream, reader, faults>>

(* Mutant: an error of Vault is logged and ignored.                          *)
PutEscrowSeedUnchecked(w) ==
    /\ creator[w].pc = "seed"
    /\ \/ vault' = creator[w].wallet /\ UNCHANGED faults
       \/ Fault("vault") /\ vault' \in {vault, creator[w].wallet}
    /\ creator' = [creator EXCEPT ![w].pc = "address"]
    /\ UNCHANGED <<status, address, overdue, generated, keys, observerVars, deposits,
                   stream, reader>>

(* The secret is stored under the id of the deal: a later one replaces it.   *)
(* A call that fails may have stored it all the same.                        *)
PutEscrowSeed(w) ==
    /\ creator[w].pc = "seed"
    /\ \/ /\ vault' = creator[w].wallet
          /\ creator' = [creator EXCEPT ![w].pc = "address"]
          /\ UNCHANGED faults
       \/ /\ Fault("vault")
          /\ vault' \in {vault, creator[w].wallet}
          /\ creator' = [creator EXCEPT ![w] = IdleCreator]
    /\ UNCHANGED <<status, address, overdue, generated, keys, observerVars, deposits,
                   stream, reader>>

(* The statement affects no row unless the deal is approved, which the       *)
(* worker does not notice; one that fails may have been committed.           *)
SetDealEscrowAddress(w) ==
    /\ creator[w].pc = "address"
    /\ LET Store == IF status = "approved"
                    THEN /\ status' = "waiting_escrow_deposit"
                         /\ address' = creator[w].wallet
                    ELSE UNCHANGED <<status, address>>
       IN  \/ /\ Store
              /\ creator' = [creator EXCEPT ![w].pc = "redis"]
              /\ UNCHANGED faults
           \/ /\ Fault("address")
              /\ Store \/ UNCHANGED <<status, address>>
              /\ creator' = [creator EXCEPT ![w] = IdleCreator]
    /\ UNCHANGED <<overdue, vault, generated, keys, observerVars, deposits, stream, reader>>

(* The key is set with a time to live: an "expire" event for the observer.   *)
SetEscrowKey(w) ==
    /\ creator[w].pc = "redis"
    /\ LET a == creator[w].wallet
       IN  \/ /\ keys' = keys \cup {a}
              /\ events' = Append(events, [kind |-> "expire", wallet |-> a])
              /\ UNCHANGED faults
           \/ Fault("set") /\ UNCHANGED <<keys, events>>
    /\ creator' = [creator EXCEPT ![w] = IdleCreator]
    /\ UNCHANGED <<status, address, overdue, vault, generated, watched, unseen,
                   checked, queue, held, deposits, stream, reader>>

CreatorStep(w) ==
    CreateEscrow(w) \/ PutEscrowSeed(w) \/ SetDealEscrowAddress(w) \/ SetEscrowKey(w)

-----------------------------------------------------------------------------
(* Mutant: the wrong status is asked for.                                    *)
ExpireApproved(s) == IF s = "approved" THEN "expired" ELSE s

Expire(s) == IF s = "waiting_escrow_deposit" THEN "expired" ELSE s

(* Time: an hour after the address was stored, and after the key was set.    *)

HourPasses ==
    /\ status = "waiting_escrow_deposit" /\ ~overdue
    /\ overdue' = TRUE
    /\ UNCHANGED <<status, address, vault, generated, creator, keys, observerVars,
                   deposits, stream, reader, faults>>

KeyExpires(a) ==
    /\ a \in keys
    /\ a = address /\ status = "waiting_escrow_deposit" => overdue
    /\ keys' = keys \ {a}
    /\ events' = Append(events, [kind |-> "expired", wallet |-> a])
    /\ UNCHANGED <<status, address, overdue, vault, generated, creator, watched, unseen,
                   checked, queue, held, deposits, stream, reader, faults>>

-----------------------------------------------------------------------------
(* The lessee pays to the address of the deal, at any time.                  *)
Deposit(amount) ==
    /\ address # 0
    /\ Cardinality(deposits) < MaxDeposits
    /\ LET d == [id |-> Cardinality(deposits) + 1, wallet |-> address, amount |-> amount]
       IN  deposits' = deposits \cup {d} /\ unseen' = unseen \cup {d}
    /\ UNCHANGED <<status, address, overdue, vault, generated, creator, keys, events,
                   watched, checked, queue, held, stream, reader, faults>>

-----------------------------------------------------------------------------
(* The observer.                                                             *)

(* One key event: the address is watched, or it is no longer and the deal    *)
(* is expired if it still waits.  A deleted key is no event it listens to.   *)
HandleRedisEvent ==
    /\ events # << >>
    /\ LET e == Head(events)
       IN  \/ /\ e.kind = "expire"
              /\ watched' = watched \cup {e.wallet}
              /\ UNCHANGED <<status, faults>>
           \/ /\ e.kind = "expired"
              /\ watched' = watched \ {e.wallet}
              /\ \/ /\ status' = IF e.wallet = address THEN Expire(status) ELSE status
                    /\ UNCHANGED faults
                 \/ Fault("expire") /\ UNCHANGED status
    /\ events' = Tail(events)
    /\ UNCHANGED <<address, overdue, vault, generated, creator, keys, unseen, checked,
                   queue, held, deposits, stream, reader>>

(* A transaction of a block is skipped unless its account is watched.        *)
CheckTransaction(d) ==
    /\ d \in unseen
    /\ unseen' = unseen \ {d}
    /\ \/ /\ checked' = IF d.wallet \in watched THEN checked \cup {d} ELSE checked
          /\ UNCHANGED faults
       \/ Fault("block") /\ UNCHANGED checked
    /\ UNCHANGED <<status, address, overdue, vault, generated, creator, keys, events,
                   watched, queue, held, deposits, stream, reader>>

(* It is dropped if the channel to the notifier is full.                     *)
SendDepositEvent(d) ==
    /\ d \in checked
    /\ checked' = checked \ {d}
    /\ queue' = IF Len(queue) < Capacity THEN Append(queue, d) ELSE queue
    /\ UNCHANGED <<status, address, overdue, vault, generated, creator, keys, events,
                   watched, unseen, held, deposits, stream, reader, faults>>

ShardHandleWorker ==
    (\E d \in unseen : CheckTransaction(d)) \/ (\E d \in checked : SendDepositEvent(d))

TakeDepositEvent ==
    /\ held = {} /\ queue # << >>
    /\ held' = {[event |-> Head(queue), failed |-> FALSE]}
    /\ queue' = Tail(queue)
    /\ UNCHANGED <<status, address, overdue, vault, generated, creator, keys, events,
                   watched, unseen, checked, deposits, stream, reader, faults>>

AddEscrowDepositEvent ==
    /\ \E h \in held :
        /\ ~h.failed
        /\ \/ /\ stream' = Append(stream, h.event)
              /\ held' = {}
              /\ UNCHANGED faults
           \/ /\ Fault("push")
              /\ held' = {[h EXCEPT !.failed = TRUE]}
              /\ UNCHANGED stream
    /\ UNCHANGED <<status, address, overdue, vault, generated, creator, keys, events,
                   watched, unseen, checked, queue, deposits, reader>>

(* A failed event goes back into the channel: the notifier, its only reader, *)
(* waits for room in it.                                                     *)
RequeueDepositEvent ==
    /\ \E h \in held : h.failed /\ queue' = Append(queue, h.event)
    /\ Len(queue) < Capacity
    /\ held' = {}
    /\ UNCHANGED <<status, address, overdue, vault, generated, creator, keys, events,
                   watched, unseen, checked, deposits, stream, reader, faults>>

(* A restart loads the addresses that have a key; blocks and key events that *)
(* came in between are lost, and so is what it held.                         *)
RestartObserver ==
    /\ Fault("observer")
    /\ watched' = keys
    /\ events' = << >> /\ unseen' = {} /\ checked' = {} /\ queue' = << >> /\ held' = {}
    /\ UNCHANGED <<status, address, overdue, vault, generated, creator, keys, deposits,
                   stream, reader>>

DepositNotifier == TakeDepositEvent \/ AddEscrowDepositEvent \/ RequeueDepositEvent

-----------------------------------------------------------------------------
(* The deposit worker: a batch of entries, one after the other.              *)

ReadEscrowDepositEvents(w) ==
    /\ reader[w].batch = << >> /\ stream # << >>
    /\ reader' = [reader EXCEPT ![w].batch = stream]
    /\ stream' = << >>
    /\ UNCHANGED <<status, address, overdue, vault, generated, creator, keys, observerVars,
                   deposits, faults>>

(* Mutant: off by one.                                                       *)
CoversAlmost(e) == e.amount + 1 >= EscrowAmount

Covers(e) == e.amount >= EscrowAmount

(* The deal of an entry is looked up among the waiting ones; an entry of no  *)
(* deal, or with too little money, is done with.                             *)
GetDealByEscrowAddress(w) ==
    /\ reader[w].batch # << >> /\ ~reader[w].found
    /\ LET e == Head(reader[w].batch)
           Skip == reader' = [reader EXCEPT ![w].batch = Tail(@)]
       IN  \/ /\ IF e.wallet = address /\ status = "waiting_escrow_deposit" /\ Covers(e)
                 THEN reader' = [reader EXCEPT ![w].found = TRUE]
                 ELSE Skip
              /\ UNCHANGED faults
           \/ Fault("lookup") /\ Skip
    /\ UNCHANGED <<status, address, overdue, vault, generated, creator, keys, observerVars,
                   deposits, stream>>

(* Mutant: the statement does not look at the status.                        *)
ConfirmAnyStatus(w) ==
    /\ reader[w].found
    /\ status' = "escrow_deposit_confirmed"
    /\ keys' = keys \ {address}
    /\ reader' = [reader EXCEPT ![w] = [batch |-> Tail(@.batch), found |-> FALSE]]
    /\ UNCHANGED <<address, overdue, vault, generated, creator, observerVars, deposits,
                   stream, faults>>

(* The statement affects no row when the deal has expired since, which the   *)
(* worker does not notice; then the key is deleted.                          *)
SetDealStatusEscrowDepositConfirmed(w) ==
    /\ reader[w].found
    /\ \/ /\ status' = IF status = "waiting_escrow_deposit"
                       THEN "escrow_deposit_confirmed" ELSE status
          /\ \/ keys' = keys \ {address} /\ UNCHANGED faults
             \/ Fault("del") /\ UNCHANGED keys
       \/ Fault("confirm") /\ UNCHANGED <<status, keys>>
    /\ reader' = [reader EXCEPT ![w] = [batch |-> Tail(@.batch), found |-> FALSE]]
    /\ UNCHANGED <<address, overdue, vault, generated, creator, observerVars, deposits,
                   stream>>

DepositStreamWorker(w) ==
    \/ ReadEscrowDepositEvents(w) \/ GetDealByEscrowAddress(w)
    \/ SetDealStatusEscrowDepositConfirmed(w)

(* Mutant: ExpireTimedOutDeposits looks at no time.                          *)
RestartExpiresAll(w) ==
    /\ Fault("crash") \/ Fault("preload")
    /\ creator' = [creator EXCEPT ![w] = IdleCreator]
    /\ reader' = [reader EXCEPT ![w] = IdleReader]
    /\ status' = Expire(status)
    /\ UNCHANGED <<address, overdue, vault, generated, keys, observerVars, deposits,
                   stream>>

(* A restart runs ExpireTimedOutDeposits before the workers; if that fails   *)
(* the error is logged.                                                      *)
RestartMarket(w) ==
    /\ creator' = [creator EXCEPT ![w] = IdleCreator]
    /\ reader' = [reader EXCEPT ![w] = IdleReader]
    /\ \/ Fault("crash") /\ status' = IF overdue THEN Expire(status) ELSE status
       \/ Fault("preload") /\ UNCHANGED status
    /\ UNCHANGED <<address, overdue, vault, generated, keys, observerVars, deposits,
                   stream>>

Next ==
    \/ \E w \in Workers : CreatorStep(w) \/ DepositStreamWorker(w) \/ RestartMarket(w)
    \/ HourPasses \/ \E a \in keys : KeyExpires(a)
    \/ \E amount \in 1..EscrowAmount : Deposit(amount)
    \/ HandleRedisEvent \/ ShardHandleWorker \/ DepositNotifier \/ RestartObserver

Spec == Init /\ [][Next]_vars

(* Tickers keep firing, the observer's goroutines keep running and time goes *)
(* on; nothing makes the lessee pay.                                         *)
Fairness ==
    /\ \A w \in Workers : WF_vars(CreatorStep(w)) /\ WF_vars(DepositStreamWorker(w))
    /\ WF_vars(HourPasses) /\ WF_vars(\E a \in keys : KeyExpires(a))
    /\ WF_vars(HandleRedisEvent) /\ WF_vars(ShardHandleWorker) /\ WF_vars(DepositNotifier)

FairSpec == Spec /\ Fairness
-----------------------------------------------------------------------------
(* Properties.                                                               *)

Statuses == {"approved", "waiting_escrow_deposit", "escrow_deposit_confirmed", "expired"}

CreatorState == [pc : {"idle", "seed", "address", "redis"}, wallet : Wallets \cup {0}]
ReaderState  == [batch : Seq(DepositEvents), found : BOOLEAN]
KeyEvents    == [kind : {"expire", "expired"}, wallet : Wallets]

(* Type correctness: the columns, the secret, the keys and what is in transit *)
(* between network, observer and market are of the forms the code handles.   *)
TypeOK ==
    /\ status \in Statuses
    /\ address \in Wallets \cup {0} /\ vault \in Wallets \cup {0}
    /\ overdue \in BOOLEAN
    /\ generated \in 0..MaxWallets
    /\ creator \in [Workers -> CreatorState]
    /\ keys \subseteq Wallets /\ watched \subseteq Wallets
    /\ events \in Seq(KeyEvents)
    /\ deposits \subseteq DepositEvents
    /\ unseen \subseteq DepositEvents /\ checked \subseteq DepositEvents
    /\ queue \in Seq(DepositEvents) /\ stream \in Seq(DepositEvents)
    /\ held \subseteq [event : DepositEvents, failed : BOOLEAN]
    /\ reader \in [Workers -> ReaderState]
    /\ faults \in Nat

(* The money the lessee is asked to send can be paid out again: Vault holds   *)
(* the seed of the very wallet whose address the deal shows, whatever failed *)
(* or crashed between generating wallets, storing seeds and addresses.       *)
KeyMatchesAddress == address # 0 => vault = address

(* A deal is confirmed on real money only: one transfer to its own escrow     *)
(* address that covers escrow_amount, however events were delayed, dropped or *)
(* retried on their way.                                                      *)
ConfirmedIsFunded ==
    status = "escrow_deposit_confirmed" =>
        \E d \in deposits : d.wallet = address /\ d.amount >= EscrowAmount

(* No deal expires before its hour is over, whichever of the observer and the *)
(* restarting market expires it.                                              *)
ExpiredIsOverdue == status = "expired" => overdue

Lifecycle == INSTANCE DealLifecycle
    WITH InitialStatus <- "approved", due <- "nobody",
         paid <- [p \in {"lessor", "lessee"} |-> 0]

(* The deal goes through its statuses in the order the marketplace promises:  *)
(* approved, waiting for the deposit, then confirmed or expired for good.     *)
ImplementsLifecycle == Lifecycle!Spec

(* After a fault nobody may notice that the hour is over, until the market    *)
(* restarts: the key was not set, or its expiry was, and the event is lost.   *)
ExpiryMissed ==
    /\ faults > 0 /\ address \notin keys
    /\ \A w \in Workers : creator[w] # [pc |-> "redis", wallet |-> address]
    /\ \A i \in 1..Len(events) : events[i] # [kind |-> "expired", wallet |-> address]

(* A deal does not wait for ever: it is confirmed or it expires, whatever     *)
(* fails, restarts or hangs on the way, unless the expiry of its key was      *)
(* missed.  Nothing but the key's one event and a restart expires a deal.     *)
WaitingEnds ==
    status = "waiting_escrow_deposit" ~>
        status \in {"escrow_deposit_confirmed", "expired"} \/ ExpiryMissed

(* The deal is processed once a sufficient deposit is on the chain in time,   *)
(* sent to an address the observer watches.                                   *)
DepositHonoured ==
    (\E d \in unseen : d.wallet = address /\ Covers(d) /\ address \in watched
                       /\ status = "waiting_escrow_deposit" /\ ~overdue)
        ~> status = "escrow_deposit_confirmed"
-----------------------------------------------------------------------------
(* The inductive invariant behind the theorems of EscrowFundingProofs.       *)

(* Whatever the observer and the deposit workers pass on was paid.           *)
Authentic ==
    /\ unseen \subseteq deposits /\ checked \subseteq deposits
    /\ \A h \in held : h.event \in deposits
    /\ queue \in Seq(deposits) /\ stream \in Seq(deposits)
    /\ \A w \in Workers : reader[w].batch \in Seq(deposits)

(* What a deposit worker is about to confirm covers the deal it looked up.   *)
FoundIsFunded ==
    \A w \in Workers :
        reader[w].found =>
            /\ reader[w].batch # << >>
            /\ Head(reader[w].batch).wallet = address /\ Covers(Head(reader[w].batch))
            /\ status # "approved"

(* Until its address is stored no key of the deal exists, and no hour runs.  *)
Untouched ==
    status = "approved" =>
        /\ address = 0 /\ keys = {} /\ events = << >>
        /\ \A w \in Workers : creator[w].pc # "redis"

(* The key of the address outlives the hour, unless the deal is confirmed.   *)
KeyOutlivesHour ==
    \A i \in 1..Len(events) :
        /\ events[i].kind = "expired" /\ events[i].wallet = address
        /\ status # "escrow_deposit_confirmed"
        => overdue

FundingInv ==
    /\ TypeOK /\ IsFiniteSet(deposits)
    /\ \A w \in Workers : creator[w].pc # "idle" => creator[w].wallet # 0
    /\ Authentic /\ FoundIsFunded /\ Untouched /\ KeyOutlivesHour
    /\ ConfirmedIsFunded /\ ExpiredIsOverdue

OneInstance == \A v, w \in Workers : v = w

(* With one instance: nobody else stores a seed or an address meanwhile.     *)
SeedInv ==
    /\ \A w \in Workers :
        /\ creator[w].pc \in {"seed", "address"} => status = "approved"
        /\ creator[w].pc = "address" => vault = creator[w].wallet
    /\ KeyMatchesAddress
=============================================================================
