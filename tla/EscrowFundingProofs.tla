------------------------- MODULE EscrowFundingProofs -------------------------
(***************************************************************************)
(* Theorems about EscrowFunding, for any number of market instances, any   *)
(* amount, any capacity of the observer's channel, any number of wallets   *)
(* and transfers, and any faults.                                          *)
(***************************************************************************)
EXTENDS EscrowFunding, FiniteSetTheorems, SequenceTheorems, TLAPS

(* Sequences: what is left of one, and one over a larger set.                *)
LEMMA RestOf ==
    ASSUME NEW S, NEW q \in Seq(S), q # << >>
    PROVE  Head(q) \in S /\ Tail(q) \in Seq(S)
  BY HeadTailProperties

LEMMA SeqGrows ==
    ASSUME NEW S, NEW T, S \subseteq T, NEW q \in Seq(S)
    PROVE  q \in Seq(T)
  BY SeqMonotonic

LEMMA TailElements ==
    ASSUME NEW S, NEW q \in Seq(S), q # << >>
    PROVE  /\ Len(Tail(q)) \in Nat
           /\ \A i \in 1..Len(Tail(q)) : i + 1 \in 1..Len(q) /\ Tail(q)[i] = q[i + 1]
  BY HeadTailProperties, LenProperties

LEMMA AppendElements ==
    ASSUME NEW S, NEW q \in Seq(S), NEW e \in S
    PROVE  /\ Append(q, e) \in Seq(S)
           /\ \A i \in 1..Len(Append(q, e)) :
                Append(q, e)[i] = e \/ (i \in 1..Len(q) /\ Append(q, e)[i] = q[i])
<1>1. /\ Append(q, e) \in Seq(S) /\ Len(q) \in Nat /\ Len(Append(q, e)) = Len(q) + 1
      /\ \A i \in 1..Len(q) : Append(q, e)[i] = q[i]
      /\ Append(q, e)[Len(q) + 1] = e
  BY AppendProperties, LenProperties
<1>2. QED
  BY <1>1

LEMMA FaultType == ASSUME faults \in Nat, NEW k, Fault(k) PROVE faults' \in Nat
  BY DEF Fault

(* What a step writes to a creator's locals ...                              *)
LEMMA CreatorWritten ==
    ASSUME creator \in [Workers -> CreatorState], NEW w \in Workers,
           NEW pc \in {"idle", "seed", "address", "redis"},
           \/ creator' = [creator EXCEPT ![w] = IdleCreator] /\ pc = "idle"
           \/ creator' = [creator EXCEPT ![w].pc = pc]
    PROVE  /\ creator' \in [Workers -> CreatorState]
           /\ creator'[w].pc = pc
           /\ pc # "idle" => creator'[w].wallet = creator[w].wallet
           /\ \A v \in Workers \ {w} : creator'[v] = creator[v]
<1>1. CASE creator' = [creator EXCEPT ![w] = IdleCreator] /\ pc = "idle"
  BY <1>1 DEF CreatorState, IdleCreator
<1>2. CASE creator' = [creator EXCEPT ![w].pc = pc]
  BY <1>2 DEF CreatorState
<1>3. QED
  BY <1>1, <1>2

(* ... and to a deposit worker's.                                            *)
LEMMA ReaderWritten ==
    ASSUME reader \in [Workers -> ReaderState], NEW w \in Workers,
           NEW b \in Seq(DepositEvents), NEW f \in BOOLEAN,
           \/ reader' = [reader EXCEPT ![w] = [batch |-> b, found |-> f]]
           \/ reader' = [reader EXCEPT ![w].batch = b] /\ f = reader[w].found
           \/ reader' = [reader EXCEPT ![w].found = f] /\ b = reader[w].batch
    PROVE  /\ reader' \in [Workers -> ReaderState]
           /\ reader'[w].batch = b /\ reader'[w].found = f
           /\ \A v \in Workers \ {w} : reader'[v] = reader[v]
<1>1. CASE reader' = [reader EXCEPT ![w] = [batch |-> b, found |-> f]]
  BY <1>1 DEF ReaderState
<1>2. CASE reader' = [reader EXCEPT ![w].batch = b] /\ f = reader[w].found
  BY <1>2 DEF ReaderState
<1>3. CASE reader' = [reader EXCEPT ![w].found = f] /\ b = reader[w].batch
  BY <1>3 DEF ReaderState
<1>4. QED
  BY <1>1, <1>2, <1>3

LEMMA FundingInit == Init => FundingInv
<1> SUFFICES ASSUME Init PROVE FundingInv
  OBVIOUS
<1>1. TypeOK
  <2>1. /\ creator \in [Workers -> CreatorState] /\ reader \in [Workers -> ReaderState]
    BY DEF Init, CreatorState, ReaderState, IdleCreator, IdleReader
  <2>2. events \in Seq(KeyEvents) /\ queue \in Seq(DepositEvents) /\ stream \in Seq(DepositEvents)
    BY EmptySeq DEF Init
  <2>3. generated \in 0..MaxWallets /\ faults \in Nat
    BY BoundAssumption DEF Init
  <2>4. QED
    BY <2>1, <2>2, <2>3 DEF Init, TypeOK, Statuses
<1>2. IsFiniteSet(deposits)
  BY FS_EmptySet DEF Init
<1>3. \A w \in Workers : reader[w].batch = << >> /\ reader[w].found = FALSE
  BY DEF Init, IdleReader
<1>4. Authentic /\ FoundIsFunded
  <2>1. << >> \in Seq(deposits)
    BY EmptySeq
  <2>2. QED
    BY <1>3, <2>1 DEF Init, Authentic, FoundIsFunded
<1>5. Untouched /\ KeyOutlivesHour
  BY DEF Init, Untouched, KeyOutlivesHour, IdleCreator
<1>6. QED
  BY <1>1, <1>2, <1>4, <1>5
  DEF Init, FundingInv, ConfirmedIsFunded, ExpiredIsOverdue, IdleCreator

-----------------------------------------------------------------------------
(* The creator worker.                                                       *)

LEMMA CreateKeeps ==
    ASSUME FundingInv, NEW w \in Workers, CreateEscrow(w)
    PROVE  FundingInv'
<1> USE DEF FundingInv, observerVars
<1>1. /\ creator' \in [Workers -> CreatorState]
      /\ creator'[w] = [pc |-> "seed", wallet |-> generated + 1]
      /\ generated + 1 # 0
      /\ \A v \in Workers \ {w} : creator'[v] = creator[v]
      /\ generated' \in 0..MaxWallets
  BY BoundAssumption DEF CreateEscrow, TypeOK, CreatorState, Wallets
<1>2. TypeOK'
  BY <1>1 DEF CreateEscrow, TypeOK
<1>3. Untouched'
  BY <1>1 DEF CreateEscrow, Untouched
<1>4. QED
  BY <1>1, <1>2, <1>3
  DEF CreateEscrow, Authentic, FoundIsFunded, KeyOutlivesHour, ConfirmedIsFunded,
      ExpiredIsOverdue

LEMMA SeedKeeps ==
    ASSUME FundingInv, NEW w \in Workers, PutEscrowSeed(w)
    PROVE  FundingInv'
<1> USE DEF FundingInv, observerVars
<1>1. /\ creator \in [Workers -> CreatorState] /\ creator[w].wallet \in Wallets \cup {0}
      /\ vault \in Wallets \cup {0} /\ faults \in Nat
  BY DEF TypeOK, CreatorState
<1>2. PICK pc \in {"idle", "address"} :
        \/ creator' = [creator EXCEPT ![w] = IdleCreator] /\ pc = "idle"
        \/ creator' = [creator EXCEPT ![w].pc = pc]
  BY DEF PutEscrowSeed
<1>3. /\ creator' \in [Workers -> CreatorState]
      /\ creator'[w].pc = pc
      /\ pc # "idle" => creator'[w].wallet = creator[w].wallet
      /\ \A v \in Workers \ {w} : creator'[v] = creator[v]
  BY <1>1, <1>2, CreatorWritten
<1>4. vault' \in Wallets \cup {0} /\ faults' \in Nat
  BY <1>1, FaultType DEF PutEscrowSeed
<1>5. TypeOK'
  BY <1>3, <1>4 DEF PutEscrowSeed, TypeOK
<1>6. Untouched'
  BY <1>3 DEF PutEscrowSeed, Untouched
<1>7. \A v \in Workers : creator'[v].pc # "idle" => creator'[v].wallet # 0
  BY <1>3 DEF PutEscrowSeed
<1>8. QED
  BY <1>5, <1>6, <1>7
  DEF PutEscrowSeed, Authentic, FoundIsFunded, KeyOutlivesHour, ConfirmedIsFunded,
      ExpiredIsOverdue

LEMMA AddressKeeps ==
    ASSUME FundingInv, NEW w \in Workers, SetDealEscrowAddress(w)
    PROVE  FundingInv'
<1> USE DEF FundingInv, observerVars
<1>1. /\ creator \in [Workers -> CreatorState] /\ creator[w].wallet \in Wallets \cup {0}
      /\ faults \in Nat
  BY DEF TypeOK, CreatorState
<1>2. PICK pc \in {"idle", "redis"} :
        \/ creator' = [creator EXCEPT ![w] = IdleCreator] /\ pc = "idle"
        \/ creator' = [creator EXCEPT ![w].pc = pc] /\ pc = "redis"
  BY DEF SetDealEscrowAddress
<1>3. /\ creator' \in [Workers -> CreatorState]
      /\ creator'[w].pc = pc
      /\ pc # "idle" => creator'[w].wallet = creator[w].wallet
      /\ \A v \in Workers \ {w} : creator'[v] = creator[v]
  BY <1>1, <1>2, CreatorWritten
<1>4. /\ \/ /\ status = "approved" /\ status' = "waiting_escrow_deposit"
            /\ address' = creator[w].wallet
         \/ status' = status /\ address' = address
      /\ status' = "approved" => pc # "redis"
  BY <1>2, <1>3 DEF SetDealEscrowAddress, IdleCreator
<1>5. faults' \in Nat
  BY <1>1, FaultType DEF SetDealEscrowAddress
<1>6. TypeOK'
  BY <1>1, <1>3, <1>4, <1>5 DEF SetDealEscrowAddress, TypeOK, Statuses
<1>7. Untouched'
  BY <1>3, <1>4 DEF SetDealEscrowAddress, Untouched
<1>8. \A v \in Workers : creator'[v].pc # "idle" => creator'[v].wallet # 0
  BY <1>3 DEF SetDealEscrowAddress
<1>9. FoundIsFunded' /\ ConfirmedIsFunded' /\ ExpiredIsOverdue'
  BY <1>4 DEF SetDealEscrowAddress, FoundIsFunded, ConfirmedIsFunded, ExpiredIsOverdue
<1>10. KeyOutlivesHour'
  BY <1>4 DEF SetDealEscrowAddress, KeyOutlivesHour, Untouched
<1>11. QED
  BY <1>6, <1>7, <1>8, <1>9, <1>10 DEF SetDealEscrowAddress, Authentic

LEMMA KeyKeeps ==
    ASSUME FundingInv, NEW w \in Workers, SetEscrowKey(w)
    PROVE  FundingInv'
<1> USE DEF FundingInv
<1>1. /\ creator \in [Workers -> CreatorState] /\ creator[w].wallet \in Wallets
      /\ faults \in Nat /\ events \in Seq(KeyEvents) /\ keys \subseteq Wallets
  BY DEF TypeOK, CreatorState, SetEscrowKey
<1>2. creator' = [creator EXCEPT ![w] = IdleCreator] /\ "idle" \in {"idle", "seed", "address", "redis"}
  BY DEF SetEscrowKey
<1>3. /\ creator' \in [Workers -> CreatorState]
      /\ creator'[w].pc = "idle"
      /\ \A v \in Workers \ {w} : creator'[v] = creator[v]
  BY <1>1, <1>2, CreatorWritten
<1>4. faults' \in Nat
  BY <1>1, FaultType DEF SetEscrowKey
<1> DEFINE e == [kind |-> "expire", wallet |-> creator[w].wallet]
<1>5. /\ e \in KeyEvents /\ keys' \subseteq Wallets
      /\ events' = Append(events, e) \/ events' = events
  BY <1>1 DEF SetEscrowKey, KeyEvents
<1>6. /\ events' \in Seq(KeyEvents)
      /\ \A i \in 1..Len(events') :
            events'[i] = e \/ (i \in 1..Len(events) /\ events'[i] = events[i])
  <2> HIDE DEF e
  <2>1. QED
    BY <1>1, <1>5, AppendElements
<1>7. TypeOK'
  BY <1>3, <1>4, <1>5, <1>6 DEF SetEscrowKey, TypeOK
<1>8. Untouched'
  BY <1>3 DEF SetEscrowKey, Untouched
<1>9. KeyOutlivesHour'
  BY <1>6 DEF SetEscrowKey, KeyOutlivesHour
<1>10. QED
  BY <1>3, <1>7, <1>8, <1>9
  DEF SetEscrowKey, Authentic, FoundIsFunded, ConfirmedIsFunded, ExpiredIsOverdue
-----------------------------------------------------------------------------
(* Time and the lessee.                                                      *)

LEMMA HourKeeps ==
    ASSUME FundingInv, HourPasses PROVE FundingInv'
<1> USE DEF FundingInv, observerVars
<1>1. TypeOK'
  BY DEF HourPasses, TypeOK
<1>2. KeyOutlivesHour' /\ ExpiredIsOverdue'
  BY DEF HourPasses, KeyOutlivesHour, ExpiredIsOverdue
<1>3. QED
  BY <1>1, <1>2
  DEF HourPasses, Authentic, FoundIsFunded, Untouched, ConfirmedIsFunded

LEMMA ExpiryKeeps ==
    ASSUME FundingInv, NEW a \in keys, KeyExpires(a) PROVE FundingInv'
<1> USE DEF FundingInv
<1> DEFINE e == [kind |-> "expired", wallet |-> a]
<1>1. e \in KeyEvents /\ events \in Seq(KeyEvents) /\ events' = Append(events, e)
  BY DEF TypeOK, KeyEvents, KeyExpires
<1>2. /\ events' \in Seq(KeyEvents)
      /\ \A i \in 1..Len(events') :
            events'[i] = e \/ (i \in 1..Len(events) /\ events'[i] = events[i])
  <2> HIDE DEF e
  <2>1. QED
    BY <1>1, AppendElements
<1>3. TypeOK'
  BY <1>2 DEF KeyExpires, TypeOK
<1>4. status # "approved"
  BY DEF KeyExpires, Untouched
<1>5. a = address /\ status # "escrow_deposit_confirmed" => overdue
  BY <1>4 DEF KeyExpires, ExpiredIsOverdue, TypeOK, Statuses
<1>6. KeyOutlivesHour'
  BY <1>2, <1>5 DEF KeyExpires, KeyOutlivesHour
<1>7. QED
  BY <1>3, <1>4, <1>6
  DEF KeyExpires, Authentic, FoundIsFunded, Untouched, ConfirmedIsFunded, ExpiredIsOverdue

LEMMA DepositKeeps ==
    ASSUME FundingInv, NEW amount \in 1..EscrowAmount, Deposit(amount) PROVE FundingInv'
<1> USE DEF FundingInv
<1> DEFINE d == [id |-> Cardinality(deposits) + 1, wallet |-> address, amount |-> amount]
<1>1. deposits' = deposits \cup {d} /\ unseen' = unseen \cup {d}
  BY DEF Deposit
<1>2. d \in DepositEvents
  <2>1. Cardinality(deposits) \in Nat
    BY FS_CardinalityType
  <2>2. QED
    BY <2>1, BoundAssumption DEF Deposit, DepositEvents, TypeOK
<1> HIDE DEF d
<1>3. IsFiniteSet(deposits')
  BY <1>1, FS_AddElement
<1>4. TypeOK'
  BY <1>1, <1>2 DEF Deposit, TypeOK
<1>5. Authentic'
  <2>1. deposits \subseteq deposits'
    BY <1>1
  <2>2. \A q \in Seq(deposits) : q \in Seq(deposits')
    BY <2>1, SeqGrows
  <2>3. QED
    BY <1>1, <2>2 DEF Deposit, Authentic
<1>6. ConfirmedIsFunded'
  BY <1>1 DEF Deposit, ConfirmedIsFunded
<1>7. QED
  BY <1>3, <1>4, <1>5, <1>6
  DEF Deposit, FoundIsFunded, Untouched, KeyOutlivesHour, ExpiredIsOverdue

-----------------------------------------------------------------------------
(* The observer.                                                             *)

LEMMA RedisEventKeeps ==
    ASSUME FundingInv, HandleRedisEvent PROVE FundingInv'
<1> USE DEF FundingInv
<1>1. /\ events \in Seq(KeyEvents) /\ events # << >> /\ events' = Tail(events)
      /\ faults \in Nat
  BY DEF TypeOK, HandleRedisEvent
<1>2. Head(events) \in KeyEvents /\ events' \in Seq(KeyEvents)
  BY <1>1, RestOf
<1>3. \A i \in 1..Len(events') : i + 1 \in 1..Len(events) /\ events'[i] = events[i + 1]
  BY <1>1, TailElements
<1>4. 1 \in 1..Len(events) /\ Head(events) = events[1]
  BY <1>1, HeadTailProperties, EmptySeq
<1>5. faults' \in Nat
  BY <1>1, FaultType DEF HandleRedisEvent
<1>6. status # "approved"
  BY <1>1 DEF Untouched
<1>7. \/ status' = status
      \/ status = "waiting_escrow_deposit" /\ status' = "expired" /\ overdue
  BY <1>4 DEF HandleRedisEvent, KeyOutlivesHour, Expire
<1>8. watched' \subseteq Wallets
  BY <1>2 DEF HandleRedisEvent, KeyEvents, TypeOK
<1>9. TypeOK'
  BY <1>2, <1>5, <1>7, <1>8 DEF HandleRedisEvent, TypeOK, Statuses
<1>10. KeyOutlivesHour'
  BY <1>3, <1>7 DEF HandleRedisEvent, KeyOutlivesHour
<1>11. FoundIsFunded' /\ Untouched' /\ ConfirmedIsFunded' /\ ExpiredIsOverdue'
  BY <1>6, <1>7
  DEF HandleRedisEvent, FoundIsFunded, Untouched, ConfirmedIsFunded, ExpiredIsOverdue
<1>12. QED
  BY <1>9, <1>10, <1>11 DEF HandleRedisEvent, Authentic

(* A step that only moves events about between the network and the stream.   *)
LEMMA TransitKeeps ==
    ASSUME FundingInv,
           UNCHANGED <<status, address, overdue, vault, generated, creator, keys,
                       events, watched, deposits, reader>>,
           unseen' \subseteq deposits, checked' \subseteq deposits,
           \A h \in held' : h \in [event : deposits, failed : BOOLEAN],
           queue' \in Seq(deposits), stream' \in Seq(deposits), faults' \in Nat
    PROVE  FundingInv'
<1> USE DEF FundingInv
<1>1. deposits \subseteq DepositEvents
  BY DEF TypeOK
<1>2. queue' \in Seq(DepositEvents) /\ stream' \in Seq(DepositEvents)
  BY <1>1, SeqGrows
<1>3. TypeOK'
  BY <1>1, <1>2 DEF TypeOK
<1>4. Authentic'
  BY DEF Authentic
<1>5. QED
  BY <1>3, <1>4
  DEF FoundIsFunded, Untouched, KeyOutlivesHour, ConfirmedIsFunded, ExpiredIsOverdue

LEMMA ShardKeeps ==
    ASSUME FundingInv, ShardHandleWorker PROVE FundingInv'
<1>1. /\ unseen \subseteq deposits /\ checked \subseteq deposits
      /\ \A h \in held : h \in [event : deposits, failed : BOOLEAN]
      /\ queue \in Seq(deposits) /\ stream \in Seq(deposits) /\ faults \in Nat
  BY DEF FundingInv, Authentic, TypeOK
<1>2. ASSUME NEW d \in unseen, CheckTransaction(d) PROVE FundingInv'
  <2>1. faults' \in Nat
    BY <1>1, <1>2, FaultType DEF CheckTransaction
  <2>2. QED
    BY <1>1, <1>2, <2>1, TransitKeeps DEF CheckTransaction
<1>3. ASSUME NEW d \in checked, SendDepositEvent(d) PROVE FundingInv'
  <2>1. queue' \in Seq(deposits)
    BY <1>1, <1>3, AppendProperties DEF SendDepositEvent
  <2>2. QED
    BY <1>1, <1>3, <2>1, TransitKeeps DEF SendDepositEvent
<1>4. QED
  BY <1>2, <1>3 DEF ShardHandleWorker

LEMMA NotifierKeeps ==
    ASSUME FundingInv, DepositNotifier PROVE FundingInv'
<1>1. /\ unseen \subseteq deposits /\ checked \subseteq deposits
      /\ \A h \in held : h \in [event : deposits, failed : BOOLEAN]
      /\ queue \in Seq(deposits) /\ stream \in Seq(deposits) /\ faults \in Nat
  BY DEF FundingInv, Authentic, TypeOK
<1>2. CASE TakeDepositEvent
  <2>1. Head(queue) \in deposits /\ Tail(queue) \in Seq(deposits)
    BY <1>1, <1>2, RestOf DEF TakeDepositEvent
  <2>2. QED
    BY <1>1, <1>2, <2>1, TransitKeeps DEF TakeDepositEvent
<1>3. CASE AddEscrowDepositEvent
  <2>1. PICK h \in held :
          \/ stream' = Append(stream, h.event) /\ held' = {} /\ UNCHANGED faults
          \/ Fault("push") /\ held' = {[h EXCEPT !.failed = TRUE]} /\ UNCHANGED stream
    BY <1>3 DEF AddEscrowDepositEvent
  <2>2. h \in [event : deposits, failed : BOOLEAN]
    BY <1>1
  <2>3. stream' \in Seq(deposits) /\ faults' \in Nat
    <3>1. h.event \in deposits
      BY <2>2
    <3>2. Append(stream, h.event) \in Seq(deposits)
      BY <1>1, <3>1, AppendProperties
    <3>3. QED
      BY <1>1, <2>1, <3>2, FaultType
  <2>4. \A g \in held' : g \in [event : deposits, failed : BOOLEAN]
    BY <2>1, <2>2
  <2>5. QED
    BY <1>1, <1>3, <2>3, <2>4, TransitKeeps DEF AddEscrowDepositEvent
<1>4. CASE RequeueDepositEvent
  <2>1. PICK h \in held : queue' = Append(queue, h.event)
    BY <1>4 DEF RequeueDepositEvent
  <2>2. queue' \in Seq(deposits)
    BY <1>1, <2>1, AppendProperties
  <2>3. QED
    BY <1>1, <1>4, <2>2, TransitKeeps DEF RequeueDepositEvent
<1>5. QED
  BY <1>2, <1>3, <1>4 DEF DepositNotifier

LEMMA ObserverRestartKeeps ==
    ASSUME FundingInv, RestartObserver PROVE FundingInv'
<1> USE DEF FundingInv
<1>1. << >> \in Seq(deposits) /\ << >> \in Seq(DepositEvents) /\ << >> \in Seq(KeyEvents)
  BY EmptySeq
<1>2. faults' \in Nat
  BY FaultType DEF RestartObserver, TypeOK
<1>3. TypeOK'
  BY <1>1, <1>2 DEF RestartObserver, TypeOK
<1>4. Authentic'
  BY <1>1 DEF RestartObserver, Authentic
<1>5. KeyOutlivesHour'
  BY DEF RestartObserver, KeyOutlivesHour
<1>6. QED
  BY <1>3, <1>4, <1>5
  DEF RestartObserver, FoundIsFunded, Untouched, ConfirmedIsFunded, ExpiredIsOverdue

-----------------------------------------------------------------------------
(* The deposit worker and restarts of the market.                            *)

LEMMA ReadKeeps ==
    ASSUME FundingInv, NEW w \in Workers, ReadEscrowDepositEvents(w) PROVE FundingInv'
<1> USE DEF FundingInv, observerVars
<1>1. /\ reader \in [Workers -> ReaderState] /\ stream \in Seq(DepositEvents)
      /\ reader[w].found \in BOOLEAN /\ reader' = [reader EXCEPT ![w].batch = stream]
  BY DEF TypeOK, ReaderState, ReadEscrowDepositEvents
<1>2. /\ reader' \in [Workers -> ReaderState]
      /\ reader'[w].batch = stream /\ reader'[w].found = reader[w].found
      /\ \A v \in Workers \ {w} : reader'[v] = reader[v]
  BY <1>1, ReaderWritten
<1>3. << >> \in Seq(deposits) /\ << >> \in Seq(DepositEvents)
  BY EmptySeq
<1>4. ~reader[w].found
  BY DEF ReadEscrowDepositEvents, FoundIsFunded
<1>5. TypeOK'
  BY <1>2, <1>3 DEF ReadEscrowDepositEvents, TypeOK
<1>6. Authentic'
  BY <1>2, <1>3 DEF ReadEscrowDepositEvents, Authentic
<1>7. FoundIsFunded'
  BY <1>2, <1>4 DEF ReadEscrowDepositEvents, FoundIsFunded
<1>8. QED
  BY <1>5, <1>6, <1>7
  DEF ReadEscrowDepositEvents, Untouched, KeyOutlivesHour, ConfirmedIsFunded,
      ExpiredIsOverdue

LEMMA LookupKeeps ==
    ASSUME FundingInv, NEW w \in Workers, GetDealByEscrowAddress(w) PROVE FundingInv'
<1> USE DEF FundingInv, observerVars
<1> DEFINE b == reader[w].batch
<1>1. /\ reader \in [Workers -> ReaderState] /\ b \in Seq(DepositEvents)
      /\ b \in Seq(deposits) /\ b # << >> /\ reader[w].found = FALSE
  BY DEF TypeOK, ReaderState, GetDealByEscrowAddress, Authentic
<1>2. Tail(b) \in Seq(DepositEvents) /\ Tail(b) \in Seq(deposits)
  BY <1>1, RestOf
<1>3. PICK c \in {b, Tail(b)}, f \in BOOLEAN :
        /\ \/ reader' = [reader EXCEPT ![w].batch = c] /\ f = reader[w].found
           \/ reader' = [reader EXCEPT ![w].found = f] /\ c = reader[w].batch
        /\ f => /\ c = b /\ Head(b).wallet = address /\ Covers(Head(b))
                /\ status = "waiting_escrow_deposit"
  <2>1. CASE reader' = [reader EXCEPT ![w].batch = Tail(b)]
    BY <1>1, <2>1
  <2>2. CASE /\ reader' = [reader EXCEPT ![w].found = TRUE]
             /\ Head(b).wallet = address /\ Covers(Head(b))
             /\ status = "waiting_escrow_deposit"
    BY <1>1, <2>2
  <2>3. QED
    BY <2>1, <2>2 DEF GetDealByEscrowAddress
<1>4. /\ reader' \in [Workers -> ReaderState]
      /\ reader'[w].batch = c /\ reader'[w].found = f
      /\ \A v \in Workers \ {w} : reader'[v] = reader[v]
  BY <1>1, <1>2, <1>3, ReaderWritten
<1>5. TypeOK'
  <2>1. faults' \in Nat
    BY FaultType DEF GetDealByEscrowAddress, TypeOK
  <2>2. QED
    BY <1>4, <2>1 DEF GetDealByEscrowAddress, TypeOK
<1>6. Authentic'
  BY <1>1, <1>2, <1>4 DEF GetDealByEscrowAddress, Authentic
<1>7. FoundIsFunded'
  <2>1. UNCHANGED <<status, address>>
    BY DEF GetDealByEscrowAddress
  <2>2. ASSUME NEW v \in Workers, v # w PROVE reader'[v] = reader[v]
    BY <1>4, <2>2
  <2>3. f => c = b /\ Head(b).wallet = address /\ Covers(Head(b)) /\ status # "approved"
    BY <1>3
  <2> HIDE DEF b
  <2>4. QED
    BY <1>1, <1>4, <2>1, <2>2, <2>3 DEF FoundIsFunded, Covers
<1>8. QED
  BY <1>5, <1>6, <1>7
  DEF GetDealByEscrowAddress, Untouched, KeyOutlivesHour, ConfirmedIsFunded,
      ExpiredIsOverdue

LEMMA ConfirmKeeps ==
    ASSUME FundingInv, NEW w \in Workers, SetDealStatusEscrowDepositConfirmed(w)
    PROVE  FundingInv'
<1> USE DEF FundingInv, observerVars
<1> DEFINE b == reader[w].batch
<1>1. /\ reader \in [Workers -> ReaderState] /\ b \in Seq(DepositEvents)
      /\ b \in Seq(deposits) /\ b # << >> /\ status # "approved"
      /\ Head(b).wallet = address /\ Covers(Head(b))
  BY DEF TypeOK, ReaderState, SetDealStatusEscrowDepositConfirmed, Authentic,
         FoundIsFunded
<1>2. /\ Tail(b) \in Seq(DepositEvents) /\ Tail(b) \in Seq(deposits)
      /\ Head(b) \in deposits
  BY <1>1, RestOf
<1>3. reader' = [reader EXCEPT ![w] = [batch |-> Tail(b), found |-> FALSE]]
  BY DEF SetDealStatusEscrowDepositConfirmed
<1>4. /\ reader' \in [Workers -> ReaderState]
      /\ reader'[w].batch = Tail(b) /\ reader'[w].found = FALSE
      /\ \A v \in Workers \ {w} : reader'[v] = reader[v]
  BY <1>1, <1>2, <1>3, ReaderWritten
<1>5. \/ status' = status
      \/ status = "waiting_escrow_deposit" /\ status' = "escrow_deposit_confirmed"
  BY DEF SetDealStatusEscrowDepositConfirmed
<1>6. TypeOK'
  <2>1. faults' \in Nat
    BY FaultType DEF SetDealStatusEscrowDepositConfirmed, TypeOK
  <2>2. keys' \subseteq keys
    BY DEF SetDealStatusEscrowDepositConfirmed
  <2>3. QED
    BY <1>4, <1>5, <2>1, <2>2 DEF SetDealStatusEscrowDepositConfirmed, TypeOK, Statuses
<1>7. Authentic'
  BY <1>2, <1>4 DEF SetDealStatusEscrowDepositConfirmed, Authentic
<1>8. FoundIsFunded'
  <2>1. UNCHANGED address
    BY DEF SetDealStatusEscrowDepositConfirmed
  <2>2. ASSUME NEW v \in Workers, v # w PROVE reader'[v] = reader[v]
    BY <1>4, <2>2
  <2>3. QED
    BY <1>1, <1>4, <1>5, <2>1, <2>2 DEF FoundIsFunded, Covers
<1>9. ConfirmedIsFunded'
  <2>1. Head(b).amount >= EscrowAmount
    BY <1>1 DEF Covers
  <2>2. QED
    BY <1>1, <1>2, <1>5, <2>1 DEF SetDealStatusEscrowDepositConfirmed, ConfirmedIsFunded
<1>10. Untouched' /\ KeyOutlivesHour' /\ ExpiredIsOverdue'
  BY <1>1, <1>5
  DEF SetDealStatusEscrowDepositConfirmed, Untouched, KeyOutlivesHour, ExpiredIsOverdue
<1>11. QED
  BY <1>6, <1>7, <1>8, <1>9, <1>10 DEF SetDealStatusEscrowDepositConfirmed

LEMMA RestartKeeps ==
    ASSUME FundingInv, NEW w \in Workers, RestartMarket(w) PROVE FundingInv'
<1> USE DEF FundingInv, observerVars
<1>1. /\ creator \in [Workers -> CreatorState] /\ reader \in [Workers -> ReaderState]
      /\ faults \in Nat /\ << >> \in Seq(DepositEvents) /\ << >> \in Seq(deposits)
  BY EmptySeq DEF TypeOK
<1>2. /\ creator' = [creator EXCEPT ![w] = IdleCreator]
      /\ reader' = [reader EXCEPT ![w] = [batch |-> << >>, found |-> FALSE]]
      /\ "idle" \in {"idle", "seed", "address", "redis"}
  BY DEF RestartMarket, IdleReader
<1>3. /\ creator' \in [Workers -> CreatorState]
      /\ creator'[w].pc = "idle"
      /\ \A v \in Workers \ {w} : creator'[v] = creator[v]
  BY <1>1, <1>2, CreatorWritten
<1>4. /\ reader' \in [Workers -> ReaderState]
      /\ reader'[w].batch = << >> /\ reader'[w].found = FALSE
      /\ \A v \in Workers \ {w} : reader'[v] = reader[v]
  BY <1>1, <1>2, ReaderWritten
<1>5. \/ status' = status
      \/ status = "waiting_escrow_deposit" /\ status' = "expired" /\ overdue
  BY DEF RestartMarket, Expire
<1>6. TypeOK'
  <2>1. faults' \in Nat
    BY <1>1, FaultType DEF RestartMarket
  <2>2. QED
    BY <1>3, <1>4, <1>5, <2>1 DEF RestartMarket, TypeOK, Statuses
<1>7. Authentic'
  BY <1>1, <1>4 DEF RestartMarket, Authentic
<1>8. FoundIsFunded'
  <2>1. UNCHANGED address
    BY DEF RestartMarket
  <2>2. ASSUME NEW v \in Workers, v # w PROVE reader'[v] = reader[v]
    BY <1>4, <2>2
  <2>3. QED
    BY <1>4, <1>5, <2>1, <2>2 DEF FoundIsFunded, Covers
<1>9. Untouched'
  BY <1>3, <1>5 DEF RestartMarket, Untouched
<1>10. KeyOutlivesHour' /\ ConfirmedIsFunded' /\ ExpiredIsOverdue'
  BY <1>5 DEF RestartMarket, KeyOutlivesHour, ConfirmedIsFunded, ExpiredIsOverdue
<1>11. QED
  BY <1>3, <1>6, <1>7, <1>8, <1>9, <1>10 DEF RestartMarket
-----------------------------------------------------------------------------
LEMMA FundingNext == FundingInv /\ [Next]_vars => FundingInv'
<1> SUFFICES ASSUME FundingInv, [Next]_vars PROVE FundingInv'
  OBVIOUS
<1>1. CASE UNCHANGED vars
  BY <1>1
  DEF vars, observerVars, FundingInv, TypeOK, Authentic, FoundIsFunded, Untouched,
      KeyOutlivesHour, ConfirmedIsFunded, ExpiredIsOverdue
<1>2. ASSUME NEW w \in Workers, CreatorStep(w) PROVE FundingInv'
  BY <1>2, CreateKeeps, SeedKeeps, AddressKeeps, KeyKeeps DEF CreatorStep
<1>3. ASSUME NEW w \in Workers, DepositStreamWorker(w) PROVE FundingInv'
  BY <1>3, ReadKeeps, LookupKeeps, ConfirmKeeps DEF DepositStreamWorker
<1>4. QED
  BY <1>1, <1>2, <1>3, RestartKeeps, HourKeeps, ExpiryKeeps, DepositKeeps,
     RedisEventKeeps, ShardKeeps, NotifierKeeps, ObserverRestartKeeps DEF Next

LEMMA FundingInvariant == Spec => []FundingInv
  BY FundingInit, FundingNext, PTL DEF Spec

(* For every number of instances, transfers and faults: a deal is confirmed   *)
(* only when a transfer that covers it went to its own address.               *)
THEOREM ConfirmedIsFundedTheorem == Spec => []ConfirmedIsFunded
<1>1. FundingInv => ConfirmedIsFunded
  BY DEF FundingInv
<1>2. QED
  BY <1>1, FundingInvariant, PTL

(* For every number of instances and faults: neither the observer nor a       *)
(* restarting market expires a deal before its hour is over.                  *)
THEOREM ExpiredIsOverdueTheorem == Spec => []ExpiredIsOverdue
<1>1. FundingInv => ExpiredIsOverdue
  BY DEF FundingInv
<1>2. QED
  BY <1>1, FundingInvariant, PTL

-----------------------------------------------------------------------------
(* The seed.  Only the creator and a restart touch what SeedInv is about.    *)
LEMMA SeedAside ==
    ASSUME SeedInv, UNCHANGED <<address, vault, creator>>, status' = status \/ status # "approved"
    PROVE  SeedInv'
  BY DEF SeedInv, KeyMatchesAddress

LEMMA SeedNext ==
    ASSUME OneInstance, FundingInv, SeedInv, [Next]_vars
    PROVE  SeedInv'
<1> USE DEF observerVars
<1>1. creator \in [Workers -> CreatorState]
  BY DEF FundingInv, TypeOK
<1>2. ASSUME NEW w \in Workers, CreateEscrow(w) PROVE SeedInv'
  <2>1. creator'[w].pc = "seed" /\ \A v \in Workers : v = w
    BY <1>1, <1>2 DEF CreateEscrow, CreatorState, OneInstance
  <2>2. QED
    BY <1>2, <2>1 DEF CreateEscrow, SeedInv, KeyMatchesAddress
<1>3. ASSUME NEW w \in Workers, PutEscrowSeed(w) PROVE SeedInv'
  <2>1. status = "approved" /\ address = 0 /\ \A v \in Workers : v = w
    BY <1>3 DEF PutEscrowSeed, SeedInv, FundingInv, Untouched, OneInstance
  <2>2. \/ /\ creator'[w].pc = "address" /\ creator'[w].wallet = creator[w].wallet
           /\ vault' = creator[w].wallet
        \/ creator'[w].pc = "idle"
    BY <1>1, <1>3 DEF PutEscrowSeed, CreatorState, IdleCreator
  <2>3. QED
    BY <1>3, <2>1, <2>2 DEF PutEscrowSeed, SeedInv, KeyMatchesAddress
<1>4. ASSUME NEW w \in Workers, SetDealEscrowAddress(w) PROVE SeedInv'
  <2>1. vault = creator[w].wallet /\ \A v \in Workers : v = w
    BY <1>4 DEF SetDealEscrowAddress, SeedInv, OneInstance
  <2>2. creator'[w].pc \in {"redis", "idle"}
    BY <1>1, <1>4 DEF SetDealEscrowAddress, CreatorState, IdleCreator
  <2>3. /\ address' = address \/ address' = vault
        /\ vault' = vault
    BY <1>4, <2>1 DEF SetDealEscrowAddress
  <2>4. QED
    BY <2>1, <2>2, <2>3 DEF SeedInv, KeyMatchesAddress
<1>5. ASSUME NEW w \in Workers, SetEscrowKey(w) \/ RestartMarket(w) PROVE SeedInv'
  <2>1. creator'[w].pc = "idle" /\ (\A v \in Workers : v = w) /\ UNCHANGED <<address, vault>>
    BY <1>1, <1>5 DEF SetEscrowKey, RestartMarket, IdleCreator, OneInstance
  <2>2. QED
    BY <2>1 DEF SeedInv, KeyMatchesAddress
<1>6. ASSUME NEW w \in Workers, DepositStreamWorker(w) PROVE SeedInv'
  <2>1. status' = status \/ status # "approved"
    BY <1>6 DEF DepositStreamWorker, ReadEscrowDepositEvents, GetDealByEscrowAddress,
                SetDealStatusEscrowDepositConfirmed
  <2>2. UNCHANGED <<address, vault, creator>>
    BY <1>6 DEF DepositStreamWorker, ReadEscrowDepositEvents, GetDealByEscrowAddress,
                SetDealStatusEscrowDepositConfirmed
  <2>3. QED
    BY <2>1, <2>2, SeedAside
<1>7. CASE HandleRedisEvent
  BY <1>7, SeedAside DEF HandleRedisEvent, Expire
<1>8. CASE \/ HourPasses \/ (\E a \in keys : KeyExpires(a)) \/ RestartObserver
           \/ (\E amount \in 1..EscrowAmount : Deposit(amount))
           \/ ShardHandleWorker \/ DepositNotifier \/ UNCHANGED vars
  <2>1. UNCHANGED <<status, address, vault, creator>>
    BY <1>8 DEF HourPasses, KeyExpires, RestartObserver, Deposit, ShardHandleWorker,
                CheckTransaction, SendDepositEvent, DepositNotifier, TakeDepositEvent,
                AddEscrowDepositEvent, RequeueDepositEvent, vars
  <2>2. QED
    BY <2>1, SeedAside
<1>9. QED
  BY <1>2, <1>3, <1>4, <1>5, <1>6, <1>7, <1>8 DEF Next, CreatorStep

(* With one instance of the market, whatever fails or crashes between the     *)
(* calls to Vault and the database: the seed in Vault is the one of the       *)
(* address that the lessee is shown.                                          *)
THEOREM KeyMatchesAddressTheorem ==
    ASSUME OneInstance PROVE Spec => []KeyMatchesAddress
<1>1. Init => SeedInv
  BY DEF Init, SeedInv, KeyMatchesAddress, IdleCreator
<1>2. FundingInv /\ SeedInv /\ [Next]_vars => SeedInv'
  BY SeedNext
<1>3. SeedInv => KeyMatchesAddress
  BY DEF SeedInv
<1>4. QED
  BY <1>1, <1>2, <1>3, FundingInvariant, PTL DEF Spec

-----------------------------------------------------------------------------
(* The lifecycle: the statuses a step of the detailed specification can lead *)
(* to are the successors the abstract one has.                               *)
LEMMA StatusStep ==
    ASSUME [Next]_vars
    PROVE  \/ status' = status
           \/ status = "approved" /\ status' = "waiting_escrow_deposit"
           \/ /\ status = "waiting_escrow_deposit"
              /\ status' \in {"escrow_deposit_confirmed", "expired"}
<1> DEFINE Goal ==
        \/ status' = status
        \/ status = "approved" /\ status' = "waiting_escrow_deposit"
        \/ /\ status = "waiting_escrow_deposit"
           /\ status' \in {"escrow_deposit_confirmed", "expired"}
<1>1. ASSUME NEW w \in Workers, CreatorStep(w) PROVE Goal
  BY <1>1 DEF CreatorStep, CreateEscrow, PutEscrowSeed, SetDealEscrowAddress, SetEscrowKey
<1>2. ASSUME NEW w \in Workers, DepositStreamWorker(w) PROVE Goal
  BY <1>2 DEF DepositStreamWorker, ReadEscrowDepositEvents, GetDealByEscrowAddress,
              SetDealStatusEscrowDepositConfirmed
<1>3. ASSUME NEW w \in Workers, RestartMarket(w) PROVE Goal
  BY <1>3 DEF RestartMarket, Expire
<1>4. CASE HandleRedisEvent
  BY <1>4 DEF HandleRedisEvent, Expire
<1>5. CASE \/ HourPasses \/ (\E a \in keys : KeyExpires(a)) \/ RestartObserver
           \/ (\E amount \in 1..EscrowAmount : Deposit(amount))
           \/ ShardHandleWorker \/ DepositNotifier \/ UNCHANGED vars
  BY <1>5 DEF HourPasses, KeyExpires, RestartObserver, Deposit, ShardHandleWorker,
              CheckTransaction, SendDepositEvent, DepositNotifier, TakeDepositEvent,
              AddEscrowDepositEvent, RequeueDepositEvent, vars
<1>6. QED
  BY <1>1, <1>2, <1>3, <1>4, <1>5 DEF Next

(* The detailed specification implements the abstract lifecycle of a deal:    *)
(* every step leaves the status alone or takes it to one of its successors.   *)
THEOREM ImplementsLifecycleTheorem == Spec => ImplementsLifecycle
<1>1. Init => Lifecycle!Init
  BY DEF Init, Lifecycle!Init, Lifecycle!Parties
<1>2. [Next]_vars => [Lifecycle!Next]_Lifecycle!vars
  <2> SUFFICES ASSUME [Next]_vars, status' # status PROVE Lifecycle!Advance
    BY DEF Lifecycle!Next, Lifecycle!vars
  <2>1. status' \in Lifecycle!Successors[status] /\ Lifecycle!Owed(status') = "nobody"
    BY StatusStep DEF Lifecycle!Successors, Lifecycle!Owed
  <2>2. QED
    BY <2>1 DEF Lifecycle!Advance
<1>3. QED
  BY <1>1, <1>2, PTL DEF Spec, ImplementsLifecycle, Lifecycle!Spec
=============================================================================
