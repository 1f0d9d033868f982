--------------------------- MODULE DealPostProofs ---------------------------
(***************************************************************************)
(* Theorems about DealPost, for any number of userbot instances, any       *)
(* duration of the post, any length of the hour and any faults.            *)
(***************************************************************************)
EXTENDS DealPost, SequenceTheorems, FiniteSetTheorems, TLAPS

-----------------------------------------------------------------------------
(* What the statements on market.deal_action_lock keep of the rows.         *)

(* A new lock row is appended, locked and live.                            *)
LEMMA InsertLockRow ==
    ASSUME NEW rows \in Seq(LockRow)
    PROVE  /\ InsertLock(rows) \in Seq(LockRow)
           /\ Len(InsertLock(rows)) = Len(rows) + 1
           /\ InsertLock(rows)[Len(rows) + 1].status = "locked"
           /\ InsertLock(rows)[Len(rows) + 1].live
  BY DEF InsertLock, LockRow

(* Writing one row keeps the others and the length.                        *)
LEMMA WriteLockRow ==
    ASSUME NEW rows \in Seq(LockRow), NEW i \in 1..Len(rows), NEW row \in LockRow
    PROVE  /\ [rows EXCEPT ![i] = row] \in Seq(LockRow)
           /\ Len([rows EXCEPT ![i] = row]) = Len(rows)
           /\ \A j \in 1..Len(rows) :
                [rows EXCEPT ![i] = row][j] = IF j = i THEN row ELSE rows[j]
  BY ExceptSeq, ElementOfSeq, LenProperties

(* Releasing a row of the table keeps its expiry and the other rows' too.   *)
LEMMA ReleaseLockRow ==
    ASSUME NEW rows \in Seq(LockRow), NEW i \in Nat,
           NEW s \in {"completed", "failed"}
    PROVE  /\ ReleaseDealActionLock(rows, i, s) \in Seq(LockRow)
           /\ Len(ReleaseDealActionLock(rows, i, s)) = Len(rows)
           /\ \A j \in 1..Len(rows) :
                ReleaseDealActionLock(rows, i, s)[j].live = rows[j].live
<1>1. CASE i \notin 1..Len(rows)
  BY <1>1 DEF ReleaseDealActionLock
<1>2. CASE i \in 1..Len(rows)
  <2>1. rows[i] \in LockRow
    BY <1>2, ElementOfSeq
  <2>2. [rows[i] EXCEPT !.status = s] \in LockRow
    BY <2>1 DEF LockRow
  <2>3. ReleaseDealActionLock(rows, i, s)
          = [rows EXCEPT ![i] = [rows[i] EXCEPT !.status = s]]
    BY <1>2 DEF ReleaseDealActionLock
  <2>4. [rows[i] EXCEPT !.status = s].live = rows[i].live
    BY <2>1 DEF LockRow
  <2>5. QED BY <1>2, <2>2, <2>3, <2>4, WriteLockRow
<1>3. QED BY <1>1, <1>2

(* Expiring a row of the table keeps its status and the other rows.        *)
LEMMA ExpireLockRow ==
    ASSUME NEW rows \in Seq(LockRow), NEW i \in 1..Len(rows)
    PROVE  /\ ExpireLock(rows, i) \in Seq(LockRow)
           /\ Len(ExpireLock(rows, i)) = Len(rows)
           /\ \A j \in 1..Len(rows) : ExpireLock(rows, i)[j].status = rows[j].status
           /\ \A j \in 1..Len(rows) : j # i => ExpireLock(rows, i)[j] = rows[j]
<1>1. rows[i] \in LockRow
  BY ElementOfSeq
<1>2. [rows[i] EXCEPT !.live = FALSE] \in LockRow
  BY <1>1 DEF LockRow
<1>3. [rows[i] EXCEPT !.live = FALSE].status = rows[i].status
  BY <1>1 DEF LockRow
<1>4. ExpireLock(rows, i) = [rows EXCEPT ![i] = [rows[i] EXCEPT !.live = FALSE]]
  BY DEF ExpireLock
<1>5. QED BY <1>2, <1>3, <1>4, WriteLockRow

-----------------------------------------------------------------------------
Pcs == {"idle", "last", "search", "giveup", "take", "insert", "send", "found",
        "create", "saved", "failed"}

(* What a step writes to its sender's locals ...                             *)
SenderWritten(w) ==
    \/ sender' = [sender EXCEPT ![w] = IdleSender]
    \/ \E pc \in Pcs : sender' = [sender EXCEPT ![w].pc = pc]
    \/ \E pc \in Pcs, n \in Nat : sender' = [sender EXCEPT ![w].pc = pc, ![w].lock = n]
    \/ \E pc \in Pcs, n \in Nat : sender' = [sender EXCEPT ![w].pc = pc, ![w].msg = n]
    \/ \E pc \in Pcs, n \in Nat : sender' = [sender EXCEPT ![w].pc = pc, ![w].until = n]

(* ... keeps their types.                                                    *)
LEMMA SenderType ==
    ASSUME sender \in [Workers -> SenderState], NEW w \in Workers, SenderWritten(w)
    PROVE  sender' \in [Workers -> SenderState]
<1>1. CASE sender' = [sender EXCEPT ![w] = IdleSender]
  BY <1>1 DEF SenderState, IdleSender
<1>2. ASSUME NEW pc \in Pcs, NEW n \in Nat,
             \/ sender' = [sender EXCEPT ![w].pc = pc]
             \/ sender' = [sender EXCEPT ![w].pc = pc, ![w].lock = n]
             \/ sender' = [sender EXCEPT ![w].pc = pc, ![w].msg = n]
             \/ sender' = [sender EXCEPT ![w].pc = pc, ![w].until = n]
      PROVE  sender' \in [Workers -> SenderState]
  BY <1>2 DEF SenderState, Pcs
<1>3. 0 \in Nat
  OBVIOUS
<1>4. QED
  BY <1>1, <1>2, <1>3 DEF SenderWritten

LEMMA FaultType == ASSUME faults \in Nat, NEW k, Fault(k) PROVE faults' \in Nat
  BY DEF Fault

LEMMA PublishType ==
    ASSUME TypeOK, Publish
    PROVE  channel' \in Seq([own : BOOLEAN, there : BOOLEAN, deletedAt : Nat])
  BY DEF TypeOK, Publish, Message

(* A step that leaves the row, the deal, the checkers and the clock alone.   *)
LEMMA Aside ==
    ASSUME PostInv, UNCHANGED <<status, listing, postedAt, post, checker, clock>>,
           channel' \in Seq([own : BOOLEAN, there : BOOLEAN, deletedAt : Nat]),
           locks' \in Seq(LockRow), sender' \in [Workers -> SenderState], faults' \in Nat
    PROVE  PostInv'
  BY DEF PostInv, TypeOK, RowMatchesDeal, RowRead, PassedWithinHour

LEMMA PostInitial == Init => PostInv
<1> SUFFICES ASSUME Init PROVE PostInv
  OBVIOUS
<1>1. channel \in Seq([own : BOOLEAN, there : BOOLEAN, deletedAt : Nat])
  <2>1. PICK n \in 0..MaxEarlier : channel = [i \in 1..n |-> Message(FALSE)]
    BY DEF Init
  <2>2. n \in Nat /\ Message(FALSE) \in [own : BOOLEAN, there : BOOLEAN, deletedAt : Nat]
    BY BoundAssumption DEF Message
  <2>3. ASSUME NEW S, NEW x \in S, NEW k \in Nat PROVE [i \in 1..k |-> x] \in Seq(S)
    OBVIOUS
  <2>4. QED
    BY <2>1, <2>2, <2>3
<1>2. locks \in Seq(LockRow)
  BY DEF Init
<1>3. postedAt \in Nat
  BY TimeAssumption DEF Init
<1>4. TypeOK
  BY <1>1, <1>2, <1>3
  DEF Init, TypeOK, SenderState, PostState, NoPost, IdleSender, IdleChecker
<1>5. QED
  BY <1>4 DEF Init, PostInv, RowMatchesDeal, RowRead, PassedWithinHour, NoPost, IdleChecker

-----------------------------------------------------------------------------
(* The sender, up to the row.                                                *)
LEMMA SenderAside ==
    ASSUME PostInv, NEW w \in Workers,
           \/ ListDealsWithoutPostMessage(w) \/ GetLastDealActionLock(w)
           \/ TryRecoverPostFromChannel(w) \/ GiveUpExpiredLock(w) \/ TakeLockSelect(w)
           \/ TakeLockInsert(w) \/ SendChannelMessage(w) \/ ComputeUntil(w)
           \/ ReleaseLock(w)
    PROVE  PostInv'
<1> USE DEF Goto, Finish
<1>1. /\ sender \in [Workers -> SenderState] /\ locks \in Seq(LockRow) /\ faults \in Nat
      /\ channel \in Seq([own : BOOLEAN, there : BOOLEAN, deletedAt : Nat])
      /\ clock \in Nat /\ Len(locks) \in Nat /\ Len(channel) \in Nat
      /\ sender[w].lock \in Nat
  BY DEF PostInv, TypeOK, SenderState
<1>2. CASE ListDealsWithoutPostMessage(w)
  <2>1. sender' \in [Workers -> SenderState]
    <3>1. SenderWritten(w)
      BY <1>1, <1>2 DEF ListDealsWithoutPostMessage, SenderWritten, Pcs
    <3>2. QED
      BY <1>1, <3>1, SenderType
  <2>2. QED
    BY <1>1, <1>2, <2>1, Aside DEF ListDealsWithoutPostMessage
<1>3. CASE GetLastDealActionLock(w)
  <2>1. sender' \in [Workers -> SenderState]
    <3>1. SenderWritten(w)
      BY <1>1, <1>3 DEF GetLastDealActionLock, SenderWritten, Pcs
    <3>2. QED
      BY <1>1, <3>1, SenderType
  <2>2. QED
    BY <1>1, <1>3, <2>1, Aside DEF GetLastDealActionLock
<1>4. CASE TryRecoverPostFromChannel(w)
  <2>1. sender' \in [Workers -> SenderState]
    <3>1. SenderWritten(w)
      BY <1>1, <1>4 DEF TryRecoverPostFromChannel, SenderWritten, Pcs, Present
    <3>2. QED
      BY <1>1, <3>1, SenderType
  <2>2. faults' \in Nat
    BY <1>1, <1>4, FaultType DEF TryRecoverPostFromChannel
  <2>3. QED
    BY <1>1, <1>4, <2>1, <2>2, Aside DEF TryRecoverPostFromChannel
<1>5. CASE GiveUpExpiredLock(w)
  <2>1. sender' \in [Workers -> SenderState]
    <3>1. SenderWritten(w)
      BY <1>1, <1>5 DEF GiveUpExpiredLock, SenderWritten, Pcs
    <3>2. QED
      BY <1>1, <3>1, SenderType
  <2>2. faults' \in Nat /\ locks' \in Seq(LockRow)
    <3>1. ReleaseDealActionLock(locks, sender[w].lock, "failed") \in Seq(LockRow)
      BY <1>1, ReleaseLockRow
    <3>2. QED
      BY <1>1, <1>5, <3>1, FaultType DEF GiveUpExpiredLock
  <2>3. QED
    BY <1>1, <1>5, <2>1, <2>2, Aside DEF GiveUpExpiredLock
<1>6. CASE TakeLockSelect(w)
  <2>1. sender' \in [Workers -> SenderState]
    <3>1. SenderWritten(w)
      BY <1>1, <1>6 DEF TakeLockSelect, SenderWritten, Pcs
    <3>2. QED
      BY <1>1, <3>1, SenderType
  <2>2. QED
    BY <1>1, <1>6, <2>1, Aside DEF TakeLockSelect
<1>7. CASE TakeLockInsert(w)
  <2>1. sender' \in [Workers -> SenderState]
    <3>1. SenderWritten(w)
      BY <1>1, <1>7 DEF TakeLockInsert, SenderWritten, Pcs
    <3>2. QED
      BY <1>1, <3>1, SenderType
  <2>2. faults' \in Nat /\ locks' \in Seq(LockRow)
    BY <1>1, <1>7, FaultType, InsertLockRow DEF TakeLockInsert
  <2>3. QED
    BY <1>1, <1>7, <2>1, <2>2, Aside DEF TakeLockInsert
<1>8. CASE SendChannelMessage(w)
  <2>1. sender' \in [Workers -> SenderState]
    <3>1. SenderWritten(w)
      BY <1>1, <1>8 DEF SendChannelMessage, SenderWritten, Pcs
    <3>2. QED
      BY <1>1, <3>1, SenderType
  <2>2. faults' \in Nat
    BY <1>1, <1>8, FaultType DEF SendChannelMessage
  <2>3. channel' \in Seq([own : BOOLEAN, there : BOOLEAN, deletedAt : Nat])
    BY <1>1, <1>8, PublishType DEF SendChannelMessage, PostInv
  <2>4. QED
    BY <1>1, <1>8, <2>1, <2>2, <2>3, Aside DEF SendChannelMessage
<1>9. CASE ComputeUntil(w)
  <2>1. clock + Duration * Hour \in Nat
    BY <1>1, TimeAssumption
  <2>2. sender' \in [Workers -> SenderState]
    <3>1. SenderWritten(w)
      BY <1>1, <1>9, <2>1 DEF ComputeUntil, SenderWritten, Pcs
    <3>2. QED
      BY <1>1, <3>1, SenderType
  <2>3. QED
    BY <1>1, <1>9, <2>2, Aside DEF ComputeUntil
<1>10. CASE ReleaseLock(w)
  <2>1. sender' \in [Workers -> SenderState]
    <3>1. SenderWritten(w)
      BY <1>1, <1>10 DEF ReleaseLock, SenderWritten, Pcs
    <3>2. QED
      BY <1>1, <3>1, SenderType
  <2>2. faults' \in Nat /\ locks' \in Seq(LockRow)
    BY <1>1, <1>10, FaultType, ReleaseLockRow DEF ReleaseLock
  <2>3. QED
    BY <1>1, <1>10, <2>1, <2>2, Aside DEF ReleaseLock
<1>11. QED
  BY <1>2, <1>3, <1>4, <1>5, <1>6, <1>7, <1>8, <1>9, <1>10

-----------------------------------------------------------------------------
(* The row is created while there is none, with the deal's status.           *)
LEMMA CreateStep ==
    ASSUME PostInv, NEW w \in Workers, CreateDealPostMessage(w)
    PROVE  PostInv'
<1>1. /\ sender \in [Workers -> SenderState] /\ faults \in Nat /\ clock \in Nat
      /\ sender[w].until \in Nat /\ sender[w].msg \in Nat /\ clock + Hour \in Nat
  BY TimeAssumption DEF PostInv, TypeOK, SenderState
<1>2. sender' \in [Workers -> SenderState]
  <2>1. SenderWritten(w)
    BY DEF CreateDealPostMessage, SenderWritten, Pcs, Goto
  <2>2. QED
    BY <1>1, <2>1, SenderType
<1>3. faults' \in Nat
  BY <1>1, FaultType DEF CreateDealPostMessage
<1>4. CASE UNCHANGED <<post, status>>
  BY <1>2, <1>3, <1>4, Aside DEF CreateDealPostMessage, PostInv, TypeOK
<1>5. CASE /\ post = NoPost
           /\ post' = [status |-> "exists", msg |-> sender[w].msg,
                       next |-> clock + Hour, until |-> sender[w].until]
           /\ status' = IF status = "escrow_deposit_confirmed" THEN "in_progress" ELSE status
  <2>1. status = "escrow_deposit_confirmed" /\ status' = "in_progress"
    BY <1>5 DEF PostInv, RowMatchesDeal, TypeOK
  <2>2. post' \in PostState /\ post'.status = "exists" /\ post' # NoPost
    BY <1>1, <1>5 DEF PostState, NoPost
  <2>3. \A v \in Workers : checker[v].pc = "idle"
    BY <1>5 DEF PostInv, RowRead, NoPost
  <2>4. UNCHANGED <<listing, postedAt, channel, locks, checker, clock>>
    BY DEF CreateDealPostMessage
  <2>5. TypeOK'
    BY <1>2, <1>3, <2>1, <2>2, <2>4 DEF PostInv, TypeOK
  <2>6. QED
    BY <2>1, <2>2, <2>3, <2>4, <2>5 DEF PostInv, RowMatchesDeal, RowRead, PassedWithinHour
<1>6. QED
  BY <1>4, <1>5 DEF CreateDealPostMessage

(* A verdict on the row a checker has read keeps its end, and is "passed"    *)
(* only within the last hour.                                                *)
LEMMA Judgement ==
    ASSUME post \in PostState, clock \in Nat, NEW row \in PostState,
           NEW there \in BOOLEAN, row.next <= clock, row.until = post.until
    PROVE  /\ Judge(row, there) \in PostState /\ Judge(row, there).status # "none"
           /\ Judge(row, there).msg = post.msg /\ Judge(row, there).until = post.until
           /\ Judge(row, there).status = "passed" => clock + Hour > post.until
<1> DEFINE next == row.next + Hour
<1>1. /\ next \in Nat /\ next <= clock + Hour /\ post.until \in Nat
      /\ row.next \in Nat /\ row.until \in Nat /\ clock + Hour \in Nat
  BY TimeAssumption DEF PostState
<1>2. CASE ~there
  <2>1. Judge(row, there) = [post EXCEPT !.status = "deleted"]
    BY <1>2 DEF Judge
  <2>2. QED
    BY <2>1 DEF PostState
<1>3. CASE there /\ next > row.until
  <2>1. Judge(row, there) = [post EXCEPT !.status = "passed"]
    BY <1>3 DEF Judge
  <2>2. clock + Hour > post.until
    <3>1. next > post.until
      BY <1>3
    <3> HIDE DEF next
    <3>2. QED
      BY <1>1, <3>1
  <2>3. QED
    BY <2>1, <2>2 DEF PostState
<1>4. CASE there /\ ~(next > row.until)
  <2>1. Judge(row, there) = [post EXCEPT !.status = "exists", !.next = next]
    BY <1>4 DEF Judge
  <2> HIDE DEF next
  <2>2. QED
    BY <1>1, <2>1 DEF PostState
<1>5. QED
  BY <1>2, <1>3, <1>4

LEMMA CheckerTyped ==
    ASSUME PostInv, NEW w \in Workers
    PROVE  /\ checker[w].row \in PostState /\ post \in PostState /\ clock \in Nat
           /\ checker[w].pc \in {"idle", "look", "there", "gone"} /\ faults \in Nat
  BY DEF PostInv, TypeOK

LEMMA CheckerAct ==
    ASSUME PostInv, NEW w \in Workers, CheckerStep(w)
    PROVE  PostInv'
<1>1. PICK S : S = [pc : {"idle", "look", "there", "gone"}, row : PostState]
  OBVIOUS
<1>2. checker \in [Workers -> S] /\ IdleChecker \in S
  BY <1>1 DEF PostInv, TypeOK, IdleChecker, PostState, NoPost
<1>3. CASE ListExistsWithNextCheckBefore(w)
  <2>1. /\ post.status = "exists" /\ post.next <= clock
        /\ checker' = [checker EXCEPT ![w] = [pc |-> "look", row |-> post]]
        /\ UNCHANGED <<status, listing, postedAt, channel, post, locks, sender, clock, faults>>
    BY <1>3 DEF ListExistsWithNextCheckBefore
  <2>2. [pc |-> "look", row |-> post] \in S
    BY <1>1, CheckerTyped
  <2>3. TypeOK'
    BY <1>1, <1>2, <2>1, <2>2 DEF PostInv, TypeOK
  <2>4. \A v \in Workers : v # w => checker'[v] = checker[v]
    BY <1>2, <2>1
  <2>5. checker'[w] = [pc |-> "look", row |-> post]
    BY <1>2, <2>1
  <2>6. RowRead'
    BY <2>1, <2>4, <2>5 DEF PostInv, RowRead
  <2>7. QED
    BY <2>1, <2>3, <2>6 DEF PostInv, RowMatchesDeal, PassedWithinHour
<1>4. CASE GetChannelMessageExists(w)
  <2>1. /\ checker[w].pc = "look"
        /\ UNCHANGED <<status, listing, postedAt, channel, post, locks, sender, clock>>
    BY <1>4 DEF GetChannelMessageExists
  <2>2. faults' \in Nat
    BY <1>4, CheckerTyped, FaultType DEF GetChannelMessageExists
  <2>3. \/ checker' = [checker EXCEPT ![w] = IdleChecker]
        \/ \E pc \in {"there", "gone"} : checker' = [checker EXCEPT ![w].pc = pc]
    BY <1>4 DEF GetChannelMessageExists
  <2>4. /\ checker' \in [Workers -> S]
        /\ \A v \in Workers : v # w => checker'[v] = checker[v]
        /\ checker'[w].pc # "idle" => checker'[w].row = checker[w].row
    BY <1>1, <1>2, <2>3 DEF IdleChecker
  <2>5. TypeOK'
    BY <1>1, <2>1, <2>2, <2>4 DEF PostInv, TypeOK
  <2>6. RowRead'
    BY <2>1, <2>4 DEF PostInv, RowRead
  <2>7. QED
    BY <2>1, <2>5, <2>6 DEF PostInv, RowMatchesDeal, PassedWithinHour
<1>5. CASE UpdateDealPostMessage(w)
  <2>1. /\ checker[w].pc \in {"there", "gone"}
        /\ checker' = [checker EXCEPT ![w] = IdleChecker]
        /\ UNCHANGED <<status, listing, postedAt, channel, locks, sender, clock>>
    BY <1>5 DEF UpdateDealPostMessage
  <2>2. faults' \in Nat
    BY <1>5, CheckerTyped, FaultType DEF UpdateDealPostMessage
  <2>3. /\ post.status # "none" /\ checker[w].row.next <= clock
        /\ checker[w].row.until = post.until
    BY <2>1 DEF PostInv, RowRead
  <2>4. /\ checker' \in [Workers -> S]
        /\ \A v \in Workers : checker'[v].pc # "idle" => checker'[v] = checker[v]
    BY <1>2, <2>1 DEF IdleChecker
  <2>5. /\ post' \in PostState /\ post'.status # "none"
        /\ post'.until = post.until
        /\ post'.status = "passed" => clock + Hour > post.until
    <3>1. CASE UNCHANGED post
      BY <2>3, <3>1, CheckerTyped DEF PostInv, PassedWithinHour
    <3>2. CASE post' = Judge(checker[w].row, checker[w].pc = "there")
      <4>1. (checker[w].pc = "there") \in BOOLEAN
        OBVIOUS
      <4>2. QED
        BY <2>3, <3>2, <4>1, CheckerTyped, Judgement
    <3>3. QED
      BY <1>5, <3>1, <3>2 DEF UpdateDealPostMessage
  <2>6. TypeOK'
    BY <1>1, <2>1, <2>2, <2>4, <2>5 DEF PostInv, TypeOK
  <2>7. RowRead' /\ PassedWithinHour'
    BY <2>1, <2>3, <2>4, <2>5 DEF PostInv, RowRead, PassedWithinHour
  <2>8. post # NoPost /\ post' # NoPost
    BY <2>3, <2>5 DEF NoPost
  <2>9. QED
    BY <2>1, <2>5, <2>6, <2>7, <2>8 DEF PostInv, RowMatchesDeal
<1>6. QED
  BY <1>3, <1>4, <1>5 DEF CheckerStep

-----------------------------------------------------------------------------
LEMMA PostStep == PostInv /\ [Next]_vars => PostInv'
<1> SUFFICES ASSUME PostInv, [Next]_vars PROVE PostInv'
  OBVIOUS
<1>1. /\ sender \in [Workers -> SenderState] /\ locks \in Seq(LockRow) /\ faults \in Nat
      /\ channel \in Seq([own : BOOLEAN, there : BOOLEAN, deletedAt : Nat])
      /\ clock \in Nat
  BY DEF PostInv, TypeOK
<1>2. CASE UNCHANGED vars
  BY <1>1, <1>2, Aside DEF vars
<1>3. ASSUME NEW w \in Workers, SenderStep(w) PROVE PostInv'
  BY <1>3, SenderAside, CreateStep DEF SenderStep
<1>4. ASSUME NEW w \in Workers, Crash(w) PROVE PostInv'
  <2>1. sender' \in [Workers -> SenderState]
    <3>1. SenderWritten(w)
      BY <1>4 DEF Crash, Finish, SenderWritten
    <3>2. QED
      BY <1>1, <3>1, SenderType
  <2>2. /\ faults' \in Nat
        /\ UNCHANGED <<status, listing, postedAt, channel, post, locks, clock>>
    BY <1>1, <1>4, FaultType DEF Crash
  <2>3. /\ checker' \in [Workers -> [pc : {"idle", "look", "there", "gone"}, row : PostState]]
        /\ \A v \in Workers : checker'[v].pc # "idle" => checker'[v] = checker[v]
    BY <1>4 DEF Crash, PostInv, TypeOK, IdleChecker, PostState, NoPost
  <2>4. QED
    BY <2>1, <2>2, <2>3 DEF PostInv, TypeOK, RowMatchesDeal, RowRead, PassedWithinHour
<1>5. ASSUME NEW i \in 1..Len(channel), DeleteMessage(i) PROVE PostInv'
  <2>1. PICK S : S = [own : BOOLEAN, there : BOOLEAN, deletedAt : Nat]
    OBVIOUS
  <2>2. channel \in Seq(S) /\ channel[i] \in S
    BY <1>1, <2>1, ElementOfSeq
  <2>3. [channel[i] EXCEPT !.there = FALSE, !.deletedAt = clock] \in S
    BY <1>1, <2>1, <2>2
  <2>4. channel' = [channel EXCEPT ![i] = [channel[i] EXCEPT !.there = FALSE,
                                                             !.deletedAt = clock]]
    BY <1>5, <2>2 DEF DeleteMessage
  <2>5. channel' \in Seq(S)
    BY <2>2, <2>3, <2>4, ExceptSeq
  <2>6. QED
    BY <1>1, <1>5, <2>1, <2>5, Aside DEF DeleteMessage
<1>6. ASSUME NEW i \in 1..Len(locks), LockExpires(i) PROVE PostInv'
  <2>1. locks' \in Seq(LockRow)
    BY <1>1, <1>6, ExpireLockRow DEF LockExpires
  <2>2. faults' \in Nat
    BY <1>1, <1>6, FaultType DEF LockExpires
  <2>3. QED
    BY <1>1, <1>6, <2>1, <2>2, Aside DEF LockExpires
<1>7. CASE Tick
  <2>1. /\ clock' = clock + 1 /\ clock' \in Nat
        /\ UNCHANGED <<status, listing, postedAt, channel, post, locks, sender, checker>>
    BY <1>1, <1>7 DEF Tick
  <2>2. faults' \in Nat
    BY <1>1, <1>7, FaultType DEF Tick
  <2>3. TypeOK'
    BY <2>1, <2>2 DEF PostInv, TypeOK
  <2>4. RowRead'
    <3>1. \A w \in Workers : checker[w].row.next \in Nat
      BY DEF PostInv, TypeOK, PostState
    <3>2. QED
      BY <1>1, <2>1, <3>1 DEF PostInv, RowRead
  <2>5. PassedWithinHour'
    <3>1. post.until \in Nat /\ Hour \in Nat
      BY TimeAssumption DEF PostInv, TypeOK, PostState
    <3>2. QED
      BY <1>1, <2>1, <3>1 DEF PostInv, PassedWithinHour
  <2>6. QED
    BY <2>1, <2>3, <2>4, <2>5 DEF PostInv, RowMatchesDeal
<1>8. QED
  BY <1>2, <1>3, <1>4, <1>5, <1>6, <1>7, CheckerAct DEF Next

LEMMA PostInvariant == Spec => []PostInv
  BY PostInitial, PostStep, PTL DEF Spec

(* CreateDealPostMessageAndSetDealInProgress: for any number of instances    *)
(* and any faults there is a row exactly if the deal is in progress.         *)
THEOREM RowAgreesWithDeal == Spec => []RowMatchesDeal
<1>1. PostInv => RowMatchesDeal
  BY DEF PostInv
<1>2. QED
  BY <1>1, PostInvariant, PTL

(* runDealPostCheckerOnce: whatever the clocks, crashes and interleavings of *)
(* any number of checkers, no post passes an hour before its time.           *)
THEOREM PassedInLastHour == Spec => []PassedWithinHour
<1>1. PostInv => PassedWithinHour
  BY DEF PostInv
<1>2. QED
  BY <1>1, PostInvariant, PTL

(* No sender that comes second replaces the row, and no check moves the end  *)
(* of the paid time or the message that is looked for.                       *)
THEOREM RowIsKept == Spec => RowKept
<1> DEFINE Kept == post # NoPost => post'.msg = post.msg /\ post'.until = post.until
<1>1. PostInv /\ [Next]_vars => [Kept]_vars
  <2> SUFFICES ASSUME PostInv, [Next]_vars, post # NoPost
               PROVE  post'.msg = post.msg /\ post'.until = post.until
    OBVIOUS
  <2>1. CASE UNCHANGED post
    BY <2>1
  <2>2. ASSUME NEW w \in Workers, UpdateDealPostMessage(w)
        PROVE  post'.msg = post.msg /\ post'.until = post.until
    <3>1. checker[w].row.next <= clock /\ checker[w].row.until = post.until
      BY <2>2 DEF PostInv, RowRead, UpdateDealPostMessage
    <3>2. (checker[w].pc = "there") \in BOOLEAN
      OBVIOUS
    <3>3. QED
      BY <2>1, <2>2, <3>1, <3>2, CheckerTyped, Judgement DEF UpdateDealPostMessage
  <2>3. ASSUME NEW w \in Workers, SenderStep(w) PROVE UNCHANGED post
    BY <2>3 DEF SenderStep, ListDealsWithoutPostMessage, GetLastDealActionLock,
        TryRecoverPostFromChannel, GiveUpExpiredLock, TakeLockSelect, TakeLockInsert,
        SendChannelMessage, ComputeUntil, CreateDealPostMessage, ReleaseLock
  <2>4. ASSUME NEW w \in Workers, CheckerStep(w), ~UpdateDealPostMessage(w)
        PROVE  UNCHANGED post
    BY <2>4 DEF CheckerStep, ListExistsWithNextCheckBefore, GetChannelMessageExists
  <2>5. CASE \/ \E w \in Workers : Crash(w)
             \/ \E i \in 1..Len(channel) : DeleteMessage(i)
             \/ \E i \in 1..Len(locks) : LockExpires(i)
             \/ Tick \/ UNCHANGED vars
    BY <2>5 DEF Crash, DeleteMessage, LockExpires, Tick, vars
  <2>6. QED
    BY <2>1, <2>2, <2>3, <2>4, <2>5 DEF Next
<1>2. QED
  BY <1>1, PostInvariant, PTL DEF Spec, RowKept

-----------------------------------------------------------------------------
(* One instance of the userbot posts once.                                   *)

LEMMA NotFault ==
    ASSUME NEW S, Faults \cap S = {}, NEW k \in S PROVE ~Fault(k)
  BY DEF Fault

LEMMA Typed ==
    ASSUME PostInv, NEW w \in Workers
    PROVE  /\ sender \in [Workers -> SenderState] /\ sender[w].pc \in Pcs
           /\ locks \in Seq(LockRow) /\ Len(locks) \in Nat
           /\ channel \in Seq([own : BOOLEAN, there : BOOLEAN, deletedAt : Nat])
           /\ Len(channel) \in Nat /\ clock \in Nat /\ post \in PostState
           /\ postedAt \in Nat /\ sender[w].lock \in Nat /\ sender[w].until \in Nat
  BY DEF PostInv, TypeOK, SenderState, Pcs

(* A step that adds no post.                                                 *)
LEMMA NothingPosted ==
    ASSUME OneInstance, OnceInv, PostInv', NEW w \in Workers, Witnessed(w)',
           UNCHANGED channel
    PROVE  OnceInv'
  BY DEF OneInstance, OnceInv, Own, Present

LEMMA LockingStep ==
    ASSUME OneInstance, Faults \cap Repeating = {}, OnceInv, PostInv', NEW w \in Workers,
           \/ ListDealsWithoutPostMessage(w) \/ GetLastDealActionLock(w)
           \/ TryRecoverPostFromChannel(w) \/ GiveUpExpiredLock(w) \/ TakeLockSelect(w)
           \/ TakeLockInsert(w)
    PROVE  OnceInv'
<1> USE DEF Goto, Finish
<1>1. /\ sender \in [Workers -> SenderState] /\ sender[w].pc \in Pcs
      /\ locks \in Seq(LockRow) /\ Len(locks) \in Nat /\ sender[w].lock \in Nat
      /\ Witnessed(w)
  BY Typed DEF OnceInv
<1>2. /\ UNCHANGED <<channel, post>> /\ Own' = Own
  BY DEF ListDealsWithoutPostMessage, GetLastDealActionLock, TryRecoverPostFromChannel,
         GiveUpExpiredLock, TakeLockSelect, TakeLockInsert, Own, Present
<1>3. SUFFICES Witnessed(w)'
  BY <1>2, NothingPosted
<1>4. CASE ListDealsWithoutPostMessage(w)
  <2>1. /\ sender[w].pc = "idle" /\ sender'[w].pc = "last" /\ post = NoPost
        /\ LastLocked' = LastLocked
    BY <1>1, <1>4 DEF ListDealsWithoutPostMessage, SenderState, LastLocked
  <2>2. QED
    BY <1>1, <1>2, <2>1 DEF Witnessed
<1>5. CASE GetLastDealActionLock(w)
  <2>1. sender[w].pc = "last" /\ UNCHANGED locks
    BY <1>5 DEF GetLastDealActionLock
  <2>2. CASE LastLockExpired(locks)
    <3>1. sender'[w].pc = "search" /\ LastLocked'
      BY <1>1, <1>5, <2>1, <2>2
      DEF GetLastDealActionLock, SenderState, LastLocked, LastLockExpired
    <3>2. QED
      BY <1>1, <1>2, <2>1, <3>1 DEF Witnessed
  <2>3. CASE ~LastLockExpired(locks)
    <3>1. sender'[w].pc = "take"
      BY <1>1, <1>5, <2>1, <2>3 DEF GetLastDealActionLock, SenderState
    <3>2. LastLocked => LastLive'
      BY <2>1, <2>3 DEF LastLocked, LastLive, LastLockExpired
    <3>3. QED
      BY <1>1, <1>2, <2>1, <3>1, <3>2 DEF Witnessed
  <2>4. QED
    BY <2>2, <2>3
<1>6. CASE TryRecoverPostFromChannel(w)
  <2>1. ~Fault("history") /\ ~Fault("scroll")
    BY NotFault DEF Repeating
  <2>2. /\ sender[w].pc = "search" /\ LastLocked' = LastLocked
        /\ sender'[w].pc = "found" \/ (sender'[w].pc = "giveup" /\ Present = {})
    BY <1>1, <1>6, <2>1 DEF TryRecoverPostFromChannel, SenderState, LastLocked
  <2>3. Present = {} => Own = {}
    BY DEF Own
  <2>4. QED
    BY <1>1, <1>2, <2>2, <2>3 DEF Witnessed
<1>7. CASE GiveUpExpiredLock(w)
  <2>1. sender[w].pc = "giveup" /\ sender'[w].pc = "take"
    BY <1>1, <1>7 DEF GiveUpExpiredLock, SenderState
  <2>2. QED
    BY <1>1, <1>2, <2>1 DEF Witnessed
<1>8. CASE TakeLockSelect(w)
  <2>1. sender[w].pc = "take" /\ UNCHANGED locks /\ LastLocked' = LastLocked
    BY <1>8 DEF TakeLockSelect, LastLocked
  <2>2. CASE HasActiveLock(locks)
    <3>1. sender'[w].pc = "idle"
      BY <1>1, <1>8, <2>2 DEF TakeLockSelect, IdleSender
    <3>2. LastLive => LastLocked
      BY DEF LastLive
    <3>3. QED
      BY <1>1, <1>2, <2>1, <3>1, <3>2 DEF Witnessed
  <2>3. CASE ~HasActiveLock(locks)
    <3>1. sender'[w].pc = "insert"
      BY <1>1, <1>8, <2>3 DEF TakeLockSelect, SenderState
    <3>2. ~LastLive
      BY <1>1, <2>3, EmptySeq DEF HasActiveLock, LastLive, LastLocked
    <3>3. QED
      BY <1>1, <1>2, <2>1, <3>1, <3>2 DEF Witnessed
  <2>4. QED
    BY <2>2, <2>3
<1>9. CASE TakeLockInsert(w)
  <2>1. ~Fault("commit")
    BY NotFault DEF Repeating
  <2>2. /\ sender[w].pc = "insert" /\ sender'[w].pc = "send" /\ locks' = InsertLock(locks)
    BY <1>1, <1>9, <2>1 DEF TakeLockInsert, SenderState
  <2>3. LastLocked'
    BY <1>1, <2>2, InsertLockRow DEF LastLocked
  <2>4. QED
    BY <1>1, <1>2, <2>2, <2>3 DEF Witnessed
<1>10. QED
  BY <1>4, <1>5, <1>6, <1>7, <1>8, <1>9

LEMMA PostingStep ==
    ASSUME OneInstance, Faults \cap Repeating = {}, OnceInv, PostInv', NEW w \in Workers,
           \/ SendChannelMessage(w) \/ ComputeUntil(w) \/ CreateDealPostMessage(w)
           \/ ReleaseLock(w)
    PROVE  OnceInv'
<1> USE DEF Goto, Finish
<1>1. /\ sender \in [Workers -> SenderState] /\ sender[w].pc \in Pcs
      /\ Witnessed(w)
  BY Typed DEF OnceInv
<1>2. CASE SendChannelMessage(w)
  <2>1. ~Fault("ambiguous")
    BY NotFault DEF Repeating
  <2>2. /\ sender[w].pc = "send" /\ UNCHANGED <<locks, post>>
        /\ \/ sender'[w].pc = "found" /\ Publish
           \/ sender'[w].pc = "failed" /\ UNCHANGED channel
    BY <1>1, <1>2, <2>1 DEF SendChannelMessage, SenderState
  <2>3. Own = {} /\ post' = NoPost /\ LastLocked'
    BY <1>1, <2>2 DEF Witnessed, LastLocked
  <2>4. CASE UNCHANGED channel /\ sender'[w].pc = "failed"
    <3>1. Own' = {}
      BY <2>3, <2>4 DEF Own, Present
    <3>2. QED
      BY <2>3, <2>4, <3>1, NothingPosted DEF Witnessed
  <2>5. CASE Publish /\ sender'[w].pc = "found"
    <3>1. Own' \subseteq {Len(channel) + 1}
      <4>1. /\ Len(channel) \in Nat /\ Len(channel') = Len(channel) + 1
            /\ \A i \in 1..Len(channel) : channel'[i] = channel[i]
        BY <2>5, Typed DEF Publish, OnceInv
      <4>2. QED
        BY <2>3, <4>1 DEF Own, Present
    <3>2. Witnessed(w)'
      BY <2>3, <2>5 DEF Witnessed
    <3>3. QED
      BY <3>1, <3>2 DEF OnceInv, OneInstance
  <2>6. QED
    BY <2>2, <2>4, <2>5
<1>3. CASE ComputeUntil(w)
  <2>1. /\ sender[w].pc = "found" /\ sender'[w].pc = "create"
        /\ UNCHANGED <<locks, post, channel>>
    BY <1>1, <1>3 DEF ComputeUntil, SenderState
  <2>2. Witnessed(w)'
    BY <1>1, <2>1 DEF Witnessed, LastLocked
  <2>3. QED
    BY <2>1, <2>2, NothingPosted
<1>4. CASE CreateDealPostMessage(w)
  <2>1. ~Fault("commit") /\ ~Fault("create")
    BY NotFault DEF Repeating
  <2>2. /\ sender[w].pc = "create" /\ sender'[w].pc = "saved" /\ UNCHANGED channel
        /\ post = NoPost => post'.status = "exists"
    BY <1>1, <1>4, <2>1 DEF CreateDealPostMessage, SenderState
  <2>3. post' # NoPost
    BY <1>1, <2>2 DEF Witnessed, NoPost
  <2>4. Witnessed(w)'
    BY <2>2, <2>3 DEF Witnessed
  <2>5. QED
    BY <2>2, <2>4, NothingPosted
<1>5. CASE ReleaseLock(w)
  <2>1. /\ sender[w].pc \in {"saved", "failed"} /\ sender'[w].pc = "idle"
        /\ UNCHANGED <<channel, post>>
    BY <1>1, <1>5 DEF ReleaseLock, IdleSender
  <2>2. Own' = Own
    BY <2>1 DEF Own, Present
  <2>3. Witnessed(w)'
    BY <1>1, <2>1, <2>2 DEF Witnessed
  <2>4. QED
    BY <2>1, <2>3, NothingPosted
<1>6. QED
  BY <1>2, <1>3, <1>4, <1>5

LEMMA OnceStep ==
    ASSUME OneInstance, Faults \cap Repeating = {}, OnceInv, [Next]_vars
    PROVE  OnceInv'
<1>1. PostInv'
  BY PostStep DEF OnceInv
<1>2. PICK w \in Workers : \A v \in Workers : v = w
  BY WorkersAssumption DEF OneInstance
<1>3. /\ sender \in [Workers -> SenderState] /\ sender[w].pc \in Pcs
      /\ locks \in Seq(LockRow) /\ Witnessed(w)
  BY Typed DEF OnceInv
<1>4. CASE SenderStep(w)
  BY <1>1, <1>4, LockingStep, PostingStep DEF SenderStep
<1>5. CASE /\ UNCHANGED <<sender, channel, locks, status>>
  <2>1. Own' = Own /\ LastLocked' = LastLocked /\ LastLive' = LastLive
    BY <1>5 DEF Own, Present, LastLocked, LastLive
  <2>2. post = NoPost <=> post' = NoPost
    BY <1>1, <1>5 DEF OnceInv, PostInv, RowMatchesDeal
  <2>3. Witnessed(w)'
    BY <1>3, <1>5, <2>1, <2>2 DEF Witnessed
  <2>4. QED
    BY <1>1, <1>5, <2>3, NothingPosted
<1>6. CASE Crash(w)
  <2>1. sender'[w].pc = "idle" /\ UNCHANGED <<channel, locks, post>>
    BY <1>3, <1>6 DEF Crash, Finish, IdleSender
  <2>2. Own' = Own /\ LastLocked' = LastLocked /\ (LastLive => LastLocked)
    BY <2>1 DEF Own, Present, LastLocked, LastLive
  <2>3. Witnessed(w)'
    BY <1>3, <2>1, <2>2 DEF Witnessed, Pcs
  <2>4. QED
    BY <1>1, <2>1, <2>3, NothingPosted
<1>7. ASSUME NEW i \in 1..Len(channel), DeleteMessage(i) PROVE OnceInv'
  <2>1. UNCHANGED <<sender, locks, post>>
    BY <1>7 DEF DeleteMessage
  <2>2. Own' \subseteq Own
    <3>1. /\ channel' = [channel EXCEPT ![i].there = FALSE, ![i].deletedAt = clock]
          /\ channel \in Seq([own : BOOLEAN, there : BOOLEAN, deletedAt : Nat])
      BY <1>7, Typed DEF DeleteMessage, OnceInv
    <3>2. /\ Len(channel') = Len(channel) /\ ~channel'[i].there
          /\ \A j \in 1..Len(channel) : j # i => channel'[j] = channel[j]
      BY <3>1
    <3>3. QED
      BY <3>2 DEF Own, Present
  <2>3. Witnessed(w)'
    BY <1>3, <2>1, <2>2 DEF Witnessed, LastLocked, LastLive
  <2>4. QED
    BY <1>1, <1>2, <2>2, <2>3 DEF OnceInv
<1>8. ASSUME NEW i \in 1..Len(locks), LockExpires(i) PROVE OnceInv'
  <2>1. UNCHANGED <<sender, channel, post>> /\ locks' = ExpireLock(locks, i)
    BY <1>8 DEF LockExpires
  <2>2. sender[w].pc # "take"
    <3>1. ~Fault("skew")
      BY NotFault DEF Repeating
    <3>2. QED
      BY <1>2, <1>8, <3>1 DEF LockExpires
  <2>3. Own' = Own /\ LastLocked' = LastLocked
    <3>1. /\ Len(locks') = Len(locks) /\ Len(locks) \in Nat /\ locks' \in Seq(LockRow)
          /\ \A j \in 1..Len(locks) : locks'[j].status = locks[j].status
      BY <1>3, <2>1, ExpireLockRow
    <3>2. locks # << >> /\ locks' # << >> /\ Len(locks) \in 1..Len(locks)
      BY <1>3, <3>1, EmptySeq
    <3>3. QED
      BY <2>1, <3>1, <3>2 DEF Own, Present, LastLocked
  <2>4. Witnessed(w)'
    BY <1>3, <2>1, <2>2, <2>3 DEF Witnessed
  <2>5. QED
    BY <1>1, <2>1, <2>4, NothingPosted
<1>9. ASSUME CheckerStep(w) \/ Tick \/ UNCHANGED vars
      PROVE  UNCHANGED <<sender, channel, locks, status>>
  BY <1>9 DEF CheckerStep, ListExistsWithNextCheckBefore, GetChannelMessageExists,
              UpdateDealPostMessage, Tick, vars
<1>10. QED
  BY <1>2, <1>4, <1>5, <1>6, <1>7, <1>8, <1>9 DEF Next

LEMMA OnceInitial == Init => OnceInv
<1> SUFFICES ASSUME Init PROVE OnceInv
  OBVIOUS
<1>1. Own = {}
  <2>1. PICK n \in 0..MaxEarlier : channel = [i \in 1..n |-> Message(FALSE)]
    BY DEF Init
  <2>2. n \in Nat /\ Len(channel) = n /\ \A i \in 1..n : ~channel[i].own
    BY <2>1, BoundAssumption DEF Message
  <2>3. QED
    BY <2>2 DEF Own, Present
<1>2. \A w \in Workers : sender[w].pc = "idle"
  BY DEF Init, IdleSender
<1>3. QED
  BY <1>1, <1>2, PostInitial DEF OnceInv, Witnessed

(* runDealPostSenderOnce with its lock and tryRecoverPostFromChannel, in one *)
(* instance that may crash anywhere, fail to send and fail to unlock: the    *)
(* channel never shows the advertisement twice.                              *)
THEOREM PostedOnceTheorem ==
    ASSUME OneInstance, Faults \cap Repeating = {}
    PROVE  Spec => []PostedOnce
<1>1. OnceInv /\ [Next]_vars => OnceInv'
  BY OnceStep
<1>2. OnceInv => PostedOnce
  <2> SUFFICES ASSUME OnceInv PROVE Cardinality(Own) <= 1
    BY DEF PostedOnce
  <2>1. CASE Own = {}
    BY <2>1, FS_EmptySet
  <2>2. ASSUME NEW i \in Own PROVE Cardinality(Own) <= 1
    <3>1. Own = {i}
      BY DEF OnceInv
    <3>2. Cardinality({i}) = 1
      BY FS_Singleton
    <3>3. QED
      BY <3>1, <3>2
  <2>3. QED
    BY <2>1, <2>2
<1>3. QED
  BY <1>1, <1>2, OnceInitial, PTL DEF Spec

-----------------------------------------------------------------------------
(* The verdict, for any number of instances.                                 *)

(* What may happen to the channel: messages are added, and those that are    *)
(* there are deleted, now.                                                   *)
ChannelMoves ==
    /\ Len(channel') \in Nat /\ Len(channel') >= Len(channel)
    /\ \A m \in 1..Len(channel) :
        \/ channel'[m] = channel[m]
        \/ channel[m].there /\ ~channel'[m].there /\ channel'[m].deletedAt = clock

LEMMA MessageMoves ==
    ASSUME ChannelMoves, Len(channel) \in Nat, NEW m \in 1..Len(channel)
    PROVE  /\ m \in 1..Len(channel')
           /\ m \notin Present => m \notin Present'
           /\ \A t \in Nat : (t <= clock /\ StayedUntil(m, t)) => StayedUntil(m, t)'
<1>1. m \in 1..Len(channel')
  BY DEF ChannelMoves
<1>2. m \notin Present => m \notin Present'
  BY DEF ChannelMoves, Present
<1>3. ASSUME NEW t \in Nat, t <= clock, StayedUntil(m, t) PROVE StayedUntil(m, t)'
  BY <1>3 DEF ChannelMoves, StayedUntil
<1>4. QED
  BY <1>1, <1>2, <1>3

LEMMA RowAndClock ==
    ASSUME PostInv
    PROVE  /\ Len(channel) \in Nat /\ clock \in Nat /\ post \in PostState
           /\ post.msg \in Nat /\ post.until \in Nat /\ post.next \in Nat
           /\ \A w \in Workers :
                /\ checker[w].row \in PostState /\ checker[w].row.next \in Nat
                /\ checker[w].row.until \in Nat
                /\ checker[w].pc # "idle" =>
                     /\ checker[w].row.next <= clock /\ checker[w].row.until = post.until
                     /\ post # NoPost
  BY DEF PostInv, TypeOK, PostState, RowRead

(* A step of a sender, of a lock or of the channel leaves what was seen.     *)
LEMMA SeenStays ==
    ASSUME VerdictInv, ChannelMoves, UNCHANGED <<post, checker, clock>>
    PROVE  RowHasMessage' /\ VerdictTrue' /\ \A w \in Workers : CheckerSaw(w)'
<1>1. PostInv
  BY DEF VerdictInv
<1>2. /\ Len(channel) \in Nat /\ clock \in Nat /\ post.until \in Nat
      /\ \A w \in Workers :
           /\ checker[w].row.next \in Nat
           /\ checker[w].pc # "idle" => checker[w].row.next <= clock /\ post # NoPost
  BY <1>1, RowAndClock
<1>3. CASE post = NoPost
  <2>1. \A w \in Workers : checker'[w].pc = "idle"
    BY <1>2, <1>3
  <2>2. post' = NoPost /\ post'.status = "none"
    BY <1>3 DEF NoPost
  <2>3. QED
    BY <2>1, <2>2 DEF RowHasMessage, VerdictTrue, CheckerSaw
<1>4. CASE post # NoPost
  <2>1. post.msg \in 1..Len(channel)
    BY <1>4 DEF VerdictInv, RowHasMessage
  <2>2. /\ post.msg \in 1..Len(channel')
        /\ post.msg \notin Present => post.msg \notin Present'
        /\ \A t \in Nat : (t <= clock /\ StayedUntil(post.msg, t)) =>
             channel'[post.msg].there \/ channel'[post.msg].deletedAt >= t
    BY <1>2, <2>1, MessageMoves DEF StayedUntil
  <2>3. RowHasMessage'
    BY <2>2 DEF RowHasMessage
  <2>4. VerdictTrue'
    <3>1. CASE channel'[post.msg] = channel[post.msg]
      BY <2>2, <3>1 DEF VerdictInv, VerdictTrue
    <3>2. CASE channel'[post.msg].deletedAt = clock
      <4>1. post.status = "passed" => clock + Hour > post.until
        BY <1>1 DEF PostInv, PassedWithinHour
      <4>2. QED
        BY <2>2, <3>2, <4>1 DEF VerdictInv, VerdictTrue
    <3>3. QED
      BY <2>1, <3>1, <3>2 DEF ChannelMoves
  <2>5. ASSUME NEW w \in Workers PROVE CheckerSaw(w)'
    BY <1>2, <2>2 DEF VerdictInv, CheckerSaw, StayedUntil
  <2>6. QED
    BY <2>3, <2>4, <2>5
<1>5. QED
  BY <1>3, <1>4

(* The other senders do not mind.                                            *)
LEMMA OthersKnow ==
    ASSUME VerdictInv, ChannelMoves, NEW w \in Workers, SenderKnows(w)',
           \A v \in Workers \ {w} : sender'[v] = sender[v]
    PROVE  \A v \in Workers : SenderKnows(v)'
<1> SUFFICES ASSUME NEW v \in Workers, v # w PROVE SenderKnows(v)'
  OBVIOUS
<1>1. \A m \in 1..Len(channel) : m \in 1..Len(channel')
  BY RowAndClock DEF VerdictInv, ChannelMoves
<1>2. sender'[v] = sender[v] /\ SenderKnows(v)
  BY DEF VerdictInv
<1>3. QED
  BY <1>1, <1>2 DEF SenderKnows

LEMMA ChannelKept == ASSUME Len(channel) \in Nat, UNCHANGED channel PROVE ChannelMoves
  BY DEF ChannelMoves

LEMMA SenderJudges ==
    ASSUME Faults \cap Misleading = {}, VerdictInv, PostInv', NEW w \in Workers,
           \/ ListDealsWithoutPostMessage(w) \/ GetLastDealActionLock(w)
           \/ TryRecoverPostFromChannel(w) \/ GiveUpExpiredLock(w) \/ TakeLockSelect(w)
           \/ TakeLockInsert(w) \/ SendChannelMessage(w) \/ ComputeUntil(w)
           \/ ReleaseLock(w)
    PROVE  VerdictInv'
<1> USE DEF Goto, Finish
<1>1. /\ sender \in [Workers -> SenderState] /\ Len(channel) \in Nat /\ clock \in Nat
      /\ channel \in Seq([own : BOOLEAN, there : BOOLEAN, deletedAt : Nat])
      /\ SenderKnows(w)
  BY Typed DEF VerdictInv
<1>2. UNCHANGED <<post, checker, clock, postedAt>>
  BY DEF ListDealsWithoutPostMessage, GetLastDealActionLock, TryRecoverPostFromChannel,
         GiveUpExpiredLock, TakeLockSelect, TakeLockInsert, SendChannelMessage,
         ComputeUntil, ReleaseLock
<1>3. \A v \in Workers \ {w} : sender'[v] = sender[v]
  BY <1>1 DEF ListDealsWithoutPostMessage, GetLastDealActionLock, TryRecoverPostFromChannel,
         GiveUpExpiredLock, TakeLockSelect, TakeLockInsert, SendChannelMessage,
         ComputeUntil, ReleaseLock
<1>4. SUFFICES ChannelMoves /\ SenderKnows(w)'
  BY <1>2, <1>3, SeenStays, OthersKnow DEF VerdictInv
<1>5. CASE SendChannelMessage(w)
  <2>1. ~Fault("noid")
    BY NotFault DEF Misleading
  <2>2. /\ sender[w].pc = "send"
        /\ \/ /\ Publish /\ sender'[w].pc = "found" /\ sender'[w].msg = Len(channel) + 1
           \/ /\ Publish \/ UNCHANGED channel
              /\ sender'[w].pc = "failed"
    BY <1>1, <1>5, <2>1 DEF SendChannelMessage, SenderState
  <2>3. Publish => /\ Len(channel') = Len(channel) + 1
                   /\ \A m \in 1..Len(channel) : channel'[m] = channel[m]
    BY <1>1 DEF Publish
  <2>4. ChannelMoves
    BY <1>1, <2>2, <2>3 DEF ChannelMoves
  <2>5. SenderKnows(w)'
    BY <1>1, <1>2, <2>2, <2>3 DEF SenderKnows
  <2>6. QED
    BY <2>4, <2>5
<1>6. ASSUME UNCHANGED channel PROVE ChannelMoves
  BY <1>1, <1>6, ChannelKept
<1>7. CASE ListDealsWithoutPostMessage(w)
  <2>1. sender'[w].pc = "last" /\ UNCHANGED channel
    BY <1>1, <1>7 DEF ListDealsWithoutPostMessage, SenderState
  <2>2. QED
    BY <1>6, <2>1 DEF SenderKnows
<1>8. CASE TryRecoverPostFromChannel(w)
  <2>1. /\ sender[w].pc = "search" /\ UNCHANGED channel
        /\ \/ sender'[w].pc = "found" /\ sender'[w].msg \in 1..Len(channel)
           \/ sender'[w].pc = "giveup"
    BY <1>1, <1>8 DEF TryRecoverPostFromChannel, SenderState, Present
  <2>2. QED
    BY <1>1, <1>2, <1>6, <2>1 DEF SenderKnows
<1>9. CASE ComputeUntil(w)
  <2>1. /\ sender[w].pc = "found" /\ sender'[w].pc = "create" /\ UNCHANGED channel
        /\ sender'[w].msg = sender[w].msg
    BY <1>1, <1>9 DEF ComputeUntil, SenderState
  <2>2. QED
    BY <1>1, <1>2, <1>6, <2>1 DEF SenderKnows
<1>10. CASE GetLastDealActionLock(w) \/ GiveUpExpiredLock(w) \/ TakeLockSelect(w)
              \/ TakeLockInsert(w) \/ ReleaseLock(w)
  <2>1. /\ sender[w].pc # "idle" /\ UNCHANGED channel
        /\ sender'[w].pc \in {"idle", "search", "take", "insert", "send"}
    BY <1>1, <1>10 DEF GetLastDealActionLock, GiveUpExpiredLock, TakeLockSelect,
                       TakeLockInsert, ReleaseLock, SenderState, IdleSender
  <2>2. QED
    BY <1>1, <1>2, <1>6, <2>1 DEF SenderKnows
<1>11. QED
  BY <1>5, <1>7, <1>8, <1>9, <1>10

LEMMA CreateJudges ==
    ASSUME VerdictInv, PostInv', NEW w \in Workers, CreateDealPostMessage(w)
    PROVE  VerdictInv'
<1>1. /\ sender \in [Workers -> SenderState] /\ Len(channel) \in Nat /\ clock \in Nat
      /\ SenderKnows(w) /\ sender[w].until \in Nat
  BY Typed DEF VerdictInv
<1>2. /\ UNCHANGED <<channel, checker, clock, postedAt>> /\ sender[w].pc = "create"
      /\ sender'[w].pc \in {"saved", "failed"}
      /\ \A v \in Workers \ {w} : sender'[v] = sender[v]
  BY <1>1 DEF CreateDealPostMessage, Goto, SenderState
<1>3. ChannelMoves /\ SenderKnows(w)'
  BY <1>1, <1>2, ChannelKept DEF SenderKnows
<1>4. CASE UNCHANGED post
  BY <1>2, <1>3, <1>4, SeenStays, OthersKnow DEF VerdictInv
<1>5. CASE post = NoPost /\ post' = [status |-> "exists", msg |-> sender[w].msg,
                                     next |-> clock + Hour, until |-> sender[w].until]
  <2>1. post' # NoPost /\ post'.status = "exists"
    BY <1>5 DEF NoPost
  <2>2. \A v \in Workers : SenderKnows(v)'
    BY <1>2, <1>3, <2>1, OthersKnow
  <2>3. \A v \in Workers : checker'[v].pc = "idle"
    BY <1>2, <1>5, RowAndClock DEF VerdictInv
  <2>4. RowHasMessage'
    BY <1>1, <1>2, <1>5 DEF SenderKnows, RowHasMessage
  <2>5. VerdictTrue' /\ \A v \in Workers : CheckerSaw(v)'
    BY <2>1, <2>3 DEF VerdictTrue, CheckerSaw
  <2>6. QED
    BY <2>2, <2>4, <2>5 DEF VerdictInv
<1>6. QED
  BY <1>4, <1>5 DEF CreateDealPostMessage

(* A step of a checker: senders and channel are left alone.                  *)
LEMMA CheckerAlone ==
    ASSUME VerdictInv, UNCHANGED <<sender, channel>>
    PROVE  \A v \in Workers : SenderKnows(v)'
  BY DEF VerdictInv, SenderKnows

(* The verdict on a row that has been looked for.                            *)
LEMMA JudgedTrue ==
    ASSUME VerdictInv, NEW w \in Workers, checker[w].pc \in {"there", "gone"},
           post' = Judge(checker[w].row, checker[w].pc = "there"),
           UNCHANGED <<channel, clock>>
    PROVE  /\ post'.msg = post.msg /\ RowHasMessage' /\ VerdictTrue'
<1> DEFINE row == checker[w].row
<1>1. /\ post \in PostState /\ row \in PostState
      /\ row.next \in Nat /\ row.until \in Nat
      /\ row.until = post.until /\ post # NoPost
  BY RowAndClock DEF VerdictInv
<1>2. /\ post.msg \in 1..Len(channel)
      /\ checker[w].pc = "there" => StayedUntil(post.msg, row.next)
      /\ checker[w].pc = "gone" => post.msg \notin Present
  BY <1>1 DEF VerdictInv, RowHasMessage, CheckerSaw
<1>3. Hour \in Nat /\ channel \in Seq([own : BOOLEAN, there : BOOLEAN, deletedAt : Nat])
  BY TimeAssumption DEF VerdictInv, PostInv, TypeOK
<1> HIDE DEF row
<1>4. post' = Judge(row, checker[w].pc = "there")
  BY DEF row
<1>5. CASE checker[w].pc = "gone"
  <2>1. post' = [post EXCEPT !.status = "deleted"]
    BY <1>4, <1>5 DEF Judge
  <2>2. post'.status = "deleted" /\ post'.msg = post.msg
    BY <1>1, <2>1 DEF PostState
  <2>3. QED
    BY <1>2, <1>5, <2>2 DEF RowHasMessage, VerdictTrue, Present
<1>6. CASE checker[w].pc = "there" /\ row.next + Hour > row.until
  <2>1. post' = [post EXCEPT !.status = "passed"]
    BY <1>4, <1>6 DEF Judge
  <2>2. post'.status = "passed" /\ post'.msg = post.msg /\ post'.until = row.until
    BY <1>1, <2>1 DEF PostState
  <2>3. channel[post.msg].there \/ channel[post.msg].deletedAt + Hour > row.until
    <3>1. channel[post.msg] \in [own : BOOLEAN, there : BOOLEAN, deletedAt : Nat]
      BY <1>2, <1>3, ElementOfSeq
    <3>2. QED
      BY <1>1, <1>2, <1>3, <1>6, <3>1 DEF StayedUntil
  <2>4. QED
    BY <1>2, <2>2, <2>3 DEF RowHasMessage, VerdictTrue
<1>7. CASE checker[w].pc = "there" /\ ~(row.next + Hour > row.until)
  <2>1. post' = [post EXCEPT !.status = "exists", !.next = row.next + Hour]
    BY <1>4, <1>7 DEF Judge
  <2>2. post'.status = "exists" /\ post'.msg = post.msg
    BY <1>1, <2>1 DEF PostState
  <2>3. QED
    BY <1>2, <2>2 DEF RowHasMessage, VerdictTrue
<1>8. QED
  BY <1>5, <1>6, <1>7

LEMMA CheckerJudges ==
    ASSUME Faults \cap Misleading = {}, VerdictInv, PostInv', NEW w \in Workers,
           CheckerStep(w) \/ Crash(w)
    PROVE  VerdictInv'
<1>1. PICK S : S = [pc : {"idle", "look", "there", "gone"}, row : PostState]
  OBVIOUS
<1>2. checker \in [Workers -> S] /\ CheckerSaw(w)
  BY <1>1 DEF VerdictInv, PostInv, TypeOK
<1>3. UNCHANGED <<channel, clock, postedAt, status>>
  BY DEF CheckerStep, ListExistsWithNextCheckBefore, GetChannelMessageExists,
         UpdateDealPostMessage, Crash
<1>4. ASSUME UNCHANGED post, CheckerSaw(w)',
             \A v \in Workers \ {w} : checker'[v] = checker[v]
      PROVE  RowHasMessage' /\ VerdictTrue' /\ \A v \in Workers : CheckerSaw(v)'
  <2>1. RowHasMessage' /\ VerdictTrue'
    BY <1>3, <1>4 DEF VerdictInv, RowHasMessage, VerdictTrue, Present
  <2>2. ASSUME NEW v \in Workers, v # w PROVE CheckerSaw(v)'
    BY <1>3, <1>4, <2>2 DEF VerdictInv, CheckerSaw, StayedUntil, Present
  <2>3. QED
    BY <1>4, <2>1, <2>2
<1>5. CASE ListExistsWithNextCheckBefore(w)
  <2>1. /\ post.status = "exists" /\ UNCHANGED <<post, sender>>
        /\ checker'[w] = [pc |-> "look", row |-> post]
        /\ \A v \in Workers \ {w} : checker'[v] = checker[v]
    BY <1>2, <1>5 DEF ListExistsWithNextCheckBefore
  <2>2. CheckerSaw(w)'
    BY <2>1 DEF CheckerSaw
  <2>3. QED
    BY <1>3, <1>4, <2>1, <2>2, CheckerAlone DEF VerdictInv
<1>6. CASE GetChannelMessageExists(w)
  <2>1. ~Fault("history")
    BY NotFault DEF Misleading
  <2>2. /\ checker[w].pc = "look" /\ UNCHANGED <<post, sender>>
        /\ checker' = [checker EXCEPT ![w].pc =
                         IF checker[w].row.msg \in Present THEN "there" ELSE "gone"]
    BY <1>6, <2>1 DEF GetChannelMessageExists
  <2>3. /\ checker'[w].row = checker[w].row
        /\ checker'[w].pc = IF checker[w].row.msg \in Present THEN "there" ELSE "gone"
        /\ \A v \in Workers \ {w} : checker'[v] = checker[v]
    BY <1>1, <1>2, <2>2
  <2>4. checker[w].row.msg = post.msg
    BY <1>2, <2>2 DEF CheckerSaw
  <2>5. CheckerSaw(w)'
    BY <1>3, <2>2, <2>3, <2>4 DEF CheckerSaw, StayedUntil, Present
  <2>6. QED
    BY <1>3, <1>4, <2>2, <2>3, <2>5, CheckerAlone DEF VerdictInv
<1>7. CASE UpdateDealPostMessage(w)
  <2>1. /\ checker[w].pc \in {"there", "gone"} /\ UNCHANGED sender
        /\ checker'[w].pc = "idle" /\ \A v \in Workers \ {w} : checker'[v] = checker[v]
        /\ \/ UNCHANGED post
           \/ post' = Judge(checker[w].row, checker[w].pc = "there")
    BY <1>2, <1>7 DEF UpdateDealPostMessage, IdleChecker
  <2>2. CheckerSaw(w)'
    BY <2>1 DEF CheckerSaw
  <2>3. CASE UNCHANGED post
    BY <1>3, <1>4, <2>1, <2>2, <2>3, CheckerAlone DEF VerdictInv
  <2>4. CASE post' = Judge(checker[w].row, checker[w].pc = "there")
    <3>1. post'.msg = post.msg /\ RowHasMessage' /\ VerdictTrue'
      BY <1>3, <2>1, <2>4, JudgedTrue
    <3>2. ASSUME NEW v \in Workers, v # w PROVE CheckerSaw(v)'
      BY <1>3, <2>1, <3>1, <3>2 DEF VerdictInv, CheckerSaw, StayedUntil, Present
    <3>3. QED
      BY <1>3, <2>1, <2>2, <3>1, <3>2, CheckerAlone DEF VerdictInv
  <2>5. QED
    BY <2>1, <2>3, <2>4
<1>8. CASE Crash(w)
  <2>1. /\ UNCHANGED post /\ checker'[w].pc = "idle"
        /\ \A v \in Workers \ {w} : checker'[v] = checker[v] /\ sender'[v] = sender[v]
        /\ sender'[w].pc = "idle"
    BY <1>2, <1>8, Typed DEF Crash, Finish, IdleChecker, IdleSender, VerdictInv
  <2>2. CheckerSaw(w)' /\ SenderKnows(w)' /\ ChannelMoves
    BY <1>3, <2>1, ChannelKept, RowAndClock DEF CheckerSaw, SenderKnows, VerdictInv
  <2>3. \A v \in Workers : SenderKnows(v)'
    BY <1>3, <2>1, <2>2, OthersKnow
  <2>4. QED
    BY <1>4, <2>1, <2>2, <2>3 DEF VerdictInv
<1>9. QED
  BY <1>5, <1>6, <1>7, <1>8 DEF CheckerStep

LEMMA WorldJudges ==
    ASSUME Faults \cap Misleading = {}, VerdictInv, PostInv',
           \/ \E i \in 1..Len(channel) : DeleteMessage(i)
           \/ \E i \in 1..Len(locks) : LockExpires(i)
           \/ Tick \/ UNCHANGED vars
    PROVE  VerdictInv'
<1>1. PICK w \in Workers : TRUE
  BY WorkersAssumption
<1>2. /\ Len(channel) \in Nat /\ clock \in Nat /\ postedAt \in Nat
      /\ channel \in Seq([own : BOOLEAN, there : BOOLEAN, deletedAt : Nat])
  BY Typed DEF VerdictInv
<1>3. ASSUME ChannelMoves, UNCHANGED <<post, checker, clock, postedAt, sender>>
      PROVE  VerdictInv'
  <2>1. \A m \in 1..Len(channel) : m \in 1..Len(channel')
    BY <1>2, <1>3 DEF ChannelMoves
  <2>2. \A v \in Workers : SenderKnows(v)'
    BY <1>3, <2>1 DEF VerdictInv, SenderKnows
  <2>3. QED
    BY <1>3, <2>2, SeenStays DEF VerdictInv
<1>4. ASSUME NEW i \in 1..Len(channel), DeleteMessage(i) PROVE VerdictInv'
  <2>1. /\ channel' = [channel EXCEPT ![i].there = FALSE, ![i].deletedAt = clock]
        /\ channel[i].there /\ UNCHANGED <<post, checker, clock, postedAt, sender>>
    BY <1>4 DEF DeleteMessage, Present
  <2>2. /\ Len(channel') = Len(channel)
        /\ \A j \in 1..Len(channel) : j # i => channel'[j] = channel[j]
        /\ ~channel'[i].there /\ channel'[i].deletedAt = clock
    BY <1>2, <2>1
  <2>3. ChannelMoves
    BY <1>2, <2>1, <2>2 DEF ChannelMoves
  <2>4. QED
    BY <1>3, <2>1, <2>3
<1>5. CASE (\E i \in 1..Len(locks) : LockExpires(i)) \/ UNCHANGED vars
  <2>1. UNCHANGED <<channel, post, checker, clock, postedAt, sender>>
    BY <1>5 DEF LockExpires, vars
  <2>2. QED
    BY <1>2, <1>3, <2>1, ChannelKept
<1>6. CASE Tick
  <2>1. UNCHANGED <<channel, post, checker, sender>>
    BY <1>6 DEF Tick
  <2>2. /\ \A v \in Workers : SenderKnows(v)'
        /\ \A v \in Workers : CheckerSaw(v)'
        /\ RowHasMessage' /\ VerdictTrue'
    BY <2>1 DEF VerdictInv, SenderKnows, CheckerSaw, StayedUntil, Present, RowHasMessage,
                VerdictTrue
  <2>3. QED
    BY <2>2 DEF VerdictInv
<1>7. QED
  BY <1>4, <1>5, <1>6

(* runDealPostCheckerOnce: for any number of instances, any time between the *)
(* two readings of the clock, and any faults but an answer of Telegram that  *)
(* is taken for "gone" and a post without an id, a post judged "passed" was  *)
(* in the channel until less than an hour before until_ts, and one judged    *)
(* "deleted" is not in the channel.                                          *)
THEOREM VerdictTrueTheorem ==
    ASSUME Faults \cap Misleading = {}
    PROVE  Spec => []VerdictTrue
<1>1. Init => VerdictInv
  <2> SUFFICES ASSUME Init PROVE VerdictInv
    OBVIOUS
  <2>1. /\ post = NoPost /\ post.status = "none"
        /\ \A w \in Workers : sender[w].pc = "idle" /\ checker[w].pc = "idle"
    BY DEF Init, NoPost, IdleSender, IdleChecker
  <2>2. QED
    BY <2>1, PostInitial
    DEF VerdictInv, RowHasMessage, VerdictTrue, SenderKnows, CheckerSaw
<1>2. VerdictInv /\ [Next]_vars => VerdictInv'
  <2> SUFFICES ASSUME VerdictInv, [Next]_vars PROVE VerdictInv'
    OBVIOUS
  <2>1. PostInv'
    BY PostStep DEF VerdictInv
  <2>2. QED
    BY <2>1, SenderJudges, CreateJudges, CheckerJudges, WorldJudges DEF Next, SenderStep
<1>3. VerdictInv => VerdictTrue
  BY DEF VerdictInv
<1>4. QED
  BY <1>1, <1>2, <1>3, PTL DEF Spec
=============================================================================
