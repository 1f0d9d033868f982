------------------------------ MODULE DealPost ------------------------------
(***************************************************************************)
(* The advertisement of one funded deal: the userbot's sender posts it to  *)
(* the channel and creates the row of market.deal_post_message, and the    *)
(* checker looks every hour whether it is still there, until it judges the *)
(* post "passed" or "deleted".                                             *)
(*                                                                         *)
(* Every userbot instance runs both goroutines.  The sender takes the      *)
(* post_message lock, as the payout worker takes its own, and after an     *)
(* expired lock searches the channel for the text before it posts again.   *)
(*                                                                         *)
(* Time is counted in ticks, Hour of them to the hour.  Only what happens  *)
(* between the times stored in the row matters, so the clock stands still  *)
(* before the post, except to reach its posted_at and between the two      *)
(* readings of it that until_ts and next_check are computed from.          *)
(***************************************************************************)
EXTENDS DealActionLock, FiniteSets

CONSTANTS
    Workers,      \* instances of the userbot
    ListingTypes, \* types of listings the deal may come from
    Hour,         \* ticks of an hour, postCheckAdvanceHour
    Duration,     \* hours the post has to stay, deal.Duration
    MaxPostedAt,  \* bound: ticks until posted_at, if the details have one
    MaxEarlier,   \* bound: messages with the same text from before this deal
    MaxTime,      \* bound: ticks of the clock
    MaxDrift,     \* bound: ticks between the two times a row is computed from
    MaxMessages,  \* bound: messages in the channel
    Faults,       \* the kinds of faults that may happen
    MaxFaults     \* bound: faults in a behaviour

FaultKinds ==
    {"crash",     \* the process stops anywhere
     "send",      \* MessagesSendMessage fails and nothing was posted
     "ambiguous", \* it reports an error for a message that was posted
     "noid",      \* the answer carries no message id: 0 is stored
     "history",   \* the history cannot be read, or its answer is of another type
     "scroll",    \* the post is not among the last 20 messages
     "create",    \* the transaction that creates the row fails
     "commit",    \* a commit fails unnoticed (EndTx's error is dropped)
     "write",     \* the checker's update fails
     "unlock",    \* the statement that releases a lock fails
     "skew",      \* a lock expires between the sender's and the database's clock
     "stall"}     \* a lock expires before its holder has posted

ASSUME WorkersAssumption == IsFiniteSet(Workers) /\ Workers # {}
ASSUME ListingTypesAssumption ==
    ListingTypes \subseteq {"lessor", "lessee"} /\ ListingTypes # {}
ASSUME TimeAssumption ==
    /\ Hour \in Nat \ {0} /\ Duration \in Nat \ {0}
    /\ MaxPostedAt \in Nat /\ MaxTime \in Nat /\ MaxDrift \in Nat
ASSUME BoundAssumption ==
    MaxEarlier \in Nat /\ MaxMessages \in Nat /\ MaxFaults \in Nat
ASSUME FaultsAssumption == Faults \subseteq FaultKinds

NoPost == [status |-> "none", msg |-> 0, next |-> 0, until |-> 0]

VARIABLES
    status,   \* market.deal.status
    listing,  \* type of the deal's listing; a lessee's names no channel
    postedAt, \* posted_at of the deal details, 0 if there is none
    channel,  \* the messages with the deal's text, by id
    post,     \* the row of market.deal_post_message
    locks,    \* market.deal_action_lock for post_message
    sender,   \* where each sender is in runDealPostSenderOnce
    checker,  \* what each checker has read of the row
    clock,    \* ticks
    faults    \* faults so far

vars == <<status, listing, postedAt, channel, post, locks, sender, checker, clock,
          faults>>

-----------------------------------------------------------------------------
IdleSender == [pc |-> "idle", lock |-> 0, msg |-> 0, until |-> 0]

IdleChecker == [pc |-> "idle", row |-> NoPost]

Message(own) == [own |-> own, there |-> TRUE, deletedAt |-> 0]

(* The channel may already hold messages with the same text, posted by hand  *)
(* or for an earlier deal.                                                   *)
Init ==
    /\ status = "escrow_deposit_confirmed"
    /\ listing \in ListingTypes
    /\ postedAt \in 0..MaxPostedAt
    /\ \E n \in 0..MaxEarlier : channel = [i \in 1..n |-> Message(FALSE)]
    /\ post = NoPost
    /\ locks = << >>
    /\ sender = [w \in Workers |-> IdleSender]
    /\ checker = [w \in Workers |-> IdleChecker]
    /\ clock = 0
    /\ faults = 0

Fault(kind) == kind \in Faults /\ faults < MaxFaults /\ faults' = faults + 1

Goto(w, pc) == sender' = [sender EXCEPT ![w].pc = pc]
Finish(w)   == sender' = [sender EXCEPT ![w] = IdleSender]

-----------------------------------------------------------------------------
(* The sender, statement by statement.                                       *)

(* The channel is looked up in the deal's listing; a listing without one is  *)
(* skipped, and so is a deal whose posted_at has not come.                   *)
ListingHasChannel == listing = "lessor"

ListDealsWithoutPostMessage(w) ==
    /\ sender[w].pc = "idle"
    /\ status = "escrow_deposit_confirmed" /\ post = NoPost
    /\ ListingHasChannel
    /\ clock >= postedAt
    /\ Goto(w, "last")
    /\ UNCHANGED <<status, listing, postedAt, channel, post, locks, checker, clock, faults>>

GetLastDealActionLock(w) ==
    /\ sender[w].pc = "last"
    /\ IF LastLockExpired(locks)
       THEN sender' = [sender EXCEPT ![w].pc = "search", ![w].lock = Len(locks)]
       ELSE Goto(w, "take")
    /\ UNCHANGED <<status, listing, postedAt, channel, post, locks, checker, clock, faults>>

(* The newest message with the deal's text, if there is one.                 *)
Present == {i \in 1..Len(channel) : channel[i].there}

(* Mutant: the search is skipped.                                            *)
RecoverNothing(w) ==
    /\ sender[w].pc = "search"
    /\ Goto(w, "giveup")
    /\ UNCHANGED <<status, listing, postedAt, channel, post, locks, checker, clock, faults>>

TryRecoverPostFromChannel(w) ==
    /\ sender[w].pc = "search"
    /\ \/ /\ \E i \in Present :
              /\ \A j \in Present : j <= i
              /\ sender' = [sender EXCEPT ![w].pc = "found", ![w].msg = i]
          /\ UNCHANGED faults
       \/ Present = {} /\ Goto(w, "giveup") /\ UNCHANGED faults
       \/ (Fault("history") \/ Fault("scroll")) /\ Goto(w, "giveup")
    /\ UNCHANGED <<status, listing, postedAt, channel, post, locks, checker, clock>>

GiveUpExpiredLock(w) ==
    /\ sender[w].pc = "giveup"
    /\ \/ /\ locks' = ReleaseDealActionLock(locks, sender[w].lock, "failed")
          /\ UNCHANGED faults
       \/ Fault("unlock") /\ UNCHANGED locks
    /\ sender' = [sender EXCEPT ![w].pc = "take", ![w].lock = 0]
    /\ UNCHANGED <<status, listing, postedAt, channel, post, checker, clock>>

TakeLockSelect(w) ==
    /\ sender[w].pc = "take"
    /\ IF HasActiveLock(locks) THEN Finish(w) ELSE Goto(w, "insert")
    /\ UNCHANGED <<status, listing, postedAt, channel, post, locks, checker, clock, faults>>

TakeLockInsert(w) ==
    /\ sender[w].pc = "insert"
    /\ \/ /\ locks' = InsertLock(locks)
          /\ sender' = [sender EXCEPT ![w].pc = "send", ![w].lock = Len(locks) + 1]
          /\ UNCHANGED faults
       \/ Fault("commit") /\ Goto(w, "send") /\ UNCHANGED locks
    /\ UNCHANGED <<status, listing, postedAt, channel, post, checker, clock>>

Publish == channel' = Append(channel, Message(TRUE))

SendChannelMessage(w) ==
    /\ sender[w].pc = "send"
    /\ Len(channel) < MaxMessages
    /\ \/ /\ Publish
          /\ sender' = [sender EXCEPT ![w].pc = "found", ![w].msg = Len(channel) + 1]
          /\ UNCHANGED faults
       \/ Fault("noid") /\ Publish /\ Goto(w, "found")
       \/ Fault("ambiguous") /\ Publish /\ Goto(w, "failed")
       \/ Fault("send") /\ Goto(w, "failed") /\ UNCHANGED channel
    /\ UNCHANGED <<status, listing, postedAt, post, locks, checker, clock>>

(* until_ts is computed from one time.Now() ...                              *)
ComputeUntil(w) ==
    /\ sender[w].pc = "found"
    /\ sender' = [sender EXCEPT ![w].pc = "create",
                                ![w].until = clock + Duration * Hour]
    /\ UNCHANGED <<status, listing, postedAt, channel, post, locks, checker, clock, faults>>

(* Mutants: the row replaces an earlier one; the deal's status is forgotten. *)
CreateReplacingRow(w) ==
    /\ sender[w].pc = "create"
    /\ post' = [status |-> "exists", msg |-> sender[w].msg,
                next |-> clock + Hour, until |-> sender[w].until]
    /\ status' = "in_progress"
    /\ Goto(w, "saved")
    /\ UNCHANGED <<listing, postedAt, channel, locks, checker, clock, faults>>

CreateRowOnly(w) ==
    /\ sender[w].pc = "create"
    /\ post' = [status |-> "exists", msg |-> sender[w].msg,
                next |-> clock + Hour, until |-> sender[w].until]
    /\ Goto(w, "saved")
    /\ UNCHANGED <<status, listing, postedAt, channel, locks, checker, clock, faults>>

(* ... and next_check from another.  The row is inserted, unless there is    *)
(* one already, and the deal goes on, in one transaction.                    *)
CreateDealPostMessage(w) ==
    /\ sender[w].pc = "create"
    /\ \/ /\ IF post = NoPost
             THEN /\ post' = [status |-> "exists", msg |-> sender[w].msg,
                              next |-> clock + Hour, until |-> sender[w].until]
                  /\ status' = IF status = "escrow_deposit_confirmed"
                               THEN "in_progress" ELSE status
             ELSE UNCHANGED <<post, status>>
          /\ Goto(w, "saved") /\ UNCHANGED faults
       \/ Fault("commit") /\ Goto(w, "saved") /\ UNCHANGED <<post, status>>
       \/ Fault("create") /\ Goto(w, "failed") /\ UNCHANGED <<post, status>>
    /\ UNCHANGED <<listing, postedAt, channel, locks, checker, clock>>

ReleaseLock(w) ==
    /\ sender[w].pc \in {"saved", "failed"}
    /\ \/ /\ locks' = ReleaseDealActionLock(locks, sender[w].lock,
                          IF sender[w].pc = "saved" THEN "completed" ELSE "failed")
          /\ UNCHANGED faults
       \/ Fault("unlock") /\ UNCHANGED locks
    /\ Finish(w)
    /\ UNCHANGED <<status, listing, postedAt, channel, post, checker, clock>>

SenderStep(w) ==
    \/ ListDealsWithoutPostMessage(w) \/ GetLastDealActionLock(w)
    \/ TryRecoverPostFromChannel(w) \/ GiveUpExpiredLock(w) \/ TakeLockSelect(w)
    \/ TakeLockInsert(w) \/ SendChannelMessage(w) \/ ComputeUntil(w)
    \/ CreateDealPostMessage(w) \/ ReleaseLock(w)

-----------------------------------------------------------------------------
(* The checker: the row is read, the channel is asked, the row is written.   *)

(* Mutant: the list has no condition on next_check.                          *)
ListAnyTime(w) ==
    /\ checker[w].pc = "idle"
    /\ post.status = "exists"
    /\ checker' = [checker EXCEPT ![w] = [pc |-> "look", row |-> post]]
    /\ UNCHANGED <<status, listing, postedAt, channel, post, locks, sender, clock, faults>>

ListExistsWithNextCheckBefore(w) ==
    /\ checker[w].pc = "idle"
    /\ post.status = "exists" /\ post.next <= clock
    /\ checker' = [checker EXCEPT ![w] = [pc |-> "look", row |-> post]]
    /\ UNCHANGED <<status, listing, postedAt, channel, post, locks, sender, clock, faults>>

GetChannelMessageExists(w) ==
    /\ checker[w].pc = "look"
    /\ \/ /\ checker' = [checker EXCEPT ![w].pc =
                IF checker[w].row.msg \in Present THEN "there" ELSE "gone"]
          /\ UNCHANGED faults
       \/ /\ Fault("history")
          /\ \/ checker' = [checker EXCEPT ![w] = IdleChecker]
             \/ checker' = [checker EXCEPT ![w].pc = "gone"]
    /\ UNCHANGED <<status, listing, postedAt, channel, post, locks, sender, clock>>

(* Mutants: "not after" for "after"; the last check is not the last.         *)
JudgeEarly(row, there) ==
    LET next == row.next + Hour
    IN  CASE ~there                     -> [post EXCEPT !.status = "deleted"]
          [] there /\ next >= row.until -> [post EXCEPT !.status = "passed"]
          [] OTHER                      -> [post EXCEPT !.status = "exists", !.next = next]

JudgeNever(row, there) ==
    IF ~there THEN [post EXCEPT !.status = "deleted"]
    ELSE [post EXCEPT !.status = "exists", !.next = row.next + Hour]

(* The updates find the row by its id and do not look at its status.         *)
Judge(row, there) ==
    LET next == row.next + Hour
    IN  CASE ~there                    -> [post EXCEPT !.status = "deleted"]
          [] there /\ next > row.until -> [post EXCEPT !.status = "passed"]
          [] OTHER                     -> [post EXCEPT !.status = "exists", !.next = next]

UpdateDealPostMessage(w) ==
    /\ checker[w].pc \in {"there", "gone"}
    /\ \/ /\ post' = Judge(checker[w].row, checker[w].pc = "there")
          /\ UNCHANGED faults
       \/ Fault("write") /\ UNCHANGED post
    /\ checker' = [checker EXCEPT ![w] = IdleChecker]
    /\ UNCHANGED <<status, listing, postedAt, channel, locks, sender, clock>>

CheckerStep(w) ==
    ListExistsWithNextCheckBefore(w) \/ GetChannelMessageExists(w)
        \/ UpdateDealPostMessage(w)

-----------------------------------------------------------------------------
(* A restart loses what the goroutines hold.                                 *)
Crash(w) ==
    /\ Fault("crash")
    /\ Finish(w)
    /\ checker' = [checker EXCEPT ![w] = IdleChecker]
    /\ UNCHANGED <<status, listing, postedAt, channel, post, locks, clock>>

(* Somebody with admin rights deletes a message from the channel.            *)
DeleteMessage(i) ==
    /\ i \in Present
    /\ channel' = [channel EXCEPT ![i].there = FALSE,
                                  ![i].deletedAt = clock]
    /\ UNCHANGED <<status, listing, postedAt, post, locks, sender, checker, clock, faults>>

LockExpires(i) ==
    /\ i \in 1..Len(locks)
    /\ locks[i].status = "locked" /\ locks[i].live
    /\ IF \E w \in Workers : sender[w].pc \in {"send", "found", "create"}
                               /\ sender[w].lock = i
       THEN Fault("stall")
       ELSE IF \E w \in Workers : sender[w].pc = "take" THEN Fault("skew")
       ELSE UNCHANGED faults
    /\ locks' = ExpireLock(locks, i)
    /\ UNCHANGED <<status, listing, postedAt, channel, post, sender, checker, clock>>

Tick ==
    /\ clock < MaxTime
    /\ \/ clock < postedAt
       \/ post # NoPost
       \/ \E w \in Workers :
            /\ sender[w].pc = "create"
            /\ clock + Duration * Hour < sender[w].until + MaxDrift
    /\ clock' = clock + 1
    /\ UNCHANGED <<status, listing, postedAt, channel, post, locks, sender, checker, faults>>

Next ==
    \/ \E w \in Workers : SenderStep(w) \/ CheckerStep(w) \/ Crash(w)
    \/ \E i \in 1..Len(channel) : DeleteMessage(i)
    \/ \E i \in 1..Len(locks) : LockExpires(i)
    \/ Tick

Spec == Init /\ [][Next]_vars

Fairness ==
    /\ \A w \in Workers : WF_vars(SenderStep(w)) /\ WF_vars(CheckerStep(w))
    /\ WF_vars(Tick)
    /\ SF_vars(\E i \in 1..Len(locks) : LockExpires(i))

FairSpec == Spec /\ Fairness

-----------------------------------------------------------------------------
SenderState ==
    [pc : {"idle", "last", "search", "giveup", "take", "insert", "send", "found",
           "create", "saved", "failed"},
     lock : Nat, msg : Nat, until : Nat]

PostState == [status : {"none", "exists", "deleted", "passed"},
              msg : Nat, next : Nat, until : Nat]

(* Types of the rows, the channel and the goroutines' locals.                *)
TypeOK ==
    /\ status \in {"escrow_deposit_confirmed", "in_progress"}
    /\ listing \in ListingTypes
    /\ postedAt \in Nat
    /\ channel \in Seq([own : BOOLEAN, there : BOOLEAN, deletedAt : Nat])
    /\ post \in PostState
    /\ locks \in Seq(LockRow)
    /\ sender \in [Workers -> SenderState]
    /\ checker \in [Workers -> [pc : {"idle", "look", "there", "gone"}, row : PostState]]
    /\ clock \in Nat
    /\ faults \in Nat

Own == {i \in Present : channel[i].own}

(* Subscribers never see the advertisement of the deal twice: what the lock  *)
(* and the search of the channel are there for, whatever crashes between     *)
(* the post and its row.                                                     *)
PostedOnce == Cardinality(Own) <= 1

(* Migration 00008 has 'passed' for "we passed the until time and last check *)
(* was successful".  next_check is computed a moment after until_ts, so the  *)
(* check that passes the post may be the one an hour before: a post judged   *)
(* "passed" was in the channel until less than an hour before the end of its *)
(* paid time, and one that is still there is never judged "deleted".         *)
VerdictTrue ==
    /\ post.status = "passed" =>
        /\ post.msg \in 1..Len(channel)
        /\ channel[post.msg].there \/ channel[post.msg].deletedAt + Hour > post.until
    /\ post.status = "deleted" => post.msg \notin Present

(* The row and the deal's status say the same of whether the post was made,  *)
(* for any number of instances and under every fault.                        *)
RowMatchesDeal == post # NoPost <=> status = "in_progress"

(* A sender that comes second does not replace the row of the first, and no  *)
(* check moves the end of the paid time.                                     *)
RowKept ==
    [][post # NoPost => post'.msg = post.msg /\ post'.until = post.until]_vars

(* Whatever the clocks, the crashes and the interleaving of checkers, a post *)
(* is judged "passed" less than an hour before its time is over at worst.    *)
PassedWithinHour == post.status = "passed" => clock + Hour > post.until

(* A funded deal of a lessor's listing is posted and judged in the end, also *)
(* when the userbot crashes between any two statements and restarts.         *)
Judged == listing = "lessor" ~> post.status \in {"passed", "deleted"}

(* README: "System detect successful deposit and processes deal - posts      *)
(* message to lessor channel", for deals of both flows.  The sender looks    *)
(* for the channel in the listing only, and a lessee's listing has none.     *)
FundedIsPosted == status = "escrow_deposit_confirmed" ~> post # NoPost

-----------------------------------------------------------------------------
(* The inductive invariant behind the theorems of DealPostProofs: a checker  *)
(* at work has read the row that is there, at a time when its check was due. *)
RowRead ==
    \A w \in Workers : checker[w].pc # "idle" =>
        /\ post.status # "none"
        /\ checker[w].row.next <= clock /\ checker[w].row.until = post.until

PostInv ==
    /\ TypeOK /\ (post.status = "none" <=> post = NoPost)
    /\ RowMatchesDeal /\ RowRead /\ PassedWithinHour

(* Faults after which a check may judge wrongly: an answer of Telegram that  *)
(* could not be read, and a post whose id is not known.                      *)
Misleading == {"history", "noid"}

(* The message m was in the channel at the time t.                           *)
StayedUntil(m, t) == channel[m].there \/ channel[m].deletedAt >= t

(* A sender that goes on to create the row knows its message.                *)
SenderKnows(w) == sender[w].pc \in {"found", "create"} => sender[w].msg \in 1..Len(channel)

(* What a checker has seen is still so, or has become so since.              *)
CheckerSaw(w) ==
    checker[w].pc # "idle" =>
        /\ checker[w].row.msg = post.msg
        /\ checker[w].pc = "there" => StayedUntil(post.msg, checker[w].row.next)
        /\ checker[w].pc = "gone" => post.msg \notin Present

RowHasMessage == post # NoPost => post.msg \in 1..Len(channel)

VerdictInv ==
    /\ PostInv /\ RowHasMessage /\ VerdictTrue
    /\ \A w \in Workers : SenderKnows(w) /\ CheckerSaw(w)

OneInstance == \A v, w \in Workers : v = w

(* Faults after which the sender posts again what is already in the channel: *)
(* it does not know of the post, or does not find it, or holds no lock.      *)
Repeating == {"ambiguous", "history", "scroll", "create", "commit", "skew"}

LastLocked == locks # << >> /\ locks[Len(locks)].status = "locked"
LastLive == LastLocked /\ locks[Len(locks)].live

(* With one instance: while there is no row, a post in the channel is        *)
(* witnessed by the last lock, which its holder has not released; whoever    *)
(* goes on without having found the post knows that there is none.           *)
Witnessed(w) ==
    LET pc == sender[w].pc IN
    /\ pc = "saved" => post # NoPost
    /\ pc \notin {"idle", "saved"} => post = NoPost
    /\ pc \in {"giveup", "insert", "send", "failed"} => Own = {}
    /\ pc \in {"search", "send", "found", "create"} => LastLocked
    /\ (pc \in {"idle", "last"} /\ post = NoPost /\ Own # {}) => LastLocked
    /\ (pc = "take" /\ Own # {}) => LastLive

OnceInv ==
    /\ PostInv /\ \A w \in Workers : Witnessed(w)
    /\ \A i, j \in Own : i = j
=============================================================================
