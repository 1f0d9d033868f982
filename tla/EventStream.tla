----------------------------- MODULE EventStream -----------------------------
(***************************************************************************)
(* A Redis stream that one consumer group works off, as three parts of the *)
(* system use it: the bot for Telegram updates and for notifications, the  *)
(* userbot for requests to refresh channel statistics.  Each runs three    *)
(* goroutines: a reader of new entries, a claimer that every 15 seconds    *)
(* takes over pending entries that have been idle for 30, and a cleaner.   *)
(* Reader and claimer share a consumer name, handle a batch entry by entry *)
(* and acknowledge at its end the entries that succeeded; nothing but the  *)
(* idle time keeps the claimer from the batch the reader is working on.    *)
(*                                                                         *)
(* The three streams differ in which errors of a handler are retried.      *)
(***************************************************************************)
EXTENDS Naturals, Sequences, SequencesExt

CONSTANTS
    Kinds,      \* the streams a behaviour may be about
    MaxEvents,  \* bound: entries added
    Poison,     \* entries whose Telegram call fails for ever
    Limit,      \* COUNT of XREADGROUP and XAUTOCLAIM
    MinIdle,    \* ticks of the claimer an entry is idle before it is claimed
    Faults,     \* the kinds of faults that may happen
    MaxFaults   \* bound: faults in a behaviour

FaultKinds ==
    {"crash",     \* the process stops anywhere and restarts
     "read",      \* XREADGROUP takes effect and its answer is lost
     "claim",     \* XAUTOCLAIM takes effect and its answer is lost
     "send",      \* the Telegram call of a handler fails
     "ambiguous", \* it reports an error for what it has done
     "lookup",    \* the channel of a request cannot be read, or is unknown
     "ack",       \* XACK fails
     "slow",      \* a batch takes longer than the claimer waits
     "age"}       \* an entry stays in the stream until the cleaner trims it

Events == 1..MaxEvents

ASSUME KindsAssumption ==
    Kinds \subseteq {"update", "notification", "stats"} /\ Kinds # {}
ASSUME EventsAssumption == MaxEvents \in Nat /\ Poison \subseteq Events
ASSUME LimitAssumption == Limit \in Nat \ {0} /\ MinIdle \in Nat \ {0}
ASSUME FaultsAssumption == Faults \subseteq FaultKinds /\ MaxFaults \in Nat

Goroutines == {"reader", "claimer"}

VARIABLES
    kind,     \* which of the streams this is
    added,    \* entries added so far; an entry is known by its number
    stream,   \* the entries the stream still holds
    last,     \* last entry delivered to the group
    pending,  \* the group's pending entries, with the ticks each has been idle
    job,      \* what each goroutine has still to handle and to acknowledge
    due,      \* the claimer's ticker has fired
    effects,  \* how often each entry has had its effect
    dropped,  \* entries given up on an error
    faults    \* faults so far

vars == <<kind, added, stream, last, pending, job, due, effects, dropped, faults>>

-----------------------------------------------------------------------------
IdleJob == [batch |-> << >>, ack |-> {}]

Init ==
    /\ kind \in Kinds
    /\ added = 0 /\ stream = {} /\ last = 0
    /\ pending = << >>
    /\ job = [g \in Goroutines |-> IdleJob]
    /\ due = FALSE
    /\ effects = [e \in Events |-> 0] /\ dropped = {}
    /\ faults = 0

Fault(f) == f \in Faults /\ faults < MaxFaults /\ faults' = faults + 1

Ordered(b) == \A i, j \in DOMAIN b : i < j => b[i] < b[j]

(* The first Limit entries of a set, in the order of the stream: the only    *)
(* sequence b of this form.                                                  *)
Batch(S) ==
    {b \in UNION {[1..n -> S] : n \in 0..Limit} :
        /\ Ordered(b)
        /\ \A e \in S \ ToSet(b) : \A i \in DOMAIN b : b[i] < e
        /\ Len(b) < Limit => ToSet(b) = S}

(* Entries that are delivered have been idle for no time.                    *)
Delivered(S) ==
    [e \in DOMAIN pending \cup S |-> IF e \in S THEN 0 ELSE pending[e]]

-----------------------------------------------------------------------------
(* AddTelegramUpdateEvent, AddTelegramNotificationEvent and                  *)
(* AddChannelUpdateStatsEvent.                                               *)
PushEvent ==
    /\ added < MaxEvents
    /\ added' = added + 1
    /\ stream' = stream \cup {added + 1}
    /\ UNCHANGED <<kind, last, pending, job, due, effects, dropped, faults>>

(* Entries never delivered to the group, which XREADGROUP gives for ">".     *)
Unread == {e \in stream : e > last}

(* The reader takes the next batch.                                          *)
ReadEvents ==
    /\ job["reader"] = IdleJob
    /\ \E b \in Batch(Unread) :
        /\ b # << >>
        /\ last' = b[Len(b)]
        /\ pending' = Delivered(ToSet(b))
        /\ \/ job' = [job EXCEPT !["reader"].batch = b] /\ UNCHANGED faults
           \/ Fault("read") /\ UNCHANGED job
    /\ UNCHANGED <<kind, added, stream, due, effects, dropped>>

(* Mutant: the idle time is not looked at.                                   *)
ClaimableAtOnce == DOMAIN pending

(* Entries the claimer may take over: pending, and idle for long enough.     *)
Claimable == {e \in DOMAIN pending : pending[e] >= MinIdle}

(* Mutant: only the entries of the running process are retried.              *)
ClaimNothing ==
    /\ due /\ job["claimer"] = IdleJob
    /\ due' = FALSE
    /\ UNCHANGED <<kind, added, stream, last, pending, job, effects, dropped, faults>>

(* What has been trimmed is claimed without its data, and passed over.       *)
Parsed(b) == Batch(ToSet(b) \cap stream)

(* The claimer always starts at the oldest pending entry.  For a trimmed one *)
(* Redis 6.2 answers nil, for which the client may report an error instead   *)
(* of the whole batch.                                                       *)
AutoClaimPendingEvents ==
    /\ due /\ job["claimer"] = IdleJob
    /\ due' = FALSE
    /\ \E b \in Batch(Claimable) :
        /\ pending' = Delivered(ToSet(b))
        /\ \/ /\ \E p \in Parsed(b) : job' = [job EXCEPT !["claimer"].batch = p]
              /\ UNCHANGED faults
           \/ Fault("claim") /\ UNCHANGED job
           \/ ToSet(b) \ stream # {} /\ UNCHANGED <<job, faults>>
    /\ UNCHANGED <<kind, added, stream, last, effects, dropped>>

-----------------------------------------------------------------------------
(* Handling the first entry of a batch.                                      *)

TakesEffect(e) == effects' = [effects EXCEPT ![e] = @ + 1]

NextEntry(g, acked) ==
    job' = [job EXCEPT ![g] = [batch |-> Tail(@.batch), ack |-> @.ack \cup acked]]

Succeeds(g, e) ==
    /\ e \notin Poison
    /\ TakesEffect(e) /\ NextEntry(g, {e})
    /\ UNCHANGED <<dropped, faults>>

(* An error leaves the entry pending, for the claimer.                       *)
Fails(g, e) ==
    /\ \/ e \in Poison /\ UNCHANGED <<effects, faults>>
       \/ Fault("send") /\ UNCHANGED effects
       \/ e \notin Poison /\ Fault("ambiguous") /\ TakesEffect(e)
    /\ NextEntry(g, {})
    /\ UNCHANGED dropped

(* An error is logged and the entry acknowledged all the same.               *)
GivesUp(g, e) ==
    /\ NextEntry(g, {e})
    /\ dropped' = dropped \cup {e}
    /\ UNCHANGED effects

(* A failed welcome message is retried, unless the user has blocked the bot; *)
(* a message that cannot be copied to the other side's topic is given up.    *)
ProcessUpdate(g, e) ==
    /\ kind = "update"
    /\ \/ Succeeds(g, e) \/ Fails(g, e)
       \/ (IF e \in Poison THEN UNCHANGED faults ELSE Fault("send")) /\ GivesUp(g, e)

(* A notification that cannot be sent is retried for ever.                   *)
SendNotification(g, e) ==
    /\ kind = "notification"
    /\ Succeeds(g, e) \/ Fails(g, e)

(* A channel that cannot be read, or is not there, ends the request; an      *)
(* error of UpdateChannelStats leaves it pending.                            *)
UpdateStats(g, e) ==
    /\ kind = "stats"
    /\ \/ Succeeds(g, e) \/ Fails(g, e)
       \/ Fault("lookup") /\ GivesUp(g, e)

HandleEntry(g) ==
    /\ job[g].batch # << >>
    /\ \E e \in {Head(job[g].batch)} :
        ProcessUpdate(g, e) \/ SendNotification(g, e) \/ UpdateStats(g, e)
    /\ UNCHANGED <<kind, added, stream, last, pending, due>>

(* XACK takes entries off the group's list.                                  *)
Without(S) == [e \in DOMAIN pending \ S |-> pending[e]]

(* Mutant: the whole batch is acknowledged.                                  *)
AckBatch(g) ==
    /\ job[g].batch = << >> /\ job[g].ack # {}
    /\ pending' = << >>
    /\ job' = [job EXCEPT ![g] = IdleJob]
    /\ UNCHANGED <<kind, added, stream, last, due, effects, dropped, faults>>

(* At the end of the batch; an error is logged.                              *)
AckMessages(g) ==
    /\ job[g].batch = << >> /\ job[g].ack # {}
    /\ \/ pending' = Without(job[g].ack) /\ UNCHANGED faults
       \/ Fault("ack") /\ UNCHANGED pending
    /\ job' = [job EXCEPT ![g] = IdleJob]
    /\ UNCHANGED <<kind, added, stream, last, due, effects, dropped>>

-----------------------------------------------------------------------------
(* XTRIM with the id of the oldest entry to keep removes approximately the   *)
(* entries before it, whether they have been acknowledged or not.            *)
Trimmed == {{e \in stream : e > oldest} : oldest \in stream}

TrimStreamByAge ==
    /\ Fault("age")
    /\ stream' \in Trimmed
    /\ UNCHANGED <<kind, added, last, pending, job, due, effects, dropped>>

(* A batch is handled within a period of the claimer, and before its entries *)
(* have been idle for long, unless it is slow.                               *)
InTime ==
    /\ ~due /\ job["claimer"] = IdleJob
    /\ \A e \in ToSet(job["reader"].batch) \cup job["reader"].ack :
        e \in DOMAIN pending => pending[e] + 1 < MinIdle

(* The claimer's ticker fires, 15 seconds after it was reset.  Idle times    *)
(* count in these periods.                                                   *)
Tick ==
    /\ IF InTime THEN UNCHANGED faults ELSE Fault("slow")
    /\ due' = (due \/ job["claimer"] = IdleJob)
    /\ pending' = [e \in DOMAIN pending |->
                     IF pending[e] < MinIdle THEN pending[e] + 1 ELSE MinIdle]
    /\ UNCHANGED <<kind, added, stream, last, job, effects, dropped>>

Crash ==
    /\ Fault("crash")
    /\ job' = [g \in Goroutines |-> IdleJob]
    /\ due' = FALSE
    /\ UNCHANGED <<kind, added, stream, last, pending, effects, dropped>>

Next ==
    \/ PushEvent \/ ReadEvents \/ AutoClaimPendingEvents
    \/ \E g \in Goroutines : HandleEntry(g) \/ AckMessages(g)
    \/ TrimStreamByAge \/ Tick \/ Crash

Spec == Init /\ [][Next]_vars

(* The goroutines loop until the process ends, and the ticker keeps firing;  *)
(* nothing makes anybody add an entry.                                       *)
Fairness ==
    /\ WF_vars(ReadEvents) /\ WF_vars(AutoClaimPendingEvents) /\ WF_vars(Tick)
    /\ \A g \in Goroutines : WF_vars(HandleEntry(g)) /\ WF_vars(AckMessages(g))

FairSpec == Spec /\ Fairness

-----------------------------------------------------------------------------
(* Types of the stream, of its consumer group and of the goroutines' locals. *)
TypeOK ==
    /\ kind \in Kinds
    /\ added \in 0..MaxEvents /\ last \in 0..added
    /\ stream \subseteq 1..added
    /\ DOMAIN pending \subseteq 1..last
    /\ \A e \in DOMAIN pending : pending[e] \in 0..MinIdle
    /\ job \in [Goroutines -> [batch : Seq(Events), ack : SUBSET Events]]
    /\ due \in BOOLEAN
    /\ effects \in [Events -> Nat] /\ dropped \subseteq Events
    /\ faults \in Nat

(* No entry is lost between the goroutines: one that has had no effect and   *)
(* was not given up is unread or pending, whatever crashed or failed, so     *)
(* that a retry will find it.                                                *)
NothingForgotten ==
    \A e \in 1..added :
        effects[e] > 0 \/ e \in dropped \/ e \notin stream
            \/ e > last \/ e \in DOMAIN pending

(* Reader and claimer never send the same message twice of themselves: every *)
(* repetition is the price of a fault (a crash, a lost answer, a batch that  *)
(* takes longer than the idle time).                                         *)
RepeatedByFaultOnly == \A e \in Events : effects[e] <= 1 + faults

(* As long as nothing is trimmed, every entry that can be handled is, or is  *)
(* given up, in the end: also the ones a crashed process had read, and also  *)
(* behind entries that fail for ever.                                        *)
EventuallyHandled ==
    \A e \in Events \ Poison :
        e <= added ~> effects[e] > 0 \/ e \in dropped \/ stream # 1..added
-----------------------------------------------------------------------------
(* The inductive invariant behind the theorems of EventStreamProofs.         *)

(* A batch names an entry once, and only entries that have been delivered.   *)
BatchesDelivered ==
    \A g \in Goroutines :
        /\ Ordered(job[g].batch)
        /\ \A e \in ToSet(job[g].batch) \cup job[g].ack : e <= last

(* What is about to be acknowledged is done with.                            *)
AckedIsDone ==
    \A g \in Goroutines : \A e \in job[g].ack : effects[e] > 0 \/ e \in dropped

(* An entry a goroutine has not acknowledged yet.                            *)
Carried(e) == \E g \in Goroutines : e \in ToSet(job[g].batch) \cup job[g].ack

(* It may be delivered, to the reader or, while nobody carries it or when it *)
(* has been idle for long, to the claimer.                                   *)
Redeliverable(e) ==
    e > last \/ (e \in DOMAIN pending /\ (~Carried(e) \/ pending[e] >= MinIdle))

Bit(p) == IF p THEN 1 ELSE 0

(* The effects an entry has had and those it can still have without a fault: *)
(* one for each goroutine about to handle it, one if it may be delivered.    *)
Chances(e) ==
    effects[e] + Bit(e \in ToSet(job["reader"].batch))
               + Bit(e \in ToSet(job["claimer"].batch)) + Bit(Redeliverable(e))

StreamInv ==
    /\ TypeOK /\ BatchesDelivered /\ AckedIsDone /\ NothingForgotten
    /\ \A e \in Events : Chances(e) <= 1 + faults
=============================================================================
