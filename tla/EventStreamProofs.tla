-------------------------- MODULE EventStreamProofs --------------------------
(***************************************************************************)
(* Theorems about EventStream, for any of the streams, any number of       *)
(* entries, any of them failing for ever, any size of a batch, any idle    *)
(* time and any faults.                                                    *)
(***************************************************************************)
EXTENDS EventStream, SequenceTheorems, TLAPS

JobState == [batch : Seq(Events), ack : SUBSET Events]

LEMMA EventsAreNumbers == \A e \in Events : e \in Nat
  BY EventsAssumption DEF Events

LEMMA ToSetIn ==
    ASSUME NEW S, NEW q \in Seq(S)
    PROVE  /\ ToSet(q) \subseteq S
           /\ DOMAIN q = 1..Len(q) /\ Len(q) \in Nat
           /\ \A i \in 1..Len(q) : q[i] \in S
           /\ \A x : x \in ToSet(q) <=> \E i \in 1..Len(q) : x = q[i]
<1>1. DOMAIN q = 1..Len(q) /\ Len(q) \in Nat /\ \A i \in 1..Len(q) : q[i] \in S
  BY LenProperties, ElementOfSeq
<1>2. QED
  BY <1>1 DEF ToSet

LEMMA EmptyBatch == ToSet(<< >>) = {} /\ Ordered(<< >>)
  BY EmptySeq DEF ToSet, Ordered

(* What is left of a batch when its first entry has been handled.            *)
LEMMA RestOfBatch ==
    ASSUME NEW q \in Seq(Events), q # << >>, Ordered(q)
    PROVE  /\ Head(q) \in Events /\ Head(q) \in ToSet(q)
           /\ Tail(q) \in Seq(Events) /\ Ordered(Tail(q))
           /\ ToSet(Tail(q)) = ToSet(q) \ {Head(q)}
<1>1. /\ Head(q) \in Events /\ Tail(q) \in Seq(Events)
      /\ Len(q) \in Nat \ {0} /\ Len(Tail(q)) = Len(q) - 1 /\ Head(q) = q[1]
      /\ \A i \in 1..Len(Tail(q)) : Tail(q)[i] = q[i + 1]
  BY HeadTailProperties, EmptySeq
<1>2. /\ DOMAIN q = 1..Len(q) /\ DOMAIN Tail(q) = 1..Len(Tail(q))
      /\ \A i \in 1..Len(q) : q[i] \in Nat
      /\ \A x : x \in ToSet(q) <=> \E i \in 1..Len(q) : x = q[i]
      /\ \A x : x \in ToSet(Tail(q)) <=> \E i \in 1..Len(Tail(q)) : x = Tail(q)[i]
  <2>1. /\ DOMAIN q = 1..Len(q)
        /\ \A i \in 1..Len(q) : q[i] \in Events
        /\ \A x : x \in ToSet(q) <=> \E i \in 1..Len(q) : x = q[i]
    BY ToSetIn
  <2>2. /\ DOMAIN Tail(q) = 1..Len(Tail(q))
        /\ \A x : x \in ToSet(Tail(q)) <=> \E i \in 1..Len(Tail(q)) : x = Tail(q)[i]
    <3>1. \A t \in Seq(Events) :
            /\ DOMAIN t = 1..Len(t)
            /\ \A x : x \in ToSet(t) <=> \E i \in 1..Len(t) : x = t[i]
      BY ToSetIn
    <3>2. QED
      BY <1>1, <3>1, Zenon
  <2>3. QED
    BY <2>1, <2>2, EventsAreNumbers
<1>3. Ordered(Tail(q))
  BY <1>1, <1>2 DEF Ordered
<1>4. \A i \in 1..Len(Tail(q)) : Tail(q)[i] # Head(q)
  BY <1>1, <1>2 DEF Ordered
<1>5. ASSUME NEW x PROVE x \in ToSet(Tail(q)) <=> x \in ToSet(q) /\ x # Head(q)
  <2>1. ASSUME NEW i \in 1..Len(q), x = q[i], x # Head(q) PROVE x \in ToSet(Tail(q))
    <3>1. i - 1 \in 1..Len(Tail(q)) /\ Tail(q)[i - 1] = q[i]
      BY <1>1, <2>1
    <3>2. QED
      BY <1>2, <2>1, <3>1
  <2>2. ASSUME NEW i \in 1..Len(Tail(q)), x = Tail(q)[i] PROVE x \in ToSet(q)
    <3>1. i + 1 \in 1..Len(q) /\ x = q[i + 1]
      BY <1>1, <2>2
    <3>2. QED
      BY <1>2, <3>1
  <2>3. QED
    BY <1>2, <1>4, <2>1, <2>2
<1>6. Head(q) \in ToSet(q)
  BY <1>1, <1>2
<1>7. QED
  BY <1>1, <1>3, <1>5, <1>6

(* A batch of a set of entries.                                              *)
LEMMA BatchOf ==
    ASSUME NEW S, S \subseteq Events, NEW b \in Batch(S)
    PROVE  /\ b \in Seq(Events) /\ ToSet(b) \subseteq S /\ Ordered(b)
           /\ b # << >> =>
                /\ b[Len(b)] \in ToSet(b)
                /\ \A e \in ToSet(b) : e <= b[Len(b)]
                /\ \A e \in S \ ToSet(b) : b[Len(b)] < e
<1>1. PICK n \in 0..Limit : b \in [1..n -> S]
  BY DEF Batch
<1>2. n \in Nat /\ b \in Seq(S)
  BY <1>1, LimitAssumption
<1>3. b \in Seq(Events)
  BY <1>2, SeqMonotonic
<1>4. /\ Ordered(b) /\ \A e \in S \ ToSet(b) : \A i \in DOMAIN b : b[i] < e
  BY DEF Batch
<1>5. /\ ToSet(b) \subseteq S /\ DOMAIN b = 1..Len(b) /\ Len(b) \in Nat
      /\ \A x : x \in ToSet(b) <=> \E i \in 1..Len(b) : x = b[i]
  BY <1>2, ToSetIn
<1>6. ASSUME b # << >>
      PROVE  /\ b[Len(b)] \in ToSet(b)
             /\ \A e \in ToSet(b) : e <= b[Len(b)]
             /\ \A e \in S \ ToSet(b) : b[Len(b)] < e
  <2>1. Len(b) \in 1..Len(b)
    BY <1>2, <1>5, <1>6, EmptySeq
  <2>2. \A i \in 1..Len(b) : b[i] \in Nat
    BY <1>3, ToSetIn, EventsAreNumbers
  <2>3. ASSUME NEW i \in 1..Len(b) PROVE b[i] <= b[Len(b)]
    <3>1. CASE i = Len(b)
      BY <2>1, <2>2, <3>1
    <3>2. CASE i < Len(b)
      <4>1. b[i] < b[Len(b)]
        BY <1>4, <1>5, <2>1, <3>2 DEF Ordered
      <4>2. QED
        BY <2>1, <2>2, <4>1
    <3>3. i = Len(b) \/ i < Len(b)
      <4>1. Len(b) \in Nat
        BY <1>5
      <4>2. QED
        BY <4>1
    <3>4. QED
      BY <3>1, <3>2, <3>3
  <2>4. QED
    BY <1>4, <1>5, <2>1, <2>3
<1>7. QED
  BY <1>3, <1>4, <1>5, <1>6

LEMMA FaultType ==
    ASSUME faults \in Nat, NEW k, Fault(k) PROVE faults' \in Nat /\ faults' = faults + 1
  BY DEF Fault

(* What a step writes to a goroutine's locals.                               *)
LEMMA JobWritten ==
    ASSUME job \in [Goroutines -> JobState], NEW g \in Goroutines,
           NEW b \in Seq(Events), NEW a \in SUBSET Events,
           \/ job' = [job EXCEPT ![g] = [batch |-> b, ack |-> a]]
           \/ job' = [job EXCEPT ![g].batch = b] /\ a = job[g].ack
    PROVE  /\ job' \in [Goroutines -> JobState]
           /\ job'[g].batch = b /\ job'[g].ack = a
           /\ \A h \in Goroutines \ {g} : job'[h] = job[h]
<1>1. CASE job' = [job EXCEPT ![g] = [batch |-> b, ack |-> a]]
  BY <1>1 DEF JobState
<1>2. CASE job' = [job EXCEPT ![g].batch = b] /\ a = job[g].ack
  BY <1>2 DEF JobState
<1>3. QED
  BY <1>1, <1>2

LEMMA StreamInit == Init => StreamInv
<1> SUFFICES ASSUME Init PROVE StreamInv
  OBVIOUS
<1>1. DOMAIN pending = {} /\ last = 0 /\ faults = 0 /\ added = 0
  BY DEF Init
<1>2. /\ job \in [Goroutines -> JobState]
      /\ \A g \in Goroutines : job[g].batch = << >> /\ job[g].ack = {}
  BY EmptySeq DEF Init, IdleJob, JobState
<1>3. TypeOK
  <2>1. effects \in [Events -> Nat]
    BY DEF Init
  <2>2. added \in 0..MaxEvents /\ last \in 0..added /\ faults \in Nat
    BY <1>1, EventsAssumption
  <2>3. QED
    BY <1>1, <1>2, <2>1, <2>2 DEF Init, TypeOK, JobState
<1>4. BatchesDelivered /\ AckedIsDone
  BY <1>2, EmptyBatch DEF BatchesDelivered, AckedIsDone
<1>5. NothingForgotten
  BY <1>1 DEF NothingForgotten
<1>6. ASSUME NEW e \in Events PROVE Chances(e) <= 1 + faults
  <2>1. effects[e] = 0
    BY DEF Init
  <2>2. e \notin ToSet(job["reader"].batch) /\ e \notin ToSet(job["claimer"].batch)
    BY <1>2, EmptyBatch DEF Goroutines
  <2>3. QED
    BY <1>1, <2>1, <2>2 DEF Chances, Bit
<1>7. QED
  BY <1>3, <1>4, <1>5, <1>6 DEF StreamInv

-----------------------------------------------------------------------------
(* The stream itself.                                                        *)

LEMMA PushKeeps ==
    ASSUME StreamInv, PushEvent PROVE StreamInv'
<1> USE DEF StreamInv
<1>1. /\ UNCHANGED <<kind, last, pending, job, due, effects, dropped, faults>>
      /\ added' = added + 1 /\ stream' = stream \cup {added + 1} /\ added < MaxEvents
  BY DEF PushEvent
<1>2. added \in Nat /\ last \in 0..added /\ stream \subseteq 1..added /\ MaxEvents \in Nat
  BY EventsAssumption DEF TypeOK
<1>3. added' \in 0..MaxEvents /\ last' \in 0..added' /\ stream' \subseteq 1..added'
  BY <1>1, <1>2
<1>4. TypeOK'
  BY <1>1, <1>3 DEF TypeOK
<1>5. NothingForgotten'
  <2>1. \A e \in 1..added' : e \in 1..added \/ e > last
    BY <1>1, <1>2
  <2>2. \A e \in 1..added : e \in stream' => e \in stream
    BY <1>1, <1>2
  <2>3. QED
    BY <1>1, <2>1, <2>2 DEF NothingForgotten
<1>6. QED
  BY <1>1, <1>4, <1>5
  DEF BatchesDelivered, AckedIsDone, Chances, Redeliverable, Carried

LEMMA TrimKeeps ==
    ASSUME StreamInv, TrimStreamByAge PROVE StreamInv'
<1> USE DEF StreamInv
<1>1. /\ UNCHANGED <<kind, added, last, pending, job, due, effects, dropped>>
      /\ stream' \subseteq stream
  BY DEF TrimStreamByAge, Trimmed
<1>2. faults \in Nat /\ faults' = faults + 1 /\ faults' \in Nat
  BY FaultType DEF TrimStreamByAge, TypeOK
<1>3. TypeOK'
  BY <1>1, <1>2 DEF TypeOK
<1>4. NothingForgotten'
  BY <1>1 DEF NothingForgotten
<1>5. ASSUME NEW e \in Events PROVE Chances(e)' <= 1 + faults'
  <2>1. Chances(e)' = Chances(e) /\ Chances(e) \in Nat
    BY <1>1 DEF Chances, Redeliverable, Carried, Bit, TypeOK
  <2>2. QED
    BY <1>2, <2>1
<1>6. QED
  BY <1>1, <1>3, <1>4, <1>5 DEF BatchesDelivered, AckedIsDone
-----------------------------------------------------------------------------
(* An entry that is in no more batches than before, and can be delivered     *)
(* only if it could before or a fault has happened.                          *)
LEMMA NoMoreChances ==
    ASSUME StreamInv, NEW e \in Events, effects'[e] = effects[e],
           faults' \in Nat, faults' >= faults,
           e \in ToSet(job["reader"].batch)' => e \in ToSet(job["reader"].batch),
           e \in ToSet(job["claimer"].batch)' => e \in ToSet(job["claimer"].batch),
           Redeliverable(e)' => Redeliverable(e) \/ faults' > faults
    PROVE  Chances(e)' <= 1 + faults'
<1>1. effects[e] \in Nat /\ faults \in Nat /\ Chances(e) <= 1 + faults
  BY DEF StreamInv, TypeOK
<1>2. QED
  BY <1>1 DEF Chances, Bit

LEMMA Types ==
    ASSUME StreamInv
    PROVE  /\ added \in 0..MaxEvents /\ added \in Nat /\ last \in 0..added /\ last \in Nat
           /\ stream \subseteq 1..added /\ stream \subseteq Events
           /\ DOMAIN pending \subseteq 1..last /\ DOMAIN pending \subseteq Events
           /\ \A e \in DOMAIN pending : pending[e] \in 0..MinIdle
           /\ job \in [Goroutines -> JobState]
           /\ effects \in [Events -> Nat] /\ faults \in Nat
           /\ MinIdle \in Nat /\ MinIdle > 0
  BY EventsAssumption, LimitAssumption DEF StreamInv, TypeOK, JobState, Events

(* Which entries a goroutine holds.                                          *)
LEMMA HeldEntries ==
    ASSUME StreamInv, NEW g \in Goroutines
    PROVE  /\ job[g].batch \in Seq(Events) /\ job[g].ack \subseteq Events
           /\ ToSet(job[g].batch) \subseteq Events
           /\ \A e \in ToSet(job[g].batch) \cup job[g].ack : e <= last
<1>1. job[g].batch \in Seq(Events) /\ job[g].ack \subseteq Events
  BY Types DEF JobState
<1>2. ToSet(job[g].batch) \subseteq Events
  BY <1>1, ToSetIn
<1>3. QED
  BY <1>1, <1>2 DEF StreamInv, BatchesDelivered

LEMMA ReadKeeps ==
    ASSUME StreamInv, ReadEvents PROVE StreamInv'
<1> USE DEF StreamInv
<1>1. PICK b \in Batch(Unread) :
        /\ b # << >> /\ last' = b[Len(b)] /\ pending' = Delivered(ToSet(b))
        /\ \/ job' = [job EXCEPT !["reader"].batch = b] /\ UNCHANGED faults
           \/ Fault("read") /\ UNCHANGED job
  BY DEF ReadEvents
<1>2. /\ UNCHANGED <<kind, added, stream, due, effects, dropped>>
      /\ job["reader"].batch = << >> /\ job["reader"].ack = {}
  BY DEF ReadEvents, IdleJob
<1> DEFINE B == ToSet(b)
<1>3. /\ b \in Seq(Events) /\ B \subseteq Unread /\ Ordered(b)
      /\ last' \in B /\ (\A e \in B : e <= last') /\ (\A e \in Unread \ B : last' < e)
  <2>1. Unread \subseteq Events
    BY Types DEF Unread
  <2>2. QED
    BY <1>1, <2>1, BatchOf
<1>4. /\ DOMAIN pending' = DOMAIN pending \cup B
      /\ \A e \in DOMAIN pending' : pending'[e] = IF e \in B THEN 0 ELSE pending[e]
  BY <1>1 DEF Delivered
<1> HIDE DEF B
<1>5. /\ B \subseteq stream /\ (\A e \in B : e > last /\ e \in Nat)
      /\ last' \in Nat /\ last' > last /\ last' \in 0..added
  BY <1>3, Types, EventsAreNumbers DEF Unread
<1>6. /\ job' \in [Goroutines -> JobState]
      /\ job'["claimer"] = job["claimer"] /\ job'["reader"].ack = {}
      /\ \/ job'["reader"].batch = b /\ faults' = faults
         \/ job'["reader"].batch = << >> /\ faults' = faults + 1
      /\ faults' \in Nat
  <2>1. CASE job' = [job EXCEPT !["reader"].batch = b] /\ UNCHANGED faults
    <3>1. {} \in SUBSET Events /\ "reader" \in Goroutines /\ "claimer" \in Goroutines \ {"reader"}
      BY DEF Goroutines
    <3>2. QED
      BY <1>2, <1>3, <2>1, <3>1, JobWritten, Types
  <2>2. CASE Fault("read") /\ UNCHANGED job
    BY <1>2, <2>2, FaultType, Types
  <2>3. QED
    BY <1>1, <2>1, <2>2
<1>7. ToSet(job["reader"].batch) = {}
  BY <1>2, EmptyBatch
<1>8. /\ \/ ToSet(job'["reader"].batch) = B /\ faults' = faults
         \/ ToSet(job'["reader"].batch) = {} /\ faults' = faults + 1
      /\ Ordered(job'["reader"].batch)
  BY <1>3, <1>6, EmptyBatch DEF B
<1>9. TypeOK'
  <2>1. DOMAIN pending' \subseteq 1..last'
    <3>1. \A e \in B : e \in 1..last'
      BY <1>3, <1>5, Types
    <3>2. \A e \in DOMAIN pending : e \in 1..last'
      BY <1>5, Types
    <3>3. QED
      BY <1>4, <3>1, <3>2
  <2>2. \A e \in DOMAIN pending' : pending'[e] \in 0..MinIdle
    BY <1>4, Types
  <2>3. QED
    BY <1>2, <1>5, <1>6, <2>1, <2>2 DEF TypeOK, JobState
<1>10. \A e \in ToSet(job["claimer"].batch) \cup job["claimer"].ack : e <= last /\ e \in Nat
  BY HeldEntries, EventsAreNumbers DEF Goroutines
<1>11. BatchesDelivered'
  <2>1. /\ Ordered(job'["claimer"].batch)
        /\ \A e \in ToSet(job'["claimer"].batch) \cup job'["claimer"].ack : e <= last'
    BY <1>5, <1>6, <1>10, Types DEF BatchesDelivered, Goroutines
  <2>2. \A e \in ToSet(job'["reader"].batch) \cup job'["reader"].ack : e <= last'
    BY <1>3, <1>6, <1>8
  <2>3. QED
    BY <1>8, <2>1, <2>2 DEF BatchesDelivered, Goroutines
<1>12. AckedIsDone'
  BY <1>2, <1>6 DEF AckedIsDone, Goroutines
<1>13. NothingForgotten'
  <2> SUFFICES ASSUME NEW e \in 1..added, effects[e] = 0 \/ ~(effects[e] > 0), e \notin dropped,
                      e \in stream
      PROVE  e > last' \/ e \in DOMAIN pending'
    BY <1>2 DEF NothingForgotten
  <2>1. CASE e > last
    BY <1>3, <1>4, <2>1 DEF Unread
  <2>2. CASE ~(e > last)
    BY <1>4, <2>2 DEF NothingForgotten
  <2>3. QED
    BY <2>1, <2>2
<1>14. ASSUME NEW e \in Events PROVE Chances(e)' <= 1 + faults'
  <2>1. e \in Nat /\ effects'[e] = effects[e] /\ effects[e] \in Nat /\ faults \in Nat
        /\ Chances(e) <= 1 + faults
    BY <1>2, Types, EventsAreNumbers
  <2>2. CASE e \in B
    <3>1. Redeliverable(e) /\ e \notin ToSet(job["claimer"].batch)
      BY <1>5, <1>10, <2>1, <2>2, Types DEF Redeliverable
    <3>2. CASE ToSet(job'["reader"].batch) = B /\ faults' = faults
      <4>1. Carried(e)'
        BY <2>2, <3>2 DEF Carried, Goroutines
      <4>2. ~Redeliverable(e)'
        BY <1>3, <1>4, <1>5, <2>1, <2>2, <4>1, Types DEF Redeliverable
      <4>3. QED
        BY <1>6, <1>7, <2>1, <2>2, <3>1, <3>2, <4>2 DEF Chances, Bit
    <3>3. CASE ToSet(job'["reader"].batch) = {} /\ faults' = faults + 1
      BY <1>6, <1>7, <2>1, <3>1, <3>3, NoMoreChances
    <3>4. QED
      BY <1>8, <3>2, <3>3
  <2>3. CASE e \notin B
    <3>1. e \in ToSet(job'["reader"].batch) => e \in ToSet(job["reader"].batch)
      BY <1>8, <2>3
    <3>2. Carried(e)' <=> Carried(e)
      BY <1>2, <1>6, <1>7, <1>8, <2>3 DEF Carried, Goroutines
    <3>3. Redeliverable(e)' => Redeliverable(e)
      BY <1>4, <1>5, <2>1, <2>3, <3>2, Types DEF Redeliverable
    <3>4. faults' >= faults
      BY <1>6, <2>1
    <3>5. QED
      BY <1>6, <2>1, <3>1, <3>3, <3>4, NoMoreChances
  <2>4. QED
    BY <2>2, <2>3
<1>15. QED
  BY <1>9, <1>11, <1>12, <1>13, <1>14
LEMMA ClaimKeeps ==
    ASSUME StreamInv, AutoClaimPendingEvents PROVE StreamInv'
<1> USE DEF StreamInv
<1>1. PICK b \in Batch(Claimable) :
        /\ pending' = Delivered(ToSet(b))
        /\ \/ /\ \E p \in Parsed(b) : job' = [job EXCEPT !["claimer"].batch = p]
              /\ UNCHANGED faults
           \/ Fault("claim") /\ UNCHANGED job
           \/ UNCHANGED <<job, faults>>
  BY DEF AutoClaimPendingEvents
<1>2. /\ UNCHANGED <<kind, added, stream, last, effects, dropped>> /\ due' \in BOOLEAN
      /\ job["claimer"].batch = << >> /\ job["claimer"].ack = {}
  <2>1. due' = FALSE
    BY DEF AutoClaimPendingEvents
  <2>2. job["claimer"].batch = << >> /\ job["claimer"].ack = {}
    BY DEF AutoClaimPendingEvents, IdleJob
  <2>3. UNCHANGED <<kind, added, stream, last, effects, dropped>>
    BY DEF AutoClaimPendingEvents
  <2>4. due' \in BOOLEAN
    BY <2>1, Zenon
  <2>5. QED
    BY <2>2, <2>3, <2>4
<1> DEFINE B == ToSet(b)
<1>3. B \subseteq Claimable /\ B \subseteq Events
  <2>1. Claimable \subseteq Events
    BY Types DEF Claimable
  <2>2. QED
    BY <2>1, BatchOf
<1>4. B \subseteq DOMAIN pending /\ \A e \in B : pending[e] >= MinIdle
  BY <1>3 DEF Claimable
<1>5. /\ DOMAIN pending' = DOMAIN pending
      /\ \A e \in DOMAIN pending' : pending'[e] = IF e \in B THEN 0 ELSE pending[e]
  BY <1>1, <1>4 DEF Delivered
<1>6. PICK p \in Seq(Events) :
        /\ ToSet(p) \subseteq B /\ Ordered(p)
        /\ job' \in [Goroutines -> JobState]
        /\ job'["reader"] = job["reader"]
        /\ job'["claimer"].batch = p /\ job'["claimer"].ack = {}
        /\ faults' \in Nat /\ faults' >= faults
  <2>1. /\ {} \in SUBSET Events /\ "claimer" \in Goroutines /\ "reader" \in Goroutines \ {"claimer"}
        /\ faults \in Nat /\ faults >= faults
    BY Types DEF Goroutines
  <2>2. ASSUME NEW p \in Parsed(b), job' = [job EXCEPT !["claimer"].batch = p], UNCHANGED faults
        PROVE  /\ p \in Seq(Events) /\ ToSet(p) \subseteq B /\ Ordered(p)
               /\ job' \in [Goroutines -> JobState] /\ job'["reader"] = job["reader"]
               /\ job'["claimer"].batch = p /\ job'["claimer"].ack = {}
    <3>1. p \in Seq(Events) /\ ToSet(p) \subseteq B /\ Ordered(p)
      BY <1>3, <2>2, BatchOf DEF Parsed
    <3>2. QED
      BY <1>2, <2>1, <2>2, <3>1, JobWritten, Types
  <2>3. CASE Fault("claim") /\ UNCHANGED job
    <3>1. faults' \in Nat /\ faults' >= faults
      BY <2>1, <2>3, FaultType
    <3>2. << >> \in Seq(Events) /\ ToSet(<< >>) \subseteq B /\ Ordered(<< >>)
      BY EmptySeq, EmptyBatch
    <3>3. QED
      BY <1>2, <2>3, <3>1, <3>2, Types
  <2>4. CASE UNCHANGED <<job, faults>>
    <3>1. << >> \in Seq(Events) /\ ToSet(<< >>) \subseteq B /\ Ordered(<< >>)
      BY EmptySeq, EmptyBatch
    <3>2. QED
      BY <1>2, <2>1, <2>4, <3>1, Types
  <2>5. QED
    BY <1>1, <2>1, <2>2, <2>3, <2>4
<1> HIDE DEF B
<1>7. ToSet(job["claimer"].batch) = {}
  BY <1>2, EmptyBatch
<1>8. TypeOK'
  <2>1. /\ DOMAIN pending' \subseteq 1..last'
        /\ \A e \in DOMAIN pending' : pending'[e] \in 0..MinIdle
    BY <1>2, <1>5, Types, LimitAssumption DEF TypeOK
  <2>2. QED
    BY <1>2, <1>6, <2>1 DEF TypeOK, JobState
<1>9. BatchesDelivered'
  <2>1. /\ Ordered(job["reader"].batch)
        /\ \A e \in ToSet(job["reader"].batch) \cup job["reader"].ack : e <= last
    BY DEF BatchesDelivered, Goroutines
  <2>2. \A e \in B : e <= last
    BY <1>4, Types
  <2>3. QED
    BY <1>2, <1>6, <2>1, <2>2 DEF BatchesDelivered, Goroutines
<1>10. AckedIsDone'
  BY <1>2, <1>6 DEF AckedIsDone, Goroutines
<1>11. NothingForgotten'
  BY <1>2, <1>5 DEF NothingForgotten
<1>12. ASSUME NEW e \in Events PROVE Chances(e)' <= 1 + faults'
  <2>1. /\ e \in Nat /\ effects'[e] = effects[e] /\ effects[e] \in Nat /\ faults \in Nat
        /\ Chances(e) <= 1 + faults
    BY <1>2, Types, EventsAreNumbers
  <2>2. CASE e \in ToSet(p)
    <3>1. Redeliverable(e) /\ e <= last
      BY <1>4, <1>6, <2>2, Types DEF Redeliverable
    <3>2. Carried(e)'
      BY <1>6, <2>2 DEF Carried, Goroutines
    <3>3. ~Redeliverable(e)'
      BY <1>2, <1>5, <1>6, <2>1, <2>2, <3>1, <3>2, Types DEF Redeliverable
    <3>4. QED
      BY <1>6, <1>7, <2>1, <3>1, <3>3 DEF Chances, Bit
  <2>3. CASE e \notin ToSet(p)
    <3>1. Carried(e) => Carried(e)'
      BY <1>2, <1>6, <1>7 DEF Carried, Goroutines
    <3>2. CASE e \in B
      <4>1. Redeliverable(e)
        BY <1>4, <3>2 DEF Redeliverable
      <4>2. QED
        BY <1>6, <2>1, <2>3, <4>1, NoMoreChances
    <3>3. CASE e \notin B
      <4>1. Redeliverable(e)' => Redeliverable(e)
        BY <1>2, <1>5, <3>1, <3>3 DEF Redeliverable
      <4>2. QED
        BY <1>6, <2>1, <2>3, <4>1, NoMoreChances
    <3>4. QED
      BY <3>2, <3>3
  <2>4. QED
    BY <2>2, <2>3
<1>13. QED
  BY <1>8, <1>9, <1>10, <1>11, <1>12

-----------------------------------------------------------------------------
(* Handling and acknowledging.                                               *)

(* What handling entry e can do to it.                                       *)
Handled(e, acked) ==
    /\ dropped \subseteq dropped' /\ dropped' \subseteq dropped \cup {e}
    /\ faults' \in Nat
    /\ \/ acked = {e} /\ TakesEffect(e) /\ faults' >= faults
       \/ acked = {e} /\ UNCHANGED effects /\ e \in dropped' /\ faults' >= faults
       \/ acked = {} /\ UNCHANGED effects /\ faults' >= faults
       \/ acked = {} /\ TakesEffect(e) /\ faults' > faults

LEMMA HandleEffect ==
    ASSUME StreamInv, NEW g \in Goroutines, HandleEntry(g)
    PROVE  \E acked \in {{}, {Head(job[g].batch)}} :
             NextEntry(g, acked) /\ Handled(Head(job[g].batch), acked)
<1>1. faults \in Nat
  BY Types
<1>2. ASSUME NEW k, Fault(k) PROVE faults' \in Nat /\ faults' > faults /\ faults' >= faults
  BY <1>1, <1>2, FaultType
<1>3. ASSUME UNCHANGED faults PROVE faults' \in Nat /\ faults' >= faults
  BY <1>1, <1>3
<1>4. ASSUME NEW e, ProcessUpdate(g, e) \/ SendNotification(g, e) \/ UpdateStats(g, e)
      PROVE  \E acked \in {{}, {e}} : NextEntry(g, acked) /\ Handled(e, acked)
  <2>1. CASE Succeeds(g, e)
    BY <1>3, <2>1 DEF Succeeds, Handled
  <2>2. CASE Fails(g, e)
    BY <1>2, <1>3, <2>2 DEF Fails, Handled
  <2>3. CASE GivesUp(g, e) /\ (UNCHANGED faults \/ Fault("send") \/ Fault("lookup"))
    BY <1>2, <1>3, <2>3 DEF GivesUp, Handled
  <2>4. QED
    BY <1>4, <2>1, <2>2, <2>3 DEF ProcessUpdate, SendNotification, UpdateStats
<1>5. QED
  BY <1>4 DEF HandleEntry

LEMMA HandleKeeps ==
    ASSUME StreamInv, NEW g \in Goroutines, HandleEntry(g) PROVE StreamInv'
<1> USE DEF StreamInv
<1> DEFINE q == job[g].batch
           h == Head(q)
<1>1. /\ q \in Seq(Events) /\ q # << >> /\ Ordered(q)
      /\ UNCHANGED <<kind, added, stream, last, pending, due>>
  BY HeldEntries DEF HandleEntry, BatchesDelivered
<1>2. /\ h \in Events /\ h \in ToSet(q) /\ Tail(q) \in Seq(Events) /\ Ordered(Tail(q))
      /\ ToSet(Tail(q)) = ToSet(q) \ {h}
  BY <1>1, RestOfBatch
<1>3. PICK acked \in {{}, {h}} : NextEntry(g, acked) /\ Handled(h, acked)
  BY HandleEffect
<1>4. /\ job' \in [Goroutines -> JobState]
      /\ job'[g].batch = Tail(q) /\ job'[g].ack = job[g].ack \cup acked
      /\ \A o \in Goroutines \ {g} : job'[o] = job[o]
  <2>1. job' = [job EXCEPT ![g] = [batch |-> Tail(q), ack |-> job[g].ack \cup acked]]
    BY <1>3 DEF NextEntry
  <2>2. job[g].ack \cup acked \in SUBSET Events
    BY <1>2, <1>3, HeldEntries
  <2>3. QED
    BY <1>2, <2>1, <2>2, JobWritten, Types
<1> HIDE DEF q, h
<1>5. /\ faults' \in Nat /\ faults' >= faults /\ faults \in Nat
      /\ effects' \in [Events -> Nat] /\ dropped' \subseteq Events
      /\ \A e \in Events : e # h => effects'[e] = effects[e]
      /\ \A e \in Events : effects[e] > 0 => effects'[e] > 0
  <2>1. effects \in [Events -> Nat] /\ dropped \subseteq Events /\ faults \in Nat
    BY Types DEF TypeOK
  <2>2. QED
    BY <1>2, <1>3, <2>1 DEF Handled, TakesEffect
<1>6. \/ /\ acked = {h} /\ effects'[h] = effects[h] + 1
      \/ /\ acked = {h} /\ effects'[h] = effects[h] /\ h \in dropped'
      \/ /\ acked = {} /\ effects'[h] = effects[h]
      \/ /\ acked = {} /\ effects'[h] = effects[h] + 1 /\ faults' > faults
  BY <1>2, <1>3, Types DEF Handled, TakesEffect
<1>7. TypeOK'
  BY <1>1, <1>4, <1>5 DEF TypeOK, JobState
<1>8. BatchesDelivered'
  <2>1. ASSUME NEW o \in Goroutines, o # g
        PROVE  /\ Ordered(job'[o].batch)
               /\ \A e \in ToSet(job'[o].batch) \cup job'[o].ack : e <= last'
    BY <1>1, <1>4, <2>1 DEF BatchesDelivered
  <2>2. \A e \in ToSet(q) \cup job[g].ack : e <= last
    BY HeldEntries DEF q
  <2>3. \A e \in ToSet(job'[g].batch) \cup job'[g].ack : e <= last'
    BY <1>1, <1>2, <1>3, <1>4, <2>2
  <2>4. QED
    BY <1>2, <1>4, <2>1, <2>3 DEF BatchesDelivered
<1>9. AckedIsDone'
  <2>1. ASSUME NEW o \in Goroutines, NEW e \in job[o].ack PROVE effects'[e] > 0 \/ e \in dropped'
    BY <1>3, <1>5, HeldEntries DEF AckedIsDone, Handled
  <2>2. acked = {h} => effects'[h] > 0 \/ h \in dropped'
    BY <1>2, <1>6, Types
  <2>3. QED
    BY <1>3, <1>4, <2>1, <2>2 DEF AckedIsDone
<1>10. NothingForgotten'
  <2>1. dropped \subseteq dropped'
    BY <1>3 DEF Handled
  <2>2. \A e \in 1..added : e \in Events
    BY Types, EventsAssumption DEF Events
  <2>3. QED
    BY <1>1, <1>5, <2>1, <2>2 DEF NothingForgotten
<1>11. ASSUME NEW e \in Events PROVE Chances(e)' <= 1 + faults'
  <2>1. /\ effects[e] \in Nat /\ Chances(e) <= 1 + faults
    BY Types
  <2>2. g = "reader" \/ g = "claimer"
    BY DEF Goroutines
  <2>3. CASE e # h
    <3>1. \A o \in Goroutines :
            /\ e \in ToSet(job'[o].batch) <=> e \in ToSet(job[o].batch)
            /\ e \in job'[o].ack <=> e \in job[o].ack
      BY <1>2, <1>3, <1>4, <2>3 DEF q
    <3>2. Redeliverable(e)' => Redeliverable(e)
      BY <1>1, <3>1 DEF Redeliverable, Carried
    <3>3. QED
      BY <1>5, <2>3, <3>1, <3>2, NoMoreChances DEF Goroutines
  <2>4. CASE e = h
    <3>1. e \in ToSet(job[g].batch) /\ e \notin ToSet(job'[g].batch)
      BY <1>2, <1>4, <2>4 DEF q
    <3>2. ASSUME acked = {h} PROVE Redeliverable(e)' => Redeliverable(e)
      <4>1. e \in job'[g].ack
        BY <1>4, <2>4, <3>2
      <4>2. Carried(e)' /\ Carried(e)
        BY <3>1, <4>1 DEF Carried
      <4>3. QED
        BY <1>1, <4>2 DEF Redeliverable
    <3>3. /\ effects[e] \in Nat /\ effects'[e] \in Nat
          /\ effects'[e] + Bit(Redeliverable(e)')
                <= effects[e] + 1 + Bit(Redeliverable(e)) + (faults' - faults)
      <4>1. effects'[e] \in Nat
        BY <1>5
      <4>2. CASE acked = {h}
        BY <1>5, <1>6, <2>1, <2>4, <3>2, <4>1, <4>2 DEF Bit
      <4>3. CASE acked = {}
        BY <1>5, <1>6, <2>1, <2>4, <4>1, <4>3 DEF Bit
      <4>4. QED
        BY <1>3, <2>1, <4>1, <4>2, <4>3
    <3>4. \A o \in Goroutines \ {g} :
            e \in ToSet(job'[o].batch) <=> e \in ToSet(job[o].batch)
      BY <1>4
    <3>5. CASE g = "reader"
      <4>1. e \in ToSet(job'["claimer"].batch) <=> e \in ToSet(job["claimer"].batch)
        BY <3>4, <3>5 DEF Goroutines
      <4>2. QED
        BY <1>5, <2>1, <3>1, <3>3, <3>5, <4>1 DEF Chances, Bit
    <3>6. CASE g = "claimer"
      <4>1. e \in ToSet(job'["reader"].batch) <=> e \in ToSet(job["reader"].batch)
        BY <3>4, <3>6 DEF Goroutines
      <4>2. QED
        BY <1>5, <2>1, <3>1, <3>3, <3>6, <4>1 DEF Chances, Bit
    <3>7. QED
      BY <2>2, <3>5, <3>6
  <2>5. QED
    BY <2>3, <2>4
<1>12. QED
  BY <1>7, <1>8, <1>9, <1>10, <1>11

LEMMA AckKeeps ==
    ASSUME StreamInv, NEW g \in Goroutines, AckMessages(g) PROVE StreamInv'
<1> USE DEF StreamInv
<1> DEFINE A == job[g].ack
<1>1. /\ UNCHANGED <<kind, added, stream, last, due, effects, dropped>>
      /\ job[g].batch = << >> /\ faults \in Nat
      /\ \/ pending' = Without(A) /\ faults' = faults
         \/ faults' = faults + 1 /\ UNCHANGED pending
  BY FaultType, Types DEF AckMessages
<1>2. /\ job' \in [Goroutines -> JobState]
      /\ job'[g].batch = << >> /\ job'[g].ack = {}
      /\ \A o \in Goroutines \ {g} : job'[o] = job[o]
  <2>1. job' = [job EXCEPT ![g] = [batch |-> << >>, ack |-> {}]]
    BY DEF AckMessages, IdleJob
  <2>2. << >> \in Seq(Events) /\ {} \in SUBSET Events
    BY EmptySeq
  <2>3. QED
    BY <2>1, <2>2, JobWritten, Types
<1>3. ToSet(job[g].batch) = {} /\ ToSet(job'[g].batch) = {} /\ Ordered(job'[g].batch)
  BY <1>1, <1>2, EmptyBatch
<1>4. /\ DOMAIN pending' \subseteq DOMAIN pending
      /\ \A e \in DOMAIN pending' : pending'[e] = pending[e]
      /\ \A e \in DOMAIN pending : e \in DOMAIN pending' \/ e \in A
  BY <1>1 DEF Without
<1>5. TypeOK'
  BY <1>1, <1>2, <1>4, Types DEF TypeOK, JobState
<1>6. BatchesDelivered' /\ AckedIsDone'
  BY <1>1, <1>2, <1>3 DEF BatchesDelivered, AckedIsDone
<1>7. NothingForgotten'
  BY <1>1, <1>4 DEF NothingForgotten, AckedIsDone
<1>8. ASSUME NEW e \in Events PROVE Chances(e)' <= 1 + faults'
  <2>1. \A o \in Goroutines : e \in ToSet(job'[o].batch) => e \in ToSet(job[o].batch)
    BY <1>2, <1>3
  <2>2. Redeliverable(e)' => Redeliverable(e) \/ faults' > faults
    <3>1. CASE faults' = faults + 1
      BY <1>1, <3>1
    <3>2. CASE pending' = Without(A) /\ e \in A
      <4>1. e \notin DOMAIN pending'
        BY <3>2 DEF Without
      <4>2. e <= last /\ e \in Nat /\ last \in Nat
        BY <3>2, HeldEntries, Types, EventsAreNumbers
      <4>3. QED
        BY <1>1, <4>1, <4>2 DEF Redeliverable
    <3>3. CASE e \notin A
      <4>1. Carried(e) => Carried(e)'
        BY <1>2, <1>3, <3>3 DEF Carried
      <4>2. QED
        BY <1>1, <1>4, <4>1 DEF Redeliverable
    <3>4. QED
      BY <1>1, <3>1, <3>2, <3>3
  <2>3. faults' \in Nat /\ faults' >= faults /\ effects'[e] = effects[e]
    BY <1>1
  <2>4. QED
    BY <2>1, <2>2, <2>3, NoMoreChances DEF Goroutines
<1>9. QED
  BY <1>5, <1>6, <1>7, <1>8

-----------------------------------------------------------------------------
(* Time and crashes.                                                         *)

LEMMA TickKeeps ==
    ASSUME StreamInv, Tick PROVE StreamInv'
<1> USE DEF StreamInv
<1>1. /\ UNCHANGED <<kind, added, stream, last, job, effects, dropped>>
      /\ due' \in BOOLEAN /\ faults \in Nat
      /\ \/ InTime /\ faults' = faults
         \/ faults' = faults + 1
  BY FaultType, Types DEF Tick
<1>2. /\ DOMAIN pending' = DOMAIN pending
      /\ \A e \in DOMAIN pending' :
            pending'[e] = IF pending[e] < MinIdle THEN pending[e] + 1 ELSE MinIdle
  BY DEF Tick
<1>3. TypeOK'
  <2>1. \A e \in DOMAIN pending' : pending'[e] \in 0..MinIdle
    BY <1>2, Types
  <2>2. QED
    BY <1>1, <1>2, <2>1 DEF TypeOK
<1>4. BatchesDelivered' /\ AckedIsDone' /\ NothingForgotten'
  BY <1>1, <1>2 DEF BatchesDelivered, AckedIsDone, NothingForgotten
<1>5. ASSUME NEW e \in Events PROVE Chances(e)' <= 1 + faults'
  <2>1. Redeliverable(e)' => Redeliverable(e) \/ faults' > faults
    <3>1. CASE faults' = faults + 1
      BY <1>1, <3>1
    <3>2. CASE InTime /\ Carried(e)
      <4>1. ToSet(job["claimer"].batch) = {} /\ job["claimer"].ack = {}
        BY <3>2, EmptyBatch DEF InTime, IdleJob
      <4>2. e \in DOMAIN pending => pending[e] + 1 < MinIdle
        BY <3>2, <4>1 DEF InTime, Carried, Goroutines
      <4>3. e \in DOMAIN pending' => ~(pending'[e] >= MinIdle)
        BY <1>2, <4>2, Types
      <4>4. Carried(e)'
        BY <1>1, <3>2 DEF Carried
      <4>5. QED
        BY <1>1, <4>3, <4>4 DEF Redeliverable
    <3>3. CASE ~Carried(e)
      BY <1>1, <1>2, <3>3 DEF Redeliverable
    <3>4. QED
      BY <1>1, <3>1, <3>2, <3>3
  <2>2. faults' \in Nat /\ faults' >= faults
    BY <1>1
  <2>3. QED
    BY <1>1, <2>1, <2>2, NoMoreChances
<1>6. QED
  BY <1>3, <1>4, <1>5

LEMMA CrashKeeps ==
    ASSUME StreamInv, Crash PROVE StreamInv'
<1> USE DEF StreamInv
<1>1. /\ UNCHANGED <<kind, added, stream, last, pending, effects, dropped>>
      /\ due' \in BOOLEAN /\ faults \in Nat /\ faults' = faults + 1
  BY FaultType, Types DEF Crash
<1>2. /\ job' \in [Goroutines -> JobState]
      /\ \A g \in Goroutines : job'[g].batch = << >> /\ job'[g].ack = {}
  BY EmptySeq DEF Crash, IdleJob, JobState
<1>3. TypeOK'
  BY <1>1, <1>2 DEF TypeOK, JobState
<1>4. BatchesDelivered' /\ AckedIsDone'
  BY <1>2, EmptyBatch DEF BatchesDelivered, AckedIsDone
<1>5. NothingForgotten'
  BY <1>1 DEF NothingForgotten
<1>6. ASSUME NEW e \in Events PROVE Chances(e)' <= 1 + faults'
  <2>1. \A g \in Goroutines : e \notin ToSet(job'[g].batch)
    BY <1>2, EmptyBatch
  <2>2. faults' \in Nat /\ faults' >= faults /\ faults' > faults /\ effects'[e] = effects[e]
    BY <1>1
  <2>3. QED
    BY <2>1, <2>2, NoMoreChances DEF Goroutines
<1>7. QED
  BY <1>3, <1>4, <1>5, <1>6

-----------------------------------------------------------------------------
LEMMA StreamNext == StreamInv /\ [Next]_vars => StreamInv'
<1> SUFFICES ASSUME StreamInv, [Next]_vars PROVE StreamInv'
  OBVIOUS
<1>1. CASE UNCHANGED vars
  BY <1>1 DEF vars, StreamInv, TypeOK, BatchesDelivered, AckedIsDone, NothingForgotten,
              Chances, Redeliverable, Carried
<1>2. QED
  BY <1>1, PushKeeps, ReadKeeps, ClaimKeeps, HandleKeeps, AckKeeps, TrimKeeps, TickKeeps,
     CrashKeeps DEF Next

LEMMA StreamInvariant == Spec => []StreamInv
  BY StreamInit, StreamNext, PTL DEF Spec

(* Whatever crashes, fails or is answered too late, for any batch size: an    *)
(* entry that was neither handled nor given up is unread or pending as long   *)
(* as the stream holds it.                                                    *)
THEOREM NothingForgottenTheorem == Spec => []NothingForgotten
<1>1. StreamInv => NothingForgotten
  BY DEF StreamInv
<1>2. QED
  BY <1>1, StreamInvariant, PTL

(* Every repetition of an effect is paid for by a fault of its own: without   *)
(* faults reader and claimer never handle an entry twice.                     *)
THEOREM RepeatedByFaultOnlyTheorem == Spec => []RepeatedByFaultOnly
<1>1. StreamInv => RepeatedByFaultOnly
  <2> SUFFICES ASSUME StreamInv, NEW e \in Events PROVE effects[e] <= 1 + faults
    BY DEF RepeatedByFaultOnly
  <2>1. effects[e] \in Nat /\ faults \in Nat /\ Chances(e) <= 1 + faults
    BY Types DEF StreamInv
  <2>2. QED
    BY <2>1 DEF Chances, Bit
<1>2. QED
  BY <1>1, StreamInvariant, PTL
=============================================================================
