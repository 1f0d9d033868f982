---------------------------- MODULE BlockTraversal ----------------------------
(***************************************************************************)
(* How the blockchain observer finds every block of the workchain.  One    *)
(* goroutine polls for the latest masterchain block, one walks from the    *)
(* tips a master block names back to the blocks it has recorded, and       *)
(* several workers read the transactions of the blocks the walk sends      *)
(* them.  Masters the poller skipped, masters whose shards could not be    *)
(* read, splits and merges of shards are all left to the walk.             *)
(*                                                                         *)
(* The channels masterBlocks and shardBlocks are unbuffered: a sender      *)
(* waits for its receiver.  A step of the walk handles one block.          *)
(***************************************************************************)
EXTENDS Naturals, Sequences, FiniteSets, SequencesExt

CONSTANTS
    Workers,    \* the goroutines that read transactions
    MaxSeqNo,   \* bound: sequence number of a block
    Faults,     \* the kinds of faults that may happen
    MaxFaults   \* bound: faults in a behaviour

FaultKinds ==
    {"crash",   \* the process stops anywhere and restarts
     "start",   \* the first request for the latest master fails
     "shards",  \* the shards of a master cannot be read in three attempts
     "tip",     \* nor the data of a tip
     "parent",  \* nor the data of a block behind a tip
     "txs"}     \* nor the transactions of a block

ASSUME BoundsAssumption == MaxSeqNo \in Nat /\ MaxFaults \in Nat
ASSUME WorkersAssumption == IsFiniteSet(Workers) /\ Workers # {}
ASSUME FaultsAssumption == Faults \subseteq FaultKinds

Shards == {"root", "left", "right"}
Block == [shard : Shards, seqno : 0..MaxSeqNo]

VARIABLES
    chain,     \* the blocks built so far, with the parents of each
    behind,    \* history: all that lies behind each of them
    poller,    \* where startMasterObserver is
    posted,    \* the tips of the master it hands over
    walker,    \* where startMastersHandler is
    workchain, \* o.workchain.Shards, a block for each shard recorded
    worker,    \* the block each worker reads, as a set of at most one
    sent,      \* history: blocks sent to the workers
    repeated,  \* history: blocks sent more than once
    scanned,   \* history: blocks whose transactions were read
    excused,   \* history: blocks a fault, or a start, leaves out
    rewalked,  \* history: a tip was left out, or the process restarted
    faults     \* faults so far

history == <<sent, repeated, scanned, excused, rewalked>>
network == <<chain, behind>>
vars == <<network, poller, posted, walker, workchain, worker, history, faults>>

-----------------------------------------------------------------------------
Genesis == [shard |-> "root", seqno |-> 0]

Tips(c) == {b \in DOMAIN c : \A d \in DOMAIN c : b \notin ToSet(c[d])}

(* A block and everything behind it.                                         *)
Ancestry(b) == {b} \cup behind[b]

AncestryOf(S) == UNION {Ancestry(b) : b \in S}

(* tips: the blocks of the master still to be handled; newShards: those that *)
(* are; todo: blocks the walk has yet to look at, the next one first; stack: *)
(* those it has to send, the next one last.                                  *)
Idle ==
    [pc |-> "idle", tips |-> {}, newShards |-> {}, todo |-> << >>, stack |-> << >>]

(* A write to one of the maps from shards to sequence numbers.               *)
Record(m, b) == {c \in m : c.shard # b.shard} \cup {b}

Init ==
    /\ chain = [b \in {Genesis} |-> << >>] /\ behind = [b \in {Genesis} |-> {}]
    /\ poller = "start" /\ posted = {}
    /\ walker = Idle /\ workchain = {}
    /\ worker = [w \in Workers |-> {}]
    /\ sent = {} /\ repeated = {} /\ scanned = {} /\ excused = {}
    /\ rewalked = FALSE /\ faults = 0

Fault(f) == f \in Faults /\ faults < MaxFaults /\ faults' = faults + 1

-----------------------------------------------------------------------------
(* The network: a shard grows, splits in two or is merged from two.          *)
Build(new, parents) ==
    /\ chain' = [b \in DOMAIN chain \cup new |->
                    IF b \in new THEN parents ELSE chain[b]]
    /\ behind' = [b \in DOMAIN chain \cup new |->
                    IF b \in new THEN AncestryOf(ToSet(parents)) ELSE behind[b]]
    /\ UNCHANGED <<poller, posted, walker, workchain, worker, history, faults>>

Grow ==
    \E b \in Tips(chain) :
        /\ b.seqno < MaxSeqNo
        /\ Build({[b EXCEPT !.seqno = @ + 1]}, <<b>>)

Split ==
    \E b \in Tips(chain) :
        /\ b.shard = "root" /\ b.seqno < MaxSeqNo
        /\ Build({[shard |-> s, seqno |-> b.seqno + 1] : s \in {"left", "right"}}, <<b>>)

Merge ==
    \E l, r \in Tips(chain) :
        LET top == IF l.seqno > r.seqno THEN l.seqno ELSE r.seqno
        IN  /\ l.shard = "left" /\ r.shard = "right" /\ top < MaxSeqNo
            /\ Build({[shard |-> "root", seqno |-> top + 1]}, <<l, r>>)

-----------------------------------------------------------------------------
(* startMasterObserver: the first answer only sets lastSeqNo, and without it *)
(* the goroutine returns while the others wait on.                           *)
StartMasterObserver ==
    /\ poller = "start"
    /\ \/ poller' = "poll" /\ UNCHANGED faults
       \/ poller' = "dead" /\ Fault("start")
    /\ UNCHANGED <<network, posted, walker, workchain, worker, history>>

(* Mutant: a master counts as new when its shards are others.                *)
GetMasterchainInfoNewShards ==
    /\ poller = "poll" /\ {b.shard : b \in Tips(chain)} # {b.shard : b \in workchain}
    /\ posted' = Tips(chain) /\ poller' = "post"
    /\ UNCHANGED <<network, walker, workchain, worker, history, faults>>

(* A newer master is handed over, with the tips it names.  One that is not  *)
(* newer than the last, or a request that fails, leaves all as it is: the    *)
(* masterchain goes on whether or not the workchain does.                    *)
GetMasterchainInfo ==
    /\ poller = "poll"
    /\ posted' = Tips(chain) /\ poller' = "post"
    /\ UNCHANGED <<network, walker, workchain, worker, history, faults>>

(* o.masterBlocks <- currentMaster meets the loop of startMastersHandler.    *)
HandOver ==
    /\ poller = "post" /\ walker.pc = "idle"
    /\ poller' = "poll" /\ posted' = {}
    /\ walker' = [Idle EXCEPT !.pc = "shards", !.tips = posted]
    /\ UNCHANGED <<network, workchain, worker, history, faults>>

(* handleNewMaster: with nothing recorded the tips alone are recorded and    *)
(* sent, and what lies behind them is not looked at.                         *)
GetBlockShardsInfo ==
    /\ walker.pc = "shards"
    /\ \/ /\ workchain = {}
          /\ walker' = [walker EXCEPT !.pc = "first"]
          /\ excused' = excused \cup (AncestryOf(walker.tips) \ walker.tips)
          /\ UNCHANGED faults
       \/ /\ workchain # {}
          /\ walker' = [walker EXCEPT !.pc = "walk"]
          /\ UNCHANGED <<excused, faults>>
       \/ walker' = Idle /\ Fault("shards") /\ UNCHANGED excused
    /\ UNCHANGED <<network, poller, posted, workchain, worker, sent, repeated,
                   scanned, rewalked>>

(* o.shardBlocks <- b meets a worker that is done with its block.            *)
Send(b) ==
    /\ \E w \in Workers :
        /\ worker[w] = {}
        /\ worker' = [worker EXCEPT ![w] = {b}]
    /\ sent' = sent \cup {b}
    /\ repeated' = IF b \in sent THEN repeated \cup {b} ELSE repeated

RecordFirst ==
    /\ walker.pc = "first"
    /\ \/ \E b \in walker.tips :
            /\ workchain' = Record(workchain, b)
            /\ walker' = [walker EXCEPT !.tips = @ \ {b}]
            /\ Send(b)
       \/ /\ walker.tips = {}
          /\ walker' = Idle
          /\ UNCHANGED <<workchain, worker, sent, repeated>>
    /\ UNCHANGED <<network, poller, posted, scanned, excused, rewalked, faults>>

(* Mutant: the recorded block itself is not known.                           *)
KnownBelow(b) == \E r \in workchain : r.shard = b.shard /\ r.seqno > b.seqno

Known(b) == \E r \in workchain : r.shard = b.shard /\ r.seqno >= b.seqno

(* Mutant: a tip is recorded though its walk failed.                         *)
NextShardRecorded ==
    /\ walker.pc = "walk"
    /\ \E tip \in walker.tips :
        LET recorded == Record(walker.newShards, tip)
        IN  \/ /\ walker' = [walker EXCEPT !.pc = "send", !.tips = @ \ {tip},
                                           !.newShards = recorded, !.todo = <<tip>>]
               /\ UNCHANGED <<rewalked, faults>>
            \/ /\ ~Known(tip) /\ Fault("tip")
               /\ walker' = [walker EXCEPT !.tips = @ \ {tip}, !.newShards = recorded]
               /\ rewalked' = TRUE
    /\ UNCHANGED <<network, poller, posted, workchain, worker, sent, repeated,
                   scanned, excused>>

(* The walk from one of the tips.  When its own data cannot be read the tip  *)
(* is left out of the new map; otherwise the walk will not fail, and the tip *)
(* is put in the map at once, which nothing reads before it is complete.     *)
NextShard ==
    /\ walker.pc = "walk"
    /\ \E tip \in walker.tips :
        \/ /\ walker' = [walker EXCEPT !.pc = "send", !.tips = @ \ {tip},
                                       !.newShards = Record(@, tip), !.todo = <<tip>>]
           /\ UNCHANGED <<rewalked, faults>>
        \/ /\ ~Known(tip) /\ Fault("tip")
           /\ walker' = [walker EXCEPT !.tips = @ \ {tip}]
           /\ rewalked' = TRUE
    /\ UNCHANGED <<network, poller, posted, workchain, worker, sent, repeated,
                   scanned, excused>>

(* handleShardBlock: a block recorded before ends the walk on this side; any *)
(* other is pushed, and its parents are next.  When its data cannot be read  *)
(* the error is dropped, and what lies behind the block with it.             *)
HandleShardBlock ==
    /\ walker.pc = "send" /\ walker.todo # << >>
    /\ LET b == Head(walker.todo)
           rest == Tail(walker.todo)
       IN  \/ /\ Known(b)
              /\ walker' = [walker EXCEPT !.todo = rest]
              /\ UNCHANGED <<excused, faults>>
           \/ /\ ~Known(b)
              /\ walker' = [walker EXCEPT !.todo = chain[b] \o rest,
                                          !.stack = Append(@, b)]
              /\ UNCHANGED <<excused, faults>>
           \/ /\ ~Known(b) /\ walker.stack # << >> /\ Fault("parent")
              /\ walker' = [walker EXCEPT !.todo = rest, !.stack = Append(@, b)]
              /\ excused' = excused \cup behind[b]
    /\ UNCHANGED <<network, poller, posted, workchain, worker, sent, repeated,
                   scanned, rewalked>>

(* The stack is emptied from its top: a block follows those behind it.       *)
SendStack ==
    /\ walker.pc = "send" /\ walker.todo = << >>
    /\ \/ /\ walker.stack # << >>
          /\ walker' = [walker EXCEPT !.stack = Front(@)]
          /\ Send(Last(walker.stack))
       \/ /\ walker.stack = << >>
          /\ walker' = [walker EXCEPT !.pc = "walk"]
          /\ UNCHANGED <<worker, sent, repeated>>
    /\ UNCHANGED <<network, poller, posted, workchain, scanned, excused, rewalked,
                   faults>>

(* o.workchain.Shards = newShards, once the walk is through with the master. *)
RecordShards ==
    /\ walker.pc = "walk" /\ walker.tips = {}
    /\ workchain' = walker.newShards
    /\ walker' = Idle
    /\ UNCHANGED <<network, poller, posted, worker, history, faults>>

-----------------------------------------------------------------------------
(* shardHandleWorker; what it does with the transactions is EscrowFunding's. *)
GetTransactionIDsFromBlock ==
    /\ \E w \in Workers :
        /\ worker[w] # {}
        /\ worker' = [worker EXCEPT ![w] = {}]
        /\ \/ scanned' = scanned \cup worker[w] /\ UNCHANGED <<excused, faults>>
           \/ /\ Fault("txs")
              /\ excused' = excused \cup worker[w] /\ UNCHANGED scanned
    /\ UNCHANGED <<network, poller, posted, walker, workchain, sent, repeated,
                   rewalked>>

(* Nothing is kept: the next process starts from the latest master.          *)
Restart ==
    /\ Fault("crash")
    /\ poller' = "start" /\ posted' = {} /\ walker' = Idle /\ workchain' = {}
    /\ worker' = [w \in Workers |-> {}]
    /\ excused' = excused \cup UNION {worker[w] : w \in Workers}
    /\ rewalked' = TRUE
    /\ UNCHANGED <<network, sent, repeated, scanned>>

-----------------------------------------------------------------------------
Network == Grow \/ Split \/ Merge

Poll == StartMasterObserver \/ GetMasterchainInfo \/ HandOver

Walk ==
    \/ GetBlockShardsInfo \/ RecordFirst
    \/ NextShard \/ HandleShardBlock \/ SendStack \/ RecordShards

Next == Network \/ Poll \/ Walk \/ GetTransactionIDsFromBlock \/ Restart

Spec == Init /\ [][Next]_vars

(* The masterchain goes on and no goroutine stops: every request of theirs   *)
(* has a deadline or is given up after a few attempts, and a block that is   *)
(* not ready, for which a worker waits as long as it takes, gets ready.      *)
FairSpec ==
    /\ Spec
    /\ WF_vars(Poll) /\ WF_vars(Walk)
    /\ WF_vars(GetTransactionIDsFromBlock)

-----------------------------------------------------------------------------
WalkerState(blocks) ==
    [pc : {"idle", "shards", "first", "walk", "send"}, tips : SUBSET blocks,
     newShards : SUBSET blocks, todo : Seq(blocks), stack : Seq(blocks)]

(* Type correctness: what observer and workers name are blocks of the chain, *)
(* and a shard is in a map once.                                             *)
TypeOK ==
    /\ DOMAIN chain \subseteq Block
    /\ chain \in [DOMAIN chain -> Seq(DOMAIN chain)]
    /\ behind \in [DOMAIN chain -> SUBSET DOMAIN chain]
    /\ poller \in {"start", "poll", "post", "dead"}
    /\ walker \in WalkerState(DOMAIN chain)
    /\ \A m \in {workchain, walker.newShards} : \A b, c \in m : b.shard = c.shard => b = c
    /\ worker \in [Workers -> SUBSET sent]
    /\ \A w \in Workers : Cardinality(worker[w]) <= 1
    /\ UNION {posted, workchain, sent, repeated, scanned, excused} \subseteq DOMAIN chain
    /\ rewalked \in BOOLEAN /\ faults \in Nat

(* What the observer has recorded as seen it has sent to its workers, back   *)
(* to where it started, however shards split and merged between two masters  *)
(* and however many masters were skipped.  The exceptions are the blocks     *)
(* behind one whose data could not be read (the error is dropped) and those  *)
(* behind the tips found with nothing recorded.                              *)
RecordedIsSent == AncestryOf(workchain) \subseteq sent \cup excused

(* The blocks after which a shard was split: those with two children.        *)
Splits ==
    {s \in DOMAIN chain : \E c, d \in DOMAIN chain :
        c # d /\ s \in ToSet(chain[c]) \cap ToSet(chain[d])}

(* As long as no tip was left out and the process has not restarted, a block *)
(* is sent again only when the walk meets it from both sides of a split.     *)
RepeatedBySplitOnly == ~rewalked => repeated \subseteq AncestryOf(Splits)

(* Once the chain rests, every block of it has its transactions read, the    *)
(* exceptions and a poller that gave up at its first request aside.          *)
EventuallyScanned ==
    []<>(DOMAIN chain \subseteq scanned \cup excused \/ poller = "dead")
-----------------------------------------------------------------------------
(* The inductive invariants behind the theorems of BlockTraversalProofs.     *)

(* Parents come before their child, and what lies behind a block leads to it *)
(* from child to child.                                                      *)
ChainOrdered ==
    \A b \in DOMAIN chain :
        /\ behind[b] = AncestryOf(ToSet(chain[b]))
        /\ \A p \in behind[b] :
            /\ p.seqno < b.seqno /\ behind[p] \subseteq behind[b]
            /\ \E c \in Ancestry(b) : p \in ToSet(chain[c])
        /\ \A i, j \in DOMAIN chain[b] : chain[b][i] = chain[b][j] => i = j

(* A shard is a line, though it may have been split and merged in between.   *)
ShardsAreLines ==
    \A b, c \in DOMAIN chain :
        b.shard = c.shard /\ b.seqno <= c.seqno => b \in Ancestry(c)

(* Nothing is beyond the tips: each continues its own shard and, as they are *)
(* two at most, all that was built before the last split.                    *)
TipsCover ==
    /\ DOMAIN chain \subseteq AncestryOf(Tips(chain))
    /\ \A t \in Tips(chain), b \in DOMAIN chain :
        t.shard = "root" \/ b.shard \in {"root", t.shard} => b \in Ancestry(t)

(* A block no split comes after, and what such blocks have ahead.            *)
Linear(x) == x \notin AncestryOf(Splits)

LinearAhead ==
    \A b, c \in DOMAIN chain : \A x \in Ancestry(b) \cap Ancestry(c) :
        Linear(x) => b \in Ancestry(c) \/ c \in Ancestry(b)

ChainInv == TypeOK /\ ChainOrdered /\ ShardsAreLines /\ TipsCover /\ LinearAhead

Antichain(S) == \A b, c \in S : b \notin behind[c]

WalkerAtRest ==
    /\ walker.pc # "send" => walker.todo = << >> /\ walker.stack = << >>
    /\ walker.pc \in {"idle", "shards", "first"} => walker.newShards = {}
    /\ walker.pc = "idle" => walker.tips = {}

(* What is behind the tips handled is sent, excused, or still to be met.     *)
RecordInv ==
    /\ ChainInv /\ WalkerAtRest /\ RecordedIsSent
    /\ Antichain(posted) /\ Antichain(walker.tips)
    /\ walker.pc = "first" => \A t \in walker.tips : behind[t] \subseteq excused
    /\ AncestryOf(walker.newShards) \subseteq
            sent \cup excused \cup ToSet(walker.stack) \cup AncestryOf(ToSet(walker.todo))

(* The tips of the master at hand that are handled.                          *)
Handled == IF walker.pc = "first" THEN workchain ELSE walker.newShards

(* Masters come in order, and what was sent is behind the last one's tips.   *)
MastersInOrder ==
    /\ Antichain(walker.tips \cup Handled) /\ walker.tips \cap Handled = {}
    /\ poller = "post" => workchain \cup walker.tips \cup Handled \subseteq AncestryOf(posted)
    /\ walker.pc # "idle" => workchain \subseteq AncestryOf(walker.tips \cup Handled)
    /\ sent \subseteq AncestryOf(workchain \cup walker.newShards)
    /\ ToSet(walker.stack) \cup ToSet(walker.todo) \subseteq AncestryOf(walker.newShards)

(* A block no split comes after, and that is not behind what was recorded,   *)
(* is met by the walk once; one that is behind it is not met at all.         *)
MetOnce ==
    /\ \A i, j \in DOMAIN walker.todo :
        \A x \in Ancestry(walker.todo[i]) \ AncestryOf(workchain) : Linear(x) =>
            /\ x \notin sent \cup ToSet(walker.stack)
            /\ x \in Ancestry(walker.todo[j]) => i = j
    /\ \A t \in ToSet(walker.todo), b \in workchain : Linear(t) => t \notin behind[b]
    /\ \A i, j \in DOMAIN walker.stack : Linear(walker.stack[i]) =>
        /\ walker.stack[i] \notin sent
        /\ walker.stack[i] = walker.stack[j] => i = j

OnceInv ==
    /\ RecordInv
    /\ ~rewalked => MastersInOrder /\ MetOnce /\ RepeatedBySplitOnly
=============================================================================
