------------------------ MODULE BlockTraversalProofs ------------------------
(***************************************************************************)
(* Theorems about BlockTraversal, for any number of workers, any length of *)
(* the chain, any splits and merges and any faults.                        *)
(***************************************************************************)
EXTENDS BlockTraversal, SequenceTheorems, FiniteSetTheorems, TLAPS

-----------------------------------------------------------------------------
(* Sequences and their elements.                                             *)

LEMMA ToSetIn ==
    ASSUME NEW S, NEW q \in Seq(S)
    PROVE  /\ ToSet(q) \subseteq S
           /\ DOMAIN q = 1..Len(q) /\ Len(q) \in Nat
           /\ \A i \in 1..Len(q) : q[i] \in S
           /\ \A x : x \in ToSet(q) <=> \E i \in 1..Len(q) : x = q[i]
<1>1. DOMAIN q = 1..Len(q) /\ Len(q) \in Nat /\ \A i \in 1..Len(q) : q[i] \in S
  BY LenProperties, ElementOfSeq
<1>2. QED
  BY <1>1 DEF ToSet

LEMMA ToSetOne ==
    ASSUME NEW S, NEW a \in S
    PROVE  /\ <<a>> \in Seq(S) /\ <<a>> # << >> /\ Len(<<a>>) = 1 /\ <<a>>[1] = a
           /\ ToSet(<<a>>) = {a}
<1>1. <<a>> \in Seq(S) /\ Len(<<a>>) = 1 /\ <<a>>[1] = a /\ <<a>> # << >>
  OBVIOUS
<1>2. \A x : x \in ToSet(<<a>>) <=> \E i \in 1..1 : x = <<a>>[i]
  BY DEF ToSet
<1>3. 1..1 = {1}
  OBVIOUS
<1>4. \A x : x \in ToSet(<<a>>) <=> x = a
  BY <1>1, <1>2, <1>3
<1>5. QED
  BY <1>1, <1>4

LEMMA ToSetTwo ==
    ASSUME NEW S, NEW a \in S, NEW b \in S
    PROVE  /\ <<a, b>> \in Seq(S) /\ Len(<<a, b>>) = 2
           /\ <<a, b>>[1] = a /\ <<a, b>>[2] = b
           /\ ToSet(<<a, b>>) = {a, b}
<1>1. <<a, b>> \in Seq(S) /\ Len(<<a, b>>) = 2 /\ <<a, b>>[1] = a /\ <<a, b>>[2] = b
  OBVIOUS
<1>2. \A x : x \in ToSet(<<a, b>>) <=> \E i \in 1..2 : x = <<a, b>>[i]
  BY DEF ToSet
<1>3. 1..2 = {1, 2}
  OBVIOUS
<1>4. \A x : x \in ToSet(<<a, b>>) <=> x = a \/ x = b
  BY <1>1, <1>2, <1>3
<1>5. QED
  BY <1>1, <1>4

LEMMA ToSetNone == ToSet(<< >>) = {}
  BY EmptySeq DEF ToSet

LEMMA HeadAndTail ==
    ASSUME NEW S, NEW q \in Seq(S), q # << >>
    PROVE  /\ Head(q) \in S /\ Head(q) = q[1] /\ 1 \in 1..Len(q)
           /\ Tail(q) \in Seq(S) /\ Len(Tail(q)) = Len(q) - 1
           /\ \A i \in 1..Len(Tail(q)) : Tail(q)[i] = q[i + 1] /\ i + 1 \in 1..Len(q)
           /\ ToSet(q) = {Head(q)} \cup ToSet(Tail(q))
<1>1. /\ Head(q) \in S /\ Tail(q) \in Seq(S) /\ Head(q) = q[1]
      /\ Len(q) \in Nat \ {0} /\ Len(Tail(q)) = Len(q) - 1
      /\ \A i \in 1..Len(Tail(q)) : Tail(q)[i] = q[i + 1]
  BY HeadTailProperties, EmptySeq
<1>2. \A i \in 1..Len(Tail(q)) : i + 1 \in 1..Len(q)
  BY <1>1
<1>3. \A i \in 1..Len(q) : i = 1 \/ (i - 1 \in 1..Len(Tail(q)) /\ q[i] = Tail(q)[i - 1])
  BY <1>1
<1>4. ToSet(q) = {Head(q)} \cup ToSet(Tail(q))
  <2>1. ASSUME NEW x \in ToSet(q) PROVE x \in {Head(q)} \cup ToSet(Tail(q))
    <3>1. PICK i \in 1..Len(q) : x = q[i]
      BY ToSetIn
    <3>2. QED
      BY <1>1, <1>3, <3>1, ToSetIn
  <2>2. ASSUME NEW x \in {Head(q)} \cup ToSet(Tail(q)) PROVE x \in ToSet(q)
    <3>1. CASE x = Head(q)
      BY <1>1, <3>1, ToSetIn
    <3>2. CASE x \in ToSet(Tail(q))
      <4>1. PICK i \in DOMAIN Tail(q) : x = Tail(q)[i]
        BY <3>2 DEF ToSet
      <4>a. i \in 1..Len(Tail(q))
        BY <1>1, LenProperties
      <4>2. QED
        BY <1>1, <1>2, <4>1, <4>a, ToSetIn
    <3>3. QED
      BY <2>2, <3>1, <3>2
  <2>3. QED
    BY <2>1, <2>2
<1>5. QED
  BY <1>1, <1>2, <1>4

LEMMA Concatenated ==
    ASSUME NEW S, NEW p \in Seq(S), NEW q \in Seq(S)
    PROVE  /\ p \o q \in Seq(S) /\ Len(p \o q) = Len(p) + Len(q)
           /\ \A i \in 1..Len(p \o q) :
                \/ i \in 1..Len(p) /\ (p \o q)[i] = p[i]
                \/ i - Len(p) \in 1..Len(q) /\ (p \o q)[i] = q[i - Len(p)]
           /\ ToSet(p \o q) = ToSet(p) \cup ToSet(q)
<1>1. /\ p \o q \in Seq(S) /\ Len(p \o q) = Len(p) + Len(q)
      /\ Len(p) \in Nat /\ Len(q) \in Nat
      /\ \A i \in 1..Len(p) + Len(q) :
            (p \o q)[i] = IF i <= Len(p) THEN p[i] ELSE q[i - Len(p)]
  BY ConcatProperties, LenProperties
<1>2. \A i \in 1..Len(p \o q) :
        \/ i \in 1..Len(p) /\ (p \o q)[i] = p[i]
        \/ i - Len(p) \in 1..Len(q) /\ (p \o q)[i] = q[i - Len(p)]
  BY <1>1
<1>3. ASSUME NEW x \in ToSet(p \o q) PROVE x \in ToSet(p) \cup ToSet(q)
  <2>1. PICK i \in 1..Len(p \o q) : x = (p \o q)[i]
    BY <1>1, ToSetIn
  <2>2. QED
    BY <1>2, <2>1, ToSetIn
<1>4. ASSUME NEW x \in ToSet(p) PROVE x \in ToSet(p \o q)
  <2>1. PICK i \in 1..Len(p) : x = p[i]
    BY ToSetIn
  <2>2. i \in 1..Len(p \o q) /\ (p \o q)[i] = x
    BY <1>1, <2>1
  <2>3. QED
    BY <1>1, <2>2, ToSetIn
<1>5. ASSUME NEW x \in ToSet(q) PROVE x \in ToSet(p \o q)
  <2>1. PICK i \in 1..Len(q) : x = q[i]
    BY ToSetIn
  <2>2. i + Len(p) \in 1..Len(p \o q) /\ (p \o q)[i + Len(p)] = x
    BY <1>1, <2>1
  <2>3. QED
    BY <1>1, <2>2, ToSetIn
<1>6. QED
  BY <1>1, <1>2, <1>3, <1>4, <1>5

LEMMA Appended ==
    ASSUME NEW S, NEW q \in Seq(S), NEW a \in S
    PROVE  /\ Append(q, a) \in Seq(S) /\ Len(Append(q, a)) = Len(q) + 1
           /\ \A i \in 1..Len(q) : Append(q, a)[i] = q[i]
           /\ Append(q, a)[Len(q) + 1] = a
           /\ ToSet(Append(q, a)) = ToSet(q) \cup {a}
<1>1. /\ Append(q, a) \in Seq(S) /\ Len(Append(q, a)) = Len(q) + 1 /\ Len(q) \in Nat
      /\ \A i \in 1..Len(q) : Append(q, a)[i] = q[i]
      /\ Append(q, a)[Len(q) + 1] = a
  BY AppendProperties, LenProperties
<1>2. ToSet(Append(q, a)) = ToSet(q) \cup {a}
  <2>1. \A i \in 1..Len(q) + 1 : i = Len(q) + 1 \/ i \in 1..Len(q)
    BY <1>1
  <2>2. \A i \in 1..Len(q) : i \in 1..Len(q) + 1
    BY <1>1
  <2>3. Len(q) + 1 \in 1..Len(q) + 1
    BY <1>1
  <2>4. DOMAIN Append(q, a) = 1..Len(q) + 1 /\ DOMAIN q = 1..Len(q)
    BY <1>1, LenProperties
  <2>5. QED
    BY <1>1, <2>1, <2>2, <2>3, <2>4 DEF ToSet
<1>3. QED
  BY <1>1, <1>2

(* What is left of the stack when its top is taken.                          *)
LEMMA Popped ==
    ASSUME NEW S, NEW q \in Seq(S), q # << >>
    PROVE  /\ Front(q) \in Seq(S) /\ Len(Front(q)) = Len(q) - 1
           /\ Last(q) \in S /\ Last(q) = q[Len(q)] /\ Len(q) \in 1..Len(q)
           /\ \A i \in 1..Len(Front(q)) : Front(q)[i] = q[i] /\ i \in 1..Len(q) /\ i # Len(q)
           /\ ToSet(q) = ToSet(Front(q)) \cup {Last(q)}
<1>1. /\ Len(q) \in Nat \ {0} /\ \A i \in 1..Len(q) : q[i] \in S
  BY EmptySeq, ToSetIn
<1>2. /\ Front(q) \in Seq(S) /\ Len(Front(q)) = Len(q) - 1
      /\ \A i \in 1..Len(q) - 1 : Front(q)[i] = q[i]
  <2>1. \A i \in 1..Len(q) - 1 : q[i] \in S
    BY <1>1
  <2> DEFINE n == Len(q) - 1
  <2>2. n \in Int /\ 1 \in Int /\ n - 1 + 1 = n /\ n \in Nat
    BY <1>1
  <2> HIDE DEF n
  <2>3. /\ SubSeq(q, 1, n) \in Seq(S)
        /\ Len(SubSeq(q, 1, n)) = IF 1 <= n THEN n - 1 + 1 ELSE 0
        /\ \A i \in 1..n - 1 + 1 : SubSeq(q, 1, n)[i] = q[1 + i - 1]
    <3>1. \A i \in 1..n : q[i] \in S
      BY <2>1 DEF n
    <3>2. QED
      BY <2>2, <3>1, SubSeqProperties
  <2>4. \A i \in 1..n : 1 + i - 1 = i
    BY <2>2
  <2>5. Len(SubSeq(q, 1, n)) = n /\ \A i \in 1..n : SubSeq(q, 1, n)[i] = q[i]
    BY <2>2, <2>3, <2>4
  <2>6. QED
    BY <2>3, <2>5 DEF Front, n
<1>3. Last(q) = q[Len(q)] /\ Last(q) \in S /\ Len(q) \in 1..Len(q)
  BY <1>1 DEF Last
<1>4. \A i \in 1..Len(Front(q)) : Front(q)[i] = q[i] /\ i \in 1..Len(q) /\ i # Len(q)
  BY <1>1, <1>2
<1>5. ToSet(q) = ToSet(Front(q)) \cup {Last(q)}
  <2>1. \A i \in 1..Len(q) : i = Len(q) \/ i \in 1..Len(Front(q))
    BY <1>1, <1>2
  <2>2. DOMAIN q = 1..Len(q) /\ DOMAIN Front(q) = 1..Len(Front(q))
    BY <1>2, LenProperties
  <2>3. QED
    BY <1>3, <1>4, <2>1, <2>2 DEF ToSet
<1>6. QED
  BY <1>2, <1>3, <1>4, <1>5

-----------------------------------------------------------------------------
(* The chain.                                                                *)

LEMMA ChainFacts ==
    ASSUME ChainInv
    PROVE  /\ \A b \in DOMAIN chain :
                /\ b \in Block /\ b.seqno \in Nat /\ b.shard \in Shards
                /\ Ancestry(b) \subseteq DOMAIN chain /\ b \in Ancestry(b)
                /\ chain[b] \in Seq(DOMAIN chain) /\ ToSet(chain[b]) \subseteq behind[b]
           /\ \A b, c \in DOMAIN chain :
                /\ b \in Ancestry(c) => Ancestry(b) \subseteq Ancestry(c)
                /\ b \in behind[c] => Ancestry(b) \subseteq behind[c] /\ c \notin Ancestry(b)
<1>1. ASSUME NEW b \in DOMAIN chain
      PROVE  /\ b \in Block /\ b.seqno \in Nat /\ b.shard \in Shards
             /\ Ancestry(b) \subseteq DOMAIN chain /\ b \in Ancestry(b)
             /\ chain[b] \in Seq(DOMAIN chain) /\ ToSet(chain[b]) \subseteq behind[b]
  <2>1. b \in Block /\ chain[b] \in Seq(DOMAIN chain) /\ behind[b] \subseteq DOMAIN chain
    BY DEF ChainInv, TypeOK
  <2>2. b.seqno \in Nat /\ b.shard \in Shards
    BY <2>1, BoundsAssumption DEF Block
  <2>3. behind[b] = AncestryOf(ToSet(chain[b]))
    BY DEF ChainInv, ChainOrdered
  <2>4. QED
    BY <2>1, <2>2, <2>3 DEF Ancestry, AncestryOf
<1>2. ASSUME NEW b \in DOMAIN chain, NEW c \in DOMAIN chain, b \in behind[c]
      PROVE  Ancestry(b) \subseteq behind[c] /\ c \notin Ancestry(b)
  <2>1. b.seqno < c.seqno /\ behind[b] \subseteq behind[c]
    BY <1>2 DEF ChainInv, ChainOrdered
  <2>2. c \in behind[b] => c.seqno < b.seqno
    BY DEF ChainInv, ChainOrdered
  <2>3. b.seqno \in Nat /\ c.seqno \in Nat
    BY <1>1
  <2>4. QED
    BY <1>2, <2>1, <2>2, <2>3 DEF Ancestry
<1>3. \A b, c \in DOMAIN chain : b \in Ancestry(c) => Ancestry(b) \subseteq Ancestry(c)
  BY <1>2 DEF Ancestry
<1>4. QED
  BY <1>1, <1>2, <1>3

(* What lies behind blocks that lie behind S lies behind S.                  *)
LEMMA AncestryOfAncestors ==
    ASSUME ChainInv, NEW S \in SUBSET DOMAIN chain, NEW T, T \subseteq AncestryOf(S)
    PROVE  AncestryOf(T) \subseteq AncestryOf(S) /\ AncestryOf(S) \subseteq DOMAIN chain
<1>1. AncestryOf(S) \subseteq DOMAIN chain
  BY ChainFacts DEF AncestryOf
<1>2. ASSUME NEW b \in T, NEW x \in Ancestry(b) PROVE x \in AncestryOf(S)
  <2>1. PICK c \in S : b \in Ancestry(c)
    BY DEF AncestryOf
  <2>2. x \in Ancestry(c)
    BY <1>1, <2>1, ChainFacts
  <2>3. QED
    BY <2>2 DEF AncestryOf
<1>3. QED
  BY <1>1, <1>2 DEF AncestryOf

LEMMA AncestryGrows ==
    ASSUME NEW S, NEW T, S \subseteq T
    PROVE  AncestryOf(S) \subseteq AncestryOf(T)
  BY DEF AncestryOf

LEMMA InAncestry == \A S : S \subseteq AncestryOf(S)
  BY DEF AncestryOf, Ancestry

(* Two tips that no split separates are one.                                 *)
LEMMA TwoTips ==
    ASSUME ChainInv, NEW t \in Tips(chain), NEW u \in Tips(chain),
           t.shard = "root" \/ u.shard \in {"root", t.shard}
    PROVE  t = u
<1>1. t \in DOMAIN chain /\ u \in DOMAIN chain
  BY DEF Tips
<1>2. u \in Ancestry(t)
  BY <1>1 DEF ChainInv, TipsCover
<1>3. u \notin behind[t]
  <2>1. SUFFICES ASSUME u \in behind[t] PROVE FALSE
    OBVIOUS
  <2>2. PICK c \in Ancestry(t) : u \in ToSet(chain[c])
    BY <1>1, <2>1 DEF ChainInv, ChainOrdered
  <2>3. c \in DOMAIN chain
    BY <1>1, ChainFacts
  <2>4. QED
    BY <2>2, <2>3 DEF Tips
<1>4. QED
  BY <1>2, <1>3 DEF Ancestry

(* No tip lies behind another block.                                         *)
LEMMA TipsInFront ==
    ASSUME ChainInv, NEW t \in Tips(chain), NEW b \in DOMAIN chain
    PROVE  t \notin behind[b]
<1>1. SUFFICES ASSUME t \in behind[b] PROVE FALSE
  OBVIOUS
<1>2. PICK c \in Ancestry(b) : t \in ToSet(chain[c])
  BY <1>1 DEF ChainInv, ChainOrdered
<1>3. c \in DOMAIN chain
  BY ChainFacts
<1>4. QED
  BY <1>2, <1>3 DEF Tips

(* Blocks that have been built stay as they are, with all that lies behind.  *)
LEMMA BuildFacts ==
    ASSUME ChainInv, NEW new, NEW parents \in Seq(DOMAIN chain), Build(new, parents),
           new # {}, new \cap DOMAIN chain = {}
    PROVE  /\ DOMAIN chain' = DOMAIN chain \cup new /\ DOMAIN behind' = DOMAIN chain \cup new
           /\ \A b \in DOMAIN chain :
                chain'[b] = chain[b] /\ behind'[b] = behind[b] /\ Ancestry(b)' = Ancestry(b)
           /\ \A n \in new :
                /\ chain'[n] = parents /\ behind'[n] = AncestryOf(ToSet(parents))
                /\ Ancestry(n)' = {n} \cup AncestryOf(ToSet(parents))
           /\ \A S \in SUBSET DOMAIN chain : AncestryOf(S)' = AncestryOf(S)
           /\ Tips(chain)' = (Tips(chain) \ ToSet(parents)) \cup new
           /\ Splits \subseteq Splits'
<1>1. /\ DOMAIN chain' = DOMAIN chain \cup new /\ DOMAIN behind' = DOMAIN chain \cup new
      /\ \A b \in DOMAIN chain : chain'[b] = chain[b] /\ behind'[b] = behind[b]
      /\ \A n \in new : chain'[n] = parents /\ behind'[n] = AncestryOf(ToSet(parents))
  BY DEF Build
<1>2. /\ \A b \in DOMAIN chain : Ancestry(b)' = Ancestry(b)
      /\ \A n \in new : Ancestry(n)' = {n} \cup AncestryOf(ToSet(parents))
  BY <1>1 DEF Ancestry
<1>3. \A S \in SUBSET DOMAIN chain : AncestryOf(S)' = AncestryOf(S)
  BY <1>2 DEF AncestryOf
<1>4. ToSet(parents) \subseteq DOMAIN chain /\ \A b \in DOMAIN chain : ToSet(chain[b]) \subseteq DOMAIN chain
  BY ToSetIn, ChainFacts
<1>5. Tips(chain)' = (Tips(chain) \ ToSet(parents)) \cup new
  <2>1. ASSUME NEW b \in Tips(chain)'
        PROVE  b \in (Tips(chain) \ ToSet(parents)) \cup new
    BY <1>1, <2>1 DEF Tips
  <2>2. ASSUME NEW b \in Tips(chain), b \notin ToSet(parents) PROVE b \in Tips(chain)'
    BY <1>1, <2>2 DEF Tips
  <2>3. ASSUME NEW b \in new PROVE b \in Tips(chain)'
    BY <1>1, <1>4, <2>3 DEF Tips
  <2>4. QED
    BY <2>1, <2>2, <2>3
<1>6. Splits \subseteq Splits'
  BY <1>1 DEF Splits
<1>7. QED
  BY <1>1, <1>2, <1>3, <1>5, <1>6

(* Blocks stay as they are; a split may come after them, but none goes away. *)
BlocksKept ==
    /\ DOMAIN chain \subseteq DOMAIN chain'
    /\ \A b \in DOMAIN chain :
        behind'[b] = behind[b] /\ Ancestry(b)' = Ancestry(b) /\ (Linear(b)' => Linear(b))

(* What the network builds on tips keeps the shape of the chain.             *)
LEMMA BuildKeeps ==
    ASSUME ChainInv, NEW new \in SUBSET Block, new # {},
           NEW parents \in Seq(Tips(chain)), Build(new, parents),
           \A i, j \in DOMAIN parents : parents[i] = parents[j] => i = j,
           \A n \in new, p \in ToSet(parents) : p.seqno < n.seqno,
           \A m, n \in new :
                m # n => m.shard # "root" /\ n.shard # "root" /\ m.shard # n.shard,
           \A n \in new, b \in DOMAIN chain :
                n.shard = "root" \/ b.shard \in {"root", n.shard} => b \in AncestryOf(ToSet(parents)),
           \A n \in new, u \in Tips(chain) \ ToSet(parents) :
                u.shard # "root" /\ n.shard # "root" /\ n.shard # u.shard
    PROVE  ChainInv' /\ BlocksKept
<1> DEFINE past == AncestryOf(ToSet(parents))
<1>1. parents \in Seq(DOMAIN chain) /\ ToSet(parents) \subseteq Tips(chain)
      /\ ToSet(parents) \subseteq DOMAIN chain
  <2>1. Tips(chain) \subseteq DOMAIN chain
    BY DEF Tips
  <2>2. QED
    BY <2>1, SeqMonotonic, ToSetIn
<1>2. past \subseteq DOMAIN chain
  BY <1>1, ChainFacts DEF AncestryOf
<1>3. \A n \in new, b \in past : b.seqno < n.seqno
  <2>1. SUFFICES ASSUME NEW n \in new, NEW b \in past PROVE b.seqno < n.seqno
    OBVIOUS
  <2>2. PICK p \in ToSet(parents) : b \in Ancestry(p)
    BY DEF AncestryOf
  <2>3. b = p \/ b.seqno < p.seqno
    BY <1>1, <2>2 DEF ChainInv, ChainOrdered, Ancestry
  <2>4. p.seqno < n.seqno /\ b.seqno \in Nat /\ p.seqno \in Nat
    BY <1>1, <1>2, ChainFacts
  <2>5. n.seqno \in Nat
    BY BoundsAssumption DEF Block
  <2>6. QED
    BY <2>3, <2>4, <2>5
<1>4. \A n \in new : n.seqno \in Nat /\ n.shard \in Shards
  BY BoundsAssumption DEF Block
<1>5. new \cap DOMAIN chain = {}
  <2>1. SUFFICES ASSUME NEW n \in new, n \in DOMAIN chain PROVE FALSE
    OBVIOUS
  <2>2. n \in past
    BY <2>1
  <2>3. QED
    BY <1>3, <1>4, <2>2
<1>6. /\ DOMAIN chain' = DOMAIN chain \cup new /\ DOMAIN behind' = DOMAIN chain \cup new
      /\ \A b \in DOMAIN chain :
           chain'[b] = chain[b] /\ behind'[b] = behind[b] /\ Ancestry(b)' = Ancestry(b)
      /\ \A n \in new : chain'[n] = parents /\ behind'[n] = past /\ Ancestry(n)' = {n} \cup past
  BY <1>1, <1>5, BuildFacts
<1>7. \A S \in SUBSET DOMAIN chain : AncestryOf(S)' = AncestryOf(S)
  BY <1>1, <1>5, BuildFacts
<1>8. Tips(chain)' = (Tips(chain) \ ToSet(parents)) \cup new /\ Splits \subseteq Splits'
  BY <1>1, <1>5, BuildFacts
<1> HIDE DEF past
<1>9. TypeOK'
  <2>1. chain' \in [DOMAIN chain' -> Seq(DOMAIN chain')]
    <3>1. \A b \in DOMAIN chain : chain[b] \in Seq(DOMAIN chain')
      BY <1>6, ChainFacts, SeqMonotonic
    <3>2. parents \in Seq(DOMAIN chain')
      BY <1>1, <1>6, SeqMonotonic
    <3>3. QED
      BY <1>6, <3>1, <3>2 DEF Build
  <2>2. behind' \in [DOMAIN chain' -> SUBSET DOMAIN chain']
    <3>1. \A b \in DOMAIN chain : behind[b] \subseteq DOMAIN chain
      BY DEF ChainInv, TypeOK
    <3>2. \A b \in DOMAIN chain' : behind'[b] \subseteq DOMAIN chain'
      BY <1>2, <1>6, <3>1
    <3>3. QED
      BY <1>6, <3>2 DEF Build
  <2>3. walker' \in WalkerState(DOMAIN chain')
    <3>1. walker.todo \in Seq(DOMAIN chain') /\ walker.stack \in Seq(DOMAIN chain')
      BY <1>6, SeqMonotonic DEF ChainInv, TypeOK, WalkerState
    <3>2. walker' = walker
      BY DEF Build
    <3>3. QED
      BY <1>6, <3>1, <3>2 DEF ChainInv, TypeOK, WalkerState
  <2>4. QED
    BY <1>6, <2>1, <2>2, <2>3 DEF ChainInv, TypeOK, Build, history
<1>10. ChainOrdered'
  <2>1. ASSUME NEW b \in DOMAIN chain
        PROVE  /\ behind'[b] = AncestryOf(ToSet(chain[b]))'
               /\ \A p \in behind'[b] :
                    /\ p.seqno < b.seqno /\ behind'[p] \subseteq behind'[b]
                    /\ \E c \in Ancestry(b)' : p \in ToSet(chain'[c])
               /\ \A i, j \in DOMAIN chain'[b] : chain'[b][i] = chain'[b][j] => i = j
    <3>1. /\ ToSet(chain[b]) \subseteq DOMAIN chain /\ behind[b] \subseteq DOMAIN chain
          /\ Ancestry(b) \subseteq DOMAIN chain
      BY ChainFacts, ToSetIn DEF Ancestry
    <3>2. /\ behind[b] = AncestryOf(ToSet(chain[b]))
          /\ \A p \in behind[b] :
                /\ p.seqno < b.seqno /\ behind[p] \subseteq behind[b]
                /\ \E c \in Ancestry(b) : p \in ToSet(chain[c])
          /\ \A i, j \in DOMAIN chain[b] : chain[b][i] = chain[b][j] => i = j
      BY DEF ChainInv, ChainOrdered
    <3>3. AncestryOf(ToSet(chain[b]))' = AncestryOf(ToSet(chain[b]))
      BY <1>6, <3>1 DEF AncestryOf
    <3>4. QED
      BY <1>6, <3>1, <3>2, <3>3
  <2>2. ASSUME NEW b \in new
        PROVE  /\ behind'[b] = AncestryOf(ToSet(chain[b]))'
               /\ \A p \in behind'[b] :
                    /\ p.seqno < b.seqno /\ behind'[p] \subseteq behind'[b]
                    /\ \E c \in Ancestry(b)' : p \in ToSet(chain'[c])
               /\ \A i, j \in DOMAIN chain'[b] : chain'[b][i] = chain'[b][j] => i = j
    <3>1. AncestryOf(ToSet(chain[b]))' = past
      BY <1>1, <1>6 DEF past, AncestryOf
    <3>2. ASSUME NEW p \in past
          PROVE  /\ p.seqno < b.seqno /\ behind'[p] \subseteq past
                 /\ \E c \in {b} \cup past : p \in ToSet(chain'[c])
      <4>1. PICK q \in ToSet(parents) : p \in Ancestry(q)
        BY DEF past, AncestryOf
      <4>2. Ancestry(q) \subseteq past /\ q \in DOMAIN chain
        BY <1>1, <4>1 DEF past, AncestryOf
      <4>3. behind[p] \subseteq Ancestry(q)
        BY <1>2, <4>1, <4>2, ChainFacts DEF Ancestry
      <4>4. CASE p = q
        BY <1>2, <1>3, <1>6, <4>1, <4>2, <4>3, <4>4
      <4>5. CASE p \in behind[q]
        <5>1. PICK c \in Ancestry(q) : p \in ToSet(chain[c])
          BY <4>2, <4>5 DEF ChainInv, ChainOrdered
        <5>2. QED
          BY <1>2, <1>3, <1>6, <4>2, <4>3, <5>1
      <4>6. QED
        BY <4>1, <4>4, <4>5 DEF Ancestry
    <3>3. QED
      BY <1>6, <3>1, <3>2
  <2>3. QED
    BY <1>6, <2>1, <2>2 DEF ChainOrdered
<1>11. ShardsAreLines'
  <2>1. SUFFICES ASSUME NEW b \in DOMAIN chain', NEW c \in DOMAIN chain',
                        b.shard = c.shard, b.seqno <= c.seqno
                 PROVE  b \in Ancestry(c)'
    BY DEF ShardsAreLines
  <2>2. CASE b \in DOMAIN chain /\ c \in DOMAIN chain
    BY <1>6, <2>1, <2>2 DEF ChainInv, ShardsAreLines
  <2>3. CASE b \in DOMAIN chain /\ c \in new
    BY <1>6, <2>1, <2>3 DEF past
  <2>4. CASE b \in new /\ c \in DOMAIN chain
    <3>1. c \in past
      BY <2>1, <2>4 DEF past
    <3>2. QED
      BY <1>3, <1>4, <2>1, <2>4, <3>1, ChainFacts
  <2>5. CASE b \in new /\ c \in new
    BY <1>6, <2>1, <2>5
  <2>6. QED
    BY <1>6, <2>2, <2>3, <2>4, <2>5
<1>12. TipsCover'
  <2>1. ASSUME NEW b \in DOMAIN chain' PROVE b \in AncestryOf(Tips(chain))'
    <3>1. \A t \in Tips(chain)' : Ancestry(t)' \subseteq AncestryOf(Tips(chain))'
      BY DEF AncestryOf
    <3>2. CASE b \in new
      BY <1>6, <1>8, <3>1, <3>2
    <3>3. CASE b \in DOMAIN chain
      <4>1. PICK t \in Tips(chain) : b \in Ancestry(t)
        BY <3>3 DEF ChainInv, TipsCover, AncestryOf
      <4>2. CASE t \in ToSet(parents)
        <5>1. b \in past
          BY <4>1, <4>2 DEF past, AncestryOf
        <5>2. PICK n \in new : TRUE
          OBVIOUS
        <5>3. QED
          BY <1>6, <1>8, <3>1, <5>1, <5>2
      <4>3. CASE t \notin ToSet(parents)
        <5>1. t \in DOMAIN chain /\ t \in Tips(chain)'
          BY <1>8, <4>1, <4>3 DEF Tips
        <5>2. QED
          BY <1>6, <3>1, <4>1, <5>1
      <4>4. QED
        BY <4>2, <4>3
    <3>4. QED
      BY <1>6, <3>2, <3>3
  <2>2. ASSUME NEW t \in Tips(chain)', NEW b \in DOMAIN chain',
               t.shard = "root" \/ b.shard \in {"root", t.shard}
        PROVE  b \in Ancestry(t)'
    <3>1. CASE t \in new /\ b \in new
      BY <1>6, <2>2, <3>1
    <3>2. CASE t \in new /\ b \in DOMAIN chain
      BY <1>6, <2>2, <3>2 DEF past
    <3>3. CASE t \in Tips(chain) \ ToSet(parents) /\ b \in new
      BY <2>2, <3>3
    <3>4. CASE t \in Tips(chain) \ ToSet(parents) /\ b \in DOMAIN chain
      <4>1. t \in DOMAIN chain /\ b \in Ancestry(t)
        BY <2>2, <3>4 DEF ChainInv, TipsCover, Tips
      <4>2. QED
        BY <1>6, <4>1
    <3>5. QED
      BY <1>6, <1>8, <3>1, <3>2, <3>3, <3>4
  <2>3. QED
    BY <2>1, <2>2 DEF TipsCover
<1>13. LinearAhead'
  <2>1. SUFFICES ASSUME NEW b \in DOMAIN chain', NEW c \in DOMAIN chain',
                        NEW x, x \in Ancestry(b)', x \in Ancestry(c)', Linear(x)'
                 PROVE  b \in Ancestry(c)' \/ c \in Ancestry(b)'
    BY DEF LinearAhead
  <2>2. \A s \in Splits' : x \notin Ancestry(s)'
    BY <2>1 DEF Linear, AncestryOf
  <2>3. Linear(x)
    <3>1. \A s \in Splits : s \in DOMAIN chain
      BY DEF Splits
    <3>2. \A s \in Splits : x \notin Ancestry(s)
      BY <1>6, <1>8, <2>2, <3>1
    <3>3. QED
      BY <3>2 DEF Linear, AncestryOf
  <2>4. ASSUME NEW n \in new, NEW d \in DOMAIN chain, x \in Ancestry(n)', x \in Ancestry(d)
        PROVE  d \in past
    <3>1. x \in DOMAIN chain
      BY <2>4, ChainFacts
    <3>2. x \in past
      BY <1>5, <1>6, <2>4, <3>1
    <3>3. PICK p \in ToSet(parents) : x \in Ancestry(p)
      BY <3>2 DEF past, AncestryOf
    <3>4. p \in DOMAIN chain /\ p \in Tips(chain)
      BY <1>1, <3>3
    <3>5. p \in Ancestry(d) \/ d \in Ancestry(p)
      BY <2>3, <2>4, <3>3, <3>4 DEF ChainInv, LinearAhead
    <3>6. p \notin behind[d]
      BY <3>4, TipsInFront
    <3>7. d \in Ancestry(p)
      BY <3>5, <3>6 DEF Ancestry
    <3>8. QED
      BY <3>7 DEF past, AncestryOf
  <2>5. CASE b \in DOMAIN chain /\ c \in DOMAIN chain
    BY <1>6, <2>1, <2>3, <2>5 DEF ChainInv, LinearAhead
  <2>6. CASE b \in new /\ c \in DOMAIN chain
    BY <1>6, <2>1, <2>4, <2>6
  <2>7. CASE b \in DOMAIN chain /\ c \in new
    BY <1>6, <2>1, <2>4, <2>7
  <2>8. CASE b \in new /\ c \in new
    <3>1. CASE b = c
      BY <1>6, <2>8, <3>1
    <3>2. CASE b # c
      <4>1. x \in past
        <5>1. \A n \in new : Ancestry(n)' = {n} \cup past
          BY <1>6
        <5>2. QED
          BY <1>2, <1>5, <2>1, <2>8, <3>2, <5>1
      <4>2. PICK p \in ToSet(parents) : x \in Ancestry(p)
        BY <4>1 DEF past, AncestryOf
      <4>3. p \in DOMAIN chain /\ p \in Splits'
        BY <1>1, <1>6, <2>8, <3>2 DEF Splits
      <4>4. QED
        BY <1>6, <2>2, <4>2, <4>3
    <3>3. QED
      BY <3>1, <3>2
  <2>9. QED
    BY <1>6, <2>5, <2>6, <2>7, <2>8
<1>14. BlocksKept
  <2>1. ASSUME NEW b \in DOMAIN chain, Linear(b)' PROVE Linear(b)
    <3>1. \A s \in Splits : s \in DOMAIN chain
      BY DEF Splits
    <3>2. \A s \in Splits' : b \notin Ancestry(s)'
      BY <2>1 DEF Linear, AncestryOf
    <3>3. \A s \in Splits : b \notin Ancestry(s)
      BY <1>6, <1>8, <3>1, <3>2
    <3>4. QED
      BY <3>3 DEF Linear, AncestryOf
  <2>2. QED
    BY <1>6, <2>1 DEF BlocksKept
<1>15. QED
  BY <1>9, <1>10, <1>11, <1>12, <1>13, <1>14 DEF ChainInv

LEMMA NetworkKeeps == ChainInv /\ Network => ChainInv' /\ BlocksKept
<1> SUFFICES ASSUME ChainInv, Network PROVE ChainInv' /\ BlocksKept
  OBVIOUS
<1>1. Tips(chain) \subseteq DOMAIN chain
  BY DEF Tips
<1>2. \A b \in Tips(chain) : b \in Block /\ b.seqno \in Nat /\ b.shard \in Shards
  BY <1>1, ChainFacts
<1>3. CASE Grow
  <2>1. PICK t \in Tips(chain) : t.seqno < MaxSeqNo /\ Build({[t EXCEPT !.seqno = @ + 1]}, <<t>>)
    BY <1>3 DEF Grow
  <2> DEFINE n == [t EXCEPT !.seqno = @ + 1]
  <2>2. n \in Block /\ n.shard = t.shard /\ t.seqno < n.seqno
    BY <1>2, <2>1, BoundsAssumption DEF Block
  <2> HIDE DEF n
  <2>3. /\ <<t>> \in Seq(Tips(chain)) /\ ToSet(<<t>>) = {t}
        /\ \A i, j \in DOMAIN <<t>> : <<t>>[i] = <<t>>[j] => i = j
    BY ToSetOne
  <2>4. AncestryOf({t}) = Ancestry(t)
    BY DEF AncestryOf
  <2>5. \A b \in DOMAIN chain :
            t.shard = "root" \/ b.shard \in {"root", t.shard} => b \in Ancestry(t)
    BY DEF ChainInv, TipsCover
  <2>6. \A u \in Tips(chain) \ {t} :
            u.shard # "root" /\ t.shard # "root" /\ t.shard # u.shard
    BY TwoTips
  <2>7. Build({n}, <<t>>)
    BY <2>1 DEF n
  <2> DEFINE N == {n}
             P == <<t>>
  <2>9. /\ N \in SUBSET Block /\ N # {} /\ P \in Seq(Tips(chain)) /\ Build(N, P)
        /\ \A i, j \in DOMAIN P : P[i] = P[j] => i = j
    BY <2>2, <2>3, <2>7
  <2>10. /\ \A m \in N, p \in ToSet(P) : p.seqno < m.seqno
         /\ \A m, k \in N :
                m # k => m.shard # "root" /\ k.shard # "root" /\ m.shard # k.shard
    BY <2>2, <2>3
  <2>11. \A m \in N, b \in DOMAIN chain :
            m.shard = "root" \/ b.shard \in {"root", m.shard} => b \in AncestryOf(ToSet(P))
    BY <2>2, <2>3, <2>4, <2>5
  <2>12. \A m \in N, u \in Tips(chain) \ ToSet(P) :
            u.shard # "root" /\ m.shard # "root" /\ m.shard # u.shard
    BY <2>2, <2>3, <2>6
  <2> HIDE DEF N, P
  <2>13. QED
    BY <2>9, <2>10, <2>11, <2>12, BuildKeeps
<1>4. CASE Split
  <2> DEFINE new(t) == {[shard |-> s, seqno |-> t.seqno + 1] : s \in {"left", "right"}}
  <2>1. PICK t \in Tips(chain) : t.shard = "root" /\ t.seqno < MaxSeqNo /\ Build(new(t), <<t>>)
    BY <1>4 DEF Split
  <2> DEFINE l == [shard |-> "left", seqno |-> t.seqno + 1]
             r == [shard |-> "right", seqno |-> t.seqno + 1]
  <2>2. /\ new(t) = {l, r} /\ l \in Block /\ r \in Block
        /\ l.shard = "left" /\ r.shard = "right" /\ t.seqno < l.seqno /\ t.seqno < r.seqno
    <3>1. t.seqno + 1 \in 0..MaxSeqNo /\ t.seqno < t.seqno + 1
      BY <1>2, <2>1, BoundsAssumption
    <3>2. QED
      BY <3>1 DEF Block, Shards
  <2> HIDE DEF l, r
  <2>3. /\ <<t>> \in Seq(Tips(chain)) /\ ToSet(<<t>>) = {t}
        /\ \A i, j \in DOMAIN <<t>> : <<t>>[i] = <<t>>[j] => i = j
    BY ToSetOne
  <2>4. AncestryOf({t}) = Ancestry(t)
    BY DEF AncestryOf
  <2>5. \A b \in DOMAIN chain : b \in Ancestry(t)
    BY <2>1 DEF ChainInv, TipsCover
  <2>6. \A u \in Tips(chain) : u = t
    BY <2>1, TwoTips
  <2>7. Build(new(t), <<t>>)
    BY <2>1
  <2> HIDE DEF new
  <2> DEFINE N == new(t)
             P == <<t>>
  <2>9. /\ N \in SUBSET Block /\ N # {} /\ P \in Seq(Tips(chain)) /\ Build(N, P)
        /\ \A i, j \in DOMAIN P : P[i] = P[j] => i = j
    BY <2>2, <2>3, <2>7
  <2>10. /\ \A m \in N, p \in ToSet(P) : p.seqno < m.seqno
         /\ \A m, k \in N :
                m # k => m.shard # "root" /\ k.shard # "root" /\ m.shard # k.shard
    BY <2>2, <2>3
  <2>11. \A m \in N, b \in DOMAIN chain :
            m.shard = "root" \/ b.shard \in {"root", m.shard} => b \in AncestryOf(ToSet(P))
    BY <2>2, <2>3, <2>4, <2>5
  <2>12. \A m \in N, u \in Tips(chain) \ ToSet(P) :
            u.shard # "root" /\ m.shard # "root" /\ m.shard # u.shard
    BY <2>2, <2>3, <2>6
  <2> HIDE DEF N, P
  <2>13. QED
    BY <2>9, <2>10, <2>11, <2>12, BuildKeeps
<1>5. CASE Merge
  <2> DEFINE top(l, r) == IF l.seqno > r.seqno THEN l.seqno ELSE r.seqno
  <2>1. PICK l \in Tips(chain), r \in Tips(chain) :
            /\ l.shard = "left" /\ r.shard = "right" /\ top(l, r) < MaxSeqNo
            /\ Build({[shard |-> "root", seqno |-> top(l, r) + 1]}, <<l, r>>)
    BY <1>5 DEF Merge
  <2> DEFINE n == [shard |-> "root", seqno |-> top(l, r) + 1]
  <2>2. n \in Block /\ n.shard = "root" /\ l.seqno < n.seqno /\ r.seqno < n.seqno
    <3>1. l.seqno \in Nat /\ r.seqno \in Nat
      BY <1>2
    <3>2. QED
      BY <2>1, <3>1, BoundsAssumption DEF Block, Shards
  <2> HIDE DEF n
  <2>3. /\ <<l, r>> \in Seq(Tips(chain)) /\ ToSet(<<l, r>>) = {l, r}
        /\ Len(<<l, r>>) = 2 /\ <<l, r>>[1] = l /\ <<l, r>>[2] = r
    BY ToSetTwo
  <2>4. \A i, j \in DOMAIN <<l, r>> : <<l, r>>[i] = <<l, r>>[j] => i = j
    <3>1. l # r
      BY <2>1
    <3>2. DOMAIN <<l, r>> = {1, 2}
      OBVIOUS
    <3>3. QED
      BY <2>3, <3>1, <3>2
  <2>5. \A b \in DOMAIN chain : b \in AncestryOf({l, r})
    <3>1. \A b \in DOMAIN chain : b.shard \in {"root", "left", "right"}
      BY ChainFacts DEF Shards
    <3>2. \A b \in DOMAIN chain : b \in Ancestry(l) \/ b \in Ancestry(r)
      BY <2>1, <3>1 DEF ChainInv, TipsCover
    <3>3. QED
      BY <3>2 DEF AncestryOf
  <2>6. \A u \in Tips(chain) : u \in {l, r}
    <3>1. \A u \in Tips(chain) : u.shard \in {"root", "left"} => l = u
      BY <2>1, TwoTips
    <3>2. \A u \in Tips(chain) : u.shard = "right" => r = u
      BY <2>1, TwoTips
    <3>3. QED
      BY <1>2, <3>1, <3>2 DEF Shards
  <2>7. Build({n}, <<l, r>>)
    BY <2>1 DEF n
  <2> DEFINE N == {n}
             P == <<l, r>>
  <2>9. /\ N \in SUBSET Block /\ N # {} /\ P \in Seq(Tips(chain)) /\ Build(N, P)
        /\ \A i, j \in DOMAIN P : P[i] = P[j] => i = j
    BY <2>2, <2>3, <2>7, <2>4
  <2>10. /\ \A m \in N, p \in ToSet(P) : p.seqno < m.seqno
         /\ \A m, k \in N :
                m # k => m.shard # "root" /\ k.shard # "root" /\ m.shard # k.shard
    BY <2>2, <2>3
  <2>11. \A m \in N, b \in DOMAIN chain :
            m.shard = "root" \/ b.shard \in {"root", m.shard} => b \in AncestryOf(ToSet(P))
    BY <2>2, <2>3, <2>5
  <2>12. \A m \in N, u \in Tips(chain) \ ToSet(P) :
            u.shard # "root" /\ m.shard # "root" /\ m.shard # u.shard
    BY <2>2, <2>3, <2>6
  <2> HIDE DEF N, P
  <2>13. QED
    BY <2>9, <2>10, <2>11, <2>12, BuildKeeps
<1>6. QED
  BY <1>3, <1>4, <1>5 DEF Network

-----------------------------------------------------------------------------
(* Type correctness of the observer.                                         *)

LEMMA WalkerType ==
    ASSUME TypeOK
    PROVE  /\ walker.pc \in {"idle", "shards", "first", "walk", "send"}
           /\ walker.tips \in SUBSET DOMAIN chain /\ walker.newShards \in SUBSET DOMAIN chain
           /\ walker.todo \in Seq(DOMAIN chain) /\ walker.stack \in Seq(DOMAIN chain)
           /\ posted \subseteq DOMAIN chain /\ workchain \subseteq DOMAIN chain
           /\ sent \subseteq DOMAIN chain /\ repeated \subseteq DOMAIN chain
           /\ excused \subseteq DOMAIN chain /\ scanned \subseteq DOMAIN chain
           /\ walker \in WalkerState(DOMAIN chain)
  BY DEF TypeOK, WalkerState

LEMMA IdleType == \A S : Idle \in WalkerState(S)
  BY EmptySeq DEF Idle, WalkerState

LEMMA RecordType ==
    ASSUME NEW S, NEW m \in SUBSET S, NEW b \in S,
           \A c, d \in m : c.shard = d.shard => c = d
    PROVE  /\ Record(m, b) \in SUBSET S
           /\ \A c, d \in Record(m, b) : c.shard = d.shard => c = d
  BY DEF Record

LEMMA FaultType == ASSUME NEW f, TypeOK, Fault(f) PROVE faults' \in Nat
  BY DEF Fault, TypeOK

(* One more block is with a worker.                                          *)
LEMMA SendType ==
    ASSUME TypeOK, NEW b \in DOMAIN chain, Send(b)
    PROVE  /\ worker' \in [Workers -> SUBSET sent']
           /\ \A w \in Workers : Cardinality(worker'[w]) <= 1
           /\ sent' = sent \cup {b} /\ sent' \subseteq DOMAIN chain
           /\ repeated' \subseteq DOMAIN chain /\ repeated' \subseteq repeated \cup {b}
           /\ b \notin sent => repeated' = repeated
<1>1. PICK w \in Workers : worker' = [worker EXCEPT ![w] = {b}]
  BY DEF Send
<1>2. Cardinality({b}) = 1
  BY FS_Singleton
<1>3. sent' = sent \cup {b} /\ repeated' = IF b \in sent THEN repeated \cup {b} ELSE repeated
  BY DEF Send
<1>4. \A v \in Workers : worker'[v] = IF v = w THEN {b} ELSE worker[v]
  BY <1>1 DEF TypeOK
<1>5. worker' \in [Workers -> SUBSET sent']
  BY <1>1, <1>3 DEF TypeOK
<1>6. ASSUME NEW v \in Workers PROVE Cardinality(worker'[v]) <= 1
  <2>1. CASE v = w
    <3>1. worker'[v] = {b}
      BY <1>4, <2>1
    <3>2. QED
      BY <1>2, <3>1
  <2>2. CASE v # w
    <3>1. worker'[v] = worker[v]
      BY <1>4, <2>2
    <3>2. QED
      BY <3>1 DEF TypeOK
  <2>3. QED
    BY <2>1, <2>2
<1>7. sent' \subseteq DOMAIN chain /\ repeated' \subseteq DOMAIN chain
  BY <1>3, WalkerType
<1>8. QED
  BY <1>3, <1>5, <1>6, <1>7

LEMMA TypeNext == ChainInv /\ [Next]_vars => TypeOK'
<1> SUFFICES ASSUME ChainInv, [Next]_vars PROVE TypeOK'
  OBVIOUS
<1>1. TypeOK
  BY DEF ChainInv
<1>2. CASE UNCHANGED vars
  BY <1>1, <1>2 DEF TypeOK, vars, network, history
<1>3. CASE Network
  BY <1>3, NetworkKeeps DEF ChainInv
<1>4. CASE StartMasterObserver
  BY <1>1, <1>4, FaultType DEF StartMasterObserver, TypeOK, network, history
<1>5. CASE GetMasterchainInfo
  <2>1. Tips(chain) \subseteq DOMAIN chain
    BY DEF Tips
  <2>2. QED
    BY <1>1, <1>5, <2>1 DEF GetMasterchainInfo, TypeOK, network, history
<1>6. CASE HandOver
  <2>1. walker' \in WalkerState(DOMAIN chain)
    BY <1>1, <1>6, WalkerType, IdleType DEF HandOver, WalkerState, Idle
  <2>2. walker'.newShards = {}
    BY <1>6 DEF HandOver, Idle
  <2>3. QED
    BY <1>1, <1>6, <2>1, <2>2 DEF HandOver, TypeOK, network, history
<1>7. CASE GetBlockShardsInfo
  <2>1. walker' \in WalkerState(DOMAIN chain) /\ walker'.newShards \in {{}, walker.newShards}
    <3>1. CASE walker' = Idle
      BY <3>1, IdleType DEF Idle
    <3>2. ASSUME NEW pc \in {"first", "walk"}, walker' = [walker EXCEPT !.pc = pc]
          PROVE  walker' \in WalkerState(DOMAIN chain) /\ walker'.newShards = walker.newShards
      BY <1>1, <3>2, WalkerType DEF WalkerState
    <3>3. QED
      BY <1>7, <3>1, <3>2 DEF GetBlockShardsInfo
  <2>2. excused' \subseteq DOMAIN chain
    BY <1>1, <1>7, WalkerType, ChainFacts DEF GetBlockShardsInfo, AncestryOf
  <2>3. faults' \in Nat
    BY <1>1, <1>7, FaultType DEF GetBlockShardsInfo, TypeOK
  <2>4. QED
    BY <1>1, <1>7, <2>1, <2>2, <2>3 DEF GetBlockShardsInfo, TypeOK, network
<1>8. CASE RecordFirst
  <2>1. CASE walker.tips = {} /\ walker' = Idle /\ UNCHANGED <<workchain, worker, sent, repeated>>
    <3>1. walker' \in WalkerState(DOMAIN chain) /\ walker'.newShards = {}
      BY <2>1, IdleType DEF Idle
    <3>2. QED
      BY <1>1, <1>8, <2>1, <3>1 DEF RecordFirst, TypeOK, network
  <2>2. ASSUME NEW b \in walker.tips,
               workchain' = Record(workchain, b),
               walker' = [walker EXCEPT !.tips = @ \ {b}], Send(b)
        PROVE  TypeOK'
    <3>1. b \in DOMAIN chain
      BY <1>1, WalkerType
    <3>2. walker' \in WalkerState(DOMAIN chain) /\ walker'.newShards = walker.newShards
      BY <1>1, <2>2, WalkerType DEF WalkerState
    <3>3. /\ workchain' \subseteq DOMAIN chain
          /\ \A c, d \in workchain' : c.shard = d.shard => c = d
      <4>1. workchain \in SUBSET DOMAIN chain
            /\ \A c, d \in workchain : c.shard = d.shard => c = d
        BY <1>1 DEF TypeOK
      <4>2. QED
        BY <2>2, <3>1, <4>1, RecordType
    <3>4. QED
      BY <1>1, <1>8, <2>2, <3>1, <3>2, <3>3, SendType DEF RecordFirst, TypeOK, network
  <2>3. QED
    BY <1>8, <2>1, <2>2 DEF RecordFirst
<1>9. CASE NextShard
  <2>1. PICK tip \in walker.tips :
          \/ /\ walker' = [walker EXCEPT !.pc = "send", !.tips = @ \ {tip},
                                         !.newShards = Record(@, tip), !.todo = <<tip>>]
             /\ UNCHANGED <<rewalked, faults>>
          \/ /\ Fault("tip")
             /\ walker' = [walker EXCEPT !.tips = @ \ {tip}]
             /\ rewalked' = TRUE
    BY <1>9 DEF NextShard
  <2>2. tip \in DOMAIN chain /\ <<tip>> \in Seq(DOMAIN chain)
    BY <1>1, WalkerType
  <2>3. /\ Record(walker.newShards, tip) \in SUBSET DOMAIN chain
        /\ \A c, d \in Record(walker.newShards, tip) : c.shard = d.shard => c = d
    <3>1. /\ walker.newShards \in SUBSET DOMAIN chain
          /\ \A c, d \in walker.newShards : c.shard = d.shard => c = d
      BY <1>1, WalkerType DEF TypeOK
    <3>2. QED
      BY <2>2, <3>1, RecordType
  <2>4. /\ walker' \in WalkerState(DOMAIN chain)
        /\ walker'.newShards \in {walker.newShards, Record(walker.newShards, tip)}
    BY <1>1, <2>1, <2>2, <2>3, WalkerType DEF WalkerState
  <2>5. faults' \in Nat /\ rewalked' \in BOOLEAN
    BY <1>1, <2>1, FaultType DEF TypeOK
  <2>6. QED
    BY <1>1, <1>9, <2>3, <2>4, <2>5 DEF NextShard, TypeOK, network
<1>10. CASE HandleShardBlock
  <2> DEFINE b == Head(walker.todo)
             rest == Tail(walker.todo)
  <2>1. /\ b \in DOMAIN chain /\ rest \in Seq(DOMAIN chain)
        /\ chain[b] \o rest \in Seq(DOMAIN chain)
        /\ Append(walker.stack, b) \in Seq(DOMAIN chain)
        /\ behind[b] \subseteq DOMAIN chain
    <3>1. b \in DOMAIN chain /\ rest \in Seq(DOMAIN chain)
      BY <1>1, <1>10, WalkerType, HeadAndTail DEF HandleShardBlock
    <3>2. chain[b] \in Seq(DOMAIN chain) /\ behind[b] \subseteq DOMAIN chain
      BY <1>1, <3>1 DEF TypeOK
    <3>3. QED
      BY <1>1, <3>1, <3>2, WalkerType, Concatenated, Appended
  <2>2. /\ walker' \in WalkerState(DOMAIN chain) /\ walker'.newShards = walker.newShards
        /\ excused' \subseteq DOMAIN chain /\ faults' \in Nat
    <3>1. faults' \in Nat
      BY <1>1, <1>10, FaultType DEF HandleShardBlock, TypeOK
    <3>2. excused' \subseteq DOMAIN chain
      BY <1>1, <1>10, <2>1, WalkerType DEF HandleShardBlock
    <3>3. walker' \in WalkerState(DOMAIN chain) /\ walker'.newShards = walker.newShards
      BY <1>1, <1>10, <2>1, WalkerType DEF HandleShardBlock, WalkerState
    <3>4. QED
      BY <3>1, <3>2, <3>3
  <2>3. QED
    BY <1>1, <1>10, <2>2 DEF HandleShardBlock, TypeOK, network
<1>11. CASE SendStack
  <2>1. CASE walker.stack = << >> /\ walker' = [walker EXCEPT !.pc = "walk"]
             /\ UNCHANGED <<worker, sent, repeated>>
    <3>1. walker' \in WalkerState(DOMAIN chain) /\ walker'.newShards = walker.newShards
      BY <1>1, <2>1, WalkerType DEF WalkerState
    <3>2. QED
      BY <1>1, <1>11, <2>1, <3>1 DEF SendStack, TypeOK, network
  <2>2. CASE walker.stack # << >> /\ walker' = [walker EXCEPT !.stack = Front(@)]
             /\ Send(Last(walker.stack))
    <3>1. Front(walker.stack) \in Seq(DOMAIN chain) /\ Last(walker.stack) \in DOMAIN chain
      BY <1>1, <2>2, WalkerType, Popped
    <3>2. walker' \in WalkerState(DOMAIN chain) /\ walker'.newShards = walker.newShards
      BY <1>1, <2>2, <3>1, WalkerType DEF WalkerState
    <3>3. QED
      BY <1>1, <1>11, <2>2, <3>1, <3>2, SendType DEF SendStack, TypeOK, network
  <2>3. QED
    BY <1>11, <2>1, <2>2 DEF SendStack
<1>12. CASE RecordShards
  <2>1. walker' \in WalkerState(DOMAIN chain) /\ walker'.newShards = {}
    BY <1>12, IdleType DEF RecordShards, Idle
  <2>2. QED
    BY <1>1, <1>12, <2>1, WalkerType DEF RecordShards, TypeOK, network, history
<1>13. CASE GetTransactionIDsFromBlock
  <2>1. PICK w \in Workers : worker' = [worker EXCEPT ![w] = {}]
            /\ (scanned' = scanned \cup worker[w] \/ scanned' = scanned)
            /\ (excused' = excused \cup worker[w] \/ excused' = excused)
            /\ (Fault("txs") \/ UNCHANGED faults)
    BY <1>13 DEF GetTransactionIDsFromBlock
  <2>2. worker[w] \subseteq sent /\ sent \subseteq DOMAIN chain
    BY <1>1 DEF TypeOK
  <2>3. \A v \in Workers : worker'[v] = IF v = w THEN {} ELSE worker[v]
    BY <1>1, <2>1 DEF TypeOK
  <2>4. Cardinality({}) = 0
    BY FS_EmptySet
  <2>5. /\ worker' \in [Workers -> SUBSET sent]
        /\ \A v \in Workers : Cardinality(worker'[v]) <= 1
    BY <1>1, <2>1, <2>3, <2>4 DEF TypeOK
  <2>6. faults' \in Nat
    BY <1>1, <2>1, FaultType DEF TypeOK
  <2>7. QED
    BY <1>1, <1>13, <2>1, <2>2, <2>5, <2>6 DEF GetTransactionIDsFromBlock, TypeOK, network
<1>14. CASE Restart
  <2>1. UNION {worker[w] : w \in Workers} \subseteq DOMAIN chain
    BY <1>1 DEF TypeOK
  <2>2. walker' \in WalkerState(DOMAIN chain) /\ walker'.newShards = {}
    BY <1>14, IdleType DEF Restart, Idle
  <2>3. /\ worker' \in [Workers -> SUBSET sent]
        /\ \A w \in Workers : Cardinality(worker'[w]) <= 1
    <3>1. Cardinality({}) = 0
      BY FS_EmptySet
    <3>2. QED
      BY <1>14, <3>1 DEF Restart
  <2>4. faults' \in Nat
    BY <1>1, <1>14, FaultType DEF Restart
  <2>5. QED
    BY <1>1, <1>14, <2>1, <2>2, <2>3, <2>4 DEF Restart, TypeOK, network
<1>15. QED
  BY <1>2, <1>3, <1>4, <1>5, <1>6, <1>7, <1>8, <1>9, <1>10, <1>11, <1>12, <1>13, <1>14
     DEF Next, Poll, Walk

(* A step of the observer leaves the network alone.                          *)
LEMMA SameNetwork ==
    ASSUME UNCHANGED network
    PROVE  /\ chain' = chain /\ behind' = behind
           /\ Tips(chain)' = Tips(chain) /\ Splits' = Splits
           /\ \A b : Ancestry(b)' = Ancestry(b)
           /\ \A S : AncestryOf(S)' = AncestryOf(S) /\ (Antichain(S)' <=> Antichain(S))
           /\ \A b : Linear(b)' <=> Linear(b)
<1>1. chain' = chain /\ behind' = behind
  BY DEF network
<1>2. Tips(chain)' = Tips(chain) /\ Splits' = Splits
  BY <1>1 DEF Tips, Splits
<1>3. \A b : Ancestry(b)' = Ancestry(b)
  BY <1>1 DEF Ancestry
<1>4. \A S : AncestryOf(S)' = AncestryOf(S)
  BY <1>3 DEF AncestryOf
<1>5. \A S : Antichain(S)' <=> Antichain(S)
  BY <1>1 DEF Antichain
<1>6. \A b : Linear(b)' <=> Linear(b)
  BY <1>2, <1>4 DEF Linear
<1>7. QED
  BY <1>1, <1>2, <1>3, <1>4, <1>5, <1>6

LEMMA ObserverSteps ==
    ASSUME Poll \/ Walk \/ GetTransactionIDsFromBlock \/ Restart \/ UNCHANGED vars
    PROVE  UNCHANGED network
  BY DEF Poll, Walk, StartMasterObserver, GetMasterchainInfo, HandOver, GetBlockShardsInfo,
         RecordFirst, NextShard, HandleShardBlock, SendStack, RecordShards,
         GetTransactionIDsFromBlock, Restart, vars

LEMMA ChainNext == ChainInv /\ [Next]_vars => ChainInv' /\ BlocksKept
<1> SUFFICES ASSUME ChainInv, [Next]_vars PROVE ChainInv' /\ BlocksKept
  OBVIOUS
<1>1. CASE Network
  BY <1>1, NetworkKeeps
<1>2. CASE UNCHANGED network
  <2>1. /\ chain' = chain /\ behind' = behind /\ Tips(chain)' = Tips(chain)
        /\ \A b : Ancestry(b)' = Ancestry(b)
        /\ \A S : AncestryOf(S)' = AncestryOf(S)
        /\ \A b : Linear(b)' <=> Linear(b)
    BY <1>2, SameNetwork
  <2>2. TypeOK'
    BY TypeNext
  <2>3. ChainOrdered'
    BY <2>1 DEF ChainInv, ChainOrdered
  <2>4. ShardsAreLines'
    BY <2>1 DEF ChainInv, ShardsAreLines
  <2>5. TipsCover'
    <3>1. AncestryOf(Tips(chain))' = AncestryOf(Tips(chain))
      BY <2>1
    <3>2. QED
      BY <2>1, <3>1 DEF ChainInv, TipsCover
  <2>6. LinearAhead'
    BY <2>1 DEF ChainInv, LinearAhead
  <2>7. QED
    BY <2>1, <2>2, <2>3, <2>4, <2>5, <2>6 DEF ChainInv, BlocksKept
<1>3. QED
  BY <1>1, <1>2, ObserverSteps DEF Next

LEMMA ChainInit == Init => ChainInv
<1> SUFFICES ASSUME Init PROVE ChainInv
  OBVIOUS
<1>1. /\ DOMAIN chain = {Genesis} /\ chain[Genesis] = << >> /\ behind[Genesis] = {}
      /\ DOMAIN behind = {Genesis}
  BY DEF Init
<1>2. Genesis \in Block /\ Genesis.shard = "root" /\ Genesis.seqno = 0
  BY BoundsAssumption DEF Genesis, Block, Shards
<1>3. TypeOK
  <2>1. walker \in WalkerState(DOMAIN chain) /\ walker.newShards = {}
    BY IdleType DEF Init, Idle
  <2>2. worker \in [Workers -> SUBSET sent] /\ \A w \in Workers : Cardinality(worker[w]) <= 1
    <3>1. Cardinality({}) = 0
      BY FS_EmptySet
    <3>2. QED
      BY <3>1 DEF Init
  <2>3. chain \in [DOMAIN chain -> Seq(DOMAIN chain)]
    BY <1>1, EmptySeq DEF Init
  <2>4. QED
    BY <1>1, <1>2, <2>1, <2>2, <2>3 DEF Init, TypeOK
<1>4. ToSet(chain[Genesis]) = {} /\ Ancestry(Genesis) = {Genesis} /\ AncestryOf({}) = {}
  BY <1>1, ToSetNone DEF Ancestry, AncestryOf
<1>5. ChainOrdered
  <2>1. DOMAIN chain[Genesis] = {}
    BY <1>1
  <2>2. QED
    BY <1>1, <1>4, <2>1 DEF ChainOrdered
<1>6. ShardsAreLines
  BY <1>1, <1>4 DEF ShardsAreLines
<1>7. Tips(chain) = {Genesis}
  BY <1>1, <1>4 DEF Tips
<1>8. TipsCover
  BY <1>1, <1>4, <1>7 DEF TipsCover, AncestryOf
<1>9. LinearAhead
  BY <1>1, <1>4 DEF LinearAhead
<1>10. QED
  BY <1>3, <1>5, <1>6, <1>8, <1>9 DEF ChainInv

-----------------------------------------------------------------------------
(* What is recorded was sent.                                                *)

LEMMA AncestryOfUnion ==
    /\ AncestryOf({}) = {}
    /\ \A b : AncestryOf({b}) = {b} \cup behind[b]
    /\ \A S, T : AncestryOf(S \cup T) = AncestryOf(S) \cup AncestryOf(T)
  BY DEF AncestryOf, Ancestry

LEMMA RecordedBlocks ==
    ASSUME NEW m, NEW b
    PROVE  /\ Record(m, b) \subseteq m \cup {b}
           /\ AncestryOf(Record(m, b)) \subseteq AncestryOf(m) \cup {b} \cup behind[b]
<1>1. Record(m, b) \subseteq m \cup {b}
  BY DEF Record
<1>2. AncestryOf(Record(m, b)) \subseteq AncestryOf(m \cup {b})
  BY <1>1, AncestryGrows
<1>3. AncestryOf(m \cup {b}) = AncestryOf(m) \cup AncestryOf({b})
  BY AncestryOfUnion
<1>4. AncestryOf({b}) = {b} \cup behind[b]
  BY AncestryOfUnion
<1>5. QED
  BY <1>1, <1>2, <1>3, <1>4

(* Nothing of the master at hand is left when the walk is at rest.           *)
LEMMA RestInv ==
    ASSUME RecordInv, walker.pc # "send"
    PROVE  /\ walker.todo = << >> /\ walker.stack = << >>
           /\ ToSet(walker.todo) = {} /\ ToSet(walker.stack) = {}
           /\ AncestryOf(ToSet(walker.todo)) = {}
           /\ AncestryOf(walker.newShards) \subseteq sent \cup excused
<1>1. walker.todo = << >> /\ walker.stack = << >>
  BY DEF RecordInv, WalkerAtRest
<1>2. ToSet(walker.todo) = {} /\ ToSet(walker.stack) = {}
  BY <1>1, ToSetNone
<1>3. AncestryOf(ToSet(walker.todo)) = {}
  BY <1>2, AncestryOfUnion
<1>4. QED
  BY <1>1, <1>2, <1>3 DEF RecordInv

(* With the walker idle there is nothing to keep but what is recorded.       *)
LEMMA IdleRecord ==
    ASSUME walker' = Idle
    PROVE  /\ WalkerAtRest' /\ Antichain(walker.tips)'
           /\ walker'.tips = {} /\ walker'.newShards = {} /\ walker'.pc = "idle"
           /\ ToSet(walker.todo)' = {} /\ ToSet(walker.stack)' = {}
           /\ AncestryOf(walker.newShards)' = {}
<1>1. /\ walker'.tips = {} /\ walker'.newShards = {} /\ walker'.pc = "idle"
      /\ walker'.todo = << >> /\ walker'.stack = << >>
  BY DEF Idle
<1>2. ToSet(walker.todo)' = {} /\ ToSet(walker.stack)' = {}
  BY <1>1 DEF ToSet
<1>3. AncestryOf(walker.newShards)' = {}
  BY <1>1 DEF AncestryOf
<1>4. QED
  BY <1>1, <1>2, <1>3 DEF WalkerAtRest, Antichain

(* The blocks behind one that is recorded were sent, or are excused.         *)
LEMMA KnownIsSent ==
    ASSUME RecordInv, NEW b \in DOMAIN chain, Known(b)
    PROVE  b \in AncestryOf(workchain) /\ Ancestry(b) \subseteq sent \cup excused
<1>1. PICK r \in workchain : r.shard = b.shard /\ r.seqno >= b.seqno
  BY DEF Known
<1>2. r \in DOMAIN chain
  BY <1>1 DEF RecordInv, ChainInv, TypeOK
<1>3. b.seqno \in Nat /\ r.seqno \in Nat
  BY <1>2, ChainFacts DEF RecordInv
<1>4. b \in Ancestry(r)
  BY <1>1, <1>2, <1>3 DEF RecordInv, ChainInv, ShardsAreLines
<1>5. Ancestry(b) \subseteq Ancestry(r)
  BY <1>2, <1>4, ChainFacts DEF RecordInv
<1>6. QED
  BY <1>1, <1>4, <1>5 DEF RecordInv, RecordedIsSent, AncestryOf

LEMMA RecordSame ==
    ASSUME RecordInv, ChainInv', UNCHANGED network, WalkerAtRest', RecordedIsSent',
           Antichain(posted)', Antichain(walker.tips)',
           walker'.pc = "first" => \A t \in walker'.tips : behind[t] \subseteq excused',
           AncestryOf(walker'.newShards) \subseteq
               sent' \cup excused' \cup ToSet(walker'.stack) \cup AncestryOf(ToSet(walker'.todo))
    PROVE  RecordInv'
<1>1. /\ behind' = behind /\ AncestryOf(walker.newShards)' = AncestryOf(walker'.newShards)
      /\ AncestryOf(ToSet(walker.todo))' = AncestryOf(ToSet(walker'.todo))
      /\ ToSet(walker.stack)' = ToSet(walker'.stack)
  BY SameNetwork DEF AncestryOf, ToSet
<1>2. QED
  BY <1>1 DEF RecordInv

LEMMA RecordNext == RecordInv /\ [Next]_vars => RecordInv'
<1> SUFFICES ASSUME RecordInv, [Next]_vars PROVE RecordInv'
  OBVIOUS
<1>1. ChainInv /\ TypeOK /\ ChainInv' /\ BlocksKept
  BY ChainNext DEF RecordInv, ChainInv
<1>2. CASE Network
  <2>1. UNCHANGED <<poller, posted, walker, workchain, worker, history, faults>>
    BY <1>2 DEF Network, Grow, Split, Merge, Build
  <2>2. /\ posted \subseteq DOMAIN chain /\ walker.tips \subseteq DOMAIN chain
        /\ walker.newShards \subseteq DOMAIN chain /\ workchain \subseteq DOMAIN chain
        /\ ToSet(walker.todo) \subseteq DOMAIN chain
    BY <1>1, WalkerType, ToSetIn
  <2>3. \A S \in SUBSET DOMAIN chain :
            AncestryOf(S)' = AncestryOf(S) /\ (Antichain(S) => Antichain(S)')
    BY <1>1 DEF BlocksKept, AncestryOf, Antichain
  <2>4. /\ AncestryOf(workchain)' = AncestryOf(workchain)
        /\ AncestryOf(walker.newShards)' = AncestryOf(walker.newShards)
        /\ AncestryOf(ToSet(walker.todo))' = AncestryOf(ToSet(walker.todo))
    BY <2>1, <2>2, <2>3 DEF ToSet
  <2>5. ToSet(walker.stack)' = ToSet(walker.stack)
    BY <2>1 DEF ToSet
  <2>6. Antichain(posted)' /\ Antichain(walker.tips)'
    BY <2>1, <2>2, <2>3 DEF RecordInv
  <2>7. walker.pc = "first" => \A t \in walker.tips : behind'[t] \subseteq excused
    BY <1>1, <2>2 DEF RecordInv, BlocksKept
  <2>8. QED
    BY <1>1, <2>1, <2>4, <2>5, <2>6, <2>7 DEF RecordInv, RecordedIsSent, WalkerAtRest, history
<1>3. CASE StartMasterObserver \/ UNCHANGED vars
  <2>1. UNCHANGED <<network, posted, walker, workchain, history>>
    BY <1>3 DEF StartMasterObserver, vars
  <2>2. ToSet(walker.todo)' = ToSet(walker.todo) /\ ToSet(walker.stack)' = ToSet(walker.stack)
    BY <2>1 DEF ToSet
  <2>3. QED
    BY <1>1, <2>1, <2>2, SameNetwork DEF RecordInv, RecordedIsSent, WalkerAtRest, history
<1>4. CASE GetMasterchainInfo
  <2>1. /\ UNCHANGED <<network, walker, workchain, history>> /\ posted' = Tips(chain)
    BY <1>4 DEF GetMasterchainInfo
  <2>2. Antichain(Tips(chain))
    BY <1>1, TipsInFront DEF Antichain, Tips
  <2>3. ToSet(walker.todo)' = ToSet(walker.todo) /\ ToSet(walker.stack)' = ToSet(walker.stack)
    BY <2>1 DEF ToSet
  <2>4. Antichain(posted)'
    BY <2>1, <2>2, SameNetwork
  <2>5. QED
    BY <1>1, <2>1, <2>3, <2>4, SameNetwork DEF RecordInv, RecordedIsSent, WalkerAtRest, history
<1>5. CASE HandOver
  <2>1. /\ UNCHANGED <<network, workchain, history>> /\ posted' = {}
        /\ walker'.pc = "shards" /\ walker'.tips = posted /\ walker'.newShards = {}
        /\ walker'.todo = << >> /\ walker'.stack = << >>
    BY <1>5 DEF HandOver, Idle
  <2>2. AncestryOf(walker'.newShards) = {}
    BY <2>1, AncestryOfUnion
  <2>3. Antichain(walker.tips)' /\ Antichain(posted)'
    BY <2>1 DEF RecordInv, Antichain, network
  <2>4. RecordedIsSent'
    BY <2>1, SameNetwork DEF RecordInv, RecordedIsSent, history
  <2>5. QED
    BY <1>1, <2>1, <2>2, <2>3, <2>4, RecordSame DEF WalkerAtRest
<1>6. CASE GetBlockShardsInfo
  <2>1. /\ UNCHANGED <<network, posted, workchain, sent>> /\ walker.pc = "shards"
        /\ excused \subseteq excused'
    BY <1>6 DEF GetBlockShardsInfo
  <2>2. RecordedIsSent' /\ Antichain(posted)'
    BY <2>1, SameNetwork DEF RecordInv, RecordedIsSent
  <2>3. CASE walker' = Idle
    <3>1. AncestryOf(walker'.newShards) = {}
      BY <2>3, IdleRecord, AncestryOfUnion
    <3>2. QED
      BY <1>1, <2>1, <2>2, <2>3, <3>1, IdleRecord, RecordSame
  <2>4. ASSUME NEW pc \in {"first", "walk"}, walker' = [walker EXCEPT !.pc = pc],
               pc = "first" => excused' = excused \cup (AncestryOf(walker.tips) \ walker.tips)
        PROVE  RecordInv'
    <3>1. /\ walker'.pc = pc /\ walker'.tips = walker.tips /\ walker'.todo = walker.todo
          /\ walker'.stack = walker.stack /\ walker'.newShards = walker.newShards
      BY <1>1, <2>4, WalkerType DEF WalkerState
    <3>2. walker.newShards = {} /\ walker.todo = << >> /\ walker.stack = << >>
      BY <2>1 DEF RecordInv, WalkerAtRest
    <3>3. AncestryOf(walker'.newShards) = {}
      BY <3>1, <3>2, AncestryOfUnion
    <3>4. Antichain(walker.tips)' /\ WalkerAtRest'
      BY <2>1, <2>4, <3>1, <3>2 DEF RecordInv, Antichain, WalkerAtRest, network
    <3>5. ASSUME pc = "first", NEW t \in walker.tips PROVE behind[t] \subseteq excused'
      <4>1. \A x \in behind[t] : x \in AncestryOf(walker.tips)
        BY DEF AncestryOf, Ancestry
      <4>2. \A x \in behind[t] : x \notin walker.tips
        BY DEF RecordInv, Antichain
      <4>3. QED
        BY <2>4, <3>5, <4>1, <4>2
    <3>6. QED
      BY <1>1, <2>1, <2>2, <3>1, <3>3, <3>4, <3>5, RecordSame
  <2>5. QED
    BY <1>6, <2>3, <2>4 DEF GetBlockShardsInfo
<1>7. CASE RecordFirst
  <2>1. UNCHANGED <<network, posted, excused>> /\ walker.pc = "first"
    BY <1>7 DEF RecordFirst
  <2>2. Antichain(posted)'
    BY <2>1, SameNetwork DEF RecordInv
  <2>3. CASE walker' = Idle /\ UNCHANGED <<workchain, sent>>
    <3>1. AncestryOf(walker'.newShards) = {}
      BY <2>3, IdleRecord, AncestryOfUnion
    <3>2. RecordedIsSent'
      BY <2>1, <2>3, SameNetwork DEF RecordInv, RecordedIsSent
    <3>3. QED
      BY <1>1, <2>1, <2>2, <2>3, <3>1, <3>2, IdleRecord, RecordSame
  <2>4. ASSUME NEW b \in walker.tips, workchain' = Record(workchain, b),
               walker' = [walker EXCEPT !.tips = @ \ {b}], Send(b)
        PROVE  RecordInv'
    <3>1. /\ walker'.pc = "first" /\ walker'.tips = walker.tips \ {b}
          /\ walker'.todo = << >> /\ walker'.stack = << >> /\ walker'.newShards = {}
      BY <1>1, <2>1, <2>4, WalkerType DEF WalkerState, RecordInv, WalkerAtRest
    <3>2. sent' = sent \cup {b} /\ behind[b] \subseteq excused
      BY <2>1, <2>4 DEF Send, RecordInv
    <3>3. RecordedIsSent'
      <4>1. AncestryOf(Record(workchain, b)) \subseteq AncestryOf(workchain) \cup {b} \cup behind[b]
        BY RecordedBlocks
      <4>2. AncestryOf(workchain)' = AncestryOf(Record(workchain, b))
        BY <2>1, <2>4, SameNetwork
      <4>3. AncestryOf(workchain) \subseteq sent \cup excused
        BY DEF RecordInv, RecordedIsSent
      <4>4. QED
        BY <2>1, <3>2, <4>1, <4>2, <4>3 DEF RecordedIsSent
    <3>4. AncestryOf(walker'.newShards) = {}
      BY <3>1, AncestryOfUnion
    <3>5. Antichain(walker.tips)' /\ WalkerAtRest'
      BY <2>1, <3>1 DEF RecordInv, Antichain, WalkerAtRest, network
    <3>6. \A t \in walker'.tips : behind[t] \subseteq excused'
      BY <2>1, <3>1 DEF RecordInv
    <3>7. QED
      BY <1>1, <2>1, <2>2, <3>1, <3>3, <3>4, <3>5, <3>6, RecordSame
  <2>5. QED
    BY <1>7, <2>3, <2>4 DEF RecordFirst
<1>8. CASE NextShard
  <2>1. UNCHANGED <<network, posted, workchain, sent, excused>> /\ walker.pc = "walk"
    BY <1>8 DEF NextShard
  <2>2. RecordedIsSent' /\ Antichain(posted)'
    BY <2>1, SameNetwork DEF RecordInv, RecordedIsSent
  <2>3. AncestryOf(walker.newShards) \subseteq sent \cup excused
    BY <2>1, RestInv
  <2>4. ASSUME NEW tip \in walker.tips,
               walker' = [walker EXCEPT !.pc = "send", !.tips = @ \ {tip},
                                        !.newShards = Record(@, tip), !.todo = <<tip>>]
        PROVE  RecordInv'
    <3>1. /\ walker'.pc = "send" /\ walker'.tips = walker.tips \ {tip}
          /\ walker'.todo = <<tip>> /\ walker'.newShards = Record(walker.newShards, tip)
      BY <1>1, <2>4, WalkerType DEF WalkerState
    <3>2. AncestryOf(ToSet(walker'.todo)) = {tip} \cup behind[tip]
      BY <3>1, ToSetOne, AncestryOfUnion
    <3>3. AncestryOf(walker'.newShards) \subseteq
              AncestryOf(walker.newShards) \cup {tip} \cup behind[tip]
      BY <3>1, RecordedBlocks
    <3>4. Antichain(walker.tips)' /\ WalkerAtRest'
      BY <2>1, <3>1 DEF RecordInv, Antichain, WalkerAtRest, network
    <3>5. QED
      BY <1>1, <2>1, <2>2, <2>3, <3>1, <3>2, <3>3, <3>4, RecordSame
  <2>5. ASSUME NEW tip \in walker.tips, walker' = [walker EXCEPT !.tips = @ \ {tip}]
        PROVE  RecordInv'
    <3>1. /\ walker'.pc = "walk" /\ walker'.tips = walker.tips \ {tip}
          /\ walker'.todo = << >> /\ walker'.stack = << >>
          /\ walker'.newShards = walker.newShards
      BY <1>1, <2>1, <2>5, RestInv, WalkerType DEF WalkerState
    <3>2. Antichain(walker.tips)' /\ WalkerAtRest'
      BY <2>1, <3>1 DEF RecordInv, Antichain, WalkerAtRest, network
    <3>3. QED
      BY <1>1, <2>1, <2>2, <2>3, <3>1, <3>2, RecordSame
  <2>6. QED
    BY <1>8, <2>4, <2>5 DEF NextShard
<1>9. CASE HandleShardBlock
  <2> DEFINE b == Head(walker.todo)
             rest == Tail(walker.todo)
  <2>1. /\ UNCHANGED <<network, posted, workchain, sent>> /\ walker.pc = "send"
        /\ excused \subseteq excused' /\ walker.todo # << >>
    BY <1>9 DEF HandleShardBlock
  <2>2. RecordedIsSent' /\ Antichain(posted)'
    BY <2>1, SameNetwork DEF RecordInv, RecordedIsSent
  <2>3. /\ b \in DOMAIN chain /\ rest \in Seq(DOMAIN chain)
        /\ ToSet(walker.todo) = {b} \cup ToSet(rest)
    BY <1>1, <2>1, WalkerType, HeadAndTail
  <2> HIDE DEF b, rest
  <2>4. AncestryOf(ToSet(walker.todo)) = {b} \cup behind[b] \cup AncestryOf(ToSet(rest))
    BY <2>3, AncestryOfUnion
  <2>5. AncestryOf(walker.newShards) \subseteq
            sent \cup excused \cup ToSet(walker.stack) \cup {b} \cup behind[b]
                 \cup AncestryOf(ToSet(rest))
    BY <2>4 DEF RecordInv
  <2>6. walker'.pc = "send" /\ walker'.tips = walker.tips =>
            WalkerAtRest' /\ Antichain(walker.tips)'
    BY <2>1 DEF WalkerAtRest, RecordInv, Antichain, network
  <2>7. ToSet(Append(walker.stack, b)) = ToSet(walker.stack) \cup {b}
    BY <1>1, <2>3, WalkerType, Appended
  <2>8. CASE Known(b) /\ walker' = [walker EXCEPT !.todo = rest]
    <3>1. /\ walker'.pc = "send" /\ walker'.tips = walker.tips /\ walker'.todo = rest
          /\ walker'.stack = walker.stack /\ walker'.newShards = walker.newShards
      BY <1>1, <2>1, <2>8, WalkerType DEF WalkerState
    <3>2. {b} \cup behind[b] \subseteq sent \cup excused
      BY <2>3, <2>8, KnownIsSent DEF Ancestry
    <3>3. QED
      BY <1>1, <2>1, <2>2, <2>5, <2>6, <3>1, <3>2, RecordSame
  <2>9. CASE walker' = [walker EXCEPT !.todo = chain[b] \o rest, !.stack = Append(@, b)]
    <3>1. /\ walker'.pc = "send" /\ walker'.tips = walker.tips
          /\ walker'.todo = chain[b] \o rest /\ walker'.stack = Append(walker.stack, b)
          /\ walker'.newShards = walker.newShards
      BY <1>1, <2>1, <2>9, WalkerType DEF WalkerState
    <3>2. chain[b] \in Seq(DOMAIN chain) /\ behind[b] = AncestryOf(ToSet(chain[b]))
      BY <1>1, <2>3 DEF ChainInv, TypeOK, ChainOrdered
    <3>3. AncestryOf(ToSet(walker'.todo)) = behind[b] \cup AncestryOf(ToSet(rest))
      <4>1. ToSet(chain[b] \o rest) = ToSet(chain[b]) \cup ToSet(rest)
        BY <2>3, <3>2, Concatenated
      <4>2. AncestryOf(ToSet(chain[b]) \cup ToSet(rest)) =
                AncestryOf(ToSet(chain[b])) \cup AncestryOf(ToSet(rest))
        BY AncestryOfUnion
      <4>3. QED
        BY <3>1, <3>2, <4>1, <4>2
    <3>4. QED
      BY <1>1, <2>1, <2>2, <2>5, <2>6, <2>7, <3>1, <3>3, RecordSame
  <2>10. CASE /\ walker' = [walker EXCEPT !.todo = rest, !.stack = Append(@, b)]
              /\ excused' = excused \cup behind[b]
    <3>1. /\ walker'.pc = "send" /\ walker'.tips = walker.tips /\ walker'.todo = rest
          /\ walker'.stack = Append(walker.stack, b) /\ walker'.newShards = walker.newShards
      BY <1>1, <2>1, <2>10, WalkerType DEF WalkerState
    <3>2. QED
      BY <1>1, <2>1, <2>2, <2>5, <2>6, <2>7, <2>10, <3>1, RecordSame
  <2>11. QED
    BY <1>9, <2>8, <2>9, <2>10 DEF HandleShardBlock, b, rest
<1>10. CASE SendStack
  <2>1. /\ UNCHANGED <<network, posted, workchain, excused>> /\ walker.pc = "send"
        /\ walker.todo = << >>
    BY <1>10 DEF SendStack
  <2>2. Antichain(posted)'
    BY <2>1, SameNetwork DEF RecordInv
  <2>3. AncestryOf(walker.newShards) \subseteq sent \cup excused \cup ToSet(walker.stack)
    BY <2>1, ToSetNone, AncestryOfUnion DEF RecordInv
  <2>4. ASSUME walker.stack # << >>, walker' = [walker EXCEPT !.stack = Front(@)],
               Send(Last(walker.stack))
        PROVE  RecordInv'
    <3>1. /\ walker'.pc = "send" /\ walker'.tips = walker.tips /\ walker'.todo = walker.todo
          /\ walker'.stack = Front(walker.stack) /\ walker'.newShards = walker.newShards
      BY <1>1, <2>1, <2>4, WalkerType DEF WalkerState
    <3>2. sent' = sent \cup {Last(walker.stack)}
      BY <2>4 DEF Send
    <3>3. ToSet(walker.stack) = ToSet(Front(walker.stack)) \cup {Last(walker.stack)}
      BY <1>1, <2>4, WalkerType, Popped
    <3>4. Antichain(walker.tips)' /\ WalkerAtRest'
      BY <2>1, <3>1 DEF RecordInv, Antichain, WalkerAtRest, network
    <3>5. RecordedIsSent'
      BY <2>1, <3>2, SameNetwork DEF RecordInv, RecordedIsSent
    <3>6. QED
      BY <1>1, <2>1, <2>2, <2>3, <3>1, <3>2, <3>3, <3>4, <3>5, RecordSame
  <2>5. CASE walker.stack = << >> /\ walker' = [walker EXCEPT !.pc = "walk"] /\ sent' = sent
    <3>1. /\ walker'.pc = "walk" /\ walker'.tips = walker.tips
          /\ walker'.todo = << >> /\ walker'.stack = << >>
          /\ walker'.newShards = walker.newShards
      BY <1>1, <2>1, <2>5, WalkerType DEF WalkerState
    <3>2. Antichain(walker.tips)' /\ WalkerAtRest'
      BY <2>1, <3>1 DEF RecordInv, Antichain, WalkerAtRest, network
    <3>3. RecordedIsSent'
      BY <2>1, <2>5, SameNetwork DEF RecordInv, RecordedIsSent
    <3>4. ToSet(walker.stack) = {}
      BY <2>5, ToSetNone
    <3>5. QED
      BY <1>1, <2>1, <2>2, <2>3, <2>5, <3>1, <3>2, <3>3, <3>4, RecordSame
  <2>6. QED
    BY <1>10, <2>4, <2>5 DEF SendStack
<1>11. CASE RecordShards
  <2>1. /\ UNCHANGED <<network, posted, sent, excused>> /\ walker.pc = "walk"
        /\ workchain' = walker.newShards /\ walker' = Idle
    BY <1>11 DEF RecordShards, history
  <2>2. Antichain(posted)'
    BY <2>1, SameNetwork DEF RecordInv
  <2>3. RecordedIsSent'
    BY <2>1, RestInv, SameNetwork DEF RecordedIsSent
  <2>4. AncestryOf(walker'.newShards) = {}
    BY <2>1, IdleRecord, AncestryOfUnion
  <2>5. QED
    BY <1>1, <2>1, <2>2, <2>3, <2>4, IdleRecord, RecordSame
<1>12. CASE GetTransactionIDsFromBlock
  <2>1. /\ UNCHANGED <<network, posted, walker, workchain, sent>> /\ excused \subseteq excused'
    BY <1>12 DEF GetTransactionIDsFromBlock
  <2>2. ToSet(walker.todo)' = ToSet(walker.todo) /\ ToSet(walker.stack)' = ToSet(walker.stack)
    BY <2>1 DEF ToSet
  <2>3. QED
    BY <1>1, <2>1, <2>2, SameNetwork DEF RecordInv, RecordedIsSent, WalkerAtRest
<1>13. CASE Restart
  <2>1. UNCHANGED network /\ posted' = {} /\ workchain' = {} /\ walker' = Idle
    BY <1>13 DEF Restart
  <2>2. Antichain(posted)' /\ RecordedIsSent'
    BY <2>1 DEF Antichain, RecordedIsSent, AncestryOf
  <2>3. AncestryOf(walker'.newShards) = {}
    BY <2>1, IdleRecord, AncestryOfUnion
  <2>4. QED
    BY <1>1, <2>1, <2>2, <2>3, IdleRecord, RecordSame
<1>14. QED
  BY <1>2, <1>3, <1>4, <1>5, <1>6, <1>7, <1>8, <1>9, <1>10, <1>11, <1>12, <1>13
     DEF Next, Poll, Walk

LEMMA RecordInit == Init => RecordInv
<1> SUFFICES ASSUME Init PROVE RecordInv
  OBVIOUS
<1>1. /\ walker.tips = {} /\ walker.newShards = {} /\ walker.pc = "idle"
      /\ walker.todo = << >> /\ walker.stack = << >> /\ posted = {} /\ workchain = {}
  BY DEF Init, Idle
<1>2. QED
  BY <1>1, ChainInit, AncestryOfUnion
     DEF RecordInv, WalkerAtRest, RecordedIsSent, Antichain

(* The traversal is sound: what the observer counts as seen it has sent to   *)
(* its workers, but for what a failed read or a start leaves out.            *)
THEOREM RecordedIsSentTheorem == Spec => []RecordedIsSent
<1>1. RecordInv => RecordedIsSent
  BY DEF RecordInv
<1>2. QED
  BY <1>1, RecordInit, RecordNext, PTL DEF Spec

(* Type correctness, with the shape of the chain it rests on.                *)
THEOREM TypeOKTheorem == Spec => []TypeOK
<1>1. ChainInv => TypeOK
  BY DEF ChainInv
<1>2. QED
  BY <1>1, ChainInit, ChainNext, PTL DEF Spec

-----------------------------------------------------------------------------
(* A block is sent again only from both sides of a split.                    *)

LEMMA LinearFacts ==
    ASSUME ChainInv
    PROVE  /\ \A x, b \in DOMAIN chain : x \in Ancestry(b) /\ Linear(x) => Linear(b)
           /\ \A x, c, d \in DOMAIN chain :
                Linear(x) /\ x \in ToSet(chain[c]) /\ x \in ToSet(chain[d]) => c = d
<1>1. \A s \in Splits : s \in DOMAIN chain /\ Ancestry(s) \subseteq AncestryOf(Splits)
  BY DEF Splits, AncestryOf
<1>2. ASSUME NEW x \in DOMAIN chain, NEW b \in DOMAIN chain, x \in Ancestry(b), ~Linear(b)
      PROVE  ~Linear(x)
  <2>1. PICK s \in Splits : b \in Ancestry(s)
    BY <1>2 DEF Linear, AncestryOf
  <2>2. Ancestry(b) \subseteq Ancestry(s)
    BY <1>1, <2>1, ChainFacts
  <2>3. QED
    BY <1>1, <1>2, <2>2 DEF Linear
<1>3. ASSUME NEW x \in DOMAIN chain, NEW c \in DOMAIN chain, NEW d \in DOMAIN chain,
             Linear(x), x \in ToSet(chain[c]), x \in ToSet(chain[d]), c # d
      PROVE  FALSE
  <2>1. x \in Splits
    BY <1>3 DEF Splits
  <2>2. QED
    BY <1>3, <2>1, InAncestry DEF Linear
<1>4. QED
  BY <1>2, <1>3

(* Two parents of a block with a block behind both are one, unless a split   *)
(* comes after that block.                                                   *)
LEMMA OneParent ==
    ASSUME ChainInv, NEW b \in DOMAIN chain,
           NEW p \in ToSet(chain[b]), NEW q \in ToSet(chain[b]),
           NEW x \in Ancestry(p), x \in Ancestry(q), Linear(x)
    PROVE  p = q
<1>1. /\ p \in DOMAIN chain /\ q \in DOMAIN chain /\ x \in DOMAIN chain
      /\ p \in behind[b] /\ q \in behind[b]
  BY ChainFacts, ToSetIn
<1>2. ASSUME NEW u \in ToSet(chain[b]), NEW v \in ToSet(chain[b]),
             u \in behind[v], x \in Ancestry(u)
      PROVE  FALSE
  <2>1. u \in DOMAIN chain /\ v \in DOMAIN chain /\ v \in behind[b]
    BY ChainFacts, ToSetIn
  <2>2. PICK c \in Ancestry(v) : u \in ToSet(chain[c])
    BY <1>2, <2>1 DEF ChainInv, ChainOrdered
  <2>3. c \in DOMAIN chain /\ Linear(u)
    BY <1>1, <1>2, <2>1, ChainFacts, LinearFacts
  <2>4. c = b
    BY <2>1, <2>2, <2>3, LinearFacts
  <2>5. QED
    BY <2>1, <2>2, <2>4, ChainFacts
<1>3. p \in Ancestry(q) \/ q \in Ancestry(p)
  BY <1>1 DEF ChainInv, LinearAhead
<1>4. p \notin behind[q] /\ q \notin behind[p]
  BY <1>2
<1>5. QED
  BY <1>3, <1>4 DEF Ancestry

(* Nothing that is recorded is lost to a block none of them lies behind.     *)
LEMMA RecordAdds ==
    ASSUME ChainInv, NEW m \in SUBSET DOMAIN chain, NEW b \in DOMAIN chain,
           Antichain(m \cup {b}), b \notin m
    PROVE  Record(m, b) = m \cup {b}
<1>1. ASSUME NEW c \in m, c.shard = b.shard PROVE FALSE
  <2>1. c.seqno \in Nat /\ b.seqno \in Nat
    BY ChainFacts
  <2>2. c.seqno <= b.seqno \/ b.seqno <= c.seqno
    BY <2>1
  <2>3. c \in Ancestry(b) \/ b \in Ancestry(c)
    BY <1>1, <2>2 DEF ChainInv, ShardsAreLines
  <2>4. c \notin behind[b] /\ b \notin behind[c] /\ b # c
    BY DEF Antichain
  <2>5. QED
    BY <2>3, <2>4 DEF Ancestry
<1>2. QED
  BY <1>1 DEF Record

LEMMA NothingToMeet ==
    ASSUME walker'.todo = << >>, walker'.stack = << >>
    PROVE  /\ MetOnce'
           /\ ToSet(walker.todo)' = {} /\ ToSet(walker.stack)' = {}
<1>1. ToSet(walker.todo)' = {} /\ ToSet(walker.stack)' = {}
  BY DEF ToSet
<1>2. DOMAIN walker'.todo = {} /\ DOMAIN walker'.stack = {}
  OBVIOUS
<1>3. QED
  BY <1>1, <1>2 DEF MetOnce

(* The parts of MastersInOrder, by the values they have after a step.        *)
LEMMA OrderKept ==
    ASSUME UNCHANGED network,
           Antichain(walker'.tips \cup Handled'), walker'.tips \cap Handled' = {},
           poller' = "post" =>
               workchain' \cup walker'.tips \cup Handled' \subseteq AncestryOf(posted'),
           walker'.pc # "idle" => workchain' \subseteq AncestryOf(walker'.tips \cup Handled'),
           sent' \subseteq AncestryOf(workchain' \cup walker'.newShards),
           ToSet(walker'.stack) \cup ToSet(walker'.todo) \subseteq AncestryOf(walker'.newShards)
    PROVE  MastersInOrder'
<1>1. /\ Antichain(walker.tips \cup Handled)' <=> Antichain(walker'.tips \cup Handled')
      /\ AncestryOf(posted)' = AncestryOf(posted')
      /\ AncestryOf(walker.tips \cup Handled)' = AncestryOf(walker'.tips \cup Handled')
      /\ AncestryOf(workchain \cup walker.newShards)' = AncestryOf(workchain' \cup walker'.newShards)
      /\ AncestryOf(walker.newShards)' = AncestryOf(walker'.newShards)
  BY DEF network, Antichain, AncestryOf, Ancestry
<1>2. ToSet(walker.stack)' = ToSet(walker'.stack) /\ ToSet(walker.todo)' = ToSet(walker'.todo)
  BY DEF ToSet
<1>3. QED
  BY <1>1, <1>2 DEF MastersInOrder

(* What the walk has met, when it pushes the block b it comes to and goes on *)
(* to those of q: the parents of b, or none when they could not be read.     *)
LEMMA PushedOnce ==
    ASSUME OnceInv, ~rewalked, UNCHANGED <<network, workchain, sent>>,
           walker.todo # << >>, NEW b, b = Head(walker.todo), ~Known(b),
           NEW q \in Seq(ToSet(chain[b])),
           \A i, j \in DOMAIN q : q[i] = q[j] => i = j,
           walker'.todo = q \o Tail(walker.todo), walker'.stack = Append(walker.stack, b),
           walker'.newShards = walker.newShards
    PROVE  /\ MetOnce'
           /\ ToSet(walker'.stack) \cup ToSet(walker'.todo) \subseteq AncestryOf(walker'.newShards)
<1> DEFINE todo == walker.todo
           rest == Tail(walker.todo)
           stack == walker.stack
           past == AncestryOf(workchain)
<1>1. ChainInv /\ TypeOK /\ MastersInOrder /\ MetOnce
  BY DEF OnceInv, RecordInv, ChainInv
<1>2. /\ todo \in Seq(DOMAIN chain) /\ stack \in Seq(DOMAIN chain)
      /\ workchain \subseteq DOMAIN chain /\ walker.newShards \subseteq DOMAIN chain
  BY <1>1, WalkerType
<1>3. /\ b \in DOMAIN chain /\ b = todo[1] /\ 1 \in DOMAIN todo
      /\ rest \in Seq(DOMAIN chain) /\ ToSet(todo) = {b} \cup ToSet(rest)
      /\ \A i \in 1..Len(rest) : rest[i] = todo[i + 1] /\ i + 1 \in DOMAIN todo /\ i + 1 # 1
  <2>1. /\ Head(todo) \in DOMAIN chain /\ Head(todo) = todo[1] /\ 1 \in 1..Len(todo)
        /\ rest \in Seq(DOMAIN chain) /\ ToSet(todo) = {Head(todo)} \cup ToSet(rest)
        /\ \A i \in 1..Len(rest) : rest[i] = todo[i + 1] /\ i + 1 \in 1..Len(todo)
    BY <1>2, HeadAndTail
  <2>2. DOMAIN todo = 1..Len(todo)
    BY <1>2, ToSetIn
  <2> HIDE DEF todo, rest
  <2>3. \A i \in 1..Len(rest) : i + 1 # 1
    OBVIOUS
  <2>4. QED
    BY <2>1, <2>2, <2>3 DEF todo
<1>4. /\ q \in Seq(DOMAIN chain) /\ Len(q) \in Nat
      /\ \A i \in 1..Len(q) : q[i] \in ToSet(chain[b])
      /\ ToSet(q) \subseteq ToSet(chain[b])
      /\ ToSet(chain[b]) \subseteq behind[b] /\ behind[b] \subseteq DOMAIN chain
      /\ DOMAIN q = 1..Len(q)
  <2>1. chain[b] \in Seq(DOMAIN chain) /\ ToSet(chain[b]) \subseteq DOMAIN chain
    BY <1>1, <1>3, ChainFacts, ToSetIn
  <2>2. ToSet(chain[b]) \subseteq behind[b] /\ behind[b] \subseteq DOMAIN chain
    BY <1>1, <1>3, ChainFacts DEF Ancestry
  <2>3. QED
    BY <2>1, <2>2, ToSetIn, SeqMonotonic
<1>5. /\ ToSet(walker'.todo) = ToSet(q) \cup ToSet(rest)
      /\ DOMAIN walker'.todo = 1..Len(q \o rest)
      /\ \A i \in 1..Len(q \o rest) :
            \/ i \in 1..Len(q) /\ walker'.todo[i] = q[i]
            \/ i - Len(q) \in 1..Len(rest) /\ walker'.todo[i] = rest[i - Len(q)]
  <2>1. q \o rest \in Seq(DOMAIN chain)
    BY <1>3, <1>4, Concatenated
  <2>2. DOMAIN (q \o rest) = 1..Len(q \o rest)
    BY <2>1, ToSetIn
  <2>3. QED
    BY <1>3, <1>4, <2>2, Concatenated
<1>6. /\ ToSet(walker'.stack) = ToSet(stack) \cup {b}
      /\ Len(stack) \in Nat /\ DOMAIN stack = 1..Len(stack)
      /\ DOMAIN walker'.stack = 1..Len(stack) + 1
      /\ \A i \in 1..Len(stack) : walker'.stack[i] = stack[i] /\ stack[i] \in ToSet(stack)
      /\ walker'.stack[Len(stack) + 1] = b
  <2>1. Append(stack, b) \in Seq(DOMAIN chain)
    BY <1>2, <1>3, Appended
  <2>2. DOMAIN Append(stack, b) = 1..Len(Append(stack, b))
    BY <2>1, ToSetIn
  <2>3. QED
    BY <1>2, <1>3, <2>2, Appended, ToSetIn
<1> HIDE DEF todo, rest, stack, past
<1>7. /\ ToSet(stack) \cup ToSet(todo) \subseteq AncestryOf(walker.newShards)
      /\ \A i, j \in DOMAIN todo : \A x \in Ancestry(todo[i]) \ past : Linear(x) =>
            x \notin sent \cup ToSet(stack) /\ (x \in Ancestry(todo[j]) => i = j)
      /\ \A t \in ToSet(todo), w \in workchain : Linear(t) => t \notin behind[w]
      /\ \A i, j \in DOMAIN stack : Linear(stack[i]) =>
            stack[i] \notin sent /\ (stack[i] = stack[j] => i = j)
  BY <1>1 DEF MastersInOrder, MetOnce, todo, stack, past
<1>8. ToSet(walker'.stack) \cup ToSet(walker'.todo) \subseteq AncestryOf(walker'.newShards)
  <2>1. b \in AncestryOf(walker.newShards)
    BY <1>3, <1>7
  <2>2. PICK n \in walker.newShards : b \in Ancestry(n)
    BY <2>1 DEF AncestryOf
  <2>3. behind[b] \subseteq AncestryOf(walker.newShards)
    BY <1>1, <1>2, <1>3, <2>2, ChainFacts DEF AncestryOf, Ancestry
  <2>4. QED
    BY <1>3, <1>4, <1>5, <1>6, <1>7, <2>1, <2>3
<1>9. Linear(b) => b \notin past
  <2>1. SUFFICES ASSUME Linear(b), b \in past PROVE FALSE
    OBVIOUS
  <2>2. PICK w \in workchain : b \in Ancestry(w)
    BY <2>1 DEF past, AncestryOf
  <2>3. b \notin behind[w] /\ b \in ToSet(todo)
    BY <1>3, <1>7, <2>1
  <2>4. b = w
    BY <2>2, <2>3 DEF Ancestry
  <2>5. b.seqno \in Nat
    BY <1>1, <1>3, ChainFacts
  <2>6. \A r \in workchain : r.shard = b.shard => ~(r.seqno >= b.seqno)
    BY DEF Known
  <2>7. QED
    BY <2>2, <2>4, <2>5, <2>6
<1>10. b \in Ancestry(todo[1]) /\ (Linear(b) => b \notin sent \cup ToSet(stack))
  <2>1. b \in Ancestry(todo[1])
    BY <1>3 DEF Ancestry
  <2>2. QED
    BY <1>3, <1>7, <1>9, <2>1
<1>11. ASSUME NEW i \in DOMAIN walker'.todo, NEW x \in Ancestry(walker'.todo[i]), x \notin past,
              Linear(x)
       PROVE  /\ x \notin sent \cup ToSet(walker'.stack)
              /\ \A j \in DOMAIN walker'.todo : x \in Ancestry(walker'.todo[j]) => i = j
  <2>1. ASSUME NEW k \in DOMAIN walker'.todo, x \in Ancestry(walker'.todo[k]), k \in 1..Len(q),
               walker'.todo[k] = q[k]
        PROVE  x \in Ancestry(todo[1]) /\ x \in behind[b] /\ x # b
    <3>1. q[k] \in behind[b] /\ q[k] \in DOMAIN chain
      BY <1>4, <2>1
    <3>2. x \in behind[b]
      BY <1>1, <1>3, <2>1, <3>1, ChainFacts
    <3>3. b \notin behind[b]
      BY <1>1, <1>3, ChainFacts
    <3>4. QED
      BY <1>3, <3>2, <3>3 DEF Ancestry
  <2>2. x # b
    <3>1. CASE i \in 1..Len(q) /\ walker'.todo[i] = q[i]
      BY <1>11, <2>1, <3>1
    <3>2. CASE i - Len(q) \in 1..Len(rest) /\ walker'.todo[i] = rest[i - Len(q)]
      <4>1. /\ x \in Ancestry(todo[i - Len(q) + 1])
            /\ i - Len(q) + 1 \in DOMAIN todo /\ i - Len(q) + 1 # 1
        BY <1>3, <1>11, <3>2
      <4>2. x \notin Ancestry(todo[1])
        BY <1>3, <1>7, <1>11, <4>1
      <4>3. QED
        BY <1>10, <4>2
    <3>3. QED
      BY <1>5, <3>1, <3>2
  <2>3. x \notin sent \cup ToSet(stack)
    <3>1. CASE i \in 1..Len(q) /\ walker'.todo[i] = q[i]
      BY <1>3, <1>7, <1>11, <2>1, <3>1
    <3>2. CASE i - Len(q) \in 1..Len(rest) /\ walker'.todo[i] = rest[i - Len(q)]
      BY <1>3, <1>7, <1>11, <3>2
    <3>3. QED
      BY <1>5, <3>1, <3>2
  <2>4. ASSUME NEW j \in DOMAIN walker'.todo, x \in Ancestry(walker'.todo[j]) PROVE i = j
    <3>1. CASE /\ i \in 1..Len(q) /\ walker'.todo[i] = q[i]
               /\ j \in 1..Len(q) /\ walker'.todo[j] = q[j]
      <4>1. q[i] \in ToSet(chain[b]) /\ q[j] \in ToSet(chain[b])
        BY <1>4, <3>1
      <4>2. q[i] = q[j]
        BY <1>1, <1>3, <1>11, <2>4, <3>1, <4>1, OneParent
      <4>3. QED
        BY <1>4, <3>1, <4>2
    <3>2. ASSUME NEW k \in DOMAIN walker'.todo, NEW l \in DOMAIN walker'.todo,
                 x \in Ancestry(walker'.todo[k]), x \in Ancestry(walker'.todo[l]),
                 k \in 1..Len(q), walker'.todo[k] = q[k],
                 l - Len(q) \in 1..Len(rest), walker'.todo[l] = rest[l - Len(q)]
          PROVE  FALSE
      <4>1. x \in Ancestry(todo[1])
        BY <2>1, <3>2
      <4>2. /\ x \in Ancestry(todo[l - Len(q) + 1])
            /\ l - Len(q) + 1 \in DOMAIN todo /\ l - Len(q) + 1 # 1
        BY <1>3, <3>2
      <4>3. QED
        BY <1>3, <1>7, <1>11, <4>1, <4>2
    <3>3. CASE /\ i - Len(q) \in 1..Len(rest) /\ walker'.todo[i] = rest[i - Len(q)]
               /\ j - Len(q) \in 1..Len(rest) /\ walker'.todo[j] = rest[j - Len(q)]
      <4>1. /\ x \in Ancestry(todo[i - Len(q) + 1]) /\ i - Len(q) + 1 \in DOMAIN todo
            /\ x \in Ancestry(todo[j - Len(q) + 1]) /\ j - Len(q) + 1 \in DOMAIN todo
        BY <1>3, <1>11, <2>4, <3>3
      <4>2. i - Len(q) + 1 = j - Len(q) + 1
        BY <1>7, <1>11, <4>1
      <4>3. QED
        BY <1>4, <1>5, <4>2
    <3>4. QED
      BY <1>5, <1>11, <2>4, <3>1, <3>2, <3>3
  <2>5. QED
    BY <1>6, <2>2, <2>3, <2>4
<1>12. ASSUME NEW t \in ToSet(walker'.todo), NEW w \in workchain, Linear(t), t \in behind[w]
       PROVE  FALSE
  <2>1. CASE t \in ToSet(rest)
    BY <1>3, <1>7, <1>12, <2>1
  <2>2. CASE t \in ToSet(q)
    <3>1. t \in ToSet(chain[b]) /\ t \in DOMAIN chain /\ t \in behind[b]
      BY <1>4, <2>2
    <3>2. PICK c \in Ancestry(w) : t \in ToSet(chain[c])
      BY <1>1, <1>2, <1>12 DEF ChainInv, ChainOrdered
    <3>3. c \in DOMAIN chain
      BY <1>1, <1>2, ChainFacts
    <3>4. c = b
      BY <1>1, <1>3, <1>12, <3>1, <3>2, <3>3, LinearFacts
    <3>5. b \in past
      BY <3>2, <3>4 DEF past, AncestryOf
    <3>6. Linear(b)
      BY <1>1, <1>3, <1>12, <3>1, LinearFacts DEF Ancestry
    <3>7. QED
      BY <1>9, <3>5, <3>6
  <2>3. QED
    BY <1>5, <2>1, <2>2
<1>13. ASSUME NEW i \in DOMAIN walker'.stack, NEW j \in DOMAIN walker'.stack,
              Linear(walker'.stack[i])
       PROVE  walker'.stack[i] \notin sent /\ (walker'.stack[i] = walker'.stack[j] => i = j)
  <2>1. \A k \in DOMAIN walker'.stack : k \in DOMAIN stack \/ k = Len(stack) + 1
    BY <1>6
  <2>2. \A k \in DOMAIN stack : Linear(stack[k]) => stack[k] # b
    BY <1>6, <1>10
  <2>3. QED
    BY <1>6, <1>7, <1>10, <1>13, <2>1, <2>2
<1>14. MetOnce'
  <2>1. /\ \A y : Ancestry(y)' = Ancestry(y) /\ (Linear(y)' <=> Linear(y))
        /\ behind' = behind /\ AncestryOf(workchain)' = past
    BY SameNetwork DEF past
  <2>2. ToSet(walker.todo)' = ToSet(walker'.todo) /\ ToSet(walker.stack)' = ToSet(walker'.stack)
    BY DEF ToSet
  <2>3. QED
    BY <1>11, <1>12, <1>13, <2>1, <2>2 DEF MetOnce
<1>15. QED
  BY <1>8, <1>14

Once == MastersInOrder /\ MetOnce /\ RepeatedBySplitOnly

LEMMA RepeatedSame ==
    ASSUME RepeatedBySplitOnly, ~rewalked, UNCHANGED network,
           \A b \in repeated' : b \in repeated \/ ~Linear(b)
    PROVE  RepeatedBySplitOnly'
<1>1. AncestryOf(Splits)' = AncestryOf(Splits)
  BY SameNetwork
<1>2. QED
  BY <1>1 DEF RepeatedBySplitOnly, Linear

(* A block sent for the first time is not repeated.                          *)
LEMMA SentOnce ==
    ASSUME NEW b, Send(b)
    PROVE  /\ sent' = sent \cup {b} /\ repeated' \subseteq repeated \cup {b}
           /\ b \notin sent => repeated' = repeated
  BY DEF Send

LEMMA OnceNetwork == OnceInv /\ ~rewalked /\ Network => Once'
<1> SUFFICES ASSUME OnceInv, ~rewalked, Network PROVE Once'
  OBVIOUS
<1>1. /\ ChainInv /\ TypeOK /\ MastersInOrder /\ MetOnce /\ RepeatedBySplitOnly
      /\ ChainInv' /\ BlocksKept
  BY NetworkKeeps DEF OnceInv, RecordInv, ChainInv
<1>2. UNCHANGED <<poller, posted, walker, workchain, worker, history, faults>>
  BY DEF Network, Grow, Split, Merge, Build
<1>3. /\ posted \subseteq DOMAIN chain /\ walker.tips \subseteq DOMAIN chain
      /\ walker.newShards \subseteq DOMAIN chain /\ workchain \subseteq DOMAIN chain
      /\ sent \subseteq DOMAIN chain /\ repeated \subseteq DOMAIN chain
      /\ walker.todo \in Seq(DOMAIN chain) /\ walker.stack \in Seq(DOMAIN chain)
      /\ Handled \subseteq DOMAIN chain
  BY <1>1, WalkerType DEF Handled
<1>4. /\ ToSet(walker.todo) \subseteq DOMAIN chain /\ ToSet(walker.stack) \subseteq DOMAIN chain
      /\ \A i \in DOMAIN walker.todo : walker.todo[i] \in DOMAIN chain
      /\ \A i \in DOMAIN walker.stack : walker.stack[i] \in DOMAIN chain
  BY <1>3, ToSetIn
<1>5. \A S \in SUBSET DOMAIN chain :
        AncestryOf(S)' = AncestryOf(S) /\ (Antichain(S) => Antichain(S)')
  BY <1>1 DEF BlocksKept, AncestryOf, Antichain
<1>6. /\ ToSet(walker.stack)' = ToSet(walker.stack) /\ ToSet(walker.todo)' = ToSet(walker.todo)
      /\ Handled' = Handled
  BY <1>2 DEF ToSet, Handled
<1>7. MastersInOrder'
  <2>1. /\ walker.tips \cup Handled \in SUBSET DOMAIN chain
        /\ workchain \cup walker.newShards \in SUBSET DOMAIN chain
    BY <1>3
  <2>2. /\ AncestryOf(posted)' = AncestryOf(posted)
        /\ AncestryOf(walker.tips \cup Handled)' = AncestryOf(walker.tips \cup Handled)
        /\ AncestryOf(workchain \cup walker.newShards)' = AncestryOf(workchain \cup walker.newShards)
        /\ AncestryOf(walker.newShards)' = AncestryOf(walker.newShards)
        /\ Antichain(walker.tips \cup Handled) => Antichain(walker.tips \cup Handled)'
    BY <1>2, <1>3, <1>5, <1>6, <2>1
  <2>3. QED
    BY <1>1, <1>2, <1>6, <2>2 DEF MastersInOrder, history
<1>8. \A x \in DOMAIN chain : Linear(x)' => Linear(x)
  BY <1>1 DEF BlocksKept
<1>9. MetOnce'
  <2>1. AncestryOf(workchain)' = AncestryOf(workchain)
    BY <1>2, <1>3, <1>5
  <2>2. \A i \in DOMAIN walker.todo :
            /\ Ancestry(walker.todo[i])' = Ancestry(walker.todo[i])
            /\ Ancestry(walker.todo[i]) \subseteq DOMAIN chain
    BY <1>1, <1>2, <1>4, ChainFacts DEF BlocksKept
  <2>3. \A b \in workchain : behind'[b] = behind[b]
    BY <1>1, <1>3 DEF BlocksKept
  <2>4. ASSUME NEW i \in DOMAIN walker.todo, NEW j \in DOMAIN walker.todo,
               NEW x \in Ancestry(walker.todo[i]) \ AncestryOf(workchain), Linear(x)'
        PROVE  /\ x \notin sent \cup ToSet(walker.stack)
               /\ x \in Ancestry(walker.todo[j]) => i = j
    <3>1. Linear(x)
      BY <1>8, <2>2, <2>4
    <3>2. QED
      BY <1>1, <2>4, <3>1 DEF MetOnce
  <2>5. \A t \in ToSet(walker.todo), b \in workchain : Linear(t)' => t \notin behind[b]
    BY <1>1, <1>4, <1>8 DEF MetOnce
  <2>6. \A i, j \in DOMAIN walker.stack : Linear(walker.stack[i])' =>
            /\ walker.stack[i] \notin sent
            /\ walker.stack[i] = walker.stack[j] => i = j
    <3>1. \A i \in DOMAIN walker.stack : Linear(walker.stack[i])' => Linear(walker.stack[i])
      BY <1>1, <1>2, <1>4 DEF BlocksKept
    <3>2. QED
      BY <1>1, <3>1 DEF MetOnce
  <2>7. QED
    BY <1>2, <1>6, <2>1, <2>2, <2>3, <2>4, <2>5, <2>6 DEF MetOnce, history
<1>10. RepeatedBySplitOnly'
  <2>1. \A b \in repeated : ~Linear(b) /\ ~Linear(b)'
    BY <1>1, <1>3, <1>8 DEF RepeatedBySplitOnly, Linear
  <2>2. QED
    BY <1>2, <2>1 DEF RepeatedBySplitOnly, Linear, history
<1>11. QED
  BY <1>7, <1>9, <1>10 DEF Once

(* What the induction on the steps of the observer starts from.              *)
LEMMA OnceFacts ==
    ASSUME OnceInv, ~rewalked
    PROVE  /\ RecordInv /\ ChainInv /\ TypeOK /\ MastersInOrder /\ MetOnce /\ RepeatedBySplitOnly
           /\ posted \subseteq DOMAIN chain /\ walker.tips \subseteq DOMAIN chain
           /\ walker.newShards \subseteq DOMAIN chain /\ workchain \subseteq DOMAIN chain
           /\ sent \subseteq DOMAIN chain
           /\ walker.todo \in Seq(DOMAIN chain) /\ walker.stack \in Seq(DOMAIN chain)
           /\ walker.pc # "first" => Handled = walker.newShards
           /\ walker.pc = "first" => Handled = workchain
           /\ walker.pc \in {"idle", "shards", "first"} => walker.newShards = {}
           /\ walker.pc = "idle" => walker.tips = {}
<1>1. RecordInv /\ ChainInv /\ TypeOK /\ MastersInOrder /\ MetOnce /\ RepeatedBySplitOnly
  BY DEF OnceInv, RecordInv, ChainInv
<1>2. WalkerAtRest
  BY <1>1 DEF RecordInv
<1>3. QED
  BY <1>1, <1>2, WalkerType DEF Handled, WalkerAtRest

LEMMA OncePoll == OnceInv /\ ~rewalked /\ Poll => Once'
<1> SUFFICES ASSUME OnceInv, ~rewalked, Poll PROVE Once'
  OBVIOUS
<1>1. /\ RecordInv /\ ChainInv /\ TypeOK /\ MastersInOrder /\ MetOnce /\ RepeatedBySplitOnly
      /\ posted \subseteq DOMAIN chain /\ walker.tips \subseteq DOMAIN chain
      /\ walker.newShards \subseteq DOMAIN chain /\ workchain \subseteq DOMAIN chain
  BY OnceFacts
<1>2. /\ UNCHANGED <<network, workchain, history>>
      /\ \A b : Ancestry(b)' = Ancestry(b) /\ (Linear(b)' <=> Linear(b))
      /\ \A S : AncestryOf(S)' = AncestryOf(S)
      /\ behind' = behind
  <2>1. UNCHANGED <<network, workchain, history>>
    BY DEF Poll, StartMasterObserver, GetMasterchainInfo, HandOver
  <2>2. QED
    BY <2>1, SameNetwork
<1>3. RepeatedBySplitOnly'
  BY <1>1, <1>2, RepeatedSame DEF history
<1>4. CASE UNCHANGED walker /\ (poller' = "post" => posted' = Tips(chain))
  <2>1. Handled' = Handled
    BY <1>2, <1>4 DEF Handled
  <2>2. poller' = "post" => workchain' \cup walker'.tips \cup Handled' \subseteq AncestryOf(posted')
    <3>1. DOMAIN chain \subseteq AncestryOf(Tips(chain))
      BY <1>1 DEF ChainInv, TipsCover
    <3>2. Handled \subseteq DOMAIN chain
      BY <1>1 DEF Handled
    <3>3. QED
      BY <1>1, <1>2, <1>4, <2>1, <3>1, <3>2
  <2>3. MastersInOrder'
    BY <1>1, <1>2, <1>4, <2>1, <2>2, OrderKept DEF MastersInOrder, history
  <2>4. MetOnce'
    <3>1. ToSet(walker.stack)' = ToSet(walker.stack) /\ ToSet(walker.todo)' = ToSet(walker.todo)
      BY <1>4 DEF ToSet
    <3>2. AncestryOf(workchain)' = AncestryOf(workchain)
      BY <1>2
    <3>3. QED
      BY <1>1, <1>2, <1>4, <3>1, <3>2 DEF MetOnce, history
  <2>5. QED
    BY <1>3, <2>3, <2>4 DEF Once
<1>5. CASE HandOver
  <2>1. /\ poller = "post" /\ walker.pc = "idle" /\ poller' = "poll"
        /\ walker'.pc = "shards" /\ walker'.tips = posted /\ walker'.newShards = {}
        /\ walker'.todo = << >> /\ walker'.stack = << >>
    BY <1>5 DEF HandOver, Idle
  <2>2. /\ Handled' = {} /\ walker.newShards = {}
        /\ ToSet(walker'.todo) = {} /\ ToSet(walker'.stack) = {}
    BY <2>1, OnceFacts, ToSetNone DEF Handled
  <2>3. MetOnce'
    BY <2>1, NothingToMeet
  <2>4. Antichain(walker'.tips \cup Handled')
    <3>1. Antichain(posted) /\ walker'.tips \cup Handled' = posted
      BY <1>1, <2>1, <2>2 DEF RecordInv
    <3>2. QED
      BY <3>1
  <2>5. workchain' \subseteq AncestryOf(walker'.tips \cup Handled')
    <3>1. workchain \subseteq AncestryOf(posted) /\ walker'.tips \cup Handled' = posted
      BY <1>1, <2>1, <2>2 DEF MastersInOrder
    <3>2. QED
      BY <1>2, <3>1
  <2>6. sent' \subseteq AncestryOf(workchain' \cup walker'.newShards)
    BY <1>1, <1>2, <2>1, <2>2 DEF MastersInOrder, history
  <2>7. QED
    BY <1>2, <1>3, <2>1, <2>2, <2>3, <2>4, <2>5, <2>6, OrderKept DEF Once
<1>6. QED
  BY <1>4, <1>5 DEF Poll, StartMasterObserver, GetMasterchainInfo

LEMMA OnceShardsInfo == OnceInv /\ ~rewalked /\ GetBlockShardsInfo => Once'
<1> SUFFICES ASSUME OnceInv, ~rewalked, GetBlockShardsInfo PROVE Once'
  OBVIOUS
<1>1. /\ RecordInv /\ ChainInv /\ TypeOK /\ MastersInOrder /\ MetOnce /\ RepeatedBySplitOnly
  BY OnceFacts
<1>2. /\ UNCHANGED <<network, poller, posted, workchain, sent, repeated>> /\ walker.pc = "shards"
      /\ walker.newShards = {} /\ walker.todo = << >> /\ walker.stack = << >> /\ Handled = {}
  BY OnceFacts, RestInv DEF GetBlockShardsInfo
<1>3. RepeatedBySplitOnly'
  BY <1>1, <1>2, RepeatedSame
<1>4. CASE walker' = Idle
  <2>1. /\ walker'.tips = {} /\ walker'.newShards = {} /\ walker'.pc = "idle"
        /\ walker'.todo = << >> /\ walker'.stack = << >>
    BY <1>4 DEF Idle
  <2>2. Handled' = {} /\ ToSet(walker'.todo) = {} /\ ToSet(walker'.stack) = {}
    BY <2>1, ToSetNone DEF Handled
  <2>3. Antichain(walker'.tips \cup Handled')
    BY <2>1, <2>2 DEF Antichain
  <2>4. MastersInOrder'
    BY <1>1, <1>2, <2>1, <2>2, <2>3, OrderKept DEF MastersInOrder
  <2>5. QED
    BY <1>3, <2>1, <2>4, NothingToMeet DEF Once
<1>5. ASSUME NEW pc \in {"first", "walk"}, walker' = [walker EXCEPT !.pc = pc],
             pc = "first" => workchain = {}
      PROVE  Once'
  <2>1. /\ walker'.pc = pc /\ walker'.tips = walker.tips /\ walker'.newShards = {}
        /\ walker'.todo = << >> /\ walker'.stack = << >>
    BY <1>1, <1>2, <1>5, WalkerType DEF WalkerState
  <2>2. Handled' = {} /\ ToSet(walker'.todo) = {} /\ ToSet(walker'.stack) = {}
    BY <1>2, <1>5, <2>1, ToSetNone DEF Handled
  <2>3. Antichain(walker'.tips \cup Handled')
    BY <1>1, <1>2, <2>1, <2>2 DEF MastersInOrder
  <2>4. MastersInOrder'
    BY <1>1, <1>2, <2>1, <2>2, <2>3, OrderKept DEF MastersInOrder
  <2>5. QED
    BY <1>3, <2>1, <2>4, NothingToMeet DEF Once
<1>6. QED
  BY <1>4, <1>5 DEF GetBlockShardsInfo

(* A tip that is handled was not sent, nor is a recorded block behind it     *)
(* lost.                                                                     *)
LEMMA NewTip ==
    ASSUME OnceInv, ~rewalked, NEW tip \in walker.tips
    PROVE  /\ tip \in DOMAIN chain /\ tip \notin Handled
           /\ Record(Handled, tip) = Handled \cup {tip}
           /\ (walker.tips \ {tip}) \cup (Handled \cup {tip}) = walker.tips \cup Handled
           /\ (walker.tips \ {tip}) \cap (Handled \cup {tip}) = {}
           /\ \A h \in Handled : tip \notin Ancestry(h) /\ h \notin Ancestry(tip)
<1>1. /\ ChainInv /\ MastersInOrder /\ tip \in DOMAIN chain
      /\ walker.newShards \subseteq DOMAIN chain /\ workchain \subseteq DOMAIN chain
  BY OnceFacts
<1>2. /\ Antichain(walker.tips \cup Handled) /\ walker.tips \cap Handled = {}
      /\ Handled \subseteq DOMAIN chain
  BY <1>1 DEF MastersInOrder, Handled
<1>3. Record(Handled, tip) = Handled \cup {tip}
  <2>1. Antichain(Handled \cup {tip})
    BY <1>2 DEF Antichain
  <2>2. QED
    BY <1>1, <1>2, <2>1, RecordAdds
<1>4. \A h \in Handled : tip \notin Ancestry(h) /\ h \notin Ancestry(tip)
  BY <1>2 DEF Antichain, Ancestry
<1>5. QED
  BY <1>1, <1>2, <1>3, <1>4

LEMMA OnceRecordFirst == OnceInv /\ ~rewalked /\ RecordFirst => Once'
<1> SUFFICES ASSUME OnceInv, ~rewalked, RecordFirst PROVE Once'
  OBVIOUS
<1>1. /\ RecordInv /\ ChainInv /\ TypeOK /\ MastersInOrder /\ MetOnce /\ RepeatedBySplitOnly
  BY OnceFacts
<1>2. /\ UNCHANGED <<network, poller, posted>> /\ walker.pc = "first"
      /\ walker.newShards = {} /\ walker.todo = << >> /\ walker.stack = << >>
      /\ Handled = workchain
  BY OnceFacts, RestInv DEF RecordFirst
<1>3. CASE walker.tips = {} /\ walker' = Idle /\ UNCHANGED <<workchain, sent, repeated>>
  <2>1. /\ walker'.tips = {} /\ walker'.newShards = {} /\ walker'.pc = "idle"
        /\ walker'.todo = << >> /\ walker'.stack = << >>
    BY <1>3 DEF Idle
  <2>2. Handled' = {} /\ ToSet(walker'.todo) = {} /\ ToSet(walker'.stack) = {}
    BY <2>1, ToSetNone DEF Handled
  <2>3. Antichain(walker'.tips \cup Handled')
    BY <2>1, <2>2 DEF Antichain
  <2>4. MastersInOrder'
    BY <1>1, <1>2, <1>3, <2>1, <2>2, <2>3, OrderKept DEF MastersInOrder
  <2>5. RepeatedBySplitOnly'
    BY <1>1, <1>2, <1>3, RepeatedSame
  <2>6. QED
    BY <2>1, <2>4, <2>5, NothingToMeet DEF Once
<1>4. ASSUME NEW b \in walker.tips, workchain' = Record(workchain, b),
             walker' = [walker EXCEPT !.tips = @ \ {b}], Send(b)
      PROVE  Once'
  <2>1. /\ walker'.pc = "first" /\ walker'.tips = walker.tips \ {b} /\ walker'.newShards = {}
        /\ walker'.todo = << >> /\ walker'.stack = << >>
    BY <1>1, <1>2, <1>4, WalkerType DEF WalkerState
  <2>2. workchain' = workchain \cup {b} /\ Handled' = Handled \cup {b}
    BY <1>2, <1>4, <2>1, NewTip DEF Handled
  <2>3. /\ walker'.tips \cup Handled' = walker.tips \cup Handled
        /\ walker'.tips \cap Handled' = {}
    BY <2>1, <2>2, NewTip
  <2>4. b \notin sent
    <3>1. sent \subseteq AncestryOf(workchain \cup {})
      BY <1>1, <1>2 DEF MastersInOrder
    <3>2. \A h \in workchain : b \notin Ancestry(h)
      BY <1>2, NewTip
    <3>3. QED
      BY <3>1, <3>2 DEF AncestryOf
  <2>5. sent' = sent \cup {b} /\ repeated' = repeated
    BY <1>4, <2>4, SentOnce
  <2>6. sent' \subseteq AncestryOf(workchain' \cup walker'.newShards)
    <3>1. AncestryOf(workchain) \subseteq AncestryOf(workchain \cup {b})
      BY AncestryGrows
    <3>2. workchain \cup {b} \subseteq AncestryOf(workchain \cup {b})
      BY InAncestry
    <3>3. sent \subseteq AncestryOf(workchain)
      <4>1. workchain \cup walker.newShards = workchain
        BY <1>2
      <4>2. QED
        BY <1>1, <4>1 DEF MastersInOrder
    <3>4. workchain' \cup walker'.newShards = workchain \cup {b}
      BY <2>1, <2>2
    <3>5. QED
      BY <2>5, <3>1, <3>2, <3>3, <3>4
  <2>7. workchain' \subseteq AncestryOf(walker'.tips \cup Handled')
    BY <1>2, <2>2, InAncestry
  <2>8. poller' = "post" => workchain' \cup walker'.tips \cup Handled' \subseteq AncestryOf(posted')
    <3>1. workchain' \cup walker'.tips \cup Handled' = workchain \cup walker.tips \cup Handled
      BY <1>2, <2>2, <2>3
    <3>2. QED
      BY <1>1, <1>2, <3>1 DEF MastersInOrder
  <2>9. Antichain(walker'.tips \cup Handled')
    BY <1>1, <2>3 DEF MastersInOrder
  <2>10. ToSet(walker'.todo) = {} /\ ToSet(walker'.stack) = {}
    BY <2>1, ToSetNone
  <2>11. MastersInOrder'
    BY <1>2, <2>3, <2>6, <2>7, <2>8, <2>9, <2>10, OrderKept
  <2>12. RepeatedBySplitOnly'
    BY <1>1, <1>2, <2>5, RepeatedSame
  <2>13. QED
    BY <2>1, <2>11, <2>12, NothingToMeet DEF Once
<1>5. QED
  BY <1>3, <1>4 DEF RecordFirst

LEMMA OnceNextShard == OnceInv /\ ~rewalked' /\ ~rewalked /\ NextShard => Once'
<1> SUFFICES ASSUME OnceInv, ~rewalked', ~rewalked, NextShard PROVE Once'
  OBVIOUS
<1>1. /\ RecordInv /\ ChainInv /\ TypeOK /\ MastersInOrder /\ MetOnce /\ RepeatedBySplitOnly
      /\ workchain \subseteq DOMAIN chain /\ walker.tips \subseteq DOMAIN chain
      /\ walker.newShards \subseteq DOMAIN chain
  BY OnceFacts
<1>2. /\ UNCHANGED <<network, poller, posted, workchain, sent, repeated>> /\ walker.pc = "walk"
      /\ walker.todo = << >> /\ walker.stack = << >> /\ Handled = walker.newShards
  BY OnceFacts, RestInv DEF NextShard
<1>3. PICK tip \in walker.tips :
        walker' = [walker EXCEPT !.pc = "send", !.tips = @ \ {tip},
                                 !.newShards = Record(@, tip), !.todo = <<tip>>]
  BY DEF NextShard
<1>4. /\ walker'.pc = "send" /\ walker'.tips = walker.tips \ {tip}
      /\ walker'.newShards = Record(walker.newShards, tip)
      /\ walker'.todo = <<tip>> /\ walker'.stack = << >>
  BY <1>1, <1>2, <1>3, WalkerType DEF WalkerState
<1>5. /\ walker'.newShards = walker.newShards \cup {tip} /\ Handled' = walker.newShards \cup {tip}
      /\ tip \in DOMAIN chain
  BY <1>2, <1>4, NewTip DEF Handled
<1>6. /\ walker'.tips \cup Handled' = walker.tips \cup Handled
      /\ walker'.tips \cap Handled' = {}
  BY <1>2, <1>4, <1>5, NewTip
<1>7. /\ ToSet(walker'.todo) = {tip} /\ ToSet(walker'.stack) = {} /\ DOMAIN walker'.stack = {}
      /\ Len(walker'.todo) = 1 /\ walker'.todo[1] = tip /\ DOMAIN walker'.todo = {1}
  <2>1. DOMAIN <<tip>> = {1}
    OBVIOUS
  <2>2. QED
    BY <1>4, <2>1, ToSetOne, ToSetNone
<1>8. MastersInOrder'
  <2>1. Antichain(walker'.tips \cup Handled')
    BY <1>1, <1>6 DEF MastersInOrder
  <2>2. poller' = "post" => workchain' \cup walker'.tips \cup Handled' \subseteq AncestryOf(posted')
    BY <1>1, <1>2, <1>6 DEF MastersInOrder
  <2>3. workchain' \subseteq AncestryOf(walker'.tips \cup Handled')
    BY <1>1, <1>2, <1>6 DEF MastersInOrder
  <2>4. sent' \subseteq AncestryOf(workchain' \cup walker'.newShards)
    <3>1. workchain \cup walker.newShards \subseteq workchain' \cup walker'.newShards
      BY <1>2, <1>5
    <3>2. AncestryOf(workchain \cup walker.newShards) \subseteq AncestryOf(workchain' \cup walker'.newShards)
      BY <3>1, AncestryGrows
    <3>3. QED
      BY <1>1, <1>2, <3>2 DEF MastersInOrder
  <2>5. ToSet(walker'.stack) \cup ToSet(walker'.todo) \subseteq AncestryOf(walker'.newShards)
    BY <1>5, <1>7, InAncestry
  <2>6. QED
    BY <1>2, <1>6, <2>1, <2>2, <2>3, <2>4, <2>5, OrderKept
<1>9. MetOnce'
  <2>1. ASSUME NEW x \in Ancestry(tip), x \notin AncestryOf(workchain), Linear(x)
        PROVE  x \notin sent
    <3>1. SUFFICES ASSUME x \in sent PROVE FALSE
      OBVIOUS
    <3>2. x \in AncestryOf(workchain \cup walker.newShards)
      BY <1>1, <3>1 DEF MastersInOrder
    <3>3. PICK n \in walker.newShards : x \in Ancestry(n)
      BY <2>1, <3>2 DEF AncestryOf
    <3>4. tip \in Ancestry(n) \/ n \in Ancestry(tip)
      BY <1>1, <1>5, <2>1, <3>3 DEF ChainInv, LinearAhead
    <3>5. QED
      BY <1>2, <3>4, NewTip
  <2>2. ASSUME NEW b \in workchain, tip \in behind[b] PROVE FALSE
    <3>1. PICK u \in walker.tips \cup Handled : b \in Ancestry(u)
      BY <1>1, <1>2 DEF MastersInOrder, AncestryOf
    <3>2. u \in DOMAIN chain
      BY <1>1, <1>2, <3>1
    <3>3. tip \in behind[u]
      BY <1>1, <1>5, <2>2, <3>1, <3>2, ChainFacts DEF Ancestry
    <3>4. QED
      BY <1>1, <3>1, <3>3 DEF MastersInOrder, Antichain
  <2>3. /\ \A b : Ancestry(b)' = Ancestry(b) /\ (Linear(b)' <=> Linear(b))
        /\ AncestryOf(workchain)' = AncestryOf(workchain) /\ behind' = behind
    BY <1>2, SameNetwork
  <2>4. ToSet(walker.stack)' = {} /\ ToSet(walker.todo)' = {tip}
    BY <1>7 DEF ToSet
  <2>5. QED
    BY <1>2, <1>7, <2>1, <2>2, <2>3, <2>4 DEF MetOnce
<1>10. RepeatedBySplitOnly'
  BY <1>1, <1>2, RepeatedSame
<1>11. QED
  BY <1>8, <1>9, <1>10 DEF Once

LEMMA OnceHandleShardBlock == OnceInv /\ ~rewalked /\ HandleShardBlock => Once'
<1> SUFFICES ASSUME OnceInv, ~rewalked, HandleShardBlock PROVE Once'
  OBVIOUS
<1>1. /\ RecordInv /\ ChainInv /\ TypeOK /\ MastersInOrder /\ MetOnce /\ RepeatedBySplitOnly
      /\ walker.todo \in Seq(DOMAIN chain) /\ walker.stack \in Seq(DOMAIN chain)
  BY OnceFacts
<1>2. /\ UNCHANGED <<network, poller, posted, workchain, sent, repeated>> /\ walker.pc = "send"
      /\ walker.todo # << >>
  BY DEF HandleShardBlock
<1> DEFINE b == Head(walker.todo)
           rest == Tail(walker.todo)
<1>3. /\ b \in DOMAIN chain /\ rest \in Seq(DOMAIN chain)
      /\ ToSet(walker.todo) = {b} \cup ToSet(rest)
      /\ \A i \in 1..Len(rest) : rest[i] = walker.todo[i + 1] /\ i + 1 \in 1..Len(walker.todo)
  BY <1>1, <1>2, HeadAndTail
<1>4. RepeatedBySplitOnly'
  BY <1>1, <1>2, RepeatedSame
<1>5. ASSUME walker'.pc = "send", walker'.tips = walker.tips,
             walker'.newShards = walker.newShards,
             ToSet(walker'.stack) \cup ToSet(walker'.todo) \subseteq AncestryOf(walker'.newShards)
      PROVE  MastersInOrder'
  <2>1. Handled' = Handled
    BY <1>2, <1>5 DEF Handled
  <2>2. QED
    BY <1>1, <1>2, <1>5, <2>1, OrderKept DEF MastersInOrder
<1> HIDE DEF b, rest
<1>6. ASSUME NEW q \in Seq(ToSet(chain[b])), \A i, j \in DOMAIN q : q[i] = q[j] => i = j,
             ~Known(b), walker' = [walker EXCEPT !.todo = q \o rest, !.stack = Append(@, b)]
      PROVE  Once'
  <2>1. /\ walker'.pc = "send" /\ walker'.tips = walker.tips
        /\ walker'.newShards = walker.newShards
        /\ walker'.todo = q \o rest /\ walker'.stack = Append(walker.stack, b)
    BY <1>1, <1>2, <1>6, WalkerType DEF WalkerState
  <2>2. /\ MetOnce'
        /\ ToSet(walker'.stack) \cup ToSet(walker'.todo) \subseteq AncestryOf(walker'.newShards)
    <3>1. walker'.todo = q \o Tail(walker.todo) /\ b = Head(walker.todo)
      BY <2>1 DEF b, rest
    <3>2. QED
      BY <1>2, <1>6, <2>1, <3>1, PushedOnce
  <2>3. QED
    BY <1>4, <1>5, <2>1, <2>2 DEF Once
<1>7. CASE Known(b) /\ walker' = [walker EXCEPT !.todo = rest]
  <2>1. /\ walker'.pc = "send" /\ walker'.tips = walker.tips
        /\ walker'.newShards = walker.newShards
        /\ walker'.todo = rest /\ walker'.stack = walker.stack
    BY <1>1, <1>2, <1>7, WalkerType DEF WalkerState
  <2>2. ToSet(walker'.stack) \cup ToSet(walker'.todo) \subseteq AncestryOf(walker'.newShards)
    BY <1>1, <1>3, <2>1 DEF MastersInOrder
  <2>3. MetOnce'
    <3>1. /\ \A y : Ancestry(y)' = Ancestry(y) /\ (Linear(y)' <=> Linear(y))
          /\ AncestryOf(workchain)' = AncestryOf(workchain) /\ behind' = behind
      BY <1>2, SameNetwork
    <3>2. ToSet(walker.stack)' = ToSet(walker.stack) /\ ToSet(walker.todo)' = ToSet(rest)
      BY <2>1 DEF ToSet
    <3>3. /\ DOMAIN rest = 1..Len(rest)
          /\ \A i \in DOMAIN rest : rest[i] = walker.todo[i + 1] /\ i + 1 \in DOMAIN walker.todo
          /\ \A i, j \in DOMAIN rest : i + 1 = j + 1 => i = j
      <4>1. DOMAIN rest = 1..Len(rest) /\ DOMAIN walker.todo = 1..Len(walker.todo)
        BY <1>1, <1>3, ToSetIn
      <4>2. QED
        BY <1>3, <4>1
    <3>4. ASSUME NEW i \in DOMAIN rest, NEW j \in DOMAIN rest,
                 NEW x \in Ancestry(rest[i]) \ AncestryOf(workchain), Linear(x)
          PROVE  /\ x \notin sent \cup ToSet(walker.stack)
                 /\ x \in Ancestry(rest[j]) => i = j
      <4>1. /\ i + 1 \in DOMAIN walker.todo /\ j + 1 \in DOMAIN walker.todo
            /\ rest[i] = walker.todo[i + 1] /\ rest[j] = walker.todo[j + 1]
        BY <3>3
      <4>2. /\ x \notin sent \cup ToSet(walker.stack)
            /\ x \in Ancestry(rest[j]) => i + 1 = j + 1
        BY <1>1, <3>4, <4>1 DEF MetOnce
      <4>3. QED
        BY <3>3, <4>2
    <3>5. \A t \in ToSet(rest), r \in workchain : Linear(t) => t \notin behind[r]
      BY <1>1, <1>3 DEF MetOnce
    <3>6. \A i, j \in DOMAIN walker.stack : Linear(walker.stack[i]) =>
            walker.stack[i] \notin sent /\ (walker.stack[i] = walker.stack[j] => i = j)
      BY <1>1 DEF MetOnce
    <3>7. QED
      BY <1>2, <2>1, <3>1, <3>2, <3>4, <3>5, <3>6 DEF MetOnce
  <2>4. QED
    BY <1>4, <1>5, <2>1, <2>2, <2>3 DEF Once
<1>8. CASE ~Known(b) /\ walker' = [walker EXCEPT !.todo = chain[b] \o rest, !.stack = Append(@, b)]
  <2>1. chain[b] \in Seq(ToSet(chain[b]))
    <3>1. chain[b] \in Seq(DOMAIN chain)
      BY <1>1, <1>3 DEF TypeOK
    <3>2. \A i \in 1..Len(chain[b]) : chain[b][i] \in ToSet(chain[b])
      BY <3>1, ToSetIn
    <3>3. QED
      BY <3>1, <3>2
  <2>2. \A i, j \in DOMAIN chain[b] : chain[b][i] = chain[b][j] => i = j
    BY <1>1, <1>3 DEF ChainInv, ChainOrdered
  <2>3. QED
    BY <1>6, <1>8, <2>1, <2>2
<1>9. CASE ~Known(b) /\ walker' = [walker EXCEPT !.todo = rest, !.stack = Append(@, b)]
  <2> DEFINE none == << >>
  <2>1. /\ none \in Seq(ToSet(chain[b])) /\ none \o rest = rest
        /\ \A i, j \in DOMAIN none : none[i] = none[j] => i = j
    BY <1>3
  <2> HIDE DEF none
  <2>2. QED
    BY <1>6, <1>9, <2>1
<1>10. QED
  BY <1>7, <1>8, <1>9 DEF HandleShardBlock, b, rest

LEMMA OnceSendStack == OnceInv /\ ~rewalked /\ SendStack => Once'
<1> SUFFICES ASSUME OnceInv, ~rewalked, SendStack PROVE Once'
  OBVIOUS
<1> DEFINE stack == walker.stack
<1>1. /\ RecordInv /\ ChainInv /\ TypeOK /\ MastersInOrder /\ MetOnce /\ RepeatedBySplitOnly
      /\ stack \in Seq(DOMAIN chain)
  BY OnceFacts
<1>2. /\ UNCHANGED <<network, poller, posted, workchain>> /\ walker.pc = "send"
      /\ walker.todo = << >> /\ ToSet(walker.todo) = {} /\ DOMAIN walker.todo = {}
  <2>1. walker.todo = << >>
    BY DEF SendStack
  <2>2. DOMAIN walker.todo = {}
    BY <2>1
  <2>3. QED
    BY <2>1, <2>2, ToSetNone DEF SendStack
<1>3. CASE /\ stack # << >> /\ walker' = [walker EXCEPT !.stack = Front(@)] /\ Send(Last(stack))
  <2> DEFINE last == Last(stack)
  <2>1. /\ walker'.pc = "send" /\ walker'.tips = walker.tips /\ walker'.todo = << >>
        /\ walker'.newShards = walker.newShards /\ walker'.stack = Front(stack)
    BY <1>1, <1>2, <1>3, WalkerType DEF WalkerState
  <2>2. sent' = sent \cup {last} /\ repeated' \subseteq repeated \cup {last}
        /\ (last \notin sent => repeated' = repeated)
    BY <1>3, SentOnce
  <2>3. /\ last = stack[Len(stack)] /\ last \in ToSet(stack)
        /\ Front(stack) \in Seq(DOMAIN chain)
        /\ \A i \in 1..Len(Front(stack)) :
              Front(stack)[i] = stack[i] /\ i \in 1..Len(stack) /\ i # Len(stack)
        /\ ToSet(Front(stack)) \subseteq ToSet(stack)
        /\ Len(stack) \in 1..Len(stack)
    BY <1>1, <1>3, Popped
  <2>4. DOMAIN stack = 1..Len(stack) /\ DOMAIN Front(stack) = 1..Len(Front(stack))
    BY <1>1, <2>3, ToSetIn
  <2> HIDE DEF last, stack
  <2>5. /\ ToSet(walker.stack)' = ToSet(Front(stack)) /\ ToSet(walker.todo)' = {}
        /\ ToSet(walker'.stack) = ToSet(Front(stack)) /\ ToSet(walker'.todo) = {}
        /\ DOMAIN walker'.todo = {}
    BY <1>2, <2>1 DEF ToSet
  <2>6. \A i, j \in DOMAIN stack : Linear(stack[i]) =>
            stack[i] \notin sent /\ (stack[i] = stack[j] => i = j)
    BY <1>1 DEF MetOnce, stack
  <2>7. MastersInOrder'
    <3>1. Handled' = Handled
      BY <1>2, <2>1 DEF Handled
    <3>2. /\ ToSet(stack) \subseteq AncestryOf(walker.newShards)
          /\ sent \subseteq AncestryOf(workchain \cup walker.newShards)
      BY <1>1 DEF MastersInOrder, stack
    <3>3. AncestryOf(walker.newShards) \subseteq AncestryOf(workchain \cup walker.newShards)
      BY AncestryGrows
    <3>4. sent' \subseteq AncestryOf(workchain' \cup walker'.newShards)
      BY <1>2, <2>1, <2>2, <2>3, <3>2, <3>3
    <3>5. ToSet(walker'.stack) \cup ToSet(walker'.todo) \subseteq AncestryOf(walker'.newShards)
      BY <2>1, <2>3, <2>5, <3>2
    <3>6. QED
      BY <1>1, <1>2, <2>1, <3>1, <3>4, <3>5, OrderKept DEF MastersInOrder
  <2>8. MetOnce'
    <3>1. \A b : Linear(b)' <=> Linear(b)
      BY <1>2, SameNetwork
    <3>2. \A i \in DOMAIN Front(stack) : Front(stack)[i] = stack[i] /\ i \in DOMAIN stack
      BY <2>3, <2>4
    <3>3. \A i \in DOMAIN Front(stack) : Linear(stack[i]) => stack[i] # last
      BY <2>3, <2>4, <2>6
    <3>4. QED
      BY <2>1, <2>2, <2>5, <2>6, <3>1, <3>2, <3>3 DEF MetOnce
  <2>9. RepeatedBySplitOnly'
    <3>1. Linear(last) => last \notin sent
      BY <2>3, <2>4, <2>6
    <3>2. \A b \in repeated' : b \in repeated \/ ~Linear(b)
      BY <2>2, <3>1
    <3>3. QED
      BY <1>1, <1>2, <3>2, RepeatedSame
  <2>10. QED
    BY <2>7, <2>8, <2>9 DEF Once
<1>4. CASE /\ stack = << >> /\ walker' = [walker EXCEPT !.pc = "walk"]
           /\ UNCHANGED <<sent, repeated>>
  <2>1. /\ walker'.pc = "walk" /\ walker'.tips = walker.tips /\ walker'.todo = << >>
        /\ walker'.newShards = walker.newShards /\ walker'.stack = << >>
    BY <1>1, <1>2, <1>4, WalkerType DEF WalkerState
  <2>2. Handled' = Handled /\ ToSet(walker'.stack) = {} /\ ToSet(walker'.todo) = {}
    BY <1>2, <2>1, ToSetNone DEF Handled
  <2>3. MastersInOrder'
    BY <1>1, <1>2, <1>4, <2>1, <2>2, OrderKept DEF MastersInOrder
  <2>4. RepeatedBySplitOnly'
    BY <1>1, <1>2, <1>4, RepeatedSame
  <2>5. QED
    BY <2>1, <2>3, <2>4, NothingToMeet DEF Once
<1>5. QED
  BY <1>3, <1>4 DEF SendStack

LEMMA OnceRecordShards == OnceInv /\ ~rewalked /\ RecordShards => Once'
<1> SUFFICES ASSUME OnceInv, ~rewalked, RecordShards PROVE Once'
  OBVIOUS
<1>1. /\ RecordInv /\ ChainInv /\ TypeOK /\ MastersInOrder /\ MetOnce /\ RepeatedBySplitOnly
      /\ walker.newShards \subseteq DOMAIN chain
  BY OnceFacts
<1>2. /\ UNCHANGED <<network, poller, posted, sent, repeated>> /\ walker.pc = "walk"
      /\ walker.tips = {} /\ Handled = walker.newShards
      /\ workchain' = walker.newShards /\ walker' = Idle
  BY OnceFacts DEF RecordShards, history
<1>3. /\ walker'.tips = {} /\ walker'.newShards = {} /\ walker'.pc = "idle"
      /\ walker'.todo = << >> /\ walker'.stack = << >>
  BY <1>2 DEF Idle
<1>4. Handled' = {} /\ ToSet(walker'.todo) = {} /\ ToSet(walker'.stack) = {}
  BY <1>3, ToSetNone DEF Handled
<1>5. Antichain(walker'.tips \cup Handled')
  BY <1>3, <1>4 DEF Antichain
<1>6. sent' \subseteq AncestryOf(workchain' \cup walker'.newShards)
  <2>1. /\ {} \cup walker.newShards = walker.newShards
        /\ workchain' \cup walker'.newShards = walker.newShards
    BY <1>2, <1>3
  <2>2. workchain \subseteq AncestryOf(walker.newShards)
    BY <1>1, <1>2, <2>1 DEF MastersInOrder
  <2>3. workchain \cup walker.newShards \subseteq AncestryOf(walker.newShards)
    BY <2>2, InAncestry
  <2>4. AncestryOf(workchain \cup walker.newShards) \subseteq AncestryOf(walker.newShards)
    BY <1>1, <2>3, AncestryOfAncestors
  <2>5. QED
    BY <1>1, <1>2, <2>1, <2>4 DEF MastersInOrder
<1>7. poller' = "post" => workchain' \cup walker'.tips \cup Handled' \subseteq AncestryOf(posted')
  BY <1>1, <1>2, <1>3, <1>4 DEF MastersInOrder
<1>8. MastersInOrder'
  BY <1>2, <1>3, <1>4, <1>5, <1>6, <1>7, OrderKept
<1>9. RepeatedBySplitOnly'
  BY <1>1, <1>2, RepeatedSame
<1>10. QED
  BY <1>3, <1>8, <1>9, NothingToMeet DEF Once

LEMMA OnceQuiet ==
    OnceInv /\ ~rewalked /\ (GetTransactionIDsFromBlock \/ UNCHANGED vars) => Once'
<1> SUFFICES ASSUME OnceInv, ~rewalked, GetTransactionIDsFromBlock \/ UNCHANGED vars PROVE Once'
  OBVIOUS
<1>1. /\ MastersInOrder /\ MetOnce /\ RepeatedBySplitOnly
  BY OnceFacts
<1>2. UNCHANGED <<network, poller, posted, walker, workchain, sent, repeated>>
  BY DEF GetTransactionIDsFromBlock, vars, history
<1>3. /\ \A b : Ancestry(b)' = Ancestry(b) /\ (Linear(b)' <=> Linear(b))
      /\ AncestryOf(workchain)' = AncestryOf(workchain) /\ behind' = behind
  BY <1>2, SameNetwork
<1>4. /\ Handled' = Handled
      /\ ToSet(walker.stack)' = ToSet(walker.stack) /\ ToSet(walker.todo)' = ToSet(walker.todo)
      /\ ToSet(walker'.stack) = ToSet(walker.stack) /\ ToSet(walker'.todo) = ToSet(walker.todo)
  BY <1>2 DEF Handled, ToSet
<1>5. MastersInOrder'
  BY <1>1, <1>2, <1>4, OrderKept DEF MastersInOrder
<1>6. MetOnce'
  BY <1>1, <1>2, <1>3, <1>4 DEF MetOnce
<1>7. RepeatedBySplitOnly'
  BY <1>1, <1>2, RepeatedSame
<1>8. QED
  BY <1>5, <1>6, <1>7 DEF Once

LEMMA RewalkedStays == OnceInv /\ [Next]_vars /\ ~rewalked' => ~rewalked /\ ~Restart
<1> SUFFICES ASSUME OnceInv, [Next]_vars, ~rewalked' PROVE ~rewalked /\ ~Restart
  OBVIOUS
<1>1. rewalked' = rewalked \/ rewalked'
  BY DEF Next, Network, Grow, Split, Merge, Build, Poll, StartMasterObserver,
         GetMasterchainInfo, HandOver, Walk, GetBlockShardsInfo, RecordFirst, NextShard,
         HandleShardBlock, SendStack, RecordShards, GetTransactionIDsFromBlock, Restart,
         vars, history
<1>2. QED
  BY <1>1 DEF Restart

LEMMA OnceNext == OnceInv /\ [Next]_vars => OnceInv'
<1> SUFFICES ASSUME OnceInv, [Next]_vars PROVE OnceInv'
  OBVIOUS
<1>1. RecordInv'
  BY RecordNext DEF OnceInv
<1>2. ASSUME ~rewalked' PROVE Once'
  <2>1. ~rewalked /\ ~Restart
    BY <1>2, RewalkedStays
  <2>2. QED
    BY <1>2, <2>1, OnceNetwork, OncePoll, OnceShardsInfo, OnceRecordFirst, OnceNextShard,
       OnceHandleShardBlock, OnceSendStack, OnceRecordShards, OnceQuiet DEF Next, Walk
<1>3. QED
  BY <1>1, <1>2 DEF OnceInv, Once

LEMMA OnceInit == Init => OnceInv
<1> SUFFICES ASSUME Init PROVE OnceInv
  OBVIOUS
<1>1. RecordInv
  BY RecordInit
<1>2. /\ walker.tips = {} /\ walker.newShards = {} /\ walker.pc = "idle" /\ poller = "start"
      /\ walker.todo = << >> /\ walker.stack = << >> /\ workchain = {} /\ sent = {}
      /\ repeated = {}
  BY DEF Init, Idle
<1>3. Handled = {} /\ ToSet(walker.todo) = {} /\ ToSet(walker.stack) = {}
  BY <1>2, ToSetNone DEF Handled
<1>4. MastersInOrder
  BY <1>2, <1>3 DEF MastersInOrder, Antichain
<1>5. MetOnce
  <2>1. DOMAIN walker.todo = {} /\ DOMAIN walker.stack = {}
    BY <1>2
  <2>2. QED
    BY <1>3, <2>1 DEF MetOnce
<1>6. QED
  BY <1>1, <1>2, <1>4, <1>5 DEF OnceInv, RepeatedBySplitOnly

(* The walks overlap only where a split lets them: without a lost tip or a   *)
(* restart a block that no split comes after goes to the workers once.       *)
THEOREM RepeatedBySplitOnlyTheorem == Spec => []RepeatedBySplitOnly
<1>1. OnceInv => RepeatedBySplitOnly
  BY DEF OnceInv, RepeatedBySplitOnly
<1>2. QED
  BY <1>1, OnceInit, OnceNext, PTL DEF Spec
=============================================================================
