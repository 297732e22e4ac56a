------------------------- MODULE MerkleShapeProofs -------------------------
(* Lemmas about node indices and paths, for every depth of the tree. *)
EXTENDS MerkleShape, TLAPS

\* Facts about the levels.
LEMMA LevelFacts ==
    /\ LeafLevel \in Nat /\ LeafLevel \in Level /\ 0 \in Level
    /\ \A l \in Level : l \in Nat /\ l <= LeafLevel
  BY TreeShape DEF LeafLevel, Level

\* The parent of a node is a node.
LEMMA ParentNode ==
    ASSUME NEW l \in Level, l # 0, NEW i \in Node(l)
    PROVE  i \div 2 \in Node(l - 1)
<1>1. l - 1 \in Level /\ l = (l - 1) + 1
  BY TreeShape DEF Level
<1>2. 2 ^ l = 2 * 2 ^ (l - 1) /\ 2 ^ (l - 1) \in Nat \ {0}
  BY <1>1, PowerOfTwo
<1> QED
  BY <1>2 DEF Node

\* Both children of a node have it as their parent.
LEMMA Halves ==
    ASSUME NEW i \in Nat
    PROVE  (i * 2) \div 2 = i /\ (i * 2 + 1) \div 2 = i
  OBVIOUS

\* The children of a node are nodes.
LEMMA ChildNode ==
    ASSUME NEW l \in 0 .. (N_LEVELS - 2), NEW i \in Node(l)
    PROVE  i \in Nat /\ i * 2 \in Node(l + 1) /\ i * 2 + 1 \in Node(l + 1)
<1>1. 2 ^ (l + 1) = 2 * 2 ^ l /\ 2 ^ l \in Nat \ {0}
  BY PowerOfTwo, TreeShape DEF Level
<1> QED
  BY <1>1 DEF Node

\* Division with remainder, as the provers know it.
LEMMA DivDef ==
    ASSUME NEW p \in Nat, NEW d \in Nat \ {0}
    PROVE  p \div d \in Nat /\ p % d \in 0 .. (d - 1) /\ p = d * (p \div d) + (p % d)
  OBVIOUS

\* The quotient is determined by a remainder below the divisor.
LEMMA DivUnique ==
    ASSUME NEW p \in Nat, NEW d \in Nat \ {0}, NEW q \in Nat, NEW r \in Nat,
           r < d, p = d * q + r
    PROVE  p \div d = q
<1>1. p = d * (p \div d) + (p % d) /\ p \div d \in Nat /\ p % d \in 0..(d-1)
  BY DivDef
<1>2. CASE p \div d >= q + 1
  <2>1. d * (p \div d) >= d * (q + 1)
     BY <1>1, <1>2
  <2> QED BY <1>1, <2>1
<1>3. CASE p \div d <= q - 1
  <2>1. d * (p \div d) <= d * (q - 1)
     BY <1>1, <1>3
  <2> QED BY <1>1, <2>1
<1> QED BY <1>1, <1>2, <1>3

\* Shifting right by one more bit is halving once more.
LEMMA Half ==
    ASSUME NEW p \in Nat, NEW d \in Nat \ {0}
    PROVE  (p \div d) \div 2 = p \div (2 * d)
<1> DEFINE q == p \div d
<1>1. p = d * q + (p % d) /\ q \in Nat /\ p % d \in 0..(d-1)
  BY DivDef
<1>2. q \div 2 \in Nat /\ q % 2 \in 0 .. 1 /\ q = 2 * (q \div 2) + (q % 2)
  BY <1>1
<1> DEFINE s == q \div 2
<1> DEFINE t == q % 2
<1> HIDE DEF q
<1>2a. s \in Nat /\ t \in 0 .. 1 /\ q = 2 * s + t
  BY <1>2
<1> HIDE DEF s, t
<1>3. d * t \in Nat /\ d * t <= d
  BY <1>2a
<1>4. p = (2 * d) * s + (d * t + (p % d))
  <2>1. d * q = d * (2 * s + t)
    BY <1>2a
  <2>2. d * (2 * s + t) = (2 * d) * s + d * t
    BY <1>2a
  <2>3. (2 * d) * s \in Nat /\ d * q \in Nat
    BY <1>1, <1>2a
  <2> DEFINE A == (2 * d) * s
             B == d * t
             C == d * q
             r == p % d
  <2>4. A \in Nat /\ B \in Nat /\ C \in Nat /\ r \in Nat /\ C = A + B /\ p = C + r
    BY <1>1, <1>3, <2>1, <2>2, <2>3
  <2>5. SUFFICES p = A + (B + r)
    OBVIOUS
  <2> HIDE DEF A, B, C, r
  <2> QED BY <2>4
<1>5. d * t + (p % d) < 2 * d /\ d * t + (p % d) \in Nat /\ 2 * d \in Nat \ {0}
  BY <1>1, <1>3
<1>6. p \div (2 * d) = s
  BY <1>2a, <1>4, <1>5, DivUnique
<1> QED BY <1>6 DEF q, s

\* The path of a page starts at the page.
LEMMA PathLeaf ==
    ASSUME NEW p \in PageIndex
    PROVE  p \in Nat /\ iter_path(p, LeafLevel) = p
<1>1. 2 ^ (LeafLevel - LeafLevel) = 1
  BY LevelFacts, PowerOfTwo
<1>2. p \in Nat
  BY DEF PageIndex, Node
<1>3. p \div 1 = p
  BY <1>2, DivUnique
<1> QED
  BY <1>1, <1>2, <1>3 DEF iter_path

\* The indices on a path are natural numbers.
LEMMA PathNat ==
    ASSUME NEW p \in Nat, NEW l \in Level
    PROVE  iter_path(p, l) \in Nat
<1>1. LeafLevel - l \in Level
  BY TreeShape DEF Level, LeafLevel
<1>2. 2 ^ (LeafLevel - l) \in Nat \ {0}
  BY <1>1, PowerOfTwo
<1> QED
  BY <1>2, DivDef DEF iter_path

\* The ancestor one level up is at half the index.
LEMMA PathUp ==
    ASSUME NEW p \in Nat, NEW l \in Level, l # 0
    PROVE  iter_path(p, l) \div 2 = iter_path(p, l - 1)
<1> DEFINE k == LeafLevel - l
<1>1. k \in Level /\ LeafLevel - (l - 1) = k + 1
  BY TreeShape DEF Level, LeafLevel
<1>2. 2 ^ k \in Nat \ {0} /\ 2 ^ (k + 1) = 2 * 2 ^ k
  BY <1>1, PowerOfTwo
<1>3. (p \div 2 ^ k) \div 2 = p \div (2 * 2 ^ k)
  BY <1>2, Half
<1> QED
  BY <1>1, <1>2, <1>3 DEF iter_path

\* A node is not its own sibling.
LEMMA SiblingDiffers ==
    ASSUME NEW i \in Nat
    PROVE  Sibling(i) # i
  BY DEF Sibling
=============================================================================
