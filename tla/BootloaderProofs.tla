-------------------------- MODULE BootloaderProofs --------------------------
(* The bootloader accepts honest inputs, for every depth of the tree, size of a
   page, number of pages and hash function. *)
EXTENDS Bootloader, MerkleShapeProofs

\* Where the program is in the inputs.
Position ==
    /\ WellFormed(inputs)
    /\ BootTypeOK
    /\ label \in {"start_page_loop", "hash_page", "merkle_proof_validation_loop"} =>
           x2 < Len(inputs.pages)
    /\ label = "hash_page" => quads < N_QUADS
    /\ label = "end_page_loop" => x2 = Len(inputs.pages)

\* What it has computed: the linear hash of the quads so far, or the hash of the
\* node on the page's path, in the tree before or after the page's update.
Computed ==
    /\ label \in {"start_page_loop", "hash_page", "merkle_proof_validation_loop",
                  "end_page_loop"} => root = trees[x2 + 1][0][0]
    /\ label \in {"hash_page", "merkle_proof_validation_loop"} => x3 = InputPage.number
    /\ label = "hash_page" =>
           other.hi = zero_hash /\ cur = hash_prefix(InputPage.words, quads)
           /\ other = [lo |-> other.lo, hi |-> other.hi]
    /\ label = "merkle_proof_validation_loop" =>
           path = iter_path(x3, height) /\ cur = trees[x2 + 1 + x9][height][path]
    /\ label # "fail"

BootInv == Position /\ (Honest => Computed)

\* A page number is masked to the number of a page.
LEMMA MaskedNumber ==
    ASSUME NEW n \in Nat
    PROVE  n % 2 ^ LeafLevel \in PageIndex /\ (n \in PageIndex => n % 2 ^ LeafLevel = n)
<1>1. LeafLevel \in Level BY LevelFacts
<1>2. 2 ^ LeafLevel \in Nat \ {0} BY <1>1, PowerOfTwo
<1> DEFINE d == 2 ^ LeafLevel
<1>3. n % d \in 0 .. (d - 1) /\ n = d * (n \div d) + (n % d) BY <1>2, DivDef
<1>4. ASSUME n \in 0 .. (d - 1) PROVE n % d = n
  <2>1. n \div d = 0
    <3>1. n = d * 0 + n BY <1>2
    <3> HIDE DEF d
    <3> QED BY <3>1, <1>4, <1>2, DivUnique DEF d
  <2> QED BY <2>1, <1>2, <1>3, <1>4
<1> QED BY <1>3, <1>4 DEF PageIndex, Node

\* The empty page is a page.
LEMMA ZeroPage == zero_page \in PageData
  BY WordAssumption DEF zero_page, PageData

\* The root is the only node of level 0.
LEMMA RootNode == 0 \in Level /\ 0 \in Node(0) /\ 0 \in PageIndex
<1>1. 0 \in Node(0) BY PowerOfTwo DEF Node
<1>2. 2 ^ LeafLevel \in Nat \ {0} BY LevelFacts, PowerOfTwo
<1> QED BY <1>1, <1>2, LevelFacts DEF PageIndex, Node

\* The position is right initially.
LEMMA PositionInit == BootInit => Position
  BY InputAssumption, RootNode, ZeroPage, HashPageAssumption
     DEF BootInit, Position, BootTypeOK, WellFormed, Labels

\* Every step keeps the position.
LEMMA PositionStep == Position /\ [BootStep]_bootVars => Position'
<1> SUFFICES ASSUME Position, [BootStep]_bootVars PROVE Position'
  OBVIOUS
<1> USE DEF Position, BootTypeOK, Labels
<1>0. ASSUME UNCHANGED inputs PROVE WellFormed(inputs)'
  BY <1>0 DEF WellFormed
<1>l. Len(inputs.pages) \in Nat BY DEF WellFormed
<1>1. CASE InitBootloader
  BY <1>0, <1>1, <1>l DEF InitBootloader
<1>2. CASE PageNumberZero
  BY <1>0, <1>2, RootNode DEF PageNumberZero
<1>3. CASE PageNumberOk
  <2>1. InputPage.number \in Nat
    BY <1>3, <1>l DEF PageNumberOk, InputPage, WellFormed
  <2>2. x3' \in PageIndex BY <1>3, <2>1, MaskedNumber DEF PageNumberOk
  <2> QED BY <1>0, <1>3, <2>2, HashPageAssumption DEF PageNumberOk
<1>4. CASE HashQuad
  <2>1. InputPage.words \in PageData
    BY <1>4, <1>l DEF HashQuad, InputPage, WellFormed
  <2>2. memory' \in [PageIndex -> PageData]
    BY <1>4, <2>1 DEF HashQuad, PageData
  <2>3. LeafLevel \in Level /\ PageIndex = Node(LeafLevel) BY LevelFacts DEF PageIndex
  <2>4. CASE quads' < N_QUADS
    BY <1>0, <1>4, <2>2, <2>4, HashPageAssumption DEF HashQuad
  <2>5. CASE quads' = N_QUADS
    BY <1>0, <1>4, <2>2, <2>3, <2>5, HashPageAssumption DEF HashQuad
  <2> QED BY <2>4, <2>5, <1>4 DEF HashQuad
<1>5. CASE LevelIsLeft \/ LevelIsRight
  <2>0. height \in Level /\ height # 0 /\ path \in Node(height)
    BY <1>5 DEF LevelIsLeft, LevelIsRight
  <2>1. height - 1 \in Level BY <2>0, TreeShape DEF Level
  <2>2. path \div 2 \in Node(height - 1) BY <2>0, ParentNode
  <2> QED BY <1>0, <1>5, <2>1, <2>2 DEF LevelIsLeft, LevelIsRight
<1>6. CASE MemoryHashMismatch
  BY <1>0, <1>6 DEF MemoryHashMismatch
<1>7. CASE MemoryHashOk
  BY <1>0, <1>7, LevelFacts DEF MemoryHashOk, PageIndex
<1>8. CASE UpdateMemoryHash
  BY <1>0, <1>8, <1>l DEF UpdateMemoryHash
<1>9. CASE AssertFinalRootFails
  BY <1>0, <1>9 DEF AssertFinalRootFails
<1>10. CASE LoadRegisters
  BY <1>0, <1>10 DEF LoadRegisters
<1>11. CASE UNCHANGED bootVars
  BY <1>0, <1>11 DEF bootVars
<1> QED
  BY <1>1, <1>2, <1>3, <1>4, <1>5, <1>6, <1>7, <1>8, <1>9, <1>10, <1>11 DEF BootStep

\* The variables of the bootloader keep their types on every input.
THEOREM BootTyping == BootSpec => []BootTypeOK
<1>1. BootInit => Position BY PositionInit
<1>2. Position /\ [BootStep]_bootVars => Position' BY PositionStep
<1>3. Position => BootTypeOK BY DEF Position
<1> QED BY <1>1, <1>2, <1>3, PTL DEF BootSpec

\* On a path, a node and its sibling are the children of the next node.
LEMMA Parent ==
    ASSUME NEW t, IsMerkleTree(t), NEW l \in Level, l # 0, NEW i \in Node(l)
    PROVE  /\ i % 2 = 0 => t[l - 1][i \div 2] = hash_cap0(t[l][i], t[l][Sibling(i)])
           /\ i % 2 # 0 => t[l - 1][i \div 2] = hash_cap0(t[l][Sibling(i)], t[l][i])
<1>1. l - 1 \in 0 .. (N_LEVELS - 2) /\ (l - 1) + 1 = l BY TreeShape DEF Level
<1>2. i \in Nat
  <2>1. 2 ^ l \in Nat BY PowerOfTwo
  <2> QED BY <2>1 DEF Node
<1>3. i \div 2 \in Node(l - 1) BY ParentNode
<1>4. t[l - 1][i \div 2] = hash_cap0(t[l][(i \div 2) * 2], t[l][(i \div 2) * 2 + 1])
  BY <1>1, <1>3 DEF IsMerkleTree
<1>5. i % 2 = 0 => (i \div 2) * 2 = i /\ (i \div 2) * 2 + 1 = Sibling(i) BY <1>2 DEF Sibling
<1>6. i % 2 # 0 => (i \div 2) * 2 + 1 = i /\ (i \div 2) * 2 = Sibling(i) BY <1>2 DEF Sibling
<1> QED BY <1>4, <1>5, <1>6

\* What poseidon reads when both limbs are written, or only the low one is and
\* the high one is clear.
LEMMA WholeElements ==
    ASSUME NEW x
    PROVE  /\ field_elements([lo |-> x, hi |-> x]) = x
           /\ field_elements([lo |-> x, hi |-> zero_hash]) = x
  BY DEF field_elements

\* On honest inputs every step computes what it should.
LEMMA ComputedStep == Position /\ Honest /\ Computed /\ BootStep => Computed'
<1> SUFFICES ASSUME Position, Honest, Computed, BootStep PROVE Computed'
  OBVIOUS
<1>l. Len(inputs.pages) \in Nat /\ x2 \in 0 .. Len(inputs.pages) /\ x9 \in 0 .. 1
      /\ quads \in 0 .. N_QUADS
  BY DEF Position, WellFormed, BootTypeOK
<1>h. ASSUME x2 < Len(inputs.pages)
      PROVE  /\ HonestPage(InputPage, trees[x2 + 1], trees[x2 + 2])
             /\ IsMerkleTree(trees[x2 + 1]) /\ IsMerkleTree(trees[x2 + 2])
             /\ InputPage.number \in Nat /\ InputPage.words \in PageData
  <2>1. x2 + 1 \in 1 .. Len(inputs.pages) /\ (x2 + 1) + 1 = x2 + 2 BY <1>h, <1>l
  <2>2. x2 + 1 \in 1 .. (Len(inputs.pages) + 1) /\ x2 + 2 \in 1 .. (Len(inputs.pages) + 1)
    BY <2>1, <1>l
  <2> QED BY <2>1, <2>2 DEF Honest, Position, WellFormed, InputPage
<1>1. CASE InitBootloader
  BY <1>1, <1>l DEF InitBootloader, Honest, Computed
<1>2. CASE PageNumberZero
  <2>1. x2 < Len(inputs.pages) BY <1>2 DEF PageNumberZero, Position
  <2>2. InputPage.number \in PageIndex \ {0} /\ InputPage.number \in Nat
    BY <2>1, <1>h DEF HonestPage
  <2>3. InputPage.number % 2 ^ LeafLevel = InputPage.number BY <2>2, MaskedNumber
  <2> QED BY <1>2, <2>2, <2>3 DEF PageNumberZero
<1>3. CASE PageNumberOk
  <2>1. x2 < Len(inputs.pages) BY <1>3 DEF PageNumberOk, Position
  <2>2. x3' = InputPage.number
    <3>1. InputPage.number \in PageIndex /\ InputPage.number \in Nat
      BY <2>1, <1>h DEF HonestPage
    <3>2. InputPage.number % 2 ^ LeafLevel = InputPage.number BY <3>1, MaskedNumber
    <3> QED BY <1>3, <3>2 DEF PageNumberOk
  <2>3. hash_prefix(InputPage.words, 0) = zero_hash BY <2>1, <1>h, HashPageAssumption
  <2> QED BY <1>3, <2>2, <2>3 DEF PageNumberOk, Computed, InputPage
<1>4. CASE HashQuad
  <2>1. x2 < Len(inputs.pages) /\ quads < N_QUADS /\ other.hi = zero_hash
        /\ cur = hash_prefix(InputPage.words, quads) /\ x3 = InputPage.number
        /\ root = trees[x2 + 1][0][0]
    BY <1>4 DEF HashQuad, Position, Computed
  <2> DEFINE q == quad(InputPage.words, quads + 1)
  <2>2. other' = [lo |-> q, hi |-> zero_hash]
    BY <1>4, <2>1 DEF HashQuad, Computed
  <2>3. cur' = hash_cap0(cur, q) BY <1>4, <2>2, WholeElements DEF HashQuad, poseidon_gl
  <2>4. quads + 1 \in 1 .. N_QUADS /\ (quads + 1) - 1 = quads
    BY <2>1, <1>l, HashPageAssumption
  <2>5. cur' = hash_prefix(InputPage.words, quads + 1)
    BY <2>1, <2>3, <2>4, <1>h, HashPageAssumption
  <2> HIDE DEF q
  <2>a. quads' = quads + 1 /\ UNCHANGED <<inputs, trees, x2, x3, root>> BY <1>4 DEF HashQuad
  <2>b. InputPage' = InputPage BY <2>a DEF InputPage
  <2>6. CASE quads' < N_QUADS
    <3>1. label' = "hash_page"
      BY <1>4, <2>6, <1>l, HashPageAssumption DEF HashQuad
    <3>2. other'.hi = zero_hash /\ other' = [lo |-> other'.lo, hi |-> other'.hi] BY <2>2
    <3> QED BY <2>1, <2>5, <2>a, <2>b, <3>1, <3>2 DEF Computed
  <2>7. CASE quads' = N_QUADS
    <3>1. cur' = trees[x2 + 1][LeafLevel][x3]
      BY <1>4, <2>1, <2>5, <2>7, <1>h, HashPageAssumption DEF HashQuad, HonestPage
    <3>2. x3 \in PageIndex /\ iter_path(x3, LeafLevel) = x3
      BY <1>h, <2>1, PathLeaf DEF HonestPage
    <3>3. x2 + 1 + 0 = x2 + 1 BY <1>l
    <3>4. label' = "merkle_proof_validation_loop" /\ x9' = 0 /\ height' = LeafLevel /\ path' = x3
      BY <1>4, <2>7, <1>l, HashPageAssumption DEF HashQuad
    <3> QED BY <2>1, <2>a, <2>b, <3>1, <3>2, <3>3, <3>4 DEF Computed
  <2> QED BY <2>6, <2>7, <1>4 DEF HashQuad
<1>5. CASE LevelIsLeft \/ LevelIsRight
  <2>0. label = "merkle_proof_validation_loop" /\ height # 0 /\ height \in Level
        /\ path \in Node(height) /\ x2 < Len(inputs.pages)
    BY <1>5 DEF LevelIsLeft, LevelIsRight, Position, BootTypeOK
  <2> DEFINE t == trees[x2 + 1 + x9]
  <2>1. path = iter_path(x3, height) /\ cur = t[height][path] /\ x3 = InputPage.number
    BY <2>0 DEF Computed
  <2>2. IsMerkleTree(t) /\ Sibling_i = t[height][Sibling(path)]
    <3>1. height \in 1 .. LeafLevel BY <2>0, LevelFacts
    <3>2. x9 = 0 => x2 + 1 + x9 = x2 + 1 BY <1>l
    <3>3. x9 = 1 => x2 + 1 + x9 = x2 + 2 BY <1>l
    <3>4. x9 = 0 \/ x9 = 1 BY <1>l
    <3> QED BY <3>1, <3>2, <3>3, <3>4, <2>0, <2>1, <1>h DEF Sibling_i, HonestPage
  <2>3. cur' = t[height - 1][path \div 2]
    <3>1. CASE LevelIsLeft
      <4>1. cur' = hash_cap0(cur, Sibling_i)
        BY <3>1, WholeElements DEF LevelIsLeft, poseidon_gl
      <4> QED BY <4>1, <3>1, <2>0, <2>1, <2>2, Parent DEF LevelIsLeft
    <3>2. CASE LevelIsRight
      <4>1. cur' = hash_cap0(Sibling_i, cur)
        BY <3>2, WholeElements DEF LevelIsRight, poseidon_gl
      <4> QED BY <4>1, <3>2, <2>0, <2>1, <2>2, Parent DEF LevelIsRight
    <3> QED BY <3>1, <3>2, <1>5
  <2>4. path \div 2 = iter_path(x3, height - 1)
    BY <2>0, <2>1, <1>h, PathUp
  <2>5. /\ height' = height - 1 /\ path' = path \div 2
        /\ UNCHANGED <<inputs, trees, label, x2, x3, x9, root>>
    BY <1>5 DEF LevelIsLeft, LevelIsRight
  <2>6. root = trees[x2 + 1][0][0] BY <2>0 DEF Computed
  <2> QED BY <2>0, <2>1, <2>3, <2>4, <2>5, <2>6 DEF Computed, InputPage
<1>6. CASE MemoryHashMismatch
  <2>1. height = 0 /\ x9 = 0 /\ label = "merkle_proof_validation_loop" /\ cur # root
        /\ path \in Node(height)
    BY <1>6 DEF MemoryHashMismatch, Position, BootTypeOK
  <2>2. path = 0 BY <2>1, PowerOfTwo DEF Node
  <2>3. x2 + 1 + x9 = x2 + 1 BY <2>1, <1>l
  <2> QED BY <2>1, <2>2, <2>3 DEF Computed
<1>7. CASE MemoryHashOk
  <2>1. x2 < Len(inputs.pages) /\ x3 = InputPage.number /\ root = trees[x2 + 1][0][0]
    BY <1>7 DEF MemoryHashOk, Position, Computed
  <2>2. InputPage.hash = trees[x2 + 2][LeafLevel][x3] /\ x3 \in PageIndex
    BY <2>1, <1>h DEF HonestPage
  <2>3. iter_path(x3, LeafLevel) = x3 BY <2>2, PathLeaf
  <2>4. x2 + 1 + 1 = x2 + 2 BY <1>l
  <2> QED BY <1>7, <2>1, <2>2, <2>3, <2>4 DEF MemoryHashOk, Computed, InputPage
<1>8. CASE UpdateMemoryHash
  <2>1. height = 0 /\ x9 = 1 /\ label = "merkle_proof_validation_loop" /\ path \in Node(height)
    BY <1>8, <1>l DEF UpdateMemoryHash, Position, BootTypeOK
  <2>2. path = 0 BY <2>1, PowerOfTwo DEF Node
  <2>3. x2 + 1 + x9 = (x2 + 1) + 1 BY <2>1, <1>l
  <2>4. cur = trees[(x2 + 1) + 1][0][0] BY <2>1, <2>2, <2>3 DEF Computed
  <2> QED BY <1>8, <2>4 DEF UpdateMemoryHash, Computed
<1>9. CASE AssertFinalRootFails
  <2>1. label = "end_page_loop" /\ root # inputs.root_after /\ x2 = Len(inputs.pages)
    BY <1>9 DEF AssertFinalRootFails, Position
  <2> QED BY <2>1 DEF Computed, Honest
<1>10. CASE LoadRegisters
  BY <1>10 DEF LoadRegisters, Computed
<1> QED BY <1>1, <1>2, <1>3, <1>4, <1>5, <1>6, <1>7, <1>8, <1>9, <1>10 DEF BootStep

\* The inputs and the trees they are about do not change.
LEMMA InputsFixed == [BootStep]_bootVars => UNCHANGED <<inputs, trees>>
  BY DEF BootStep, bootVars, InitBootloader, PageNumberZero, PageNumberOk, HashQuad,
         LevelIsLeft, LevelIsRight, MemoryHashMismatch, MemoryHashOk, UpdateMemoryHash,
         AssertFinalRootFails, LoadRegisters

\* On the inputs that the dry run makes for a chunk, the bootloader never
\* reaches `fail' and none of its assertions on roots is violated.
THEOREM HonestAccepted == BootSpec => []HonestInputsAccepted
<1>1. BootInit => BootInv
  <2>1. BootInit => Computed BY DEF BootInit, Computed
  <2> QED BY <2>1, PositionInit DEF BootInv
<1>2. BootInv /\ [BootStep]_bootVars => BootInv'
  <2> SUFFICES ASSUME BootInv, [BootStep]_bootVars PROVE BootInv'
    OBVIOUS
  <2>1. Position' BY PositionStep DEF BootInv
  <2>2. ASSUME Honest' PROVE Computed'
    <3>1. Honest
      <4>1. UNCHANGED <<inputs, trees>> BY InputsFixed
      <4> QED BY <4>1, <2>2 DEF Honest
    <3>2. CASE BootStep
      <4>1. Position /\ Computed BY <3>1 DEF BootInv
      <4> QED BY <3>1, <3>2, <4>1, ComputedStep
    <3>3. CASE UNCHANGED bootVars BY <3>1, <3>3 DEF BootInv, bootVars, Computed, InputPage
    <3> QED BY <3>2, <3>3
  <2> QED BY <2>1, <2>2 DEF BootInv
<1>3. BootInv => HonestInputsAccepted BY DEF BootInv, Computed, HonestInputsAccepted
<1> QED BY <1>1, <1>2, <1>3, PTL DEF BootSpec
=============================================================================
