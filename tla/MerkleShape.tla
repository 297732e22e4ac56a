---------------------------- MODULE MerkleShape ----------------------------
(***************************************************************************)
(* Shape and hashing of the Merkle tree over memory pages, shared by the   *)
(* tree that the dry run keeps (MemoryMerkleTree) and by the bootloader    *)
(* that recomputes its root (Bootloader).                                  *)
(***************************************************************************)
EXTENDS Integers

CONSTANTS
    N_LEVELS,         \* levels of the tree: level 0 is the root
    WORDS_PER_PAGE,
    Word,             \* values of a memory word
    Zero,             \* the word of a cell that was never written
    hash_cap0(_, _),  \* hash of two child hashes
    hash_page(_),     \* linear hash of the words of a page
    default_hashes    \* hash of a node of each level when all pages are zero

Level == 0 .. (N_LEVELS - 1)
LeafLevel == N_LEVELS - 1

\* Indices of the nodes of a level; the leaves are the pages.
Node(level) == 0 .. (2 ^ level - 1)
PageIndex == Node(LeafLevel)
Address == 0 .. (2 ^ LeafLevel * WORDS_PER_PAGE - 1)

PageData == [0 .. (WORDS_PER_PAGE - 1) -> Word]
zero_page == [w \in 0 .. (WORDS_PER_PAGE - 1) |-> Zero]

\* The defaults are built from the leaves up, each level hashing two copies
\* of the one below.
DefaultHashesPerLevel(d) ==
    /\ DOMAIN d = Level
    /\ d[LeafLevel] = hash_page(zero_page)
    /\ \A level \in 0 .. (N_LEVELS - 2) :
           d[level] = hash_cap0(d[level + 1], d[level + 1])

ASSUME TreeShape == N_LEVELS \in Nat \ {0} /\ WORDS_PER_PAGE \in Nat \ {0}
ASSUME WordAssumption == Zero \in Word
\* What the proofs need to know of exponentiation.
ASSUME PowerOfTwo ==
    /\ 2 ^ 0 = 1
    /\ \A k \in Level : 2 ^ k \in Nat \ {0} /\ 2 ^ (k + 1) = 2 * 2 ^ k
ASSUME DefaultHashAssumption == DefaultHashesPerLevel(default_hashes)

\* The other child of a node's parent (index XOR 1).
Sibling(i) == IF i % 2 = 0 THEN i + 1 ELSE i - 1

\* Faulty variant: one level too far up.
iter_path_OffByOne(p, l) == p \div 2 ^ (LeafLevel - l + 1)

\* Index at a level of the ancestor of a page.
iter_path(p, l) == p \div 2 ^ (LeafLevel - l)

\* Faulty variant: only the parents of left children.
level_up_LeftOnly(indices) == {i \div 2 : i \in {j \in indices : j % 2 = 0}}

\* The indices of the parents, without repetition.
level_up(indices) == {i \div 2 : i \in indices}
=============================================================================
