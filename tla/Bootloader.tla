----------------------------- MODULE Bootloader -----------------------------
(***************************************************************************)
(* The bootloader of a chunk (bootloader_and_shutdown_routine in           *)
(* riscv/src/large_field/bootloader.rs): an assembly program that writes   *)
(* the pages given as inputs to memory and checks each of them against the *)
(* Merkle root.  For each page it computes the root twice along the page's *)
(* path, from the words it was given (which must yield the current root)   *)
(* and from the claimed hash of the page after the chunk (which yields the *)
(* next current root), with the same siblings.                             *)
(*                                                                         *)
(* One step is one page header, one group of four words, one level of a    *)
(* Merkle path, or one comparison of roots.  `rows' counts the rows of the *)
(* execution trace that these instructions take.                           *)
(***************************************************************************)
EXTENDS MerkleShape, Sequences

CONSTANTS
    Provided,         \* bootloader inputs, each with the trees it is about
    zero_hash,        \* the cleared scratch space
    quad(_, _),       \* the k-th four words of a page, as field elements
    hash_prefix(_, _),\* linear hash of the first k quads of a page
    mixed(_, _)       \* field elements with the low limbs of one value and
                      \* the high limbs of another

N_QUADS == WORDS_PER_PAGE \div 4

\* hash_page hashes the quads one after the other, starting with zeros.
ASSUME HashPageAssumption ==
    /\ N_QUADS \in Nat \ {0}
    /\ \A words \in PageData :
           /\ hash_prefix(words, 0) = zero_hash
           /\ \A k \in 1 .. N_QUADS :
                  hash_prefix(words, k) = hash_cap0(hash_prefix(words, k - 1), quad(words, k))
           /\ hash_page(words) = hash_prefix(words, N_QUADS)

\* The layout of the inputs: a page is its number, WORDS_PER_PAGE words, a hash
\* and one sibling for each level.
WellFormed(in) ==
    /\ Len(in.pages) \in Nat
    /\ \A j \in 1 .. Len(in.pages) :
           in.pages[j].number \in Nat /\ in.pages[j].words \in PageData
ASSUME InputAssumption == \A x \in Provided : WellFormed(x.inputs)

VARIABLES
    inputs,    \* [registers, root_before, root_after, pages], where a page is
               \* [number, words, hash, proof]
    trees,     \* history: the hashes of the tree before each page is updated
               \* and at the end, trees[j][level][index]
    label,     \* where the program is; "fail" and "jumped" are final
    x2,        \* index of the current page
    x3,        \* its number
    x9,        \* 0: validation phase, 1: update phase
    root,      \* x18-x25, the current Merkle root
    cur,       \* scratch space [0, 32): the current hash
    other,     \* scratch space [32, 64): other input of the hash, by limbs
    quads,     \* quads of the page already hashed
    height,    \* level of the node whose hash is in `cur'
    path,      \* its index: x3 without the bits of the levels below
    memory,    \* the words written to the pages
    registers, \* "scratch" until they are loaded
    rows       \* rows of the trace used so far

bootVars == <<inputs, trees, label, x2, x3, x9, root, cur, other, quads, height, path,
              memory, registers, rows>>

\* What poseidon_gl reads from [32, 64).  A hash fills both limbs of each
\* element, a word only the low one.
field_elements(rate) ==
    IF rate.hi = rate.lo \/ rate.hi = zero_hash THEN rate.lo ELSE mixed(rate.lo, rate.hi)

poseidon_gl(state, rate) == hash_cap0(state, field_elements(rate))

InputPage == inputs.pages[x2 + 1]

BootInit ==
    /\ \E x \in Provided : inputs = x.inputs /\ trees = x.trees
    /\ label = "init"
    /\ x2 = 0 /\ x3 = 0 /\ x9 = 0
    /\ root = zero_hash /\ cur = zero_hash
    /\ other = [lo |-> zero_hash, hi |-> zero_hash]
    /\ quads = 0 /\ height = 0 /\ path = 0
    /\ memory = [p \in PageIndex |-> zero_page]
    /\ registers = "scratch"
    /\ rows = 2

\* Number of pages, initial root, page index; without pages straight to the end.
InitBootloader ==
    /\ label = "init"
    /\ root' = inputs.root_before
    /\ x2' = 0
    /\ label' = IF Len(inputs.pages) = 0 THEN "end_page_loop" ELSE "start_page_loop"
    /\ rows' = rows + 1 + 2 + 8 + 1 + 1
    /\ UNCHANGED <<inputs, trees, x3, x9, cur, other, quads, height, path, memory, registers>>

\* The page number must not be that of the scratch space.
PageNumberZero ==
    /\ label = "start_page_loop"
    /\ InputPage.number % 2 ^ LeafLevel = 0
    /\ x3' = 0
    /\ label' = "fail"
    /\ rows' = rows + 3
    /\ UNCHANGED <<inputs, trees, x2, x9, root, cur, other, quads, height, path, memory, registers>>

\* Faulty variant: the page number is used without the mask.
PageNumberOk_NoMask ==
    /\ label = "start_page_loop"
    /\ InputPage.number # 0
    /\ x3' = InputPage.number
    /\ cur' = zero_hash
    /\ other' = [lo |-> zero_hash, hi |-> zero_hash]
    /\ quads' = 0
    /\ label' = "hash_page"
    /\ rows' = rows + 2 + 24 + 1
    /\ UNCHANGED <<inputs, trees, x2, x9, root, height, path, memory, registers>>

\* Faulty variant: only the current hash is cleared.
PageNumberOk_DirtyScratch ==
    /\ label = "start_page_loop"
    /\ InputPage.number % 2 ^ LeafLevel # 0
    /\ x3' = InputPage.number % 2 ^ LeafLevel
    /\ cur' = zero_hash
    /\ quads' = 0
    /\ label' = "hash_page"
    /\ rows' = rows + 3 + 8 + 1
    /\ UNCHANGED <<inputs, trees, x2, x9, root, other, height, path, memory, registers>>

\* The scratch space is cleared for every page.
PageNumberOk ==
    /\ label = "start_page_loop"
    /\ InputPage.number % 2 ^ LeafLevel # 0
    /\ x3' = InputPage.number % 2 ^ LeafLevel
    /\ cur' = zero_hash
    /\ other' = [lo |-> zero_hash, hi |-> zero_hash]
    /\ quads' = 0
    /\ label' = "hash_page"
    /\ rows' = rows + 3 + 24 + 1
    /\ UNCHANGED <<inputs, trees, x2, x9, root, height, path, memory, registers>>

\* Four words: each to the low limb of its element and to the page, then hash.
\* The validation phase starts after the last ones.
HashQuad ==
    /\ label = "hash_page"
    /\ other' = [other EXCEPT !.lo = quad(InputPage.words, quads + 1)]
    /\ cur' = poseidon_gl(cur, other')
    /\ memory' = [memory EXCEPT ![x3] = [w \in 0 .. (WORDS_PER_PAGE - 1) |->
                     IF w \div 4 = quads THEN InputPage.words[w] ELSE @[w]]]
    /\ quads' = quads + 1
    /\ \/ /\ quads' < N_QUADS
          /\ rows' = rows + 4 * 4 + 1
          /\ UNCHANGED <<label, x9, height, path>>
       \/ /\ quads' = N_QUADS
          /\ label' = "merkle_proof_validation_loop"
          /\ x9' = 0
          /\ height' = LeafLevel
          /\ path' = x3
          /\ rows' = rows + 4 * 4 + 1 + 1
    /\ UNCHANGED <<inputs, trees, x2, x3, root, registers>>

Sibling_i == InputPage.proof[height]

\* The bit of the page number is 0: the sibling is the right input.
LevelIsLeft ==
    /\ label = "merkle_proof_validation_loop"
    /\ height # 0
    /\ path % 2 = 0
    /\ other' = [lo |-> Sibling_i, hi |-> Sibling_i]
    /\ cur' = poseidon_gl(cur, other')
    /\ height' = height - 1
    /\ path' = path \div 2
    /\ rows' = rows + 2 + 17 + 1
    /\ UNCHANGED <<inputs, trees, label, x2, x3, x9, root, quads, memory, registers>>

\* The bit is 1: the current hash is moved to the right, the sibling is left.
LevelIsRight ==
    /\ label = "merkle_proof_validation_loop"
    /\ height # 0
    /\ path % 2 # 0
    /\ other' = [lo |-> cur, hi |-> cur]
    /\ cur' = poseidon_gl(Sibling_i, other')
    /\ height' = height - 1
    /\ path' = path \div 2
    /\ rows' = rows + 2 + 32 + 1
    /\ UNCHANGED <<inputs, trees, label, x2, x3, x9, root, quads, memory, registers>>

\* End of the validation phase.  (A mismatch may be found after fewer rows.)
MemoryHashMismatch ==
    /\ label = "merkle_proof_validation_loop"
    /\ height = 0 /\ x9 = 0
    /\ cur # root
    /\ label' = "fail"
    /\ UNCHANGED <<inputs, trees, x2, x3, x9, root, cur, other, quads, height, path, memory,
                   registers, rows>>


\* The update phase starts with the claimed hash of the page.
MemoryHashOk ==
    /\ label = "merkle_proof_validation_loop"
    /\ height = 0 /\ x9 = 0
    /\ cur = root
    /\ x9' = 1
    /\ cur' = InputPage.hash
    /\ height' = LeafLevel
    /\ path' = x3
    /\ rows' = rows + 1 + 16 + 1 + 1 + 16 + 1
    /\ UNCHANGED <<inputs, trees, label, x2, x3, root, other, quads, memory, registers>>

\* Faulty variant: the current root stays that of the validation phase.
UpdateMemoryHash_KeepRoot ==
    /\ label = "merkle_proof_validation_loop"
    /\ height = 0 /\ x9 # 0
    /\ x2' = x2 + 1
    /\ label' = IF x2' # Len(inputs.pages) THEN "start_page_loop" ELSE "end_page_loop"
    /\ rows' = rows + 1 + 1 + 1
    /\ UNCHANGED <<inputs, trees, x3, x9, root, cur, other, quads, height, path, memory, registers>>

\* End of the update phase, and the next page.
UpdateMemoryHash ==
    /\ label = "merkle_proof_validation_loop"
    /\ height = 0 /\ x9 # 0
    /\ root' = cur
    /\ x2' = x2 + 1
    /\ label' = IF x2' # Len(inputs.pages) THEN "start_page_loop" ELSE "end_page_loop"
    /\ rows' = rows + 1 + 8 + 1 + 1
    /\ UNCHANGED <<inputs, trees, x3, x9, cur, other, quads, height, path, memory, registers>>

\* assert_bootloader_input on the final root.
AssertFinalRootFails ==
    /\ label = "end_page_loop"
    /\ root # inputs.root_after
    /\ label' = "fail"
    /\ UNCHANGED <<inputs, trees, x2, x3, x9, root, cur, other, quads, height, path, memory,
                   registers, rows>>

\* The memory registers, the two query arguments, and the jump to the PC.
LoadRegisters ==
    /\ label = "end_page_loop"
    /\ root = inputs.root_after
    /\ registers' = inputs.registers
    /\ label' = "jumped"
    /\ rows' = rows + 8 + 36 + 2 * 2 + 1
    /\ UNCHANGED <<inputs, trees, x2, x3, x9, root, cur, other, quads, height, path, memory>>

BootStep ==
    \/ InitBootloader \/ PageNumberZero \/ PageNumberOk \/ HashQuad
    \/ LevelIsLeft \/ LevelIsRight \/ MemoryHashMismatch \/ MemoryHashOk
    \/ UpdateMemoryHash \/ AssertFinalRootFails \/ LoadRegisters

BootSpec == BootInit /\ [][BootStep]_bootVars

-----------------------------------------------------------------------------
(* What the bootloader promises *)

Labels == {"init", "start_page_loop", "hash_page", "merkle_proof_validation_loop",
           "end_page_loop", "jumped", "fail"}

BootTypeOK ==
    /\ label \in Labels
    /\ x2 \in 0 .. Len(inputs.pages)
    /\ x3 \in PageIndex /\ x9 \in 0 .. 1
    /\ quads \in 0 .. N_QUADS
    /\ height \in Level /\ path \in Node(height)
    /\ memory \in [PageIndex -> PageData]

\* A function from nodes to hashes that is a Merkle tree.
IsMerkleTree(t) ==
    \A l \in 0 .. (N_LEVELS - 2) : \A i \in Node(l) :
        t[l][i] = hash_cap0(t[l + 1][i * 2], t[l + 1][i * 2 + 1])

\* One page of the inputs as the dry run makes it: the words in the tree
\* before the page is updated, its hash in the tree after, and a proof that is
\* the same in both.
HonestPage(page, before, after) ==
    /\ page.number \in PageIndex \ {0}
    /\ page.words \in PageData
    /\ hash_page(page.words) = before[LeafLevel][page.number]
    /\ page.hash = after[LeafLevel][page.number]
    /\ \A l \in 1 .. LeafLevel :
           /\ page.proof[l] = before[l][Sibling(iter_path(page.number, l))]
           /\ page.proof[l] = after[l][Sibling(iter_path(page.number, l))]

\* The inputs are the ones for a run of the tree through the updates of the
\* pages, in the order of the inputs.
Honest ==
    /\ \A j \in 1 .. (Len(inputs.pages) + 1) : IsMerkleTree(trees[j])
    /\ \A j \in 1 .. Len(inputs.pages) : HonestPage(inputs.pages[j], trees[j], trees[j + 1])
    /\ inputs.root_before = trees[1][0][0]
    /\ inputs.root_after = trees[Len(inputs.pages) + 1][0][0]

\* The bootloader never fails on honest inputs: neither the two roots of a page,
\* computed in scratch space that earlier pages have used, nor the final root
\* can be rejected.
HonestInputsAccepted == Honest => label # "fail"

=============================================================================
