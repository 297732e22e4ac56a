---------------------------- MODULE MCBootloader ----------------------------
(* A tree of four pages of two quads with symbolic, collision-free hashes; the
   inputs of the dry run, and variants of them with one value changed. *)
EXTENDS Bootloader, FiniteSets, FiniteSetsExt, SequencesExt

MCHashCap0(a, b) == <<"hash", a, b>>
MCMixed(a, b) == <<"mixed", a, b>>
MCZeroHash == <<"zero">>
MCQuad(words, k) == <<"quad">> \o [i \in 1 .. 4 |-> words[4 * (k - 1) + i - 1]]

RECURSIVE MCHashPrefix(_, _)
MCHashPrefix(words, k) ==
    IF k = 0 THEN MCZeroHash ELSE MCHashCap0(MCHashPrefix(words, k - 1), MCQuad(words, k))
MCHashPage(words) == MCHashPrefix(words, WORDS_PER_PAGE \div 4)

RECURSIVE MCDefaultHash(_)
MCDefaultHash(l) ==
    IF l = LeafLevel THEN MCHashPage(zero_page)
    ELSE MCHashCap0(MCDefaultHash(l + 1), MCDefaultHash(l + 1))
MCDefaultHashes == [l \in Level |-> MCDefaultHash(l)]

\* Hash of a node over given leaf hashes.
RECURSIVE NodeHash(_, _, _)
NodeHash(leaves, l, i) ==
    IF l = LeafLevel THEN leaves[i]
    ELSE MCHashCap0(NodeHash(leaves, l + 1, 2 * i), NodeHash(leaves, l + 1, 2 * i + 1))
TreeOf(leaves) == [l \in Level |-> [i \in Node(l) |-> NodeHash(leaves, l, i)]]

\* Three pages that differ in the first and in the last word.
Contents == {zero_page, [zero_page EXCEPT ![0] = 1], [zero_page EXCEPT ![WORDS_PER_PAGE - 1] = 1]}
Leaves(pages) == [p \in PageIndex |-> MCHashPage(pages[p])]

\* The tree after the first j pages of a sequence of pages are updated.
After(start, end, order, j) ==
    TreeOf([p \in PageIndex |->
               IF \E k \in 1 .. j : order[k] = p THEN Leaves(end)[p] ELSE Leaves(start)[p]])

HonestInput(start, end, order) ==
    LET ts == [j \in 1 .. (Len(order) + 1) |-> After(start, end, order, j - 1)]
    IN  [trees  |-> ts,
         inputs |-> [registers   |-> "restored",
                     root_before |-> ts[1][0][0],
                     root_after  |-> ts[Len(order) + 1][0][0],
                     pages       |-> [j \in 1 .. Len(order) |->
                        [number |-> order[j],
                         words  |-> start[order[j]],
                         hash   |-> ts[j + 1][LeafLevel][order[j]],
                         proof  |-> [l \in 1 .. LeafLevel |->
                                        ts[j][l][Sibling(iter_path(order[j], l))]]]]]]

\* Memory before and after the chunk; only the loaded pages may change.
HonestInputs ==
    {HonestInput(start, [p \in PageIndex |-> IF p \in S THEN end[p] ELSE start[p]],
                 SetToSortSeq(S, LAMBDA p, q : p < q)) :
        start \in {[p \in PageIndex |-> IF p = 0 THEN zero_page ELSE f[p]] :
                      f \in [1 .. 3 -> Contents \ {[zero_page EXCEPT ![0] = 1]}]},
        end \in {[p \in PageIndex |-> c] : c \in Contents},
        S \in SUBSET (PageIndex \ {0})}

\* One value of the inputs of a page, or one of the roots, is another one.
Variants(x) ==
    LET in == x.inputs
        Page(j, page) == [x EXCEPT !.inputs.pages[j] = page]
    IN  {[x EXCEPT !.inputs.root_before = MCZeroHash], [x EXCEPT !.inputs.root_after = MCZeroHash]}
        \cup UNION {UNION {
            {Page(j, [in.pages[j] EXCEPT !.words = c]) : c \in Contents},
            {Page(j, [in.pages[j] EXCEPT !.hash = MCHashPage(c)]) : c \in Contents},
            {Page(j, [in.pages[j] EXCEPT !.number = p]) :
                p \in (PageIndex \cup {4}) \ {in.pages[k].number : k \in 1 .. Len(in.pages)}},
            {Page(j, [in.pages[j] EXCEPT !.proof[l] = MCDefaultHashes[l]]) : l \in 1 .. LeafLevel}}
            : j \in 1 .. Len(in.pages)}

MCProvided == HonestInputs \cup UNION {Variants(x) : x \in HonestInputs}

\* Faulty variant: the levels are counted for one of the two phases.
bootloader_size_OnePhase(pages) ==
    LET constant_overhead == 1 + 2 + 8 + 1 + 1 + 8 + 36 + 3 * 2 + 1
        cost_per_page_fixed == 3 + 24 + 1 + WORDS_PER_PAGE * 4 + WORDS_PER_PAGE \div 4 + 1
                               + 1 + 16 + 1 + 1 + 16 + 1 + 1 + 8 + 1 + 1
        cost_of_bits(p) == MapThenSumSet(
            LAMBDA i : IF (p \div 2 ^ i) % 2 = 0 THEN 17 + 3 ELSE 32 + 3, 0 .. (LeafLevel - 1))
    IN  constant_overhead + Cardinality(pages) * cost_per_page_fixed
        + MapThenSumSet(cost_of_bits, pages)

\* Rows the bootloader takes: computed from the page numbers before it runs, to
\* know how much of the chunk is left for the program.
bootloader_size(pages) ==
    LET constant_overhead == 1 + 2 + 8 + 1 + 1 + 8 + 36 + 3 * 2 + 1
        cost_per_page_fixed == 3 + 24 + 1 + WORDS_PER_PAGE * 4 + WORDS_PER_PAGE \div 4 + 1
                               + 1 + 16 + 1 + 1 + 16 + 1 + 1 + 8 + 1 + 1
        cost_of_bits(p) == MapThenSumSet(
            LAMBDA i : IF (p \div 2 ^ i) % 2 = 0 THEN (17 + 3) * 2 ELSE (32 + 3) * 2,
            0 .. (LeafLevel - 1))
    IN  constant_overhead + Cardinality(pages) * cost_per_page_fixed
        + MapThenSumSet(cost_of_bits, pages)

\* The estimate that plans the chunk is exactly the number of rows the
\* bootloader takes before the program goes on.
RowsAsEstimated ==
    label = "jumped" =>
        rows = bootloader_size({inputs.pages[j].number % 2 ^ LeafLevel :
                                    j \in 1 .. Len(inputs.pages)})

\* Once the bootloader has jumped, the final root is the initial tree with the
\* leaf of each page replaced by its claimed hash, and nothing else.
FinalRootFollows ==
    label = "jumped" /\ inputs.root_before = trees[1][0][0] =>
        inputs.root_after = NodeHash([p \in PageIndex |->
            IF \E j \in 1 .. Len(inputs.pages) : inputs.pages[j].number % 2 ^ LeafLevel = p
            THEN (CHOOSE page \in Range(inputs.pages) : page.number % 2 ^ LeafLevel = p).hash
            ELSE trees[1][LeafLevel][p]], 0, 0)
=============================================================================
