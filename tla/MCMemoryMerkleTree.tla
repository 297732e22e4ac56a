------------------------- MODULE MCMemoryMerkleTree -------------------------
(* A tree of four pages with symbolic, collision-free hashes. *)
EXTENDS MemoryMerkleTree, Sequences

MCHashCap0(a, b) == <<a, b>>
MCHashPage(p) == p

RECURSIVE MCDefaultHash(_)
MCDefaultHash(l) ==
    IF l = LeafLevel THEN MCHashPage(zero_page)
    ELSE MCHashCap0(MCDefaultHash(l + 1), MCDefaultHash(l + 1))
MCDefaultHashes == [l \in Level |-> MCDefaultHash(l)]

\* The Merkle root computed from all the pages, without the cached hashes.
RECURSIVE ReferenceHash(_, _)
ReferenceHash(l, i) ==
    IF l = LeafLevel THEN hash_page(page_data(i))
    ELSE hash_cap0(ReferenceHash(l + 1, i * 2), ReferenceHash(l + 1, i * 2 + 1))

\* Between updates the root kept in the sparse tree is the root of a tree
\* rebuilt from scratch, as the unit tests of the module check on five updates.
RootIsReference == Idle => root_hash = ReferenceHash(0, 0)

\* Hashing a page up with the siblings of its proof, as the bootloader does.
RECURSIVE HashUp(_, _, _, _)
HashUp(h, i, l, proof) ==
    IF l = 0 THEN h
    ELSE HashUp(IF i % 2 = 0 THEN hash_cap0(h, proof[l]) ELSE hash_cap0(proof[l], h),
                i \div 2, l - 1, proof)

\* Between updates the proof that `get' returns for any page, present in the
\* map or not, leads from the page's words to the root.
EveryProofVerifies ==
    Idle => \A p \in PageIndex :
                HashUp(hash_page(page_data(p)), p, LeafLevel, Siblings(p)) = root_hash
=============================================================================
