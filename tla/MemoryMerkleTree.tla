-------------------------- MODULE MemoryMerkleTree --------------------------
(***************************************************************************)
(* The Merkle tree over memory pages that the continuations dry run keeps  *)
(* (riscv/src/continuations/memory_merkle_tree.rs).                        *)
(*                                                                         *)
(* The tree is sparse: `hashes' holds only the nodes that were updated,    *)
(* every other node has the default hash of its level.  `update' writes    *)
(* the leaves of several pages and then rehashes their ancestors level by  *)
(* level; `update_page' does the same for the path of a single page.  One  *)
(* level of either loop is one step here, and the loop must finish before  *)
(* the next operation starts.                                              *)
(***************************************************************************)
EXTENDS MerkleShape

VARIABLES
    hashes,   \* <<level, index>> -> hash, for the nodes that are not default
    data,     \* page index -> words, for the pages that were ever updated
    updated,  \* indices whose ancestors are still to be rehashed
    level,    \* level of the indices in `updated'
    single    \* the page of an `update_page' in progress, or -1

treeVars == <<hashes, data, updated, level, single>>

Idle == level = 0

-----------------------------------------------------------------------------
(* Reading the tree *)

get_hash(l, i) ==
    IF <<l, i>> \in DOMAIN hashes THEN hashes[<<l, i>>] ELSE default_hashes[l]

page_data(p) == IF p \in DOMAIN data THEN data[p] ELSE zero_page

root_hash == get_hash(0, 0)

\* Faulty variant: the nodes of the path instead of their siblings.
Siblings_OfPath(p) == [l \in 1 .. LeafLevel |-> get_hash(l, iter_path(p, l))]

\* The proof that `get' returns: the siblings along the path, without the root.
Siblings(p) == [l \in 1 .. LeafLevel |-> get_hash(l, Sibling(iter_path(p, l)))]

-----------------------------------------------------------------------------
(* Updating the tree *)

Init ==
    /\ hashes = << >>
    /\ data = << >>
    /\ updated = {}
    /\ level = 0
    /\ single = -1

\* A page after some of its words were overwritten.
update_page_impl(p, words) ==
    [w \in 0 .. (WORDS_PER_PAGE - 1) |->
        IF w \in DOMAIN words THEN words[w] ELSE page_data(p)[w]]

\* The updates of one page among a set of address updates.
organize_updates_by_page(updates, p) ==
    LET mine == {w \in 0 .. (WORDS_PER_PAGE - 1) :
                    p * WORDS_PER_PAGE + w \in DOMAIN updates}
    IN  [w \in mine |-> updates[p * WORDS_PER_PAGE + w]]

\* The keys of the map by page: the pages with at least one updated word.
UpdatedPages(updates) ==
    {p \in PageIndex : DOMAIN organize_updates_by_page(updates, p) # {}}

\* The sparse map `old' with the entries of `new' inserted or overwritten.
Insert(old, new) ==
    [k \in DOMAIN old \cup DOMAIN new |-> IF k \in DOMAIN new THEN new[k] ELSE old[k]]

\* Faulty variant: the leaf hash is computed before the page is written.
WriteLeaves_StaleHash(pages) ==
    /\ data' = Insert(data, pages)
    /\ hashes' = Insert(hashes, [k \in {<<LeafLevel, p>> : p \in DOMAIN pages} |->
                                    hash_page(page_data(k[2]))])
    /\ updated' = DOMAIN pages
    /\ level' = LeafLevel

\* Write whole pages and their leaf hashes; the ancestors are still to do.
WriteLeaves(pages) ==
    /\ data' = Insert(data, pages)
    /\ hashes' = Insert(hashes, [k \in {<<LeafLevel, p>> : p \in DOMAIN pages} |->
                                    hash_page(pages[k[2]])])
    /\ updated' = DOMAIN pages
    /\ level' = LeafLevel

\* `update': many pages at once.
StartUpdate(updates) ==
    /\ Idle
    /\ WriteLeaves([p \in UpdatedPages(updates) |->
                       update_page_impl(p, organize_updates_by_page(updates, p))])
    /\ single' = -1

\* `update_page': one page, whose words are given by their index in the page.
StartUpdatePage(p, words) ==
    /\ Idle
    /\ WriteLeaves([q \in {p} |-> update_page_impl(q, words)])
    /\ single' = p

\* Faulty variant: the indices are not those of the level above.
update_inner_hash_SameIndices ==
    /\ ~Idle
    /\ updated' = updated
    /\ level' = level - 1
    /\ hashes' = Insert(hashes, [k \in {<<level - 1, i>> : i \in level_up(updated)} |->
                                    hash_cap0(get_hash(level, k[2] * 2),
                                              get_hash(level, k[2] * 2 + 1))])
    /\ UNCHANGED <<data, single>>

\* One round of the loop over the levels: rehash the parents of `updated'.
update_inner_hash ==
    /\ ~Idle
    /\ updated' = level_up(updated)
    /\ level' = level - 1
    /\ hashes' = Insert(hashes, [k \in {<<level - 1, i>> : i \in level_up(updated)} |->
                                    hash_cap0(get_hash(level, k[2] * 2),
                                              get_hash(level, k[2] * 2 + 1))])
    /\ UNCHANGED <<data, single>>

Next ==
    \/ \E dom \in SUBSET Address : \E updates \in [dom -> Word] : StartUpdate(updates)
    \/ \E p \in PageIndex, dom \in SUBSET (0 .. (WORDS_PER_PAGE - 1)) :
           \E words \in [dom -> Word] : StartUpdatePage(p, words)
    \/ update_inner_hash

Spec == Init /\ [][Next]_treeVars

-----------------------------------------------------------------------------
(* Properties *)

TypeOK ==
    /\ \A k \in DOMAIN hashes : k[1] \in Level /\ k[2] \in Node(k[1])
    /\ \A p \in DOMAIN data : p \in PageIndex /\ data[p] \in PageData
    /\ level \in Level
    /\ updated \subseteq Node(level)
    /\ single \in PageIndex \cup {-1}

\* The hash of an inner node is the hash of its two children.
Rehashed(l, i) ==
    get_hash(l, i) = hash_cap0(get_hash(l + 1, i * 2), get_hash(l + 1, i * 2 + 1))

\* Every leaf hash is the hash of the page's current words and the only stale
\* inner nodes are the parents of `updated'.  So when no update is in progress
\* (level 0 has no parents) the sparse, incrementally maintained tree is a
\* Merkle tree of the current pages.
TreeConsistent ==
    /\ \A p \in PageIndex : get_hash(LeafLevel, p) = hash_page(page_data(p))
    /\ \A l \in 0 .. (N_LEVELS - 2) : \A i \in Node(l) :
           Rehashed(l, i) \/ (l = level - 1 /\ i \in level_up(updated))

\* While `update_page' writes a page and rehashes its path, none of the hashes
\* in that page's Merkle proof changes: the dry run asserts this after every
\* page it updates.
ProofOfUpdatedPageStable ==
    [][\A p \in PageIndex : single' = p => Siblings(p)' = Siblings(p)]_treeVars
=============================================================================
