----------------------- MODULE MemoryMerkleTreeProofs -----------------------
(* Proofs about MemoryMerkleTree for every depth, page size and hash function. *)
EXTENDS MemoryMerkleTree, MerkleShapeProofs

\* Writing a set of well-typed pages keeps the tree well typed.
LEMMA WriteLeavesTyping ==
    ASSUME TypeOK, NEW pages, DOMAIN pages \subseteq PageIndex,
           \A p \in DOMAIN pages : pages[p] \in PageData,
           WriteLeaves(pages), single' \in PageIndex \cup {-1}
    PROVE  TypeOK'
  BY LevelFacts DEF TypeOK, WriteLeaves, Insert, PageIndex

\* Every hash is at a node of the tree and every page has the right shape.
THEOREM Typing == Spec => []TypeOK
<1>1. Init => TypeOK
  BY LevelFacts DEF Init, TypeOK, Node
<1>2. TypeOK /\ [Next]_treeVars => TypeOK'
  <2> SUFFICES ASSUME TypeOK, [Next]_treeVars PROVE TypeOK'
    OBVIOUS
  <2>0. \A p : page_data(p) \in PageData
    BY WordAssumption DEF TypeOK, page_data, zero_page, PageData
  <2>2. ASSUME NEW dom \in SUBSET Address, NEW updates \in [dom -> Word], StartUpdate(updates)
        PROVE  TypeOK'
    <3> DEFINE pages == [p \in UpdatedPages(updates) |->
                            update_page_impl(p, organize_updates_by_page(updates, p))]
    <3>1. DOMAIN pages \subseteq PageIndex
      BY DEF UpdatedPages
    <3>2. \A p \in DOMAIN pages : pages[p] \in PageData
      BY <2>0 DEF update_page_impl, organize_updates_by_page, PageData
    <3>3. WriteLeaves(pages) /\ single' = -1
      BY <2>2 DEF StartUpdate
    <3> HIDE DEF pages
    <3> QED
      BY <3>1, <3>2, <3>3, WriteLeavesTyping
  <2>3. ASSUME NEW p \in PageIndex, NEW dom \in SUBSET (0 .. (WORDS_PER_PAGE - 1)),
               NEW words \in [dom -> Word], StartUpdatePage(p, words)
        PROVE  TypeOK'
    <3> DEFINE pages == [q \in {p} |-> update_page_impl(q, words)]
    <3>1. DOMAIN pages \subseteq PageIndex
      OBVIOUS
    <3>2. \A q \in DOMAIN pages : pages[q] \in PageData
      BY <2>0 DEF update_page_impl, PageData
    <3>3. WriteLeaves(pages) /\ single' = p
      BY <2>3 DEF StartUpdatePage
    <3> HIDE DEF pages
    <3> QED
      BY <3>1, <3>2, <3>3, WriteLeavesTyping
  <2>4. ASSUME update_inner_hash PROVE TypeOK'
    <3>1. level - 1 \in Level /\ level # 0
      BY <2>4, TreeShape DEF TypeOK, update_inner_hash, Idle, Level
    <3>2. level_up(updated) \subseteq Node(level - 1)
      BY <3>1, ParentNode DEF level_up, TypeOK
    <3> QED
      BY <2>4, <3>1, <3>2 DEF TypeOK, update_inner_hash, Insert
  <2>5. CASE UNCHANGED treeVars
    BY <2>5 DEF treeVars, TypeOK
  <2> QED
    BY <2>2, <2>3, <2>4, <2>5 DEF Next
<1> QED
  BY <1>1, <1>2, PTL DEF Spec
-----------------------------------------------------------------------------
(* The sparse tree is a Merkle tree of the current pages *)

\* Reading a node after entries were inserted.
LEMMA GetHashAfterInsert ==
    ASSUME NEW new, hashes' = Insert(hashes, new), NEW l, NEW i
    PROVE  get_hash(l, i)' = IF <<l, i>> \in DOMAIN new THEN new[<<l, i>>] ELSE get_hash(l, i)
  BY DEF get_hash, Insert

\* Writing leaves makes only their parents stale.
LEMMA WriteLeavesConsistent ==
    ASSUME TypeOK, TreeConsistent, Idle, NEW pages, DOMAIN pages \subseteq PageIndex,
           WriteLeaves(pages)
    PROVE  TreeConsistent'
<1> DEFINE new == [k \in {<<LeafLevel, p>> : p \in DOMAIN pages} |-> hash_page(pages[k[2]])]
<1>1. \A l, i : get_hash(l, i)' = IF l = LeafLevel /\ i \in DOMAIN pages
                                 THEN hash_page(pages[i]) ELSE get_hash(l, i)
  <2> SUFFICES ASSUME NEW l, NEW i
               PROVE  get_hash(l, i)' = IF l = LeafLevel /\ i \in DOMAIN pages
                                        THEN hash_page(pages[i]) ELSE get_hash(l, i)
    OBVIOUS
  <2>1. get_hash(l, i)' = IF <<l, i>> \in DOMAIN new THEN new[<<l, i>>] ELSE get_hash(l, i)
    BY GetHashAfterInsert DEF WriteLeaves
  <2>2. <<l, i>> \in DOMAIN new <=> l = LeafLevel /\ i \in DOMAIN pages
    OBVIOUS
  <2> QED
    BY <2>1, <2>2
<1>2. \A p \in PageIndex : get_hash(LeafLevel, p)' = hash_page(page_data(p)')
  BY <1>1 DEF TreeConsistent, WriteLeaves, page_data, Insert
<1>3. ASSUME NEW l \in 0 .. (N_LEVELS - 2), NEW i \in Node(l)
      PROVE  Rehashed(l, i)' \/ (l = level' - 1 /\ i \in level_up(updated'))
  <2>1. Rehashed(l, i)
    BY <1>3, TreeShape DEF TreeConsistent, Idle
  <2>2. l # LeafLevel
    BY TreeShape DEF LeafLevel
  <2>3. CASE l + 1 = LeafLevel /\ (i * 2 \in DOMAIN pages \/ i * 2 + 1 \in DOMAIN pages)
    <3>1. i \in {j \div 2 : j \in DOMAIN pages}
      BY <2>3, ChildNode, Halves
    <3> QED
      BY <2>3, <3>1 DEF level_up, WriteLeaves
  <2>4. CASE ~(l + 1 = LeafLevel /\ (i * 2 \in DOMAIN pages \/ i * 2 + 1 \in DOMAIN pages))
    BY <2>1, <2>2, <2>4, <1>1 DEF Rehashed
  <2> QED
    BY <2>3, <2>4
<1> QED
  BY <1>2, <1>3 DEF TreeConsistent, LeafLevel

\* Rehashing the stale nodes of a level makes only their parents stale.
LEMMA RehashConsistent ==
    ASSUME TypeOK, TreeConsistent, update_inner_hash
    PROVE  TreeConsistent'
<1> DEFINE up == level_up(updated)
<1> DEFINE new == [k \in {<<level - 1, i>> : i \in up} |->
                      hash_cap0(get_hash(level, k[2] * 2), get_hash(level, k[2] * 2 + 1))]
<1>0. level \in Nat /\ level - 1 \in 0 .. (N_LEVELS - 2) /\ level - 1 # LeafLevel
  BY TreeShape DEF TypeOK, update_inner_hash, Idle, Level, LeafLevel
<1>1. \A l, i : get_hash(l, i)' =
                   IF l = level - 1 /\ i \in up
                   THEN hash_cap0(get_hash(level, i * 2), get_hash(level, i * 2 + 1))
                   ELSE get_hash(l, i)
  <2> SUFFICES ASSUME NEW l, NEW i
               PROVE  get_hash(l, i)' =
                   IF l = level - 1 /\ i \in up
                   THEN hash_cap0(get_hash(level, i * 2), get_hash(level, i * 2 + 1))
                   ELSE get_hash(l, i)
    OBVIOUS
  <2>1. get_hash(l, i)' = IF <<l, i>> \in DOMAIN new THEN new[<<l, i>>] ELSE get_hash(l, i)
    BY GetHashAfterInsert DEF update_inner_hash
  <2>2. <<l, i>> \in DOMAIN new <=> l = level - 1 /\ i \in up
    OBVIOUS
  <2>3. <<l, i>> \in DOMAIN new =>
           new[<<l, i>>] = hash_cap0(get_hash(level, i * 2), get_hash(level, i * 2 + 1))
    OBVIOUS
  <2> HIDE DEF new, up
  <2> QED
    BY <2>1, <2>2, <2>3
<1>2. updated' = up /\ level' = level - 1 /\ data' = data
  BY DEF update_inner_hash
<1> HIDE DEF new, up
<1>3. \A p \in PageIndex : get_hash(LeafLevel, p)' = hash_page(page_data(p)')
  BY <1>0, <1>1, <1>2 DEF TreeConsistent, page_data
<1>4. ASSUME NEW l \in 0 .. (N_LEVELS - 2), NEW i \in Node(l)
      PROVE  Rehashed(l, i)' \/ (l = level' - 1 /\ i \in level_up(updated'))
  <2>1. Rehashed(l, i) \/ (l = level - 1 /\ i \in up)
    BY <1>4 DEF TreeConsistent, up
  <2>2. CASE l = level - 1 /\ i \in up
    <3>1. get_hash(l + 1, i * 2)' = get_hash(l + 1, i * 2)
        /\ get_hash(l + 1, i * 2 + 1)' = get_hash(l + 1, i * 2 + 1)
        /\ l + 1 = level
      BY <1>0, <1>1, <2>2
    <3>2. get_hash(l, i)' = hash_cap0(get_hash(level, i * 2), get_hash(level, i * 2 + 1))
      BY <1>1, <2>2
    <3> QED
      BY <3>1, <3>2 DEF Rehashed
  <2>3. CASE l + 1 = level - 1 /\ (i * 2 \in up \/ i * 2 + 1 \in up)
    <3>1. i \in {j \div 2 : j \in up}
      BY <2>3, ChildNode, Halves
    <3> QED
      BY <1>2, <2>3, <3>1 DEF level_up
  <2>4. CASE ~(l = level - 1 /\ i \in up)
             /\ ~(l + 1 = level - 1 /\ (i * 2 \in up \/ i * 2 + 1 \in up))
    BY <1>1, <2>1, <2>4 DEF Rehashed
  <2> QED
    BY <2>2, <2>3, <2>4
<1> QED
  BY <1>3, <1>4 DEF TreeConsistent, LeafLevel

\* For every depth, page size, word set and hash function: between updates the
\* incrementally maintained sparse tree is a Merkle tree of the current pages.
THEOREM TreeIsConsistent == Spec => []TreeConsistent
<1>1. Init => TreeConsistent
  <2> SUFFICES ASSUME Init PROVE TreeConsistent
    OBVIOUS
  <2>1. \A l, i : get_hash(l, i) = default_hashes[l]
    BY DEF Init, get_hash
  <2>2. \A p : page_data(p) = zero_page
    BY DEF Init, page_data
  <2> QED
    BY <2>1, <2>2, DefaultHashAssumption DEF TreeConsistent, Rehashed, DefaultHashesPerLevel
<1>2. TypeOK /\ TreeConsistent /\ [Next]_treeVars => TreeConsistent'
  <2> SUFFICES ASSUME TypeOK, TreeConsistent, [Next]_treeVars PROVE TreeConsistent'
    OBVIOUS
  <2>1. ASSUME NEW dom \in SUBSET Address, NEW updates \in [dom -> Word], StartUpdate(updates)
        PROVE  TreeConsistent'
    <3> DEFINE pages == [p \in UpdatedPages(updates) |->
                            update_page_impl(p, organize_updates_by_page(updates, p))]
    <3>1. DOMAIN pages \subseteq PageIndex
      BY DEF UpdatedPages
    <3>2. WriteLeaves(pages) /\ Idle
      BY <2>1 DEF StartUpdate
    <3> HIDE DEF pages
    <3> QED
      BY <3>1, <3>2, WriteLeavesConsistent
  <2>2. ASSUME NEW p \in PageIndex, NEW dom \in SUBSET (0 .. (WORDS_PER_PAGE - 1)),
               NEW words \in [dom -> Word], StartUpdatePage(p, words)
        PROVE  TreeConsistent'
    <3> DEFINE pages == [q \in {p} |-> update_page_impl(q, words)]
    <3>1. DOMAIN pages \subseteq PageIndex
      OBVIOUS
    <3>2. WriteLeaves(pages) /\ Idle
      BY <2>2 DEF StartUpdatePage
    <3> HIDE DEF pages
    <3> QED
      BY <3>1, <3>2, WriteLeavesConsistent
  <2>3. CASE update_inner_hash
    BY <2>3, RehashConsistent
  <2>4. CASE UNCHANGED treeVars
    BY <2>4 DEF treeVars, TreeConsistent, get_hash, page_data, Rehashed
  <2> QED
    BY <2>1, <2>2, <2>3, <2>4 DEF Next
<1> QED
  BY <1>1, <1>2, Typing, PTL DEF Spec
-----------------------------------------------------------------------------
(* The path of a page *)

\* What is left to rehash for `update_page' is the ancestor of its page.
PathInv == single \in PageIndex => updated = {iter_path(single, level)}

\* PathInv is an invariant.
LEMMA PathInvariant == Spec => []PathInv
<1>1. Init => PathInv
  BY DEF Init, PathInv, PageIndex, Node
<1>2. TypeOK /\ PathInv /\ [Next]_treeVars => PathInv'
  <2> SUFFICES ASSUME TypeOK, PathInv, [Next]_treeVars PROVE PathInv'
    OBVIOUS
  <2>1. ASSUME NEW updates, StartUpdate(updates) PROVE PathInv'
    BY <2>1 DEF StartUpdate, PathInv, PageIndex, Node
  <2>2. ASSUME NEW p \in PageIndex, NEW words, StartUpdatePage(p, words) PROVE PathInv'
    <3>1. single' = p /\ updated' = {p} /\ level' = LeafLevel
      BY <2>2 DEF StartUpdatePage, WriteLeaves
    <3> QED
      BY <3>1, PathLeaf DEF PathInv
  <2>3. ASSUME update_inner_hash PROVE PathInv'
    <3> SUFFICES ASSUME single \in PageIndex
                 PROVE  updated' = {iter_path(single, level')}
      BY <2>3 DEF update_inner_hash, PathInv
    <3>1. level # 0 /\ level' = level - 1 /\ updated' = {i \div 2 : i \in updated}
      BY <2>3 DEF update_inner_hash, Idle, level_up
    <3>2. updated = {iter_path(single, level)}
      BY DEF PathInv
    <3>3. iter_path(single, level) \div 2 = iter_path(single, level - 1)
      BY <3>1, PathUp, PathLeaf DEF TypeOK
    <3> QED
      BY <3>1, <3>2, <3>3
  <2>4. CASE UNCHANGED treeVars
    BY <2>4 DEF treeVars, PathInv
  <2> QED
    BY <2>1, <2>2, <2>3, <2>4 DEF Next
<1> QED
  BY <1>1, <1>2, Typing, PTL DEF Spec

\* Writing nodes on the path of a page leaves the siblings of the path alone.
LEMMA SiblingsUntouched ==
    ASSUME NEW p \in PageIndex, NEW m \in Level, NEW new,
           hashes' = Insert(hashes, new),
           \A k \in DOMAIN new : k = <<m, iter_path(p, m)>>
    PROVE  Siblings(p)' = Siblings(p)
<1>1. ASSUME NEW l \in 1 .. LeafLevel
      PROVE  get_hash(l, Sibling(iter_path(p, l)))' = get_hash(l, Sibling(iter_path(p, l)))
  <2>1. l \in Level
    BY LevelFacts DEF Level, LeafLevel
  <2>2. Sibling(iter_path(p, l)) # iter_path(p, l)
    BY <2>1, PathNat, PathLeaf, SiblingDiffers
  <2>3. <<l, Sibling(iter_path(p, l))>> \notin DOMAIN new
    BY <2>2
  <2> QED
    BY <2>3, GetHashAfterInsert
<1> QED
  BY <1>1 DEF Siblings

\* For every depth, page size and hash function: `update_page' never changes a
\* hash in the Merkle proof of the page it updates, the assertion the dry run
\* makes after each page.
THEOREM UpdatedPageKeepsProof == Spec => ProofOfUpdatedPageStable
<1>1. TypeOK /\ PathInv /\ [Next]_treeVars
      => [\A p \in PageIndex : single' = p => Siblings(p)' = Siblings(p)]_treeVars
  <2> SUFFICES ASSUME TypeOK, PathInv, Next, NEW p \in PageIndex, single' = p
               PROVE  Siblings(p)' = Siblings(p)
    OBVIOUS
  <2>1. ASSUME NEW updates, StartUpdate(updates) PROVE Siblings(p)' = Siblings(p)
    BY <2>1 DEF StartUpdate, PageIndex, Node
  <2>2. ASSUME NEW q \in PageIndex, NEW words, StartUpdatePage(q, words)
        PROVE  Siblings(p)' = Siblings(p)
    <3> DEFINE pages == [r \in {q} |-> update_page_impl(r, words)]
               new == [k \in {<<LeafLevel, r>> : r \in DOMAIN pages} |->
                          hash_page(pages[k[2]])]
    <3>1. q = p /\ hashes' = Insert(hashes, new)
      BY <2>2 DEF StartUpdatePage, WriteLeaves
    <3>2. \A k \in DOMAIN new : k = <<LeafLevel, iter_path(p, LeafLevel)>>
      BY <3>1, PathLeaf
    <3> HIDE DEF new
    <3> QED
      BY <3>1, <3>2, SiblingsUntouched, LevelFacts
  <2>3. ASSUME update_inner_hash PROVE Siblings(p)' = Siblings(p)
    <3> DEFINE new == [k \in {<<level - 1, i>> : i \in level_up(updated)} |->
                          hash_cap0(get_hash(level, k[2] * 2), get_hash(level, k[2] * 2 + 1))]
    <3>1. hashes' = Insert(hashes, new) /\ single = p /\ level # 0
      BY <2>3 DEF update_inner_hash, Idle
    <3>2. level_up(updated) = {iter_path(p, level) \div 2}
      BY <3>1 DEF PathInv, level_up
    <3>3. iter_path(p, level) \div 2 = iter_path(p, level - 1)
      BY <3>1, PathUp, PathLeaf DEF TypeOK
    <3>4. \A k \in DOMAIN new : k = <<level - 1, iter_path(p, level - 1)>>
      BY <3>2, <3>3
    <3>5. level - 1 \in Level
      BY <3>1, TreeShape DEF TypeOK, Level
    <3> HIDE DEF new
    <3> QED
      BY <3>1, <3>4, <3>5, SiblingsUntouched
  <2> QED
    BY <2>1, <2>2, <2>3 DEF Next
<1> QED
  BY <1>1, Typing, PathInvariant, PTL DEF Spec, ProofOfUpdatedPageStable
=============================================================================
