-------------------------------- MODULE MBTree --------------------------------
(***************************************************************************)
(* The Merkle B+ tree in backend memory, src/backend/mbt/mbtree.c:         *)
(* bplus_tree_put with its two halves, bplus_tree_insert and               *)
(* bplus_tree_delete, and the splits, shifts and merges under them.        *)
(*                                                                         *)
(* A node's key, data and sub_ptr arrays are sequences of their valid      *)
(* part; nothing here reads beyond it.  The tids of the leaves, which no   *)
(* operation here looks at, are added by MBTreeTids.                       *)
(***************************************************************************)
EXTENDS Integers, Sequences, FiniteSets, SequencesExt

CONSTANTS Keys,     \* the keys of rows
          Order,    \* most children of an inner node
          Entries,  \* most entries of a leaf
          MaxNodes, \* bound on the nodes in memory
          Row(_)    \* the data of a key's row

ASSUME TreeAssumption == /\ Keys \subseteq Int
                         /\ Order \in Nat /\ Order >= 3
                         /\ Entries \in Nat \ {0}
                         /\ MaxNodes \in Nat

VARIABLES tree,      \* the tree, a record of its fields and the memory it uses
          answer,    \* what bplus_tree_put returned
          found,     \* history: the keys that a search of the tree finds
          leftsplit  \* history: a full leaf was split to its left

vars == <<tree, answer, found, leftsplit>>

Null == 0

Half(n) == (n + 1) \div 2

-------------------------------------------------------------------------------
(* key_binary_search: the place of target, or where it belongs as -place - 1 *)

BinarySearch(arr, target) ==
  LET len == Len(arr)
      Bisect[low \in -1 .. len, high \in 0 .. len] ==
        LET mid == low + (high - low) \div 2
        IN  IF low + 1 >= high THEN high
            ELSE IF target > arr[mid + 1] THEN Bisect[mid, high]
            ELSE Bisect[low, mid]
      high == Bisect[-1, len]
  IN  IF high >= len \/ arr[high + 1] # target THEN -high - 1 ELSE high

(* The place a search falls on, whether it hits or not. *)
Place(arr, target) == LET i == BinarySearch(arr, target)
                      IN  IF i >= 0 THEN i ELSE -i - 1

(* The leaf the descent from the root ends in. *)
RECURSIVE Descend(_, _, _)
Descend(T, n, k) ==
  IF T.node[n].leaf THEN n
  ELSE LET i == BinarySearch(T.node[n].key, k)
       IN  Descend(T, T.node[n].sub[(IF i >= 0 THEN i + 1 ELSE -i - 1) + 1], k)

-------------------------------------------------------------------------------
(* Memory and the lists that link the nodes of a level *)

(* leaf_new and non_leaf_new, with the first keys, data and children *)
NewLeaf(key, data) == [leaf |-> TRUE, key |-> key, data |-> data, sub |-> <<>>,
                       parent |-> Null, pki |-> -1]
NewInner(key, sub) == [leaf |-> FALSE, key |-> key, data |-> <<>>, sub |-> sub,
                       parent |-> Null, pki |-> -1]
Gone == NewInner(<<>>, <<>>)

(* malloc returns a block that is not in use. *)
Unused(T) == {n \in DOMAIN T.node : T.node[n] = Gone}
NewId(T) == CHOOSE n \in Unused(T) : \A m \in Unused(T) : n <= m
Allocate(T, record) == [T EXCEPT !.node[NewId(T)] = record]

IndexIn(seq, n) == CHOOSE i \in 1 .. Len(seq) : seq[i] = n
LevelOf(T, n) == CHOOSE l \in DOMAIN T.list : n \in Range(T.list[l])
PrevEntry(T, n) == LET s == T.list[LevelOf(T, n)] IN s[IndexIn(s, n) - 1]
NextEntry(T, n) == LET s == T.list[LevelOf(T, n)] IN s[IndexIn(s, n) + 1]

LinkBefore(T, n, new) ==
  [T EXCEPT !.list[LevelOf(T, n)] = InsertAt(@, IndexIn(@, n), new)]
LinkAfter(T, n, new) ==
  [T EXCEPT !.list[LevelOf(T, n)] = InsertAt(@, IndexIn(@, n) + 1, new)]

(* assert: the tree remembers that one failed. *)
Asserting(T, condition) == [T EXCEPT !.asserted = @ /\ condition]

(* list_del and free *)
Delete(T, n) == [T EXCEPT !.list[LevelOf(T, n)] = RemoveAt(@, IndexIn(@, n)),
                          !.node[n] = Gone]

(* The numbers of nodes stand for their addresses and mean nothing: after  *)
(* a put they are given out again, level by level from the leaves.         *)
Nodes(T) == FlattenSeq([l \in 1 .. T.level + 1 |-> T.list[l - 1]])
Renumber(T) ==
  LET nodes == Nodes(T)
      New(n) == CASE n \in Range(nodes) -> IndexIn(nodes, n)
                  [] n = Null -> Null
                  [] OTHER -> MaxNodes + 1  \* dangling
      Renew(seq) == [i \in DOMAIN seq |-> New(seq[i])]
  IN  [T EXCEPT
         !.root = New(@),
         !.list = [l \in DOMAIN @ |-> Renew(@[l])],
         !.node = [n \in DOMAIN @ |->
                     IF n > Len(nodes) THEN Gone
                     ELSE [@[nodes[n]] EXCEPT !.parent = New(@), !.sub = Renew(@)]]]

(* Children lo to hi of p learn their place, and, with Adopt, their parent. *)
Reindex(T, p, lo, hi) ==
  [T EXCEPT !.node = [n \in DOMAIN @ |->
     IF \E i \in lo .. hi : T.node[p].sub[i] = n
     THEN [@[n] EXCEPT !.pki = IndexIn(T.node[p].sub, n) - 2]
     ELSE @[n]]]
Adopt(T, p, lo, hi) ==
  LET R == Reindex(T, p, lo, hi)
  IN  [R EXCEPT !.node = [n \in DOMAIN @ |->
         IF \E i \in lo .. hi : T.node[p].sub[i] = n
         THEN [@[n] EXCEPT !.parent = p]
         ELSE @[n]]]

-------------------------------------------------------------------------------
(* Insertion into inner nodes *)

RECURSIVE NonLeafInsert(_, _, _, _, _)

ParentNodeBuild(T, l, r, k) ==
  CASE T.node[l].parent = Null /\ T.node[r].parent = Null ->
         LET p == NewId(T)
             A == Allocate(T, NewInner(<<k>>, <<l, r>>))
         IN  Adopt([A EXCEPT !.root = p, !.level = @ + 1,
                             !.list[T.level + 1] = <<p>> \o @], p, 1, 2)
    [] T.node[r].parent = Null /\ T.node[l].parent # Null ->
         NonLeafInsert([T EXCEPT !.node[r].parent = T.node[l].parent],
                       T.node[l].parent, l, r, k)
    [] OTHER ->
         NonLeafInsert([T EXCEPT !.node[l].parent = T.node[r].parent],
                       T.node[r].parent, l, r, k)

(* Keys and children as they are after the insertion, to be kept in one    *)
(* node or dealt out to two.                                               *)
KeysWith(N, k, insert) == InsertAt(N.key, insert + 1, k)
SubsWith(N, l, r, insert) ==
  SubSeq(N.sub, 1, insert) \o <<l, r>> \o SubSeq(N.sub, insert + 2, Len(N.sub))

(* non_leaf_split_left: the new node takes the first half, keep children. *)
NonLeafSplitLeft(T, p, keys, subs, keep) ==
  LET new == NewId(T)
      A == Allocate(T, NewInner(SubSeq(keys, 1, keep - 1), SubSeq(subs, 1, keep)))
      B == [LinkBefore(A, p, new) EXCEPT
              !.node[p].key = SubSeq(keys, keep + 1, Len(keys)),
              !.node[p].sub = SubSeq(subs, keep + 1, Len(subs))]
  IN  Adopt(Adopt(B, new, 1, keep), p, 1, Len(subs) - keep)

(* non_leaf_split_right1 and 2: the new node takes what follows the first  *)
(* keep children.                                                          *)
NonLeafSplitRight(T, p, keys, subs, keep) ==
  LET new == NewId(T)
      A == Allocate(T, NewInner(SubSeq(keys, keep + 1, Len(keys)),
                                SubSeq(subs, keep + 1, Len(subs))))
      B == [LinkAfter(A, p, new) EXCEPT !.node[p].key = SubSeq(keys, 1, keep - 1),
                                        !.node[p].sub = SubSeq(subs, 1, keep)]
  IN  Adopt(B, new, 1, Len(subs) - keep)

(* Mutant of NonLeafSimpleInsert: the children that moved up are not told. *)
SimpleInsertUntold(T, p, keys, subs, insert) ==
  [T EXCEPT !.node[p].key = keys, !.node[p].sub = subs]

NonLeafSimpleInsert(T, p, keys, subs, insert) ==
  Reindex([T EXCEPT !.node[p].key = keys, !.node[p].sub = subs],
          p, insert + 1, Len(subs))

(* The children the left node keeps when a full inner node splits. *)
KeepInner(insert) == IF insert > Half(Order) THEN Half(Order) + 1 ELSE Half(Order)

NonLeafInsert(T, p, l, r, k) ==
  LET N == T.node[p]
      insert == Place(N.key, k)
      keys == KeysWith(N, k, insert)
      subs == SubsWith(N, l, r, insert)
      keep == KeepInner(insert)
      A == Asserting(T, BinarySearch(N.key, k) < 0)
  IN  CASE Len(N.sub) # Order ->
             NonLeafSimpleInsert(A, p, keys, subs, insert)
        [] Len(N.sub) = Order /\ insert < Half(Order) ->
             ParentNodeBuild(NonLeafSplitLeft(A, p, keys, subs, keep),
                             NewId(T), p, keys[keep])
        [] OTHER ->
             ParentNodeBuild(NonLeafSplitRight(A, p, keys, subs, keep),
                             p, NewId(T), keys[keep])

-------------------------------------------------------------------------------
(* Insertion into leaves *)

(* leaf_split_left: the new leaf takes the first half.  The shift of what   *)
(* stays moves the keys, but copies the data into the new leaf.            *)
LeafSplitLeft(T, l, k, insert) ==
  LET N == T.node[l]
      n == Len(N.key)
      s == Half(n)
      new == NewId(T)
      keys == InsertAt(N.key, insert + 1, k)
      data == InsertAt(N.data, insert + 1, Row(k))
      left == NewLeaf(SubSeq(keys, 1, s),
                      [j \in 1 .. s |-> IF j <= n - s + 1 THEN N.data[s - 1 + j] ELSE data[j]])
  IN  [LinkBefore(Allocate(T, left), l, new) EXCEPT
         !.node[l].key = SubSeq(keys, s + 1, n + 1),
         !.node[l].data = SubSeq(N.data, 1, n - s + 1)]

(* leaf_split_right: the new leaf takes the second half. *)
LeafSplitRight(T, l, k, insert) ==
  LET N == T.node[l]
      n == Len(N.key)
      s == Half(n)
      new == NewId(T)
      keys == InsertAt(N.key, insert + 1, k)
      data == InsertAt(N.data, insert + 1, Row(k))
      right == NewLeaf(SubSeq(keys, s + 1, n + 1), SubSeq(data, s + 1, n + 1))
  IN  [LinkAfter(Allocate(T, right), l, new) EXCEPT
         !.node[l].key = SubSeq(keys, 1, s),
         !.node[l].data = SubSeq(data, 1, s)]

LeafSimpleInsert(T, l, k, insert) ==
  [T EXCEPT !.node[l].key = InsertAt(@, insert + 1, k),
            !.node[l].data = InsertAt(@, insert + 1, Row(k))]

(* Mutant of LeafInsert: the separator is the last key to its left. *)
LeafInsertLowSeparator(T, l, k) ==
  LET insert == Place(T.node[l].key, k)
      new == NewId(T)
      L == LeafSplitLeft(T, l, k, insert)
      R == LeafSplitRight(T, l, k, insert)
  IN  CASE Len(T.node[l].key) # Entries -> LeafSimpleInsert(T, l, k, insert)
        [] Len(T.node[l].key) = Entries /\ insert < Half(Entries) ->
             ParentNodeBuild(L, new, l, Last(L.node[new].key))
        [] OTHER -> ParentNodeBuild(R, l, new, Last(R.node[l].key))

LeafInsert(T, l, k) ==
  LET insert == Place(T.node[l].key, k)
      new == NewId(T)
      L == LeafSplitLeft(T, l, k, insert)
      R == LeafSplitRight(T, l, k, insert)
  IN  CASE Len(T.node[l].key) # Entries -> LeafSimpleInsert(T, l, k, insert)
        [] Len(T.node[l].key) = Entries /\ insert < Half(Entries) ->
             ParentNodeBuild(L, new, l, L.node[l].key[1])
        [] OTHER -> ParentNodeBuild(R, l, new, R.node[new].key[1])

NewRoot(T, k) ==
  LET new == NewId(T)
  IN  [Allocate(T, NewLeaf(<<k>>, <<Row(k)>>)) EXCEPT
         !.root = new, !.list[T.level] = <<new>> \o @]

-------------------------------------------------------------------------------
(* Removal from inner nodes: key number remove and the child after it go *)

PkiOf(T, n) == T.node[n].pki
ParentOf(T, n) == T.node[n].parent
KeysWithout(N, remove) == RemoveAt(N.key, remove + 1)
DataWithout(N, remove) == RemoveAt(N.data, remove + 1)
SubsWithout(N, remove) == RemoveAt(N.sub, remove + 2)

(* non_leaf_sibling_select, leaf_sibling_select: size is children or entries. *)
TakesLeft(T, n) ==
  LET i == PkiOf(T, n)
      size(m) == IF T.node[m].leaf THEN Len(T.node[m].key) ELSE Len(T.node[m].sub)
  IN  /\ i # -1
      /\ \/ i = Len(T.node[ParentOf(T, n)].sub) - 2
         \/ size(PrevEntry(T, n)) >= size(NextEntry(T, n))

NonLeafShiftFromLeft(T, n, left, i, remove) ==
  LET p == ParentOf(T, n)
      N == T.node[n]
      L == T.node[left]
      M == [T EXCEPT !.node[n].key = <<T.node[p].key[i + 1]>> \o KeysWithout(N, remove),
                     !.node[n].sub = <<Last(L.sub)>> \o SubsWithout(N, remove),
                     !.node[p].key[i + 1] = Last(L.key),
                     !.node[left].key = Front(@),
                     !.node[left].sub = Front(@)]
  IN  Adopt(Reindex(M, n, 2, remove + 2), n, 1, 1)

NonLeafMergeToLeft(T, n, left, i, remove) ==
  LET N == T.node[n]
      L == T.node[left]
      M == [T EXCEPT !.node[left].key = @ \o <<T.node[ParentOf(T, n)].key[i + 1]>>
                                           \o KeysWithout(N, remove),
                     !.node[left].sub = @ \o SubsWithout(N, remove)]
  IN  Delete(Adopt(M, left, Len(L.sub) + 1, Len(L.sub) + Len(N.sub) - 1), n)

NonLeafShiftFromRight(T, n, right, i) ==
  LET p == ParentOf(T, n)
      N == T.node[n]
      R == T.node[right]
      M == [T EXCEPT !.node[n].key = Append(@, T.node[p].key[i + 1]),
                     !.node[n].sub = Append(@, R.sub[1]),
                     !.node[p].key[i + 1] = R.key[1],
                     !.node[right].key = Tail(@),
                     !.node[right].sub = Tail(@)]
  IN  Reindex(Adopt(M, n, Len(N.sub) + 1, Len(N.sub) + 1), right, 1, Len(R.sub) - 1)

NonLeafMergeFromRight(T, n, right, i) ==
  LET N == T.node[n]
      R == T.node[right]
      M == [T EXCEPT !.node[n].key = @ \o <<T.node[ParentOf(T, n)].key[i + 1]>> \o R.key,
                     !.node[n].sub = @ \o R.sub]
  IN  Delete(Adopt(M, n, Len(N.sub) + 1, Len(N.sub) + Len(R.sub)), right)

NonLeafSimpleRemove(T, n, remove) ==
  LET N == T.node[n]
      M == [T EXCEPT !.node[n].key = KeysWithout(N, remove),
                     !.node[n].sub = SubsWithout(N, remove)]
  IN  Reindex(Asserting(M, Len(N.sub) >= 2), n, remove + 2, Len(N.sub) - 1)

(* The root is left with one child, which becomes the root. *)
DropRoot(T, n, remove) ==
  LET heir == T.node[n].sub[1]
  IN  Delete([Asserting(T, remove = 0) EXCEPT
                !.node[heir].parent = Null, !.root = heir, !.level = @ - 1], n)

RECURSIVE NonLeafRemove(_, _, _)
NonLeafRemove(T, n, remove) ==
  LET children(x) == Len(T.node[x].sub)
      p == ParentOf(T, n)
      i == PkiOf(T, n)
      l == PrevEntry(T, n)
      r == NextEntry(T, n)
      S == NonLeafSimpleRemove(T, n, remove)
  IN  CASE children(n) > Half(Order) -> S
        [] children(n) <= Half(Order) /\ p = Null ->
             IF children(n) = 2 THEN DropRoot(T, n, remove) ELSE S
        [] children(n) <= Half(Order) /\ p # Null /\ TakesLeft(T, n) ->
             IF children(l) > Half(Order)
             THEN NonLeafShiftFromLeft(T, n, l, i, remove)
             ELSE NonLeafRemove(NonLeafMergeToLeft(T, n, l, i, remove), p, i)
        [] OTHER ->
             IF children(r) > Half(Order)
             THEN NonLeafShiftFromRight(S, n, r, i + 1)
             ELSE NonLeafRemove(NonLeafMergeFromRight(S, n, r, i + 1), p, i + 1)

-------------------------------------------------------------------------------
(* Removal from leaves *)

(* Mutant of LeafShiftFromLeft: the data in the leaf do not make room. *)
LeafShiftFromLeftKeysOnly(T, n, left, i, remove) ==
  LET N == T.node[n]
      L == T.node[left]
  IN  [T EXCEPT !.node[n].key = <<Last(L.key)>> \o KeysWithout(N, remove),
                !.node[left].key = Front(@),
                !.node[left].data = Front(@),
                !.node[ParentOf(T, n)].key[i + 1] = Last(L.key)]

LeafShiftFromLeft(T, n, left, i, remove) ==
  LET N == T.node[n]
      L == T.node[left]
  IN  [T EXCEPT !.node[n].key = <<Last(L.key)>> \o KeysWithout(N, remove),
                !.node[n].data = <<Last(L.data)>> \o DataWithout(N, remove),
                !.node[left].key = Front(@),
                !.node[left].data = Front(@),
                !.node[ParentOf(T, n)].key[i + 1] = Last(L.key)]

(* Mutant of LeafMergeToLeft: the removed entry is merged with the others. *)
LeafMergeAllToLeft(T, n, left, remove) ==
  LET N == T.node[n]
  IN  Delete([T EXCEPT !.node[left].key = @ \o N.key,
                       !.node[left].data = @ \o N.data], n)

LeafMergeToLeft(T, n, left, remove) ==
  LET N == T.node[n]
  IN  Delete([T EXCEPT !.node[left].key = @ \o KeysWithout(N, remove),
                       !.node[left].data = @ \o DataWithout(N, remove)], n)

(* Mutant of LeafShiftFromRight: the separator in the parent stays. *)
LeafShiftFromRightUnparted(T, n, right, i) ==
  LET R == T.node[right]
  IN  [T EXCEPT !.node[n].key = Append(@, R.key[1]),
                !.node[n].data = Append(@, R.data[1]),
                !.node[right].key = Tail(@),
                !.node[right].data = Tail(@)]

LeafShiftFromRight(T, n, right, i) ==
  LET R == T.node[right]
  IN  [T EXCEPT !.node[n].key = Append(@, R.key[1]),
                !.node[n].data = Append(@, R.data[1]),
                !.node[right].key = Tail(@),
                !.node[right].data = Tail(@),
                !.node[ParentOf(T, n)].key[i + 1] = R.key[2]]

LeafMergeFromRight(T, n, right) ==
  Delete([T EXCEPT !.node[n].key = @ \o T.node[right].key,
                   !.node[n].data = @ \o T.node[right].data], right)

LeafSimpleRemove(T, n, remove) ==
  [T EXCEPT !.node[n].key = KeysWithout(T.node[n], remove),
            !.node[n].data = DataWithout(T.node[n], remove)]

(* Below this many entries (children) a node borrows or merges. *)
LeafIsLean(entries) == entries <= Half(Entries)

LeafRemove(T, n, k) ==
  LET entries(x) == Len(T.node[x].key)
      remove == BinarySearch(T.node[n].key, k)
      p == ParentOf(T, n)
      i == PkiOf(T, n)
      l == PrevEntry(T, n)
      r == NextEntry(T, n)
      S == LeafSimpleRemove(T, n, remove)
  IN  CASE ~LeafIsLean(entries(n)) -> S
        [] LeafIsLean(entries(n)) /\ p = Null ->
             IF entries(n) = 1
             THEN Delete([Asserting(T, T.node[n].key[1] = k) EXCEPT !.root = Null], n)
             ELSE S
        [] LeafIsLean(entries(n)) /\ p # Null /\ TakesLeft(T, n) ->
             IF ~LeafIsLean(entries(l))
             THEN LeafShiftFromLeft(T, n, l, i, remove)
             ELSE NonLeafRemove(LeafMergeToLeft(T, n, l, remove), p, i)
        [] OTHER ->
             IF ~LeafIsLean(entries(r))
             THEN LeafShiftFromRight(S, n, r, i + 1)
             ELSE NonLeafRemove(LeafMergeFromRight(S, n, r), p, i + 1)

-------------------------------------------------------------------------------
(* bplus_tree_put *)

(* What a search from the root finds. *)
Finds(T, k) == /\ T.root # Null
               /\ BinarySearch(T.node[Descend(T, T.root, k)].key, k) >= 0

(* bplus_tree_init *)
Init == /\ tree = [root |-> Null, level |-> 0, asserted |-> TRUE,
                   list |-> [l \in 0 .. MaxNodes |-> <<>>],
                   node |-> [n \in 1 .. MaxNodes |-> Gone]]
        /\ answer = 0
        /\ found = {}
        /\ leftsplit = FALSE

(* Bound: an insertion may split every level and add a root. *)
Room == Cardinality(Unused(tree)) >= tree.level + 2

Inserted(k) == CASE tree.root = Null -> NewRoot(tree, k)
                 [] tree.root # Null /\ Finds(tree, k) -> tree
                 [] OTHER -> LeafInsert(tree, Descend(tree, tree.root, k), k)

SplitsLeft(k) ==
  LET key == tree.node[Descend(tree, tree.root, k)].key
  IN  /\ tree.root # Null
      /\ Len(key) = Entries
      /\ BinarySearch(key, k) < 0 /\ Place(key, k) < Half(Entries)

TreeInsert(k) ==
  /\ Room
  /\ tree' = Renumber(Inserted(k))
  /\ answer' = IF Finds(tree, k) THEN -1 ELSE 0
  /\ found' = {j \in Keys : Finds(tree', j)}
  /\ leftsplit' = (leftsplit \/ SplitsLeft(k))

Deleted(k) == IF Finds(tree, k) THEN LeafRemove(tree, Descend(tree, tree.root, k), k)
                                ELSE tree

(* Data that reads "0" asks for removal. *)
TreeDelete(k) ==
  /\ tree' = Renumber(Deleted(k))
  /\ answer' = IF Finds(tree, k) THEN 0 ELSE -1
  /\ found' = {j \in Keys : Finds(tree', j)}
  /\ UNCHANGED leftsplit

Next == \E k \in Keys : TreeInsert(k) \/ TreeDelete(k)

Spec == Init /\ [][Next]_vars

-------------------------------------------------------------------------------
(* Properties *)

Leaves == {n \in DOMAIN tree.node : tree.node[n].leaf}
Inner == UNION {Range(tree.list[l]) : l \in 1 .. tree.level}

(* The tree's fields have the types of bplus_tree, bplus_leaf and          *)
(* bplus_non_leaf in mbtree.h, and no node outgrows its arrays.            *)
TypeOK ==
  /\ tree.root \in 0 .. MaxNodes
  /\ tree.level \in 0 .. MaxNodes
  /\ \A n \in DOMAIN tree.node : LET N == tree.node[n] IN
       /\ N.parent \in 0 .. MaxNodes
       /\ N.pki \in -1 .. Order
       /\ Range(N.key) \subseteq Keys
       /\ Len(N.key) <= IF N.leaf THEN Entries ELSE Order - 1
       /\ IF N.leaf THEN Len(N.data) = Len(N.key) ELSE Len(N.sub) <= Order
  /\ answer \in {0, -1}
  /\ found \subseteq Keys
  /\ leftsplit \in BOOLEAN

(* The list of each level links exactly the children of the level above,   *)
(* in their order, up to the root alone on the last level; the siblings    *)
(* that removals borrow from and set_node_id's numbering are found along   *)
(* these lists.                                                            *)
LevelsLinked ==
  /\ tree.list[tree.level] = IF tree.root = Null THEN <<>> ELSE <<tree.root>>
  /\ \A l \in 1 .. tree.level :
       tree.list[l - 1] = FlattenSeq([i \in DOMAIN tree.list[l] |-> tree.node[tree.list[l][i]].sub])
  /\ \A l \in tree.level + 1 .. MaxNodes : tree.list[l] = <<>>

(* Every child knows its parent and which key of the parent is to its      *)
(* left, whatever splits, shifts and merges moved it.                      *)
ParentsKnown ==
  /\ \A p \in Inner : \A i \in DOMAIN tree.node[p].sub :
       /\ tree.node[tree.node[p].sub[i]].parent = p
       /\ tree.node[tree.node[p].sub[i]].pki = i - 2
  /\ tree.root # Null => tree.node[tree.root].parent = Null

(* Splits and merges leave every node but the root half full, and an inner *)
(* root with two children at least.                                        *)
HalfFull ==
  \A n \in Leaves \cup Inner :
    IF n = tree.root THEN tree.node[n].leaf \/ Len(tree.node[n].sub) >= 2
    ELSE IF tree.node[n].leaf THEN Len(tree.node[n].key) >= Half(Entries)
    ELSE Len(tree.node[n].sub) >= Half(Order)

(* The asserts of non_leaf_insert, non_leaf_simple_remove, non_leaf_remove *)
(* and leaf_remove never fail.                                             *)
AssertionsHold == tree.asserted

(* Keys ascend along the leaves, so a range query that walks them is       *)
(* sorted and complete, and the descent from the root reaches each.        *)
LeavesAscend ==
  LET chain == FlattenSeq([i \in DOMAIN tree.list[0] |-> tree.node[tree.list[0][i]].key])
  IN  /\ \A i \in 1 .. Len(chain) - 1 : chain[i] < chain[i + 1]
      /\ \A k \in Range(chain) : Finds(tree, k)

(* After every operation the tree is a B+ tree in all these respects. *)
WellFormed == TypeOK /\ LevelsLinked /\ ParentsKnown /\ HalfFull /\ LeavesAscend

(* Beside every key in a leaf stands the data of that key's row, which is  *)
(* what the digests of the leaf are computed from.                         *)
DataFollowsKey == \A n \in Leaves : \A i \in DOMAIN tree.node[n].key :
                    tree.node[n].data[i] = Row(tree.node[n].key[i])

(* Data stay with their keys through right splits, shifts and merges: only *)
(* leaf_split_left parts them.                                             *)
DataFollowsKeyUntilLeftSplit == ~leftsplit => DataFollowsKey

Store == INSTANCE KeyStore WITH keys <- found

(* The tree is a set of keys: a put adds or removes the one key it names,  *)
(* answers as documented, and no split, shift or merge loses or revives a  *)
(* key.                                                                    *)
ImplementsKeyStore == Store!Spec

===============================================================================
