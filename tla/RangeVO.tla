------------------------------- MODULE RangeVO -------------------------------
(***************************************************************************)
(* Range queries over the tree of MBTree with the tids of MBTreeTids, and  *)
(* the verification object (VO) that goes with the rows:                   *)
(* bplus_tree_get_range_disk_vo and reconstruct_root of                    *)
(* src/backend/mbt/mbtree.c, hashcompute of vibuilder.c and AuthRangeQuery *)
(* of src/include/mbt/testtree.h.                                          *)
(*                                                                         *)
(* The query does not ask an inner node for its number of children: it     *)
(* searches the key array up to the first zero.  What insertions and       *)
(* removals leave in the array beyond the valid keys is therefore state.   *)
(***************************************************************************)
EXTENDS MBTreeTids

CONSTANTS Posid(_)  \* the line number of a tid, on its page

VARIABLES stale,    \* what each inner node's array holds after the valid keys
          orderly   \* history: inner nodes lost keys by splits to the right only

rangeVars == <<tidVars, stale, orderly>>

-------------------------------------------------------------------------------
(* The key arrays *)

Raw(n) == tree.node[n].key \o stale[n]

(* The separator to the left of node n, in the parent or further up *)
RECURSIVE Separator(_, _)
Separator(T, n) == LET i == T.node[n].pki
                       p == T.node[n].parent
                   IN  IF i >= 0 THEN T.node[p].key[i + 1] ELSE Separator(T, p)

(* The new node n took its children from the node after it. *)
SplitOffLeft(T, n) == /\ n # T.root
                      /\ n # Last(T.list[LevelOf(T, n)])
                      /\ \E c \in Range(T.node[n].sub) :
                           tree.node[c].parent = NextEntry(T, n)

(* Mutant of Left: the valid keys stand in the array a second time. *)
LeftDoubled(T, n) ==
  CASE T.node[n] = Gone \/ T.node[n].leaf -> <<>>
    [] n \notin Unused(tree) -> Raw(n)
    [] OTHER -> <<>>

(* No routine writes beyond the valid part of what it leaves behind, with  *)
(* one exception: non_leaf_split_left copies the key it then moves up.     *)
Left(T, n) ==
  CASE T.node[n] = Gone \/ T.node[n].leaf -> <<>>
    [] n \notin Unused(tree) -> SubSeq(Raw(n), Len(T.node[n].key) + 1, Len(Raw(n)))
    [] OTHER -> IF SplitOffLeft(T, n) THEN <<Separator(T, NextEntry(T, n))>> ELSE <<>>

LeftBehind(T) == LET nodes == Nodes(T)
                 IN  [n \in DOMAIN stale |->
                        IF n <= Len(nodes) THEN Left(T, nodes[n]) ELSE <<>>]

RangeInit == TidInit /\ stale = [n \in 1 .. MaxNodes |-> <<>>] /\ orderly = TRUE

RangeInsert(k) ==
  /\ TidInsert(k)
  /\ stale' = LeftBehind(Inserted(k))
  /\ orderly' = (orderly /\ \A n \in Unused(tree) \cap Range(Nodes(Inserted(k))) :
                              ~SplitOffLeft(Inserted(k), n))

RangeDelete(k) ==
  /\ TidDelete(k)
  /\ stale' = LeftBehind(Deleted(k))
  /\ orderly' = (orderly /\ \A n \in Inner :
                              Len(Deleted(k).node[n].key) >= Len(tree.node[n].key))

RangeNext == \E k \in Keys : RangeInsert(k) \/ RangeDelete(k)

RangeSpec == RangeInit /\ [][RangeNext]_rangeVars

-------------------------------------------------------------------------------
(* The descent of a query *)

(* Mutant of SearchKeys: the last key is not searched. *)
SearchKeysShort(n) == LET raw == Raw(n) IN SubSeq(raw, 1, Len(raw) - 1)

(* tmp_len: the keys up to the first zero *)
SearchKeys(n) ==
  LET raw == Raw(n)
      len == CHOOSE l \in 0 .. Len(raw) : /\ \A i \in 1 .. l : raw[i] # 0
                                          /\ l = Len(raw) \/ raw[l + 1] = 0
  IN  SubSeq(raw, 1, len)

(* The child a node sends key k to, and the place of k in a leaf *)
Sent(i) == IF i >= 0 THEN i + 1 ELSE -i - 1
Turn(n, k) == Sent(BinarySearch(SearchKeys(n), k))
Aim(n, k) == IF tree.node[n].leaf THEN Place(tree.node[n].key, k) ELSE Turn(n, k)

(* A turn past the last child follows a pointer left in sub_ptr: the query *)
(* strays.                                                                 *)
Child(n, at) == IF at < Len(tree.node[n].sub) THEN tree.node[n].sub[at + 1] ELSE Null
Strayed == [node |-> Null, at |-> 0]

(* The nodes from n to a leaf with the turn taken in each *)
RECURSIVE Trail(_, _)
Trail(n, k) ==
  IF n = Null THEN <<Strayed>>
  ELSE <<[node |-> n, at |-> Aim(n, k)]>>
       \o (IF tree.node[n].leaf THEN <<>> ELSE Trail(Child(n, Turn(n, k)), k))

Strays(k) == Last(Trail(tree.root, k)).node = Null

-------------------------------------------------------------------------------
(* The walk along the leaves *)

(* The entries of leaf n from place i to place j, each with the tid behind *)
(* the pointer at its place                                                *)
Entered(n, i, j) ==
  LET N == tree.node[n]
  IN  [entry |-> [m \in 1 .. j - i |-> [key |-> N.key[i + m], tid |-> cell[tid[n][i + m - 1]]]],
       data |-> SubSeq(N.data, i + 1, j),
       through |-> j = Len(N.key)]

(* Mutant of Stretch: the upper bound is left out. *)
StretchBelow(n, i, max) ==
  LET key == tree.node[n].key
      stop == CHOOSE j \in i .. Len(key) : /\ \A m \in i + 1 .. j : key[m] < max
                                           /\ j = Len(key) \/ key[j + 1] >= max
  IN  Entered(n, i, stop)

(* The entries of a leaf from place i on, up to the first key above max *)
Stretch(n, i, max) ==
  LET key == tree.node[n].key
      stop == CHOOSE j \in i .. Len(key) : /\ \A m \in i + 1 .. j : key[m] <= max
                                           /\ j = Len(key) \/ key[j + 1] > max
  IN  Entered(n, i, stop)

(* The stretches from leaf number s on.  After the last leaf comes the     *)
(* head of the list, which is no leaf: the walk runs over.                 *)
RunsOver == [entry |-> <<>>, data |-> <<>>, through |-> TRUE]
RECURSIVE Walk(_, _, _)
Walk(s, i, max) ==
  IF s > Len(tree.list[0]) THEN <<RunsOver>>
  ELSE LET here == Stretch(tree.list[0][s], i, max)
       IN  <<here>> \o IF here.through THEN Walk(s + 1, 0, max) ELSE <<>>

(* A search that ends after the last entry of its leaf goes on to the next. *)
WalkFrom(start, b) ==
  LET s == IndexIn(tree.list[0], start.node)
      over == start.at >= Len(tree.node[start.node].key)
  IN  Walk(IF over THEN s + 1 ELSE s, IF over THEN 0 ELSE start.at, b)

WalkFor(a, b) == WalkFrom(Last(Trail(tree.root, a)), b)

(* The entries between the bounds, as the walk meets them *)
EntriesOf(walk) == FlattenSeq([i \in DOMAIN walk |-> walk[i].entry])
Result(a, b) == SelectSeq(EntriesOf(WalkFor(a, b)), LAMBDA e : a <= e.key /\ e.key <= b)

(* Mutant of Keeps: the last row is dropped. *)
KeepsButLast(result, i) ==
  /\ i < Len(result)
  /\ Posid(result[i].tid) # Posid(result[i + 1].tid)

(* AuthRangeQuery takes two tids on the same line for one, and a last tid  *)
(* on line 100 or above for none.                                          *)
Keeps(result, i) ==
  IF i < Len(result) THEN Posid(result[i].tid) # Posid(result[i + 1].tid)
                     ELSE Posid(result[i].tid) < 100
Kept(result) ==
  FlattenSeq([i \in DOMAIN result |-> IF Keeps(result, i) THEN <<result[i].tid>> ELSE <<>>])
AuthRangeQuery(a, b) == Kept(Result(a, b))

-------------------------------------------------------------------------------
(* Digests and the VO *)

(* hashcompute: the digest of a node stands for the digests it is computed *)
(* from, its array childhash; the digest of an entry for its data.         *)
RECURSIVE Digest(_)
Digest(n) == LET N == tree.node[n]
             IN  IF N.leaf THEN N.data ELSE [i \in DOMAIN N.sub |-> Digest(N.sub[i])]

(* set_node_id: numbers along the list of a level, and hashp, the numbers  *)
(* of the children of each inner node                                      *)
NodeId(n) == IndexIn(tree.list[LevelOf(tree, n)], n) - 1
ChildIds(level, id) == LET sub == tree.node[tree.list[level][id + 1]].sub
                       IN  [i \in DOMAIN sub |-> NodeId(sub[i])]

(* Digests i to j of the node of a step *)
Hashes(n, i, j) == [id |-> NodeId(n), nhash |-> SubSeq(Digest(n), i, j)]
Width(n) == IF tree.node[n].leaf THEN Len(tree.node[n].data) ELSE Len(tree.node[n].sub)

(* Mutant of RightVo: the digest of the child taken is among them. *)
RightVoWithChild(trail) ==
  [i \in DOMAIN trail |-> Hashes(trail[i].node, trail[i].at + 1, Width(trail[i].node))]

(* leftvo, rightvo: the digests to the left, to the right of the way down *)
LeftVo(trail) == [i \in DOMAIN trail |-> Hashes(trail[i].node, 1, trail[i].at)]
RightVo(trail) ==
  [i \in DOMAIN trail |-> Hashes(trail[i].node, trail[i].at + 2, Width(trail[i].node))]

DataOf(walk) == [i \in DOMAIN walk |-> walk[i].data]

Vo(a, b) == [left |-> LeftVo(Trail(tree.root, a)), right |-> RightVo(Trail(tree.root, b)),
             data |-> DataOf(WalkFor(a, b))]

-------------------------------------------------------------------------------
(* reconstruct_root *)

(* The digests of the leaves from the VO.  The right boundary is set last: *)
(* where both are one leaf, the digests to its left are lost.              *)
LeafHashes(vo) ==
  LET left == Last(vo.left)
      right == Last(vo.right)
  IN  [id \in left.id .. right.id |->
         CASE id = right.id -> vo.data[id - left.id + 1] \o right.nhash
           [] id # right.id /\ id = left.id -> left.nhash \o vo.data[1]
           [] OTHER -> vo.data[id - left.id + 1]]

(* The digests of a level from those of the level below; children without  *)
(* a digest are skipped.                                                   *)
InnerHashes(vo, i, below) ==
  LET left == vo.left[i]
      right == vo.right[i]
      children(id) == SelectSeq(ChildIds(tree.level + 1 - i, id),
                                LAMBDA c : c \in DOMAIN below)
  IN  [id \in left.id .. right.id |->
         (IF id = left.id THEN left.nhash ELSE <<>>)
         \o [j \in DOMAIN children(id) |-> below[children(id)[j]]]
         \o (IF id = right.id THEN right.nhash ELSE <<>>)]

ReconstructRoot(vo) ==
  LET h == Len(vo.left)
      Level[i \in 1 .. h] ==
        IF i = h THEN LeafHashes(vo) ELSE InnerHashes(vo, i, Level[i + 1])
  IN  Level[1][0]

-------------------------------------------------------------------------------
(* Properties *)

(* A query can be answered: the root is an inner node (below that the      *)
(* query has no leaf to look at) and some key is above the range, so that  *)
(* the walk stops before the end of the list.                              *)
InReach(a, b) == tree.level > 0 /\ \E k \in found : b < k

Rows(a, b) == SetToSortSeq(found \cap (a .. b), LAMBDA j, k : j < k)

(* The key array of an inner node holds no more than Order keys, valid or  *)
(* left behind, so the search up to a zero stays inside the array.         *)
RangeTypeOK == /\ stale \in [1 .. MaxNodes -> Seq(Keys)]
               /\ \A n \in Inner : Len(Raw(n)) <= Order
               /\ orderly \in BOOLEAN

(* As long as inner nodes were split to the right only, and no separator   *)
(* is zero, the search through the whole key array takes the turns that    *)
(* the search of bplus_tree_put through the valid keys takes.              *)
StaleKeysHarmless ==
  orderly /\ tree.level > 0 /\ (\A n \in Inner : 0 \notin Range(tree.node[n].key))
    => \A k \in Keys : Last(Trail(tree.root, k)).node = Descend(tree, tree.root, k)

(* The walk of a range query meets the entries between its bounds, each    *)
(* once and in order, whatever the order of the insertions, also when a    *)
(* zero among the separators ends the search of a node too soon.           *)
RangeVisited ==
  orderly => \A a, b \in Keys :
    InReach(a, b) /\ Rows(a, b) # <<>>
      => /\ ~Strays(a)
         /\ LET met == Result(a, b) IN [i \in DOMAIN met |-> met[i].key] = Rows(a, b)

(* While keys arrive in ascending order, so that every tid is its key's    *)
(* own, AuthRangeQuery returns the rows between the bounds, in order and   *)
(* none twice; one is missing only if the row after it has its line, or it *)
(* is the last and on line 100 or above.                                   *)
AnswerExact ==
  orderly /\ ascending => \A a, b \in Keys :
    InReach(a, b) /\ Rows(a, b) # <<>> =>
      LET rows == Rows(a, b)
          got == AuthRangeQuery(a, b)
          stays(i) == IF i < Len(rows) THEN Posid(Tid(rows[i])) # Posid(Tid(rows[i + 1]))
                                       ELSE Posid(Tid(rows[i])) < 100
      IN  /\ \A i \in 1 .. Len(got) - 1 : got[i] < got[i + 1]
          /\ Range(got) \subseteq {Tid(k) : k \in Range(rows)}
          /\ \A i \in DOMAIN rows : stays(i) => Tid(rows[i]) \in Range(got)

(* The range does not begin inside the leaf it ends in. *)
BeginsWhole(vo) == Last(vo.left).id # Last(vo.right).id \/ Last(vo.left).nhash = <<>>

(* The VO of a range between two keys of the tree determines the root:     *)
(* reconstruct_root computes from it the digest that hashcompute computes  *)
(* from the tree, unless the range begins inside the leaf it ends in.      *)
VoSuffices ==
  orderly /\ (\A n \in Inner : 0 \notin Range(tree.node[n].key))
    => \A a, b \in found :
         a <= b /\ InReach(a, b) /\ BeginsWhole(Vo(a, b))
           => ReconstructRoot(Vo(a, b)) = Digest(tree.root)

===============================================================================
