------------------------------ MODULE MBTreeTids ------------------------------
(***************************************************************************)
(* The tids of the leaves of MBTree.  A leaf has an array of pointers to   *)
(* tids, leaf_new allocates a cell behind each, and from then on some      *)
(* operations copy a pointer and others write through it, so that two      *)
(* places can share a cell.  AuthIndexNext fetches rows by these tids.     *)
(***************************************************************************)
EXTENDS MBTree

CONSTANTS MaxBirths  \* bound on the calls of leaf_new

VARIABLES tid,       \* the array of pointers of each leaf
          cell,      \* the tid in each cell
          births,    \* the calls of leaf_new so far
          ascending  \* history: keys were only ever added, in ascending order

tids == <<tid, cell, births>>
tidVars == <<vars, tids, ascending>>

Slots == 0 .. Entries - 1
NoTids == [j \in Slots |-> <<0, j>>]

(* The tid of the row of key k, told by k. *)
Tid(k) == k

(* leaf_new: the cells of the next leaf *)
Fresh == [j \in Slots |-> <<births + 1, j>>]

TidInit == /\ Init
           /\ tid = [n \in 1 .. MaxNodes |-> NoTids]
           /\ cell = [c \in (0 .. MaxBirths) \X Slots |-> Null]
           /\ births = 0
           /\ ascending = TRUE

-------------------------------------------------------------------------------
(* Arrays go with their leaves when the nodes are numbered again. *)
Moved(T, arrays) == LET nodes == Nodes(T)
                    IN  [n \in DOMAIN arrays |->
                           IF n <= Len(nodes) THEN arrays[nodes[n]] ELSE NoTids]

(* A new root leaf *)
TidNewRoot(k) ==
  /\ births' = births + 1
  /\ cell' = [cell EXCEPT ![Fresh[0]] = Tid(k)]
  /\ tid' = Moved(Inserted(k), [tid EXCEPT ![NewId(tree)] = Fresh])

(* leaf_simple_insert: the pointers from the place on move up, then the    *)
(* tid is written through the pointer that still stands at the place.      *)
TidSimpleInsert(leaf, k, insert) ==
  LET n == Len(tree.node[leaf].key)
      P == tid[leaf]
  IN  /\ UNCHANGED births
      /\ cell' = [cell EXCEPT ![P[insert]] = Tid(k)]
      /\ tid' = Moved(Inserted(k), [tid EXCEPT ![leaf] =
           [j \in Slots |-> IF j > insert /\ j <= n THEN P[j - 1] ELSE P[j]]])

(* leaf_split_left: pointers are copied around the new tid and shifted.    *)
TidSplitLeft(leaf, k, insert) ==
  LET n == Len(tree.node[leaf].key)
      s == Half(n)
      P == tid[leaf]
      left == [j \in Slots |-> CASE j < s /\ j < insert -> P[j]
                                 [] j < s /\ j > insert -> P[j - 1]
                                 [] OTHER -> Fresh[j]]
      rest == [j \in Slots |-> IF j <= n - s THEN P[j + s - 1] ELSE P[j]]
  IN  /\ births' = births + 1
      /\ cell' = [cell EXCEPT ![Fresh[insert]] = Tid(k)]
      /\ tid' = Moved(Inserted(k), [tid EXCEPT ![NewId(tree)] = left, ![leaf] = rest])

(* Mutant of TidSplitRight: the new leaf's other pointers stay its own. *)
TidSplitRightUncopied(leaf, k, insert) ==
  /\ births' = births + 1
  /\ cell' = [cell EXCEPT ![Fresh[insert - Half(Entries)]] = Tid(k)]
  /\ tid' = Moved(Inserted(k), [tid EXCEPT ![NewId(tree)] = Fresh])

(* leaf_split_right: the new leaf takes pointers that the old one keeps    *)
(* beyond its entries.                                                     *)
TidSplitRight(leaf, k, insert) ==
  LET n == Len(tree.node[leaf].key)
      s == Half(n)
      hole == insert - s
      P == tid[leaf]
      right == [j \in Slots |-> CASE j < hole -> P[s + j]
                                  [] j > hole /\ j <= n - s -> P[s + j - 1]
                                  [] OTHER -> Fresh[j]]
  IN  /\ births' = births + 1
      /\ cell' = [cell EXCEPT ![Fresh[hole]] = Tid(k)]
      /\ tid' = Moved(Inserted(k), [tid EXCEPT ![NewId(tree)] = right])

TidInsert(k) ==
  LET leaf == Descend(tree, tree.root, k)
      insert == Place(tree.node[leaf].key, k)
      full == Len(tree.node[leaf].key) = Entries
  IN  /\ births < MaxBirths
      /\ TreeInsert(k)
      /\ ascending' = (ascending /\ \A j \in found : j <= k)
      /\ \/ tree.root = Null /\ TidNewRoot(k)
         \/ tree.root # Null /\ k \in found /\ UNCHANGED tids
         \/ /\ tree.root # Null /\ k \notin found /\ ~full
            /\ TidSimpleInsert(leaf, k, insert)
         \/ /\ tree.root # Null /\ k \notin found /\ full /\ insert < Half(Entries)
            /\ TidSplitLeft(leaf, k, insert)
         \/ /\ tree.root # Null /\ k \notin found /\ full /\ insert >= Half(Entries)
            /\ TidSplitRight(leaf, k, insert)

(* A removal moves keys and data and leaves every array of tids as it is. *)
TidDelete(k) ==
  /\ TreeDelete(k)
  /\ tid' = Moved(Deleted(k), tid)
  /\ ascending' = FALSE
  /\ UNCHANGED <<cell, births>>

TidNext == \E k \in Keys : TidInsert(k) \/ TidDelete(k)

TidSpec == TidInit /\ [][TidNext]_tidVars

-------------------------------------------------------------------------------
(* Properties *)

(* Behind every key in a leaf stands the tid of that key's row, by which   *)
(* AuthIndexNext fetches it.                                               *)
TidFollowsKey ==
  \A n \in Leaves :
    \A i \in DOMAIN tree.node[n].key : cell[tid[n][i - 1]] = Tid(tree.node[n].key[i])

(* While keys only arrive in ascending order, every tid stays with its key *)
(* although leaves share cells after a split.                              *)
TidFollowsKeyWhenAscending == ascending => TidFollowsKey

===============================================================================
