------------------------------ MODULE MbtIndex ------------------------------
(* The mbtree access method: mbtbuild, mbtinsert and mbtgettuple of          *)
(* backend/access/mbtree/mbtree.c, several indexes, several backends.        *)
(*                                                                           *)
(* Everything the access method knows is in variables of the backend: the    *)
(* trees (key_hashp), the number of insertions (mbt_entries_count), and the  *)
(* children of the inner nodes by level and node number (hashp, with         *)
(* temp_node_id saying which numbers are in use).  There is one hashp and    *)
(* one counter for all the indexes of a backend, and nothing is shared with  *)
(* other backends or kept on disk.  The catalog and the rows are PostgreSQL's *)
(* and outlive the backends.                                                 *)
(*                                                                           *)
(* A tree is its entries and its shape: how many nodes there are on each     *)
(* inner level.  What MBTree models in full is here any change of shape that *)
(* one insertion or removal can cause.  An index stands for its table as     *)
(* well.  A row is its key and a number that tells it from other rows with   *)
(* the same key; an entry is the row it was made for.                        *)
EXTENDS Integers, FiniteSets

CONSTANTS Backends, Indexes, NoIndex,
          Rows,             \* the rows a table can have, as <<key, number>>
          Ranges,           \* the ranges asked for, as <<left, right>>
          Depth,            \* the number of inner levels, below BPLUS_MAX_LEVEL
          MaxWidth,         \* bound: inner nodes on a level
          IdLimit,          \* 500, the columns of temp_node_id
          Threshold,        \* 998, the insertions before trees are hashed
          Order,            \* 10, the children of a node
          BufferUnit,       \* 8192
          RangeUnit,        \* 400
          IntHalf           \* 2^31: an int is in -IntHalf .. IntHalf - 1

ASSUME IndexAssumption ==
  /\ NoIndex \notin Indexes
  /\ Depth \in Nat \ {0} /\ MaxWidth \in Nat \ {0} /\ IdLimit \in Nat \ {0}
  /\ Threshold \in Nat \ {0}

ASSUME BufferAssumption ==
  /\ Order \in Nat /\ BufferUnit \in Nat /\ RangeUnit \in Nat \ {0} /\ IntHalf \in Nat \ {0}
  /\ Rows \subseteq Int \X Nat /\ Ranges \subseteq Int \X Int

VARIABLES
  catalog,            \* the indexes that exist
  rows,               \* the committed rows of each table
  built,              \* the indexes in the backend's key_hashp
  entries, shape,     \* their trees
  digests,            \* the node hashes of a tree: "none", "fresh" or "stale"
  hashp,              \* which index's node the entry of a level and number is
  aged,               \* the entries whose tree has changed since
  temp_node_id,       \* the marked places
  mbt_entries_count,  \* counted up to Threshold, beyond which nothing differs
  fault, overran,     \* whether memory was overrun, and the query that did so
  excused,            \* history: rows of the table the tree does not owe
  ghosts,             \* history: rows it has that the table has not
  numbered,           \* history: the index set_node_id ran for last
  rebuilt, wide       \* history: backends that MapIsWhole leaves out

table == <<catalog, rows, excused, ghosts>>
own == <<built, entries, shape, digests, hashp, aged, temp_node_id, mbt_entries_count,
         numbered, rebuilt, wide>>
vars == <<table, own, overran, fault>>

-----------------------------------------------------------------------------
(* Shapes, node numbers and places *)

Levels == 1 .. Depth
Nodes == Levels \X (0 .. MaxWidth - 1)

(* A level of several nodes has a level above it, with fewer. *)
Shapes ==
  {s \in [Levels -> 0 .. MaxWidth] :
     /\ \A l \in Levels : l + 1 \in Levels =>
          (IF s[l] > 1 THEN 0 < s[l + 1] /\ s[l + 1] < s[l] ELSE s[l + 1] = 0)
     /\ s[Depth] <= 1}

Leaf == [l \in Levels |-> 0]

(* One insertion splits at most one node of a level, and only below a split. *)
Grown(s) ==
  {t \in Shapes : \A l \in Levels :
     /\ t[l] - s[l] \in {0, 1}
     /\ l + 1 \in Levels => t[l + 1] - s[l + 1] <= t[l] - s[l]}

Shrunk(s) == {t \in Shapes : s \in Grown(t)}

NodesOf(s) == {n \in Nodes : n[2] < s[n[1]]}

(* &temp_node_id[level][id]: the rows of the array follow each other, so an *)
(* id of IdLimit or more marks a place of the next level.                   *)
Place(n) == n[1] * IdLimit + n[2]

(* Mutant of Marks: the numbers are marked one place too far. *)
MarksShifted(s) == {n[1] * IdLimit + n[2] + 1 : n \in NodesOf(s)}

Marks(s) == {Place(n) : n \in NodesOf(s)}

Places == {Place(n) : n \in Nodes}

(* What hashmap_serialize finds marked on a level, and what is there. *)
Marked(b, l) == {d \in 0 .. IdLimit - 1 : Place(<<l, d>>) \in temp_node_id[b]}
Sized(b, l) == {d \in 0 .. MaxWidth - 1 : hashp[b][<<l, d>>] # NoIndex}

-----------------------------------------------------------------------------
NoQuery == [by |-> "nobody"]

Init ==
  /\ catalog = {}
  /\ rows = [i \in Indexes |-> {}]
  /\ excused = [i \in Indexes |-> {}] /\ ghosts = [i \in Indexes |-> {}]
  /\ built = [b \in Backends |-> {}]
  /\ entries = [b \in Backends |-> [i \in Indexes |-> {}]]
  /\ shape = [b \in Backends |-> [i \in Indexes |-> Leaf]]
  /\ digests = [b \in Backends |-> [i \in Indexes |-> "none"]]
  /\ hashp = [b \in Backends |-> [n \in Nodes |-> NoIndex]]
  /\ aged = [b \in Backends |-> {}]
  /\ temp_node_id = [b \in Backends |-> {}]
  /\ mbt_entries_count = [b \in Backends |-> 0]
  /\ numbered = [b \in Backends |-> NoIndex]
  /\ rebuilt = {} /\ wide = {}
  /\ overran = NoQuery /\ fault = "none"

(* The variables of the backends in B as a new process has them. *)
Fresh(B) ==
  /\ built' = [b \in Backends |-> IF b \in B THEN {} ELSE built[b]]
  /\ entries' = [b \in Backends |-> IF b \in B THEN [i \in Indexes |-> {}] ELSE entries[b]]
  /\ shape' = [b \in Backends |-> IF b \in B THEN [i \in Indexes |-> Leaf] ELSE shape[b]]
  /\ digests' = [b \in Backends |->
                   IF b \in B THEN [i \in Indexes |-> "none"] ELSE digests[b]]
  /\ hashp' = [b \in Backends |-> IF b \in B THEN [n \in Nodes |-> NoIndex] ELSE hashp[b]]
  /\ aged' = [b \in Backends |-> IF b \in B THEN {} ELSE aged[b]]
  /\ temp_node_id' = [b \in Backends |-> IF b \in B THEN {} ELSE temp_node_id[b]]
  /\ mbt_entries_count' = [b \in Backends |-> IF b \in B THEN 0 ELSE mbt_entries_count[b]]
  /\ numbered' = [b \in Backends |-> IF b \in B THEN NoIndex ELSE numbered[b]]
  /\ rebuilt' = rebuilt \ B /\ wide' = wide \ B

(* The history of an index is kept while some backend has its tree. *)
Forget(I) ==
  /\ excused' = [i \in Indexes |-> IF i \in I THEN {} ELSE excused[i]]
  /\ ghosts' = [i \in Indexes |-> IF i \in I THEN {} ELSE ghosts[i]]
  /\ UNCHANGED <<catalog, rows>>

(* A backend that dereferences a null pointer takes all others with it: the *)
(* postmaster ends them and starts anew.                                    *)
Crash == Fresh(Backends) /\ Forget(Indexes) /\ UNCHANGED fault

(* Mutant of CounterAfterBuild: the counter starts again. *)
CounterRestarted(b) == [mbt_entries_count EXCEPT ![b] = 0]

CounterAfterBuild(b) == mbt_entries_count

(* mbtbuild.  The tree starts empty whatever the table holds; all of hashp   *)
(* is replaced, temp_node_id and the counter stay.  When the CREATE INDEX is *)
(* rolled back later, the catalog forgets the index and the rest stays.      *)
CreateIndex(b, i, outcome) ==
  /\ i \notin catalog
  /\ hashp' = [hashp EXCEPT ![b] = [n \in Nodes |-> NoIndex]]
  /\ aged' = [aged EXCEPT ![b] = {}]
  /\ entries' = [entries EXCEPT ![b][i] = {}]
  /\ shape' = [shape EXCEPT ![b][i] = Leaf]
  /\ digests' = [digests EXCEPT ![b][i] = "none"]
  /\ mbt_entries_count' = CounterAfterBuild(b)
  /\ numbered' = [numbered EXCEPT ![b] = NoIndex]
  /\ rebuilt' = IF temp_node_id[b] = {} THEN rebuilt ELSE rebuilt \cup {b}
  /\ IF outcome = "commit"
     THEN /\ catalog' = catalog \cup {i}
          /\ built' = [built EXCEPT ![b] = @ \cup {i}]
          /\ excused' = [excused EXCEPT ![i] = rows[i]]
          /\ ghosts' = [ghosts EXCEPT ![i] = {}]
     ELSE UNCHANGED <<catalog, built, excused, ghosts>>
  /\ UNCHANGED <<rows, temp_node_id, wide>>

(* DROP INDEX: the access method is not told, and no later relation has the *)
(* number under which the tree stays in key_hashp.                          *)
DropIndex(b, i) ==
  /\ i \in catalog
  /\ catalog' = catalog \ {i}
  /\ built' = [c \in Backends |-> built[c] \ {i}]
  /\ entries' = [c \in Backends |-> [entries[c] EXCEPT ![i] = {}]]
  /\ shape' = [c \in Backends |-> [shape[c] EXCEPT ![i] = Leaf]]
  /\ digests' = [c \in Backends |-> [digests[c] EXCEPT ![i] = "none"]]
  /\ excused' = [excused EXCEPT ![i] = {}] /\ ghosts' = [ghosts EXCEPT ![i] = {}]
  /\ UNCHANGED <<rows, hashp, aged, temp_node_id, mbt_entries_count, numbered, rebuilt, wide>>

-----------------------------------------------------------------------------
(* mbtinsert *)

HashesNow(b) == mbt_entries_count[b] + 1 >= Threshold

Counted(b) == IF HashesNow(b) THEN Threshold ELSE mbt_entries_count[b] + 1

OfKey(set, k) == {q \in set : q[1] = k}

(* bplus_tree_put: a row that reads "0" removes the entry of its key; for    *)
(* any other one is made, unless the key has an entry.                       *)
EntriesAfter(b, i, row, data) ==
  IF data = "zero" THEN entries[b][i] \ OfKey(entries[b][i], row[1])
  ELSE IF OfKey(entries[b][i], row[1]) # {} THEN entries[b][i]
  ELSE entries[b][i] \cup {row}

ShapesAfter(b, i, after) ==
  IF after = entries[b][i] THEN {shape[b][i]}
  ELSE IF after = {} \/ entries[b][i] = {} THEN {Leaf}
  ELSE IF entries[b][i] \subseteq after THEN Grown(shape[b][i])
  ELSE Shrunk(shape[b][i])

(* hashmap_set for every inner node, when hashing.  Mutant: a number that  *)
(* is there already keeps its entry.                                       *)
NumberedKeeping(b, i, s) ==
  [n \in Nodes |-> IF n \in NodesOf(s) /\ hashp[b][n] = NoIndex THEN i ELSE hashp[b][n]]

Numbered(b, i, s) == [n \in Nodes |-> IF n \in NodesOf(s) THEN i ELSE hashp[b][n]]

(* The entries of index i, out of date when its tree changes. *)
EntriesOf(b, i) == {n \in Nodes : hashp[b][n] = i}

(* The tree with its new entries and a new shape s.  set_node_id reads past *)
(* the end of the list of leaves when the last entry is gone.                *)
Put(b, i, after, s) ==
  /\ entries' = [entries EXCEPT ![b][i] = after]
  /\ shape' = [shape EXCEPT ![b][i] = s]
  /\ mbt_entries_count' = [mbt_entries_count EXCEPT ![b] = Counted(b)]
  /\ IF HashesNow(b)
     THEN /\ digests' = [digests EXCEPT ![b][i] = "fresh"]
          /\ hashp' = [hashp EXCEPT ![b] = Numbered(b, i, s)]
          /\ aged' = [aged EXCEPT ![b] = (@ \cup EntriesOf(b, i)) \ NodesOf(s)]
          /\ temp_node_id' = [temp_node_id EXCEPT ![b] = @ \cup Marks(s)]
          /\ numbered' = [numbered EXCEPT ![b] = i]
          /\ wide' = IF \E n \in NodesOf(s) : n[2] >= IdLimit THEN wide \cup {b} ELSE wide
          /\ fault' = IF after = {} THEN "emptied" ELSE fault
     ELSE /\ digests' = [digests EXCEPT ![b][i] =
                           IF after # entries[b][i] /\ @ = "fresh" THEN "stale" ELSE @]
          /\ aged' = [aged EXCEPT ![b] =
                        IF after # entries[b][i] THEN @ \cup EntriesOf(b, i) ELSE @]
          /\ UNCHANGED <<hashp, temp_node_id, numbered, wide, fault>>
  /\ UNCHANGED <<built, rebuilt>>

(* Mutant of Missing: a backend without the tree is taken to have nothing to do. *)
MissingIgnored(b, i) == FALSE

(* hashmap_get on key_hashp: there is no map, or no tree in it. *)
Missing(b, i) == i \notin built[b]

(* Some entry is owed for the key, or is left over. *)
Taken(i, k) == OfKey((rows[i] \ excused[i]) \cup ghosts[i], k) # {}

(* What the tree does not owe after an INSERT: all rows of the key, after   *)
(* a "0" row; the new one, if the key was taken.                            *)
ExcusedAfter(i, row, data) ==
  excused[i] \cup IF data = "zero" THEN OfKey(rows'[i], row[1])
                  ELSE IF Taken(i, row[1]) THEN {row} \cap rows'[i]
                  ELSE {}
GhostsAfter(i, row, data) ==
  IF data = "zero" THEN ghosts[i] \ OfKey(ghosts[i], row[1])
  ELSE IF Taken(i, row[1]) THEN ghosts[i]
  ELSE ghosts[i] \cup ({row} \ rows'[i])

(* An INSERT, and the outcome of its transaction.  The tree keeps what it   *)
(* was given either way.                                                    *)
Insert(b, i, row, data, outcome) ==
  /\ row \notin rows[i] \cup ghosts[i]
  /\ rows' = IF outcome = "commit" THEN [rows EXCEPT ![i] = @ \cup {row}] ELSE rows
  /\ \/ /\ i \notin catalog
        /\ UNCHANGED <<own, fault, excused, ghosts>>
     \/ /\ i \in catalog /\ ~Missing(b, i)
        /\ \E s \in ShapesAfter(b, i, EntriesAfter(b, i, row, data)) :
             Put(b, i, EntriesAfter(b, i, row, data), s)
        /\ excused' = [excused EXCEPT ![i] = ExcusedAfter(i, row, data)]
        /\ ghosts' = [ghosts EXCEPT ![i] = GhostsAfter(i, row, data)]
  /\ UNCHANGED catalog

InsertCrashes(b, i) ==
  /\ i \in catalog /\ Missing(b, i)
  /\ Crash

(* ExecDelete tells no index, and mbtbulkdelete does nothing: a committed   *)
(* DELETE leaves the row's entry in the tree.                               *)
Delete(i, row) ==
  /\ row \in rows[i]
  /\ rows' = [rows EXCEPT ![i] = @ \ {row}]
  /\ excused' = [excused EXCEPT ![i] = @ \ {row}]
  /\ ghosts' = [ghosts EXCEPT ![i] =
                  IF i \in catalog /\ row \notin excused[i] THEN @ \cup {row} ELSE @]
  /\ UNCHANGED <<own, catalog, fault>>

(* ExecUpdate: a heap-only update tells no index.  Any other has            *)
(* getTupleValue read the destination it was not given.                     *)
UpdateCrashes(i) ==
  /\ i \in catalog /\ rows[i] # {}
  /\ Crash

-----------------------------------------------------------------------------
(* mbtgettuple *)

(* int arithmetic: division truncates, sums and products wrap. *)
Wrap(x) == ((x + IntHalf) % (2 * IntHalf)) - IntHalf
Truncated(x) == IF x >= 0 THEN x \div RangeUnit ELSE -((-x) \div RangeUnit)

(* Mutant of BufferSize: the whole part of the quotient only. *)
BufferSizeFloor(r) == Wrap(Truncated(Wrap(r[2] - r[1] + 1)) * BufferUnit)

BufferSize(r) == Wrap((Truncated(Wrap(r[2] - r[1] + 1)) + 1) * BufferUnit)

(* The entries hashmap_serialize writes, and the bytes: a count for each of  *)
(* the levels, for an entry its number and size and the numbers of its       *)
(* children, of which a node has between two and Order.                      *)
Serialized(b) == {n \in Levels \X (0 .. IdLimit - 1) :
                    Sized(b, n[1]) # {} /\ n[2] \in Marked(b, n[1])}
Bytes(b, children) == 8 * (Depth + 1) + 16 * Cardinality(Serialized(b)) + 8 * children

(* A marked number without an entry: the null pointer is dereferenced. *)
SerializeFails(b) ==
  \E l \in Levels : Sized(b, l) # {} /\ \E d \in Marked(b, l) : d \notin Sized(b, l)

(* hashmap_deserialize reads as many entries as the map's size says. *)
Parses(b) == \A l \in Levels : Sized(b, l) # {} => Marked(b, l) = Sized(b, l)

(* The map gives the tree of i: every node has its entry, and of this tree. *)
Describes(b, i) == \A n \in NodesOf(shape[b][i]) : hashp[b][n] = i /\ n \notin aged[b]

InRange(b, i, r) == {q \in entries[b][i] : r[1] <= q[1] /\ q[1] <= r[2]}

(* A tree that is a leaf, or a range without a key, has the walk follow a   *)
(* null pointer or AuthRangeQuery read before its array.                    *)
WalkFails(b, i, r) == shape[b][i] = Leaf \/ InRange(b, i, r) = {}

(* No key is above the range: the walk goes on from the last leaf to the    *)
(* head of the list and takes it for a leaf.  It stops there, goes on with  *)
(* what is not a leaf, or crashes.                                          *)
RunsOver(b, i, r) == \A q \in entries[b][i] : q[1] <= r[2]

(* Which of the children counts are possible is left open. *)
Query(b, i, r) ==
  /\ i \in catalog /\ ~Missing(b, i) /\ ~SerializeFails(b)
  /\ \E children \in 2 * Cardinality(Serialized(b)) .. Order * Cardinality(Serialized(b)) :
       \/ /\ Bytes(b, children) > BufferSize(r)
          /\ overran' = [by |-> b, range |-> r] /\ fault' = "overrun"
       \/ /\ Bytes(b, children) <= BufferSize(r) /\ ~WalkFails(b, i, r)
          /\ UNCHANGED overran
          /\ \/ UNCHANGED fault
             \/ RunsOver(b, i, r) /\ fault' = "strayed"
  /\ UNCHANGED <<table, own>>

QueryCrashes(b, i, r) ==
  /\ i \in catalog
  /\ Missing(b, i) \/ SerializeFails(b) \/ WalkFails(b, i, r) \/ RunsOver(b, i, r)
  /\ Crash

Disconnect(b) == Fresh({b}) /\ Forget(built[b]) /\ UNCHANGED fault

-----------------------------------------------------------------------------
Outcomes == {"commit", "abort"}

(* What follows an overrun is undefined and not modelled. *)
Next ==
  /\ fault = "none"
  /\ \/ \E b \in Backends, i \in Indexes, r \in Ranges : Query(b, i, r)
     \/ /\ UNCHANGED overran
        /\ \E b \in Backends, i \in Indexes :
             \/ \E outcome \in Outcomes : CreateIndex(b, i, outcome) /\ UNCHANGED fault
             \/ DropIndex(b, i) /\ UNCHANGED fault
             \/ \E row \in Rows, data \in {"row", "zero"}, outcome \in Outcomes :
                  Insert(b, i, row, data, outcome)
             \/ InsertCrashes(b, i)
             \/ \E r \in Ranges : QueryCrashes(b, i, r)
             \/ Disconnect(b)
     \/ /\ UNCHANGED overran
        /\ \E i \in Indexes : (\E row \in Rows : Delete(i, row)) \/ UpdateCrashes(i)

Spec == Init /\ [][Next]_vars

-----------------------------------------------------------------------------
TypeOK ==
  /\ catalog \subseteq Indexes
  /\ rows \in [Indexes -> SUBSET Rows]
  /\ excused \in [Indexes -> SUBSET Rows] /\ ghosts \in [Indexes -> SUBSET Rows]
  /\ built \in [Backends -> SUBSET Indexes]
  /\ entries \in [Backends -> [Indexes -> SUBSET Rows]]
  /\ shape \in [Backends -> [Indexes -> Shapes]]
  /\ digests \in [Backends -> [Indexes -> {"none", "fresh", "stale"}]]
  /\ hashp \in [Backends -> [Nodes -> Indexes \cup {NoIndex}]]
  /\ aged \in [Backends -> SUBSET Nodes]
  /\ temp_node_id \in [Backends -> SUBSET Places]
  /\ mbt_entries_count \in [Backends -> 0 .. Threshold]
  /\ numbered \in [Backends -> Indexes \cup {NoIndex}]
  /\ rebuilt \subseteq Backends /\ wide \subseteq Backends
  /\ fault \in {"none", "emptied", "overrun", "strayed"}

(* Whatever sessions do, a tree that a query can reach has an entry for every *)
(* row of its table, except rows that were there before the index, rows with  *)
(* a key that was taken when they came, and rows whose key a "0" row removed; *)
(* and it has no others than those whose transaction rolled back or that were *)
(* deleted since.  It holds across sessions only because an INSERT by a       *)
(* backend without the tree crashes.                                          *)
TreeHoldsTheTable ==
  \A b \in Backends : \A i \in built[b] :
    entries[b][i] = (rows[i] \ excused[i]) \cup ghosts[i]

(* hashmap_serialize finds an entry for every mark and the client reads back *)
(* as many entries as were written, in a backend that built no index after   *)
(* it first marked a node and never had IdLimit nodes on a level.            *)
MapIsWhole == \A b \in Backends \ (rebuilt \cup wide) : Parses(b) /\ ~SerializeFails(b)

(* The index whose tree was numbered last is described by the map, whatever  *)
(* other indexes left in it, and its digests are those of the tree.          *)
LastNumberedIsDescribed ==
  \A b \in Backends : numbered[b] \in built[b] =>
    Describes(b, numbered[b]) /\ digests[b][numbered[b]] = "fresh"

(* The hashes in a tree are never those of an earlier tree: from the first  *)
(* time any tree of the backend is hashed, every insertion hashes.          *)
DigestsNeverStale == \A b \in Backends : \A i \in built[b] : digests[b][i] # "stale"

(* Entries that a buffer of one unit holds whatever their children are *)
Room == (BufferUnit - 8 * (Depth + 1)) \div (16 + 8 * Order)

Ordinary(r) ==
  /\ r[1] <= r[2] /\ r[2] - r[1] + 1 < IntHalf
  /\ ((r[2] - r[1] + 1) \div RangeUnit + 1) * BufferUnit < IntHalf

(* The buffer is sized from the width of the range, the map from the tree:   *)
(* a map of at most Room entries fits for every range whose size is an int.  *)
SmallMapFits ==
  fault = "overrun" => Cardinality(Serialized(overran.by)) > Room \/ ~Ordinary(overran.range)
=============================================================================
