--------------------------- MODULE MbtIndexProofs ---------------------------
(* Proofs of the safety properties of MbtIndex, for all sets of backends,   *)
(* indexes, rows and ranges and all sizes that satisfy IndexAssumption.     *)
EXTENDS MbtIndex, TLAPS

(* An index is built in one backend, and only if it exists. *)
BuiltInv ==
  /\ \A b \in Backends : built[b] \subseteq catalog
  /\ \A b, c \in Backends : b # c => built[b] \cap built[c] = {}

Entered(b) == {n \in Nodes : hashp[b][n] # NoIndex}

(* The marks are those of the entries, and none is beyond its row. *)
MarkInv ==
  \A b \in Backends \ (rebuilt \cup wide) :
    /\ temp_node_id[b] = {Place(n) : n \in Entered(b)}
    /\ \A n \in Entered(b) : n[2] < IdLimit

(* Nothing is hashed or numbered below the threshold. *)
CountInv ==
  \A b \in Backends :
    /\ numbered[b] # NoIndex => mbt_entries_count[b] = Threshold
    /\ \A i \in Indexes :
         digests[b][i] = "none" \/ (digests[b][i] = "fresh" /\ mbt_entries_count[b] = Threshold)

(* Only rows of the table need an excuse. *)
ExcusedInv == \A i \in Indexes : excused[i] \subseteq rows[i]

IndexInv ==
  /\ TypeOK /\ BuiltInv /\ MarkInv /\ CountInv /\ ExcusedInv
  /\ TreeHoldsTheTable /\ LastNumberedIsDescribed

-----------------------------------------------------------------------------
(* Helpers *)

LEMMA LeafShape == Leaf \in Shapes
<1>1. Leaf \in [Levels -> 0 .. MaxWidth] /\ \A l \in Levels : Leaf[l] = 0
  BY IndexAssumption DEF Leaf
<1>2. Depth \in Levels
  BY IndexAssumption DEF Levels
<1> QED
  BY <1>1, <1>2 DEF Shapes

(* A place inside its row is no other node's. *)
LEMMA PlacesApart ==
  ASSUME NEW l \in Nat, NEW m \in Nat, NEW d \in 0 .. IdLimit - 1, NEW e \in 0 .. IdLimit - 1,
         l * IdLimit + d = m * IdLimit + e
  PROVE  l = m /\ d = e
<1> DEFINE L == IdLimit
<1>0. L \in Nat /\ L > 0
  BY IndexAssumption
<1>1. CASE l < m
  <2>1. PICK j \in Nat : m = l + 1 + j
    BY <1>1
  <2>2. m * L = l * L + L + j * L /\ j * L >= 0 /\ l * L \in Int /\ j * L \in Int
    BY <1>0, <2>1
  <2> QED
    BY <1>0, <2>2
<1>2. CASE m < l
  <2>1. PICK j \in Nat : l = m + 1 + j
    BY <1>2
  <2>2. l * L = m * L + L + j * L /\ j * L >= 0 /\ m * L \in Int /\ j * L \in Int
    BY <1>0, <2>1
  <2> QED
    BY <1>0, <2>2
<1>3. CASE l = m
  <2>1. l * L \in Int
    BY <1>0
  <2> QED
    BY <1>0, <1>3, <2>1
<1> QED
  BY <1>1, <1>2, <1>3

LEMMA NodeFacts ==
  ASSUME NEW n \in Nodes
  PROVE  n[1] \in Levels /\ n[2] \in 0 .. MaxWidth - 1 /\ n = <<n[1], n[2]>>
BY DEF Nodes

(* With the marks of the entries, a level's marks are its entries. *)
LEMMA MarksAreEntries ==
  ASSUME TypeOK, MarkInv
  PROVE  MapIsWhole
<1> SUFFICES ASSUME NEW b \in Backends \ (rebuilt \cup wide), NEW l \in Levels
             PROVE  Marked(b, l) = Sized(b, l)
  BY DEF MapIsWhole, Parses, SerializeFails
<1>1. ASSUME NEW d \in Marked(b, l)
      PROVE  d \in Sized(b, l)
  <2>1. d \in 0 .. IdLimit - 1 /\ Place(<<l, d>>) \in temp_node_id[b]
    BY DEF Marked
  <2>2. PICK n \in Entered(b) : Place(<<l, d>>) = Place(n)
    BY <2>1 DEF MarkInv
  <2>3. n \in Nodes /\ n[2] < IdLimit /\ hashp[b][n] # NoIndex
    BY DEF MarkInv, Entered
  <2>4. n[1] \in Nat /\ l \in Nat /\ n[2] \in 0 .. IdLimit - 1 /\ n[2] \in 0 .. MaxWidth - 1
    BY <2>3, NodeFacts, IndexAssumption DEF Levels
  <2>5. l * IdLimit + d = n[1] * IdLimit + n[2]
    BY <2>2 DEF Place
  <2>6. l = n[1] /\ d = n[2]
    BY <2>1, <2>4, <2>5, PlacesApart
  <2>7. hashp[b][<<l, d>>] # NoIndex
    BY <2>3, <2>6, NodeFacts
  <2> QED
    BY <2>4, <2>6, <2>7 DEF Sized
<1>2. ASSUME NEW d \in Sized(b, l)
      PROVE  d \in Marked(b, l)
  <2>1. d \in 0 .. MaxWidth - 1 /\ hashp[b][<<l, d>>] # NoIndex
    BY DEF Sized
  <2>2. <<l, d>> \in Nodes
    BY <2>1 DEF Nodes
  <2>3. <<l, d>> \in Entered(b)
    BY <2>1, <2>2 DEF Entered
  <2>4. d < IdLimit
    BY <2>3 DEF MarkInv
  <2>5. Place(<<l, d>>) \in temp_node_id[b]
    BY <2>3 DEF MarkInv
  <2> QED
    BY <2>1, <2>4, <2>5, IndexAssumption DEF Marked
<1> QED
  BY <1>1, <1>2

-----------------------------------------------------------------------------
LEMMA IndexStart == Init => IndexInv
<1> SUFFICES ASSUME Init PROVE IndexInv
  OBVIOUS
<1>1. TypeOK
  BY LeafShape, IndexAssumption DEF Init, TypeOK
<1>2. BuiltInv /\ TreeHoldsTheTable /\ LastNumberedIsDescribed /\ CountInv /\ ExcusedInv
  BY IndexAssumption DEF Init, BuiltInv, TreeHoldsTheTable, LastNumberedIsDescribed, CountInv,
                         ExcusedInv
<1>3. MarkInv
  <2>1. \A b \in Backends : temp_node_id[b] = {} /\ Entered(b) = {}
    BY DEF Init, Entered
  <2> QED
    BY <2>1 DEF MarkInv
<1> QED
  BY <1>1, <1>2, <1>3 DEF IndexInv

LEMMA SameState ==
  ASSUME IndexInv, UNCHANGED <<table, own>>, 
         fault' \in {"none", "emptied", "overrun", "strayed"}
  PROVE  IndexInv'
<1>1. TypeOK'
  BY DEF IndexInv, TypeOK, table, own
<1>2. BuiltInv' /\ TreeHoldsTheTable' /\ CountInv' /\ ExcusedInv'
  BY DEF IndexInv, BuiltInv, TreeHoldsTheTable, CountInv, ExcusedInv, table, own
<1>3. MarkInv'
  BY DEF IndexInv, MarkInv, Entered, table, own
<1>4. LastNumberedIsDescribed'
  BY DEF IndexInv, LastNumberedIsDescribed, Describes, table, own
<1> QED
  BY <1>1, <1>2, <1>3, <1>4 DEF IndexInv

(* Backends that start anew, with their trees' history forgotten *)
LEMMA FreshStep ==
  ASSUME IndexInv, NEW B \in SUBSET Backends, NEW I \in SUBSET Indexes, Fresh(B), Forget(I),
         \A b \in Backends \ B : built[b] \cap I = {}, UNCHANGED fault
  PROVE  IndexInv'
<1>1. TypeOK'
  BY LeafShape, IndexAssumption DEF IndexInv, TypeOK, Fresh, Forget
<1>a. /\ \A b \in B : /\ built'[b] = {} /\ numbered'[b] = NoIndex /\ temp_node_id'[b] = {}
                      /\ \A n \in Nodes : hashp'[b][n] = NoIndex
                      /\ \A i \in Indexes : digests'[b][i] = "none"
      /\ \A b \in Backends \ B :
           /\ built'[b] = built[b] /\ numbered'[b] = numbered[b] /\ entries'[b] = entries[b]
           /\ temp_node_id'[b] = temp_node_id[b] /\ hashp'[b] = hashp[b] /\ aged'[b] = aged[b]
           /\ digests'[b] = digests[b] /\ shape'[b] = shape[b]
           /\ mbt_entries_count'[b] = mbt_entries_count[b]
      /\ rebuilt' = rebuilt \ B /\ wide' = wide \ B
      /\ catalog' = catalog /\ rows' = rows
      /\ \A i \in Indexes \ I : excused'[i] = excused[i] /\ ghosts'[i] = ghosts[i]
  BY DEF Fresh, Forget
<1>2. BuiltInv'
  BY <1>a DEF IndexInv, BuiltInv
<1>3. MarkInv'
  <2>1. SUFFICES ASSUME NEW b \in Backends, b \notin rebuilt', b \notin wide'
                 PROVE  /\ temp_node_id'[b] = {Place(n) : n \in Entered(b)'}
                        /\ \A n \in Entered(b)' : n[2] < IdLimit
    BY DEF MarkInv, Place
  <2>2. CASE b \in B
    <3>1. Entered(b)' = {}
      BY <1>a, <2>2 DEF Entered
    <3> QED
      BY <1>a, <2>2, <3>1
  <2>3. CASE b \notin B
    <3>1. Entered(b)' = Entered(b) /\ temp_node_id'[b] = temp_node_id[b]
      BY <1>a, <2>3 DEF Entered
    <3>2. b \in Backends \ (rebuilt \cup wide)
      BY <1>a, <2>1, <2>3
    <3> QED
      BY <3>1, <3>2 DEF IndexInv, MarkInv
  <2> QED
    BY <2>2, <2>3
<1>4. CountInv'
  BY <1>a DEF IndexInv, CountInv
<1>5. TreeHoldsTheTable'
  <2>1. SUFFICES ASSUME NEW b \in Backends, NEW i \in built'[b]
                 PROVE  entries'[b][i] = (rows'[i] \ excused'[i]) \cup ghosts'[i]
    BY DEF TreeHoldsTheTable
  <2>2. b \in Backends \ B /\ i \in built[b]
    BY <1>a, <2>1
  <2>3. i \in Indexes \ I
    BY <2>2 DEF IndexInv, TypeOK
  <2> QED
    BY <1>a, <2>2, <2>3 DEF IndexInv, TreeHoldsTheTable
<1>7. ExcusedInv'
  BY DEF IndexInv, ExcusedInv, Forget
<1>6. LastNumberedIsDescribed'
  <2>1. SUFFICES ASSUME NEW b \in Backends, numbered'[b] \in built'[b]
                 PROVE  Describes(b, numbered[b])' /\ digests'[b][numbered'[b]] = "fresh"
    BY DEF LastNumberedIsDescribed
  <2>2. b \in Backends \ B
    BY <1>a, <2>1
  <2> QED
    BY <1>a, <2>1, <2>2 DEF IndexInv, LastNumberedIsDescribed, Describes, NodesOf
<1> QED
  BY <1>1, <1>2, <1>3, <1>4, <1>5, <1>6, <1>7 DEF IndexInv

LEMMA CreateStep ==
  ASSUME IndexInv, NEW b \in Backends, NEW i \in Indexes, NEW outcome \in Outcomes,
         CreateIndex(b, i, outcome), UNCHANGED fault
  PROVE  IndexInv'
<1>a. /\ i \notin catalog
      /\ \A n \in Nodes : hashp'[b][n] = NoIndex
      /\ numbered'[b] = NoIndex /\ entries'[b][i] = {} /\ digests'[b][i] = "none"
      /\ \A j \in Indexes \ {i} : entries'[b][j] = entries[b][j] /\ digests'[b][j] = digests[b][j]
      /\ \A c \in Backends \ {b} :
           /\ built'[c] = built[c] /\ numbered'[c] = numbered[c] /\ entries'[c] = entries[c]
           /\ hashp'[c] = hashp[c] /\ aged'[c] = aged[c]
           /\ digests'[c] = digests[c] /\ shape'[c] = shape[c]
      /\ mbt_entries_count' = mbt_entries_count /\ temp_node_id' = temp_node_id
      /\ rebuilt' = (IF temp_node_id[b] = {} THEN rebuilt ELSE rebuilt \cup {b})
      /\ wide' = wide /\ rows' = rows
  BY DEF IndexInv, TypeOK, CreateIndex, CounterAfterBuild
<1>b. \/ /\ catalog' = catalog \cup {i} /\ built'[b] = built[b] \cup {i}
         /\ excused'[i] = rows[i] /\ ghosts'[i] = {}
         /\ \A j \in Indexes \ {i} : excused'[j] = excused[j] /\ ghosts'[j] = ghosts[j]
      \/ catalog' = catalog /\ built' = built /\ excused' = excused /\ ghosts' = ghosts
  BY DEF IndexInv, TypeOK, CreateIndex
<1>c. \A c \in Backends : i \notin built[c]
  BY <1>a DEF IndexInv, BuiltInv
<1>1. TypeOK'
  <2>1. /\ hashp' \in [Backends -> [Nodes -> Indexes \cup {NoIndex}]]
        /\ entries' \in [Backends -> [Indexes -> SUBSET Rows]]
        /\ digests' \in [Backends -> [Indexes -> {"none", "fresh", "stale"}]]
        /\ aged' \in [Backends -> SUBSET Nodes]
        /\ numbered' \in [Backends -> Indexes \cup {NoIndex}]
    BY DEF IndexInv, TypeOK, CreateIndex
  <2>2. shape' \in [Backends -> [Indexes -> Shapes]]
    BY LeafShape DEF IndexInv, TypeOK, CreateIndex
  <2>3. /\ catalog' \subseteq Indexes /\ built' \in [Backends -> SUBSET Indexes]
        /\ excused' \in [Indexes -> SUBSET Rows] /\ ghosts' \in [Indexes -> SUBSET Rows]
    <3>1. CASE outcome = "commit"
      <4>1. /\ catalog' = catalog \cup {i}
            /\ built' = [built EXCEPT ![b] = built[b] \cup {i}]
            /\ excused' = [excused EXCEPT ![i] = rows[i]]
            /\ ghosts' = [ghosts EXCEPT ![i] = {}]
        BY <3>1 DEF CreateIndex
      <4>2. rows[i] \in SUBSET Rows /\ built[b] \cup {i} \in SUBSET Indexes
        BY DEF IndexInv, TypeOK
      <4> QED
        BY <4>1, <4>2 DEF IndexInv, TypeOK
    <3>2. CASE outcome # "commit"
      BY <3>2 DEF IndexInv, TypeOK, CreateIndex
    <3> QED
      BY <3>1, <3>2
  <2> QED
    BY <1>a, <2>1, <2>2, <2>3 DEF IndexInv, TypeOK
<1>2. BuiltInv'
  BY <1>a, <1>b, <1>c DEF IndexInv, BuiltInv
<1>3. MarkInv'
  <2>1. SUFFICES ASSUME NEW c \in Backends, c \notin rebuilt', c \notin wide'
                 PROVE  /\ temp_node_id'[c] = {Place(n) : n \in Entered(c)'}
                        /\ \A n \in Entered(c)' : n[2] < IdLimit
    BY DEF MarkInv, Place
  <2>2. CASE c = b
    <3>1. Entered(b)' = {} /\ temp_node_id'[b] = {}
      BY <1>a, <2>1, <2>2 DEF Entered
    <3> QED
      BY <2>2, <3>1
  <2>3. CASE c # b
    <3>1. Entered(c)' = Entered(c) /\ temp_node_id'[c] = temp_node_id[c]
      BY <1>a, <2>3 DEF Entered
    <3>2. c \in Backends \ (rebuilt \cup wide)
      BY <1>a, <2>1, <2>3
    <3> QED
      BY <3>1, <3>2 DEF IndexInv, MarkInv
  <2> QED
    BY <2>2, <2>3
<1>4. CountInv'
  <2>1. SUFFICES ASSUME NEW c \in Backends
                 PROVE  /\ numbered'[c] # NoIndex => mbt_entries_count'[c] = Threshold
                        /\ \A j \in Indexes : digests'[c][j] = "none"
                             \/ (digests'[c][j] = "fresh" /\ mbt_entries_count'[c] = Threshold)
    BY DEF CountInv
  <2>2. CASE c = b
    <3>1. CountInv
      BY DEF IndexInv
    <3>2. \A j \in Indexes : digests'[b][j] = "none" \/ digests'[b][j] = digests[b][j]
      BY <1>a
    <3> QED
      BY <1>a, <2>2, <3>1, <3>2 DEF CountInv
  <2>3. CASE c # b
    BY <1>a, <2>3 DEF IndexInv, CountInv
  <2> QED
    BY <2>2, <2>3
<1>5. TreeHoldsTheTable'
  <2>1. SUFFICES ASSUME NEW c \in Backends, NEW j \in built'[c]
                 PROVE  entries'[c][j] = (rows'[j] \ excused'[j]) \cup ghosts'[j]
    BY DEF TreeHoldsTheTable
  <2>2. CASE j = i
    <3>1. c = b /\ excused'[i] = rows[i] /\ ghosts'[i] = {}
      BY <1>a, <1>b, <1>c, <2>1, <2>2
    <3> QED
      BY <1>a, <2>2, <3>1
  <2>3. CASE j # i
    <3>1. j \in built[c] /\ j \in Indexes
      BY <1>a, <1>b, <2>1, <2>3 DEF IndexInv, TypeOK
    <3>2. excused'[j] = excused[j] /\ ghosts'[j] = ghosts[j] /\ entries'[c][j] = entries[c][j]
      BY <1>a, <1>b, <2>3, <3>1
    <3> QED
      BY <1>a, <3>1, <3>2 DEF IndexInv, TreeHoldsTheTable
  <2> QED
    BY <2>2, <2>3
<1>7. ExcusedInv'
  BY <1>a, <1>b DEF IndexInv, ExcusedInv
<1>6. LastNumberedIsDescribed'
  <2>1. SUFFICES ASSUME NEW c \in Backends, numbered'[c] \in built'[c]
                 PROVE  Describes(c, numbered[c])' /\ digests'[c][numbered'[c]] = "fresh"
    BY DEF LastNumberedIsDescribed
  <2>2. c # b
    BY <1>1, <1>a, <2>1, IndexAssumption DEF TypeOK
  <2>3. /\ built'[c] = built[c] /\ numbered'[c] = numbered[c] /\ hashp'[c] = hashp[c]
        /\ aged'[c] = aged[c] /\ digests'[c] = digests[c] /\ shape'[c] = shape[c]
    BY <1>a, <2>2
  <2>4. LastNumberedIsDescribed
    BY DEF IndexInv
  <2>5. Describes(c, numbered[c]) /\ digests[c][numbered[c]] = "fresh"
    BY <2>1, <2>3, <2>4 DEF LastNumberedIsDescribed
  <2>6. Describes(c, numbered[c])'
    BY <2>3, <2>5 DEF Describes, NodesOf
  <2> QED
    BY <2>3, <2>5, <2>6
<1> QED
  BY <1>1, <1>2, <1>3, <1>4, <1>5, <1>6, <1>7 DEF IndexInv

LEMMA DropStep ==
  ASSUME IndexInv, NEW b \in Backends, NEW i \in Indexes, DropIndex(b, i), UNCHANGED fault
  PROVE  IndexInv'
<1>a. /\ catalog' = catalog \ {i} /\ rows' = rows
      /\ \A c \in Backends : built'[c] = built[c] \ {i} /\ digests'[c][i] = "none"
      /\ \A c \in Backends : \A j \in Indexes \ {i} :
           /\ entries'[c][j] = entries[c][j] /\ shape'[c][j] = shape[c][j]
           /\ digests'[c][j] = digests[c][j]
      /\ \A j \in Indexes \ {i} : excused'[j] = excused[j] /\ ghosts'[j] = ghosts[j]
      /\ UNCHANGED <<hashp, aged, temp_node_id, mbt_entries_count, numbered, rebuilt, wide>>
  BY DEF IndexInv, TypeOK, DropIndex
<1>1. TypeOK'
  <2>1. /\ entries' \in [Backends -> [Indexes -> SUBSET Rows]]
        /\ digests' \in [Backends -> [Indexes -> {"none", "fresh", "stale"}]]
        /\ built' \in [Backends -> SUBSET Indexes]
    BY DEF IndexInv, TypeOK, DropIndex
  <2>2. shape' \in [Backends -> [Indexes -> Shapes]]
    BY LeafShape DEF IndexInv, TypeOK, DropIndex
  <2>3. excused' \in [Indexes -> SUBSET Rows] /\ ghosts' \in [Indexes -> SUBSET Rows]
    BY DEF IndexInv, TypeOK, DropIndex
  <2> QED
    BY <1>a, <2>1, <2>2, <2>3 DEF IndexInv, TypeOK
<1>2. BuiltInv'
  BY <1>a DEF IndexInv, BuiltInv
<1>3. MarkInv'
  BY <1>a DEF IndexInv, MarkInv, Entered
<1>4. CountInv'
  <2>1. \A c \in Backends, j \in Indexes : digests'[c][j] = "none" \/ digests'[c][j] = digests[c][j]
    BY <1>a
  <2> QED
    BY <1>a, <2>1 DEF IndexInv, CountInv
<1>b. \A c \in Backends : \A j \in built'[c] : j \in built[c] /\ j \in Indexes \ {i}
  <2>1. \A c \in Backends : built[c] \subseteq Indexes /\ built'[c] = built[c] \ {i}
    BY <1>a DEF IndexInv, TypeOK
  <2> QED
    BY <2>1
<1>5. TreeHoldsTheTable'
  BY <1>a, <1>b DEF IndexInv, TreeHoldsTheTable
<1>7. ExcusedInv'
  BY DEF IndexInv, ExcusedInv, DropIndex
<1>6. LastNumberedIsDescribed'
  BY <1>a, <1>b DEF IndexInv, LastNumberedIsDescribed, Describes, NodesOf
<1> QED
  BY <1>1, <1>2, <1>3, <1>4, <1>5, <1>6, <1>7 DEF IndexInv

(* An insertion into a tree of this backend: first the backend's variables *)
OwnOK ==
  /\ built \in [Backends -> SUBSET Indexes]
  /\ entries \in [Backends -> [Indexes -> SUBSET Rows]]
  /\ shape \in [Backends -> [Indexes -> Shapes]]
  /\ digests \in [Backends -> [Indexes -> {"none", "fresh", "stale"}]]
  /\ hashp \in [Backends -> [Nodes -> Indexes \cup {NoIndex}]]
  /\ aged \in [Backends -> SUBSET Nodes]
  /\ temp_node_id \in [Backends -> SUBSET Places]
  /\ mbt_entries_count \in [Backends -> 0 .. Threshold]
  /\ numbered \in [Backends -> Indexes \cup {NoIndex}]
  /\ rebuilt \subseteq Backends /\ wide \subseteq Backends
  /\ fault \in {"none", "emptied", "overrun", "strayed"}

OwnInv == OwnOK /\ MarkInv /\ CountInv /\ LastNumberedIsDescribed

(* Whether or not the tree is hashed *)
LEMMA PutFrame ==
  ASSUME OwnOK, NEW b \in Backends, NEW i \in Indexes, NEW after \in SUBSET Rows,
         NEW s \in Shapes, Put(b, i, after, s)
  PROVE  /\ built' = built /\ rebuilt' = rebuilt
         /\ entries'[b][i] = after /\ shape'[b][i] = s /\ mbt_entries_count'[b] = Counted(b)
         /\ \A j \in Indexes \ {i} : /\ entries'[b][j] = entries[b][j] /\ shape'[b][j] = shape[b][j]
                                     /\ digests'[b][j] = digests[b][j]
         /\ \A c \in Backends \ {b} :
              /\ entries'[c] = entries[c] /\ shape'[c] = shape[c] /\ digests'[c] = digests[c]
              /\ hashp'[c] = hashp[c] /\ aged'[c] = aged[c]
              /\ temp_node_id'[c] = temp_node_id[c] /\ numbered'[c] = numbered[c]
              /\ mbt_entries_count'[c] = mbt_entries_count[c]
         /\ \A c \in Backends \ {b} : c \in wide' <=> c \in wide
         /\ entries' \in [Backends -> [Indexes -> SUBSET Rows]]
         /\ shape' \in [Backends -> [Indexes -> Shapes]]
<1>1. /\ entries' = [entries EXCEPT ![b][i] = after] /\ shape' = [shape EXCEPT ![b][i] = s]
      /\ mbt_entries_count' = [mbt_entries_count EXCEPT ![b] = Counted(b)]
      /\ built' = built /\ rebuilt' = rebuilt
  BY DEF Put
<1>2. /\ entries'[b][i] = after /\ shape'[b][i] = s /\ mbt_entries_count'[b] = Counted(b)
      /\ \A j \in Indexes \ {i} : entries'[b][j] = entries[b][j] /\ shape'[b][j] = shape[b][j]
      /\ \A c \in Backends \ {b} : /\ entries'[c] = entries[c] /\ shape'[c] = shape[c]
                                   /\ mbt_entries_count'[c] = mbt_entries_count[c]
      /\ entries' \in [Backends -> [Indexes -> SUBSET Rows]]
      /\ shape' \in [Backends -> [Indexes -> Shapes]]
  BY <1>1 DEF OwnOK
<1>3. /\ \A j \in Indexes \ {i} : digests'[b][j] = digests[b][j]
      /\ \A c \in Backends \ {b} : digests'[c] = digests[c]
  <2>1. \E d : digests' = [digests EXCEPT ![b][i] = d]
    BY DEF Put
  <2> QED
    BY <2>1 DEF OwnOK
<1>4. \A c \in Backends \ {b} : /\ hashp'[c] = hashp[c] /\ aged'[c] = aged[c]
                                /\ temp_node_id'[c] = temp_node_id[c]
                                /\ numbered'[c] = numbered[c]
  <2>1. /\ \E x : hashp' = [hashp EXCEPT ![b] = x] \/ hashp' = hashp
        /\ \E x : aged' = [aged EXCEPT ![b] = x]
        /\ \E x : temp_node_id' = [temp_node_id EXCEPT ![b] = x] \/ temp_node_id' = temp_node_id
        /\ \E x : numbered' = [numbered EXCEPT ![b] = x] \/ numbered' = numbered
    BY DEF Put
  <2> QED
    BY <2>1 DEF OwnOK
<1>5. \A c \in Backends \ {b} : c \in wide' <=> c \in wide
  BY DEF Put
<1> QED
  BY <1>1, <1>2, <1>3, <1>4, <1>5

(* The backends that an insertion is not made in *)
LEMMA OthersKeep ==
  ASSUME OwnInv, NEW b \in Backends, NEW i \in Indexes, NEW after \in SUBSET Rows,
         NEW s \in Shapes, Put(b, i, after, s), NEW c \in Backends \ {b}
  PROVE  /\ (c \notin rebuilt' \cup wide' =>
               /\ temp_node_id'[c] = {Place(n) : n \in Entered(c)'}
               /\ \A n \in Entered(c)' : n[2] < IdLimit)
         /\ (numbered'[c] # NoIndex => mbt_entries_count'[c] = Threshold)
         /\ \A j \in Indexes : digests'[c][j] = "none"
              \/ (digests'[c][j] = "fresh" /\ mbt_entries_count'[c] = Threshold)
         /\ (numbered'[c] \in built'[c] =>
               Describes(c, numbered[c])' /\ digests'[c][numbered'[c]] = "fresh")
<1>1. /\ built' = built /\ rebuilt' = rebuilt
      /\ entries'[c] = entries[c] /\ shape'[c] = shape[c] /\ digests'[c] = digests[c]
      /\ hashp'[c] = hashp[c] /\ aged'[c] = aged[c] /\ temp_node_id'[c] = temp_node_id[c]
      /\ numbered'[c] = numbered[c] /\ mbt_entries_count'[c] = mbt_entries_count[c]
      /\ c \in wide' <=> c \in wide
  BY PutFrame DEF OwnInv
<1>2. Entered(c)' = Entered(c)
  BY <1>1 DEF Entered
<1>3. MarkInv /\ CountInv /\ LastNumberedIsDescribed
  BY DEF OwnInv
<1>4. c \notin rebuilt' \cup wide' =>
        /\ temp_node_id'[c] = {Place(n) : n \in Entered(c)'}
        /\ \A n \in Entered(c)' : n[2] < IdLimit
  BY <1>1, <1>2, <1>3 DEF MarkInv
<1>5. /\ (numbered'[c] # NoIndex => mbt_entries_count'[c] = Threshold)
      /\ \A j \in Indexes : digests'[c][j] = "none"
           \/ (digests'[c][j] = "fresh" /\ mbt_entries_count'[c] = Threshold)
  <2>1. /\ numbered[c] # NoIndex => mbt_entries_count[c] = Threshold
        /\ \A j \in Indexes : digests[c][j] = "none"
             \/ (digests[c][j] = "fresh" /\ mbt_entries_count[c] = Threshold)
    BY <1>3 DEF CountInv
  <2> QED
    BY <1>1, <2>1
<1>6. numbered'[c] \in built'[c] =>
        Describes(c, numbered[c])' /\ digests'[c][numbered'[c]] = "fresh"
  BY <1>1, <1>3 DEF LastNumberedIsDescribed, Describes, NodesOf
<1> QED
  BY <1>4, <1>5, <1>6

LEMMA PutHashed ==
  ASSUME OwnInv, NEW b \in Backends, NEW i \in Indexes, NEW after \in SUBSET Rows,
         NEW s \in Shapes, Put(b, i, after, s), HashesNow(b)
  PROVE  OwnInv'
<1>o. OwnOK /\ MarkInv /\ CountInv
  BY DEF OwnInv
<1>p. /\ digests' = [digests EXCEPT ![b][i] = "fresh"]
      /\ hashp' = [hashp EXCEPT ![b] = Numbered(b, i, s)]
      /\ aged' = [aged EXCEPT ![b] = (aged[b] \cup EntriesOf(b, i)) \ NodesOf(s)]
      /\ temp_node_id' = [temp_node_id EXCEPT ![b] = temp_node_id[b] \cup Marks(s)]
      /\ numbered' = [numbered EXCEPT ![b] = i]
      /\ wide' = (IF \E n \in NodesOf(s) : n[2] >= IdLimit THEN wide \cup {b} ELSE wide)
      /\ fault' = (IF after = {} THEN "emptied" ELSE fault)
      /\ mbt_entries_count' = [mbt_entries_count EXCEPT ![b] = Threshold]
      /\ built' = built /\ rebuilt' = rebuilt
  BY DEF Put, Counted
<1>q. /\ mbt_entries_count'[b] = Threshold /\ digests'[b][i] = "fresh" /\ numbered'[b] = i
      /\ temp_node_id'[b] = temp_node_id[b] \cup Marks(s)
      /\ hashp'[b] = Numbered(b, i, s)
      /\ aged'[b] = (aged[b] \cup EntriesOf(b, i)) \ NodesOf(s)
      /\ shape'[b][i] = s
      /\ \A j \in Indexes \ {i} : digests'[b][j] = digests[b][j]
  <2>1. /\ mbt_entries_count'[b] = Threshold /\ numbered'[b] = i
        /\ temp_node_id'[b] = temp_node_id[b] \cup Marks(s)
        /\ hashp'[b] = Numbered(b, i, s)
        /\ aged'[b] = (aged[b] \cup EntriesOf(b, i)) \ NodesOf(s)
    BY <1>o, <1>p DEF OwnOK
  <2>2. /\ digests'[b][i] = "fresh"
        /\ \A j \in Indexes \ {i} : digests'[b][j] = digests[b][j]
    <3>1. digests \in [Backends -> [Indexes -> {"none", "fresh", "stale"}]]
      BY <1>o DEF OwnOK
    <3> QED
      BY <1>p, <3>1
  <2>3. shape'[b][i] = s
    <3>1. shape' = [shape EXCEPT ![b][i] = s] /\ shape \in [Backends -> [Indexes -> Shapes]]
      BY <1>o DEF OwnOK, Put
    <3> QED
      BY <3>1
  <2> QED
    BY <2>1, <2>2, <2>3
<1>r. NodesOf(s) \subseteq Nodes
  BY DEF NodesOf
<1>n. \A n \in Nodes : hashp'[b][n] = IF n \in NodesOf(s) THEN i ELSE hashp[b][n]
  BY <1>q DEF Numbered
<1>1. OwnOK'
  <2>1. /\ digests' \in [Backends -> [Indexes -> {"none", "fresh", "stale"}]]
        /\ numbered' \in [Backends -> Indexes \cup {NoIndex}]
    BY <1>o, <1>p DEF OwnOK
  <2>2. hashp' \in [Backends -> [Nodes -> Indexes \cup {NoIndex}]]
    <3>1. Numbered(b, i, s) \in [Nodes -> Indexes \cup {NoIndex}]
      BY <1>o DEF Numbered, OwnOK
    <3> QED
      BY <1>o, <1>p, <3>1 DEF OwnOK
  <2>3. aged' \in [Backends -> SUBSET Nodes]
    <3>1. (aged[b] \cup EntriesOf(b, i)) \ NodesOf(s) \in SUBSET Nodes
      BY <1>o DEF OwnOK, EntriesOf
    <3> QED
      BY <1>o, <1>p, <3>1 DEF OwnOK
  <2>4. temp_node_id' \in [Backends -> SUBSET Places]
    <3>1. Marks(s) \in SUBSET Places
      BY <1>r DEF Marks, Places
    <3> QED
      BY <1>o, <1>p, <3>1 DEF OwnOK
  <2>5. mbt_entries_count' \in [Backends -> 0 .. Threshold]
    BY <1>o, <1>p, IndexAssumption DEF OwnOK
  <2>6. wide' \subseteq Backends /\ fault' \in {"none", "emptied", "overrun", "strayed"}
    BY <1>o, <1>p DEF OwnOK
  <2>7. built' = built /\ rebuilt' = rebuilt /\ entries' \in [Backends -> [Indexes -> SUBSET Rows]]
        /\ shape' \in [Backends -> [Indexes -> Shapes]]
    BY <1>o, PutFrame
  <2> QED
    BY <1>o, <2>1, <2>2, <2>3, <2>4, <2>5, <2>6, <2>7 DEF OwnOK
<1>2. MarkInv'
  <2>1. SUFFICES ASSUME NEW c \in Backends, c \notin rebuilt' \cup wide'
                 PROVE  /\ temp_node_id'[c] = {Place(n) : n \in Entered(c)'}
                        /\ \A n \in Entered(c)' : n[2] < IdLimit
    BY DEF MarkInv, Place
  <2>2. CASE c = b
    <3>1. Entered(b)' = Entered(b) \cup NodesOf(s)
      BY <1>n, <1>r, IndexAssumption DEF Entered
    <3>2. b \notin wide /\ \A n \in NodesOf(s) : n[2] < IdLimit
      <4>1. \A n \in NodesOf(s) : n[2] \in Int
        BY <1>r, NodeFacts
      <4> QED
        BY <1>p, <2>1, <2>2, <4>1, IndexAssumption
    <3>3. b \in Backends \ (rebuilt \cup wide)
      BY <1>p, <2>1, <2>2, <3>2
    <3>4. /\ temp_node_id[b] = {Place(n) : n \in Entered(b)}
          /\ \A n \in Entered(b) : n[2] < IdLimit
      BY <1>o, <3>3 DEF MarkInv
    <3>5. temp_node_id'[b] = {Place(n) : n \in Entered(b) \cup NodesOf(s)}
      <4>1. Marks(s) = {Place(n) : n \in NodesOf(s)}
        BY DEF Marks
      <4>2. {Place(n) : n \in Entered(b) \cup NodesOf(s)}
              = {Place(n) : n \in Entered(b)} \cup {Place(n) : n \in NodesOf(s)}
        OBVIOUS
      <4> QED
        BY <1>q, <3>4, <4>1, <4>2
    <3> QED
      BY <2>2, <3>1, <3>2, <3>4, <3>5
  <2>3. CASE c # b
    BY <2>1, <2>3, OthersKeep
  <2> QED
    BY <2>2, <2>3
<1>3. CountInv'
  <2>1. SUFFICES ASSUME NEW c \in Backends
                 PROVE  /\ numbered'[c] # NoIndex => mbt_entries_count'[c] = Threshold
                        /\ \A j \in Indexes : digests'[c][j] = "none"
                             \/ (digests'[c][j] = "fresh" /\ mbt_entries_count'[c] = Threshold)
    BY DEF CountInv
  <2>2. CASE c = b
    <3>1. \A j \in Indexes : digests[b][j] = "none" \/ digests[b][j] = "fresh"
      BY <1>o DEF CountInv
    <3> QED
      BY <1>q, <2>2, <3>1
  <2>3. CASE c # b
    BY <2>3, OthersKeep
  <2> QED
    BY <2>2, <2>3
<1>4. LastNumberedIsDescribed'
  <2>1. SUFFICES ASSUME NEW c \in Backends, numbered'[c] \in built'[c]
                 PROVE  Describes(c, numbered[c])' /\ digests'[c][numbered'[c]] = "fresh"
    BY DEF LastNumberedIsDescribed
  <2>2. CASE c = b
    <3>1. NodesOf(shape[b][i])' = NodesOf(s)
      BY <1>q DEF NodesOf
    <3>2. \A n \in NodesOf(s) : hashp'[b][n] = i /\ n \notin aged'[b]
      BY <1>n, <1>q, <1>r
    <3>3. Describes(b, i)'
      BY <3>1, <3>2 DEF Describes
    <3> QED
      BY <1>q, <2>2, <3>1, <3>2 DEF Describes, NodesOf
  <2>3. CASE c # b
    BY <2>1, <2>3, OthersKeep
  <2> QED
    BY <2>2, <2>3
<1> QED
  BY <1>1, <1>2, <1>3, <1>4 DEF OwnInv

LEMMA PutUnhashed ==
  ASSUME OwnInv, NEW b \in Backends, NEW i \in Indexes, NEW after \in SUBSET Rows,
         NEW s \in Shapes, Put(b, i, after, s), ~HashesNow(b)
  PROVE  OwnInv'
<1>o. OwnOK /\ MarkInv /\ CountInv
  BY DEF OwnInv
<1>a. mbt_entries_count[b] \in 0 .. Threshold /\ mbt_entries_count[b] + 1 < Threshold
  <2>1. mbt_entries_count[b] \in 0 .. Threshold
    BY <1>o DEF OwnOK
  <2> QED
    BY <2>1, IndexAssumption DEF HashesNow
<1>c. numbered[b] = NoIndex /\ \A j \in Indexes : digests[b][j] = "none"
  <2>1. mbt_entries_count[b] # Threshold
    BY <1>a, IndexAssumption
  <2> QED
    BY <1>o, <2>1 DEF CountInv
<1>p. /\ UNCHANGED <<hashp, temp_node_id, numbered, wide, fault>>
      /\ built' = built /\ rebuilt' = rebuilt
      /\ mbt_entries_count' = [mbt_entries_count EXCEPT ![b] = mbt_entries_count[b] + 1]
      /\ (aged' = [aged EXCEPT ![b] = aged[b]]
            \/ aged' = [aged EXCEPT ![b] = aged[b] \cup EntriesOf(b, i)])
  BY DEF Put, Counted
<1>d. digests' = [digests EXCEPT ![b][i] = "none"]
  <2>1. digests' = [digests EXCEPT ![b][i] =
                      IF after # entries[b][i] /\ digests[b][i] = "fresh" THEN "stale"
                      ELSE digests[b][i]]
    BY DEF Put
  <2> QED
    BY <1>c, <2>1
<1>1. OwnOK'
  <2>1. digests' \in [Backends -> [Indexes -> {"none", "fresh", "stale"}]]
    BY <1>d, <1>o DEF OwnOK
  <2>2. aged' \in [Backends -> SUBSET Nodes]
    <3>1. aged[b] \in SUBSET Nodes /\ aged[b] \cup EntriesOf(b, i) \in SUBSET Nodes
      BY <1>o DEF OwnOK, EntriesOf
    <3> QED
      BY <1>o, <1>p, <3>1 DEF OwnOK
  <2>3. mbt_entries_count' \in [Backends -> 0 .. Threshold]
    <3>1. mbt_entries_count[b] + 1 \in 0 .. Threshold
      BY <1>a, IndexAssumption
    <3> QED
      BY <1>o, <1>p, <3>1 DEF OwnOK
  <2>4. /\ entries' \in [Backends -> [Indexes -> SUBSET Rows]]
        /\ shape' \in [Backends -> [Indexes -> Shapes]]
    BY <1>o, PutFrame
  <2> QED
    BY <1>o, <1>p, <2>1, <2>2, <2>3, <2>4 DEF OwnOK
<1>2. MarkInv'
  BY <1>o, <1>p DEF MarkInv, Entered
<1>3. CountInv'
  <2>1. SUFFICES ASSUME NEW c \in Backends
                 PROVE  /\ numbered'[c] # NoIndex => mbt_entries_count'[c] = Threshold
                        /\ \A j \in Indexes : digests'[c][j] = "none"
                             \/ (digests'[c][j] = "fresh" /\ mbt_entries_count'[c] = Threshold)
    BY DEF CountInv
  <2>2. CASE c = b
    <3>1. \A j \in Indexes : digests'[b][j] = "none"
      BY <1>c, <1>d, <1>o DEF OwnOK
    <3> QED
      BY <1>c, <1>p, <2>2, <3>1
  <2>3. CASE c # b
    BY <2>3, OthersKeep
  <2> QED
    BY <2>2, <2>3
<1>4. LastNumberedIsDescribed'
  <2>1. SUFFICES ASSUME NEW c \in Backends, numbered'[c] \in built'[c]
                 PROVE  Describes(c, numbered[c])' /\ digests'[c][numbered'[c]] = "fresh"
    BY DEF LastNumberedIsDescribed
  <2>2. c # b
    <3>1. NoIndex \notin built[b]
      BY <1>o, IndexAssumption DEF OwnOK
    <3> QED
      BY <1>c, <1>p, <2>1, <3>1
  <2> QED
    BY <2>1, <2>2, OthersKeep
<1> QED
  BY <1>1, <1>2, <1>3, <1>4 DEF OwnInv

(* and with it the table *)
LEMMA PutStep ==
  ASSUME IndexInv, NEW b \in Backends, NEW i \in built[b],
         NEW after \in SUBSET Rows, NEW s \in Shapes, Put(b, i, after, s),
         UNCHANGED catalog, rows' \in [Indexes -> SUBSET Rows],
         excused' \in [Indexes -> SUBSET Rows], ghosts' \in [Indexes -> SUBSET Rows],
         \A j \in Indexes \ {i} :
           rows'[j] = rows[j] /\ excused'[j] = excused[j] /\ ghosts'[j] = ghosts[j],
         excused'[i] \subseteq rows'[i],
         after = (rows'[i] \ excused'[i]) \cup ghosts'[i]
  PROVE  IndexInv'
<1>a. i \in Indexes /\ OwnInv
  BY DEF IndexInv, TypeOK, OwnInv, OwnOK
<1>1. OwnInv'
  BY <1>a, PutHashed, PutUnhashed
<1>2. TypeOK'
  BY <1>1 DEF IndexInv, TypeOK, OwnInv, OwnOK
<1>b. /\ built' = built /\ entries'[b][i] = after
      /\ \A j \in Indexes \ {i} : entries'[b][j] = entries[b][j]
      /\ \A c \in Backends \ {b} : entries'[c] = entries[c]
  <2>1. OwnOK
    BY <1>a DEF OwnInv
  <2>2. built' = built /\ entries' = [entries EXCEPT ![b][i] = after]
    BY DEF Put
  <2>3. entries \in [Backends -> [Indexes -> SUBSET Rows]]
    BY <2>1 DEF OwnOK
  <2> QED
    BY <1>a, <2>2, <2>3
<1>3. BuiltInv'
  BY <1>b DEF IndexInv, BuiltInv
<1>4. TreeHoldsTheTable'
  <2>1. SUFFICES ASSUME NEW c \in Backends, NEW j \in built'[c]
                 PROVE  entries'[c][j] = (rows'[j] \ excused'[j]) \cup ghosts'[j]
    BY DEF TreeHoldsTheTable
  <2>2. CASE j = i
    <3>1. c = b
      BY <1>b, <2>1, <2>2 DEF IndexInv, BuiltInv
    <3> QED
      BY <1>b, <2>2, <3>1
  <2>3. CASE j # i
    <3>1. j \in built[c] /\ j \in Indexes
      BY <1>b, <2>1 DEF IndexInv, TypeOK
    <3>2. entries'[c][j] = entries[c][j]
      BY <1>b, <2>3, <3>1
    <3> QED
      BY <2>3, <3>1, <3>2 DEF IndexInv, TreeHoldsTheTable
  <2> QED
    BY <2>2, <2>3
<1>5. ExcusedInv'
  BY DEF IndexInv, ExcusedInv
<1> QED
  BY <1>1, <1>2, <1>3, <1>4, <1>5 DEF IndexInv, OwnInv

LEMMA ShapeFacts ==
  ASSUME TypeOK, NEW b \in Backends, NEW i \in Indexes, NEW after, NEW s \in ShapesAfter(b, i, after)
  PROVE  s \in Shapes
BY LeafShape DEF TypeOK, ShapesAfter, Grown, Shrunk

LEMMA InsertStep ==
  ASSUME IndexInv, NEW b \in Backends, NEW i \in Indexes, NEW row \in Rows,
         NEW data \in {"row", "zero"}, NEW outcome \in Outcomes, Insert(b, i, row, data, outcome)
  PROVE  IndexInv'
<1>a. /\ catalog' = catalog
      /\ rows' \in [Indexes -> SUBSET Rows]
      /\ \A j \in Indexes \ {i} : rows'[j] = rows[j]
      /\ rows'[i] = rows[i] \/ rows'[i] = rows[i] \cup {row}
      /\ row \notin rows[i] \cup ghosts[i]
  BY DEF IndexInv, TypeOK, Insert
<1>1. CASE i \notin catalog
  <2>a. UNCHANGED <<own, fault, excused, ghosts>>
    BY <1>1 DEF Insert
  <2>1. TypeOK'
    BY <1>a, <2>a DEF IndexInv, TypeOK, own
  <2>2. BuiltInv' /\ CountInv' /\ ExcusedInv'
    BY <1>a, <2>a DEF IndexInv, BuiltInv, CountInv, ExcusedInv, own
  <2>3. MarkInv'
    BY <2>a DEF IndexInv, MarkInv, Entered, own
  <2>4. LastNumberedIsDescribed'
    BY <2>a DEF IndexInv, LastNumberedIsDescribed, Describes, own
  <2>5. TreeHoldsTheTable'
    <3>1. \A c \in Backends : \A j \in built[c] : j \in Indexes \ {i}
      BY <1>1 DEF IndexInv, TypeOK, BuiltInv
    <3>2. \A c \in Backends : \A j \in built[c] :
            rows'[j] = rows[j] /\ entries[c][j] = (rows[j] \ excused[j]) \cup ghosts[j]
      BY <1>a, <3>1 DEF IndexInv, TreeHoldsTheTable
    <3>3. built' = built /\ entries' = entries /\ excused' = excused /\ ghosts' = ghosts
      BY <2>a DEF own
    <3> QED
      BY <3>2, <3>3 DEF TreeHoldsTheTable
  <2> QED
    BY <2>1, <2>2, <2>3, <2>4, <2>5 DEF IndexInv
<1>2. CASE i \in catalog
  <2> DEFINE after == EntriesAfter(b, i, row, data)
  <2>1. i \in built[b]
    BY <1>2 DEF Insert, Missing
  <2>2. PICK s \in ShapesAfter(b, i, after) : Put(b, i, after, s)
    BY <1>2 DEF Insert
  <2>3. s \in Shapes
    BY <2>2, ShapeFacts DEF IndexInv
  <2>4. /\ excused' = [excused EXCEPT ![i] = ExcusedAfter(i, row, data)]
        /\ ghosts' = [ghosts EXCEPT ![i] = GhostsAfter(i, row, data)]
    BY <1>2 DEF Insert
  <2>5. /\ excused[i] \subseteq rows[i] /\ ghosts[i] \subseteq Rows
        /\ rows[i] \subseteq Rows /\ rows'[i] \subseteq Rows
    BY <1>a DEF IndexInv, ExcusedInv, TypeOK
  <2>6. ExcusedAfter(i, row, data) \subseteq rows'[i] /\ GhostsAfter(i, row, data) \subseteq Rows
    BY <1>a, <2>5 DEF ExcusedAfter, GhostsAfter, OfKey
  <2>7. /\ excused' \in [Indexes -> SUBSET Rows] /\ ghosts' \in [Indexes -> SUBSET Rows]
        /\ \A j \in Indexes \ {i} : excused'[j] = excused[j] /\ ghosts'[j] = ghosts[j]
        /\ excused'[i] = ExcusedAfter(i, row, data) /\ ghosts'[i] = GhostsAfter(i, row, data)
    BY <2>4, <2>5, <2>6 DEF IndexInv, TypeOK
  <2>8. entries[b][i] = (rows[i] \ excused[i]) \cup ghosts[i]
    BY <2>1 DEF IndexInv, TreeHoldsTheTable
  <2>9. after = (rows'[i] \ ExcusedAfter(i, row, data)) \cup GhostsAfter(i, row, data)
    <3> DEFINE E == entries[b][i]  R == rows[i]  N == rows'[i]  X == excused[i]  G == ghosts[i]
    <3>a. /\ N = R \/ N = R \cup {row}
          /\ row \notin R /\ row \notin G /\ X \subseteq R /\ E = (R \ X) \cup G
      BY <1>a, <2>5, <2>8
    <3>2. Taken(i, row[1]) <=> OfKey(entries[b][i], row[1]) # {}
      BY <2>8 DEF Taken
    <3>3. CASE data = "zero"
      <4>1. /\ after = E \ OfKey(E, row[1])
            /\ ExcusedAfter(i, row, data) = X \cup OfKey(N, row[1])
            /\ GhostsAfter(i, row, data) = G \ OfKey(G, row[1])
        BY <3>3 DEF EntriesAfter, ExcusedAfter, GhostsAfter
      <4>2. after = (N \ ExcusedAfter(i, row, data)) \cup GhostsAfter(i, row, data)
        <5> HIDE DEF E, R, N, X, G, after
        <5> QED
          BY <3>a, <4>1 DEF OfKey
      <4> QED
        BY <4>2
    <3>4. CASE data # "zero" /\ Taken(i, row[1])
      <4>1. /\ after = E
            /\ ExcusedAfter(i, row, data) = X \cup ({row} \cap N)
            /\ GhostsAfter(i, row, data) = G
        BY <3>2, <3>4 DEF EntriesAfter, ExcusedAfter, GhostsAfter
      <4>2. after = (N \ ExcusedAfter(i, row, data)) \cup GhostsAfter(i, row, data)
        <5> HIDE DEF E, R, N, X, G, after
        <5> QED
          BY <3>a, <4>1
      <4> QED
        BY <4>2
    <3>5. CASE data # "zero" /\ ~Taken(i, row[1])
      <4>1. /\ after = E \cup {row}
            /\ ExcusedAfter(i, row, data) = X
            /\ GhostsAfter(i, row, data) = G \cup ({row} \ N)
        BY <3>2, <3>5 DEF EntriesAfter, ExcusedAfter, GhostsAfter
      <4>2. after = (N \ ExcusedAfter(i, row, data)) \cup GhostsAfter(i, row, data)
        <5> HIDE DEF E, R, N, X, G, after
        <5> QED
          BY <3>a, <4>1
      <4> QED
        BY <4>2
    <3> QED
      BY <3>3, <3>4, <3>5
  <2> HIDE DEF after
  <2>10. after \in SUBSET Rows
    BY <2>5, <2>6, <2>9
  <2> QED
    BY <1>a, <2>1, <2>2, <2>3, <2>6, <2>7, <2>9, <2>10, PutStep
<1> QED
  BY <1>1, <1>2

LEMMA DeleteStep ==
  ASSUME IndexInv, NEW i \in Indexes, NEW row \in Rows, Delete(i, row)
  PROVE  IndexInv'
<1>a. /\ UNCHANGED <<own, catalog, fault>>
      /\ rows' = [rows EXCEPT ![i] = @ \ {row}]
      /\ excused' = [excused EXCEPT ![i] = @ \ {row}]
      /\ ghosts' = [ghosts EXCEPT ![i] =
                      IF i \in catalog /\ row \notin excused[i] THEN @ \cup {row} ELSE @]
      /\ row \in rows[i]
  BY DEF Delete
<1>1. TypeOK'
  BY <1>a DEF IndexInv, TypeOK, own
<1>2. BuiltInv' /\ CountInv'
  BY <1>a DEF IndexInv, BuiltInv, CountInv, own
<1>3. MarkInv'
  BY <1>a DEF IndexInv, MarkInv, Entered, own
<1>4. LastNumberedIsDescribed'
  BY <1>a DEF IndexInv, LastNumberedIsDescribed, Describes, own
<1>5. ExcusedInv'
  BY <1>a DEF IndexInv, ExcusedInv, TypeOK
<1>6. TreeHoldsTheTable'
  <2>1. SUFFICES ASSUME NEW c \in Backends, NEW j \in built[c]
                 PROVE  entries[c][j] = (rows'[j] \ excused'[j]) \cup ghosts'[j]
    BY <1>a DEF TreeHoldsTheTable, own
  <2>2. /\ j \in Indexes /\ j \in catalog
        /\ entries[c][j] = (rows[j] \ excused[j]) \cup ghosts[j]
    BY <2>1 DEF IndexInv, TypeOK, BuiltInv, TreeHoldsTheTable
  <2>3. CASE j # i
    BY <1>a, <2>2, <2>3 DEF IndexInv, TypeOK
  <2>4. CASE j = i
    <3>a. rows \in [Indexes -> SUBSET Rows] /\ excused \in [Indexes -> SUBSET Rows]
          /\ ghosts \in [Indexes -> SUBSET Rows]
      BY DEF IndexInv, TypeOK
    <3>1. rows'[i] = rows[i] \ {row} /\ excused'[i] = excused[i] \ {row}
      BY <1>a, <3>a
    <3>2. CASE row \in excused[i]
      <4>1. ghosts'[i] = ghosts[i]
        BY <1>a, <3>a, <3>2
      <4> QED
        BY <1>a, <2>2, <2>4, <3>1, <3>2, <4>1
    <3>3. CASE row \notin excused[i]
      <4>1. ghosts'[i] = ghosts[i] \cup {row}
        BY <1>a, <2>2, <2>4, <3>a, <3>3
      <4> QED
        BY <1>a, <2>2, <2>4, <3>1, <3>3, <4>1
    <3> QED
      BY <3>2, <3>3
  <2> QED
    BY <2>3, <2>4
<1> QED
  BY <1>1, <1>2, <1>3, <1>4, <1>5, <1>6 DEF IndexInv

LEMMA IndexStep == IndexInv /\ [Next]_vars => IndexInv'
<1> SUFFICES ASSUME IndexInv, [Next]_vars PROVE IndexInv'
  OBVIOUS
<1>1. CASE UNCHANGED vars
  BY <1>1, SameState DEF vars, IndexInv, TypeOK
<1>2. ASSUME NEW b \in Backends, NEW i \in Indexes, NEW r \in Ranges, Query(b, i, r)
      PROVE  IndexInv'
  <2>1. UNCHANGED <<table, own>> /\ fault' \in {"overrun", "strayed", fault}
    BY <1>2 DEF Query
  <2> QED
    BY <2>1, SameState DEF IndexInv, TypeOK
<1>3. ASSUME NEW b \in Backends, NEW i \in Indexes, NEW outcome \in Outcomes,
             CreateIndex(b, i, outcome), UNCHANGED fault
      PROVE  IndexInv'
  BY <1>3, CreateStep
<1>4. ASSUME NEW b \in Backends, NEW i \in Indexes, DropIndex(b, i), UNCHANGED fault
      PROVE  IndexInv'
  BY <1>4, DropStep
<1>5. ASSUME NEW b \in Backends, NEW i \in Indexes, NEW row \in Rows,
             NEW data \in {"row", "zero"}, NEW outcome \in Outcomes,
             Insert(b, i, row, data, outcome)
      PROVE  IndexInv'
  BY <1>5, InsertStep
<1>6. ASSUME NEW b \in Backends, NEW i \in Indexes,
             InsertCrashes(b, i) \/ \E r \in Ranges : QueryCrashes(b, i, r)
      PROVE  IndexInv'
  <2>1. Fresh(Backends) /\ Forget(Indexes) /\ UNCHANGED fault
    BY <1>6 DEF InsertCrashes, QueryCrashes, Crash
  <2> QED
    BY <2>1, FreshStep
<1>7. ASSUME NEW i \in Indexes, UpdateCrashes(i) PROVE IndexInv'
  <2>1. Fresh(Backends) /\ Forget(Indexes) /\ UNCHANGED fault
    BY <1>7 DEF UpdateCrashes, Crash
  <2> QED
    BY <2>1, FreshStep
<1>8. ASSUME NEW b \in Backends, Disconnect(b) PROVE IndexInv'
  <2>1. Fresh({b}) /\ Forget(built[b]) /\ UNCHANGED fault
    BY <1>8 DEF Disconnect
  <2>2. built[b] \in SUBSET Indexes /\ \A c \in Backends \ {b} : built[c] \cap built[b] = {}
    BY DEF IndexInv, TypeOK, BuiltInv
  <2> QED
    BY <2>1, <2>2, FreshStep
<1>9. ASSUME NEW i \in Indexes, NEW row \in Rows, Delete(i, row) PROVE IndexInv'
  BY <1>9, DeleteStep
<1> QED
  BY <1>1, <1>2, <1>3, <1>4, <1>5, <1>6, <1>7, <1>8, <1>9 DEF Next

LEMMA IndexInvariant == Spec => []IndexInv
BY IndexStart, IndexStep, PTL DEF Spec

-----------------------------------------------------------------------------
(* Every variable keeps its type: node numbers and marks stay within the     *)
(* bounds, also for marks written beyond their row (mbtinsert, mbtbuild).    *)
THEOREM TypeCorrect == Spec => []TypeOK
BY IndexInvariant, PTL DEF IndexInv

(* Trees hold the rows of their tables that they owe, and of others only     *)
(* those rolled back or deleted, over any number of sessions, builds, equal  *)
(* keys, rollbacks, DELETEs and crashes (mbtinsert, ExecDelete).             *)
THEOREM TreesHoldTheirTables == Spec => []TreeHoldsTheTable
BY IndexInvariant, PTL DEF IndexInv

(* The serialised map has an entry for each mark and as many as its size     *)
(* says, unless an index was built late or a level outgrew its row           *)
(* (set_node_id, hashmap_serialize).                                         *)
THEOREM MapsAreWhole == Spec => []MapIsWhole
<1>1. IndexInv => MapIsWhole
  BY MarksAreEntries DEF IndexInv
<1> QED
  BY <1>1, IndexInvariant, PTL

(* The tree numbered last is the one the map gives (set_node_id). *)
THEOREM MapFitsTheLastTree == Spec => []LastNumberedIsDescribed
BY IndexInvariant, PTL DEF IndexInv

(* No tree has hashes of an earlier state (the threshold of mbtinsert). *)
THEOREM DigestsAreFresh == Spec => []DigestsNeverStale
<1>1. IndexInv => DigestsNeverStale
  BY DEF IndexInv, CountInv, DigestsNeverStale, TypeOK
<1> QED
  BY <1>1, IndexInvariant, PTL
=============================================================================
