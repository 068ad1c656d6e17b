------------------------------- MODULE LeafHash -------------------------------
(***************************************************************************)
(* The leaf level of reconstruct_root in                                   *)
(* src/interfaces/libpq/clientmbtree.c: the client stores a digest for     *)
(* every leaf between the left and the right boundary of the VO in one     *)
(* hash map, and looks the digests up when it comes to the level above.    *)
(* The left boundary is stored first; two threads then share the leaves in *)
(* between; the right boundary is stored when both are joined.             *)
(*                                                                         *)
(* The hash map (src/backend/mbt/hashmap.c, copied to the client) has no   *)
(* lock.  A slot is a bucket or the next field of a pair.  hashmap_set     *)
(* reads slot after slot, reads the last one again, and writes to it;      *)
(* every such access is a step.  A pair is named by its key, since every   *)
(* key is given a pair at most once.                                       *)
(***************************************************************************)
EXTENDS Integers

CONSTANTS MaxLeaf,      \* bound on the numbers of leaves
          HashRange,    \* myhash is a number below this: 10000000
          BucketCounts  \* the sizes of the map: {16} in the code

ASSUME LeafAssumption == /\ MaxLeaf \in Nat /\ HashRange \in Nat /\ MaxLeaf < HashRange
                         /\ BucketCounts \subseteq Nat \ {0}

VARIABLES job,       \* the VO: see Jobs
          phase,     \* where reconstruct_root is
          loop,      \* m of rr_leaf_node, of each thread
          op,        \* the call of hashmap_set or hashmap_get of each caller
          link,      \* the pair a slot points to
          value,     \* the digest of a pair
          got,       \* the digests found by the level above
          collided   \* history: two calls were in one bucket at the same time

heap == <<link, value>>
vars == <<job, phase, loop, op, heap, got, collided>>

Leaves == 0 .. MaxLeaf
Null == -1
Threads == {"first", "second"}
Callers == Threads \cup {"main"}

(* A digest is told by what was hashed: an entry of vo.data, with the      *)
(* digests that precede it in the left or follow it in the right boundary. *)
Digest(left, row, right) == [left |-> left, row |-> row, right |-> right]
Missing == Digest(FALSE, -1, FALSE)
Digests == [left : BOOLEAN, row : 0 .. MaxLeaf + 1, right : BOOLEAN]

(* vo.data has an entry for each leaf from start to end, and one more if   *)
(* the scan went on to the next leaf.  nright: the right boundary has      *)
(* digests.  The leaves after lo and before hi are children of inner nodes *)
(* between the boundaries of the level above.  buckets is num_buckets.     *)
Jobs == {j \in [start : Leaves, end : Leaves, size : 1 .. MaxLeaf + 2, nright : BOOLEAN,
                lo : Leaves, hi : Leaves, buckets : BucketCounts] :
           /\ j.start <= j.lo /\ j.lo <= j.hi /\ j.hi <= j.end
           /\ j.hi # j.lo + 2
           /\ j.size \in {j.end - j.start + 1, j.end - j.start + 2}}

Mid == (job.start + job.end) \div 2

(* Mutants of Start and Stop: the second half begins one later, as in the  *)
(* version that is commented out; the first half is the whole.             *)
StartApart(t) == IF t = "first" THEN job.start ELSE Mid + 1
StopWhole(t) == job.end

(* para1 and para2 *)
Start(t) == IF t = "first" THEN job.start ELSE Mid
Stop(t) == IF t = "first" THEN Mid ELSE job.end

Bucket(k) == <<"bucket", (k % HashRange) % job.buckets>>
NextOf(k) == <<"next", k>>
Slots == ({"bucket"} \X (0 .. job.buckets - 1)) \cup ({"next"} \X Leaves)

Idle == [step |-> "idle", kind |-> "set", key |-> 0, digest |-> Missing, at |-> Bucket(0)]
Call(kind, k, d) == [step |-> "walk", kind |-> kind, key |-> k, digest |-> d, at |-> Bucket(k)]
Ops == [step : {"idle", "walk", "check", "link"}, kind : {"set", "get"}, key : Leaves,
        digest : Digests \cup {Missing}, at : Slots]

Init == /\ job \in Jobs
        /\ phase = "left"
        /\ loop = [t \in Threads |-> Start(t) + 1]
        /\ op = [c \in Callers |-> Idle]
        /\ link = [s \in Slots |-> Null]
        /\ value = [k \in Leaves |-> Missing]
        /\ got = [k \in Leaves |-> Missing]
        /\ collided = FALSE

-------------------------------------------------------------------------------
(* reconstruct_root and rr_leaf_node *)

Broken == phase = "broken"

(* Another call is in the bucket of k. *)
Crowded(c, k) == \E d \in Callers \ {c} : op[d].step # "idle" /\ Bucket(op[d].key) = Bucket(k)

Begin(c, k, d) ==
  /\ op' = [op EXCEPT ![c] = Call("set", k, d)]
  /\ collided' = (collided \/ Crowded(c, k))

SetLeft ==
  /\ phase = "left" /\ op["main"] = Idle
  /\ Begin("main", job.start, Digest(TRUE, 0, FALSE))
  /\ UNCHANGED <<job, phase, loop, heap, got>>

(* The thread reads vo.data at the number of the leaf. *)
SetInner(t) ==
  /\ phase = "threads" /\ op[t] = Idle
  /\ loop[t] < Stop(t)
  /\ \/ /\ loop[t] < job.size
        /\ Begin(t, loop[t], Digest(FALSE, loop[t], FALSE))
        /\ UNCHANGED phase
     \/ /\ loop[t] >= job.size
        /\ phase' = "broken"
        /\ UNCHANGED <<op, collided>>
  /\ UNCHANGED <<job, loop, heap, got>>

Joined == \A t \in Threads : loop[t] >= Stop(t) /\ op[t] = Idle

(* Mutant of RightRow: the entry after the last. *)
RightRowAfter == job.size

(* The entry of vo.data the right boundary is made of: node_count is 0. *)
RightRow == IF job.start # 0 /\ job.end # 0 /\ job.start = job.end /\ job.nright
            THEN -1 ELSE 0

SetRight ==
  /\ phase = "threads" /\ Joined
  /\ \/ /\ RightRow \in 0 .. job.size - 1
        /\ phase' = "right"
        /\ Begin("main", job.end, Digest(FALSE, RightRow, TRUE))
     \/ /\ RightRow \notin 0 .. job.size - 1
        /\ phase' = "broken"
        /\ UNCHANGED <<op, collided>>
  /\ UNCHANGED <<job, loop, heap, got>>

-------------------------------------------------------------------------------
(* hashmap_set and hashmap_get *)

(* get_pair_ptr *)
Walk(c) ==
  LET o == op[c] IN
  /\ ~Broken
  /\ o.step = "walk"
  /\ op' = [op EXCEPT ![c] = IF link[o.at] \in {Null, o.key} THEN [o EXCEPT !.step = "check"]
                                                             ELSE [o EXCEPT !.at = NextOf(link[o.at])]]
  /\ UNCHANGED <<job, phase, loop, heap, got, collided>>

(* What a caller does after a call *)
Return(c) ==
  \/ /\ c \in Threads
     /\ loop' = [loop EXCEPT ![c] = @ + 1]
     /\ op' = [op EXCEPT ![c] = Idle]
     /\ UNCHANGED phase
  \/ /\ c = "main" /\ phase = "left"
     /\ phase' = "threads"
     /\ op' = [op EXCEPT ![c] = Idle]
     /\ UNCHANGED loop
  \/ /\ c = "main" /\ phase = "right"
     /\ phase' = "inner"
     /\ op' = [op EXCEPT ![c] = Call("get", job.start, Missing)]
     /\ UNCHANGED loop

(* *pair_ptr is read again: NULL, or a pair, which is not always that of   *)
(* the key.                                                                *)
Check(c) ==
  LET o == op[c] IN
  /\ ~Broken
  /\ o.step = "check" /\ o.kind = "set"
  /\ \/ /\ link[o.at] = Null
        /\ op' = [op EXCEPT ![c].step = "link"]
        /\ UNCHANGED <<phase, loop, value>>
     \/ /\ link[o.at] # Null
        /\ value' = [value EXCEPT ![link[o.at]] = o.digest]
        /\ Return(c)
  /\ UNCHANGED <<job, link, got, collided>>

(* Mutant of Link: the pair is put into the bucket, whatever is there. *)
LinkAtBucket(c) ==
  LET o == op[c] IN
  /\ ~Broken
  /\ o.step = "link"
  /\ link' = [link EXCEPT ![Bucket(o.key)] = o.key]
  /\ value' = [value EXCEPT ![o.key] = o.digest]
  /\ Return(c)
  /\ UNCHANGED <<job, got, collided>>

(* Mutant of Link: the pair is linked to itself. *)
LinkLooped(c) ==
  LET o == op[c] IN
  /\ ~Broken
  /\ o.step = "link"
  /\ link' = [link EXCEPT ![o.at] = o.key, ![NextOf(o.key)] = o.key]
  /\ value' = [value EXCEPT ![o.key] = o.digest]
  /\ Return(c)
  /\ UNCHANGED <<job, got, collided>>

(* The new pair is stored in the slot, whatever is there by now. *)
Link(c) ==
  LET o == op[c] IN
  /\ ~Broken
  /\ o.step = "link"
  /\ link' = [link EXCEPT ![o.at] = o.key]
  /\ value' = [value EXCEPT ![o.key] = o.digest]
  /\ Return(c)
  /\ UNCHANGED <<job, got, collided>>

(* hashmap_get for the level above.  The boundaries of that level skip a   *)
(* leaf without a digest; the nodes between them do not.                   *)
Look ==
  LET o == op["main"]
      p == link[o.at]
  IN  /\ phase = "inner"
      /\ o.step = "check" /\ o.kind = "get"
      /\ \/ /\ p = Null /\ job.lo < o.key /\ o.key < job.hi
            /\ phase' = "broken"
            /\ UNCHANGED <<op, got>>
         \/ /\ p # Null \/ ~(job.lo < o.key /\ o.key < job.hi)
            /\ got' = [got EXCEPT ![o.key] = IF p = Null THEN Missing ELSE value[p]]
            /\ phase' = IF o.key = job.end THEN "done" ELSE "inner"
            /\ op' = [op EXCEPT !["main"] = IF o.key = job.end THEN Idle
                                            ELSE Call("get", o.key + 1, Missing)]
      /\ UNCHANGED <<job, loop, heap, collided>>

Main == SetLeft \/ SetRight \/ Look
Hash(c) == Walk(c) \/ Check(c) \/ Link(c)

Next == Main \/ (\E t \in Threads : SetInner(t)) \/ (\E c \in Callers : Hash(c))

Spec == Init /\ [][Next]_vars

(* The threads run, and so does the thread that waits for them. *)
FairSpec == /\ Spec
            /\ WF_vars(Main \/ Hash("main"))
            /\ \A t \in Threads : WF_vars(SetInner(t) \/ Hash(t))

-------------------------------------------------------------------------------
(* Properties *)

(* The digests the code stores when its calls do not meet: the left        *)
(* boundary, the leaves inside but not the one in the middle, from the     *)
(* entry with their own number, and the right boundary from entry 0, which *)
(* replaces the left one if they are the same leaf.                        *)
Stored(k) ==
  IF k = job.end THEN Digest(FALSE, 0, TRUE)
  ELSE IF k = job.start THEN Digest(TRUE, 0, FALSE)
  ELSE IF job.start < k /\ k < job.end /\ k # Mid THEN Digest(FALSE, k, FALSE)
  ELSE Missing

Narrow == job.end - job.start < job.buckets

(* Slots point to pairs, and every call is at a slot. *)
TypeOK == /\ job \in Jobs
          /\ phase \in {"left", "threads", "right", "inner", "done", "broken"}
          /\ loop \in [Threads -> 1 .. MaxLeaf + 1]
          /\ op \in [Callers -> Ops]
          /\ link \in [Slots -> Leaves \cup {Null}]
          /\ value \in [Leaves -> Digests \cup {Missing}]
          /\ got \in [Leaves -> Digests \cup {Missing}]
          /\ collided \in BOOLEAN

(* A range of at most as many leaves as the map has buckets: the two       *)
(* threads never meet in a bucket, and the level above finds what was      *)
(* stored, in every interleaving.                                          *)
NarrowRangeIsSafe ==
  Narrow => /\ ~collided
            /\ phase = "done" => \A k \in Leaves : got[k] = Stored(k)

(* The digest of the left boundary is never lost or replaced by that of    *)
(* another leaf, whatever the two threads do to each other.                *)
LeftSurvives ==
  phase = "done" /\ job.start # job.end => got[job.start] = Stored(job.start)

(* Threads harm only digests of leaves between the boundaries, only if     *)
(* their calls met, and only where both of them use the bucket.  A wrong   *)
(* digest is that of a leaf of the same bucket.                            *)
LossesAreConfined ==
  phase = "done" =>
    \A k \in Leaves : got[k] # Stored(k) =>
      /\ collided /\ job.start < k /\ k < job.end
      /\ \E j \in Leaves \ {k} : /\ Bucket(j) = Bucket(k)
                                 /\ job.start < j /\ j < job.end
                                 /\ (j < Mid) # (k < Mid)
                                 /\ got[k] \in {Missing, Stored(j)}

(* For a range that begins with the leftmost leaf the client fails only if *)
(* the level above needs the leaf in the middle, or one lost in a race.    *)
FailsOnlyForMissing ==
  Broken /\ job.start = 0 => collided \/ (job.lo < Mid /\ Mid < job.hi)

(* The root is rebuilt or the client fails: no interleaving ties a chain   *)
(* into a circle, and no thread waits for ever.                            *)
RebuildEnds == <>(phase \in {"done", "broken"})

===============================================================================
