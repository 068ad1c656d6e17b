---------------------------- MODULE LeafHashProofs ----------------------------
(***************************************************************************)
(* The safety of the map that the two threads of reconstruct_root share,   *)
(* for every range and every number of buckets: types, the digest of the   *)
(* left boundary in any race, and everything for a range that is narrower  *)
(* than the map.                                                           *)
(***************************************************************************)
EXTENDS LeafHash, TLAPS

(* A call of c that stores d under k *)
Storing(c, k, d) ==
  op[c].step \in {"walk", "check", "link"} /\ op[c].kind = "set" /\ op[c].key = k /\ op[c].digest = d

LeftDigest == Digest(TRUE, 0, FALSE)
InnerDigest(k) == Digest(FALSE, k, FALSE)
RightDigest == Digest(FALSE, 0, TRUE)

(* Where each caller is in each phase *)
LoopInv == \A t \in Threads : /\ Start(t) < loop[t]
                              /\ loop[t] <= Stop(t) \/ loop[t] = Start(t) + 1

ControlInv ==
  /\ phase = "left" =>
       /\ \A t \in Threads : op[t] = Idle /\ loop[t] = Start(t) + 1
       /\ op["main"] = Idle \/ Storing("main", job.start, LeftDigest)
  /\ phase = "threads" =>
       /\ op["main"] = Idle
       /\ \A t \in Threads :
            op[t] = Idle \/ (loop[t] < Stop(t) /\ Storing(t, loop[t], InnerDigest(loop[t])))
  /\ phase \in {"right", "inner", "done"} =>
       \A t \in Threads : op[t] = Idle /\ loop[t] >= Stop(t)
  /\ phase = "right" => Storing("main", job.end, RightDigest)
  /\ phase = "inner" => /\ op["main"].step \in {"walk", "check"} /\ op["main"].kind = "get"
                        /\ job.start <= op["main"].key /\ op["main"].key <= job.end
  /\ phase = "done" => op["main"] = Idle

(* The pair of the left boundary is the first of its bucket and of no      *)
(* other slot, and no other call is about to write there.                  *)
Guarded ==
  /\ link[Bucket(job.start)] = job.start
  /\ \A s \in Slots : link[s] = job.start => s = Bucket(job.start)
  /\ value[job.start] = LeftDigest
  /\ \A c \in Callers : op[c].step \in {"check", "link"} /\ op[c].key # job.start
                          => op[c].at # Bucket(job.start)

(* It is so from the time it is stored until it is looked up. *)
LeftInv ==
  /\ phase = "left" =>
       /\ \A s \in Slots : link[s] = Null
       /\ op["main"] = Idle \/ op["main"].at = Bucket(job.start)
  /\ phase \in {"threads", "right", "inner"} /\ job.start # job.end => Guarded
  /\ phase = "inner" /\ job.start # job.end =>
       \/ op["main"].key = job.start /\ op["main"].at = Bucket(job.start)
       \/ op["main"].key > job.start /\ got[job.start] = LeftDigest
  /\ phase = "done" /\ job.start # job.end => got[job.start] = LeftDigest

(* The leaves whose digests are stored by now *)
Done(k) == \/ k = job.start /\ phase # "left"
           \/ \E t \in Threads : Start(t) < k /\ k < loop[t]
           \/ k = job.end /\ phase \in {"inner", "done"}

DigestOf(k) == IF k = job.end /\ phase \in {"inner", "done"} THEN RightDigest
               ELSE IF k = job.start THEN LeftDigest ELSE InnerDigest(k)

Span == job.start .. job.end

(* With a bucket for every leaf of the range a call stays at its bucket,   *)
(* and a bucket holds the pair of its leaf once that is stored.            *)
PlaceInv ==
  \A c \in Callers : /\ op[c].step # "idle" => op[c].at = Bucket(op[c].key)
                     /\ op[c].step = "link" => link[Bucket(op[c].key)] = Null

MapInv ==
  \A k \in Span : /\ link[Bucket(k)] = IF Done(k) THEN k ELSE Null
                  /\ Done(k) => value[k] = DigestOf(k)

GotInv ==
  /\ phase \in {"left", "threads", "right"} => \A k \in Leaves : got[k] = Missing
  /\ phase = "inner" =>
       \A k \in Leaves : got[k] = IF k < op["main"].key THEN Stored(k) ELSE Missing
  /\ phase = "done" => \A k \in Leaves : got[k] = Stored(k)

NarrowInv == Narrow => ~collided /\ GotInv /\ (phase # "broken" => PlaceInv /\ MapInv)

LeafInv == TypeOK /\ LoopInv /\ ControlInv /\ LeftInv /\ NarrowInv

-------------------------------------------------------------------------------
(* Arithmetic of ranges and buckets *)

LEMMA JobFacts ==
  ASSUME job \in Jobs
  PROVE  /\ job.start \in Leaves /\ job.end \in Leaves /\ job.start <= job.end
         /\ job.lo \in Leaves /\ job.hi \in Leaves
         /\ job.size \in Nat \ {0} /\ job.size <= MaxLeaf + 2
         /\ job.buckets \in Nat \ {0}
         /\ Mid \in Leaves /\ job.start <= Mid /\ Mid <= job.end
         /\ Mid = job.end => job.start = job.end
<1>1. /\ job.start \in Leaves /\ job.end \in Leaves /\ job.start <= job.end
      /\ job.lo \in Leaves /\ job.hi \in Leaves
      /\ job.size \in 1 .. MaxLeaf + 2
      /\ job.buckets \in Nat \ {0}
  <2>1. job \in [start : Leaves, end : Leaves, size : 1 .. MaxLeaf + 2, nright : BOOLEAN,
                  lo : Leaves, hi : Leaves, buckets : BucketCounts]
    BY DEF Jobs
  <2>2. job.start <= job.lo /\ job.lo <= job.hi /\ job.hi <= job.end
    BY DEF Jobs
  <2>3. /\ job.start \in Leaves /\ job.end \in Leaves /\ job.lo \in Leaves /\ job.hi \in Leaves
        /\ job.size \in 1 .. MaxLeaf + 2 /\ job.buckets \in BucketCounts
    BY <2>1
  <2>4. job.start <= job.end
    BY <2>2, <2>3, LeafAssumption DEF Leaves
  <2> QED
    BY <2>3, <2>4, LeafAssumption
<1>2. /\ Mid \in Leaves /\ job.start <= Mid /\ Mid <= job.end
      /\ Mid = job.end => job.start = job.end
  BY <1>1, LeafAssumption DEF Mid, Leaves
<1> QED
  BY <1>1, <1>2, LeafAssumption

(* Numbers that are less than b apart have different remainders. *)
LEMMA RemaindersApart ==
  ASSUME NEW b \in Nat \ {0}, NEW j \in Nat, NEW k \in Nat,
         j - k < b, k - j < b, j % b = k % b
  PROVE  j = k
<1> DEFINE p == j \div b
           q == k \div b
<1>1. p \in Int /\ q \in Int
  OBVIOUS
<1>2. j = b * p + (j % b) /\ k = b * q + (k % b)
  OBVIOUS
<1> HIDE DEF p, q
<1>3. j - k = b * (p - q)
  <2>1. (j % b) \in Int
    OBVIOUS
  <2> QED
    BY <1>1, <1>2, <2>1
<1>4. CASE p - q >= 1
  <2>1. b * (p - q) >= b
    BY <1>1, <1>4
  <2> QED
    BY <1>1, <1>3, <2>1
<1>5. CASE q - p >= 1
  <2>1. b * (q - p) >= b
    BY <1>1, <1>5
  <2>2. b * (p - q) = -(b * (q - p))
    BY <1>1
  <2> QED
    BY <1>1, <1>3, <2>1, <2>2
<1>6. CASE p = q
  BY <1>1, <1>2, <1>6
<1> QED
  BY <1>1, <1>4, <1>5, <1>6

(* The leaves of a narrow range have buckets of their own. *)
LEMMA BucketsApart ==
  ASSUME job \in Jobs, Narrow, NEW j \in Span, NEW k \in Span, Bucket(j) = Bucket(k)
  PROVE  j = k
<1>1. j \in Nat /\ k \in Nat /\ j < HashRange /\ k < HashRange
  BY JobFacts, LeafAssumption DEF Span, Leaves
<1>2. job.buckets \in Nat \ {0} /\ j - k < job.buckets /\ k - j < job.buckets
  BY <1>1, JobFacts, LeafAssumption DEF Span, Narrow, Leaves
<1>3. j % HashRange = j /\ k % HashRange = k
  BY <1>1, LeafAssumption
<1>4. j % job.buckets = k % job.buckets
  BY <1>3 DEF Bucket
<1> QED
  BY <1>1, <1>2, <1>4, RemaindersApart

(* A bucket is a slot, and no slot of a pair is a bucket. *)
LEMMA SlotFacts ==
  ASSUME job \in Jobs, NEW k \in Leaves
  PROVE  Bucket(k) \in Slots /\ NextOf(k) \in Slots
         /\ \A j \in Leaves : NextOf(j) # Bucket(k)
<1>1. k \in Nat /\ job.buckets \in Nat \ {0}
  BY JobFacts DEF Leaves
<1>2. k % HashRange \in Nat
  BY <1>1, LeafAssumption DEF Leaves
<1>3. (k % HashRange) % job.buckets \in 0 .. job.buckets - 1
  BY <1>1, <1>2
<1> QED
  BY <1>3 DEF Bucket, NextOf, Slots

LEMMA HalfFacts ==
  ASSUME job \in Jobs, NEW t \in Threads
  PROVE  /\ Start(t) \in Leaves /\ Stop(t) \in Leaves
         /\ job.start <= Start(t) /\ Start(t) <= Stop(t) /\ Stop(t) <= job.end
BY JobFacts DEF Start, Stop, Threads, Leaves

-------------------------------------------------------------------------------
(* Calls *)

LEMMA CallFacts ==
  ASSUME job \in Jobs, NEW k \in Leaves, NEW g \in {"set", "get"}, NEW d \in Digests \cup {Missing}
  PROVE  /\ Call(g, k, d) \in Ops
         /\ Call(g, k, d).step = "walk" /\ Call(g, k, d).kind = g
         /\ Call(g, k, d).key = k /\ Call(g, k, d).digest = d
         /\ Call(g, k, d).at = Bucket(k)
BY SlotFacts DEF Call, Ops

LEMMA CallIs ==
  ASSUME NEW g, NEW k, NEW d
  PROVE  /\ Call(g, k, d).step = "walk" /\ Call(g, k, d).kind = g
         /\ Call(g, k, d).key = k /\ Call(g, k, d).digest = d
         /\ Call(g, k, d).at = Bucket(k)
BY DEF Call

LEMMA IdleFacts ==
  ASSUME job \in Jobs
  PROVE  Idle \in Ops /\ Idle.step = "idle"
<1>1. 0 \in Leaves
  BY LeafAssumption DEF Leaves
<1> QED
  BY <1>1, SlotFacts DEF Idle, Ops

LEMMA DigestFacts ==
  /\ LeftDigest \in Digests /\ RightDigest \in Digests
  /\ \A k \in 0 .. MaxLeaf + 1 : InnerDigest(k) \in Digests
BY LeafAssumption DEF LeftDigest, RightDigest, InnerDigest, Digest, Digests

(* Who can be in a call, and with what *)
Calling(c) ==
  \/ /\ c \in Threads /\ phase = "threads" /\ loop[c] < Stop(c)
     /\ Storing(c, loop[c], InnerDigest(loop[c]))
  \/ c = "main" /\ phase = "left" /\ Storing(c, job.start, LeftDigest)
  \/ c = "main" /\ phase = "right" /\ Storing(c, job.end, RightDigest)

LEMMA WhoCalls ==
  ASSUME TypeOK, ControlInv, ~Broken, NEW c \in Callers, op[c].step # "idle"
  PROVE  /\ op[c].kind = "set" => Calling(c)
         /\ op[c].kind = "get" => c = "main" /\ phase = "inner"
<1>1. Idle.step = "idle"
  BY IdleFacts DEF TypeOK
<1>2. phase \in {"left", "threads", "right", "inner", "done"}
  BY DEF TypeOK, Broken
<1>3. CASE phase = "left"
  BY <1>1, <1>3 DEF ControlInv, Callers, Calling, Storing
<1>4. CASE phase = "threads"
  BY <1>1, <1>4 DEF ControlInv, Callers, Calling, Storing
<1>5. CASE phase = "right"
  BY <1>1, <1>5 DEF ControlInv, Callers, Calling, Storing
<1>6. CASE phase = "inner"
  BY <1>1, <1>6 DEF ControlInv, Callers, Calling, Storing
<1>7. CASE phase = "done"
  BY <1>1, <1>7 DEF ControlInv, Callers, Calling, Storing
<1> QED
  BY <1>2, <1>3, <1>4, <1>5, <1>6, <1>7

(* What the return from hashmap_set does to the caller *)
Returned(c) ==
  \/ /\ c \in Threads /\ phase = "threads" /\ loop[c] < Stop(c)
     /\ Storing(c, loop[c], InnerDigest(loop[c]))
     /\ loop' = [loop EXCEPT ![c] = @ + 1]
     /\ op' = [op EXCEPT ![c] = Idle]
     /\ phase' = "threads"
  \/ /\ c = "main" /\ phase = "left" /\ Storing(c, job.start, LeftDigest)
     /\ loop' = loop
     /\ op' = [op EXCEPT ![c] = Idle]
     /\ phase' = "threads"
  \/ /\ c = "main" /\ phase = "right" /\ Storing(c, job.end, RightDigest)
     /\ loop' = loop
     /\ op' = [op EXCEPT ![c] = Call("get", job.start, Missing)]
     /\ phase' = "inner"

LEMMA ReturnFacts ==
  ASSUME TypeOK, ControlInv, ~Broken, NEW c \in Callers, op[c].step # "idle", op[c].kind = "set",
         Return(c)
  PROVE  Returned(c)
<1>1. Calling(c)
  BY WhoCalls
<1>2. "main" \notin Threads
  BY DEF Threads
<1>3. CASE c \in Threads
  BY <1>1, <1>2, <1>3 DEF Calling, Return, Returned
<1>4. CASE c = "main" /\ phase = "left"
  BY <1>1, <1>2, <1>4 DEF Calling, Return, Returned
<1>5. CASE c = "main" /\ phase = "right"
  BY <1>1, <1>2, <1>5 DEF Calling, Return, Returned
<1> QED
  BY <1>1, <1>3, <1>4, <1>5 DEF Calling

(* A pair is linked only by a call that stores. *)
LEMMA LinkStores ==
  ASSUME TypeOK, ControlInv, ~Broken, NEW c \in Callers, op[c].step = "link"
  PROVE  op[c].kind = "set"
<1>1. op[c].kind \in {"set", "get"}
  BY DEF TypeOK, Ops
<1>2. CASE op[c].kind = "get"
  BY <1>2, WhoCalls DEF ControlInv
<1> QED
  BY <1>1, <1>2

-------------------------------------------------------------------------------
(* Types *)

LEMMA ReturnType ==
  ASSUME TypeOK, LoopInv, NEW c \in Callers, Returned(c)
  PROVE  /\ phase' \in {"left", "threads", "right", "inner", "done", "broken"}
         /\ loop' \in [Threads -> 1 .. MaxLeaf + 1]
         /\ op' \in [Callers -> Ops]
<1>1. Idle \in Ops /\ Call("get", job.start, Missing) \in Ops
  BY IdleFacts, CallFacts, JobFacts DEF TypeOK
<1>2. op' \in [Callers -> Ops]
  BY <1>1 DEF TypeOK, Returned
<1>3. \A t \in Threads : Stop(t) \in Leaves
  BY HalfFacts DEF TypeOK
<1>4. loop' \in [Threads -> 1 .. MaxLeaf + 1]
  <2>1. loop \in [Threads -> 1 .. MaxLeaf + 1]
    BY DEF TypeOK
  <2>2. CASE c \in Threads /\ loop[c] < Stop(c) /\ loop' = [loop EXCEPT ![c] = @ + 1]
    <3>1. loop[c] + 1 \in 1 .. MaxLeaf + 1
      BY <1>3, <2>1, <2>2, LeafAssumption DEF Leaves
    <3> QED
      BY <2>1, <2>2, <3>1
  <2>3. CASE loop' = loop
    BY <2>1, <2>3
  <2> QED
    BY <2>2, <2>3 DEF Returned
<1> QED
  BY <1>2, <1>4 DEF Returned

LEMMA TypeStep ==
  ASSUME TypeOK, LoopInv, ControlInv, [Next]_vars
  PROVE  TypeOK'
<1> USE DEF TypeOK
<1>1. CASE UNCHANGED vars
  BY <1>1 DEF vars, heap, Ops, Slots
<1>2. ASSUME job' = job
      PROVE  Slots' = Slots /\ Ops' = Ops
  BY <1>2 DEF Slots, Ops
<1>3. CASE SetLeft
  <2>1. Call("set", job.start, LeftDigest) \in Ops
    BY CallFacts, JobFacts, DigestFacts
  <2> QED
    BY <1>2, <1>3, <2>1 DEF SetLeft, Begin, heap, LeftDigest
<1>4. ASSUME NEW t \in Threads, SetInner(t)
      PROVE  TypeOK'
  <2>1. CASE loop[t] < job.size
    <3>0. ~(loop[t] >= job.size)
      <4>1. loop[t] \in 1 .. MaxLeaf + 1 /\ job.size \in Nat
        BY JobFacts
      <4> QED
        BY <2>1, <4>1, LeafAssumption
    <3>1. loop[t] \in Leaves
      <4>1. loop[t] \in 1 .. MaxLeaf + 1 /\ loop[t] < Stop(t)
        BY <1>4 DEF SetInner
      <4>2. Stop(t) \in Leaves
        BY HalfFacts
      <4> QED
        BY <4>1, <4>2, LeafAssumption DEF Leaves
    <3>2. Call("set", loop[t], InnerDigest(loop[t])) \in Ops
      <4>1. loop[t] \in 0 .. MaxLeaf + 1
        BY <3>1, LeafAssumption DEF Leaves
      <4> QED
        BY <3>1, <4>1, CallFacts, DigestFacts
    <3>3. op' = [op EXCEPT ![t] = Call("set", loop[t], InnerDigest(loop[t]))]
          /\ collided' \in BOOLEAN
      BY <1>4, <2>1, <3>0 DEF SetInner, Begin, InnerDigest
    <3>4. UNCHANGED <<job, loop, heap, got, phase>>
      BY <1>4, <2>1, <3>0 DEF SetInner
    <3> QED
      BY <1>2, <3>2, <3>3, <3>4 DEF heap, Callers
  <2>2. CASE ~(loop[t] < job.size)
    BY <1>2, <1>4, <2>2 DEF SetInner, heap
  <2> QED
    BY <2>1, <2>2
<1>5. CASE SetRight
  <2>1. CASE phase' = "right"
    <3>1. RightRow = 0
      BY <1>5, <2>1 DEF SetRight, RightRow
    <3>2. Call("set", job.end, RightDigest) \in Ops
      BY CallFacts, JobFacts, DigestFacts
    <3> QED
      BY <1>2, <1>5, <2>1, <3>1, <3>2 DEF SetRight, Begin, heap, RightDigest
  <2>2. CASE phase' # "right"
    BY <1>2, <1>5, <2>2 DEF SetRight, heap
  <2> QED
    BY <2>1, <2>2
<1>6. CASE Look
  <2>1. op["main"] \in Ops
    BY DEF Callers
  <2>2. op["main"].key \in Leaves /\ op["main"].at \in Slots
    BY <2>1 DEF Ops
  <2>3. op' \in [Callers -> Ops]
    <3>1. CASE op["main"].key = job.end
      BY <1>6, <3>1, IdleFacts DEF Look
    <3>2. CASE op["main"].key # job.end
      <4>1. op["main"].key + 1 \in Leaves
        <5>1. op["main"].key <= job.end
          BY <1>6 DEF Look, ControlInv
        <5>2. job.end \in Leaves
          BY JobFacts
        <5> QED
          BY <2>2, <3>2, <5>1, <5>2, LeafAssumption DEF Leaves
      <4>2. Call("get", op["main"].key + 1, Missing) \in Ops
        BY <4>1, CallFacts
      <4> QED
        BY <1>6, <3>2, <4>2 DEF Look
    <3> QED
      BY <3>1, <3>2
  <2>4. link[op["main"].at] \in Leaves \cup {Null}
    BY <2>2
  <2>5. got' \in [Leaves -> Digests \cup {Missing}]
    <3>1. CASE UNCHANGED got
      BY <3>1
    <3>2. CASE got' = [got EXCEPT ![op["main"].key] =
                         IF link[op["main"].at] = Null THEN Missing ELSE value[link[op["main"].at]]]
      BY <2>4, <3>2
    <3> QED
      BY <1>6, <3>1, <3>2 DEF Look
  <2> QED
    BY <1>2, <1>6, <2>3, <2>5 DEF Look, heap
<1>7. ASSUME NEW c \in Callers, Walk(c)
      PROVE  TypeOK'
  <2>1. op[c] \in Ops /\ link[op[c].at] \in Leaves \cup {Null}
    BY DEF Ops
  <2>2. CASE link[op[c].at] \in {Null, op[c].key}
    <3>1. [op[c] EXCEPT !.step = "check"] \in Ops
      BY <2>1 DEF Ops
    <3> QED
      BY <1>2, <1>7, <2>2, <3>1 DEF Walk, heap
  <2>3. CASE link[op[c].at] \notin {Null, op[c].key}
    <3>1. NextOf(link[op[c].at]) \in Slots
      BY <2>1, <2>3, SlotFacts
    <3>2. [op[c] EXCEPT !.at = NextOf(link[op[c].at])] \in Ops
      BY <2>1, <3>1 DEF Ops
    <3> QED
      BY <1>2, <1>7, <2>3, <3>2 DEF Walk, heap
  <2> QED
    BY <2>2, <2>3
<1>8. ASSUME NEW c \in Callers, Check(c)
      PROVE  TypeOK'
  <2>1. op[c] \in Ops /\ link[op[c].at] \in Leaves \cup {Null}
    BY DEF Ops
  <2>2. CASE link[op[c].at] = Null
    <3>1. [op[c] EXCEPT !.step = "link"] \in Ops
      BY <2>1 DEF Ops
    <3>2. op' = [op EXCEPT ![c] = [op[c] EXCEPT !.step = "link"]]
          /\ UNCHANGED <<job, phase, loop, value, link, got, collided>>
      BY <1>8, <2>2 DEF Check
    <3> QED
      BY <1>2, <3>1, <3>2
  <2>3. CASE link[op[c].at] # Null
    <3>1. /\ value' = [value EXCEPT ![link[op[c].at]] = op[c].digest]
          /\ Return(c)
          /\ UNCHANGED <<job, link, got, collided>>
      BY <1>8, <2>3 DEF Check
    <3>2. op[c].digest \in Digests \cup {Missing}
      BY <2>1 DEF Ops
    <3>3. value' \in [Leaves -> Digests \cup {Missing}]
      BY <3>1, <3>2
    <3>4. Returned(c)
      BY <1>8, <3>1, ReturnFacts DEF Check
    <3> QED
      BY <1>2, <3>1, <3>3, <3>4, ReturnType
  <2> QED
    BY <2>2, <2>3
<1>9. ASSUME NEW c \in Callers, Link(c)
      PROVE  TypeOK'
  <2>1. op[c].digest \in Digests \cup {Missing} /\ op[c].key \in Leaves
    BY DEF Ops
  <2>2. /\ link' = [link EXCEPT ![op[c].at] = op[c].key]
        /\ value' = [value EXCEPT ![op[c].key] = op[c].digest]
        /\ UNCHANGED <<job, got, collided>>
    BY <1>9 DEF Link
  <2>3. link' \in [Slots -> Leaves \cup {Null}] /\ value' \in [Leaves -> Digests \cup {Missing}]
    BY <2>1, <2>2
  <2>4. Returned(c)
    BY <1>9, ReturnFacts, LinkStores DEF Link
  <2> QED
    BY <1>2, <2>2, <2>3, <2>4, ReturnType
<1> QED
  BY <1>1, <1>3, <1>4, <1>5, <1>6, <1>7, <1>8, <1>9 DEF Next, Main, Hash

-------------------------------------------------------------------------------
(* Places of the callers *)

LEMMA SameHalves ==
  ASSUME job' = job
  PROVE  /\ Mid' = Mid /\ \A t \in Threads : Start(t)' = Start(t) /\ Stop(t)' = Stop(t)
         /\ \A k \in Leaves : Bucket(k)' = Bucket(k)
         /\ Idle' = Idle /\ Slots' = Slots /\ Span' = Span /\ (Narrow' <=> Narrow)
BY DEF Mid, Start, Stop, Bucket, Idle, Slots, Span, Narrow

LEMMA ControlStep ==
  ASSUME TypeOK, LoopInv, ControlInv, [Next]_vars
  PROVE  job' = job /\ LoopInv' /\ ControlInv'
<1>0. job' = job
  BY DEF Next, Main, Hash, SetLeft, SetInner, SetRight, Look, Walk, Check, Link, vars
<1> USE <1>0, SameHalves
<1>a. "main" \notin Threads /\ "main" \in Callers /\ Threads \subseteq Callers
  BY DEF Threads, Callers
<1>b. op \in [Callers -> Ops] /\ loop \in [Threads -> 1 .. MaxLeaf + 1]
  BY DEF TypeOK
<1>c. Idle.step = "idle"
  BY IdleFacts DEF TypeOK
<1>1. CASE UNCHANGED vars
  BY <1>1 DEF vars, LoopInv, ControlInv, Storing
<1>2. CASE SetLeft
  <2>1. op' = [op EXCEPT !["main"] = Call("set", job.start, LeftDigest)] /\ UNCHANGED <<phase, loop>>
        /\ phase = "left"
    BY <1>2 DEF SetLeft, Begin, LeftDigest
  <2>2. Storing("main", job.start, LeftDigest)'
    <3>1. op'["main"] = Call("set", job.start, LeftDigest)
      BY <1>a, <1>b, <2>1
    <3>2. /\ op'["main"].step = "walk" /\ op'["main"].kind = "set"
          /\ op'["main"].key = job.start /\ op'["main"].digest = LeftDigest
      BY <3>1, CallIs
    <3> QED
      BY <3>2 DEF Storing, LeftDigest, Digest
  <2>3. \A t \in Threads : op'[t] = op[t]
    BY <1>a, <1>b, <2>1
  <2> QED
    BY <2>1, <2>2, <2>3 DEF LoopInv, ControlInv
<1>3. ASSUME NEW t \in Threads, SetInner(t)
      PROVE  LoopInv' /\ ControlInv'
  <2>1. CASE phase' = "broken"
    BY <1>3, <2>1 DEF SetInner, LoopInv, ControlInv
  <2>2. CASE phase' # "broken"
    <3>1. op' = [op EXCEPT ![t] = Call("set", loop[t], InnerDigest(loop[t]))]
          /\ UNCHANGED <<phase, loop>> /\ phase = "threads" /\ loop[t] < Stop(t)
      BY <1>3, <2>2 DEF SetInner, Begin, InnerDigest
    <3>2. loop[t] \in Leaves /\ InnerDigest(loop[t]) \in Digests
      BY <1>b, <3>1, HalfFacts, DigestFacts, LeafAssumption DEF Leaves, TypeOK
    <3>3. Storing(t, loop[t], InnerDigest(loop[t]))'
      BY <1>a, <1>b, <3>1, <3>2, CallFacts DEF Storing, TypeOK, InnerDigest, Digest
    <3>4. \A c \in Callers \ {t} : op'[c] = op[c]
      BY <1>b, <3>1
    <3>5. op'["main"] = Idle
      BY <1>a, <3>1, <3>4 DEF ControlInv
    <3>6. \A u \in Threads : op'[u] = Idle \/ (loop'[u] < Stop(u) /\ Storing(u, loop[u], InnerDigest(loop[u]))')
      <4>1. TAKE u \in Threads
      <4>2. CASE u = t
        BY <3>1, <3>3, <4>2
      <4>3. CASE u # t
        <5>1. op'[u] = op[u] /\ loop'[u] = loop[u]
          BY <1>a, <3>1, <3>4, <4>3
        <5>2. op[u] = Idle \/ (loop[u] < Stop(u) /\ Storing(u, loop[u], InnerDigest(loop[u])))
          BY <3>1 DEF ControlInv
        <5>3. Storing(u, loop[u], InnerDigest(loop[u])) => Storing(u, loop[u], InnerDigest(loop[u]))'
          BY <5>1 DEF Storing, InnerDigest, Digest
        <5> QED
          BY <5>1, <5>2, <5>3
      <4> QED
        BY <4>2, <4>3
    <3>7. LoopInv'
      BY <3>1 DEF LoopInv
    <3> QED
      BY <3>1, <3>5, <3>6, <3>7 DEF ControlInv
  <2> QED
    BY <2>1, <2>2
<1>4. CASE SetRight
  <2>1. CASE phase' = "broken"
    BY <1>4, <2>1 DEF SetRight, LoopInv, ControlInv
  <2>2. CASE phase' # "broken"
    <3>1. op' = [op EXCEPT !["main"] = Call("set", job.end, RightDigest)] /\ phase' = "right"
          /\ phase = "threads" /\ loop' = loop /\ Joined
      <4>1. RightRow \in 0 .. job.size - 1 /\ job.size \in Nat
        BY <1>4, <2>2, JobFacts DEF SetRight, TypeOK
      <4>2. RightRow = 0
        BY <4>1 DEF RightRow
      <4> QED
        BY <1>4, <2>2, <4>2 DEF SetRight, Begin, RightDigest
    <3>2. Storing("main", job.end, RightDigest)'
      <4>1. op'["main"] = Call("set", job.end, RightDigest)
        BY <1>a, <1>b, <3>1
      <4>2. /\ op'["main"].step = "walk" /\ op'["main"].kind = "set"
            /\ op'["main"].key = job.end /\ op'["main"].digest = RightDigest
        BY <4>1, CallIs
      <4> QED
        BY <4>2 DEF Storing, RightDigest, Digest
    <3>3. \A t \in Threads : op'[t] = Idle /\ loop[t] >= Stop(t)
      BY <1>a, <1>b, <3>1 DEF Joined
    <3> QED
      BY <3>1, <3>2, <3>3 DEF LoopInv, ControlInv
  <2> QED
    BY <2>1, <2>2
<1>5. CASE Look
  <2>1. \A t \in Threads : op'[t] = op[t]
    BY <1>5, <1>a, <1>b DEF Look
  <2>2. CASE phase' = "broken"
    BY <1>5, <2>2 DEF Look, LoopInv, ControlInv
  <2>3. CASE phase' = "done"
    <3>1. op'["main"] = Idle /\ loop' = loop /\ phase = "inner"
      BY <1>5, <1>a, <1>b, <2>3 DEF Look
    <3>2. LoopInv'
      BY <3>1 DEF LoopInv
    <3> QED
      BY <2>1, <2>3, <3>1, <3>2 DEF ControlInv
  <2>4. CASE phase' = "inner"
    <3>1. op["main"].key \in Leaves /\ op["main"].key # job.end
          /\ job.start <= op["main"].key /\ op["main"].key <= job.end
      BY <1>5, <1>a, <1>b, <2>4 DEF Look, ControlInv, Ops
    <3>2. op["main"].key + 1 \in Leaves /\ op["main"].key + 1 <= job.end
      <4>1. job.end \in Leaves
        BY JobFacts DEF TypeOK
      <4> QED
        BY <3>1, <4>1, LeafAssumption DEF Leaves
    <3>3. op'["main"] = Call("get", op["main"].key + 1, Missing)
      BY <1>5, <1>a, <1>b, <2>4, <3>1 DEF Look
    <3>4. op'["main"].step = "walk" /\ op'["main"].kind = "get" /\ op'["main"].key = op["main"].key + 1
      BY <3>3, CallIs
    <3>5. job.start <= op'["main"].key /\ op'["main"].key <= job.end
      <4>1. job.start \in Nat /\ job.end \in Nat /\ op["main"].key \in Nat
        BY <1>b, JobFacts DEF TypeOK, Leaves, Ops, Callers
      <4> QED
        BY <3>1, <3>4, <4>1
    <3> QED
      BY <1>5, <2>1, <2>4, <3>4, <3>5 DEF Look, LoopInv, ControlInv
  <2> QED
    BY <1>5, <2>2, <2>3, <2>4 DEF Look
<1>6. ASSUME NEW c \in Callers,
             ~Broken, op[c].step # "idle", op'[c].step \in {"check", "walk", "link"},
             op[c].kind = "get" => op'[c].step # "link",
             op'[c].kind = op[c].kind, op'[c].key = op[c].key, op'[c].digest = op[c].digest,
             \A d \in Callers \ {c} : op'[d] = op[d],
             UNCHANGED <<phase, loop>>
      PROVE  LoopInv' /\ ControlInv'
  <2>1. LoopInv'
    BY <1>6 DEF LoopInv
  <2>2. op[c].kind = "set" => Calling(c)
    BY <1>6, WhoCalls
  <2>3. op[c].kind = "get" => c = "main" /\ phase = "inner"
    BY <1>6, WhoCalls
  <2>4. op[c].kind \in {"set", "get"}
    BY <1>b DEF Ops
  <2>5. CASE c \in Threads /\ phase = "threads"
    <3>1. loop[c] < Stop(c) /\ Storing(c, loop[c], InnerDigest(loop[c]))
      BY <1>a, <2>2, <2>3, <2>4, <2>5 DEF Calling
    <3>2. Storing(c, loop[c], InnerDigest(loop[c]))'
      BY <1>6, <3>1 DEF Storing, InnerDigest, Digest
    <3>3. op'["main"] = Idle
      BY <1>6, <1>a, <2>5 DEF ControlInv
    <3>4. \A u \in Threads : op'[u] = Idle \/ (loop'[u] < Stop(u) /\ Storing(u, loop[u], InnerDigest(loop[u]))')
      <4>1. TAKE u \in Threads
      <4>2. CASE u = c
        BY <1>6, <3>1, <3>2, <4>2
      <4>3. CASE u # c
        <5>1. op'[u] = op[u] /\ loop'[u] = loop[u]
          BY <1>6, <1>a, <4>3
        <5>2. op[u] = Idle \/ (loop[u] < Stop(u) /\ Storing(u, loop[u], InnerDigest(loop[u])))
          BY <2>5 DEF ControlInv
        <5>3. Storing(u, loop[u], InnerDigest(loop[u])) => Storing(u, loop[u], InnerDigest(loop[u]))'
          BY <5>1 DEF Storing, InnerDigest, Digest
        <5> QED
          BY <5>1, <5>2, <5>3
      <4> QED
        BY <4>2, <4>3
    <3> QED
      BY <1>6, <2>1, <2>5, <3>3, <3>4 DEF ControlInv
  <2>6. ASSUME c = "main"
        PROVE  \A t \in Threads : op'[t] = op[t]
    BY <1>6, <1>a, <2>6
  <2>7. CASE c = "main" /\ phase = "left"
    BY <1>6, <2>1, <2>2, <2>3, <2>4, <2>6, <2>7 DEF ControlInv, Calling, Storing, LeftDigest, Digest
  <2>8. CASE c = "main" /\ phase = "right"
    BY <1>6, <2>1, <2>2, <2>3, <2>4, <2>6, <2>8 DEF ControlInv, Calling, Storing, RightDigest, Digest
  <2>9. CASE c = "main" /\ phase = "inner"
    BY <1>6, <2>1, <2>2, <2>3, <2>4, <2>6, <2>9 DEF ControlInv, Calling, Storing
  <2> QED
    BY <2>2, <2>3, <2>4, <2>5, <2>7, <2>8, <2>9 DEF Calling
<1>7. ASSUME NEW c \in Callers, Walk(c)
      PROVE  LoopInv' /\ ControlInv'
  <2>1. op[c] \in Ops
    BY <1>b
  <2>2. /\ \/ op'[c] = [op[c] EXCEPT !.step = "check"]
           \/ op'[c] = [op[c] EXCEPT !.at = NextOf(link[op[c].at])]
        /\ \A d \in Callers \ {c} : op'[d] = op[d]
    BY <1>7, <1>b DEF Walk
  <2>3. op'[c].step \in {"check", "walk"} /\ op'[c].kind = op[c].kind
        /\ op'[c].key = op[c].key /\ op'[c].digest = op[c].digest
    BY <1>7, <2>1, <2>2 DEF Walk, Ops
  <2> QED
    BY <1>7, <1>6, <2>2, <2>3 DEF Walk
<1>8. ASSUME NEW c \in Callers, Returned(c)
      PROVE  LoopInv' /\ ControlInv'
  <2>1. CASE c \in Threads
    <3>1. /\ phase = "threads" /\ phase' = "threads" /\ loop[c] < Stop(c)
          /\ loop'[c] = loop[c] + 1 /\ op'[c] = Idle
          /\ \A t \in Threads \ {c} : loop'[t] = loop[t]
          /\ \A d \in Callers \ {c} : op'[d] = op[d]
      BY <1>8, <1>a, <1>b, <2>1 DEF Returned
    <3>2. LoopInv'
      <4>1. loop[c] \in Nat /\ Start(c) \in Nat /\ Stop(c) \in Nat /\ Start(c) < loop[c]
        <5>1. Start(c) \in Leaves /\ Stop(c) \in Leaves
          BY <2>1, HalfFacts DEF TypeOK
        <5>2. loop[c] \in 1 .. MaxLeaf + 1 /\ Start(c) < loop[c]
          BY <1>b, <2>1 DEF LoopInv
        <5> QED
          BY <5>1, <5>2, LeafAssumption DEF Leaves
      <4>2. Start(c) < loop'[c] /\ loop'[c] <= Stop(c)
        <5>1. loop'[c] = loop[c] + 1 /\ loop[c] < Stop(c)
          BY <3>1
        <5> QED
          BY <4>1, <5>1
      <4> QED
        BY <3>1, <4>2 DEF LoopInv
    <3>3. ControlInv'
      BY <1>a, <3>1 DEF ControlInv, Storing
    <3> QED
      BY <3>2, <3>3
  <2>2. CASE c = "main" /\ phase = "left"
    BY <1>8, <1>a, <1>b, <2>2 DEF Returned, LoopInv, ControlInv
  <2>3. CASE c = "main" /\ phase = "right"
    <3>1. /\ phase' = "inner" /\ loop' = loop
          /\ op'["main"] = Call("get", job.start, Missing)
          /\ \A d \in Callers \ {c} : op'[d] = op[d]
      BY <1>8, <1>a, <1>b, <2>3 DEF Returned
    <3>2. op'["main"].step = "walk" /\ op'["main"].kind = "get" /\ op'["main"].key = job.start
      BY <3>1, CallIs
    <3>3. job.start <= job.start /\ job.start <= job.end
      BY JobFacts DEF TypeOK, Leaves
    <3>4. \A t \in Threads : op'[t] = op[t]
      BY <1>a, <2>3, <3>1
    <3>5. LoopInv'
      BY <3>1 DEF LoopInv
    <3> QED
      BY <2>3, <3>1, <3>2, <3>3, <3>4, <3>5 DEF ControlInv
  <2> QED
    BY <1>8, <2>1, <2>2, <2>3 DEF Returned
<1>9. ASSUME NEW c \in Callers, Check(c)
      PROVE  LoopInv' /\ ControlInv'
  <2>1. CASE link[op[c].at] = Null
    <3>1. op'[c] = [op[c] EXCEPT !.step = "link"] /\ \A d \in Callers \ {c} : op'[d] = op[d]
      BY <1>9, <1>b, <2>1 DEF Check
    <3>2. op'[c].step = "link" /\ op'[c].kind = op[c].kind /\ op'[c].key = op[c].key
          /\ op'[c].digest = op[c].digest
      BY <1>b, <3>1 DEF Ops
    <3> QED
      BY <1>9, <1>6, <2>1, <3>1, <3>2 DEF Check
  <2>2. CASE link[op[c].at] # Null
    BY <1>8, <1>9, <2>2, ReturnFacts DEF Check
  <2> QED
    BY <2>1, <2>2
<1>10. ASSUME NEW c \in Callers, Link(c)
       PROVE  LoopInv' /\ ControlInv'
  BY <1>8, <1>10, ReturnFacts, LinkStores DEF Link
<1> QED
  BY <1>1, <1>2, <1>3, <1>4, <1>5, <1>7, <1>9, <1>10 DEF Next, Main, Hash

-------------------------------------------------------------------------------
(* The left boundary *)

LEMMA LeftStep ==
  ASSUME TypeOK, LoopInv, ControlInv, LeftInv, [Next]_vars
  PROVE  LeftInv'
<1>0. job' = job /\ LoopInv' /\ ControlInv' /\ TypeOK'
  BY ControlStep, TypeStep
<1> DEFINE B == Bucket(job.start)
<1>a. "main" \notin Threads /\ "main" \in Callers /\ Threads \subseteq Callers
  BY DEF Threads, Callers
<1>b. /\ op \in [Callers -> Ops] /\ link \in [Slots -> Leaves \cup {Null}]
      /\ value \in [Leaves -> Digests \cup {Missing}] /\ got \in [Leaves -> Digests \cup {Missing}]
  BY DEF TypeOK
<1>c. Idle.step = "idle" /\ job.start \in Leaves /\ B \in Slots /\ job.end \in Leaves
      /\ job.start # Null
  BY IdleFacts, JobFacts, SlotFacts DEF TypeOK, Leaves, Null
<1>d. /\ Bucket(job.start)' = B /\ Slots' = Slots /\ LeftDigest' = LeftDigest
      /\ Idle' = Idle
  BY <1>0, <1>c, SameHalves DEF LeftDigest, Digest, B
<1>e. \A t \in Threads : loop[t] \in Int /\ job.start < loop[t] /\ loop[t] # job.start
  BY <1>c, HalfFacts DEF TypeOK, LoopInv, Leaves
(* A call that does not write leaves the pair guarded. *)
<1>1. ASSUME NEW c \in Callers, Guarded, UNCHANGED <<link, value>>,
             \A d \in Callers \ {c} : op'[d] = op[d],
             op'[c].step \in {"check", "link"} /\ op'[c].key # job.start => op'[c].at # B
      PROVE  Guarded'
  BY <1>0, <1>1, <1>d DEF Guarded, B
(* Neither does one that writes elsewhere and returns. *)
<1>2. ASSUME NEW c \in Callers, Guarded, op[c].at # B, op[c].key # job.start,
             op[c].step \in {"check", "link"},
             \/ UNCHANGED link /\ link[op[c].at] # Null
                /\ value' = [value EXCEPT ![link[op[c].at]] = op[c].digest]
             \/ link' = [link EXCEPT ![op[c].at] = op[c].key]
                /\ value' = [value EXCEPT ![op[c].key] = op[c].digest],
             \A d \in Callers \ {c} : op'[d] = op[d],
             op'[c].step \in {"idle", "walk"}
      PROVE  Guarded'
  <2>1. op[c].at \in Slots /\ op[c].key \in Leaves /\ link[op[c].at] # job.start
    BY <1>2, <1>b DEF Ops, Guarded, B
  <2>2. value'[job.start] = LeftDigest
    BY <1>2, <1>b, <1>c, <2>1 DEF Guarded
  <2>3. link'[B] = job.start /\ \A s \in Slots : link'[s] = job.start => s = B
    BY <1>2, <1>b, <1>c, <2>1 DEF Guarded, B
  <2>4. \A d \in Callers : op'[d].step \in {"check", "link"} /\ op'[d].key # job.start
                             => op'[d].at # B
    BY <1>2 DEF Guarded, B
  <2> QED
    BY <1>0, <1>d, <2>2, <2>3, <2>4 DEF Guarded
<1> HIDE DEF B
<1>3. CASE UNCHANGED vars
  BY <1>3, <1>d DEF vars, heap, LeftInv, Guarded, B
<1>4. CASE SetLeft
  <2>1. op'["main"] = Call("set", job.start, LeftDigest) /\ phase' = "left" /\ phase = "left"
        /\ link' = link
    BY <1>4, <1>a, <1>b DEF SetLeft, Begin, LeftDigest, heap
  <2>2. op'["main"].at = B
    BY <1>c, <2>1, CallFacts, DigestFacts DEF TypeOK, B
  <2> QED
    BY <1>0, <1>d, <2>1, <2>2 DEF LeftInv
<1>5. ASSUME NEW t \in Threads, SetInner(t)
      PROVE  LeftInv'
  <2>1. CASE phase' = "broken"
    BY <2>1 DEF LeftInv
  <2>2. CASE phase' # "broken"
    <3>1. op' = [op EXCEPT ![t] = Call("set", loop[t], InnerDigest(loop[t]))]
          /\ UNCHANGED <<phase, link, value>> /\ phase = "threads"
      BY <1>5, <2>2 DEF SetInner, Begin, InnerDigest, heap
    <3>2. op'[t].step = "walk" /\ \A d \in Callers \ {t} : op'[d] = op[d]
      BY <1>a, <1>b, <3>1 DEF Call
    <3> QED
      BY <1>0, <1>1, <1>a, <3>1, <3>2 DEF LeftInv
  <2> QED
    BY <2>1, <2>2
<1>6. CASE SetRight
  <2>1. CASE phase' = "broken"
    BY <2>1 DEF LeftInv
  <2>2. CASE phase' # "broken"
    <3>1. op' = [op EXCEPT !["main"] = Call("set", job.end, Digest(FALSE, RightRow, TRUE))]
          /\ UNCHANGED <<link, value>> /\ phase' = "right" /\ phase = "threads"
      BY <1>6, <2>2 DEF SetRight, Begin, heap
    <3>2. op'["main"].step = "walk" /\ \A d \in Callers \ {"main"} : op'[d] = op[d]
      BY <1>a, <1>b, <3>1 DEF Call
    <3> QED
      BY <1>0, <1>1, <1>a, <3>1, <3>2 DEF LeftInv
  <2> QED
    BY <2>1, <2>2
<1>7. CASE Look
  <2>1. CASE phase' = "broken"
    BY <2>1 DEF LeftInv
  <2>2. CASE job.start = job.end
    BY <1>0, <1>7, <2>2 DEF Look, LeftInv
  <2>3. CASE phase' # "broken" /\ job.start # job.end
    <3> DEFINE o == op["main"]
    <3>1. phase = "inner" /\ Guarded /\ UNCHANGED <<link, value>>
      BY <1>7, <2>3 DEF Look, LeftInv, heap
    <3>2. /\ got' = [got EXCEPT ![o.key] = IF link[o.at] = Null THEN Missing ELSE value[link[o.at]]]
          /\ o.key \in Leaves /\ o.key >= job.start
      BY <1>7, <1>a, <1>b, <2>3 DEF Look, Ops, ControlInv
    <3>3. got'[job.start] = LeftDigest
      <4>1. CASE o.key = job.start /\ o.at = B
        BY <1>b, <1>c, <3>1, <3>2, <4>1 DEF Guarded, B
      <4>2. CASE o.key > job.start /\ got[job.start] = LeftDigest
        BY <1>b, <1>c, <3>2, <4>2 DEF Leaves
      <4> QED
        BY <2>3, <3>1, <4>1, <4>2 DEF LeftInv, B
    <3>4. CASE o.key = job.end
      BY <1>0, <1>7, <1>d, <2>3, <3>3, <3>4 DEF Look, LeftInv
    <3>5. CASE o.key # job.end
      <4>1. phase' = "inner" /\ op' = [op EXCEPT !["main"] = Call("get", o.key + 1, Missing)]
        BY <1>7, <2>3, <3>5 DEF Look
      <4>2. op'["main"].step = "walk" /\ op'["main"].key = o.key + 1
            /\ \A d \in Callers \ {"main"} : op'[d] = op[d]
        BY <1>a, <1>b, <4>1 DEF Call
      <4>3. op'["main"].key > job.start
        BY <1>c, <3>2, <4>2 DEF Leaves
      <4>4. Guarded'
        BY <1>1, <1>a, <3>1, <4>2
      <4> QED
        BY <1>0, <1>d, <3>3, <4>1, <4>3, <4>4 DEF LeftInv
    <3> QED
      BY <3>4, <3>5
  <2> QED
    BY <2>1, <2>2, <2>3
<1>8. ASSUME NEW c \in Callers, Walk(c)
      PROVE  LeftInv'
  <2>1. /\ UNCHANGED <<phase, link, value, got>> /\ op[c].step = "walk" /\ ~Broken
        /\ \A d \in Callers \ {c} : op'[d] = op[d]
        /\ op'[c] = IF link[op[c].at] \in {Null, op[c].key} THEN [op[c] EXCEPT !.step = "check"]
                    ELSE [op[c] EXCEPT !.at = NextOf(link[op[c].at])]
    BY <1>8, <1>b DEF Walk, heap
  <2>2. op[c] \in Ops
    BY <1>b
  <2>3. op'[c].key = op[c].key /\ op'[c].step \in {"walk", "check"}
        /\ (op'[c].step = "check" => op'[c].at = op[c].at /\ link[op[c].at] \in {Null, op[c].key})
        /\ (link[op[c].at] \in {Null, op[c].key} => op'[c].at = op[c].at)
    BY <2>1, <2>2 DEF Ops
  <2>4. Guarded => Guarded'
    <3>1. SUFFICES ASSUME Guarded
                   PROVE  Guarded'
      OBVIOUS
    <3>2. op'[c].step \in {"check", "link"} /\ op'[c].key # job.start => op'[c].at # B
      BY <1>c, <2>3, <3>1 DEF Guarded, B
    <3> QED
      BY <1>1, <2>1, <3>1, <3>2
  <2>5. CASE phase = "left"
    <3>1. c = "main" /\ op[c].at = B
      BY <1>a, <1>c, <2>1, <2>5 DEF ControlInv, LeftInv, Callers, B
    <3>2. op'["main"].at = B
      BY <1>c, <2>3, <2>5, <3>1 DEF LeftInv
    <3> QED
      BY <1>0, <1>d, <2>1, <2>5, <3>2 DEF LeftInv
  <2>6. CASE phase = "inner" /\ job.start # job.end
    <3>1. Guarded
      BY <2>6 DEF LeftInv
    <3>2. c = "main"
      BY <1>a, <1>c, <2>1, <2>6 DEF ControlInv, Callers
    <3>3. CASE op["main"].key = job.start /\ op["main"].at = B
      <4>1. op'["main"].key = job.start /\ op'["main"].at = B
        BY <2>3, <3>1, <3>2, <3>3 DEF Guarded, B
      <4> QED
        BY <1>0, <1>d, <2>1, <2>4, <2>6, <3>1, <4>1 DEF LeftInv
    <3>4. CASE op["main"].key > job.start /\ got[job.start] = LeftDigest
      BY <1>0, <1>d, <2>1, <2>3, <2>4, <2>6, <3>1, <3>2, <3>4 DEF LeftInv
    <3> QED
      BY <2>6, <3>3, <3>4 DEF LeftInv, B
  <2>7. CASE phase \notin {"left", "inner"} \/ (phase = "inner" /\ job.start = job.end)
    BY <1>0, <1>d, <2>1, <2>4, <2>7 DEF LeftInv
  <2> QED
    BY <2>5, <2>6, <2>7
(* Where a call that writes is *)
<1>9. ASSUME NEW c \in Callers, ~Broken, op[c].kind = "set", op[c].step \in {"check", "link"}
      PROVE  /\ phase = "left" => c = "main" /\ op[c].at = B /\ op[c].key = job.start
                                  /\ op[c].digest = LeftDigest /\ link[op[c].at] = Null
             /\ phase \in {"threads", "right"} /\ job.start # job.end
                  => Guarded /\ op[c].at # B /\ op[c].key # job.start
             /\ phase \in {"left", "threads", "right"}
  <2>1. Calling(c)
    BY <1>9, WhoCalls
  <2>2. CASE phase = "left"
    <3>1. c = "main" /\ op[c].key = job.start /\ op[c].digest = LeftDigest
      BY <2>1, <2>2 DEF Calling, Storing
    <3>2. op[c].at = B
      BY <1>9, <1>c, <2>2, <3>1 DEF LeftInv, B
    <3> QED
      BY <1>c, <2>2, <3>1, <3>2 DEF LeftInv
  <2>3. CASE phase \in {"threads", "right"} /\ job.start # job.end
    <3>1. Guarded
      BY <2>3 DEF LeftInv
    <3>2. op[c].key # job.start
      BY <1>e, <2>1, <2>3 DEF Calling, Storing
    <3> QED
      BY <1>9, <2>3, <3>1, <3>2 DEF Guarded, B
  <2> QED
    BY <2>1, <2>2, <2>3 DEF Calling
(* What a write leaves behind *)
<1>10. ASSUME NEW c \in Callers, Returned(c), got' = got,
              job.start # job.end => Guarded'
       PROVE  LeftInv'
  <2>1. CASE c \in Threads \/ (c = "main" /\ phase = "left")
    <3>1. phase' = "threads"
      BY <1>10, <1>a, <2>1 DEF Returned
    <3> QED
      BY <1>0, <1>10, <3>1 DEF LeftInv
  <2>2. CASE c = "main" /\ phase = "right"
    <3>1. phase' = "inner" /\ op'["main"] = Call("get", job.start, Missing)
      BY <1>10, <1>a, <1>b, <2>2 DEF Returned
    <3>2. op'["main"].key = job.start /\ op'["main"].at = B
      BY <3>1 DEF Call, B
    <3> QED
      BY <1>0, <1>10, <1>d, <3>1, <3>2 DEF LeftInv
  <2> QED
    BY <1>10, <2>1, <2>2 DEF Returned
<1>11. ASSUME NEW c \in Callers, Returned(c)
       PROVE  op'[c].step \in {"idle", "walk"} /\ \A d \in Callers \ {c} : op'[d] = op[d]
  <2>1. Call("get", job.start, Missing).step = "walk"
    BY DEF Call
  <2> QED
    BY <1>11, <1>b, <1>c, <2>1 DEF Returned
<1>12. ASSUME NEW c \in Callers, Check(c)
       PROVE  LeftInv'
  <2>1. CASE link[op[c].at] = Null
    <3>1. UNCHANGED <<phase, link, value, got>> /\ \A d \in Callers \ {c} : op'[d] = op[d]
      BY <1>12, <1>b, <2>1 DEF Check
    <3>2. op'[c].key = op[c].key /\ op'[c].at = op[c].at
      BY <1>12, <1>b, <2>1 DEF Check, Ops
    <3>3. CASE phase = "left"
      BY <1>0, <1>9, <1>12, <1>d, <3>1, <3>2, <3>3 DEF Check, LeftInv
    <3>4. CASE phase \in {"threads", "right"}
      <4>1. job.start # job.end => Guarded /\ op'[c].at # B
        BY <1>9, <1>12, <3>2, <3>4 DEF Check
      <4>2. job.start # job.end => Guarded'
        BY <1>1, <3>1, <4>1
      <4>3. phase' \in {"threads", "right"}
        BY <3>1, <3>4
      <4> QED
        BY <1>0, <4>2, <4>3 DEF LeftInv
    <3> QED
      BY <1>9, <1>12, <3>3, <3>4 DEF Check
  <2>2. CASE link[op[c].at] # Null
    <3>1. Returned(c) /\ got' = got /\ UNCHANGED link
          /\ value' = [value EXCEPT ![link[op[c].at]] = op[c].digest]
      BY <1>12, <2>2, ReturnFacts DEF Check
    <3>2. phase \in {"threads", "right"}
      BY <1>9, <1>12, <2>2 DEF Check
    <3>3. job.start # job.end => Guarded'
      BY <1>2, <1>9, <1>11, <1>12, <2>2, <3>1, <3>2 DEF Check
    <3> QED
      BY <1>10, <3>1, <3>3
  <2> QED
    BY <2>1, <2>2
<1>13. ASSUME NEW c \in Callers, Link(c)
       PROVE  LeftInv'
  <2>1. op[c].kind = "set" /\ op[c].step = "link" /\ ~Broken
    BY <1>13, LinkStores DEF Link
  <2>2. Returned(c) /\ got' = got /\ link' = [link EXCEPT ![op[c].at] = op[c].key]
        /\ value' = [value EXCEPT ![op[c].key] = op[c].digest]
    BY <1>13, <2>1, ReturnFacts DEF Link
  <2>3. CASE phase = "left"
    <3>1. c = "main" /\ op[c].at = B /\ op[c].key = job.start /\ op[c].digest = LeftDigest
      BY <1>9, <2>1, <2>3
    <3>2. link'[B] = job.start /\ \A s \in Slots : link'[s] = job.start => s = B
      BY <1>b, <1>c, <2>2, <2>3, <3>1 DEF LeftInv
    <3>3. value'[job.start] = LeftDigest
      BY <1>b, <1>c, <2>2, <3>1
    <3>4. \A d \in Callers : op'[d].step \notin {"check", "link"}
      BY <1>11, <1>a, <1>c, <2>2, <2>3, <3>1 DEF ControlInv, Callers
    <3>5. Guarded'
      BY <1>0, <1>d, <3>2, <3>3, <3>4 DEF Guarded
    <3> QED
      BY <1>10, <2>2, <3>5
  <2>4. CASE phase \in {"threads", "right"}
    <3>1. job.start # job.end => Guarded'
      BY <1>2, <1>9, <1>11, <2>1, <2>2, <2>4
    <3> QED
      BY <1>10, <2>2, <3>1
  <2> QED
    BY <1>9, <2>1, <2>3, <2>4
<1> QED
  BY <1>3, <1>4, <1>5, <1>6, <1>7, <1>8, <1>12, <1>13 DEF Next, Main, Hash

-------------------------------------------------------------------------------
(* Narrow ranges *)

(* A thread at a leaf has not stored it, and neither has the other. *)
LEMMA ThreadLeaf ==
  ASSUME TypeOK, LoopInv, NEW t \in Threads, loop[t] < Stop(t)
  PROVE  /\ loop[t] \in Span /\ loop[t] # job.start /\ loop[t] # job.end
         /\ \A u \in Threads \ {t} : ~(Start(u) < loop[t] /\ loop[t] < loop[u])
         /\ \A u \in Threads \ {t} : loop[u] < Stop(u) => loop[u] # loop[t]
<1>1. /\ job.start \in Nat /\ job.end \in Nat /\ Mid \in Nat
      /\ job.start <= Mid /\ Mid <= job.end
  BY JobFacts DEF TypeOK, Leaves
<1>2. loop["first"] \in Nat /\ loop["second"] \in Nat
  BY DEF TypeOK, Threads
<1>3. /\ Start("first") = job.start /\ Stop("first") = Mid
      /\ Start("second") = Mid /\ Stop("second") = job.end
  BY DEF Start, Stop
<1>4. /\ job.start < loop["first"] /\ (loop["first"] <= Mid \/ loop["first"] = job.start + 1)
      /\ Mid < loop["second"] /\ (loop["second"] <= job.end \/ loop["second"] = Mid + 1)
  BY <1>3 DEF LoopInv, Threads
<1>5. CASE t = "first"
  BY <1>1, <1>2, <1>3, <1>4, <1>5 DEF Threads, Span
<1>6. CASE t = "second"
  BY <1>1, <1>2, <1>3, <1>4, <1>6 DEF Threads, Span
<1> QED
  BY <1>5, <1>6 DEF Threads

(* What is stored when both threads are joined *)
LEMMA JoinedDone ==
  ASSUME TypeOK, LoopInv, ControlInv, phase = "inner", NEW k \in Span
  PROVE  Stored(k) = IF Done(k) THEN DigestOf(k) ELSE Missing
<1>1. /\ job.start \in Nat /\ job.end \in Nat /\ Mid \in Nat /\ k \in Nat
      /\ job.start <= Mid /\ Mid <= job.end /\ job.start <= k /\ k <= job.end
  BY JobFacts DEF TypeOK, Leaves, Span
<1>2. loop["first"] \in Nat /\ loop["second"] \in Nat
  BY DEF TypeOK, Threads
<1>3. /\ Start("first") = job.start /\ Stop("first") = Mid
      /\ Start("second") = Mid /\ Stop("second") = job.end
  BY DEF Start, Stop
<1>4. /\ (loop["first"] = Mid \/ (loop["first"] = job.start + 1 /\ Mid <= job.start + 1))
      /\ (loop["second"] = job.end \/ (loop["second"] = Mid + 1 /\ job.end <= Mid + 1))
  <2>1. \A t \in Threads : loop[t] >= Stop(t) /\ (loop[t] <= Stop(t) \/ loop[t] = Start(t) + 1)
    BY DEF LoopInv, ControlInv
  <2>2. /\ loop["first"] >= Mid /\ (loop["first"] <= Mid \/ loop["first"] = job.start + 1)
        /\ loop["second"] >= job.end /\ (loop["second"] <= job.end \/ loop["second"] = Mid + 1)
    BY <1>3, <2>1 DEF Threads
  <2> QED
    BY <1>1, <1>2, <2>2
<1>5. (\E t \in Threads : Start(t) < k /\ k < loop[t])
        <=> (job.start < k /\ k < Mid) \/ (Mid < k /\ k < job.end)
  BY <1>1, <1>2, <1>3, <1>4 DEF Threads
<1>6. Done(k) <=> k = job.start \/ k = job.end \/ (job.start < k /\ k < Mid)
                  \/ (Mid < k /\ k < job.end)
  BY <1>5 DEF Done
<1>7. CASE k = job.end
  BY <1>6, <1>7 DEF Stored, DigestOf, RightDigest
<1>8. CASE k = job.start /\ k # job.end
  BY <1>6, <1>8 DEF Stored, DigestOf, LeftDigest
<1>9. CASE k # job.start /\ k # job.end /\ k # Mid
  <2>1. Done(k) /\ job.start < k /\ k < job.end
    BY <1>1, <1>6, <1>9
  <2>2. Stored(k) = InnerDigest(k)
    BY <1>9, <2>1 DEF Stored, InnerDigest
  <2>3. DigestOf(k) = InnerDigest(k)
    BY <1>9 DEF DigestOf
  <2> QED
    BY <2>1, <2>2, <2>3
<1>10. CASE k # job.start /\ k # job.end /\ k = Mid
  <2>1. ~Done(k)
    BY <1>1, <1>6, <1>10
  <2>2. Stored(k) = Missing
    BY <1>10 DEF Stored
  <2> QED
    BY <2>1, <2>2
<1> QED
  BY <1>7, <1>8, <1>9, <1>10

(* Nothing is stored for leaves outside the range. *)
LEMMA OutsideStored ==
  ASSUME job \in Jobs, NEW k \in Leaves \ Span
  PROVE  Stored(k) = Missing
<1>1. job.start \in Nat /\ job.end \in Nat /\ job.start <= job.end /\ k \in Nat
  BY JobFacts DEF Leaves
<1>2. k # job.end /\ k # job.start /\ ~(job.start < k /\ k < job.end)
  BY <1>1 DEF Span
<1> QED
  BY <1>2 DEF Stored

LEMMA NarrowStep ==
  ASSUME TypeOK, LoopInv, ControlInv, NarrowInv, [Next]_vars
  PROVE  NarrowInv'
<1>0. job' = job /\ LoopInv' /\ ControlInv' /\ TypeOK'
  BY ControlStep, TypeStep
<1>a. "main" \notin Threads /\ "main" \in Callers /\ Threads \subseteq Callers
  BY DEF Threads, Callers
<1>b. /\ op \in [Callers -> Ops] /\ link \in [Slots -> Leaves \cup {Null}]
      /\ value \in [Leaves -> Digests \cup {Missing}] /\ got \in [Leaves -> Digests \cup {Missing}]
      /\ loop \in [Threads -> 1 .. MaxLeaf + 1] /\ job \in Jobs
  BY DEF TypeOK
<1>c. /\ Idle.step = "idle" /\ job.start \in Span /\ job.end \in Span
      /\ Span \subseteq Leaves /\ Null \notin Leaves
      /\ \A k \in Span : Bucket(k) \in Slots
  <2>1. /\ job.start \in Nat /\ job.end \in Nat /\ job.start <= job.end /\ job.end <= MaxLeaf
    BY JobFacts DEF TypeOK, Leaves
  <2>2. Span \subseteq Leaves
    BY <2>1, LeafAssumption DEF Span, Leaves
  <2> QED
    BY <2>1, <2>2, IdleFacts, SlotFacts DEF TypeOK, Span, Leaves, Null
<1>d. /\ \A k \in Leaves : Bucket(k)' = Bucket(k)
      /\ Slots' = Slots /\ Span' = Span /\ (Narrow' <=> Narrow) /\ Idle' = Idle
      /\ \A t \in Threads : Start(t)' = Start(t) /\ Stop(t)' = Stop(t)
  BY <1>0, SameHalves
<1>e. \A k \in Leaves : Stored(k)' = Stored(k)
  BY <1>0, SameHalves DEF Stored, Digest, Missing
<1> SUFFICES ASSUME Narrow
             PROVE  ~collided' /\ GotInv' /\ (phase' # "broken" => PlaceInv' /\ MapInv')
  BY <1>d DEF NarrowInv
<1>f. ~collided /\ GotInv
  BY DEF NarrowInv
<1>g. \A j, k \in Span : Bucket(j) = Bucket(k) => j = k
  BY <1>b, BucketsApart
<1>h. ~Broken => PlaceInv /\ MapInv
  BY DEF NarrowInv, Broken
(* The key of a call is a leaf of the range. *)
<1>i. ASSUME NEW c \in Callers, ~Broken, op[c].step # "idle"
      PROVE  op[c].key \in Span
  <2>1. op[c].kind \in {"set", "get"} /\ op[c].key \in Leaves
    BY <1>b DEF Ops
  <2>2. CASE op[c].kind = "set"
    BY <1>i, <1>c, <2>2, WhoCalls, ThreadLeaf DEF Calling, Storing
  <2>3. CASE op[c].kind = "get"
    <3>1. job.start <= op[c].key /\ op[c].key <= job.end
      BY <1>i, <2>3, WhoCalls DEF ControlInv
    <3> QED
      BY <2>1, <3>1 DEF Span, Leaves
  <2> QED
    BY <2>1, <2>2, <2>3
(* The map stays as it is while nothing is stored. *)
<1>1. ASSUME UNCHANGED <<link, value, loop>>, MapInv,
             (phase = "left") <=> (phase' = "left"),
             phase \in {"inner", "done"} <=> phase' \in {"inner", "done"}
      PROVE  MapInv'
  <2>1. \A k \in Span : (Done(k)' <=> Done(k)) /\ DigestOf(k)' = DigestOf(k)
    BY <1>0, <1>1, <1>d DEF Done, DigestOf, LeftDigest, RightDigest, InnerDigest, Digest
  <2>2. \A k \in Span : Bucket(k)' = Bucket(k)
    BY <1>c, <1>d
  <2> QED
    BY <1>1, <1>d, <2>1, <2>2 DEF MapInv
(* A new call is at its bucket. *)
<1>2. ASSUME NEW c \in Callers, PlaceInv, UNCHANGED link, NEW k \in Leaves,
             op'[c].step = "walk", op'[c].key = k, op'[c].at = Bucket(k),
             \A d \in Callers \ {c} : op'[d] = op[d]
      PROVE  PlaceInv'
  <2>1. \A d \in Callers : Bucket(op[d].key)' = Bucket(op'[d].key)
    BY <1>0 DEF Bucket
  <2>2. SUFFICES ASSUME NEW d \in Callers
                 PROVE  /\ op'[d].step # "idle" => op'[d].at = Bucket(op'[d].key)
                        /\ op'[d].step = "link" => link[Bucket(op'[d].key)] = Null
    BY <1>2, <2>1 DEF PlaceInv
  <2>3. CASE d = c
    BY <1>2, <2>3
  <2>4. CASE d # c
    BY <1>2, <2>4 DEF PlaceInv
  <2> QED
    BY <2>3, <2>4
<1>3. CASE UNCHANGED vars
  <2>1. PlaceInv => PlaceInv'
    <3>1. \A d \in Callers : op[d].key \in Leaves
      BY <1>b DEF Ops
    <3> QED
      BY <1>3, <1>d, <3>1 DEF vars, heap, PlaceInv
  <2>2. MapInv => MapInv'
    BY <1>1, <1>3 DEF vars, heap
  <2>3. GotInv'
    BY <1>3, <1>e, <1>f DEF vars, GotInv, Missing, Digest
  <2> QED
    BY <1>3, <1>f, <1>h, <2>1, <2>2, <2>3 DEF vars, Broken
<1>4. CASE SetLeft
  <2>1. /\ op' = [op EXCEPT !["main"] = Call("set", job.start, LeftDigest)]
        /\ UNCHANGED <<phase, loop, link, value, got>> /\ phase = "left"
        /\ collided' = (collided \/ Crowded("main", job.start))
    BY <1>4 DEF SetLeft, Begin, LeftDigest, heap
  <2>2. /\ op'["main"].step = "walk" /\ op'["main"].key = job.start
        /\ op'["main"].at = Bucket(job.start)
        /\ \A d \in Callers \ {"main"} : op'[d] = op[d]
    BY <1>a, <1>b, <2>1 DEF Call
  <2>3. ~collided'
    BY <1>c, <1>f, <2>1 DEF Crowded, ControlInv, Callers
  <2>4. PlaceInv' /\ MapInv'
    BY <1>1, <1>2, <1>a, <1>c, <1>h, <2>1, <2>2 DEF Broken
  <2>5. GotInv'
    BY <1>f, <2>1 DEF GotInv, Missing, Digest
  <2> QED
    BY <2>3, <2>4, <2>5
<1>5. ASSUME NEW t \in Threads, SetInner(t)
      PROVE  ~collided' /\ GotInv' /\ (phase' # "broken" => PlaceInv' /\ MapInv')
  <2>1. CASE phase' = "broken"
    <3>1. got' = got /\ collided' = collided /\ (phase = "threads" \/ phase = "broken")
      BY <1>5, <2>1 DEF SetInner, Begin, heap
    <3> QED
      BY <1>f, <2>1, <3>1 DEF GotInv, Missing, Digest
  <2>2. CASE phase' # "broken"
    <3>1. /\ op' = [op EXCEPT ![t] = Call("set", loop[t], InnerDigest(loop[t]))]
          /\ UNCHANGED <<phase, loop, link, value, got>> /\ phase = "threads"
          /\ collided' = (collided \/ Crowded(t, loop[t])) /\ loop[t] < Stop(t)
      BY <1>5, <2>2 DEF SetInner, Begin, InnerDigest, heap
    <3>2. /\ op'[t].step = "walk" /\ op'[t].key = loop[t] /\ op'[t].at = Bucket(loop[t])
          /\ \A d \in Callers \ {t} : op'[d] = op[d]
      BY <1>a, <1>b, <3>1 DEF Call
    <3>3. ~Crowded(t, loop[t])
      <4>1. SUFFICES ASSUME NEW d \in Callers \ {t}, op[d].step # "idle",
                            Bucket(op[d].key) = Bucket(loop[t])
                     PROVE  FALSE
        BY DEF Crowded
      <4>2. d \in Threads
        BY <1>c, <3>1, <4>1 DEF ControlInv, Callers
      <4>3. op[d].key = loop[d] /\ loop[d] < Stop(d)
        BY <1>c, <3>1, <4>1, <4>2 DEF ControlInv, Storing
      <4>4. loop[d] \in Span /\ loop[t] \in Span /\ loop[d] # loop[t]
        BY <3>1, <4>1, <4>2, <4>3, ThreadLeaf
      <4> QED
        BY <1>g, <4>1, <4>3, <4>4
    <3>4. loop[t] \in Leaves
      BY <1>c, <3>1, ThreadLeaf
    <3>5. PlaceInv' /\ MapInv'
      BY <1>1, <1>2, <1>a, <1>h, <3>1, <3>2, <3>4 DEF Broken
    <3>6. GotInv'
      BY <1>f, <3>1 DEF GotInv, Missing, Digest
    <3> QED
      BY <1>f, <3>1, <3>3, <3>5, <3>6
  <2> QED
    BY <2>1, <2>2
<1>6. CASE SetRight
  <2>1. CASE phase' = "broken"
    <3>1. got' = got /\ collided' = collided /\ (phase = "threads" \/ phase = "broken")
      BY <1>6, <2>1 DEF SetRight, Begin, heap
    <3> QED
      BY <1>f, <2>1, <3>1 DEF GotInv, Missing, Digest
  <2>2. CASE phase' # "broken"
    <3>1. /\ op' = [op EXCEPT !["main"] = Call("set", job.end, Digest(FALSE, RightRow, TRUE))]
          /\ UNCHANGED <<loop, link, value, got>> /\ phase = "threads" /\ phase' = "right"
          /\ collided' = (collided \/ Crowded("main", job.end)) /\ Joined
      BY <1>6, <2>2 DEF SetRight, Begin, heap
    <3>2. /\ op'["main"].step = "walk" /\ op'["main"].key = job.end
          /\ op'["main"].at = Bucket(job.end)
          /\ \A d \in Callers \ {"main"} : op'[d] = op[d]
      BY <1>a, <1>b, <3>1 DEF Call
    <3>3. ~collided'
      BY <1>c, <1>f, <3>1 DEF Crowded, Joined, Callers
    <3>4. PlaceInv' /\ MapInv'
      BY <1>1, <1>2, <1>a, <1>c, <1>h, <3>1, <3>2 DEF Broken
    <3>5. GotInv'
      BY <1>f, <3>1 DEF GotInv, Missing, Digest
    <3> QED
      BY <3>3, <3>4, <3>5
  <2> QED
    BY <2>1, <2>2
<1>7. CASE Look
  <2> DEFINE o == op["main"]
  <2>1. /\ phase = "inner" /\ UNCHANGED <<link, value, loop, collided>> /\ o.step = "check"
    BY <1>7 DEF Look, heap
  <2>2. CASE phase' = "broken"
    BY <1>f, <2>1, <2>2 DEF GotInv
  <2>3. CASE phase' # "broken"
    <3>1. /\ got' = [got EXCEPT ![o.key] = IF link[o.at] = Null THEN Missing ELSE value[link[o.at]]]
          /\ phase' = IF o.key = job.end THEN "done" ELSE "inner"
          /\ op' = [op EXCEPT !["main"] = IF o.key = job.end THEN Idle
                                          ELSE Call("get", o.key + 1, Missing)]
      BY <1>7, <2>3 DEF Look
    <3>2. o.key \in Span /\ PlaceInv /\ MapInv
      BY <1>a, <1>h, <1>i, <2>1 DEF Broken
    <3>3. o.at = Bucket(o.key)
      BY <1>a, <2>1, <3>2 DEF PlaceInv
    <3>4. (IF link[o.at] = Null THEN Missing ELSE value[link[o.at]]) = Stored(o.key)
      <4>1. Stored(o.key) = IF Done(o.key) THEN DigestOf(o.key) ELSE Missing
        BY <2>1, <3>2, JoinedDone
      <4>2. link[o.at] = IF Done(o.key) THEN o.key ELSE Null
        BY <3>2, <3>3 DEF MapInv
      <4>3. Done(o.key) => value[o.key] = DigestOf(o.key) /\ o.key # Null
        BY <1>c, <3>2 DEF MapInv
      <4> QED
        BY <4>1, <4>2, <4>3
    <3>5. got' = [got EXCEPT ![o.key] = Stored(o.key)]
      BY <3>1, <3>4
    <3>6. \A k \in Leaves : got'[k] = IF k < o.key + 1 THEN Stored(k) ELSE Missing
      <4>1. TAKE k \in Leaves
      <4>2. got[k] = IF k < o.key THEN Stored(k) ELSE Missing
        BY <1>f, <2>1 DEF GotInv
      <4>3. o.key \in Nat /\ k \in Nat /\ o.key \in Leaves
        <5>1. o.key \in Leaves
          BY <1>c, <3>2
        <5> QED
          BY <5>1 DEF Leaves
      <4>4. CASE k = o.key
        BY <1>b, <3>5, <4>3, <4>4
      <4>5. CASE k # o.key
        BY <1>b, <3>5, <4>2, <4>3, <4>5
      <4> QED
        BY <4>4, <4>5
    <3>7. CASE o.key = job.end
      <4>1. \A k \in Leaves : got'[k] = Stored(k)
        <5>1. TAKE k \in Leaves
        <5>2. CASE k < o.key + 1
          BY <3>6, <5>2
        <5>3. CASE ~(k < o.key + 1)
          <6>1. k \notin Span
            BY <1>c, <3>7, <5>3 DEF Span, Leaves
          <6> QED
            BY <1>b, <3>6, <5>3, <6>1, OutsideStored
        <5> QED
          BY <5>2, <5>3
      <4>2. op'["main"] = Idle /\ \A d \in Callers \ {"main"} : op'[d] = op[d]
        BY <1>a, <1>b, <3>1, <3>7
      <4>3. \A d \in Callers : op[d].key \in Leaves
        BY <1>b DEF Ops
      <4>4. PlaceInv'
        BY <1>c, <1>d, <2>1, <3>2, <4>2, <4>3 DEF PlaceInv
      <4>5. MapInv'
        BY <1>1, <2>1, <3>1, <3>2, <3>7
      <4>6. GotInv'
        BY <1>e, <3>1, <3>7, <4>1 DEF GotInv
      <4> QED
        BY <1>f, <2>1, <4>4, <4>5, <4>6
    <3>8. CASE o.key # job.end
      <4>1. o.key + 1 \in Leaves
        <5>1. job.start \in Nat /\ job.end \in Nat /\ job.end <= MaxLeaf
          BY <1>b, JobFacts DEF Leaves
        <5>2. o.key \in Nat /\ o.key <= job.end
          BY <3>2, <5>1 DEF Span
        <5> QED
          BY <3>8, <5>1, <5>2, LeafAssumption DEF Leaves
      <4>2. /\ op'["main"].step = "walk" /\ op'["main"].key = o.key + 1
            /\ op'["main"].at = Bucket(o.key + 1)
            /\ \A d \in Callers \ {"main"} : op'[d] = op[d]
        BY <1>a, <1>b, <3>1, <3>8 DEF Call
      <4>3. PlaceInv'
        BY <1>2, <1>a, <2>1, <3>2, <4>1, <4>2
      <4>4. MapInv'
        BY <1>1, <2>1, <3>1, <3>2, <3>8
      <4>5. GotInv'
        BY <1>e, <3>1, <3>6, <3>8, <4>2 DEF GotInv, Missing, Digest
      <4> QED
        BY <1>f, <2>1, <4>3, <4>4, <4>5
    <3> QED
      BY <3>7, <3>8
  <2> QED
    BY <2>2, <2>3
(* A call that goes on stays at its bucket. *)
<1>8. ASSUME NEW c \in Callers, op[c].step # "idle", ~Broken,
             UNCHANGED <<phase, loop, link, value, got, collided>>,
             op'[c].key = op[c].key, op'[c].at = op[c].at,
             op'[c].step = "link" => link[op[c].at] = Null,
             \A d \in Callers \ {c} : op'[d] = op[d]
      PROVE  ~collided' /\ GotInv' /\ PlaceInv' /\ MapInv'
  <2>1. \A d \in Callers : Bucket(op[d].key)' = Bucket(op'[d].key)
    BY <1>0 DEF Bucket
  <2>2. op[c].at = Bucket(op[c].key) /\ PlaceInv
    BY <1>8, <1>h DEF PlaceInv
  <2>3. PlaceInv'
    <3>1. SUFFICES ASSUME NEW d \in Callers
                   PROVE  /\ op'[d].step # "idle" => op'[d].at = Bucket(op'[d].key)
                          /\ op'[d].step = "link" => link[Bucket(op'[d].key)] = Null
      BY <1>8, <2>1 DEF PlaceInv
    <3>2. CASE d = c
      BY <1>8, <2>2, <3>2
    <3>3. CASE d # c
      BY <1>8, <2>2, <3>3 DEF PlaceInv
    <3> QED
      BY <3>2, <3>3
  <2>4. MapInv'
    BY <1>1, <1>8, <1>h
  <2>5. op'["main"].key = op["main"].key
    BY <1>8, <1>a
  <2>6. GotInv'
    BY <1>8, <1>e, <1>f, <2>5 DEF GotInv, Missing, Digest
  <2> QED
    BY <1>8, <1>f, <2>3, <2>4, <2>6
(* Where a call is, and what it finds there *)
<1>9. ASSUME NEW c \in Callers, op[c].step # "idle", ~Broken
      PROVE  /\ op[c].key \in Span /\ op[c].at = Bucket(op[c].key)
             /\ link[op[c].at] = IF Done(op[c].key) THEN op[c].key ELSE Null
  BY <1>9, <1>h, <1>i DEF PlaceInv, MapInv
<1>10. ASSUME NEW c \in Callers, Walk(c)
       PROVE  ~collided' /\ GotInv' /\ PlaceInv' /\ MapInv'
  <2>1. op[c].step # "idle" /\ ~Broken /\ UNCHANGED <<phase, loop, link, value, got, collided>>
    BY <1>10 DEF Walk, heap
  <2>2. link[op[c].at] \in {Null, op[c].key}
    BY <1>9, <2>1
  <2>3. \A d \in Callers \ {c} : op'[d] = op[d]
    BY <1>10, <1>b DEF Walk
  <2>4. op'[c].key = op[c].key /\ op'[c].at = op[c].at /\ op'[c].step = "check"
    BY <1>10, <1>b, <2>2 DEF Walk, Ops
  <2> QED
    BY <1>8, <2>1, <2>3, <2>4
(* Storing the digest of k, under a link that was there or is new *)
<1>11. ASSUME NEW c \in Callers, op[c].step # "idle", ~Broken, op[c].kind = "set", Returned(c),
              NEW k \in Span, k = op[c].key,
              value' = [value EXCEPT ![k] = op[c].digest],
              link' = [link EXCEPT ![Bucket(k)] = k],
              UNCHANGED <<got, collided>>
       PROVE  ~collided' /\ GotInv' /\ PlaceInv' /\ MapInv'
  <2>1. PlaceInv /\ MapInv /\ \A j \in Span : j \in Leaves /\ Bucket(j) \in Slots
    BY <1>11, <1>c, <1>h
  <2>2. /\ link'[Bucket(k)] = k /\ value'[k] = op[c].digest
        /\ \A j \in Span \ {k} : link'[Bucket(j)] = link[Bucket(j)] /\ value'[j] = value[j]
    BY <1>11, <1>b, <1>g, <2>1
  <2>3. \A d \in Callers \ {c} : op'[d] = op[d]
    BY <1>11, <1>b DEF Returned
  <2>4. ASSUME NEW d \in Callers \ {c}, op[d].step # "idle"
        PROVE  op[d].key \in Span \ {k}
    <3>1. op[d].key \in Span
      BY <1>11, <1>i, <2>4
    <3>2. c \in Threads /\ phase = "threads" /\ k = loop[c] /\ loop[c] < Stop(c)
      BY <1>11, <1>a, <1>c, <2>4 DEF Returned, Storing, ControlInv, Callers
    <3>3. d \in Threads /\ op[d].key = loop[d] /\ loop[d] < Stop(d)
      BY <1>c, <2>4, <3>2 DEF ControlInv, Storing, Callers
    <3>4. loop[d] # loop[c]
      BY <2>4, <3>2, <3>3, ThreadLeaf
    <3> QED
      BY <3>1, <3>2, <3>3, <3>4
  <2>5. ASSUME \A j \in Span : Done(j)' <=> Done(j) \/ j = k,
               \A j \in Span \ {k} : DigestOf(j)' = DigestOf(j),
               DigestOf(k)' = op[c].digest
        PROVE  MapInv'
    <3>1. \A j \in Span : Bucket(j)' = Bucket(j)
      BY <1>c, <1>d
    <3>2. ASSUME NEW j \in Span
          PROVE  /\ link'[Bucket(j)] = IF Done(j)' THEN j ELSE Null
                 /\ Done(j)' => value'[j] = DigestOf(j)'
      <4>1. CASE j = k
        BY <2>2, <2>5, <4>1
      <4>2. CASE j # k
        BY <2>1, <2>2, <2>5, <4>2 DEF MapInv
      <4> QED
        BY <4>1, <4>2
    <3> QED
      BY <1>d, <3>1, <3>2 DEF MapInv
  <2>6. ASSUME op'[c].step = "idle" \/ (op'[c].step = "walk" /\ op'[c].key \in Leaves
                                         /\ op'[c].at = Bucket(op'[c].key))
        PROVE  PlaceInv'
    <3>0. \A d \in Callers : Bucket(op[d].key)' = Bucket(op'[d].key)
      BY <1>0 DEF Bucket
    <3>1. SUFFICES ASSUME NEW d \in Callers
                   PROVE  /\ op'[d].step # "idle" => op'[d].at = Bucket(op'[d].key)
                          /\ op'[d].step = "link" => link'[Bucket(op'[d].key)] = Null
      BY <3>0 DEF PlaceInv
    <3>2. CASE d = c
      BY <2>6, <3>2
    <3>3. CASE d # c /\ op[d].step # "idle"
      <4>1. op'[d] = op[d] /\ op[d].key \in Span \ {k}
        BY <2>3, <2>4, <3>3
      <4> QED
        BY <2>1, <2>2, <4>1 DEF PlaceInv
    <3>4. CASE d # c /\ op[d].step = "idle"
      BY <2>3, <3>4
    <3> QED
      BY <3>2, <3>3, <3>4
  <2>7. CASE c \in Threads
    <3>1. /\ phase = "threads" /\ phase' = "threads" /\ k = loop[c] /\ loop[c] < Stop(c)
          /\ op[c].digest = InnerDigest(k) /\ op'[c].step = "idle"
          /\ loop'[c] = loop[c] + 1 /\ \A u \in Threads \ {c} : loop'[u] = loop[u]
      BY <1>11, <1>a, <1>b, <1>c, <2>7 DEF Returned, Storing
    <3>2. k # job.start /\ k # job.end
      BY <2>7, <3>1, ThreadLeaf
    <3>3. \A j \in Span : Done(j)' <=> Done(j) \/ j = k
      <4>1. TAKE j \in Span
      <4>2. j \in Nat /\ k \in Nat /\ Start(c) \in Nat /\ Start(c) < k
        <5>1. j \in Leaves /\ k \in Leaves
          BY <1>c
        <5>2. Start(c) \in Leaves /\ Start(c) < k
          BY <1>b, <2>7, <3>1, HalfFacts DEF LoopInv
        <5> QED
          BY <5>1, <5>2 DEF Leaves
      <4>3. (Start(c) < j /\ j < loop'[c]) <=> (Start(c) < j /\ j < loop[c]) \/ j = k
        <5>1. loop[c] = k /\ loop'[c] = k + 1
          BY <3>1
        <5> QED
          BY <4>2, <5>1
      <4>4. (\E t \in Threads : Start(t) < j /\ j < loop'[t])
              <=> (\E t \in Threads : Start(t) < j /\ j < loop[t]) \/ j = k
        BY <2>7, <3>1, <4>3
      <4> QED
        BY <1>0, <1>d, <3>1, <4>4 DEF Done
    <3>4. \A j \in Span : DigestOf(j)' = DigestOf(j)
      BY <1>0, <3>1 DEF DigestOf, LeftDigest, RightDigest, InnerDigest, Digest
    <3>5. DigestOf(k) = op[c].digest
      BY <3>1, <3>2 DEF DigestOf
    <3>6. MapInv' /\ PlaceInv'
      BY <2>5, <2>6, <3>1, <3>3, <3>4, <3>5
    <3>7. GotInv'
      BY <1>11, <1>f, <3>1 DEF GotInv, Missing, Digest
    <3> QED
      BY <1>11, <1>f, <3>6, <3>7
  <2>8. CASE c = "main" /\ phase = "left"
    <3>1. /\ phase' = "threads" /\ k = job.start /\ loop' = loop
          /\ op[c].digest = LeftDigest /\ op'[c].step = "idle"
      BY <1>11, <1>a, <1>b, <1>c, <2>8 DEF Returned, Storing
    <3>2. \A j \in Span : Done(j)' <=> Done(j) \/ j = k
      BY <1>0, <1>d, <2>8, <3>1 DEF Done
    <3>3. \A j \in Span : DigestOf(j)' = DigestOf(j)
      BY <1>0, <2>8, <3>1 DEF DigestOf, LeftDigest, RightDigest, InnerDigest, Digest
    <3>4. DigestOf(k) = op[c].digest
      BY <2>8, <3>1 DEF DigestOf
    <3>5. MapInv' /\ PlaceInv'
      BY <2>5, <2>6, <3>1, <3>2, <3>3, <3>4
    <3>6. GotInv'
      BY <1>11, <1>f, <2>8, <3>1 DEF GotInv, Missing, Digest
    <3> QED
      BY <1>11, <1>f, <3>5, <3>6
  <2>9. CASE c = "main" /\ phase = "right"
    <3>1. /\ phase' = "inner" /\ k = job.end /\ loop' = loop /\ op[c].digest = RightDigest
          /\ op'[c] = Call("get", job.start, Missing)
      BY <1>11, <1>a, <1>b, <2>9 DEF Returned, Storing
    <3>2. op'[c].step = "walk" /\ op'[c].key = job.start /\ op'[c].at = Bucket(job.start)
      BY <3>1, CallIs
    <3>3. \A j \in Span : Done(j)' <=> Done(j) \/ j = k
      BY <1>0, <1>d, <2>9, <3>1 DEF Done
    <3>4. \A j \in Span \ {k} : DigestOf(j)' = DigestOf(j)
      BY <1>0, <2>9, <3>1 DEF DigestOf, LeftDigest, RightDigest, InnerDigest, Digest
    <3>5. DigestOf(k)' = op[c].digest
      BY <1>0, <3>1 DEF DigestOf, RightDigest, Digest
    <3>6. MapInv' /\ PlaceInv'
      BY <1>c, <2>1, <2>5, <2>6, <3>2, <3>3, <3>4, <3>5
    <3>7. \A j \in Leaves : got'[j] = IF j < job.start THEN Stored(j) ELSE Missing
      <4>1. TAKE j \in Leaves
      <4>2. got'[j] = Missing
        BY <1>11, <1>f, <2>9 DEF GotInv
      <4>3. j < job.start => j \notin Span
        BY <1>c DEF Span, Leaves
      <4> QED
        BY <1>b, <4>2, <4>3, OutsideStored
    <3>8. GotInv'
      BY <1>e, <2>9, <3>1, <3>2, <3>7 DEF GotInv, Missing, Digest
    <3> QED
      BY <1>11, <1>f, <3>6, <3>8
  <2> QED
    BY <1>11, <2>7, <2>8, <2>9 DEF Returned
<1>12. ASSUME NEW c \in Callers, Check(c)
       PROVE  ~collided' /\ GotInv' /\ PlaceInv' /\ MapInv'
  <2>1. op[c].step # "idle" /\ ~Broken /\ op[c].kind = "set"
        /\ UNCHANGED <<link, got, collided>>
    BY <1>12 DEF Check
  <2>2. CASE link[op[c].at] = Null
    <3>1. \A d \in Callers \ {c} : op'[d] = op[d]
      BY <1>12, <1>b, <2>2 DEF Check
    <3>2. op'[c].key = op[c].key /\ op'[c].at = op[c].at
      BY <1>12, <1>b, <2>2 DEF Check, Ops
    <3>3. UNCHANGED <<phase, loop, value>>
      BY <1>12, <2>2 DEF Check
    <3> QED
      BY <1>8, <2>1, <2>2, <3>1, <3>2, <3>3
  <2>3. CASE link[op[c].at] # Null
    <3>1. Returned(c) /\ value' = [value EXCEPT ![link[op[c].at]] = op[c].digest]
      BY <1>12, <2>3, ReturnFacts DEF Check
    <3>2. op[c].key \in Span /\ op[c].at = Bucket(op[c].key) /\ link[op[c].at] = op[c].key
      BY <1>9, <2>1, <2>3
    <3>3. link' = [link EXCEPT ![Bucket(op[c].key)] = op[c].key]
      BY <1>b, <1>c, <2>1, <3>2
    <3> QED
      BY <1>11, <2>1, <3>1, <3>2, <3>3
  <2> QED
    BY <2>2, <2>3
<1>13. ASSUME NEW c \in Callers, Link(c)
       PROVE  ~collided' /\ GotInv' /\ PlaceInv' /\ MapInv'
  <2>1. op[c].step # "idle" /\ ~Broken /\ op[c].kind = "set"
        /\ UNCHANGED <<got, collided>>
    BY <1>13, LinkStores DEF Link
  <2>2. Returned(c)
    BY <1>13, <2>1, ReturnFacts DEF Link
  <2>3. op[c].key \in Span /\ op[c].at = Bucket(op[c].key)
    BY <1>9, <2>1
  <2>4. /\ value' = [value EXCEPT ![op[c].key] = op[c].digest]
        /\ link' = [link EXCEPT ![Bucket(op[c].key)] = op[c].key]
    BY <1>13, <2>3 DEF Link
  <2> QED
    BY <1>11, <2>1, <2>2, <2>3, <2>4
<1> QED
  BY <1>3, <1>4, <1>5, <1>6, <1>7, <1>10, <1>12, <1>13 DEF Next, Main, Hash

-------------------------------------------------------------------------------
(* The theorems *)

LEMMA LeafStart == ASSUME Init PROVE LeafInv
<1>1. job \in Jobs
  BY DEF Init
<1>2. /\ Idle \in Ops /\ Idle.step = "idle"
      /\ \A t \in Threads : Start(t) \in Leaves /\ Stop(t) \in Leaves
  BY <1>1, IdleFacts, HalfFacts
<1>3. TypeOK
  <2>1. loop \in [Threads -> 1 .. MaxLeaf + 1]
    BY <1>2, LeafAssumption DEF Init, Leaves
  <2>2. link \in [Slots -> Leaves \cup {Null}] /\ op \in [Callers -> Ops]
    BY <1>2 DEF Init
  <2>3. value \in [Leaves -> Digests \cup {Missing}] /\ got \in [Leaves -> Digests \cup {Missing}]
    BY DEF Init
  <2> QED
    BY <1>1, <2>1, <2>2, <2>3 DEF TypeOK, Init
<1>4. \A c \in Callers : op[c] = Idle
  BY DEF Init
<1>5. \A t \in Threads : loop[t] = Start(t) + 1
  BY DEF Init
<1>6. LoopInv
  BY <1>2, <1>5 DEF LoopInv, Leaves
<1>7. ControlInv
  BY <1>4, <1>5 DEF Init, ControlInv, Callers
<1>8. LeftInv
  BY <1>4 DEF Init, LeftInv, Callers
<1>9. NarrowInv
  <2>1. PlaceInv
    BY <1>2, <1>4 DEF PlaceInv
  <2>2. \A k \in Span : ~Done(k) /\ Bucket(k) \in Slots
    <3>1. TAKE k \in Span
    <3>2. job.start \in Nat /\ job.end \in Nat /\ job.end <= MaxLeaf
      BY <1>1, JobFacts DEF Leaves
    <3>3. k \in Leaves /\ k \in Nat
      BY <3>2, LeafAssumption DEF Span, Leaves
    <3>4. ASSUME NEW t \in Threads
          PROVE  ~(Start(t) < k /\ k < loop[t])
      BY <1>2, <1>5, <3>3 DEF Leaves
    <3> QED
      BY <1>1, <3>3, <3>4, SlotFacts DEF Init, Done
  <2>3. MapInv
    BY <2>2 DEF Init, MapInv
  <2>4. GotInv
    BY DEF Init, GotInv
  <2> QED
    BY <2>1, <2>3, <2>4 DEF Init, NarrowInv
<1> QED
  BY <1>3, <1>6, <1>7, <1>8, <1>9 DEF LeafInv

LEMMA LeafInvariant == Spec => []LeafInv
<1>1. Init => LeafInv
  BY LeafStart
<1>2. LeafInv /\ [Next]_vars => LeafInv'
  BY TypeStep, ControlStep, LeftStep, NarrowStep DEF LeafInv
<1> QED
  BY <1>1, <1>2, PTL DEF Spec

(* The calls of hashmap_set and hashmap_get by the three threads stay      *)
(* within the map, in every race.                                          *)
THEOREM TypeCorrect == Spec => []TypeOK
BY LeafInvariant, PTL DEF LeafInv

(* With no more leaves than buckets the threads of reconstruct_root never  *)
(* meet in a bucket, and the level above finds what they stored.           *)
THEOREM NarrowRangesAreSafe == Spec => []NarrowRangeIsSafe
<1>1. LeafInv => NarrowRangeIsSafe
  BY DEF LeafInv, NarrowInv, GotInv, NarrowRangeIsSafe
<1> QED
  BY <1>1, LeafInvariant, PTL

(* The digest of the left boundary, stored before the threads start, is    *)
(* found by the level above whatever the threads do.                       *)
THEOREM LeftBoundarySurvives == Spec => []LeftSurvives
<1>1. LeafInv => LeftSurvives
  BY DEF LeafInv, LeftInv, LeftSurvives, Stored, LeftDigest
<1> QED
  BY <1>1, LeafInvariant, PTL

===============================================================================
