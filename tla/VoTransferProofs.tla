--------------------------- MODULE VoTransferProofs ---------------------------
(***************************************************************************)
(* Proofs about VoTransfer: for any connections, sizes of VOs and number   *)
(* of commands, a client that is not disturbed puts every VO together from *)
(* its own pieces.                                                         *)
(***************************************************************************)
EXTENDS VoTransfer, TLAPS

(* A reply is of a command that was sent, and its reader is within it. *)
ReplyInv ==
  \A c \in Conns :
    LET r == reply[c]
    IN  /\ r.kind = "none" => r = NoReply
        /\ r.kind # "none" => r.of \in Commands
        /\ r.kind = "select" => r.count \in 0 .. MaxPieces /\ r.next \in 1 .. r.count + 1

TransferInv == /\ TypeOK
               /\ ReplyInv
               /\ CounterFollowsTransfer
               /\ VerdictOnOwnVo
               /\ CalmClientLives

-------------------------------------------------------------------------------
(* A buffer is determined by its size and its pieces. *)
LEMMA BufferType ==
  ASSUME NEW n \in 0 .. MaxPieces, NEW b \in [1 .. n -> Pieces]
  PROVE  b \in Buffers
BY DEF Buffers

(* No buffer at all is a buffer of size zero. *)
LEMMA NoBufferType == NoBuffer \in Buffers
<1>1. NoBuffer \in [1 .. 0 -> Pieces]
  BY DEF NoBuffer
<1> QED
  BY <1>1, TransferAssumption DEF Buffers

(* Where and how a piece is stored is within the types, disturbed or not. *)
LEMMA StoreType ==
  ASSUME TypeOK, ReplyInv, NEW c \in Conns,
         reply[c].kind = "select", reply[c].next <= reply[c].count
  PROVE  /\ Remaining(c) \in 1 .. MaxPieces
         /\ Buffer(c) \in Buffers
         /\ reply[c].of \in Commands /\ reply[c].next \in 1 .. MaxPieces
         /\ [Buffer(c) EXCEPT ![PlaceOf(c)] = Piece(reply[c].of, reply[c].next)] \in Buffers
<1> DEFINE r == reply[c]
           p == Piece(r.of, r.next)
<1>1. r \in Replies /\ r.of \in Commands /\ r.count \in 1 .. MaxPieces
      /\ r.next \in 1 .. MaxPieces
  BY TransferAssumption DEF TypeOK, ReplyInv, Replies
<1>2. Remaining(c) \in 1 .. MaxPieces
  BY <1>1, TransferAssumption DEF TypeOK, Remaining, Begins
<1>3. PICK n \in 0 .. MaxPieces : Buffer(c) \in [1 .. n -> Pieces]
  <2>1. CASE Begins
    BY <1>1, <2>1, TransferAssumption DEF Buffer, Pieces
  <2>2. CASE ~Begins
    BY <2>2 DEF Buffer, TypeOK, Buffers
  <2> QED
    BY <2>1, <2>2
<1>4. p \in Pieces
  BY <1>1 DEF Piece, Pieces
<1>5. [Buffer(c) EXCEPT ![PlaceOf(c)] = p] \in [1 .. n -> Pieces]
  BY <1>3, <1>4
<1> QED
  BY <1>1, <1>2, <1>3, <1>5, BufferType

(* Undisturbed, a piece goes to its own place in the buffer of its VO. *)
LEMMA StoreInPlace ==
  ASSUME TransferInv, ~broken, ~disturbed, NEW c \in Conns,
         \A d \in Conns \ {c} : ~Begun(d),
         reply[c].kind = "select", reply[c].next <= reply[c].count
  PROVE  LET r == reply[c]
         IN  /\ Remaining(c) = r.count - r.next + 1
             /\ PlaceOf(c) = r.next
             /\ Buffer(c) = [i \in 1 .. r.count |->
                               IF i < r.next THEN Piece(r.of, i) ELSE Blank]
<1> DEFINE r == reply[c]
<1>1. r.count \in 1 .. MaxPieces /\ r.next \in 1 .. r.count
  BY TransferAssumption DEF TransferInv, TypeOK, ReplyInv, Replies
<1>2. CASE r.next = 1
  <2>1. ~Begun(c)
    BY <1>1, <1>2, TransferAssumption DEF Begun
  <2>2. mbt_count = 0
    BY <2>1 DEF TransferInv, CounterFollowsTransfer, Synced
  <2>3. Begins
    BY <2>2 DEF Begins
  <2>4. Remaining(c) = r.count /\ PlaceOf(c) = 1
    BY <1>1, <2>3, TransferAssumption DEF Remaining, PlaceOf
  <2>5. Buffer(c) = [i \in 1 .. r.count |-> Blank]
    BY <2>3 DEF Buffer
  <2>6. \A i \in 1 .. r.count : ~(i < r.next)
    BY <1>1, <1>2, TransferAssumption
  <2> QED
    BY <1>1, <1>2, <2>4, <2>5, <2>6, TransferAssumption
<1>3. CASE r.next # 1
  <2>1. Begun(c)
    BY <1>1, <1>3, TransferAssumption DEF Begun
  <2>2. /\ mbt_count = r.count - r.next + 1
        /\ vo_object = [i \in 1 .. r.count |-> IF i < r.next THEN Piece(r.of, i) ELSE Blank]
    BY <2>1 DEF TransferInv, CounterFollowsTransfer, Synced
  <2>3. ~Begins
    BY <1>1, <2>2, TransferAssumption DEF Begins
  <2>4. Remaining(c) = r.count - r.next + 1 /\ PlaceOf(c) = r.next
    BY <1>1, <2>2, <2>3, TransferAssumption DEF Remaining, PlaceOf
  <2> QED
    BY <2>2, <2>3, <2>4 DEF Buffer
<1> QED
  BY <1>2, <1>3

-------------------------------------------------------------------------------
(* Every step keeps the types and the replies in order. *)
LEMMA TypeStep ==
  ASSUME TypeOK, ReplyInv, [Next]_vars
  PROVE  TypeOK' /\ ReplyInv'
<1> USE TransferAssumption
<1> NoReply \in Replies /\ NoReply.kind = "none"
  BY DEF Replies, NoReply
<1>1. CASE UNCHANGED vars
  BY <1>1 DEF vars, client, TypeOK, ReplyInv
<1>2. ASSUME NEW c \in Conns, NEW kind \in {"select", "insert"}, NEW n \in 0 .. MaxPieces,
             NEW traced \in BOOLEAN, kind = "select" => n \in 0 .. MaxPieces,
             Send(c, kind, n, traced)
      PROVE  TypeOK' /\ ReplyInv'
  <2> DEFINE new == [kind |-> kind, of |-> commands + 1, count |-> n,
                     next |-> 1, traced |-> traced]
  <2>1. commands' = commands + 1 /\ commands + 1 \in Commands
    BY <1>2 DEF Send, TypeOK, Commands
  <2>2. new \in Replies /\ new.kind # "none" /\ new.of \in Commands
        /\ (new.kind = "select" => new.count \in 0 .. MaxPieces /\ new.next \in 1 .. new.count + 1)
    BY <1>2, <2>1 DEF Replies, Commands
  <2>3. reply' = [reply EXCEPT ![c] = new]
    BY <1>2 DEF Send
  <2>4. TypeOK'
    BY <1>2, <2>1, <2>2, <2>3 DEF Send, client, TypeOK, Commands
  <2>5. ReplyInv'
    BY <2>2, <2>3 DEF ReplyInv, TypeOK
  <2> QED
    BY <2>4, <2>5
<1>3. ASSUME NEW c \in Conns, CutShort(c)
      PROVE  TypeOK' /\ ReplyInv'
  <2>1. reply[c].of \in Commands
    BY <1>3 DEF CutShort, ReplyInv, TypeOK, Replies
  <2> QED
    BY <1>3, <2>1 DEF CutShort, client, TypeOK, ReplyInv
<1>4. ASSUME NEW c \in Conns, ReadPiece(c)
      PROVE  TypeOK' /\ ReplyInv'
  <2> DEFINE r == reply[c]
             filled == [Buffer(c) EXCEPT ![PlaceOf(c)] = Piece(r.of, r.next)]
  <2>1. reply[c].kind = "select" /\ reply[c].next <= reply[c].count
    BY <1>4 DEF ReadPiece
  <2>2. /\ Remaining(c) \in 1 .. MaxPieces
        /\ r.of \in Commands /\ r.next \in 1 .. MaxPieces
        /\ filled \in Buffers
    BY <2>1, StoreType
  <2>3. reply \in [Conns -> Replies] /\ r \in Replies /\ r.count \in 1 .. MaxPieces
    BY <2>1 DEF TypeOK, ReplyInv
  <2> DEFINE new == [r EXCEPT !.next = r.next + 1]
  <2>4. reply' = [reply EXCEPT ![c] = new]
    BY <1>4, <2>3 DEF ReadPiece
  <2>a. /\ new \in Replies /\ new.kind = "select" /\ new.of = r.of
        /\ new.count = r.count /\ new.next = r.next + 1
    BY <2>1, <2>2, <2>3 DEF Replies
  <2> HIDE DEF new
  <2>5. reply' \in [Conns -> Replies]
    BY <2>3, <2>4, <2>a
  <2>6. ReplyInv'
    <3> SUFFICES ASSUME NEW d \in Conns
                 PROVE  /\ reply'[d].kind = "none" => reply'[d] = NoReply
                        /\ reply'[d].kind # "none" => reply'[d].of \in Commands
                        /\ reply'[d].kind = "select" =>
                             /\ reply'[d].count \in 0 .. MaxPieces
                             /\ reply'[d].next \in 1 .. reply'[d].count + 1
      BY DEF ReplyInv
    <3>1. CASE d = c
      BY <2>1, <2>2, <2>3, <2>4, <2>a, <3>1
    <3>2. CASE d # c
      BY <2>3, <2>4, <3>2 DEF ReplyInv
    <3> QED
      BY <3>1, <3>2
  <2>7. mbt_count' \in 0 .. MaxPieces
    BY <1>4, <2>2 DEF ReadPiece, TypeOK
  <2>8. vo_object' \in Buffers
    BY <1>4, <2>2, NoBufferType DEF ReadPiece, TypeOK
  <2>9. verdict' \in [Commands -> Buffers]
    BY <1>4, <2>2 DEF ReadPiece, TypeOK
  <2>10. broken' \in BOOLEAN /\ disturbed' \in BOOLEAN
    BY <1>4 DEF ReadPiece, TypeOK
  <2> QED
    BY <1>4, <2>5, <2>6, <2>7, <2>8, <2>9, <2>10 DEF ReadPiece, TypeOK
<1>5. ASSUME NEW c \in Conns, ReadComplete(c)
      PROVE  TypeOK' /\ ReplyInv'
  BY <1>5 DEF ReadComplete, TakeRoot, TypeOK, ReplyInv
<1>6. ASSUME NEW c \in Conns, ReadInserted(c)
      PROVE  TypeOK' /\ ReplyInv'
  <2> DEFINE new == IF reply[c].next = 1 /\ reply[c].traced
                    THEN [reply[c] EXCEPT !.next = 2] ELSE NoReply
  <2>1. reply \in [Conns -> Replies] /\ reply[c] \in Replies /\ reply[c].kind = "insert"
    BY <1>6 DEF ReadInserted, TypeOK
  <2>2. reply' = [reply EXCEPT ![c] = new]
    BY <1>6 DEF ReadInserted
  <2>3. new \in Replies /\ (new = NoReply \/ (new.kind = "insert" /\ new.of = reply[c].of))
    BY <2>1 DEF Replies
  <2>4. reply' \in [Conns -> Replies]
    BY <2>1, <2>2, <2>3
  <2>5. ReplyInv'
    BY <2>1, <2>2, <2>3 DEF ReplyInv
  <2> QED
    BY <1>6, <2>4, <2>5 DEF ReadInserted, TakeRoot, TypeOK
<1>7. ASSUME NEW c \in Conns, Select(c) \/ Insert(c)
      PROVE  TypeOK' /\ ReplyInv'
  <2>1. CASE Select(c)
    <3>1. PICK n \in 0 .. MaxPieces : Send(c, "select", n, FALSE)
      BY <2>1 DEF Select
    <3>2. n \in 0 .. MaxPieces
      OBVIOUS
    <3> QED
      BY <1>2, <3>1, <3>2, Zenon
  <2>2. CASE Insert(c)
    <3>1. PICK traced \in BOOLEAN : Send(c, "insert", 0, traced)
      BY <2>2 DEF Insert
    <3> QED
      BY <1>2, <3>1
  <2> QED
    BY <1>7, <2>1, <2>2
<1> QED
  BY <1>1, <1>3, <1>4, <1>5, <1>6, <1>7 DEF Next, Read

-------------------------------------------------------------------------------
(* A step that leaves alone the counter, the buffer, and every connection  *)
(* in the middle of a VO, leaves the counter to that transfer.             *)
LEMMA CounterKept ==
  ASSUME CounterFollowsTransfer, UNCHANGED <<mbt_count, vo_object, broken>>,
         disturbed => disturbed',
         \A d \in Conns : Begun(d)' <=> Begun(d),
         \A d \in Conns : Begun(d) => reply'[d] = reply[d]
  PROVE  CounterFollowsTransfer'
<1> SUFFICES ASSUME ~disturbed', ~broken'
             PROVE  Synced'
  BY DEF CounterFollowsTransfer
<1>1. Synced
  BY DEF CounterFollowsTransfer
<1>2. \A c, d \in Conns : Begun(c)' /\ Begun(d)' => c = d
  BY <1>1 DEF Synced
<1>3. (\A c \in Conns : ~Begun(c)') => mbt_count' = 0 /\ vo_object' = NoBuffer
  BY <1>1 DEF Synced
<1>4. ASSUME NEW c \in Conns, Begun(c)'
      PROVE  LET r == reply'[c]
             IN  /\ mbt_count' = r.count - r.next + 1
                 /\ vo_object' = [i \in 1 .. r.count |->
                                    IF i < r.next THEN Piece(r.of, i) ELSE Blank]
  <2>1. Begun(c) /\ reply'[c] = reply[c]
    BY <1>4
  <2> QED
    BY <1>1, <2>1 DEF Synced
<1> QED
  BY <1>2, <1>3, <1>4 DEF Synced

(* Reading a piece keeps the counter to its transfer, and the VO that is   *)
(* complete is the VO of the command.                                      *)
LEMMA PieceStep ==
  ASSUME TransferInv, NEW c \in Conns, ReadPiece(c)
  PROVE  CounterFollowsTransfer' /\ VerdictOnOwnVo' /\ CalmClientLives'
<1> USE TransferAssumption
<1> DEFINE r == reply[c]
           filled == [Buffer(c) EXCEPT ![PlaceOf(c)] = Piece(r.of, r.next)]
<1>1. CASE disturbed'
  BY <1>1 DEF CounterFollowsTransfer, VerdictOnOwnVo, CalmClientLives
<1>2. CASE ~disturbed'
  <2>1. ~broken /\ ~disturbed /\ r.kind = "select" /\ r.next <= r.count
        /\ \A d \in Conns \ {c} : ~Begun(d)
    BY <1>2 DEF ReadPiece
  <2>2. /\ Remaining(c) = r.count - r.next + 1
        /\ PlaceOf(c) = r.next
        /\ Buffer(c) = [i \in 1 .. r.count |-> IF i < r.next THEN Piece(r.of, i) ELSE Blank]
    BY <2>1, StoreInPlace
  <2>3. /\ reply \in [Conns -> Replies] /\ r \in Replies
        /\ r.count \in 1 .. MaxPieces /\ r.next \in 1 .. r.count /\ r.of \in Commands
    BY <2>1 DEF TransferInv, TypeOK, ReplyInv, Replies
  <2>4. PlaceOf(c) \in DOMAIN Buffer(c)
    BY <2>2, <2>3
  <2>5. filled = [i \in 1 .. r.count |-> IF i < r.next + 1 THEN Piece(r.of, i) ELSE Blank]
    <3> DEFINE full == [i \in 1 .. r.count |-> IF i < r.next + 1 THEN Piece(r.of, i) ELSE Blank]
    <3>1. filled = [Buffer(c) EXCEPT ![r.next] = Piece(r.of, r.next)]
      BY <2>2
    <3>2. filled = [i \in 1 .. r.count |-> filled[i]]
      BY <2>2, <3>1
    <3>3. ASSUME NEW i \in 1 .. r.count
          PROVE  filled[i] = full[i]
      <4>1. CASE i = r.next
        BY <2>2, <2>3, <3>1, <4>1
      <4>2. CASE i # r.next
        <5>1. filled[i] = Buffer(c)[i] /\ (i < r.next <=> i < r.next + 1)
          BY <2>2, <2>3, <3>1, <4>2
        <5> QED
          BY <2>2, <5>1
      <4> QED
        BY <4>1, <4>2
    <3> QED
      BY <3>2, <3>3
  <2>6. /\ mbt_count' = Remaining(c) - 1
        /\ broken' = (Complete(c) /\ mbroot = "null")
        /\ vo_object' = IF Complete(c) THEN NoBuffer ELSE filled
        /\ verdict' = IF Complete(c) THEN [verdict EXCEPT ![r.of] = filled] ELSE verdict
        /\ mbroot' = mbroot
    BY <2>4 DEF ReadPiece
  <2>7. Complete(c) <=> r.next = r.count
    BY <2>2, <2>3 DEF Complete
  <2>8. /\ \A d \in Conns \ {c} : reply'[d] = reply[d]
        /\ reply'[c].kind = "select" /\ reply'[c].of = r.of
        /\ reply'[c].count = r.count /\ reply'[c].next = r.next + 1
    BY <2>1, <2>3 DEF ReadPiece, Replies
  <2>9. \A d \in Conns \ {c} : ~Begun(d)'
    BY <2>1, <2>8 DEF Begun
  <2>10. Begun(c)' <=> r.next # r.count
    BY <2>3, <2>8 DEF Begun
  <2>11. CalmClientLives'
    BY <2>6 DEF CalmClientLives
  <2>12. VerdictOnOwnVo'
    <3>1. ASSUME NEW q \in Commands
          PROVE  \/ verdict'[q] = NoBuffer
                 \/ \E n \in 1 .. MaxPieces : verdict'[q] = WholeVo(q, n)
      <4>1. verdict[q] = NoBuffer \/ \E n \in 1 .. MaxPieces : verdict[q] = WholeVo(q, n)
        BY <2>1 DEF TransferInv, VerdictOnOwnVo
      <4>2. CASE Complete(c) /\ q = r.of
        <5>1. verdict'[q] = filled
          BY <2>3, <2>6, <4>2 DEF TransferInv, TypeOK
        <5>2. filled = WholeVo(q, r.count)
          BY <2>3, <2>5, <2>7, <4>2 DEF WholeVo
        <5> QED
          BY <2>3, <5>1, <5>2
      <4>3. CASE ~(Complete(c) /\ q = r.of)
        <5>1. verdict'[q] = verdict[q]
          BY <2>6, <4>3 DEF TransferInv, TypeOK
        <5> QED
          BY <4>1, <5>1
      <4> QED
        BY <4>2, <4>3
    <3> QED
      BY <3>1 DEF VerdictOnOwnVo, WholeVo, Piece, NoBuffer
  <2>13. CounterFollowsTransfer'
    <3>1. CASE r.next = r.count
      <4>1. mbt_count' = 0 /\ vo_object' = NoBuffer /\ \A d \in Conns : ~Begun(d)'
        BY <2>2, <2>3, <2>6, <2>7, <2>9, <2>10, <3>1
      <4> QED
        BY <4>1 DEF CounterFollowsTransfer, Synced
    <3>2. CASE r.next # r.count
      <4>1. mbt_count' = r.count - (r.next + 1) + 1 /\ vo_object' = filled
        BY <2>2, <2>3, <2>6, <2>7, <3>2
      <4>2. Begun(c)' /\ \A d \in Conns : Begun(d)' => d = c
        BY <2>9, <2>10, <3>2
      <4>3. /\ mbt_count' = reply'[c].count - reply'[c].next + 1
            /\ vo_object' = [i \in 1 .. reply'[c].count |->
                               IF i < reply'[c].next THEN Piece(reply'[c].of, i) ELSE Blank]
        BY <2>5, <2>8, <4>1
      <4> QED
        BY <4>2, <4>3 DEF CounterFollowsTransfer, Synced
    <3> QED
      BY <3>1, <3>2
  <2> QED
    BY <2>11, <2>12, <2>13
<1> QED
  BY <1>1, <1>2

-------------------------------------------------------------------------------
(* A connection that has no reply, has not begun one or has read all of    *)
(* its VO is not in the middle of a VO.                                    *)
LEMMA NotBegun ==
  ASSUME NEW r \in Replies,
         r.kind # "select" \/ r.next = 1 \/ r.next = r.count + 1
  PROVE  ~(r.kind = "select" /\ 1 < r.next /\ r.next <= r.count)
BY TransferAssumption DEF Replies

(* The invariant holds at the start. *)
LEMMA TransferStart == ASSUME Init PROVE TransferInv
<1> USE TransferAssumption
<1>1. NoReply \in Replies /\ NoReply.kind = "none"
  BY DEF NoReply, Replies
<1>2. TypeOK
  <2>1. reply \in [Conns -> Replies]
    BY <1>1 DEF Init
  <2>2. vo_object \in Buffers /\ verdict \in [Commands -> Buffers]
    BY NoBufferType DEF Init
  <2>3. mbt_count \in 0 .. MaxPieces /\ commands \in 0 .. MaxCommands
    BY DEF Init
  <2>4. mbroot \in {"null", "uninit", "sent"} /\ lost \subseteq Commands
    BY DEF Init
  <2> QED
    BY <2>1, <2>2, <2>3, <2>4 DEF Init, TypeOK
<1>3. ReplyInv
  BY <1>1 DEF Init, ReplyInv
<1>4. \A c \in Conns : ~Begun(c)
  BY <1>1 DEF Init, Begun
<1>5. CounterFollowsTransfer
  BY <1>4 DEF Init, CounterFollowsTransfer, Synced
<1>6. VerdictOnOwnVo /\ CalmClientLives
  BY DEF Init, VerdictOnOwnVo, CalmClientLives
<1> QED
  BY <1>2, <1>3, <1>5, <1>6 DEF TransferInv

(* A step that replaces the reply of one connection, outside the middle of *)
(* a VO before and after, or gives up a VO in its middle.                  *)
LEMMA ReplyStep ==
  ASSUME TransferInv, NEW c \in Conns, NEW new \in Replies, ~broken,
         new.kind # "select" \/ new.next = 1,
         reply' = [reply EXCEPT ![c] = new],
         disturbed' = (disturbed \/ Begun(c)),
         UNCHANGED <<mbt_count, vo_object, verdict, broken>>
  PROVE  CounterFollowsTransfer' /\ VerdictOnOwnVo' /\ CalmClientLives'
<1>1. reply \in [Conns -> Replies]
  BY DEF TransferInv, TypeOK
<1>2. reply'[c] = new /\ \A d \in Conns \ {c} : reply'[d] = reply[d]
  BY <1>1
<1>3. ~Begun(c)'
  BY <1>2, NotBegun DEF Begun
<1>4. CounterFollowsTransfer'
  <2>1. CASE Begun(c)
    BY <2>1 DEF CounterFollowsTransfer
  <2>2. CASE ~Begun(c)
    <3>1. \A d \in Conns : Begun(d)' <=> Begun(d)
      BY <1>2, <1>3, <2>2 DEF Begun
    <3>2. \A d \in Conns : Begun(d) => reply'[d] = reply[d]
      BY <1>2, <2>2
    <3> QED
      BY <3>1, <3>2, CounterKept DEF TransferInv
  <2> QED
    BY <2>1, <2>2
<1>5. VerdictOnOwnVo'
  <2>1. disturbed' \/ (~disturbed /\ verdict' = verdict)
    OBVIOUS
  <2> QED
    BY <2>1 DEF TransferInv, VerdictOnOwnVo, WholeVo, Piece, NoBuffer
<1>6. CalmClientLives'
  BY DEF CalmClientLives
<1> QED
  BY <1>4, <1>5, <1>6

(* Every step keeps the invariant. *)
LEMMA TransferStep == ASSUME TransferInv, [Next]_vars PROVE TransferInv'
<1> USE TransferAssumption
<1>1. TypeOK' /\ ReplyInv'
  BY TypeStep DEF TransferInv
<1>2. reply \in [Conns -> Replies] /\ reply' \in [Conns -> Replies]
  BY <1>1 DEF TransferInv, TypeOK
<1>3. NoReply \in Replies /\ NoReply.kind = "none"
  BY DEF NoReply, Replies
<1> DEFINE Kept == CounterFollowsTransfer' /\ VerdictOnOwnVo' /\ CalmClientLives'
<1>4. CASE UNCHANGED vars
  <2>1. /\ CounterFollowsTransfer'
    <3>1. \A d \in Conns : Begun(d)' <=> Begun(d)
      BY <1>4 DEF vars, Begun
    <3>2. UNCHANGED <<mbt_count, vo_object, broken, disturbed, reply>>
      BY <1>4 DEF vars, client
    <3> QED
      BY <3>1, <3>2, CounterKept DEF TransferInv
  <2>2. VerdictOnOwnVo' /\ CalmClientLives'
    BY <1>4 DEF vars, client, TransferInv, VerdictOnOwnVo, CalmClientLives,
                WholeVo, Piece, NoBuffer
  <2> QED
    BY <1>1, <2>1, <2>2 DEF TransferInv
<1>5. ASSUME NEW c \in Conns, Select(c) \/ Insert(c)
      PROVE  Kept
  <2>1. PICK kind \in {"select", "insert"}, n \in 0 .. MaxPieces, traced \in BOOLEAN :
          Send(c, kind, n, traced)
    <3>1. CASE Select(c)
      <4>1. PICK n \in 0 .. MaxPieces : Send(c, "select", n, FALSE)
        BY <3>1 DEF Select
      <4>2. n \in 0 .. MaxPieces
        OBVIOUS
      <4> QED
        BY <4>1, <4>2, Zenon
    <3>2. CASE Insert(c)
      BY <3>2 DEF Insert
    <3> QED
      BY <1>5, <3>1, <3>2
  <2> DEFINE new == [kind |-> kind, of |-> commands + 1, count |-> n,
                     next |-> 1, traced |-> traced]
  <2>2. new \in Replies /\ new.next = 1
    BY <2>1 DEF Send, Replies, TransferInv, TypeOK
  <2>3. reply' = [reply EXCEPT ![c] = new] /\ ~broken
        /\ UNCHANGED <<mbt_count, vo_object, verdict, broken, disturbed>>
    BY <2>1 DEF Send, client
  <2>4. disturbed' = (disturbed \/ Begun(c))
    BY <1>3, <2>1, <2>3 DEF Send, Begun, TransferInv, TypeOK
  <2> QED
    BY <2>2, <2>3, <2>4, ReplyStep
<1>6. ASSUME NEW c \in Conns, CutShort(c)
      PROVE  Kept
  BY <1>3, <1>6, ReplyStep DEF CutShort, client
<1>7. ASSUME NEW c \in Conns, ReadComplete(c)
      PROVE  Kept
  <2>1. disturbed' = (disturbed \/ Begun(c))
    BY <1>2, <1>7 DEF ReadComplete, Begun, TransferInv, TypeOK, Replies
  <2> QED
    BY <1>3, <1>7, <2>1, ReplyStep DEF ReadComplete
<1>8. ASSUME NEW c \in Conns, ReadInserted(c)
      PROVE  Kept
  <2> DEFINE new == IF reply[c].next = 1 /\ reply[c].traced
                    THEN [reply[c] EXCEPT !.next = 2] ELSE NoReply
  <2>1. reply[c] \in Replies /\ reply[c].kind = "insert"
    BY <1>2, <1>8 DEF ReadInserted
  <2>2. new \in Replies /\ new.kind # "select"
    BY <1>3, <2>1 DEF Replies
  <2>3. disturbed' = (disturbed \/ Begun(c))
    BY <1>8, <2>1 DEF ReadInserted, Begun, TransferInv, TypeOK
  <2>4. reply' = [reply EXCEPT ![c] = new] /\ ~broken
        /\ UNCHANGED <<mbt_count, vo_object, verdict, broken>>
    BY <1>8 DEF ReadInserted
  <2> QED
    BY <2>2, <2>3, <2>4, ReplyStep
<1>9. ASSUME NEW c \in Conns, ReadPiece(c)
      PROVE  Kept
  BY <1>9, PieceStep
<1> QED
  BY <1>1, <1>4, <1>5, <1>6, <1>7, <1>8, <1>9 DEF Next, Read, TransferInv

-------------------------------------------------------------------------------
(* The theorems *)

LEMMA TransferInvariant == Spec => []TransferInv
<1>1. Init => TransferInv
  BY TransferStart
<1>2. TransferInv /\ [Next]_vars => TransferInv'
  BY TransferStep
<1> QED
  BY <1>1, <1>2, PTL DEF Spec

(* The counter and the buffer of pqParseInput3 keep their types, cut and   *)
(* interleaved transfers included.                                         *)
THEOREM TypeCorrect == Spec => []TypeOK
BY TransferInvariant, PTL DEF TransferInv

(* mbt_count and vo_object belong to the transfer under way, however many  *)
(* connections the process has, until a VO is cut short or interleaved.    *)
THEOREM OneTransferAtATime == Spec => []CounterFollowsTransfer
BY TransferInvariant, PTL DEF TransferInv

(* Until then every root that pqParseInput3 rebuilds is rebuilt from all   *)
(* the pieces of its own command.                                          *)
THEOREM VerdictsAreOwn == Spec => []VerdictOnOwnVo
BY TransferInvariant, PTL DEF TransferInv

(* Until then nothing is written outside the buffer, and the client fails  *)
(* only for want of a root to compare with.                                *)
THEOREM CalmClientsLive == Spec => []CalmClientLives
BY TransferInvariant, PTL DEF TransferInv

===============================================================================
