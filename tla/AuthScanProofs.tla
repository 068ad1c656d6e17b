---------------------------- MODULE AuthScanProofs ----------------------------
(***************************************************************************)
(* Proofs about AuthScan: for any number of portals and queries, scans     *)
(* that follow each other, each run to its end, keep out of each other's   *)
(* way in the static variables of nodeIndexscan.c.                         *)
(***************************************************************************)
EXTENDS AuthScan, TLAPS

(* Two scans under way at once have disturbed each other. *)
Lone == ~disturbed => \A p, q \in Portals : Begun(p) /\ Begun(q) => p = q

(* A closed portal has returned nothing, and an open one has a query. *)
ClosedIsEmpty ==
  \A p \in Portals : IF stage[p] = "closed" THEN rows[p] = <<>> /\ whole[p]
                                            ELSE asked[p] \in Queries

(* A plan never stopped at a row count has its slot from the first row on. *)
WholeKeepsSlot ==
  \A p \in Portals : Begun(p) /\ whole[p] => slotSet[p]

(* A VO is held exactly while the flag is down. *)
VoWhileFlagDown == flag <=> myvo = None

ScanInv == /\ TypeOK
           /\ ClosedIsEmpty
           /\ VoWhileFlagDown
           /\ WholeKeepsSlot
           /\ Lone
           /\ StaticsBelongToTheScan
           /\ SerialScansReturnTheirRows
           /\ SerialScansSendTheirVo

-------------------------------------------------------------------------------
(* No rows are the beginning of any answer. *)
LEMMA AnswerEmpty == ASSUME NEW q PROVE Answer(q, 0) = <<>>
BY DEF Answer

(* One more row of a query continues its answer. *)
LEMMA AnswerAppend ==
  ASSUME NEW q \in Queries \cup {None}, NEW n \in Nat
  PROVE  /\ Append(Answer(q, n), <<q, n>>) = Answer(q, n + 1)
         /\ Len(Answer(q, n + 1)) = n + 1
         /\ Answer(q, n + 1) # <<>>
<1> DEFINE a == Answer(q, n)
           b == Answer(q, n + 1)
<1>1. a \in Seq((Queries \cup {None}) \X Nat) /\ Len(a) = n
  BY DEF Answer
<1>2. b \in Seq((Queries \cup {None}) \X Nat) /\ Len(b) = n + 1
  BY DEF Answer
<1>3. Len(Append(a, <<q, n>>)) = n + 1
  BY <1>1
<1>4. \A i \in 1 .. n + 1 : Append(a, <<q, n>>)[i] = b[i]
  BY <1>1 DEF Answer
<1>5. Append(a, <<q, n>>) \in Seq((Queries \cup {None}) \X Nat)
  BY <1>1
<1>6. Append(a, <<q, n>>) = b
  BY <1>2, <1>3, <1>4, <1>5
<1> QED
  BY <1>2, <1>6

-------------------------------------------------------------------------------
(* No scan is under way when the backend starts.                           *)
LEMMA ScanInit == Init => ScanInv
<1> SUFFICES ASSUME Init PROVE ScanInv
  OBVIOUS
<1>1. TypeOK
  <2>1. <<>> \in Seq((Queries \cup {None}) \X Nat)
    OBVIOUS
  <2>2. rows \in [Portals -> Seq((Queries \cup {None}) \X Nat)]
    BY <2>1, Zenon DEF Init
  <2>3. opens \in 0 .. MaxOpens /\ vector_index \in Nat
    BY ScanAssumption DEF Init
  <2>4. asked \in [Portals -> Queries \cup {None}] /\ myvo \in Queries \cup {None}
    BY DEF Init
  <2>5. /\ stage \in [Portals -> {"closed", "open", "done"}]
        /\ vo \in [Portals -> Queries \cup {"none", "garbage"}]
    BY DEF Init
  <2>6. /\ slotFlag \in [Portals -> BOOLEAN]
        /\ slotSet \in [Portals -> BOOLEAN]
        /\ whole \in [Portals -> BOOLEAN]
    BY DEF Init
  <2>7. flag \in BOOLEAN /\ disturbed \in BOOLEAN /\ myvo = None
    BY DEF Init
  <2> QED
    BY <2>2, <2>3, <2>4, <2>5, <2>6, <2>7 DEF TypeOK
<1>2. \A p \in Portals : ~Begun(p) /\ stage[p] = "closed" /\ rows[p] = <<>> /\ whole[p]
  BY DEF Init, Begun
<1>3. ClosedIsEmpty /\ VoWhileFlagDown /\ WholeKeepsSlot /\ Lone
  BY <1>2 DEF ClosedIsEmpty, VoWhileFlagDown, WholeKeepsSlot, Lone, Init
<1>4. StaticsBelongToTheScan
  BY <1>2 DEF StaticsBelongToTheScan, Init
<1>5. SerialScansReturnTheirRows /\ SerialScansSendTheirVo
  BY <1>2 DEF SerialScansReturnTheirRows, ScansReturnTheirRows, SerialScansSendTheirVo
<1> QED
  BY <1>1, <1>3, <1>4, <1>5 DEF ScanInv

(* Every action keeps the types, and the position inside the VO held. *)
LEMMA TypeNext == TypeOK /\ ClosedIsEmpty /\ VoWhileFlagDown /\ [Next]_vars => TypeOK'
<1> SUFFICES ASSUME TypeOK, ClosedIsEmpty, VoWhileFlagDown, [Next]_vars PROVE TypeOK'
  OBVIOUS
<1> USE ScanAssumption DEF TypeOK
<1>1. CASE UNCHANGED vars
  BY <1>1 DEF vars, statics
<1>2. ASSUME NEW p \in Portals, NEW r \in Queries, Open(p, r) PROVE TypeOK'
  BY <1>2 DEF Open, statics
<1>3. ASSUME NEW p \in Portals, NextRow(p) PROVE TypeOK'
  <2>1. asked[p] \in Queries
    BY <1>3 DEF NextRow, ClosedIsEmpty
  <2>2. Held(p) \in Queries \cup {None} /\ Index \in Nat
    BY <2>1 DEF Held, Index
  <2>3. <<Held(p), Index>> \in (Queries \cup {None}) \X Nat
    BY <2>2
  <2>4. rows' \in [Portals -> Seq((Queries \cup {None}) \X Nat)]
    BY <1>3, <2>3 DEF NextRow
  <2>5. /\ myvo' \in Queries \cup {None}
        /\ vector_index' \in Nat
        /\ myvo' # None => vector_index' <= Size(myvo')
    BY <1>3, <2>2 DEF NextRow
  <2> QED
    BY <1>3, <2>4, <2>5 DEF NextRow
<1>4. ASSUME NEW p \in Portals, LastRow(p) PROVE TypeOK'
  <2>1. asked[p] \in Queries
    BY <1>4 DEF LastRow, ClosedIsEmpty
  <2>2. Index \in Nat
    BY DEF Index
  <2>4. Held(p) \in Queries
    BY <2>1 DEF Held, VoWhileFlagDown
  <2>5. slotFlag' \in [Portals -> BOOLEAN]
    BY <1>4 DEF LastRow
  <2>6. Sent(p, Held(p), slotFlag'[p]) \in Queries \cup {"none", "garbage"}
    BY <2>4 DEF Sent
  <2>7. vo' \in [Portals -> Queries \cup {"none", "garbage"}]
    BY <1>4, <2>6 DEF LastRow
  <2> QED
    BY <1>4, <2>2, <2>5, <2>7 DEF LastRow
<1>5. ASSUME NEW p \in Portals, EnoughRows(p) PROVE TypeOK'
  BY <1>5 DEF EnoughRows, statics
<1>6. ASSUME NEW p \in Portals, Close(p) PROVE TypeOK'
  BY <1>6 DEF Close, statics
<1>7. ASSUME NEW p \in Portals, Die(p) PROVE TypeOK'
  <2>1. <<>> \in Seq((Queries \cup {None}) \X Nat)
    OBVIOUS
  <2>2. rows' \in [Portals -> Seq((Queries \cup {None}) \X Nat)]
    BY <1>7, <2>1, Zenon DEF Die
  <2> QED
    BY <1>7, <2>2 DEF Die
<1> QED
  BY <1>1, <1>2, <1>3, <1>4, <1>5, <1>6, <1>7 DEF Next

(* A call of a scan that nothing has disturbed works with its own VO, at   *)
(* the item that follows the rows it has returned.                         *)
LEMMA ScanFindsItsOwn ==
  ASSUME ScanInv, NEW p \in Portals, stage[p] = "open", ~disturbed, ~Disturbs(p)
  PROVE  Held(p) = asked[p] /\ Index = Len(rows[p])
<1> USE DEF ScanInv
<1>1. \A q \in Portals : Begun(q) => q = p
  BY DEF Disturbs
<1>2. CASE flag
  <2>1. rows[p] = <<>>
    BY <1>2 DEF StaticsBelongToTheScan, Begun
  <2> QED
    BY <1>2, <2>1 DEF Held, Index
<1>3. CASE ~flag
  <2>1. Begun(p)
    BY <1>1, <1>3 DEF StaticsBelongToTheScan
  <2> QED
    BY <1>3, <2>1 DEF StaticsBelongToTheScan, Held, Index
<1> QED
  BY <1>2, <1>3

(* The parts of the invariant about single portals. *)
LEMMA PortalNext ==
  ScanInv /\ [Next]_vars => ClosedIsEmpty' /\ VoWhileFlagDown' /\ WholeKeepsSlot'
<1> SUFFICES ASSUME ScanInv, [Next]_vars
             PROVE  ClosedIsEmpty' /\ VoWhileFlagDown' /\ WholeKeepsSlot'
  OBVIOUS
<1> USE ScanAssumption DEF ScanInv, TypeOK, ClosedIsEmpty, VoWhileFlagDown, WholeKeepsSlot, Begun
<1> DEFINE Goal == ClosedIsEmpty' /\ VoWhileFlagDown' /\ WholeKeepsSlot'
<1>1. CASE UNCHANGED vars
  BY <1>1 DEF vars, statics
<1>2. ASSUME NEW p \in Portals, NEW r \in Queries, Open(p, r) PROVE Goal
  BY <1>2 DEF Open, statics
<1>3. ASSUME NEW p \in Portals, NextRow(p) PROVE Goal
  <2>1. asked[p] \in Queries /\ Held(p) # None
    BY <1>3 DEF NextRow, Held
  <2>2. ClosedIsEmpty' /\ VoWhileFlagDown'
    BY <1>3, <2>1 DEF NextRow
  <2>3. WholeKeepsSlot'
    BY <1>3 DEF NextRow
  <2> QED
    BY <2>2, <2>3
<1>4. ASSUME NEW p \in Portals, LastRow(p) PROVE Goal
  BY <1>4 DEF LastRow
<1>5. ASSUME NEW p \in Portals, EnoughRows(p) PROVE Goal
  BY <1>5 DEF EnoughRows, statics
<1>6. ASSUME NEW p \in Portals, Close(p) PROVE Goal
  BY <1>6 DEF Close, statics
<1>7. ASSUME NEW p \in Portals, Die(p) PROVE Goal
  BY <1>7 DEF Die
<1> QED
  BY <1>1, <1>2, <1>3, <1>4, <1>5, <1>6, <1>7 DEF Next

(* What undisturbed scans promise, kept by every action. *)
Serial == Lone /\ StaticsBelongToTheScan /\ SerialScansReturnTheirRows /\ SerialScansSendTheirVo

(* Opening a plan asks for nothing yet and leaves the variables alone.     *)
LEMMA OpenSerial ==
  ASSUME ScanInv, NEW p \in Portals, NEW r \in Queries, Open(p, r) PROVE Serial'
<1> USE DEF ScanInv, TypeOK, Open, statics
<1>1. rows[p] = <<>>
  BY DEF ClosedIsEmpty
<1>2. \A q \in Portals : Begun(q)' <=> Begun(q)
  BY <1>1 DEF Begun
<1>3. \A q \in Portals : Begun(q) => asked'[q] = asked[q]
  BY DEF Begun
<1>4. Lone' /\ StaticsBelongToTheScan'
  BY <1>2, <1>3 DEF Lone, StaticsBelongToTheScan
<1>5. SerialScansReturnTheirRows'
  <2> SUFFICES ASSUME ~disturbed', NEW q \in Portals, stage'[q] # "closed"
               PROVE  /\ rows'[q] = Answer(asked'[q], Len(rows'[q]))
                      /\ stage'[q] = "done" => Len(rows'[q]) = Size(asked'[q])
    BY DEF SerialScansReturnTheirRows, ScansReturnTheirRows, Answer
  <2>1. CASE q = p
    BY <1>1, <2>1, AnswerEmpty
  <2>2. CASE q # p
    BY <2>2 DEF SerialScansReturnTheirRows, ScansReturnTheirRows
  <2> QED
    BY <2>1, <2>2
<1>6. SerialScansSendTheirVo'
  BY DEF SerialScansSendTheirVo
<1> QED
  BY <1>4, <1>5, <1>6 DEF Serial

(* A row returned by a scan that is alone leaves it alone, with the        *)
(* variables its own and its rows a prefix of what it asked for.           *)
LEMMA NextRowSerial ==
  ASSUME ScanInv, NEW p \in Portals, NextRow(p) PROVE Serial'
<1> USE DEF ScanInv, TypeOK, NextRow
<1>1. CASE disturbed'
  BY <1>1 DEF Serial, Lone, StaticsBelongToTheScan, SerialScansReturnTheirRows,
              SerialScansSendTheirVo
<1>2. CASE ~disturbed'
  <2>1. ~disturbed /\ ~Disturbs(p)
    BY <1>2
  <2>2. Held(p) = asked[p] /\ Index = Len(rows[p]) /\ asked[p] \in Queries
    BY <2>1, ScanFindsItsOwn DEF ClosedIsEmpty
  <2>3. rows[p] = Answer(asked[p], Len(rows[p])) /\ Len(rows[p]) \in Nat
    BY <2>1 DEF SerialScansReturnTheirRows, ScansReturnTheirRows
  <2>4. /\ rows'[p] = Answer(asked[p], Len(rows[p]) + 1)
        /\ Len(rows'[p]) = Len(rows[p]) + 1
        /\ rows'[p] # <<>>
    <3>1. rows'[p] = Append(rows[p], <<asked[p], Len(rows[p])>>)
      BY <2>2
    <3>2. PICK n \in Nat : n = Len(rows[p])
      BY <2>3
    <3>3. PICK r \in Queries : r = asked[p]
      BY <2>2
    <3> HIDE DEF ScanInv, TypeOK, NextRow
    <3>4. rows'[p] = Append(Answer(r, n), <<r, n>>)
      BY <2>3, <3>1, <3>2, <3>3
    <3>5. /\ Append(Answer(r, n), <<r, n>>) = Answer(r, n + 1)
          /\ Len(Answer(r, n + 1)) = n + 1
          /\ Answer(r, n + 1) # <<>>
      BY AnswerAppend
    <3> QED
      BY <3>2, <3>3, <3>4, <3>5
  <2>5. \A q \in Portals : Begun(q)' <=> q = p
    BY <2>1, <2>4 DEF Begun, Disturbs
  <2>6. Lone'
    BY <2>5 DEF Lone
  <2>7. StaticsBelongToTheScan'
    BY <2>2, <2>4, <2>5 DEF StaticsBelongToTheScan
  <2>8. SerialScansReturnTheirRows'
    <3> SUFFICES ASSUME NEW q \in Portals, stage'[q] # "closed"
                 PROVE  /\ rows'[q] = Answer(asked'[q], Len(rows'[q]))
                        /\ stage'[q] = "done" => Len(rows'[q]) = Size(asked'[q])
      BY DEF SerialScansReturnTheirRows, ScansReturnTheirRows, Answer
    <3>1. CASE q = p
      BY <2>4, <3>1
    <3>2. CASE q # p
      BY <2>1, <3>2 DEF SerialScansReturnTheirRows, ScansReturnTheirRows
    <3> QED
      BY <3>1, <3>2
  <2>9. SerialScansSendTheirVo'
    BY <2>1 DEF SerialScansSendTheirVo
  <2> QED
    BY <2>6, <2>7, <2>8, <2>9 DEF Serial
<1> QED
  BY <1>1, <1>2

(* The end of a scan leaves the variables as the next scan expects them,   *)
(* and its portal with all its rows and its VO.                            *)
LEMMA LastRowSerial ==
  ASSUME ScanInv, NEW p \in Portals, LastRow(p) PROVE Serial'
<1> USE DEF ScanInv, TypeOK, LastRow
<1>1. CASE disturbed'
  BY <1>1 DEF Serial, Lone, StaticsBelongToTheScan, SerialScansReturnTheirRows,
              SerialScansSendTheirVo
<1>2. CASE ~disturbed'
  <2>1. ~disturbed /\ ~Disturbs(p)
    BY <1>2
  <2>2. Held(p) = asked[p] /\ Index = Len(rows[p]) /\ asked[p] \in Queries
    BY <2>1, ScanFindsItsOwn DEF ClosedIsEmpty
  <2>3. Len(rows[p]) = Size(asked[p])
    BY <2>2
  <2>4. \A q \in Portals : ~Begun(q)'
    BY <2>1 DEF Begun, Disturbs
  <2>5. Lone' /\ StaticsBelongToTheScan'
    BY <2>4 DEF Lone, StaticsBelongToTheScan
  <2>6. SerialScansReturnTheirRows'
    <3> SUFFICES ASSUME NEW q \in Portals, stage'[q] # "closed"
                 PROVE  /\ rows'[q] = Answer(asked'[q], Len(rows'[q]))
                        /\ stage'[q] = "done" => Len(rows'[q]) = Size(asked'[q])
      BY DEF SerialScansReturnTheirRows, ScansReturnTheirRows, Answer
    <3>1. stage[q] # "closed"
      OBVIOUS
    <3>2. rows'[q] = Answer(asked'[q], Len(rows'[q]))
      BY <2>1, <3>1 DEF SerialScansReturnTheirRows, ScansReturnTheirRows
    <3>3. stage'[q] = "done" => Len(rows'[q]) = Size(asked'[q])
      BY <2>1, <2>3, <3>1 DEF SerialScansReturnTheirRows, ScansReturnTheirRows
    <3> QED
      BY <3>2, <3>3
  <2>7. SerialScansSendTheirVo'
    <3> SUFFICES ASSUME NEW q \in Portals, stage'[q] = "done", whole'[q],
                        ~Projects(asked'[q]), Size(asked'[q]) > 0
                 PROVE  vo'[q] = asked'[q]
      BY DEF SerialScansSendTheirVo
    <3>1. CASE q = p
      <4>1. Begun(p) /\ slotSet[p]
        <5>1. Len(rows[p]) > 0
          BY <2>3, <3>1
        <5>2. Begun(p)
          BY <5>1 DEF Begun
        <5> QED
          BY <3>1, <5>2 DEF WholeKeepsSlot
      <4>2. slotFlag'[p] = TRUE
        BY <3>1
      <4>3. Sent(p, Held(p), slotFlag'[p]) = asked[p]
        BY <2>2, <3>1, <4>1, <4>2 DEF Sent
      <4> QED
        BY <3>1, <4>3
    <3>2. CASE q # p
      BY <2>1, <3>2 DEF SerialScansSendTheirVo
    <3> QED
      BY <3>1, <3>2
  <2> QED
    BY <2>5, <2>6, <2>7 DEF Serial
<1> QED
  BY <1>1, <1>2

(* A call that has its rows, the end of a plan and the end of the backend  *)
(* keep what holds of serial scans.                                        *)
LEMMA OtherSerial ==
  ASSUME ScanInv, NEW p \in Portals, EnoughRows(p) \/ Close(p) \/ Die(p) PROVE Serial'
<1> USE DEF ScanInv, TypeOK
<1>1. CASE EnoughRows(p)
  <2> USE <1>1 DEF EnoughRows, statics
  <2>1. \A q \in Portals : Begun(q)' <=> Begun(q)
    BY DEF Begun
  <2>2. Lone' /\ StaticsBelongToTheScan'
    BY <2>1 DEF Lone, StaticsBelongToTheScan
  <2>3. SerialScansReturnTheirRows'
    BY DEF SerialScansReturnTheirRows, ScansReturnTheirRows, Answer
  <2>4. SerialScansSendTheirVo'
    BY DEF SerialScansSendTheirVo
  <2> QED
    BY <2>2, <2>3, <2>4 DEF Serial
<1>2. CASE Close(p)
  <2> USE <1>2 DEF Close, statics
  <2>1. disturbed' \/ \A q \in Portals : Begun(q)' <=> Begun(q)
    BY DEF Begun
  <2>2. \A q \in Portals : Begun(q)' => asked'[q] = asked[q] /\ rows'[q] = rows[q]
    BY DEF Begun
  <2>3. Lone' /\ StaticsBelongToTheScan'
    BY <2>1, <2>2 DEF Lone, StaticsBelongToTheScan
  <2>4. SerialScansReturnTheirRows'
    BY DEF SerialScansReturnTheirRows, ScansReturnTheirRows, Answer
  <2>5. SerialScansSendTheirVo'
    BY DEF SerialScansSendTheirVo
  <2> QED
    BY <2>3, <2>4, <2>5 DEF Serial
<1>3. CASE Die(p)
  <2>1. \A q \in Portals : ~Begun(q)' /\ stage'[q] = "closed"
    BY <1>3 DEF Die, Begun
  <2>2. Lone' /\ StaticsBelongToTheScan'
    BY <1>3, <2>1 DEF Lone, StaticsBelongToTheScan, Die
  <2>3. SerialScansReturnTheirRows' /\ SerialScansSendTheirVo'
    BY <2>1 DEF SerialScansReturnTheirRows, ScansReturnTheirRows, SerialScansSendTheirVo
  <2> QED
    BY <2>2, <2>3 DEF Serial
<1> QED
  BY <1>1, <1>2, <1>3

(* Every step keeps the invariant.                                         *)
LEMMA ScanNext == ScanInv /\ [Next]_vars => ScanInv'
<1> SUFFICES ASSUME ScanInv, [Next]_vars PROVE ScanInv'
  OBVIOUS
<1>1. TypeOK'
  BY TypeNext DEF ScanInv
<1>2. ClosedIsEmpty' /\ VoWhileFlagDown' /\ WholeKeepsSlot'
  BY PortalNext
<1>3. Serial'
  <2>1. CASE UNCHANGED vars
    <3>1. SerialScansReturnTheirRows'
      BY <2>1 DEF ScanInv, vars, SerialScansReturnTheirRows, ScansReturnTheirRows, Answer
    <3> QED
      BY <2>1, <3>1 DEF ScanInv, Serial, vars, statics, Lone, StaticsBelongToTheScan,
                        SerialScansSendTheirVo, Begun
  <2>2. CASE Next
    BY <2>2, OpenSerial, NextRowSerial, LastRowSerial, OtherSerial DEF Next
  <2> QED
    BY <2>1, <2>2
<1> QED
  BY <1>1, <1>2, <1>3 DEF ScanInv, Serial

(* The invariant holds in every state.                                     *)
LEMMA ScanAlways == Spec => []ScanInv
<1>1. Init => ScanInv
  BY ScanInit
<1>2. ScanInv /\ [Next]_vars => ScanInv'
  BY ScanNext
<1> QED
  BY <1>1, <1>2, PTL DEF Spec

-------------------------------------------------------------------------------
(* The position in vector_index never passes the end of the VO that        *)
(* AuthIndexNext holds, whatever scans are left or interleaved.            *)
THEOREM TypeCorrect == Spec => []TypeOK
<1>1. ScanInv => TypeOK
  BY DEF ScanInv
<1> QED
  BY <1>1, ScanAlways, PTL

(* While no scan is left or interleaved, the statics of nodeIndexscan.c    *)
(* are those of the one scan under way.                                    *)
THEOREM StaticsAreTheScans == Spec => []StaticsBelongToTheScan
<1>1. ScanInv => StaticsBelongToTheScan
  BY DEF ScanInv
<1> QED
  BY <1>1, ScanAlways, PTL

(* Scans run one after the other to their ends return exactly the rows of  *)
(* their ranges, each once and in order.                                   *)
THEOREM SerialRows == Spec => []SerialScansReturnTheirRows
<1>1. ScanInv => SerialScansReturnTheirRows
  BY DEF ScanInv
<1> QED
  BY <1>1, ScanAlways, PTL

(* Such a scan of all columns, with rows to return and run by one call of  *)
(* ExecutePlan, sends the VO of its own query.                             *)
THEOREM SerialVos == Spec => []SerialScansSendTheirVo
<1>1. ScanInv => SerialScansSendTheirVo
  BY DEF ScanInv
<1> QED
  BY <1>1, ScanAlways, PTL

===============================================================================
