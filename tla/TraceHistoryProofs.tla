-------------------------- MODULE TraceHistoryProofs --------------------------
(***************************************************************************)
(* Proofs about TraceHistory, for any number of sessions, tables, inserts  *)
(* and restarts.                                                           *)
(***************************************************************************)
EXTENDS TraceHistory, TLAPS

-------------------------------------------------------------------------------
(* Type correctness *)

(* The row parsestring builds has the columns of <table>_history. *)
LEMMA HistoryRowType ==
  ASSUME TypeOK, NEW s \in Sessions, NEW c \in Contents
  PROVE  HistoryRow(s, c) \in Traces
BY DEF TypeOK, HistoryRow, Traces, Statements, Strings, Hashes, HashOf

(* Leaving exec_simple_query puts the local variables back.               *)
LEMMA LeaveType ==
  ASSUME TypeOK, NEW s \in Sessions, NEW to \in {"off", "ready"}, Leave(s, to)
  PROVE  /\ pc' \in [Sessions -> {"off", "ready", "running", "created", "inserted",
                                  "chained"}]
         /\ string' \in [Sessions -> Strings]
         /\ stmt' \in [Sessions -> Statements]
<1>1. NoStmt \in Statements /\ NoString \in Strings
  BY TraceAssumption DEF NoStmt, Statements, NoString, Strings
<1> QED
  BY <1>1 DEF TypeOK, Leave

(* What the steps make of a string and of a statement.                     *)
LEMMA RunOneMore ==
  ASSUME NEW x \in Strings, NEW e \in BOOLEAN
  PROVE  /\ [x EXCEPT !.steps = @ + 1, !.ended = e] \in Strings
         /\ [x EXCEPT !.steps = @ + 1, !.root = TRUE] \in Strings
<1>1. [x EXCEPT !.steps = @ + 1] \in Strings
  BY DEF Strings
<1>2. ASSUME NEW y \in Strings
      PROVE  [y EXCEPT !.ended = e] \in Strings /\ [y EXCEPT !.root = TRUE] \in Strings
  BY DEF Strings
<1>3. /\ [x EXCEPT !.steps = @ + 1, !.ended = e] = [[x EXCEPT !.steps = @ + 1] EXCEPT !.ended = e]
      /\ [x EXCEPT !.steps = @ + 1, !.root = TRUE] = [[x EXCEPT !.steps = @ + 1] EXCEPT !.root = TRUE]
  OBVIOUS
<1> QED
  BY <1>1, <1>2, <1>3

LEMMA OtherTable ==
  ASSUME NEW x \in Statements, NEW t \in Tables
  PROVE  [x EXCEPT !.table = t] \in Statements
BY DEF Statements

(* Counting a statement keeps the string's type.                          *)
LEMMA CountType ==
  ASSUME TypeOK, NEW s \in Sessions, NEW e \in BOOLEAN, Count(s, e)
  PROVE  string' \in [Sessions -> Strings]
<1> DEFINE new == [string[s] EXCEPT !.steps = @ + 1, !.ended = e]
<1>1. string[s] \in Strings
  BY DEF TypeOK
<1>2. new \in Strings
  BY <1>1, RunOneMore
<1>3. string' = [string EXCEPT ![s] = new]
  BY Zenon DEF Count
<1> HIDE DEF new
<1> QED
  BY <1>2, <1>3 DEF TypeOK

(* The types hold before the first backend starts.                         *)
LEMMA TypeInit == Init => TypeOK
<1> SUFFICES ASSUME Init PROVE TypeOK
  OBVIOUS
<1>1. NoStmt \in Statements /\ NoString \in Strings
  BY TraceAssumption DEF NoStmt, Statements, NoString, Strings
<1>2. Genesis \in Hashes
  BY DEF Genesis, Hashes
<1> QED
  BY <1>1, <1>2 DEF Init, TypeOK, NoRows

(* Every step of a session keeps the types, in particular tx_id positive. *)
LEMMA TypeNext == TypeOK /\ [Next]_vars => TypeOK'
<1> SUFFICES ASSUME TypeOK, [Next]_vars PROVE TypeOK'
  OBVIOUS
<1> USE DEF TypeOK, catalog, heap, chain
<1>1. CASE UNCHANGED vars
  BY <1>1 DEF vars
<1>2. ASSUME NEW s \in Sessions, Session(s) PROVE TypeOK'
  <2>a. NoRows \in [rows : SUBSET Statements, history : SUBSET Traces]
    BY DEF NoRows
  <2>b. Owed(s) \subseteq Statements
    BY DEF Owed
  <2>c. string[s].leads \in BOOLEAN /\ string[s].ended \in BOOLEAN
    BY DEF Strings
  <2>1. CASE Start(s)
    BY <2>1 DEF Start, Genesis, Hashes
  <2>2. CASE Stop(s)
    BY <2>2, <2>a, <2>b, LeaveType DEF Stop
  <2>3. CASE BeginBlock(s)
    <3>1. string' \in [Sessions -> Strings]
      BY <2>3, <2>c, CountType DEF BeginBlock
    <3> QED
      BY <2>3, <3>1 DEF BeginBlock
  <2>4. CASE StatementFails(s)
    BY <2>4, <2>a, <2>b, LeaveType DEF StatementFails, Abort
  <2>5. CASE Commit(s)
    <3>1. string' \in [Sessions -> Strings]
      BY <2>5, <2>c, CountType DEF Commit
    <3>2. draft[s].rows \subseteq Statements /\ draft[s].history \subseteq Traces
      OBVIOUS
    <3> QED
      BY <2>5, <2>a, <3>1, <3>2 DEF Commit
  <2>6. CASE Rollback(s)
    <3>1. string' \in [Sessions -> Strings]
      BY <2>6, <2>c, CountType DEF Rollback
    <3> QED
      BY <2>6, <2>a, <3>1 DEF Rollback
  <2>7. ASSUME NEW t \in Tables, CreateTable(s, t) PROVE TypeOK'
    <3>1. stmt' \in [Sessions -> Statements]
      <4>1. [stmt[s] EXCEPT !.table = t] \in Statements
        BY OtherTable
      <4>2. stmt' = [stmt EXCEPT ![s] = [stmt[s] EXCEPT !.table = t]]
        BY <2>7, Zenon DEF CreateTable
      <4> QED
        BY <4>1, <4>2
    <3>2. pc' \in [Sessions -> {"off", "ready", "running", "created", "inserted",
                                "chained"}]
      BY <2>7 DEF CreateTable
    <3>3. tables' \subseteq Tables
      BY <2>7 DEF CreateTable
    <3> QED
      BY <2>7, <3>1, <3>2, <3>3 DEF CreateTable
  <2>8. CASE CreateHistory(s)
    BY <2>8, LeaveType DEF CreateHistory, Statements
  <2>9. CASE NoHistoryTable(s)
    BY <2>9, LeaveType DEF NoHistoryTable
  <2>10. ASSUME NEW t \in Tables, NEW x \in Texts, Insert(s, t, x) PROVE TypeOK'
    <3> DEFINE r == [table |-> t, text |-> x, leads |-> First(s), id |-> inserts + 1]
    <3>1. First(s) \in BOOLEAN
      BY DEF First
    <3>2. r \in Statements
      BY <3>1 DEF Statements
    <3>3. /\ draft' = [draft EXCEPT ![s].rows = @ \cup {r}]
          /\ stmt' = IF First(s) THEN [stmt EXCEPT ![s] = r] ELSE stmt
          /\ inserts' = inserts + 1
      BY <2>10 DEF Insert
    <3> HIDE DEF r
    <3>4. string' \in [Sessions -> Strings]
      <4> DEFINE new == [string[s] EXCEPT !.steps = @ + 1, !.root = TRUE]
      <4>1. new \in Strings
        BY RunOneMore
      <4>2. string' = [string EXCEPT ![s] = new]
        BY <2>10, Zenon DEF Insert
      <4> HIDE DEF new
      <4> QED
        BY <4>1, <4>2
    <3>5. draft' \in [Sessions -> [rows : SUBSET Statements, history : SUBSET Traces]]
      BY <3>2, <3>3
    <3>6. stmt' \in [Sessions -> Statements]
      BY <3>2, <3>3
    <3> QED
      BY <2>10, <3>3, <3>4, <3>5, <3>6 DEF Insert
  <2>11. CASE SkipTrace(s)
    BY <2>11, LeaveType DEF SkipTrace
  <2>12. ASSUME NEW c \in Contents, Chain(s, c) PROVE TypeOK'
    <3>1. HistoryRow(s, c) \in Traces
      BY HistoryRowType
    <3>2. trace' \in [Sessions -> SUBSET Traces]
      BY <2>12, <3>1 DEF Chain
    <3>3. HashOf(previsou_hash[s], c) \in Hashes
      BY DEF HashOf, Hashes
    <3>4. previsou_hash' \in [Sessions -> Hashes]
      BY <2>12, <3>3 DEF Chain
    <3>5. tx_id' \in [Sessions -> Nat \ {0}]
      BY <2>12 DEF Chain
    <3>6. pc' \in [Sessions -> {"off", "ready", "running", "created", "inserted",
                                "chained"}]
      BY <2>12 DEF Chain
    <3> QED
      BY <2>12, <3>2, <3>4, <3>5, <3>6 DEF Chain
  <2>13. CASE Record(s)
    <3> DEFINE d == [draft[s] EXCEPT !.history = @ \cup trace[s]]
    <3>1. d \in [rows : SUBSET Statements, history : SUBSET Traces]
      OBVIOUS
    <3>2. d.rows \subseteq Statements /\ d.history \subseteq Traces
      BY <3>1
    <3>3. Finish(s, d)
      BY <2>13 DEF Record
    <3> HIDE DEF d
    <3>4. /\ rows' \subseteq Statements /\ history' \subseteq Traces
          /\ draft' \in [Sessions -> [rows : SUBSET Statements, history : SUBSET Traces]]
      BY <2>a, <3>1, <3>2, <3>3 DEF Finish
    <3> QED
      BY <2>13, <3>4, LeaveType DEF Record
  <2>14. CASE RecordFails(s)
    BY <2>14, <2>a, <2>b, LeaveType DEF RecordFails, Abort
  <2>15. ASSUME NEW leads \in BOOLEAN, Receive(s, leads) PROVE TypeOK'
    <3>1. [NoString EXCEPT !.leads = leads] \in Strings
      BY DEF NoString, Strings
    <3> QED
      BY <2>15, <3>1 DEF Receive
  <2>16. CASE EndString(s)
    <3>1. draft[s].rows \subseteq Statements /\ draft[s].history \subseteq Traces
      OBVIOUS
    <3>2. /\ rows' \subseteq Statements /\ history' \subseteq Traces
          /\ draft' \in [Sessions -> [rows : SUBSET Statements, history : SUBSET Traces]]
      BY <2>16, <2>a, <3>1 DEF EndString, Finish
    <3>3. CASE string[s].root
      BY <2>16, <3>2, <3>3 DEF EndString
    <3>4. CASE ~string[s].root
      BY <2>16, <3>2, <3>4, LeaveType DEF EndString
    <3> QED
      BY <3>3, <3>4
  <2> QED
    BY <1>2, <2>1, <2>2, <2>3, <2>4, <2>5, <2>6, <2>7, <2>8, <2>9, <2>10,
       <2>11, <2>12, <2>13, <2>14, <2>15, <2>16 DEF Session
<1> QED
  BY <1>1, <1>2 DEF Next

(* The state of the backends and of the tables is always well typed. *)
THEOREM TypeCorrect == Spec => []TypeOK
BY TypeInit, TypeNext, PTL DEF Spec

-------------------------------------------------------------------------------
(* The chain of a backend *)

(* Every history row there is, in the tables, in open blocks and under way. *)
Written == history \cup (UNION {draft[s].history : s \in Sessions})
                   \cup (UNION {trace[s] : s \in Sessions})

(* The chains: a backend's counter is one ahead of its head; a row is       *)
(* numbered by its place, comes from a backend that was started, and, if    *)
(* that backend is the session's present one, lies on its way to the head;  *)
(* and rows of one backend, present or past, lie on one chain.              *)
OnChain(h) == LET s == h.by[1]
              IN  /\ h.tx_id = Len(h.hash)
                  /\ h.hash = HashOf(h.previous, h.content)
                  /\ h.by[2] <= backend[s]
                  /\ h.by[2] = backend[s] =>
                       /\ h.tx_id < tx_id[s]
                       /\ \A i \in 1 .. Len(h.hash) : h.hash[i] = previsou_hash[s][i]

ChainInv == /\ \A s \in Sessions : tx_id[s] = Len(previsou_hash[s]) + 1
            /\ \A h \in Written : OnChain(h)
            /\ \A g, h \in Written :
                 g.by = h.by /\ g # h => /\ g.tx_id # h.tx_id
                                         /\ g.tx_id < h.tx_id => Extends(h.hash, g.hash)

(* There is no chain at first.                                             *)
LEMMA ChainInit == Init => ChainInv
BY DEF Init, ChainInv, Written, NoRows, Genesis

(* Rows may leave and move between blocks and tables as they like. *)
LEMMA ChainKept ==
  ASSUME ChainInv, Written' \subseteq Written, UNCHANGED <<backend, chain>>
  PROVE  ChainInv'
BY DEF ChainInv, OnChain, chain

(* A new backend starts a chain of its own: no row there is carries its    *)
(* number yet.                                                             *)
LEMMA ChainStart ==
  ASSUME TypeOK, ChainInv, NEW s \in Sessions, Start(s)
  PROVE  ChainInv'
<1>1. Written' = Written
  BY DEF Start, Written, heap
<1>2. ASSUME NEW h \in Written PROVE OnChain(h)'
  <2>1. h \in Traces
    BY DEF Written, TypeOK
  <2>2. h.by[1] \in Sessions /\ h.by[2] \in Nat
    BY <2>1 DEF Traces
  <2>3. OnChain(h)
    BY DEF ChainInv
  <2>4. CASE h.by[1] = s
    BY <2>2, <2>3, <2>4 DEF OnChain, Start, TypeOK
  <2>5. CASE h.by[1] # s
    BY <2>2, <2>3, <2>5 DEF OnChain, Start, TypeOK
  <2> QED
    BY <2>4, <2>5
<1>3. \A q \in Sessions : (tx_id[q] = Len(previsou_hash[q]) + 1)'
  BY DEF Start, TypeOK, ChainInv, Genesis
<1> QED
  BY <1>1, <1>2, <1>3 DEF ChainInv

(* parsestring extends the chain: the new row comes after every row of its *)
(* backend, and every such row lies on the way to it.                      *)
LEMMA ChainChain ==
  ASSUME TypeOK, ChainInv, NEW s \in Sessions, NEW c \in Contents, Chain(s, c)
  PROVE  ChainInv'
<1>a. PICK new \in Traces : new = HistoryRow(s, c)
  BY HistoryRowType
<1> DEFINE head == previsou_hash[s]
<1>1. head \in Seq(Contents) /\ tx_id[s] = Len(head) + 1
  BY DEF TypeOK, Hashes, ChainInv
<1>2. Written' \subseteq Written \cup {new}
  BY <1>a DEF Chain, Written, heap, TypeOK
<1>3. Append(head, c) \in Seq(Contents) /\ Len(Append(head, c)) = Len(head) + 1
      /\ \A i \in 1 .. Len(head) : Append(head, c)[i] = head[i]
  BY <1>1
<1>4. /\ new.by = <<s, backend[s]>> /\ new.tx_id = tx_id[s]
      /\ new.hash = Append(head, c) /\ new.hash = HashOf(new.previous, new.content)
  BY <1>a DEF HistoryRow, HashOf
<1>5. /\ previsou_hash' = [previsou_hash EXCEPT ![s] = Append(head, c)]
      /\ tx_id' = [tx_id EXCEPT ![s] = @ + 1]
      /\ backend' = backend
  BY DEF Chain, HashOf
<1>6. \A h \in Written : h \in Traces /\ h.by[1] \in Sessions /\ h.by[2] \in Nat
                         /\ h.by = <<h.by[1], h.by[2]>> /\ h.tx_id \in Nat
                         /\ h.hash \in Seq(Contents) /\ Len(h.hash) \in Nat
  <2>1. \A h \in Written : h \in Traces
    BY DEF Written, TypeOK
  <2>2. ASSUME NEW h \in Traces
        PROVE  /\ h.by \in Sessions \X Nat /\ h.tx_id \in Nat
               /\ h.hash \in Seq(Contents)
    BY DEF Traces, Hashes
  <2> QED
    BY <2>1, <2>2
<1>7. ASSUME NEW h \in Written PROVE OnChain(h)'
  <2>1. OnChain(h)
    BY DEF ChainInv
  <2>2. CASE h.by[1] = s
    BY <1>1, <1>3, <1>5, <1>6, <2>1, <2>2 DEF OnChain, TypeOK
  <2>3. CASE h.by[1] # s
    BY <1>5, <1>6, <2>1, <2>3 DEF OnChain, TypeOK
  <2> QED
    BY <2>2, <2>3
<1>8. OnChain(new)'
  <2>1. new.by[1] = s /\ new.by[2] = backend[s] /\ backend[s] \in Nat
    BY <1>4 DEF TypeOK
  <2>2. tx_id'[s] = tx_id[s] + 1 /\ previsou_hash'[s] = new.hash /\ backend'[s] = backend[s]
    BY <1>4, <1>5 DEF TypeOK
  <2>3. new.tx_id = Len(new.hash) /\ new.tx_id < tx_id'[s]
    BY <1>1, <1>3, <1>4, <2>2
  <2> QED
    BY <1>4, <2>1, <2>2, <2>3 DEF OnChain
<1>9. ASSUME NEW h \in Written, h.by = new.by
      PROVE  h.tx_id < new.tx_id /\ Extends(new.hash, h.hash)
  <2>1. h.by[1] = s /\ h.by[2] = backend[s]
    BY <1>4, <1>9
  <2>2. OnChain(h)
    BY DEF ChainInv
  <2>3. /\ h.tx_id = Len(h.hash) /\ h.tx_id < tx_id[s]
        /\ \A i \in 1 .. Len(h.hash) : h.hash[i] = head[i]
    BY <2>1, <2>2 DEF OnChain
  <2>4. Len(h.hash) \in Nat /\ Len(h.hash) <= Len(head) /\ Len(head) \in Nat
    BY <1>1, <1>6, <2>3
  <2>5. \A i \in 1 .. Len(h.hash) : new.hash[i] = h.hash[i]
    BY <1>3, <1>4, <2>3, <2>4
  <2> QED
    BY <1>1, <1>3, <1>4, <2>3, <2>4, <2>5 DEF Extends
<1>10. \A q \in Sessions : (tx_id[q] = Len(previsou_hash[q]) + 1)'
  BY <1>1, <1>3, <1>5 DEF TypeOK, ChainInv
<1>11. \A g, h \in Written \cup {new} :
          g.by = h.by /\ g # h => /\ g.tx_id # h.tx_id
                                  /\ g.tx_id < h.tx_id => Extends(h.hash, g.hash)
  <2>1. new.tx_id \in Nat
    BY <1>1 DEF Traces
  <2> QED
    BY <1>6, <1>9, <2>1 DEF ChainInv
<1>12. \A h \in Written' : OnChain(h)'
  BY <1>2, <1>7, <1>8
<1> QED
  BY <1>2, <1>10, <1>11, <1>12 DEF ChainInv

(* Every step keeps the chains.                                            *)
LEMMA ChainNext == TypeOK /\ ChainInv /\ [Next]_vars => ChainInv'
<1> SUFFICES ASSUME TypeOK, ChainInv, [Next]_vars PROVE ChainInv'
  OBVIOUS
<1>1. CASE UNCHANGED vars
  <2>1. Written' = Written
    BY <1>1 DEF vars, heap, Written
  <2> QED
    BY <1>1, <2>1, ChainKept DEF vars, chain
<1>2. ASSUME NEW s \in Sessions, Session(s) PROVE ChainInv'
  <2> USE DEF TypeOK, heap, Written, NoRows
  <2>1. CASE Start(s)
    BY <2>1, ChainStart
  <2>2. CASE Stop(s)
    <3>1. Written' \subseteq Written
      BY <2>2 DEF Stop
    <3> QED
      BY <2>2, <3>1, ChainKept DEF Stop
  <2>3. CASE BeginBlock(s)
    <3>1. Written' \subseteq Written
      BY <2>3 DEF BeginBlock
    <3> QED
      BY <2>3, <3>1, ChainKept DEF BeginBlock
  <2>4. CASE StatementFails(s)
    <3>1. Written' \subseteq Written
      BY <2>4 DEF StatementFails, Abort
    <3> QED
      BY <2>4, <3>1, ChainKept DEF StatementFails
  <2>5. CASE Commit(s)
    <3>1. Written' \subseteq Written
      BY <2>5 DEF Commit
    <3> QED
      BY <2>5, <3>1, ChainKept DEF Commit
  <2>6. CASE Rollback(s)
    <3>1. Written' \subseteq Written
      BY <2>6 DEF Rollback
    <3> QED
      BY <2>6, <3>1, ChainKept DEF Rollback
  <2>7. ASSUME NEW t \in Tables, CreateTable(s, t) PROVE ChainInv'
    <3>1. Written' \subseteq Written
      BY <2>7 DEF CreateTable
    <3> QED
      BY <2>7, <3>1, ChainKept DEF CreateTable
  <2>8. CASE CreateHistory(s)
    <3>1. Written' \subseteq Written
      BY <2>8 DEF CreateHistory
    <3> QED
      BY <2>8, <3>1, ChainKept DEF CreateHistory
  <2>9. CASE NoHistoryTable(s)
    <3>1. Written' \subseteq Written
      BY <2>9 DEF NoHistoryTable
    <3> QED
      BY <2>9, <3>1, ChainKept DEF NoHistoryTable
  <2>10. ASSUME NEW t \in Tables, NEW x \in Texts, Insert(s, t, x) PROVE ChainInv'
    <3>1. Written' \subseteq Written
      <4>1. history' = history /\ trace' = trace
        BY <2>10 DEF Insert
      <4>2. \A q \in Sessions : draft'[q].history = draft[q].history
        BY <2>10 DEF Insert
      <4> QED
        BY <4>1, <4>2
    <3> QED
      BY <2>10, <3>1, ChainKept DEF Insert
  <2>11. CASE SkipTrace(s)
    <3>1. Written' \subseteq Written
      BY <2>11 DEF SkipTrace
    <3> QED
      BY <2>11, <3>1, ChainKept DEF SkipTrace
  <2>12. ASSUME NEW c \in Contents, Chain(s, c) PROVE ChainInv'
    BY <2>12, ChainChain
  <2>13. CASE Record(s)
    <3>1. Written' \subseteq Written
      <4> DEFINE d == [draft[s] EXCEPT !.history = @ \cup trace[s]]
      <4>1. d.history = draft[s].history \cup trace[s]
        OBVIOUS
      <4>2. Finish(s, d) /\ \A q \in Sessions : trace'[q] \subseteq trace[q]
        BY <2>13 DEF Record
      <4> HIDE DEF d
      <4>3. /\ history' \subseteq history \cup draft[s].history \cup trace[s]
            /\ \A q \in Sessions : draft'[q].history \subseteq draft[q].history \cup trace[q]
        <5>1. CASE block[s] = "none"
          BY <4>1, <4>2, <5>1 DEF Finish
        <5>2. CASE block[s] = "open"
          BY <4>1, <4>2, <5>2 DEF Finish
        <5> QED
          BY <4>2, <5>1, <5>2 DEF Finish
      <4> QED
        BY <4>2, <4>3
    <3> QED
      BY <2>13, <3>1, ChainKept DEF Record
  <2>14. CASE RecordFails(s)
    <3>1. Written' \subseteq Written
      BY <2>14 DEF RecordFails, Abort
    <3> QED
      BY <2>14, <3>1, ChainKept DEF RecordFails
  <2>15. ASSUME NEW leads \in BOOLEAN, Receive(s, leads) PROVE ChainInv'
    <3>1. Written' \subseteq Written
      BY <2>15 DEF Receive
    <3> QED
      BY <2>15, <3>1, ChainKept DEF Receive
  <2>16. CASE EndString(s)
    <3>1. Written' \subseteq Written
      <4>1. /\ history' \subseteq history \cup draft[s].history /\ trace' = trace
            /\ \A q \in Sessions : draft'[q].history \subseteq draft[q].history
        <5>1. CASE block[s] = "none"
          BY <2>16, <5>1 DEF EndString, Finish
        <5>2. CASE block[s] = "open"
          BY <2>16, <5>2 DEF EndString, Finish
        <5> QED
          BY <2>16, <5>1, <5>2 DEF EndString, Finish
      <4> QED
        BY <4>1
    <3> QED
      BY <2>16, <3>1, ChainKept DEF EndString
  <2> QED
    BY <1>2, <2>1, <2>2, <2>3, <2>4, <2>5, <2>6, <2>7, <2>8, <2>9, <2>10,
       <2>11, <2>12, <2>13, <2>14, <2>15, <2>16 DEF Session
<1> QED
  BY <1>1, <1>2 DEF Next

(* The chain invariant holds in every state.                               *)
LEMMA ChainAlways == Spec => []ChainInv
<1>1. TypeOK /\ ChainInv /\ [Next]_vars => ChainInv'
  BY ChainNext
<1> QED
  BY <1>1, ChainInit, TypeCorrect, PTL DEF Spec

(* The history rows of each backend form one chain in the order of tx_id,  *)
(* however many sessions, restarts, rollbacks and failures there are.      *)
THEOREM OneChainPerBackend == Spec => []ChainLinear
<1>1. ChainInv => ChainLinear
  BY DEF ChainInv, ChainLinear, Written
<1> QED
  BY <1>1, ChainAlways, PTL

(* The number of a history row is the length of the chain that leads to it. *)
THEOREM RowsAreNumberedByPlace == Spec => []TxIdIsChainLength
<1>1. ChainInv => TxIdIsChainLength
  BY DEF ChainInv, TxIdIsChainLength, OnChain, Written
<1> QED
  BY <1>1, ChainAlways, PTL

===============================================================================
