---------------------------- MODULE TraceFateProofs ----------------------------
(***************************************************************************)
(* Proofs about TraceHistory: which INSERTs and which traces are there     *)
(* together, for any number of sessions, statements and restarts.          *)
(***************************************************************************)
EXTENDS TraceHistoryProofs

-------------------------------------------------------------------------------
(* No trace without its row *)

(* The rows that will stay if the session's block is committed.            *)
Held(s) == IF block[s] = "none" THEN rows ELSE draft[s].rows

About(h, set) == \E r \in set : r.id = h.of /\ r.table = h.table

(* The INSERT a string begins with, as long as the string itself has not   *)
(* ended its transaction.                                                  *)
Begun(s) == string[s].leads /\ string[s].steps > 0 /\ ~string[s].ended

(* The inductive invariant behind NoPhantomTrace: what a session has        *)
(* inserted and not yet traced, and the traces of its open block, are about *)
(* rows that share their fate.                                              *)
FateOf(s) == /\ \A h \in draft[s].history : h.parted \/ About(h, draft[s].rows)
             /\ \A h \in trace[s] : h.parted \/ About(h, Held(s))
             /\ pc[s] = "running" /\ Begun(s) => stmt[s] \in draft[s].rows
             /\ pc[s] \in {"inserted", "chained"} /\ Begun(s) => stmt[s] \in Held(s)
             /\ pc[s] \in {"inserted", "chained"} => string[s].steps > 0
             /\ pc[s] # "chained" => trace[s] = {}
             /\ block[s] = "none" => draft[s].history = {}

Sound(hist, set) == \A h \in hist : h.parted \/ About(h, set)

FateInv == /\ Sound(history, rows)
           /\ \A s \in Sessions : FateOf(s)

(* There is no row and no trace at first.                                  *)
LEMMA FateInit == Init => FateInv
BY DEF Init, FateInv, FateOf, Sound, NoRows

(* More rows make no trace wrong.                                          *)
LEMMA SoundGrows ==
  ASSUME NEW hist, NEW old, NEW new, Sound(hist, old), old \subseteq new
  PROVE  Sound(hist, new)
BY DEF Sound, About

(* What one session does leaves the facts about the others alone: it adds  *)
(* committed rows and touches no other session's state.                    *)
LEMMA FateOfOthers ==
  ASSUME FateInv, NEW s \in Sessions, NEW o \in Sessions \ {s},
         rows \subseteq rows',
         draft'[o] = draft[o], trace'[o] = trace[o], block'[o] = block[o],
         pc'[o] = pc[o], stmt'[o] = stmt[o], string'[o] = string[o]
  PROVE  FateOf(o)'
<1>1. FateOf(o) /\ Begun(o)' = Begun(o)
  BY DEF FateInv, Begun
<1>2. Held(o) \subseteq Held(o)'
  BY DEF Held
<1> QED
  BY <1>1, <1>2 DEF FateOf, About

(* A session that has left exec_simple_query with an empty transaction     *)
(* owes nothing.                                                           *)
LEMMA FateOfLeft ==
  ASSUME NEW s \in Sessions, pc'[s] \in {"off", "ready"}, trace'[s] = {},
         draft'[s] = NoRows
  PROVE  FateOf(s)'
BY DEF FateOf, NoRows

(* It remains to look at the session that takes the step. *)
LEMMA FateNext == TypeOK /\ FateInv /\ [Next]_vars => FateInv'
<1> SUFFICES ASSUME TypeOK, FateInv, [Next]_vars PROVE FateInv'
  OBVIOUS
<1>1. CASE UNCHANGED vars
  BY <1>1 DEF vars, heap, FateInv, FateOf, Sound, About, Held, Begun
<1>2. ASSUME NEW s \in Sessions, Session(s) PROVE FateInv'
  <2> DEFINE Own == Sound(history', rows') /\ FateOf(s)'
             Rest == /\ rows \subseteq rows'
                     /\ \A o \in Sessions \ {s} :
                          /\ draft'[o] = draft[o] /\ trace'[o] = trace[o]
                          /\ block'[o] = block[o] /\ pc'[o] = pc[o]
                          /\ stmt'[o] = stmt[o] /\ string'[o] = string[o]
  <2>a. SUFFICES Own /\ Rest
    <3>1. ASSUME NEW o \in Sessions \ {s} PROVE FateOf(o)'
      BY <2>a, FateOfOthers
    <3>2. \A o \in Sessions : FateOf(o)'
      BY <2>a, <3>1
    <3> QED
      BY <2>a, <3>2 DEF FateInv, Sound, About
  <2>b. /\ Sound(history, rows) /\ FateOf(s)
        /\ string[s] \in Strings /\ string[s].steps \in Nat
    BY DEF FateInv, TypeOK, Strings
  <2> USE DEF TypeOK, heap
  <2>1. CASE Start(s)
    <3>1. Rest /\ rows' = rows /\ history' = history
      BY <2>1 DEF Start
    <3>2. /\ draft' = draft /\ trace' = trace /\ block' = block
          /\ pc[s] = "off" /\ pc'[s] = "ready"
      BY <2>1 DEF Start
    <3>3. FateOf(s)'
      BY <2>b, <3>2 DEF FateOf
    <3> QED
      BY <2>b, <3>1, <3>3
  <2>2. CASE Stop(s)
    <3>1. Rest /\ rows' = rows /\ history' = history
      BY <2>2 DEF Stop, Leave
    <3>2. pc'[s] = "off" /\ trace'[s] = {} /\ draft'[s] = NoRows
      BY <2>2 DEF Stop, Leave
    <3> QED
      BY <2>b, <3>1, <3>2, FateOfLeft
  <2>3. CASE BeginBlock(s)
    <3>1. Rest /\ rows' = rows /\ history' = history
      BY <2>3 DEF BeginBlock, Count
    <3>2. /\ draft' = draft /\ trace' = trace /\ stmt' = stmt /\ block'[s] = "open"
          /\ pc[s] = "running" /\ pc'[s] = "running" /\ ~First(s)
      BY <2>3 DEF BeginBlock, Turn
    <3>3. string'[s].leads = string[s].leads /\ string'[s].ended = string[s].ended
      BY <2>3 DEF BeginBlock, Count, Strings
    <3>4. Begun(s)' => Begun(s)
      BY <2>b, <3>2, <3>3 DEF Begun, First
    <3>5. FateOf(s)'
      BY <2>b, <3>2, <3>4 DEF FateOf
    <3> QED
      BY <2>b, <3>1, <3>5
  <2>4. CASE StatementFails(s)
    <3>1. Rest /\ rows' = rows /\ history' = history
      BY <2>4 DEF StatementFails, Abort, Leave
    <3>2. /\ pc'[s] = "ready" /\ draft'[s] = NoRows /\ trace' = trace
          /\ pc[s] = "running"
      BY <2>4 DEF StatementFails, Abort, Leave
    <3>3. trace'[s] = {}
      BY <2>b, <3>2 DEF FateOf
    <3> QED
      BY <2>b, <3>1, <3>2, <3>3, FateOfLeft
  <2>5. CASE Commit(s)
    <3>1. Rest
      BY <2>5 DEF Commit, Count
    <3>2. /\ rows' = rows \cup draft[s].rows /\ history' = history \cup draft[s].history
          /\ draft'[s] = NoRows /\ trace' = trace
          /\ pc[s] = "running" /\ pc'[s] = "running"
      BY <2>5 DEF Commit, Turn
    <3>3. string'[s].leads = string[s].leads /\ string'[s].ended = string[s].leads
      BY <2>5 DEF Commit, Count, Strings
    <3>4. Sound(history, rows') /\ Sound(draft[s].history, rows')
      <4>1. Sound(draft[s].history, draft[s].rows)
        BY <2>b DEF FateOf, Sound
      <4> QED
        BY <2>b, <3>2, <4>1, SoundGrows
    <3>5. Sound(history', rows')
      BY <3>2, <3>4 DEF Sound
    <3>6. ~Begun(s)'
      BY <3>3 DEF Begun
    <3>7. FateOf(s)'
      BY <2>b, <3>2, <3>6 DEF FateOf, NoRows
    <3> QED
      BY <3>1, <3>5, <3>7
  <2>6. CASE Rollback(s)
    <3>1. Rest /\ rows' = rows /\ history' = history
      BY <2>6 DEF Rollback, Count
    <3>2. /\ draft'[s] = NoRows /\ trace' = trace
          /\ pc[s] = "running" /\ pc'[s] = "running"
      BY <2>6 DEF Rollback, Turn
    <3>3. string'[s].leads = string[s].leads /\ string'[s].ended = string[s].leads
      BY <2>6 DEF Rollback, Count, Strings
    <3>4. ~Begun(s)'
      BY <3>3 DEF Begun
    <3>5. FateOf(s)'
      BY <2>b, <3>2, <3>4 DEF FateOf, NoRows
    <3> QED
      BY <2>b, <3>1, <3>5
  <2>7. ASSUME NEW t \in Tables, CreateTable(s, t) PROVE Own /\ Rest
    <3>1. Rest /\ rows' = rows /\ history' = history
      BY <2>7 DEF CreateTable
    <3>2. /\ draft' = draft /\ trace' = trace /\ block' = block
          /\ pc[s] = "ready" /\ pc'[s] = "created"
      BY <2>7 DEF CreateTable
    <3>3. FateOf(s)'
      BY <2>b, <3>2 DEF FateOf
    <3> QED
      BY <2>b, <3>1, <3>3
  <2>8. CASE CreateHistory(s) \/ NoHistoryTable(s)
    <3>1. Rest /\ rows' = rows /\ history' = history
      BY <2>8 DEF CreateHistory, NoHistoryTable, Leave
    <3>2. /\ draft' = draft /\ trace' = trace /\ block' = block
          /\ pc[s] = "created" /\ pc'[s] = "ready"
      BY <2>8 DEF CreateHistory, NoHistoryTable, Leave
    <3>3. FateOf(s)'
      BY <2>b, <3>2 DEF FateOf
    <3> QED
      BY <2>b, <3>1, <3>3
  <2>10. ASSUME NEW t \in Tables, NEW x \in Texts, Insert(s, t, x) PROVE Own /\ Rest
    <3> DEFINE r == [table |-> t, text |-> x, leads |-> First(s), id |-> inserts + 1]
    <3>1. Rest /\ rows' = rows /\ history' = history
      BY <2>10 DEF Insert
    <3>2. /\ trace' = trace /\ block' = block
          /\ pc[s] = "running" /\ pc'[s] = "running"
      BY <2>10 DEF Insert, Turn
    <3>3. /\ draft'[s].rows = draft[s].rows \cup {r}
          /\ draft'[s].history = draft[s].history
      BY <2>10 DEF Insert
    <3>4. stmt'[s] = IF First(s) THEN r ELSE stmt[s]
      BY <2>10 DEF Insert
    <3>5. string'[s].leads = string[s].leads /\ string'[s].ended = string[s].ended
      BY <2>10 DEF Insert, Strings
    <3> HIDE DEF r
    <3>6. Begun(s)' => First(s) \/ Begun(s)
      BY <2>b, <3>5 DEF Begun, First
    <3>7. Begun(s)' => stmt'[s] \in draft'[s].rows
      BY <2>b, <3>2, <3>3, <3>4, <3>6 DEF FateOf
    <3>8. FateOf(s)'
      BY <2>b, <3>2, <3>3, <3>7 DEF FateOf, About
    <3> QED
      BY <2>b, <3>1, <3>8
  <2>11. CASE SkipTrace(s)
    <3>1. Rest /\ rows' = rows /\ history' = history
      BY <2>11 DEF SkipTrace, Leave
    <3>2. /\ draft' = draft /\ trace' = trace /\ block' = block
          /\ pc[s] = "inserted" /\ pc'[s] = "ready"
      BY <2>11 DEF SkipTrace, Leave
    <3>3. FateOf(s)'
      BY <2>b, <3>2 DEF FateOf
    <3> QED
      BY <2>b, <3>1, <3>3
  <2>12. ASSUME NEW c \in Contents, Chain(s, c) PROVE Own /\ Rest
    <3>1. Rest /\ rows' = rows /\ history' = history
      BY <2>12 DEF Chain
    <3>2. /\ draft' = draft /\ block' = block /\ stmt' = stmt /\ string' = string
          /\ trace'[s] = {HistoryRow(s, c)}
          /\ pc[s] = "inserted" /\ pc'[s] = "chained" /\ string[s].leads
      BY <2>12 DEF Chain
    <3>3. Held(s)' = Held(s) /\ Begun(s)' = Begun(s)
      BY <3>1, <3>2 DEF Held, Begun
    <3>4. /\ HistoryRow(s, c).parted = string[s].ended
          /\ HistoryRow(s, c).of = stmt[s].id /\ HistoryRow(s, c).table = stmt[s].table
      BY DEF HistoryRow
    <3>5. string[s].ended \/ stmt[s] \in Held(s)
      BY <2>b, <3>2 DEF FateOf, Begun
    <3>6. HistoryRow(s, c).parted \/ About(HistoryRow(s, c), Held(s)')
      BY <3>3, <3>4, <3>5 DEF About
    <3>7. FateOf(s)'
      BY <2>b, <3>2, <3>3, <3>6 DEF FateOf
    <3> QED
      BY <2>b, <3>1, <3>7
  <2>13. CASE Record(s)
    <3> DEFINE d == [draft[s] EXCEPT !.history = @ \cup trace[s]]
    <3>1. d.rows = draft[s].rows /\ d.history = draft[s].history \cup trace[s]
      OBVIOUS
    <3>2. /\ Finish(s, d) /\ trace'[s] = {} /\ pc'[s] = "ready" /\ block' = block
      BY <2>13 DEF Record, Leave
    <3> HIDE DEF d
    <3>3. Rest
      BY <2>13, <3>2 DEF Record, Leave, Finish
    <3>4. CASE block[s] = "none"
      <4>1. /\ rows' = rows \cup d.rows /\ history' = history \cup d.history
            /\ draft'[s] = NoRows
        BY <3>2, <3>4 DEF Finish
      <4>2. Sound(d.history, rows)
        BY <2>b, <3>1, <3>4 DEF FateOf, Sound, Held
      <4>3. Sound(d.history, rows') /\ Sound(history, rows')
        BY <2>b, <4>1, <4>2, SoundGrows
      <4>4. Sound(history', rows')
        BY <4>1, <4>3 DEF Sound
      <4> QED
        BY <3>2, <3>3, <4>1, <4>4, FateOfLeft
    <3>5. CASE block[s] = "open"
      <4>1. rows' = rows /\ history' = history /\ draft'[s] = d
        BY <3>2, <3>5 DEF Finish
      <4>2. Sound(d.history, d.rows)
        BY <2>b, <3>1, <3>5 DEF FateOf, Sound, Held
      <4>3. FateOf(s)'
        BY <3>2, <3>5, <4>1, <4>2 DEF FateOf, Sound
      <4> QED
        BY <2>b, <3>3, <4>1, <4>3
    <3> QED
      BY <3>2, <3>4, <3>5 DEF Finish
  <2>14. CASE RecordFails(s)
    <3>1. Rest /\ rows' = rows /\ history' = history
      BY <2>14 DEF RecordFails, Abort, Leave
    <3>2. pc'[s] = "ready" /\ draft'[s] = NoRows /\ trace'[s] = {}
      BY <2>14 DEF RecordFails, Abort, Leave
    <3> QED
      BY <2>b, <3>1, <3>2, FateOfLeft
  <2>15. ASSUME NEW leads \in BOOLEAN, Receive(s, leads) PROVE Own /\ Rest
    <3>1. Rest /\ rows' = rows /\ history' = history
      BY <2>15 DEF Receive
    <3>2. /\ draft' = draft /\ trace' = trace /\ block' = block
          /\ pc[s] = "ready" /\ pc'[s] = "running"
      BY <2>15 DEF Receive
    <3>3. string'[s].steps = 0
      BY <2>15 DEF Receive, NoString
    <3>4. ~Begun(s)'
      BY <3>3 DEF Begun
    <3>5. FateOf(s)'
      BY <2>b, <3>2, <3>4 DEF FateOf
    <3> QED
      BY <2>b, <3>1, <3>5
  <2>16. CASE EndString(s)
    <3>1. /\ Finish(s, draft[s]) /\ trace' = trace /\ block' = block
          /\ pc[s] = "running" /\ string[s].steps > 0
      BY <2>16 DEF EndString
    <3>2. Rest
      BY <2>16, <3>1 DEF EndString, Finish, Leave
    <3>3. /\ Sound(history', rows') /\ draft[s].rows \subseteq Held(s)'
          /\ Sound(draft'[s].history, draft'[s].rows)
          /\ block[s] = "none" => draft'[s].history = {}
      <4>1. CASE block[s] = "none"
        <5>1. /\ rows' = rows \cup draft[s].rows /\ history' = history \cup draft[s].history
              /\ draft'[s] = NoRows
          BY <3>1, <4>1 DEF Finish
        <5>2. history' = history
          BY <2>b, <4>1, <5>1 DEF FateOf
        <5>3. Sound(history', rows')
          <6>1. rows \subseteq rows'
            BY <5>1
          <6>2. Sound(history, rows')
            BY <2>b, <6>1, SoundGrows
          <6> QED
            BY <5>2, <6>2
        <5>4. draft[s].rows \subseteq Held(s)'
          BY <3>1, <4>1, <5>1 DEF Held
        <5>5. draft'[s].history = {}
          BY <5>1 DEF NoRows
        <5>6. Sound(draft'[s].history, draft'[s].rows)
          BY <5>5 DEF Sound
        <5> QED
          BY <5>3, <5>4, <5>5, <5>6
      <4>2. CASE block[s] = "open"
        <5>1. rows' = rows /\ history' = history /\ draft'[s] = draft[s]
          BY <3>1, <4>2 DEF Finish
        <5> QED
          BY <2>b, <3>1, <4>2, <5>1 DEF Held, FateOf, Sound
      <4> QED
        BY <3>1, <4>1, <4>2 DEF Finish
    <3>4. CASE string[s].root
      <4>1. string' = string /\ stmt' = stmt /\ pc'[s] = "inserted"
        BY <2>16, <3>4 DEF EndString
      <4>2. Begun(s)' => stmt'[s] \in Held(s)'
        BY <2>b, <3>1, <3>3, <4>1 DEF FateOf, Begun
      <4>3. FateOf(s)'
        BY <2>b, <3>1, <3>3, <4>1, <4>2 DEF FateOf, Sound
      <4> QED
        BY <3>2, <3>3, <4>3
    <3>5. CASE ~string[s].root
      <4>1. pc'[s] = "ready"
        BY <2>16, <3>5 DEF EndString, Leave
      <4>2. FateOf(s)'
        BY <2>b, <3>1, <3>3, <4>1 DEF FateOf, Sound
      <4> QED
        BY <3>2, <3>3, <4>2
    <3> QED
      BY <3>4, <3>5
  <2> QED
    BY <1>2, <2>1, <2>2, <2>3, <2>4, <2>5, <2>6, <2>7, <2>8, <2>10,
       <2>11, <2>12, <2>13, <2>14, <2>15, <2>16 DEF Session
<1> QED
  BY <1>1, <1>2 DEF Next

(* No rollback of a block, failed statement or stopped backend leaves a    *)
(* history row behind whose user row is gone, unless the query string      *)
(* itself ended the transaction of the INSERT it begins with.              *)
THEOREM TracesShareTheirRowsFate == Spec => []NoPhantomTrace
<1>1. FateInv => NoPhantomTrace
  BY DEF FateInv, NoPhantomTrace, Sound, About
<1>2. TypeOK /\ FateInv /\ [Next]_vars => FateInv'
  BY FateNext
<1> QED
  BY <1>1, <1>2, FateInit, TypeCorrect, PTL DEF Spec

===============================================================================
