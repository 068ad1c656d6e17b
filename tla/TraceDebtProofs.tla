--------------------------- MODULE TraceDebtProofs ---------------------------
(***************************************************************************)
(* No row without its trace: an INSERT that begins its query string and is *)
(* committed is traced, unless an error, a stop or its own string cut the  *)
(* trace short.                                                            *)
(***************************************************************************)
EXTENDS TraceFateProofs

(* The session is at work on the INSERT its string begins with.            *)
AtWork(s) == /\ pc[s] \in {"running", "inserted", "chained"}
             /\ string[s].leads /\ string[s].steps > 0

Logged(r) == r.leads /\ r.table \notin Unlogged

TracedIn(r, hist) == \E h \in hist : h.of = r.id

(* The inductive invariant behind TracedUnlessCut, for one session: every   *)
(* row of its transaction that is to be traced is the one it is at work on, *)
(* or has its trace in the same transaction; and while it runs statements,  *)
(* or is inside a block, a committed row it is at work on counts as cut off *)
(* from its trace.                                                          *)
DebtOf(s) ==
  /\ \A r \in draft[s].rows : /\ r.id \in 1 .. inserts
                              /\ Logged(r) => r = stmt[s] \/ TracedIn(r, draft[s].history)
  /\ stmt[s].id \in 0 .. inserts
  /\ ~AtWork(s) => stmt[s].id = 0
  /\ AtWork(s) => string[s].root
  /\ (pc[s] = "running" \/ block[s] # "none") /\ stmt[s] \in rows => stmt[s] \in untraced
  /\ pc[s] = "chained" => TracedIn(stmt[s], trace[s])

(* No session is at work on a row of another one's transaction.            *)
Apart(s, o) == \A r \in draft[s].rows : r.id # stmt[o].id

Settled(r) == \/ ~Logged(r) \/ TracedIn(r, history) \/ r \in untraced
              \/ \E s \in Sessions : r = stmt[s]

DebtInv == /\ \A r \in rows : r.id \in 1 .. inserts /\ Settled(r)
           /\ \A s \in Sessions : DebtOf(s)
           /\ \A s \in Sessions : \A o \in Sessions \ {s} : Apart(s, o)

(* There is nothing to trace at first.                                     *)
LEMMA DebtInit == Init => DebtInv
<1> SUFFICES ASSUME Init PROVE DebtInv
  OBVIOUS
<1>1. \A s \in Sessions : stmt[s].id = 0 /\ ~AtWork(s) /\ draft[s].rows = {}
                           /\ pc[s] = "off" /\ block[s] = "none"
  BY DEF Init, NoStmt, NoRows, AtWork
<1>2. rows = {} /\ inserts = 0
  BY DEF Init
<1> QED
  BY <1>1, <1>2 DEF DebtInv, DebtOf, Apart

(* A step of s, as the facts about rows and other sessions see it: rows    *)
(* only come from the transaction of s, and nothing about tracing is       *)
(* forgotten.                                                              *)
StepOf(s) == /\ rows \subseteq rows' /\ rows' \subseteq rows \cup draft[s].rows
             /\ history \subseteq history' /\ untraced \subseteq untraced'
             /\ inserts' \in Nat /\ inserts <= inserts'
             /\ \A o \in Sessions \ {s} :
                  /\ draft'[o] = draft[o] /\ trace'[o] = trace[o]
                  /\ block'[o] = block[o] /\ pc'[o] = pc[o]
                  /\ stmt'[o] = stmt[o] /\ string'[o] = string[o]

(* What is left to show about the session itself: its own facts, that it   *)
(* stays apart from the others, and that what it commits, and what it no   *)
(* longer is at work on, is settled.                                       *)
OwnDebt(s) == /\ DebtOf(s)'
              /\ \A r \in draft'[s].rows : r \in draft[s].rows \/ r.id > inserts
              /\ stmt'[s].id \in {0, stmt[s].id} \/ stmt'[s].id > inserts
              /\ \A r \in rows' : r \in draft[s].rows \/ r = stmt[s] => Settled(r)'

(* A step that meets these is a step that keeps the invariant.             *)
LEMMA DebtKept ==
  ASSUME TypeOK, DebtInv, NEW s \in Sessions, StepOf(s), OwnDebt(s)
  PROVE  DebtInv'
<1>1. inserts \in Nat /\ inserts' \in Nat /\ inserts <= inserts'
  BY DEF TypeOK, StepOf
<1>2. /\ \A r \in rows : r.id \in 1 .. inserts /\ Settled(r)
      /\ \A o \in Sessions : DebtOf(o)
      /\ \A o \in Sessions \ {s} : Apart(s, o) /\ Apart(o, s)
      /\ \A q \in Sessions : \A o \in Sessions \ {q} : Apart(q, o)
  BY DEF DebtInv
<1>3. \A r \in rows' : r.id \in 1 .. inserts'
  BY <1>1, <1>2 DEF StepOf, DebtOf
<1>4. ASSUME NEW r \in rows' PROVE Settled(r)'
  <2>1. CASE r \in draft[s].rows \/ r = stmt[s]
    BY <2>1 DEF OwnDebt
  <2>2. CASE r \notin draft[s].rows /\ r # stmt[s]
    <3>1. r \in rows /\ Settled(r)
      BY <1>2, <2>2 DEF StepOf
    <3>2. TracedIn(r, history) => TracedIn(r, history')
      BY DEF TracedIn, StepOf
    <3>3. ASSUME NEW o \in Sessions, r = stmt[o] PROVE r = stmt'[o]
      BY <2>2, <3>3 DEF StepOf
    <3> QED
      BY <3>1, <3>2, <3>3 DEF Settled, StepOf
  <2> QED
    BY <2>1, <2>2
<1>5. ASSUME NEW o \in Sessions \ {s} PROVE DebtOf(o)'
  <2>1. DebtOf(o) /\ Apart(s, o)
    BY <1>2
  <2>2. stmt[o] \in rows' => stmt[o] \in rows
    BY <2>1 DEF Apart, StepOf
  <2>3. AtWork(o)' = AtWork(o)
    BY DEF AtWork, StepOf
  <2>4. /\ draft'[o] = draft[o] /\ trace'[o] = trace[o] /\ block'[o] = block[o]
        /\ pc'[o] = pc[o] /\ stmt'[o] = stmt[o] /\ string'[o] = string[o]
        /\ untraced \subseteq untraced'
    BY DEF StepOf
  <2>5. \A i : i \in 1 .. inserts => i \in 1 .. inserts'
    BY <1>1
  <2>6. stmt[o].id \in 0 .. inserts'
    BY <1>1, <2>1 DEF DebtOf
  <2> QED
    BY <2>1, <2>2, <2>3, <2>4, <2>5, <2>6 DEF DebtOf
<1>6. ASSUME NEW o \in Sessions \ {s} PROVE Apart(s, o)' /\ Apart(o, s)'
  <2>1. Apart(s, o) /\ Apart(o, s) /\ DebtOf(o)
    BY <1>2
  <2>2. stmt'[o] = stmt[o] /\ draft'[o] = draft[o]
    BY DEF StepOf
  <2>3. Apart(s, o)'
    BY <1>1, <2>1, <2>2 DEF Apart, OwnDebt, DebtOf
  <2>4. Apart(o, s)'
    BY <1>1, <2>1, <2>2 DEF Apart, OwnDebt, DebtOf
  <2> QED
    BY <2>3, <2>4
<1>7. ASSUME NEW q \in Sessions, NEW o \in Sessions \ {q} PROVE Apart(q, o)'
  <2>1. CASE q = s \/ o = s
    BY <1>6, <2>1
  <2>2. CASE q # s /\ o # s
    BY <1>2, <2>2 DEF Apart, StepOf
  <2> QED
    BY <2>1, <2>2
<1>8. \A o \in Sessions : DebtOf(o)'
  BY <1>5 DEF OwnDebt
<1> QED
  BY <1>3, <1>4, <1>7, <1>8 DEF DebtInv

(* A committed row stays settled, unless the session turns away from it    *)
(* without a trace or an excuse.                                           *)
LEMMA SettledKept ==
  ASSUME DebtInv, NEW s \in Sessions, StepOf(s), NEW r \in rows,
         \/ r # stmt[s] \/ stmt'[s] = stmt[s]
         \/ ~Logged(r) \/ r \in untraced' \/ TracedIn(r, history')
  PROVE  Settled(r)'
<1>1. Settled(r)
  BY DEF DebtInv
<1>2. TracedIn(r, history) => TracedIn(r, history')
  BY DEF TracedIn, StepOf
<1>3. ASSUME NEW o \in Sessions, r = stmt[o], o # s PROVE r = stmt'[o]
  BY <1>3 DEF StepOf
<1>4. CASE \E o \in Sessions : r = stmt[o]
  <2>1. PICK o \in Sessions : r = stmt[o]
    BY <1>4
  <2>2. CASE o # s
    BY <1>3, <2>1, <2>2 DEF Settled
  <2>3. CASE o = s
    BY <2>1, <2>3 DEF Settled
  <2> QED
    BY <2>2, <2>3
<1> QED
  BY <1>1, <1>2, <1>4 DEF Settled, StepOf

(* A session that has left exec_simple_query is at work on nothing.        *)
LEMMA DebtLeft ==
  ASSUME TypeOK, DebtInv, NEW s \in Sessions, StepOf(s), inserts' = inserts,
         NEW to \in {"off", "ready"}, Leave(s, to),
         \A r \in draft'[s].rows : /\ r \in draft[s].rows
                                   /\ Logged(r) => TracedIn(r, draft'[s].history),
         \A r \in rows' : r \in draft[s].rows \/ r = stmt[s] => Settled(r)'
  PROVE  OwnDebt(s)
<1>1. pc'[s] = to /\ stmt'[s].id = 0
  BY DEF TypeOK, Leave, NoStmt
<1>2. ~AtWork(s)' /\ pc'[s] # "chained" /\ pc'[s] # "running"
  BY <1>1 DEF AtWork
<1>3. inserts \in Nat /\ DebtOf(s) /\ \A r \in rows : r.id \in 1 .. inserts
  BY DEF TypeOK, DebtInv
<1>4. \A r \in rows' : r.id \in 1 .. inserts
  BY <1>3 DEF StepOf, DebtOf
<1>5. stmt'[s] \notin rows'
  BY <1>1, <1>3, <1>4
<1>6. \A r \in draft'[s].rows : r.id \in 1 .. inserts'
  BY <1>3 DEF DebtOf
<1>7. DebtOf(s)'
  BY <1>1, <1>2, <1>3, <1>5, <1>6 DEF DebtOf
<1> QED
  BY <1>1, <1>7 DEF OwnDebt

(* An INSERT brings one new row, which is the one the session is at work   *)
(* on if the string begins with it.                                        *)
LEMMA DebtInserts ==
  ASSUME TypeOK, DebtInv, NEW s \in Sessions, NEW t \in Tables, NEW x \in Texts,
         Insert(s, t, x)
  PROVE  StepOf(s) /\ OwnDebt(s)
<1>b. /\ DebtOf(s) /\ inserts \in Nat /\ \A r \in rows : r.id \in 1 .. inserts
      /\ string[s] \in Strings /\ string[s].steps \in Nat
  BY DEF DebtInv, TypeOK, Strings
<1>c. stmt[s].id = 0 => stmt[s] \notin rows /\ stmt[s] \notin draft[s].rows
  BY <1>b DEF DebtOf
<1>d. ~AtWork(s) => stmt[s].id = 0
  BY <1>b DEF DebtOf
<1> USE DEF TypeOK, heap
<1> DEFINE new == [table |-> t, text |-> x, leads |-> First(s), id |-> inserts + 1]
<1>1. StepOf(s)
  BY DEF Insert, StepOf
<1>2. /\ rows' = rows /\ untraced' = untraced /\ inserts' = inserts + 1
      /\ draft'[s].rows = draft[s].rows \cup {new}
      /\ draft'[s].history = draft[s].history
      /\ pc[s] = "running" /\ pc'[s] = "running"
      /\ stmt'[s] = IF First(s) THEN new ELSE stmt[s]
  BY DEF Insert, Turn
<1>3. /\ string'[s].leads = string[s].leads /\ string'[s].root
      /\ string'[s].steps = string[s].steps + 1
  BY DEF Insert, Strings
<1>4. new.id = inserts + 1 /\ (new.leads <=> First(s)) /\ new \notin rows
  BY <1>b
<1> HIDE DEF new
<1>5. CASE First(s)
  <2>1. ~AtWork(s) /\ AtWork(s)' /\ stmt'[s] = new
    BY <1>b, <1>2, <1>3, <1>5 DEF AtWork, First
  <2>2. stmt[s].id = 0 /\ stmt[s] \notin rows /\ stmt[s] \notin draft[s].rows
    BY <1>c, <1>d, <2>1
  <2>3. \A r \in draft[s].rows : Logged(r) => TracedIn(r, draft'[s].history)
    BY <1>b, <1>2, <2>2 DEF DebtOf
  <2>4. \A r \in draft'[s].rows : r.id \in 1 .. inserts'
    BY <1>b, <1>2, <1>4 DEF DebtOf
  <2>5. \A r \in draft'[s].rows :
          Logged(r) => r = stmt'[s] \/ TracedIn(r, draft'[s].history)
    BY <1>2, <2>1, <2>3
  <2>7. stmt'[s].id \in 0 .. inserts' /\ stmt'[s] \notin rows'
    BY <1>b, <1>2, <1>4, <2>1
  <2>8. DebtOf(s)'
    BY <1>2, <1>3, <2>1, <2>4, <2>5, <2>7 DEF DebtOf
  <2>6. \A r \in rows' : Settled(r)'
    BY <1>1, <1>2, <2>2, SettledKept
  <2> QED
    BY <1>b, <1>1, <1>2, <1>4, <2>1, <2>6, <2>8 DEF OwnDebt
<1>6. CASE ~First(s)
  <2>1. AtWork(s)' = AtWork(s) /\ stmt'[s] = stmt[s]
    BY <1>b, <1>2, <1>3, <1>6 DEF AtWork, First
  <2>2. ~Logged(new)
    BY <1>4, <1>6 DEF Logged
  <2>3. \A r \in draft'[s].rows : r.id \in 1 .. inserts'
    BY <1>b, <1>2, <1>4 DEF DebtOf
  <2>4. \A r \in draft'[s].rows :
          Logged(r) => r = stmt'[s] \/ TracedIn(r, draft'[s].history)
    BY <1>b, <1>2, <2>1, <2>2 DEF DebtOf
  <2>5. stmt'[s].id \in 0 .. inserts'
    BY <1>b, <1>2, <2>1 DEF DebtOf
  <2>8. AtWork(s) \/ stmt[s].id = 0
    BY <1>d
  <2>9. stmt[s] \in rows => stmt[s] \in untraced
    BY <1>b, <1>2 DEF DebtOf
  <2>6. DebtOf(s)'
    BY <1>2, <1>3, <2>1, <2>3, <2>4, <2>5, <2>8, <2>9 DEF DebtOf
  <2>7. \A r \in rows' : Settled(r)'
    BY <1>1, <1>2, <2>1, SettledKept
  <2> QED
    BY <1>b, <1>1, <1>2, <1>4, <2>1, <2>6, <2>7 DEF OwnDebt
<1> QED
  BY <1>5, <1>6

(* The steps of a session, one by one.                                     *)
LEMMA DebtNext == TypeOK /\ FateInv /\ DebtInv /\ [Next]_vars => DebtInv'
<1> SUFFICES ASSUME TypeOK, FateInv, DebtInv, [Next]_vars PROVE DebtInv'
  OBVIOUS
<1>1. CASE UNCHANGED vars
  BY <1>1 DEF vars, heap, DebtInv, DebtOf, Apart, Settled, TracedIn, AtWork
<1>2. ASSUME NEW s \in Sessions, Session(s) PROVE DebtInv'
  <2>a. SUFFICES StepOf(s) /\ OwnDebt(s)
    BY <2>a, DebtKept
  <2>b. /\ DebtOf(s) /\ inserts \in Nat /\ \A r \in rows : r.id \in 1 .. inserts
        /\ string[s] \in Strings /\ string[s].steps \in Nat
        /\ block[s] = "none" => draft[s].history = {}
    BY DEF DebtInv, TypeOK, Strings, FateInv, FateOf
  <2>c. stmt[s].id = 0 => stmt[s] \notin rows /\ stmt[s] \notin draft[s].rows
    BY <2>b DEF DebtOf
  <2>d. ~AtWork(s) => stmt[s].id = 0
    BY <2>b DEF DebtOf
  <2> USE DEF TypeOK, heap
  <2>1. CASE Start(s)
    <3>1. StepOf(s)
      BY <2>1 DEF Start, StepOf
    <3>2. /\ rows' = rows /\ draft' = draft /\ stmt' = stmt /\ inserts' = inserts
          /\ untraced' = untraced /\ block' = block
          /\ pc[s] = "off" /\ pc'[s] = "ready"
      BY <2>1 DEF Start
    <3>3. ~AtWork(s) /\ ~AtWork(s)'
      BY <3>2 DEF AtWork
    <3>4. DebtOf(s)'
      BY <2>b, <2>c, <2>d, <3>2, <3>3 DEF DebtOf
    <3>5. \A r \in rows' : Settled(r)'
      BY <3>1, <3>2, SettledKept
    <3> QED
      BY <3>1, <3>2, <3>4, <3>5 DEF OwnDebt
  <2>2. CASE Stop(s) \/ StatementFails(s) \/ RecordFails(s)
    <3>1. StepOf(s)
      BY <2>2 DEF Stop, StatementFails, RecordFails, Abort, Leave, StepOf
    <3>2. /\ rows' = rows /\ inserts' = inserts /\ draft'[s] = NoRows
          /\ untraced' = untraced \cup Owed(s)
          /\ \E to \in {"off", "ready"} : Leave(s, to)
      BY <2>2 DEF Stop, StatementFails, RecordFails, Abort
    <3>3. ASSUME NEW r \in rows PROVE Settled(r)'
      <4>1. r = stmt[s] => r \in untraced'
        BY <3>2 DEF Owed
      <4> QED
        BY <3>1, <4>1, SettledKept
    <3>4. draft'[s].rows = {}
      BY <3>2 DEF NoRows
    <3> QED
      BY <3>1, <3>2, <3>3, <3>4, DebtLeft
  <2>3. CASE BeginBlock(s)
    <3>1. StepOf(s)
      BY <2>3 DEF BeginBlock, Count, StepOf
    <3>2. /\ rows' = rows /\ draft' = draft /\ stmt' = stmt /\ inserts' = inserts
          /\ untraced' = untraced
          /\ pc[s] = "running" /\ pc'[s] = "running" /\ ~First(s)
      BY <2>3 DEF BeginBlock, Turn
    <3>3. /\ string'[s].leads = string[s].leads /\ string'[s].root = string[s].root
          /\ string'[s].steps = string[s].steps + 1
      BY <2>3 DEF BeginBlock, Count, Strings
    <3>4. AtWork(s)' = AtWork(s)
      BY <2>b, <3>2, <3>3 DEF AtWork, First
    <3>5. DebtOf(s)'
      BY <2>b, <3>2, <3>3, <3>4 DEF DebtOf
    <3>6. \A r \in rows' : Settled(r)'
      BY <3>1, <3>2, SettledKept
    <3> QED
      BY <3>1, <3>2, <3>5, <3>6 DEF OwnDebt
  <2>5. CASE Commit(s)
    <3>1. StepOf(s)
      BY <2>5 DEF Commit, Count, StepOf
    <3>2. /\ rows' = rows \cup draft[s].rows /\ history' = history \cup draft[s].history
          /\ draft'[s] = NoRows /\ stmt' = stmt /\ inserts' = inserts
          /\ untraced' = untraced \cup {r \in draft[s].rows : r = stmt[s]}
          /\ pc[s] = "running" /\ pc'[s] = "running" /\ ~First(s)
      BY <2>5 DEF Commit, Turn
    <3>3. /\ string'[s].leads = string[s].leads /\ string'[s].root = string[s].root
          /\ string'[s].steps = string[s].steps + 1
      BY <2>5 DEF Commit, Count, Strings
    <3>4. AtWork(s)' = AtWork(s)
      BY <2>b, <3>2, <3>3 DEF AtWork, First
    <3>5. draft'[s].rows = {}
      BY <3>2 DEF NoRows
    <3>6. stmt[s] \in rows' => stmt[s] \in untraced'
      BY <2>b, <3>2 DEF DebtOf
    <3>7. DebtOf(s)'
      BY <2>b, <3>2, <3>3, <3>4, <3>5, <3>6 DEF DebtOf
    <3>8. ASSUME NEW r \in rows' PROVE Settled(r)'
      <4>1. CASE r \in rows
        BY <3>1, <3>2, <4>1, SettledKept
      <4>2. CASE r \in draft[s].rows
        <5>1. Logged(r) => r = stmt[s] \/ TracedIn(r, draft[s].history)
          BY <2>b, <4>2 DEF DebtOf
        <5>2. TracedIn(r, draft[s].history) => TracedIn(r, history')
          BY <3>2 DEF TracedIn
        <5>3. r = stmt[s] => r \in untraced'
          BY <3>2, <4>2
        <5> QED
          BY <5>1, <5>2, <5>3 DEF Settled
      <4> QED
        BY <3>2, <4>1, <4>2
    <3> QED
      BY <3>1, <3>2, <3>5, <3>7, <3>8 DEF OwnDebt
  <2>6. CASE Rollback(s)
    <3>1. StepOf(s)
      BY <2>6 DEF Rollback, Count, StepOf
    <3>2. /\ rows' = rows /\ draft'[s] = NoRows /\ stmt' = stmt /\ inserts' = inserts
          /\ untraced' = untraced
          /\ pc[s] = "running" /\ pc'[s] = "running" /\ ~First(s)
      BY <2>6 DEF Rollback, Turn
    <3>3. /\ string'[s].leads = string[s].leads /\ string'[s].root = string[s].root
          /\ string'[s].steps = string[s].steps + 1
      BY <2>6 DEF Rollback, Count, Strings
    <3>4. AtWork(s)' = AtWork(s)
      BY <2>b, <3>2, <3>3 DEF AtWork, First
    <3>5. draft'[s].rows = {}
      BY <3>2 DEF NoRows
    <3>6. DebtOf(s)'
      BY <2>b, <3>2, <3>3, <3>4, <3>5 DEF DebtOf
    <3>7. \A r \in rows' : Settled(r)'
      BY <3>1, <3>2, SettledKept
    <3> QED
      BY <3>1, <3>2, <3>5, <3>6, <3>7 DEF OwnDebt
  <2>7. ASSUME NEW t \in Tables, CreateTable(s, t) PROVE StepOf(s) /\ OwnDebt(s)
    <3>1. StepOf(s)
      BY <2>7 DEF CreateTable, StepOf
    <3>2. /\ rows' = rows /\ draft' = draft /\ inserts' = inserts
          /\ untraced' = untraced /\ block' = block
          /\ pc[s] = "ready" /\ pc'[s] = "created" /\ stmt'[s].id = stmt[s].id
      BY <2>7 DEF CreateTable, Statements
    <3>3. ~AtWork(s) /\ ~AtWork(s)'
      BY <3>2 DEF AtWork
    <3>4. stmt[s].id = 0 /\ stmt[s] \notin rows /\ stmt[s] \notin draft[s].rows
          /\ stmt'[s] \notin rows
      BY <2>b, <2>c, <2>d, <3>2, <3>3
    <3>5. DebtOf(s)'
      BY <2>b, <3>2, <3>3, <3>4 DEF DebtOf
    <3>6. \A r \in rows' : Settled(r)'
      BY <3>1, <3>2, <3>4, SettledKept
    <3> QED
      BY <3>1, <3>2, <3>5, <3>6 DEF OwnDebt
  <2>8. CASE CreateHistory(s) \/ NoHistoryTable(s)
    <3>1. StepOf(s)
      BY <2>8 DEF CreateHistory, NoHistoryTable, Leave, StepOf
    <3>2. /\ rows' = rows /\ draft' = draft /\ inserts' = inserts
          /\ pc[s] = "created" /\ Leave(s, "ready")
      BY <2>8 DEF CreateHistory, NoHistoryTable
    <3>3. stmt[s] \notin rows /\ stmt[s] \notin draft[s].rows
      BY <2>c, <2>d, <3>2 DEF AtWork
    <3>4. \A r \in rows' : Settled(r)'
      BY <3>1, <3>2, <3>3, SettledKept
    <3>5. \A r \in draft[s].rows : Logged(r) => TracedIn(r, draft[s].history)
      BY <2>b, <3>3 DEF DebtOf
    <3> QED
      BY <3>1, <3>2, <3>4, <3>5, DebtLeft
  <2>9. ASSUME NEW leads \in BOOLEAN, Receive(s, leads) PROVE StepOf(s) /\ OwnDebt(s)
    <3>1. StepOf(s)
      BY <2>9 DEF Receive, StepOf
    <3>2. /\ rows' = rows /\ draft' = draft /\ stmt' = stmt /\ inserts' = inserts
          /\ untraced' = untraced /\ block' = block
          /\ pc[s] = "ready" /\ pc'[s] = "running" /\ string'[s].steps = 0
      BY <2>9 DEF Receive, NoString
    <3>3. ~AtWork(s) /\ ~AtWork(s)'
      BY <3>2 DEF AtWork
    <3>4. DebtOf(s)'
      BY <2>b, <2>c, <2>d, <3>2, <3>3 DEF DebtOf
    <3>5. \A r \in rows' : Settled(r)'
      BY <3>1, <3>2, SettledKept
    <3> QED
      BY <3>1, <3>2, <3>4, <3>5 DEF OwnDebt
  <2>10. ASSUME NEW t \in Tables, NEW x \in Texts, Insert(s, t, x)
         PROVE  StepOf(s) /\ OwnDebt(s)
    BY <2>10, DebtInserts
  <2>11. CASE SkipTrace(s)
    <3>1. StepOf(s)
      BY <2>11 DEF SkipTrace, Leave, StepOf
    <3>2. /\ rows' = rows /\ draft' = draft /\ inserts' = inserts
          /\ Leave(s, "ready") /\ (~string[s].leads \/ stmt[s].table \in Unlogged)
      BY <2>11 DEF SkipTrace
    <3>3. stmt[s] \in rows \cup draft[s].rows => ~Logged(stmt[s])
      BY <2>c, <2>d, <3>2 DEF AtWork, Logged
    <3>4. \A r \in rows' : Settled(r)'
      BY <3>1, <3>2, <3>3, SettledKept
    <3>5. \A r \in draft[s].rows : Logged(r) => TracedIn(r, draft[s].history)
      BY <2>b, <3>3 DEF DebtOf
    <3> QED
      BY <3>1, <3>2, <3>4, <3>5, DebtLeft
  <2>12. ASSUME NEW c \in Contents, Chain(s, c) PROVE StepOf(s) /\ OwnDebt(s)
    <3>1. StepOf(s)
      BY <2>12 DEF Chain, StepOf
    <3>2. /\ rows' = rows /\ draft' = draft /\ stmt' = stmt /\ inserts' = inserts
          /\ untraced' = untraced /\ block' = block /\ string' = string
          /\ pc[s] = "inserted" /\ pc'[s] = "chained"
          /\ trace'[s] = {HistoryRow(s, c)}
      BY <2>12 DEF Chain
    <3>3. AtWork(s)' = AtWork(s)
      BY <3>2 DEF AtWork
    <3>4. TracedIn(stmt[s], trace'[s])
      BY <3>2 DEF TracedIn, HistoryRow
    <3>5. DebtOf(s)'
      BY <2>b, <3>2, <3>3, <3>4 DEF DebtOf
    <3>6. \A r \in rows' : Settled(r)'
      BY <3>1, <3>2, SettledKept
    <3> QED
      BY <3>1, <3>2, <3>5, <3>6 DEF OwnDebt
  <2>13. CASE Record(s)
    <3> DEFINE d == [draft[s] EXCEPT !.history = @ \cup trace[s]]
    <3>a. d.rows = draft[s].rows /\ d.history = draft[s].history \cup trace[s]
      OBVIOUS
    <3>b. Finish(s, d) /\ Leave(s, "ready") /\ inserts' = inserts /\ untraced' = untraced
      BY <2>13 DEF Record
    <3>1. StepOf(s)
      BY <2>13, <3>a DEF Record, Finish, Leave, StepOf
    <3>2. TracedIn(stmt[s], trace[s])
      BY <2>13, <2>b DEF Record, DebtOf
    <3> HIDE DEF d
    <3>3. \A r \in draft[s].rows : Logged(r) => TracedIn(r, d.history)
      BY <2>b, <3>a, <3>2 DEF DebtOf, TracedIn
    <3>4. CASE block[s] = "none"
      <4>1. draft'[s].rows = {} /\ history' = history \cup d.history
        BY <3>b, <3>4 DEF Finish, NoRows
      <4>2. \A r : TracedIn(r, d.history) => TracedIn(r, history')
        BY <4>1 DEF TracedIn
      <4>3. TracedIn(stmt[s], history')
        BY <3>a, <3>2, <4>1 DEF TracedIn
      <4>4. \A r \in rows : Settled(r)'
        BY <3>1, <4>3, SettledKept
      <4>5. \A r \in draft[s].rows : Settled(r)'
        BY <3>3, <4>2 DEF Settled
      <4>6. \A r \in rows' : Settled(r)'
        BY <3>1, <4>4, <4>5 DEF StepOf
      <4> QED
        BY <3>1, <3>b, <4>1, <4>6, DebtLeft
    <3>5. CASE block[s] = "open"
      <4>1. draft'[s] = d /\ rows' = rows
        BY <3>b, <3>5 DEF Finish
      <4>2. stmt[s] \in rows => stmt[s] \in untraced'
        BY <2>b, <3>b, <3>5 DEF DebtOf
      <4>3. \A r \in rows' : Settled(r)'
        BY <3>1, <4>1, <4>2, SettledKept
      <4> QED
        BY <3>1, <3>a, <3>b, <3>3, <4>1, <4>3, DebtLeft
    <3> QED
      BY <3>4, <3>5, <3>b DEF Finish
  <2>14. CASE EndString(s)
    <3>a. /\ Finish(s, draft[s]) /\ inserts' = inserts /\ untraced' = untraced
          /\ pc[s] = "running" /\ string[s].steps > 0 /\ block' = block
      BY <2>14 DEF EndString
    <3>1. StepOf(s)
      BY <2>14 DEF EndString, Finish, Leave, StepOf
    <3>2. \/ block[s] = "none" /\ draft'[s].rows = {} /\ rows' = rows \cup draft[s].rows
          \/ block[s] # "none" /\ draft'[s] = draft[s] /\ rows' = rows
      BY <3>a DEF Finish, NoRows
    <3>3. block[s] = "none" => \A r \in draft[s].rows : Logged(r) => r = stmt[s]
      BY <2>b DEF DebtOf, TracedIn
    <3>4. CASE string[s].root
      <4>1. /\ pc'[s] = "inserted" /\ string' = string /\ stmt' = stmt
        BY <2>14, <3>4 DEF EndString
      <4>2. AtWork(s)' = AtWork(s)
        BY <3>a, <4>1 DEF AtWork
      <4>3. \A r \in rows : Settled(r)'
        BY <3>1, <4>1, SettledKept
      <4>4. \A r \in rows' : Settled(r)'
        BY <3>2, <3>3, <4>1, <4>3 DEF Settled
      <4>5. DebtOf(s)'
        BY <2>b, <3>a, <3>2, <4>1, <4>2 DEF DebtOf
      <4> QED
        BY <3>1, <3>2, <4>1, <4>4, <4>5 DEF OwnDebt
    <3>5. CASE ~string[s].root
      <4>1. Leave(s, "ready")
        BY <2>14, <3>5 DEF EndString
      <4>2. stmt[s] \notin rows /\ stmt[s] \notin draft[s].rows
        BY <2>b, <2>c, <3>5 DEF DebtOf
      <4>3. \A r \in rows : Settled(r)'
        BY <3>1, <4>2, SettledKept
      <4>4. \A r \in rows' : Settled(r)'
        BY <3>2, <3>3, <4>2, <4>3 DEF Settled
      <4>5. \A r \in draft'[s].rows :
              r \in draft[s].rows /\ (Logged(r) => TracedIn(r, draft'[s].history))
        BY <2>b, <3>2, <4>2 DEF DebtOf
      <4> QED
        BY <3>1, <3>a, <4>1, <4>4, <4>5, DebtLeft
    <3> QED
      BY <3>4, <3>5
  <2> QED
    BY <1>2, <2>1, <2>2, <2>3, <2>5, <2>6, <2>7, <2>8, <2>9, <2>10, <2>11, <2>12,
       <2>13, <2>14 DEF Session
<1> QED
  BY <1>1, <1>2 DEF Next

(* An INSERT that begins its query string and is committed with the string  *)
(* or its block has its trace, unless the trace is being written or an      *)
(* error, a stop or the string itself cut it short: what exec_simple_query  *)
(* and parsestring do together, for any number of sessions and tables.      *)
THEOREM RowsAreTracedUnlessCut == Spec => []TracedUnlessCut
<1>1. DebtInv => TracedUnlessCut
  BY DEF DebtInv, TracedUnlessCut, Settled, Logged, TracedIn, Owed
<1>2. TypeOK /\ FateInv /\ [Next]_vars => FateInv'
  BY FateNext
<1>3. TypeOK /\ FateInv /\ DebtInv /\ [Next]_vars => DebtInv'
  BY DebtNext
<1> QED
  BY <1>1, <1>2, <1>3, FateInit, DebtInit, TypeCorrect, PTL DEF Spec

===============================================================================
