----------------------------- MODULE TraceHistory -----------------------------
(***************************************************************************)
(* The trace history of authenticated tables: exec_simple_query and        *)
(* parsestring of src/backend/tcop/postgres.c.                             *)
(*                                                                         *)
(* A backend keeps the head of a hash chain (previsou_hash) and a counter  *)
(* (tx_id) in its own memory.  A client sends query strings of one or more *)
(* statements.  exec_simple_query runs the statements one after the other  *)
(* and then, if one of them was an INSERT into a table with an mbtree      *)
(* index, calls parsestring once on the text of the whole string.  If that *)
(* text begins with INSERT, parsestring extends the chain and runs an      *)
(* INSERT of a history row into <table>_history as a query string of its   *)
(* own.  Outside a transaction block the user's row is committed by then;  *)
(* inside one, both rows share the fate of the block, but the head does    *)
(* not.                                                                    *)
(*                                                                         *)
(* A hash is the sequence of contents it was computed from: sha256_pg is   *)
(* taken to be free of collisions.                                         *)
(***************************************************************************)
EXTENDS Naturals, Sequences, FiniteSets

CONSTANTS Sessions,   \* client sessions
          Tables,     \* tables with an mbtree index
          HistoryNamed, \* those with "history" in their name
          PgNamed,    \* those with "pg_" in their name
          Texts,      \* what the VALUES lists of INSERT statements say
          Contents,   \* what parsestring makes of them
          Squeeze,    \* Texts -> Contents: quotes and blanks are dropped
          MaxStatements, \* bound on the statements of a query string
          MaxInserts, \* bound on INSERT statements
          MaxStarts   \* bound on the backends one session may start, the others
                      \* starting fewer

ASSUME TraceAssumption == /\ Tables # {} /\ Texts # {}
                          /\ HistoryNamed \subseteq Tables
                          /\ PgNamed \subseteq Tables
                          /\ Squeeze \in [Texts -> Contents]
                          /\ MaxStatements \in Nat
                          /\ MaxInserts \in Nat
                          /\ MaxStarts \in Nat

VARIABLES
  tables,        \* tables that exist
  histories,     \* tables whose <table>_history exists
  rows,          \* committed INSERTs of users, each with all its rows
  history,       \* committed history rows
  backend,       \* per session: how often a backend was started; 0 = never
  pc,            \* per session: "off", "ready" for a string, "running" one,
                 \* "created", "inserted" (in parsestring) or "chained"
  block,         \* per session: "none", "open" or "failed" transaction block
  string,        \* per session: the query string: whether its text begins with
                 \* INSERT, how many statements have run, whether one of them
                 \* has set hashinfo, and whether a COMMIT or ROLLBACK has
                 \* ended the transaction of the INSERT it begins with
  stmt,          \* per session: the INSERT the text begins with, or the CREATE
  trace,         \* per session: the history row being inserted, if any
  draft,         \* per session: rows of the transaction, not yet committed
  previsou_hash, \* per session: the head of the backend's chain
  tx_id,         \* per session: the number of the next history row
  inserts,       \* INSERT statements executed so far
  untraced       \* history: committed INSERTs cut off from their trace, by an
                 \* error, a stop, or a COMMIT in their own string

catalog == <<tables, histories>>
heap == <<rows, history>>
chain == <<previsou_hash, tx_id>>
vars == <<catalog, heap, backend, pc, block, string, stmt, trace, draft, chain,
          inserts, untraced>>

Unlogged == HistoryNamed \cup PgNamed

Genesis == <<>>
HashOf(previous, content) == Append(previous, content)

NoRows == [rows |-> {}, history |-> {}]
NoString == [leads |-> FALSE, steps |-> 0, root |-> FALSE, ended |-> FALSE]
NoStmt == [table |-> CHOOSE t \in Tables : TRUE,
           text |-> CHOOSE x \in Texts : TRUE, leads |-> FALSE, id |-> 0]

Init == /\ tables = {} /\ histories = {}
        /\ rows = {} /\ history = {}
        /\ backend = [s \in Sessions |-> 0]
        /\ pc = [s \in Sessions |-> "off"]
        /\ block = [s \in Sessions |-> "none"]
        /\ string = [s \in Sessions |-> NoString]
        /\ stmt = [s \in Sessions |-> NoStmt]
        /\ trace = [s \in Sessions |-> {}]
        /\ draft = [s \in Sessions |-> NoRows]
        /\ previsou_hash = [s \in Sessions |-> Genesis]
        /\ tx_id = [s \in Sessions |-> 1]
        /\ inserts = 0
        /\ untraced = {}

-------------------------------------------------------------------------------
(* Backends *)

(* PostgresMain of a new backend: the chain starts anew. *)
Start(s) == /\ pc[s] = "off"
            /\ backend[s] > 0 => \A q \in Sessions : backend[q] < MaxStarts
            /\ backend' = [backend EXCEPT ![s] = @ + 1]
            /\ pc' = [pc EXCEPT ![s] = "ready"]
            /\ previsou_hash' = [previsou_hash EXCEPT ![s] = Genesis]
            /\ tx_id' = [tx_id EXCEPT ![s] = 1]
            /\ UNCHANGED <<catalog, heap, block, string, stmt, draft, trace, inserts, untraced>>

(* The committed INSERT whose trace the session still has to write. *)
Owed(s) == {r \in rows : r = stmt[s]}

(* exec_simple_query is left: what it knew of the string is gone. *)
Leave(s, to) == /\ pc' = [pc EXCEPT ![s] = to]
                /\ string' = [string EXCEPT ![s] = NoString]
                /\ stmt' = [stmt EXCEPT ![s] = NoStmt]

(* The backend ends, by the client's wish or not, between any two steps: *)
(* an open transaction is rolled back.                                   *)
Stop(s) == /\ pc[s] # "off"
           /\ Leave(s, "off")
           /\ block' = [block EXCEPT ![s] = "none"]
           /\ draft' = [draft EXCEPT ![s] = NoRows]
           /\ trace' = [trace EXCEPT ![s] = {}]
           /\ untraced' = untraced \cup Owed(s)
           /\ UNCHANGED <<catalog, heap, backend, chain, inserts>>

-------------------------------------------------------------------------------
(* Query strings and transactions, as far as the rows are concerned *)

(* exec_simple_query gets a string.  leads: its text begins with INSERT,   *)
(* without a blank, a comment or another statement before it.              *)
Receive(s, leads) ==
  /\ pc[s] = "ready"
  /\ pc' = [pc EXCEPT ![s] = "running"]
  /\ string' = [string EXCEPT ![s] = [NoString EXCEPT !.leads = leads]]
  /\ UNCHANGED <<catalog, heap, backend, block, stmt, draft, chain, trace, inserts, untraced>>

(* Another statement of the string; a text that begins with INSERT has     *)
(* that one first.                                                         *)
First(s) == string[s].leads /\ string[s].steps = 0
Turn(s) == pc[s] = "running" /\ string[s].steps < MaxStatements
Count(s, ended) ==
  string' = [string EXCEPT ![s] = [string[s] EXCEPT !.steps = @ + 1, !.ended = ended]]

(* finish_xact_command, d being what the transaction has written: outside  *)
(* a block it is committed, inside one it waits for the block's end.       *)
Finish(s, d) == \/ /\ block[s] = "none"
                   /\ rows' = rows \cup d.rows
                   /\ history' = history \cup d.history
                   /\ draft' = [draft EXCEPT ![s] = NoRows]
                \/ /\ block[s] = "open"
                   /\ draft' = [draft EXCEPT ![s] = d]
                   /\ UNCHANGED heap

(* ereport(ERROR): the transaction is rolled back, the rest of the string  *)
(* dropped, and control returns to PostgresMain.  A block fails, unless it *)
(* was its COMMIT that did.                                                *)
Abort(s) == /\ Leave(s, "ready")
            /\ \E b \in IF block[s] = "none" THEN {"none"} ELSE {"none", "failed"} :
                 block' = [block EXCEPT ![s] = b]
            /\ draft' = [draft EXCEPT ![s] = NoRows]
            /\ untraced' = untraced \cup Owed(s)

(* BEGIN: what the string has written before is part of the block. *)
BeginBlock(s) == /\ Turn(s) /\ ~First(s)
                 /\ block[s] # "failed"
                 /\ block' = [block EXCEPT ![s] = "open"]
                 /\ Count(s, string[s].ended)
                 /\ UNCHANGED <<catalog, heap, backend, pc, stmt, draft, chain, trace, inserts, untraced>>

(* A statement, or the commit at the string's end, fails for whatever reason. *)
StatementFails(s) == /\ pc[s] = "running"
                     /\ Abort(s)
                     /\ UNCHANGED <<catalog, heap, backend, chain, trace, inserts>>

(* COMMIT; without a block it ends the transaction of the string. *)
Commit(s) == /\ Turn(s) /\ ~First(s)
             /\ block[s] # "failed"
             /\ rows' = rows \cup draft[s].rows
             /\ history' = history \cup draft[s].history
             /\ draft' = [draft EXCEPT ![s] = NoRows]
             /\ block' = [block EXCEPT ![s] = "none"]
             /\ untraced' = untraced \cup {r \in draft[s].rows : r = stmt[s]}
             /\ Count(s, string[s].leads)
             /\ UNCHANGED <<catalog, backend, pc, stmt, chain, trace, inserts>>

(* ROLLBACK, with or without a block, or COMMIT of a failed one: the chain *)
(* is not taken back.                                                      *)
Rollback(s) == /\ Turn(s) /\ ~First(s)
               /\ draft' = [draft EXCEPT ![s] = NoRows]
               /\ block' = [block EXCEPT ![s] = "none"]
               /\ Count(s, string[s].leads)
               /\ UNCHANGED <<catalog, heap, backend, pc, stmt, chain, trace, inserts, untraced>>

(* The last statement is finished.  If hashinfo was set, parsestring is    *)
(* called on the text.                                                     *)
EndString(s) ==
  /\ pc[s] = "running"
  /\ string[s].steps > 0
  /\ Finish(s, draft[s])
  /\ IF string[s].root
       THEN pc' = [pc EXCEPT ![s] = "inserted"] /\ UNCHANGED <<string, stmt>>
       ELSE Leave(s, "ready")
  /\ UNCHANGED <<catalog, backend, block, chain, trace, inserts, untraced>>

-------------------------------------------------------------------------------
(* CREATE TABLE and CREATE AUTHTABLE, as strings of their own outside a block *)

(* The table is created and the statement's transaction finished; for     *)
(* CREATE AUTHTABLE parsestring goes on to create <table>_history.        *)
CreateTable(s, t) == /\ pc[s] = "ready"
                     /\ block[s] = "none"
                     /\ t \notin tables
                     /\ tables' = tables \cup {t}
                     /\ stmt' = [stmt EXCEPT ![s].table = t]
                     /\ pc' = [pc EXCEPT ![s] = "created"]
                     /\ UNCHANGED <<histories, heap, backend, block, string, draft, chain, trace, inserts, untraced>>

CreateHistory(s) == /\ pc[s] = "created"
                    /\ histories' = histories \cup ({stmt[s].table} \ HistoryNamed)
                    /\ Leave(s, "ready")
                    /\ UNCHANGED <<tables, heap, backend, block, draft, chain, trace, inserts, untraced>>

(* Plain CREATE TABLE, or the second statement fails. *)
NoHistoryTable(s) == /\ pc[s] = "created"
                     /\ Leave(s, "ready")
                     /\ UNCHANGED <<catalog, heap, backend, block, draft, chain, trace, inserts, untraced>>

-------------------------------------------------------------------------------
(* INSERT *)

(* The portal runs and hands back a root: hashinfo is set. *)
Insert(s, t, x) ==
  LET r == [table |-> t, text |-> x, leads |-> First(s), id |-> inserts + 1]
  IN  /\ Turn(s)
      /\ block[s] # "failed"
      /\ t \in tables
      /\ inserts < MaxInserts
      /\ inserts' = inserts + 1
      /\ draft' = [draft EXCEPT ![s].rows = @ \cup {r}]
      /\ stmt' = IF First(s) THEN [stmt EXCEPT ![s] = r] ELSE stmt
      /\ string' = [string EXCEPT ![s] = [string[s] EXCEPT !.steps = @ + 1, !.root = TRUE]]
      /\ UNCHANGED <<catalog, heap, backend, pc, block, chain, trace, untraced>>

(* Mutant of SkipTrace: the name filter lets no name through. *)
SkipAnyTrace(s) == /\ pc[s] = "inserted"
                   /\ Leave(s, "ready")
                   /\ UNCHANGED <<catalog, heap, backend, block, draft, chain, trace, inserts, untraced>>

(* parsestring returns without a trace: the text does not begin with       *)
(* INSERT, or the name of its first table is filtered out.                 *)
SkipTrace(s) == /\ pc[s] = "inserted"
                /\ ~string[s].leads \/ stmt[s].table \in Unlogged
                /\ Leave(s, "ready")
                /\ UNCHANGED <<catalog, heap, backend, block, draft, chain, trace, inserts, untraced>>

(* What parsestring takes for the VALUES list: for a lone INSERT the list  *)
(* without quotes and blanks, else some piece of the string.               *)
Parsed(s) == IF string[s].steps = 1 THEN {Squeeze[stmt[s].text]} ELSE Contents

(* Mutant of HistoryRow: tx_id is read after its increment. *)
RowNumberedLate(s, c) ==
  [table    |-> stmt[s].table,
   tx_id    |-> tx_id[s] + 1,
   content  |-> c,
   previous |-> previsou_hash[s],
   hash     |-> HashOf(previsou_hash[s], c),
   by       |-> <<s, backend[s]>>,
   of       |-> stmt[s].id,
   parted   |-> string[s].ended]

(* The row parsestring builds.  It does not say which INSERT of which      *)
(* backend it is about: by, of and parted are there for the properties.    *)
HistoryRow(s, c) ==
  [table    |-> stmt[s].table,
   tx_id    |-> tx_id[s],
   content  |-> c,
   previous |-> previsou_hash[s],
   hash     |-> HashOf(previsou_hash[s], c),
   by       |-> <<s, backend[s]>>,
   of       |-> stmt[s].id,
   parted   |-> string[s].ended]

(* Mutant of Chain: tx_id is written back unchanged. *)
ChainUncounted(s, c) ==
  /\ pc[s] = "inserted"
  /\ string[s].leads /\ stmt[s].table \notin Unlogged
  /\ c \in Parsed(s)
  /\ trace' = [trace EXCEPT ![s] = {HistoryRow(s, c)}]
  /\ previsou_hash' = [previsou_hash EXCEPT ![s] = HashOf(@, c)]
  /\ pc' = [pc EXCEPT ![s] = "chained"]
  /\ UNCHANGED <<catalog, heap, backend, block, string, stmt, draft, tx_id, inserts, untraced>>

(* parsestring moves the head and the counter and builds the history       *)
(* INSERT from their values before that ...                                *)
Chain(s, c) ==
  /\ pc[s] = "inserted"
  /\ string[s].leads /\ stmt[s].table \notin Unlogged
  /\ c \in Parsed(s)
  /\ trace' = [trace EXCEPT ![s] = {HistoryRow(s, c)}]
  /\ previsou_hash' = [previsou_hash EXCEPT ![s] = HashOf(@, c)]
  /\ tx_id' = [tx_id EXCEPT ![s] = @ + 1]
  /\ pc' = [pc EXCEPT ![s] = "chained"]
  /\ UNCHANGED <<catalog, heap, backend, block, string, stmt, draft, inserts, untraced>>

(* Mutant of Record: the history INSERT is not part of the user's block. *)
RecordApart(s) ==
  /\ pc[s] = "chained"
  /\ stmt[s].table \in histories
  /\ history' = history \cup trace[s]
  /\ trace' = [trace EXCEPT ![s] = {}]
  /\ Leave(s, "ready")
  /\ UNCHANGED <<catalog, rows, draft, backend, block, chain, inserts, untraced>>

(* ... and executes it as a query string of its own, *)
Record(s) == /\ pc[s] = "chained"
             /\ stmt[s].table \in histories
             /\ Finish(s, [draft[s] EXCEPT !.history = @ \cup trace[s]])
             /\ trace' = [trace EXCEPT ![s] = {}]
             /\ Leave(s, "ready")
             /\ UNCHANGED <<catalog, backend, block, chain, inserts, untraced>>

(* which fails when there is no history table, or for any reason a         *)
(* statement can fail for.                                                 *)
RecordFails(s) == /\ pc[s] = "chained"
                  /\ Abort(s)
                  /\ trace' = [trace EXCEPT ![s] = {}]
                  /\ UNCHANGED <<catalog, heap, backend, chain, inserts>>

-------------------------------------------------------------------------------

Session(s) == \/ Start(s) \/ Stop(s)
              \/ \E leads \in BOOLEAN : Receive(s, leads)
              \/ EndString(s)
              \/ BeginBlock(s) \/ StatementFails(s) \/ Commit(s) \/ Rollback(s)
              \/ \E t \in Tables : CreateTable(s, t)
              \/ CreateHistory(s) \/ NoHistoryTable(s)
              \/ \E t \in Tables, x \in Texts : Insert(s, t, x)
              \/ \E c \in Contents : Chain(s, c)
              \/ SkipTrace(s) \/ Record(s) \/ RecordFails(s)

Next == \E s \in Sessions : Session(s)

Spec == Init /\ [][Next]_vars

-------------------------------------------------------------------------------
(* Properties *)

Hashes == Seq(Contents)
Strings == [leads : BOOLEAN, steps : Nat, root : BOOLEAN, ended : BOOLEAN]
Statements == [table : Tables, text : Texts, leads : BOOLEAN, id : Nat]
Traces == [table : Tables, tx_id : Nat \ {0}, content : Contents, previous : Hashes,
           hash : Hashes, by : Sessions \X Nat, of : Nat, parted : BOOLEAN]

(* The chain head and counter of each backend, the rows and the traces     *)
(* keep their types, and no tx_id is 0.                                    *)
TypeOK == /\ tables \subseteq Tables /\ histories \subseteq Tables
          /\ rows \subseteq Statements
          /\ history \subseteq Traces
          /\ backend \in [Sessions -> Nat]
          /\ pc \in [Sessions -> {"off", "ready", "running", "created", "inserted",
                                  "chained"}]
          /\ block \in [Sessions -> {"none", "open", "failed"}]
          /\ string \in [Sessions -> Strings]
          /\ stmt \in [Sessions -> Statements]
          /\ trace \in [Sessions -> SUBSET Traces]
          /\ draft \in [Sessions -> [rows : SUBSET Statements, history : SUBSET Traces]]
          /\ previsou_hash \in [Sessions -> Hashes]
          /\ tx_id \in [Sessions -> Nat \ {0}]
          /\ inserts \in Nat
          /\ untraced \subseteq Statements

Extends(longer, shorter) == /\ Len(shorter) < Len(longer)
                            /\ \A i \in 1 .. Len(shorter) : longer[i] = shorter[i]

(* The history rows of one backend lie on one chain, in the order of their  *)
(* tx_id and without two rows at one place, although rolled back blocks,    *)
(* failed history INSERTs and other sessions come between them.             *)
ChainLinear == \A g, h \in history :
                 g.by = h.by /\ g # h => /\ g.tx_id # h.tx_id
                                         /\ g.tx_id < h.tx_id => Extends(h.hash, g.hash)

(* The number of a history row is its distance from the start of the chain, *)
(* so a reader who finds numbers missing knows how many links are missing.  *)
TxIdIsChainLength == \A h \in history : /\ h.tx_id = Len(h.hash)
                                        /\ h.hash = HashOf(h.previous, h.content)

(* A history row tells of an INSERT that was committed: no rollback of a   *)
(* block, failure or stop takes a user's row away and leaves its trace      *)
(* behind.  The one exception is a string that ends the transaction of its  *)
(* own first INSERT, as ROLLBACK after it does: exec_simple_query calls     *)
(* parsestring all the same, in the next transaction.                       *)
NoPhantomTrace == \A h \in history :
                    \/ h.parted
                    \/ \E r \in rows : r.id = h.of /\ r.table = h.table

(* An INSERT that begins its query string and is committed with the string  *)
(* or with the block around it lacks its trace only while the trace is      *)
(* being written, or if an error or a stop cut that short.                  *)
TracedUnlessCut == \A r \in rows : \/ ~r.leads \/ r.table \in Unlogged
                                   \/ \E h \in history : h.of = r.id
                                   \/ r \in untraced
                                   \/ \E s \in Sessions : r \in Owed(s)

(* README.md promises "traceability of data by trace query": when nothing   *)
(* is under way, every row of a table with a history has its trace.         *)
EveryRowTraced == (\A s \in Sessions : Owed(s) = {})
                    => \A r \in rows : \/ r.table \in Unlogged
                                      \/ r.table \notin histories
                                      \/ \E h \in history : h.of = r.id

===============================================================================
