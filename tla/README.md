# Verification of Blockchain-PG

TLA+ models, TLC runs and TLAPS proofs for the parts that Blockchain-PG adds to
PostgreSQL 8.4.1: an authenticated index (a Merkle B+ tree), authenticated
range queries that return a verification object (VO) with their rows, a client
that recomputes the root from the VO, and a history table that chains the
operations on a table by hashes. Paths below are relative to the repository's
`src/` directory (`src/backend/...` is `src/src/backend/...` in PROJECT.json).

## The system

| Part | Code | Module |
| --- | --- | --- |
| Merkle B+ tree in backend memory | `backend/mbt/mbtree.c` 532-1460 | `MBTree`, `MBTreeTids`, abstract `KeyStore` |
| Range query and VO | `mbtree.c` `bplus_tree_get_range_disk_vo`, `reconstruct_root`; `include/mbt/testtree.h` `AuthRangeQuery` | `RangeVO` |
| Digests and node numbers | `backend/mbt/vibuilder.c`; `mbtree.c` `set_node_id` | `RangeVO` (what), `MbtIndex` (when) |
| mbtree access method | `backend/access/mbtree/mbtree.c` `mbtbuild`, `mbtinsert`, `mbtgettuple`; `mbtree.c` `hashmap_serialize` | `MbtIndex`, `MbtIndexProofs` |
| Authenticated scan | `backend/executor/nodeIndexscan.c` 182-506, 986-1066; `execMain.c` `ExecutePlan` | `AuthScan`, `AuthScanProofs` |
| VO transfer and client check | `interfaces/libpq/fe-protocol3.c`, `printtup.c` `printVO` | `VoTransfer`, `VoTransferProofs` |
| Root reconstruction in the client, two threads | `interfaces/libpq/clientmbtree.c`, `clienthashmap.c` | `LeafHash`, `LeafHashProofs` |
| Trace history | `backend/tcop/postgres.c` `exec_simple_query`, `parsestring` | `TraceHistory`, `TraceHistoryProofs`, `TraceFateProofs`, `TraceDebtProofs` |
| Thread pool of the client library | `interfaces/libpq/threadpool.c` | `ThreadPool`, `ThreadPoolProofs`, abstract `TaskPool` |

How they interact: an INSERT into a table with an mbtree index calls
`mbtinsert`, which puts key, data and tid into the backend's tree. When all the
statements of a query string are done, `exec_simple_query` hands the text of the
string to `parsestring`, which, if the text begins with INSERT, extends the
backend's hash chain and inserts a history row. A range query runs
as an authenticated scan: `mbtgettuple` builds one VO for the range,
`AuthIndexNext` returns the rows behind the VO's tids, and `ExecutePlan` sends
the VO in pieces. The client library puts the pieces together, recomputes the
root with two threads and compares it with the root that came with the last
INSERT.

The modules meet at values that one leaves abstract and another explains. The VO
that `AuthScan` tells only by its query is built in `RangeVO`; its pieces travel
in `VoTransfer`; the digests of its leaves are what `LeafHash` stores; whether
the map sent with it belongs to the tree is `MbtIndex`.

## Modules

**ThreadPool** models `threadpool.c` function by function. `Allocate`,
`CreateThread`, `CountThread` and `CreateThreadFails` are the steps of
`threadpool_create`, which runs without the lock while threads it started are
already working; `Add`, `Destroy`, `DestroyAgain` and `DestroyReturns` are the
callers' functions; `WorkerWait`, `WorkerTake`, `WorkerRun`, `WorkerExit` and
`SpuriousWakeup` are a worker's. What is done under the mutex is one step.
`lockLeaked` records that `threadpool_destroy`, called a second time, returns
with the mutex held. `TaskPool` is what the pool promises: a bounded FIFO store
of tasks. libpq builds the pool, but its calls in `clientmbtree.c` 405-412 are
commented out in this version.

**TraceHistory** has a session's backend go through query strings as
`exec_simple_query` does. `Receive` takes a string; INSERT, BEGIN, COMMIT and
ROLLBACK follow in any order (`Turn`, up to `MaxStatements`); `EndString` finishes
the transaction outside a block and calls `parsestring` once on the whole text,
if any statement was an INSERT into an indexed table. `Chain` and `Record` are
`parsestring`'s extension of the chain and the history INSERT, a query string of
its own; `SkipTrace` is a text that does not begin with INSERT, or a name that is
filtered out. `StatementFails`, `RecordFails`, `Rollback` and `Stop` are the ways
these can be cut short. For a string that is a lone INSERT the content of the
history row is its VALUES list without quotes and blanks (`Squeeze`); for a longer
one it may be any piece of the string. `previsou_hash` and `tx_id` live in the
backend and are not transactional. A hash is the sequence of what was hashed,
which takes SHA-256 to be free of collisions. `rows` are the committed INSERTs,
all rows of a statement as one: `DELETE` and `UPDATE` have no trace and do not
touch it. INSERTs by the extended protocol, COPY or EXECUTE, which `parsestring`
never sees or does not take for an INSERT, are like strings that do not begin
with INSERT. INSERTs into tables without an mbtree index do not set `hashinfo`
and are left out.

**MBTree** models `bplus_tree_put`: insertion with the left and right splits of
leaves and the three splits of inner nodes, removal (data that reads `"0"`)
with shifts and merges, both climbing to the root, and the lists that link each
level. Arrays are sequences of their valid part. `KeyStore` is the promise: a
set of keys, and an answer that tells whether the key was there. `WellFormed`
says that the levels are linked, parents known, nodes half full and leaves
ascending, with every key findable from the root. **MBTreeTids**
extends it with the `tids` arrays, which are arrays of *pointers*: some routines
copy a pointer, others write through it.

**AuthScan** models the scans of one backend. `flag`, `myvo` and `vector_index`
are static variables of `nodeIndexscan.c` (`vector_index` a global), one for all
scans. A portal is an open plan. `NextRow` and `LastRow` are the two branches of
`AuthIndexNext` together with what `ExecutePlan` does next; `EnoughRows` is a
call that stops at its row count; `Close` is `ExecEndAuthIndexScan`. A slot that
was never set, and the flag of a slot nobody wrote, are nondeterministic.

**RangeVO** extends `MBTreeTids` with `stale`, what the key array of each inner node
holds after its valid keys: the range query searches the array up to the first
zero, not up to the number of children (`SearchKeys`). `RangeInsert` and
`RangeDelete` are the tree's actions with this array; the query, the VO and the
reconstruction are operators over the state. `Trail` is the descent, `Walk` the
way along the leaves, which reads each entry's tid through its pointer;
`AuthRangeQuery` is what remains of these tids after neighbours with equal line
numbers (`Posid`) were taken for one. A digest stands for the sequence it
is computed from. `ReconstructRoot` is the backend's copy of the function, the
counterpart of the VO; the client's copy differs in the leaves (see
*Departures*) and is the subject of `LeafHash`.

**MbtIndex** has the variables of `access/mbtree/mbtree.c`, one set for each
backend: the trees in `key_hashp`, `hashp`, `temp_node_id`,
`mbt_entries_count`. The catalog and the rows are PostgreSQL's and outlive the
backends. `CreateIndex` is `mbtbuild`, `Insert` and `InsertCrashes` are
`mbtinsert`, `Query` and `QueryCrashes` are `mbtgettuple`; `DropIndex`,
`Disconnect`, the outcome of a transaction and the restart after a crash are the
host's. A row is its key and a number, since keys need not be unique: a row whose
key has an entry gets none. `Delete` tells no index, so the entry stays; a
heap-only UPDATE leaves the tree and its data as they are and is no step here, any
other one ends in a crash (`UpdateCrashes`), since `ExecUpdate` passes no
destination to `ExecInsertIndexTuples`, whose `getTupleValue` reads it. A tree is
its entries and the number of nodes on each inner level; what
`MBTree` does in full is any change of shape that one insertion (`Grown`) or
removal (`Shrunk`) can cause. A place of `temp_node_id` is a number, so that an
id past the end of a row marks the next level, as in the array. `BufferSize` is
in int arithmetic. What a query returns is the matter of `RangeVO`; here it either
crashes, overruns its buffer, strays past the last leaf (`RunsOver`) or is
answered, and nothing is said of the answer.

**VoTransfer** is one client process with several connections. `mbt_count`,
`vo_object` and `mbroot` are its global variables. `Select` (with a VO
of any number of pieces, or none), `Insert` and `CutShort` are the world, the
latter a lost connection or an error message in place of the rest of a reply; `ReadPiece`, `ReadComplete` and `ReadInserted` are the cases `U`
and `C` of `pqParseInput3`. `verdict` keeps, for each command, the pieces its
root was computed from.

**LeafHash** is the leaf level of the client's `reconstruct_root`: `SetLeft`, the
loop of each thread (`SetInner`), `SetRight` after the join, and `Look`, the
lookups of the level above. `Walk`, `Check` and `Link` are the accesses of
`hashmap_set` and `hashmap_get` to memory, each a step, since nothing locks the
map; the outcomes of the data race are those of these accesses in any order.
Every VO shape is an initial state (`Jobs`).

The history variables (`found`, `leftsplit`, `ascending`, `orderly`, `whole`,
`disturbed`, `untraced`, `collided`, `lost`, `excused`, `ghosts`, `numbered`,
`rebuilt`, `wide`) record what happened; no step depends on them, except that
`MBTreeTids` reads in `found` whether a key is there, which is what a search of
the tree says, and that an INSERT of `MbtIndex` takes a row that is not among
`ghosts`, so that a new row is not mistaken for one rolled back or deleted.

## Runs

| Run | Instance | Result |
| --- | --- | --- |
| `ThreadPool_pool` | 2 threads, 2 slots, 3 tasks, 2 destroyers, fair | `NoLostWakeup`, `ReleasedWhenQuiet`, `GracefulDrains`, `ImplementsTaskPool`, and under fairness `AcceptedTaskRuns`, `DestroyOnceReturns` hold |
| `TraceHistory_sessions` | 2 sessions, of which one may start a second backend, strings of up to 3 statements, 2 inserts, a table with a history and one whose name the filters drop | `ChainLinear`, `TxIdIsChainLength`, `NoPhantomTrace`, `TracedUnlessCut` hold |
| `TraceHistory_cut` | 1 session, strings of up to 2 statements, 2 inserts | `EveryRowTraced` violated |
| `MBTree_deep` | 10 keys, order 3, 3 entries, up to the first left split of a leaf | `WellFormed`, `DataFollowsKeyUntilLeftSplit`, `ImplementsKeyStore` hold |
| `MBTree_wide` | 8 keys, order 4, 2 entries | `WellFormed`, `ImplementsKeyStore` and the code's assertions (`AssertionsHold`) hold |
| `MBTree_leftsplit` | 5 keys | `DataFollowsKey` violated |
| `MBTreeTids_ascending` | 10 keys in ascending order | `TidFollowsKeyWhenAscending` holds |
| `RangeVO_query` | keys -1 to 4, order 3, 2 entries, up to the first left split of, or removal from, an inner node | `RangeTypeOK`, `StaleKeysHarmless`, `RangeVisited`, `AnswerExact`, `VoSuffices` hold |
| `MbtIndex_sessions` | 2 backends, 2 indexes, 4 rows of 3 keys, 3 ranges, 6 statements | `TreeHoldsTheTable`, `MapIsWhole`, `LastNumberedIsDescribed`, `DigestsNeverStale`, `SmallMapFits` hold |
| `AuthScan_serial` | 2 portals, 4 queries, 3 plans | `TypeOK`, `SerialScansReturnTheirRows`, `SerialScansSendTheirVo`, `StaticsBelongToTheScan` hold |
| `VoTransfer_client` | 2 connections, 3 commands, 0 to 3 pieces, fair | `CounterFollowsTransfer`, `VerdictOnOwnVo`, `CalmClientLives`, and under fairness `EveryVoGetsItsVerdict` hold |
| `LeafHash_threads` | leaves 0 to 7, maps of 2 and of 5 buckets, fair | `NarrowRangeIsSafe`, `LeftSurvives`, `LossesAreConfined`, `FailsOnlyForMissing`, and under fairness `RebuildEnds` hold |

The two violations are where the code departs from what the repository says of
it; `findings` in PROJECT.json gives the line and the sentence for each.

**Bounds.** The pool's three tasks over two slots fill the queue, wrap the ring
and leave one task refused. Two inserts and two starts give a chain with a
second link, a rollback between links, and two backends writing to one table;
three statements give strings that end their own transaction and go on.
The tree's real order and leaf size are 10; the code is uniform in both, and 3/3
and 4/2 reach trees of three levels, every split and merge routine, odd and even
halves, with at most 15 or 16 nodes; `Room` of `MBTree` keeps an insertion from
running out of them. Trees that differ only in the addresses of nodes are
numbered alike. Three plans over ranges of no, one and two rows let one scan be
left, one be disturbed and one follow. Keys -1 to 4 put zero among the
separators and give trees of three levels with order 3 and two entries; two of
their rows have one line number and one has line 100, so that the comparison of
line numbers drops rows. Three
commands over two connections let one VO be cut short, one be poisoned by it and
one follow. Eight leaves over two buckets give the threads two and three leaves
that share buckets with the other's; over five buckets there are ranges that are
narrow and ranges that are not. In `MbtIndex` the limit of 500 node numbers is 2,
the threshold of 998 insertions 2, the buffer unit 110 bytes instead of 8192 (room
for two entries), the width per unit 4 instead of 400 and an int 10 bits wide, so
that limits, wraps and overruns are met within six statements; the bound on
statements is in `MCMbtIndex`. `CONSTRAINT` in `MBTree_deep`,
`MBTreeTids_ascending` and `RangeVO_query` stops after the step from which on
nothing is promised; TLC still checks the state that step leads to. What follows
a left split of a leaf is left to `MBTree_wide`, where rows are all alike so that
the garbage a left split leaves in the data does not multiply the states.
`RangeVO_query` has a VIEW that leaves out the tids once keys came in another than
ascending order: from then on no property reads them, and no other variable
depends on them. Its `MaxBirths` is larger than the number of steps of any
behaviour and cuts nothing off.

**Symmetry** is used in `MbtIndex_sessions`, over backends and over indexes, and in
`TraceHistory_sessions`, over sessions, which no action tells apart; neither run
has a liveness property.

**Deadlock** is not checked: the bounds stop the system, a pool with a leaked lock
and a client that failed stop by themselves, and a rebuilding comes to its end.
That nothing gets stuck otherwise is `AcceptedTaskRuns`, `DestroyOnceReturns`,
`EveryVoGetsItsVerdict` and `RebuildEnds`.

**Fairness.** `FairSpec` of `ThreadPool` has weak fairness of each worker's and
the creator's and destroyer's own steps: POSIX threads run, and the mutex is
released after a bounded section. Spurious wakeups, calls of `threadpool_add`
and the start of a shutdown are never forced. `FairSpec` of `LeafHash` has weak
fairness of each of the two threads and of the one that joins them, for the same
reason; there is no lock that one could hold against another. `FairSpec` of
`VoTransfer` has weak fairness of reading from a connection: libpq reads until
the result is there, and the server has sent it. New commands and lost
connections are never forced. The other modules state no liveness.

## Proofs

TLAPS checks every theorem for all values of the constants that satisfy the
modules' named assumptions.

- `ThreadPoolProofs`: `TypeCorrect`, `WakeupsSuffice` (`NoLostWakeup`),
  `ReleaseIsSafe` (`ReleasedWhenQuiet`). The inductive invariant `PoolInv` adds
  `StageInv`, which ties each worker's place to the stage of the pool and says
  that `started`, counted without the lock by the creator and under it by the
  workers, is exact, and `RingInv`, which ties `head`, `tail` and `count`.
  Without `StageInv` the last worker's exit could not be told from a release
  too early; without `RingInv` a worker could take an empty slot.
- `TraceHistoryProofs`: `TypeCorrect`, `OneChainPerBackend` (`ChainLinear`),
  `RowsAreNumberedByPlace` (`TxIdIsChainLength`). `ChainInv` says of every trace,
  committed, in a draft or under way, that it is numbered by its length and lies
  on the way to the head of its backend, if that backend still runs, and that
  rows of one backend extend each other.
- `TraceFateProofs`: `TracesShareTheirRowsFate` (`NoPhantomTrace`). `FateInv` says
  that the row of a trace is committed if the trace is, and is in the same
  transaction's draft or committed if the trace is in a draft or under way,
  unless the string of the trace ended the row's transaction.
- `TraceDebtProofs`: `RowsAreTracedUnlessCut` (`TracedUnlessCut`). `DebtInv` follows
  an INSERT that begins its string from its draft to its commit: while its
  trace is not written, its session is still in that string, and once the trace
  is written it is where the row is.
- `AuthScanProofs`: `TypeCorrect`, `StaticsAreTheScans`
  (`StaticsBelongToTheScan`), `SerialRows` (`SerialScansReturnTheirRows`),
  `SerialVos` (`SerialScansSendTheirVo`). `ScanInv` adds that a VO is held
  exactly while the flag is down, that at most one undisturbed scan is under
  way, and that a plan never stopped at a row count keeps its slot.

- `VoTransferProofs`: `TypeCorrect`, `OneTransferAtATime`
  (`CounterFollowsTransfer`), `VerdictsAreOwn` (`VerdictOnOwnVo`),
  `CalmClientsLive` (`CalmClientLives`), for any number of connections, commands
  and pieces. `TransferInv` is their conjunction with `ReplyInv`, which says that
  a reply under way is of a command that was sent and that its reader is within
  it: without it a piece could have no place in a buffer that is in order.
- `LeafHashProofs`: `TypeCorrect`, `NarrowRangesAreSafe` (`NarrowRangeIsSafe`),
  `LeftBoundarySurvives` (`LeftSurvives`), for any number of leaves below
  the range of the hash, any number of buckets and every interleaving. `LeafInv` adds
  `LoopInv` (where the loops of the threads are), `ControlInv` (which calls can
  be under way in which phase), `LeftInv` (the left boundary is the first pair
  of its bucket, and no call stands before it), and `NarrowInv`: in a narrow
  range every leaf has a bucket to itself, so a bucket is empty or holds the one
  pair that belongs there (`PlaceInv`, `MapInv`), and what was looked up is what
  was stored (`GotInv`).
- `MbtIndexProofs`: `TypeCorrect`, `TreesHoldTheirTables` (`TreeHoldsTheTable`),
  `MapsAreWhole` (`MapIsWhole`), `MapFitsTheLastTree`
  (`LastNumberedIsDescribed`), `DigestsAreFresh` (`DigestsNeverStale`), for any
  number of backends, indexes, rows, levels, and any limits. `IndexInv` adds `BuiltInv` (at most one backend
  has the tree of an index that exists, and only such a backend can change it),
  `MarkInv` (marks and entries agree in a backend that is not left out by
  `MapIsWhole`), `CountInv` (before the threshold no tree of the backend was
  ever numbered or hashed) and `ExcusedInv` (only rows of the table are excused, so
  that a new row is not). Without `CountInv` an insertion could change a hashed
  tree unhashed; without `BuiltInv` an insertion elsewhere could be missing in a
  tree that is still queried.

The type invariants of these modules are proved and not among the invariants of
the runs, but for `AuthScan`, whose `TypeOK` bounds the position in the VO.

Only model-checked: `GracefulDrains` and `ImplementsTaskPool`,
`LossesAreConfined` and `FailsOnlyForMissing` (which need an invariant about
chains of any length), `SmallMapFits` (which counts entries); the liveness
properties, since fairness is out of the prover's reach; and everything about
`MBTree`, `MBTreeTids` and `RangeVO`, whose operators are recursive.

## Departures

What the code does that its properties must leave out. The first two are the
violated runs; the others are conditions in the properties that hold.

- The history row is a second transaction, and a string whose text does not begin
  with INSERT has none (`TraceHistory_cut`). A string that ends the transaction of
  its first INSERT, by ROLLBACK say, gets its trace all the same (`parted` in
  `NoPhantomTrace`), and one that commits it may lose it alone (`untraced`).
- A left split of a leaf puts data beside other rows' keys (`MBTree_leftsplit`).
- `threadpool_destroy`, called a second time, returns with the mutex held, and
  the first call waits for ever (`lockLeaked` in `DestroyOnceReturns`).
- An insertion below another key of the leaf writes its tid through a pointer the
  other key shares (`ascending` in `TidFollowsKeyWhenAscending`).
- A scan closed before its end, or interleaved with another, leaves its VO and its
  position to the next, and a scan without rows or with a projection sends no VO
  (`disturbed`, `whole`, `Projects` and `Size` in the `AuthScan` properties).
- After a left split of an inner node, or a removal from one, keys left in the
  arrays can misroute a query (`orderly` in `RangeVO`).
- Neighbouring rows with equal line numbers are taken for one, and a last row on
  line 100 or above is dropped (`stays` in `AnswerExact`). A range that reaches the largest
  key walks past the last leaf (`InReach`, and `RunsOver` in `MbtIndex`). A range that begins inside the leaf it
  ends in loses the digests to its left (`VoSuffices`).
- A backend without the tree crashes on an INSERT or a query, which restarts the
  server; so does a query of a tree of one leaf, of a range without rows, or after
  a `CREATE INDEX` that emptied the map but left the marks (`rebuilt`). A node
  number of 500 or more marks another level (`wide`). `mbtbuild` does not read
  the table, and a row whose key has an entry gets none (`excused`); rolled back
  and deleted rows stay in the tree, and their keys keep later rows out (`ghosts`).
  Queries of an index that was not the last numbered are answered with the other
  index's map (`numbered`). When the last key is removed and the tree is numbered,
  `set_node_id` reads past the list; what follows is not modelled (`fault`).
- A map of more than 84 inner nodes of ten children may overrun its buffer, and
  the size itself wraps for ranges of about 10^8 keys (`Room`, `Ordinary`).
- A VO cut short leaves a count that later VOs continue from (`disturbed` in
  `VoTransfer`). A query before any command was complete compares with a null
  root (`mbroot`).
- The root sent with an INSERT is the constant `"test"` (`execUtils.c` 1145), so
  no verdict depends on the tree; `VoTransfer` therefore follows what a verdict
  is made of, and not its value.
- The client's right boundary is made of the first entry of the VO, its threads
  read the entry with the number of the leaf, the leaf in the middle is left out,
  and for a single leaf the digests to its left are lost (`Stored`, `RightRow`,
  `FailsOnlyForMissing`). Two threads that meet in a bucket may lose digests
  (`LossesAreConfined`).

## Not modelled

- SHA-256 (`sha256.c`): arithmetic on bytes; taken to be free of collisions.
- The byte layout of `vo_serialize`, the growth of `pgvector`, and
  `bplus_tree_store`, whose file no live code reads back.
- Buffers too small for what is put into them on the client (`clientmbtree.c` 266
  and 492): what an overrun of the heap does is undefined.
- Savepoints and prepared transactions, and CREATE TABLE other than as a string of
  its own outside a block, in `TraceHistory`. Transactions of several statements
  in `MbtIndex`, where an INSERT is one step with the end of its transaction.
- The visibility of the tuple that `AuthIndexNext` fetches by tid, and the choice
  of a query's bounds from its operators (`nodeIndexscan.c` 227-255).
- The upper levels of the client's `reconstruct_root`, which are as in the
  backend's copy.
- Grammar, planner and DDL for authenticated tables: no state of their own.
- `access/mbtree/mbtree{insert,page,search,sort,utils,xlog}.c`: renamed copies of
  nbtree's files that `mbtinsert`, `mbtgettuple` and `mbtbuild` do not call.
- PostgreSQL itself. The repository is a whole PostgreSQL 8.4.1 of some 950000
  lines, of which the modules cover only what Blockchain-PG adds; the share of
  all lines that is modelled is therefore below one percent.
