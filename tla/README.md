# Verification of LatticeDB

LatticeDB is an embedded database: a property graph, a vector index and a full-text index in
one file with a write-ahead log beside it, written in Zig (`src/src/`) and used through a C
API and the Python, Go and TypeScript bindings. This directory holds TLA+ models of its
transactional core, of the Python client above it and of the script that releases it, the TLC
runs that check them and the theorems TLAPS proves about them.

## 1. The system

### Components, their state and how they interact

| component | source (under `src/src/` unless it says otherwise) | state | operations |
|---|---|---|---|
| C API | `api/c_api.zig` | handles, one mutex per handle | every call: look up the handle, lock, call the database, translate the error |
| Database | `storage/database.zig` | the stores below, `txn_overlays`, `active_writer_txn_id`, stream condition variable | open / close, begin / commit / abort, graph, vector, text, stream and query operations, checkpoint, backup, compact |
| Transaction manager | `transaction/manager.zig` | `next_txn_id`, active transactions, undo logs, savepoints | begin, commit, abort, log an operation |
| MVCC | `transaction/mvcc.zig` | version chains | visibility, garbage collection (not wired to the stores) |
| WAL | `storage/wal.zig`, `wal_reader.zig`, `transaction/wal_payload.zig` | frame buffer, header, next LSN | append, sync, truncate, iterate |
| Recovery | `storage/recovery.zig` | per-transaction final state, redo counters | analysis, redo |
| Checkpoint | `storage/checkpoint.zig` | sequence number, checkpoint LSN | passive, full, truncate |
| Page store | `storage/vfs.zig`, `memory_vfs.zig`, `page.zig`, `page_manager.zig`, `buffer_pool.zig`, `concurrency/locking.zig` | file, free list, frames, pins, latches | allocate / free, fetch / unpin / flush |
| B+tree | `storage/btree.zig` | pages of a tree | insert, delete, search, iterate, split / merge |
| Graph stores | `graph/*.zig` | node and edge trees, label index, property index, symbols, adjacency cache | create, update, delete, scan |
| Vector index | `vector/*.zig` | HNSW layers, vector pages | insert, remove, search |
| Full-text index | `fts/*.zig` | dictionary, posting lists, reverse index | index, remove, search, highlight |
| Streams | `stream/*.zig` | rows, high-water marks, consumer offsets | publish, read, commit offset, trim, changefeed |
| Query engine | `query/**` | plan cache, operator trees | lex, parse, check, plan, execute |
| Replication | `storage/replicate.zig`, `storage/restore.zig` | generations, segments | ship the WAL, restore to a point |
| Command line | `cli/*.zig`, `main.zig` | REPL state | commands, import / export |
| Python client | `src/bindings/python/src/latticedb/` (`database.py`, `transaction.py`) | `_handle`, `_closed`, `_committed`, `_rolled_back`; what a call has open | open / close, with-blocks, query, searches, the methods that change and read the graph |
| Python bindings | the same (`_bindings.py`, `types.py`) | the loaded library and which entry points it has | values to native and back, error codes to exceptions |
| Release script | `src/scripts/bump_version.py` | sixteen files that state the version | check, bump, rehearse |
| Build and documentation scripts | `src/scripts/mdbook_seo.py`, `render_diagrams.py`, `src/bindings/python/build_native.py`, `setup.py` | none | transform files |
| Embedding, examples | `embedding.py`, `src/examples/python/` | a client handle | one native call |
| Other bindings | `src/bindings/go`, `typescript`, `cpp_version` | wrappers of the handles | translate calls |

A call enters through the C API, which holds the mutex of the handle until the call returns.
Reads in a transaction merge the transaction's overlay with the base stores. Writes go to the
overlay only. `commitTransaction` captures the states about to be replaced into the overlays
of the other open transactions, stages change-feed events, appends
the log records, applies the overlay to the base stores, and finally appends the commit record
and syncs the log. The base stores are B+trees over pages of the buffer pool, which evicts
dirty pages to the file whenever it needs room. A checkpoint flushes the pool and checkpoint LSN forward. Opening the database replays the log.

The Python client holds native handles in Python objects. ctypes gives up the interpreter lock in
every native call, so the threads of a program interleave there. The library counts the
transactions, queries and results of a database and refuses to close it while there are any; it
does not reuse the address of a transaction's handle before its database is closed. So whatever
the client leaves open keeps the file and its lock. Opening the database replays the log.

### What is hard, and what correct means

* **Isolation.** The base stores are changed in place while readers are open; a reader's
  snapshot exists only as captures in its own overlay. Correct: a reader reads one state from
  begin to end, whatever commits, fails to commit or rolls back beside it.
* **Failure inside a call.** A commit has five places where it can fail; the caller may retry
  or roll back after each. Correct: a rollback leaves nothing, and the writer slot comes back.
* **Durability.** Log frames, log header and pages reach the disk in different orders, and an
  unsynced write may or may not be there after a crash. Correct: after reopening, the committed
  transactions are there, whole, and nothing else is.
* **Sessions.** Transaction ids restart with every open while the log lives on.
* **Redo.** Records are replayed over pages that may already hold later states.
* **Streams.** Readers wait on a condition variable and read without the handle's mutex, between the
  steps of a commit; numbers come from the store and from what the transaction staged; trims move
  the start of the stream. Correct: a stream holds what was committed to it, in order and once.
* **Page store.** Free list, pins and latches are shared by everything above.
* **Indexes.** Labels, properties, traversal keys and id counters live in trees of their own beside
  the rows they describe. Correct: a lookup by label, value or neighbour names exactly the rows
  that say so, after any crash.

* **The client.** A call of the client is several native calls, any of which may fail, while other
  threads close the database or write. Correct: nothing native outlives the call or the with-block
  that made it, what was acknowledged is stored, and what is read is what was written.
* **A release.** One version is repeated in sixteen files, which are rewritten one by one by a script
  that may be killed and checked by other patterns than those that rewrite. Correct: a check that
  passes means one version, and a killed run can be repeated.

### What would make each component correct

| component | properties worth having |
|---|---|
| Database, transaction manager | snapshot isolation, atomic commit, clean rollback, the writer slot comes back |
| WAL, recovery, checkpoint | durability and atomicity across crashes, opening always succeeds, log order |
| Page store | no page in two places, no lost frame, a pinned page stays, the free list is a list |
| B+tree | lookups find exactly what was inserted, whatever pages a crash left |
| Graph stores | rows, traversal, label and property indexes and id counters agree |
| Streams | sequence numbers without holes or repeats, offsets that follow trims, a waiter is woken |
| Vector index | every live vector is reachable from the entry point; no dangling neighbour |
| Full-text index | postings and reverse index agree; removal leaves nothing |
| Query engine | a statement is atomic; operators agree with a reference evaluation; a cached plan is current |
| Replication | a restored generation is a prefix of the primary's history |
| Python client | no handle or writer slot is left behind, close and use exclude each other, fates of writes are as told, objects agree with the store |
| Release script | exit code 0 means one version everywhere; a failure changes nothing; a kill is repaired by a rerun |
| MVCC | a version is visible to exactly the snapshots between its begin and its end |

## 2. The modules

| module | models | depends on |
|---|---|---|
| `SnapshotStore` | the abstract promise of a transaction: a private snapshot over a committed state | |
| `TxnOverlay` | overlays over shared stores, every call of a handle and every place it may fail | refines `SnapshotStore` |
| `TxnOverlay_proofs` | theorems about `TxnOverlay` | `TxnOverlay` |
| `Durability` | log frames and header, commit and abort step by step, checkpoints, kills, power loss, recovery | |
| `Durability_proofs` | theorems about `Durability`: types, the order of the log, and that recovery gives what was committed | `Durability` |
| `TreePages` | one B+tree in pages, the pool above the file, the free list, saved roots, redo through the tree | |
| `TreePages_proofs` | theorems about `TreePages` | `TreePages` |
| `GraphStores` | node and edge rows, their indexes and counters, commit's records and their redo | |
| `GraphStores_proofs` | theorems about `GraphStores` | `GraphStores` |
| `Streams` | messages, offsets, trims, the change feed, a reader that waits, redo | |
| `Streams_proofs` | theorems about `Streams` | `Streams` |
| `PyClient` | Database and Transaction objects, the native handles behind them, threads | |
| `PyClient_proofs` | theorems about `PyClient`: types, fates of writes, options, native handles, with-blocks, the writer slot | `PyClient` |
| `ValueCodec` | Python values as native values and back, recursive functions | |
| `PyGraph` | the methods that change and read the graph, call by native call, over any conversion of values (a constant) | |
| `PyGraph_proofs` | theorems about `PyGraph` | `PyGraph` |
| `VersionBump` | the release script over the files it rewrites | |
| `VersionBump_proofs` | theorems about `VersionBump` | `VersionBump` |
| `MCPyClient`, `MCPyGraph`, `MCVersionBump`, `MCTxnOverlay`, `MCTxnRollback`, `MCDurability`, `MCTreePages`, `MCGraphStores`, `MCStreams` | instances for TLC; `MCPyGraph` joins `PyGraph` and `ValueCodec` | |

The models cut the system at different heights. `TxnOverlay` takes a call as one step and the
stores as perfect; `Durability` takes a call apart and keeps a store cell and its page together;
`TreePages` takes the log as perfect and looks at the pages of one tree; `GraphStores` takes log and
trees as perfect and looks at what is put into several trees that belong together; `Streams` does
the same for the stream trees, with a second thread beside the one that commits.

### TxnOverlay and SnapshotStore

`base` is the stores, a function from cells to values; a cell is a kind (`"state"` for a node or
edge, `"vector"`, `"fts"`) of an element. `overlay[t]` is the `TxnOverlay` struct of a transaction:
its own staged writes if it is the writer, and otherwise the captures other commits made for it.
`staged` is `has_staged_writes`, `active_writer` is `active_writer_txn_id`, `issued` the ids the
allocators gave out. The mutex of the C API makes a call one step. `commitTransaction` captures,
logs, applies and forgets; `CommitFailsCapturing`, `CommitFailsLogging`, `CommitFailsApplying` and
`CommitFailsSyncing` are the same call returning an error after that part of its effect, and the
caller may retry or roll back. `AbortFails` is a rollback whose abort record cannot be written: the
handle is gone and the overlay and the slot stay (`"orphaned"`). `Failures` names those that happen.
`own` is a history variable and models no code: what each transaction wrote itself since it began,
recorded where a call stages a write. The overlay mixes staged writes and captures in one table, and
`own` is what tells which is which.

`SnapshotStore` has a committed state `db`, and for every open transaction what it reads (`view`)
and what it wrote (`touched`). The refinement maps `view[t]` to what `TxnOverlay` computes on a
read: the overlay entry or else the base. So a step that changes the base under a reader without a
capture is a step `SnapshotStore` does not have.

### Durability

A cell stands for a node or edge and for the page that holds it; cells in `Unlogged` are vectors
and documents, for which no record is written. `mem` is what the open handle sees, `file` what the
operating system holds, `stable[c]` the contents a power loss may leave for that page. `wal` has the
frames and the header as the operating system holds them, what was last synced, the header versions
a power loss may bring back, the frame under construction and the next LSN. A commit is
`logTxnOverlayForCommit`, then one `logCommittedState` for each cell still in `call.left` (or
`LogFails`), `applyTxnOverlay`, `commitRecord` and `endTransaction`; a checkpoint is six steps;
`evict`, `kill` and `powerLoss` may happen between them. `open` is `findLogEnd`, `analysisPass`
with its corruption rules, and `redoPass`. `Losses(w, F)` are the logs a power loss may leave when
only the losses in `F` occur; `powerLoss` takes those of `Faults`, and `TornTailIsTheEnd` asks at every
step about `{"torn"}`, whatever `Faults` says. `promised` is the set of states callers may have been led
to expect: one, except while a commit is in progress or was cut off.

### TreePages

`tree.pages` are the pages as the pool has them and `tree.disk` as the file has them; `header` is
the root named in the file header. `insert` and `delete` are the algorithms of `btree.zig`, with
splits, merges, redistribution, root growth and collapse; pages come from `allocatePage` and go back
through `markPageFreeInPlace`, which write at once. `log` is the committed operations since the last
checkpoint. `open` loads the trees from the header and the file, `redo` repeats one operation of the
log (`redone` counts them), and `recovered` saves the roots if there was anything to repeat; pages may
be evicted, and the process killed, between any two of these steps. `exposed` names the windows now
open in which the pages in the file are not a tree.

### GraphStores

`mem` and `disk` hold six trees: node rows, label index, property index, edge rows, traversal keys,
and the edge counter, which lives with the edge rows. Any of them may reach the file without the
others (`evict`). A commit writes one node or one edge and appends the records that
`logCommittedNodeState` and `logCommittedEdgeState` derive from the difference with the stores.
`open` loads the trees and takes the next ids from them, `redoPass` redoes one record (`redoInsert`,
`redoUpdate`, `redoDelete`) over whatever the file holds, and `resume` rebuilds the property index from
the label index. Pages may be written, and the process may be killed, during recovery too. `mixed`
marks histories in which a kill left trees of different moments in the file.

### Streams

`mem` and `disk` hold the three stream trees: records, last sequence numbers, the offset of a
consumer. Of two streams, `"jobs"` takes messages and `"changes"` is the change feed, one event for
each transaction that changes the graph. A payload is the number of the transaction that published
it, so a message that is lost, repeated or given another's number shows. `asked` counts what a
transaction published, so that the promise does not come from the numbers it was given. `publishStream`,
`setStreamOffset` and `trimStream` stage; a commit stages the feed and logs
(`logTxnOverlayForCommit`, `LogFails`), applies entry by entry (`applyTxnOverlay`), commits
(`commit`) and signals (`broadcast`). Opening is `open`, a `redoPass` for each change in the log, and
`resume`. `reader` is a call of `readStream` taken apart where the code
unlocks or reads again, and the application around it, which moves its cursor over what it gets and
commits the cursor as its offset. A reader's steps come between those of a commit because
`lattice_stream_read` (`c_api.zig:2016`) does not lock the handle. `promised` is what was committed.

### PyClient

`dbo` and `txo` are the Python objects, `ndb` and `ntx` the native databases and transactions, `call`
what each thread has under way, `blocks` its with-blocks. An action is one native call with the Python
code around it: `Database.query` is `QueryPrepare`, `QueryBegin`, `QueryExecute`, `QueryCommit`,
`QueryRollback`, `QueryFree`; `close()` is the native call and the forgetting of the handle. A
Transaction object belongs to the thread that entered it. `ntx[i].staged` is what a transaction would
commit, `store` what is committed and `fate` what the program was told of each write. `HasChildren` is
the count that makes `lattice_close` refuse. `lib` is the set of `lattice_open_v*` that the loaded
library has, which decides what options can be passed (`Supported`, `Effective`).

### PyGraph and ValueCodec

`base` is the committed graph and `view` what the native transaction sees. `create_node` and
`create_edge` are a native call for the thing, one for each label when there are several, and one for
the property, any of which may fail (`CreationRaises`); the others are one call. An exception leaves
the block (`Exit`) or is caught in it (`Catch`). `known` is what the program has been told: the objects
that methods returned and the arguments of those that succeeded. `ReadsAgree` compares it with what
every reading method would now return, through `PythonToValue` and `ValueToPython`. These are constants
of `PyGraph`; the instance gives them `Encode` and `Decode`, which are `python_to_value` and
`value_to_python` with the order of their type tests, empty buffers as NULL, integers of `IntBits` bits
and the refusal of keys that are not strings.

### VersionBump

A file is known by its marks, the places where it states the version; `Strict` marks are found only
when they hold a version (`go.mod`), `Optional` ones are skipped by an update and reported by a check
(the lockfile's own package), `Parts` are the numbers beside a version. `todo` is the
places in `Order` of the files still to write. `Bump` computes every file before one is written, `Open` and `Fill` are the two halves of `write_text`, `Verify` is the check at
the end, `Kill` ends the script anywhere between and `Edit` is a person. `start` is the tree as the
script found it.

## 3. The runs

| run | result | instance | distinct states | what it shows |
|---|---|---|---|---|
| `overlay_isolation` | passes | 3 transactions, 2 elements with vectors, failures while capturing and logging | 19 487 | overlays refine `SnapshotStore`; one writer; a writer's overlay is exactly what it wrote itself |
| `overlay_failures` | passes | 3 transactions, 1 element with vector and document, all five failures | 220 588 | a reader's nodes, edges and vectors do not move even then; the stores take only the committer's own writes |
| `durability_crash` | passes | 2 cells, 2 transactions a session, 2 sessions, frames of 2 records, failing appends, kills and power losses | 356 024 | every committed transaction survives whole and nothing else does; at every step, the next open would take a log whose last frame is torn, and lose nothing that was promised |
| `tree_sound` | passes | 4 keys, leaves of 2, up to 5 pages and 2 logged operations | 572 350 | what is in the tree is what was committed; pages are not shared |
| `tree_redistribute` | passes | 6 keys, leaves of 4 | 226 298 | the same when entries move between siblings |
| `graph_recovery` | passes | 1 node with 2 labels and a property, 1 edge, 3 records, kills also during recovery | 9 423 922 | stores, indexes and counters come back as committed |
| `streams` | passes | 2 transactions, numbers to 2, one reader, failing logging, kills | 1 222 217 | streams are as committed, nothing acknowledged was skipped, a reader in its loop is signalled, every read returns |
| `py_client` | passes | 2 threads, a writable and a read-only object on one file, 2 with-blocks, 3 transaction handles, 3 libraries, failing begins, statements and commits | 1 193 919 | no handle or slot is left behind, a block can use its transaction, writes have the fate that was told, options are honoured |
| `py_graph` | passes | 2 nodes, 1 edge, 2 labels, 3 values, 4 calls that write, any native call may fail | 1 212 949 | reads agree with what was written; half-made creations are not committed |
| `version_bump` | passes | 4 files with 6 marks, 2 versions, kills and edits | 511 648 | exit code 0 means one version; a run changes a prefix of the files or nothing; a killed run can be repeated |
| `py_query_commit` | violated | as `py_client`, and the commit inside `query()` fails | | the transaction stays open with the writer slot, out of reach |
| `overlay_rollback` | violated | failing log sync | | a rolled-back transaction's writes stay |

**Bounds.** Three transactions give a writer, a reader from before its commit and one from after;
two elements let a commit be applied or captured in part. Two sessions give recovery of a log that
was itself written after a recovery or after nothing; frames of two records split a commit over
frames; five records are a begin, two writes and a commit, and one more, so that a second
transaction or a checkpoint may share the log. Four keys in leaves of two make a root split, two
leaf splits, merges and a collapse; six keys in leaves of four are the least that redistribute. One
node and one edge are enough in `GraphStores` because no record or index entry mentions two; ids are
reused within that bound, and two labels let one go while the other stays. Each bound is a constant
with a comment at its declaration. In `PyClient`
two threads give a call and a close or write beside it, two with-blocks a nested block or one in each
thread, and three transaction handles one more than the blocks, for a query; one write is enough
because a fate is about one write. `PyGraph` has the least with which a label lookup, a batch and an
edge between two nodes can go wrong; its values are the bool that is an int, a nested value with empty
buffers and one that is refused in the middle. `VersionBump` has one file of each kind: with numbers,
with two marks, with an optional mark, with a strict one. Two transactions in `Streams` give a published message and one
that reuses or follows its number, two numbers a gap and a limit that cuts a batch. Deadlock is not checked where the bounds let the system stop
(all transactions used, the last session closed).

**Fairness and liveness.** `Streams` assumes weak fairness of three things: a call of `readStream`
that can take a step, a commit that can take a step, and the clock. The first two are threads that
run, with nothing to wait for but `stream_mutex`, which is held for a few instructions; the third
is the timeout of `timedWait`. Publishing is not fair: nobody has to. `ReadReturns` says that every
read ends. Whether it ends by the signal or only by the timeout is a safety question
(`LoopingReaderIsWoken`, `NoLostWakeup`). The other modules have nothing that waits for anything but
the mutex of a handle; `SlotHolderCanEnd` is the safety half of "a writer can always begin again".

## 4. Conditions, and what happens outside them

`Failures`, `Faults`, `Windows` and `Relabel` say what the environment may do. The passing runs
establish their properties under the conditions named in their configuration; each of the other
conditions breaks a property. Two runs expect a violation that contradicts the repository's own words:
`overlay_rollback` (`docs/13_engine_conformance.md:178`) and `py_query_commit` (the comment at
`database.py:406`). `OpenSucceeds`, which says what `docs/08_recovery.md:5` says ("the database must be
able to restart"), is in no run: where no frame is torn or lost and no truncation is cut in two it
follows from `RecoverableNow`, and elsewhere it fails as the table says. The rest are reproduced by
changing a constant, or adding the property, in the module's passing configuration (with
`MaxSessions = 3`, `MaxLsn = 7` for `Durability`, and `MaxLog = 4` for `TreePages`):

| module | change | property | what happens |
|---|---|---|---|
| `TxnOverlay` | `Failures = {"abort"}` | `SlotHolderCanEnd` | a failed rollback retires the handle and keeps the writer slot (`database.zig:1748`) |
| `TxnOverlay` | `"fts"` in `Kinds`, one element, and `DocumentSnapshot` as the property | `DocumentSnapshot` | a commit hides the document it replaces from open readers (`database.zig:1823`) |
| `Durability` | `Faults = {"reuse"}` | `CommittedSurvives` | transaction ids restart at 1 with every open (`manager.zig:207`) while the log of the earlier session is still replayed: the begin record of a new transaction resets the state of an old one with its id, so a committed one is forgotten, and if the new one aborts its writes are not redone (`docs/13_engine_conformance.md:188`) |
| `Durability` | `Faults = {"open"}` | `RecoverableNow`, `CommittedSurvives` | a full checkpoint while a transaction is open moves the recovery start past its begin record (`database.zig:1204`) |
| `Durability` | `Faults = {"evict"}` | `CommittedSurvives` | pages of a commit in progress are evicted and the process dies; there is no undo (`buffer_pool.zig:399`) |
| `Durability` | `Faults = {"log", "retry"}` | `CommittedSurvives` | a commit whose logging failed is retried with other writes; the first attempt's records are redone too |
| `Durability` | `Faults = {"truncate"}` | `OpenSucceeds` | the process dies between the two writes of `truncateToEmpty` (`wal.zig:663`); the header counts frames that are gone, and reading the first is an I/O error |
| `Durability` | `Faults = {"power", "torn"}` | `OpenSucceeds` | recovery skips a torn last frame but the header still counts it, and the next session's frames are written behind it (`wal.zig:608`); the open after that takes it for corruption in the middle of the log (`docs/08_recovery.md:190` calls a torn tail "safe to proceed"; `TornTailIsTheEnd` is about the first open only) |
| `Durability` | `Faults = {"power", "zero"}` with `FrameCap = 1`; `"short"` or `"stale"` for `"zero"` | `OpenSucceeds`, `CommittedSurvives` | an unsynced frame is a hole, is not there, or shows an older frame with a right checksum |
| `Durability` | `Faults = {"power", "stale"}` with `FrameCap = 1`, `MaxSessions = 3`, `MaxLsn = 8` | `LogIsOrdered` | an unsynced frame comes back as it was before a truncation, so the log holds numbers twice or out of order |
| `Durability` | `Faults = {"power", "relog"}` | `CommittedSurvives` | recovery does not sync the log it replayed; pages it redid may survive a power loss that the log does not |
| `Durability` | `Unlogged = {c2}` | `CommittedSurvives` | a vector or document reaches the disk only with its page |
| `TreePages` | `Windows = {"roots"}` | `CommittedFound`, `TreeIsSound` | a checkpoint cuts the log while the header names the root from before a split (`database.zig:1255`, against the comment at 1226) |
| `TreePages` | `Windows = {"young"}` | `CommittedFound`, `TreeIsSound` | the header names the root of a new tree before it is written |
| `TreePages` | `Windows = {"saved"}` | `CommittedFound`, `TreeIsSound` | the header names a new root before it is written (`database.zig:1286`) |
| `TreePages` | `Windows = {"merge"}` | `CommittedFound`, `TreeIsSound` | a merged page is free in the file while its parent there still points to it (`btree.zig:800`) |
| `TreePages` | `Windows = {"evict"}` | `CommittedFound`, `TreeIsSound` | part of a split reaches the file (`buffer_pool.zig:396`) |
| `GraphStores` | `Relabel = TRUE` | `LabelsIndexed` | redoing the insertion of a node over a later state indexes labels that the node has lost since (`recovery.zig:461`, `docs/13_engine_conformance.md:197`) |
| `Streams` | `DeliveredWasCommitted` as the invariant | `DeliveredWasCommitted` | a reader gets a message while its transaction is still being applied; if the process ends then, it was never published (`c_api.zig:2029`, `docs/14_durable_streams.md:8`) |
| `Streams` | `NoLostWakeup` as the invariant | `NoLostWakeup` | a commit between the first read and the noting of the epoch (`database.zig:3651`) is not waited for; its message is read at the timeout |
| `Streams` | `Faults = {"retry"}` | `StreamsAsCommitted` | a commit whose logging failed and is tried again stages its change-feed events twice (`database.zig:3913`) |
| `Streams` | `Faults = {"dirty"}` | `StreamsAsCommitted` | part of a commit in progress reaches the file and the process dies |
| `PyClient` | `Reopen = TRUE` | `ReleasedWhenClosed` | an object that was closed and opened again cannot be closed: `_closed` stays set (`database.py:242`), so handle and lock stay |
| `PyClient` | `Reenter = TRUE` | `UsableInBlock`, `QuietMeansFree` | a Transaction object that is entered again overwrites its handle, or cannot be ended because it is marked ended |
| `PyClient` | `Faults = {"rollback"}` | `QuietMeansFree` | a rollback that fails keeps the writer slot, as in `TxnOverlay` |
| `PyGraph` | an `n` that does not fit `IntBits` among `Values` | `ReadsAgree` | ctypes keeps the low bits of an integer (`_bindings.py:1388`) |
| `PyGraph` | a label with a comma (a sequence of two words) | `ReadsAgree` | `get_node` splits the labels at commas (`transaction.py:324`) |
| `PyGraph` | an array of two dimensions among `Values` | `ReadsAgree` | only the length of the first dimension is passed on (`_bindings.py:1419`) |

Other things met while modelling the client, which the models do not have: a `read_stream` that waits
is not counted as a child, so `close()` beside it frees the database under it; `get_node` does not free
the label string of a node without labels; `create_node(labels=[""])` returns an object with a label
that `get_node` does not report; `delete_node` leaves the edges of the node; the test `created < n`
after a batch is never reached with an error, because `check_error` has raised before.

A rolled-back edge creation is not in this table because the models have no property for it: the id
it reserved is given out again after a reopen, since only commits of edges persist the counter
(`edge.zig:336`), while `docs/13_engine_conformance.md:94` says ids are never reused after a rollback.

## 5. What is proved

Each theorem is `Spec => []P` for a property `P` that a run checks, for every value of the constants
that the module's assumption allows: any number of transactions, cells, nodes, labels, threads, files,
any bounds, any log. Where a theorem needs more, the condition is in its statement. A condition is
always one whose complement §4 lists as a way to break that property, so it is not there for the
proof's sake.

| theorem | property | condition |
|---|---|---|
| `TxnOverlay_proofs!TypeCorrect` | `TypeOK` | |
| `WriterExclusion` | `SingleWriter` | |
| `WritersHoldOwnWrites` | `WriterOverlayIsItsWrites` | |
| `CommitAppliesOwnWrites` | `StoresTakeOwnWrites` (an action property) | |
| `SlotIsNeverStranded` | `SlotHolderCanEnd` | `"abort"` not in `Failures` |
| `ReadersKeepTheirSnapshot` | `ReaderSnapshot` (an action property) | |
| `ImplementsSnapshotStore` | `SnapshotIsolation` (the refinement) | `"apply"`, `"sync"` not in `Failures` |
| `Durability_proofs!TypeCorrect` | `TypeOK` | |
| `LogStaysOrdered` | `LogIsOrdered` | `"stale"` not in `Faults` |
| `TornTailsAreTheEnd` | `TornTailIsTheEnd` | `Tame` |
| `CommitsSurvive` | `CommittedSurvives` | `Tame` |
| `AlwaysRecoverable` | `RecoverableNow` | `Tame` |
| `GraphStores_proofs!TypeCorrect` | `TypeOK` | |
| `NodesComeBack` | `NodesRecovered` | |
| `EdgesComeBack` | `EdgesRecovered` | |
| `EdgeIdsAreNotReused` | `CommittedEdgeIdsNotReused` | |
| `LabelsStayIndexed` | `LabelsIndexed` | `~Relabel` |
| `PropertiesStayIndexed` | `PropertiesIndexed` | `~Relabel` |
| `Streams_proofs!TypeCorrect` | `TypeOK` | |
| `LoopingReadersAreWoken` | `LoopingReaderIsWoken` | |
| `StreamsHoldWhatWasCommitted` | `StreamsAsCommitted` | `Faults = {}` |
| `NothingBeforeTheOffsetIsSkipped` | `NothingSkipped` | `Faults = {}` |
| `PyClient_proofs!TypeCorrect` | `TypeOK` | |
| `FatesAlwaysKept` | `FatesKept` | |
| `OptionsAlwaysHonoured` | `OptionsHonoured` | |
| `LocksAreReleased` | `ReleasedWhenClosed` | `~Reopen` |
| `BlocksAreUsable` | `UsableInBlock` | `~Reenter` |
| `NothingIsLeftBehind` | `QuietMeansFree` | `~Reenter`; `"rollback"`, `"query_commit"` not in `Faults` |
| `PyGraph_proofs!TypeCorrect` | `TypeOK` | |
| `ReadsAlwaysAgree` | `ReadsAgree` | `CodecKeeps`, `WordLabels` |
| `CreationsAreWhole` | `OnlyWholeCommitted` | |
| `TreePages_proofs!TypeCorrect` | `TypeOK` | |
| `NothingLostOrRaised` | `CommittedFound` | `Windows = {}` |
| `AlwaysATree` | `TreeIsSound` | `Windows = {}` |
| `VersionBump_proofs!TypeCorrect` | `TypeOK` | |
| `SuccessIsConsistent` | `SuccessMeansConsistent` | |
| `BumpsWriteAPrefix` | `WritesAPrefix` | |
| `BumpsFailForCause` | `FailsForCause` | |

`Tame` of `Durability_proofs` is `Faults \subseteq {"log", "power"} /\ Unlogged = {}`: commits
whose logging fails, kills at any step and power losses are in; each of the other faults, and stores
that are not logged, loses something (§4). With `Faults = {}`, `Streams` still has kills at any step,
trees written apart, failed logging and rollbacks.

### TxnOverlay

`SingleWriter` is not inductive. The invariant is `Inv`: types, `SingleWriter`,
`WriterOverlayIsItsWrites`, and `SlotConsistent`, which says that the slot's holder has an overlay,
that staged writes belong to an open read-write transaction, that a transaction without an
overlay entry in the table has an empty one, and that one that has staged nothing has written nothing.
`SlotConsistent` is what makes begin safe: it starts with an empty overlay, hence a view equal to the
base. `WriterOverlayIsItsWrites` says that for a read-write transaction `overlay` and `own` are one
function. It is kept because the only calls that add to the overlay of another transaction are
the captures of a commit: a commit with writes is the slot holder's, so by `SingleWriter` the others
with a share in the table are readers, and one without writes captures nothing. Hence a capture is never
written back, and an apply, which takes over the overlay, takes over `own` (`StoresTakeOwnWrites`). For a
reader, each commit step needs two facts per cell: a cell that is applied has been captured or had
an entry already, and a cell that is not applied keeps its base value. After an apply or a sync that
fails, the base has changed without a commit, so the refinement excludes those (`overlay_rollback`);
`SlotIsNeverStranded` needs only that no transaction is `"orphaned"`.

### Durability

`TInv` types the log, the headers a power loss may bring back and the call in progress. `OInv` is
about order: `Shape` (older headers count fewer frames, unsynced frames are whole), `Ordered` and
`Below` (what would be read carries each number once, below the next). It speaks of `Disk`, the
frames as they are or, between the two steps of a truncation (`Uncut`), as a power loss would bring
them back.

`RInv` is about recovery. For a set of records, `Gives(S, stable, p)` says that redoing it over any
file a power loss may leave gives the state `p`: a cell with a committed operation gets the last one's
value, another has one possible value in the file. `Base(w, h)` is what recovery reads if it finds the
header `h`, `All` what it would read if the current frame were flushed. Between commits (`Quiet`) every
header gives `mem`. While a commit applies (`AppliedInv`) every header gives the old state, and the
cells in which it differs from `mem` have an operation of this commit in the log; adding operations of
a transaction without outcome changes nothing (`AddUncommitted`), and adding the commit record moves
all of them at once, which is how the old state becomes the new (`CommitGives`). Once the frame with
that record is in the file (`FlushedInv`) each header gives one or the other, and both are promised.
`LogInv` has what recovery's rules ask for: frames that headers count are there, every open transaction
has its begin record within reach, and the operations without outcome are the writer's, with its
overlay's values, and come last. `Life` adds that a checkpoint has made `stable` certain before it cuts.

`TornTailIsTheEnd` needs one thing more, `SInv`. `Stepwise` says that while the frame the header
counts last is not synced, the disk may also still have a header that counts one frame less, with the
same checkpoint. So reading a log whose last frame is torn is the same as reading the whole log under
that older header (`TornReads`), and `RInv` has already said of every header what it gives. The cases
are those of the log's operations: a flush leaves the header before it among the possible ones, a sync
leaves nothing unsynced, and a checkpoint changes `checkpoint_lsn` only when the log is synced.

### GraphStores

A log of differences is redone over a tree of any later age. `Gives(K, L, k, n, s, f)` is what redoing
`L` after its first `k` records makes of `n`, from `s` to `f`, without running it: the last deletion
settles whether there is anything, after it the first insertion makes it, and each attribute (a label,
the property) is settled by the last record that touches it, or is the old one. `LogOf` says that the
log is one of `f`: redone over `f` it gives `f`, nothing of a row comes before its insertion but what a
deletion ended, and what is absent was ended. Three lemmas carry the proofs for nodes and, with other
operation names, for edges:

* `GivesStep`: one record redone leaves the rest giving `f`, so recovery ends with the committed row
  (`GivesAll`).
* `GivesAgain`: if the whole log gives `f` over `s`, it gives `f` over the row that one of its records
  makes of `s`. So a page written in the middle of recovery, and then a kill, do no harm.
* For the records of each commit (`Carries`: `InsertionCarries`, `DeletionCarries`,
  `PropertyCarries`, `CreatedDeletedCarries`, and `NodeRecordsAre` for the differences of two node
  states), appending them to a log of the old state gives one of the new, over every tree the old log
  was right for.

`NodeInv` says this of the trees in the file always and of those in memory during recovery. `EdgeInv`
adds that rows and traversal keys agree (`EdgeTrees`) and that the counter is past the highest id ever
committed, or an insertion with that id is still to be redone (`UsedSeen`); as the three entries of an
edge are not written together, it is about histories without `mixed`. `LabelInv` is about the indexes.
Redoing an insertion indexes the labels the node was inserted with until it meets one that is there, so
the label index stays right exactly if a node that is inserted over still has those labels: `Keeps`,
which `~Relabel` allows to hold and `KeepsStep` carries through a redo.

### Streams

`TInv` has the types (`StoreTypes`, `TxnTypes`, `ReaderTypes`), the place of a recovery or a commit
(`Progress`, `Resting`) and that the epoch counts at most the transactions that began (`Broadcasts`).
`LoopingReaderIsWoken` follows from `WInv`: a reader that has read again has noted the epoch before, so
that it goes to sleep beside a message only while the commit that brought it has still to signal.

`RedoGives(L, k, T, P)` says that redoing `L` after its first `k` changes upon the trees `T` gives what
`P` promises. A record of a stream is settled by the last change that appends or trims it, or else by
the trees; the last number (`MetaGives`) and the offset (`OffsetGives`) alike. `RedoStep` and `RedoAll`
run it, `TreeWritten` says that it survives any one tree being replaced by its later version, and
`RedoJoined` that a commit's changes move it to the new promise. `Numbered` says that what a
transaction staged continues the stream without a gap, which `nextStreamSequence` gives from the last
number and what is staged already. `CInv` says it of the file, of a recovery and of a commit that is
being applied. `NInv` is about consumers: everything up to the cursor, a staged offset or the committed
one has been handled or was trimmed before. What a commit has still to append comes after everything
that is there (`PendingInv`), so a read in the middle of one leaves no gap behind the cursor (`NoGaps`,
`ReadCovers`).

### PyClient

`TypeOK` does not say that a call about to begin, or a Transaction object with a handle, names its
Database object, and without that the handle it begins on could be anything; `TInv` adds it.

* `FatesAlwaysKept`: `query()` answers one step after its commit, so the invariant `FInv` carries what
  it will answer: a statement's write is staged in the transaction that the call is about to commit,
  and committed once the call only has its query to free (`AnswerKept`). That needs `Exclusive`: the
  transaction a query began for itself is in no Transaction object and in no other thread's query,
  since anyone who shared it could end it in between. Begin keeps `Exclusive` because it takes a handle
  nothing holds. `StoredWasAsked` says that what is stored was asked for, hence never counted as
  dropped.
* `OptionsAlwaysHonoured`: the invariant relates each object's handle to the options it was opened with
  (`OpenedAsAsked`); only `Open` and `CloseNative` touch what it is about, and the options an entry
  point cannot carry have been refused before `Open`.
* `LocksAreReleased`: an open native database is some object's that does not say it is closed
  (`OpenIsHeld`), because a handle that a thread is about to forget is closed already and only that
  thread is about to forget it (`Closers`).
* `BlocksAreUsable`: each object is in one block of one thread (`OnceInBlocks`), is new until it is
  taken (`NewUnlessTaken`) and has a handle in its block until it is ended (`HeldInBlock`); the handle
  is its own (`HeldOnce`), active in the database its Database object has open (`HeldIsActive`), and
  that database is open, since it counts its children (`ActiveIsLive`).
* `NothingIsLeftBehind`: an active native transaction is held by an object in a block or is that of a
  query under way (`ActiveIsKnown`), a writer slot belongs to one that is active (`SlotIsActive`), and a
  thread that is out of the binding holds nothing (`IdleHasNothing`).

### PyGraph

The codec is any pair of operators. `CodecKeeps` says that a value which is not refused comes back
from it as it went in, `WordLabels` that labels have no comma; the rows of §4 about integers, arrays of
two dimensions and labels are their complements, and that `Encode` and `Decode` keep the values of the
instance is what `py_graph` checks.

* `TInv` adds to the types what the creation under way has made so far: the thing is in the view, with
  the labels that are no longer to be added and without its property.
* `ReadsAlwaysAgree` follows from `AInv`: the committed graph is what was told at the last commit
  (`settled`), but for what is torn, and the view is what has been told since (`known`), but for what is
  torn or under way. A call that succeeds makes view and telling equal for its thing in the same step
  that ends it; one that raises makes the thing torn. Each reading method is then a lemma about a view
  that agrees.
* `CreationsAreWhole` follows from `OInv`: ids are given out once, so nothing is stored under one still
  to come (`Unmade`), hence a torn thing is not made again; and it is in no committed graph, nor in the
  view of a block that has caught no exception (`Held`), which is the only view a commit takes without
  excuse.

### TreePages

The keys are any set of positive integers and a leaf holds any number of at least two. The entries of a
tree are the separators of its root with the leaves under them, or one entry for a root that is a leaf.
`Good` says of them that one is for the lowest keys, that no two share a separator or a leaf, and that
each leaf holds only keys that belong below its entry (`Below`: its separator is the greatest that is not
above the key). From that, a descent ends in the only leaf that may hold the key, and what lookups find
is the union of the leaves (`Hold`), with no recursion over the tree since it has one inner level. `Does`
says what an operation is to the tree as a whole: still sound, holding the key or no longer, and each
leaf it dropped is free in the file. There is one such lemma for each of the algorithms: insertion
in a leaf, a split under a root that was a leaf and under an inner page, removal, merge, redistribution
and collapse of the root. The arithmetic is in `Rank`: the lower half of a leaf is its first keys, so
both halves of a split are smaller than what was split and the separator is between them.

The invariant is `TInv /\ FInv /\ CInv`.

* `TInv` has the types, a sound tree in memory, and a free list that names free pages once (`Kept`).
* `FInv` is about the file: unless a window is open, the pages in the file are a sound tree under the
  root the header names, and all its leaves are leaves of the tree in memory. The second part keeps the
  first: an eviction of a leaf then writes a page that the tree in the file has in the same place,
  and frees nothing under it. It is what a kill turns into the tree in memory.
* `CInv` is about the log: the last operation on a key says whether it is committed, and a key without
  one is committed if the file has it, whatever moment each page of the file is from. During recovery the
  same is said of the operations still to be repeated and the tree so far, so a recovery that has repeated
  everything holds what was committed, and one that is killed in the middle starts again from a file of
  which the same is true.

`Windows = {}` is needed: each of the five windows breaks both theorems (§4). `TypeCorrect` does not need
it. After a kill in a window, the pages may be no search tree, with a parent that points to a free
page or two parents of one page, and the code goes on with them. `LInv` says what is left: `Fit`, by which
every page, in memory and in the file, is a leaf without kids, an inner page with finitely many kids of which
one is for the lowest keys, or free, and its kids are pages that exist. That is enough for the
algorithms to stay within the pages and never to free a page twice.

### VersionBump

`BInv` says, while the script runs: what it computed is the update of what it found (`Computed`); the
files off its list hold that (`Written`), the others what they held, but for one that may be empty
(`Unwritten`); and what has changed comes before everything on its list (`InOrder`). The check at the
end reads what `Written` says, which is why an exit code of 0 means one version.

### What is not proved

* Liveness (`ReadReturns`) is outside the prover's reach, and stays with TLC.
* `ValueCodec` is recursive, which TLAPS cannot reason about: that its `Encode` and `Decode` satisfy
  `CodecKeeps` is checked by TLC for the values of `py_graph` only, and fails for some others (§4).

* `OpenSucceeds` is not a theorem: it does not hold once frames may be torn or a truncation cut in two.

Every other property of a passing run has its theorem.

## 6. Abstractions

* `PyClient`: `open()` is one step, so two threads opening one object at once are left out, as are
  serialization, property index definitions and cache calls; a statement stages at most one write;
  `close()` succeeds or is refused for children, and its error code after a failed last sync, which
  consumes the handle all the same, is not told apart. Rows are not modelled, only that converting
  one may fail.
* `PyGraph`: one property key, one edge type, at most one edge of each end points in the instance;
  reading methods do not fail; a vector is there or not; streams, full text and commits that fail are
  elsewhere or left out.
* `VersionBump`: missing files, names in lockfiles, and files that a write left cut but with all their
  marks (which a check would accept) are left out; so is the formatting that rewriting JSON changes.
* `Durability`: one page per cell and no torn pages or headers; a record carries the whole cell; a
  checkpoint's writes and the fsync after them are one step, as are the WAL header and its checksum;
  the passive mode, fragmented records and savepoints (never reached through the database) are left
  out; only the last unsynced frame can be torn.
* `TreePages`: one operation per transaction, a log that is atomic and durable, inner pages of any
  size and one level of them, no overflow pages, no sibling pointers, kills only. Pages leaked by a
  kill are expected and not looked for.
* `GraphStores`: a transaction writes one node or one edge; nodes have one property and its index
  covers every label; an edge's end points go with its id and its two traversal keys are one entry;
  symbols are taken as interned; the file changes a tree at a time. A commit that meets a leftover
  entry in the label index fails in the middle, which is `CommitFailsApplying` of `TxnOverlay`, and
  is not repeated here.
* `Streams`: one consumer, one trim in a transaction and of messages only, one feed event for a
  change of the graph; the reader and the transactions are two threads, and an application commits
  no offset while its read is in progress. A read of the trees is one step, although nothing keeps
  the writer's thread from changing pages under it; what a torn read returns is not modelled. A
  commit that fails while it applies is `CommitFailsApplying` of `TxnOverlay`.
* `TxnOverlay`: values are opaque; resource exhaustion other than the transaction limit, and
  argument checks, are left out.

## 7. Plan

In this order, each with its runs, and sharing runs where one instance can ask several questions:

1. `Streams`, second part: several consumers, feed events of one commit in the order of the code, and
   an abstract append-only log that the module implements.
2. `BufferPool`: page table, frames, pins, latches, clock, passive checkpoint; and `PageFile`: free
   list and compaction. Safety: a pinned page stays, one frame per page, no update lost.
3. `BTree` in full: inner splits and merges, iterators, overflow pages, against a set of entries.
4. `Replication`: generations and segments against the log that is cut and renumbered; restore.
5. `MvccVersions`: visibility and collection.
6. `TextIndex` (postings, reverse index, documents of deleted nodes), `VectorGraph` (layers,
   entry point, neighbours), property lookups and schema changes.
7. Query operators as pure functions (limit, aggregation, three-valued comparison, paths) against
   reference definitions; statement atomicity and the plan cache.
8. Proofs: the refinement of an append-only log by `Streams`, once it is stated (1); trees of any height
   with `BTree` (3).

9. `PyClient`: `read_stream` beside `close()`, serialization; the Go and TypeScript clients differ in
   who ends a transaction and deserve an instance each.

Not planned: the command line, the build and documentation scripts, formatting and parsing of payloads,
and the numeric quality of vector search. The hazards of the buffer pool (frames published before they
are loaded, `buffer_pool.zig:166`; unlatching by the state found, 235), of the passive checkpoint
(`checkpoint.zig:184`), of the free list (`page_manager.zig:286`), of text search over deleted nodes
(`database.zig:5610`) and of replication belong to items 2 to 6.
