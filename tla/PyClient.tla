------------------------------ MODULE PyClient ------------------------------
(***************************************************************************)
(* The Python client: Database and Transaction objects, the native handles *)
(* they hold, and threads that call their methods.                         *)
(*                                                                         *)
(* ctypes releases the interpreter lock during a call into liblattice, so  *)
(* the calls of two threads interleave: an action is one native call with  *)
(* the Python code around it.  A Transaction object is used by the thread  *)
(* that entered it; a Database object is shared.                           *)
(***************************************************************************)
EXTENDS Naturals, FiniteSets, Sequences

CONSTANTS
  Threads,     \* threads of the program
  Dbs,         \* Database objects; all name the same file
  Txs,         \* Transaction objects, taken in order; TxnIds and DbIds likewise
  DbIds,       \* native database handles
  TxnIds,      \* native transaction handles; one that nothing holds is like a new one
  Items,       \* writes that statements may make
  None,        \* the Python None, the C NULL
  Options,     \* arguments of each Database object's constructor
  Libraries,   \* sets of optional symbols the loaded library may have
  Faults,      \* native calls that may fail
  Reopen,      \* whether a closed Database object may be opened again
  Reenter      \* whether an ended Transaction object may be entered again

OptionSet == [readOnly : BOOLEAN, lock : BOOLEAN, wal : BOOLEAN, cache : BOOLEAN]
Symbols   == {"open_v2", "open_v3", "open_v4"}
FaultSet  == {"begin", "execute", "commit", "query_commit", "rollback"}

ASSUME ClientAssumption ==
  /\ None \notin Dbs \cup Txs \cup DbIds \cup TxnIds \cup Items
  /\ Txs \cup DbIds \cup TxnIds \subseteq Nat
  /\ Options \in [Dbs -> OptionSet]
  /\ Libraries \subseteq SUBSET Symbols
  /\ Faults \subseteq FaultSet
  /\ Reopen \in BOOLEAN /\ Reenter \in BOOLEAN

VARIABLES
  lib,     \* the symbols of the library this process loaded
  dbo,     \* Database objects
  txo,     \* Transaction objects
  ndb,     \* native databases
  ntx,     \* native transactions
  call,    \* what each thread has under way
  blocks,  \* the with-blocks each thread is in, innermost first
  store,   \* writes that are committed
  fate     \* what the program was told about each write (history)

vars    == <<lib, dbo, txo, ndb, ntx, call, blocks, store, fate>>
natives == <<ndb, ntx>>
objects == <<dbo, txo>>

Phases == {"idle", "closing", "begin", "execute", "commit", "rollback", "free",
           "inside", "fetched"}

NewTransaction == [db |-> None, readOnly |-> FALSE, handle |-> None,
                   committed |-> FALSE, rolledBack |-> FALSE]

IdleCall == [at |-> "idle", db |-> None, query |-> None, txn |-> None,
             result |-> None, item |-> None, writes |-> FALSE]

TypeOK ==
  /\ lib \in Libraries
  /\ dbo \in [Dbs -> [handle : DbIds \cup {None}, closed : BOOLEAN, readOnly : BOOLEAN]]
  /\ txo \in [Txs -> [db : Dbs \cup {None}, readOnly : BOOLEAN,
                      handle : TxnIds \cup {None}, committed : BOOLEAN, rolledBack : BOOLEAN]]
  /\ ndb \in [DbIds -> [st : {"unused", "open", "closed"}, slot : TxnIds \cup {None},
                        opts : OptionSet]]
  /\ ntx \in [TxnIds -> [st : {"active", "ended"}, db : DbIds \cup {None},
                         writes : BOOLEAN, staged : SUBSET Items]]
  /\ call \in [Threads -> [at : Phases, db : Dbs \cup {None}, query : DbIds \cup {None},
                           txn : TxnIds \cup {None}, result : DbIds \cup {None},
                           item : Items \cup {None}, writes : BOOLEAN]]
  /\ \A t \in Threads :
       (call[t].at \in {"execute", "commit", "rollback", "inside"}) <=> (call[t].txn # None)
  /\ blocks \in [Threads -> Seq(Txs)]
  /\ store \subseteq Items
  /\ fate \in [Items -> {"none", "staged", "asked", "acked", "dropped"}]

Init ==
  /\ lib \in Libraries
  /\ dbo = [d \in Dbs |-> [handle |-> None, closed |-> FALSE,
                           readOnly |-> Options[d].readOnly]]
  /\ txo = [x \in Txs |-> NewTransaction]
  /\ ndb = [n \in DbIds |-> [st |-> "unused", slot |-> None,
                             opts |-> [readOnly |-> FALSE, lock |-> FALSE,
                                       wal |-> FALSE, cache |-> FALSE]]]
  /\ ntx = [i \in TxnIds |-> [st |-> "ended", db |-> None, writes |-> FALSE,
                              staged |-> {}]]
  /\ call = [t \in Threads |-> IdleCall]
  /\ blocks = [t \in Threads |-> <<>>]
  /\ store = {}
  /\ fate = [i \in Items |-> "none"]

-----------------------------------------------------------------------------
(* The C API as the binding sees it.                                       *)

Live(n) == n # None /\ ndb[n].st = "open"

HasQueries(n) == \E t \in Threads : n \in {call[t].query, call[t].result}

\* Transactions, queries and search results keep their database open.
HasChildren(n) ==
  \/ \E i \in TxnIds : ntx[i].st = "active" /\ ntx[i].db = n
  \/ \E t \in Threads : n \in {call[t].query, call[t].result}

\* A database opened read-only, or without its log, has no transaction manager.
Logged(n) == ndb[n].opts.wal /\ ~ndb[n].opts.readOnly

CanBegin(n, writes) ==
  Live(n) /\ (writes => Logged(n) /\ ndb[n].slot = None)

\* Transaction handles that are not in use and that no Python object holds.
Unheld == {i \in TxnIds : /\ ntx[i].st = "ended"
                          /\ \A x \in Txs : txo[x].handle # i
                          /\ \A t \in Threads : call[t].txn # i}

Least(S) == {i \in S : \A j \in S : i <= j}

NativeBegin(n, writes, i) ==
  /\ CanBegin(n, writes)
  /\ i \in Least(Unheld)
  /\ ntx' = [ntx EXCEPT ![i] = [st |-> "active", db |-> n, writes |-> writes,
                                staged |-> {}]]
  /\ ndb' = IF writes THEN [ndb EXCEPT ![n].slot = i] ELSE ndb

\* A transaction that ended stays known to the library, so that its handle is
\* refused, and gives up the writer slot.
NativeEnd(i, keepSlot) ==
  /\ ntx' = [ntx EXCEPT ![i] = [st |-> "ended", db |-> None, writes |-> FALSE,
                                staged |-> {}]]
  /\ ndb' = IF ndb[ntx[i].db].slot = i /\ ~keepSlot
              THEN [ndb EXCEPT ![ntx[i].db].slot = None]
              ELSE ndb

\* Locks are taken on the file: shared by readers, exclusive for a writer.
LockFree(opts) ==
  opts.lock =>
    \A n \in DbIds : Live(n) /\ ndb[n].opts.lock =>
                       opts.readOnly /\ ndb[n].opts.readOnly

Fresh == {i \in Items : fate[i] = "none"}

Told(S, f) == [i \in Items |-> IF i \in S THEN f ELSE fate[i]]

\* Writes abandoned before any commit was asked for.
Dropped(S) == [i \in Items |-> IF i \in S /\ fate[i] = "staged" THEN "dropped" ELSE fate[i]]

Idle(t) == call[t].at = "idle"
Go(t, c) == call' = [call EXCEPT ![t] = c]
-----------------------------------------------------------------------------
(* Database objects.                                                       *)

SupportedButCache(o) == ~o.wal => lib \cap Symbols # {}

\* Options that the newest entry point of the library cannot carry are refused ...
Supported(o) ==
  /\ o.cache => lib \cap {"open_v3", "open_v4"} # {}
  /\ ~o.wal  => lib \cap Symbols # {}

\* ... except the lock, and what it carries is what the database opens with.
Effective(o) ==
  [readOnly |-> o.readOnly,
   lock     |-> o.lock /\ "open_v4" \in lib,
   wal      |-> o.wal \/ lib \cap Symbols = {},
   cache    |-> o.cache /\ lib \cap {"open_v3", "open_v4"} # {}]

Open(t, d) ==
  /\ Idle(t)
  /\ dbo[d].handle = None
  /\ Reopen \/ ~dbo[d].closed
  /\ Supported(Options[d])
  /\ LockFree(Effective(Options[d]))
  /\ \E n \in Least({m \in DbIds : ndb[m].st = "unused"}) :
       /\ ndb' = [ndb EXCEPT ![n] = [st |-> "open", slot |-> None,
                                     opts |-> Effective(Options[d])]]
       /\ dbo' = [dbo EXCEPT ![d].handle = n]
  /\ UNCHANGED <<lib, txo, ntx, call, blocks, store, fate>>

\* Forgets the handle when lattice_close refused it.
CloseRegardless(t, d) ==
  /\ Idle(t)
  /\ ~dbo[d].closed /\ Live(dbo[d].handle)
  /\ ndb' = IF HasChildren(dbo[d].handle)
              THEN ndb ELSE [ndb EXCEPT ![dbo[d].handle].st = "closed"]
  /\ Go(t, [IdleCall EXCEPT !.at = "closing", !.db = d])
  /\ UNCHANGED <<lib, dbo, txo, ntx, blocks, store, fate>>

\* lattice_close refuses while children are open; the object then keeps its
\* handle.  Otherwise the handle is consumed, whether or not the last sync
\* succeeds, and the object forgets it in its next step.
CloseNative(t, d) ==
  /\ Idle(t)
  /\ ~dbo[d].closed /\ dbo[d].handle # None
  /\ Live(dbo[d].handle)
  /\ ~HasChildren(dbo[d].handle)
  /\ ndb' = [ndb EXCEPT ![dbo[d].handle].st = "closed"]
  /\ Go(t, [IdleCall EXCEPT !.at = "closing", !.db = d])
  /\ UNCHANGED <<lib, dbo, txo, ntx, blocks, store, fate>>

CloseForget(t) ==
  /\ call[t].at = "closing"
  /\ dbo' = [dbo EXCEPT ![call[t].db].handle = None, ![call[t].db].closed = TRUE]
  /\ Go(t, IdleCall)
  /\ UNCHANGED <<lib, txo, natives, blocks, store, fate>>

IsOpen(d) == dbo[d].handle # None /\ ~dbo[d].closed
-----------------------------------------------------------------------------
(* Transaction objects and their with-blocks.                              *)

\* db.read() or db.write(): a new object, or one that the program kept.
Takes(t, x, d, readOnly) ==
  /\ readOnly \/ ~dbo[d].readOnly
  /\ \/ x \in Least({y \in Txs : txo[y].db = None})
     \/ /\ Reenter /\ txo[x].db = d /\ txo[x].readOnly = readOnly
        /\ \A u \in Threads \ {t} : \A k \in DOMAIN blocks[u] : blocks[u][k] # x

\* __enter__: the object begins its native transaction.
Enter(t, x, d, readOnly) ==
  /\ Idle(t)
  /\ Takes(t, x, d, readOnly)
  /\ \E i \in TxnIds :
       /\ NativeBegin(dbo[d].handle, ~readOnly, i)
       /\ txo' = [txo EXCEPT ![x].db = d, ![x].readOnly = readOnly, ![x].handle = i]
  /\ blocks' = [blocks EXCEPT ![t] = <<x>> \o @]
  /\ UNCHANGED <<lib, dbo, call, store, fate>>

InBlock(t, x) == \E k \in DOMAIN blocks[t] : blocks[t][k] = x

\* create_node, set_property and the other methods that write.
Stage(t, x) ==
  /\ Idle(t) /\ InBlock(t, x)
  /\ ~txo[x].readOnly /\ txo[x].handle # None
  /\ ntx[txo[x].handle].st = "active"
  /\ \E i \in Fresh :
       /\ ntx' = [ntx EXCEPT ![txo[x].handle].staged = @ \cup {i}]
       /\ fate' = Told({i}, "staged")
  /\ UNCHANGED <<lib, objects, ndb, call, blocks, store>>

Commit(t, x) ==
  /\ Idle(t) /\ InBlock(t, x)
  /\ ~txo[x].committed /\ ~txo[x].rolledBack /\ txo[x].handle # None
  /\ LET i == txo[x].handle IN
       /\ ntx[i].st = "active"
       /\ \/ /\ NativeEnd(i, FALSE)
             /\ store' = store \cup ntx[i].staged
             /\ fate' = Told(ntx[i].staged, "acked")
             /\ txo' = [txo EXCEPT ![x].handle = None, ![x].committed = TRUE]
          \/ /\ "commit" \in Faults         \* the object keeps the handle
             /\ store' \in {store, store \cup ntx[i].staged}
             /\ fate' = Told(ntx[i].staged, "asked")
             /\ UNCHANGED <<natives, txo>>
  /\ UNCHANGED <<lib, dbo, call, blocks>>

\* Handle and flag change even when the native call fails; a failed rollback
\* keeps the writer slot.
RollbackNative(x) ==
  LET i == txo[x].handle IN
    IF i # None /\ ntx[i].st = "active"
      THEN /\ \E keepSlot \in {FALSE} \cup (IF "rollback" \in Faults THEN {TRUE} ELSE {}) :
                NativeEnd(i, keepSlot)
           /\ fate' = Dropped(ntx[i].staged)
      ELSE UNCHANGED <<natives, fate>>

Rollback(t, x) ==
  /\ Idle(t) /\ InBlock(t, x)
  /\ ~txo[x].committed /\ ~txo[x].rolledBack
  /\ RollbackNative(x)
  /\ txo' = [txo EXCEPT ![x].handle = None, ![x].rolledBack = TRUE]
  /\ UNCHANGED <<lib, dbo, call, blocks, store>>

\* The innermost block ends, by its last statement or by an exception.  The
\* next block has a new object, unless the program keeps and enters this one.
Exit(t) ==
  /\ Idle(t) /\ blocks[t] # <<>>
  /\ blocks' = [blocks EXCEPT ![t] = Tail(@)]
  /\ LET x == Head(blocks[t]) IN
       IF txo[x].committed \/ txo[x].rolledBack
         THEN /\ txo' = [txo EXCEPT ![x] = IF Reenter THEN @ ELSE NewTransaction]
              /\ UNCHANGED <<natives, fate>>
         ELSE /\ txo' = [txo EXCEPT ![x] =
                           IF Reenter THEN [@ EXCEPT !.handle = None, !.rolledBack = TRUE]
                                      ELSE NewTransaction]
              /\ RollbackNative(x)
  /\ UNCHANGED <<lib, dbo, call, store>>
-----------------------------------------------------------------------------
(* Database.query: prepare, bind, begin, execute, collect, commit, clean up.*)

QueryPrepare(t, d, writes) ==
  /\ Idle(t)
  /\ Live(dbo[d].handle)
  /\ Go(t, [IdleCall EXCEPT !.at = "begin", !.db = d, !.writes = writes,
                            !.query = dbo[d].handle])
  /\ UNCHANGED <<lib, objects, natives, blocks, store, fate>>

\* A parameter that cannot be bound, or a begin that is refused.
QueryBegin(t) ==
  /\ call[t].at = "begin"
  /\ LET n == dbo[call[t].db].handle IN
       \/ \E i \in TxnIds :
            /\ NativeBegin(n, call[t].writes, i)
            /\ Go(t, [call[t] EXCEPT !.at = "execute", !.db = None, !.txn = i])
       \/ /\ "begin" \in Faults \/ ~CanBegin(n, call[t].writes)
          /\ Go(t, [call[t] EXCEPT !.at = "free", !.db = None, !.writes = FALSE])
          /\ UNCHANGED natives
  /\ UNCHANGED <<lib, objects, blocks, store, fate>>

\* Takes every statement for one that only reads.
ExecuteAsRead(t) ==
  /\ call[t].at = "execute"
  /\ \E item \in {None} \cup (IF call[t].writes THEN Fresh ELSE {}) :
       /\ ntx' = [ntx EXCEPT ![call[t].txn].staged = @ \cup ({item} \ {None})]
       /\ fate' = Told({item} \ {None}, "staged")
       /\ Go(t, [call[t] EXCEPT !.at = "rollback", !.writes = FALSE, !.item = item])
  /\ UNCHANGED <<lib, objects, ndb, blocks, store>>

\* The statement runs, its rows are copied and the result is freed.  A statement
\* that fails may have staged some of its writes; a row may fail to convert.
QueryExecute(t) ==
  /\ call[t].at = "execute"
  /\ LET i == call[t].txn
         valid == ntx[i].st = "active" /\ ntx[i].db = call[t].query IN
     \E item \in {None} \cup (IF call[t].writes THEN Fresh ELSE {}),
        ok \in {valid} \cup (IF "execute" \in Faults THEN {FALSE} ELSE {}) :
       /\ ntx' = [ntx EXCEPT ![i].staged = @ \cup ({item} \ {None})]
       /\ fate' = Told({item} \ {None}, "staged")
       /\ Go(t, IF ok /\ call[t].writes
                  THEN [call[t] EXCEPT !.at = "commit", !.item = item]
                  ELSE [call[t] EXCEPT !.at = "rollback", !.writes = FALSE])
  /\ UNCHANGED <<lib, objects, ndb, blocks, store>>

\* txn_ptr is forgotten before the code of the commit is looked at.
QueryCommit(t) ==
  /\ call[t].at = "commit"
  /\ LET i == call[t].txn IN
       \/ /\ NativeEnd(i, FALSE)
          /\ store' = store \cup ntx[i].staged
          /\ Go(t, [call[t] EXCEPT !.at = "free", !.txn = None, !.writes = FALSE])
       \/ /\ "query_commit" \in Faults
          /\ store' \in {store, store \cup ntx[i].staged}
          /\ Go(t, [call[t] EXCEPT !.at = "free", !.txn = None, !.writes = FALSE,
                                   !.item = None])
          /\ UNCHANGED natives
  /\ fate' = Told(ntx[call[t].txn].staged, "asked")
  /\ UNCHANGED <<lib, objects, blocks>>

\* Forgets to end the transaction of a query that failed.
AbandonQuery(t) ==
  /\ call[t].at = "rollback"
  /\ fate' = Dropped(ntx[call[t].txn].staged)
  /\ Go(t, [call[t] EXCEPT !.at = "free", !.txn = None])
  /\ UNCHANGED <<lib, objects, natives, blocks, store>>

\* Keeps the handle of the transaction it rolled back.
RollbackTwice(t) ==
  /\ call[t].at = "rollback"
  /\ NativeEnd(call[t].txn, FALSE)
  /\ fate' = Dropped(ntx[call[t].txn].staged)
  /\ Go(t, [call[t] EXCEPT !.at = "free"])
  /\ UNCHANGED <<lib, objects, blocks, store>>

\* The code of this rollback is not looked at.
QueryRollback(t) ==
  /\ call[t].at = "rollback"
  /\ \E keepSlot \in {FALSE} \cup (IF "rollback" \in Faults THEN {TRUE} ELSE {}) :
       NativeEnd(call[t].txn, keepSlot)
  /\ fate' = Dropped(ntx[call[t].txn].staged)
  /\ Go(t, [call[t] EXCEPT !.at = "free", !.txn = None])
  /\ UNCHANGED <<lib, objects, blocks, store>>

\* The query is freed and query() returns its rows, or raises.
QueryFree(t) ==
  /\ call[t].at = "free"
  /\ Go(t, IdleCall)
  /\ fate' = Told({call[t].item} \ {None}, "acked")
  /\ UNCHANGED <<lib, objects, natives, blocks, store>>
-----------------------------------------------------------------------------
(* Transaction.query, and the calls that only read.                        *)

TxnQueryPrepare(t, x) ==
  /\ Idle(t) /\ InBlock(t, x)
  /\ txo[x].handle # None
  /\ Live(dbo[txo[x].db].handle)
  /\ Go(t, [IdleCall EXCEPT !.at = "inside", !.txn = txo[x].handle,
                            !.query = dbo[txo[x].db].handle])
  /\ UNCHANGED <<lib, objects, natives, blocks, store, fate>>

\* The transaction stays open whatever the statement does; its writes wait
\* for the transaction's own commit.
TxnQueryExecute(t) ==
  /\ call[t].at = "inside"
  /\ LET i == call[t].txn IN
     \E item \in {None} \cup (IF ntx[i].writes /\ ntx[i].db = call[t].query
                                THEN Fresh ELSE {}) :
       /\ ntx' = [ntx EXCEPT ![i].staged = @ \cup ({item} \ {None})]
       /\ fate' = Told({item} \ {None}, "staged")
  /\ Go(t, [call[t] EXCEPT !.at = "free", !.txn = None])
  /\ UNCHANGED <<lib, objects, ndb, blocks, store>>

\* A search that has returned a native result; full-text results are children
\* of the database, vector results and lists of ids are not.
Fetch(t, d, counted) ==
  /\ Idle(t)
  /\ Live(dbo[d].handle)
  /\ Go(t, [IdleCall EXCEPT !.at = "fetched",
                            !.result = IF counted THEN dbo[d].handle ELSE None])
  /\ UNCHANGED <<lib, objects, natives, blocks, store, fate>>

FtsSearch(t, d)       == Fetch(t, d, TRUE)
FtsSearchFuzzy(t, d)  == Fetch(t, d, TRUE)
VectorSearch(t, d)    == Fetch(t, d, FALSE)
GetNodesByLabel(t, d) == Fetch(t, d, FALSE)

\* The same in a transaction, whose result belongs to its database as well.
TxnFetch(t, x) ==
  /\ Idle(t) /\ InBlock(t, x)
  /\ txo[x].handle # None
  /\ ntx[txo[x].handle].st = "active"
  /\ Go(t, [IdleCall EXCEPT !.at = "fetched", !.result = ntx[txo[x].handle].db])
  /\ UNCHANGED <<lib, objects, natives, blocks, store, fate>>

TxnFtsSearch(t, x)      == TxnFetch(t, x)
TxnFtsSearchFuzzy(t, x) == TxnFetch(t, x)

\* The result is freed whether or not it could be read.
FetchFree(t) ==
  /\ call[t].at = "fetched"
  /\ Go(t, IdleCall)
  /\ UNCHANGED <<lib, objects, natives, blocks, store, fate>>
-----------------------------------------------------------------------------
Next ==
  \E t \in Threads :
    \/ CloseForget(t) \/ Exit(t) \/ FetchFree(t)
    \/ QueryBegin(t) \/ QueryExecute(t) \/ QueryCommit(t) \/ QueryRollback(t)
    \/ QueryFree(t) \/ TxnQueryExecute(t)
    \/ \E d \in Dbs :
         \/ Open(t, d) \/ CloseNative(t, d)
         \/ FtsSearch(t, d) \/ FtsSearchFuzzy(t, d)
         \/ VectorSearch(t, d) \/ GetNodesByLabel(t, d)
         \/ \E writes \in BOOLEAN : QueryPrepare(t, d, writes)
         \/ \E x \in Txs, readOnly \in BOOLEAN : Enter(t, x, d, readOnly)
    \/ \E x \in Txs :
         \/ Stage(t, x) \/ Commit(t, x) \/ Rollback(t, x) \/ TxnQueryPrepare(t, x)
         \/ TxnFtsSearch(t, x) \/ TxnFtsSearchFuzzy(t, x)

Spec == Init /\ [][Next]_vars
-----------------------------------------------------------------------------
(* Once every thread is outside the binding and its with-blocks, nothing   *)
(* keeps a database open or holds its writer slot: close() is not refused  *)
(* and the next writer can begin.                                          *)
QuietMeansFree ==
  (\A t \in Threads : Idle(t) /\ blocks[t] = <<>>)
    => \A n \in DbIds : Live(n) => ~HasChildren(n) /\ ndb[n].slot = None

(* A native database that is open is the handle of a Database object that  *)
(* says so, or is about to be forgotten by a close that is under way: no   *)
(* lock on the file outlives the object that took it.                      *)
ReleasedWhenClosed ==
  \A n \in DbIds : Live(n) => \E d \in Dbs : dbo[d].handle = n /\ IsOpen(d)

(* What a query() or commit() that returned has written is in the          *)
(* database; what was abandoned before any commit was asked for is not.    *)
FatesKept ==
  \A i \in Items : /\ fate[i] = "acked" => i \in store
                   /\ fate[i] = "dropped" => i \notin store

(* Inside its with-block a Transaction object that calls itself active has *)
(* a live native transaction, in the database that its Database object has *)
(* open, whatever other threads did with that object meanwhile; outside,   *)
(* or ended, it has none.                                                  *)
UsableInBlock ==
  \A x \in Txs :
    /\ (txo[x].handle # None) <=> /\ \E t \in Threads : InBlock(t, x)
                                  /\ ~txo[x].committed /\ ~txo[x].rolledBack
    /\ txo[x].handle # None =>
         LET i == txo[x].handle IN
           /\ ntx[i].st = "active"
           /\ Live(ntx[i].db) /\ dbo[txo[x].db].handle = ntx[i].db
           /\ ntx[i].writes = ~txo[x].readOnly

(* An open database has the log and the cache its constructor asked for,   *)
(* whatever the age of the library, and with lattice_open_v4 the file is   *)
(* never open twice when one of the two may write and both asked to lock.  *)
OptionsHonoured ==
  /\ \A d \in Dbs : IsOpen(d) =>
       LET o == ndb[dbo[d].handle].opts IN
         o.wal = Options[d].wal /\ o.cache = Options[d].cache
  /\ \A n, m \in DbIds :
       n # m /\ Live(n) /\ Live(m) /\ ndb[n].opts.lock /\ ndb[m].opts.lock
         => ndb[n].opts.readOnly /\ ndb[m].opts.readOnly
===============================================================================
