--------------------------- MODULE PyClient_proofs ---------------------------
(***************************************************************************)
(* Theorems about PyClient, for every choice of the constants: any number  *)
(* of threads, objects and handles, whatever native calls fail, whether or *)
(* not objects are opened and entered again.  The second half is about     *)
(* what keeps native databases and transactions alive, and what ends them. *)
(***************************************************************************)
EXTENDS PyClient, TLAPS

-----------------------------------------------------------------------------
(* Types.  TypeOK is not inductive: a call that is about to begin or to    *)
(* forget a handle must name its Database object, and so must a            *)
(* Transaction object that has a handle.                                   *)

DboType  == [Dbs -> [handle : DbIds \cup {None}, closed : BOOLEAN, readOnly : BOOLEAN]]
NdbType  == [DbIds -> [st : {"unused", "open", "closed"}, slot : TxnIds \cup {None},
                       opts : OptionSet]]
NtxType  == [TxnIds -> [st : {"active", "ended"}, db : DbIds \cup {None},
                        writes : BOOLEAN, staged : SUBSET Items]]
TxoType  == [Txs -> [db : Dbs \cup {None}, readOnly : BOOLEAN,
                     handle : TxnIds \cup {None}, committed : BOOLEAN, rolledBack : BOOLEAN]]
FateType == [Items -> {"none", "staged", "asked", "acked", "dropped"}]
CallRec  == [at : Phases, db : Dbs \cup {None}, query : DbIds \cup {None},
             txn : TxnIds \cup {None}, result : DbIds \cup {None},
             item : Items \cup {None}, writes : BOOLEAN]
BlocksType == [Threads -> Seq(Txs)]
CallType == [Threads -> CallRec]
WithTxn  == {"execute", "commit", "rollback", "inside"}

CallOK(c) == /\ c \in CallRec
             /\ c.at \in WithTxn <=> c.txn # None
             /\ c.at \in {"begin", "closing"} => c.db # None

TInv ==
  /\ lib \in Libraries
  /\ dbo \in DboType /\ txo \in TxoType /\ ndb \in NdbType /\ ntx \in NtxType
  /\ call \in CallType /\ \A t \in Threads : CallOK(call[t])
  /\ blocks \in BlocksType
  /\ store \subseteq Items /\ fate \in FateType
  /\ \A x \in Txs : txo[x].handle # None => txo[x].db # None

LEMMA TInvType == TInv => TypeOK
  BY DEF TypeOK, TInv, DboType, TxoType, NdbType, NtxType, CallRec, CallType, CallOK,
         FateType, WithTxn, BlocksType

LEMMA NativeBeginType ==
  ASSUME ndb \in NdbType, ntx \in NtxType, NEW n \in DbIds \cup {None},
         NEW w \in BOOLEAN, NEW i \in TxnIds, NativeBegin(n, w, i)
  PROVE  ndb' \in NdbType /\ ntx' \in NtxType
  BY DEF NativeBegin, CanBegin, Live, NdbType, NtxType

LEMMA NativeEndType ==
  ASSUME ndb \in NdbType, ntx \in NtxType, NEW i \in TxnIds, NEW k, NativeEnd(i, k)
  PROVE  ndb' \in NdbType /\ ntx' \in NtxType
  <1>1. ntx' \in NtxType
    BY DEF NativeEnd, NtxType
  <1>2. ndb' = ndb \/ ndb' = [ndb EXCEPT ![ntx[i].db].slot = None]
    BY DEF NativeEnd
  <1>3. \A d : [ndb EXCEPT ![d].slot = None] \in NdbType
    BY DEF NdbType
  <1> QED BY <1>1, <1>2, <1>3

LEMMA GoType ==
  ASSUME call \in CallType, \A t \in Threads : CallOK(call[t]),
         NEW t \in Threads, NEW c, CallOK(c), Go(t, c)
  PROVE  call' \in CallType /\ \A u \in Threads : CallOK(call'[u])
  BY DEF Go, CallOK, CallType

LEMMA FateTypes ==
  ASSUME fate \in FateType, NEW S
  PROVE  /\ \A f \in {"none", "staged", "asked", "acked", "dropped"} :
              Told(S, f) \in FateType
         /\ Dropped(S) \in FateType
  BY DEF FateType, Told, Dropped

LEMMA StagedType ==
  ASSUME ntx \in NtxType, NEW i \in TxnIds, NEW S \in SUBSET Items,
         ntx' = [ntx EXCEPT ![i].staged = @ \cup S]
  PROVE  ntx' \in NtxType
  BY DEF NtxType

LEMMA IdleOK == CallOK(IdleCall)
  BY DEF CallOK, IdleCall, CallRec, Phases, WithTxn

\* The parts of a call that is under way.
LEMMA CallFields ==
  ASSUME TInv, NEW t \in Threads
  PROVE  /\ CallOK(call[t])
         /\ call[t].at \in Phases /\ call[t].db \in Dbs \cup {None}
         /\ call[t].query \in DbIds \cup {None} /\ call[t].txn \in TxnIds \cup {None}
         /\ call[t].result \in DbIds \cup {None} /\ call[t].item \in Items \cup {None}
         /\ call[t].writes \in BOOLEAN
         /\ call[t].at \in WithTxn => call[t].txn \in TxnIds
         /\ call[t].at \in {"begin", "closing"} => call[t].db \in Dbs
         /\ DOMAIN call = Threads
         /\ DOMAIN call[t] = {"at", "db", "query", "txn", "result", "item", "writes"}
  BY DEF TInv, CallOK, CallRec, CallType

LEMMA ObjectFields ==
  ASSUME TInv
  PROVE  /\ \A d \in Dbs : dbo[d].handle \in DbIds \cup {None}
         /\ \A x \in Txs : txo[x].handle \in TxnIds \cup {None}
         /\ \A x \in Txs : txo[x].handle # None => txo[x].handle \in TxnIds /\ txo[x].db \in Dbs
         /\ \A i \in TxnIds : ntx[i].staged \subseteq Items
  BY DEF TInv, TxoType, DboType, NtxType

LEMMA RollbackType ==
  ASSUME TInv, NEW x \in Txs, RollbackNative(x)
  PROVE  ndb' \in NdbType /\ ntx' \in NtxType /\ fate' \in FateType
  <1>1. CASE txo[x].handle # None /\ ntx[txo[x].handle].st = "active"
    <2>1. txo[x].handle \in TxnIds
      BY <1>1, ObjectFields
    <2>2. PICK k : NativeEnd(txo[x].handle, k)
      BY <1>1 DEF RollbackNative
    <2>3. fate' = Dropped(ntx[txo[x].handle].staged)
      BY <1>1 DEF RollbackNative
    <2> QED BY <2>1, <2>2, <2>3, NativeEndType, FateTypes DEF TInv
  <1>2. CASE ~(txo[x].handle # None /\ ntx[txo[x].handle].st = "active")
    BY <1>2 DEF RollbackNative, natives, TInv
  <1> QED BY <1>1, <1>2

\* An action that changes only the call, the native transactions and the
\* history keeps the types.
LEMMA CallStepType ==
  ASSUME TInv, NEW t \in Threads, NEW c, CallOK(c), Go(t, c),
         ndb' \in NdbType, ntx' \in NtxType, store' \subseteq Items, fate' \in FateType,
         UNCHANGED <<lib, objects, blocks>>
  PROVE  TInv'
  <1>1. call' \in CallType /\ \A u \in Threads : CallOK(call'[u])
    BY GoType DEF TInv
  <1> QED BY <1>1 DEF TInv, objects

LEMMA FetchType ==
  ASSUME TInv, NEW t \in Threads, NEW n \in DbIds \cup {None},
         Go(t, [IdleCall EXCEPT !.at = "fetched", !.result = n]),
         UNCHANGED <<lib, objects, natives, blocks, store, fate>>
  PROVE  TInv'
  <1>1. CallOK([IdleCall EXCEPT !.at = "fetched", !.result = n])
    BY DEF CallOK, IdleCall, CallRec, Phases, WithTxn
  <1> QED BY <1>1, CallStepType DEF TInv, natives

-----------------------------------------------------------------------------
LEMMA TInvInit == Init => TInv
  <1> SUFFICES ASSUME Init PROVE TInv
    OBVIOUS
  <1>1. dbo \in DboType /\ txo \in TxoType /\ ndb \in NdbType /\ ntx \in NtxType
    BY ClientAssumption
       DEF Init, DboType, TxoType, NdbType, NtxType, NewTransaction, OptionSet
  <1>2. call \in CallType /\ \A t \in Threads : CallOK(call[t])
    BY IdleOK DEF Init, CallType, CallOK
  <1>3. blocks \in BlocksType /\ store \subseteq Items /\ fate \in FateType
    BY DEF Init, BlocksType, FateType
  <1>4. \A x \in Txs : txo[x].handle = None
    BY DEF Init, NewTransaction
  <1> QED BY <1>1, <1>2, <1>3, <1>4 DEF Init, TInv

LEMMA TInvObjects ==
  ASSUME TInv, NEW t \in Threads
  PROVE  /\ \A d \in Dbs : Open(t, d) \/ CloseNative(t, d) => TInv'
         /\ CloseForget(t) => TInv'
  <1>1. ASSUME NEW d \in Dbs, Open(t, d) PROVE TInv'
    <2>1. Effective(Options[d]) \in OptionSet
      BY ClientAssumption DEF OptionSet, Effective
    <2>2. PICK n \in DbIds :
            /\ ndb' = [ndb EXCEPT ![n] = [st |-> "open", slot |-> None,
                                          opts |-> Effective(Options[d])]]
            /\ dbo' = [dbo EXCEPT ![d].handle = n]
      BY <1>1 DEF Open, Least
    <2>3. ndb' \in NdbType
      BY <2>1, <2>2 DEF TInv, NdbType
    <2>4. dbo' \in DboType
      BY <2>2 DEF TInv, DboType
    <2> QED BY <1>1, <2>3, <2>4 DEF Open, TInv
  <1>2. ASSUME NEW d \in Dbs, CloseNative(t, d) PROVE TInv'
    <2>1. CallOK([IdleCall EXCEPT !.at = "closing", !.db = d])
      BY ClientAssumption DEF CallOK, IdleCall, CallRec, Phases, WithTxn
    <2>2. ndb' \in NdbType
      BY <1>2 DEF CloseNative, TInv, NdbType
    <2>3. Go(t, [IdleCall EXCEPT !.at = "closing", !.db = d])
          /\ UNCHANGED <<lib, dbo, txo, ntx, blocks, store, fate>>
      BY <1>2 DEF CloseNative
    <2> QED BY <2>1, <2>2, <2>3, CallStepType DEF TInv, objects
  <1>3. ASSUME CloseForget(t) PROVE TInv'
    <2>1. call' \in CallType /\ \A u \in Threads : CallOK(call'[u])
      BY <1>3, GoType, IdleOK DEF TInv, CloseForget
    <2>2. dbo' \in DboType
      BY <1>3 DEF CloseForget, TInv, DboType
    <2> QED BY <1>3, <2>1, <2>2 DEF CloseForget, TInv, natives
  <1> QED BY <1>1, <1>2, <1>3

LEMMA TInvBlocks ==
  ASSUME TInv, NEW t \in Threads
  PROVE  /\ \A x \in Txs, d \in Dbs, ro \in BOOLEAN : Enter(t, x, d, ro) => TInv'
         /\ \A x \in Txs : Stage(t, x) \/ Commit(t, x) \/ Rollback(t, x) => TInv'
         /\ Exit(t) => TInv'
  <1>1. ASSUME NEW x \in Txs, NEW d \in Dbs, NEW ro \in BOOLEAN, Enter(t, x, d, ro)
        PROVE TInv'
    <2>1. PICK i \in TxnIds :
            /\ NativeBegin(dbo[d].handle, ~ro, i)
            /\ txo' = [txo EXCEPT ![x].db = d, ![x].readOnly = ro, ![x].handle = i]
      BY <1>1 DEF Enter
    <2>2. ndb' \in NdbType /\ ntx' \in NtxType
      BY <2>1, NativeBeginType, ObjectFields DEF TInv
    <2>3. txo' \in TxoType
      BY <2>1, ZenonT(60) DEF TxoType, TInv
    <2>4. \A y \in Txs : txo'[y].handle # None => txo'[y].db # None
      <3>1. txo'[x].db = d
        BY <2>1 DEF TxoType, TInv
      <3>2. \A y \in Txs \ {x} : txo'[y] = txo[y]
        BY <2>1 DEF TxoType, TInv
      <3>3. d # None
        BY ClientAssumption
      <3> QED BY <3>1, <3>2, <3>3 DEF TInv
    <2>5. <<x>> \o blocks[t] \in Seq(Txs)
      BY DEF TInv, BlocksType
    <2>6. blocks' \in BlocksType
      BY <1>1, <2>5 DEF Enter, TInv, BlocksType
    <2> QED BY <1>1, <2>2, <2>3, <2>4, <2>6 DEF Enter, TInv
  <1>2. ASSUME NEW x \in Txs, Stage(t, x) PROVE TInv'
    <2>1. txo[x].handle \in TxnIds
      BY <1>2, ObjectFields DEF Stage
    <2>2. PICK i \in Items : /\ ntx' = [ntx EXCEPT ![txo[x].handle].staged = @ \cup {i}]
                             /\ fate' = Told({i}, "staged")
      BY <1>2 DEF Stage, Fresh
    <2>3. ntx' \in NtxType
      BY <2>1, <2>2 DEF TInv, NtxType
    <2>4. fate' \in FateType
      BY <2>2, FateTypes DEF TInv
    <2> QED BY <1>2, <2>3, <2>4 DEF Stage, objects, TInv
  <1>3. ASSUME NEW x \in Txs, Commit(t, x) PROVE TInv'
    <2> DEFINE i == txo[x].handle
    <2>1. i \in TxnIds /\ ntx[i].staged \subseteq Items
      BY <1>3, ObjectFields DEF Commit
    <2>2. CASE /\ NativeEnd(i, FALSE)
               /\ store' = store \cup ntx[i].staged
               /\ fate' = Told(ntx[i].staged, "acked")
               /\ txo' = [txo EXCEPT ![x].handle = None, ![x].committed = TRUE]
      <3>1. txo' \in TxoType /\ \A y \in Txs : txo'[y].handle # None => txo'[y].db # None
        BY <2>2 DEF TxoType, TInv
      <3>2. ndb' \in NdbType /\ ntx' \in NtxType /\ fate' \in FateType
        BY <2>1, <2>2, NativeEndType, FateTypes DEF TInv
      <3> QED BY <1>3, <2>1, <2>2, <3>1, <3>2 DEF Commit, TInv
    <2>3. CASE /\ store' \in {store, store \cup ntx[i].staged}
               /\ fate' = Told(ntx[i].staged, "asked")
               /\ UNCHANGED <<natives, txo>>
      BY <1>3, <2>1, <2>3, FateTypes DEF Commit, natives, TInv
    <2> QED BY <1>3, <2>2, <2>3 DEF Commit
  <1>4. ASSUME NEW x \in Txs, Rollback(t, x) PROVE TInv'
    <2>1. txo' \in TxoType /\ \A y \in Txs : txo'[y].handle # None => txo'[y].db # None
      BY <1>4 DEF Rollback, TxoType, TInv
    <2>2. ndb' \in NdbType /\ ntx' \in NtxType /\ fate' \in FateType
      BY <1>4, RollbackType DEF Rollback
    <2> QED BY <1>4, <2>1, <2>2 DEF Rollback, TInv
  <1>5. ASSUME Exit(t) PROVE TInv'
    <2> DEFINE x == Head(blocks[t])
    <2>1. blocks[t] \in Seq(Txs) /\ blocks[t] # <<>>
      BY <1>5 DEF Exit, TInv, BlocksType
    <2>2. x \in Txs /\ Tail(blocks[t]) \in Seq(Txs)
      BY <2>1
    <2>3. blocks' \in BlocksType
      BY <1>5, <2>2 DEF Exit, TInv, BlocksType
    <2>4. PICK y \in {txo[x], NewTransaction,
                      [txo[x] EXCEPT !.handle = None, !.rolledBack = TRUE]} :
            txo' = [txo EXCEPT ![x] = y]
      BY <1>5 DEF Exit
    <2>5. txo' \in TxoType /\ \A z \in Txs : txo'[z].handle # None => txo'[z].db # None
      <3> DEFINE R == [db : Dbs \cup {None}, readOnly : BOOLEAN, handle : TxnIds \cup {None},
                      committed : BOOLEAN, rolledBack : BOOLEAN]
      <3> HIDE DEF x
      <3>1. txo \in [Txs -> R] /\ txo[x] \in R
        BY <2>2 DEF TxoType, TInv
      <3>2. NewTransaction \in R /\ NewTransaction.handle = None
        BY DEF NewTransaction
      <3>3. [txo[x] EXCEPT !.handle = None, !.rolledBack = TRUE] \in R
            /\ [txo[x] EXCEPT !.handle = None, !.rolledBack = TRUE].handle = None
        BY <3>1
      <3>4. txo[x].handle # None => txo[x].db # None
        BY <2>2 DEF TInv
      <3>5. y \in R /\ (y.handle # None => y.db # None)
        BY <3>1, <3>2, <3>3, <3>4
      <3> HIDE DEF R
      <3>6. txo' \in [Txs -> R]
        BY <2>2, <2>4, <3>1, <3>5
      <3> QED BY <2>2, <2>4, <3>1, <3>5, <3>6 DEF TxoType, TInv, R
    <2>6. ndb' \in NdbType /\ ntx' \in NtxType /\ fate' \in FateType
      <3>1. RollbackNative(x) \/ UNCHANGED <<natives, fate>>
        BY <1>5 DEF Exit
      <3> QED BY <2>2, <3>1, RollbackType DEF natives, TInv
    <2> QED BY <1>5, <2>3, <2>5, <2>6 DEF Exit, TInv
  <1> QED BY <1>1, <1>2, <1>3, <1>4, <1>5

LEMMA TInvQuery ==
  ASSUME TInv, NEW t \in Threads
  PROVE  /\ \A d \in Dbs, w \in BOOLEAN : QueryPrepare(t, d, w) => TInv'
         /\ QueryBegin(t) \/ QueryExecute(t) \/ QueryCommit(t)
              \/ QueryRollback(t) \/ QueryFree(t) => TInv'
  <1> USE CallFields
  <1>1. ASSUME NEW d \in Dbs, NEW w \in BOOLEAN, QueryPrepare(t, d, w) PROVE TInv'
    <2> DEFINE c == [IdleCall EXCEPT !.at = "begin", !.db = d, !.writes = w,
                                     !.query = dbo[d].handle]
    <2>1. CallOK(c)
      BY ClientAssumption, ObjectFields DEF CallOK, IdleCall, CallRec, Phases, WithTxn
    <2> HIDE DEF c
    <2>2. Go(t, c) /\ UNCHANGED <<lib, objects, natives, blocks, store, fate>>
      BY <1>1 DEF QueryPrepare, c
    <2> QED BY <2>1, <2>2, CallStepType DEF TInv, natives
  <1>2. ASSUME QueryBegin(t) PROVE TInv'
    <2> DEFINE n == dbo[call[t].db].handle
    <2>1. n \in DbIds \cup {None}
      BY <1>2, ObjectFields DEF QueryBegin
    <2>2. CASE \E i \in TxnIds :
                 /\ NativeBegin(n, call[t].writes, i)
                 /\ Go(t, [call[t] EXCEPT !.at = "execute", !.db = None, !.txn = i])
      <3>1. PICK i \in TxnIds :
              /\ NativeBegin(n, call[t].writes, i)
              /\ Go(t, [call[t] EXCEPT !.at = "execute", !.db = None, !.txn = i])
        BY <2>2
      <3>2. CallOK([call[t] EXCEPT !.at = "execute", !.db = None, !.txn = i])
        BY ClientAssumption DEF CallOK, CallRec, Phases, WithTxn
      <3>3. ndb' \in NdbType /\ ntx' \in NtxType
        BY <2>1, <3>1, NativeBeginType DEF TInv
      <3> QED BY <1>2, <3>1, <3>2, <3>3, CallStepType DEF QueryBegin, TInv
    <2>3. CASE /\ Go(t, [call[t] EXCEPT !.at = "free", !.db = None, !.writes = FALSE])
               /\ UNCHANGED natives
      <3>1. CallOK([call[t] EXCEPT !.at = "free", !.db = None, !.writes = FALSE])
        BY <1>2 DEF CallOK, CallRec, Phases, WithTxn, QueryBegin
      <3> QED BY <1>2, <2>3, <3>1, CallStepType DEF QueryBegin, natives, TInv
    <2> QED BY <1>2, <2>2, <2>3 DEF QueryBegin
  <1>3. ASSUME QueryExecute(t) PROVE TInv'
    <2> DEFINE i == call[t].txn
    <2>1. i \in TxnIds
      BY <1>3 DEF QueryExecute, WithTxn
    <2>2. PICK item, c :
            /\ item \in Items \cup {None}
            /\ ntx' = [ntx EXCEPT ![i].staged = @ \cup ({item} \ {None})]
            /\ fate' = Told({item} \ {None}, "staged")
            /\ Go(t, c)
            /\ c \in {[call[t] EXCEPT !.at = "commit", !.item = item],
                      [call[t] EXCEPT !.at = "rollback", !.writes = FALSE]}
      BY <1>3 DEF QueryExecute, Fresh
    <2>3. CallOK(c)
      BY <1>3, <2>2 DEF CallOK, CallRec, Phases, WithTxn, QueryExecute
    <2>4. ntx' \in NtxType
      BY <2>1, <2>2 DEF TInv, NtxType
    <2>5. fate' \in FateType
      BY <2>2, FateTypes DEF TInv
    <2>6. UNCHANGED <<lib, objects, ndb, blocks, store>>
      BY <1>3 DEF QueryExecute
    <2> QED BY <2>2, <2>3, <2>4, <2>5, <2>6, CallStepType DEF TInv
  <1>4. ASSUME QueryCommit(t) PROVE TInv'
    <2> DEFINE i == call[t].txn
    <2>1. i \in TxnIds /\ ntx[i].staged \subseteq Items
      BY <1>4, ObjectFields DEF QueryCommit, WithTxn
    <2>2. fate' \in FateType /\ store' \subseteq Items
      BY <1>4, <2>1, FateTypes DEF QueryCommit, TInv
    <2>3. ndb' \in NdbType /\ ntx' \in NtxType
      <3>1. NativeEnd(i, FALSE) \/ UNCHANGED natives
        BY <1>4 DEF QueryCommit
      <3> QED BY <2>1, <3>1, NativeEndType DEF natives, TInv
    <2>4. PICK c : /\ Go(t, c)
                   /\ c \in {[call[t] EXCEPT !.at = "free", !.txn = None, !.writes = FALSE],
                             [call[t] EXCEPT !.at = "free", !.txn = None, !.writes = FALSE,
                                             !.item = None]}
      BY <1>4 DEF QueryCommit
    <2>5. CallOK(c)
      BY <1>4, <2>4 DEF CallOK, CallRec, Phases, WithTxn, QueryCommit
    <2>6. UNCHANGED <<lib, objects, blocks>>
      BY <1>4 DEF QueryCommit
    <2> QED BY <2>2, <2>3, <2>4, <2>5, <2>6, CallStepType
  <1>5. ASSUME QueryRollback(t) PROVE TInv'
    <2> DEFINE i == call[t].txn
    <2>1. i \in TxnIds
      BY <1>5 DEF QueryRollback, WithTxn
    <2>2. PICK k : NativeEnd(i, k)
      BY <1>5 DEF QueryRollback
    <2>3. ndb' \in NdbType /\ ntx' \in NtxType
      BY <2>1, <2>2, NativeEndType DEF TInv
    <2>4. fate' \in FateType
      BY <1>5, FateTypes DEF QueryRollback, TInv
    <2> DEFINE c == [call[t] EXCEPT !.at = "free", !.txn = None]
    <2>5. CallOK(c)
      BY <1>5 DEF CallOK, CallRec, Phases, WithTxn, QueryRollback
    <2> HIDE DEF c
    <2>6. Go(t, c) /\ UNCHANGED <<lib, objects, blocks, store>>
      BY <1>5 DEF QueryRollback, c
    <2> QED BY <2>3, <2>4, <2>5, <2>6, CallStepType DEF TInv
  <1>6. ASSUME QueryFree(t) PROVE TInv'
    <2>1. fate' \in FateType
      BY <1>6, FateTypes DEF QueryFree, TInv
    <2> QED BY <1>6, <2>1, IdleOK, CallStepType DEF QueryFree, natives, TInv
  <1> QED BY <1>1, <1>2, <1>3, <1>4, <1>5, <1>6

LEMMA TInvReads ==
  ASSUME TInv, NEW t \in Threads
  PROVE  /\ \A x \in Txs : TxnQueryPrepare(t, x) \/ TxnFetch(t, x) => TInv'
         /\ \A d \in Dbs, counted \in BOOLEAN : Fetch(t, d, counted) => TInv'
         /\ TxnQueryExecute(t) \/ FetchFree(t) => TInv'
  <1> USE CallFields
  <1>1. ASSUME NEW x \in Txs, TxnQueryPrepare(t, x) PROVE TInv'
    <2> DEFINE n == dbo[txo[x].db].handle
               c == [IdleCall EXCEPT !.at = "inside", !.txn = txo[x].handle, !.query = n]
    <2>1. txo[x].handle \in TxnIds /\ n \in DbIds \cup {None}
      BY <1>1, ObjectFields DEF TxnQueryPrepare
    <2>2. CallOK(c)
      BY <2>1, ClientAssumption DEF CallOK, IdleCall, CallRec, Phases, WithTxn
    <2> HIDE DEF c
    <2>3. Go(t, c) /\ UNCHANGED <<lib, objects, natives, blocks, store, fate>>
      BY <1>1 DEF TxnQueryPrepare, c
    <2> QED BY <2>2, <2>3, CallStepType DEF natives, TInv
  <1>2. ASSUME NEW x \in Txs, TxnFetch(t, x) PROVE TInv'
    <2>1. ntx[txo[x].handle].db \in DbIds \cup {None}
      BY <1>2, ObjectFields DEF TxnFetch, TInv, NtxType
    <2> QED BY <1>2, <2>1, FetchType DEF TxnFetch
  <1>3. ASSUME NEW d \in Dbs, NEW counted \in BOOLEAN, Fetch(t, d, counted) PROVE TInv'
    BY <1>3, FetchType, ObjectFields DEF Fetch
  <1>4. ASSUME TxnQueryExecute(t) PROVE TInv'
    <2> DEFINE i == call[t].txn
    <2>1. i \in TxnIds
      BY <1>4 DEF TxnQueryExecute, WithTxn
    <2>2. PICK item \in Items \cup {None} :
            /\ ntx' = [ntx EXCEPT ![i].staged = @ \cup ({item} \ {None})]
            /\ fate' = Told({item} \ {None}, "staged")
      BY <1>4 DEF TxnQueryExecute, Fresh
    <2>3. ntx' \in NtxType
      BY <2>1, <2>2 DEF TInv, NtxType
    <2>4. fate' \in FateType
      BY <2>2, FateTypes DEF TInv
    <2> DEFINE c == [call[t] EXCEPT !.at = "free", !.txn = None]
    <2>5. CallOK(c)
      BY <1>4 DEF CallOK, CallRec, Phases, WithTxn, TxnQueryExecute
    <2> HIDE DEF c
    <2>6. Go(t, c) /\ UNCHANGED <<lib, objects, ndb, blocks, store>>
      BY <1>4 DEF TxnQueryExecute, c
    <2> QED BY <2>3, <2>4, <2>5, <2>6, CallStepType DEF TInv
  <1>5. ASSUME FetchFree(t) PROVE TInv'
    BY <1>5, IdleOK, CallStepType DEF FetchFree, natives, TInv
  <1> QED BY <1>1, <1>2, <1>3, <1>4, <1>5

LEMMA TInvNext == TInv /\ [Next]_vars => TInv'
  <1> SUFFICES ASSUME TInv, [Next]_vars PROVE TInv'
    OBVIOUS
  <1>1. CASE UNCHANGED vars
    BY <1>1 DEF vars, TInv
  <1>2. CASE Next
    BY <1>2, TInvObjects, TInvBlocks, TInvQuery, TInvReads
       DEF Next, FtsSearch, FtsSearchFuzzy, VectorSearch, GetNodesByLabel,
           TxnFtsSearch, TxnFtsSearchFuzzy
  <1> QED BY <1>1, <1>2

\* The typed invariant holds of every behaviour.
THEOREM TInvCorrect == Spec => []TInv
  BY TInvInit, TInvNext, PTL DEF Spec

\* Every variable keeps its type, whatever calls of whatever threads are made
\* and fail: a call that has a transaction under way is in one of the steps of
\* query() that end it, and in no other.
THEOREM TypeCorrect == Spec => []TypeOK
  BY TInvCorrect, TInvType, PTL
-----------------------------------------------------------------------------
(* Fates.  FatesKept is not inductive: query() answers in a step later     *)
(* than its commit, so what it will answer must be in the database by      *)
(* then, and the transaction it commits must hold what it staged, which    *)
(* no other call may have ended or given a new owner meanwhile.            *)

\* The calls whose transaction query() began for itself.
Owns(t) == call[t].at \in {"execute", "commit", "rollback"}

Exclusive ==
  \A t \in Threads : Owns(t) =>
    /\ \A x \in Txs : txo[x].handle # call[t].txn
    /\ \A u \in Threads \ {t} : Owns(u) => call[u].txn # call[t].txn

AnswerKept ==
  \A t \in Threads : call[t].item # None =>
    \/ call[t].at = "commit" /\ call[t].item \in ntx[call[t].txn].staged
    \/ call[t].at = "free" /\ call[t].item \in store

StoredWasAsked ==
  \A i \in Items : /\ i \in store => fate[i] \in {"asked", "acked"}
                   /\ fate[i] = "acked" => i \in store

FInv == StoredWasAsked /\ Exclusive /\ AnswerKept

LEMMA FInvFates == FInv => FatesKept
  BY DEF FInv, StoredWasAsked, FatesKept

\* The ways in which an action may change the store and the history.
LEMMA FateStep ==
  ASSUME TInv, StoredWasAsked, NEW S \in SUBSET Items,
         \/ UNCHANGED <<store, fate>>
         \/ store' = store /\ fate' = Told(S, "staged") /\ S \subseteq Fresh
         \/ store' = store /\ fate' = Dropped(S)
         \/ store' = store \cup S /\ fate' = Told(S, "acked")
         \/ store' \in {store, store \cup S} /\ fate' = Told(S, "asked")
  PROVE  StoredWasAsked'
  BY DEF StoredWasAsked, Told, Dropped, Fresh, TInv, FateType

\* Calls of other threads keep what they have staged.
OthersKeep(t) ==
  \A u \in Threads \ {t} :
    call[u].at = "commit" => ntx[call[u].txn].staged \subseteq ntx'[call[u].txn].staged

LEMMA BeginKeeps ==
  ASSUME TInv, NEW t \in Threads, NEW n, NEW w, NEW i \in TxnIds, NativeBegin(n, w, i)
  PROVE  i \in Unheld /\ OthersKeep(t)
  BY CallFields DEF NativeBegin, Least, Unheld, OthersKeep, TInv, NtxType, WithTxn

LEMMA EndKeeps ==
  ASSUME TInv, Exclusive, NEW t \in Threads, NEW i \in TxnIds, NEW k, NativeEnd(i, k),
         (Owns(t) /\ i = call[t].txn) \/ (\E x \in Txs : txo[x].handle = i)
  PROVE  OthersKeep(t)
  BY CallFields DEF NativeEnd, OthersKeep, Exclusive, Owns, TInv, NtxType, WithTxn

LEMMA StageKeeps ==
  ASSUME TInv, NEW t \in Threads, NEW i \in TxnIds, NEW S,
         ntx' = [ntx EXCEPT ![i].staged = @ \cup S]
  PROVE  OthersKeep(t)
  BY CallFields DEF OthersKeep, TInv, NtxType, WithTxn

LEMMA SameKeeps ==
  ASSUME NEW t \in Threads, ntx' = ntx
  PROVE  OthersKeep(t)
  BY DEF OthersKeep

LEMMA RollbackKeeps ==
  ASSUME TInv, Exclusive, NEW t \in Threads, NEW x \in Txs, RollbackNative(x)
  PROVE  /\ OthersKeep(t)
         /\ \E S \in SUBSET Items : fate' = Dropped(S) \/ fate' = fate
  <1>1. CASE txo[x].handle # None /\ ntx[txo[x].handle].st = "active"
    <2>1. txo[x].handle \in TxnIds /\ ntx[txo[x].handle].staged \subseteq Items
      BY <1>1, ObjectFields
    <2>2. PICK k : NativeEnd(txo[x].handle, k)
      BY <1>1 DEF RollbackNative
    <2>3. fate' = Dropped(ntx[txo[x].handle].staged)
      BY <1>1 DEF RollbackNative
    <2> QED BY <2>1, <2>2, <2>3, EndKeeps
  <1>2. CASE ~(txo[x].handle # None /\ ntx[txo[x].handle].st = "active")
    BY <1>2, SameKeeps DEF RollbackNative, natives
  <1> QED BY <1>1, <1>2

\* An action of a thread that is in no call of query(): at most it ends what
\* Transaction objects hold, or has one of them hold a new transaction.
LEMMA BlockStep ==
  ASSUME TInv, FInv, NEW t \in Threads, Idle(t) \/ call[t].at = "closing",
         call' = call \/ (call' = [call EXCEPT ![t] = call'[t]] /\ ~Owns(t)' /\ call'[t].item = None),
         OthersKeep(t), store \subseteq store',
         \A x \in Txs : txo'[x].handle \in {txo[x].handle, None} \cup Unheld,
         StoredWasAsked'
  PROVE  FInv'
  <1>1. call[t].item = None /\ ~Owns(t)
    BY DEF Idle, FInv, AnswerKept, Owns
  <1>2. \A u \in Threads \ {t} : call'[u] = call[u]
    BY DEF TInv, CallType
  <1>3. ~Owns(t)' /\ call'[t].item = None
    BY <1>1 DEF Owns
  <1>4. Exclusive'
    <2> SUFFICES ASSUME NEW u \in Threads, Owns(u)'
                 PROVE  /\ \A x \in Txs : txo'[x].handle # call'[u].txn
                        /\ \A v \in Threads \ {u} : Owns(v)' => call'[v].txn # call'[u].txn
      BY DEF Exclusive
    <2>1. u # t /\ call'[u] = call[u] /\ Owns(u)
      BY <1>2, <1>3 DEF Owns
    <2>2. call[u].txn # None /\ call[u].txn \notin Unheld
      <3>1. call[u].at \in WithTxn => call[u].txn # None
        BY CallFields DEF CallOK
      <3>2. call[u].txn \notin Unheld
        BY DEF Unheld
      <3> QED BY <2>1, <3>1, <3>2 DEF Owns, WithTxn
    <2>3. \A x \in Txs : txo'[x].handle # call'[u].txn
      BY <2>1, <2>2 DEF FInv, Exclusive
    <2>4. \A v \in Threads \ {u} : Owns(v)' => v # t /\ Owns(v) /\ call'[v] = call[v]
      BY <1>2, <1>3 DEF Owns
    <2> QED BY <2>1, <2>3, <2>4 DEF FInv, Exclusive
  <1>5. AnswerKept'
    BY <1>2, <1>3 DEF FInv, AnswerKept, OthersKeep
  <1> QED BY <1>4, <1>5 DEF FInv

\* A step of a call: the objects stay, and the transaction it has from now on
\* is the one it had, one that nothing held, or none.
LEMMA CallStep ==
  ASSUME TInv, FInv, NEW t \in Threads, NEW c, Go(t, c), UNCHANGED txo,
         c.at \in {"execute", "commit", "rollback"} =>
           (Owns(t) /\ c.txn = call[t].txn) \/ c.txn \in Unheld,
         c.item # None => \/ c.at = "commit" /\ c.item \in ntx'[c.txn].staged
                          \/ c.at = "free" /\ c.item \in store',
         OthersKeep(t), store \subseteq store', StoredWasAsked'
  PROVE  FInv'
  <1>1. call'[t] = c /\ \A u \in Threads \ {t} : call'[u] = call[u]
    BY DEF Go, TInv, CallType
  <1>2. Exclusive'
    BY <1>1 DEF FInv, Exclusive, Owns, Unheld
  <1>3. AnswerKept'
    BY <1>1 DEF FInv, AnswerKept, OthersKeep
  <1> QED BY <1>2, <1>3 DEF FInv

LEMMA FInvInit == Init => FInv
  BY DEF Init, FInv, StoredWasAsked, Exclusive, AnswerKept, Owns, IdleCall, NewTransaction

LEMMA FInvBlocks ==
  ASSUME TInv, FInv, NEW t \in Threads
  PROVE  /\ \A d \in Dbs : Open(t, d) \/ CloseNative(t, d) => FInv'
         /\ CloseForget(t) \/ Exit(t) => FInv'
         /\ \A x \in Txs, d \in Dbs, ro \in BOOLEAN : Enter(t, x, d, ro) => FInv'
         /\ \A x \in Txs : Stage(t, x) \/ Commit(t, x) \/ Rollback(t, x) => FInv'
  <1>1. ASSUME NEW d \in Dbs, Open(t, d) PROVE FInv'
    BY <1>1, FateStep, SameKeeps, BlockStep DEF Open, FInv
  <1>2. ASSUME NEW d \in Dbs, CloseNative(t, d) PROVE FInv'
    <2>1. call' = [call EXCEPT ![t] = call'[t]] /\ ~Owns(t)' /\ call'[t].item = None
      BY <1>2 DEF CloseNative, Go, Owns, IdleCall, TInv, CallType
    <2> QED BY <1>2, <2>1, FateStep, SameKeeps, BlockStep DEF CloseNative, FInv
  <1>3. ASSUME CloseForget(t) PROVE FInv'
    <2>1. call' = [call EXCEPT ![t] = call'[t]] /\ ~Owns(t)' /\ call'[t].item = None
      BY <1>3 DEF CloseForget, Go, Owns, IdleCall, TInv, CallType
    <2> QED BY <1>3, <2>1, FateStep, SameKeeps, BlockStep DEF CloseForget, FInv, natives
  <1>4. ASSUME Exit(t) PROVE FInv'
    <2> DEFINE x == Head(blocks[t])
    <2>1. x \in Txs
      BY <1>4 DEF Exit, TInv, BlocksType
    <2>2. PICK y \in {txo[x], NewTransaction,
                      [txo[x] EXCEPT !.handle = None, !.rolledBack = TRUE]} :
            txo' = [txo EXCEPT ![x] = y]
      BY <1>4 DEF Exit
    <2>3. RollbackNative(x) \/ UNCHANGED <<natives, fate>>
      BY <1>4 DEF Exit
    <2>4. Idle(t) /\ call' = call /\ store' = store
      BY <1>4 DEF Exit
    <2> HIDE DEF x
    <2>5. y.handle \in {txo[x].handle, None}
      <3>1. NewTransaction.handle = None
        BY DEF NewTransaction
      <3>2. [txo[x] EXCEPT !.handle = None, !.rolledBack = TRUE].handle = None
        BY <2>1 DEF TInv, TxoType
      <3> QED BY <2>2, <3>1, <3>2
    <2>6. \A z \in Txs : txo'[z].handle \in {txo[z].handle, None}
      BY <2>1, <2>2, <2>5 DEF TInv, TxoType
    <2>7. OthersKeep(t) /\ \E S \in SUBSET Items : fate' = Dropped(S) \/ fate' = fate
      BY <2>1, <2>3, RollbackKeeps, SameKeeps DEF FInv, natives
    <2>8. StoredWasAsked'
      BY <2>4, <2>7, FateStep DEF FInv
    <2> QED BY <2>4, <2>6, <2>7, <2>8, BlockStep
  <1>5. ASSUME NEW x \in Txs, NEW d \in Dbs, NEW ro \in BOOLEAN, Enter(t, x, d, ro)
        PROVE FInv'
    <2>1. PICK i \in TxnIds :
            /\ NativeBegin(dbo[d].handle, ~ro, i)
            /\ txo' = [txo EXCEPT ![x].db = d, ![x].readOnly = ro, ![x].handle = i]
      BY <1>5 DEF Enter
    <2>2. i \in Unheld /\ OthersKeep(t)
      BY <2>1, BeginKeeps
    <2>3. \A y \in Txs : txo'[y].handle \in {txo[y].handle, None} \cup Unheld
      BY <2>1, <2>2 DEF TInv, TxoType
    <2>4. StoredWasAsked'
      BY <1>5, FateStep DEF FInv, Enter
    <2> QED BY <1>5, <2>2, <2>3, <2>4, BlockStep DEF Enter
  <1>6. ASSUME NEW x \in Txs, Stage(t, x) PROVE FInv'
    <2>1. txo[x].handle \in TxnIds
      BY <1>6, ObjectFields DEF Stage
    <2>2. PICK i \in Fresh : /\ ntx' = [ntx EXCEPT ![txo[x].handle].staged = @ \cup {i}]
                             /\ fate' = Told({i}, "staged")
      BY <1>6 DEF Stage
    <2>3. OthersKeep(t)
      BY <2>1, <2>2, StageKeeps
    <2>4. StoredWasAsked'
      BY <1>6, <2>2, FateStep DEF FInv, Stage, Fresh
    <2> QED BY <1>6, <2>3, <2>4, BlockStep DEF Stage, objects
  <1>7. ASSUME NEW x \in Txs, Commit(t, x) PROVE FInv'
    <2> DEFINE i == txo[x].handle
               S == ntx[i].staged
    <2>1. i \in TxnIds /\ S \in SUBSET Items
      BY <1>7, ObjectFields DEF Commit
    <2>2. Idle(t) /\ call' = call
      BY <1>7 DEF Commit
    <2>3. CASE /\ NativeEnd(i, FALSE)
               /\ store' = store \cup S
               /\ fate' = Told(S, "acked")
               /\ txo' = [txo EXCEPT ![x].handle = None, ![x].committed = TRUE]
      <3>1. OthersKeep(t)
        BY <2>1, <2>3, EndKeeps DEF FInv
      <3>2. \A y \in Txs : txo'[y].handle \in {txo[y].handle, None}
        BY <2>3 DEF TInv, TxoType
      <3>3. StoredWasAsked'
        BY <2>1, <2>3, FateStep DEF FInv
      <3> QED BY <2>2, <2>3, <3>1, <3>2, <3>3, BlockStep
    <2>4. CASE /\ store' \in {store, store \cup S}
               /\ fate' = Told(S, "asked")
               /\ UNCHANGED <<natives, txo>>
      <3>1. StoredWasAsked'
        BY <2>1, <2>4, FateStep DEF FInv
      <3> QED BY <2>2, <2>4, <3>1, SameKeeps, BlockStep DEF natives
    <2> QED BY <1>7, <2>3, <2>4 DEF Commit
  <1>8. ASSUME NEW x \in Txs, Rollback(t, x) PROVE FInv'
    <2>1. \A y \in Txs : txo'[y].handle \in {txo[y].handle, None}
      BY <1>8 DEF Rollback, TInv, TxoType
    <2>2. OthersKeep(t) /\ \E S \in SUBSET Items : fate' = Dropped(S) \/ fate' = fate
      BY <1>8, RollbackKeeps DEF Rollback, FInv
    <2>3. StoredWasAsked'
      BY <1>8, <2>2, FateStep DEF FInv, Rollback
    <2> QED BY <1>8, <2>1, <2>2, <2>3, BlockStep DEF Rollback
  <1> QED BY <1>1, <1>2, <1>3, <1>4, <1>5, <1>6, <1>7, <1>8

LEMMA FInvQuery ==
  ASSUME TInv, FInv, NEW t \in Threads
  PROVE  /\ \A d \in Dbs, w \in BOOLEAN : QueryPrepare(t, d, w) => FInv'
         /\ QueryBegin(t) \/ QueryExecute(t) \/ QueryCommit(t)
              \/ QueryRollback(t) \/ QueryFree(t) => FInv'
  <1> USE CallFields
  <1>1. ASSUME NEW d \in Dbs, NEW w \in BOOLEAN, QueryPrepare(t, d, w) PROVE FInv'
    <2> DEFINE c == [IdleCall EXCEPT !.at = "begin", !.db = d, !.writes = w,
                                     !.query = dbo[d].handle]
    <2>1. c.at = "begin" /\ c.item = None
      BY DEF IdleCall
    <2> HIDE DEF c
    <2>2. Go(t, c) /\ UNCHANGED <<lib, objects, natives, blocks, store, fate>>
      BY <1>1 DEF QueryPrepare, c
    <2>3. StoredWasAsked'
      BY <2>2, FateStep DEF FInv
    <2> QED BY <2>1, <2>2, <2>3, SameKeeps, CallStep DEF natives, objects
  <1>2. ASSUME QueryBegin(t) PROVE FInv'
    <2>1. call[t].item = None /\ StoredWasAsked'
      BY <1>2, FateStep DEF QueryBegin, FInv, AnswerKept
    <2>2. CASE \E i \in TxnIds :
                 /\ NativeBegin(dbo[call[t].db].handle, call[t].writes, i)
                 /\ Go(t, [call[t] EXCEPT !.at = "execute", !.db = None, !.txn = i])
      <3>1. PICK i \in TxnIds :
              /\ NativeBegin(dbo[call[t].db].handle, call[t].writes, i)
              /\ Go(t, [call[t] EXCEPT !.at = "execute", !.db = None, !.txn = i])
        BY <2>2
      <3> DEFINE c == [call[t] EXCEPT !.at = "execute", !.db = None, !.txn = i]
      <3>2. c.txn = i /\ c.item = None
        BY <2>1
      <3>3. i \in Unheld /\ OthersKeep(t)
        BY <3>1, BeginKeeps
      <3>4. Go(t, c) /\ UNCHANGED <<txo, store>>
        BY <1>2, <3>1 DEF QueryBegin, objects
      <3> HIDE DEF c
      <3> QED BY <2>1, <3>2, <3>3, <3>4, CallStep
    <2>3. CASE /\ Go(t, [call[t] EXCEPT !.at = "free", !.db = None, !.writes = FALSE])
               /\ UNCHANGED natives
      <3> DEFINE c == [call[t] EXCEPT !.at = "free", !.db = None, !.writes = FALSE]
      <3>1. c.at = "free" /\ c.item = None
        BY <2>1
      <3>2. Go(t, c) /\ UNCHANGED <<txo, ntx, store>>
        BY <1>2, <2>3 DEF QueryBegin, objects, natives
      <3> HIDE DEF c
      <3> QED BY <2>1, <3>1, <3>2, SameKeeps, CallStep
    <2> QED BY <1>2, <2>2, <2>3 DEF QueryBegin
  <1>3. ASSUME QueryExecute(t) PROVE FInv'
    <2> DEFINE i == call[t].txn
    <2>1. i \in TxnIds /\ Owns(t) /\ call[t].item = None
      BY <1>3 DEF QueryExecute, WithTxn, Owns, FInv, AnswerKept
    <2>2. PICK item, c :
            /\ item \in {None} \cup Fresh
            /\ ntx' = [ntx EXCEPT ![i].staged = @ \cup ({item} \ {None})]
            /\ fate' = Told({item} \ {None}, "staged")
            /\ Go(t, c)
            /\ c \in {[call[t] EXCEPT !.at = "commit", !.item = item],
                      [call[t] EXCEPT !.at = "rollback", !.writes = FALSE]}
      BY <1>3 DEF QueryExecute
    <2>3. c.txn = i /\ (c.item # None => c.at = "commit" /\ c.item = item)
      BY <2>1, <2>2
    <2>4. item # None => item \in ntx'[i].staged
      BY <2>1, <2>2 DEF TInv, NtxType
    <2>5. OthersKeep(t)
      BY <2>1, <2>2, StageKeeps
    <2>6. UNCHANGED <<txo, store>>
      BY <1>3 DEF QueryExecute, objects
    <2>7. StoredWasAsked'
      <3>1. {item} \ {None} \in SUBSET Items /\ {item} \ {None} \subseteq Fresh
        BY <2>2 DEF Fresh
      <3> QED BY <2>2, <2>6, <3>1, FateStep DEF FInv
    <2> QED BY <2>1, <2>2, <2>3, <2>4, <2>5, <2>6, <2>7, CallStep
  <1>4. ASSUME QueryCommit(t) PROVE FInv'
    <2> DEFINE i == call[t].txn
               S == ntx[i].staged
    <2>1. i \in TxnIds /\ S \in SUBSET Items /\ Owns(t)
      BY <1>4, ObjectFields DEF QueryCommit, WithTxn, Owns
    <2>2. call[t].item # None => call[t].item \in S
      BY <1>4 DEF QueryCommit, FInv, AnswerKept
    <2>3. OthersKeep(t)
      <3>1. NativeEnd(i, FALSE) \/ UNCHANGED natives
        BY <1>4 DEF QueryCommit
      <3> QED BY <2>1, <3>1, EndKeeps, SameKeeps DEF FInv, natives
    <2>4. StoredWasAsked' /\ store \subseteq store'
      <3>1. store' \in {store, store \cup S} /\ fate' = Told(S, "asked")
        BY <1>4 DEF QueryCommit
      <3> QED BY <2>1, <3>1, FateStep DEF FInv
    <2>5. PICK c : /\ Go(t, c) /\ c.at = "free"
                   /\ c.item # None => c.item \in store'
      <3>1. CASE /\ store' = store \cup S
                 /\ Go(t, [call[t] EXCEPT !.at = "free", !.txn = None, !.writes = FALSE])
        <4> DEFINE c == [call[t] EXCEPT !.at = "free", !.txn = None, !.writes = FALSE]
        <4>1. c.at = "free" /\ c.item = call[t].item
          OBVIOUS
        <4>2. Go(t, c)
          BY <3>1
        <4> HIDE DEF c
        <4> QED BY <2>2, <3>1, <4>1, <4>2
      <3>2. CASE Go(t, [call[t] EXCEPT !.at = "free", !.txn = None, !.writes = FALSE,
                                       !.item = None])
        <4> DEFINE c == [call[t] EXCEPT !.at = "free", !.txn = None, !.writes = FALSE,
                                        !.item = None]
        <4>1. c.at = "free" /\ c.item = None
          OBVIOUS
        <4>2. Go(t, c)
          BY <3>2
        <4> HIDE DEF c
        <4> QED BY <4>1, <4>2
      <3> QED BY <1>4, <3>1, <3>2 DEF QueryCommit
    <2>6. UNCHANGED txo
      BY <1>4 DEF QueryCommit, objects
    <2> QED BY <2>3, <2>4, <2>5, <2>6, CallStep
  <1>5. ASSUME QueryRollback(t) PROVE FInv'
    <2> DEFINE i == call[t].txn
               c == [call[t] EXCEPT !.at = "free", !.txn = None]
    <2>1. i \in TxnIds /\ ntx[i].staged \in SUBSET Items /\ Owns(t) /\ call[t].item = None
      BY <1>5, ObjectFields DEF QueryRollback, WithTxn, Owns, FInv, AnswerKept
    <2>2. PICK k : NativeEnd(i, k)
      BY <1>5 DEF QueryRollback
    <2>3. OthersKeep(t)
      BY <2>1, <2>2, EndKeeps DEF FInv
    <2>4. StoredWasAsked'
      BY <1>5, <2>1, FateStep DEF QueryRollback, FInv
    <2>5. c.at = "free" /\ c.item = None
      BY <2>1
    <2> HIDE DEF c
    <2>6. Go(t, c) /\ UNCHANGED <<txo, store>>
      BY <1>5 DEF QueryRollback, objects, c
    <2> QED BY <2>3, <2>4, <2>5, <2>6, CallStep
  <1>6. ASSUME QueryFree(t) PROVE FInv'
    <2>1. {call[t].item} \ {None} \in SUBSET Items
          /\ {call[t].item} \ {None} \subseteq store
      BY <1>6 DEF QueryFree, FInv, AnswerKept
    <2>2. StoredWasAsked'
      <3>1. store' = store \cup ({call[t].item} \ {None})
            /\ fate' = Told({call[t].item} \ {None}, "acked")
        BY <1>6, <2>1 DEF QueryFree
      <3> QED BY <2>1, <3>1, FateStep DEF FInv
    <2>3. Go(t, IdleCall) /\ UNCHANGED <<txo, ntx, store>>
      BY <1>6 DEF QueryFree, objects, natives
    <2>4. IdleCall.at = "idle" /\ IdleCall.item = None
      BY DEF IdleCall
    <2> QED BY <2>2, <2>3, <2>4, SameKeeps, CallStep
  <1> QED BY <1>1, <1>2, <1>3, <1>4, <1>5, <1>6

LEMMA FInvReads ==
  ASSUME TInv, FInv, NEW t \in Threads
  PROVE  /\ \A x \in Txs : TxnQueryPrepare(t, x) \/ TxnFetch(t, x) => FInv'
         /\ \A d \in Dbs, counted \in BOOLEAN : Fetch(t, d, counted) => FInv'
         /\ TxnQueryExecute(t) \/ FetchFree(t) => FInv'
  <1>1. ASSUME NEW c, Go(t, c), c.at \in {"idle", "inside", "fetched"}, c.item = None,
               UNCHANGED <<lib, objects, natives, blocks, store, fate>>
        PROVE  FInv'
    <2>1. StoredWasAsked'
      BY <1>1, FateStep DEF FInv
    <2> QED BY <1>1, <2>1, SameKeeps, CallStep DEF natives, objects
  <1>2. ASSUME NEW x \in Txs, TxnQueryPrepare(t, x) PROVE FInv'
    <2> DEFINE c == [IdleCall EXCEPT !.at = "inside", !.txn = txo[x].handle,
                                     !.query = dbo[txo[x].db].handle]
    <2>1. c.at = "inside" /\ c.item = None
      BY DEF IdleCall
    <2> HIDE DEF c
    <2> QED BY <1>1, <1>2, <2>1 DEF TxnQueryPrepare, c
  <1>3. ASSUME NEW n, Go(t, [IdleCall EXCEPT !.at = "fetched", !.result = n]),
               UNCHANGED <<lib, objects, natives, blocks, store, fate>>
        PROVE  FInv'
    <2> DEFINE c == [IdleCall EXCEPT !.at = "fetched", !.result = n]
    <2>1. c.at = "fetched" /\ c.item = None
      BY DEF IdleCall
    <2>2. Go(t, c)
      BY <1>3
    <2> HIDE DEF c
    <2> QED BY <1>1, <1>3, <2>1, <2>2
  <1>4. ASSUME TxnQueryExecute(t) PROVE FInv'
    <2> DEFINE i == call[t].txn
               c == [call[t] EXCEPT !.at = "free", !.txn = None]
    <2>1. i \in TxnIds /\ call[t].item = None
      BY <1>4, CallFields DEF TxnQueryExecute, WithTxn, FInv, AnswerKept
    <2>2. PICK item \in {None} \cup Fresh :
            /\ ntx' = [ntx EXCEPT ![i].staged = @ \cup ({item} \ {None})]
            /\ fate' = Told({item} \ {None}, "staged")
      BY <1>4 DEF TxnQueryExecute
    <2>3. OthersKeep(t)
      BY <2>1, <2>2, StageKeeps
    <2>4. c.at = "free" /\ c.item = None
      BY <2>1, CallFields
    <2>5. {item} \ {None} \in SUBSET Items /\ {item} \ {None} \subseteq Fresh
      BY <2>2 DEF Fresh
    <2> HIDE DEF c
    <2>6. Go(t, c) /\ UNCHANGED <<txo, store>>
      BY <1>4 DEF TxnQueryExecute, objects, c
    <2>7. StoredWasAsked'
      BY <2>2, <2>5, <2>6, FateStep DEF FInv
    <2> QED BY <2>3, <2>4, <2>6, <2>7, CallStep
  <1>5. ASSUME FetchFree(t) PROVE FInv'
    <2>1. IdleCall.at = "idle" /\ IdleCall.item = None
      BY DEF IdleCall
    <2> QED BY <1>1, <1>5, <2>1 DEF FetchFree
  <1> QED BY <1>2, <1>3, <1>4, <1>5 DEF TxnFetch, Fetch

LEMMA FInvNext == TInv /\ FInv /\ [Next]_vars => FInv'
  <1> SUFFICES ASSUME TInv, FInv, [Next]_vars PROVE FInv'
    OBVIOUS
  <1>1. CASE UNCHANGED vars
    BY <1>1 DEF vars, FInv, StoredWasAsked, Exclusive, AnswerKept, Owns
  <1>2. CASE Next
    BY <1>2, FInvBlocks, FInvQuery, FInvReads
       DEF Next, FtsSearch, FtsSearchFuzzy, VectorSearch, GetNodesByLabel,
           TxnFtsSearch, TxnFtsSearchFuzzy
  <1> QED BY <1>1, <1>2

LEMMA FInvCorrect == Spec => []FInv
  BY TInvCorrect, FInvInit, FInvNext, PTL DEF Spec

\* What a query() or a commit() that returned has written is in the database
\* and what was abandoned before a commit was asked for is not, however many
\* threads call the binding and whatever native calls fail.
THEOREM FatesAlwaysKept == Spec => []FatesKept
  BY FInvCorrect, FInvFates, PTL
-----------------------------------------------------------------------------
(* Options.  What a database opened with follows from the object that      *)
(* opened it: a handle is never given to a second object, because none is  *)
(* opened twice.                                                           *)

OpenedAsAsked ==
  \A d \in Dbs : dbo[d].handle # None =>
    /\ Supported(Options[d])
    /\ ndb[dbo[d].handle].st # "unused"
    /\ ndb[dbo[d].handle].opts = Effective(Options[d])

LocksExclude ==
  \A n, m \in DbIds :
    n # m /\ Live(n) /\ Live(m) /\ ndb[n].opts.lock /\ ndb[m].opts.lock
      => ndb[n].opts.readOnly /\ ndb[m].opts.readOnly

OInv == OpenedAsAsked /\ LocksExclude

LEMMA OInvOptions == TInv /\ OInv => OptionsHonoured
  <1> SUFFICES ASSUME TInv, OInv PROVE OptionsHonoured
    OBVIOUS
  <1>1. ASSUME NEW d \in Dbs, IsOpen(d)
        PROVE  /\ ndb[dbo[d].handle].opts.wal = Options[d].wal
               /\ ndb[dbo[d].handle].opts.cache = Options[d].cache
    <2>1. Supported(Options[d]) /\ ndb[dbo[d].handle].opts = Effective(Options[d])
      BY <1>1 DEF IsOpen, OInv, OpenedAsAsked
    <2>2. Options[d] \in OptionSet
      BY ClientAssumption
    <2>3. Effective(Options[d]).wal = Options[d].wal
          /\ Effective(Options[d]).cache = Options[d].cache
      BY <2>1, <2>2 DEF Supported, Effective, OptionSet
    <2> QED BY <2>1, <2>3
  <1> QED BY <1>1 DEF OInv, LocksExclude, OptionsHonoured

\* Ending and beginning transactions, and closing, leave the options alone.
Settled ==
  /\ lib' = lib
  /\ \A n \in DbIds : /\ ndb'[n].opts = ndb[n].opts
                      /\ ndb'[n].st = ndb[n].st \/ (ndb[n].st = "open" /\ ndb'[n].st = "closed")
  /\ \A d \in Dbs : dbo'[d].handle \in {dbo[d].handle, None}

LEMMA SettledKeeps == ASSUME TInv, OInv, Settled PROVE OInv'
  <1>1. OpenedAsAsked'
    <2> SUFFICES ASSUME NEW d \in Dbs, dbo'[d].handle # None
                 PROVE  /\ Supported(Options[d])'
                        /\ ndb'[dbo'[d].handle].st # "unused"
                        /\ ndb'[dbo'[d].handle].opts = Effective(Options[d])'
      BY DEF OpenedAsAsked
    <2>1. dbo'[d].handle = dbo[d].handle /\ dbo[d].handle \in DbIds
      BY ObjectFields DEF Settled
    <2>2. /\ Supported(Options[d]) /\ ndb[dbo[d].handle].st # "unused"
          /\ ndb[dbo[d].handle].opts = Effective(Options[d])
      BY <2>1, ClientAssumption DEF OInv, OpenedAsAsked
    <2>3. Supported(Options[d])' /\ Effective(Options[d])' = Effective(Options[d])
      BY <2>2 DEF Settled, Supported, Effective
    <2> QED BY <2>1, <2>2, <2>3 DEF Settled
  <1>2. LocksExclude'
    <2>1. \A n \in DbIds : Live(n)' => Live(n) /\ ndb'[n].opts = ndb[n].opts
      BY DEF Live, Settled
    <2> QED BY <2>1 DEF OInv, LocksExclude
  <1> QED BY <1>1, <1>2 DEF OInv

LEMMA NativesSettled ==
  ASSUME TInv, UNCHANGED <<lib, dbo>>,
         \/ \E n, w : \E i \in TxnIds : NativeBegin(n, w, i)
         \/ \E i, k : NativeEnd(i, k)
         \/ \E x \in Txs : RollbackNative(x)
         \/ ndb' = ndb
  PROVE  Settled
  <1>1. ndb' = ndb \/ \E n, s : ndb' = [ndb EXCEPT ![n].slot = s]
    BY DEF NativeBegin, NativeEnd, RollbackNative, natives
  <1>2. \A n \in DbIds : ndb'[n].opts = ndb[n].opts /\ ndb'[n].st = ndb[n].st
    BY <1>1 DEF TInv, NdbType
  <1> QED BY <1>2 DEF Settled

LEMMA OInvOpen ==
  ASSUME TInv, OInv, NEW t \in Threads, NEW d \in Dbs, Open(t, d)
  PROVE  OInv'
  <1> DEFINE o == Effective(Options[d])
  <1>1. PICK n \in DbIds :
          /\ ndb[n].st = "unused"
          /\ ndb' = [ndb EXCEPT ![n] = [st |-> "open", slot |-> None, opts |-> o]]
          /\ dbo' = [dbo EXCEPT ![d].handle = n]
    BY DEF Open, Least
  <1>2. lib' = lib /\ Supported(Options[d]) /\ LockFree(o)
    BY DEF Open
  <1>3. \A e \in OptionSet : Effective(e)' = Effective(e) /\ (Supported(e)' <=> Supported(e))
    BY <1>2 DEF Effective, Supported
  <1>4. Options \in [Dbs -> OptionSet]
    BY ClientAssumption
  <1> HIDE DEF o
  <1>5. ndb'[n].st = "open" /\ ndb'[n].opts = o
        /\ \A m \in DbIds \ {n} : ndb'[m] = ndb[m]
    BY <1>1 DEF TInv, NdbType
  <1>6. OpenedAsAsked'
    <2> SUFFICES ASSUME NEW e \in Dbs, dbo'[e].handle # None
                 PROVE  /\ Supported(Options[e])'
                        /\ ndb'[dbo'[e].handle].st # "unused"
                        /\ ndb'[dbo'[e].handle].opts = Effective(Options[e])'
      BY DEF OpenedAsAsked
    <2>1. CASE e = d
      <3>1. dbo'[e].handle = n
        BY <1>1, <2>1 DEF TInv, DboType
      <3> QED BY <1>2, <1>3, <1>4, <1>5, <2>1, <3>1 DEF o
    <2>2. CASE e # d
      <3>1. dbo'[e].handle = dbo[e].handle /\ dbo[e].handle \in DbIds
        BY <1>1, <2>2, ObjectFields DEF TInv, DboType
      <3>2. /\ Supported(Options[e]) /\ ndb[dbo[e].handle].st # "unused"
            /\ ndb[dbo[e].handle].opts = Effective(Options[e])
        BY <3>1, ClientAssumption DEF OInv, OpenedAsAsked
      <3>3. dbo[e].handle # n
        BY <1>1, <3>2
      <3> QED BY <1>3, <1>4, <1>5, <3>1, <3>2, <3>3
    <2> QED BY <2>1, <2>2
  <1>7. LocksExclude'
    <2>1. \A m \in DbIds \ {n} : Live(m)' <=> Live(m)
      BY <1>5 DEF Live
    <2>2. \A m \in DbIds \ {n} : Live(m)' /\ o.lock /\ ndb'[m].opts.lock
                                   => o.readOnly /\ ndb'[m].opts.readOnly
      BY <1>2, <1>5, <2>1 DEF LockFree
    <2> QED BY <1>5, <2>1, <2>2 DEF OInv, LocksExclude
  <1> QED BY <1>6, <1>7 DEF OInv

LEMMA OInvNext == TInv /\ OInv /\ [Next]_vars => OInv'
  <1> SUFFICES ASSUME TInv, OInv, [Next]_vars PROVE OInv'
    OBVIOUS
  <1>1. ASSUME NEW t \in Threads, NEW d \in Dbs, CloseNative(t, d) PROVE Settled
    BY <1>1 DEF CloseNative, Settled, Live, TInv, NdbType
  <1>2. ASSUME NEW t \in Threads, CloseForget(t) PROVE Settled
    BY <1>2 DEF CloseForget, Settled, natives, TInv, DboType
  <1>3. ASSUME NEW t \in Threads, Exit(t) PROVE Settled
    <2>1. Head(blocks[t]) \in Txs
      BY <1>3 DEF Exit, TInv, BlocksType
    <2>2. RollbackNative(Head(blocks[t])) \/ ndb' = ndb
      BY <1>3 DEF Exit, natives
    <2>3. UNCHANGED <<lib, dbo>>
      BY <1>3 DEF Exit
    <2> QED BY <2>1, <2>2, <2>3, NativesSettled
  <1>4. ASSUME NEW t \in Threads, NEW x \in Txs,
               \/ \E d \in Dbs, ro \in BOOLEAN : Enter(t, x, d, ro)
               \/ Stage(t, x) \/ Commit(t, x) \/ Rollback(t, x)
               \/ TxnQueryPrepare(t, x) \/ TxnFetch(t, x)
        PROVE Settled
    BY <1>4, NativesSettled
       DEF Enter, Stage, Commit, Rollback, TxnQueryPrepare, TxnFetch, natives, objects
  <1>5. ASSUME NEW t \in Threads,
               \/ QueryBegin(t) \/ QueryExecute(t) \/ QueryCommit(t) \/ QueryRollback(t)
               \/ QueryFree(t) \/ TxnQueryExecute(t) \/ FetchFree(t)
               \/ \E d \in Dbs, w \in BOOLEAN : QueryPrepare(t, d, w) \/ Fetch(t, d, w)
        PROVE Settled
    BY <1>5, NativesSettled
       DEF QueryBegin, QueryExecute, QueryCommit, QueryRollback, QueryFree,
           TxnQueryExecute, FetchFree, QueryPrepare, Fetch, natives, objects
  <1>6. CASE UNCHANGED vars
    BY <1>6, NativesSettled, SettledKeeps DEF vars
  <1>7. CASE \E t \in Threads, d \in Dbs : Open(t, d)
    BY <1>7, OInvOpen
  <1>8. CASE Next /\ ~\E t \in Threads, d \in Dbs : Open(t, d)
    <2>1. Settled
      BY <1>1, <1>2, <1>3, <1>4, <1>5, <1>8
         DEF Next, FtsSearch, FtsSearchFuzzy, VectorSearch, GetNodesByLabel,
             TxnFtsSearch, TxnFtsSearchFuzzy
    <2> QED BY <2>1, SettledKeeps
  <1> QED BY <1>6, <1>7, <1>8

LEMMA OInvInit == Init => OInv
  BY DEF Init, OInv, OpenedAsAsked, LocksExclude, Live

LEMMA OInvCorrect == Spec => []OInv
  BY TInvCorrect, OInvInit, OInvNext, PTL DEF Spec

\* An open database has the log and the cache that its constructor asked for,
\* whatever library was loaded, and two opened on one file with locks that are
\* honoured are never open together when either may write.
THEOREM OptionsAlwaysHonoured == Spec => []OptionsHonoured
  BY TInvCorrect, OInvCorrect, OInvOptions, PTL

-----------------------------------------------------------------------------
(* Closing.  A handle that a thread is about to forget is closed already,  *)
(* and only that thread is about to forget it.                             *)

OpenIsHeld ==
  \A n \in DbIds : Live(n) => \E d \in Dbs : dbo[d].handle = n /\ ~dbo[d].closed

Closers ==
  \A t \in Threads : call[t].at = "closing" =>
    /\ dbo[call[t].db].handle \in DbIds /\ ndb[dbo[call[t].db].handle].st # "open"
    /\ \A u \in Threads \ {t} : call[u].at = "closing" => call[u].db # call[t].db

\* A step of a call that does not close; a call that returns keeps nothing.
MovedOn(t) ==
  /\ call'[t].at # "closing"
  /\ call'[t].at = "idle" => call'[t].query = None /\ call'[t].result = None

GoesOn(t) ==
  /\ \A u \in Threads \ {t} : call'[u] = call[u]
  /\ MovedOn(t)

\* A step that opens and closes nothing.
Aside ==
  /\ dbo' = dbo
  /\ \A n \in DbIds : ndb'[n].st = ndb[n].st
  /\ \A t \in Threads : call'[t] = call[t] \/ MovedOn(t)

LEMMA SlotsOnly ==
  ASSUME TInv,
         \/ \E n, w : \E i \in TxnIds : NativeBegin(n, w, i)
         \/ \E i, k : NativeEnd(i, k)
         \/ \E x \in Txs : RollbackNative(x)
         \/ ndb' = ndb
  PROVE  \A n \in DbIds : ndb'[n].st = ndb[n].st
  <1>1. ndb' = ndb \/ \E n, s : ndb' = [ndb EXCEPT ![n].slot = s]
    BY DEF NativeBegin, NativeEnd, RollbackNative, natives
  <1> QED BY <1>1 DEF TInv, NdbType

LEMMA BlocksAside ==
  ASSUME TInv, NEW t \in Threads
  PROVE  /\ Exit(t) => Aside
         /\ \A x \in Txs, d \in Dbs, ro \in BOOLEAN : Enter(t, x, d, ro) => Aside
         /\ \A x \in Txs : Stage(t, x) \/ Commit(t, x) \/ Rollback(t, x) => Aside
  <1>1. ASSUME Exit(t) PROVE Aside
    <2>1. Head(blocks[t]) \in Txs
      BY <1>1 DEF Exit, TInv, BlocksType
    <2>2. RollbackNative(Head(blocks[t])) \/ ndb' = ndb
      BY <1>1 DEF Exit, natives
    <2>3. UNCHANGED <<dbo, call>>
      BY <1>1 DEF Exit
    <2> QED BY <2>1, <2>2, <2>3, SlotsOnly DEF Aside
  <1>2. ASSUME NEW x \in Txs,
               \/ \E d \in Dbs, ro \in BOOLEAN : Enter(t, x, d, ro)
               \/ Stage(t, x) \/ Commit(t, x) \/ Rollback(t, x)
        PROVE  Aside
    BY <1>2, SlotsOnly DEF Aside, Enter, Stage, Commit, Rollback, natives, objects
  <1> QED BY <1>1, <1>2

LEMMA CallsAside ==
  ASSUME TInv, NEW t \in Threads
  PROVE  /\ QueryBegin(t) \/ QueryExecute(t) \/ QueryCommit(t) \/ QueryRollback(t) => Aside
         /\ QueryFree(t) \/ TxnQueryExecute(t) \/ FetchFree(t) => Aside
         /\ \A d \in Dbs, w \in BOOLEAN : QueryPrepare(t, d, w) \/ Fetch(t, d, w) => Aside
         /\ \A x \in Txs : TxnQueryPrepare(t, x) \/ TxnFetch(t, x) => Aside
  <1> USE CallFields
  <1>1. ASSUME dbo' = dbo,
               \/ \E n, w : \E i \in TxnIds : NativeBegin(n, w, i)
               \/ \E i, k : NativeEnd(i, k)
               \/ ndb' = ndb,
               GoesOn(t)
        PROVE  Aside
    BY <1>1, SlotsOnly DEF Aside, GoesOn
  <1>2. ASSUME QueryBegin(t) PROVE Aside
    <2>1. \A u \in Threads \ {t} : call'[u] = call[u]
      BY <1>2 DEF QueryBegin, Go, TInv, CallType
    <2>2. call'[t].at \in {"execute", "free"}
      <3>1. ASSUME NEW i, Go(t, [call[t] EXCEPT !.at = "execute", !.db = None, !.txn = i])
            PROVE  call'[t].at = "execute"
        BY <3>1 DEF Go, TInv, CallType
      <3>2. CASE Go(t, [call[t] EXCEPT !.at = "free", !.db = None, !.writes = FALSE])
        BY <3>2 DEF Go, TInv, CallType
      <3> QED BY <1>2, <3>1, <3>2 DEF QueryBegin
    <2>3. GoesOn(t)
      BY <2>1, <2>2 DEF GoesOn, MovedOn
    <2> QED BY <1>1, <1>2, <2>3 DEF QueryBegin, objects, natives
  <1>3. ASSUME QueryExecute(t) PROVE Aside
    <2>1. \A u \in Threads \ {t} : call'[u] = call[u]
      BY <1>3 DEF QueryExecute, Go, TInv, CallType
    <2>2. call'[t].at \in {"commit", "rollback"}
      BY <1>3 DEF QueryExecute, Go, TInv, CallType
    <2>3. GoesOn(t)
      BY <2>1, <2>2 DEF GoesOn, MovedOn
    <2> QED BY <1>1, <1>3, <2>3 DEF QueryExecute, objects
  <1>4. ASSUME QueryCommit(t) PROVE Aside
    <2>1. \A u \in Threads \ {t} : call'[u] = call[u]
      BY <1>4 DEF QueryCommit, Go, TInv, CallType
    <2>2. call'[t].at = "free"
      <3>1. CASE Go(t, [call[t] EXCEPT !.at = "free", !.txn = None, !.writes = FALSE])
        BY <3>1 DEF Go, TInv, CallType
      <3>2. CASE Go(t, [call[t] EXCEPT !.at = "free", !.txn = None, !.writes = FALSE,
                                       !.item = None])
        BY <3>2 DEF Go, TInv, CallType
      <3> QED BY <1>4, <3>1, <3>2 DEF QueryCommit
    <2>3. GoesOn(t)
      BY <2>1, <2>2 DEF GoesOn, MovedOn
    <2> QED BY <1>1, <1>4, <2>3 DEF QueryCommit, objects, natives
  <1>5. ASSUME QueryRollback(t) PROVE Aside
    <2>1. GoesOn(t)
      BY <1>5 DEF QueryRollback, GoesOn, MovedOn, Go, IdleCall, TInv, CallType
    <2> QED BY <1>1, <1>5, <2>1 DEF QueryRollback, objects
  <1>6. ASSUME QueryFree(t) \/ FetchFree(t) PROVE Aside
    <2>1. GoesOn(t)
      BY <1>6 DEF QueryFree, FetchFree, GoesOn, MovedOn, Go, IdleCall, TInv, CallType
    <2> QED BY <1>1, <1>6, <2>1 DEF QueryFree, FetchFree, objects, natives
  <1>7. ASSUME TxnQueryExecute(t) PROVE Aside
    <2>1. GoesOn(t)
      BY <1>7 DEF TxnQueryExecute, GoesOn, MovedOn, Go, IdleCall, TInv, CallType
    <2> QED BY <1>1, <1>7, <2>1 DEF TxnQueryExecute, objects
  <1>8. ASSUME NEW d \in Dbs, NEW w \in BOOLEAN, QueryPrepare(t, d, w) \/ Fetch(t, d, w)
        PROVE  Aside
    <2>1. CASE QueryPrepare(t, d, w)
      <3>1. GoesOn(t)
        BY <2>1 DEF QueryPrepare, GoesOn, MovedOn, Go, IdleCall, TInv, CallType
      <3> QED BY <1>1, <2>1, <3>1 DEF QueryPrepare, objects, natives
    <2>2. CASE Fetch(t, d, w)
      <3>1. GoesOn(t)
        BY <2>2 DEF Fetch, GoesOn, MovedOn, Go, IdleCall, TInv, CallType
      <3> QED BY <1>1, <2>2, <3>1 DEF Fetch, objects, natives
    <2> QED BY <1>8, <2>1, <2>2
  <1>9. ASSUME NEW x \in Txs, TxnQueryPrepare(t, x) \/ TxnFetch(t, x) PROVE Aside
    <2>1. CASE TxnQueryPrepare(t, x)
      <3>1. GoesOn(t)
        BY <2>1 DEF TxnQueryPrepare, GoesOn, MovedOn, Go, IdleCall, TInv, CallType
      <3> QED BY <1>1, <2>1, <3>1 DEF TxnQueryPrepare, objects, natives
    <2>2. CASE TxnFetch(t, x)
      <3>1. GoesOn(t)
        BY <2>2 DEF TxnFetch, GoesOn, MovedOn, Go, IdleCall, TInv, CallType
      <3> QED BY <1>1, <2>2, <3>1 DEF TxnFetch, objects, natives
    <2> QED BY <1>9, <2>1, <2>2
  <1> QED BY <1>2, <1>3, <1>4, <1>5, <1>6, <1>7, <1>8, <1>9

\* Only opening and closing change which databases are open and in what object.
LEMMA StepAside ==
  ASSUME TInv, [Next]_vars
  PROVE  \/ Aside
         \/ \E t \in Threads : CloseForget(t) \/ \E d \in Dbs : Open(t, d) \/ CloseNative(t, d)
  <1>1. CASE UNCHANGED vars
    BY <1>1 DEF vars, Aside
  <1>2. CASE Next
    BY <1>2, BlocksAside, CallsAside
       DEF Next, FtsSearch, FtsSearchFuzzy, VectorSearch, GetNodesByLabel,
           TxnFtsSearch, TxnFtsSearchFuzzy
  <1> QED BY <1>1, <1>2

LEMMA AsideLive ==
  ASSUME TInv, Aside
  PROVE  \A n \in DbIds \cup {None} : Live(n)' <=> Live(n)
  BY ClientAssumption DEF Live, Aside

LEMMA ClosersNext ==
  ASSUME TInv, OInv, Closers, [Next]_vars
  PROVE  Closers'
  <1>1. CASE Aside
    BY <1>1 DEF Closers, Aside, MovedOn
  <1>2. ASSUME NEW t \in Threads, NEW d \in Dbs, Open(t, d) PROVE Closers'
    <2>1. PICK n \in DbIds : /\ ndb[n].st = "unused"
                             /\ dbo' = [dbo EXCEPT ![d].handle = n]
                             /\ \A m \in DbIds \ {n} : ndb'[m].st = ndb[m].st
      BY <1>2 DEF Open, Least, TInv, NdbType
    <2>2. call' = call /\ dbo[d].handle = None
      BY <1>2 DEF Open
    <2>3. ASSUME NEW u \in Threads, call[u].at = "closing"
          PROVE  dbo'[call[u].db].handle \in DbIds /\ ndb'[dbo'[call[u].db].handle].st # "open"
      <3>1. PICK e \in Dbs : e = call[u].db
        BY <2>3, CallFields
      <3>2. dbo[e].handle \in DbIds /\ ndb[dbo[e].handle].st # "open"
        BY <2>3, <3>1 DEF Closers
      <3>3. e # d
        BY <2>2, <3>2, ClientAssumption
      <3>4. dbo'[e].handle = dbo[e].handle
        BY <2>1, <3>3 DEF TInv, DboType
      <3>5. dbo[e].handle # n
        BY <2>1, <3>2, ClientAssumption DEF OInv, OpenedAsAsked
      <3> QED BY <2>1, <3>1, <3>2, <3>4, <3>5
    <2> QED BY <2>2, <2>3 DEF Closers
  <1>3. ASSUME NEW t \in Threads, NEW d \in Dbs, CloseNative(t, d) PROVE Closers'
    <2>1. /\ dbo' = dbo /\ dbo[d].handle \in DbIds
          /\ ndb[dbo[d].handle].st = "open" /\ ndb'[dbo[d].handle].st = "closed"
          /\ \A m \in DbIds \ {dbo[d].handle} : ndb'[m].st = ndb[m].st
      BY <1>3, ObjectFields DEF CloseNative, TInv, NdbType, Live
    <2>2. /\ call'[t].at = "closing" /\ call'[t].db = d
          /\ \A u \in Threads \ {t} : call'[u] = call[u]
      BY <1>3 DEF CloseNative, Go, IdleCall, TInv, CallType
    <2>3. \A u \in Threads \ {t} : call[u].at = "closing" => call[u].db # d
      BY <2>1 DEF Closers
    <2>4. ASSUME NEW u \in Threads \ {t}, call[u].at = "closing"
          PROVE  ndb'[dbo[call[u].db].handle].st # "open"
      BY <2>1, <2>4 DEF Closers
    <2> QED BY <2>1, <2>2, <2>3, <2>4 DEF Closers
  <1>4. ASSUME NEW t \in Threads, CloseForget(t) PROVE Closers'
    <2>1. /\ call'[t].at = "idle" /\ \A u \in Threads \ {t} : call'[u] = call[u]
      BY <1>4 DEF CloseForget, Go, IdleCall, TInv, CallType
    <2>2. ndb' = ndb /\ call[t].at = "closing"
          /\ \A e \in Dbs \ {call[t].db} : dbo'[e] = dbo[e]
      BY <1>4 DEF CloseForget, natives, TInv, DboType
    <2> QED BY <2>1, <2>2, CallFields DEF Closers
  <1> QED BY <1>1, <1>2, <1>3, <1>4, StepAside

LEMMA OpenIsHeldNext ==
  ASSUME ~Reopen, TInv, OInv, Closers, OpenIsHeld, [Next]_vars
  PROVE  OpenIsHeld'
  <1>1. CASE Aside
    BY <1>1, AsideLive DEF OpenIsHeld, Aside
  <1>2. ASSUME NEW t \in Threads, NEW d \in Dbs, Open(t, d) PROVE OpenIsHeld'
    <2>1. PICK n \in DbIds : /\ dbo' = [dbo EXCEPT ![d].handle = n]
                             /\ \A m \in DbIds \ {n} : ndb'[m].st = ndb[m].st
      BY <1>2 DEF Open, Least, TInv, NdbType
    <2>2. dbo[d].handle = None /\ ~dbo[d].closed
      BY <1>2 DEF Open
    <2>3. dbo'[d].handle = n /\ ~dbo'[d].closed /\ \A e \in Dbs \ {d} : dbo'[e] = dbo[e]
      BY <2>1, <2>2 DEF TInv, DboType
    <2>4. \A m \in DbIds \ {n} : Live(m)' => Live(m)
      BY <2>1 DEF Live
    <2> QED BY <2>2, <2>3, <2>4, ClientAssumption DEF OpenIsHeld
  <1>3. ASSUME NEW t \in Threads, NEW d \in Dbs, CloseNative(t, d) PROVE OpenIsHeld'
    <2>1. dbo' = dbo /\ \A n \in DbIds : Live(n)' => Live(n)
      BY <1>3 DEF CloseNative, TInv, NdbType, Live
    <2> QED BY <2>1 DEF OpenIsHeld
  <1>4. ASSUME NEW t \in Threads, CloseForget(t) PROVE OpenIsHeld'
    <2>1. /\ ndb' = ndb /\ call[t].at = "closing"
          /\ \A e \in Dbs \ {call[t].db} : dbo'[e] = dbo[e]
      BY <1>4 DEF CloseForget, natives, TInv, DboType
    <2>2. \A n \in DbIds : Live(n) => n # dbo[call[t].db].handle
      BY <2>1 DEF Closers, Live
    <2> QED BY <2>1, <2>2 DEF OpenIsHeld, Live
  <1> QED BY <1>1, <1>2, <1>3, <1>4, StepAside

LEMMA ClosersCorrect == Spec => []Closers
  <1>1. Init => Closers
    BY DEF Init, Closers, IdleCall
  <1>2. TInv /\ OInv /\ Closers /\ [Next]_vars => Closers'
    BY ClosersNext
  <1> QED BY <1>1, <1>2, TInvCorrect, OInvCorrect, PTL DEF Spec

\* A program that does not open again what it closed: whatever threads race
\* and whatever fails, an open native database, and so the lock on the file,
\* belongs to an object that says it is open, so that close() can release it.
THEOREM LocksAreReleased ==
  ASSUME ~Reopen
  PROVE  Spec => []ReleasedWhenClosed
  <1>1. Init => OpenIsHeld
    BY DEF Init, OpenIsHeld, Live
  <1>2. TInv /\ OInv /\ Closers /\ OpenIsHeld /\ [Next]_vars => OpenIsHeld'
    BY OpenIsHeldNext
  <1>3. OpenIsHeld => ReleasedWhenClosed
    BY ClientAssumption DEF OpenIsHeld, ReleasedWhenClosed, IsOpen
  <1> QED BY <1>1, <1>2, <1>3, TInvCorrect, OInvCorrect, ClosersCorrect, PTL DEF Spec

-----------------------------------------------------------------------------
(* With-blocks.  A program that does not enter an object twice has each    *)
(* object in one block, where it holds a transaction until it is ended.    *)

OnceInBlocks ==
  /\ \A t, u \in Threads : \A k \in DOMAIN blocks[t], l \in DOMAIN blocks[u] :
       blocks[t][k] = blocks[u][l] => t = u /\ k = l
  /\ \A t \in Threads, x \in Txs : InBlock(t, x) => txo[x].db # None

NewUnlessTaken == \A x \in Txs : txo[x].db = None => txo[x] = NewTransaction

HeldInBlock ==
  \A x \in Txs : (txo[x].handle # None) <=>
    /\ \E t \in Threads : InBlock(t, x)
    /\ ~txo[x].committed /\ ~txo[x].rolledBack

HeldOnce ==
  \A x, y \in Txs : x # y /\ txo[x].handle # None => txo[y].handle # txo[x].handle

HeldIsActive ==
  \A x \in Txs : txo[x].handle # None =>
    /\ ntx[txo[x].handle].st = "active"
    /\ ntx[txo[x].handle].db = dbo[txo[x].db].handle
    /\ ntx[txo[x].handle].writes = ~txo[x].readOnly

ActiveIsLive ==
  \A i \in TxnIds : ntx[i].st = "active" =>
    ntx[i].db \in DbIds /\ ndb[ntx[i].db].st = "open"

InBlocks == OnceInBlocks /\ NewUnlessTaken /\ HeldInBlock
Held     == HeldOnce /\ HeldIsActive /\ ActiveIsLive

TxnKept(i) ==
  /\ ntx'[i].st = ntx[i].st /\ ntx'[i].db = ntx[i].db /\ ntx'[i].writes = ntx[i].writes

\* A step that opens and closes no database; objects keep their transactions
\* or drop them, and what begins, begins in an open database.
LEMMA HeldStep ==
  ASSUME TInv, Held, dbo' = dbo, \A n \in DbIds : ndb'[n].st = ndb[n].st,
         \A x \in Txs : txo'[x].handle # None =>
                          txo'[x] = txo[x] /\ TxnKept(txo[x].handle),
         \A i \in TxnIds : ntx'[i].st = "active" =>
            TxnKept(i) \/ (ntx'[i].db \in DbIds /\ ndb[ntx'[i].db].st = "open")
  PROVE  Held'
  <1>1. HeldOnce'
    BY DEF Held, HeldOnce
  <1>2. HeldIsActive'
    BY DEF Held, HeldIsActive, TxnKept
  <1>3. ActiveIsLive'
    BY DEF Held, ActiveIsLive, TxnKept
  <1> QED BY <1>1, <1>2, <1>3 DEF Held

LEMMA Begun ==
  ASSUME TInv, NEW n \in DbIds \cup {None}, NEW w \in BOOLEAN, NEW i \in TxnIds,
         NativeBegin(n, w, i)
  PROVE  /\ i \in Unheld /\ n \in DbIds /\ ndb[n].st = "open"
         /\ ntx'[i] = [st |-> "active", db |-> n, writes |-> w, staged |-> {}]
         /\ \A j \in TxnIds \ {i} : ntx'[j] = ntx[j]
         /\ \A m \in DbIds : ndb'[m].st = ndb[m].st
  <1>1. \A m \in DbIds : ndb'[m].st = ndb[m].st
    BY SlotsOnly
  <1> QED BY <1>1 DEF NativeBegin, CanBegin, Live, Least, TInv, NtxType

LEMMA Ended ==
  ASSUME TInv, NEW i \in TxnIds, NEW k, NativeEnd(i, k)
  PROVE  /\ ntx'[i].st = "ended" /\ \A j \in TxnIds \ {i} : ntx'[j] = ntx[j]
         /\ \A m \in DbIds : ndb'[m].st = ndb[m].st
  <1>1. \A m \in DbIds : ndb'[m].st = ndb[m].st
    BY SlotsOnly
  <1> QED BY <1>1 DEF NativeEnd, TInv, NtxType

LEMMA Staged ==
  ASSUME TInv, NEW i \in TxnIds, NEW S, ntx' = [ntx EXCEPT ![i].staged = @ \cup S]
  PROVE  \A j \in TxnIds : TxnKept(j)
  BY DEF TxnKept, TInv, NtxType

\* Rolling back what object x holds leaves the transactions of the others.
LEMMA RolledBack ==
  ASSUME TInv, Held, NEW x \in Txs, RollbackNative(x)
  PROVE  /\ \A m \in DbIds : ndb'[m].st = ndb[m].st
         /\ \A j \in TxnIds : TxnKept(j) \/ (j = txo[x].handle /\ ntx'[j].st = "ended")
         /\ txo[x].handle # None => ntx'[txo[x].handle].st = "ended"
  <1>1. CASE txo[x].handle # None
    <2>1. txo[x].handle \in TxnIds /\ ntx[txo[x].handle].st = "active"
      BY <1>1, ObjectFields DEF Held, HeldIsActive
    <2>2. PICK k : NativeEnd(txo[x].handle, k)
      BY <1>1, <2>1 DEF RollbackNative
    <2> QED BY <2>1, <2>2, Ended DEF TxnKept
  <1>2. CASE txo[x].handle = None
    BY <1>2 DEF RollbackNative, natives, TxnKept
  <1> QED BY <1>1, <1>2

LEMMA DroppedIsEnded ==
  ASSUME TInv, Held, NEW x \in Txs, RollbackNative(x)
  PROVE  \A i \in TxnIds : ntx'[i].st = "active" => ntx[i].st = "active" /\ i # txo[x].handle
  <1> TAKE i \in TxnIds
  <1>1. TxnKept(i) \/ (i = txo[x].handle /\ ntx'[i].st = "ended")
    BY RolledBack
  <1>2. i = txo[x].handle => ntx'[i].st = "ended"
    BY RolledBack, ClientAssumption
  <1> QED BY <1>1, <1>2 DEF TxnKept

\* A step in which object x drops the transaction that it holds.
LEMMA DropStep ==
  ASSUME TInv, Held, NEW x \in Txs, dbo' = dbo, txo'[x].handle = None,
         \A y \in Txs \ {x} : txo'[y] = txo[y],
         \A m \in DbIds : ndb'[m].st = ndb[m].st,
         \A j \in TxnIds : TxnKept(j) \/ (j = txo[x].handle /\ ntx'[j].st = "ended")
  PROVE  Held'
  <1>1. ASSUME NEW y \in Txs, txo'[y].handle # None
        PROVE  txo'[y] = txo[y] /\ TxnKept(txo[y].handle)
    <2>1. y # x /\ txo'[y] = txo[y] /\ txo[y].handle \in TxnIds
      BY <1>1, ObjectFields
    <2>2. txo[y].handle # txo[x].handle
      BY <1>1, <2>1 DEF Held, HeldOnce
    <2> QED BY <2>1, <2>2
  <1>2. \A j \in TxnIds : ntx'[j].st = "active" => TxnKept(j)
    OBVIOUS
  <1> QED BY <1>1, <1>2, HeldStep

LEMMA HeldBlocks ==
  ASSUME ~Reenter, TInv, Held, InBlocks, NEW t \in Threads
  PROVE  /\ Exit(t) => Held'
         /\ \A x \in Txs, d \in Dbs, ro \in BOOLEAN : Enter(t, x, d, ro) => Held'
         /\ \A x \in Txs : Stage(t, x) \/ Commit(t, x) \/ Rollback(t, x) => Held'
  <1>1. ASSUME Exit(t) PROVE Held'
    <2> DEFINE x == Head(blocks[t])
    <2>1. x \in Txs /\ dbo' = dbo
      BY <1>1 DEF Exit, TInv, BlocksType
    <2>2. txo' = [txo EXCEPT ![x] = NewTransaction]
      BY <1>1 DEF Exit
    <2>3. \/ RollbackNative(x)
          \/ UNCHANGED natives /\ (txo[x].committed \/ txo[x].rolledBack)
      BY <1>1 DEF Exit
    <2> HIDE DEF x
    <2>4. txo'[x].handle = None /\ \A y \in Txs \ {x} : txo'[y] = txo[y]
      BY <2>1, <2>2 DEF TInv, TxoType, NewTransaction
    <2>5. CASE RollbackNative(x)
      BY <2>1, <2>4, <2>5, RolledBack, DropStep
    <2>6. CASE UNCHANGED natives
      BY <2>1, <2>4, <2>6, DropStep DEF natives, TxnKept
    <2> QED BY <2>3, <2>5, <2>6
  <1>2. ASSUME NEW x \in Txs, NEW d \in Dbs, NEW ro \in BOOLEAN, Enter(t, x, d, ro)
        PROVE  Held'
    <2>1. PICK i \in TxnIds :
            /\ NativeBegin(dbo[d].handle, ~ro, i)
            /\ txo' = [txo EXCEPT ![x].db = d, ![x].readOnly = ro, ![x].handle = i]
      BY <1>2 DEF Enter
    <2>2. /\ dbo' = dbo /\ dbo[d].handle \in DbIds \cup {None}
      BY <1>2, ObjectFields DEF Enter
    <2>3. /\ i \in Unheld /\ dbo[d].handle \in DbIds /\ ndb[dbo[d].handle].st = "open"
          /\ ntx'[i] = [st |-> "active", db |-> dbo[d].handle, writes |-> ~ro, staged |-> {}]
          /\ \A j \in TxnIds \ {i} : ntx'[j] = ntx[j]
          /\ \A m \in DbIds : ndb'[m].st = ndb[m].st
      BY <2>1, <2>2, Begun
    <2>4. /\ txo'[x].db = d /\ txo'[x].readOnly = ro /\ txo'[x].handle = i
          /\ \A y \in Txs \ {x} : txo'[y] = txo[y]
      BY <2>1 DEF TInv, TxoType
    <2>5. \A y \in Txs : txo[y].handle # i
      BY <2>3 DEF Unheld
    <2>6. HeldOnce'
      BY <2>4, <2>5 DEF Held, HeldOnce
    <2>7. HeldIsActive'
      <3>1. ASSUME NEW y \in Txs \ {x}, txo[y].handle # None
            PROVE  ntx'[txo[y].handle] = ntx[txo[y].handle]
        BY <2>3, <2>5, <3>1, ObjectFields
      <3> QED BY <2>2, <2>3, <2>4, <3>1 DEF Held, HeldIsActive
    <2>8. ActiveIsLive'
      BY <2>3 DEF Held, ActiveIsLive
    <2> QED BY <2>6, <2>7, <2>8 DEF Held
  <1>3. ASSUME NEW x \in Txs, Stage(t, x) PROVE Held'
    <2>1. txo[x].handle \in TxnIds /\ UNCHANGED <<dbo, txo, ndb>>
      BY <1>3, ObjectFields DEF Stage, objects
    <2>2. \A j \in TxnIds : TxnKept(j)
      BY <1>3, <2>1, Staged DEF Stage
    <2> QED BY <2>1, <2>2, HeldStep, ObjectFields
  <1>4. ASSUME NEW x \in Txs, Commit(t, x) PROVE Held'
    <2>1. txo[x].handle \in TxnIds /\ dbo' = dbo
      BY <1>4, ObjectFields DEF Commit
    <2>2. CASE /\ NativeEnd(txo[x].handle, FALSE)
               /\ txo' = [txo EXCEPT ![x].handle = None, ![x].committed = TRUE]
      <3>1. txo'[x].handle = None /\ \A y \in Txs \ {x} : txo'[y] = txo[y]
        BY <2>2 DEF TInv, TxoType
      <3> QED BY <2>1, <2>2, <3>1, Ended, DropStep DEF TxnKept
    <2>3. CASE UNCHANGED <<natives, txo>>
      BY <2>1, <2>3, HeldStep DEF natives, TxnKept
    <2> QED BY <1>4, <2>2, <2>3 DEF Commit
  <1>5. ASSUME NEW x \in Txs, Rollback(t, x) PROVE Held'
    <2>1. /\ RollbackNative(x) /\ dbo' = dbo
          /\ txo' = [txo EXCEPT ![x].handle = None, ![x].rolledBack = TRUE]
      BY <1>5 DEF Rollback
    <2>2. txo'[x].handle = None /\ \A y \in Txs \ {x} : txo'[y] = txo[y]
      BY <2>1 DEF TInv, TxoType
    <2> QED BY <2>1, <2>2, RolledBack, DropStep
  <1> QED BY <1>1, <1>2, <1>3, <1>4, <1>5

LEMMA HeldCalls ==
  ASSUME TInv, Held, FInv, NEW t \in Threads
  PROVE  /\ QueryBegin(t) \/ QueryExecute(t) \/ QueryCommit(t) \/ QueryRollback(t) => Held'
         /\ QueryFree(t) \/ TxnQueryExecute(t) \/ FetchFree(t) => Held'
         /\ \A d \in Dbs, w \in BOOLEAN : QueryPrepare(t, d, w) \/ Fetch(t, d, w) => Held'
         /\ \A x \in Txs : TxnQueryPrepare(t, x) \/ TxnFetch(t, x) => Held'
  <1>1. ASSUME UNCHANGED <<dbo, txo, ndb, ntx>> PROVE Held'
    BY <1>1, HeldStep DEF TxnKept
  <1>2. ASSUME UNCHANGED objects, NEW i \in TxnIds, NEW k, NativeEnd(i, k),
               Owns(t), i = call[t].txn
        PROVE  Held'
    <2>1. \A x \in Txs : txo[x].handle # i
      BY <1>2 DEF FInv, Exclusive
    <2>2. \A x \in Txs : txo[x].handle # None => TxnKept(txo[x].handle)
      BY <1>2, <2>1, Ended, ObjectFields DEF TxnKept
    <2> QED BY <1>2, <2>2, Ended, HeldStep DEF objects, TxnKept
  <1>3. ASSUME UNCHANGED <<objects, ndb>>, NEW i \in TxnIds, NEW S,
               ntx' = [ntx EXCEPT ![i].staged = @ \cup S]
        PROVE  Held'
    <2>1. \A j \in TxnIds : TxnKept(j)
      BY <1>3, Staged
    <2> QED BY <1>3, <2>1, HeldStep, ObjectFields DEF objects
  <1>4. ASSUME QueryBegin(t) PROVE Held'
    <2> DEFINE n == dbo[call[t].db].handle
    <2>1. n \in DbIds \cup {None} /\ call[t].writes \in BOOLEAN
      BY <1>4, CallFields, ObjectFields DEF QueryBegin
    <2>2. CASE \E i \in TxnIds : NativeBegin(n, call[t].writes, i)
      <3>1. PICK i \in TxnIds : NativeBegin(n, call[t].writes, i)
        BY <2>2
      <3> HIDE DEF n
      <3>2. /\ i \in Unheld /\ n \in DbIds /\ ndb[n].st = "open"
            /\ ntx'[i] = [st |-> "active", db |-> n, writes |-> call[t].writes, staged |-> {}]
            /\ \A j \in TxnIds \ {i} : ntx'[j] = ntx[j]
            /\ \A m \in DbIds : ndb'[m].st = ndb[m].st
        BY <2>1, <3>1, Begun
      <3>3. \A x \in Txs : txo[x].handle # None => TxnKept(txo[x].handle)
        BY <3>2, ObjectFields DEF Unheld, TxnKept
      <3>4. \A j \in TxnIds : TxnKept(j) \/ (ntx'[j].db \in DbIds /\ ndb[ntx'[j].db].st = "open")
        BY <3>2 DEF TxnKept
      <3> QED BY <1>4, <3>2, <3>3, <3>4, HeldStep DEF QueryBegin, objects
    <2>3. CASE UNCHANGED natives
      BY <1>1, <1>4, <2>3 DEF QueryBegin, objects, natives
    <2> QED BY <1>4, <2>2, <2>3 DEF QueryBegin
  <1>5. ASSUME QueryExecute(t) PROVE Held'
    <2>1. call[t].txn \in TxnIds
      BY <1>5, CallFields DEF QueryExecute, WithTxn
    <2> QED BY <1>3, <1>5, <2>1 DEF QueryExecute
  <1>6. ASSUME QueryCommit(t) \/ QueryRollback(t) PROVE Held'
    <2>1. call[t].txn \in TxnIds /\ Owns(t)
      BY <1>6, CallFields DEF QueryCommit, QueryRollback, WithTxn, Owns
    <2>2. /\ UNCHANGED objects
          /\ UNCHANGED natives \/ \E k \in BOOLEAN : NativeEnd(call[t].txn, k)
      BY <1>6 DEF QueryCommit, QueryRollback, objects, natives
    <2>3. CASE UNCHANGED natives
      BY <1>1, <2>2, <2>3 DEF objects, natives
    <2>4. ASSUME NEW k, NativeEnd(call[t].txn, k) PROVE Held'
      <3>1. PICK i \in TxnIds : i = call[t].txn
        BY <2>1
      <3>2. NativeEnd(i, k) /\ UNCHANGED objects
        BY <2>2, <2>4, <3>1
      <3> QED BY <1>2, <2>1, <3>1, <3>2
    <2> QED BY <2>2, <2>3, <2>4
  <1>7. ASSUME TxnQueryExecute(t) PROVE Held'
    <2>1. call[t].txn \in TxnIds
      BY <1>7, CallFields DEF TxnQueryExecute, WithTxn
    <2> QED BY <1>3, <1>7, <2>1 DEF TxnQueryExecute
  <1>8. ASSUME \/ QueryFree(t) \/ FetchFree(t)
               \/ \E d \in Dbs, w \in BOOLEAN : QueryPrepare(t, d, w) \/ Fetch(t, d, w)
               \/ \E x \in Txs : TxnQueryPrepare(t, x) \/ TxnFetch(t, x)
        PROVE  Held'
    BY <1>1, <1>8 DEF QueryFree, FetchFree, QueryPrepare, Fetch, TxnQueryPrepare, TxnFetch,
                      objects, natives
  <1> QED BY <1>4, <1>5, <1>6, <1>7, <1>8

\* close() is refused while a transaction is active, so that no transaction
\* loses its database, and a database that is closed was nobody's.
LEMMA HeldDatabases ==
  ASSUME TInv, OInv, Held, Closers, NEW t \in Threads
  PROVE  /\ \A d \in Dbs : Open(t, d) \/ CloseNative(t, d) => Held'
         /\ CloseForget(t) => Held'
  <1>1. \A x \in Txs : txo[x].handle # None =>
           /\ txo[x].handle \in TxnIds /\ txo[x].db \in Dbs
           /\ dbo[txo[x].db].handle \in DbIds /\ ndb[dbo[txo[x].db].handle].st = "open"
    BY ObjectFields DEF Held, HeldIsActive, ActiveIsLive
  <1>2. ASSUME UNCHANGED <<txo, ntx>>, ActiveIsLive',
               \A x \in Txs : txo[x].handle # None =>
                  dbo'[txo[x].db].handle = dbo[txo[x].db].handle
        PROVE  Held'
    BY <1>2 DEF Held, HeldOnce, HeldIsActive
  <1>3. ASSUME NEW d \in Dbs, Open(t, d) PROVE Held'
    <2>1. PICK n \in DbIds : /\ ndb[n].st = "unused"
                             /\ dbo' = [dbo EXCEPT ![d].handle = n]
                             /\ \A m \in DbIds \ {n} : ndb'[m].st = ndb[m].st
      BY <1>3 DEF Open, Least, TInv, NdbType
    <2>2. UNCHANGED <<txo, ntx>> /\ dbo[d].handle = None
      BY <1>3 DEF Open
    <2>3. ActiveIsLive'
      BY <2>1, <2>2 DEF Held, ActiveIsLive
    <2>4. \A e \in Dbs \ {d} : dbo'[e] = dbo[e]
      BY <2>1 DEF TInv, DboType
    <2> QED BY <1>1, <1>2, <2>2, <2>3, <2>4, ClientAssumption
  <1>4. ASSUME NEW d \in Dbs, CloseNative(t, d) PROVE Held'
    <2>1. UNCHANGED <<dbo, txo, ntx>> /\ ~HasChildren(dbo[d].handle)
          /\ \A m \in DbIds \ {dbo[d].handle} : ndb'[m].st = ndb[m].st
      BY <1>4 DEF CloseNative, TInv, NdbType
    <2>2. \A i \in TxnIds : ntx[i].st = "active" => ntx[i].db # dbo[d].handle
      BY <2>1 DEF HasChildren
    <2>3. ActiveIsLive'
      BY <2>1, <2>2 DEF Held, ActiveIsLive
    <2> QED BY <1>2, <2>1, <2>3
  <1>5. ASSUME CloseForget(t) PROVE Held'
    <2>1. /\ UNCHANGED <<txo, ntx, ndb>> /\ call[t].at = "closing"
          /\ \A e \in Dbs \ {call[t].db} : dbo'[e] = dbo[e]
      BY <1>5 DEF CloseForget, natives, TInv, DboType
    <2>2. ndb[dbo[call[t].db].handle].st # "open"
      BY <2>1 DEF Closers
    <2>3. ActiveIsLive'
      BY <2>1 DEF Held, ActiveIsLive
    <2> QED BY <1>1, <1>2, <2>1, <2>2, <2>3
  <1> QED BY <1>3, <1>4, <1>5

LEMMA InBlocksNext ==
  ASSUME ~Reenter, TInv, InBlocks, [Next]_vars
  PROVE  InBlocks'
  <1>1. CASE UNCHANGED <<txo, blocks>>
    BY <1>1 DEF InBlocks, OnceInBlocks, NewUnlessTaken, HeldInBlock, InBlock
  <1>2. ASSUME NEW t \in Threads, NEW x \in Txs, blocks' = blocks, InBlock(t, x),
               \A y \in Txs \ {x} : txo'[y] = txo[y], txo'[x].db = txo[x].db,
               txo'[x].handle = None, txo'[x].committed \/ txo'[x].rolledBack
        PROVE  InBlocks'
    BY <1>2 DEF InBlocks, OnceInBlocks, NewUnlessTaken, HeldInBlock, InBlock
  <1>3. ASSUME NEW t \in Threads, NEW x \in Txs, Commit(t, x) \/ Rollback(t, x)
        PROVE  InBlocks'
    <2>1. CASE \/ txo' = [txo EXCEPT ![x].handle = None, ![x].committed = TRUE]
               \/ txo' = [txo EXCEPT ![x].handle = None, ![x].rolledBack = TRUE]
      <3>1. /\ \A y \in Txs \ {x} : txo'[y] = txo[y]
            /\ txo'[x].db = txo[x].db /\ txo'[x].handle = None
            /\ txo'[x].committed \/ txo'[x].rolledBack
        BY <2>1 DEF TInv, TxoType
      <3>2. blocks' = blocks /\ InBlock(t, x)
        BY <1>3 DEF Commit, Rollback
      <3> QED BY <1>2, <3>1, <3>2
    <2> QED BY <1>1, <1>3, <2>1 DEF Commit, Rollback
  <1>4. ASSUME NEW t \in Threads, NEW x \in Txs, NEW d \in Dbs, NEW ro \in BOOLEAN,
               Enter(t, x, d, ro)
        PROVE  InBlocks'
    <2>1. PICK i \in TxnIds :
            txo' = [txo EXCEPT ![x].db = d, ![x].readOnly = ro, ![x].handle = i]
      BY <1>4 DEF Enter
    <2>2. txo[x] = NewTransaction /\ txo[x].db = None
      BY <1>4 DEF Enter, Takes, Least, InBlocks, NewUnlessTaken
    <2>3. /\ \A y \in Txs \ {x} : txo'[y] = txo[y]
          /\ txo'[x].db = d /\ txo'[x].handle = i
          /\ ~txo'[x].committed /\ ~txo'[x].rolledBack
      BY <2>1, <2>2 DEF TInv, TxoType, NewTransaction
    <2>4. blocks[t] \in Seq(Txs) /\ blocks' = [blocks EXCEPT ![t] = <<x>> \o @]
      BY <1>4 DEF Enter, TInv, BlocksType
    <2>5. /\ \A u \in Threads \ {t} : blocks'[u] = blocks[u]
          /\ DOMAIN blocks'[t] = 1..(Len(blocks[t]) + 1)
          /\ blocks'[t][1] = x
          /\ \A k \in 1..Len(blocks[t]) : blocks'[t][k + 1] = blocks[t][k]
          /\ DOMAIN blocks[t] = 1..Len(blocks[t]) /\ Len(blocks[t]) \in Nat
      BY <2>4 DEF TInv, BlocksType
    <2>6. \A u \in Threads : ~InBlock(u, x)
      BY <2>2 DEF InBlocks, OnceInBlocks
    <2>7. \A u \in Threads, y \in Txs : InBlock(u, y)' <=> InBlock(u, y) \/ (u = t /\ y = x)
      <3>1. \A y \in Txs : InBlock(t, y)' <=> InBlock(t, y) \/ y = x
        <4>1. ASSUME NEW y \in Txs, InBlock(t, y)' PROVE InBlock(t, y) \/ y = x
          <5>1. PICK k \in 1..(Len(blocks[t]) + 1) : blocks'[t][k] = y
            BY <4>1, <2>5 DEF InBlock
          <5>2. CASE k = 1
            BY <2>5, <5>1, <5>2
          <5>3. CASE k # 1
            <6>1. k - 1 \in 1..Len(blocks[t]) /\ (k - 1) + 1 = k
              BY <2>5, <5>3
            <6> QED BY <2>5, <5>1, <6>1 DEF InBlock
          <5> QED BY <5>2, <5>3
        <4>2. ASSUME NEW y \in Txs, InBlock(t, y) PROVE InBlock(t, y)'
          <5>1. PICK k \in 1..Len(blocks[t]) : blocks[t][k] = y
            BY <4>2, <2>5 DEF InBlock
          <5>2. k + 1 \in DOMAIN blocks'[t] /\ blocks'[t][k + 1] = y
            BY <2>5, <5>1
          <5> QED BY <5>2 DEF InBlock
        <4>3. InBlock(t, x)'
          BY <2>5 DEF InBlock
        <4> QED BY <4>1, <4>2, <4>3
      <3>2. \A u \in Threads \ {t}, y \in Txs : InBlock(u, y)' <=> InBlock(u, y)
        BY <2>5 DEF InBlock
      <3> QED BY <3>1, <3>2
    <2>8. OnceInBlocks'
      <3>1. ASSUME NEW u \in Threads, NEW v \in Threads,
                   NEW k \in DOMAIN blocks'[u], NEW l \in DOMAIN blocks'[v],
                   blocks'[u][k] = blocks'[v][l]
            PROVE  u = v /\ k = l
        <4> DEFINE isNew(w, j) == w = t /\ j = 1
                   pos(w, j) == IF w = t THEN j - 1 ELSE j
        <4>1. \A w \in Threads : \A j \in DOMAIN blocks'[w] :
                 /\ isNew(w, j) => blocks'[w][j] = x
                 /\ ~isNew(w, j) => /\ pos(w, j) \in DOMAIN blocks[w]
                                  /\ blocks'[w][j] = blocks[w][pos(w, j)]
                                  /\ blocks'[w][j] # x
          <5>1. ASSUME NEW w \in Threads \ {t}, NEW j \in DOMAIN blocks'[w]
                PROVE  j \in DOMAIN blocks[w] /\ blocks'[w][j] = blocks[w][j] /\ blocks[w][j] # x
            BY <2>5, <2>6, <5>1 DEF InBlock
          <5>2. ASSUME NEW j \in DOMAIN blocks'[t], j # 1
                PROVE  /\ j - 1 \in DOMAIN blocks[t] /\ blocks'[t][j] = blocks[t][j - 1]
                       /\ blocks[t][j - 1] # x
            <6>1. j - 1 \in 1..Len(blocks[t]) /\ (j - 1) + 1 = j
              BY <2>5, <5>2
            <6> QED BY <2>5, <2>6, <6>1 DEF InBlock
          <5> TAKE w \in Threads
          <5> TAKE j \in DOMAIN blocks'[w]
          <5>3. CASE w = t
            BY <2>5, <5>2, <5>3
          <5>4. CASE w # t
            BY <5>1, <5>4
          <5> QED BY <5>3, <5>4
        <4>2. CASE isNew(u, k) \/ isNew(v, l)
          BY <3>1, <4>1, <4>2
        <4>3. CASE ~isNew(u, k) /\ ~isNew(v, l)
          <5>1. /\ pos(u, k) \in DOMAIN blocks[u] /\ pos(v, l) \in DOMAIN blocks[v]
                /\ blocks[u][pos(u, k)] = blocks[v][pos(v, l)]
            BY <3>1, <4>1, <4>3
          <5>2. u = v /\ pos(u, k) = pos(v, l)
            BY <5>1 DEF InBlocks, OnceInBlocks
          <5>3. (k \in Nat /\ l \in Nat) \/ u # t
            BY <2>5, <5>2
          <5> QED BY <5>2, <5>3
        <4> QED BY <4>2, <4>3
      <3>2. \A u \in Threads, y \in Txs : InBlock(u, y)' => txo'[y].db # None
        BY <2>3, <2>7, ClientAssumption DEF InBlocks, OnceInBlocks
      <3> QED BY <3>1, <3>2 DEF OnceInBlocks
    <2>9. NewUnlessTaken'
      BY <2>3, ClientAssumption DEF InBlocks, NewUnlessTaken
    <2>10. HeldInBlock'
      BY <2>3, <2>7, ClientAssumption DEF InBlocks, HeldInBlock
    <2> QED BY <2>8, <2>9, <2>10 DEF InBlocks
  <1>5. ASSUME NEW t \in Threads, Exit(t) PROVE InBlocks'
    <2> DEFINE x == Head(blocks[t])
    <2>1. /\ blocks[t] \in Seq(Txs) /\ blocks[t] # <<>> /\ x \in Txs
          /\ blocks' = [blocks EXCEPT ![t] = Tail(@)]
          /\ txo' = [txo EXCEPT ![x] = NewTransaction]
      BY <1>5 DEF Exit, TInv, BlocksType
    <2>2. /\ \A u \in Threads \ {t} : blocks'[u] = blocks[u]
          /\ DOMAIN blocks[t] = 1..Len(blocks[t]) /\ Len(blocks[t]) \in Nat \ {0}
          /\ blocks[t][1] = x
          /\ DOMAIN blocks'[t] = 1..(Len(blocks[t]) - 1)
          /\ \A k \in 1..(Len(blocks[t]) - 1) : blocks'[t][k] = blocks[t][k + 1]
      BY <2>1 DEF TInv, BlocksType
    <2> HIDE DEF x
    <2>3. txo'[x] = NewTransaction /\ \A y \in Txs \ {x} : txo'[y] = txo[y]
      BY <2>1 DEF TInv, TxoType
    <2> DEFINE pos(u, k) == IF u = t THEN k + 1 ELSE k
    <2>4. ASSUME NEW u \in Threads, NEW k \in DOMAIN blocks'[u]
          PROVE  /\ pos(u, k) \in DOMAIN blocks[u] /\ blocks'[u][k] = blocks[u][pos(u, k)]
                 /\ blocks'[u][k] # x
      <3>1. pos(u, k) \in DOMAIN blocks[u] /\ blocks'[u][k] = blocks[u][pos(u, k)]
        <4>1. CASE u = t
          <5>1. k \in 1..(Len(blocks[t]) - 1)
            BY <2>2, <4>1
          <5> QED BY <2>2, <4>1, <5>1
        <4>2. CASE u # t
          BY <2>2, <4>2
        <4> QED BY <4>1, <4>2
      <3>2. u = t => pos(u, k) # 1
        BY <2>2
      <3>3. 1 \in DOMAIN blocks[t]
        BY <2>2
      <3>4. blocks[u][pos(u, k)] = blocks[t][1] => u = t /\ pos(u, k) = 1
        BY <3>1, <3>3 DEF InBlocks, OnceInBlocks
      <3> QED BY <2>2, <3>1, <3>2, <3>4
    <2>5. \A u \in Threads, y \in Txs : InBlock(u, y)' <=> InBlock(u, y) /\ y # x
      <3>1. ASSUME NEW u \in Threads, NEW y \in Txs, InBlock(u, y)'
            PROVE  InBlock(u, y) /\ y # x
        BY <2>4, <3>1 DEF InBlock
      <3>2. ASSUME NEW u \in Threads, NEW y \in Txs, InBlock(u, y), y # x
            PROVE  InBlock(u, y)'
        <4>1. PICK k \in DOMAIN blocks[u] : blocks[u][k] = y
          BY <3>2 DEF InBlock
        <4>2. CASE u # t
          BY <2>2, <4>1, <4>2 DEF InBlock
        <4>3. CASE u = t
          <5>1. k # 1 /\ k \in 1..Len(blocks[t])
            BY <2>2, <3>2, <4>1, <4>3
          <5>2. k - 1 \in 1..(Len(blocks[t]) - 1) /\ (k - 1) + 1 = k
            BY <2>2, <5>1
          <5>3. blocks'[t][k - 1] = y /\ k - 1 \in DOMAIN blocks'[t]
            BY <2>2, <4>1, <4>3, <5>2
          <5> QED BY <4>3, <5>3 DEF InBlock
        <4> QED BY <4>2, <4>3
      <3> QED BY <3>1, <3>2
    <2>6. OnceInBlocks'
      <3>1. ASSUME NEW u \in Threads, NEW v \in Threads,
                   NEW k \in DOMAIN blocks'[u], NEW l \in DOMAIN blocks'[v],
                   blocks'[u][k] = blocks'[v][l]
            PROVE  u = v /\ k = l
        <4>1. blocks[u][pos(u, k)] = blocks[v][pos(v, l)]
              /\ pos(u, k) \in DOMAIN blocks[u] /\ pos(v, l) \in DOMAIN blocks[v]
          BY <2>4, <3>1
        <4>2. u = v /\ pos(u, k) = pos(v, l)
          BY <4>1 DEF InBlocks, OnceInBlocks
        <4>3. u = t => k \in Nat /\ l \in Nat
          BY <2>2, <4>2
        <4> QED BY <4>2, <4>3
      <3>2. \A u \in Threads, y \in Txs : InBlock(u, y)' => txo'[y].db # None
        BY <2>3, <2>5 DEF InBlocks, OnceInBlocks
      <3> QED BY <3>1, <3>2 DEF OnceInBlocks
    <2>7. NewUnlessTaken'
      BY <2>3 DEF InBlocks, NewUnlessTaken
    <2>8. HeldInBlock'
      BY <2>3, <2>5 DEF InBlocks, HeldInBlock, NewTransaction
    <2> QED BY <2>6, <2>7, <2>8 DEF InBlocks
  <1>6. ASSUME NEW t \in Threads,
               \/ CloseForget(t) \/ FetchFree(t) \/ QueryBegin(t) \/ QueryExecute(t)
               \/ QueryCommit(t) \/ QueryRollback(t) \/ QueryFree(t) \/ TxnQueryExecute(t)
        PROVE  UNCHANGED <<txo, blocks>>
    BY <1>6 DEF CloseForget, FetchFree, QueryBegin, QueryExecute, QueryCommit, QueryRollback,
                QueryFree, TxnQueryExecute, objects
  <1>7. ASSUME NEW t \in Threads, NEW d \in Dbs, NEW w \in BOOLEAN,
               Open(t, d) \/ CloseNative(t, d) \/ Fetch(t, d, w) \/ QueryPrepare(t, d, w)
        PROVE  UNCHANGED <<txo, blocks>>
    BY <1>7 DEF Open, CloseNative, Fetch, QueryPrepare, objects
  <1>8. ASSUME NEW t \in Threads, NEW x \in Txs,
               Stage(t, x) \/ TxnQueryPrepare(t, x) \/ TxnFetch(t, x)
        PROVE  UNCHANGED <<txo, blocks>>
    BY <1>8 DEF Stage, TxnQueryPrepare, TxnFetch, objects
  <1>9. CASE UNCHANGED vars
    BY <1>1, <1>9 DEF vars
  <1>10. CASE Next
    BY <1>1, <1>3, <1>4, <1>5, <1>6, <1>7, <1>8, <1>10
       DEF Next, FtsSearch, FtsSearchFuzzy, VectorSearch, GetNodesByLabel,
           TxnFtsSearch, TxnFtsSearchFuzzy
  <1> QED BY <1>9, <1>10

-----------------------------------------------------------------------------
LEMMA HeldNext ==
  ASSUME ~Reenter, TInv, FInv, OInv, Closers, InBlocks, Held, [Next]_vars
  PROVE  Held'
  <1>1. CASE UNCHANGED vars
    BY <1>1, HeldStep DEF vars, TxnKept
  <1>2. CASE Next
    BY <1>2, HeldBlocks, HeldCalls, HeldDatabases
       DEF Next, FtsSearch, FtsSearchFuzzy, VectorSearch, GetNodesByLabel,
           TxnFtsSearch, TxnFtsSearchFuzzy
  <1> QED BY <1>1, <1>2

LEMMA HeldInit == Init => InBlocks /\ Held
  <1> SUFFICES ASSUME Init PROVE InBlocks /\ Held
    OBVIOUS
  <1>1. /\ \A x \in Txs : txo[x] = NewTransaction
        /\ \A t \in Threads : blocks[t] = <<>>
        /\ \A i \in TxnIds : ntx[i].st = "ended"
    BY DEF Init
  <1>2. \A t \in Threads : DOMAIN blocks[t] = {}
    BY <1>1
  <1>3. InBlocks
    <2>1. \A t \in Threads, x \in Txs : ~InBlock(t, x)
      BY <1>2 DEF InBlock
    <2>2. OnceInBlocks /\ NewUnlessTaken
      BY <1>1, <1>2, <2>1 DEF OnceInBlocks, NewUnlessTaken
    <2>3. HeldInBlock
      BY <1>1, <2>1 DEF HeldInBlock, NewTransaction
    <2> QED BY <2>2, <2>3 DEF InBlocks
  <1>4. Held
    BY <1>1 DEF Held, HeldOnce, HeldIsActive, ActiveIsLive, NewTransaction
  <1> QED BY <1>3, <1>4

LEMMA HeldCorrect ==
  ASSUME ~Reenter
  PROVE  Spec => [](InBlocks /\ Held)
  <1>1. TInv /\ FInv /\ OInv /\ Closers /\ InBlocks /\ Held /\ [Next]_vars
           => (InBlocks /\ Held)'
    BY HeldNext, InBlocksNext
  <1> QED BY <1>1, HeldInit, TInvCorrect, FInvCorrect, OInvCorrect, ClosersCorrect, PTL DEF Spec

\* A program that enters each Transaction object once: as long as its block
\* lasts and it was not ended, its native transaction is alive, in the database
\* its Database object has open, whatever other threads close, run or fail;
\* afterwards it has none.
THEOREM BlocksAreUsable ==
  ASSUME ~Reenter
  PROVE  Spec => []UsableInBlock
  <1>1. TInv /\ InBlocks /\ Held => UsableInBlock
    BY ClientAssumption, ObjectFields
       DEF InBlocks, HeldInBlock, Held, HeldIsActive, ActiveIsLive, UsableInBlock, Live
  <1> QED BY <1>1, HeldCorrect, TInvCorrect, PTL

-----------------------------------------------------------------------------
(* Quiet.  Every native transaction that is active is held by an object in *)
(* a block or is the own one of a query that is under way, and every       *)
(* writer slot belongs to a transaction that is active.                    *)

ActiveIsKnown ==
  \A i \in TxnIds : ntx[i].st = "active" =>
    \/ \E x \in Txs : txo[x].handle = i
    \/ \E t \in Threads : Owns(t) /\ call[t].txn = i

SlotIsActive ==
  \A n \in DbIds : ndb[n].st = "open" /\ ndb[n].slot # None =>
    ntx[ndb[n].slot].st = "active" /\ ntx[ndb[n].slot].db = n

IdleHasNothing ==
  \A t \in Threads : Idle(t) => call[t].query = None /\ call[t].result = None

LEMMA IdleNext ==
  ASSUME TInv, IdleHasNothing, [Next]_vars
  PROVE  IdleHasNothing'
  <1>1. CASE Aside
    BY <1>1 DEF IdleHasNothing, Idle, Aside, MovedOn
  <1>2. ASSUME NEW t \in Threads,
               CloseForget(t) \/ \E d \in Dbs : Open(t, d) \/ CloseNative(t, d)
        PROVE  IdleHasNothing'
    <2>1. CASE CloseForget(t)
      BY <2>1 DEF IdleHasNothing, Idle, CloseForget, Go, IdleCall, TInv, CallType
    <2>2. ASSUME NEW d \in Dbs, Open(t, d) PROVE IdleHasNothing'
      BY <2>2 DEF IdleHasNothing, Idle, Open
    <2>3. ASSUME NEW d \in Dbs, CloseNative(t, d) PROVE IdleHasNothing'
      BY <2>3 DEF IdleHasNothing, Idle, CloseNative, Go, IdleCall, TInv, CallType
    <2> QED BY <1>2, <2>1, <2>2, <2>3
  <1> QED BY <1>1, <1>2, StepAside

\* A transaction that stays active stays known if its holder keeps it.
LEMMA KnownStep ==
  ASSUME ActiveIsKnown,
         \A i \in TxnIds : ntx'[i].st = "active" =>
           \/ \E x \in Txs : txo'[x].handle = i
           \/ \E u \in Threads : Owns(u)' /\ call'[u].txn = i
           \/ /\ ntx[i].st = "active"
              /\ \A x \in Txs : txo[x].handle = i => txo'[x].handle = i
              /\ \A u \in Threads : Owns(u) /\ call[u].txn = i => Owns(u)' /\ call'[u].txn = i
  PROVE  ActiveIsKnown'
  BY DEF ActiveIsKnown

LEMMA KnownBlocks ==
  ASSUME ~Reenter, TInv, Held, InBlocks, ActiveIsKnown, NEW t \in Threads
  PROVE  /\ Exit(t) => ActiveIsKnown'
         /\ \A x \in Txs, d \in Dbs, ro \in BOOLEAN : Enter(t, x, d, ro) => ActiveIsKnown'
         /\ \A x \in Txs : Stage(t, x) \/ Commit(t, x) \/ Rollback(t, x) => ActiveIsKnown'
  <1>1. ASSUME call' = call, NEW x \in Txs, \A y \in Txs \ {x} : txo'[y] = txo[y],
               \A i \in TxnIds : ntx'[i].st = "active" =>
                 \/ txo'[x].handle = i
                 \/ ntx[i].st = "active" /\ i # txo[x].handle
        PROVE  ActiveIsKnown'
    <2>1. \A u \in Threads : Owns(u)' <=> Owns(u)
      BY <1>1 DEF Owns
    <2> QED BY <1>1, <2>1, KnownStep
  <1>2. ASSUME Exit(t) PROVE ActiveIsKnown'
    <2> DEFINE x == Head(blocks[t])
    <2>1. x \in Txs /\ call' = call
      BY <1>2 DEF Exit, TInv, BlocksType
    <2>2. txo' = [txo EXCEPT ![x] = NewTransaction]
      BY <1>2 DEF Exit
    <2>3. \/ RollbackNative(x)
          \/ UNCHANGED natives /\ (txo[x].committed \/ txo[x].rolledBack)
      BY <1>2 DEF Exit
    <2> HIDE DEF x
    <2>4. \A y \in Txs \ {x} : txo'[y] = txo[y]
      BY <2>2 DEF TInv, TxoType
    <2>5. CASE RollbackNative(x)
      <3>1. \A i \in TxnIds : ntx'[i].st = "active" => ntx[i].st = "active" /\ i # txo[x].handle
        BY <2>1, <2>5, DroppedIsEnded
      <3> QED BY <1>1, <2>1, <2>4, <3>1
    <2>6. CASE UNCHANGED natives /\ (txo[x].committed \/ txo[x].rolledBack)
      <3>1. txo[x].handle = None /\ ntx' = ntx
        BY <2>1, <2>6 DEF InBlocks, HeldInBlock, natives
      <3>2. \A i \in TxnIds : i # txo[x].handle
        BY <3>1, ClientAssumption
      <3> QED BY <1>1, <2>1, <2>4, <3>1, <3>2
    <2> QED BY <2>3, <2>5, <2>6
  <1>3. ASSUME NEW x \in Txs, NEW d \in Dbs, NEW ro \in BOOLEAN, Enter(t, x, d, ro)
        PROVE  ActiveIsKnown'
    <2>1. PICK i \in TxnIds :
            /\ NativeBegin(dbo[d].handle, ~ro, i)
            /\ txo' = [txo EXCEPT ![x].db = d, ![x].readOnly = ro, ![x].handle = i]
      BY <1>3 DEF Enter
    <2>2. call' = call /\ dbo[d].handle \in DbIds \cup {None}
      BY <1>3, ObjectFields DEF Enter
    <2>3. \A j \in TxnIds \ {i} : ntx'[j] = ntx[j]
      BY <2>1, <2>2, Begun
    <2>4. txo'[x].handle = i /\ \A y \in Txs \ {x} : txo'[y] = txo[y]
      BY <2>1 DEF TInv, TxoType
    <2>5. txo[x].handle = None
      BY <1>3 DEF Enter, Takes, Least, InBlocks, NewUnlessTaken, NewTransaction
    <2>6. \A j \in TxnIds : j # txo[x].handle
      BY <2>5, ClientAssumption
    <2> QED BY <1>1, <2>2, <2>3, <2>4, <2>6
  <1>4. ASSUME NEW x \in Txs, Stage(t, x) PROVE ActiveIsKnown'
    <2>1. txo[x].handle \in TxnIds /\ UNCHANGED <<txo, call>>
      BY <1>4, ObjectFields DEF Stage, objects
    <2>2. \A j \in TxnIds : ntx'[j].st = ntx[j].st
      BY <1>4, <2>1, Staged DEF Stage, TxnKept
    <2> QED BY <1>1, <2>1, <2>2
  <1>5. ASSUME NEW x \in Txs, Commit(t, x) PROVE ActiveIsKnown'
    <2>1. txo[x].handle \in TxnIds /\ call' = call
      BY <1>5, ObjectFields DEF Commit
    <2>2. CASE /\ NativeEnd(txo[x].handle, FALSE)
               /\ txo' = [txo EXCEPT ![x].handle = None, ![x].committed = TRUE]
      <3>1. \A y \in Txs \ {x} : txo'[y] = txo[y]
        BY <2>2 DEF TInv, TxoType
      <3>2. \A i \in TxnIds : ntx'[i].st = "active" => ntx[i].st = "active" /\ i # txo[x].handle
        BY <2>1, <2>2, Ended
      <3> QED BY <1>1, <2>1, <3>1, <3>2
    <2>3. CASE UNCHANGED <<natives, txo>>
      BY <1>1, <2>1, <2>3 DEF natives
    <2> QED BY <1>5, <2>2, <2>3 DEF Commit
  <1>6. ASSUME NEW x \in Txs, Rollback(t, x) PROVE ActiveIsKnown'
    <2>1. /\ RollbackNative(x) /\ call' = call
          /\ txo' = [txo EXCEPT ![x].handle = None, ![x].rolledBack = TRUE]
      BY <1>6 DEF Rollback
    <2>2. \A y \in Txs \ {x} : txo'[y] = txo[y]
      BY <2>1 DEF TInv, TxoType
    <2>3. \A i \in TxnIds : ntx'[i].st = "active" => ntx[i].st = "active" /\ i # txo[x].handle
      BY <2>1, DroppedIsEnded
    <2> QED BY <1>1, <2>1, <2>2, <2>3
  <1> QED BY <1>2, <1>3, <1>4, <1>5, <1>6

LEMMA KnownCalls ==
  ASSUME "query_commit" \notin Faults, TInv, ActiveIsKnown, NEW t \in Threads
  PROVE  /\ QueryBegin(t) \/ QueryExecute(t) \/ QueryCommit(t) \/ QueryRollback(t) => ActiveIsKnown'
         /\ QueryFree(t) \/ TxnQueryExecute(t) \/ FetchFree(t) \/ CloseForget(t) => ActiveIsKnown'
         /\ \A d \in Dbs, w \in BOOLEAN : QueryPrepare(t, d, w) \/ Fetch(t, d, w) => ActiveIsKnown'
         /\ \A d \in Dbs : Open(t, d) \/ CloseNative(t, d) => ActiveIsKnown'
         /\ \A x \in Txs : TxnQueryPrepare(t, x) \/ TxnFetch(t, x) => ActiveIsKnown'
  <1>1. ASSUME txo' = txo, \A u \in Threads \ {t} : call'[u] = call[u],
               \A i \in TxnIds : ntx'[i].st = "active" =>
                 \/ Owns(t)' /\ call'[t].txn = i
                 \/ ntx[i].st = "active" /\ ~(Owns(t) /\ call[t].txn = i)
        PROVE  ActiveIsKnown'
    <2>1. \A u \in Threads \ {t} : Owns(u)' <=> Owns(u)
      BY <1>1 DEF Owns
    <2> QED BY <1>1, <2>1, KnownStep
  <1>2. ASSUME \A u \in Threads \ {t} : call'[u] = call[u], ~Owns(t), txo' = txo,
               \A i \in TxnIds : ntx'[i].st = ntx[i].st
        PROVE  ActiveIsKnown'
    BY <1>1, <1>2
  <1>3. ASSUME QueryBegin(t) PROVE ActiveIsKnown'
    <2>1. /\ \A u \in Threads \ {t} : call'[u] = call[u]
          /\ ~Owns(t) /\ txo' = txo
      BY <1>3 DEF QueryBegin, Owns, Go, objects, TInv, CallType
    <2> DEFINE n == dbo[call[t].db].handle
    <2>2. n \in DbIds \cup {None} /\ call[t].writes \in BOOLEAN
      BY <1>3, CallFields, ObjectFields DEF QueryBegin
    <2>3. ASSUME NEW i \in TxnIds, NativeBegin(n, call[t].writes, i),
                 Go(t, [call[t] EXCEPT !.at = "execute", !.db = None, !.txn = i])
          PROVE  ActiveIsKnown'
      <3> HIDE DEF n
      <3>1. \A j \in TxnIds \ {i} : ntx'[j] = ntx[j]
        BY <2>3 DEF NativeBegin, TInv, NtxType
      <3>2. Owns(t)' /\ call'[t].txn = i
        BY <2>3, CallFields DEF Owns, Go, TInv, CallType
      <3> QED BY <1>1, <2>1, <3>1, <3>2
    <2>4. CASE UNCHANGED natives
      BY <1>2, <2>1, <2>4 DEF natives
    <2> QED BY <1>3, <2>3, <2>4 DEF QueryBegin
  <1>4. ASSUME QueryExecute(t) PROVE ActiveIsKnown'
    <2>1. call[t].txn \in TxnIds /\ txo' = txo
      BY <1>4, CallFields DEF QueryExecute, WithTxn, objects
    <2>2. /\ \A u \in Threads \ {t} : call'[u] = call[u]
          /\ Owns(t)' /\ call'[t].txn = call[t].txn
      BY <1>4, CallFields DEF QueryExecute, Owns, Go, TInv, CallType
    <2>3. \A j \in TxnIds : ntx'[j].st = ntx[j].st
      BY <1>4, <2>1, Staged DEF QueryExecute, TxnKept
    <2> QED BY <1>1, <2>1, <2>2, <2>3
  <1>5. ASSUME QueryCommit(t) \/ QueryRollback(t) PROVE ActiveIsKnown'
    <2>1. call[t].txn \in TxnIds /\ txo' = txo
      BY <1>5, CallFields DEF QueryCommit, QueryRollback, WithTxn, objects
    <2>2. \A u \in Threads \ {t} : call'[u] = call[u]
      BY <1>5 DEF QueryCommit, QueryRollback, Go, TInv, CallType
    <2>3. PICK k \in BOOLEAN : NativeEnd(call[t].txn, k)
      BY <1>5 DEF QueryCommit, QueryRollback
    <2>4. \A i \in TxnIds : ntx'[i].st = "active" => ntx[i].st = "active" /\ i # call[t].txn
      BY <2>1, <2>3, Ended
    <2> QED BY <1>1, <2>1, <2>2, <2>4
  <1>6. ASSUME TxnQueryExecute(t) PROVE ActiveIsKnown'
    <2>1. call[t].txn \in TxnIds /\ txo' = txo /\ ~Owns(t)
      BY <1>6, CallFields DEF TxnQueryExecute, WithTxn, objects, Owns
    <2>2. \A u \in Threads \ {t} : call'[u] = call[u]
      BY <1>6 DEF TxnQueryExecute, Go, TInv, CallType
    <2>3. \A j \in TxnIds : ntx'[j].st = ntx[j].st
      BY <1>6, <2>1, Staged DEF TxnQueryExecute, TxnKept
    <2> QED BY <1>2, <2>1, <2>2, <2>3
  <1>7. ASSUME QueryFree(t) \/ FetchFree(t) \/ CloseForget(t) PROVE ActiveIsKnown'
    <2>1. UNCHANGED <<txo, ntx>> /\ ~Owns(t) /\ \A u \in Threads \ {t} : call'[u] = call[u]
      BY <1>7 DEF QueryFree, FetchFree, CloseForget, objects, natives, Owns, Go, TInv, CallType
    <2> QED BY <1>2, <2>1
  <1>8. ASSUME NEW d \in Dbs, NEW w \in BOOLEAN, QueryPrepare(t, d, w) \/ Fetch(t, d, w)
        PROVE  ActiveIsKnown'
    <2>1. UNCHANGED <<txo, ntx>> /\ ~Owns(t) /\ \A u \in Threads \ {t} : call'[u] = call[u]
      BY <1>8 DEF QueryPrepare, Fetch, objects, natives, Owns, Idle, Go, TInv, CallType
    <2> QED BY <1>2, <2>1
  <1>9. ASSUME NEW d \in Dbs, Open(t, d) \/ CloseNative(t, d) PROVE ActiveIsKnown'
    <2>1. UNCHANGED <<txo, ntx>> /\ ~Owns(t) /\ \A u \in Threads \ {t} : call'[u] = call[u]
      BY <1>9 DEF Open, CloseNative, Owns, Idle, Go, TInv, CallType
    <2> QED BY <1>2, <2>1
  <1>10. ASSUME NEW x \in Txs, TxnQueryPrepare(t, x) \/ TxnFetch(t, x) PROVE ActiveIsKnown'
    <2>1. UNCHANGED <<txo, ntx>> /\ ~Owns(t) /\ \A u \in Threads \ {t} : call'[u] = call[u]
      BY <1>10 DEF TxnQueryPrepare, TxnFetch, objects, natives, Owns, Idle, Go, TInv, CallType
    <2> QED BY <1>2, <2>1
  <1> QED BY <1>3, <1>4, <1>5, <1>6, <1>7, <1>8, <1>9, <1>10

\* Begin takes the slot for a transaction that it makes active; an end gives
\* the slot back; nothing else touches either.
LEMMA SlotBegin ==
  ASSUME TInv, SlotIsActive, NEW n \in DbIds \cup {None}, NEW w \in BOOLEAN,
         NEW i \in TxnIds, NativeBegin(n, w, i)
  PROVE  SlotIsActive'
  <1>1. /\ ntx[i].st = "ended" /\ n \in DbIds
        /\ ntx'[i].st = "active" /\ ntx'[i].db = n
        /\ \A j \in TxnIds \ {i} : ntx'[j] = ntx[j]
        /\ \A m \in DbIds : ndb'[m].st = ndb[m].st
    <2>1. /\ i \in Unheld /\ n \in DbIds
          /\ ntx'[i] = [st |-> "active", db |-> n, writes |-> w, staged |-> {}]
          /\ \A j \in TxnIds \ {i} : ntx'[j] = ntx[j]
          /\ \A m \in DbIds : ndb'[m].st = ndb[m].st
      BY Begun
    <2>2. ntx[i].st = "ended"
      BY <2>1 DEF Unheld
    <2>3. ntx'[i].st = "active" /\ ntx'[i].db = n
      BY <2>1
    <2> QED BY <2>1, <2>2, <2>3
  <1>2. \A m \in DbIds : ndb'[m].slot = ndb[m].slot \/ (m = n /\ ndb'[m].slot = i)
    <2>1. CASE w
      BY <1>1, <2>1 DEF NativeBegin, TInv, NdbType
    <2>2. CASE ~w
      BY <2>2 DEF NativeBegin
    <2> QED BY <2>1, <2>2
  <1>3. \A m \in DbIds : ndb[m].slot \in TxnIds \cup {None}
    BY DEF TInv, NdbType
  <1> QED BY <1>1, <1>2, <1>3 DEF SlotIsActive

LEMMA SlotEnd ==
  ASSUME TInv, SlotIsActive, NEW i \in TxnIds, NativeEnd(i, FALSE)
  PROVE  SlotIsActive'
  <1>1. /\ \A j \in TxnIds \ {i} : ntx'[j] = ntx[j]
        /\ \A m \in DbIds : ndb'[m].st = ndb[m].st
    BY Ended
  <1>2. \A m \in DbIds : /\ ndb'[m].slot \in {ndb[m].slot, None}
                         /\ m = ntx[i].db => ndb'[m].slot # i
    BY ClientAssumption DEF NativeEnd, TInv, NdbType
  <1>3. \A m \in DbIds : ndb[m].slot \in TxnIds \cup {None}
    BY DEF TInv, NdbType
  <1> QED BY <1>1, <1>2, <1>3 DEF SlotIsActive

LEMMA SlotSame ==
  ASSUME TInv, SlotIsActive, \A j \in TxnIds : TxnKept(j),
         \A m \in DbIds : ndb'[m].st = "open" =>
            ndb'[m].slot = None \/ (ndb[m].st = "open" /\ ndb'[m].slot = ndb[m].slot)
  PROVE  SlotIsActive'
  <1>1. \A m \in DbIds : ndb[m].slot \in TxnIds \cup {None}
    BY DEF TInv, NdbType
  <1> QED BY <1>1 DEF SlotIsActive, TxnKept

LEMMA SlotNext ==
  ASSUME "rollback" \notin Faults, "query_commit" \notin Faults, TInv, SlotIsActive, [Next]_vars
  PROVE  SlotIsActive'
  <1>1. ASSUME UNCHANGED <<ndb, ntx>> PROVE SlotIsActive'
    BY <1>1, SlotSame DEF TxnKept
  <1>2. ASSUME ndb' = ndb, NEW i \in TxnIds, NEW S, ntx' = [ntx EXCEPT ![i].staged = @ \cup S]
        PROVE  SlotIsActive'
    BY <1>2, Staged, SlotSame
  <1>3. ASSUME NEW x \in Txs, RollbackNative(x) PROVE SlotIsActive'
    <2>1. CASE txo[x].handle # None /\ ntx[txo[x].handle].st = "active"
      <3>1. txo[x].handle \in TxnIds /\ NativeEnd(txo[x].handle, FALSE)
        BY <1>3, <2>1, ObjectFields DEF RollbackNative
      <3> QED BY <3>1, SlotEnd
    <2>2. CASE ~(txo[x].handle # None /\ ntx[txo[x].handle].st = "active")
      BY <1>1, <1>3, <2>2 DEF RollbackNative, natives
    <2> QED BY <2>1, <2>2
  <1>4. ASSUME NEW t \in Threads, Exit(t) PROVE SlotIsActive'
    <2>1. Head(blocks[t]) \in Txs
      BY <1>4 DEF Exit, TInv, BlocksType
    <2>2. RollbackNative(Head(blocks[t])) \/ UNCHANGED natives
      BY <1>4 DEF Exit
    <2> QED BY <1>1, <1>3, <2>1, <2>2 DEF natives
  <1>5. ASSUME NEW t \in Threads, NEW x \in Txs, NEW d \in Dbs, NEW ro \in BOOLEAN,
               Enter(t, x, d, ro)
        PROVE  SlotIsActive'
    <2>1. PICK i \in TxnIds : NativeBegin(dbo[d].handle, ~ro, i)
      BY <1>5 DEF Enter
    <2> QED BY <2>1, SlotBegin, ObjectFields
  <1>6. ASSUME NEW t \in Threads, NEW x \in Txs, Stage(t, x) PROVE SlotIsActive'
    <2>1. txo[x].handle \in TxnIds /\ ndb' = ndb
      BY <1>6, ObjectFields DEF Stage
    <2> QED BY <1>2, <1>6, <2>1 DEF Stage
  <1>7. ASSUME NEW t \in Threads, NEW x \in Txs, Commit(t, x) PROVE SlotIsActive'
    <2>1. txo[x].handle \in TxnIds
      BY <1>7, ObjectFields DEF Commit
    <2>2. NativeEnd(txo[x].handle, FALSE) \/ UNCHANGED natives
      BY <1>7 DEF Commit, natives
    <2> QED BY <1>1, <2>1, <2>2, SlotEnd DEF natives
  <1>8. ASSUME NEW t \in Threads, QueryBegin(t) PROVE SlotIsActive'
    <2>1. dbo[call[t].db].handle \in DbIds \cup {None} /\ call[t].writes \in BOOLEAN
      BY <1>8, CallFields, ObjectFields DEF QueryBegin
    <2>2. \/ \E i \in TxnIds : NativeBegin(dbo[call[t].db].handle, call[t].writes, i)
          \/ UNCHANGED natives
      BY <1>8 DEF QueryBegin
    <2> QED BY <1>1, <2>1, <2>2, SlotBegin DEF natives
  <1>9. ASSUME NEW t \in Threads, QueryExecute(t) \/ TxnQueryExecute(t) PROVE SlotIsActive'
    <2>1. call[t].txn \in TxnIds /\ ndb' = ndb
      BY <1>9, CallFields DEF QueryExecute, TxnQueryExecute, WithTxn
    <2>2. \E S : ntx' = [ntx EXCEPT ![call[t].txn].staged = @ \cup S]
      BY <1>9 DEF QueryExecute, TxnQueryExecute
    <2> QED BY <1>2, <2>1, <2>2
  <1>10. ASSUME NEW t \in Threads, QueryCommit(t) \/ QueryRollback(t) PROVE SlotIsActive'
    <2>1. call[t].txn \in TxnIds
      BY <1>10, CallFields DEF QueryCommit, QueryRollback, WithTxn
    <2>2. NativeEnd(call[t].txn, FALSE)
      BY <1>10 DEF QueryCommit, QueryRollback
    <2> QED BY <2>1, <2>2, SlotEnd
  <1>11. ASSUME NEW t \in Threads, NEW d \in Dbs, Open(t, d) PROVE SlotIsActive'
    <2>1. ntx' = ntx /\ \A m \in DbIds : ndb'[m] = ndb[m] \/ ndb'[m].slot = None
      BY <1>11 DEF Open, TInv, NdbType
    <2> QED BY <2>1, SlotSame DEF TxnKept
  <1>12. ASSUME NEW t \in Threads, NEW d \in Dbs, CloseNative(t, d) PROVE SlotIsActive'
    <2>1. ntx' = ntx /\ \A m \in DbIds : ndb'[m] = ndb[m] \/ ndb'[m].st = "closed"
      BY <1>12 DEF CloseNative, TInv, NdbType
    <2> QED BY <2>1, SlotSame DEF TxnKept
  <1>13. ASSUME NEW t \in Threads,
                \/ CloseForget(t) \/ QueryFree(t) \/ FetchFree(t)
                \/ \E d \in Dbs, w \in BOOLEAN : QueryPrepare(t, d, w) \/ Fetch(t, d, w)
                \/ \E x \in Txs : TxnQueryPrepare(t, x) \/ TxnFetch(t, x)
         PROVE  SlotIsActive'
    BY <1>1, <1>13 DEF CloseForget, QueryFree, FetchFree, QueryPrepare, Fetch, TxnQueryPrepare,
                       TxnFetch, natives
  <1>14. CASE UNCHANGED vars
    BY <1>1, <1>14 DEF vars
  <1>15. ASSUME NEW t \in Threads, NEW d \in Dbs,
                \/ Open(t, d) \/ CloseNative(t, d)
                \/ FtsSearch(t, d) \/ FtsSearchFuzzy(t, d)
                \/ VectorSearch(t, d) \/ GetNodesByLabel(t, d)
                \/ \E writes \in BOOLEAN : QueryPrepare(t, d, writes)
                \/ \E x \in Txs, readOnly \in BOOLEAN : Enter(t, x, d, readOnly)
         PROVE  SlotIsActive'
    BY <1>5, <1>11, <1>12, <1>13, <1>15
       DEF FtsSearch, FtsSearchFuzzy, VectorSearch, GetNodesByLabel
  <1>16. ASSUME NEW t \in Threads, NEW x \in Txs,
                \/ Stage(t, x) \/ Commit(t, x) \/ Rollback(t, x) \/ TxnQueryPrepare(t, x)
                \/ TxnFtsSearch(t, x) \/ TxnFtsSearchFuzzy(t, x)
         PROVE  SlotIsActive'
    BY <1>3, <1>6, <1>7, <1>13, <1>16 DEF Rollback, TxnFtsSearch, TxnFtsSearchFuzzy
  <1>17. CASE Next
    BY <1>4, <1>8, <1>9, <1>10, <1>13, <1>15, <1>16, <1>17 DEF Next
  <1> QED BY <1>14, <1>17

\* Once every thread is out of the binding and of its blocks, nothing native is
\* left over: close() is not refused and the next writer can begin.  Provided
\* objects are entered once, rollbacks succeed, and so does the commit that
\* query() makes; begins, statements, conversions and the commits of a program
\* may fail.
THEOREM NothingIsLeftBehind ==
  ASSUME ~Reenter, "rollback" \notin Faults, "query_commit" \notin Faults
  PROVE  Spec => []QuietMeansFree
  <1>1. Init => ActiveIsKnown /\ SlotIsActive /\ IdleHasNothing
    BY DEF Init, ActiveIsKnown, SlotIsActive, IdleHasNothing, IdleCall
  <1>2. TInv /\ InBlocks /\ Held /\ ActiveIsKnown /\ [Next]_vars => ActiveIsKnown'
    <2> SUFFICES ASSUME TInv, InBlocks, Held, ActiveIsKnown, [Next]_vars PROVE ActiveIsKnown'
      OBVIOUS
    <2>1. CASE UNCHANGED vars
      BY <2>1 DEF vars, ActiveIsKnown, Owns
    <2>2. CASE Next
      BY <2>2, KnownBlocks, KnownCalls
         DEF Next, FtsSearch, FtsSearchFuzzy, VectorSearch, GetNodesByLabel,
             TxnFtsSearch, TxnFtsSearchFuzzy
    <2> QED BY <2>1, <2>2
  <1>3. TInv /\ SlotIsActive /\ [Next]_vars => SlotIsActive'
    BY SlotNext
  <1>4. TInv /\ IdleHasNothing /\ [Next]_vars => IdleHasNothing'
    BY IdleNext
  <1>5. TInv /\ InBlocks /\ Held /\ ActiveIsKnown /\ SlotIsActive /\ IdleHasNothing
          => QuietMeansFree
    <2> SUFFICES ASSUME TInv, InBlocks, ActiveIsKnown, SlotIsActive, IdleHasNothing,
                        \A t \in Threads : Idle(t) /\ blocks[t] = <<>>,
                        NEW n \in DbIds, Live(n)
                 PROVE  ~HasChildren(n) /\ ndb[n].slot = None
      BY DEF QuietMeansFree
    <2>1. \A t \in Threads : DOMAIN blocks[t] = {}
      OBVIOUS
    <2>2. \A t \in Threads, x \in Txs : ~InBlock(t, x)
      BY <2>1 DEF InBlock
    <2>3. \A x \in Txs : txo[x].handle = None
      BY <2>2 DEF InBlocks, HeldInBlock
    <2>4. \A i \in TxnIds : ntx[i].st # "active"
      BY <2>3, ClientAssumption DEF ActiveIsKnown, Owns, Idle
    <2>5. ~HasChildren(n)
      BY <2>4, ClientAssumption DEF HasChildren, IdleHasNothing
    <2>6. ndb[n].slot \in TxnIds \cup {None}
      BY DEF TInv, NdbType
    <2> QED BY <2>4, <2>5, <2>6 DEF SlotIsActive, Live
  <1> QED BY <1>1, <1>2, <1>3, <1>4, <1>5, HeldCorrect, TInvCorrect, PTL DEF Spec
===============================================================================
