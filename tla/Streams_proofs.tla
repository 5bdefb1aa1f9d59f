----------------------------- MODULE Streams_proofs -----------------------------
(***************************************************************************)
(* Theorems about Streams: the types, the wakeups of a looping reader, and *)
(* what streams hold and readers are given when nothing of Faults happens. *)
(***************************************************************************)
EXTENDS Streams, FiniteSetTheorems, WellFoundedInduction, TLAPS

-----------------------------------------------------------------------------
(* Numbers.                                                                *)

LEMMA LeastExists ==
  ASSUME NEW S, S \subseteq Nat, S # {}
  PROVE  \E x \in S : \A y \in S : x <= y
  <1>1. PICK x \in S : \A y \in S : <<y, x>> \notin OpToRel(<, Nat)
    BY NatLessThanWellFounded, WFMin
  <1>2. ASSUME NEW y \in S PROVE x <= y
    <2>1. x \in Nat /\ y \in Nat
      OBVIOUS
    <2>2. ~(y < x)
      BY <1>1, <2>1 DEF OpToRel
    <2> QED BY <2>1, <2>2
  <1> QED BY <1>2

LEMMA MaxIsGreatest ==
  ASSUME NEW S, S \subseteq Nat, S # {}, NEW b \in Nat, \A x \in S : x <= b
  PROVE  Max(S) \in S /\ \A y \in S : y <= Max(S)
  <1> DEFINE T == {b - x : x \in S}
  <1>1. T \subseteq Nat /\ T # {}
    <2>1. \A x \in S : b - x \in Nat
      OBVIOUS
    <2>2. PICK x \in S : TRUE
      OBVIOUS
    <2>3. b - x \in T
      OBVIOUS
    <2> QED BY <2>1, <2>3
  <1>2. PICK d \in T : \A e \in T : d <= e
    BY <1>1, LeastExists
  <1>3. PICK x \in S : d = b - x
    OBVIOUS
  <1>4. \A y \in S : b - y \in T
    OBVIOUS
  <1>5. ASSUME NEW y \in S PROVE x >= y
    <2>1. d <= b - y
      BY <1>2, <1>4
    <2> QED BY <1>3, <2>1
  <1>6. /\ Max(S) \in S
        /\ \A y \in S : Max(S) >= y
    BY <1>5 DEF Max
  <1> QED BY <1>6

LEMMA MaxIs ==
  ASSUME NEW S, S \subseteq Nat, NEW m \in S, \A y \in S : y <= m
  PROVE  Max(S) = m
  <1>1. Max(S) \in S /\ \A y \in S : y <= Max(S)
    BY MaxIsGreatest
  <1>2. Max(S) \in Nat /\ m \in Nat /\ m <= Max(S) /\ Max(S) <= m
    BY <1>1
  <1> QED BY <1>2

-----------------------------------------------------------------------------
(* Types.                                                                  *)

Offsets == Seqs \cup {Absent}

Trees == [events : SUBSET (Streams \X Seqs \X Txns), meta : [Streams -> 0..MaxSeq],
          offset : Offsets]

Appended == [op : {"append"}, stream : Streams, arg : Seqs \X Txns]

Changes == Appended \cup [op : {"offset", "trim"}, stream : {"jobs"}, arg : Seqs]

Overlays == [appends : Seq(Appended), asked : Nat, offset : Offsets, trim : Offsets,
             writes : BOOLEAN]

Readers == [at : {"idle", "observe", "loop", "wait", "read"}, cursor : 0..MaxSeq,
            handled : SUBSET (Seqs \X Txns), epoch : Nat,
            woken : BOOLEAN, elapsed : BOOLEAN, again : BOOLEAN]

Promises == [records : [Streams -> Seq(Txns)], trimmed : Nat, offset : Offsets]

One(op, arg) == IF arg = Absent THEN <<>> ELSE <<[op |-> op, stream |-> "jobs", arg |-> arg]>>

LEMMA OneIs ==
  ASSUME NEW op \in {"offset", "trim"}, NEW arg \in Offsets
  PROVE  /\ One(op, arg) \in Seq(Changes)
         /\ arg = Absent => One(op, arg) = <<>> /\ Len(One(op, arg)) = 0
         /\ arg # Absent => /\ Len(One(op, arg)) = 1
                            /\ One(op, arg)[1] = [op |-> op, stream |-> "jobs", arg |-> arg]
  <1>1. CASE arg = Absent
    BY <1>1 DEF One
  <1>2. CASE arg # Absent
    <2> DEFINE r == [op |-> op, stream |-> "jobs", arg |-> arg]
    <2>1. r \in Changes
      BY <1>2 DEF Changes, Offsets
    <2>2. One(op, arg) = <<r>>
      BY <1>2 DEF One
    <2> HIDE DEF r
    <2>3. <<r>> \in Seq(Changes) /\ Len(<<r>>) = 1 /\ <<r>>[1] = r
      BY <2>1
    <2>4. One(op, arg) \in Seq(Changes) /\ Len(One(op, arg)) = 1 /\ One(op, arg)[1] = r
      BY <2>2, <2>3
    <2> QED BY <1>2, <2>4 DEF r
  <1> QED BY <1>1, <1>2

LEMMA OpsAre ==
  ASSUME NEW o \in Overlays
  PROVE  Ops(o) = (o.appends \o One("offset", o.offset)) \o One("trim", o.trim)
  BY DEF Ops, One

LEMMA OpsType ==
  ASSUME NEW o \in Overlays
  PROVE  Ops(o) \in Seq(Changes)
  <1>1. o.appends \in Seq(Changes)
    <2>1. o.appends \in Seq(Appended)
      BY DEF Overlays
    <2> QED BY <2>1 DEF Changes
  <1>2. One("offset", o.offset) \in Seq(Changes) /\ One("trim", o.trim) \in Seq(Changes)
    BY OneIs DEF Overlays
  <1> DEFINE A == o.appends
             B == One("offset", o.offset)
             C == One("trim", o.trim)
  <1>3. Ops(o) = (A \o B) \o C
    BY OpsAre
  <1> HIDE DEF A, B, C
  <1>4. A \in Seq(Changes) /\ B \in Seq(Changes) /\ C \in Seq(Changes)
    BY <1>1, <1>2 DEF A, B, C
  <1>5. A \o B \in Seq(Changes)
    BY <1>4
  <1> QED BY <1>3, <1>4, <1>5

LEMMA NoOps ==
  Ops(EmptyOverlay) = <<>> /\ Len(Ops(EmptyOverlay)) = 0 /\ EmptyOverlay \in Overlays
  <1>1. EmptyOverlay \in Overlays
    BY DEF EmptyOverlay, Overlays, Offsets
  <1>2. EmptyOverlay.appends = <<>> /\ EmptyOverlay.offset = Absent /\ EmptyOverlay.trim = Absent
    BY DEF EmptyOverlay
  <1>3. One("offset", Absent) = <<>> /\ One("trim", Absent) = <<>>
    BY DEF One
  <1>4. Ops(EmptyOverlay) = (<<>> \o <<>>) \o <<>>
    BY <1>1, <1>2, <1>3, OpsAre
  <1>5. (<<>> \o <<>>) \o <<>> = <<>> /\ Len(<<>>) = 0
    OBVIOUS
  <1> QED BY <1>1, <1>4, <1>5

(* Redo of one record keeps the trees well formed.                         *)
LEMMA RedoType ==
  ASSUME NEW t \in Trees, NEW r \in Changes, IsFiniteSet(t.events)
  PROVE  Redo(t, r) \in Trees /\ IsFiniteSet(Redo(t, r).events)
  <1>1. CASE r.op = "append"
    <2> DEFINE s == r.stream
               q == r.arg[1]
               x == r.arg[2]
               E == IF \E e \in t.events : e[1] = s /\ e[2] = q THEN t.events
                    ELSE t.events \cup {<<s, q, x>>}
               M == [t.meta EXCEPT ![s] = IF q > @ THEN q ELSE @]
    <2>1. s \in Streams /\ q \in Seqs /\ x \in Txns
      BY <1>1 DEF Changes, Appended
    <2>2. Redo(t, r) = [t EXCEPT !.events = E, !.meta = M]
      BY <1>1 DEF Redo, appendWithSequence, Trees
    <2>3. E \in SUBSET (Streams \X Seqs \X Txns)
      BY <2>1 DEF Trees
    <2>4. M \in [Streams -> 0..MaxSeq]
      BY <2>1, StreamsAssumption DEF Trees, Seqs
    <2>5. IsFiniteSet(E)
      BY FS_AddElement
    <2> HIDE DEF E, M
    <2> QED BY <2>2, <2>3, <2>4, <2>5 DEF Trees
  <1>2. CASE r.op = "offset"
    <2>1. r.arg \in Seqs
      BY <1>2 DEF Changes, Appended
    <2>2. Redo(t, r) = [t EXCEPT !.offset = r.arg]
      BY <1>2 DEF Redo, setOffset
    <2> QED BY <2>1, <2>2 DEF Trees, Offsets
  <1>3. CASE r.op = "trim"
    <2> DEFINE E == {e \in t.events : e[1] # r.stream \/ e[2] > r.arg}
    <2>1. Redo(t, r) = [t EXCEPT !.events = E]
      BY <1>3 DEF Redo, trim
    <2>2. E \subseteq t.events
      OBVIOUS
    <2>3. IsFiniteSet(E)
      BY <2>2, FS_Subset
    <2> HIDE DEF E
    <2> QED BY <2>1, <2>2, <2>3 DEF Trees
  <1> QED BY <1>1, <1>2, <1>3 DEF Changes, Appended

LEMMA MaxOfTwo ==
  ASSUME NEW a \in Nat, NEW b \in Nat
  PROVE  Max({a, b}) = IF a >= b THEN a ELSE b
  <1> DEFINE m == IF a >= b THEN a ELSE b
  <1>1. m \in {a, b} /\ \A y \in {a, b} : y <= m
    OBVIOUS
  <1>2. {a, b} \subseteq Nat
    OBVIOUS
  <1> HIDE DEF m
  <1>3. Max({a, b}) = m
    BY <1>1, <1>2, MaxIs
  <1> QED BY <1>3 DEF m

(* What a transaction adds to a stream.                                    *)
Published(o, s) == IF s = "jobs" THEN o.asked ELSE IF o.writes THEN 1 ELSE 0

(* What Promise makes of the records, the trim and the offset.             *)
LEMMA PromiseIs ==
  ASSUME NEW p \in Promises, NEW o \in Overlays, txn \in Txns
  PROVE  /\ Promise(p, o) \in Promises
         /\ \A s \in Streams :
              /\ Len(Promise(p, o).records[s]) = Len(p.records[s]) + Published(o, s)
              /\ \A i \in 1..Len(p.records[s]) : Promise(p, o).records[s][i] = p.records[s][i]
              /\ \A i \in (Len(p.records[s]) + 1)..(Len(p.records[s]) + Published(o, s)) :
                   Promise(p, o).records[s][i] = txn
         /\ o.trim = Absent => Promise(p, o).trimmed = p.trimmed
         /\ LET end == Len(p.records["jobs"]) + o.asked
                cut == IF o.trim < end THEN o.trim ELSE end
            IN  o.trim # Absent =>
                  Promise(p, o).trimmed = IF p.trimmed >= cut THEN p.trimmed ELSE cut
         /\ Promise(p, o).offset = IF o.offset = Absent THEN p.offset ELSE o.offset
  <1> DEFINE New(s) == [i \in 1..Published(o, s) |-> txn]
             R == [s \in Streams |-> p.records[s] \o New(s)]
             end == Len(p.records["jobs"]) + o.asked
             cut == IF o.trim < end THEN o.trim ELSE end
             P == Promise(p, o)
  <1>1. \A s \in Streams : p.records[s] \in Seq(Txns) /\ Published(o, s) \in Nat
    BY DEF Promises, Overlays, Published
  <1>2. \A s \in Streams : New(s) \in Seq(Txns) /\ Len(New(s)) = Published(o, s)
    <2>1. TAKE s \in Streams
    <2>2. Published(o, s) \in Nat
      BY <1>1
    <2>3. New(s) \in [1..Published(o, s) -> Txns]
      OBVIOUS
    <2> QED BY <2>2, <2>3
  <1>3. ASSUME NEW s \in Streams
        PROVE  /\ R[s] \in Seq(Txns)
               /\ Len(R[s]) = Len(p.records[s]) + Published(o, s)
               /\ \A i \in 1..Len(p.records[s]) : R[s][i] = p.records[s][i]
               /\ \A i \in (Len(p.records[s]) + 1)..(Len(p.records[s]) + Published(o, s)) :
                    R[s][i] = txn
    <2> DEFINE A == p.records[s]
               B == New(s)
    <2>1. R[s] = A \o B
      OBVIOUS
    <2>2. A \in Seq(Txns) /\ B \in Seq(Txns) /\ Len(B) = Published(o, s)
      BY <1>1, <1>2
    <2>3. \A i \in 1..Published(o, s) : B[i] = txn
      OBVIOUS
    <2> HIDE DEF A, B, New, R
    <2>4. /\ A \o B \in Seq(Txns) /\ Len(A \o B) = Len(A) + Len(B)
          /\ \A i \in 1..Len(A) : (A \o B)[i] = A[i]
          /\ \A i \in (Len(A) + 1)..(Len(A) + Len(B)) : (A \o B)[i] = B[i - Len(A)]
      BY <2>2
    <2>5. \A i \in (Len(A) + 1)..(Len(A) + Len(B)) : i - Len(A) \in 1..Published(o, s)
      BY <2>2
    <2> QED BY <2>1, <2>2, <2>3, <2>4, <2>5 DEF A
  <1>4. "jobs" \in Streams /\ Published(o, "jobs") = o.asked
    BY DEF Streams, Published
  <1>5. Len(R["jobs"]) = end /\ end \in Nat
    BY <1>1, <1>3, <1>4
  <1>6. P = [records |-> R,
             trimmed |-> IF o.trim = Absent THEN p.trimmed ELSE Max({p.trimmed, cut}),
             offset |-> IF o.offset = Absent THEN p.offset ELSE o.offset]
    <2> DEFINE published == [s \in Streams |-> IF s = "jobs" THEN o.asked ELSE IF o.writes THEN 1 ELSE 0]
               records == [s \in Streams |-> p.records[s] \o [i \in 1..published[s] |-> txn]]
               last == Len(records["jobs"])
    <2>1. P = [records |-> records,
               trimmed |-> IF o.trim = Absent THEN p.trimmed
                           ELSE Max({p.trimmed, IF o.trim < last THEN o.trim ELSE last}),
               offset |-> IF o.offset = Absent THEN p.offset ELSE o.offset]
      BY DEF Promise
    <2>2. \A s \in Streams : published[s] = Published(o, s)
      BY DEF Published
    <2> HIDE DEF published
    <2>3. records = R
      BY <2>2
    <2> HIDE DEF records, R
    <2>4. last = end
      BY <2>3, <1>5
    <2> HIDE DEF last, end
    <2> QED BY <2>1, <2>3, <2>4
  <1>7. p.trimmed \in Nat /\ p.offset \in Offsets /\ o.offset \in Offsets /\ o.trim \in Offsets
    BY DEF Promises, Overlays
  <1>8. o.trim # Absent => cut \in Nat /\ Max({p.trimmed, cut}) = IF p.trimmed >= cut THEN p.trimmed ELSE cut
    <2>1. o.trim # Absent => cut \in Nat
      BY <1>5, <1>7 DEF Offsets, Seqs
    <2> HIDE DEF cut
    <2> QED BY <2>1, <1>7, MaxOfTwo
  <1>9. R \in [Streams -> Seq(Txns)]
    BY <1>3
  <1> HIDE DEF R, cut, end
  <1>10. P \in Promises
    BY <1>6, <1>7, <1>8, <1>9 DEF Promises
  <1>11. P.records = R /\ P.offset = (IF o.offset = Absent THEN p.offset ELSE o.offset)
         /\ P.trimmed = IF o.trim = Absent THEN p.trimmed ELSE Max({p.trimmed, cut})
    BY <1>6
  <1> QED BY <1>3, <1>8, <1>10, <1>11 DEF end, cut

(* The records that are read, and how far they take the cursor.            *)
LEMMA ReadType ==
  ASSUME NEW t \in Trees, NEW c \in 0..MaxSeq, NEW limit \in 1..2
  PROVE  /\ read(t, "jobs", c, limit) \subseteq t.events
         /\ LET batch == read(t, "jobs", c, limit)
                S == {c} \cup {e[2] : e \in batch}
            IN  /\ Max(S) \in S /\ \A y \in S : y <= Max(S)
                /\ Max(S) \in 0..MaxSeq
                /\ {<<e[2], e[3]>> : e \in batch} \subseteq Seqs \X Txns
  <1> DEFINE batch == read(t, "jobs", c, limit)
             S == {c} \cup {e[2] : e \in batch}
  <1>1. batch \subseteq t.events
    BY DEF read
  <1>2. \A e \in batch : e[2] \in Seqs /\ e[3] \in Txns
    BY <1>1 DEF Trees
  <1>3. S \subseteq 0..MaxSeq /\ S # {}
    BY <1>2, StreamsAssumption DEF Seqs
  <1>4. {<<e[2], e[3]>> : e \in batch} \subseteq Seqs \X Txns
    BY <1>2
  <1> HIDE DEF batch, S
  <1>5. S \subseteq Nat /\ \A x \in S : x <= MaxSeq
    BY <1>3
  <1>6. Max(S) \in S /\ \A y \in S : y <= Max(S)
    BY <1>3, <1>5, StreamsAssumption, MaxIsGreatest
  <1> QED BY <1>1, <1>3, <1>4, <1>6 DEF batch, S

(* If there is something to read, a read of any size finds it.             *)
LEMMA ReadFinds ==
  ASSUME NEW t \in Trees, IsFiniteSet(t.events), NEW c \in 0..MaxSeq, NEW limit \in 1..2
  PROVE  read(t, "jobs", c, 1) \subseteq read(t, "jobs", c, limit)
  <1> DEFINE Before(e) == {f \in t.events : f[1] = "jobs" /\ c < f[2] /\ f[2] < e[2]}
  <1>1. \A e : Cardinality(Before(e)) \in Nat
    <2>1. \A e : IsFiniteSet(Before(e))
      BY FS_Subset
    <2> QED BY <2>1, FS_CardinalityType
  <1>2. \A e : Cardinality(Before(e)) < 1 => Cardinality(Before(e)) < limit
    <2> HIDE DEF Before
    <2> QED BY <1>1
  <1> QED BY <1>2 DEF read

-----------------------------------------------------------------------------
(* TInv: the types, what rests while there is no transaction or no open    *)
(* handle, and the number of broadcasts, of which each transaction makes   *)
(* one at most.                                                            *)

StoreTypes ==
  /\ mem \in Trees /\ IsFiniteSet(mem.events)
  /\ disk \in Trees /\ IsFiniteSet(disk.events)
  /\ log \in Seq(Changes)

TxnTypes ==
  /\ status \in {"open", "recovering", "closed"}
  /\ txn \in {0} \cup Txns /\ next_txn \in 1..(MaxTxn + 1)
  /\ overlay \in Overlays
  /\ call \in {"none", "failed", "applying", "broadcast"}
  /\ promised \in Promises

ReaderTypes == reader \in Readers

Progress ==
  /\ status = "recovering" => applied \in 0..Len(log)
  /\ call = "applying" => applied \in 0..Len(Ops(overlay))
  /\ status # "recovering" /\ call # "applying" => applied = 0

Resting ==
  /\ status # "open" => txn = 0 /\ call = "none" /\ reader.at = "idle"
  /\ txn = 0 => overlay = EmptyOverlay
  /\ call \in {"applying", "failed"} => txn # 0
  /\ call = "broadcast" => txn = 0
  /\ reader.at \in {"idle", "observe"} => ~reader.again

Broadcasts ==
  /\ stream_epoch \in Nat
  /\ stream_epoch + (IF txn # 0 \/ call = "broadcast" THEN 1 ELSE 0) <= next_txn - 1

TInv == StoreTypes /\ TxnTypes /\ ReaderTypes /\ Progress /\ Resting /\ Broadcasts

LEMMA TInvInit == Init => TInv
  <1> SUFFICES ASSUME Init PROVE TInv
    OBVIOUS
  <1> USE DEF Init
  <1>1. EmptyTrees \in Trees /\ IsFiniteSet(EmptyTrees.events)
    BY FS_EmptySet, StreamsAssumption DEF EmptyTrees, Trees, Offsets
  <1>2. StoreTypes
    BY <1>1 DEF StoreTypes
  <1>3. TxnTypes
    BY NoOps, StreamsAssumption DEF TxnTypes, Promises, Offsets, Txns
  <1>4. ReaderTypes
    BY StreamsAssumption DEF ReaderTypes, Readers, IdleReader
  <1>5. Progress /\ Resting /\ Broadcasts
    BY DEF Progress, Resting, Broadcasts, IdleReader
  <1> QED BY <1>2, <1>3, <1>4, <1>5 DEF TInv

LEMMA TInvImpliesTypeOK == TInv => TypeOK
  <1> SUFFICES ASSUME TInv PROVE TypeOK
    OBVIOUS
  <1> USE DEF TInv
  <1>1. \A t \in {mem, disk} :
          /\ t.events \subseteq Streams \X Seqs \X Txns
          /\ t.meta \in [Streams -> 0..MaxSeq]
          /\ t.offset \in Seqs \cup {Absent}
    BY DEF StoreTypes, Trees, Offsets
  <1>2. applied \in 0..Len(IF status = "recovering" THEN log ELSE Ops(overlay))
    <2>1. Ops(overlay) \in Seq(Changes)
      BY OpsType DEF TxnTypes
    <2>2. Len(Ops(overlay)) \in Nat
      BY <2>1
    <2> QED BY <2>2 DEF Progress, Resting
  <1>3. stream_epoch \in 0..MaxTxn
    BY StreamsAssumption DEF Broadcasts, TxnTypes
  <1>4. /\ reader.at \in {"idle", "observe", "loop", "wait", "read"}
        /\ reader.cursor \in 0..MaxSeq
        /\ reader.handled \subseteq Seqs \X Txns
    BY DEF ReaderTypes, Readers
  <1> QED BY <1>1, <1>2, <1>3, <1>4 DEF TypeOK, TxnTypes

(* What a transaction stages is well formed.                               *)
LEMMA StagedType ==
  ASSUME NEW appends \in Seq(Appended), NEW s \in Streams, nextStreamSequence(appends, s) \in Seqs,
         txn \in Txns
  PROVE  /\ Staged(appends, s) \in Seq(Appended)
         /\ Len(Staged(appends, s)) = Len(appends) + 1
         /\ \A j \in 1..Len(appends) : Staged(appends, s)[j] = appends[j]
         /\ Staged(appends, s)[Len(appends) + 1] =
              [op |-> "append", stream |-> s, arg |-> <<nextStreamSequence(appends, s), txn>>]
  <1> DEFINE r == [op |-> "append", stream |-> s, arg |-> <<nextStreamSequence(appends, s), txn>>]
  <1>1. r \in Appended
    BY DEF Appended
  <1>2. Staged(appends, s) = Append(appends, r)
    BY DEF Staged
  <1> HIDE DEF r
  <1>3. /\ Append(appends, r) \in Seq(Appended)
        /\ Len(Append(appends, r)) = Len(appends) + 1
        /\ \A j \in 1..Len(appends) : Append(appends, r)[j] = appends[j]
        /\ Append(appends, r)[Len(appends) + 1] = r
    BY <1>1
  <1> QED BY <1>2, <1>3 DEF r

LEMMA TInvOverlay ==
  TInv /\ (beginTransaction \/ publishStream \/ setStreamOffset \/ writeGraph
           \/ (\E through \in Seqs : trimStream(through)) \/ logTxnOverlayForCommit
           \/ LogFails \/ abortTransaction) => TInv'
  <1> SUFFICES ASSUME TInv,
                      beginTransaction \/ publishStream \/ setStreamOffset \/ writeGraph
                      \/ (\E through \in Seqs : trimStream(through)) \/ logTxnOverlayForCommit
                      \/ LogFails \/ abortTransaction
               PROVE  TInv'
    OBVIOUS
  <1> USE DEF TInv
  <1>1. StoreTypes' /\ ReaderTypes' /\ reader' = reader /\ status = "open"
        /\ status' = "open" /\ promised' = promised /\ stream_epoch' = stream_epoch
    <2>1. UNCHANGED <<status, mem, disk, log, stream_epoch, reader, promised>>
      BY DEF beginTransaction, publishStream, setStreamOffset, writeGraph, trimStream,
             logTxnOverlayForCommit, LogFails, abortTransaction
    <2>2. status = "open"
      BY DEF beginTransaction, publishStream, setStreamOffset, writeGraph, trimStream, Publishing,
             logTxnOverlayForCommit, LogFails, abortTransaction, Resting
    <2> QED BY <2>1, <2>2 DEF StoreTypes, ReaderTypes
  <1>2. ASSUME NEW o \in Overlays, Publishing, overlay' = o, call' \in {"none", "applying"},
               applied' = 0, txn' = txn, next_txn' = next_txn
        PROVE  TInv'
    <2>1. TxnTypes'
      BY <1>1, <1>2 DEF TxnTypes
    <2>2. Ops(o) \in Seq(Changes) /\ Len(Ops(o)) \in Nat
      <3>1. Ops(o) \in Seq(Changes)
        BY OpsType
      <3> QED BY <3>1
    <2>3. Progress' /\ Resting' /\ Broadcasts'
      BY <1>1, <1>2, <2>2 DEF Progress, Resting, Broadcasts, Publishing
    <2> QED BY <1>1, <2>1, <2>3
  <1>3. Publishing => txn \in Txns /\ applied = 0 /\ overlay \in Overlays /\ overlay.appends \in Seq(Appended)
    BY DEF Publishing, TxnTypes, Progress, Overlays
  <1>4. CASE beginTransaction
    <2>1. TxnTypes'
      BY <1>1, <1>4, StreamsAssumption DEF TxnTypes, beginTransaction, Txns
    <2>2. Progress' /\ Resting' /\ Broadcasts'
      BY <1>1, <1>4 DEF Progress, Resting, Broadcasts, beginTransaction, TxnTypes, Txns
    <2> QED BY <1>1, <2>1, <2>2
  <1>5. CASE publishStream
    <2> DEFINE o == [overlay EXCEPT !.appends = Staged(overlay.appends, "jobs"), !.asked = overlay.asked + 1]
    <2>1. Staged(overlay.appends, "jobs") \in Seq(Appended)
      BY <1>3, <1>5, StagedType DEF publishStream, Streams
    <2>2. o \in Overlays
      <3>1. overlay \in Overlays /\ overlay.asked + 1 \in Nat
        BY <1>3, <1>5 DEF Overlays, publishStream
      <3> DEFINE A == Staged(overlay.appends, "jobs")
                 n == overlay.asked + 1
      <3> HIDE DEF A, n
      <3>2. A \in Seq(Appended) /\ n \in Nat
        BY <2>1, <3>1 DEF A, n
      <3>3. [overlay EXCEPT !.appends = A, !.asked = n] \in Overlays
        BY <3>1, <3>2 DEF Overlays
      <3> QED BY <3>3 DEF A, n
    <2>3. overlay' = o
      BY <1>5 DEF publishStream
    <2> HIDE DEF o
    <2> QED BY <1>2, <1>3, <1>5, <2>2, <2>3 DEF publishStream, Publishing
  <1>6. CASE setStreamOffset
    <2>1. [overlay EXCEPT !.offset = reader.cursor] \in Overlays
      BY <1>3, <1>6 DEF Overlays, setStreamOffset, ReaderTypes, Readers, Offsets, Seqs
    <2> QED BY <1>2, <1>3, <1>6, <2>1 DEF setStreamOffset, Publishing
  <1>7. CASE writeGraph
    <2>1. [overlay EXCEPT !.writes = TRUE] \in Overlays
      BY <1>3, <1>7 DEF Overlays, writeGraph
    <2> QED BY <1>2, <1>3, <1>7, <2>1 DEF writeGraph, Publishing
  <1>8. ASSUME NEW through \in Seqs, trimStream(through) PROVE TInv'
    <2>1. [overlay EXCEPT !.trim = through] \in Overlays
      BY <1>3, <1>8 DEF Overlays, trimStream, Offsets
    <2> QED BY <1>2, <1>3, <1>8, <2>1 DEF trimStream, Publishing
  <1>9. CASE logTxnOverlayForCommit
    <2>1. WithFeed(overlay) \in Overlays
      <3>1. CASE overlay.writes
        <4>1. Staged(overlay.appends, "changes") \in Seq(Appended)
          BY <1>3, <1>9, <3>1, StagedType DEF logTxnOverlayForCommit, Streams
        <4>2. WithFeed(overlay) = [overlay EXCEPT !.appends = Staged(overlay.appends, "changes")]
          BY <3>1 DEF WithFeed
        <4> QED BY <1>3, <1>9, <4>1, <4>2 DEF Overlays, logTxnOverlayForCommit
      <3>2. CASE ~overlay.writes
        BY <1>3, <1>9, <3>2 DEF WithFeed, logTxnOverlayForCommit
      <3> QED BY <3>1, <3>2
    <2> QED BY <1>2, <1>9, <2>1 DEF logTxnOverlayForCommit
  <1>10. CASE LogFails
    <2>1. TxnTypes'
      BY <1>1, <1>10 DEF TxnTypes, LogFails
    <2>2. Progress' /\ Resting' /\ Broadcasts'
      BY <1>1, <1>10 DEF Progress, Resting, Broadcasts, LogFails
    <2> QED BY <1>1, <2>1, <2>2
  <1>11. CASE abortTransaction
    <2>1. TxnTypes'
      BY <1>1, <1>11, NoOps DEF TxnTypes, abortTransaction
    <2>2. Progress' /\ Resting' /\ Broadcasts'
      BY <1>1, <1>11 DEF Progress, Resting, Broadcasts, abortTransaction, TxnTypes
    <2> QED BY <1>1, <2>1, <2>2
  <1> QED BY <1>4, <1>5, <1>6, <1>7, <1>8, <1>9, <1>10, <1>11

LEMMA TInvCommit == TInv /\ Commit => TInv'
  <1> SUFFICES ASSUME TInv, Commit PROVE TInv'
    OBVIOUS
  <1> USE DEF TInv
  <1>1. Ops(overlay) \in Seq(Changes)
    BY OpsType DEF TxnTypes
  <1>2. CASE applyTxnOverlay
    <2>1. applied + 1 \in 1..Len(Ops(overlay))
      BY <1>1, <1>2 DEF applyTxnOverlay, Progress
    <2>2. Ops(overlay)[applied + 1] \in Changes
      BY <1>1, <2>1
    <2>3. StoreTypes'
      BY <1>2, <2>2, RedoType DEF StoreTypes, applyTxnOverlay
    <2>4. TxnTypes' /\ ReaderTypes' /\ Resting' /\ Broadcasts'
      BY <1>2 DEF TxnTypes, ReaderTypes, Resting, Broadcasts, applyTxnOverlay
    <2>5. Progress'
      BY <1>2, <2>1 DEF Progress, Resting, applyTxnOverlay
    <2> QED BY <2>3, <2>4, <2>5
  <1>3. CASE commit
    <2>1. txn \in Txns
      BY <1>3 DEF commit, TxnTypes, Resting
    <2>2. log \o Ops(overlay) \in Seq(Changes)
      BY <1>1 DEF StoreTypes
    <2>3. StoreTypes'
      BY <1>3, <2>2 DEF StoreTypes, commit
    <2>4. Promise(promised, overlay) \in Promises
      BY <2>1, PromiseIs DEF TxnTypes
    <2>5. TxnTypes'
      BY <1>3, <2>4, NoOps DEF TxnTypes, commit
    <2>6. status = "open" /\ txn # 0
      BY <1>3, <2>1 DEF commit, Resting, Txns
    <2>7. ReaderTypes' /\ Resting' /\ Broadcasts' /\ Progress'
      BY <1>3, <2>1, <2>6 DEF commit, Resting, Progress, Broadcasts, ReaderTypes, Txns, TxnTypes
    <2> QED BY <2>3, <2>5, <2>7
  <1>4. CASE broadcast
    <2>1. StoreTypes' /\ TxnTypes'
      BY <1>4 DEF broadcast, StoreTypes, TxnTypes
    <2>2. ReaderTypes'
      BY <1>4 DEF broadcast, ReaderTypes, Readers
    <2>3. status = "open"
      BY <1>4 DEF broadcast, Resting
    <2>4. Progress' /\ Resting' /\ Broadcasts'
      BY <1>4, <2>3 DEF broadcast, Progress, Resting, Broadcasts, TxnTypes, ReaderTypes, Readers
    <2> QED BY <2>1, <2>2, <2>4
  <1> QED BY <1>2, <1>3, <1>4 DEF Commit

LEMMA TInvReader ==
  TInv /\ ((\E limit \in 1..2 : readStream(limit)) \/ Read \/ timeout) => TInv'
  <1> SUFFICES ASSUME TInv, (\E limit \in 1..2 : readStream(limit)) \/ Read \/ timeout
               PROVE  TInv'
    OBVIOUS
  <1> USE DEF TInv
  <1>1. /\ UNCHANGED <<status, mem, disk, log, txn, next_txn, overlay, call, applied, stream_epoch, promised>>
        /\ status = "open"
    BY DEF readStream, Read, observe, wake, loop, readAgain, timeout, ReaderStep
  <1>2. StoreTypes' /\ TxnTypes' /\ Progress' /\ Broadcasts'
    BY <1>1 DEF StoreTypes, TxnTypes, Progress, Broadcasts
  <1>3. ASSUME NEW limit \in 1..2, Return(Batch(limit))
        PROVE  ReaderTypes' /\ reader'.at = "idle" /\ ~reader'.again
    <2> DEFINE batch == Batch(limit)
               c == Max({reader.cursor} \cup {e[2] : e \in batch})
               H == {<<e[2], e[3]>> : e \in batch}
    <2>1. c \in 0..MaxSeq /\ H \subseteq Seqs \X Txns
      BY ReadType DEF Batch, StoreTypes, ReaderTypes, Readers
    <2>2. reader' = IdleReader(c, reader.handled \cup H)
      BY <1>3 DEF Return
    <2> HIDE DEF c, H
    <2>3. reader.handled \cup H \subseteq Seqs \X Txns
      BY <2>1 DEF ReaderTypes, Readers
    <2> QED BY <2>1, <2>2, <2>3 DEF IdleReader, ReaderTypes, Readers
  <1>4. ASSUME NEW limit \in 1..2, readStream(limit) \/ loop(limit) \/ readAgain(limit)
        PROVE  ReaderTypes' /\ (reader'.at \in {"idle", "observe"} => ~reader'.again)
    <2>1. CASE Return(Batch(limit))
      BY <1>3, <2>1
    <2>2. CASE ~Return(Batch(limit))
      <3>1. CASE readStream(limit)
        BY <1>4, <2>2, <3>1 DEF readStream, ReaderTypes, Readers, Resting
      <3>2. CASE loop(limit)
        <4>1. CASE reader' = [reader EXCEPT !.at = "wait", !.woken = FALSE]
          BY <4>1 DEF ReaderTypes, Readers
        <4>2. CASE reader' = [reader EXCEPT !.at = "read", !.epoch = stream_epoch]
          BY <4>2 DEF ReaderTypes, Readers, Broadcasts
        <4> QED BY <2>2, <3>2, <4>1, <4>2 DEF loop
      <3>3. CASE readAgain(limit)
        <4>1. reader' = [reader EXCEPT !.at = "loop", !.again = TRUE] /\ reader \in Readers
          BY <2>2, <3>3 DEF readAgain, ReaderTypes
        <4> QED BY <4>1 DEF ReaderTypes, Readers
      <3> QED BY <1>4, <3>1, <3>2, <3>3
    <2> QED BY <2>1, <2>2
  <1>5. ASSUME observe \/ wake \/ timeout
        PROVE  ReaderTypes' /\ (reader'.at \in {"idle", "observe"} => ~reader'.again)
    BY <1>5 DEF observe, wake, timeout, ReaderTypes, Readers, Broadcasts
  <1>6. ReaderTypes' /\ (reader'.at \in {"idle", "observe"} => ~reader'.again)
    BY <1>4, <1>5 DEF Read
  <1>7. Resting'
    BY <1>1, <1>6 DEF Resting
  <1> QED BY <1>2, <1>6, <1>7

LEMMA TInvFiles ==
  TInv /\ ((\E tree \in {"events", "meta", "offset"} : evict(tree))
           \/ checkpoint \/ kill \/ open \/ redoPass \/ resume) => TInv'
  <1> SUFFICES ASSUME TInv,
                      (\E tree \in {"events", "meta", "offset"} : evict(tree))
                      \/ checkpoint \/ kill \/ open \/ redoPass \/ resume
               PROVE  TInv'
    OBVIOUS
  <1> USE DEF TInv
  <1>1. ASSUME NEW tree \in {"events", "meta", "offset"}, evict(tree) PROVE TInv'
    <2>1. /\ UNCHANGED <<status, mem, log, txn, next_txn, overlay, call, applied, stream_epoch, reader, promised>>
          /\ disk' = [disk EXCEPT ![tree] = mem[tree]]
      BY <1>1 DEF evict
    <2>2. disk' \in Trees /\ IsFiniteSet(disk'.events)
      <3>1. CASE tree = "events"
        BY <2>1, <3>1 DEF StoreTypes, Trees
      <3>2. CASE tree = "meta"
        BY <2>1, <3>2 DEF StoreTypes, Trees
      <3>3. CASE tree = "offset"
        BY <2>1, <3>3 DEF StoreTypes, Trees
      <3> QED BY <3>1, <3>2, <3>3
    <2> QED BY <2>1, <2>2 DEF StoreTypes, TxnTypes, ReaderTypes, Progress, Resting, Broadcasts
  <1>2. CASE checkpoint
    <2>1. StoreTypes'
      BY <1>2 DEF checkpoint, StoreTypes
    <2> QED BY <1>2, <2>1 DEF checkpoint, TxnTypes, ReaderTypes, Progress, Resting, Broadcasts
  <1>3. CASE kill
    <2>1. StoreTypes'
      <3>1. EmptyTrees \in Trees /\ IsFiniteSet(EmptyTrees.events)
        BY FS_EmptySet, StreamsAssumption DEF EmptyTrees, Trees, Offsets
      <3> QED BY <1>3, <3>1 DEF kill, StoreTypes
    <2>2. TxnTypes'
      BY <1>3, NoOps DEF kill, TxnTypes
    <2>3. ReaderTypes' /\ reader'.at = "idle" /\ ~reader'.again
      BY <1>3, StreamsAssumption DEF kill, ReaderTypes, Readers, IdleReader
    <2>4. Progress' /\ Resting' /\ Broadcasts'
      BY <1>3, <2>3 DEF kill, Progress, Resting, Broadcasts, TxnTypes
    <2> QED BY <2>1, <2>2, <2>3, <2>4
  <1>4. CASE open
    <2>1. Len(log) \in Nat
      BY DEF StoreTypes
    <2> QED BY <1>4, <2>1 DEF open, StoreTypes, TxnTypes, ReaderTypes, Progress, Resting, Broadcasts
  <1>5. CASE redoPass
    <2>1. applied + 1 \in 1..Len(log)
      BY <1>5 DEF redoPass, Progress, StoreTypes
    <2>2. log[applied + 1] \in Changes
      BY <2>1 DEF StoreTypes
    <2>3. StoreTypes'
      BY <1>5, <2>2, RedoType DEF StoreTypes, redoPass
    <2> QED BY <1>5, <2>1, <2>3 DEF redoPass, TxnTypes, ReaderTypes, Progress, Resting, Broadcasts
  <1>6. CASE resume
    <2>1. (IF mem.offset = Absent THEN 0 ELSE mem.offset) \in 0..MaxSeq
      BY StreamsAssumption DEF StoreTypes, Trees, Offsets, Seqs
    <2>2. ReaderTypes' /\ reader'.at = "idle" /\ ~reader'.again
      BY <1>6, <2>1 DEF resume, ReaderTypes, Readers, IdleReader
    <2>3. StoreTypes' /\ TxnTypes'
      BY <1>6 DEF resume, StoreTypes, TxnTypes
    <2> QED BY <1>6, <2>2, <2>3 DEF resume, Progress, Resting, Broadcasts
  <1> QED BY <1>1, <1>2, <1>3, <1>4, <1>5, <1>6

LEMMA TInvStep == TInv /\ [Next]_vars => TInv'
  <1> SUFFICES ASSUME TInv, [Next]_vars PROVE TInv'
    OBVIOUS
  <1>1. CASE UNCHANGED vars
    BY <1>1 DEF TInv, vars, StoreTypes, TxnTypes, ReaderTypes, Progress, Resting, Broadcasts
  <1>2. CASE Next
    BY <1>2, TInvOverlay, TInvCommit, TInvReader, TInvFiles DEF Next
  <1> QED BY <1>1, <1>2

(* The trees, the transaction, its commit and the reader have the values   *)
(* that the functions of stream/store.zig and database.zig can give them,  *)
(* whatever of Faults happens: numbers stay within bounds, recovery stays  *)
(* within the log, and there are no more broadcasts than transactions.     *)
THEOREM TypeCorrect == Spec => []TypeOK
  <1>1. Init => TInv
    BY TInvInit
  <1>2. TInv /\ [Next]_vars => TInv'
    BY TInvStep
  <1>3. TInv => TypeOK
    BY TInvImpliesTypeOK
  <1> QED BY <1>1, <1>2, <1>3, PTL DEF Spec

-----------------------------------------------------------------------------
(* Wakeups.  A reader that has read again has noted the epoch before, so   *)
(* that it goes to sleep beside a message only while the commit that       *)
(* brought it is still to signal.                                          *)

Signalled == Applying \/ call = "broadcast"

EpochSeen == reader.at \in {"loop", "wait", "read"} => reader.epoch \in Nat /\ reader.epoch <= stream_epoch

LoopInv ==
  reader.at = "loop" /\ reader.again /\ reader.epoch = stream_epoch /\ Available => Signalled

WInv == EpochSeen /\ LoopInv /\ LoopingReaderIsWoken

(* Nothing that a step without the reader does takes the reader by         *)
(* surprise, as long as it does not change the trees.                      *)
LEMMA WakeupsKept ==
  ASSUME WInv, mem' = mem, reader' = reader, stream_epoch' = stream_epoch,
         Signalled => Signalled'
  PROVE  WInv'
  BY DEF WInv, EpochSeen, LoopInv, LoopingReaderIsWoken, Signalled, Available, Batch

LEMMA WInvStep == TInv /\ WInv /\ [Next]_vars => WInv'
  <1> SUFFICES ASSUME TInv, WInv, [Next]_vars PROVE WInv'
    OBVIOUS
  <1>1. CASE UNCHANGED vars \/ beginTransaction \/ publishStream \/ setStreamOffset \/ writeGraph
             \/ (\E through \in Seqs : trimStream(through)) \/ logTxnOverlayForCommit
             \/ LogFails \/ abortTransaction \/ checkpoint
             \/ \E tree \in {"events", "meta", "offset"} : evict(tree)
    <2>1. /\ mem' = mem /\ reader' = reader /\ stream_epoch' = stream_epoch
          /\ (call' = call /\ applied' = applied) \/ ~Signalled
      BY <1>1 DEF vars, beginTransaction, publishStream, setStreamOffset, writeGraph, trimStream, Publishing,
             logTxnOverlayForCommit, LogFails, abortTransaction, checkpoint, evict, Signalled, Applying
    <2> QED BY <2>1, WakeupsKept DEF Signalled, Applying
  <1>2. CASE applyTxnOverlay
    <2>1. Signalled' /\ reader' = reader /\ stream_epoch' = stream_epoch
      BY <1>2 DEF applyTxnOverlay, Signalled, Applying, TInv, Progress
    <2> QED BY <2>1 DEF WInv, EpochSeen, LoopInv, LoopingReaderIsWoken, Signalled, Applying
  <1>3. CASE commit
    <2>1. call' = "broadcast" \/ ~Signalled
      <3>1. Len(<<>>) = 0
        OBVIOUS
      <3> QED BY <1>3, <3>1 DEF commit, Signalled, Applying
    <2> QED BY <1>3, <2>1, WakeupsKept DEF commit, Signalled
  <1>4. CASE broadcast
    <2>1. /\ mem' = mem /\ stream_epoch' = stream_epoch + 1 /\ stream_epoch \in Nat
          /\ reader' = [reader EXCEPT !.woken = reader.woken \/ reader.at = "wait"]
          /\ reader \in Readers
      BY <1>4 DEF broadcast, TInv, ReaderTypes, Broadcasts
    <2>2. /\ reader'.at = reader.at /\ reader'.epoch = reader.epoch
          /\ reader.at = "wait" => reader'.woken
      BY <2>1 DEF Readers
    <2> QED BY <2>1, <2>2 DEF WInv, EpochSeen, LoopInv, LoopingReaderIsWoken
  <1>5. CASE kill \/ open \/ redoPass \/ resume
    <2>1. reader'.at = "idle"
      BY <1>5 DEF kill, open, redoPass, resume, IdleReader, TInv, Resting
    <2> QED BY <2>1 DEF WInv, EpochSeen, LoopInv, LoopingReaderIsWoken
  <1>6. CASE (\E limit \in 1..2 : readStream(limit)) \/ Read \/ timeout
    <2>1. /\ UNCHANGED <<status, mem, call, applied, stream_epoch>>
          /\ reader \in Readers /\ stream_epoch \in Nat
      BY <1>6 DEF readStream, Read, observe, wake, loop, readAgain, timeout, ReaderStep, TInv,
                  ReaderTypes, Broadcasts
    <2>2. ASSUME NEW limit \in 1..2, Return(Batch(limit)) PROVE WInv'
      <3>1. reader'.at = "idle"
        BY <2>2 DEF Return, IdleReader
      <3> QED BY <3>1 DEF WInv, EpochSeen, LoopInv, LoopingReaderIsWoken
    <2>3. ASSUME NEW limit \in 1..2, readStream(limit) PROVE WInv'
      <3>1. CASE Return(Batch(limit))
        BY <2>2, <3>1
      <3>2. CASE ~Return(Batch(limit))
        <4>1. reader'.at = "observe"
          BY <2>1, <2>3, <3>2 DEF readStream, Readers
        <4> QED BY <4>1 DEF WInv, EpochSeen, LoopInv, LoopingReaderIsWoken
      <3> QED BY <3>1, <3>2
    <2>4. CASE observe
      <3>1. reader'.epoch = stream_epoch /\ reader'.at = "loop" /\ ~reader'.again
        BY <2>1, <2>4 DEF observe, Readers, TInv, Resting
      <3> QED BY <2>1, <3>1 DEF WInv, EpochSeen, LoopInv, LoopingReaderIsWoken
    <2>5. CASE wake
      <3>1. reader'.epoch = stream_epoch /\ reader'.at = "read"
        BY <2>1, <2>5 DEF wake, Readers
      <3> QED BY <2>1, <3>1 DEF WInv, EpochSeen, LoopInv, LoopingReaderIsWoken
    <2>6. CASE timeout
      <3>1. /\ reader'.at = reader.at /\ reader'.epoch = reader.epoch /\ reader'.again = reader.again
            /\ reader'.woken = reader.woken /\ reader'.cursor = reader.cursor
        BY <2>1, <2>6 DEF timeout, Readers
      <3>2. Available' = Available /\ Signalled' = Signalled
        BY <2>1, <3>1 DEF Available, Batch, Signalled, Applying
      <3> QED BY <2>1, <3>1, <3>2 DEF WInv, EpochSeen, LoopInv, LoopingReaderIsWoken, Signalled
    <2>7. ASSUME NEW limit \in 1..2, loop(limit) PROVE WInv'
      <3>1. CASE Return(Batch(limit))
        BY <2>2, <3>1
      <3>2. CASE ~Return(Batch(limit)) /\ reader.epoch = stream_epoch
        <4>1. /\ reader'.at = "wait" /\ reader'.epoch = reader.epoch /\ reader'.again = reader.again
              /\ reader'.cursor = reader.cursor /\ reader.at = "loop"
          BY <2>1, <2>7, <3>2 DEF loop, Readers
        <4>2. Available' = Available /\ Signalled' = Signalled
          BY <2>1, <4>1 DEF Available, Batch, Signalled, Applying
        <4> QED BY <2>1, <3>2, <4>1, <4>2 DEF WInv, EpochSeen, LoopInv, LoopingReaderIsWoken, Signalled
      <3>3. CASE ~Return(Batch(limit)) /\ reader.epoch # stream_epoch
        <4>1. reader'.at = "read" /\ reader'.epoch = stream_epoch
          BY <2>1, <2>7, <3>3 DEF loop, Readers
        <4> QED BY <2>1, <4>1 DEF WInv, EpochSeen, LoopInv, LoopingReaderIsWoken
      <3> QED BY <3>1, <3>2, <3>3
    <2>8. ASSUME NEW limit \in 1..2, readAgain(limit) PROVE WInv'
      <3>1. CASE Return(Batch(limit))
        BY <2>2, <3>1
      <3>2. CASE ~Return(Batch(limit))
        <4>1. /\ Batch(limit) = {} /\ reader.at = "read"
              /\ reader'.at = "loop" /\ reader'.epoch = reader.epoch /\ reader'.cursor = reader.cursor
          BY <2>1, <2>8, <3>2 DEF readAgain, Readers
        <4>2. Batch(1) \subseteq Batch(limit)
          BY <2>1, ReadFinds DEF Batch, Readers, TInv, StoreTypes
        <4>3. ~Available'
          BY <2>1, <4>1, <4>2 DEF Available, Batch
        <4> QED BY <2>1, <4>1, <4>3 DEF WInv, EpochSeen, LoopInv, LoopingReaderIsWoken
      <3> QED BY <3>1, <3>2
    <2> QED BY <1>6, <2>3, <2>4, <2>5, <2>6, <2>7, <2>8 DEF Read
  <1> QED BY <1>1, <1>2, <1>3, <1>4, <1>5, <1>6 DEF Next, Commit

(* Whatever of Faults happens, a reader that has gone round its loop is    *)
(* not asleep beside a message unless it has been signalled, or a commit   *)
(* that is applying its changes is about to (database.zig, readStream and  *)
(* commitTransaction).                                                     *)
THEOREM LoopingReadersAreWoken == Spec => []LoopingReaderIsWoken
  <1>1. Init => TInv /\ WInv
    BY TInvInit DEF Init, IdleReader, WInv, EpochSeen, LoopInv, LoopingReaderIsWoken
  <1>2. TInv /\ WInv /\ [Next]_vars => (TInv /\ WInv)'
    BY TInvStep, WInvStep
  <1>3. TInv /\ WInv => LoopingReaderIsWoken
    BY DEF WInv
  <1> QED BY <1>1, <1>2, <1>3, PTL DEF Spec

-----------------------------------------------------------------------------
(* What redoing a log gives.  A record of a stream is settled by the last  *)
(* change after the first k that appends it or trims it, or, if there is   *)
(* none, by the trees.  RedoGives says that redoing what comes after the   *)
(* first k changes of L upon T gives what P promises.                      *)

After(L, k) == (k + 1)..Len(L)

AppendAt(L, j, s, i) == L[j].op = "append" /\ L[j].stream = s /\ L[j].arg[1] = i

TrimAt(L, j, s, i) == L[j].op = "trim" /\ L[j].stream = s /\ i <= L[j].arg

Has(E, s, i) == \E e \in E : e[1] = s /\ e[2] = i

Stays(L, k, E, s, i) ==
  \/ \E j \in After(L, k) : AppendAt(L, j, s, i) /\ \A m \in After(L, j) : ~TrimAt(L, m, s, i)
  \/ Has(E, s, i) /\ \A m \in After(L, k) : ~TrimAt(L, m, s, i)

Goes(L, k, E, s, i) ==
  \/ \E j \in After(L, k) : TrimAt(L, j, s, i) /\ \A m \in After(L, j) : ~AppendAt(L, m, s, i)
  \/ ~Has(E, s, i) /\ \A m \in After(L, k) : ~AppendAt(L, m, s, i)

Kept(P, s, i) == s = "jobs" => i > P.trimmed

Named(P, s, i, x) == i \in DOMAIN P.records[s] /\ x = P.records[s][i]

AppendsNamed(L, k, P) ==
  \A j \in After(L, k) : L[j].op = "append" => Named(P, L[j].stream, L[j].arg[1], L[j].arg[2])

EventsNamed(E, P) == \A e \in E : Named(P, e[1], e[2], e[3])

EventsGive(L, k, E, P) ==
  /\ \A s \in Streams : \A i \in DOMAIN P.records[s] :
       /\ Kept(P, s, i) => Stays(L, k, E, s, i)
       /\ ~Kept(P, s, i) => Goes(L, k, E, s, i)
  /\ EventsNamed(E, P)
  /\ AppendsNamed(L, k, P)

MetaGives(L, k, M, P) ==
  \A s \in Streams :
    /\ M[s] <= Len(P.records[s])
    /\ M[s] = Len(P.records[s]) \/ \E j \in After(L, k) : AppendAt(L, j, s, Len(P.records[s]))

OffsetGives(L, k, o, P) ==
  \/ \E j \in After(L, k) : /\ L[j].op = "offset" /\ L[j].arg = P.offset
                            /\ \A m \in After(L, j) : L[m].op # "offset"
  \/ o = P.offset /\ \A m \in After(L, k) : L[m].op # "offset"

RedoGives(L, k, T, P) ==
  EventsGive(L, k, T.events, P) /\ MetaGives(L, k, T.meta, P) /\ OffsetGives(L, k, T.offset, P)

Logs == Seq(Changes)

LEMMA ChangeIs ==
  ASSUME NEW r \in Changes
  PROVE  /\ r.op \in {"append", "offset", "trim"}
         /\ r.op = "append" => r.stream \in Streams /\ r.arg[1] \in Seqs /\ r.arg[2] \in Txns
         /\ r.op # "append" => r.stream = "jobs" /\ r.arg \in Seqs
  BY DEF Changes, Appended

LEMMA AfterNext ==
  ASSUME NEW L \in Logs, NEW k \in Nat, k < Len(L)
  PROVE  After(L, k) = {k + 1} \cup After(L, k + 1)
  BY DEF After, Logs

(* What redoing one record does to the events.                             *)
LEMMA RedoEvents ==
  ASSUME NEW t \in Trees, NEW r \in Changes
  PROVE  LET E == Redo(t, r).events IN
         /\ r.op = "append" =>
              /\ \A s, i : Has(E, s, i) <=> Has(t.events, s, i) \/ (s = r.stream /\ i = r.arg[1])
              /\ \A e \in E : e \in t.events \/ e = <<r.stream, r.arg[1], r.arg[2]>>
         /\ r.op = "offset" => E = t.events
         /\ r.op = "trim" =>
              /\ \A s, i : Has(E, s, i) <=> Has(t.events, s, i) /\ (s # r.stream \/ i > r.arg)
              /\ E \subseteq t.events
  <1> DEFINE s0 == r.stream
             q == r.arg[1]
             x == r.arg[2]
  <1>1. CASE r.op = "append"
    <2> DEFINE E == IF \E e \in t.events : e[1] = s0 /\ e[2] = q THEN t.events
                    ELSE t.events \cup {<<s0, q, x>>}
    <2>1. Redo(t, r).events = E
      BY <1>1 DEF Redo, appendWithSequence, Trees
    <2>2. \A s, i : Has(E, s, i) <=> Has(t.events, s, i) \/ (s = s0 /\ i = q)
      <3>1. <<s0, q, x>>[1] = s0 /\ <<s0, q, x>>[2] = q
        OBVIOUS
      <3>2. CASE \E e \in t.events : e[1] = s0 /\ e[2] = q
        <4>1. E = t.events
          BY <3>2
        <4> HIDE DEF E
        <4> QED BY <3>2, <4>1 DEF Has
      <3>3. CASE ~\E e \in t.events : e[1] = s0 /\ e[2] = q
        <4>1. E = t.events \cup {<<s0, q, x>>}
          BY <3>3
        <4> HIDE DEF E
        <4> QED BY <3>1, <4>1 DEF Has
      <3> QED BY <3>2, <3>3
    <2>3. \A e \in E : e \in t.events \/ e = <<s0, q, x>>
      OBVIOUS
    <2> HIDE DEF E
    <2> QED BY <1>1, <2>1, <2>2, <2>3
  <1>2. CASE r.op = "offset"
    BY <1>2 DEF Redo, setOffset, Trees
  <1>3. CASE r.op = "trim"
    <2> DEFINE E == {e \in t.events : e[1] # s0 \/ e[2] > r.arg}
    <2>1. Redo(t, r).events = E
      BY <1>3 DEF Redo, trim, Trees
    <2>2. \A e : e \in E <=> e \in t.events /\ (e[1] # s0 \/ e[2] > r.arg)
      OBVIOUS
    <2> HIDE DEF E
    <2>3. \A s, i : Has(E, s, i) <=> Has(t.events, s, i) /\ (s # s0 \/ i > r.arg)
      BY <2>2 DEF Has
    <2> QED BY <1>3, <2>1, <2>2, <2>3
  <1> QED BY <1>1, <1>2, <1>3, ChangeIs

LEMMA RedoMetaOffset ==
  ASSUME NEW t \in Trees, NEW r \in Changes
  PROVE  LET M == Redo(t, r).meta
             o == Redo(t, r).offset
         IN
         /\ r.op = "append" =>
              /\ \A s \in Streams : M[s] = IF s = r.stream /\ r.arg[1] > t.meta[s] THEN r.arg[1] ELSE t.meta[s]
              /\ o = t.offset
         /\ r.op = "offset" => M = t.meta /\ o = r.arg
         /\ r.op = "trim" => M = t.meta /\ o = t.offset
  BY ChangeIs DEF Redo, appendWithSequence, setOffset, trim, Trees

(* Redoing one record more.                                                *)
LEMMA RedoStep ==
  ASSUME NEW L \in Logs, NEW k \in Nat, k < Len(L), NEW T \in Trees, NEW P \in Promises,
         RedoGives(L, k, T, P)
  PROVE  RedoGives(L, k + 1, Redo(T, L[k + 1]), P)
  <1> DEFINE r == L[k + 1]
             E == T.events
             F == Redo(T, r).events
             M == Redo(T, r).meta
             o == Redo(T, r).offset
  <1>1. r \in Changes
    BY DEF Logs
  <1>2. After(L, k) = {k + 1} \cup After(L, k + 1)
    BY AfterNext
  <1>3. /\ r.op \in {"append", "offset", "trim"}
        /\ r.op = "append" => r.stream \in Streams /\ r.arg[1] \in Seqs /\ r.arg[2] \in Txns
    BY <1>1, ChangeIs
  <1>4. /\ r.op = "append" =>
             /\ \A s, i : Has(F, s, i) <=> Has(E, s, i) \/ (s = r.stream /\ i = r.arg[1])
             /\ \A e \in F : e \in E \/ e = <<r.stream, r.arg[1], r.arg[2]>>
        /\ r.op = "offset" => F = E
        /\ r.op = "trim" =>
             /\ \A s, i : Has(F, s, i) <=> Has(E, s, i) /\ (s # r.stream \/ i > r.arg)
             /\ F \subseteq E
    BY <1>1, RedoEvents
  <1>5. /\ r.op = "append" =>
             /\ \A s \in Streams : M[s] = IF s = r.stream /\ r.arg[1] > T.meta[s] THEN r.arg[1] ELSE T.meta[s]
             /\ o = T.offset
        /\ r.op = "offset" => M = T.meta /\ o = r.arg
        /\ r.op = "trim" => M = T.meta /\ o = T.offset
    BY <1>1, RedoMetaOffset
  <1>6. \A s, i : /\ AppendAt(L, k + 1, s, i) <=> r.op = "append" /\ s = r.stream /\ i = r.arg[1]
                  /\ TrimAt(L, k + 1, s, i) <=> r.op = "trim" /\ s = r.stream /\ i <= r.arg
    BY DEF AppendAt, TrimAt
  <1>7. \A s \in Streams : \A i \in DOMAIN P.records[s] : i \in Nat
    BY DEF Promises
  <1>8. r.op = "trim" => r.arg \in Nat
    BY <1>1, ChangeIs DEF Seqs
  <1> HIDE DEF r, E, F, M, o
  <1>9. ASSUME NEW s \in Streams, NEW i \in DOMAIN P.records[s], Stays(L, k, E, s, i)
        PROVE  Stays(L, k + 1, F, s, i)
    <2>1. CASE \E j \in After(L, k) : AppendAt(L, j, s, i) /\ \A m \in After(L, j) : ~TrimAt(L, m, s, i)
      <3>1. PICK j \in After(L, k) : AppendAt(L, j, s, i) /\ \A m \in After(L, j) : ~TrimAt(L, m, s, i)
        BY <2>1
      <3>2. CASE j = k + 1
        <4>1. Has(F, s, i)
          BY <1>4, <1>6, <3>1, <3>2
        <4> QED BY <3>1, <3>2, <4>1 DEF Stays
      <3>3. CASE j # k + 1
        BY <1>2, <3>1, <3>3 DEF Stays
      <3> QED BY <3>2, <3>3
    <2>2. CASE Has(E, s, i) /\ \A m \in After(L, k) : ~TrimAt(L, m, s, i)
      <3>1. ~TrimAt(L, k + 1, s, i) /\ \A m \in After(L, k + 1) : ~TrimAt(L, m, s, i)
        BY <1>2, <2>2
      <3>2. Has(F, s, i)
        BY <1>3, <1>4, <1>6, <1>7, <1>8, <2>2, <3>1
      <3> QED BY <3>1, <3>2 DEF Stays
    <2> QED BY <1>9, <2>1, <2>2 DEF Stays
  <1>10. ASSUME NEW s \in Streams, NEW i \in DOMAIN P.records[s], Goes(L, k, E, s, i)
         PROVE  Goes(L, k + 1, F, s, i)
    <2>1. CASE \E j \in After(L, k) : TrimAt(L, j, s, i) /\ \A m \in After(L, j) : ~AppendAt(L, m, s, i)
      <3>1. PICK j \in After(L, k) : TrimAt(L, j, s, i) /\ \A m \in After(L, j) : ~AppendAt(L, m, s, i)
        BY <2>1
      <3>2. CASE j = k + 1
        <4>1. ~Has(F, s, i)
          BY <1>4, <1>6, <1>7, <1>8, <3>1, <3>2
        <4> QED BY <3>1, <3>2, <4>1 DEF Goes
      <3>3. CASE j # k + 1
        BY <1>2, <3>1, <3>3 DEF Goes
      <3> QED BY <3>2, <3>3
    <2>2. CASE ~Has(E, s, i) /\ \A m \in After(L, k) : ~AppendAt(L, m, s, i)
      <3>1. ~AppendAt(L, k + 1, s, i) /\ \A m \in After(L, k + 1) : ~AppendAt(L, m, s, i)
        BY <1>2, <2>2
      <3>2. ~Has(F, s, i)
        BY <1>3, <1>4, <1>6, <2>2, <3>1
      <3> QED BY <3>1, <3>2 DEF Goes
    <2> QED BY <1>10, <2>1, <2>2 DEF Goes
  <1>11. EventsGive(L, k, E, P)
    BY DEF RedoGives, E
  <1>12. EventsNamed(F, P)
    <2>1. r.op = "append" => Named(P, r.stream, r.arg[1], r.arg[2])
      BY <1>2, <1>11 DEF EventsGive, AppendsNamed, r
    <2>2. \A e \in E : Named(P, e[1], e[2], e[3])
      BY <1>11 DEF EventsGive, EventsNamed
    <2>3. ASSUME NEW e \in F PROVE Named(P, e[1], e[2], e[3])
      <3>1. CASE e \in E
        BY <2>2, <3>1
      <3>2. CASE e \notin E
        <4>1. r.op = "append" /\ e = <<r.stream, r.arg[1], r.arg[2]>>
          BY <1>3, <1>4, <3>2
        <4>2. e[1] = r.stream /\ e[2] = r.arg[1] /\ e[3] = r.arg[2]
          BY <4>1
        <4> QED BY <2>1, <4>1, <4>2
      <3> QED BY <3>1, <3>2
    <2> QED BY <2>3 DEF EventsNamed
  <1>13. EventsGive(L, k + 1, F, P)
    <2>1. AppendsNamed(L, k + 1, P)
      BY <1>2, <1>11 DEF EventsGive, AppendsNamed
    <2> QED BY <1>9, <1>10, <1>11, <1>12, <2>1 DEF EventsGive
  <1>14. MetaGives(L, k + 1, M, P)
    <2>1. MetaGives(L, k, T.meta, P)
      BY DEF RedoGives
    <2>2. ASSUME NEW s \in Streams
          PROVE  /\ M[s] <= Len(P.records[s])
                 /\ M[s] = Len(P.records[s]) \/ \E j \in After(L, k + 1) : AppendAt(L, j, s, Len(P.records[s]))
      <3> DEFINE n == Len(P.records[s])
      <3>1. n \in Nat /\ T.meta[s] \in Nat /\ DOMAIN P.records[s] = 1..n
        BY DEF Promises, Trees
      <3>2. T.meta[s] <= n /\ (T.meta[s] = n \/ \E j \in After(L, k) : AppendAt(L, j, s, n))
        BY <2>1 DEF MetaGives
      <3> HIDE DEF n
      <3>3. CASE r.op = "append" /\ s = r.stream
        <4>1. r.arg[1] \in 1..n
          BY <1>2, <1>11, <3>1, <3>3 DEF EventsGive, AppendsNamed, Named, r
        <4>2. M[s] = IF r.arg[1] > T.meta[s] THEN r.arg[1] ELSE T.meta[s]
          BY <1>5, <3>3
        <4>3. M[s] <= n /\ (r.arg[1] = n \/ T.meta[s] = n => M[s] = n)
          BY <3>1, <3>2, <4>1, <4>2
        <4>4. AppendAt(L, k + 1, s, n) => r.arg[1] = n
          BY <1>6
        <4> QED BY <1>2, <3>2, <4>3, <4>4 DEF n
      <3>4. CASE ~(r.op = "append" /\ s = r.stream)
        <4>1. M[s] = T.meta[s]
          BY <1>3, <1>5, <3>4
        <4>2. ~AppendAt(L, k + 1, s, n)
          BY <1>6, <3>4
        <4> QED BY <1>2, <3>2, <4>1, <4>2 DEF n
      <3> QED BY <3>3, <3>4
    <2> QED BY <2>2 DEF MetaGives
  <1>15. OffsetGives(L, k + 1, o, P)
    <2>1. OffsetGives(L, k, T.offset, P)
      BY DEF RedoGives
    <2>2. r = L[k + 1]
      BY DEF r
    <2>3. CASE r.op = "offset"
      BY <1>2, <1>5, <2>1, <2>2, <2>3 DEF OffsetGives
    <2>4. CASE r.op # "offset"
      <3>1. o = T.offset
        BY <1>3, <1>5, <2>4
      <3> QED BY <1>2, <2>1, <2>2, <2>4, <3>1 DEF OffsetGives
    <2> QED BY <2>3, <2>4
  <1> QED BY <1>13, <1>14, <1>15 DEF RedoGives, F, M, o, r

(* The trees are what P promises.                                          *)
Exactly(T, P) ==
  /\ T.offset = P.offset
  /\ \A s \in Streams : T.meta[s] = Len(P.records[s])
  /\ \A s \in Streams : \A i \in DOMAIN P.records[s] : Has(T.events, s, i) <=> Kept(P, s, i)
  /\ EventsNamed(T.events, P)

LEMMA NothingAfter ==
  ASSUME NEW L \in Logs
  PROVE  After(L, Len(L)) = {}
  BY DEF After, Logs

(* With nothing left to redo, the trees are what was promised.             *)
LEMMA RedoAll ==
  ASSUME NEW L \in Logs, NEW T \in Trees, NEW P \in Promises
  PROVE  RedoGives(L, Len(L), T, P) <=> Exactly(T, P)
  <1> DEFINE k == Len(L)
  <1>1. After(L, k) = {}
    BY NothingAfter
  <1> HIDE DEF k
  <1>2. \A s, i : /\ Stays(L, k, T.events, s, i) <=> Has(T.events, s, i)
                  /\ Goes(L, k, T.events, s, i) <=> ~Has(T.events, s, i)
    BY <1>1 DEF Stays, Goes
  <1>3. AppendsNamed(L, k, P)
    BY <1>1 DEF AppendsNamed
  <1>4. EventsGive(L, k, T.events, P) <=>
          /\ \A s \in Streams : \A i \in DOMAIN P.records[s] : Has(T.events, s, i) <=> Kept(P, s, i)
          /\ EventsNamed(T.events, P)
    BY <1>2, <1>3 DEF EventsGive
  <1>5. MetaGives(L, k, T.meta, P) <=> \A s \in Streams : T.meta[s] = Len(P.records[s])
    <2>1. \A s \in Streams : Len(P.records[s]) \in Nat /\ T.meta[s] \in Nat
      BY DEF Promises, Trees
    <2> QED BY <1>1, <2>1 DEF MetaGives
  <1>6. OffsetGives(L, k, T.offset, P) <=> T.offset = P.offset
    BY <1>1 DEF OffsetGives
  <1> QED BY <1>4, <1>5, <1>6 DEF RedoGives, Exactly, k

(* The same with a log that has been cut: there is nothing to redo.        *)
LEMMA EmptyLogGives ==
  ASSUME NEW T \in Trees, NEW P \in Promises, Exactly(T, P)
  PROVE  RedoGives(<<>>, 0, T, P)
  <1>1. <<>> \in Logs /\ Len(<<>>) = 0
    BY DEF Logs
  <1> QED BY <1>1, RedoAll

(* A tree that holds what redo has made of it so far may reach the file    *)
(* before the others: redoing the whole log upon it gives the same.        *)
LEMMA FirstOfAll ==
  ASSUME NEW L \in Logs, NEW k \in 0..Len(L)
  PROVE  After(L, k) \subseteq After(L, 0)
  BY DEF After, Logs

LEMMA EventsWritten ==
  ASSUME NEW L \in Logs, NEW k \in 0..Len(L), NEW P, NEW E, NEW F,
         EventsGive(L, k, E, P), EventsGive(L, 0, F, P)
  PROVE  EventsGive(L, 0, E, P)
  <1>1. After(L, k) \subseteq After(L, 0)
    BY FirstOfAll
  <1>2. ASSUME NEW s, NEW i, Stays(L, k, E, s, i), Stays(L, 0, F, s, i)
        PROVE  Stays(L, 0, E, s, i)
    BY <1>1, <1>2 DEF Stays
  <1>3. ASSUME NEW s, NEW i, Goes(L, k, E, s, i), Goes(L, 0, F, s, i)
        PROVE  Goes(L, 0, E, s, i)
    BY <1>1, <1>3 DEF Goes
  <1> QED BY <1>2, <1>3 DEF EventsGive

LEMMA MetaWritten ==
  ASSUME NEW L \in Logs, NEW k \in 0..Len(L), NEW P, NEW M, MetaGives(L, k, M, P)
  PROVE  MetaGives(L, 0, M, P)
  <1>1. After(L, k) \subseteq After(L, 0)
    BY FirstOfAll
  <1> QED BY <1>1 DEF MetaGives

LEMMA OffsetWritten ==
  ASSUME NEW L \in Logs, NEW k \in 0..Len(L), NEW P, NEW o, NEW u,
         OffsetGives(L, k, o, P), OffsetGives(L, 0, u, P)
  PROVE  OffsetGives(L, 0, o, P)
  <1>1. After(L, k) \subseteq After(L, 0)
    BY FirstOfAll
  <1> QED BY <1>1 DEF OffsetGives

LEMMA TreeWritten ==
  ASSUME NEW L \in Logs, NEW k \in 0..Len(L), NEW P \in Promises,
         NEW T \in Trees, NEW U \in Trees, RedoGives(L, k, T, P), RedoGives(L, 0, U, P),
         NEW tree \in {"events", "meta", "offset"}
  PROVE  RedoGives(L, 0, [U EXCEPT ![tree] = T[tree]], P)
  <1> DEFINE V == [U EXCEPT ![tree] = T[tree]]
  <1>1. /\ EventsGive(L, 0, T.events, P) /\ MetaGives(L, 0, T.meta, P) /\ OffsetGives(L, 0, T.offset, P)
        /\ EventsGive(L, 0, U.events, P) /\ MetaGives(L, 0, U.meta, P) /\ OffsetGives(L, 0, U.offset, P)
    BY EventsWritten, MetaWritten, OffsetWritten DEF RedoGives
  <1>2. /\ V.events \in {T.events, U.events}
        /\ V.meta \in {T.meta, U.meta}
        /\ V.offset \in {T.offset, U.offset}
    <2>1. CASE tree = "events"
      BY <2>1 DEF Trees
    <2>2. CASE tree = "meta"
      BY <2>2 DEF Trees
    <2>3. CASE tree = "offset"
      BY <2>3 DEF Trees
    <2> QED BY <2>1, <2>2, <2>3
  <1> HIDE DEF V
  <1>3. EventsGive(L, 0, V.events, P) /\ MetaGives(L, 0, V.meta, P) /\ OffsetGives(L, 0, V.offset, P)
    BY <1>1, <1>2
  <1>4. RedoGives(L, 0, V, P)
    BY <1>3 DEF RedoGives
  <1> QED BY <1>4 DEF V

(* Q keeps the records of P.                                               *)
Extends(P, Q) ==
  \A s \in Streams : \A i \in DOMAIN P.records[s] :
    i \in DOMAIN Q.records[s] /\ Q.records[s][i] = P.records[s][i]

(* What a transaction adds to the log, redone upon what was committed      *)
(* before it, gives what it promises: then redoing all of it upon what     *)
(* was in the file gives that too.                                         *)
LEMMA RedoJoined ==
  ASSUME NEW L \in Logs, NEW M \in Logs, NEW P \in Promises, NEW Q \in Promises, NEW T \in Trees, NEW C,
         Exactly(C, P), RedoGives(L, 0, T, P), RedoGives(M, 0, C, Q), Extends(P, Q)
  PROVE  RedoGives(L \o M, 0, T, Q)
  <1> DEFINE N == L \o M
             n == Len(L)
  <1>1. /\ n \in Nat
        /\ \A j \in After(L, 0) : N[j] = L[j]
        /\ \A j \in After(M, 0) : N[n + j] = M[j]
        /\ \A j \in After(N, 0) : j \in After(L, 0) \/ (j - n \in After(M, 0) /\ N[j] = M[j - n])
        /\ \A j \in After(L, 0) : j \in After(N, 0)
        /\ \A j \in After(M, 0) : n + j \in After(N, 0)
        /\ \A j \in After(L, 0) : \A m \in After(N, j) :
             m \in After(L, j) \/ (m - n \in After(M, 0) /\ N[m] = M[m - n])
        /\ \A j \in After(M, 0) : \A m \in After(N, n + j) : m - n \in After(M, j) /\ N[m] = M[m - n]
        /\ \A j \in After(L, 0) : After(L, j) \subseteq After(L, 0)
        /\ \A j \in After(M, 0) : After(M, j) \subseteq After(M, 0)
    BY DEF Logs, After
  <1> HIDE DEF N, n
  <1>2. /\ \A j \in After(L, 0) : \A s, i : /\ AppendAt(N, j, s, i) <=> AppendAt(L, j, s, i)
                                            /\ TrimAt(N, j, s, i) <=> TrimAt(L, j, s, i)
        /\ \A j \in After(M, 0) : \A s, i : /\ AppendAt(N, n + j, s, i) <=> AppendAt(M, j, s, i)
                                            /\ TrimAt(N, n + j, s, i) <=> TrimAt(M, j, s, i)
        /\ \A m : N[m] = M[m - n] =>
             \A s, i : /\ AppendAt(N, m, s, i) <=> AppendAt(M, m - n, s, i)
                       /\ TrimAt(N, m, s, i) <=> TrimAt(M, m - n, s, i)
    BY <1>1 DEF AppendAt, TrimAt
  <1>3. /\ EventsGive(L, 0, T.events, P) /\ MetaGives(L, 0, T.meta, P) /\ OffsetGives(L, 0, T.offset, P)
        /\ EventsGive(M, 0, C.events, Q) /\ MetaGives(M, 0, C.meta, Q) /\ OffsetGives(M, 0, C.offset, Q)
    BY DEF RedoGives
  <1>4. ASSUME NEW s \in Streams, NEW i \in DOMAIN Q.records[s], Kept(Q, s, i)
        PROVE  Stays(N, 0, T.events, s, i)
    <2>1. Stays(M, 0, C.events, s, i)
      BY <1>3, <1>4 DEF EventsGive
    <2>2. CASE \E j \in After(M, 0) : AppendAt(M, j, s, i) /\ \A m \in After(M, j) : ~TrimAt(M, m, s, i)
      <3>1. PICK j \in After(M, 0) : AppendAt(M, j, s, i) /\ \A m \in After(M, j) : ~TrimAt(M, m, s, i)
        BY <2>2
      <3>2. n + j \in After(N, 0) /\ AppendAt(N, n + j, s, i)
        BY <1>1, <1>2, <3>1
      <3>3. \A m \in After(N, n + j) : ~TrimAt(N, m, s, i)
        BY <1>1, <1>2, <3>1
      <3> QED BY <3>2, <3>3 DEF Stays
    <2>3. CASE Has(C.events, s, i) /\ \A m \in After(M, 0) : ~TrimAt(M, m, s, i)
      <3>1. PICK e \in C.events : e[1] = s /\ e[2] = i
        BY <2>3 DEF Has
      <3>2. i \in DOMAIN P.records[s]
        BY <3>1 DEF Exactly, EventsNamed, Named
      <3>3. Kept(P, s, i)
        BY <2>3, <3>2 DEF Exactly
      <3>4. Stays(L, 0, T.events, s, i)
        BY <1>3, <3>2, <3>3 DEF EventsGive
      <3>5. \A m \in After(N, 0) : m \in After(L, 0) \/ ~TrimAt(N, m, s, i)
        BY <1>1, <1>2, <2>3
      <3>6. CASE \E j \in After(L, 0) : AppendAt(L, j, s, i) /\ \A m \in After(L, j) : ~TrimAt(L, m, s, i)
        <4>1. PICK j \in After(L, 0) : AppendAt(L, j, s, i) /\ \A m \in After(L, j) : ~TrimAt(L, m, s, i)
          BY <3>6
        <4>2. j \in After(N, 0) /\ AppendAt(N, j, s, i)
          BY <1>1, <1>2, <4>1
        <4>3. \A m \in After(N, j) : ~TrimAt(N, m, s, i)
          BY <1>1, <1>2, <2>3, <4>1
        <4> QED BY <4>2, <4>3 DEF Stays
      <3>7. CASE Has(T.events, s, i) /\ \A m \in After(L, 0) : ~TrimAt(L, m, s, i)
        BY <1>2, <3>5, <3>7 DEF Stays
      <3> QED BY <3>4, <3>6, <3>7 DEF Stays
    <2> QED BY <2>1, <2>2, <2>3 DEF Stays
  <1>5. ASSUME NEW s \in Streams, NEW i \in DOMAIN Q.records[s], ~Kept(Q, s, i)
        PROVE  Goes(N, 0, T.events, s, i)
    <2>1. Goes(M, 0, C.events, s, i)
      BY <1>3, <1>5 DEF EventsGive
    <2>2. CASE \E j \in After(M, 0) : TrimAt(M, j, s, i) /\ \A m \in After(M, j) : ~AppendAt(M, m, s, i)
      <3>1. PICK j \in After(M, 0) : TrimAt(M, j, s, i) /\ \A m \in After(M, j) : ~AppendAt(M, m, s, i)
        BY <2>2
      <3>2. n + j \in After(N, 0) /\ TrimAt(N, n + j, s, i)
        BY <1>1, <1>2, <3>1
      <3>3. \A m \in After(N, n + j) : ~AppendAt(N, m, s, i)
        BY <1>1, <1>2, <3>1
      <3> QED BY <3>2, <3>3 DEF Goes
    <2>3. CASE ~Has(C.events, s, i) /\ \A m \in After(M, 0) : ~AppendAt(M, m, s, i)
      <3>1. \A m \in After(N, 0) : m \in After(L, 0) \/ ~AppendAt(N, m, s, i)
        BY <1>1, <1>2, <2>3
      <3>2. CASE i \in DOMAIN P.records[s]
        <4>1. ~Kept(P, s, i)
          BY <2>3, <3>2 DEF Exactly
        <4>2. Goes(L, 0, T.events, s, i)
          BY <1>3, <3>2, <4>1 DEF EventsGive
        <4>3. CASE \E j \in After(L, 0) : TrimAt(L, j, s, i) /\ \A m \in After(L, j) : ~AppendAt(L, m, s, i)
          <5>1. PICK j \in After(L, 0) : TrimAt(L, j, s, i) /\ \A m \in After(L, j) : ~AppendAt(L, m, s, i)
            BY <4>3
          <5>2. j \in After(N, 0) /\ TrimAt(N, j, s, i)
            BY <1>1, <1>2, <5>1
          <5>3. \A m \in After(N, j) : ~AppendAt(N, m, s, i)
            BY <1>1, <1>2, <2>3, <5>1
          <5> QED BY <5>2, <5>3 DEF Goes
        <4>4. CASE ~Has(T.events, s, i) /\ \A m \in After(L, 0) : ~AppendAt(L, m, s, i)
          BY <1>2, <3>1, <4>4 DEF Goes
        <4> QED BY <4>2, <4>3, <4>4 DEF Goes
      <3>3. CASE i \notin DOMAIN P.records[s]
        <4>1. ~Has(T.events, s, i)
          BY <1>3, <3>3 DEF EventsGive, EventsNamed, Named, Has
        <4>2. \A m \in After(L, 0) : ~AppendAt(L, m, s, i)
          BY <1>3, <3>3 DEF EventsGive, AppendsNamed, Named, AppendAt
        <4> QED BY <1>2, <3>1, <4>1, <4>2 DEF Goes
      <3> QED BY <3>2, <3>3
    <2> QED BY <2>1, <2>2, <2>3 DEF Goes
  <1>6. \A s \in Streams : \A i, x : Named(P, s, i, x) => Named(Q, s, i, x)
    BY DEF Named, Extends
  <1>7. EventsNamed(T.events, Q)
    <2>1. EventsNamed(T.events, P)
      BY <1>3 DEF EventsGive
    <2>2. \A e \in T.events : e[1] \in Streams
      BY DEF Trees
    <2> QED BY <1>6, <2>1, <2>2 DEF EventsNamed
  <1>8. AppendsNamed(N, 0, Q)
    <2>1. AppendsNamed(L, 0, P) /\ AppendsNamed(M, 0, Q)
      BY <1>3 DEF EventsGive
    <2>2. \A j \in After(L, 0) : L[j].op = "append" => L[j].stream \in Streams
      <3>1. \A j \in After(L, 0) : L[j] \in Changes
        BY DEF After, Logs
      <3> QED BY <3>1, ChangeIs
    <2>3. ASSUME NEW j \in After(N, 0), N[j].op = "append"
          PROVE  Named(Q, N[j].stream, N[j].arg[1], N[j].arg[2])
      <3>1. CASE j \in After(L, 0)
        BY <1>1, <1>6, <2>1, <2>2, <2>3, <3>1 DEF AppendsNamed
      <3>2. CASE j - n \in After(M, 0) /\ N[j] = M[j - n]
        BY <2>1, <2>3, <3>2 DEF AppendsNamed
      <3> QED BY <1>1, <3>1, <3>2
    <2> QED BY <2>3 DEF AppendsNamed
  <1>9. MetaGives(N, 0, T.meta, Q)
    <2>1. ASSUME NEW s \in Streams
          PROVE  /\ T.meta[s] <= Len(Q.records[s])
                 /\ T.meta[s] = Len(Q.records[s]) \/ \E j \in After(N, 0) : AppendAt(N, j, s, Len(Q.records[s]))
      <3> DEFINE a == Len(P.records[s])
                 b == Len(Q.records[s])
      <3>1. /\ a \in Nat /\ DOMAIN P.records[s] = 1..a
            /\ b \in Nat /\ DOMAIN Q.records[s] = 1..b
            /\ T.meta[s] \in Nat
        BY DEF Promises, Trees
      <3>2. a <= b
        <4>1. \A i \in 1..a : i \in 1..b
          BY <3>1 DEF Extends
        <4>2. a = 0 \/ a \in 1..a
          BY <3>1
        <4> QED BY <3>1, <4>1, <4>2
      <3>3. T.meta[s] <= a /\ (T.meta[s] = a \/ \E j \in After(L, 0) : AppendAt(L, j, s, a))
        BY <1>3 DEF MetaGives
      <3>4. C.meta[s] = a /\ (C.meta[s] = b \/ \E j \in After(M, 0) : AppendAt(M, j, s, b))
        BY <1>3 DEF MetaGives, Exactly
      <3> HIDE DEF a, b
      <3>5. (\E j \in After(M, 0) : AppendAt(M, j, s, b)) => \E j \in After(N, 0) : AppendAt(N, j, s, b)
        BY <1>1, <1>2
      <3>6. (\E j \in After(L, 0) : AppendAt(L, j, s, a)) => \E j \in After(N, 0) : AppendAt(N, j, s, a)
        BY <1>1, <1>2
      <3>7. T.meta[s] <= b /\ (T.meta[s] = b \/ \E j \in After(N, 0) : AppendAt(N, j, s, b))
        BY <3>1, <3>2, <3>3, <3>4, <3>5, <3>6
      <3> QED BY <3>7 DEF b
    <2> QED BY <2>1 DEF MetaGives
  <1>10. OffsetGives(N, 0, T.offset, Q)
    <2>1. CASE \E j \in After(M, 0) : /\ M[j].op = "offset" /\ M[j].arg = Q.offset
                                      /\ \A m \in After(M, j) : M[m].op # "offset"
      <3>1. PICK j \in After(M, 0) : /\ M[j].op = "offset" /\ M[j].arg = Q.offset
                                     /\ \A m \in After(M, j) : M[m].op # "offset"
        BY <2>1
      <3>2. \A m \in After(N, n + j) : N[m].op # "offset"
        BY <1>1, <3>1
      <3> QED BY <1>1, <3>1, <3>2 DEF OffsetGives
    <2>2. CASE C.offset = Q.offset /\ \A m \in After(M, 0) : M[m].op # "offset"
      <3>1. P.offset = Q.offset
        BY <2>2 DEF Exactly
      <3>2. CASE \E j \in After(L, 0) : /\ L[j].op = "offset" /\ L[j].arg = P.offset
                                        /\ \A m \in After(L, j) : L[m].op # "offset"
        <4>1. PICK j \in After(L, 0) : /\ L[j].op = "offset" /\ L[j].arg = P.offset
                                       /\ \A m \in After(L, j) : L[m].op # "offset"
          BY <3>2
        <4>2. \A m \in After(N, j) : N[m].op # "offset"
          BY <1>1, <2>2, <4>1
        <4> QED BY <1>1, <3>1, <4>1, <4>2 DEF OffsetGives
      <3>3. CASE T.offset = P.offset /\ \A m \in After(L, 0) : L[m].op # "offset"
        BY <1>1, <2>2, <3>1, <3>3 DEF OffsetGives
      <3> QED BY <1>3, <3>2, <3>3 DEF OffsetGives
    <2> QED BY <1>3, <2>1, <2>2 DEF OffsetGives
  <1>11. EventsGive(N, 0, T.events, Q)
    BY <1>4, <1>5, <1>7, <1>8 DEF EventsGive
  <1> QED BY <1>9, <1>10, <1>11 DEF RedoGives, N

-----------------------------------------------------------------------------
(* What a transaction stages and promises.                                 *)

(* The appends of a transaction give the next numbers of each stream, one  *)
(* after the other, n[s] of them to stream s, and the name of the          *)
(* transaction as payload.                                                 *)
Numbered(A, P, n, t) ==
  /\ \A j \in DOMAIN A :
       /\ A[j].arg[2] = t
       /\ A[j].arg[1] \in
            (Len(P.records[A[j].stream]) + 1)..(Len(P.records[A[j].stream]) + n[A[j].stream])
  /\ \A j, m \in DOMAIN A : j < m /\ A[j].stream = A[m].stream => A[j].arg[1] < A[m].arg[1]
  /\ \A s \in Streams : \A i \in (Len(P.records[s]) + 1)..(Len(P.records[s]) + n[s]) :
       \E j \in DOMAIN A : A[j].stream = s /\ A[j].arg[1] = i

AppendedIs(A) ==
  \A j \in DOMAIN A : A[j].op = "append" /\ A[j].stream \in Streams /\ A[j].arg[1] \in Nat

LEMMA AppendedFacts ==
  ASSUME NEW A \in Seq(Appended)
  PROVE  AppendedIs(A) /\ DOMAIN A = 1..Len(A) /\ Len(A) \in Nat
  <1>1. \A j \in DOMAIN A : A[j] \in Appended
    OBVIOUS
  <1> QED BY <1>1 DEF AppendedIs, Appended, Seqs

LEMMA NextNumber ==
  ASSUME NEW A \in Seq(Appended), NEW P \in Promises, NEW n \in [Streams -> Nat], Numbered(A, P, n, txn),
         NEW s \in Streams, mem.meta[s] = Len(P.records[s])
  PROVE  nextStreamSequence(A, s) = Len(P.records[s]) + n[s] + 1
  <1> DEFINE N == {A[i].arg[1] : i \in {j \in DOMAIN A : A[j].stream = s}}
             S == {mem.meta[s]} \cup N
             a == Len(P.records[s])
             m == a + n[s]
  <1>1. a \in Nat /\ n[s] \in Nat /\ m \in Nat
    BY DEF Promises
  <1>2. \A y \in N : y \in (a + 1)..m
    <2>1. ASSUME NEW j \in DOMAIN A, A[j].stream = s PROVE A[j].arg[1] \in (a + 1)..m
      BY <2>1 DEF Numbered
    <2> QED BY <2>1
  <1>3. \A i \in (a + 1)..m : i \in N
    <2>1. ASSUME NEW i \in (a + 1)..m PROVE i \in N
      <3>1. PICK j \in DOMAIN A : A[j].stream = s /\ A[j].arg[1] = i
        BY <2>1 DEF Numbered
      <3> QED BY <3>1
    <2> QED BY <2>1
  <1>4. nextStreamSequence(A, s) = 1 + Max(S)
    BY DEF nextStreamSequence
  <1>5. mem.meta[s] = a
    OBVIOUS
  <1> HIDE DEF N, a, m
  <1>6. m \in S /\ S \subseteq Nat /\ \A y \in S : y <= m
    <2>1. m = a \/ m \in (a + 1)..m
      BY <1>1 DEF m
    <2>2. a <= m /\ a \in Nat
      BY <1>1 DEF m
    <2> QED BY <1>1, <1>2, <1>3, <1>5, <2>1, <2>2
  <1>7. Max(S) = m
    BY <1>6, MaxIs
  <1> QED BY <1>1, <1>4, <1>7 DEF a, m

LEMMA StagedNumbered ==
  ASSUME NEW A \in Seq(Appended), NEW P \in Promises, NEW n \in [Streams -> Nat], Numbered(A, P, n, txn),
         NEW s \in Streams, mem.meta[s] = Len(P.records[s]), nextStreamSequence(A, s) \in Seqs,
         txn \in Txns, NEW n2 \in [Streams -> Nat], n2[s] = n[s] + 1,
         \A u \in Streams : u # s => n2[u] = n[u]
  PROVE  Numbered(Staged(A, s), P, n2, txn)
  <1> DEFINE B == Staged(A, s)
             k == Len(A)
             q == nextStreamSequence(A, s)
             r == [op |-> "append", stream |-> s, arg |-> <<q, txn>>]
  <1>1. /\ B \in Seq(Appended) /\ Len(B) = k + 1
        /\ \A j \in 1..k : B[j] = A[j]
        /\ B[k + 1] = r
    BY StagedType
  <1>2. /\ AppendedIs(A) /\ DOMAIN A = 1..k /\ k \in Nat
        /\ AppendedIs(B) /\ DOMAIN B = 1..(k + 1)
    BY <1>1, AppendedFacts
  <1>3. q = Len(P.records[s]) + n[s] + 1
    BY NextNumber
  <1>4. r.stream = s /\ r.arg[1] = q /\ r.arg[2] = txn
    OBVIOUS
  <1>5. \A u \in Streams : Len(P.records[u]) \in Nat /\ n[u] \in Nat
    BY DEF Promises
  <1>11. \A u \in Streams : n[u] <= n2[u]
    BY <1>5
  <1> HIDE DEF B, k, q, r
  <1>6. \A j \in 1..(k + 1) : j \in 1..k \/ j = k + 1
    BY <1>2
  <1>7. ASSUME NEW j \in DOMAIN B
        PROVE  /\ B[j].arg[2] = txn
               /\ B[j].arg[1] \in
                    (Len(P.records[B[j].stream]) + 1)..(Len(P.records[B[j].stream]) + n2[B[j].stream])
    <2>1. CASE j \in 1..k
      <3> DEFINE u == A[j].stream
      <3>1. u \in Streams /\ A[j].arg[2] = txn
            /\ A[j].arg[1] \in (Len(P.records[u]) + 1)..(Len(P.records[u]) + n[u])
        BY <1>2, <2>1 DEF Numbered, AppendedIs
      <3>2. n[u] <= n2[u] /\ n[u] \in Nat /\ n2[u] \in Nat /\ Len(P.records[u]) \in Nat
        BY <1>5, <1>11, <3>1
      <3>3. B[j] = A[j]
        BY <1>1, <2>1
      <3> HIDE DEF u
      <3> DEFINE l == Len(P.records[u])
                 v == A[j].arg[1]
      <3>5. l \in Nat /\ n[u] \in Nat /\ n2[u] \in Nat /\ n[u] <= n2[u] /\ v \in (l + 1)..(l + n[u])
        BY <3>1, <3>2
      <3> HIDE DEF l, v
      <3>6. v \in (l + 1)..(l + n2[u])
        BY <3>5
      <3>4. A[j].arg[1] \in (Len(P.records[u]) + 1)..(Len(P.records[u]) + n2[u])
        BY <3>6 DEF l, v
      <3> QED BY <3>1, <3>3, <3>4 DEF u
    <2>2. CASE j = k + 1
      <3>1. B[j].stream = s /\ B[j].arg[1] = q /\ B[j].arg[2] = txn
        BY <1>1, <1>4, <2>2
      <3>2. q \in (Len(P.records[s]) + 1)..(Len(P.records[s]) + n2[s])
        BY <1>3, <1>5
      <3> QED BY <3>1, <3>2
    <2> QED BY <1>2, <1>6, <2>1, <2>2
  <1>8. ASSUME NEW j \in DOMAIN B, NEW m \in DOMAIN B, j < m, B[j].stream = B[m].stream
        PROVE  B[j].arg[1] < B[m].arg[1]
    <2>1. CASE m \in 1..k
      <3>1. j \in 1..k
        BY <1>2, <1>8, <2>1
      <3> QED BY <1>1, <1>2, <1>8, <2>1, <3>1 DEF Numbered
    <2>2. CASE m = k + 1
      <3>1. j \in 1..k /\ B[m] = r
        BY <1>1, <1>2, <1>8, <2>2
      <3>2. A[j].stream = s /\ B[j] = A[j]
        BY <1>1, <1>4, <1>8, <3>1
      <3>3. A[j].arg[1] \in (Len(P.records[s]) + 1)..(Len(P.records[s]) + n[s])
        BY <1>2, <3>1, <3>2 DEF Numbered
      <3> QED BY <1>3, <1>4, <1>5, <3>1, <3>2, <3>3
    <2> QED BY <1>2, <1>6, <2>1, <2>2
  <1>9. ASSUME NEW u \in Streams, NEW i \in (Len(P.records[u]) + 1)..(Len(P.records[u]) + n2[u])
        PROVE  \E j \in DOMAIN B : B[j].stream = u /\ B[j].arg[1] = i
    <2>1. CASE u = s /\ i = q
      BY <1>1, <1>2, <1>4, <2>1
    <2>2. CASE i \in (Len(P.records[u]) + 1)..(Len(P.records[u]) + n[u])
      <3>1. PICK j \in DOMAIN A : A[j].stream = u /\ A[j].arg[1] = i
        BY <2>2 DEF Numbered
      <3>2. j \in 1..k /\ B[j] = A[j] /\ j \in DOMAIN B
        BY <1>1, <1>2, <3>1
      <3> QED BY <3>1, <3>2
    <2>3. (u = s /\ i = q) \/ i \in (Len(P.records[u]) + 1)..(Len(P.records[u]) + n[u])
      <3>1. CASE u = s
        BY <1>3, <1>5, <3>1
      <3>2. CASE u # s
        <4>1. n2[u] = n[u]
          BY <3>2
        <4> QED BY <1>9, <4>1
      <3> QED BY <3>1, <3>2
    <2> QED BY <2>1, <2>2, <2>3
  <1>10. Numbered(B, P, n2, txn)
    BY <1>7, <1>8, <1>9 DEF Numbered
  <1> QED BY <1>10 DEF B

LEMMA NothingNumbered ==
  ASSUME NEW P \in Promises, NEW n \in [Streams -> Nat], NEW t, \A s \in Streams : n[s] = 0
  PROVE  Numbered(EmptyOverlay.appends, P, n, t)
  <1>1. EmptyOverlay.appends = <<>> /\ DOMAIN <<>> = {}
    BY DEF EmptyOverlay
  <1>2. \A s \in Streams : (Len(P.records[s]) + 1)..(Len(P.records[s]) + n[s]) = {}
    BY DEF Promises
  <1> QED BY <1>1, <1>2 DEF Numbered

(* The changes of a transaction, in their order.                           *)
LEMMA OpsFacts ==
  ASSUME NEW o \in Overlays
  PROVE  LET O == Ops(o)
             n == Len(o.appends)
         IN
         /\ O \in Logs /\ n \in Nat /\ n <= Len(O) /\ Len(O) \in Nat
         /\ \A j \in 1..n : O[j] = o.appends[j]
         /\ \A j \in 1..Len(O) : O[j].op = "append" => j <= n
         /\ o.trim # Absent => /\ Len(O) > n
                               /\ O[Len(O)] = [op |-> "trim", stream |-> "jobs", arg |-> o.trim]
         /\ \A j \in 1..Len(O) : O[j].op = "trim" => o.trim # Absent /\ j = Len(O)
         /\ o.offset # Absent => /\ n + 1 \in 1..Len(O)
                                 /\ O[n + 1] = [op |-> "offset", stream |-> "jobs", arg |-> o.offset]
         /\ \A j \in 1..Len(O) : O[j].op = "offset" => o.offset # Absent /\ j = n + 1
  <1> DEFINE A == o.appends
             B == One("offset", o.offset)
             C == One("trim", o.trim)
             O == Ops(o)
             n == Len(A)
             ro == [op |-> "offset", stream |-> "jobs", arg |-> o.offset]
             rt == [op |-> "trim", stream |-> "jobs", arg |-> o.trim]
  <1>1. O = (A \o B) \o C /\ O \in Seq(Changes)
    BY OpsAre, OpsType
  <1>2. A \in Seq(Appended) /\ o.offset \in Offsets /\ o.trim \in Offsets
    BY DEF Overlays
  <1>3. /\ B \in Seq(Changes) /\ C \in Seq(Changes)
        /\ o.offset = Absent => Len(B) = 0
        /\ o.offset # Absent => Len(B) = 1 /\ B[1] = ro
        /\ o.trim = Absent => Len(C) = 0
        /\ o.trim # Absent => Len(C) = 1 /\ C[1] = rt
    BY <1>2, OneIs
  <1>4. AppendedIs(A) /\ DOMAIN A = 1..n /\ n \in Nat
    BY <1>2, AppendedFacts
  <1>5. A \in Seq(Changes)
    BY <1>2 DEF Changes
  <1>6. ro.op = "offset" /\ rt.op = "trim"
    OBVIOUS
  <1> HIDE DEF A, B, C, O, n, ro, rt
  <1>7. /\ Len(O) = n + Len(B) + Len(C)
        /\ \A j \in 1..n : O[j] = A[j]
        /\ \A j \in 1..Len(B) : O[n + j] = B[j]
        /\ \A j \in 1..Len(C) : O[n + Len(B) + j] = C[j]
    <2> DEFINE D == A \o B
    <2>1. /\ D \in Seq(Changes) /\ Len(D) = n + Len(B)
          /\ \A j \in 1..n : D[j] = A[j]
          /\ \A j \in 1..Len(B) : D[n + j] = B[j]
      BY <1>3, <1>5 DEF n
    <2> HIDE DEF D
    <2>2. /\ Len(D \o C) = Len(D) + Len(C)
          /\ \A j \in 1..Len(D) : (D \o C)[j] = D[j]
          /\ \A j \in 1..Len(C) : (D \o C)[Len(D) + j] = C[j]
      BY <1>3, <2>1
    <2>3. O = D \o C
      BY <1>1 DEF D
    <2>4. Len(B) \in Nat /\ Len(C) \in Nat
      BY <1>3
    <2>5. (\A j \in 1..n : j \in 1..Len(D)) /\ (\A j \in 1..Len(B) : n + j \in 1..Len(D))
      BY <1>4, <2>1, <2>4
    <2> QED BY <2>1, <2>2, <2>3, <2>5
  <1>8. Len(B) \in 0..1 /\ Len(C) \in 0..1 /\ Len(O) \in Nat
    BY <1>1, <1>3
  <1>9. \A j \in 1..n : O[j].op = "append"
    BY <1>4, <1>7 DEF AppendedIs
  <1>10. /\ o.offset # Absent => n + 1 \in 1..Len(O) /\ O[n + 1] = ro
         /\ o.trim # Absent => Len(O) > n /\ O[Len(O)] = rt
    <2>1. CASE o.offset # Absent
      <3>1. 1 \in 1..Len(B) /\ Len(B) = 1 /\ B[1] = ro
        BY <1>3, <2>1
      <3>2. O[n + 1] = ro
        BY <1>7, <3>1
      <3> QED BY <1>3, <1>4, <1>7, <1>8, <3>1, <3>2
    <2>2. CASE o.offset = Absent
      BY <1>3, <1>4, <1>7, <1>8, <2>2
    <2>3. CASE o.trim # Absent
      <3>1. 1 \in 1..Len(C) /\ Len(C) = 1 /\ C[1] = rt
        BY <1>3, <2>3
      <3>2. O[n + Len(B) + 1] = rt /\ Len(O) = n + Len(B) + 1
        BY <1>7, <3>1
      <3> QED BY <1>4, <1>8, <2>1, <2>2, <3>2
    <2> QED BY <2>1, <2>2, <2>3
  <1>11. ASSUME NEW j \in 1..Len(O), j > n
         PROVE  \/ o.offset # Absent /\ j = n + 1 /\ O[j] = ro
                \/ o.trim # Absent /\ j = Len(O) /\ O[j] = rt
    BY <1>3, <1>4, <1>7, <1>8, <1>10, <1>11
  <1>12. \A j \in 1..Len(O) : j > n \/ j \in 1..n
    BY <1>4, <1>8
  <1>13. \A j \in 1..Len(O) :
           /\ O[j].op = "append" => j <= n
           /\ O[j].op = "trim" => o.trim # Absent /\ j = Len(O)
           /\ O[j].op = "offset" => o.offset # Absent /\ j = n + 1
    <2>1. ASSUME NEW j \in 1..Len(O)
          PROVE  /\ O[j].op = "append" => j <= n
                 /\ O[j].op = "trim" => o.trim # Absent /\ j = Len(O)
                 /\ O[j].op = "offset" => o.offset # Absent /\ j = n + 1
      <3>1. CASE j \in 1..n
        BY <1>4, <1>9, <3>1
      <3>2. CASE j > n
        BY <1>6, <1>11, <3>2
      <3> QED BY <1>12, <3>1, <3>2
    <2> QED BY <2>1
  <1>14. n <= Len(O)
    BY <1>4, <1>7, <1>8
  <1> QED BY <1>1, <1>4, <1>7, <1>8, <1>10, <1>13, <1>14 DEF Logs, O, A, n, ro, rt

LEMMA PromiseExtends ==
  ASSUME NEW p \in Promises, NEW o \in Overlays, txn \in Txns
  PROVE  Extends(p, Promise(p, o))
  <1> DEFINE Q == Promise(p, o)
  <1>1. /\ Q \in Promises
        /\ \A s \in Streams :
             /\ Len(Q.records[s]) = Len(p.records[s]) + Published(o, s)
             /\ \A i \in 1..Len(p.records[s]) : Q.records[s][i] = p.records[s][i]
    BY PromiseIs
  <1> HIDE DEF Q
  <1>2. \A s \in Streams : /\ DOMAIN p.records[s] = 1..Len(p.records[s]) /\ Len(p.records[s]) \in Nat
                           /\ DOMAIN Q.records[s] = 1..Len(Q.records[s]) /\ Published(o, s) \in Nat
    BY <1>1 DEF Promises, Published, Overlays
  <1>3. ASSUME NEW s \in Streams, NEW i \in DOMAIN p.records[s]
        PROVE  i \in DOMAIN Q.records[s] /\ Q.records[s][i] = p.records[s][i]
    <2>1. i \in 1..Len(p.records[s])
      BY <1>2
    <2>2. i \in 1..Len(Q.records[s])
      BY <1>1, <1>2, <2>1
    <2> QED BY <1>1, <1>2, <2>1, <2>2
  <1> QED BY <1>3 DEF Extends, Q

(* Trims only reach further.                                               *)
LEMMA PromiseTrims ==
  ASSUME NEW p \in Promises, NEW o \in Overlays, txn \in Txns, p.trimmed <= Len(p.records["jobs"])
  PROVE  LET Q == Promise(p, o) IN
         /\ p.trimmed \in Nat /\ Q.trimmed \in Nat
         /\ p.trimmed <= Q.trimmed /\ Q.trimmed <= Len(Q.records["jobs"])
         /\ Q.trimmed > p.trimmed => o.trim # Absent /\ Q.trimmed <= o.trim
         /\ o.trim # Absent => \A i \in 1..Len(Q.records["jobs"]) : i > Q.trimmed => i > o.trim
  <1> DEFINE Q == Promise(p, o)
             end == Len(p.records["jobs"]) + o.asked
             cut == IF o.trim < end THEN o.trim ELSE end
  <1>1. /\ Q \in Promises
        /\ Len(Q.records["jobs"]) = end
        /\ o.trim = Absent => Q.trimmed = p.trimmed
        /\ o.trim # Absent => Q.trimmed = IF p.trimmed >= cut THEN p.trimmed ELSE cut
    BY PromiseIs DEF Streams, Published
  <1>2. p.trimmed \in Nat /\ Q.trimmed \in Nat /\ Len(p.records["jobs"]) \in Nat /\ o.asked \in Nat
        /\ (o.trim # Absent => o.trim \in Nat)
    BY <1>1 DEF Promises, Overlays, Offsets, Seqs, Streams
  <1> HIDE DEF Q
  <1>3. end \in Nat /\ Len(p.records["jobs"]) <= end
    BY <1>2
  <1>4. CASE o.trim = Absent
    BY <1>1, <1>2, <1>3, <1>4 DEF Q
  <1>5. CASE o.trim # Absent
    BY <1>1, <1>2, <1>3, <1>5 DEF Q
  <1> QED BY <1>4, <1>5

(* Redone upon what was committed, the changes of a transaction give what  *)
(* it promises.                                                            *)
LEMMA ChangesGive ==
  ASSUME NEW p \in Promises, NEW o \in Overlays, txn \in Txns,
         p.trimmed <= Len(p.records["jobs"]),
         NEW n \in [Streams -> Nat], \A s \in Streams : n[s] = Published(o, s),
         Numbered(o.appends, p, n, txn), NEW T, Exactly(T, p), \A e \in T.events : e[1] \in Streams
  PROVE  RedoGives(Ops(o), 0, T, Promise(p, o))
  <1> DEFINE O == Ops(o)
             A == o.appends
             k == Len(A)
             Q == Promise(p, o)
  <1>1. /\ O \in Logs /\ k \in Nat /\ k <= Len(O) /\ Len(O) \in Nat
        /\ \A j \in 1..k : O[j] = A[j]
        /\ \A j \in 1..Len(O) : O[j].op = "append" => j <= k
        /\ o.trim # Absent => /\ Len(O) > k
                              /\ O[Len(O)] = [op |-> "trim", stream |-> "jobs", arg |-> o.trim]
        /\ \A j \in 1..Len(O) : O[j].op = "trim" => o.trim # Absent /\ j = Len(O)
        /\ o.offset # Absent => /\ k + 1 \in 1..Len(O)
                                /\ O[k + 1] = [op |-> "offset", stream |-> "jobs", arg |-> o.offset]
        /\ \A j \in 1..Len(O) : O[j].op = "offset" => o.offset # Absent /\ j = k + 1
    BY OpsFacts
  <1>2. AppendedIs(A) /\ DOMAIN A = 1..k
    BY AppendedFacts DEF Overlays
  <1>3. Numbered(A, p, n, txn)
    OBVIOUS
  <1>4. /\ Q \in Promises
        /\ \A s \in Streams :
             /\ Len(Q.records[s]) = Len(p.records[s]) + n[s]
             /\ \A i \in 1..Len(p.records[s]) : Q.records[s][i] = p.records[s][i]
             /\ \A i \in (Len(p.records[s]) + 1)..(Len(p.records[s]) + n[s]) :
                  Q.records[s][i] = txn
        /\ Q.offset = IF o.offset = Absent THEN p.offset ELSE o.offset
    BY PromiseIs
  <1>5. /\ p.trimmed \in Nat /\ Q.trimmed \in Nat
        /\ p.trimmed <= Q.trimmed /\ Q.trimmed <= Len(Q.records["jobs"])
        /\ Q.trimmed > p.trimmed => o.trim # Absent /\ Q.trimmed <= o.trim
        /\ o.trim # Absent => \A i \in 1..Len(Q.records["jobs"]) : i > Q.trimmed => i > o.trim
    BY PromiseTrims
  <1>6. \A s \in Streams : /\ DOMAIN p.records[s] = 1..Len(p.records[s]) /\ Len(p.records[s]) \in Nat
                           /\ DOMAIN Q.records[s] = 1..Len(Q.records[s]) /\ Len(Q.records[s]) \in Nat
                           /\ n[s] \in Nat
    BY <1>4 DEF Promises
  <1>7. o.trim # Absent => o.trim \in Nat
    BY DEF Overlays, Offsets, Seqs
  <1>8. After(O, 0) = 1..Len(O) /\ After(O, Len(O)) = {} /\ 1..k \subseteq 1..Len(O)
    BY <1>1 DEF After
  <1>9. Extends(p, Q)
    BY PromiseExtends
  <1> HIDE DEF O, A, k, Q
  <1>10. \A j \in 1..k : \A s, i : A[j].stream = s /\ A[j].arg[1] = i => AppendAt(O, j, s, i)
    BY <1>1, <1>2 DEF AppendAt, AppendedIs
  <1>11. \A j \in 1..Len(O) : \A s, i :
           AppendAt(O, j, s, i) => j \in 1..k /\ A[j].stream = s /\ A[j].arg[1] = i
    BY <1>1 DEF AppendAt
  <1>12. ASSUME NEW s \in Streams, NEW i \in DOMAIN Q.records[s], Kept(Q, s, i)
         PROVE  \A m \in 1..Len(O) : ~TrimAt(O, m, s, i)
    <2>1. ASSUME NEW m \in 1..Len(O), TrimAt(O, m, s, i) PROVE FALSE
      <3>1. o.trim # Absent /\ O[m].op = "trim" /\ O[m] = [op |-> "trim", stream |-> "jobs", arg |-> o.trim]
        BY <1>1, <2>1 DEF TrimAt
      <3>2. s = "jobs" /\ i <= o.trim
        BY <2>1, <3>1 DEF TrimAt
      <3>3. i > Q.trimmed /\ i \in 1..Len(Q.records["jobs"])
        BY <1>6, <1>12, <3>2 DEF Kept
      <3> QED BY <1>5, <1>7, <3>1, <3>2, <3>3
    <2> QED BY <2>1
  <1>13. ASSUME NEW s \in Streams, NEW i \in DOMAIN Q.records[s], ~Kept(Q, s, i)
         PROVE  s = "jobs" /\ i \in Nat /\ i <= Q.trimmed
    BY <1>5, <1>6, <1>13 DEF Kept
  <1>14. ASSUME NEW i \in Nat, p.trimmed < i, i <= Q.trimmed
         PROVE  \E j \in After(O, 0) : TrimAt(O, j, "jobs", i) /\ \A m \in After(O, j) : ~AppendAt(O, m, "jobs", i)
    <2>1. o.trim # Absent /\ i <= o.trim
      BY <1>5, <1>7, <1>14
    <2>2. Len(O) \in After(O, 0) /\ TrimAt(O, Len(O), "jobs", i)
      BY <1>1, <1>8, <2>1 DEF TrimAt
    <2> QED BY <1>8, <2>2
  <1>15. ASSUME NEW s \in Streams, NEW i \in DOMAIN p.records[s]
         PROVE  \A j \in 1..Len(O) : ~AppendAt(O, j, s, i)
    <2>1. ASSUME NEW j \in 1..k, A[j].stream = s PROVE A[j].arg[1] > Len(p.records[s])
      <3>1. A[j].arg[1] \in (Len(p.records[s]) + 1)..(Len(p.records[s]) + n[s])
        BY <1>2, <1>3, <2>1 DEF Numbered
      <3> QED BY <1>6, <3>1
    <2> QED BY <1>6, <1>11, <2>1
  <1>16. ASSUME NEW s \in Streams, NEW i \in DOMAIN Q.records[s]
         PROVE  /\ Kept(Q, s, i) => Stays(O, 0, T.events, s, i)
                /\ ~Kept(Q, s, i) => Goes(O, 0, T.events, s, i)
    <2>1. CASE i \in DOMAIN p.records[s]
      <3>1. Has(T.events, s, i) <=> Kept(p, s, i)
        BY <2>1 DEF Exactly
      <3>2. CASE Kept(Q, s, i)
        <4>1. Kept(p, s, i)
          BY <1>5, <1>6, <3>2 DEF Kept
        <4>2. \A m \in After(O, 0) : ~TrimAt(O, m, s, i)
          BY <1>8, <1>12, <3>2
        <4> QED BY <3>1, <3>2, <4>1, <4>2 DEF Stays
      <3>3. CASE ~Kept(Q, s, i)
        <4>1. s = "jobs" /\ i \in Nat /\ i <= Q.trimmed
          BY <1>13, <3>3
        <4>2. CASE i <= p.trimmed
          <5>1. ~Has(T.events, s, i)
            BY <1>5, <3>1, <4>1, <4>2 DEF Kept
          <5> QED BY <1>8, <1>15, <2>1, <3>3, <5>1 DEF Goes
        <4>3. CASE i > p.trimmed
          BY <1>14, <3>3, <4>1, <4>3 DEF Goes
        <4> QED BY <1>5, <4>1, <4>2, <4>3
      <3> QED BY <3>2, <3>3
    <2>2. CASE i \notin DOMAIN p.records[s]
      <3>1. i \in (Len(p.records[s]) + 1)..(Len(p.records[s]) + n[s])
        BY <1>4, <1>6, <2>2
      <3>2. CASE Kept(Q, s, i)
        <4>1. PICK j \in DOMAIN A : A[j].stream = s /\ A[j].arg[1] = i
          BY <1>3, <3>1 DEF Numbered
        <4>2. j \in After(O, 0) /\ AppendAt(O, j, s, i)
          BY <1>2, <1>8, <1>10, <4>1
        <4>3. After(O, j) \subseteq 1..Len(O)
          BY <1>1, <1>2, <4>1 DEF After
        <4> QED BY <1>12, <3>2, <4>2, <4>3 DEF Stays
      <3>3. CASE ~Kept(Q, s, i)
        <4>1. s = "jobs" /\ i \in Nat /\ i <= Q.trimmed
          BY <1>13, <3>3
        <4>2. p.trimmed < i
          BY <1>5, <1>6, <3>1, <4>1
        <4> QED BY <1>14, <3>3, <4>1, <4>2 DEF Goes
      <3> QED BY <3>2, <3>3
    <2> QED BY <2>1, <2>2
  <1>17. EventsNamed(T.events, Q)
    <2>1. \A s, i, x : Named(p, s, i, x) /\ s \in Streams => Named(Q, s, i, x)
      BY <1>9 DEF Named, Extends
    <2> QED BY <2>1 DEF EventsNamed, Exactly
  <1>18. AppendsNamed(O, 0, Q)
    <2>1. ASSUME NEW j \in After(O, 0), O[j].op = "append"
          PROVE  Named(Q, O[j].stream, O[j].arg[1], O[j].arg[2])
      <3>1. j \in 1..k /\ O[j] = A[j] /\ j \in DOMAIN A
        BY <1>1, <1>2, <1>8, <2>1
      <3>2. PICK s \in Streams : s = A[j].stream
        BY <1>2, <3>1 DEF AppendedIs
      <3>3. A[j].arg[2] = txn /\ A[j].arg[1] \in (Len(p.records[s]) + 1)..(Len(p.records[s]) + n[s])
        BY <1>3, <3>1, <3>2 DEF Numbered
      <3>4. A[j].arg[1] \in DOMAIN Q.records[s] /\ Q.records[s][A[j].arg[1]] = txn
        BY <1>4, <1>6, <3>3
      <3> QED BY <3>1, <3>2, <3>3, <3>4 DEF Named
    <2> QED BY <2>1 DEF AppendsNamed
  <1>19. MetaGives(O, 0, T.meta, Q)
    <2>1. ASSUME NEW s \in Streams
          PROVE  /\ T.meta[s] <= Len(Q.records[s])
                 /\ T.meta[s] = Len(Q.records[s]) \/ \E j \in After(O, 0) : AppendAt(O, j, s, Len(Q.records[s]))
      <3>1. T.meta[s] = Len(p.records[s]) /\ Len(Q.records[s]) = Len(p.records[s]) + n[s]
        BY <1>4 DEF Exactly
      <3>2. CASE n[s] = 0
        BY <1>6, <3>1, <3>2
      <3>3. CASE n[s] > 0
        <4>1. Len(Q.records[s]) \in (Len(p.records[s]) + 1)..(Len(p.records[s]) + n[s])
          BY <1>6, <3>1, <3>3
        <4>2. PICK j \in DOMAIN A : A[j].stream = s /\ A[j].arg[1] = Len(Q.records[s])
          <5>1. \A i \in (Len(p.records[s]) + 1)..(Len(p.records[s]) + n[s]) :
                  \E j \in DOMAIN A : A[j].stream = s /\ A[j].arg[1] = i
            BY <1>3 DEF Numbered
          <5> QED BY <4>1, <5>1
        <4>3. j \in After(O, 0) /\ AppendAt(O, j, s, Len(Q.records[s]))
          BY <1>2, <1>8, <1>10, <4>2
        <4> QED BY <1>6, <3>1, <4>3
      <3> QED BY <1>6, <3>2, <3>3
    <2> QED BY <2>1 DEF MetaGives
  <1>20. OffsetGives(O, 0, T.offset, Q)
    <2>1. CASE o.offset = Absent
      <3>1. T.offset = Q.offset
        BY <1>4, <2>1 DEF Exactly
      <3> QED BY <1>1, <1>8, <2>1, <3>1 DEF OffsetGives
    <2>2. CASE o.offset # Absent
      <3>1. k + 1 \in After(O, 0) /\ O[k + 1].op = "offset" /\ O[k + 1].arg = Q.offset
        BY <1>1, <1>4, <1>8, <2>2
      <3>2. \A m \in After(O, k + 1) : O[m].op # "offset"
        BY <1>1 DEF After
      <3> QED BY <3>1, <3>2 DEF OffsetGives
    <2> QED BY <2>1, <2>2
  <1>21. EventsGive(O, 0, T.events, Q)
    BY <1>16, <1>17, <1>18 DEF EventsGive
  <1> QED BY <1>19, <1>20, <1>21 DEF RedoGives, O, Q

(* Trees that are what p promises.                                         *)
CommittedTrees(p) ==
  [events |-> {e \in Streams \X Nat \X Txns : Named(p, e[1], e[2], e[3]) /\ Kept(p, e[1], e[2])},
   meta |-> [s \in Streams |-> Len(p.records[s])],
   offset |-> p.offset]

LEMMA CommittedTreesAre ==
  ASSUME NEW p \in Promises
  PROVE  Exactly(CommittedTrees(p), p) /\ \A e \in CommittedTrees(p).events : e[1] \in Streams
  <1> DEFINE E == {e \in Streams \X Nat \X Txns : Named(p, e[1], e[2], e[3]) /\ Kept(p, e[1], e[2])}
  <1>1. \A s \in Streams : \A i \in DOMAIN p.records[s] : i \in Nat /\ p.records[s][i] \in Txns
    BY DEF Promises
  <1>2. ASSUME NEW s \in Streams, NEW i \in DOMAIN p.records[s]
        PROVE  Has(E, s, i) <=> Kept(p, s, i)
    <2>1. Has(E, s, i) => Kept(p, s, i)
      BY DEF Has
    <2>2. ASSUME Kept(p, s, i) PROVE Has(E, s, i)
      <3>1. <<s, i, p.records[s][i]>> \in E
        BY <1>1, <2>2 DEF Named
      <3> QED BY <3>1 DEF Has
    <2> QED BY <2>1, <2>2
  <1>3. EventsNamed(E, p)
    BY DEF EventsNamed
  <1> HIDE DEF E
  <1>4. CommittedTrees(p) = [events |-> E, meta |-> [s \in Streams |-> Len(p.records[s])], offset |-> p.offset]
    BY DEF CommittedTrees, E
  <1>5. \A e \in E : e[1] \in Streams
    BY DEF E
  <1>6. /\ CommittedTrees(p).events = E /\ CommittedTrees(p).offset = p.offset
        /\ \A s \in Streams : CommittedTrees(p).meta[s] = Len(p.records[s])
    BY <1>4
  <1> QED BY <1>2, <1>3, <1>5, <1>6 DEF Exactly

-----------------------------------------------------------------------------
(* CInv: while nothing of Faults happens, redoing the log upon the file    *)
(* gives what was committed, and so does applying the rest of a commit     *)
(* upon the trees in memory.                                               *)

Tame == Faults = {}

Counts ==
  [s \in Streams |-> IF s = "jobs" THEN overlay.asked
                     ELSE IF overlay.writes /\ call = "applying" THEN 1 ELSE 0]

TrimInv == promised.trimmed <= Len(promised.records["jobs"])

FileInv == RedoGives(log, 0, disk, promised)

RecoverInv == status = "recovering" => RedoGives(log, applied, mem, promised)

MemInv == status = "open" /\ ~Applying => Exactly(mem, promised)

ApplyInv ==
  call = "applying" => RedoGives(Ops(overlay), applied, mem, Promise(promised, overlay))

StagedInv == call \in {"none", "applying"} => Numbered(overlay.appends, promised, Counts, txn)

CInv == TrimInv /\ FileInv /\ RecoverInv /\ MemInv /\ ApplyInv /\ StagedInv

LEMMA CountsType == TInv => Counts \in [Streams -> Nat]
  BY DEF TInv, TxnTypes, Overlays, Counts

(* Nothing staged is numbered, whatever is promised.                       *)
LEMMA CInvEmpty ==
  ASSUME TInv', overlay' = EmptyOverlay
  PROVE  StagedInv'
  <1>1. Counts' \in [Streams -> Nat] /\ \A s \in Streams : Counts'[s] = 0
    BY DEF Counts, EmptyOverlay
  <1>2. promised' \in Promises
    BY DEF TInv, TxnTypes
  <1>3. Numbered(EmptyOverlay.appends, promised', Counts', txn')
    BY <1>1, <1>2, NothingNumbered
  <1> QED BY <1>3 DEF StagedInv

LEMMA CInvInit == Init => CInv
  <1> SUFFICES ASSUME Init PROVE CInv
    OBVIOUS
  <1>1. TInv
    BY TInvInit
  <1>2. mem \in Trees /\ promised \in Promises /\ disk = mem /\ log = <<>>
    BY <1>1 DEF TInv, StoreTypes, TxnTypes, Init
  <1>3. promised.records = [s \in Streams |-> <<>>] /\ promised.trimmed = 0 /\ promised.offset = Absent
    BY DEF Init
  <1>4. \A s \in Streams : DOMAIN promised.records[s] = {} /\ Len(promised.records[s]) = 0
    BY <1>3
  <1>5. mem.events = {} /\ mem.offset = Absent /\ \A s \in Streams : mem.meta[s] = 0
    BY DEF Init, EmptyTrees
  <1>6. Exactly(mem, promised)
    BY <1>3, <1>4, <1>5 DEF Exactly, EventsNamed
  <1>7. RedoGives(log, 0, disk, promised)
    BY <1>2, <1>6, EmptyLogGives
  <1>8. Numbered(overlay.appends, promised, Counts, txn)
    <2>1. overlay = EmptyOverlay
      BY DEF Init
    <2>2. Counts \in [Streams -> Nat] /\ \A s \in Streams : Counts[s] = 0
      BY <2>1 DEF Counts, EmptyOverlay
    <2> QED BY <1>2, <2>1, <2>2, NothingNumbered
  <1>9. TrimInv
    BY <1>3, <1>4 DEF TrimInv, Streams
  <1> QED BY <1>6, <1>7, <1>8, <1>9
          DEF Init, CInv, FileInv, RecoverInv, MemInv, ApplyInv, StagedInv

LEMMA CInvImpliesAsCommitted == TInv /\ CInv => StreamsAsCommitted
  <1> SUFFICES ASSUME TInv, CInv, status = "open", ~Applying PROVE
        /\ mem.offset = promised.offset
        /\ \A s \in Streams :
             LET all == promised.records[s]
                 kept == IF s = "jobs" THEN (promised.trimmed + 1)..Len(all) ELSE DOMAIN all
             IN  /\ mem.meta[s] = Len(all)
                 /\ {e \in mem.events : e[1] = s} = {<<s, i, all[i]>> : i \in kept}
    BY DEF StreamsAsCommitted
  <1>1. Exactly(mem, promised)
    BY DEF CInv, MemInv
  <1>2. mem \in Trees /\ promised \in Promises
    BY DEF TInv, StoreTypes, TxnTypes
  <1>3. ASSUME NEW s \in Streams
        PROVE  {e \in mem.events : e[1] = s} =
                 {<<s, i, promised.records[s][i]>> :
                    i \in IF s = "jobs" THEN (promised.trimmed + 1)..Len(promised.records[s])
                          ELSE DOMAIN promised.records[s]}
    <2> DEFINE all == promised.records[s]
               kept == IF s = "jobs" THEN (promised.trimmed + 1)..Len(all) ELSE DOMAIN all
               F == {e \in mem.events : e[1] = s}
               K == {<<s, i, all[i]>> : i \in kept}
    <2>1. DOMAIN all = 1..Len(all) /\ Len(all) \in Nat /\ promised.trimmed \in Nat
      BY <1>2 DEF Promises
    <2>2. \A i : i \in kept <=> i \in DOMAIN all /\ Kept(promised, s, i)
      BY <2>1 DEF Kept
    <2>3. \A i \in DOMAIN all : Has(mem.events, s, i) <=> Kept(promised, s, i)
      BY <1>1 DEF Exactly
    <2>4. ASSUME NEW e \in mem.events, e[1] = s
          PROVE  e[2] \in kept /\ e = <<s, e[2], all[e[2]]>>
      <3>1. e[2] \in DOMAIN all /\ e[3] = all[e[2]]
        BY <1>1, <2>4 DEF Exactly, EventsNamed, Named
      <3>2. Has(mem.events, s, e[2])
        BY <2>4 DEF Has
      <3>3. e = <<e[1], e[2], e[3]>>
        BY <1>2 DEF Trees
      <3> QED BY <2>2, <2>3, <2>4, <3>1, <3>2, <3>3
    <2>5. ASSUME NEW i \in kept PROVE <<s, i, all[i]>> \in mem.events
      <3>1. PICK e \in mem.events : e[1] = s /\ e[2] = i
        BY <2>2, <2>3 DEF Has
      <3>2. e = <<s, i, all[i]>>
        BY <2>4, <3>1
      <3> QED BY <3>1, <3>2
    <2> HIDE DEF kept, all
    <2>6. F \subseteq K
      BY <2>4
    <2>7. K \subseteq F
      <3>1. \A i : <<s, i, all[i]>>[1] = s
        OBVIOUS
      <3> QED BY <2>5, <3>1
    <2>8. F = K
      BY <2>6, <2>7
    <2> QED BY <2>8 DEF kept, all
  <1> QED BY <1>1, <1>3 DEF Exactly

(* The steps of a transaction before its log.                              *)
LEMMA CInvStaging ==
  ASSUME TInv, CInv, TInv',
         publishStream \/ setStreamOffset \/ writeGraph \/ (\E through \in Seqs : trimStream(through))
  PROVE  CInv'
  <1>1. /\ UNCHANGED <<status, mem, disk, log, txn, next_txn, call, applied, stream_epoch, reader, promised>>
        /\ Publishing
    BY DEF publishStream, setStreamOffset, writeGraph, trimStream
  <1>2. /\ status = "open" /\ call = "none" /\ ~Applying /\ txn \in Txns /\ overlay \in Overlays
        /\ overlay.appends \in Seq(Appended) /\ promised \in Promises
    BY <1>1 DEF Publishing, Applying, TInv, TxnTypes, Overlays
  <1>3. Exactly(mem, promised)
    BY <1>2 DEF CInv, MemInv
  <1>4. Numbered(overlay.appends, promised, Counts, txn) /\ Counts \in [Streams -> Nat]
    BY <1>2, CountsType DEF CInv, StagedInv
  <1>5. Numbered(overlay'.appends, promised, Counts', txn)
    <2>1. CASE publishStream
      <3>1. /\ overlay' = [overlay EXCEPT !.appends = Staged(overlay.appends, "jobs"), !.asked = overlay.asked + 1]
            /\ nextStreamSequence(overlay.appends, "jobs") \in Seqs
        BY <2>1 DEF publishStream
      <3>2. /\ overlay'.appends = Staged(overlay.appends, "jobs")
            /\ overlay'.asked = overlay.asked + 1 /\ overlay'.writes = overlay.writes
        BY <1>2, <3>1 DEF Overlays
      <3>3. /\ Counts' \in [Streams -> Nat] /\ "jobs" \in Streams
            /\ Counts'["jobs"] = Counts["jobs"] + 1
            /\ \A u \in Streams : u # "jobs" => Counts'[u] = Counts[u]
        <4>1. Counts' \in [Streams -> Nat]
          BY CountsType DEF TInv, TxnTypes, Overlays, Counts
        <4> QED BY <1>1, <3>2, <4>1 DEF Counts, Streams
      <3>4. mem.meta["jobs"] = Len(promised.records["jobs"])
        BY <1>3, <3>3 DEF Exactly
      <3> QED BY <1>2, <1>4, <3>1, <3>2, <3>3, <3>4, StagedNumbered
    <2>2. CASE setStreamOffset \/ writeGraph \/ (\E through \in Seqs : trimStream(through))
      <3>1. overlay'.appends = overlay.appends /\ overlay'.asked = overlay.asked
        BY <1>2, <2>2 DEF setStreamOffset, writeGraph, trimStream, Overlays
      <3>2. Counts' = Counts
        BY <1>1, <1>2, <3>1 DEF Counts
      <3> QED BY <1>4, <3>1, <3>2
    <2> QED BY <2>1, <2>2
  <1> QED BY <1>1, <1>2, <1>5
          DEF CInv, TrimInv, FileInv, RecoverInv, MemInv, ApplyInv, StagedInv, Applying

LEMMA CInvLogged ==
  ASSUME TInv, CInv, TInv', logTxnOverlayForCommit
  PROVE  CInv'
  <1>1. /\ UNCHANGED <<status, mem, disk, log, txn, reader, promised>>
        /\ Publishing /\ call' = "applying" /\ applied' = 0
        /\ overlay' = WithFeed(overlay)
    BY DEF logTxnOverlayForCommit
  <1>2. /\ status = "open" /\ call = "none" /\ ~Applying /\ txn \in Txns /\ overlay \in Overlays
        /\ overlay.appends \in Seq(Appended) /\ promised \in Promises
        /\ overlay' \in Overlays /\ mem \in Trees
    BY <1>1 DEF Publishing, Applying, TInv, TxnTypes, StoreTypes, Overlays
  <1>3. Exactly(mem, promised)
    BY <1>2 DEF CInv, MemInv
  <1>4. Numbered(overlay.appends, promised, Counts, txn) /\ Counts \in [Streams -> Nat]
    BY <1>2, CountsType DEF CInv, StagedInv
  <1>5. Counts' \in [Streams -> Nat] /\ \A s \in Streams : Counts'[s] = Published(overlay', s)
    <2>1. Counts' \in [Streams -> Nat]
      BY <1>2 DEF Counts, Overlays
    <2> QED BY <1>1, <2>1 DEF Counts, Published
  <1>6. Numbered(overlay'.appends, promised, Counts', txn)
    <2>1. CASE overlay.writes
      <3>1. overlay' = [overlay EXCEPT !.appends = Staged(overlay.appends, "changes")]
        BY <1>1, <2>1 DEF WithFeed
      <3>2. /\ overlay'.appends = Staged(overlay.appends, "changes")
            /\ overlay'.asked = overlay.asked /\ overlay'.writes = overlay.writes
        BY <1>2, <3>1 DEF Overlays
      <3>3. nextStreamSequence(overlay.appends, "changes") \in Seqs
        BY <2>1 DEF logTxnOverlayForCommit
      <3>4. /\ "changes" \in Streams
            /\ Counts'["changes"] = Counts["changes"] + 1
            /\ \A u \in Streams : u # "changes" => Counts'[u] = Counts[u]
        BY <1>1, <1>2, <2>1, <3>2 DEF Counts, Streams
      <3>5. mem.meta["changes"] = Len(promised.records["changes"])
        BY <1>3, <3>4 DEF Exactly
      <3> QED BY <1>2, <1>4, <1>5, <3>2, <3>3, <3>4, <3>5, StagedNumbered
    <2>2. CASE ~overlay.writes
      <3>1. overlay' = overlay
        BY <1>1, <2>2 DEF WithFeed
      <3>2. Counts' = Counts
        BY <1>1, <1>2, <2>2, <3>1 DEF Counts
      <3> QED BY <1>4, <3>1, <3>2
    <2> QED BY <2>1, <2>2
  <1>7. RedoGives(Ops(overlay'), 0, mem, Promise(promised, overlay'))
    <2>1. \A e \in mem.events : e[1] \in Streams
      BY <1>2 DEF Trees
    <2>2. promised.trimmed <= Len(promised.records["jobs"])
      BY DEF CInv, TrimInv
    <2> QED BY <1>2, <1>3, <1>5, <1>6, <2>1, <2>2, ChangesGive
  <1>8. Promise(promised, overlay)' = Promise(promised, overlay')
    BY <1>1 DEF Promise
  <1>9. ApplyInv'
    BY <1>1, <1>7, <1>8 DEF ApplyInv
  <1>10. MemInv' /\ StagedInv' /\ TrimInv' /\ FileInv' /\ RecoverInv'
    BY <1>1, <1>2, <1>3, <1>6 DEF CInv, TrimInv, FileInv, RecoverInv, MemInv, StagedInv, Applying
  <1> QED BY <1>9, <1>10 DEF CInv

LEMMA CInvApplied ==
  ASSUME TInv, CInv, TInv', applyTxnOverlay
  PROVE  CInv'
  <1>1. /\ UNCHANGED <<status, disk, log, txn, overlay, call, promised>>
        /\ call = "applying" /\ applied < Len(Ops(overlay)) /\ applied' = applied + 1
        /\ mem' = Redo(mem, Ops(overlay)[applied + 1])
    BY DEF applyTxnOverlay
  <1>2. /\ overlay \in Overlays /\ promised \in Promises /\ mem \in Trees /\ applied \in Nat
        /\ txn \in Txns /\ status = "open"
    BY <1>1 DEF TInv, TxnTypes, StoreTypes, Progress, Resting
  <1>3. Ops(overlay) \in Logs /\ Promise(promised, overlay) \in Promises
    BY <1>2, OpsType, PromiseIs DEF Logs
  <1>4. RedoGives(Ops(overlay), applied, mem, Promise(promised, overlay))
    BY <1>1 DEF CInv, ApplyInv
  <1>5. RedoGives(Ops(overlay), applied', mem', Promise(promised, overlay))
    BY <1>1, <1>2, <1>3, <1>4, RedoStep
  <1>6. Promise(promised, overlay)' = Promise(promised, overlay) /\ Ops(overlay)' = Ops(overlay)
    BY <1>1 DEF Promise, Ops
  <1>7. ApplyInv'
    BY <1>5, <1>6 DEF ApplyInv
  <1>8. applied' > 0
    BY <1>1, <1>2
  <1>9. Counts' = Counts
    BY <1>1 DEF Counts
  <1> QED BY <1>1, <1>2, <1>7, <1>8, <1>9
          DEF CInv, TrimInv, FileInv, RecoverInv, MemInv, StagedInv, Applying

LEMMA CInvCommitted ==
  ASSUME TInv, CInv, TInv', commit
  PROVE  CInv'
  <1> DEFINE Q == Promise(promised, overlay)
  <1>1. /\ UNCHANGED <<status, mem, disk>>
        /\ call = "applying" /\ applied = Len(Ops(overlay))
        /\ log' = log \o Ops(overlay) /\ promised' = Q /\ overlay' = EmptyOverlay
        /\ call' \in {"none", "broadcast"}
    BY DEF commit
  <1>2. /\ overlay \in Overlays /\ promised \in Promises /\ mem \in Trees /\ disk \in Trees
        /\ log \in Logs /\ txn \in Txns /\ status = "open"
    BY <1>1 DEF TInv, TxnTypes, StoreTypes, Resting, Logs
  <1>3. Ops(overlay) \in Logs /\ Q \in Promises
    BY <1>2, OpsType, PromiseIs DEF Logs
  <1>4. Exactly(mem, Q)
    <2>1. RedoGives(Ops(overlay), Len(Ops(overlay)), mem, Q)
      BY <1>1 DEF CInv, ApplyInv
    <2> HIDE DEF Q
    <2> QED BY <1>2, <1>3, <2>1, RedoAll
  <1>5. promised.trimmed <= Len(promised.records["jobs"])
    BY DEF CInv, TrimInv
  <1>6. RedoGives(Ops(overlay), 0, CommittedTrees(promised), Q)
    <2>1. Counts \in [Streams -> Nat] /\ \A s \in Streams : Counts[s] = Published(overlay, s)
      BY <1>1, CountsType DEF Counts, Published
    <2>2. Numbered(overlay.appends, promised, Counts, txn)
      BY <1>1 DEF CInv, StagedInv
    <2>3. /\ Exactly(CommittedTrees(promised), promised)
          /\ \A e \in CommittedTrees(promised).events : e[1] \in Streams
      BY <1>2, CommittedTreesAre
    <2> QED BY <1>2, <1>5, <2>1, <2>2, <2>3, ChangesGive
  <1>7. RedoGives(log \o Ops(overlay), 0, disk, Q)
    <2>1. Extends(promised, Q)
      BY <1>2, PromiseExtends
    <2>2. Exactly(CommittedTrees(promised), promised)
      BY <1>2, CommittedTreesAre
    <2>3. RedoGives(log, 0, disk, promised)
      BY DEF CInv, FileInv
    <2> HIDE DEF Q
    <2> QED BY <1>2, <1>3, <1>6, <2>1, <2>2, <2>3, RedoJoined
  <1>8. Q.trimmed <= Len(Q.records["jobs"])
    BY <1>2, <1>5, PromiseTrims
  <1> HIDE DEF Q
  <1>9. StagedInv'
    BY <1>1, CInvEmpty
  <1>10. TrimInv' /\ FileInv' /\ MemInv'
    BY <1>1, <1>4, <1>7, <1>8 DEF TrimInv, FileInv, MemInv
  <1>11. RecoverInv' /\ ApplyInv'
    BY <1>1, <1>2 DEF RecoverInv, ApplyInv
  <1> QED BY <1>9, <1>10, <1>11 DEF CInv

LEMMA CInvRest ==
  ASSUME TInv, CInv, TInv', Tame,
         beginTransaction \/ LogFails \/ abortTransaction \/ broadcast
         \/ (\E limit \in 1..2 : readStream(limit)) \/ Read \/ timeout
  PROVE  CInv'
  <1>1. /\ UNCHANGED <<status, mem, disk, log, applied, promised>>
        /\ status = "open"
    BY DEF beginTransaction, LogFails, abortTransaction, broadcast, readStream, Read, observe, loop,
           wake, readAgain, timeout, ReaderStep, TInv, Resting
  <1>2. ~Applying' => ~Applying
    BY DEF beginTransaction, LogFails, abortTransaction, broadcast, readStream, Read, observe, loop,
           wake, readAgain, timeout, ReaderStep, Applying
  <1>3. TrimInv' /\ FileInv' /\ RecoverInv' /\ MemInv'
    BY <1>1, <1>2 DEF CInv, TrimInv, FileInv, RecoverInv, MemInv
  <1>4. CASE beginTransaction \/ broadcast \/ abortTransaction
    <2>1. overlay' = EmptyOverlay /\ call' # "applying"
      BY <1>4 DEF beginTransaction, broadcast, abortTransaction, TInv, Resting
    <2>2. StagedInv' /\ ApplyInv'
      BY <2>1, CInvEmpty DEF ApplyInv
    <2> QED BY <1>3, <2>2 DEF CInv
  <1>5. CASE LogFails
    <2>1. call' = "failed"
      BY <1>5 DEF LogFails, Tame
    <2>2. StagedInv' /\ ApplyInv'
      BY <2>1 DEF ApplyInv, StagedInv
    <2> QED BY <1>3, <2>2 DEF CInv
  <1>6. CASE (\E limit \in 1..2 : readStream(limit)) \/ Read \/ timeout
    <2>1. UNCHANGED <<txn, overlay, call>>
      BY <1>6 DEF readStream, Read, observe, loop, wake, readAgain, timeout, ReaderStep
    <2>2. Counts' = Counts /\ Promise(promised, overlay)' = Promise(promised, overlay) /\ Ops(overlay)' = Ops(overlay)
      BY <1>1, <2>1 DEF Counts, Promise, Ops
    <2>3. StagedInv' /\ ApplyInv'
      BY <1>1, <2>1, <2>2 DEF CInv, StagedInv, ApplyInv
    <2> QED BY <1>3, <2>3 DEF CInv
  <1> QED BY <1>4, <1>5, <1>6

LEMMA CInvFiles ==
  ASSUME TInv, CInv, TInv', Tame,
         (\E tree \in {"events", "meta", "offset"} : evict(tree))
         \/ checkpoint \/ kill \/ open \/ redoPass \/ resume
  PROVE  CInv'
  <1>1. /\ mem \in Trees /\ disk \in Trees /\ log \in Logs /\ promised \in Promises
        /\ promised' = promised /\ Len(log) \in Nat
    BY DEF TInv, TxnTypes, StoreTypes, Logs, evict, checkpoint, kill, open, redoPass, resume
  <1>2. /\ FileInv /\ TrimInv'
    BY <1>1 DEF CInv, TrimInv
  <1>3. ASSUME NEW tree \in {"events", "meta", "offset"}, evict(tree) PROVE CInv'
    <2>1. /\ UNCHANGED <<status, mem, log, txn, overlay, call, applied, promised>>
          /\ disk' = [disk EXCEPT ![tree] = mem[tree]]
          /\ status # "closed" /\ txn = 0 /\ call = "none"
      BY <1>3 DEF evict, Tame
    <2>2. \E k \in 0..Len(log) : RedoGives(log, k, mem, promised)
      <3>1. CASE status = "open"
        <4>1. Exactly(mem, promised)
          BY <2>1, <3>1 DEF CInv, MemInv, Applying
        <4>2. RedoGives(log, Len(log), mem, promised)
          BY <1>1, <4>1, RedoAll
        <4> QED BY <1>1, <4>2
      <3>2. CASE status = "recovering"
        BY <3>2 DEF CInv, RecoverInv, TInv, Progress
      <3> QED BY <2>1, <3>1, <3>2 DEF TInv, TxnTypes
    <2>3. PICK k \in 0..Len(log) : RedoGives(log, k, mem, promised)
      BY <2>2
    <2>4. RedoGives(log, 0, disk', promised)
      BY <1>1, <1>2, <2>1, <2>3, TreeWritten DEF FileInv
    <2>5. FileInv'
      BY <2>1, <2>4 DEF FileInv
    <2>6. RecoverInv' /\ MemInv' /\ ApplyInv'
      BY <2>1 DEF CInv, RecoverInv, MemInv, ApplyInv, Applying
    <2>7. StagedInv'
      BY <2>1, CInvEmpty DEF TInv, Resting
    <2> QED BY <1>2, <2>5, <2>6, <2>7 DEF CInv
  <1>4. CASE checkpoint
    <2>1. /\ status = "open" /\ call = "none" /\ txn = 0 /\ disk' = mem /\ log' = <<>>
          /\ UNCHANGED <<status, mem, txn, overlay, call, applied, promised>>
      BY <1>4 DEF checkpoint
    <2>2. Exactly(mem, promised)
      BY <2>1 DEF CInv, MemInv, Applying
    <2>3. FileInv'
      BY <1>1, <2>1, <2>2, EmptyLogGives DEF FileInv
    <2>4. RecoverInv' /\ MemInv' /\ ApplyInv'
      BY <2>1, <2>2 DEF RecoverInv, MemInv, ApplyInv
    <2>5. StagedInv'
      BY <2>1, CInvEmpty DEF TInv, Resting
    <2> QED BY <1>2, <2>3, <2>4, <2>5 DEF CInv
  <1>5. CASE kill
    <2>1. status' = "closed" /\ call' = "none" /\ overlay' = EmptyOverlay /\ UNCHANGED <<disk, log, promised>>
      BY <1>5 DEF kill
    <2>2. FileInv' /\ RecoverInv' /\ MemInv' /\ ApplyInv'
      BY <1>2, <2>1 DEF FileInv, RecoverInv, MemInv, ApplyInv
    <2>3. StagedInv'
      BY <2>1, CInvEmpty
    <2> QED BY <1>2, <2>2, <2>3 DEF CInv
  <1>6. CASE open
    <2>1. /\ status' = "recovering" /\ mem' = disk /\ applied' = 0 /\ call' = "none"
          /\ overlay' = EmptyOverlay /\ UNCHANGED <<disk, log, promised>>
      BY <1>6 DEF open, TInv, Resting, Progress
    <2>2. FileInv' /\ RecoverInv' /\ MemInv' /\ ApplyInv'
      BY <1>2, <2>1 DEF FileInv, RecoverInv, MemInv, ApplyInv
    <2>3. StagedInv'
      BY <2>1, CInvEmpty
    <2> QED BY <1>2, <2>2, <2>3 DEF CInv
  <1>7. CASE redoPass
    <2>1. /\ status = "recovering" /\ status' = status /\ applied < Len(log) /\ applied' = applied + 1
          /\ mem' = Redo(mem, log[applied + 1]) /\ call' = "none" /\ applied \in Nat
          /\ overlay' = EmptyOverlay /\ UNCHANGED <<disk, log, promised>>
      BY <1>7 DEF redoPass, TInv, Resting, Progress
    <2>2. RedoGives(log, applied, mem, promised)
      BY <2>1 DEF CInv, RecoverInv
    <2>3. RedoGives(log, applied', mem', promised)
      BY <1>1, <2>1, <2>2, RedoStep
    <2>4. FileInv' /\ RecoverInv' /\ MemInv' /\ ApplyInv'
      BY <1>2, <2>1, <2>3 DEF FileInv, RecoverInv, MemInv, ApplyInv
    <2>5. StagedInv'
      BY <2>1, CInvEmpty
    <2> QED BY <1>2, <2>4, <2>5 DEF CInv
  <1>8. CASE resume
    <2>1. /\ status = "recovering" /\ status' = "open" /\ applied = Len(log)
          /\ mem' = mem /\ call' = "none"
          /\ overlay' = EmptyOverlay /\ UNCHANGED <<disk, log, promised>>
      BY <1>8 DEF resume, TInv, Resting
    <2>2. Exactly(mem, promised)
      BY <1>1, <2>1, RedoAll DEF CInv, RecoverInv
    <2>3. FileInv' /\ RecoverInv' /\ MemInv' /\ ApplyInv'
      BY <1>2, <2>1, <2>2 DEF FileInv, RecoverInv, MemInv, ApplyInv
    <2>4. StagedInv'
      BY <2>1, CInvEmpty
    <2> QED BY <1>2, <2>3, <2>4 DEF CInv
  <1> QED BY <1>3, <1>4, <1>5, <1>6, <1>7, <1>8

LEMMA CInvStep == Tame /\ TInv /\ CInv /\ [Next]_vars => CInv'
  <1> SUFFICES ASSUME Tame, TInv, CInv, [Next]_vars PROVE CInv'
    OBVIOUS
  <1>1. TInv'
    BY TInvStep
  <1>2. CASE UNCHANGED vars
    <2>1. Counts' = Counts /\ Promise(promised, overlay)' = Promise(promised, overlay) /\ Ops(overlay)' = Ops(overlay)
      BY <1>2 DEF vars, Counts, Promise, Ops
    <2> QED BY <1>2, <2>1
            DEF CInv, vars, TrimInv, FileInv, RecoverInv, MemInv, ApplyInv, StagedInv, Applying
  <1>3. CASE Next
    <2>1. CASE publishStream \/ setStreamOffset \/ writeGraph \/ (\E through \in Seqs : trimStream(through))
      BY <1>1, <2>1, CInvStaging
    <2>2. CASE logTxnOverlayForCommit
      BY <1>1, <2>2, CInvLogged
    <2>3. CASE applyTxnOverlay
      BY <1>1, <2>3, CInvApplied
    <2>4. CASE commit
      BY <1>1, <2>4, CInvCommitted
    <2>5. CASE beginTransaction \/ LogFails \/ abortTransaction \/ broadcast
               \/ (\E limit \in 1..2 : readStream(limit)) \/ Read \/ timeout
      BY <1>1, <2>5, CInvRest
    <2>6. CASE (\E tree \in {"events", "meta", "offset"} : evict(tree))
               \/ checkpoint \/ kill \/ open \/ redoPass \/ resume
      BY <1>1, <2>6, CInvFiles
    <2> QED BY <1>3, <2>1, <2>2, <2>3, <2>4, <2>5, <2>6 DEF Next, Commit
  <1> QED BY <1>2, <1>3

(* For a program that does not retry commits, over a file that receives no *)
(* changes of a commit in progress: what the streams hold between the      *)
(* changes of a commit is what was committed, through any number of        *)
(* failures, rollbacks, checkpoints and kills, also kills during recovery, *)
(* and with the trees reaching the file apart (stream/store.zig,           *)
(* recovery.zig redoPass).                                                 *)
THEOREM StreamsHoldWhatWasCommitted == Tame => (Spec => []StreamsAsCommitted)
  <1> SUFFICES ASSUME Tame PROVE Spec => []StreamsAsCommitted
    OBVIOUS
  <1>1. Init => TInv /\ CInv
    BY TInvInit, CInvInit
  <1>2. TInv /\ CInv /\ [Next]_vars => (TInv /\ CInv)'
    BY TInvStep, CInvStep
  <1>3. TInv /\ CInv => StreamsAsCommitted
    BY CInvImpliesAsCommitted
  <1> QED BY <1>1, <1>2, <1>3, PTL DEF Spec

-----------------------------------------------------------------------------
(* NInv: the reader.  What it sees are the records of the stream as        *)
(* committed, or as the commit in progress will leave them; a record that  *)
(* commit has still to append comes after all that are there.              *)

Seen == IF Applying THEN Promise(promised, overlay) ELSE promised

(* All records of P up to c that are not trimmed have been handled.        *)
Covers(P, c, handled) ==
  /\ c <= Len(P.records["jobs"])
  /\ \A i \in (P.trimmed + 1)..c : <<i, P.records["jobs"][i]>> \in handled

CursorInv == status = "open" => Covers(Seen, reader.cursor, reader.handled)

StagedOffset == overlay.offset # Absent => Covers(promised, overlay.offset, reader.handled)

OffsetInv == promised.offset # Absent => Covers(promised, promised.offset, reader.handled)

(* What is still to be appended comes last.                                *)
PendingInv ==
  call = "applying" =>
    \A j \in After(Ops(overlay), applied) :
      Ops(overlay)[j].op = "append" =>
        \A e \in mem.events : e[1] = Ops(overlay)[j].stream => e[2] < Ops(overlay)[j].arg[1]

NInv == CursorInv /\ StagedOffset /\ OffsetInv /\ PendingInv

(* Later promises are covered as far.                                      *)
LEMMA CoversLater ==
  ASSUME NEW P \in Promises, NEW o \in Overlays, txn \in Txns, P.trimmed <= Len(P.records["jobs"]),
         NEW c \in Nat, NEW H, Covers(P, c, H)
  PROVE  Covers(Promise(P, o), c, H)
  <1> DEFINE Q == Promise(P, o)
  <1>1. P.trimmed \in Nat /\ Q.trimmed \in Nat /\ P.trimmed <= Q.trimmed
    BY PromiseTrims
  <1>2. /\ Q \in Promises /\ "jobs" \in Streams
        /\ Len(Q.records["jobs"]) = Len(P.records["jobs"]) + o.asked
        /\ \A i \in 1..Len(P.records["jobs"]) : Q.records["jobs"][i] = P.records["jobs"][i]
    BY PromiseIs DEF Streams, Published
  <1>3. Len(P.records["jobs"]) \in Nat /\ o.asked \in Nat
    BY <1>2 DEF Promises, Overlays
  <1> HIDE DEF Q
  <1>4. c <= Len(Q.records["jobs"])
    BY <1>2, <1>3 DEF Covers
  <1>5. ASSUME NEW i \in (Q.trimmed + 1)..c PROVE <<i, Q.records["jobs"][i]>> \in H
    <2>1. i \in (P.trimmed + 1)..c /\ i \in 1..Len(P.records["jobs"])
      BY <1>1, <1>3, <1>5 DEF Covers
    <2> QED BY <1>2, <2>1 DEF Covers
  <1>6. Covers(Q, c, H)
    BY <1>4, <1>5 DEF Covers
  <1> QED BY <1>6 DEF Q

LEMMA CoversMore ==
  ASSUME NEW P, NEW c, NEW H, NEW K, H \subseteq K, Covers(P, c, H)
  PROVE  Covers(P, c, K)
  BY DEF Covers

(* Where a record is there, the ones before it that were not trimmed are   *)
(* there too, and all are what the reader is to see.                       *)
LEMMA NoGaps ==
  ASSUME TInv, CInv, PendingInv, status = "open"
  PROVE  /\ Seen \in Promises
         /\ EventsNamed(mem.events, Seen)
         /\ \A e \in mem.events : \A i \in Nat :
              e[1] = "jobs" /\ Seen.trimmed < i /\ i <= e[2] => Has(mem.events, "jobs", i)
  <1>1. /\ mem \in Trees /\ promised \in Promises /\ overlay \in Overlays
        /\ (Applying => txn \in Txns /\ call = "applying")
    BY DEF TInv, StoreTypes, TxnTypes, Resting, Applying
  <1>2. Seen \in Promises
    BY <1>1, PromiseIs DEF Seen
  <1>3. "jobs" \in Streams
    BY DEF Streams
  <1>4. DOMAIN Seen.records["jobs"] = 1..Len(Seen.records["jobs"]) /\ Len(Seen.records["jobs"]) \in Nat
        /\ Seen.trimmed \in Nat
    BY <1>2, <1>3 DEF Promises
  <1>5. EventsNamed(mem.events, Seen)
    <2>1. CASE Applying
      BY <1>1, <2>1 DEF CInv, ApplyInv, RedoGives, EventsGive, Seen
    <2>2. CASE ~Applying
      BY <2>2 DEF CInv, MemInv, Exactly, Seen
    <2> QED BY <2>1, <2>2
  <1>6. ASSUME NEW e \in mem.events, NEW i \in Nat, e[1] = "jobs", Seen.trimmed < i, i <= e[2]
        PROVE  Has(mem.events, "jobs", i)
    <2>1. e[2] \in Nat /\ e[2] <= Len(Seen.records["jobs"])
      BY <1>1, <1>4, <1>5, <1>6 DEF EventsNamed, Named, Trees, Seqs
    <2>2. i \in DOMAIN Seen.records["jobs"]
      BY <1>4, <1>6, <2>1
    <2>3. Kept(Seen, "jobs", i)
      BY <1>6 DEF Kept
    <2>4. CASE ~Applying
      BY <1>3, <2>2, <2>3, <2>4 DEF CInv, MemInv, Exactly, Seen
    <2>5. CASE Applying
      <3>1. EventsGive(Ops(overlay), applied, mem.events, Seen)
        BY <1>1, <2>5 DEF CInv, ApplyInv, RedoGives, Seen
      <3>2. Stays(Ops(overlay), applied, mem.events, "jobs", i)
        BY <1>3, <2>2, <2>3, <3>1 DEF EventsGive
      <3>3. ASSUME NEW j \in After(Ops(overlay), applied), AppendAt(Ops(overlay), j, "jobs", i)
            PROVE  FALSE
        <4>1. e[2] < i
          BY <1>1, <1>6, <2>5, <3>3 DEF PendingInv, AppendAt
        <4> QED BY <1>6, <2>1, <4>1
      <3> QED BY <3>2, <3>3 DEF Stays
    <2> QED BY <2>4, <2>5
  <1> QED BY <1>2, <1>5, <1>6

(* What a read returns leaves nothing out before the last record of it.    *)
LEMMA ReadCovers ==
  ASSUME TInv, CInv, PendingInv, CursorInv, status = "open", NEW limit \in 1..2,
         Return(Batch(limit)), Seen' = Seen
  PROVE  Covers(Seen, reader'.cursor, reader'.handled) /\ reader.handled \subseteq reader'.handled
  <1> DEFINE batch == Batch(limit)
             c == reader.cursor
             S == {c} \cup {e[2] : e \in batch}
             d == Max(S)
             H == {<<e[2], e[3]>> : e \in batch}
             Before(n) == {f \in mem.events : f[1] = "jobs" /\ c < f[2] /\ f[2] < n}
  <1>1. mem \in Trees /\ c \in 0..MaxSeq /\ c \in Nat /\ IsFiniteSet(mem.events)
    BY StreamsAssumption DEF TInv, StoreTypes, ReaderTypes, Readers
  <1>2. /\ batch \subseteq mem.events
        /\ d \in S /\ \A y \in S : y <= d
        /\ d \in 0..MaxSeq /\ H \subseteq Seqs \X Txns
    BY <1>1, ReadType DEF Batch
  <1>3. reader'.cursor = d /\ reader'.handled = reader.handled \cup H
    BY DEF Return, IdleReader
  <1>4. \A e \in mem.events : e \in batch <=> e[1] = "jobs" /\ e[2] > c /\ Cardinality(Before(e[2])) < limit
    BY DEF Batch, read
  <1>5. /\ Seen \in Promises
        /\ EventsNamed(mem.events, Seen)
        /\ \A e \in mem.events : \A i \in Nat :
             e[1] = "jobs" /\ Seen.trimmed < i /\ i <= e[2] => Has(mem.events, "jobs", i)
    BY NoGaps
  <1>6. Covers(Seen, c, reader.handled)
    BY DEF CursorInv
  <1>7. \A e \in mem.events : e[2] \in Nat
    BY <1>1 DEF Trees, Seqs
  <1>8. \A n : Cardinality(Before(n)) \in Nat /\ IsFiniteSet(Before(n))
    BY <1>1, FS_Subset, FS_CardinalityType
  <1>9. \A m, n \in Nat : m <= n => Cardinality(Before(m)) <= Cardinality(Before(n))
    <2>1. ASSUME NEW m \in Nat, NEW n \in Nat, m <= n PROVE Cardinality(Before(m)) <= Cardinality(Before(n))
      <3>1. Before(m) \subseteq Before(n)
        BY <1>1, <1>7, <2>1
      <3> QED BY <1>8, <3>1, FS_Subset
    <2> QED BY <2>1
  <1>10. d \in Nat /\ c <= d
    BY <1>1, <1>2, StreamsAssumption
  <1>11. CASE d = c
    BY <1>3, <1>6, <1>11, CoversMore
  <1>12. ASSUME d # c
         PROVE  Covers(Seen, d, reader.handled \cup H)
    <2>1. PICK e \in batch : e[2] = d
      BY <1>2, <1>12
    <2>2. e \in mem.events /\ e[1] = "jobs" /\ Cardinality(Before(d)) < limit
      BY <1>2, <1>4, <2>1
    <2>3. d <= Len(Seen.records["jobs"])
      <3>1. d \in DOMAIN Seen.records["jobs"]
        BY <1>5, <2>1, <2>2 DEF EventsNamed, Named
      <3>2. Seen.records["jobs"] \in Seq(Txns)
        BY <1>5 DEF Promises, Streams
      <3> QED BY <3>1, <3>2
    <2>4. Seen.trimmed \in Nat
      BY <1>5 DEF Promises
    <2>5. ASSUME NEW i \in (Seen.trimmed + 1)..d PROVE <<i, Seen.records["jobs"][i]>> \in reader.handled \cup H
      <3>1. i \in Nat /\ Seen.trimmed < i /\ i <= d
        BY <1>10, <2>4, <2>5
      <3>2. CASE i <= c
        BY <1>1, <1>6, <2>4, <3>1, <3>2 DEF Covers
      <3>3. CASE i > c
        <4>1. PICK f \in mem.events : f[1] = "jobs" /\ f[2] = i
          BY <1>5, <2>1, <2>2, <3>1 DEF Has
        <4>2. Cardinality(Before(i)) < limit
          <5> DEFINE b == Cardinality(Before(i))
                     a == Cardinality(Before(d))
          <5>1. b <= a /\ a < limit /\ a \in Nat /\ b \in Nat
            BY <1>8, <1>9, <1>10, <2>2, <3>1
          <5> HIDE DEF a, b
          <5>2. b < limit
            BY <5>1
          <5> QED BY <5>2 DEF b
        <4>3. f \in batch
          BY <1>4, <3>3, <4>1, <4>2
        <4>4. f[3] = Seen.records["jobs"][i]
          BY <1>5, <4>1 DEF EventsNamed, Named
        <4> QED BY <4>1, <4>3, <4>4
      <3> QED BY <1>1, <3>1, <3>2, <3>3
    <2> QED BY <2>3, <2>5 DEF Covers
  <1> HIDE DEF batch, c, S, d, H, Before
  <1> QED BY <1>3, <1>11, <1>12

(* Steps that leave the promises, the commit and what was handled alone.   *)
LEMMA NInvSame ==
  ASSUME NInv, UNCHANGED <<mem, txn, overlay, call, applied, promised>>,
         reader'.cursor = reader.cursor, reader'.handled = reader.handled,
         status' = "open" => status = "open"
  PROVE  NInv'
  <1>1. Seen' = Seen /\ Ops(overlay)' = Ops(overlay)
    BY DEF Seen, Applying, Promise, Ops
  <1> QED BY <1>1 DEF NInv, CursorInv, StagedOffset, OffsetInv, PendingInv

LEMMA NInvTxn ==
  ASSUME TInv, CInv, NInv, TInv', Tame,
         beginTransaction \/ publishStream \/ setStreamOffset \/ writeGraph
         \/ (\E through \in Seqs : trimStream(through)) \/ LogFails \/ abortTransaction
  PROVE  NInv'
  <1>1. /\ UNCHANGED <<status, mem, reader, promised, applied>> /\ ~Applying /\ ~Applying'
        /\ call' # "applying"
    BY DEF beginTransaction, publishStream, setStreamOffset, writeGraph, trimStream, Publishing,
           LogFails, abortTransaction, Applying, Tame
  <1>2. CursorInv' /\ OffsetInv' /\ PendingInv'
    BY <1>1 DEF NInv, CursorInv, OffsetInv, PendingInv, Seen
  <1>3. StagedOffset'
    <2>1. CASE setStreamOffset
      <3>1. overlay'.offset = reader.cursor /\ status = "open"
        BY <2>1 DEF setStreamOffset, Publishing, TInv, TxnTypes, Overlays
      <3>2. Covers(promised, reader.cursor, reader.handled)
        BY <1>1, <3>1 DEF NInv, CursorInv, Seen
      <3> QED BY <1>1, <3>1, <3>2 DEF StagedOffset
    <2>2. CASE ~setStreamOffset
      <3>1. overlay'.offset = overlay.offset \/ overlay'.offset = Absent
        <4>1. overlay \in Overlays
          BY DEF TInv, TxnTypes
        <4>2. CASE beginTransaction \/ LogFails \/ abortTransaction
          BY <4>2 DEF beginTransaction, LogFails, abortTransaction, EmptyOverlay
        <4>3. CASE publishStream
          BY <4>1, <4>3 DEF publishStream, Overlays
        <4>4. CASE writeGraph \/ \E through \in Seqs : trimStream(through)
          BY <4>1, <4>4 DEF writeGraph, trimStream, Overlays
        <4> QED BY <2>2, <4>2, <4>3, <4>4
      <3> QED BY <1>1, <3>1 DEF NInv, StagedOffset
    <2> QED BY <2>1, <2>2
  <1> QED BY <1>2, <1>3 DEF NInv

LEMMA NInvLogged ==
  ASSUME TInv, CInv, NInv, TInv', CInv', logTxnOverlayForCommit
  PROVE  NInv'
  <1>1. /\ UNCHANGED <<status, mem, txn, reader, promised>> /\ ~Applying /\ ~Applying'
        /\ status = "open" /\ call' = "applying" /\ overlay' = WithFeed(overlay) /\ txn \in Txns
        /\ overlay \in Overlays /\ overlay' \in Overlays /\ promised \in Promises /\ mem \in Trees
    BY DEF logTxnOverlayForCommit, Publishing, Applying, TInv, TxnTypes, StoreTypes
  <1>2. CursorInv' /\ OffsetInv'
    BY <1>1 DEF NInv, CursorInv, OffsetInv, Seen
  <1>3. StagedOffset'
    <2>1. overlay'.offset = overlay.offset
      BY <1>1 DEF WithFeed, Overlays
    <2> QED BY <1>1, <2>1 DEF NInv, StagedOffset
  <1>4. PendingInv'
    <2> DEFINE O == Ops(overlay')
               A == overlay'.appends
               k == applied'
    <2>1. ASSUME NEW j \in After(O, k), O[j].op = "append", NEW e \in mem.events, e[1] = O[j].stream
          PROVE  e[2] < O[j].arg[1]
      <3>1. /\ O \in Logs /\ Len(O) \in Nat /\ k = 0
            /\ \A m \in 1..Len(A) : O[m] = A[m]
            /\ \A m \in 1..Len(O) : O[m].op = "append" => m <= Len(A)
        BY <1>1, OpsFacts DEF logTxnOverlayForCommit
      <3>2. j \in 1..Len(O) /\ j \in 1..Len(A)
        BY <2>1, <3>1 DEF After
      <3>3. AppendedIs(A) /\ DOMAIN A = 1..Len(A)
        BY <1>1, AppendedFacts DEF Overlays
      <3>4. PICK s \in Streams : s = A[j].stream
        BY <3>2, <3>3 DEF AppendedIs
      <3>5. Numbered(A, promised, Counts', txn)
        BY <1>1 DEF CInv, StagedInv
      <3>6. /\ A[j].arg[1] > Len(promised.records[s]) /\ A[j].arg[1] \in Nat
            /\ Len(promised.records[s]) \in Nat
        <4>1. Len(promised.records[s]) \in Nat /\ A[j].arg[1] \in Nat
          BY <1>1, <3>2, <3>3, <3>4 DEF Promises, AppendedIs
        <4>2. A[j].arg[1] \in (Len(promised.records[s]) + 1)..(Len(promised.records[s]) + Counts'[s])
          BY <3>2, <3>3, <3>4, <3>5 DEF Numbered
        <4> QED BY <4>1, <4>2
      <3>7. e[2] \in DOMAIN promised.records[s]
        BY <1>1, <2>1, <3>1, <3>2, <3>4 DEF CInv, MemInv, Exactly, EventsNamed, Named
      <3>8. e[2] \in Nat /\ e[2] <= Len(promised.records[s])
        BY <1>1, <3>7 DEF Promises
      <3> QED BY <3>1, <3>2, <3>6, <3>8
    <2> HIDE DEF O, k
    <2>2. \A j \in After(O, k) : O[j].op = "append" =>
            \A e \in mem.events : e[1] = O[j].stream => e[2] < O[j].arg[1]
      BY <2>1
    <2> QED BY <1>1, <2>2 DEF PendingInv, O, k
  <1> QED BY <1>2, <1>3, <1>4 DEF NInv

LEMMA NInvApplied ==
  ASSUME TInv, CInv, NInv, TInv', CInv', applyTxnOverlay
  PROVE  NInv'
  <1> DEFINE O == Ops(overlay)
             r == O[applied + 1]
  <1>1. /\ UNCHANGED <<status, txn, overlay, call, reader, promised>>
        /\ call = "applying" /\ applied < Len(O) /\ applied' = applied + 1
        /\ mem' = Redo(mem, r)
    BY DEF applyTxnOverlay
  <1>2. /\ overlay \in Overlays /\ promised \in Promises /\ mem \in Trees /\ applied \in Nat
        /\ txn \in Txns /\ status = "open" /\ reader.cursor \in Nat
    BY <1>1, StreamsAssumption DEF TInv, TxnTypes, StoreTypes, Progress, Resting, ReaderTypes, Readers
  <1>3. promised.trimmed <= Len(promised.records["jobs"])
    BY DEF CInv, TrimInv
  <1>4. Promise(promised, overlay)' = Promise(promised, overlay) /\ Ops(overlay)' = Ops(overlay)
    BY <1>1 DEF Promise, Ops
  <1>5. Seen' = Promise(promised, overlay)
    BY <1>1, <1>2, <1>4 DEF Seen, Applying
  <1>6. Covers(Seen, reader.cursor, reader.handled)
    BY <1>2 DEF NInv, CursorInv
  <1>7. Covers(Promise(promised, overlay), reader.cursor, reader.handled)
    <2>1. CASE Applying
      BY <1>6, <2>1 DEF Seen
    <2>2. CASE ~Applying
      BY <1>2, <1>3, <1>6, <2>2, CoversLater DEF Seen
    <2> QED BY <2>1, <2>2
  <1>8. CursorInv' /\ StagedOffset' /\ OffsetInv'
    BY <1>1, <1>5, <1>7 DEF NInv, CursorInv, StagedOffset, OffsetInv
  <1>9. PendingInv'
    <2>1. /\ O \in Logs /\ Len(O) \in Nat
          /\ \A m \in 1..Len(overlay.appends) : O[m] = overlay.appends[m]
          /\ \A m \in 1..Len(O) : O[m].op = "append" => m <= Len(overlay.appends)
      BY <1>2, OpsFacts
    <2>2. Numbered(overlay.appends, promised, Counts, txn)
      BY <1>1 DEF CInv, StagedInv
    <2>3. DOMAIN overlay.appends = 1..Len(overlay.appends) /\ Len(overlay.appends) \in Nat
      BY <1>2 DEF Overlays
    <2>4. r \in Changes /\ applied + 1 \in 1..Len(O)
      BY <1>1, <1>2, <2>1 DEF Logs
    <2>5. After(O, applied) = {applied + 1} \cup After(O, applied + 1)
      BY <1>1, <1>2, <2>1, AfterNext
    <2>6. \A j \in After(O, applied) : O[j].op = "append" =>
            \A e \in mem.events : e[1] = O[j].stream => e[2] < O[j].arg[1]
      BY <1>1 DEF NInv, PendingInv
    <2>7. \A e \in Redo(mem, r).events :
            e \in mem.events \/ (r.op = "append" /\ e = <<r.stream, r.arg[1], r.arg[2]>>)
      BY <1>2, <2>4, RedoEvents, ChangeIs
    <2> HIDE DEF O, r
    <2>8. r = O[applied + 1]
      BY DEF r
    <2>9. ASSUME NEW j \in After(O, applied + 1), O[j].op = "append",
                 NEW e \in Redo(mem, r).events, e[1] = O[j].stream
          PROVE  e[2] < O[j].arg[1]
      <3>1. CASE e \in mem.events
        BY <2>5, <2>6, <2>9, <3>1
      <3>2. CASE e \notin mem.events
        <4>1. r.op = "append" /\ e = <<r.stream, r.arg[1], r.arg[2]>>
          BY <2>7, <2>9, <3>2
        <4>2. e[1] = r.stream /\ e[2] = r.arg[1]
          BY <4>1
        <4>3. j \in 1..Len(O) /\ applied + 1 < j
          BY <1>2, <2>1, <2>9 DEF After
        <4>4. j \in 1..Len(overlay.appends) /\ applied + 1 \in 1..Len(overlay.appends)
          BY <2>1, <2>3, <2>4, <2>8, <2>9, <4>1, <4>3
        <4>5. O[j] = overlay.appends[j] /\ r = overlay.appends[applied + 1]
          BY <2>1, <2>8, <4>4
        <4>6. overlay.appends[applied + 1].stream = overlay.appends[j].stream
          BY <2>9, <4>2, <4>5
        <4>7. \A i, m \in DOMAIN overlay.appends :
                i < m /\ overlay.appends[i].stream = overlay.appends[m].stream =>
                  overlay.appends[i].arg[1] < overlay.appends[m].arg[1]
          BY <2>2 DEF Numbered
        <4>8. overlay.appends[applied + 1].arg[1] < overlay.appends[j].arg[1]
          BY <2>3, <4>3, <4>4, <4>6, <4>7
        <4> QED BY <4>2, <4>5, <4>8
      <3> QED BY <3>1, <3>2
    <2>10. \A j \in After(O, applied + 1) : O[j].op = "append" =>
             \A e \in Redo(mem, r).events : e[1] = O[j].stream => e[2] < O[j].arg[1]
      BY <2>9
    <2> QED BY <1>1, <1>4, <2>10 DEF PendingInv, O
  <1> QED BY <1>8, <1>9 DEF NInv

LEMMA NInvCommitted ==
  ASSUME TInv, CInv, NInv, TInv', CInv', commit
  PROVE  NInv'
  <1> DEFINE Q == Promise(promised, overlay)
  <1>1. /\ UNCHANGED <<status, mem, reader>>
        /\ call = "applying" /\ applied = Len(Ops(overlay))
        /\ promised' = Q /\ overlay' = EmptyOverlay /\ call' # "applying"
    BY DEF commit
  <1>2. /\ overlay \in Overlays /\ promised \in Promises
        /\ txn \in Txns /\ status = "open" /\ reader.cursor \in Nat
    BY <1>1, StreamsAssumption DEF TInv, TxnTypes, Resting, ReaderTypes, Readers
  <1>3. promised.trimmed <= Len(promised.records["jobs"])
    BY DEF CInv, TrimInv
  <1>4. Covers(Seen, reader.cursor, reader.handled)
    BY <1>2 DEF NInv, CursorInv
  <1>5. Covers(Q, reader.cursor, reader.handled)
    <2>1. CASE Applying
      BY <1>4, <2>1 DEF Seen
    <2>2. CASE ~Applying
      BY <1>2, <1>3, <1>4, <2>2, CoversLater DEF Seen
    <2> QED BY <2>1, <2>2
  <1>6. Q.offset = IF overlay.offset = Absent THEN promised.offset ELSE overlay.offset
    BY <1>2, PromiseIs
  <1>7. Q.offset # Absent => Covers(Q, Q.offset, reader.handled)
    <2>1. Q.offset # Absent => Covers(promised, Q.offset, reader.handled)
      BY <1>6 DEF NInv, StagedOffset, OffsetInv
    <2>2. Q.offset # Absent => Q.offset \in Nat
      BY <1>2, <1>6 DEF Promises, Overlays, Offsets, Seqs
    <2>3. ASSUME NEW c \in Nat, Covers(promised, c, reader.handled) PROVE Covers(Q, c, reader.handled)
      BY <1>2, <1>3, <2>3, CoversLater
    <2> HIDE DEF Q
    <2> QED BY <2>1, <2>2, <2>3
  <1> HIDE DEF Q
  <1>8. Seen' = Q
    BY <1>1 DEF Seen, Applying
  <1>9. CursorInv' /\ OffsetInv' /\ PendingInv'
    BY <1>1, <1>5, <1>7, <1>8 DEF CursorInv, OffsetInv, PendingInv
  <1>10. StagedOffset'
    BY <1>1 DEF StagedOffset, EmptyOverlay
  <1> QED BY <1>9, <1>10 DEF NInv

LEMMA NInvReader ==
  ASSUME TInv, CInv, NInv, (\E limit \in 1..2 : readStream(limit)) \/ Read \/ timeout \/ broadcast
  PROVE  NInv'
  <1>1. /\ UNCHANGED <<status, mem, txn, overlay, applied, promised>> /\ reader \in Readers
        /\ status = "open" /\ (call' = call \/ (call = "broadcast" /\ call' = "none"))
    BY DEF readStream, Read, observe, wake, loop, readAgain, timeout, broadcast, ReaderStep, TInv,
           ReaderTypes, Resting
  <1>2. Seen' = Seen /\ Ops(overlay)' = Ops(overlay)
    BY <1>1 DEF Seen, Applying, Promise, Ops
  <1>3. StagedOffset /\ OffsetInv /\ PendingInv /\ CursorInv
    BY DEF NInv
  <1>4. PendingInv'
    BY <1>1, <1>2, <1>3 DEF PendingInv
  <1>5. ASSUME NEW limit \in 1..2, Return(Batch(limit)) PROVE NInv'
    <2>1. Covers(Seen, reader'.cursor, reader'.handled) /\ reader.handled \subseteq reader'.handled
      BY <1>1, <1>2, <1>3, <1>5, ReadCovers
    <2>2. CursorInv'
      BY <1>2, <2>1 DEF CursorInv
    <2>3. StagedOffset' /\ OffsetInv'
      <3>1. \A P, c : Covers(P, c, reader.handled) => Covers(P, c, reader'.handled)
        BY <2>1, CoversMore
      <3> QED BY <1>1, <1>3, <3>1 DEF StagedOffset, OffsetInv
    <2> QED BY <1>4, <2>2, <2>3 DEF NInv
  <1>6. ASSUME reader'.cursor = reader.cursor, reader'.handled = reader.handled PROVE NInv'
    BY <1>1, <1>2, <1>3, <1>4, <1>6 DEF NInv, CursorInv, StagedOffset, OffsetInv
  <1>7. ASSUME NEW limit \in 1..2, readStream(limit) \/ loop(limit) \/ readAgain(limit)
        PROVE  \/ Return(Batch(limit))
               \/ reader'.cursor = reader.cursor /\ reader'.handled = reader.handled
    <2>1. CASE readStream(limit)
      BY <1>1, <2>1 DEF readStream, Readers
    <2>2. CASE loop(limit)
      BY <1>1, <2>2 DEF loop, Readers
    <2>3. CASE readAgain(limit)
      BY <1>1, <2>3 DEF readAgain, Readers
    <2> QED BY <1>7, <2>1, <2>2, <2>3
  <1>8. ASSUME observe \/ wake \/ timeout \/ broadcast
        PROVE  reader'.cursor = reader.cursor /\ reader'.handled = reader.handled
    BY <1>1, <1>8 DEF observe, wake, timeout, broadcast, Readers
  <1> QED BY <1>5, <1>6, <1>7, <1>8 DEF Read

LEMMA NInvFiles ==
  ASSUME TInv, CInv, NInv,
         (\E tree \in {"events", "meta", "offset"} : evict(tree))
         \/ checkpoint \/ kill \/ open \/ redoPass \/ resume
  PROVE  NInv'
  <1>1. CASE (\E tree \in {"events", "meta", "offset"} : evict(tree)) \/ checkpoint
    <2>1. UNCHANGED <<status, mem, txn, overlay, call, applied, promised, reader>>
      BY <1>1 DEF evict, checkpoint
    <2> QED BY <2>1, NInvSame
  <1>2. CASE kill \/ open \/ redoPass
    <2>1. /\ status' # "open" /\ overlay'.offset = Absent /\ call' # "applying"
          /\ promised' = promised /\ reader'.handled = reader.handled
      BY <1>2 DEF kill, open, redoPass, EmptyOverlay, IdleReader, TInv, Resting
    <2> QED BY <2>1 DEF NInv, CursorInv, StagedOffset, OffsetInv, PendingInv
  <1>3. CASE resume
    <2>1. /\ overlay'.offset = Absent /\ call' # "applying" /\ UNCHANGED <<mem, promised>>
          /\ reader'.handled = reader.handled
          /\ reader'.cursor = IF mem.offset = Absent THEN 0 ELSE mem.offset
          /\ status = "recovering" /\ applied = Len(log)
      BY <1>3 DEF resume, EmptyOverlay, IdleReader, TInv, Resting
    <2>2. mem.offset = promised.offset
      <3>1. mem \in Trees /\ promised \in Promises /\ log \in Logs
        BY DEF TInv, TxnTypes, StoreTypes, Logs
      <3>2. RedoGives(log, Len(log), mem, promised)
        BY <2>1 DEF CInv, RecoverInv
      <3>3. Exactly(mem, promised)
        BY <3>1, <3>2, RedoAll
      <3> QED BY <3>3 DEF Exactly
    <2>3. Covers(promised, 0, reader.handled)
      <3>1. promised.trimmed \in Nat /\ Len(promised.records["jobs"]) \in Nat
        BY DEF TInv, TxnTypes, Promises, Streams
      <3> QED BY <3>1 DEF Covers
    <2>4. Covers(promised, reader'.cursor, reader.handled)
      BY <2>1, <2>2, <2>3 DEF NInv, OffsetInv
    <2>5. Seen' = promised
      BY <2>1 DEF Seen, Applying
    <2> QED BY <2>1, <2>4, <2>5 DEF NInv, CursorInv, StagedOffset, OffsetInv, PendingInv
  <1> QED BY <1>1, <1>2, <1>3

LEMMA NInvInit == Init => NInv
  <1> SUFFICES ASSUME Init PROVE NInv
    OBVIOUS
  <1>1. /\ promised.records["jobs"] = <<>> /\ promised.trimmed = 0 /\ promised.offset = Absent
        /\ overlay.offset = Absent /\ call = "none" /\ reader.cursor = 0
    BY DEF Init, EmptyOverlay, IdleReader, Streams
  <1>2. Covers(promised, 0, reader.handled)
    BY <1>1 DEF Covers
  <1>3. Seen = promised
    BY <1>1 DEF Seen, Applying
  <1> QED BY <1>1, <1>2, <1>3 DEF NInv, CursorInv, StagedOffset, OffsetInv, PendingInv

LEMMA NInvStep == Tame /\ TInv /\ CInv /\ NInv /\ [Next]_vars => NInv'
  <1> SUFFICES ASSUME Tame, TInv, CInv, NInv, [Next]_vars PROVE NInv'
    OBVIOUS
  <1>1. TInv' /\ CInv'
    BY TInvStep, CInvStep
  <1>2. CASE UNCHANGED vars
    BY <1>2, NInvSame DEF vars
  <1>3. CASE Next
    <2>1. CASE beginTransaction \/ publishStream \/ setStreamOffset \/ writeGraph
               \/ (\E through \in Seqs : trimStream(through)) \/ LogFails \/ abortTransaction
      BY <1>1, <2>1, NInvTxn
    <2>2. CASE logTxnOverlayForCommit
      BY <1>1, <2>2, NInvLogged
    <2>3. CASE applyTxnOverlay
      BY <1>1, <2>3, NInvApplied
    <2>4. CASE commit
      BY <1>1, <2>4, NInvCommitted
    <2>5. CASE (\E limit \in 1..2 : readStream(limit)) \/ Read \/ timeout \/ broadcast
      BY <2>5, NInvReader
    <2>6. CASE (\E tree \in {"events", "meta", "offset"} : evict(tree))
               \/ checkpoint \/ kill \/ open \/ redoPass \/ resume
      BY <2>6, NInvFiles
    <2> QED BY <1>3, <2>1, <2>2, <2>3, <2>4, <2>5, <2>6 DEF Next, Commit
  <1> QED BY <1>2, <1>3

(* Under the same conditions: a consumer that commits its cursor as the    *)
(* offset has been given every message before the committed offset that    *)
(* was not trimmed, however its reads come between the steps of commits    *)
(* and wherever the process dies (database.zig, readStream and             *)
(* setStreamOffset).                                                       *)
THEOREM NothingBeforeTheOffsetIsSkipped == Tame => (Spec => []NothingSkipped)
  <1> SUFFICES ASSUME Tame PROVE Spec => []NothingSkipped
    OBVIOUS
  <1>1. Init => TInv /\ CInv /\ NInv
    BY TInvInit, CInvInit, NInvInit
  <1>2. TInv /\ CInv /\ NInv /\ [Next]_vars => (TInv /\ CInv /\ NInv)'
    BY TInvStep, CInvStep, NInvStep
  <1>3. NInv => NothingSkipped
    BY DEF NInv, OffsetInv, Covers, NothingSkipped
  <1> QED BY <1>1, <1>2, <1>3, PTL DEF Spec
=============================================================================
