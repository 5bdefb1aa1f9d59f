-------------------------- MODULE Durability_proofs --------------------------
(***************************************************************************)
(* Theorems about Durability: the types, the operations of the log, the    *)
(* order of its records, and that whatever a crash leaves, the database    *)
(* opens again and holds what callers were told was committed.             *)
(***************************************************************************)
EXTENDS Durability, WellFoundedInduction, TLAPS

-----------------------------------------------------------------------------
(* Numbers.                                                                *)

LEMMA LeastExists ==
  ASSUME NEW S, S \subseteq Nat, S # {}
  PROVE  \E x \in S : \A y \in S : x <= y
  <1>1. PICK x \in S : \A y \in S : <<y, x>> \notin OpToRel(<, Nat)
    BY NatLessThanWellFounded, WFMin
  <1>2. ASSUME NEW y \in S PROVE x <= y
    <2>1. x \in Nat /\ y \in Nat
      OBVIOUS
    <2>2. ~(y < x)
      BY <1>1, <2>1 DEF OpToRel
    <2> QED BY <2>1, <2>2
  <1> QED BY <1>2

LEMMA GreatestExists ==
  ASSUME NEW S, S \subseteq Nat, S # {}, NEW b \in Nat, \A x \in S : x <= b
  PROVE  \E x \in S : \A y \in S : y <= x
  <1> DEFINE T == {b - x : x \in S}
  <1>1. T \subseteq Nat /\ T # {}
    <2>1. \A x \in S : b - x \in Nat
      OBVIOUS
    <2>2. \A d \in T : d \in Nat
      BY <2>1
    <2>3. PICK x \in S : TRUE
      OBVIOUS
    <2>4. b - x \in T
      OBVIOUS
    <2> QED BY <2>2, <2>4
  <1>2. PICK d \in T : \A e \in T : d <= e
    BY <1>1, LeastExists
  <1>3. PICK x \in S : d = b - x
    OBVIOUS
  <1>4. ASSUME NEW y \in S PROVE y <= x
    <2>1. b - y \in T
      OBVIOUS
    <2> QED BY <1>2, <1>3, <2>1
  <1> QED BY <1>4

LEMMA MaxIsGreatest ==
  ASSUME NEW S, S \subseteq Nat, S # {}, NEW b \in Nat, \A x \in S : x <= b
  PROVE  Max(S) \in S /\ \A y \in S : y <= Max(S)
  <1>1. \E x \in S : \A y \in S : x >= y
    BY GreatestExists
  <1>2. /\ Max(S) \in S
        /\ \A y \in S : Max(S) >= y
    BY <1>1 DEF Max
  <1> QED BY <1>2

-----------------------------------------------------------------------------
(* What the log is made of.                                                *)

Kinds == {"begin", "op", "commit", "abort", "checkpoint", "torn"}

Records ==
  {r \in [kind : Kinds, txn : Nat, lsn : Nat, write : {<<>>} \cup (Cells \X States)] :
     r.kind = "op" => r.write \in Cells \X States}

Headers == [frame_count : Nat, checkpoint_lsn : Nat]

Bounded(F, b) == \A i \in DOMAIN F : \A r \in F[i] : r.lsn <= b

WalFields(w) ==
  w \in [frames : Seq(SUBSET Records), synced : Seq(SUBSET Records), header : Headers,
         headers : SUBSET Headers, current : SUBSET Records, next_lsn : Nat]

WalBound(w, b) ==
  Bounded(w.frames, b) /\ Bounded(w.synced, b) /\ \A r \in w.current : r.lsn <= b

WalType(w) ==
  /\ WalFields(w) /\ w.header \in w.headers
  /\ \E b \in Nat : WalBound(w, b)

LEMMA WalFieldTypes ==
  ASSUME NEW w, WalType(w)
  PROVE  /\ w.frames \in Seq(SUBSET Records) /\ w.synced \in Seq(SUBSET Records)
         /\ w.header \in Headers /\ w.headers \subseteq Headers /\ w.header \in w.headers
         /\ w.current \subseteq Records /\ w.next_lsn \in Nat
         /\ w.header.frame_count \in Nat /\ w.header.checkpoint_lsn \in Nat
         /\ DOMAIN w.frames = 1..Len(w.frames) /\ Len(w.frames) \in Nat
         /\ DOMAIN w.synced = 1..Len(w.synced) /\ Len(w.synced) \in Nat
  <1>1. /\ w.frames \in Seq(SUBSET Records) /\ w.synced \in Seq(SUBSET Records)
        /\ w.header \in Headers /\ w.headers \subseteq Headers /\ w.header \in w.headers
        /\ w.current \subseteq Records /\ w.next_lsn \in Nat
    BY DEF WalType, WalFields
  <1> QED BY <1>1 DEF Headers

\* Equality of logs is equality of their fields.
Fields == {"frames", "synced", "header", "headers", "current", "next_lsn"}

LEMMA SixFields ==
  ASSUME NEW u, DOMAIN u = Fields, u = [x \in DOMAIN u |-> u[x]]
  PROVE  u = [frames |-> u.frames, synced |-> u.synced, header |-> u.header,
              headers |-> u.headers, current |-> u.current, next_lsn |-> u.next_lsn]
  BY DEF Fields

\* The frames of a flush: those before frame_count stay, the next is new.
Flushed(w) ==
  LET n == w.header.frame_count + 1
      m == IF n > Len(w.frames) THEN n ELSE Len(w.frames)
  IN  [i \in 1..m |-> IF i = n THEN w.current
                      ELSE IF i <= Len(w.frames) THEN w.frames[i] ELSE {}]

NextHeader(w) == [frame_count |-> w.header.frame_count + 1,
                  checkpoint_lsn |-> w.header.checkpoint_lsn]

LEMMA FlushFields ==
  ASSUME NEW w, WalType(w)
  PROVE  /\ w.current = {} => flushCurrentFrame(w) = w
         /\ w.current # {} =>
              flushCurrentFrame(w) =
                [frames |-> Flushed(w), synced |-> w.synced, header |-> NextHeader(w),
                 headers |-> w.headers \cup {NextHeader(w)}, current |-> {},
                 next_lsn |-> w.next_lsn]
  <1>1. CASE w.current = {}
    BY <1>1 DEF flushCurrentFrame
  <1>2. CASE w.current # {}
    <2> DEFINE n == w.header.frame_count + 1
               h == [w.header EXCEPT !.frame_count = n]
    <2>1. h = NextHeader(w)
      BY WalFieldTypes DEF NextHeader, Headers
    <2>2. flushCurrentFrame(w) = [w EXCEPT !.frames = Flushed(w), !.header = h,
                                           !.headers = w.headers \cup {h}, !.current = {}]
      BY <1>2 DEF flushCurrentFrame, Flushed
    <2> HIDE DEF h
    <2> DEFINE F == Flushed(w)
               H == w.headers \cup {h}
    <2> HIDE DEF F, H
    <2>3. [w EXCEPT !.frames = F, !.header = h, !.headers = H, !.current = {}]
            = [frames |-> F, synced |-> w.synced, header |-> h, headers |-> H, current |-> {},
               next_lsn |-> w.next_lsn]
      <3> DEFINE u == [w EXCEPT !.frames = F, !.header = h, !.headers = H, !.current = {}]
      <3>1. DOMAIN w = Fields
        BY DEF WalType, WalFields, Fields
      <3>2. /\ DOMAIN u = DOMAIN w /\ u = [x \in DOMAIN u |-> u[x]]
            /\ u.frames = F /\ u.synced = w.synced /\ u.header = h /\ u.headers = H
            /\ u.current = {} /\ u.next_lsn = w.next_lsn
        BY <3>1 DEF Fields
      <3> HIDE DEF u
      <3> QED BY <3>1, <3>2, SixFields DEF u
    <2> QED BY <1>2, <2>1, <2>2, <2>3 DEF F, H
  <1> QED BY <1>1, <1>2

LEMMA FlushedFrames ==
  ASSUME NEW w, WalType(w)
  PROVE  /\ Flushed(w) \in Seq(SUBSET Records)
         /\ Len(Flushed(w)) \in Nat /\ Len(Flushed(w)) >= w.header.frame_count + 1
         /\ Len(Flushed(w)) >= Len(w.frames) /\ DOMAIN Flushed(w) = 1..Len(Flushed(w))
         /\ Flushed(w)[w.header.frame_count + 1] = w.current
         /\ \A i \in DOMAIN Flushed(w) :
              i # w.header.frame_count + 1 =>
                Flushed(w)[i] = IF i <= Len(w.frames) THEN w.frames[i] ELSE {}
  <1> DEFINE n == w.header.frame_count + 1
             m == IF n > Len(w.frames) THEN n ELSE Len(w.frames)
  <1>1. n \in Nat /\ m \in Nat /\ m >= n /\ m >= Len(w.frames) /\ n >= 1
    BY WalFieldTypes
  <1>2. \A i \in 1..m : (IF i = n THEN w.current
                         ELSE IF i <= Len(w.frames) THEN w.frames[i] ELSE {}) \in SUBSET Records
    BY <1>1, WalFieldTypes
  <1>3. Flushed(w) = [i \in 1..m |-> IF i = n THEN w.current
                                     ELSE IF i <= Len(w.frames) THEN w.frames[i] ELSE {}]
    BY DEF Flushed
  <1> HIDE DEF m, n
  <1>4. Flushed(w) \in Seq(SUBSET Records) /\ Len(Flushed(w)) = m
    BY <1>1, <1>2, <1>3
  <1>5. Flushed(w)[n] = w.current /\ n = w.header.frame_count + 1 /\ DOMAIN Flushed(w) = 1..m
    BY <1>1, <1>3 DEF n
  <1>6. \A i \in 1..m : i # n => Flushed(w)[i] = IF i <= Len(w.frames) THEN w.frames[i] ELSE {}
    BY <1>3
  <1> QED BY <1>1, <1>4, <1>5, <1>6

LEMMA FlushType ==
  ASSUME NEW w, WalType(w)
  PROVE  WalType(flushCurrentFrame(w)) /\ flushCurrentFrame(w).next_lsn = w.next_lsn
  <1>1. CASE w.current = {}
    BY <1>1, FlushFields
  <1>2. CASE w.current # {}
    <2> DEFINE f == flushCurrentFrame(w)
    <2>1. f = [frames |-> Flushed(w), synced |-> w.synced, header |-> NextHeader(w),
               headers |-> w.headers \cup {NextHeader(w)}, current |-> {},
               next_lsn |-> w.next_lsn]
      BY <1>2, FlushFields
    <2> HIDE DEF f
    <2>2. NextHeader(w) \in Headers
      BY WalFieldTypes DEF NextHeader, Headers
    <2>3. WalFields(f) /\ f.header \in f.headers
      BY <2>1, <2>2, FlushedFrames, WalFieldTypes DEF WalFields
    <2>4. PICK b \in Nat : WalBound(w, b)
      BY DEF WalType
    <2>5. Bounded(Flushed(w), b)
      BY <2>4, FlushedFrames, WalFieldTypes DEF WalBound, Bounded
    <2>6. WalBound(f, b)
      BY <2>1, <2>4, <2>5 DEF WalBound
    <2>7. f.next_lsn = w.next_lsn
      BY <2>1
    <2> QED BY <2>3, <2>6, <2>7 DEF WalType, f
  <1> QED BY <1>1, <1>2

LEMMA FsyncFields ==
  ASSUME NEW w, WalType(w)
  PROVE  Fsync(w) = [frames |-> w.frames, synced |-> w.frames, header |-> w.header,
                     headers |-> {w.header}, current |-> w.current, next_lsn |-> w.next_lsn]
  <1> DEFINE u == Fsync(w)
  <1>1. DOMAIN w = Fields
    BY DEF WalType, WalFields, Fields
  <1>2. /\ DOMAIN u = DOMAIN w /\ u = [x \in DOMAIN u |-> u[x]]
        /\ u.frames = w.frames /\ u.synced = w.frames /\ u.header = w.header
        /\ u.headers = {w.header} /\ u.current = w.current /\ u.next_lsn = w.next_lsn
    BY <1>1 DEF Fields, Fsync
  <1> HIDE DEF u
  <1> QED BY <1>1, <1>2, SixFields DEF u

LEMMA FsyncType ==
  ASSUME NEW w, WalType(w)
  PROVE  WalType(Fsync(w))
  <1> DEFINE f == Fsync(w)
  <1>1. f = [frames |-> w.frames, synced |-> w.frames, header |-> w.header,
             headers |-> {w.header}, current |-> w.current, next_lsn |-> w.next_lsn]
    BY FsyncFields
  <1> HIDE DEF f
  <1>2. WalFields(f) /\ f.header \in f.headers
    BY <1>1, WalFieldTypes DEF WalFields
  <1>3. \E b \in Nat : WalBound(f, b)
    BY <1>1 DEF WalType, WalBound
  <1> QED BY <1>2, <1>3 DEF WalType, f

LEMMA AppendFields ==
  ASSUME NEW w, WalType(w), NEW kind, NEW t, NEW write
  PROVE  LET f == IF Cardinality(w.current) = FrameCap THEN flushCurrentFrame(w) ELSE w
         IN  /\ WalType(f) /\ f.next_lsn = w.next_lsn
             /\ appendRecord(w, kind, t, write) =
                  [frames |-> f.frames, synced |-> f.synced, header |-> f.header,
                   headers |-> f.headers,
                   current |-> f.current \cup {Record(kind, t, w.next_lsn, write)},
                   next_lsn |-> w.next_lsn + 1]
  <1> DEFINE f == IF Cardinality(w.current) = FrameCap THEN flushCurrentFrame(w) ELSE w
  <1>1. WalType(f) /\ f.next_lsn = w.next_lsn
    BY FlushType
  <1>2. appendRecord(w, kind, t, write) =
          [f EXCEPT !.current = @ \cup {Record(kind, t, f.next_lsn, write)}, !.next_lsn = @ + 1]
    BY DEF appendRecord
  <1> HIDE DEF f
  <1>3. appendRecord(w, kind, t, write) =
          [frames |-> f.frames, synced |-> f.synced, header |-> f.header, headers |-> f.headers,
           current |-> f.current \cup {Record(kind, t, f.next_lsn, write)},
           next_lsn |-> f.next_lsn + 1]
    BY <1>1, <1>2 DEF WalType, WalFields
  <1> QED BY <1>1, <1>3 DEF f

IsWrite(kind, write) ==
  /\ kind \in Kinds /\ write \in {<<>>} \cup (Cells \X States)
  /\ kind = "op" => write \in Cells \X States

LEMMA AppendType ==
  ASSUME NEW w, WalType(w), NEW kind, NEW t \in Nat, NEW write, IsWrite(kind, write)
  PROVE  WalType(appendRecord(w, kind, t, write))
  <1> DEFINE f == IF Cardinality(w.current) = FrameCap THEN flushCurrentFrame(w) ELSE w
             a == appendRecord(w, kind, t, write)
             r == Record(kind, t, w.next_lsn, write)
  <1>1. /\ WalType(f) /\ f.next_lsn = w.next_lsn
        /\ a = [frames |-> f.frames, synced |-> f.synced, header |-> f.header,
                headers |-> f.headers, current |-> f.current \cup {r},
                next_lsn |-> w.next_lsn + 1]
    BY AppendFields
  <1>2. r \in Records /\ r.lsn = w.next_lsn /\ w.next_lsn \in Nat
    BY WalFieldTypes DEF Record, Records, IsWrite
  <1> HIDE DEF f, a, r
  <1>3. WalFields(a) /\ a.header \in a.headers
    BY <1>1, <1>2, WalFieldTypes DEF WalFields
  <1>4. PICK b \in Nat : WalBound(f, b)
    BY <1>1 DEF WalType
  <1>5. PICK d \in Nat : d >= b /\ d >= w.next_lsn
    BY <1>2
  <1>6. ASSUME NEW F \in Seq(SUBSET Records), Bounded(F, b) PROVE Bounded(F, d)
    BY <1>5, <1>6 DEF Bounded, Records
  <1>7. \A q \in f.current : q.lsn <= d
    <2>1. \A q \in f.current : q.lsn \in Nat
      BY <1>1, WalFieldTypes DEF Records
    <2>2. \A q \in f.current : q.lsn <= b
      BY <1>4 DEF WalBound
    <2> QED BY <1>5, <2>1, <2>2
  <1>8. WalBound(a, d)
    BY <1>1, <1>2, <1>4, <1>5, <1>6, <1>7, WalFieldTypes DEF WalBound
  <1> QED BY <1>3, <1>8 DEF WalType, a

LEMMA SyncType ==
  ASSUME NEW w, WalType(w)
  PROVE  WalType(sync(w))
  BY FlushType, FsyncType DEF sync

LEMMA SetCheckpointFields ==
  ASSUME NEW w, WalType(w), NEW lsn
  PROVE  LET h == [frame_count |-> w.header.frame_count, checkpoint_lsn |-> lsn]
         IN  setCheckpointLsn(w, lsn) =
               [frames |-> w.frames, synced |-> w.synced, header |-> h,
                headers |-> w.headers \cup {h}, current |-> w.current, next_lsn |-> w.next_lsn]
  <1> DEFINE h == [w.header EXCEPT !.checkpoint_lsn = lsn]
  <1>1. h = [frame_count |-> w.header.frame_count, checkpoint_lsn |-> lsn]
    BY WalFieldTypes DEF Headers
  <1>2. setCheckpointLsn(w, lsn) = [w EXCEPT !.header = h, !.headers = @ \cup {h}]
    BY DEF setCheckpointLsn
  <1> HIDE DEF h
  <1> QED BY <1>1, <1>2 DEF WalType, WalFields

LEMMA SetCheckpointType ==
  ASSUME NEW w, WalType(w), NEW lsn \in Nat
  PROVE  WalType(setCheckpointLsn(w, lsn))
  <1> DEFINE h == [frame_count |-> w.header.frame_count, checkpoint_lsn |-> lsn]
             s == setCheckpointLsn(w, lsn)
  <1>1. s = [frames |-> w.frames, synced |-> w.synced, header |-> h,
             headers |-> w.headers \cup {h}, current |-> w.current, next_lsn |-> w.next_lsn]
    BY SetCheckpointFields
  <1>2. h \in Headers
    BY WalFieldTypes DEF Headers
  <1> HIDE DEF h, s
  <1>3. WalFields(s) /\ s.header \in s.headers
    BY <1>1, <1>2, WalFieldTypes DEF WalFields
  <1>4. \E b \in Nat : WalBound(s, b)
    BY <1>1 DEF WalType, WalBound
  <1> QED BY <1>3, <1>4 DEF WalType, s

-----------------------------------------------------------------------------
(* What recovery reads.                                                    *)

LEMMA RecordFields ==
  ASSUME NEW r \in Records
  PROVE  /\ r.kind \in Kinds /\ r.txn \in Nat /\ r.lsn \in Nat
         /\ r.kind = "op" => /\ r.write \in Cells \X States
                             /\ r.write[1] \in Cells /\ r.write[2] \in States
  BY DEF Records

LEMMA LogEndIsFirst ==
  ASSUME NEW w, WalType(w)
  PROVE  /\ LogEnd(w) \in 1..(w.header.frame_count + 1)
         /\ LogEnd(w) = w.header.frame_count + 1 \/ Unreadable(w, LogEnd(w))
         /\ \A j \in 1..(LogEnd(w) - 1) : ~Unreadable(w, j)
  <1> DEFINE n == w.header.frame_count + 1
             S == {i \in 1..n : i = n \/ Unreadable(w, i)}
  <1>1. n \in Nat /\ n >= 1
    BY WalFieldTypes
  <1> HIDE DEF n
  <1>2. S \subseteq Nat /\ n \in S
    BY <1>1
  <1>3. PICK i \in S : \A j \in S : i <= j
    BY <1>2, LeastExists
  <1>4. /\ i \in 1..n /\ (i = n \/ Unreadable(w, i))
        /\ \A j \in 1..(i - 1) : ~Unreadable(w, j)
    <2>1. i \in 1..n /\ (i = n \/ Unreadable(w, i))
      OBVIOUS
    <2>2. ASSUME NEW j \in 1..(i - 1) PROVE ~Unreadable(w, j)
      <3>1. j \in 1..n /\ ~(i <= j)
        BY <1>1, <2>1
      <3> QED BY <1>3, <3>1
    <2> QED BY <2>1, <2>2
  <1>5. LogEnd(w) = CHOOSE k \in 1..n : /\ k = n \/ Unreadable(w, k)
                                        /\ \A j \in 1..(k - 1) : ~Unreadable(w, j)
    BY DEF LogEnd, n
  <1>6. /\ LogEnd(w) \in 1..n /\ (LogEnd(w) = n \/ Unreadable(w, LogEnd(w)))
        /\ \A j \in 1..(LogEnd(w) - 1) : ~Unreadable(w, j)
    BY <1>4, <1>5, Zenon
  <1> QED BY <1>6 DEF n

LEMMA ReadableRecords ==
  ASSUME NEW w, WalType(w)
  PROVE  /\ Readable(w) \subseteq Records
         /\ \A r \in Readable(w) :
              \E i \in DOMAIN w.frames : i <= w.header.frame_count /\ r \in w.frames[i]
         /\ \A b : WalBound(w, b) => \A r \in Readable(w) : r.lsn <= b
  <1>1. \A i \in 1..(LogEnd(w) - 1) : i \in DOMAIN w.frames /\ i <= w.header.frame_count
    BY LogEndIsFirst, WalFieldTypes DEF Unreadable
  <1>2. \A r \in Readable(w) :
          \E i \in DOMAIN w.frames : i <= w.header.frame_count /\ r \in w.frames[i]
    BY <1>1 DEF Readable
  <1>3. \A i \in DOMAIN w.frames : w.frames[i] \subseteq Records
    BY WalFieldTypes
  <1> QED BY <1>2, <1>3 DEF WalBound, Bounded

LEMMA NextLsnIsNew ==
  ASSUME NEW w, WalType(w)
  PROVE  NextLsn(w) \in Nat /\ NextLsn(w) >= 1 /\ \A r \in Readable(w) : r.lsn < NextLsn(w)
  <1> DEFINE S == {0} \cup {r.lsn : r \in Readable(w)}
  <1>1. PICK b \in Nat : WalBound(w, b)
    BY DEF WalType
  <1>2. \A r \in Readable(w) : r.lsn \in Nat /\ r.lsn <= b
    BY <1>1, ReadableRecords, RecordFields
  <1>3. S \subseteq Nat /\ S # {} /\ \A x \in S : x <= b
    BY <1>1, <1>2
  <1>4. Max(S) \in S /\ \A y \in S : y <= Max(S)
    <2> HIDE DEF S
    <2> QED BY <1>1, <1>3, MaxIsGreatest
  <1>5. NextLsn(w) = 1 + Max(S)
    BY DEF NextLsn
  <1>6. \A r \in Readable(w) : r.lsn <= Max(S)
    BY <1>4
  <1> HIDE DEF S
  <1>7. Max(S) \in Nat
    BY <1>3, <1>4
  <1>8. NextLsn(w) \in Nat /\ NextLsn(w) >= 1
    BY <1>5, <1>7
  <1>9. \A r \in Readable(w) : r.lsn < NextLsn(w)
    BY <1>2, <1>5, <1>6, <1>7
  <1> QED BY <1>8, <1>9

\* The last write to a cell in a bounded set of writes.
LEMMA LastWriteExists ==
  ASSUME NEW b \in Nat, NEW R, R \subseteq Records, \A r \in R : r.lsn <= b, NEW c,
         \E r \in R : r.write[1] = c
  PROVE  \E r \in R : /\ r.write[1] = c
                      /\ \A s \in R : s.write[1] = c => s.lsn <= r.lsn
  <1> DEFINE S == {r.lsn : r \in {q \in R : q.write[1] = c}}
  <1>1. \A r \in R : r.lsn \in Nat
    BY RecordFields
  <1>2. S \subseteq Nat /\ S # {} /\ \A x \in S : x <= b
    BY <1>1
  <1>3. PICK x \in S : \A y \in S : y <= x
    <2> HIDE DEF S
    <2> QED BY <1>2, GreatestExists
  <1>4. PICK r \in R : r.write[1] = c /\ x = r.lsn
    OBVIOUS
  <1>5. \A s \in R : s.write[1] = c => s.lsn \in S
    OBVIOUS
  <1> QED BY <1>3, <1>4, <1>5

Redo(w) == {r \in Scanned(w) : r.kind = "op" /\ Committed(w, r.txn)}

\* A cell that no record redoes keeps what the file has; another gets its
\* last record's value.
LEMMA RecoveredCells ==
  ASSUME NEW w, WalType(w), NEW f
  PROVE  /\ Recovered(w, f) = [c \in Cells |-> Recovered(w, f)[c]]
         /\ \A c \in Cells :
              \/ /\ \A r \in Redo(w) : r.write[1] # c
                 /\ Recovered(w, f)[c] = f[c]
              \/ \E r \in Redo(w) : /\ r.write[1] = c /\ Recovered(w, f)[c] = r.write[2]
                                    /\ \A s \in Redo(w) : s.write[1] = c => s.lsn <= r.lsn
  <1> DEFINE R == Redo(w)
             last(c) == CHOOSE r \in R : /\ r.write[1] = c
                                         /\ \A s \in R : s.write[1] = c => s.lsn <= r.lsn
  <1>1. PICK b \in Nat : WalBound(w, b)
    BY DEF WalType
  <1>2. R \subseteq Records /\ \A r \in R : r.lsn <= b
    BY <1>1, ReadableRecords DEF Redo, Scanned
  <1>3. Recovered(w, f) = [c \in Cells |-> IF \E r \in R : r.write[1] = c
                                           THEN last(c).write[2] ELSE f[c]]
    BY DEF Recovered, Redo
  <1> HIDE DEF R
  <1>4. ASSUME NEW c \in Cells, \E r \in R : r.write[1] = c
        PROVE  /\ last(c) \in R /\ last(c).write[1] = c
               /\ \A s \in R : s.write[1] = c => s.lsn <= last(c).lsn
    <2>1. \E r \in R : /\ r.write[1] = c
                       /\ \A s \in R : s.write[1] = c => s.lsn <= r.lsn
      BY <1>1, <1>2, <1>4, LastWriteExists
    <2> QED BY <2>1, Zenon
  <1> HIDE DEF last
  <1>5. ASSUME NEW c \in Cells
        PROVE  \/ /\ \A r \in R : r.write[1] # c
                  /\ Recovered(w, f)[c] = f[c]
               \/ \E r \in R : /\ r.write[1] = c /\ Recovered(w, f)[c] = r.write[2]
                               /\ \A s \in R : s.write[1] = c => s.lsn <= r.lsn
    BY <1>3, <1>4
  <1> QED BY <1>3, <1>5 DEF R

LEMMA RecoveredType ==
  ASSUME NEW w, WalType(w), NEW f \in [Cells -> States]
  PROVE  Recovered(w, f) \in [Cells -> States]
  <1>1. \A r \in Redo(w) : r.write[2] \in States
    BY ReadableRecords, RecordFields DEF Redo, Scanned
  <1>2. \A c \in Cells : Recovered(w, f)[c] \in States
    BY <1>1, RecoveredCells
  <1> QED BY <1>2, RecoveredCells

\* What a power loss leaves of the log is a log.
LEMMA SurvivorsType ==
  ASSUME NEW w, WalType(w), NEW frames \in Survivors(w)
  PROVE  /\ frames \in Seq(SUBSET Records)
         /\ \A b \in Nat : WalBound(w, b) => Bounded(frames, b)
  <1> DEFINE lengths == {Len(w.synced), Len(w.frames)}
             left(L, T, n) ==
               [i \in 1..n |-> IF i \in T THEN Torn
                               ELSE IF i \in DOMAIN w.frames \ L THEN w.frames[i]
                               ELSE IF i \in DOMAIN w.synced THEN w.synced[i]
                               ELSE {}]
  <1> DEFINE reordered(i) == IF i \in DOMAIN w.synced THEN "stale" ELSE "zero"
             Ls == SUBSET {i \in Unsynced(w) : reordered(i) \in Faults}
             Ts == SUBSET {i \in Unsynced(w) : i = w.header.frame_count /\ "torn" \in Faults}
             Ns == {m \in Min(lengths)..Max(lengths) : m = Max(lengths) \/ "short" \in Faults}
  <1>0. Survivors(w) = {left(L, T, n) : L \in Ls, T \in Ts, n \in Ns}
    BY DEF Survivors, Losses
  <1>1. PICK L, T, n : n \in Min(lengths)..Max(lengths) /\ frames = left(L, T, n)
    <2> HIDE DEF Ls, Ts, Ns, left
    <2>0. frames \in {left(L, T, n) : L \in Ls, T \in Ts, n \in Ns}
      BY <1>0
    <2>1. \E L \in Ls : \E T \in Ts : \E n \in Ns : frames = left(L, T, n)
      BY <2>0
    <2> QED BY <2>1 DEF Ns
  <1>2. lengths \subseteq Nat /\ lengths # {} /\ Len(w.synced) \in Nat /\ Len(w.frames) \in Nat
    BY WalFieldTypes
  <1>3. Min(lengths) \in Nat
    <2>1. PICK x \in lengths : \A y \in lengths : x <= y
      <3> HIDE DEF lengths
      <3> QED BY <1>2, LeastExists
    <2>2. Min(lengths) \in lengths
      <3> HIDE DEF lengths
      <3> QED BY <2>1, Zenon DEF Min
    <2> QED BY <1>2, <2>2
  <1>4. Max(lengths) \in Nat
    <2>1. PICK x \in lengths : \A y \in lengths : x >= y
      BY <1>2
    <2>2. Max(lengths) \in lengths
      <3> HIDE DEF lengths
      <3> QED BY <2>1, Zenon DEF Max
    <2> QED BY <1>2, <2>2
  <1> HIDE DEF lengths
  <1>5. n \in Nat
    BY <1>1, <1>3, <1>4
  <1>6. Torn \subseteq Records /\ \A r \in Torn : r.lsn = 0
    BY DEF Torn, Record, Records, Kinds
  <1>7. \A i \in 1..n : frames[i] \in {Torn, {}} \cup {w.frames[j] : j \in DOMAIN w.frames}
                                      \cup {w.synced[j] : j \in DOMAIN w.synced}
    BY <1>1
  <1>8. \A i \in 1..n : frames[i] \in SUBSET Records
    BY <1>6, <1>7, WalFieldTypes
  <1>9. frames = [i \in 1..n |-> frames[i]]
    BY <1>1
  <1> HIDE DEF left
  <1>10. frames \in Seq(SUBSET Records)
    BY <1>5, <1>8, <1>9
  <1>11. ASSUME NEW b \in Nat, WalBound(w, b) PROVE Bounded(frames, b)
    <2>1. DOMAIN frames = 1..n
      BY <1>9
    <2>2. ASSUME NEW i \in 1..n, NEW r \in frames[i] PROVE r.lsn <= b
      <3>1. CASE frames[i] \in {Torn, {}}
        BY <1>6, <2>2, <3>1
      <3>2. CASE \E j \in DOMAIN w.frames : frames[i] = w.frames[j]
        BY <1>11, <2>2, <3>2 DEF WalBound, Bounded
      <3>3. CASE \E j \in DOMAIN w.synced : frames[i] = w.synced[j]
        BY <1>11, <2>2, <3>3 DEF WalBound, Bounded
      <3> QED BY <1>7, <3>1, <3>2, <3>3
    <2> QED BY <2>1, <2>2 DEF Bounded
  <1> QED BY <1>10, <1>11

-----------------------------------------------------------------------------
(* The types.  A call of a transaction is of an open one, and what it has  *)
(* still to log the transaction has written.                               *)

Calls ==
  [op : {"none", "commit", "abort", "full", "truncate"}, txn : Nat,
   at : {"-", "logging", "applied", "flushed", "begin", "pages", "end", "final", "truncate",
         "truncated"},
   left : SUBSET Cells]

TInv ==
  /\ TypeOK
  /\ WalType(wal)
  /\ call \in Calls
  /\ call.op \in {"commit", "abort"} => call.txn \in active
  /\ call.at = "logging" => call.left \subseteq Written(call.txn)

LEMMA Bounds == {MaxTxn, MaxSessions, AutoFrames, MaxLsn} \subseteq Nat
  BY DurabilityAssumption

\* What is lost with the process has its type again.
LEMMA ForgetType ==
  ASSUME Forget
  PROVE  /\ mem' \in [Cells -> States] /\ next_txn' \in 1..(MaxTxn + 1) /\ active' = {}
         /\ overlay' \in [Ids -> [Cells -> States \cup {NoEntry}]] /\ writer' = 0
         /\ call' = NoCall /\ call' \in Calls
  BY Bounds DEF Forget, AllAbsent, States, EmptyOverlay, NoCall, Calls

LEMMA TInit == Init => TInv
  <1> SUFFICES ASSUME Init PROVE TInv
    OBVIOUS
  <1>1. TypeOK
    BY Bounds DEF Init, TypeOK, AllAbsent, States, EmptyOverlay, NewHeader
  <1>2. WalType(wal)
    <2>1. WalFields(wal) /\ wal.header \in wal.headers
      BY DEF Init, WalFields, NewHeader, Headers
    <2>2. WalBound(wal, 0)
      BY DEF Init, WalBound, Bounded
    <2> QED BY <2>1, <2>2 DEF WalType
  <1>3. call \in Calls /\ call.op = "none" /\ call.at = "-"
    BY DEF Init, NoCall, Calls
  <1> QED BY <1>1, <1>2, <1>3 DEF TInv

\* The steps, by what they leave alone.
LEMMA WalSteps ==
  ASSUME TInv
  PROVE  /\ \A kind, t, write : t \in Nat /\ IsWrite(kind, write)
                                  => WalType(appendRecord(wal, kind, t, write))
         /\ WalType(Fsync(wal)) /\ WalType(sync(wal)) /\ WalType(WrittenBack(wal))
         /\ \A kind, t : t \in Nat /\ kind \in Kinds \ {"op"}
                           => /\ WalType(appendRecord(wal, kind, t, <<>>))
                              /\ WalType(flushCurrentFrame(appendRecord(wal, kind, t, <<>>)))
                              /\ WalType(sync(appendRecord(wal, kind, t, <<>>)))
                              /\ WalType(setCheckpointLsn(appendRecord(wal, kind, t, <<>>),
                                                          wal.next_lsn))
  <1>1. WalType(wal) /\ wal.next_lsn \in Nat
    BY WalFieldTypes DEF TInv
  <1>2. \A kind, t, write : t \in Nat /\ IsWrite(kind, write)
                              => WalType(appendRecord(wal, kind, t, write))
    BY <1>1, AppendType
  <1>3. \A kind \in Kinds \ {"op"} : IsWrite(kind, <<>>)
    BY DEF IsWrite
  <1>4. WalType(Fsync(wal)) /\ WalType(sync(wal)) /\ WalType(WrittenBack(wal))
    BY <1>1, FsyncType, SyncType DEF WrittenBack
  <1>5. ASSUME NEW kind \in Kinds \ {"op"}, NEW t \in Nat
        PROVE  LET a == appendRecord(wal, kind, t, <<>>)
               IN  /\ WalType(a) /\ WalType(flushCurrentFrame(a)) /\ WalType(sync(a))
                   /\ WalType(setCheckpointLsn(a, wal.next_lsn))
    <2> DEFINE a == appendRecord(wal, kind, t, <<>>)
    <2>1. WalType(a)
      BY <1>2, <1>3
    <2> HIDE DEF a
    <2>2. WalType(flushCurrentFrame(a)) /\ WalType(sync(a)) /\ WalType(setCheckpointLsn(a, wal.next_lsn))
      BY <1>1, <2>1, FlushType, SyncType, SetCheckpointType
    <2> QED BY <2>1, <2>2 DEF a
  <1> QED BY <1>2, <1>4, <1>5

LEMMA TOpen == TInv /\ open => TInv'
  <1> SUFFICES ASSUME TInv, open PROVE TInv'
    OBVIOUS
  <1>1. CASE OpenFails(wal) /\ status' = "failed"
    BY <1>1, Bounds DEF TInv, TypeOK, open, Written, Calls
  <1>2. CASE ~OpenFails(wal) /\ status' = "open"
    <2>1. mem' \in [Cells -> States]
      BY <1>2, RecoveredType DEF TInv, TypeOK, open
    <2>2. stable' \in [Cells -> SUBSET States]
      BY <1>2 DEF TInv, TypeOK, open
    <2>3. WalType(wal')
      <3> DEFINE w == WrittenBack(wal)
      <3>1. WalType(w) /\ NextLsn(wal) \in Nat
        BY WalSteps, NextLsnIsNew DEF TInv
      <3>2. wal' = [w EXCEPT !.next_lsn = NextLsn(wal)]
        BY <1>2 DEF open
      <3> HIDE DEF w
      <3>3. /\ wal'.frames = w.frames /\ wal'.synced = w.synced /\ wal'.header = w.header
            /\ wal'.headers = w.headers /\ wal'.current = w.current /\ WalFields(wal')
        BY <3>1, <3>2 DEF WalType, WalFields
      <3> QED BY <3>1, <3>3 DEF WalType, WalBound
    <2>4. wal'.header \in Headers /\ wal'.header \in wal'.headers
      BY <2>3, WalFieldTypes
    <2>5. promised' \subseteq [Cells -> States]
      BY <1>2, <2>1 DEF TInv, TypeOK, open
    <2>6. TypeOK'
      BY <1>2, <2>1, <2>2, <2>4, <2>5, Bounds DEF TInv, TypeOK, open, Headers
    <2> QED BY <1>2, <2>3, <2>6 DEF TInv, open, Written
  <1> QED BY <1>1, <1>2 DEF open

LEMMA TEnds == TInv /\ (close \/ kill \/ powerLoss) => TInv'
  <1> SUFFICES ASSUME TInv, close \/ kill \/ powerLoss PROVE TInv'
    OBVIOUS
  <1>1. Forget /\ UNCHANGED <<sessions, promised>> /\ status' = "closed"
    BY DEF close, kill, powerLoss, FilesLeft
  <1>2. file' \in [Cells -> States] /\ stable' \in [Cells -> SUBSET States]
    <2>1. CASE close
      BY <2>1 DEF close, TInv, TypeOK
    <2>2. CASE kill
      BY <2>2 DEF kill, TInv, TypeOK
    <2>3. CASE powerLoss
      BY <2>3 DEF powerLoss, FilesLeft, TInv, TypeOK
    <2> QED BY <2>1, <2>2, <2>3
  <1>3. WalType(wal')
    <2>1. CASE close
      BY <2>1, WalSteps DEF close
    <2>2. CASE kill
      <3>1. /\ wal'.frames = wal.frames /\ wal'.synced = wal.synced /\ wal'.header = wal.header
            /\ wal'.headers = wal.headers /\ wal'.current = {} /\ WalFields(wal')
        BY <2>2 DEF kill, TInv, WalType, WalFields
      <3> QED BY <3>1 DEF TInv, WalType, WalBound
    <2>3. CASE powerLoss
      <3>1. PICK h \in wal.headers : \E frames \in Survivors(wal) :
              wal' = [frames |-> frames, synced |-> frames, header |-> h, headers |-> {h},
                      current |-> {}, next_lsn |-> 1]
        BY <2>3 DEF powerLoss, FilesLeft
      <3>2. PICK frames \in Survivors(wal) :
              wal' = [frames |-> frames, synced |-> frames, header |-> h, headers |-> {h},
                      current |-> {}, next_lsn |-> 1]
        BY <3>1
      <3>3. h \in Headers /\ frames \in Seq(SUBSET Records)
        BY SurvivorsType, WalFieldTypes DEF TInv
      <3>4. PICK b \in Nat : WalBound(wal, b)
        BY DEF TInv, WalType
      <3>5. Bounded(frames, b)
        BY <3>4, SurvivorsType DEF TInv
      <3>6. WalFields(wal') /\ wal'.header \in wal'.headers /\ WalBound(wal', b)
        BY <3>2, <3>3, <3>5 DEF WalFields, WalBound
      <3> QED BY <3>6 DEF WalType
    <2> QED BY <2>1, <2>2, <2>3
  <1>4. wal'.header \in Headers /\ wal'.header \in wal'.headers
    BY <1>3, WalFieldTypes
  <1>5. TypeOK'
    BY <1>1, <1>2, <1>4, ForgetType DEF TInv, TypeOK, Headers
  <1> QED BY <1>1, <1>3, <1>5, ForgetType DEF TInv, NoCall

LEMMA TTransaction == TInv /\ Transaction => TInv'
  <1> SUFFICES ASSUME TInv, Transaction PROVE TInv'
    OBVIOUS
  <1>0. /\ status \in {"closed", "open", "failed"} /\ sessions \in 0..MaxSessions
        /\ next_txn \in 1..(MaxTxn + 1) /\ active \subseteq Ids /\ writer \in {0} \cup active
        /\ mem \in [Cells -> States]
        /\ overlay \in [Ids -> [Cells -> States \cup {NoEntry}]]
        /\ call \in Calls /\ MaxTxn \in Nat
    BY Bounds DEF TInv, TypeOK
  <1>1. ASSUME NEW write \in BOOLEAN, beginTransaction(write) PROVE TInv'
    <2>1. next_txn \in Ids /\ next_txn' \in 1..(MaxTxn + 1) /\ next_txn \in Nat
      BY <1>0, <1>1 DEF beginTransaction, Ids
    <2>2. WalType(wal')
      BY <1>1, <2>1, WalSteps DEF beginTransaction, Kinds
    <2>3. wal'.header \in Headers /\ wal'.header \in wal'.headers
      BY <2>2, WalFieldTypes
    <2>4. active' \subseteq Ids /\ writer' \in {0} \cup active'
      BY <1>0, <1>1, <2>1 DEF beginTransaction
    <2>5. TypeOK'
      BY <1>1, <2>1, <2>3, <2>4 DEF TInv, TypeOK, beginTransaction, Headers
    <2> QED BY <1>1, <2>2, <2>5 DEF TInv, beginTransaction, Idle, NoCall
  <1>2. ASSUME NEW c \in Cells, NEW v \in States, stageWrite(c, v) PROVE TInv'
    <2>1. writer \in Ids
      BY <1>0, <1>2 DEF stageWrite
    <2>2. overlay' \in [Ids -> [Cells -> States \cup {NoEntry}]]
      BY <1>0, <1>2, <2>1 DEF stageWrite
    <2>3. TypeOK'
      BY <1>2, <2>2 DEF TInv, TypeOK, stageWrite
    <2> QED BY <1>2, <2>3 DEF TInv, stageWrite, Idle, NoCall
  <1>3. ASSUME NEW t \in active, logTxnOverlayForCommit(t) PROVE TInv'
    <2>1. LoggedCells(t) \subseteq Written(t) /\ Written(t) \subseteq Cells
      BY DEF LoggedCells, Written
    <2>2. call' \in Calls /\ call'.txn = t /\ call'.left = LoggedCells(t)
      BY <1>0, <1>3, <2>1 DEF logTxnOverlayForCommit, Calls, Ids
    <2>3. TypeOK'
      BY <1>3 DEF TInv, TypeOK, logTxnOverlayForCommit
    <2> QED BY <1>3, <2>1, <2>2, <2>3 DEF TInv, logTxnOverlayForCommit, Written
  <1>4. ASSUME NEW t \in active, abortRecord(t) PROVE TInv'
    <2>1. t \in Nat
      BY <1>0 DEF Ids
    <2>2. WalType(wal')
      BY <1>4, <2>1, WalSteps DEF abortRecord, Kinds
    <2>3. wal'.header \in Headers /\ wal'.header \in wal'.headers
      BY <2>2, WalFieldTypes
    <2>4. call' \in Calls
      BY <1>4, <2>1 DEF abortRecord, Calls
    <2>5. TypeOK'
      BY <1>4, <2>3 DEF TInv, TypeOK, abortRecord, Headers
    <2> QED BY <1>4, <2>2, <2>4, <2>5 DEF TInv, abortRecord
  <1>5. ASSUME NEW c \in Cells, logCommittedState(c) PROVE TInv'
    <2>1. call.txn \in active /\ call.txn \in Ids /\ c \in Written(call.txn)
      BY <1>0, <1>5 DEF TInv, logCommittedState
    <2>2. IsWrite("op", <<c, overlay[call.txn][c]>>) /\ call.txn \in Nat
      BY <1>0, <2>1 DEF IsWrite, Kinds, Written, Ids
    <2>3. WalType(wal')
      BY <1>5, <2>2, WalSteps DEF logCommittedState
    <2>4. wal'.header \in Headers /\ wal'.header \in wal'.headers
      BY <2>3, WalFieldTypes
    <2>5. /\ call' \in Calls /\ call'.op = call.op /\ call'.txn = call.txn
          /\ call'.left \subseteq call.left
      BY <1>0, <1>5 DEF logCommittedState, Calls
    <2>6. TypeOK'
      BY <1>5, <2>4 DEF TInv, TypeOK, logCommittedState, Headers
    <2> QED BY <1>5, <2>3, <2>5, <2>6 DEF TInv, logCommittedState, Written
  <1>6. CASE LogFails
    <2>1. TypeOK'
      BY <1>6 DEF TInv, TypeOK, LogFails
    <2> QED BY <1>6, <2>1 DEF TInv, LogFails, NoCall, Calls
  <1>7. CASE applyTxnOverlay
    <2>1. call.txn \in Ids
      BY <1>0, <1>7 DEF TInv, applyTxnOverlay
    <2>2. Applied(call.txn) \in [Cells -> States]
      BY <1>0, <2>1 DEF Applied, Written
    <2>3. TypeOK'
      BY <1>7, <2>2 DEF TInv, TypeOK, applyTxnOverlay
    <2>4. call' \in Calls /\ call'.op = call.op /\ call'.txn = call.txn /\ call'.at = "applied"
      BY <1>0, <1>7 DEF applyTxnOverlay, Calls
    <2> QED BY <1>7, <2>3, <2>4 DEF TInv, applyTxnOverlay
  <1>8. CASE commitRecord
    <2>1. WalType(wal')
      BY <1>0, <1>8, WalSteps DEF commitRecord, Kinds, Calls
    <2>2. wal'.header \in Headers /\ wal'.header \in wal'.headers
      BY <2>1, WalFieldTypes
    <2>3. call' \in Calls /\ call'.op = call.op /\ call'.txn = call.txn /\ call'.at = "flushed"
      BY <1>0, <1>8 DEF commitRecord, Calls
    <2>4. TypeOK'
      BY <1>8, <2>2 DEF TInv, TypeOK, commitRecord, Headers
    <2> QED BY <1>8, <2>1, <2>3, <2>4 DEF TInv, commitRecord
  <1>9. CASE endTransaction
    <2>1. WalType(wal')
      BY <1>9, WalSteps DEF endTransaction
    <2>2. wal'.header \in Headers /\ wal'.header \in wal'.headers
      BY <2>1, WalFieldTypes
    <2>3. active' \subseteq Ids /\ writer' \in {0} \cup active'
      BY <1>0, <1>9 DEF endTransaction
    <2>4. overlay' \in [Ids -> [Cells -> States \cup {NoEntry}]]
      BY <1>0, <1>9 DEF endTransaction, EmptyOverlay
    <2>5. call' \in Calls /\ call'.op \notin {"commit", "abort"} /\ call'.at # "logging"
      BY <1>9 DEF endTransaction, NoCall, Calls
    <2>6. TypeOK'
      BY <1>0, <1>9, <2>2, <2>3, <2>4 DEF TInv, TypeOK, endTransaction, Headers
    <2> QED BY <2>1, <2>5, <2>6 DEF TInv
  <1> QED BY <1>1, <1>2, <1>3, <1>4, <1>5, <1>6, <1>7, <1>8, <1>9 DEF Transaction

LEMMA TCheckpoint == TInv /\ Checkpoint => TInv'
  <1> SUFFICES ASSUME TInv, Checkpoint PROVE TInv'
    OBVIOUS
  <1>0. call \in Calls /\ mem \in [Cells -> States] /\ WalType(wal)
    BY DEF TInv, TypeOK
  <1>1. /\ UNCHANGED <<status, sessions, mem, next_txn, active, overlay, writer, promised>>
    BY DEF Checkpoint, checkpoint, checkpointBegin, flushFull, checkpointEnd, checkpointFinal,
           truncateFile, resetHeader, InCheckpoint
  <1>2. call' \in Calls /\ call'.op \notin {"commit", "abort"} /\ call'.at # "logging"
    <2>1. ASSUME NEW mode \in {"full", "truncate"}, checkpoint(mode)
          PROVE  call' \in Calls /\ call'.op \notin {"commit", "abort"} /\ call'.at # "logging"
      BY <2>1 DEF checkpoint, Calls
    <2>2. ASSUME NEW at, NEW next \in {"pages", "end", "final", "truncate", "truncated", "done"},
                 InCheckpoint(at, next)
          PROVE  call' \in Calls /\ call'.op \notin {"commit", "abort"} /\ call'.at # "logging"
      BY <1>0, <2>2 DEF InCheckpoint, Calls, NoCall
    <2> QED BY <2>1, <2>2 DEF Checkpoint, checkpointBegin, flushFull, checkpointEnd,
                              checkpointFinal, truncateFile, resetHeader
  <1>3. file' \in [Cells -> States] /\ stable' \in [Cells -> SUBSET States]
    <2>1. CASE flushFull
      BY <1>0, <2>1 DEF flushFull
    <2>2. CASE UNCHANGED <<file, stable>>
      BY <2>2 DEF TInv, TypeOK
    <2> QED BY <2>1, <2>2 DEF Checkpoint, checkpoint, checkpointBegin, checkpointEnd,
                              checkpointFinal, truncateFile, resetHeader
  <1>4. WalType(wal')
    <2>1. CASE wal' = wal
      BY <1>0, <2>1
    <2>2. CASE checkpointBegin \/ checkpointEnd \/ checkpointFinal
      BY <2>2, WalSteps DEF checkpointBegin, checkpointEnd, checkpointFinal, Kinds
    <2>3. CASE truncateFile
      <3> DEFINE F == <<>>
      <3>0. F \in Seq(SUBSET Records) /\ wal' = [wal EXCEPT !.frames = F]
        BY <2>3 DEF truncateFile
      <3> HIDE DEF F
      <3>1. /\ wal'.frames = F /\ wal'.synced = wal.synced /\ wal'.header = wal.header
            /\ wal'.headers = wal.headers /\ wal'.current = wal.current /\ WalFields(wal')
        BY <1>0, <3>0 DEF WalType, WalFields
      <3> QED BY <1>0, <3>1 DEF WalType, WalBound, Bounded, F
    <2>4. CASE resetHeader
      <3> DEFINE w == [wal EXCEPT !.header = NewHeader]
      <3>1. /\ w.frames = wal.frames /\ w.synced = wal.synced /\ w.header = NewHeader
            /\ w.headers = wal.headers /\ w.current = wal.current /\ WalFields(w)
        BY <1>0 DEF WalType, WalFields, NewHeader, Headers
      <3>2. wal' = Fsync(w)
        BY <2>4 DEF resetHeader
      <3> HIDE DEF w
      <3>3. DOMAIN w = Fields
        BY <3>1 DEF WalFields, Fields
      <3>4. /\ wal'.frames = w.frames /\ wal'.synced = w.frames /\ wal'.header = w.header
            /\ wal'.headers = {w.header} /\ wal'.current = w.current /\ WalFields(wal')
        BY <3>1, <3>2, <3>3 DEF Fsync, WalFields, Fields
      <3> QED BY <1>0, <3>1, <3>4 DEF WalType, WalBound
    <2> QED BY <2>1, <2>2, <2>3, <2>4 DEF Checkpoint, checkpoint, flushFull
  <1>5. wal'.header \in Headers /\ wal'.header \in wal'.headers
    BY <1>4, WalFieldTypes
  <1>6. TypeOK'
    BY <1>1, <1>3, <1>5 DEF TInv, TypeOK, Headers
  <1> QED BY <1>2, <1>4, <1>6 DEF TInv

LEMMA TStep == TInv /\ [Next]_vars => TInv'
  <1> SUFFICES ASSUME TInv, [Next]_vars PROVE TInv'
    OBVIOUS
  <1>1. ASSUME NEW c \in Cells, evict(c) PROVE TInv'
    <2>1. file' \in [Cells -> States] /\ stable' \in [Cells -> SUBSET States]
      BY <1>1 DEF evict, TInv, TypeOK
    <2>2. TypeOK'
      BY <1>1, <2>1 DEF evict, TInv, TypeOK
    <2> QED BY <1>1, <2>2 DEF evict, TInv, Written
  <1>2. CASE UNCHANGED vars
    BY <1>2 DEF TInv, TypeOK, vars, Written
  <1> QED BY <1>1, <1>2, TOpen, TEnds, TTransaction, TCheckpoint DEF Next

(* Every field of the database and of its log has its type in every        *)
(* reachable state, whatever the faults: in particular the writer is an    *)
(* open transaction or there is none, and what recovery makes of any log   *)
(* that a crash can leave is a state of the database.                      *)
THEOREM TypeCorrect == Spec => []TypeOK
  <1>1. TInv => TypeOK
    BY DEF TInv
  <1> QED BY <1>1, TInit, TStep, PTL DEF Spec

-----------------------------------------------------------------------------
(* The order of the log.  What recovery reads of a file: the records of    *)
(* its frames that no torn one precedes.                                   *)

ReadOf(F, n) == UNION {F[i] : i \in {k \in DOMAIN F : k <= n /\ \A j \in 1..k : F[j] # Torn}}

\* Between the two steps of a truncation the old frames are gone from the
\* file, but a power loss may still bring them back.
Uncut(w) == w.frames # <<>> \/ w.synced = <<>>
Disk(w) == IF w.frames = <<>> THEN w.synced ELSE w.frames
Seen(w) == ReadOf(Disk(w), w.header.frame_count) \cup w.current

Ordered(w) == \A r, s \in Seen(w) : r.lsn = s.lsn => r = s
Below(w) == \A r \in Seen(w) : r.lsn < w.next_lsn

\* Older headers count fewer frames, and frames that are not synced whole.
Shape(w) ==
  /\ \A h \in w.headers : h.frame_count <= w.header.frame_count
  /\ w.frames # <<>> => Len(w.synced) <= Len(w.frames)
  /\ \A r \in w.current : r.kind # "torn"
  /\ \A i \in DOMAIN w.frames : i > Len(w.synced) => w.frames[i] # Torn

LogOk(w) == WalType(w) /\ Shape(w) /\ Uncut(w) /\ Ordered(w) /\ Below(w)

LEMMA ReadableIsReadOf ==
  ASSUME NEW w, WalType(w)
  PROVE  Readable(w) = ReadOf(w.frames, w.header.frame_count)
  <1> DEFINE n == w.header.frame_count
             S == {k \in DOMAIN w.frames : k <= n /\ \A j \in 1..k : w.frames[j] # Torn}
  <1>1. ASSUME NEW i \in 1..(LogEnd(w) - 1) PROVE i \in S
    <2>1. /\ i \in Nat /\ i >= 1 /\ i <= n /\ 1..i \subseteq 1..(LogEnd(w) - 1)
      BY LogEndIsFirst, WalFieldTypes
    <2>2. i \in DOMAIN w.frames /\ \A j \in 1..i : w.frames[j] # Torn
      BY <2>1, LogEndIsFirst, WalFieldTypes DEF Unreadable
    <2> QED BY <2>1, <2>2
  <1>2. ASSUME NEW i \in S PROVE i \in 1..(LogEnd(w) - 1)
    <2>1. i \in 1..Len(w.frames) /\ i <= n /\ \A j \in 1..i : w.frames[j] # Torn
      BY WalFieldTypes
    <2>2. LogEnd(w) \in 1..(n + 1) /\ n \in Nat /\ Len(w.frames) \in Nat
      BY LogEndIsFirst, WalFieldTypes
    <2>3. CASE LogEnd(w) <= i
      <3>1. Unreadable(w, LogEnd(w)) /\ LogEnd(w) \in 1..i
        BY <2>1, <2>2, <2>3, LogEndIsFirst
      <3> QED BY <2>1, <2>2, <3>1 DEF Unreadable
    <2>4. CASE ~(LogEnd(w) <= i)
      BY <2>1, <2>2, <2>4
    <2> QED BY <2>3, <2>4
  <1>3. S = 1..(LogEnd(w) - 1)
    BY <1>1, <1>2
  <1> HIDE DEF S
  <1>4. UNION {w.frames[i] : i \in 1..(LogEnd(w) - 1)} = UNION {w.frames[i] : i \in S}
    BY <1>3
  <1> QED BY <1>4 DEF Readable, ReadOf, S

LEMMA ReadOfMember ==
  ASSUME NEW F, NEW n, NEW r
  PROVE  r \in ReadOf(F, n) <=>
           \E i \in DOMAIN F : i <= n /\ (\A j \in 1..i : F[j] # Torn) /\ r \in F[i]
  BY DEF ReadOf

\* A flush shows recovery nothing that was not there before.
LEMMA FlushLogOk ==
  ASSUME NEW w, LogOk(w)
  PROVE  /\ LogOk(flushCurrentFrame(w))
         /\ flushCurrentFrame(w).header.frame_count >= w.header.frame_count
         /\ w.current # {} => flushCurrentFrame(w).header.frame_count >= 1
  <1>0. WalType(w) /\ Shape(w) /\ Uncut(w) /\ Ordered(w) /\ Below(w)
    BY DEF LogOk
  <1>1. CASE w.current = {}
    BY <1>0, <1>1, FlushFields, WalFieldTypes DEF LogOk
  <1>2. CASE w.current # {}
    <2> DEFINE f == flushCurrentFrame(w)
               n == w.header.frame_count + 1
    <2>1. f = [frames |-> Flushed(w), synced |-> w.synced, header |-> NextHeader(w),
               headers |-> w.headers \cup {NextHeader(w)}, current |-> {},
               next_lsn |-> w.next_lsn]
      BY <1>0, <1>2, FlushFields
    <2>2. /\ n \in Nat /\ n >= 1 /\ NextHeader(w).frame_count = n
          /\ Len(w.frames) \in Nat /\ Len(w.synced) \in Nat
          /\ DOMAIN w.frames = 1..Len(w.frames)
      BY <1>0, WalFieldTypes DEF NextHeader
    <2>3. /\ Flushed(w) \in Seq(SUBSET Records) /\ Len(Flushed(w)) \in Nat
          /\ Len(Flushed(w)) >= n /\ Len(Flushed(w)) >= Len(w.frames)
          /\ DOMAIN Flushed(w) = 1..Len(Flushed(w)) /\ Flushed(w)[n] = w.current
          /\ \A i \in DOMAIN Flushed(w) :
               i # n => Flushed(w)[i] = IF i <= Len(w.frames) THEN w.frames[i] ELSE {}
      BY <1>0, FlushedFrames
    <2>4. WalType(f)
      BY <1>0, FlushType
    <2>5. /\ f.frames = Flushed(w) /\ f.synced = w.synced /\ f.header.frame_count = n
          /\ f.headers = w.headers \cup {NextHeader(w)} /\ f.current = {}
          /\ f.next_lsn = w.next_lsn
      BY <2>1, <2>2
    <2> HIDE DEF f, n
    <2>6. Flushed(w) # <<>> /\ 1 \in DOMAIN Flushed(w)
      BY <2>2, <2>3
    <2>7. Uncut(f)
      BY <2>5, <2>6 DEF Uncut
    <2>8. w.current # Torn
      <3>1. Record("torn", 0, 0, <<>>) \in Torn /\ Record("torn", 0, 0, <<>>).kind = "torn"
        BY DEF Torn, Record
      <3> QED BY <1>0, <3>1 DEF Shape
    <2>9. Shape(f)
      <3>1. ASSUME NEW h \in f.headers PROVE h.frame_count <= n
        <4>1. CASE h \in w.headers
          <5>1. h.frame_count <= w.header.frame_count /\ h.frame_count \in Nat
            BY <1>0, <4>1, WalFieldTypes DEF Shape, Headers
          <5> QED BY <1>0, <5>1, WalFieldTypes DEF n
        <4> QED BY <2>2, <2>5, <4>1
      <3>2. Len(w.synced) <= Len(Flushed(w))
        <4>1. CASE w.frames = <<>>
          BY <1>0, <2>3, <4>1 DEF Uncut
        <4>2. CASE w.frames # <<>>
          BY <1>0, <2>2, <2>3, <4>2 DEF Shape
        <4> QED BY <4>1, <4>2
      <3>3. ASSUME NEW i \in DOMAIN Flushed(w), i > Len(w.synced) PROVE Flushed(w)[i] # Torn
        <4>1. {} # Torn
          BY DEF Torn
        <4>2. i <= Len(w.frames) => i \in DOMAIN w.frames
          BY <2>2, <2>3
        <4> QED BY <1>0, <2>3, <2>8, <3>3, <4>1, <4>2 DEF Shape
      <3> QED BY <2>5, <3>1, <3>2, <3>3 DEF Shape
    <2>10. Seen(f) \subseteq Seen(w)
      <3>1. Seen(f) = ReadOf(Flushed(w), n)
        BY <2>5, <2>6 DEF Seen, Disk
      <3>2. ASSUME NEW r \in ReadOf(Flushed(w), n) PROVE r \in Seen(w)
        <4>1. PICK i \in DOMAIN Flushed(w) :
                i <= n /\ (\A j \in 1..i : Flushed(w)[j] # Torn) /\ r \in Flushed(w)[i]
          BY <3>2, ReadOfMember
        <4>2. CASE i = n
          BY <2>3, <4>1, <4>2 DEF Seen
        <4>3. CASE i # n
          <5>1. i \in 1..Len(w.frames) /\ r \in w.frames[i] /\ i <= w.header.frame_count
            BY <2>2, <2>3, <4>1, <4>3, WalFieldTypes, <1>0 DEF n
          <5>2. ASSUME NEW j \in 1..i PROVE w.frames[j] # Torn
            BY <2>2, <2>3, <4>1, <4>3, <5>1, <5>2
          <5>3. r \in ReadOf(w.frames, w.header.frame_count)
            BY <2>2, <5>1, <5>2, ReadOfMember
          <5>4. w.frames # <<>>
            BY <2>2, <5>1
          <5> QED BY <5>3, <5>4 DEF Seen, Disk
        <4> QED BY <4>2, <4>3
      <3> QED BY <3>1, <3>2
    <2>11. Ordered(f) /\ Below(f)
      BY <1>0, <2>5, <2>10 DEF Ordered, Below
    <2>12. n >= w.header.frame_count
      BY <1>0, WalFieldTypes DEF n
    <2> QED BY <2>2, <2>4, <2>5, <2>7, <2>9, <2>11, <2>12 DEF LogOk, f
  <1> QED BY <1>1, <1>2

LEMMA FsyncLogOk ==
  ASSUME NEW w, LogOk(w)
  PROVE  LogOk(Fsync(w)) /\ Fsync(w).header = w.header
  <1>0. WalType(w) /\ Shape(w) /\ Uncut(w) /\ Ordered(w) /\ Below(w)
    BY DEF LogOk
  <1>1. Fsync(w) = [frames |-> w.frames, synced |-> w.frames, header |-> w.header,
                    headers |-> {w.header}, current |-> w.current, next_lsn |-> w.next_lsn]
    BY <1>0, FsyncFields
  <1>2. WalType(Fsync(w))
    BY <1>0, FsyncType
  <1> DEFINE f == Fsync(w)
  <1>3. /\ f.frames = w.frames /\ f.synced = w.frames /\ f.header = w.header
        /\ f.headers = {w.header} /\ f.current = w.current /\ f.next_lsn = w.next_lsn
    BY <1>1
  <1> HIDE DEF f
  <1>4. Seen(f) = Seen(w) /\ Uncut(f)
    BY <1>0, <1>3 DEF Seen, Disk, Uncut
  <1>5. Shape(f)
    BY <1>0, <1>3, WalFieldTypes DEF Shape
  <1>6. Ordered(f) /\ Below(f)
    BY <1>0, <1>3, <1>4 DEF Ordered, Below
  <1> QED BY <1>2, <1>3, <1>4, <1>5, <1>6 DEF LogOk, f

LEMMA AppendLogOk ==
  ASSUME NEW w, LogOk(w), NEW kind, NEW t \in Nat, NEW write, IsWrite(kind, write), kind # "torn"
  PROVE  /\ LogOk(appendRecord(w, kind, t, write))
         /\ appendRecord(w, kind, t, write).header.frame_count >= w.header.frame_count
         /\ appendRecord(w, kind, t, write).current # {}
  <1> DEFINE f == IF Cardinality(w.current) = FrameCap THEN flushCurrentFrame(w) ELSE w
             a == appendRecord(w, kind, t, write)
             r == Record(kind, t, w.next_lsn, write)
  <1>1. LogOk(f) /\ f.header.frame_count >= w.header.frame_count
    BY FlushLogOk, WalFieldTypes DEF LogOk
  <1>2. /\ WalType(f) /\ f.next_lsn = w.next_lsn
        /\ a = [frames |-> f.frames, synced |-> f.synced, header |-> f.header,
                headers |-> f.headers, current |-> f.current \cup {r},
                next_lsn |-> w.next_lsn + 1]
    BY AppendFields DEF LogOk
  <1>3. WalType(a)
    BY AppendType DEF LogOk
  <1>4. r.kind = kind /\ r.lsn = w.next_lsn /\ w.next_lsn \in Nat
    BY WalFieldTypes DEF Record, LogOk
  <1> HIDE DEF f, a, r
  <1>5. /\ a.frames = f.frames /\ a.synced = f.synced /\ a.header = f.header
        /\ a.headers = f.headers /\ a.current = f.current \cup {r} /\ a.next_lsn = w.next_lsn + 1
    BY <1>2
  <1>6. Seen(a) = {r} \cup Seen(f)
    BY <1>5 DEF Seen, Disk
  <1>7. \A s \in Seen(f) : s.lsn \in Nat /\ s.lsn < w.next_lsn
    <2>1. Seen(f) \subseteq Records
      BY <1>2, WalFieldTypes DEF Seen, Disk, ReadOf
    <2> QED BY <1>1, <1>2, <2>1, RecordFields DEF LogOk, Below
  <1>8. Ordered(a)
    BY <1>1, <1>4, <1>6, <1>7 DEF LogOk, Ordered
  <1>9. Below(a)
    BY <1>4, <1>5, <1>6, <1>7 DEF Below
  <1>10. Shape(a) /\ Uncut(a)
    BY <1>1, <1>4, <1>5 DEF LogOk, Shape, Uncut
  <1> QED BY <1>1, <1>3, <1>5, <1>8, <1>9, <1>10 DEF LogOk, a

LEMMA SyncLogOk ==
  ASSUME NEW w, LogOk(w)
  PROVE  /\ LogOk(sync(w)) /\ sync(w).current = {} /\ sync(w).synced = sync(w).frames
         /\ sync(w).header.frame_count >= w.header.frame_count
         /\ w.current # {} => sync(w).header.frame_count >= 1
  <1> DEFINE f == flushCurrentFrame(w)
  <1>1. /\ LogOk(f) /\ f.header.frame_count >= w.header.frame_count
        /\ w.current # {} => f.header.frame_count >= 1
    BY FlushLogOk
  <1>2. f.current = {}
    BY FlushFields DEF LogOk
  <1> HIDE DEF f
  <1>3. sync(w) = Fsync(f)
    BY DEF sync, f
  <1>4. LogOk(Fsync(f)) /\ Fsync(f).header = f.header
    BY <1>1, FsyncLogOk
  <1>5. Fsync(f).current = f.current /\ Fsync(f).synced = f.frames /\ Fsync(f).frames = f.frames
    BY <1>1, FsyncFields DEF LogOk
  <1> QED BY <1>1, <1>2, <1>3, <1>4, <1>5

LEMMA SetCheckpointLogOk ==
  ASSUME NEW w, LogOk(w), NEW lsn \in Nat
  PROVE  /\ LogOk(setCheckpointLsn(w, lsn))
         /\ setCheckpointLsn(w, lsn).header.frame_count = w.header.frame_count
  <1> DEFINE h == [frame_count |-> w.header.frame_count, checkpoint_lsn |-> lsn]
             s == setCheckpointLsn(w, lsn)
  <1>1. s = [frames |-> w.frames, synced |-> w.synced, header |-> h,
             headers |-> w.headers \cup {h}, current |-> w.current, next_lsn |-> w.next_lsn]
    BY SetCheckpointFields DEF LogOk
  <1>2. WalType(s)
    BY SetCheckpointType DEF LogOk
  <1>3. h.frame_count = w.header.frame_count /\ w.header.frame_count \in Nat
    BY WalFieldTypes DEF LogOk
  <1> HIDE DEF h, s
  <1>4. /\ s.frames = w.frames /\ s.synced = w.synced /\ s.header = h
        /\ s.headers = w.headers \cup {h} /\ s.current = w.current /\ s.next_lsn = w.next_lsn
    BY <1>1
  <1>5. Seen(s) = Seen(w) /\ Uncut(s)
    BY <1>3, <1>4 DEF LogOk, Seen, Disk, Uncut
  <1>6. Shape(s)
    BY <1>3, <1>4 DEF LogOk, Shape
  <1>7. Ordered(s) /\ Below(s)
    BY <1>4, <1>5 DEF LogOk, Ordered, Below
  <1> QED BY <1>2, <1>3, <1>4, <1>5, <1>6, <1>7 DEF LogOk, s

\* What a power loss that brings nothing old back leaves of a log shows
\* recovery nothing new.
LEMMA SurvivorsSeen ==
  ASSUME NEW w, WalType(w), Shape(w), "stale" \notin Faults,
         NEW frames \in Survivors(w), NEW m \in Nat, m <= w.header.frame_count
  PROVE  ReadOf(frames, m) \subseteq Seen(w)
  <1> DEFINE reordered(i) == IF i \in DOMAIN w.synced THEN "stale" ELSE "zero"
             lost == {i \in Unsynced(w) : reordered(i) \in Faults}
             last == {i \in Unsynced(w) : i = w.header.frame_count /\ "torn" \in Faults}
             lengths == {Len(w.synced), Len(w.frames)}
             left(L, T, n) ==
               [i \in 1..n |-> IF i \in T THEN Torn
                               ELSE IF i \in DOMAIN w.frames \ L THEN w.frames[i]
                               ELSE IF i \in DOMAIN w.synced THEN w.synced[i]
                               ELSE {}]
             Ls == SUBSET lost
             Ts == SUBSET last
             Ns == {k \in Min(lengths)..Max(lengths) : k = Max(lengths) \/ "short" \in Faults}
  <1>1. PICK L \in Ls, T \in Ts, n \in Ns : frames = left(L, T, n)
    <2>1. Survivors(w) = {left(L, T, n) : L \in Ls, T \in Ts, n \in Ns}
      BY DEF Survivors, Losses
    <2> HIDE DEF Ls, Ts, Ns, left
    <2>2. frames \in {left(L, T, n) : L \in Ls, T \in Ts, n \in Ns}
      BY <2>1
    <2>3. \E L \in Ls : \E T \in Ts : \E n \in Ns : frames = left(L, T, n)
      BY <2>2
    <2> QED BY <2>3
  <1>2. /\ Len(w.synced) \in Nat /\ Len(w.frames) \in Nat
        /\ DOMAIN w.frames = 1..Len(w.frames) /\ DOMAIN w.synced = 1..Len(w.synced)
    BY WalFieldTypes
  <1>3. n \in Nat /\ (n <= Len(w.frames) \/ n <= Len(w.synced))
    <2>1. PICK x \in lengths : \A y \in lengths : x <= y
      <3>1. lengths \subseteq Nat /\ lengths # {}
        BY <1>2
      <3> HIDE DEF lengths
      <3> QED BY <3>1, LeastExists
    <2>2. PICK z \in lengths : \A y \in lengths : z >= y
      BY <1>2
    <2>3. Min(lengths) \in lengths /\ Max(lengths) \in lengths
      <3> HIDE DEF lengths
      <3> QED BY <2>1, <2>2, Zenon DEF Min, Max
    <2> QED BY <1>2, <2>3
  <1>4. /\ DOMAIN frames = 1..n
        /\ \A i \in 1..n : frames[i] = IF i \in T THEN Torn
                                       ELSE IF i \in DOMAIN w.frames \ L THEN w.frames[i]
                                       ELSE IF i \in DOMAIN w.synced THEN w.synced[i]
                                       ELSE {}
    BY <1>1
  <1>5. \A i \in L : i \in DOMAIN w.frames /\ i \notin DOMAIN w.synced
    BY <1>1 DEF Unsynced
  <1> HIDE DEF left, Ls, Ts, Ns, lost, last, lengths
  <1>6. SUFFICES ASSUME NEW r \in ReadOf(frames, m) PROVE r \in Seen(w)
    OBVIOUS
  <1>7. PICK i \in 1..n : i <= m /\ (\A j \in 1..i : frames[j] # Torn) /\ r \in frames[i]
    BY <1>4, ReadOfMember
  <1>8. i <= w.header.frame_count /\ \A j \in 1..i : j \in 1..n /\ j \notin T
    BY <1>3, <1>4, <1>7, WalFieldTypes
  <1>9. CASE w.frames = <<>>
    <2>1. /\ i \in DOMAIN w.synced /\ \A j \in 1..i : j \in DOMAIN w.synced /\ w.synced[j] # Torn
          /\ r \in w.synced[i]
      BY <1>2, <1>3, <1>4, <1>7, <1>8, <1>9
    <2>2. r \in ReadOf(w.synced, w.header.frame_count)
      BY <1>8, <2>1, ReadOfMember
    <2> QED BY <1>9, <2>2 DEF Seen, Disk
  <1>10. CASE w.frames # <<>>
    <2>1. n <= Len(w.frames)
      BY <1>2, <1>3, <1>10 DEF Shape
    <2>2. ASSUME NEW j \in 1..i
          PROVE  /\ j \in DOMAIN w.frames
                 /\ j \in L => frames[j] = {}
                 /\ j \notin L => frames[j] = w.frames[j]
      <3>1. j \in 1..n /\ j \notin T
        BY <1>8
      <3>2. j \in DOMAIN w.frames
        BY <1>2, <1>3, <2>1, <3>1
      <3>3. frames[j] = IF j \in L THEN (IF j \in DOMAIN w.synced THEN w.synced[j] ELSE {})
                                   ELSE w.frames[j]
        BY <1>4, <3>1, <3>2
      <3> QED BY <1>5, <3>2, <3>3
    <2>3. ASSUME NEW j \in 1..i PROVE w.frames[j] # Torn
      <3>1. CASE j \in L
        <4>1. j \in 1..Len(w.frames) /\ j \notin 1..Len(w.synced)
          BY <1>2, <1>5, <3>1
        <4>2. j > Len(w.synced)
          BY <1>2, <4>1
        <4> QED BY <1>2, <4>1, <4>2 DEF Shape
      <3>2. CASE j \notin L
        BY <1>7, <2>2, <3>2
      <3> QED BY <3>1, <3>2
    <2>5. i \in DOMAIN w.frames /\ r \in w.frames[i]
      <3>1. i \in 1..i
        BY <1>3
      <3> QED BY <1>7, <2>2, <3>1
    <2>4. r \in ReadOf(w.frames, w.header.frame_count)
      BY <1>8, <2>3, <2>5, ReadOfMember
    <2> QED BY <1>10, <2>4 DEF Seen, Disk
  <1> QED BY <1>9, <1>10

(* What is true of the log at every moment: what recovery would read of    *)
(* it, if a power loss gave back what was not synced or did not, and the   *)
(* frame in memory carry each number once.                                 *)
OInv ==
  /\ Shape(wal) /\ Ordered(wal)
  /\ status = "open" => Below(wal)
  /\ status # "open" => wal.current = {} /\ call = NoCall
  /\ call.at \in {"pages", "end", "final", "truncate", "truncated"} =>
       wal.header.frame_count >= 1
  /\ call.at = "truncate" => wal.synced = wal.frames
  /\ ~Uncut(wal) => /\ wal.header.frame_count >= 1
                    /\ status # "open" \/ call.at = "truncated"

LEMMA OpenLogOk ==
  ASSUME TInv, OInv, status = "open", call.at # "truncated"
  PROVE  LogOk(wal)
  BY DEF TInv, OInv, LogOk

LEMMA OInit == Init => OInv
  <1> SUFFICES ASSUME Init PROVE OInv
    OBVIOUS
  <1>1. /\ wal.frames = <<>> /\ wal.synced = <<>> /\ wal.header = NewHeader
        /\ wal.headers = {NewHeader} /\ wal.current = {} /\ wal.next_lsn = 1
    BY DEF Init
  <1>2. Seen(wal) = {} /\ Uncut(wal) /\ Shape(wal)
    BY <1>1 DEF Seen, Disk, ReadOf, Uncut, Shape, NewHeader
  <1> QED BY <1>1, <1>2 DEF Init, OInv, Ordered, Below, NoCall

LEMMA OOpen == TInv /\ OInv /\ open => OInv'
  <1> SUFFICES ASSUME TInv, OInv, open PROVE OInv'
    OBVIOUS
  <1>1. CASE OpenFails(wal) /\ status' = "failed"
    BY <1>1 DEF open, OInv, Shape, Ordered, Uncut, Seen, Disk
  <1>2. CASE ~OpenFails(wal) /\ status' = "open"
    <2> DEFINE w == WrittenBack(wal)
    <2>0. status = "closed" /\ wal.current = {} /\ call' = NoCall /\ WalType(wal)
      BY DEF open, OInv, TInv
    <2>1. Uncut(wal)
      <3> SUFFICES ASSUME wal.frames = <<>>, wal.header.frame_count >= 1 PROVE FALSE
        BY <2>0 DEF OInv, Uncut
      <3>1. LogEnd(wal) = 1
        <4>1. 1 \in 1..(LogEnd(wal) - 1) => ~Unreadable(wal, 1)
          BY <2>0, LogEndIsFirst
        <4>2. Unreadable(wal, 1)
          BY DEF Unreadable
        <4> QED BY <2>0, <4>1, <4>2, LogEndIsFirst, WalFieldTypes
      <3> QED BY <1>2, <2>0, <3>1, WalFieldTypes DEF OpenFails
    <2>2. /\ wal' = [w EXCEPT !.next_lsn = NextLsn(wal)] /\ WalType(w) /\ NextLsn(wal) \in Nat
      BY <1>2, <2>0, WalSteps, NextLsnIsNew DEF open
    <2>3. /\ w.frames = wal.frames /\ w.header = wal.header /\ w.current = {}
          /\ \/ w.synced = wal.synced /\ w.headers = wal.headers
             \/ w.synced = wal.frames /\ w.headers = {wal.header}
      <3>1. CASE w = wal
        BY <2>0, <3>1
      <3>2. CASE w = Fsync(wal)
        <4>1. Fsync(wal) = [frames |-> wal.frames, synced |-> wal.frames, header |-> wal.header,
                            headers |-> {wal.header}, current |-> wal.current,
                            next_lsn |-> wal.next_lsn]
          BY <2>0, FsyncFields
        <4> QED BY <2>0, <3>2, <4>1
      <3> QED BY <3>1, <3>2 DEF WrittenBack
    <2> HIDE DEF w
    <2>4. /\ wal'.frames = w.frames /\ wal'.synced = w.synced /\ wal'.header = w.header
          /\ wal'.headers = w.headers /\ wal'.current = w.current /\ wal'.next_lsn = NextLsn(wal)
      BY <2>2 DEF WalType, WalFields
    <2>5. Seen(wal') = Readable(wal) /\ Uncut(wal')
      <3>1. Seen(wal') = ReadOf(wal.frames, wal.header.frame_count)
        BY <2>1, <2>3, <2>4 DEF Seen, Disk, Uncut
      <3>2. Uncut(wal')
        BY <2>1, <2>3, <2>4 DEF Uncut
      <3> QED BY <2>0, <3>1, <3>2, ReadableIsReadOf
    <2>6. Seen(wal) = Readable(wal)
      BY <2>0, <2>1, ReadableIsReadOf DEF Seen, Disk, Uncut
    <2>7. Ordered(wal')
      BY <2>5, <2>6 DEF OInv, Ordered
    <2>8. Below(wal')
      BY <2>0, <2>4, <2>5, NextLsnIsNew DEF Below
    <2>9. Shape(wal')
      BY <2>0, <2>3, <2>4, WalFieldTypes DEF OInv, Shape
    <2> QED BY <1>2, <2>0, <2>5, <2>7, <2>8, <2>9 DEF OInv, NoCall
  <1> QED BY <1>1, <1>2 DEF open

LEMMA OEnds == "stale" \notin Faults /\ TInv /\ OInv /\ (close \/ kill \/ powerLoss) => OInv'
  <1> SUFFICES ASSUME "stale" \notin Faults, TInv, OInv, close \/ kill \/ powerLoss
               PROVE  OInv'
    OBVIOUS
  <1>0. /\ WalType(wal) /\ Shape(wal) /\ Ordered(wal) /\ status' = "closed" /\ call' = NoCall
        /\ call'.at = "-"
    BY DEF TInv, OInv, close, kill, powerLoss, Forget, NoCall
  <1>1. CASE close
    <2>1. LogOk(wal)
      BY <1>1, OpenLogOk DEF close, Idle, NoCall
    <2>2. LogOk(wal') /\ wal'.current = {}
      BY <1>1, <2>1, SyncLogOk DEF close
    <2> QED BY <1>0, <2>2 DEF OInv, LogOk
  <1>2. CASE kill
    <2>1. /\ wal'.frames = wal.frames /\ wal'.synced = wal.synced /\ wal'.header = wal.header
          /\ wal'.headers = wal.headers /\ wal'.current = {}
      BY <1>0, <1>2 DEF kill, WalType, WalFields
    <2>2. Seen(wal') \subseteq Seen(wal) /\ Shape(wal')
      BY <1>0, <2>1 DEF Seen, Disk, Shape
    <2>3. Ordered(wal')
      BY <1>0, <2>2 DEF Ordered
    <2>4. ~Uncut(wal') => wal'.header.frame_count >= 1
      BY <2>1 DEF OInv, Uncut
    <2> QED BY <1>0, <2>1, <2>2, <2>3, <2>4 DEF OInv
  <1>3. CASE powerLoss
    <2>1. PICK h \in wal.headers : \E frames \in Survivors(wal) :
            wal' = [frames |-> frames, synced |-> frames, header |-> h, headers |-> {h},
                    current |-> {}, next_lsn |-> 1]
      BY <1>3 DEF powerLoss, FilesLeft
    <2>2. PICK frames \in Survivors(wal) :
            wal' = [frames |-> frames, synced |-> frames, header |-> h, headers |-> {h},
                    current |-> {}, next_lsn |-> 1]
      BY <2>1
    <2>3. /\ h.frame_count \in Nat /\ h.frame_count <= wal.header.frame_count
          /\ frames \in Seq(SUBSET Records)
      BY <1>0, SurvivorsType, WalFieldTypes DEF Shape, Headers
    <2>4. /\ wal'.frames = frames /\ wal'.synced = frames /\ wal'.header = h
          /\ wal'.headers = {h} /\ wal'.current = {}
      BY <2>2
    <2>5. Seen(wal') = ReadOf(frames, h.frame_count) /\ Uncut(wal')
      BY <2>4 DEF Seen, Disk, Uncut
    <2>6. Seen(wal') \subseteq Seen(wal)
      BY <1>0, <2>3, <2>5, SurvivorsSeen
    <2>7. Ordered(wal')
      BY <1>0, <2>6 DEF Ordered
    <2>8. Shape(wal')
      BY <2>3, <2>4 DEF Shape
    <2> QED BY <1>0, <2>4, <2>5, <2>7, <2>8 DEF OInv
  <1> QED BY <1>1, <1>2, <1>3

LEMMA OTransaction == TInv /\ OInv /\ Transaction => OInv'
  <1> SUFFICES ASSUME TInv, OInv, Transaction PROVE OInv'
    OBVIOUS
  <1>0. call \in Calls /\ active \subseteq Nat /\ next_txn \in Nat
    BY DEF TInv, TypeOK, Ids
  <1>1. status = "open" /\ call.at # "truncated" /\ status' = "open"
    <2>1. /\ status # "open" => call = NoCall
          /\ NoCall.op = "none" /\ NoCall.at = "-"
      BY DEF OInv, NoCall
    <2>2. ASSUME NEW write \in BOOLEAN, beginTransaction(write) PROVE Idle /\ status' = status
      BY <2>2 DEF beginTransaction
    <2>3. ASSUME NEW c \in Cells, NEW v \in States, stageWrite(c, v)
          PROVE  Idle /\ status' = status
      BY <2>3 DEF stageWrite
    <2>4. ASSUME NEW t \in active, logTxnOverlayForCommit(t) \/ abortRecord(t)
          PROVE  Idle /\ status' = status
      BY <2>4 DEF logTxnOverlayForCommit, abortRecord
    <2>5. ASSUME NEW c \in Cells, logCommittedState(c)
          PROVE  call.op # "none" /\ call.at = "logging" /\ status' = status
      BY <2>5 DEF logCommittedState
    <2>6. CASE LogFails \/ applyTxnOverlay \/ commitRecord \/ endTransaction
      <3>1. call.op # "none" /\ call.at \in {"logging", "applied", "flushed"} /\ status' = status
        BY <2>6 DEF LogFails, applyTxnOverlay, commitRecord, endTransaction
      <3> QED BY <2>1, <3>1
    <2> QED BY <2>1, <2>2, <2>3, <2>4, <2>5, <2>6 DEF Transaction, Idle
  <1>2. LogOk(wal) /\ wal.header.frame_count \in Nat
    BY <1>1, OpenLogOk, WalFieldTypes DEF TInv
  <1>3. call'.at \in {"pages", "end", "final", "truncate", "truncated"} => FALSE
    <2>1. \A write \in BOOLEAN : beginTransaction(write) => call' = NoCall
      BY DEF beginTransaction, Idle
    <2>2. \A c \in Cells, v \in States : stageWrite(c, v) => call' = NoCall
      BY DEF stageWrite, Idle
    <2>3. \A t \in active : logTxnOverlayForCommit(t) => call'.at = "logging"
      BY DEF logTxnOverlayForCommit
    <2>4. \A t \in active : abortRecord(t) => call'.at = "flushed"
      BY DEF abortRecord
    <2>5. \A c \in Cells : logCommittedState(c) => call'.at = "logging"
      BY <1>0 DEF logCommittedState, Calls
    <2>6. LogFails \/ applyTxnOverlay \/ commitRecord => call' = NoCall \/ call'.at \in {"applied", "flushed"}
      BY <1>0 DEF LogFails, applyTxnOverlay, commitRecord, Calls
    <2>7. endTransaction => call' = NoCall \/ call'.at = "begin"
      BY DEF endTransaction
    <2> QED BY <2>1, <2>2, <2>3, <2>4, <2>5, <2>6, <2>7 DEF Transaction, NoCall
  <1>4. LogOk(wal')
    <2>1. ASSUME NEW write \in BOOLEAN, beginTransaction(write) PROVE LogOk(wal')
      BY <1>0, <1>2, <2>1, AppendLogOk DEF beginTransaction, IsWrite, Kinds
    <2>2. ASSUME NEW t \in active, abortRecord(t) PROVE LogOk(wal')
      <3>1. LogOk(appendRecord(wal, "abort", t, <<>>))
        BY <1>0, <1>2, AppendLogOk DEF IsWrite, Kinds
      <3> QED BY <2>2, <3>1, FlushLogOk DEF abortRecord
    <2>3. ASSUME NEW c \in Cells, logCommittedState(c) PROVE LogOk(wal')
      <3>1. c \in Written(call.txn) /\ call.txn \in Ids /\ call.txn \in Nat
        BY <1>0, <2>3 DEF logCommittedState, TInv, TypeOK
      <3>2. overlay[call.txn][c] \in States
        BY <3>1 DEF TInv, TypeOK, Written
      <3>3. IsWrite("op", <<c, overlay[call.txn][c]>>)
        BY <3>2 DEF IsWrite, Kinds
      <3> QED BY <1>2, <2>3, <3>1, <3>3, AppendLogOk DEF logCommittedState
    <2>4. CASE commitRecord
      <3>1. LogOk(appendRecord(wal, "commit", call.txn, <<>>))
        BY <1>0, <1>2, AppendLogOk DEF IsWrite, Kinds, Calls
      <3> QED BY <2>4, <3>1, FlushLogOk DEF commitRecord
    <2>5. CASE endTransaction
      BY <1>2, <2>5, FsyncLogOk DEF endTransaction
    <2>6. CASE wal' = wal
      BY <1>2, <2>6
    <2> QED BY <2>1, <2>2, <2>3, <2>4, <2>5, <2>6
            DEF Transaction, stageWrite, logTxnOverlayForCommit, LogFails, applyTxnOverlay
  <1> QED BY <1>1, <1>3, <1>4 DEF OInv, LogOk

LEMMA OCheckpoint == TInv /\ OInv /\ Checkpoint => OInv'
  <1> SUFFICES ASSUME TInv, OInv, Checkpoint PROVE OInv'
    OBVIOUS
  <1>0. call \in Calls /\ WalType(wal) /\ wal.header.frame_count \in Nat /\ wal.next_lsn \in Nat
    BY WalFieldTypes DEF TInv
  <1>1. status = "open" /\ status' = "open"
    <2>1. status # "open" => call = NoCall
      BY DEF OInv
    <2> QED BY <2>1 DEF Checkpoint, checkpoint, checkpointBegin, flushFull, checkpointEnd,
               checkpointFinal, truncateFile, resetHeader, InCheckpoint, Idle, NoCall
  <1>2. ASSUME NEW mode, checkpoint(mode) PROVE OInv'
    <2>1. LogOk(wal) /\ wal' = wal /\ call'.at = "begin"
      BY <1>1, <1>2, OpenLogOk DEF checkpoint, Idle, NoCall
    <2> QED BY <1>1, <2>1 DEF OInv, LogOk
  <1>3. CASE checkpointBegin
    <2>1. LogOk(wal) /\ call'.at = "pages"
      BY <1>0, <1>1, <1>3, OpenLogOk DEF checkpointBegin, InCheckpoint, Calls
    <2>2. LogOk(wal') /\ wal'.header.frame_count >= 1
      <3> DEFINE a == appendRecord(wal, "checkpoint", 0, <<>>)
      <3>1. LogOk(a) /\ a.current # {}
        BY <2>1, AppendLogOk DEF IsWrite, Kinds
      <3> HIDE DEF a
      <3>2. LogOk(sync(a)) /\ sync(a).header.frame_count >= 1
        BY <3>1, SyncLogOk
      <3> QED BY <1>3, <3>2 DEF checkpointBegin, a
    <2> QED BY <1>1, <2>1, <2>2 DEF OInv, LogOk
  <1>4. ASSUME call.at \in {"pages", "end", "final"}, LogOk(wal'),
               wal'.header.frame_count >= wal.header.frame_count,
               call'.at = "truncate" => wal'.synced = wal'.frames
        PROVE  OInv'
    <2>1. wal.header.frame_count >= 1
      BY <1>4 DEF OInv
    <2>2. wal'.header.frame_count \in Nat
      BY <1>4, WalFieldTypes DEF LogOk
    <2>3. wal'.header.frame_count >= 1
      BY <1>0, <1>4, <2>1, <2>2
    <2> QED BY <1>1, <1>4, <2>3 DEF OInv, LogOk
  <1>5. call.at \in {"pages", "end", "final", "truncate"} => LogOk(wal)
    BY <1>1, OpenLogOk
  <1>6. CASE flushFull
    <2>1. call.at = "pages" /\ wal' = wal /\ call'.at = "end"
      BY <1>0, <1>6 DEF flushFull, InCheckpoint, Calls
    <2> QED BY <1>0, <1>4, <1>5, <2>1
  <1>7. CASE checkpointEnd
    <2> DEFINE a == appendRecord(wal, "checkpoint", 0, <<>>)
    <2>1. call.at = "end" /\ call'.at = "final" /\ wal' = setCheckpointLsn(a, wal.next_lsn)
      BY <1>0, <1>7 DEF checkpointEnd, InCheckpoint, Calls
    <2>2. LogOk(a) /\ a.header.frame_count >= wal.header.frame_count
      BY <1>5, <2>1, AppendLogOk DEF IsWrite, Kinds
    <2> HIDE DEF a
    <2>3. LogOk(wal') /\ wal'.header.frame_count = a.header.frame_count
      BY <1>0, <2>1, <2>2, SetCheckpointLogOk
    <2> QED BY <1>4, <2>1, <2>2, <2>3
  <1>8. CASE checkpointFinal
    <2>1. call.at = "final" /\ wal' = sync(wal)
      BY <1>8 DEF checkpointFinal, InCheckpoint
    <2>2. /\ LogOk(wal') /\ wal'.header.frame_count >= wal.header.frame_count
          /\ wal'.synced = wal'.frames
      BY <1>5, <2>1, SyncLogOk
    <2> QED BY <1>4, <2>1, <2>2
  <1>9. CASE truncateFile
    <2>1. call.at = "truncate" /\ call'.at = "truncated" /\ LogOk(wal)
      BY <1>0, <1>5, <1>9 DEF truncateFile, InCheckpoint, Calls
    <2> DEFINE F == <<>>
    <2>2. wal' = [wal EXCEPT !.frames = F]
      BY <1>9 DEF truncateFile
    <2> HIDE DEF F
    <2>3. /\ wal'.frames = F /\ wal'.synced = wal.synced /\ wal'.header = wal.header
          /\ wal'.headers = wal.headers /\ wal'.current = wal.current
          /\ wal'.next_lsn = wal.next_lsn
      BY <1>0, <2>2 DEF WalType, WalFields
    <2>4. Shape(wal')
      BY <2>1, <2>3 DEF LogOk, Shape, F
    <2>5. Seen(wal') = Seen(wal)
      <3>1. wal.synced = wal.frames
        BY <2>1 DEF OInv
      <3> QED BY <2>3, <3>1 DEF Seen, Disk, F
    <2>6. Ordered(wal') /\ Below(wal')
      BY <2>1, <2>3, <2>5 DEF LogOk, Ordered, Below
    <2>7. wal'.header.frame_count >= 1
      BY <2>1, <2>3 DEF OInv
    <2> QED BY <1>1, <2>1, <2>4, <2>6, <2>7 DEF OInv
  <1>10. CASE resetHeader
    <2>1. call.at = "truncated" /\ call' = NoCall
      BY <1>10 DEF resetHeader, InCheckpoint
    <2> DEFINE w == [wal EXCEPT !.header = NewHeader]
    <2>2. /\ w.frames = wal.frames /\ w.current = wal.current /\ w.next_lsn = wal.next_lsn
          /\ w.header = NewHeader /\ DOMAIN w = Fields
      BY <1>0 DEF WalType, WalFields, Fields
    <2>3. wal' = Fsync(w)
      BY <1>10 DEF resetHeader
    <2> HIDE DEF w
    <2>4. /\ wal'.frames = wal.frames /\ wal'.synced = wal.frames /\ wal'.header = NewHeader
          /\ wal'.headers = {NewHeader} /\ wal'.current = wal.current
          /\ wal'.next_lsn = wal.next_lsn
      BY <2>2, <2>3 DEF Fsync, Fields
    <2>5. Seen(wal') \subseteq Seen(wal) /\ Uncut(wal')
      <3>1. ReadOf(wal.frames, 0) = {}
        <4>1. \A i \in DOMAIN wal.frames : ~(i <= 0)
          BY <1>0, WalFieldTypes
        <4> QED BY <4>1 DEF ReadOf
      <3> QED BY <2>4, <3>1 DEF Seen, Disk, Uncut, NewHeader
    <2>6. Shape(wal')
      BY <1>0, <2>4, WalFieldTypes DEF OInv, Shape, NewHeader
    <2>7. Ordered(wal') /\ Below(wal')
      BY <1>1, <2>4, <2>5 DEF OInv, Ordered, Below
    <2> QED BY <1>1, <2>1, <2>5, <2>6, <2>7 DEF OInv, NoCall
  <1> QED BY <1>2, <1>3, <1>6, <1>7, <1>8, <1>9, <1>10 DEF Checkpoint

LEMMA OStep == "stale" \notin Faults /\ TInv /\ OInv /\ [Next]_vars => OInv'
  <1> SUFFICES ASSUME "stale" \notin Faults, TInv, OInv, [Next]_vars PROVE OInv'
    OBVIOUS
  <1>1. CASE UNCHANGED <<status, wal, call>>
    BY <1>1 DEF OInv, Shape, Ordered, Below, Uncut, Seen, Disk
  <1>2. CASE \E c \in Cells : evict(c)
    BY <1>1, <1>2 DEF evict
  <1>3. CASE UNCHANGED vars
    BY <1>1, <1>3 DEF vars
  <1> QED BY <1>2, <1>3, OOpen, OEnds, OTransaction, OCheckpoint DEF Next

(* While the database is open, the records that recovery would read and    *)
(* those of the frame in memory carry each number once, and below the next *)
(* one: torn, missing and zeroed frames, lost headers, retries, early      *)
(* evictions and interrupted truncations cannot make the log disagree with *)
(* the order of its numbers.  Only frames that come back as they were      *)
(* before they were overwritten can.                                       *)
THEOREM LogStaysOrdered == "stale" \notin Faults => (Spec => []LogIsOrdered)
  <1> SUFFICES ASSUME "stale" \notin Faults PROVE Spec => []LogIsOrdered
    OBVIOUS
  <1>1. Init => TInv /\ OInv
    BY TInit, OInit
  <1>2. TInv /\ OInv /\ [Next]_vars => (TInv /\ OInv)'
    BY TStep, OStep
  <1>3. TInv /\ OInv => LogIsOrdered
    <2> SUFFICES ASSUME TInv, OInv, status = "open" PROVE LogIsOrdered
      BY DEF LogIsOrdered
    <2>1. Readable(wal) = ReadOf(wal.frames, wal.header.frame_count)
      BY ReadableIsReadOf DEF TInv
    <2>2. Readable(wal) \cup wal.current \subseteq Seen(wal)
      <3>1. CASE wal.frames = <<>>
        BY <2>1, <3>1 DEF ReadOf, Seen
      <3>2. CASE wal.frames # <<>>
        BY <2>1, <3>2 DEF Seen, Disk
      <3> QED BY <3>1, <3>2
    <2> QED BY <2>2 DEF OInv, Ordered, Below, LogIsOrdered
  <1> QED BY <1>1, <1>2, <1>3, PTL DEF Spec

-----------------------------------------------------------------------------
\* What recovery scans of a log if it finds the header h, and what it would
\* scan if the frame in memory were flushed now.
Log(w, h) == UNION {w.frames[i] : i \in 1..h.frame_count}
From(h, L) == {r \in L : r.lsn >= h.checkpoint_lsn}
Base(w, h) == From(h, Log(w, h))
All(w) == From(w.header, Log(w, w.header) \cup w.current)

\* analysisPass and redoPass over a set of records.
Outcomes(S, t) == {r \in S : r.txn = t /\ r.kind \in {"begin", "commit", "abort"}}
CommittedIn(S, t) ==
  \E r \in Outcomes(S, t) :
     /\ r.kind = "commit"
     /\ \E b \in Outcomes(S, t) : b.kind = "begin" /\ b.lsn < r.lsn
     /\ \A o \in Outcomes(S, t) : o.lsn <= r.lsn
Ops(S) == {r \in S : r.kind = "op"}
On(S, c) == {r \in Ops(S) : r.write[1] = c /\ CommittedIn(S, r.txn)}

\* Redo of S over any file that a power loss leaves gives p.
GivesCell(S, c, values, v) ==
  \/ On(S, c) = {} /\ values = {v}
  \/ \E r \in On(S, c) : r.write[2] = v /\ \A s \in On(S, c) : s.lsn <= r.lsn
Gives(S, st, p) == \A c \in Cells : GivesCell(S, c, st[c], p[c])

HeadersGive(w, st, p) == \A h \in w.headers : Gives(Base(w, h), st, p)
HeadersKeep(w, st, promises) ==
  \A h \in w.headers : \E p \in promises : Gives(Base(w, h), st, p)

\* Every frame that a header counts is in the file, and its checkpoint lies
\* within them.
Intact(w) ==
  /\ \A i \in DOMAIN w.frames : w.frames[i] # Torn
  /\ w.header.frame_count <= Len(w.frames)
  /\ \A h \in w.headers : \/ h.checkpoint_lsn <= 1
                          \/ \E r \in Log(w, h) : r.lsn + 1 >= h.checkpoint_lsn

\* An open transaction has begun and nothing else, but for its operations;
\* the frame in memory is about open transactions.
Begun(S, t) ==
  \E b \in S : /\ b.kind = "begin" /\ b.txn = t
               /\ \A r \in S : r.txn = t => r = b \/ (r.kind = "op" /\ r.lsn > b.lsn)

\* The operations of open transactions are the writer's, with the values of
\* its overlay, and come last.
OpsOfWriter(S, act, wr, ov) ==
  /\ \A r \in Ops(S) : r.txn \in act => r.txn = wr /\ ov[wr][r.write[1]] = r.write[2]
  /\ \A r, s \in Ops(S) : r.txn \in act /\ s.txn \notin act => s.lsn < r.lsn

InFlight == call.op = "commit" /\ call.at \in {"applied", "flushed"}
Ending(t) == call.at = "flushed" /\ call.txn = t

Life ==
  /\ mem \in promised
  /\ \A t \in active : t < next_txn
  /\ \A t \in Ids : t # writer => overlay[t] = EmptyOverlay
  /\ call.op \in {"full", "truncate"} => active = {}
  /\ call.at \in {"end", "final", "truncate", "truncated"} => \A c \in Cells : stable[c] = {mem[c]}
  /\ call.at \in {"flushed", "pages", "end", "truncate", "truncated"} => wal.current = {}
  /\ call.at = "truncated" => wal.frames = <<>>

LogInv ==
  /\ Intact(wal) /\ wal.header.checkpoint_lsn <= wal.next_lsn
  /\ call.at \in {"pages", "end"} => \E r \in Log(wal, wal.header) : r.lsn + 1 = wal.next_lsn
  /\ \A r \in wal.current : r.txn < next_txn
  /\ next_txn > 1 => \A r \in All(wal) : r.txn < next_txn
  /\ \A t \in active : Ending(t) \/ Begun(All(wal), t)
  /\ OpsOfWriter(All(wal), active, writer, overlay)
  /\ call.at = "logging" =>
       /\ call.left \subseteq LoggedCells(call.txn)
       /\ \A c \in LoggedCells(call.txn) \ call.left :
            \E r \in Ops(All(wal)) : r.txn = call.txn /\ r.write[1] = c

\* What a crash at this moment keeps.
Quiet ==
  /\ HeadersGive(wal, stable, mem)
  /\ Gives(All(wal), stable, mem)
AppliedInv ==
  /\ \A r \in Ops(All(wal)) : r.txn = call.txn => mem[r.write[1]] = r.write[2]
  /\ \E p \in promised :
       /\ HeadersGive(wal, stable, p) /\ Gives(All(wal), stable, p)
       /\ \A c \in Cells : \/ p[c] = mem[c]
                           \/ \E r \in Ops(All(wal)) : r.txn = call.txn /\ r.write[1] = c
FlushedInv ==
  /\ Gives(All(wal), stable, mem)
  /\ HeadersKeep(wal, stable, promised)

RInv ==
  /\ \A c \in Cells : file[c] \in stable[c]
  /\ status # "failed"
  /\ status = "closed" =>
       /\ next_txn = 1 /\ active = {} /\ writer = 0 /\ \A t \in Ids : overlay[t] = EmptyOverlay
       /\ Intact(wal) /\ HeadersKeep(wal, stable, promised)
  /\ status = "open" => Life
  /\ status = "open" /\ call.at # "truncated" =>
       /\ LogInv
       /\ ~InFlight => Quiet
       /\ InFlight /\ call.at = "applied" => AppliedInv
       /\ InFlight /\ call.at = "flushed" => FlushedInv

-----------------------------------------------------------------------------
(* Redo of a set of records that grows at its end.                         *)

LEMMA BegunNotCommitted ==
  ASSUME NEW S, NEW t, Begun(S, t)
  PROVE  ~CommittedIn(S, t)
  <1>1. PICK b \in S : /\ b.kind = "begin"
                       /\ \A r \in S : r.txn = t => r = b \/ r.kind = "op"
    BY DEF Begun
  <1>2. \A r \in Outcomes(S, t) : r = b
    BY <1>1 DEF Outcomes
  <1> QED BY <1>1, <1>2 DEF CommittedIn

\* A last record that ends no transaction, or one about a transaction that
\* is not committed, changes nothing that is redone.
LEMMA AddUncommitted ==
  ASSUME NEW S \in SUBSET Records, NEW r \in Records, \A s \in S : s.lsn < r.lsn,
         r.kind # "commit", r.kind = "checkpoint" \/ ~CommittedIn(S, r.txn)
  PROVE  \A c : On(S \cup {r}, c) = On(S, c)
  <1>1. \A s \in S : s.lsn \in Nat /\ r.lsn \in Nat /\ ~(r.lsn <= s.lsn)
    BY RecordFields
  <1>2. ASSUME NEW t PROVE CommittedIn(S \cup {r}, t) <=> CommittedIn(S, t)
    <2>1. CASE r.txn = t /\ r.kind \in {"begin", "abort"}
      <3>1. r \in Outcomes(S \cup {r}, t)
        BY <2>1 DEF Outcomes
      <3>2. \A o \in Outcomes(S \cup {r}, t) : o.kind = "commit" => o \in S
        BY <2>1 DEF Outcomes
      <3>3. ~CommittedIn(S \cup {r}, t)
        BY <1>1, <3>1, <3>2 DEF CommittedIn
      <3> QED BY <2>1, <3>3
    <2>2. CASE ~(r.txn = t /\ r.kind \in {"begin", "abort"})
      <3>1. Outcomes(S \cup {r}, t) = Outcomes(S, t)
        BY <2>2 DEF Outcomes
      <3> QED BY <3>1 DEF CommittedIn
    <2> QED BY <2>1, <2>2
  <1>3. r.kind = "op" => ~CommittedIn(S, r.txn)
    OBVIOUS
  <1> QED BY <1>2, <1>3 DEF On, Ops

\* A last record that commits a transaction adds its operations.
LEMMA AddCommit ==
  ASSUME NEW S \in SUBSET Records, NEW r \in Records, \A s \in S : s.lsn < r.lsn,
         r.kind = "commit", Begun(S, r.txn)
  PROVE  \A c : On(S \cup {r}, c) = On(S, c) \cup {o \in Ops(S) : o.write[1] = c /\ o.txn = r.txn}
  <1>1. \A s \in S : s.lsn \in Nat /\ r.lsn \in Nat /\ s.lsn <= r.lsn
    BY RecordFields
  <1>2. CommittedIn(S \cup {r}, r.txn)
    <2>1. PICK b \in S : b.kind = "begin" /\ b.txn = r.txn
      BY DEF Begun
    <2>2. r \in Outcomes(S \cup {r}, r.txn) /\ b \in Outcomes(S \cup {r}, r.txn)
      BY <2>1 DEF Outcomes
    <2>3. \A o \in Outcomes(S \cup {r}, r.txn) : o.lsn <= r.lsn
      BY <1>1, RecordFields DEF Outcomes
    <2> QED BY <2>1, <2>2, <2>3 DEF CommittedIn
  <1>3. ASSUME NEW t, t # r.txn PROVE CommittedIn(S \cup {r}, t) <=> CommittedIn(S, t)
    <2>1. Outcomes(S \cup {r}, t) = Outcomes(S, t)
      BY <1>3 DEF Outcomes
    <2> QED BY <2>1 DEF CommittedIn
  <1>4. Ops(S \cup {r}) = Ops(S)
    BY DEF Ops
  <1>5. ~CommittedIn(S, r.txn)
    BY BegunNotCommitted
  <1> QED BY <1>2, <1>3, <1>4, <1>5 DEF On

LEMMA GivesSame ==
  ASSUME NEW S, NEW T, \A c : On(T, c) = On(S, c), NEW st, NEW p
  PROVE  Gives(T, st, p) <=> Gives(S, st, p)
  BY DEF Gives, GivesCell

\* Nothing to redo, and every cell's value certain.
LEMMA GivesCertain ==
  ASSUME NEW S, Ops(S) = {}, NEW st, NEW p, \A c \in Cells : st[c] = {p[c]}
  PROVE  Gives(S, st, p)
  <1>1. \A c : On(S, c) = {}
    BY DEF On
  <1> QED BY <1>1 DEF Gives, GivesCell

\* More certainty, and no less: the pool writes out the value that is redone.
LEMMA GivesMore ==
  ASSUME NEW S, NEW st, NEW st2, NEW p, Gives(S, st, p),
         \A c \in Cells : st[c] = {p[c]} => st2[c] = {p[c]}
  PROVE  Gives(S, st2, p)
  BY DEF Gives, GivesCell

-----------------------------------------------------------------------------
(* Recovery of an intact log does what its records say.                    *)

LEMMA LogMember ==
  ASSUME NEW w, NEW h, NEW r
  PROVE  r \in Log(w, h) <=> \E i \in 1..h.frame_count : r \in w.frames[i]
  BY DEF Log

LEMMA IntactIsSeen ==
  ASSUME NEW w, WalType(w), Intact(w)
  PROVE  /\ ReadOf(w.frames, w.header.frame_count) = Log(w, w.header)
         /\ Log(w, w.header) \cup w.current \subseteq Seen(w)
         /\ All(w) \subseteq Seen(w) /\ All(w) \subseteq Records
  <1>1. /\ w.header.frame_count \in Nat /\ Len(w.frames) \in Nat
        /\ DOMAIN w.frames = 1..Len(w.frames) /\ w.header.frame_count <= Len(w.frames)
    BY WalFieldTypes DEF Intact
  <1>2. \A k \in DOMAIN w.frames : \A j \in 1..k : w.frames[j] # Torn
    <2>1. \A k \in DOMAIN w.frames : \A j \in 1..k : j \in DOMAIN w.frames
      BY <1>1
    <2> QED BY <2>1 DEF Intact
  <1>3. {k \in DOMAIN w.frames : k <= w.header.frame_count /\ \A j \in 1..k : w.frames[j] # Torn}
          = 1..w.header.frame_count
    BY <1>1, <1>2
  <1>4. ReadOf(w.frames, w.header.frame_count) = Log(w, w.header)
    BY <1>3 DEF ReadOf, Log
  <1>5. Log(w, w.header) \subseteq Seen(w)
    <2>1. CASE w.frames = <<>>
      <3>1. w.header.frame_count = 0
        BY <1>1, <2>1
      <3> QED BY <3>1 DEF Log
    <2>2. CASE w.frames # <<>>
      BY <1>4, <2>2 DEF Seen, Disk
    <2> QED BY <2>1, <2>2
  <1>6. Log(w, w.header) \subseteq Records
    BY <1>1, WalFieldTypes DEF Log
  <1> QED BY <1>4, <1>5, <1>6, WalFieldTypes DEF All, From, Seen

\* Redo of the scanned records does what they say.
LEMMA RedoGives ==
  ASSUME NEW w, WalType(w), NEW B, Scanned(w) = B,
         \A r, s \in B : r.lsn = s.lsn => r = s, \A r \in B : r.lsn \in Nat,
         NEW st, NEW p \in [Cells -> States], Gives(B, st, p),
         NEW f, \A c \in Cells : f[c] \in st[c]
  PROVE  Recovered(w, f) = p
  <1>3. \A t : Committed(w, t) <=> CommittedIn(B, t)
    BY DEF Committed, CommittedIn, Outcomes
  <1>4. \A c : \A r : r \in On(B, c) <=> r \in Redo(w) /\ r.write[1] = c
    BY <1>3 DEF On, Ops, Redo
  <1>8. ASSUME NEW c \in Cells PROVE Recovered(w, f)[c] = p[c]
    <2>1. GivesCell(B, c, st[c], p[c])
      BY DEF Gives
    <2>2. CASE \A r \in Redo(w) : r.write[1] # c
      <3>1. On(B, c) = {}
        BY <1>4, <2>2
      <3>2. st[c] = {p[c]}
        BY <2>1, <3>1 DEF GivesCell
      <3>3. Recovered(w, f)[c] = f[c]
        BY <2>2, RecoveredCells
      <3> QED BY <3>2, <3>3
    <2>3. CASE \E r \in Redo(w) : r.write[1] = c
      <3>1. PICK r \in Redo(w) : /\ r.write[1] = c /\ Recovered(w, f)[c] = r.write[2]
                                 /\ \A s \in Redo(w) : s.write[1] = c => s.lsn <= r.lsn
        BY <2>3, RecoveredCells
      <3>2. PICK q \in On(B, c) : q.write[2] = p[c] /\ \A s \in On(B, c) : s.lsn <= q.lsn
        BY <1>4, <2>1, <3>1 DEF GivesCell
      <3>3. r \in B /\ q \in B /\ r.lsn <= q.lsn /\ q.lsn <= r.lsn
        BY <1>4, <3>1, <3>2 DEF On, Ops
      <3>4. r = q
        BY <3>3
      <3> QED BY <3>1, <3>2, <3>4
    <2> QED BY <2>2, <2>3
  <1>9. Recovered(w, f) = [c \in Cells |-> Recovered(w, f)[c]]
    BY RecoveredCells
  <1> QED BY <1>8, <1>9

LEMMA RecoveryGives ==
  ASSUME NEW w, WalType(w), Intact(w), Ordered(w),
         NEW st, NEW p \in [Cells -> States], Gives(Base(w, w.header), st, p),
         NEW f, \A c \in Cells : f[c] \in st[c]
  PROVE  ~OpenFails(w) /\ Recovered(w, f) = p
  <1> DEFINE B == Base(w, w.header)
  <1>1. Readable(w) = Log(w, w.header)
    BY IntactIsSeen, ReadableIsReadOf
  <1>2. Scanned(w) = B
    BY <1>1 DEF Scanned, Base, From
  <1>3. \A r, s \in B : r.lsn = s.lsn => r = s
    BY IntactIsSeen DEF Base, From, Ordered
  <1>4. \A r \in B : r.lsn \in Nat
    BY IntactIsSeen, RecordFields DEF Base, From, All
  <1>5. ~OpenFails(w)
    <2>1. LogEnd(w) \in 1..(w.header.frame_count + 1) /\ w.header.frame_count \in Nat
      BY LogEndIsFirst, WalFieldTypes
    <2>2. ASSUME LogEnd(w) <= w.header.frame_count PROVE FALSE
      <3>1. Unreadable(w, LogEnd(w)) /\ LogEnd(w) \in 1..Len(w.frames)
        BY <2>1, <2>2, LogEndIsFirst, WalFieldTypes DEF Intact
      <3> QED BY <3>1, WalFieldTypes DEF Unreadable, Intact
    <2> QED BY <2>2 DEF OpenFails
  <1> HIDE DEF B
  <1>6. Recovered(w, f) = p
    <2>1. Gives(B, st, p)
      BY DEF B
    <2> QED BY <1>2, <1>3, <1>4, <2>1, RedoGives
  <1> QED BY <1>5, <1>6

-----------------------------------------------------------------------------
(* What the operations of the log do to what recovery would scan.          *)

\* The headers of v were headers of w, and count the same frames, or else
\* count everything that w holds.
Continues(w, v) ==
  \A h \in v.headers : Base(v, h) = All(w) \/ \E g \in w.headers : Base(v, h) = Base(w, g)

LEMMA ContinuesGives ==
  ASSUME NEW w, NEW v, Continues(w, v), NEW st
  PROVE  /\ \A p : HeadersGive(w, st, p) /\ Gives(All(w), st, p) => HeadersGive(v, st, p)
         /\ \A P : HeadersKeep(w, st, P) /\ (\E p \in P : Gives(All(w), st, p))
                     => HeadersKeep(v, st, P)
  BY DEF Continues, HeadersGive, HeadersKeep

\* A flush.
LEMMA FlushEffect ==
  ASSUME NEW w, LogOk(w), Intact(w)
  PROVE  LET f == flushCurrentFrame(w)
         IN  /\ LogOk(f) /\ Intact(f) /\ Continues(w, f) /\ f.current = {}
             /\ All(f) = All(w) /\ Base(f, f.header) = All(w)
             /\ f.next_lsn = w.next_lsn /\ f.header.checkpoint_lsn = w.header.checkpoint_lsn
             /\ Log(w, w.header) \cup w.current \subseteq Log(f, f.header)
  <1> DEFINE f == flushCurrentFrame(w)
  <1>0. WalType(w) /\ LogOk(f) /\ Shape(w)
    BY FlushLogOk DEF LogOk
  <1>1. CASE w.current = {}
    <2>1. f = w
      BY <1>0, <1>1, FlushFields
    <2>2. Base(w, w.header) = All(w)
      BY <1>1 DEF Base, All
    <2>3. Continues(w, w)
      BY DEF Continues
    <2> HIDE DEF f
    <2>4. /\ LogOk(f) /\ Intact(f) /\ Continues(w, f) /\ f.current = {}
          /\ All(f) = All(w) /\ Base(f, f.header) = All(w)
          /\ f.next_lsn = w.next_lsn /\ f.header.checkpoint_lsn = w.header.checkpoint_lsn
          /\ Log(w, w.header) \cup w.current \subseteq Log(f, f.header)
      BY <1>0, <1>1, <2>1, <2>2, <2>3
    <2> QED BY <2>4 DEF f
  <1>2. CASE w.current # {}
    <2> DEFINE n == w.header.frame_count + 1
               g == NextHeader(w)
    <2>1. f = [frames |-> Flushed(w), synced |-> w.synced, header |-> g,
               headers |-> w.headers \cup {g}, current |-> {}, next_lsn |-> w.next_lsn]
      BY <1>0, <1>2, FlushFields
    <2>2. /\ n \in Nat /\ n >= 1 /\ w.header.frame_count = n - 1
          /\ g.frame_count = n /\ g.checkpoint_lsn = w.header.checkpoint_lsn
          /\ Len(w.frames) \in Nat /\ DOMAIN w.frames = 1..Len(w.frames)
          /\ n - 1 <= Len(w.frames)
      BY <1>0, WalFieldTypes DEF NextHeader, Intact
    <2>3. /\ Len(Flushed(w)) \in Nat /\ Len(Flushed(w)) >= n
          /\ Len(Flushed(w)) >= Len(w.frames)
          /\ DOMAIN Flushed(w) = 1..Len(Flushed(w)) /\ Flushed(w)[n] = w.current
          /\ \A i \in DOMAIN Flushed(w) :
               i # n => Flushed(w)[i] = IF i <= Len(w.frames) THEN w.frames[i] ELSE {}
      BY <1>0, FlushedFrames
    <2>4. /\ f.frames = Flushed(w) /\ f.header = g /\ f.headers = w.headers \cup {g}
          /\ f.current = {} /\ f.next_lsn = w.next_lsn
      BY <2>1
    <2> HIDE DEF f, n, g
    <2>5. \A i \in 1..(n - 1) : f.frames[i] = w.frames[i]
      BY <2>2, <2>3, <2>4
    <2>6. ASSUME NEW h \in w.headers PROVE Log(f, h) = Log(w, h)
      <3>1. h.frame_count <= n - 1 /\ h.frame_count \in Nat
        BY <1>0, <2>2, WalFieldTypes DEF Shape, Headers
      <3>2. \A i \in 1..h.frame_count : f.frames[i] = w.frames[i]
        BY <2>2, <2>5, <3>1
      <3> QED BY <3>2 DEF Log
    <2>7. Log(f, g) = Log(w, w.header) \cup w.current
      <3>1. \A i : i \in 1..n <=> i \in 1..(n - 1) \/ i = n
        BY <2>2
      <3>2. \A r : (\E i \in 1..n : r \in f.frames[i])
                     <=> (\E i \in 1..(n - 1) : r \in w.frames[i]) \/ r \in w.current
        BY <2>3, <2>4, <2>5, <3>1
      <3>3. \A r : r \in Log(f, g) <=> r \in Log(w, w.header) \/ r \in w.current
        BY <2>2, <3>2, LogMember
      <3> QED BY <3>3
    <2>8. Base(f, g) = All(w) /\ All(f) = All(w)
      BY <2>2, <2>4, <2>7 DEF Base, All, From
    <2>9. Continues(w, f)
      BY <2>4, <2>6, <2>8 DEF Continues, Base
    <2>10. w.current # Torn
      <3>1. Record("torn", 0, 0, <<>>) \in Torn /\ Record("torn", 0, 0, <<>>).kind = "torn"
        BY DEF Torn, Record
      <3> QED BY <1>0, <3>1 DEF Shape
    <2>11. Intact(f)
      <3>1. ASSUME NEW i \in DOMAIN f.frames PROVE f.frames[i] # Torn
        <4>1. {} # Torn
          BY DEF Torn
        <4>2. i <= Len(w.frames) => i \in DOMAIN w.frames
          BY <2>2, <2>3, <2>4
        <4> QED BY <2>3, <2>4, <2>10, <4>1, <4>2 DEF Intact
      <3>2. f.header.frame_count <= Len(f.frames)
        BY <2>2, <2>3, <2>4
      <3>3. ASSUME NEW h \in f.headers
            PROVE  h.checkpoint_lsn <= 1 \/ \E r \in Log(f, h) : r.lsn + 1 >= h.checkpoint_lsn
        <4>1. CASE h \in w.headers
          BY <2>6, <4>1 DEF Intact
        <4>2. CASE h = g
          <5>1. w.header \in w.headers
            BY <1>0, WalFieldTypes
          <5> QED BY <2>2, <2>7, <4>2, <5>1 DEF Intact
        <4> QED BY <2>4, <4>1, <4>2
      <3> QED BY <3>1, <3>2, <3>3 DEF Intact
    <2>12. /\ LogOk(f) /\ Intact(f) /\ Continues(w, f) /\ f.current = {}
           /\ All(f) = All(w) /\ Base(f, f.header) = All(w)
           /\ f.next_lsn = w.next_lsn /\ f.header.checkpoint_lsn = w.header.checkpoint_lsn
           /\ Log(w, w.header) \cup w.current \subseteq Log(f, f.header)
      BY <1>0, <2>2, <2>4, <2>7, <2>8, <2>9, <2>11
    <2> QED BY <2>12 DEF f
  <1> QED BY <1>1, <1>2

\* A sync keeps only the newest header.
LEMMA FsyncEffect ==
  ASSUME NEW w, LogOk(w), Intact(w)
  PROVE  LET f == Fsync(w)
         IN  /\ LogOk(f) /\ Intact(f) /\ Continues(w, f) /\ f.current = w.current
             /\ All(f) = All(w) /\ f.header = w.header /\ f.headers = {w.header}
             /\ Base(f, f.header) = Base(w, w.header) /\ Log(f, f.header) = Log(w, w.header)
             /\ f.next_lsn = w.next_lsn
  <1> DEFINE f == Fsync(w)
  <1>0. WalType(w) /\ LogOk(f) /\ w.header \in w.headers
    BY FsyncLogOk, WalFieldTypes DEF LogOk
  <1>1. f = [frames |-> w.frames, synced |-> w.frames, header |-> w.header,
             headers |-> {w.header}, current |-> w.current, next_lsn |-> w.next_lsn]
    BY <1>0, FsyncFields
  <1> HIDE DEF f
  <1>2. /\ f.frames = w.frames /\ f.header = w.header /\ f.headers = {w.header}
        /\ f.current = w.current /\ f.next_lsn = w.next_lsn
    BY <1>1
  <1>3. /\ All(f) = All(w) /\ \A h : Base(f, h) = Base(w, h) /\ Log(f, h) = Log(w, h)
    BY <1>2 DEF All, Base, From, Log
  <1>4. Intact(f) /\ Continues(w, f)
    BY <1>0, <1>2, <1>3 DEF Intact, Continues
  <1> QED BY <1>0, <1>2, <1>3, <1>4 DEF f

LEMMA SyncEffect ==
  ASSUME NEW w, LogOk(w), Intact(w)
  PROVE  LET f == sync(w)
         IN  /\ LogOk(f) /\ Intact(f) /\ f.current = {} /\ f.headers = {f.header}
             /\ All(f) = All(w) /\ Base(f, f.header) = All(w)
             /\ f.next_lsn = w.next_lsn /\ f.header.checkpoint_lsn = w.header.checkpoint_lsn
             /\ Log(w, w.header) \cup w.current \subseteq Log(f, f.header)
  <1> DEFINE g == flushCurrentFrame(w)
  <1>1. /\ LogOk(g) /\ Intact(g) /\ g.current = {} /\ All(g) = All(w)
        /\ Base(g, g.header) = All(w) /\ g.next_lsn = w.next_lsn
        /\ g.header.checkpoint_lsn = w.header.checkpoint_lsn
        /\ Log(w, w.header) \cup w.current \subseteq Log(g, g.header)
    BY FlushEffect
  <1>2. sync(w) = Fsync(g)
    BY DEF sync
  <1> HIDE DEF g
  <1>3. /\ LogOk(Fsync(g)) /\ Intact(Fsync(g)) /\ Fsync(g).current = g.current
        /\ All(Fsync(g)) = All(g) /\ Fsync(g).header = g.header /\ Fsync(g).headers = {g.header}
        /\ Base(Fsync(g), Fsync(g).header) = Base(g, g.header)
        /\ Log(Fsync(g), Fsync(g).header) = Log(g, g.header)
        /\ Fsync(g).next_lsn = g.next_lsn
    BY <1>1, FsyncEffect
  <1> QED BY <1>1, <1>2, <1>3

\* What the log is asked to take.
Loggable(kind, t, write) == t \in Nat /\ IsWrite(kind, write) /\ kind # "torn"

\* An append adds a record at the end.
LEMMA AppendEffect ==
  ASSUME NEW w, LogOk(w), Intact(w), w.header.checkpoint_lsn <= w.next_lsn,
         NEW kind, NEW t, NEW write, Loggable(kind, t, write),
         NEW a, a = appendRecord(w, kind, t, write),
         NEW r, r = Record(kind, t, w.next_lsn, write)
  PROVE  /\ LogOk(a) /\ Intact(a) /\ Continues(w, a) /\ a.header.checkpoint_lsn <= a.next_lsn
         /\ All(a) = All(w) \cup {r} /\ r \in Records /\ r \in a.current
         /\ All(w) \in SUBSET Records /\ \A s \in All(w) : s.lsn < r.lsn
         /\ a.next_lsn = w.next_lsn + 1
         /\ a.header.checkpoint_lsn = w.header.checkpoint_lsn
         /\ \A s \in a.current : s \in w.current \/ s = r
         /\ \A s \in Log(a, a.header) : s.lsn < r.lsn
         /\ Log(w, w.header) \subseteq Log(a, a.header)
  <1> DEFINE f == IF Cardinality(w.current) = FrameCap THEN flushCurrentFrame(w) ELSE w
  <1>0. /\ WalType(w) /\ w.header.checkpoint_lsn \in Nat /\ w.next_lsn \in Nat
        /\ LogOk(a) /\ t \in Nat /\ IsWrite(kind, write) /\ kind # "torn"
    BY AppendLogOk, WalFieldTypes DEF LogOk, Loggable
  <1>1. /\ LogOk(f) /\ Intact(f) /\ Continues(w, f) /\ All(f) = All(w)
        /\ f.next_lsn = w.next_lsn /\ f.header.checkpoint_lsn = w.header.checkpoint_lsn
        /\ f.current \subseteq w.current /\ Log(w, w.header) \subseteq Log(f, f.header)
    <2>1. CASE f = w
      <3>1. Continues(w, w)
        BY DEF Continues
      <3> QED BY <2>1, <3>1
    <2>2. CASE f = flushCurrentFrame(w)
      BY <2>2, FlushEffect
    <2> QED BY <2>1, <2>2
  <1>2. a = [frames |-> f.frames, synced |-> f.synced, header |-> f.header, headers |-> f.headers,
             current |-> f.current \cup {r}, next_lsn |-> w.next_lsn + 1]
    BY <1>0, AppendFields
  <1>3. /\ r \in Records /\ r.lsn = w.next_lsn
    BY <1>0 DEF Record, Records, IsWrite
  <1> HIDE DEF f
  <1>4. /\ a.frames = f.frames /\ a.header = f.header /\ a.headers = f.headers
        /\ a.current = f.current \cup {r} /\ a.next_lsn = w.next_lsn + 1
    BY <1>2
  <1>5. \A h : Log(a, h) = Log(f, h) /\ Base(a, h) = Base(f, h)
    BY <1>4 DEF Log, Base, From
  <1>6. Intact(a) /\ Continues(w, a)
    BY <1>1, <1>4, <1>5 DEF Intact, Continues
  <1>7. All(a) = All(w) \cup {r}
    <2>1. r.lsn >= f.header.checkpoint_lsn
      BY <1>0, <1>1, <1>3
    <2> QED BY <1>1, <1>4, <1>5, <2>1 DEF All, From
  <1>8. \A s \in Seen(f) : s.lsn < r.lsn
    BY <1>1, <1>3 DEF LogOk, Below
  <1>9. /\ All(w) \in SUBSET Records /\ \A s \in All(w) : s.lsn < r.lsn
        /\ \A s \in Log(f, f.header) : s.lsn < r.lsn
    BY <1>1, <1>8, IntactIsSeen DEF LogOk
  <1>10. a.header.checkpoint_lsn <= a.next_lsn
    BY <1>0, <1>1, <1>4
  <1> QED BY <1>0, <1>1, <1>3, <1>4, <1>5, <1>6, <1>7, <1>9, <1>10

\* A power loss that loses no frame leaves the frames as they are.
LEMMA SurvivorsWhole ==
  ASSUME NEW w, WalType(w), Shape(w), Uncut(w),
         \A f \in {"torn", "zero", "short", "stale"} : f \notin Faults,
         NEW frames \in Survivors(w)
  PROVE  frames = w.frames
  <1> DEFINE reordered(i) == IF i \in DOMAIN w.synced THEN "stale" ELSE "zero"
             lost == {i \in Unsynced(w) : reordered(i) \in Faults}
             last == {i \in Unsynced(w) : i = w.header.frame_count /\ "torn" \in Faults}
             lengths == {Len(w.synced), Len(w.frames)}
             left(L, T, n) ==
               [i \in 1..n |-> IF i \in T THEN Torn
                               ELSE IF i \in DOMAIN w.frames \ L THEN w.frames[i]
                               ELSE IF i \in DOMAIN w.synced THEN w.synced[i]
                               ELSE {}]
             Ls == SUBSET lost
             Ts == SUBSET last
             Ns == {k \in Min(lengths)..Max(lengths) : k = Max(lengths) \/ "short" \in Faults}
  <1>1. PICK L \in Ls, T \in Ts, n \in Ns : frames = left(L, T, n)
    <2>1. Survivors(w) = {left(L, T, n) : L \in Ls, T \in Ts, n \in Ns}
      BY DEF Survivors, Losses
    <2> HIDE DEF Ls, Ts, Ns, left
    <2>2. frames \in {left(L, T, n) : L \in Ls, T \in Ts, n \in Ns}
      BY <2>1
    <2>3. \E L \in Ls : \E T \in Ts : \E n \in Ns : frames = left(L, T, n)
      BY <2>2
    <2> QED BY <2>3
  <1>2. /\ Len(w.synced) \in Nat /\ Len(w.frames) \in Nat /\ w.frames \in Seq(SUBSET Records)
        /\ DOMAIN w.frames = 1..Len(w.frames) /\ Len(w.synced) <= Len(w.frames)
    <2>1. w.frames = <<>> => Len(w.synced) <= Len(w.frames)
      BY DEF Uncut
    <2> QED BY <2>1, WalFieldTypes DEF Shape
  <1>3. n = Len(w.frames)
    <2>1. PICK x \in lengths : \A y \in lengths : x >= y
      BY <1>2
    <2>2. Max(lengths) \in lengths /\ \A y \in lengths : Max(lengths) >= y
      <3> HIDE DEF lengths
      <3> QED BY <2>1, Zenon DEF Max
    <2>3. Max(lengths) = Len(w.frames)
      BY <1>2, <2>2
    <2> QED BY <2>3
  <1>4. L = {} /\ T = {}
    BY <1>1
  <1>5. frames = [i \in 1..Len(w.frames) |-> w.frames[i]]
    BY <1>1, <1>2, <1>3, <1>4
  <1>6. w.frames = [i \in 1..Len(w.frames) |-> w.frames[i]]
    BY <1>2
  <1> QED BY <1>5, <1>6

-----------------------------------------------------------------------------
(* Every step keeps the invariant, in the world the properties are for:    *)
(* calls may fail and the power may go, and every cell is logged.          *)

Tame == Faults \subseteq {"log", "power"} /\ Unlogged = {}

LEMMA TameFaults ==
  ASSUME Tame
  PROVE  \A f \in {"retry", "evict", "reuse", "open", "truncate", "torn", "zero", "short",
                   "stale", "relog"} : f \notin Faults
  BY DEF Tame

LEMMA RInit == Init => RInv
  <1> SUFFICES ASSUME Init PROVE RInv
    OBVIOUS
  <1>1. /\ wal.frames = <<>> /\ wal.header = NewHeader /\ wal.headers = {NewHeader}
        /\ NewHeader.frame_count = 0 /\ NewHeader.checkpoint_lsn = 0
    BY DEF Init, NewHeader
  <1>2. Intact(wal)
    BY <1>1 DEF Intact
  <1>3. Base(wal, NewHeader) = {}
    <2>1. 1..NewHeader.frame_count = {}
      BY <1>1
    <2> QED BY <2>1 DEF Base, From, Log
  <1>4. Gives({}, stable, AllAbsent)
    <2>1. Ops({}) = {} /\ \A c \in Cells : stable[c] = {AllAbsent[c]}
      BY DEF Ops, Init, AllAbsent
    <2> QED BY <2>1, GivesCertain
  <1>5. HeadersKeep(wal, stable, promised)
    BY <1>1, <1>3, <1>4 DEF HeadersKeep, Init
  <1>6. \A t \in Ids : overlay[t] = EmptyOverlay
    BY DEF Init
  <1>7. \A c \in Cells : file[c] \in stable[c]
    BY DEF Init, AllAbsent
  <1> QED BY <1>2, <1>5, <1>6, <1>7 DEF RInv, Init

\* Whatever step a commit has reached, every header a crash can leave gives
\* a promised state.
LEMMA PhaseKeeps ==
  ASSUME RInv, status = "open", call.at # "truncated"
  PROVE  HeadersKeep(wal, stable, promised) /\ Intact(wal)
  <1>1. Intact(wal)
    BY DEF RInv, LogInv
  <1>2. CASE ~InFlight
    <2>1. Quiet /\ mem \in promised
      BY <1>2 DEF RInv, Life
    <2> QED BY <1>1, <2>1 DEF Quiet, HeadersGive, HeadersKeep
  <1>3. CASE InFlight /\ call.at = "applied"
    <2>1. AppliedInv
      BY <1>3 DEF RInv
    <2> QED BY <1>1, <2>1 DEF AppliedInv, HeadersGive, HeadersKeep
  <1>4. CASE InFlight /\ call.at = "flushed"
    BY <1>1, <1>4 DEF RInv, FlushedInv
  <1> QED BY <1>1, <1>2, <1>3, <1>4 DEF InFlight

LEMMA ROpen == Tame /\ TInv /\ OInv /\ RInv /\ open => RInv'
  <1> SUFFICES ASSUME Tame, TInv, OInv, RInv, open PROVE RInv'
    OBVIOUS
  <1>0. /\ status = "closed" /\ wal.current = {} /\ call = NoCall /\ call' = NoCall
        /\ WalType(wal) /\ Ordered(wal) /\ Intact(wal) /\ HeadersKeep(wal, stable, promised)
        /\ file \in [Cells -> States] /\ promised \subseteq [Cells -> States]
        /\ NoCall.op = "none" /\ NoCall.at = "-"
    BY DEF open, TInv, TypeOK, OInv, RInv, NoCall
  <1>1. PICK p \in promised : Gives(Base(wal, wal.header), stable, p)
    BY <1>0, WalFieldTypes DEF HeadersKeep
  <1>2. /\ ~OpenFails(wal) /\ Recovered(wal, file) = p
    BY <1>0, <1>1, RecoveryGives DEF RInv
  <1>3. /\ status' = "open" /\ mem' = p /\ promised' = {p}
        /\ stable' = [c \in Cells |-> {file[c]}]
        /\ wal' = [WrittenBack(wal) EXCEPT !.next_lsn = NextLsn(wal)]
        /\ UNCHANGED <<file, next_txn, active, overlay, writer>>
    BY <1>2 DEF open
  <1>4. /\ wal'.frames = wal.frames /\ wal'.header = wal.header /\ wal'.headers = {wal.header}
        /\ wal'.current = {} /\ wal'.next_lsn = NextLsn(wal)
    <2> DEFINE w == Fsync(wal)
    <2>1. w = [frames |-> wal.frames, synced |-> wal.frames, header |-> wal.header,
               headers |-> {wal.header}, current |-> wal.current, next_lsn |-> wal.next_lsn]
      BY <1>0, FsyncFields
    <2>2. WrittenBack(wal) = w
      BY TameFaults DEF WrittenBack
    <2>3. DOMAIN w = Fields
      BY <2>1 DEF Fields
    <2> HIDE DEF w
    <2> QED BY <1>0, <1>3, <2>1, <2>2, <2>3 DEF Fields
  <1>5. \A h : Log(wal', h) = Log(wal, h) /\ Base(wal', h) = Base(wal, h)
    BY <1>4 DEF Log, Base, From
  <1>6. All(wal') = Base(wal, wal.header)
    BY <1>4, <1>5 DEF All, Base
  <1>7. Gives(Base(wal, wal.header), stable', p)
    <2>1. \A c \in Cells : stable[c] = {p[c]} => stable'[c] = {p[c]}
      BY <1>3 DEF RInv
    <2> QED BY <1>1, <2>1, GivesMore
  <1>8. Quiet'
    BY <1>3, <1>4, <1>5, <1>6, <1>7 DEF Quiet, HeadersGive
  <1>9. Intact(wal')
    BY <1>0, <1>4, <1>5, WalFieldTypes DEF Intact
  <1>10. wal'.header.checkpoint_lsn <= wal'.next_lsn
    <2>1. /\ NextLsn(wal) \in Nat /\ NextLsn(wal) >= 1
          /\ \A r \in Readable(wal) : r.lsn < NextLsn(wal)
      BY <1>0, NextLsnIsNew
    <2>2. Readable(wal) = Log(wal, wal.header)
      BY <1>0, IntactIsSeen, ReadableIsReadOf
    <2>3. wal.header \in wal.headers /\ wal.header.checkpoint_lsn \in Nat
      BY <1>0, WalFieldTypes
    <2>4. CASE wal.header.checkpoint_lsn <= 1
      BY <1>4, <2>1, <2>3, <2>4
    <2>5. CASE \E r \in Log(wal, wal.header) : r.lsn + 1 >= wal.header.checkpoint_lsn
      <3>1. PICK r \in Readable(wal) : r.lsn + 1 >= wal.header.checkpoint_lsn
        BY <2>2, <2>5
      <3>2. r.lsn \in Nat /\ r.lsn < NextLsn(wal)
        BY <1>0, <2>1, ReadableRecords, RecordFields
      <3> QED BY <1>4, <2>1, <2>3, <3>1, <3>2
    <2> QED BY <1>0, <2>3, <2>4, <2>5 DEF Intact
  <1>11. active' = {} /\ next_txn' = 1 /\ writer' = 0 /\ \A t \in Ids : overlay'[t] = EmptyOverlay
    BY <1>0, <1>3 DEF RInv
  <1>12. LogInv'
    <2>1. OpsOfWriter(All(wal'), active', writer', overlay')
      BY <1>11 DEF OpsOfWriter
    <2> QED BY <1>0, <1>4, <1>9, <1>10, <1>11, <2>1 DEF LogInv
  <1>13. Life'
    BY <1>0, <1>3, <1>11 DEF Life
  <1> QED BY <1>0, <1>3, <1>8, <1>12, <1>13 DEF RInv, InFlight

LEMMA REnds == Tame /\ TInv /\ OInv /\ RInv /\ (close \/ kill \/ powerLoss) => RInv'
  <1> SUFFICES ASSUME Tame, TInv, OInv, RInv, close \/ kill \/ powerLoss PROVE RInv'
    OBVIOUS
  <1>0. /\ status' = "closed" /\ next_txn' = 1 /\ active' = {} /\ writer' = 0
        /\ \A t \in Ids : overlay'[t] = EmptyOverlay
        /\ promised' = promised /\ WalType(wal)
    BY DEF close, kill, powerLoss, FilesLeft, Forget, TInv
  <1>1. SUFFICES /\ Intact(wal') /\ HeadersKeep(wal', stable', promised)
                 /\ \A c \in Cells : file'[c] \in stable'[c]
    BY <1>0 DEF RInv
  <1>2. CASE close
    <2>1. status = "open" /\ call.at # "truncated" /\ ~InFlight
      BY <1>2 DEF close, Idle, NoCall, InFlight
    <2>2. /\ LogOk(wal) /\ Intact(wal) /\ Gives(All(wal), stable, mem) /\ mem \in promised
      BY <2>1, OpenLogOk DEF RInv, LogInv, Quiet, Life
    <2>3. /\ Intact(wal') /\ wal'.headers = {wal'.header} /\ Base(wal', wal'.header) = All(wal)
      BY <1>2, <2>2, SyncEffect DEF close
    <2>4. file' = mem /\ stable' = [c \in Cells |-> stable[c] \cup {mem[c]}]
      BY <1>2 DEF close
    <2>5. Gives(All(wal), stable', mem)
      <3>1. \A c \in Cells : stable[c] = {mem[c]} => stable'[c] = {mem[c]}
        BY <2>4
      <3> QED BY <2>2, <3>1, GivesMore
    <2> QED BY <2>2, <2>3, <2>4, <2>5 DEF HeadersKeep
  <1>3. CASE kill
    <2>1. status = "open" /\ call.at # "truncated" /\ UNCHANGED <<file, stable>>
      BY <1>3, TameFaults DEF kill, CrashPoint
    <2>2. Intact(wal) /\ HeadersKeep(wal, stable, promised)
      BY <2>1, PhaseKeeps
    <2>3. wal'.frames = wal.frames /\ wal'.header = wal.header /\ wal'.headers = wal.headers
      BY <1>0, <1>3 DEF kill, WalType, WalFields
    <2>4. \A h : Log(wal', h) = Log(wal, h) /\ Base(wal', h) = Base(wal, h)
      BY <2>3 DEF Log, Base, From
    <2> QED BY <2>1, <2>2, <2>3, <2>4 DEF Intact, HeadersKeep, RInv
  <1>4. CASE powerLoss
    <2>1. status \in {"open", "closed"} /\ call.at # "truncated"
      BY <1>4, TameFaults DEF powerLoss, FilesLeft, CrashPoint
    <2>2. Intact(wal) /\ HeadersKeep(wal, stable, promised) /\ Uncut(wal) /\ Shape(wal)
      <3>1. Uncut(wal)
        <4>1. ASSUME ~Uncut(wal) PROVE FALSE
          <5>1. wal.frames = <<>> /\ wal.header.frame_count >= 1 /\ Intact(wal)
            BY <2>1, <4>1, PhaseKeeps DEF OInv, Uncut, RInv
          <5> QED BY <1>0, <5>1, WalFieldTypes DEF Intact
        <4> QED BY <4>1
      <3> QED BY <2>1, <3>1, PhaseKeeps DEF RInv, OInv
    <2>3. PICK h \in wal.headers : \E frames \in Survivors(wal) :
            wal' = [frames |-> frames, synced |-> frames, header |-> h, headers |-> {h},
                    current |-> {}, next_lsn |-> 1]
      BY <1>4 DEF powerLoss, FilesLeft
    <2>4. PICK frames \in Survivors(wal) :
            wal' = [frames |-> frames, synced |-> frames, header |-> h, headers |-> {h},
                    current |-> {}, next_lsn |-> 1]
      BY <2>3
    <2>5. frames = wal.frames
      <3>1. \A f \in {"torn", "zero", "short", "stale"} : f \notin Faults
        BY TameFaults
      <3> QED BY <1>0, <2>2, <3>1, SurvivorsWhole
    <2>6. wal'.frames = wal.frames /\ wal'.header = h /\ wal'.headers = {h}
      BY <2>4, <2>5
    <2>7. \A g : Log(wal', g) = Log(wal, g) /\ Base(wal', g) = Base(wal, g)
      BY <2>6 DEF Log, Base, From
    <2>8. Intact(wal')
      <3>1. h.frame_count <= Len(wal.frames)
        <4>1. /\ h.frame_count <= wal.header.frame_count /\ h.frame_count \in Nat
              /\ wal.header.frame_count \in Nat /\ Len(wal.frames) \in Nat
              /\ wal.header.frame_count <= Len(wal.frames)
          BY <1>0, <2>2, WalFieldTypes DEF Shape, Headers, Intact
        <4> QED BY <4>1
      <3> QED BY <2>2, <2>6, <2>7, <3>1 DEF Intact
    <2>9. /\ \A c \in Cells : file'[c] \in stable[c]
          /\ stable' = [c \in Cells |-> {file'[c]}]
      BY <1>4 DEF powerLoss, FilesLeft
    <2>10. PICK p \in promised : Gives(Base(wal, h), stable, p)
      BY <2>2 DEF HeadersKeep
    <2>11. Gives(Base(wal, h), stable', p)
      <3>1. \A c \in Cells : stable[c] = {p[c]} => stable'[c] = {p[c]}
        BY <2>9
      <3> QED BY <2>10, <3>1, GivesMore
    <2> QED BY <2>6, <2>7, <2>8, <2>9, <2>11 DEF HeadersKeep
  <1> QED BY <1>2, <1>3, <1>4

LEMMA OpenFacts ==
  ASSUME TInv, OInv, RInv, status = "open", call.at # "truncated"
  PROVE  /\ LogOk(wal) /\ WalType(wal) /\ LogInv /\ Life /\ Intact(wal)
         /\ wal.header.checkpoint_lsn <= wal.next_lsn
         /\ All(wal) \in SUBSET Records /\ All(wal) \subseteq Records
         /\ \A r \in All(wal) : r.txn \in Nat /\ r.lsn \in Nat
         /\ active \subseteq Nat /\ active \subseteq Ids /\ next_txn \in Nat /\ next_txn >= 1
         /\ writer \in {0} \cup active /\ writer \in Nat
  <1>1. LogOk(wal)
    BY OpenLogOk
  <1>2. LogInv /\ Life
    BY DEF RInv
  <1>3. WalType(wal) /\ Intact(wal)
    BY <1>1, <1>2 DEF LogOk, LogInv
  <1>4. All(wal) \subseteq Records
    BY <1>3, IntactIsSeen
  <1>5. /\ active \subseteq Nat /\ active \subseteq Ids /\ next_txn \in Nat /\ next_txn >= 1
        /\ writer \in {0} \cup active /\ writer \in Nat
    BY DEF TInv, TypeOK, Ids
  <1> QED BY <1>1, <1>2, <1>3, <1>4, <1>5, RecordFields DEF LogInv

\* The set of records of an open transaction grows at its end.
LEMMA BegunGrows ==
  ASSUME NEW S, NEW t, Begun(S, t), NEW r, r.txn # t
  PROVE  Begun(S \cup {r}, t)
  BY DEF Begun

LEMMA RBegin == Tame /\ TInv /\ OInv /\ RInv /\ (\E write \in BOOLEAN : beginTransaction(write)) => RInv'
  <1> SUFFICES ASSUME Tame, TInv, OInv, RInv, NEW write \in BOOLEAN, beginTransaction(write)
               PROVE  RInv'
    OBVIOUS
  <1> DEFINE t == next_txn
             r == Record("begin", t, wal.next_lsn, <<>>)
  <1>0. /\ status = "open" /\ call = NoCall /\ call' = NoCall /\ NoCall.at = "-"
        /\ NoCall.op = "none" /\ ~InFlight
    BY DEF beginTransaction, Idle, NoCall, InFlight
  <1>1. /\ LogOk(wal) /\ WalType(wal) /\ LogInv /\ Life /\ Intact(wal)
        /\ wal.header.checkpoint_lsn <= wal.next_lsn
        /\ All(wal) \in SUBSET Records
        /\ \A q \in All(wal) : q.txn \in Nat /\ q.lsn \in Nat
        /\ active \subseteq Nat /\ active \subseteq Ids /\ t \in Nat /\ t >= 1
        /\ writer \in {0} \cup active
    BY <1>0, OpenFacts
  <1>2. Quiet
    BY <1>0 DEF RInv
  <1>3. wal' = appendRecord(wal, "begin", t, <<>>)
    BY DEF beginTransaction
  <1>4. /\ LogOk(wal') /\ Intact(wal') /\ Continues(wal, wal')
        /\ wal'.header.checkpoint_lsn <= wal'.next_lsn
        /\ All(wal') = All(wal) \cup {r} /\ r \in Records
        /\ \A s \in All(wal) : s.lsn < r.lsn
        /\ \A s \in wal'.current : s \in wal.current \/ s = r
    <2>1. Loggable("begin", t, <<>>)
      BY <1>1 DEF Loggable, IsWrite, Kinds
    <2> QED BY <1>1, <1>3, <2>1, AppendEffect
  <1>5. r.kind = "begin" /\ r.txn = t
    BY DEF Record
  <1> HIDE DEF r
  <1>6. \A q \in All(wal) : q.txn < t
    <2>1. \A q \in Scanned(wal) : q.txn < t
      BY TameFaults DEF beginTransaction
    <2>2. All(wal) \subseteq Scanned(wal) \cup wal.current
      BY <1>1, IntactIsSeen, ReadableIsReadOf DEF All, From, Scanned
    <2> QED BY <1>1, <2>1, <2>2 DEF LogInv
  <1>7. ~CommittedIn(All(wal), t)
    BY <1>1, <1>6 DEF CommittedIn, Outcomes
  <1>8. \A c : On(All(wal'), c) = On(All(wal), c)
    BY <1>1, <1>4, <1>5, <1>7, AddUncommitted
  <1>9. Quiet'
    <2>1. UNCHANGED <<mem, stable>>
      BY DEF beginTransaction
    <2>2. Gives(All(wal'), stable, mem)
      BY <1>2, <1>8, GivesSame DEF Quiet
    <2>3. HeadersGive(wal', stable, mem)
      BY <1>2, <1>4, ContinuesGives DEF Quiet
    <2> QED BY <2>1, <2>2, <2>3 DEF Quiet
  <1>10. /\ active' = active \cup {t} /\ next_txn' = t + 1 /\ overlay' = overlay
         /\ writer' = (IF write THEN t ELSE writer) /\ (write => writer = 0)
    BY DEF beginTransaction
  <1>11. \A q \in All(wal') : q.txn < t + 1
    BY <1>1, <1>4, <1>5, <1>6
  <1>12. \A s \in wal'.current : s.txn < t + 1
    <2>1. \A s \in wal.current : s.txn < t /\ s.txn \in Nat
      BY <1>1, WalFieldTypes, RecordFields DEF LogInv
    <2> QED BY <1>1, <1>4, <1>5, <2>1
  <1>13. \A a \in active' : Begun(All(wal'), a)
    <2>1. ASSUME NEW a \in active PROVE Begun(All(wal'), a)
      <3>1. Begun(All(wal), a) /\ a # t
        BY <1>0, <1>1 DEF LogInv, Ending, Life
      <3> QED BY <1>4, <1>5, <3>1, BegunGrows
    <2>2. Begun(All(wal'), t)
      <3>1. r \in All(wal') /\ \A q \in All(wal') : q.txn = t => q = r
        BY <1>1, <1>4, <1>6
      <3> QED BY <1>5, <3>1 DEF Begun
    <2> QED BY <1>10, <2>1, <2>2
  <1>14. OpsOfWriter(All(wal'), active', writer', overlay')
    <2>1. Ops(All(wal')) = Ops(All(wal))
      BY <1>4, <1>5 DEF Ops
    <2>2. ASSUME NEW q \in Ops(All(wal)), q.txn \in active'
          PROVE  q.txn \in active /\ writer' = writer
      <3>1. q.txn < t /\ q.txn \in Nat
        BY <1>1, <1>6 DEF Ops
      <3>2. q.txn \in active
        BY <1>1, <1>10, <2>2, <3>1
      <3>3. q.txn = writer
        BY <1>1, <3>2 DEF LogInv, OpsOfWriter
      <3>4. writer # 0
        BY <1>1, <3>2, <3>3 DEF Ids
      <3> QED BY <1>10, <3>2, <3>4
    <2> QED BY <1>1, <1>10, <2>1, <2>2 DEF LogInv, OpsOfWriter
  <1>15. LogInv'
    BY <1>0, <1>4, <1>10, <1>11, <1>12, <1>13, <1>14 DEF LogInv
  <1>16. Life'
    <2>1. \A a \in active' : a < next_txn'
      BY <1>1, <1>10 DEF Life
    <2>2. \A a \in Ids : a # writer' => overlay'[a] = EmptyOverlay
      BY <1>1, <1>10 DEF Life, Ids
    <2>3. mem' \in promised'
      BY <1>1 DEF Life, beginTransaction
    <2> QED BY <1>0, <2>1, <2>2, <2>3 DEF Life
  <1> QED BY <1>0, <1>9, <1>15, <1>16 DEF RInv, InFlight, beginTransaction

LEMMA RStage == Tame /\ TInv /\ OInv /\ RInv /\ (\E c \in Cells, v \in States : stageWrite(c, v)) => RInv'
  <1> SUFFICES ASSUME Tame, TInv, OInv, RInv, NEW c \in Cells, NEW v \in States, stageWrite(c, v)
               PROVE  RInv'
    OBVIOUS
  <1>0. /\ status = "open" /\ call = NoCall /\ NoCall.at = "-" /\ NoCall.op = "none" /\ ~InFlight
        /\ UNCHANGED <<status, mem, file, stable, wal, next_txn, active, writer, call, promised>>
    BY DEF stageWrite, Idle, NoCall, InFlight
  <1>1. LogInv /\ Life /\ Quiet /\ WalType(wal) /\ Intact(wal)
    BY <1>0, OpenFacts DEF RInv
  <1>2. \A t \in Ids : t # writer => overlay'[t] = overlay[t]
    BY DEF stageWrite, TInv, TypeOK
  <1>3. \A q \in Ops(All(wal)) : q.txn # writer
    <2>1. All(wal) \subseteq Scanned(wal) \cup wal.current
      BY <1>1, IntactIsSeen, ReadableIsReadOf DEF All, From, Scanned
    <2> QED BY <2>1, TameFaults DEF stageWrite, Ops
  <1>4. OpsOfWriter(All(wal), active, writer, overlay')
    BY <1>1, <1>3 DEF LogInv, OpsOfWriter
  <1>5. LogInv'
    BY <1>0, <1>1, <1>4 DEF LogInv, Ending
  <1>6. Life'
    BY <1>0, <1>1, <1>2 DEF Life
  <1> QED BY <1>0, <1>1, <1>5, <1>6 DEF RInv, Quiet, InFlight

LEMMA RLog == Tame /\ TInv /\ OInv /\ RInv
              /\ ((\E t \in active : logTxnOverlayForCommit(t)) \/ LogFails) => RInv'
  <1> SUFFICES ASSUME Tame, TInv, OInv, RInv,
                      (\E t \in active : logTxnOverlayForCommit(t)) \/ LogFails
               PROVE  RInv'
    OBVIOUS
  <1>0. /\ status = "open" /\ call.at \in {"-", "logging"} /\ ~InFlight
        /\ UNCHANGED <<status, mem, file, stable, wal, next_txn, active, overlay, writer, promised>>
    <2>1. status # "open" => call = NoCall
      BY DEF OInv
    <2> QED BY <2>1 DEF logTxnOverlayForCommit, LogFails, Idle, NoCall, InFlight
  <1>1. LogInv /\ Life /\ Quiet
    BY <1>0, OpenFacts DEF RInv
  <1>2. \/ call' = NoCall
        \/ \E t \in active :
             call' = [op |-> "commit", txn |-> t, at |-> "logging", left |-> LoggedCells(t)]
    BY DEF logTxnOverlayForCommit, LogFails
  <1>3. \A t : LoggedCells(t)' = LoggedCells(t)
    BY <1>0 DEF LoggedCells, Written
  <1>4. LogInv'
    <2>1. \A t \in active : Begun(All(wal), t)
      BY <1>0, <1>1 DEF LogInv, Ending
    <2>2. call'.at = "logging" =>
            /\ call'.left \subseteq LoggedCells(call'.txn)
            /\ LoggedCells(call'.txn) \ call'.left = {}
      BY <1>2 DEF NoCall
    <2>3. call'.at \in {"-", "logging"}
      BY <1>2 DEF NoCall
    <2>4. LoggedCells(call.txn)' = LoggedCells(call'.txn)
      BY <1>0 DEF LoggedCells, Written
    <2> QED BY <1>0, <1>1, <2>1, <2>2, <2>3, <2>4 DEF LogInv
  <1>5. Life'
    BY <1>0, <1>1, <1>2 DEF Life, NoCall
  <1>6. ~InFlight'
    BY <1>2 DEF InFlight, NoCall
  <1> QED BY <1>0, <1>1, <1>4, <1>5, <1>6 DEF RInv, Quiet

LEMMA RLogCell == Tame /\ TInv /\ OInv /\ RInv /\ (\E c \in Cells : logCommittedState(c)) => RInv'
  <1> SUFFICES ASSUME Tame, TInv, OInv, RInv, NEW c \in Cells, logCommittedState(c)
               PROVE  RInv'
    OBVIOUS
  <1> DEFINE t == call.txn
             r == Record("op", t, wal.next_lsn, <<c, overlay[t][c]>>)
  <1>0. /\ call.op = "commit" /\ call.at = "logging" /\ c \in call.left
        /\ call' = [call EXCEPT !.left = @ \ {c}]
        /\ wal' = appendRecord(wal, "op", t, <<c, overlay[t][c]>>)
        /\ UNCHANGED <<status, mem, file, stable, next_txn, active, overlay, writer, promised>>
    BY DEF logCommittedState
  <1>1. status = "open" /\ ~InFlight
    <2>1. status # "open" => call = NoCall
      BY DEF OInv
    <2> QED BY <1>0, <2>1 DEF NoCall, InFlight
  <1>2. /\ LogOk(wal) /\ LogInv /\ Life /\ Intact(wal)
        /\ wal.header.checkpoint_lsn <= wal.next_lsn
        /\ All(wal) \in SUBSET Records
        /\ \A q \in All(wal) : q.txn \in Nat /\ q.lsn \in Nat
        /\ active \subseteq Nat /\ active \subseteq Ids
    BY <1>0, <1>1, OpenFacts
  <1>3. Quiet /\ call \in Calls /\ t \in active
    BY <1>0, <1>1 DEF RInv, TInv
  <1>4. t = writer /\ overlay[t][c] \in States
    <2>1. c \in Written(t)
      BY <1>0 DEF TInv
    <2>2. overlay[t] # EmptyOverlay
      BY <2>1 DEF Written, EmptyOverlay
    <2>3. overlay[t][c] \in States
      <3>1. overlay[t] \in [Cells -> States \cup {NoEntry}]
        BY <1>2, <1>3 DEF TInv, TypeOK
      <3> QED BY <2>1, <3>1 DEF Written
    <2> QED BY <1>2, <1>3, <2>2, <2>3 DEF Life
  <1>5. /\ LogOk(wal') /\ Intact(wal') /\ Continues(wal, wal')
        /\ wal'.header.checkpoint_lsn <= wal'.next_lsn
        /\ All(wal') = All(wal) \cup {r} /\ r \in Records
        /\ \A s \in All(wal) : s.lsn < r.lsn
        /\ \A s \in wal'.current : s \in wal.current \/ s = r
    <2>1. Loggable("op", t, <<c, overlay[t][c]>>)
      BY <1>2, <1>3, <1>4 DEF Loggable, IsWrite, Kinds
    <2> QED BY <1>0, <1>2, <2>1, AppendEffect
  <1>6. r.kind = "op" /\ r.txn = t /\ r.write[1] = c /\ r.write[2] = overlay[t][c]
    BY DEF Record
  <1> HIDE DEF r
  <1>7. \A a \in active : Begun(All(wal), a)
    BY <1>0, <1>2 DEF LogInv, Ending
  <1>8. \A d : On(All(wal'), d) = On(All(wal), d)
    <2>1. ~CommittedIn(All(wal), t)
      BY <1>3, <1>7, BegunNotCommitted
    <2> QED BY <1>2, <1>5, <1>6, <2>1, AddUncommitted
  <1>9. Quiet'
    <2>1. Gives(All(wal'), stable, mem)
      BY <1>3, <1>8, GivesSame DEF Quiet
    <2>2. HeadersGive(wal', stable, mem)
      BY <1>3, <1>5, ContinuesGives DEF Quiet
    <2> QED BY <1>0, <2>1, <2>2 DEF Quiet
  <1>10. \A a \in active : Begun(All(wal'), a)
    <2>1. ASSUME NEW a \in active, a # t PROVE Begun(All(wal'), a)
      BY <1>5, <1>6, <1>7, <2>1, BegunGrows
    <2>2. Begun(All(wal'), t)
      <3>1. PICK b \in All(wal) : /\ b.kind = "begin" /\ b.txn = t
                                  /\ \A q \in All(wal) : q.txn = t => q = b \/ (q.kind = "op" /\ q.lsn > b.lsn)
        BY <1>3, <1>7 DEF Begun
      <3>2. r.lsn > b.lsn
        BY <1>2, <1>5, <3>1, RecordFields
      <3> QED BY <1>5, <1>6, <3>1, <3>2 DEF Begun
    <2> QED BY <2>1, <2>2
  <1>11. Ops(All(wal')) = Ops(All(wal)) \cup {r}
    BY <1>5, <1>6 DEF Ops
  <1>12. OpsOfWriter(All(wal'), active, writer, overlay)
    <2>1. \A s \in Ops(All(wal)) : s.lsn < r.lsn
      BY <1>5 DEF Ops
    <2> QED BY <1>2, <1>3, <1>4, <1>6, <1>11, <2>1 DEF LogInv, OpsOfWriter
  <1>13. \A s \in wal'.current : s.txn < next_txn
    BY <1>2, <1>3, <1>5, <1>6 DEF LogInv, Life
  <1>14. next_txn > 1 => \A s \in All(wal') : s.txn < next_txn
    BY <1>2, <1>3, <1>5, <1>6 DEF LogInv, Life
  <1>15. call'.op = "commit" /\ call'.at = "logging" /\ call'.txn = t /\ call'.left = call.left \ {c}
    BY <1>0, <1>3 DEF Calls
  <1>16. LoggedCells(call.txn)' = LoggedCells(t)
    BY <1>0, <1>15 DEF LoggedCells, Written
  <1>17. /\ call'.left \subseteq LoggedCells(t)
         /\ \A d \in LoggedCells(t) \ call'.left :
              \E q \in Ops(All(wal')) : q.txn = t /\ q.write[1] = d
    BY <1>0, <1>2, <1>6, <1>11, <1>15 DEF LogInv
  <1>18. LogInv'
    BY <1>0, <1>5, <1>10, <1>12, <1>13, <1>14, <1>15, <1>16, <1>17 DEF LogInv
  <1>19. Life'
    BY <1>0, <1>2, <1>15 DEF Life
  <1> QED BY <1>0, <1>1, <1>9, <1>15, <1>18, <1>19 DEF RInv, InFlight

LEMMA RApply == Tame /\ TInv /\ OInv /\ RInv /\ applyTxnOverlay => RInv'
  <1> SUFFICES ASSUME Tame, TInv, OInv, RInv, applyTxnOverlay PROVE RInv'
    OBVIOUS
  <1> DEFINE t == call.txn
  <1>0. /\ call.op = "commit" /\ call.at = "logging" /\ call.left = {}
        /\ mem' = Applied(t) /\ promised' = promised \cup {Applied(t)}
        /\ UNCHANGED <<status, file, stable, wal, next_txn, active, overlay, writer>>
    BY DEF applyTxnOverlay
  <1>1. status = "open" /\ ~InFlight
    <2>1. status # "open" => call = NoCall
      BY DEF OInv
    <2> QED BY <1>0, <2>1 DEF NoCall, InFlight
  <1>2. LogInv /\ Life /\ active \subseteq Ids /\ All(wal) \subseteq Records
    BY <1>0, <1>1, OpenFacts
  <1>3. Quiet /\ call \in Calls /\ t \in active
    BY <1>0, <1>1 DEF RInv, TInv
  <1>4. call'.op = "commit" /\ call'.at = "applied" /\ call'.txn = t
    BY <1>3 DEF applyTxnOverlay, Calls
  <1>5. \A d \in LoggedCells(t) : \E q \in Ops(All(wal)) : q.txn = t /\ q.write[1] = d
    BY <1>0, <1>2 DEF LogInv
  <1>6. ASSUME NEW q \in Ops(All(wal)), q.txn = t PROVE mem'[q.write[1]] = q.write[2]
    <2>1. overlay[t][q.write[1]] = q.write[2] /\ q.kind = "op"
      BY <1>2, <1>3, <1>6 DEF LogInv, OpsOfWriter, Ops
    <2>2. q.write[1] \in Cells /\ q.write[2] \in States
      BY <1>2, <2>1, RecordFields DEF Ops
    <2>3. q.write[1] \in Written(t)
      BY <2>1, <2>2, DurabilityAssumption DEF Written, States
    <2> QED BY <1>0, <2>1, <2>2, <2>3 DEF Applied
  <1>7. ASSUME NEW c \in Cells
        PROVE  mem[c] = mem'[c] \/ \E q \in Ops(All(wal)) : q.txn = t /\ q.write[1] = c
    <2>1. CASE c \in LoggedCells(t)
      BY <1>5, <2>1
    <2>2. CASE c \notin LoggedCells(t)
      BY <1>0, <2>2 DEF LoggedCells, Applied, Tame
    <2> QED BY <2>1, <2>2
  <1>8. AppliedInv'
    <2>1. \A q \in Ops(All(wal')) : q.txn = call'.txn => mem'[q.write[1]] = q.write[2]
      BY <1>0, <1>4, <1>6
    <2>2. /\ mem \in promised'
          /\ HeadersGive(wal', stable', mem) /\ Gives(All(wal'), stable', mem)
          /\ \A c \in Cells : \/ mem[c] = mem'[c]
                              \/ \E q \in Ops(All(wal')) : q.txn = call'.txn /\ q.write[1] = c
      BY <1>0, <1>2, <1>3, <1>4, <1>7 DEF Quiet, Life
    <2> QED BY <2>1, <2>2 DEF AppliedInv
  <1>9. LogInv'
    <2>1. \A a \in active : Begun(All(wal), a)
      BY <1>0, <1>2 DEF LogInv, Ending
    <2> QED BY <1>0, <1>2, <1>4, <2>1 DEF LogInv
  <1>10. Life'
    BY <1>0, <1>2, <1>4 DEF Life
  <1> QED BY <1>0, <1>1, <1>4, <1>8, <1>9, <1>10 DEF RInv, InFlight

-----------------------------------------------------------------------------
(* The end of a transaction.                                               *)

\* The commit record replaces what was promised by what the commit made of it.
LEMMA CommitGives ==
  ASSUME NEW S \in SUBSET Records, NEW r \in Records, \A s \in S : s.lsn < r.lsn,
         r.kind = "commit", Begun(S, r.txn),
         NEW act, NEW wr, NEW ov, OpsOfWriter(S, act, wr, ov), r.txn \in act,
         NEW st, NEW p, Gives(S, st, p), NEW m,
         \A o \in Ops(S) : o.txn = r.txn => m[o.write[1]] = o.write[2],
         \A c \in Cells : p[c] = m[c] \/ \E o \in Ops(S) : o.txn = r.txn /\ o.write[1] = c
  PROVE  Gives(S \cup {r}, st, m)
  <1> SUFFICES ASSUME NEW c \in Cells PROVE GivesCell(S \cup {r}, c, st[c], m[c])
    BY DEF Gives
  <1> DEFINE X == {o \in Ops(S) : o.write[1] = c /\ o.txn = r.txn}
  <1>1. On(S \cup {r}, c) = On(S, c) \cup X
    BY AddCommit
  <1>2. GivesCell(S, c, st[c], p[c])
    BY DEF Gives
  <1>3. CASE X = {}
    <2>1. p[c] = m[c]
      BY <1>3
    <2>2. On(S \cup {r}, c) = On(S, c)
      BY <1>1, <1>3
    <2> QED BY <1>2, <2>1, <2>2 DEF GivesCell
  <1>4. CASE X # {}
    <2> DEFINE L == {o.lsn : o \in X}
    <2>1. \A s \in S : s.lsn \in Nat /\ r.lsn \in Nat /\ s.lsn <= r.lsn
      BY RecordFields
    <2>2. \A o \in X : o \in S /\ o \in Ops(S)
      BY DEF Ops
    <2>3. L \subseteq Nat /\ L # {} /\ r.lsn \in Nat /\ \A x \in L : x <= r.lsn
      BY <1>4, <2>1, <2>2
    <2>4. PICK n \in L : \A y \in L : y <= n
      <3> HIDE DEF L
      <3> QED BY <2>3, GreatestExists
    <2>5. PICK x \in X : \A o \in X : o.lsn <= x.lsn
      BY <2>4
    <2>6. x.write[2] = m[c]
      BY <2>2
    <2>7. ASSUME NEW s \in On(S, c) PROVE s.lsn <= x.lsn
      <3>1. s \in Ops(S) /\ s.write[1] = c /\ s \in S
        BY DEF On, Ops
      <3>2. CASE s.txn \in act
        <4>1. s.txn = wr /\ x.txn = wr
          BY <2>2, <3>1, <3>2 DEF OpsOfWriter
        <4> QED BY <2>5, <3>1, <4>1
      <3>3. CASE s.txn \notin act
        <4>1. s.lsn < x.lsn
          BY <2>2, <3>1, <3>3 DEF OpsOfWriter
        <4> QED BY <2>1, <2>2, <3>1, <4>1
      <3> QED BY <3>2, <3>3
    <2> QED BY <1>1, <2>5, <2>6, <2>7 DEF GivesCell
  <1> QED BY <1>3, <1>4

LEMMA OutcomeEffect ==
  ASSUME NEW w, LogOk(w), Intact(w), w.header.checkpoint_lsn <= w.next_lsn,
         NEW kind, NEW t, Loggable(kind, t, <<>>),
         NEW a, a = appendRecord(w, kind, t, <<>>), NEW v, v = flushCurrentFrame(a),
         NEW r, r = Record(kind, t, w.next_lsn, <<>>)
  PROVE  /\ Intact(v) /\ v.header.checkpoint_lsn <= v.next_lsn /\ v.current = {}
         /\ Continues(w, a) /\ Continues(a, v)
         /\ All(a) = All(w) \cup {r} /\ All(v) = All(w) \cup {r}
         /\ All(w) \in SUBSET Records /\ r \in Records /\ r.kind = kind /\ r.txn = t
         /\ \A s \in All(w) : s.lsn < r.lsn
  <1>1. /\ LogOk(a) /\ Intact(a) /\ Continues(w, a) /\ a.header.checkpoint_lsn <= a.next_lsn
        /\ All(a) = All(w) \cup {r} /\ r \in Records
        /\ All(w) \in SUBSET Records /\ \A s \in All(w) : s.lsn < r.lsn
    BY AppendEffect
  <1>2. /\ Intact(v) /\ Continues(a, v) /\ v.current = {} /\ All(v) = All(a)
        /\ v.next_lsn = a.next_lsn /\ v.header.checkpoint_lsn = a.header.checkpoint_lsn
    BY <1>1, FlushEffect
  <1>3. r.kind = kind /\ r.txn = t
    BY DEF Record
  <1> QED BY <1>1, <1>2, <1>3

\* What is left of the invariant of the log when t has its outcome.
LEMMA OutcomeKeeps ==
  ASSUME LogInv, NEW w, Intact(w), w.header.checkpoint_lsn <= w.next_lsn, w.current = {},
         NEW r, r.kind # "op", All(w) = All(wal) \cup {r}, r.txn \in active,
         \A t \in active : t < next_txn, \A t \in active : Begun(All(wal), t)
  PROVE  /\ next_txn > 1 => \A s \in All(w) : s.txn < next_txn
         /\ \A t \in active : t = r.txn \/ Begun(All(w), t)
         /\ OpsOfWriter(All(w), active, writer, overlay)
  <1>1. next_txn > 1 => \A s \in All(w) : s.txn < next_txn
    BY DEF LogInv
  <1>2. \A t \in active : t = r.txn \/ Begun(All(w), t)
    BY BegunGrows
  <1>3. Ops(All(w)) = Ops(All(wal))
    BY DEF Ops
  <1>4. OpsOfWriter(All(w), active, writer, overlay)
    BY <1>3 DEF LogInv, OpsOfWriter
  <1> QED BY <1>1, <1>2, <1>4

LEMMA RCommitRecord == Tame /\ TInv /\ OInv /\ RInv /\ commitRecord => RInv'
  <1> SUFFICES ASSUME Tame, TInv, OInv, RInv, commitRecord PROVE RInv'
    OBVIOUS
  <1> DEFINE t == call.txn
             a == appendRecord(wal, "commit", t, <<>>)
             r == Record("commit", t, wal.next_lsn, <<>>)
  <1>0. /\ call.op = "commit" /\ call.at = "applied" /\ call \in Calls
        /\ wal' = flushCurrentFrame(a)
        /\ UNCHANGED <<status, mem, file, stable, next_txn, active, overlay, writer, promised>>
    BY DEF commitRecord, TInv
  <1>1. status = "open" /\ t \in active
    <2>1. status # "open" => call = NoCall
      BY DEF OInv
    <2> QED BY <1>0, <2>1 DEF NoCall, TInv
  <1>2. /\ LogOk(wal) /\ LogInv /\ Life /\ Intact(wal)
        /\ wal.header.checkpoint_lsn <= wal.next_lsn /\ active \subseteq Nat
    BY <1>0, <1>1, OpenFacts
  <1>3. AppliedInv
    BY <1>0, <1>1 DEF RInv, InFlight
  <1>4. /\ Intact(wal') /\ wal'.header.checkpoint_lsn <= wal'.next_lsn /\ wal'.current = {}
        /\ Continues(wal, a) /\ Continues(a, wal')
        /\ All(a) = All(wal) \cup {r} /\ All(wal') = All(wal) \cup {r}
        /\ All(wal) \in SUBSET Records /\ r \in Records /\ r.kind = "commit" /\ r.txn = t
        /\ \A s \in All(wal) : s.lsn < r.lsn
    <2>1. Loggable("commit", t, <<>>)
      BY <1>1, <1>2 DEF Loggable, IsWrite, Kinds
    <2> HIDE DEF a, r
    <2>2. a = appendRecord(wal, "commit", t, <<>>) /\ r = Record("commit", t, wal.next_lsn, <<>>)
      BY DEF a, r
    <2> QED BY <1>0, <1>2, <2>1, <2>2, OutcomeEffect
  <1> HIDE DEF a, r
  <1>5. \A x \in active : x < next_txn /\ Begun(All(wal), x)
    BY <1>0, <1>2 DEF LogInv, Life, Ending
  <1>6. PICK p \in promised :
          /\ HeadersGive(wal, stable, p) /\ Gives(All(wal), stable, p)
          /\ \A c \in Cells : \/ p[c] = mem[c]
                              \/ \E q \in Ops(All(wal)) : q.txn = t /\ q.write[1] = c
    BY <1>3 DEF AppliedInv
  <1>7. Gives(All(wal'), stable, mem)
    <2>1. OpsOfWriter(All(wal), active, writer, overlay) /\ Begun(All(wal), t)
      BY <1>1, <1>2, <1>5 DEF LogInv
    <2>2. \A q \in Ops(All(wal)) : q.txn = t => mem[q.write[1]] = q.write[2]
      BY <1>3 DEF AppliedInv
    <2>3. Gives(All(wal) \cup {r}, stable, mem)
      BY <1>1, <1>4, <1>6, <2>1, <2>2, CommitGives
    <2> QED BY <1>4, <2>3
  <1>8. HeadersKeep(wal', stable, promised)
    <2>1. HeadersGive(a, stable, p)
      BY <1>4, <1>6, ContinuesGives
    <2>2. HeadersKeep(a, stable, promised)
      BY <2>1 DEF HeadersGive, HeadersKeep
    <2>3. Gives(All(a), stable, mem) /\ mem \in promised
      BY <1>2, <1>4, <1>7 DEF Life
    <2> QED BY <1>4, <2>2, <2>3, ContinuesGives
  <1>9. call'.op = "commit" /\ call'.at = "flushed" /\ call'.txn = t
    BY <1>0 DEF commitRecord, Calls
  <1>10. LogInv'
    <2>1. /\ next_txn > 1 => \A s \in All(wal') : s.txn < next_txn
          /\ \A x \in active : x = r.txn \/ Begun(All(wal'), x)
          /\ OpsOfWriter(All(wal'), active, writer, overlay)
      BY <1>1, <1>2, <1>4, <1>5, OutcomeKeeps
    <2> QED BY <1>0, <1>4, <1>9, <2>1 DEF LogInv, Ending
  <1>11. Life'
    BY <1>0, <1>2, <1>4, <1>9 DEF Life
  <1> QED BY <1>0, <1>1, <1>7, <1>8, <1>9, <1>10, <1>11 DEF RInv, InFlight, FlushedInv

LEMMA RAbort == Tame /\ TInv /\ OInv /\ RInv /\ (\E t \in active : abortRecord(t)) => RInv'
  <1> SUFFICES ASSUME Tame, TInv, OInv, RInv, NEW t \in active, abortRecord(t) PROVE RInv'
    OBVIOUS
  <1> DEFINE a == appendRecord(wal, "abort", t, <<>>)
             r == Record("abort", t, wal.next_lsn, <<>>)
  <1>0. /\ status = "open" /\ call.at = "-" /\ ~InFlight
        /\ wal' = flushCurrentFrame(a)
        /\ UNCHANGED <<status, mem, file, stable, next_txn, active, overlay, writer, promised>>
    BY DEF abortRecord, Idle, NoCall, InFlight
  <1>2. /\ LogOk(wal) /\ LogInv /\ Life /\ Intact(wal)
        /\ wal.header.checkpoint_lsn <= wal.next_lsn /\ active \subseteq Nat
    BY <1>0, OpenFacts
  <1>3. Quiet
    BY <1>0 DEF RInv
  <1>4. /\ Intact(wal') /\ wal'.header.checkpoint_lsn <= wal'.next_lsn /\ wal'.current = {}
        /\ Continues(wal, a) /\ Continues(a, wal')
        /\ All(a) = All(wal) \cup {r} /\ All(wal') = All(wal) \cup {r}
        /\ All(wal) \in SUBSET Records /\ r \in Records /\ r.kind = "abort" /\ r.txn = t
        /\ \A s \in All(wal) : s.lsn < r.lsn
    <2>1. Loggable("abort", t, <<>>)
      BY <1>2 DEF Loggable, IsWrite, Kinds
    <2> HIDE DEF a, r
    <2>2. a = appendRecord(wal, "abort", t, <<>>) /\ r = Record("abort", t, wal.next_lsn, <<>>)
      BY DEF a, r
    <2> QED BY <1>0, <1>2, <2>1, <2>2, OutcomeEffect
  <1> HIDE DEF a, r
  <1>5. \A x \in active : x < next_txn /\ Begun(All(wal), x)
    BY <1>0, <1>2 DEF LogInv, Life, Ending
  <1>6. \A c : On(All(wal) \cup {r}, c) = On(All(wal), c)
    <2>1. ~CommittedIn(All(wal), r.txn)
      BY <1>4, <1>5, BegunNotCommitted
    <2> QED BY <1>4, <2>1, AddUncommitted
  <1>7. Gives(All(a), stable, mem) /\ Gives(All(wal'), stable, mem)
    BY <1>3, <1>4, <1>6, GivesSame DEF Quiet
  <1>8. HeadersGive(wal', stable, mem)
    <2>1. HeadersGive(a, stable, mem)
      BY <1>3, <1>4, ContinuesGives DEF Quiet
    <2> QED BY <1>4, <1>7, <2>1, ContinuesGives
  <1>9. call'.op = "abort" /\ call'.at = "flushed" /\ call'.txn = t
    BY DEF abortRecord
  <1>10. LogInv'
    <2>1. /\ next_txn > 1 => \A s \in All(wal') : s.txn < next_txn
          /\ \A x \in active : x = r.txn \/ Begun(All(wal'), x)
          /\ OpsOfWriter(All(wal'), active, writer, overlay)
      BY <1>2, <1>4, <1>5, OutcomeKeeps
    <2> QED BY <1>0, <1>4, <1>9, <2>1 DEF LogInv, Ending
  <1>11. Life'
    BY <1>0, <1>2, <1>4, <1>9 DEF Life
  <1> QED BY <1>0, <1>7, <1>8, <1>9, <1>10, <1>11 DEF RInv, InFlight, Quiet

LEMMA REndTransaction == Tame /\ TInv /\ OInv /\ RInv /\ endTransaction => RInv'
  <1> SUFFICES ASSUME Tame, TInv, OInv, RInv, endTransaction PROVE RInv'
    OBVIOUS
  <1> DEFINE t == call.txn
  <1>0. /\ call.op \in {"commit", "abort"} /\ call.at = "flushed" /\ call \in Calls
        /\ wal' = Fsync(wal) /\ active' = active \ {t}
        /\ overlay' = [overlay EXCEPT ![t] = EmptyOverlay]
        /\ writer' = (IF writer = t THEN 0 ELSE writer) /\ promised' = {mem}
        /\ UNCHANGED <<status, mem, file, stable, next_txn>>
    BY DEF endTransaction, TInv
  <1>1. status = "open" /\ t \in active
    <2>1. status # "open" => call = NoCall
      BY DEF OInv
    <2> QED BY <1>0, <2>1 DEF NoCall, TInv
  <1>2. /\ LogOk(wal) /\ LogInv /\ Life /\ Intact(wal)
        /\ wal.header.checkpoint_lsn <= wal.next_lsn /\ active \subseteq Ids
    BY <1>0, <1>1, OpenFacts
  <1>3. Gives(All(wal), stable, mem)
    <2>1. CASE InFlight
      BY <1>0, <1>1, <2>1 DEF RInv, FlushedInv
    <2>2. CASE ~InFlight
      BY <1>0, <1>1, <2>2 DEF RInv, Quiet
    <2> QED BY <2>1, <2>2
  <1>4. /\ Intact(wal') /\ wal'.current = {} /\ All(wal') = All(wal)
        /\ wal'.header = wal.header /\ wal'.headers = {wal.header} /\ wal'.next_lsn = wal.next_lsn
        /\ Base(wal', wal.header) = All(wal)
    <2>1. wal.current = {}
      BY <1>0, <1>2 DEF Life
    <2>2. Base(wal, wal.header) = All(wal)
      BY <2>1 DEF Base, All
    <2> QED BY <1>0, <1>2, <2>1, <2>2, FsyncEffect
  <1>5. Quiet'
    BY <1>0, <1>3, <1>4 DEF Quiet, HeadersGive
  <1>6. call'.at \in {"-", "begin"} /\ call'.op \in {"none", "truncate"}
        /\ (call'.op = "truncate" => active' = {})
    BY DEF endTransaction, NoCall
  <1>7. OpsOfWriter(All(wal), active', writer', overlay')
    <2>1. OpsOfWriter(All(wal), active, writer, overlay)
      BY <1>2 DEF LogInv
    <2>2. \A q \in Ops(All(wal)) : q.txn \in active => q.txn = writer
      BY <2>1 DEF OpsOfWriter
    <2>3. ASSUME NEW q \in Ops(All(wal)), q.txn \in active'
          PROVE  q.txn \in active /\ q.txn = writer' /\ writer' = writer /\ writer # t
                 /\ overlay'[writer'][q.write[1]] = q.write[2]
      <3>1. q.txn \in active /\ q.txn = writer /\ writer # t
        BY <1>0, <2>2, <2>3
      <3>2. overlay'[writer] = overlay[writer]
        BY <1>0, <1>2, <3>1 DEF TInv, TypeOK
      <3>3. overlay[writer][q.write[1]] = q.write[2]
        BY <2>1, <3>1 DEF OpsOfWriter
      <3> QED BY <1>0, <3>1, <3>2, <3>3
    <2>4. ASSUME NEW q \in Ops(All(wal)), NEW s \in Ops(All(wal)), q.txn \in active', s.txn \notin active'
          PROVE  s.lsn < q.lsn
      <3>1. q.txn \in active /\ q.txn = writer /\ writer # t
        BY <2>3, <2>4
      <3>2. s.txn \notin active
        BY <1>0, <2>2, <2>4, <3>1
      <3> QED BY <2>1, <3>1, <3>2 DEF OpsOfWriter
    <2> QED BY <2>3, <2>4 DEF OpsOfWriter
  <1>8. LogInv'
    <2>1. \A x \in active' : Begun(All(wal), x)
      BY <1>0, <1>2 DEF LogInv, Ending
    <2>2. next_txn' > 1 => \A s \in All(wal') : s.txn < next_txn'
      BY <1>0, <1>2, <1>4 DEF LogInv
    <2> QED BY <1>2, <1>4, <1>6, <1>7, <2>1, <2>2 DEF LogInv
  <1>9. Life'
    <2>1. \A x \in active' : x < next_txn'
      BY <1>0, <1>2 DEF Life
    <2>2. \A x \in Ids : x # writer' => overlay'[x] = EmptyOverlay
      <3>1. ASSUME NEW x \in Ids, x # writer', x # t PROVE overlay'[x] = EmptyOverlay
        <4>1. x # writer
          BY <1>0, <3>1
        <4>2. overlay'[x] = overlay[x]
          BY <1>0, <3>1 DEF TInv, TypeOK
        <4> QED BY <1>2, <4>1, <4>2 DEF Life
      <3>2. overlay'[t] = EmptyOverlay
        BY <1>0, <1>1, <1>2 DEF TInv, TypeOK
      <3> QED BY <3>1, <3>2
    <2> QED BY <1>0, <1>6, <2>1, <2>2 DEF Life
  <1>10. ~InFlight'
    BY <1>6 DEF InFlight
  <1> QED BY <1>0, <1>1, <1>5, <1>6, <1>8, <1>9, <1>10 DEF RInv

-----------------------------------------------------------------------------
(* Checkpoints.                                                            *)

\* With no transaction open, there are no operations of open ones.
LEMMA NobodyOpen ==
  ASSUME NEW S, NEW wr, NEW ov
  PROVE  OpsOfWriter(S, {}, wr, ov)
  BY DEF OpsOfWriter

\* A checkpoint record changes nothing that is redone.
Marked(w) == appendRecord(w, "checkpoint", 0, <<>>)
Marker(w) == Record("checkpoint", 0, w.next_lsn, <<>>)

LEMMA MarkerEffect ==
  ASSUME NEW w, LogOk(w), Intact(w), w.header.checkpoint_lsn <= w.next_lsn,
         NEW a, a = Marked(w), NEW r, r = Marker(w)
  PROVE  /\ LogOk(a) /\ Intact(a) /\ Continues(w, a) /\ a.header.checkpoint_lsn <= a.next_lsn
         /\ All(a) = All(w) \cup {r} /\ r \in a.current
         /\ a.next_lsn = w.next_lsn + 1
         /\ r.kind = "checkpoint" /\ r.txn = 0 /\ r.lsn = w.next_lsn
         /\ w.current = {} => a.current = {r}
         /\ \A s \in Log(a, a.header) : s.lsn < r.lsn
         /\ Log(w, w.header) \subseteq Log(a, a.header)
         /\ \A st, p : Gives(All(w), st, p) => Gives(All(a), st, p)
  <1> DEFINE kind == "checkpoint"
             t == 0
             write == <<>>
  <1>0. /\ LogOk(w) /\ Intact(w) /\ w.header.checkpoint_lsn <= w.next_lsn
        /\ Loggable(kind, t, write)
        /\ a = appendRecord(w, kind, t, write) /\ r = Record(kind, t, w.next_lsn, write)
    BY DEF Loggable, IsWrite, Kinds, Marked, Marker
  <1>3. r.kind = "checkpoint" /\ r.txn = 0 /\ r.lsn = w.next_lsn
    BY DEF Record, Marker
  <1> HIDE DEF kind, t, write
  <1>2. /\ LogOk(a) /\ Intact(a) /\ Continues(w, a) /\ a.header.checkpoint_lsn <= a.next_lsn
        /\ All(a) = All(w) \cup {r} /\ r \in Records /\ r \in a.current
        /\ All(w) \in SUBSET Records /\ \A s \in All(w) : s.lsn < r.lsn
        /\ a.next_lsn = w.next_lsn + 1
        /\ \A s \in a.current : s \in w.current \/ s = r
        /\ \A s \in Log(a, a.header) : s.lsn < r.lsn
        /\ Log(w, w.header) \subseteq Log(a, a.header)
    BY <1>0, AppendEffect, SMTT(30)
  <1>4. \A c : On(All(w) \cup {r}, c) = On(All(w), c)
    BY <1>2, <1>3, AddUncommitted
  <1>5. \A st, p : Gives(All(w), st, p) => Gives(All(a), st, p)
    BY <1>2, <1>4, GivesSame
  <1>6. w.current = {} => a.current = {r}
    BY <1>2
  <1> QED BY <1>2, <1>3, <1>5, <1>6

LEMMA CheckpointFacts ==
  ASSUME TInv, OInv, RInv, NEW at, NEW next, InCheckpoint(at, next)
  PROVE  /\ status = "open" /\ status' = "open" /\ call.op \in {"full", "truncate"} /\ call.at = at
         /\ call' = NoCall \/ (call'.at = next /\ call'.op = call.op)
         /\ next # "done" => call'.at = next
         /\ active = {} /\ ~InFlight /\ ~InFlight' /\ Life
         /\ UNCHANGED <<mem, next_txn, active, overlay, writer, promised>>
         /\ next_txn \in Nat /\ next_txn >= 1
         /\ at # "truncated" =>
              /\ LogOk(wal) /\ LogInv /\ Intact(wal) /\ Quiet
              /\ wal.header.checkpoint_lsn <= wal.next_lsn
              /\ wal.next_lsn \in Nat
  <1>1. /\ call.op \in {"full", "truncate"} /\ call.at = at /\ call \in Calls
        /\ call' = NoCall \/ (call'.at = next /\ call'.op = call.op)
        /\ next # "done" => call'.at = next
        /\ UNCHANGED <<status, mem, next_txn, active, overlay, writer, promised>>
    BY DEF InCheckpoint, TInv, Calls
  <1>2. status = "open"
    <2>1. status # "open" => call = NoCall
      BY DEF OInv
    <2> QED BY <1>1, <2>1 DEF NoCall
  <1>3. ~InFlight /\ ~InFlight'
    BY <1>1 DEF InFlight, NoCall
  <1>4. Life /\ active = {}
    BY <1>1, <1>2 DEF RInv, Life
  <1>5. next_txn \in Nat /\ next_txn >= 1
    BY DEF TInv, TypeOK
  <1>6. at # "truncated" =>
          /\ LogOk(wal) /\ LogInv /\ Intact(wal) /\ Quiet
          /\ wal.header.checkpoint_lsn <= wal.next_lsn
          /\ wal.next_lsn \in Nat
    BY <1>1, <1>2, <1>3, OpenFacts, WalFieldTypes DEF RInv
  <1> QED BY <1>1, <1>2, <1>3, <1>4, <1>5, <1>6

LEMMA RCheckpointStart == Tame /\ TInv /\ OInv /\ RInv
                          /\ (\E mode \in {"full", "truncate"} : checkpoint(mode)) => RInv'
  <1> SUFFICES ASSUME Tame, TInv, OInv, RInv, NEW mode \in {"full", "truncate"}, checkpoint(mode)
               PROVE  RInv'
    OBVIOUS
  <1>0. /\ status = "open" /\ call.at = "-" /\ ~InFlight /\ active = {}
        /\ call'.op = mode /\ call'.at = "begin"
        /\ UNCHANGED <<status, mem, file, stable, wal, next_txn, active, overlay, writer, promised>>
    BY TameFaults DEF checkpoint, Idle, NoCall, InFlight
  <1>1. LogInv /\ Life /\ Quiet
    BY <1>0, OpenFacts DEF RInv
  <1>2. LogInv'
    BY <1>0, <1>1 DEF LogInv
  <1>3. Life'
    BY <1>0, <1>1 DEF Life
  <1> QED BY <1>0, <1>1, <1>2, <1>3 DEF RInv, Quiet, InFlight

LEMMA RCheckpointBegin == Tame /\ TInv /\ OInv /\ RInv /\ checkpointBegin => RInv'
  <1> SUFFICES ASSUME Tame, TInv, OInv, RInv, checkpointBegin PROVE RInv'
    OBVIOUS
  <1> DEFINE a == Marked(wal)
             r == Marker(wal)
  <1>0. /\ InCheckpoint("begin", "pages") /\ wal' = sync(a) /\ UNCHANGED <<file, stable>>
    BY DEF checkpointBegin, Marked
  <1>1. /\ status = "open" /\ status' = "open" /\ call.at = "begin" /\ call'.at = "pages"
        /\ active = {} /\ ~InFlight /\ ~InFlight' /\ Life
        /\ UNCHANGED <<mem, next_txn, active, overlay, writer, promised>>
        /\ next_txn \in Nat /\ next_txn >= 1
        /\ LogOk(wal) /\ LogInv /\ Intact(wal) /\ Quiet
        /\ wal.header.checkpoint_lsn <= wal.next_lsn /\ wal.next_lsn \in Nat
    BY <1>0, CheckpointFacts
  <1> HIDE DEF a, r
  <1>2. /\ LogOk(a) /\ Intact(a) /\ a.header.checkpoint_lsn <= a.next_lsn
        /\ All(a) = All(wal) \cup {r} /\ r \in a.current /\ a.next_lsn = wal.next_lsn + 1
        /\ r.txn = 0 /\ r.lsn = wal.next_lsn
        /\ Gives(All(a), stable, mem)
    <2>1. a = Marked(wal) /\ r = Marker(wal)
      BY DEF a, r
    <2>2. \A st, p : Gives(All(wal), st, p) => Gives(All(a), st, p)
      BY <1>1, <2>1, MarkerEffect
    <2>3. Gives(All(a), stable, mem)
      BY <1>1, <2>2 DEF Quiet
    <2> QED BY <1>1, <2>1, <2>3, MarkerEffect
  <1>3. /\ Intact(wal') /\ wal'.current = {} /\ wal'.headers = {wal'.header}
        /\ All(wal') = All(a) /\ Base(wal', wal'.header) = All(a)
        /\ wal'.next_lsn = a.next_lsn /\ wal'.header.checkpoint_lsn = a.header.checkpoint_lsn
        /\ a.current \subseteq Log(wal', wal'.header)
    BY <1>0, <1>2, SyncEffect
  <1>4. Quiet'
    BY <1>0, <1>1, <1>2, <1>3 DEF Quiet, HeadersGive
  <1>5. LogInv'
    <2>1. \E s \in Log(wal', wal'.header) : s.lsn + 1 = wal'.next_lsn
      BY <1>2, <1>3
    <2>2. next_txn > 1 => \A s \in All(wal') : s.txn < next_txn
      BY <1>1, <1>2, <1>3 DEF LogInv
    <2> QED BY <1>1, <1>2, <1>3, <2>1, <2>2, NobodyOpen DEF LogInv
  <1>6. Life'
    BY <1>0, <1>1, <1>3 DEF Life
  <1> QED BY <1>0, <1>1, <1>4, <1>5, <1>6 DEF RInv

LEMMA RFlushFull == Tame /\ TInv /\ OInv /\ RInv /\ flushFull => RInv'
  <1> SUFFICES ASSUME Tame, TInv, OInv, RInv, flushFull PROVE RInv'
    OBVIOUS
  <1>0. /\ InCheckpoint("pages", "end") /\ wal' = wal /\ file' = mem
        /\ stable' = [c \in Cells |-> {mem[c]}]
    BY DEF flushFull
  <1>1. /\ status = "open" /\ status' = "open" /\ call.at = "pages" /\ call'.at = "end"
        /\ active = {} /\ ~InFlight /\ ~InFlight' /\ Life /\ LogInv /\ Quiet
        /\ UNCHANGED <<mem, next_txn, active, overlay, writer, promised>>
    BY <1>0, CheckpointFacts
  <1>2. Quiet'
    <2>1. \A c \in Cells : stable[c] = {mem[c]} => stable'[c] = {mem[c]}
      BY <1>0
    <2>2. \A S : Gives(S, stable, mem) => Gives(S, stable', mem)
      BY <2>1, GivesMore
    <2> QED BY <1>0, <1>1, <2>2 DEF Quiet, HeadersGive
  <1>3. LogInv'
    BY <1>0, <1>1 DEF LogInv
  <1>4. Life'
    BY <1>0, <1>1 DEF Life
  <1> QED BY <1>0, <1>1, <1>2, <1>3, <1>4 DEF RInv

LEMMA RCheckpointEnd == Tame /\ TInv /\ OInv /\ RInv /\ checkpointEnd => RInv'
  <1> SUFFICES ASSUME Tame, TInv, OInv, RInv, checkpointEnd PROVE RInv'
    OBVIOUS
  <1> DEFINE n == wal.next_lsn
             a == Marked(wal)
             r == Marker(wal)
             h == [frame_count |-> a.header.frame_count, checkpoint_lsn |-> n]
  <1>0. /\ InCheckpoint("end", "final") /\ wal' = setCheckpointLsn(a, n)
        /\ UNCHANGED <<file, stable>>
    BY DEF checkpointEnd, Marked
  <1>1. /\ status = "open" /\ status' = "open" /\ call.at = "end" /\ call'.at = "final"
        /\ active = {} /\ ~InFlight /\ ~InFlight' /\ Life
        /\ UNCHANGED <<mem, next_txn, active, overlay, writer, promised>>
        /\ next_txn \in Nat /\ next_txn >= 1
        /\ LogOk(wal) /\ LogInv /\ Intact(wal) /\ Quiet
        /\ wal.header.checkpoint_lsn <= n /\ n \in Nat
    BY <1>0, CheckpointFacts
  <1> HIDE DEF a, r
  <1>2. /\ LogOk(a) /\ Intact(a) /\ Continues(wal, a) /\ r \in a.current
        /\ a.next_lsn = n + 1
        /\ r.kind = "checkpoint" /\ r.txn = 0 /\ r.lsn = n
        /\ a.current = {r}
        /\ \A s \in Log(a, a.header) : s.lsn < r.lsn
        /\ Log(wal, wal.header) \subseteq Log(a, a.header)
    <2>1. a = Marked(wal) /\ r = Marker(wal)
      BY DEF a, r
    <2>2. LogOk(wal) /\ Intact(wal) /\ wal.header.checkpoint_lsn <= wal.next_lsn
      BY <1>1
    <2>3. wal.current = {}
      BY <1>1 DEF Life
    <2> QED BY <2>1, <2>2, <2>3, MarkerEffect
  <1>4. WalType(a)
    BY <1>2 DEF LogOk
  <1>5. /\ wal'.frames = a.frames /\ wal'.header = h /\ wal'.headers = a.headers \cup {h}
        /\ wal'.current = {r} /\ wal'.next_lsn = n + 1
    <2>1. wal' = [frames |-> a.frames, synced |-> a.synced, header |-> h,
                  headers |-> a.headers \cup {h}, current |-> a.current, next_lsn |-> a.next_lsn]
      BY <1>0, <1>4, SetCheckpointFields
    <2> QED BY <1>2, <2>1
  <1>6. h.frame_count = a.header.frame_count /\ h.checkpoint_lsn = n
    OBVIOUS
  <1> HIDE DEF h
  <1>7. \A g : Log(wal', g) = Log(a, g) /\ Base(wal', g) = Base(a, g)
    BY <1>5 DEF Log, Base, From
  <1>8. Log(wal', h) = Log(a, a.header)
    BY <1>6, <1>7 DEF Log
  <1>9. /\ \A s \in Log(wal', h) : s.lsn \in Nat /\ s.lsn < n
    <2>1. Log(a, a.header) \subseteq Records
      <3>1. Log(a, a.header) \cup a.current \subseteq Seen(a) /\ ReadOf(a.frames, a.header.frame_count) = Log(a, a.header)
        BY <1>2, <1>4, IntactIsSeen
      <3>2. a.frames \in Seq(SUBSET Records)
        BY <1>4, WalFieldTypes
      <3> QED BY <3>1, <3>2 DEF ReadOf
    <2> QED BY <1>2, <1>8, <2>1, RecordFields
  <1>10. Base(wal', h) = {} /\ All(wal') = {r}
    BY <1>1, <1>2, <1>5, <1>6, <1>9 DEF Base, All, From
  <1>11. \A c \in Cells : stable[c] = {mem[c]}
    BY <1>1 DEF Life
  <1>12. Quiet'
    <2>1. Gives(Base(wal', h), stable, mem) /\ Gives(All(wal'), stable, mem)
      <3>1. Ops(Base(wal', h)) = {} /\ Ops(All(wal')) = {}
        BY <1>2, <1>10 DEF Ops
      <3> QED BY <1>11, <3>1, GivesCertain
    <2>2. HeadersGive(a, stable, mem)
      BY <1>1, <1>2, ContinuesGives DEF Quiet
    <2>3. \A g \in a.headers : Gives(Base(wal', g), stable, mem)
      BY <1>7, <2>2 DEF HeadersGive
    <2> QED BY <1>0, <1>1, <1>5, <2>1, <2>3 DEF Quiet, HeadersGive
  <1>13. Intact(wal')
    <2>1. PICK s \in Log(wal, wal.header) : s.lsn + 1 = n
      BY <1>1 DEF LogInv
    <2>2. s \in Log(wal', h) /\ s.lsn + 1 >= h.checkpoint_lsn
      BY <1>1, <1>2, <1>6, <1>8, <2>1
    <2>3. \A g \in a.headers : g.checkpoint_lsn <= 1 \/ \E q \in Log(wal', g) : q.lsn + 1 >= g.checkpoint_lsn
      BY <1>2, <1>7 DEF Intact
    <2> QED BY <1>2, <1>5, <1>6, <2>2, <2>3 DEF Intact
  <1>14. LogInv'
    <2>1. wal'.header.checkpoint_lsn <= wal'.next_lsn
      BY <1>1, <1>5, <1>6
    <2>2. \A s \in wal'.current : s.txn < next_txn
      BY <1>1, <1>2, <1>5
    <2>3. next_txn > 1 => \A s \in All(wal') : s.txn < next_txn
      BY <1>1, <1>2, <1>10
    <2> QED BY <1>1, <1>13, <2>1, <2>2, <2>3, NobodyOpen DEF LogInv
  <1>15. Life'
    BY <1>0, <1>1 DEF Life
  <1> QED BY <1>0, <1>1, <1>12, <1>14, <1>15 DEF RInv

LEMMA RCheckpointFinal == Tame /\ TInv /\ OInv /\ RInv /\ checkpointFinal => RInv'
  <1> SUFFICES ASSUME Tame, TInv, OInv, RInv, checkpointFinal PROVE RInv'
    OBVIOUS
  <1> DEFINE next == IF call.op = "truncate" THEN "truncate" ELSE "done"
  <1>0. InCheckpoint("final", next) /\ wal' = sync(wal) /\ UNCHANGED <<file, stable>>
    BY DEF checkpointFinal
  <1>1. next \in {"truncate", "done"}
    OBVIOUS
  <1> HIDE DEF next
  <1>2. /\ status = "open" /\ status' = "open" /\ call.at = "final"
        /\ call' = NoCall \/ call'.at = next
        /\ active = {} /\ ~InFlight /\ ~InFlight' /\ Life
        /\ UNCHANGED <<mem, next_txn, active, overlay, writer, promised>>
        /\ LogOk(wal) /\ LogInv /\ Intact(wal) /\ Quiet
        /\ wal.header.checkpoint_lsn <= wal.next_lsn
    BY <1>0, CheckpointFacts
  <1>3. call'.at \in {"-", "truncate"} \/ (call'.at = "done")
    BY <1>1, <1>2 DEF NoCall
  <1>4. /\ Intact(wal') /\ wal'.current = {} /\ wal'.headers = {wal'.header}
        /\ All(wal') = All(wal) /\ Base(wal', wal'.header) = All(wal)
        /\ wal'.next_lsn = wal.next_lsn /\ wal'.header.checkpoint_lsn = wal.header.checkpoint_lsn
    BY <1>0, <1>2, SyncEffect
  <1>5. Quiet'
    BY <1>0, <1>2, <1>4 DEF Quiet, HeadersGive
  <1>6. LogInv'
    <2>1. next_txn > 1 => \A s \in All(wal') : s.txn < next_txn
      BY <1>2, <1>4 DEF LogInv
    <2> QED BY <1>2, <1>3, <1>4, <2>1, NobodyOpen DEF LogInv
  <1>7. Life'
    <2>1. \A c \in Cells : stable'[c] = {mem'[c]}
      BY <1>0, <1>2 DEF Life
    <2> QED BY <1>2, <1>3, <1>4, <2>1 DEF Life
  <1> QED BY <1>0, <1>2, <1>5, <1>6, <1>7 DEF RInv

LEMMA RTruncate == Tame /\ TInv /\ OInv /\ RInv /\ (truncateFile \/ resetHeader) => RInv'
  <1> SUFFICES ASSUME Tame, TInv, OInv, RInv, truncateFile \/ resetHeader PROVE RInv'
    OBVIOUS
  <1>0. WalType(wal) /\ wal.next_lsn \in Nat
    BY WalFieldTypes DEF TInv
  <1>1. CASE truncateFile
    <2>1. /\ InCheckpoint("truncate", "truncated") /\ UNCHANGED <<file, stable>>
          /\ wal' = [wal EXCEPT !.frames = <<>>]
      BY <1>1 DEF truncateFile
    <2>2. /\ status = "open" /\ status' = "open" /\ call.at = "truncate" /\ call'.at = "truncated"
          /\ active = {} /\ ~InFlight' /\ Life
          /\ UNCHANGED <<mem, next_txn, active, overlay, writer, promised>>
      BY <2>1, CheckpointFacts
    <2>3. wal'.frames = <<>> /\ wal'.current = wal.current
      BY <1>0, <2>1 DEF WalType, WalFields
    <2>4. Life'
      BY <2>1, <2>2, <2>3 DEF Life
    <2> QED BY <2>1, <2>2, <2>4 DEF RInv
  <1>2. CASE resetHeader
    <2> DEFINE w == [wal EXCEPT !.header = NewHeader]
    <2>1. /\ InCheckpoint("truncated", "done") /\ UNCHANGED <<file, stable>>
          /\ wal' = Fsync(w) /\ call' = NoCall
      BY <1>2 DEF resetHeader, InCheckpoint
    <2>2. /\ status = "open" /\ status' = "open" /\ call.at = "truncated"
          /\ active = {} /\ ~InFlight' /\ Life
          /\ UNCHANGED <<mem, next_txn, active, overlay, writer, promised>>
      BY <2>1, CheckpointFacts
    <2>3. wal.frames = <<>> /\ wal.current = {} /\ \A c \in Cells : stable[c] = {mem[c]}
      BY <2>2 DEF Life
    <2>4. /\ w.frames = wal.frames /\ w.current = wal.current /\ w.next_lsn = wal.next_lsn
          /\ w.header = NewHeader /\ DOMAIN w = Fields
      BY <1>0 DEF WalType, WalFields, Fields
    <2> HIDE DEF w
    <2>5. /\ wal'.frames = <<>> /\ wal'.header = NewHeader /\ wal'.headers = {NewHeader}
          /\ wal'.current = {} /\ wal'.next_lsn = wal.next_lsn
      BY <2>1, <2>3, <2>4 DEF Fsync, Fields
    <2>6. NewHeader.frame_count = 0 /\ NewHeader.checkpoint_lsn = 0
      BY DEF NewHeader
    <2>7. Log(wal', NewHeader) = {}
      <3>1. 1..NewHeader.frame_count = {}
        BY <2>6
      <3> QED BY <3>1 DEF Log
    <2>8. Base(wal', NewHeader) = {} /\ All(wal') = {}
      BY <2>5, <2>7 DEF Base, All, From
    <2>9. Gives({}, stable, mem)
      <3>1. Ops({}) = {}
        BY DEF Ops
      <3> QED BY <2>3, <3>1, GivesCertain
    <2>10. Quiet'
      BY <2>1, <2>2, <2>5, <2>8, <2>9 DEF Quiet, HeadersGive
    <2>11. Intact(wal')
      BY <2>5, <2>6 DEF Intact
    <2>12. LogInv'
      BY <1>0, <2>1, <2>2, <2>5, <2>6, <2>8, <2>11, NobodyOpen DEF LogInv, NoCall
    <2>13. Life'
      BY <2>1, <2>2 DEF Life, NoCall
    <2> QED BY <2>1, <2>2, <2>10, <2>12, <2>13 DEF RInv
  <1> QED BY <1>1, <1>2

-----------------------------------------------------------------------------
LEMMA REvict == Tame /\ TInv /\ OInv /\ RInv /\ (\E c \in Cells : evict(c)) => RInv'
  <1> SUFFICES ASSUME Tame, TInv, OInv, RInv, NEW c \in Cells, evict(c) PROVE RInv'
    OBVIOUS
  <1>0. /\ status = "open" /\ ~InFlight /\ file[c] # mem[c]
        /\ file' = [file EXCEPT ![c] = mem[c]]
        /\ stable' = [stable EXCEPT ![c] = @ \cup {mem[c]}]
        /\ UNCHANGED <<status, mem, wal, next_txn, active, overlay, writer, call, promised>>
    BY TameFaults DEF evict, InFlight
  <1>1. /\ \A d \in Cells : stable[d] = {mem[d]} => stable'[d] = {mem[d]}
        /\ \A d \in Cells : file'[d] \in stable'[d]
    BY <1>0 DEF RInv, TInv, TypeOK
  <1>2. Life /\ Life'
    BY <1>0, <1>1 DEF RInv, Life
  <1>3. CASE call.at = "truncated"
    BY <1>0, <1>1, <1>2, <1>3 DEF RInv
  <1>4. CASE call.at # "truncated"
    <2>1. LogInv /\ Quiet
      BY <1>0, <1>4 DEF RInv
    <2>2. \A S : Gives(S, stable, mem) => Gives(S, stable', mem)
      BY <1>1, GivesMore
    <2>3. Quiet'
      BY <1>0, <2>1, <2>2 DEF Quiet, HeadersGive
    <2>4. LoggedCells(call.txn)' = LoggedCells(call.txn)
      BY <1>0 DEF LoggedCells, Written
    <2>5. LogInv'
      BY <1>0, <2>1, <2>4 DEF LogInv, Ending
    <2> QED BY <1>0, <1>1, <1>2, <2>3, <2>5 DEF RInv, InFlight
  <1> QED BY <1>3, <1>4

LEMMA RStep == Tame /\ TInv /\ OInv /\ RInv /\ [Next]_vars => RInv'
  <1> SUFFICES ASSUME Tame, TInv, OInv, RInv, [Next]_vars PROVE RInv'
    OBVIOUS
  <1>1. CASE Transaction
    BY <1>1, RBegin, RStage, RLog, RAbort, RLogCell, RApply, RCommitRecord, REndTransaction
       DEF Transaction
  <1>2. CASE Checkpoint
    BY <1>2, RCheckpointStart, RCheckpointBegin, RFlushFull, RCheckpointEnd, RCheckpointFinal,
       RTruncate DEF Checkpoint
  <1>3. CASE UNCHANGED vars
    <2>1. UNCHANGED <<status, mem, file, stable, wal, next_txn, active, overlay, writer, call,
                      promised>>
      BY <1>3 DEF vars
    <2>2. LoggedCells(call.txn)' = LoggedCells(call.txn)
      BY <2>1 DEF LoggedCells, Written
    <2>3. LogInv' = LogInv /\ Life' = Life
      BY <2>1, <2>2 DEF LogInv, Life, Ending
    <2> QED BY <2>1, <2>3 DEF RInv, Quiet, AppliedInv, FlushedInv, InFlight
  <1> QED BY <1>1, <1>2, <1>3, ROpen, REnds, REvict DEF Next

-----------------------------------------------------------------------------
LEMMA InvHolds == Tame => (Spec => [](TInv /\ OInv /\ RInv))
  <1> SUFFICES ASSUME Tame PROVE Spec => [](TInv /\ OInv /\ RInv)
    OBVIOUS
  <1>1. Init => TInv /\ OInv /\ RInv
    BY TInit, OInit, RInit
  <1>2. "stale" \notin Faults
    BY TameFaults
  <1>3. TInv /\ OInv /\ RInv /\ [Next]_vars => (TInv /\ OInv /\ RInv)'
    BY <1>2, TStep, OStep, RStep
  <1> QED BY <1>1, <1>3, PTL DEF Spec

(* An open database holds what its callers were told was committed, and a  *)
(* commit that was cut off counts entirely or not at all.                  *)
THEOREM CommitsSurvive == Tame => (Spec => []CommittedSurvives)
  <1> SUFFICES ASSUME Tame PROVE Spec => []CommittedSurvives
    OBVIOUS
  <1>1. TInv /\ OInv /\ RInv => CommittedSurvives
    BY DEF RInv, Life, CommittedSurvives
  <1> QED BY <1>1, InvHolds, PTL

(* At every moment the files alone give a promised state: if the process   *)
(* died now, the next open would find it, whichever step it died in.       *)
THEOREM AlwaysRecoverable == Tame => (Spec => []RecoverableNow)
  <1> SUFFICES ASSUME Tame PROVE Spec => []RecoverableNow
    OBVIOUS
  <1>1. ASSUME TInv, OInv, RInv, status # "failed", CrashPoint
        PROVE  ~OpenFails(wal) /\ Recovered(wal, file) \in promised
    <2>1. call.at # "truncated"
      BY <1>1, TameFaults DEF CrashPoint
    <2>2. /\ HeadersKeep(wal, stable, promised) /\ Intact(wal)
          /\ WalType(wal) /\ Ordered(wal) /\ promised \subseteq [Cells -> States]
          /\ status \in {"closed", "open", "failed"}
      <3>1. status \in {"closed", "open", "failed"}
        BY <1>1 DEF TInv, TypeOK
      <3>2. HeadersKeep(wal, stable, promised) /\ Intact(wal)
        BY <1>1, <2>1, <3>1, PhaseKeeps DEF RInv
      <3> QED BY <1>1, <3>1, <3>2 DEF TInv, TypeOK, OInv
    <2>3. PICK p \in promised : Gives(Base(wal, wal.header), stable, p)
      BY <2>2, WalFieldTypes DEF HeadersKeep
    <2>4. \A c \in Cells : file[c] \in stable[c]
      BY <1>1 DEF RInv
    <2>5. ~OpenFails(wal) /\ Recovered(wal, file) = p
      BY <2>2, <2>3, <2>4, RecoveryGives
    <2> QED BY <2>5
  <1>2. TInv /\ OInv /\ RInv => RecoverableNow
    BY <1>1 DEF RecoverableNow
  <1> QED BY <1>2, InvHolds, PTL

-----------------------------------------------------------------------------
(* A torn tail.  If the header may be lost that counts a frame not synced  *)
(* yet, so may the one before it be what is found: reading a log whose     *)
(* last frame is torn is reading it with that header.                      *)

Stepwise(w) ==
  \A h \in w.headers :
     h.frame_count = w.header.frame_count /\ h.frame_count \in Unsynced(w) =>
       \E g \in w.headers :
          g.frame_count + 1 = h.frame_count /\ g.checkpoint_lsn = h.checkpoint_lsn

\* A checkpoint marks its end in the header of a log that is synced.
SInv ==
  /\ Stepwise(wal)
  /\ call.at \in {"pages", "end"} => wal.synced = wal.frames

LEMMA SyncedStepwise ==
  ASSUME NEW w, w.synced = w.frames \/ w.frames = <<>>
  PROVE  Unsynced(w) = {} /\ Stepwise(w)
  <1>1. Unsynced(w) = {}
    BY DEF Unsynced
  <1> QED BY <1>1 DEF Stepwise

LEMMA FlushStepwise ==
  ASSUME NEW w, WalType(w), Shape(w), Stepwise(w)
  PROVE  Stepwise(flushCurrentFrame(w))
  <1> DEFINE f == flushCurrentFrame(w)
             g == NextHeader(w)
  <1>1. CASE w.current = {}
    BY <1>1, FlushFields
  <1>2. CASE w.current # {}
    <2>1. f = [frames |-> Flushed(w), synced |-> w.synced, header |-> g,
               headers |-> w.headers \cup {g}, current |-> {}, next_lsn |-> w.next_lsn]
      BY <1>2, FlushFields
    <2>2. /\ w.header.frame_count \in Nat /\ w.header \in w.headers
          /\ g.frame_count = w.header.frame_count + 1
          /\ g.checkpoint_lsn = w.header.checkpoint_lsn
          /\ \A h \in w.headers : h.frame_count \in Nat /\ h.frame_count <= w.header.frame_count
      BY WalFieldTypes DEF NextHeader, Shape, Headers
    <2> HIDE DEF f, g
    <2>3. f.header = g /\ f.headers = w.headers \cup {g}
      BY <2>1
    <2>4. ASSUME NEW h \in f.headers, h.frame_count = f.header.frame_count PROVE h = g
      BY <2>2, <2>3, <2>4
    <2>5. Stepwise(f)
      BY <2>2, <2>3, <2>4 DEF Stepwise
    <2> QED BY <2>5 DEF f
  <1> QED BY <1>1, <1>2

LEMMA AppendStepwise ==
  ASSUME NEW w, WalType(w), Shape(w), Stepwise(w), NEW kind, NEW t, NEW write
  PROVE  Stepwise(appendRecord(w, kind, t, write))
  <1> DEFINE f == IF Cardinality(w.current) = FrameCap THEN flushCurrentFrame(w) ELSE w
             a == appendRecord(w, kind, t, write)
  <1>1. Stepwise(f)
    BY FlushStepwise
  <1>2. a = [frames |-> f.frames, synced |-> f.synced, header |-> f.header,
             headers |-> f.headers,
             current |-> f.current \cup {Record(kind, t, w.next_lsn, write)},
             next_lsn |-> w.next_lsn + 1]
    BY AppendFields
  <1> HIDE DEF f, a
  <1>3. a.frames = f.frames /\ a.synced = f.synced /\ a.header = f.header /\ a.headers = f.headers
    BY <1>2
  <1>4. Stepwise(a)
    BY <1>1, <1>3 DEF Stepwise, Unsynced
  <1> QED BY <1>4 DEF a

LEMMA FsyncStepwise ==
  ASSUME NEW w, WalType(w)
  PROVE  Fsync(w).synced = Fsync(w).frames /\ Stepwise(Fsync(w))
  <1>1. Fsync(w).synced = Fsync(w).frames
    BY FsyncFields
  <1> QED BY <1>1, SyncedStepwise

LEMMA SInit == Init => SInv
  <1> SUFFICES ASSUME Init PROVE SInv
    OBVIOUS
  <1>1. wal.frames = <<>> /\ call.at = "-"
    BY DEF Init, NoCall
  <1> QED BY <1>1, SyncedStepwise DEF SInv

\* The calls of transactions append, flush and sync.
LEMMA STransaction == TInv /\ OInv /\ SInv /\ Transaction => SInv'
  <1> SUFFICES ASSUME TInv, OInv, SInv, Transaction PROVE SInv'
    OBVIOUS
  <1>0. /\ WalType(wal) /\ Shape(wal) /\ Stepwise(wal) /\ call \in Calls
        /\ status # "open" => call = NoCall
    BY DEF TInv, OInv, SInv
  <1>1. \A kind, t, write : Stepwise(appendRecord(wal, kind, t, write))
    BY <1>0, AppendStepwise
  <1>2. ASSUME NEW kind \in {"commit", "abort"}, NEW t \in Nat, status = "open",
               call.at # "truncated"
        PROVE  Stepwise(flushCurrentFrame(appendRecord(wal, kind, t, <<>>)))
    <2> DEFINE a == appendRecord(wal, kind, t, <<>>)
    <2>1. LogOk(wal) /\ IsWrite(kind, <<>>) /\ kind # "torn"
      BY <1>2, OpenLogOk DEF IsWrite, Kinds
    <2>2. LogOk(a) /\ Stepwise(a)
      BY <1>1, <2>1, AppendLogOk
    <2> HIDE DEF a
    <2>3. Stepwise(flushCurrentFrame(a))
      BY <2>2, FlushStepwise DEF LogOk
    <2> QED BY <2>3 DEF a
  <1>3. ASSUME NEW write \in BOOLEAN, beginTransaction(write) PROVE SInv'
    BY <1>1, <1>3 DEF beginTransaction, Idle, NoCall, SInv
  <1>4. ASSUME NEW c \in Cells, NEW v \in States, stageWrite(c, v) PROVE SInv'
    BY <1>4 DEF stageWrite, SInv
  <1>5. ASSUME NEW t \in active, logTxnOverlayForCommit(t) PROVE SInv'
    BY <1>5 DEF logTxnOverlayForCommit, SInv
  <1>6. ASSUME NEW t \in active, abortRecord(t) PROVE SInv'
    <2>1. status = "open" /\ call.at # "truncated" /\ t \in Nat
      BY <1>6 DEF abortRecord, Idle, NoCall, TInv, TypeOK, Ids
    <2> QED BY <1>2, <1>6, <2>1 DEF abortRecord, SInv
  <1>7. ASSUME NEW c \in Cells, logCommittedState(c) PROVE SInv'
    <2>1. call'.at = "logging"
      BY <1>0, <1>7 DEF logCommittedState, Calls
    <2> QED BY <1>1, <1>7, <2>1 DEF logCommittedState, SInv
  <1>8. CASE LogFails
    BY <1>8 DEF LogFails, NoCall, SInv
  <1>9. CASE applyTxnOverlay
    <2>1. call'.at = "applied"
      BY <1>0, <1>9 DEF applyTxnOverlay, Calls
    <2> QED BY <1>9, <2>1 DEF applyTxnOverlay, SInv
  <1>10. CASE commitRecord
    <2>1. call'.at = "flushed" /\ call.at = "applied" /\ call.op = "commit"
      BY <1>0, <1>10 DEF commitRecord, Calls
    <2>2. status = "open" /\ call.txn \in Nat
      BY <1>0, <2>1 DEF NoCall, TInv, TypeOK, Calls, Ids
    <2> QED BY <1>2, <1>10, <2>1, <2>2 DEF commitRecord, SInv
  <1>11. CASE endTransaction
    <2>1. call'.at \in {"-", "begin"}
      BY <1>11 DEF endTransaction, NoCall
    <2> QED BY <1>0, <1>11, <2>1, FsyncStepwise DEF endTransaction, SInv
  <1> QED BY <1>3, <1>4, <1>5, <1>6, <1>7, <1>8, <1>9, <1>10, <1>11 DEF Transaction

LEMMA SCheckpoint == Tame /\ TInv /\ OInv /\ RInv /\ SInv /\ Checkpoint => SInv'
  <1> SUFFICES ASSUME Tame, TInv, OInv, RInv, SInv, Checkpoint PROVE SInv'
    OBVIOUS
  <1>0. WalType(wal) /\ Stepwise(wal)
    BY DEF TInv, SInv
  <1>1. ASSUME NEW mode \in {"full", "truncate"}, checkpoint(mode) PROVE SInv'
    BY <1>1 DEF checkpoint, SInv
  <1>2. CASE checkpointBegin
    <2> DEFINE a == appendRecord(wal, "checkpoint", 0, <<>>)
    <2>1. LogOk(wal)
      BY <1>2, CheckpointFacts DEF checkpointBegin
    <2>2. LogOk(a)
      BY <2>1, AppendLogOk DEF IsWrite, Kinds
    <2>3. wal' = sync(a)
      BY <1>2 DEF checkpointBegin
    <2> HIDE DEF a
    <2>4. wal'.synced = wal'.frames
      BY <2>2, <2>3, SyncLogOk
    <2> QED BY <2>4, SyncedStepwise DEF SInv
  <1>3. CASE flushFull
    BY <1>3 DEF flushFull, InCheckpoint, SInv
  <1>4. CASE checkpointEnd
    <2> DEFINE a == appendRecord(wal, "checkpoint", 0, <<>>)
               h == [frame_count |-> a.header.frame_count, checkpoint_lsn |-> wal.next_lsn]
    <2>1. /\ call.at = "end" /\ call'.at = "final" /\ Life /\ LogOk(wal)
          /\ wal' = setCheckpointLsn(a, wal.next_lsn)
      BY <1>4, CheckpointFacts DEF checkpointEnd
    <2>2. wal.current = {} /\ wal.synced = wal.frames
      BY <2>1 DEF Life, SInv
    <2>3. a.frames = wal.frames /\ a.synced = wal.synced
      <3>1. flushCurrentFrame(wal) = wal
        BY <1>0, <2>2, FlushFields
      <3>2. a = [frames |-> wal.frames, synced |-> wal.synced, header |-> wal.header,
                 headers |-> wal.headers,
                 current |-> wal.current \cup {Record("checkpoint", 0, wal.next_lsn, <<>>)},
                 next_lsn |-> wal.next_lsn + 1]
        BY <1>0, <3>1, AppendFields
      <3> HIDE DEF a
      <3> QED BY <3>2
    <2>4. WalType(a)
      BY <2>1, AppendLogOk DEF IsWrite, Kinds, LogOk
    <2> HIDE DEF a
    <2>5. wal' = [frames |-> a.frames, synced |-> a.synced, header |-> h,
                  headers |-> a.headers \cup {h}, current |-> a.current, next_lsn |-> a.next_lsn]
      BY <2>1, <2>4, SetCheckpointFields
    <2>6. wal'.synced = wal'.frames
      BY <2>2, <2>3, <2>5
    <2> QED BY <2>1, <2>6, SyncedStepwise DEF SInv
  <1>5. CASE checkpointFinal
    <2>1. LogOk(wal) /\ wal' = sync(wal)
      BY <1>5, CheckpointFacts DEF checkpointFinal
    <2>2. wal'.synced = wal'.frames
      BY <2>1, SyncLogOk
    <2> QED BY <2>2, SyncedStepwise DEF SInv
  <1>6. CASE truncateFile
    <2>1. wal'.frames = <<>>
      BY <1>0, <1>6 DEF truncateFile, WalType, WalFields
    <2>2. call'.at = "truncated"
      BY <1>6, CheckpointFacts DEF truncateFile
    <2> QED BY <2>1, <2>2, SyncedStepwise DEF SInv
  <1>7. CASE resetHeader
    <2> DEFINE w == [wal EXCEPT !.header = NewHeader]
    <2>1. wal' = Fsync(w) /\ call' = NoCall
      BY <1>7 DEF resetHeader, InCheckpoint
    <2>2. DOMAIN w = Fields
      BY <1>0 DEF WalType, WalFields, Fields
    <2> HIDE DEF w
    <2>3. wal'.synced = wal'.frames
      BY <2>1, <2>2 DEF Fsync, Fields
    <2> QED BY <2>3, SyncedStepwise DEF SInv
  <1> QED BY <1>1, <1>2, <1>3, <1>4, <1>5, <1>6, <1>7 DEF Checkpoint

LEMMA SEnds == TInv /\ OInv /\ SInv /\ (open \/ close \/ kill \/ powerLoss) => SInv'
  <1> SUFFICES ASSUME TInv, OInv, SInv, open \/ close \/ kill \/ powerLoss PROVE SInv'
    OBVIOUS
  <1>0. WalType(wal) /\ Stepwise(wal) /\ NoCall.at = "-"
    BY DEF TInv, SInv, NoCall
  <1>1. call' = NoCall \/ (UNCHANGED call /\ call = NoCall)
    <2>1. open => UNCHANGED call /\ call = NoCall
      BY DEF open, OInv
    <2> QED BY <2>1 DEF close, kill, powerLoss, Forget
  <1>2. SUFFICES Stepwise(wal')
    BY <1>0, <1>1 DEF SInv
  <1>3. CASE open
    <2>1. CASE UNCHANGED wal
      BY <1>0, <2>1
    <2>2. CASE wal' = [WrittenBack(wal) EXCEPT !.next_lsn = NextLsn(wal)]
      <3> DEFINE w == WrittenBack(wal)
      <3>1. WalType(w) /\ Stepwise(w)
        BY <1>0, WalSteps, FsyncStepwise DEF WrittenBack
      <3> HIDE DEF w
      <3>2. /\ wal'.frames = w.frames /\ wal'.synced = w.synced /\ wal'.header = w.header
            /\ wal'.headers = w.headers
        BY <2>2, <3>1 DEF WalType, WalFields, w
      <3> QED BY <3>1, <3>2 DEF Stepwise, Unsynced
    <2> QED BY <1>3, <2>1, <2>2 DEF open
  <1>4. CASE close
    <2>1. LogOk(wal)
      BY <1>4, OpenLogOk DEF close, Idle, NoCall
    <2> QED BY <1>4, <2>1, SyncLogOk, SyncedStepwise DEF close
  <1>5. CASE kill
    <2>1. /\ wal'.frames = wal.frames /\ wal'.synced = wal.synced /\ wal'.header = wal.header
          /\ wal'.headers = wal.headers
      BY <1>0, <1>5 DEF kill, WalType, WalFields
    <2> QED BY <1>0, <2>1 DEF Stepwise, Unsynced
  <1>6. CASE powerLoss
    <2>1. wal'.synced = wal'.frames
      BY <1>6 DEF powerLoss
    <2> QED BY <2>1, SyncedStepwise
  <1> QED BY <1>3, <1>4, <1>5, <1>6

LEMMA SStep == Tame /\ TInv /\ OInv /\ RInv /\ SInv /\ [Next]_vars => SInv'
  <1> SUFFICES ASSUME Tame, TInv, OInv, RInv, SInv, [Next]_vars PROVE SInv'
    OBVIOUS
  <1>1. CASE \E c \in Cells : evict(c)
    BY <1>1 DEF evict, SInv
  <1>2. CASE UNCHANGED vars
    BY <1>2 DEF vars, SInv
  <1> QED BY <1>1, <1>2, STransaction, SCheckpoint, SEnds DEF Next

\* A power loss that can only tear leaves every frame as it is but the one
\* written last, if that is not synced.
LEMMA OnlyTheLastIsTorn ==
  ASSUME NEW w, WalType(w), Shape(w), Uncut(w), NEW frames \in Losses(w, {"torn"})
  PROVE  /\ frames = [i \in 1..Len(w.frames) |-> frames[i]]
         /\ \A i \in 1..Len(w.frames) :
              \/ frames[i] = w.frames[i]
              \/ frames[i] = Torn /\ i = w.header.frame_count /\ i \in Unsynced(w)
  <1> DEFINE reordered(i) == IF i \in DOMAIN w.synced THEN "stale" ELSE "zero"
             lost == {i \in Unsynced(w) : reordered(i) \in {"torn"}}
             last == {i \in Unsynced(w) : i = w.header.frame_count /\ "torn" \in {"torn"}}
             lengths == {Len(w.synced), Len(w.frames)}
             left(L, T, n) ==
               [i \in 1..n |-> IF i \in T THEN Torn
                               ELSE IF i \in DOMAIN w.frames \ L THEN w.frames[i]
                               ELSE IF i \in DOMAIN w.synced THEN w.synced[i]
                               ELSE {}]
             Ls == SUBSET lost
             Ts == SUBSET last
             Ns == {k \in Min(lengths)..Max(lengths) : k = Max(lengths) \/ "short" \in {"torn"}}
  <1>1. PICK L \in Ls, T \in Ts, n \in Ns : frames = left(L, T, n)
    <2>1. Losses(w, {"torn"}) = {left(L, T, n) : L \in Ls, T \in Ts, n \in Ns}
      BY DEF Losses
    <2> HIDE DEF Ls, Ts, Ns, left
    <2>2. frames \in {left(L, T, n) : L \in Ls, T \in Ts, n \in Ns}
      BY <2>1
    <2>3. \E L \in Ls : \E T \in Ts : \E n \in Ns : frames = left(L, T, n)
      BY <2>2
    <2> QED BY <2>3
  <1>2. /\ Len(w.synced) \in Nat /\ Len(w.frames) \in Nat
        /\ DOMAIN w.frames = 1..Len(w.frames) /\ Len(w.synced) <= Len(w.frames)
    <2>1. w.frames = <<>> => Len(w.synced) <= Len(w.frames)
      BY DEF Uncut
    <2> QED BY <2>1, WalFieldTypes DEF Shape
  <1>3. n = Len(w.frames)
    <2>1. PICK x \in lengths : \A y \in lengths : x >= y
      BY <1>2
    <2>2. Max(lengths) \in lengths /\ \A y \in lengths : Max(lengths) >= y
      <3> HIDE DEF lengths
      <3> QED BY <2>1, Zenon DEF Max
    <2>3. Max(lengths) = Len(w.frames)
      BY <1>2, <2>2
    <2> QED BY <2>3
  <1>4. L = {}
    BY <1>1
  <1>5. \A i \in T : i = w.header.frame_count /\ i \in Unsynced(w)
    BY <1>1
  <1>6. frames = [i \in 1..Len(w.frames) |-> IF i \in T THEN Torn ELSE w.frames[i]]
    BY <1>1, <1>2, <1>3, <1>4
  <1> HIDE DEF lost, last, left, Ls, Ts, Ns
  <1> QED BY <1>5, <1>6

\* Opening such a log reads what one of its headers gives of the whole log.
LEMMA TornReads ==
  ASSUME NEW w, WalType(w), Shape(w), Uncut(w), Intact(w), Stepwise(w), NEW h \in w.headers,
         NEW frames \in Losses(w, {"torn"}),
         NEW v, v = [w EXCEPT !.frames = frames, !.header = h]
  PROVE  /\ WalType(v) /\ ~OpenFails(v)
         /\ \E g \in w.headers : Scanned(v) = Base(w, g)
  <1> DEFINE k == w.header.frame_count
             m == h.frame_count
  <1>0. /\ k \in Nat /\ m \in Nat /\ m <= k /\ k <= Len(w.frames) /\ Len(w.frames) \in Nat
        /\ h \in Headers /\ \A g \in w.headers : g.frame_count \in Nat
        /\ DOMAIN w.frames = 1..Len(w.frames)
        /\ \A i \in 1..Len(w.frames) : w.frames[i] # Torn
    BY WalFieldTypes DEF Shape, Headers, Intact
  <1>1. /\ v.frames = frames /\ v.header = h /\ v.headers = w.headers
        /\ v.synced = w.synced /\ v.current = w.current /\ v.next_lsn = w.next_lsn
    BY DEF WalType, WalFields
  <1>2. /\ frames = [i \in 1..Len(w.frames) |-> frames[i]]
        /\ \A i \in 1..Len(w.frames) :
             \/ frames[i] = w.frames[i]
             \/ frames[i] = Torn /\ i = k /\ i \in Unsynced(w)
    BY OnlyTheLastIsTorn
  <1>3. Torn \in SUBSET Records /\ \A r \in Torn : r.lsn = 0
    BY DEF Torn, Record, Records, Kinds
  <1>4. /\ frames \in Seq(SUBSET Records) /\ Len(frames) = Len(w.frames)
        /\ DOMAIN frames = 1..Len(w.frames)
    <2>1. \A i \in 1..Len(w.frames) : frames[i] \in SUBSET Records
      <3>1. \A i \in 1..Len(w.frames) : w.frames[i] \in SUBSET Records
        BY WalFieldTypes
      <3> SUFFICES ASSUME NEW i \in 1..Len(w.frames) PROVE frames[i] \in SUBSET Records
        OBVIOUS
      <3>2. CASE frames[i] = w.frames[i]
        BY <3>1, <3>2
      <3>3. CASE frames[i] = Torn
        BY <1>3, <3>3
      <3> QED BY <1>2, <3>2, <3>3
    <2> QED BY <1>0, <1>2, <2>1
  <1>5. WalType(v)
    <2>1. PICK b \in Nat : WalBound(w, b)
      BY DEF WalType
    <2>2. Bounded(frames, b)
      <3> SUFFICES ASSUME NEW i \in 1..Len(w.frames), NEW r \in frames[i] PROVE r.lsn <= b
        BY <1>4 DEF Bounded
      <3>1. CASE frames[i] = w.frames[i]
        <4>1. r \in w.frames[i] /\ i \in DOMAIN w.frames
          BY <1>0, <3>1
        <4> QED BY <2>1, <4>1 DEF WalBound, Bounded
      <3>2. CASE frames[i] = Torn
        <4>1. r.lsn = 0
          BY <1>3, <3>2
        <4> QED BY <4>1
      <3> QED BY <1>2, <3>1, <3>2
    <2>3. WalBound(v, b)
      BY <1>1, <2>1, <2>2 DEF WalBound
    <2>4. WalFields(v)
      BY <1>0, <1>4 DEF WalType, WalFields
    <2> QED BY <1>1, <2>3, <2>4 DEF WalType
  <1> DEFINE e == LogEnd(v)
  <1>6. /\ e \in 1..(m + 1)
        /\ e = m + 1 \/ Unreadable(v, e)
        /\ \A j \in 1..(e - 1) : ~Unreadable(v, j)
    BY <1>1, <1>5, LogEndIsFirst
  <1>6a. e = LogEnd(v)
    OBVIOUS
  <1> HIDE DEF e, k, m
  <1>7. \A j \in 1..(e - 1) : frames[j] = w.frames[j]
    <2> SUFFICES ASSUME NEW j \in 1..(e - 1) PROVE frames[j] = w.frames[j]
      OBVIOUS
    <2>1. j \in 1..Len(w.frames) /\ ~Unreadable(v, j)
      BY <1>0, <1>6 DEF k, m
    <2> QED BY <1>1, <1>2, <2>1 DEF Unreadable
  <1>8. Readable(v) = UNION {w.frames[j] : j \in 1..(e - 1)}
    <2>1. Readable(v) = UNION {frames[j] : j \in 1..(e - 1)}
      BY <1>1, <1>6a DEF Readable
    <2> QED BY <1>7, <2>1
  <1>9. CASE e = m + 1
    <2>1. ~OpenFails(v)
      BY <1>0, <1>1, <1>6a, <1>9 DEF OpenFails, m
    <2>2. Readable(v) = Log(w, h)
      BY <1>0, <1>8, <1>9 DEF Log, m
    <2>3. Scanned(v) = Base(w, h)
      BY <1>1, <2>2 DEF Scanned, Base, From
    <2> QED BY <1>5, <2>1, <2>3
  <1>10. CASE e # m + 1
    <2>1. e \in 1..Len(w.frames) /\ Unreadable(v, e)
      BY <1>0, <1>6, <1>10 DEF k, m
    <2>2. frames[e] = Torn /\ e = k /\ e \in Unsynced(w)
      <3>1. frames[e] = Torn
        BY <1>0, <1>1, <1>4, <2>1 DEF Unreadable
      <3> QED BY <1>0, <1>2, <2>1, <3>1
    <2>3. e = m /\ m = k
      BY <1>0, <1>6, <1>10, <2>2 DEF k, m
    <2>4. ~OpenFails(v)
      <3>1. /\ v.header.frame_count = e /\ LogEnd(v) = e /\ e <= Len(v.frames)
            /\ e \in Nat /\ Len(v.frames) \in Nat
        BY <1>0, <1>1, <1>4, <1>6a, <2>1, <2>3 DEF m
      <3>2. \A i \in (e + 1)..e : FALSE
        BY <3>1
      <3> QED BY <3>1, <3>2 DEF OpenFails
    <2>5. PICK g \in w.headers : g.frame_count + 1 = m /\ g.checkpoint_lsn = h.checkpoint_lsn
      BY <2>2, <2>3 DEF Stepwise, k, m
    <2>6. g.frame_count = e - 1
      BY <1>0, <2>3, <2>5
    <2>7. Readable(v) = Log(w, g)
      BY <1>8, <2>6 DEF Log
    <2>8. Scanned(v) = Base(w, g)
      BY <1>1, <2>5, <2>7 DEF Scanned, Base, From
    <2> QED BY <1>5, <2>4, <2>8
  <1> QED BY <1>5, <1>9, <1>10

\* What any header gives of an intact log was seen in it.
LEMMA BaseIsSeen ==
  ASSUME NEW w, WalType(w), Intact(w), Shape(w), NEW g \in w.headers
  PROVE  Base(w, g) \subseteq Seen(w) /\ Base(w, g) \subseteq Records
  <1>1. g.frame_count \in Nat /\ g.frame_count <= w.header.frame_count /\ w.header.frame_count \in Nat
    BY WalFieldTypes DEF Headers, Shape
  <1>2. Log(w, g) \subseteq Log(w, w.header)
    BY <1>1 DEF Log
  <1>3. w.header.frame_count <= Len(w.frames) /\ Log(w, w.header) \subseteq Seen(w)
    BY IntactIsSeen DEF Intact
  <1>4. Log(w, w.header) \subseteq Records
    BY <1>1, <1>3, WalFieldTypes DEF Log
  <1> QED BY <1>2, <1>3, <1>4 DEF Base, From

(* At every moment a power loss that tears the frame being written leaves  *)
(* files that the next open takes, with a promised state: the torn tail is *)
(* the end of the log and neither blocks it nor hides a commit.            *)
THEOREM TornTailsAreTheEnd == Tame => (Spec => []TornTailIsTheEnd)
  <1> SUFFICES ASSUME Tame PROVE Spec => []TornTailIsTheEnd
    OBVIOUS
  <1>1. Spec => [](TInv /\ OInv /\ RInv)
    BY InvHolds
  <1>2. Init => SInv
    BY SInit
  <1>3. TInv /\ OInv /\ RInv /\ SInv /\ [Next]_vars => SInv'
    BY SStep
  <1>4. ASSUME TInv, OInv, RInv, SInv PROVE TornTailIsTheEnd
    <2> SUFFICES ASSUME status # "failed", CrashPoint, NEW h \in wal.headers,
                        NEW frames \in Losses(wal, {"torn"}), NEW f \in FilesLeft,
                        NEW v, v = [wal EXCEPT !.frames = frames, !.header = h]
                 PROVE  ~OpenFails(v) /\ Recovered(v, f) \in promised
      BY DEF TornTailIsTheEnd
    <2>1. call.at # "truncated" /\ status \in {"closed", "open"}
      BY <1>4, TameFaults DEF CrashPoint, TInv, TypeOK
    <2>2. /\ HeadersKeep(wal, stable, promised) /\ Intact(wal)
          /\ WalType(wal) /\ Shape(wal) /\ Ordered(wal) /\ promised \subseteq [Cells -> States]
          /\ Stepwise(wal)
      <3>1. HeadersKeep(wal, stable, promised) /\ Intact(wal)
        BY <1>4, <2>1, PhaseKeeps DEF RInv
      <3> QED BY <1>4, <3>1 DEF TInv, TypeOK, OInv, SInv
    <2>3. Uncut(wal)
      <3>1. ASSUME ~Uncut(wal) PROVE FALSE
        <4>1. wal.frames = <<>> /\ wal.header.frame_count >= 1
          BY <1>4, <3>1 DEF OInv, Uncut
        <4> QED BY <2>2, <4>1, WalFieldTypes DEF Intact
      <3> QED BY <3>1
    <2>4. /\ WalType(v) /\ ~OpenFails(v)
          /\ \E g \in wal.headers : Scanned(v) = Base(wal, g)
      BY <2>2, <2>3, TornReads
    <2>4a. PICK g \in wal.headers : Scanned(v) = Base(wal, g)
      BY <2>4
    <2>5. PICK p \in promised : Gives(Base(wal, g), stable, p)
      BY <2>2 DEF HeadersKeep
    <2>6. /\ \A r, s \in Base(wal, g) : r.lsn = s.lsn => r = s
          /\ \A r \in Base(wal, g) : r.lsn \in Nat
      BY <2>2, BaseIsSeen, RecordFields DEF Ordered
    <2>7. p \in [Cells -> States] /\ \A c \in Cells : f[c] \in stable[c]
      BY <2>2 DEF FilesLeft
    <2>8. Recovered(v, f) = p
      BY <2>4, <2>4a, <2>5, <2>6, <2>7, RedoGives
    <2> QED BY <2>4, <2>8
  <1> QED BY <1>1, <1>2, <1>3, <1>4, PTL DEF Spec
=============================================================================
