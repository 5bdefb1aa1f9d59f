------------------------------ MODULE Durability ------------------------------
(***************************************************************************)
(* The write-ahead log, checkpoints, crashes and recovery of a database:   *)
(* storage/wal.zig, recovery.zig, checkpoint.zig, transaction/manager.zig  *)
(* and their use in storage/database.zig.                                  *)
(*                                                                         *)
(* A cell stands for a node or edge (or a vector or document: Unlogged),   *)
(* and for the page that holds it.  A frame of the log is a set of         *)
(* records; lsn order is their order.  Calls are serialised by the mutex   *)
(* of the handle, but a call is many steps, because pages are evicted and  *)
(* crashes happen between them.  `promised' is auxiliary: the states the   *)
(* database may be in, given what callers have been told.                  *)
(*                                                                         *)
(* Faults says what the environment may do, and so under which conditions  *)
(* a run establishes its properties:                                       *)
(*   "log"       appending a record fails in the middle of a commit        *)
(*   "retry"     a transaction goes on writing after such a failure        *)
(*   "evict"     the pool evicts pages a commit has changed before the     *)
(*               commit record is durable                                  *)
(*   "reuse"     transactions begin while the log of an earlier session is *)
(*               still replayed                                            *)
(*   "open"      a full checkpoint is taken while transactions are open    *)
(*   "truncate"  crashes between truncating the log and resetting its      *)
(*               header                                                    *)
(*   "power"     crashes lose writes that were not synced; a lost frame    *)
(*               the header counts may be "torn", "zero" (a hole), "short" *)
(*               (not there) or "stale" (what was there before)            *)
(*   "relog"     crashes lose a log that has been replayed already         *)
(***************************************************************************)
EXTENDS Integers, Sequences, FiniteSets, FiniteSetsExt

CONSTANTS
    Cells, Unlogged, Values, Absent,
    NoEntry,        \* no overlay entry for a cell
    MaxTxn,         \* bound: transactions per session
    MaxSessions,    \* bound: times the database is opened
    FrameCap,       \* records that fit in a frame
    AutoFrames,     \* AutoCheckpointConfig.max_wal_frames
    MaxLsn,         \* bound: records appended before transactions stop beginning
    Faults

ASSUME DurabilityAssumption ==
    /\ Unlogged \subseteq Cells
    /\ Absent \notin Values
    /\ NoEntry \notin Values \cup {Absent}
    /\ FrameCap \in Nat \ {0}
    /\ {MaxTxn, MaxSessions, AutoFrames, MaxLsn} \subseteq Nat
    /\ Faults \subseteq {"log", "retry", "evict", "reuse", "open", "truncate", "power",
                         "torn", "zero", "short", "stale", "relog"}

VARIABLES
    status,         \* "closed", "open", or "failed": Database.open returns an error
    sessions,       \* how often the database has been opened
    mem,            \* the stores as the open handle sees them, through the buffer pool
    file,           \* the same in the database file, as the OS sees it
    stable,         \* per cell, what a power loss may leave
    wal,            \* WalManager and its file
    next_txn,       \* next_txn_id
    active,         \* the open transactions
    overlay,        \* txn_overlays
    writer,         \* active_writer_txn_id, 0 for null
    call,           \* the call in progress
    promised

vars == <<status, sessions, mem, file, stable, wal, next_txn, active, overlay, writer,
          call, promised>>

States == Values \cup {Absent}
Ids == 1..MaxTxn

(* left: the cells that a commit has still to log.                         *)
NoCall == [op |-> "none", txn |-> 0, at |-> "-", left |-> {}]
EmptyOverlay == [c \in Cells |-> NoEntry]

-------------------------------------------------------------------------------
(* The log.  wal.frames and wal.header are the file as the OS sees it,     *)
(* wal.synced and wal.headers what a power loss may bring back;            *)
(* wal.current is the frame being built.                                   *)
Record(kind, t, lsn, write) == [kind |-> kind, txn |-> t, lsn |-> lsn, write |-> write]

(* A frame whose checksum does not match. *)
Torn == {Record("torn", 0, 0, <<>>)}

(* A frame is written at frame_count, over whatever the file has there;    *)
(* then the header.                                                        *)
flushCurrentFrame(w) ==
    IF w.current = {} THEN w
    ELSE LET n == w.header.frame_count + 1
             h == [w.header EXCEPT !.frame_count = n]
             m == IF n > Len(w.frames) THEN n ELSE Len(w.frames)
         IN  [w EXCEPT !.frames = [i \in 1..m |-> IF i = n THEN w.current
                                                  ELSE IF i <= Len(@) THEN @[i] ELSE {}],
                       !.header = h,
                       !.headers = @ \cup {h},
                       !.current = {}]

Fsync(w) == [w EXCEPT !.synced = w.frames, !.headers = {w.header}]

appendRecord(w, kind, t, write) ==
    LET f == IF Cardinality(w.current) = FrameCap THEN flushCurrentFrame(w) ELSE w
    IN  [f EXCEPT !.current = @ \cup {Record(kind, t, f.next_lsn, write)},
                  !.next_lsn = @ + 1]

sync(w) == Fsync(flushCurrentFrame(w))

setCheckpointLsn(w, lsn) ==
    LET h == [w.header EXCEPT !.checkpoint_lsn = lsn]
    IN  [w EXCEPT !.header = h, !.headers = @ \cup {h}]

-------------------------------------------------------------------------------
(* Recovery                                                                *)

Unreadable(w, i) == i > Len(w.frames) \/ w.frames[i] = Torn

(* The first frame that cannot be read, or one past the last.              *)
LogEnd(w) ==
    CHOOSE i \in 1..(w.header.frame_count + 1) :
        /\ i = w.header.frame_count + 1 \/ Unreadable(w, i)
        /\ \A j \in 1..(i - 1) : ~Unreadable(w, j)

(* How many frames hasValidFramesAfter looks at.                           *)
ScanAhead == 9

(* Mutant of OpenFails: the scan ahead does not stop at the header's count. *)
OpenFailsPastCount(w) ==
    LET b == LogEnd(w)
    IN  /\ b <= w.header.frame_count
        /\ \/ b > Len(w.frames)
           \/ \E i \in (b + 1)..Len(w.frames) :
                i <= b + ScanAhead /\ w.frames[i] \notin {Torn, {}}

(* A frame that is missing is an I/O error; a torn one is the end of the   *)
(* log unless a valid frame follows within reach.                          *)
OpenFails(w) ==
    LET b == LogEnd(w)
    IN  /\ b <= w.header.frame_count
        /\ \/ b > Len(w.frames)
           \/ \E i \in (b + 1)..w.header.frame_count :
                /\ i <= b + ScanAhead /\ i <= Len(w.frames)
                /\ w.frames[i] \notin {Torn, {}}

Readable(w) == UNION {w.frames[i] : i \in 1..(LogEnd(w) - 1)}

Scanned(w) == {r \in Readable(w) : r.lsn >= w.header.checkpoint_lsn}

(* Mutant of NextLsn: numbers restart behind the checkpoint. *)
NextLsnFromCheckpoint(w) == 1 + w.header.checkpoint_lsn

(* findLogEnd *)
NextLsn(w) == 1 + Max({0} \cup {r.lsn : r \in Readable(w)})

(* analysisPass: a begin record resets the state of its id, outcomes of    *)
(* ids not begun are ignored, and the last outcome counts.                 *)
Committed(w, t) ==
    LET outcomes == {r \in Scanned(w) : r.txn = t /\ r.kind \in {"begin", "commit", "abort"}}
    IN  \E r \in outcomes :
            /\ r.kind = "commit"
            /\ \E b \in outcomes : b.kind = "begin" /\ b.lsn < r.lsn
            /\ \A o \in outcomes : o.lsn <= r.lsn

(* redoPass *)
Recovered(w, f) ==
    LET redo == {r \in Scanned(w) : r.kind = "op" /\ Committed(w, r.txn)}
    IN  [c \in Cells |->
            IF \E r \in redo : r.write[1] = c
            THEN (CHOOSE r \in redo : /\ r.write[1] = c
                                      /\ \A s \in redo : s.write[1] = c => s.lsn <= r.lsn).write[2]
            ELSE f[c]]

-------------------------------------------------------------------------------
NewHeader == [frame_count |-> 0, checkpoint_lsn |-> 0]
AllAbsent == [c \in Cells |-> Absent]

(* What is lost with the process. *)
Forget ==
    /\ mem' = AllAbsent
    /\ next_txn' = 1
    /\ active' = {}
    /\ overlay' = [t \in Ids |-> EmptyOverlay]
    /\ writer' = 0
    /\ call' = NoCall

Init ==
    /\ status = "closed"
    /\ sessions = 0
    /\ mem = AllAbsent
    /\ file = AllAbsent
    /\ stable = [c \in Cells |-> {Absent}]
    /\ wal = [frames |-> <<>>, synced |-> <<>>, header |-> NewHeader,
              headers |-> {NewHeader}, current |-> {}, next_lsn |-> 1]
    /\ next_txn = 1
    /\ active = {}
    /\ overlay = [t \in Ids |-> EmptyOverlay]
    /\ writer = 0
    /\ call = NoCall
    /\ promised = {AllAbsent}

Idle == status = "open" /\ call = NoCall

(* Unless "relog" is allowed, the system has written the log of an earlier *)
(* session back to the disk by the time the database is opened again.      *)
WrittenBack(w) == IF "relog" \in Faults THEN w ELSE Fsync(w)

(* Database.open with recovery.  The redone cells stay in the buffer pool; *)
(* recover syncs the file but writes none of them, and does not sync the   *)
(* log it replayed.                                                        *)
open ==
    /\ status = "closed" /\ sessions < MaxSessions
    /\ sessions' = sessions + 1
    /\ UNCHANGED <<file, next_txn, active, overlay, writer, call>>
    /\ \/ /\ OpenFails(wal)
          /\ status' = "failed"
          /\ UNCHANGED <<mem, stable, wal, promised>>
       \/ /\ ~OpenFails(wal)
          /\ status' = "open"
          /\ mem' = Recovered(wal, file)
          /\ stable' = [c \in Cells |-> {file[c]}]
          /\ wal' = [WrittenBack(wal) EXCEPT !.next_lsn = NextLsn(wal)]
          /\ promised' = IF mem' \in promised THEN {mem'} ELSE promised

(* Database.close flushes everything it can and syncs only the log.        *)
close ==
    /\ Idle
    /\ status' = "closed"
    /\ wal' = sync(wal)
    /\ file' = mem
    /\ stable' = [c \in Cells |-> stable[c] \cup {mem[c]}]
    /\ Forget
    /\ UNCHANGED <<sessions, promised>>

-------------------------------------------------------------------------------
beginTransaction(write) ==
    /\ Idle
    /\ next_txn <= MaxTxn /\ wal.next_lsn <= MaxLsn
    /\ "reuse" \in Faults \/ \A r \in Scanned(wal) : r.txn < next_txn
    /\ write => writer = 0
    /\ wal' = appendRecord(wal, "begin", next_txn, <<>>)
    /\ writer' = IF write THEN next_txn ELSE writer
    /\ active' = active \cup {next_txn}
    /\ next_txn' = next_txn + 1
    /\ UNCHANGED <<status, sessions, mem, file, stable, overlay, call, promised>>

stageWrite(c, v) ==
    /\ Idle /\ writer # 0
    /\ "retry" \in Faults \/ ~\E r \in Scanned(wal) \cup wal.current : r.txn = writer /\ r.kind = "op"
    /\ overlay' = [overlay EXCEPT ![writer][c] = v]
    /\ UNCHANGED <<status, sessions, mem, file, stable, wal, next_txn, active, writer, call, promised>>

Written(t) == {c \in Cells : overlay[t][c] # NoEntry}
Applied(t) == [c \in Cells |-> IF c \in Written(t) THEN overlay[t][c] ELSE mem[c]]

(* Records are written for the nodes and edges whose state differs from    *)
(* the base; vectors and documents have no record.                         *)
LoggedCells(t) == {c \in Written(t) \ Unlogged : overlay[t][c] # mem[c]}

(* commitTransaction, in the order of its effects; the records come in the *)
(* order of a hash table.                                                  *)
logTxnOverlayForCommit(t) ==
    /\ Idle /\ t \in active
    /\ call' = [op |-> "commit", txn |-> t, at |-> "logging", left |-> LoggedCells(t)]
    /\ UNCHANGED <<status, sessions, mem, file, stable, wal, next_txn, active, overlay, writer, promised>>

logCommittedState(c) ==
    /\ call.op = "commit" /\ call.at = "logging" /\ c \in call.left
    /\ wal' = appendRecord(wal, "op", call.txn, <<c, overlay[call.txn][c]>>)
    /\ call' = [call EXCEPT !.left = @ \ {c}]
    /\ UNCHANGED <<status, sessions, mem, file, stable, next_txn, active, overlay, writer, promised>>

(* The commit returns an error; the transaction stays open.                *)
LogFails ==
    /\ "log" \in Faults
    /\ call.op = "commit" /\ call.at = "logging" /\ call.left # {}
    /\ wal.next_lsn <= MaxLsn
    /\ call' = NoCall
    /\ UNCHANGED <<status, sessions, mem, file, stable, wal, next_txn, active, overlay, writer, promised>>

applyTxnOverlay ==
    /\ call.op = "commit" /\ call.at = "logging" /\ call.left = {}
    /\ mem' = Applied(call.txn)
    /\ call' = [call EXCEPT !.at = "applied"]
    /\ promised' = promised \cup {Applied(call.txn)}
    /\ UNCHANGED <<status, sessions, file, stable, wal, next_txn, active, overlay, writer>>

(* Mutant of commitRecord: the frame is left in memory. *)
commitRecordUnflushed ==
    /\ call.op = "commit" /\ call.at = "applied"
    /\ wal' = appendRecord(wal, "commit", call.txn, <<>>)
    /\ call' = [call EXCEPT !.at = "flushed"]
    /\ UNCHANGED <<status, sessions, mem, file, stable, next_txn, active, overlay, writer, promised>>

(* TxnManager.commit: the record and the write half of the sync.           *)
commitRecord ==
    /\ call.op = "commit" /\ call.at = "applied"
    /\ wal' = flushCurrentFrame(appendRecord(wal, "commit", call.txn, <<>>))
    /\ call' = [call EXCEPT !.at = "flushed"]
    /\ UNCHANGED <<status, sessions, mem, file, stable, next_txn, active, overlay, writer, promised>>

abortRecord(t) ==
    /\ Idle /\ t \in active
    /\ wal' = flushCurrentFrame(appendRecord(wal, "abort", t, <<>>))
    /\ call' = [op |-> "abort", txn |-> t, at |-> "flushed", left |-> {}]
    /\ UNCHANGED <<status, sessions, mem, file, stable, next_txn, active, overlay, writer, promised>>

(* Mutant of endTransaction: the writer slot is not given back. *)
endTransactionKeepingSlot ==
    /\ call.op \in {"commit", "abort"} /\ call.at = "flushed"
    /\ wal' = Fsync(wal)
    /\ active' = active \ {call.txn}
    /\ overlay' = [overlay EXCEPT ![call.txn] = EmptyOverlay]
    /\ promised' = {mem}
    /\ call' = NoCall
    /\ UNCHANGED <<status, sessions, mem, file, stable, writer, next_txn>>

(* The end of a commit or abort: the log is synced, the transaction is     *)
(* forgotten, and the commit that closes the last one checkpoints when the *)
(* log is long (maybeAutoCheckpoint).                                      *)
endTransaction ==
    /\ call.op \in {"commit", "abort"} /\ call.at = "flushed"
    /\ wal' = Fsync(wal)
    /\ active' = active \ {call.txn}
    /\ overlay' = [overlay EXCEPT ![call.txn] = EmptyOverlay]
    /\ writer' = IF writer = call.txn THEN 0 ELSE writer
    /\ promised' = {mem}
    /\ call' = IF call.op = "commit" /\ active' = {} /\ wal.header.frame_count >= AutoFrames
               THEN [op |-> "truncate", txn |-> 0, at |-> "begin", left |-> {}] ELSE NoCall
    /\ UNCHANGED <<status, sessions, mem, file, stable, next_txn>>

-------------------------------------------------------------------------------
(* Checkpointer.checkpoint(.full or .truncate), in the order of its steps  *)
checkpoint(mode) ==
    /\ Idle
    /\ wal.next_lsn <= MaxLsn
    /\ active # {} => mode = "full" /\ "open" \in Faults
    /\ call' = [op |-> mode, txn |-> 0, at |-> "begin", left |-> {}]
    /\ UNCHANGED <<status, sessions, mem, file, stable, wal, next_txn, active, overlay, writer, promised>>

InCheckpoint(at, next) ==
    /\ call.op \in {"full", "truncate"} /\ call.at = at
    /\ call' = IF next = "done" THEN NoCall ELSE [call EXCEPT !.at = next]
    /\ UNCHANGED <<status, sessions, mem, next_txn, active, overlay, writer, promised>>

checkpointBegin ==
    /\ InCheckpoint("begin", "pages")
    /\ wal' = sync(appendRecord(wal, "checkpoint", 0, <<>>))
    /\ UNCHANGED <<file, stable>>

(* Mutant of flushFull: no page is written. *)
flushNothing ==
    /\ InCheckpoint("pages", "end")
    /\ UNCHANGED <<file, stable, wal>>

flushFull ==
    /\ InCheckpoint("pages", "end")
    /\ file' = mem
    /\ stable' = [c \in Cells |-> {mem[c]}]
    /\ UNCHANGED wal

(* The end record, and setCheckpointLsn past it: the header is in the file *)
(* before the record is.                                                   *)
checkpointEnd ==
    /\ InCheckpoint("end", "final")
    /\ wal' = LET w == appendRecord(wal, "checkpoint", 0, <<>>)
              IN  setCheckpointLsn(w, wal.next_lsn)
    /\ UNCHANGED <<file, stable>>

checkpointFinal ==
    /\ InCheckpoint("final", IF call.op = "truncate" THEN "truncate" ELSE "done")
    /\ wal' = sync(wal)
    /\ UNCHANGED <<file, stable>>

(* truncateToEmpty: the file, and then the header.                         *)
truncateFile ==
    /\ InCheckpoint("truncate", "truncated")
    /\ wal' = [wal EXCEPT !.frames = <<>>]
    /\ UNCHANGED <<file, stable>>

resetHeader ==
    /\ InCheckpoint("truncated", "done")
    /\ wal' = Fsync([wal EXCEPT !.header = NewHeader])
    /\ UNCHANGED <<file, stable>>

-------------------------------------------------------------------------------
(* The buffer pool writes a dirty page out to make room.                   *)
evict(c) ==
    /\ status = "open" /\ file[c] # mem[c]
    /\ "evict" \in Faults \/ call.op # "commit" \/ call.at = "logging"
    /\ file' = [file EXCEPT ![c] = mem[c]]
    /\ stable' = [stable EXCEPT ![c] = @ \cup {mem[c]}]
    /\ UNCHANGED <<status, sessions, mem, wal, next_txn, active, overlay, writer, call, promised>>

CrashPoint == call.at # "truncated" \/ "truncate" \in Faults

(* The process dies; what it wrote is with the OS.                         *)
kill ==
    /\ status = "open" /\ CrashPoint
    /\ status' = "closed"
    /\ wal' = [wal EXCEPT !.current = {}, !.next_lsn = 1]
    /\ Forget
    /\ UNCHANGED <<sessions, file, stable, promised>>

Unsynced(w) == {i \in DOMAIN w.frames : i > Len(w.synced) \/ w.synced[i] # w.frames[i]}

(* What a power loss may make of the log's frames when F says how it may   *)
(* lose them.  The writes since the last sync may be lost, leaving what    *)
(* was there, a hole or the end of the file; the frame that was written    *)
(* last may be torn.                                                       *)
Losses(w, F) ==
    LET reordered(i) == IF i \in DOMAIN w.synced THEN "stale" ELSE "zero"
        lost == {i \in Unsynced(w) : reordered(i) \in F}
        last == {i \in Unsynced(w) : i = w.header.frame_count /\ "torn" \in F}
        lengths == {Len(w.synced), Len(w.frames)}
        left(L, T, n) ==
            [i \in 1..n |-> IF i \in T THEN Torn
                            ELSE IF i \in DOMAIN w.frames \ L THEN w.frames[i]
                            ELSE IF i \in DOMAIN w.synced THEN w.synced[i]
                            ELSE {}]
    IN  {left(L, T, n) : L \in SUBSET lost, T \in SUBSET last,
                         n \in {m \in Min(lengths)..Max(lengths) :
                                   m = Max(lengths) \/ "short" \in F}}

Survivors(w) == Losses(w, Faults)

(* Any mixture of the page versions written since the last sync. *)
FilesLeft == {f \in [Cells -> States] : \A c \in Cells : f[c] \in stable[c]}

powerLoss ==
    /\ "power" \in Faults
    /\ status \in {"open", "closed"} /\ CrashPoint
    /\ status' = "closed"
    /\ \E header \in wal.headers : \E frames \in Survivors(wal) :
         wal' = [frames |-> frames, synced |-> frames, header |-> header,
                 headers |-> {header}, current |-> {}, next_lsn |-> 1]
    /\ file' \in FilesLeft
    /\ stable' = [c \in Cells |-> {file'[c]}]
    /\ Forget
    /\ UNCHANGED <<sessions, promised>>

-------------------------------------------------------------------------------
Transaction ==
    \/ \E write \in BOOLEAN : beginTransaction(write)
    \/ \E c \in Cells, v \in States : stageWrite(c, v)
    \/ \E t \in active : logTxnOverlayForCommit(t) \/ abortRecord(t)
    \/ \E c \in Cells : logCommittedState(c)
    \/ LogFails
    \/ applyTxnOverlay \/ commitRecord \/ endTransaction

Checkpoint ==
    \/ \E mode \in {"full", "truncate"} : checkpoint(mode)
    \/ checkpointBegin \/ flushFull \/ checkpointEnd \/ checkpointFinal
    \/ truncateFile \/ resetHeader

Next ==
    \/ open \/ close
    \/ Transaction
    \/ Checkpoint
    \/ \E c \in Cells : evict(c)
    \/ kill \/ powerLoss

Spec == Init /\ [][Next]_vars

-------------------------------------------------------------------------------
TypeOK ==
    /\ status \in {"closed", "open", "failed"}
    /\ sessions \in 0..MaxSessions
    /\ mem \in [Cells -> States]
    /\ file \in [Cells -> States]
    /\ stable \in [Cells -> SUBSET States]
    /\ wal.header \in [frame_count : Nat, checkpoint_lsn : Nat]
    /\ wal.header \in wal.headers
    /\ next_txn \in 1..(MaxTxn + 1)
    /\ active \subseteq Ids
    /\ overlay \in [Ids -> [Cells -> States \cup {NoEntry}]]
    /\ writer \in {0} \cup active
    /\ promised \subseteq [Cells -> States]

(* An open database holds what its callers were told was committed, all of *)
(* it and nothing else; a commit that was cut off by a crash counts        *)
(* entirely or not at all (docs/13_engine_conformance.md, Durability).     *)
CommittedSurvives == status = "open" => mem \in promised

(* The same of the files at every moment: if the process died now, the     *)
(* next open would succeed and find a promised state.                      *)
RecoverableNow ==
    status # "failed" /\ CrashPoint =>
        ~OpenFails(wal) /\ Recovered(wal, file) \in promised

(* If the power failed now and tore the frame that was written last, the   *)
(* next open would succeed, with a promised state: the scan ahead does not *)
(* take the torn tail for damage, and the frames before it decide          *)
(* (docs/08_recovery.md, Corruption Detection: "A torn write at the end of *)
(* the WAL (safe to proceed)"; recovery.zig:264).  This is about the next  *)
(* open, whatever Faults lets happen; for the sessions after it see        *)
(* OpenSucceeds.                                                           *)
TornTailIsTheEnd ==
    status # "failed" /\ CrashPoint =>
        \A header \in wal.headers, frames \in Losses(wal, {"torn"}), f \in FilesLeft :
            LET w == [wal EXCEPT !.frames = frames, !.header = header]
            IN  ~OpenFails(w) /\ Recovered(w, f) \in promised

(* "When this happens, the database must be able to restart"               *)
(* (docs/08_recovery.md, The Problem): recovery never refuses the log that *)
(* a crash left.  It does not hold once logs are torn or cut half-way, so  *)
(* no run checks it; the README says how it fails.                         *)
OpenSucceeds == status # "failed"

(* The records recovery reads have distinct numbers, and new ones come     *)
(* after them: the order of the log is the order of its numbers.           *)
LogIsOrdered ==
    status = "open" /\ CrashPoint =>
        \A r \in Readable(wal) \cup wal.current :
            /\ r.lsn < wal.next_lsn
            /\ \A s \in Readable(wal) \cup wal.current : s.lsn = r.lsn => s = r
===============================================================================
