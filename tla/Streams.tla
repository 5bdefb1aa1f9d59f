-------------------------------- MODULE Streams --------------------------------
(***************************************************************************)
(* Durable streams: records numbered per stream, the offset a consumer     *)
(* commits, trims, the change feed a commit derives from the graph, and    *)
(* readers that wait for records (stream/store.zig and its use in          *)
(* storage/database.zig).                                                  *)
(*                                                                         *)
(* One thread runs transactions, under the mutex of the handle.  Another   *)
(* reads the stream "jobs" from its cursor; lattice_stream_read does not   *)
(* take that mutex, so its steps come between those of a commit.  What it  *)
(* has handled it acknowledges by committing its cursor as the offset,     *)
(* where it resumes after a restart.                                       *)
(*                                                                         *)
(* A record's payload is the number of the transaction that published it.  *)
(* The log of a transaction is durable when its commit returns; what a     *)
(* commit in progress leaves behind is in module Durability, so a process  *)
(* dies here only between transactions or before the stores are changed,   *)
(* unless Faults has "dirty".  With "retry", a commit whose logging failed *)
(* is tried again.                                                         *)
(***************************************************************************)
EXTENDS Integers, Sequences, FiniteSets, FiniteSetsExt

CONSTANTS
    MaxTxn,         \* bound on transactions
    MaxSeq,         \* bound on sequence numbers
    Absent,         \* no value
    Faults

ASSUME StreamsAssumption ==
    /\ MaxTxn \in Nat \ {0} /\ MaxSeq \in Nat \ {0}
    /\ Absent \notin Nat
    /\ Faults \subseteq {"dirty", "retry"}

VARIABLES
    status,         \* "open", "recovering" or "closed"
    mem,            \* the stream trees as the open handle sees them
    disk,           \* the same in the file
    log,            \* what recovery redoes, of committed transactions
    txn,            \* the open transaction's number, 0 for none
    next_txn,
    overlay,        \* what it has staged
    call,           \* where its commit is
    applied,        \* how many changes the commit, or recovery, has applied
    stream_epoch,
    reader,         \* a call of readStream, and the application around it
    promised        \* auxiliary: records, trims and offset as committed

vars == <<status, mem, disk, log, txn, next_txn, overlay, call, applied, stream_epoch,
          reader, promised>>

Streams == {"jobs", "changes"}
Seqs == 1..MaxSeq
Txns == 1..MaxTxn

(* events are <<stream, sequence, payload>>; meta is the last sequence.    *)
EmptyTrees == [events |-> {}, meta |-> [s \in Streams |-> 0], offset |-> Absent]

(* writes: has it changed the graph?  asked is auxiliary: how many messages *)
(* the application has published.                                          *)
EmptyOverlay ==
    [appends |-> <<>>, asked |-> 0, offset |-> Absent, trim |-> Absent, writes |-> FALSE]

IdleReader(cursor, handled) ==
    [at |-> "idle", cursor |-> cursor, handled |-> handled, epoch |-> 0,
     woken |-> FALSE, elapsed |-> FALSE, again |-> FALSE]

-------------------------------------------------------------------------------
(* The stream store                                                        *)

(* Mutant of appendWithSequence: the next number is noted, not the last.   *)
appendWithNextSequence(t, s, q, payload) ==
    [t EXCEPT !.events = IF \E e \in @ : e[1] = s /\ e[2] = q THEN @
                         ELSE @ \cup {<<s, q, payload>>},
              !.meta[s] = q + 1]

(* A record that is there already is left alone.                           *)
appendWithSequence(t, s, q, payload) ==
    [t EXCEPT !.events = IF \E e \in @ : e[1] = s /\ e[2] = q THEN @
                         ELSE @ \cup {<<s, q, payload>>},
              !.meta[s] = IF q > @ THEN q ELSE @]

setOffset(t, q) == [t EXCEPT !.offset = q]

trim(t, s, through) == [t EXCEPT !.events = {e \in @ : e[1] # s \/ e[2] > through}]

(* Mutant of read: the first record after the cursor is passed over. *)
readPastNext(t, s, after, limit) ==
    {e \in t.events : /\ e[1] = s /\ e[2] > after + 1
                      /\ Cardinality({f \in t.events : f[1] = s /\ after + 1 < f[2] /\ f[2] < e[2]})
                            < limit}

(* The records of a stream after a sequence number, at most limit of them. *)
read(t, s, after, limit) ==
    {e \in t.events : /\ e[1] = s /\ e[2] > after
                      /\ Cardinality({f \in t.events : f[1] = s /\ after < f[2] /\ f[2] < e[2]})
                            < limit}

(* Redo and apply of one record.                                           *)
Redo(t, r) ==
    CASE r.op = "append" -> appendWithSequence(t, r.stream, r.arg[1], r.arg[2])
      [] r.op = "offset" -> setOffset(t, r.arg)
      [] r.op = "trim" -> trim(t, r.stream, r.arg)

-------------------------------------------------------------------------------
(* Transactions                                                            *)

Publishing == status = "open" /\ txn # 0 /\ call = "none"

beginTransaction ==
    /\ status = "open" /\ txn = 0 /\ call = "none" /\ next_txn \in Txns
    /\ txn' = next_txn
    /\ next_txn' = next_txn + 1
    /\ UNCHANGED <<status, mem, disk, log, overlay, call, applied, stream_epoch, reader, promised>>

(* Mutant of nextStreamSequence: what the transaction has staged is not    *)
(* looked at. *)
nextAfterBase(appends, s) == mem.meta[s] + 1

nextStreamSequence(appends, s) ==
    1 + Max({mem.meta[s]} \cup {appends[i].arg[1] : i \in {j \in DOMAIN appends : appends[j].stream = s}})

Staged(appends, s) ==
    Append(appends, [op |-> "append", stream |-> s,
                     arg |-> <<nextStreamSequence(appends, s), txn>>])

publishStream ==
    /\ Publishing
    /\ nextStreamSequence(overlay.appends, "jobs") \in Seqs
    /\ overlay' = [overlay EXCEPT !.appends = Staged(@, "jobs"), !.asked = @ + 1]
    /\ UNCHANGED <<status, mem, disk, log, txn, next_txn, call, applied, stream_epoch, reader, promised>>

(* The application acknowledges what it has read. *)
setStreamOffset ==
    /\ Publishing
    /\ reader.at = "idle" /\ reader.cursor # 0
    /\ overlay' = [overlay EXCEPT !.offset = reader.cursor]
    /\ UNCHANGED <<status, mem, disk, log, txn, next_txn, call, applied, stream_epoch, reader, promised>>

(* A transaction trims the stream of messages at most once here. *)
trimStream(through) ==
    /\ Publishing
    /\ overlay.trim = Absent
    /\ overlay' = [overlay EXCEPT !.trim = through]
    /\ UNCHANGED <<status, mem, disk, log, txn, next_txn, call, applied, stream_epoch, reader, promised>>

(* A write to the graph, which has one event in the change feed.           *)
writeGraph ==
    /\ Publishing
    /\ overlay' = [overlay EXCEPT !.writes = TRUE]
    /\ UNCHANGED <<status, mem, disk, log, txn, next_txn, call, applied, stream_epoch, reader, promised>>

(* stageGraphChangefeed stages the events of the difference between the    *)
(* overlay and the stores; it adds to what an earlier attempt has staged.  *)
WithFeed(o) ==
    IF o.writes THEN [o EXCEPT !.appends = Staged(@, "changes")] ELSE o

(* The order in which a commit logs and applies.                           *)
Ops(o) ==
    LET one(op, arg) == IF arg = Absent THEN <<>> ELSE <<[op |-> op, stream |-> "jobs", arg |-> arg]>>
    IN  o.appends \o one("offset", o.offset) \o one("trim", o.trim)

(* Every message that was published gets the next number; a trim reaches   *)
(* as far as the stream does.                                              *)
Promise(p, o) ==
    LET published == [s \in Streams |-> IF s = "jobs" THEN o.asked ELSE IF o.writes THEN 1 ELSE 0]
        records == [s \in Streams |-> p.records[s] \o [i \in 1..published[s] |-> txn]]
        end == Len(records["jobs"])
    IN  [records |-> records,
         trimmed |-> IF o.trim = Absent THEN p.trimmed
                     ELSE Max({p.trimmed, IF o.trim < end THEN o.trim ELSE end}),
         offset |-> IF o.offset = Absent THEN p.offset ELSE o.offset]

(* commitTransaction up to the log.                                        *)
logTxnOverlayForCommit ==
    /\ Publishing
    /\ overlay.writes => nextStreamSequence(overlay.appends, "changes") \in Seqs
    /\ overlay' = WithFeed(overlay)
    /\ call' = "applying"
    /\ applied' = 0
    /\ UNCHANGED <<status, mem, disk, log, txn, next_txn, stream_epoch, reader, promised>>

LogFails ==
    /\ call = "applying" /\ applied = 0
    /\ call' = IF "retry" \in Faults THEN "none" ELSE "failed"
    /\ UNCHANGED <<status, mem, disk, log, txn, next_txn, overlay, applied, stream_epoch, reader, promised>>

(* applyTxnOverlay, one entry at a time.                                   *)
applyTxnOverlay ==
    /\ call = "applying" /\ applied < Len(Ops(overlay))
    /\ mem' = Redo(mem, Ops(overlay)[applied + 1])
    /\ applied' = applied + 1
    /\ UNCHANGED <<status, disk, log, txn, next_txn, overlay, call, stream_epoch, reader, promised>>

(* The commit record is durable, and the transaction is over.              *)
commit ==
    /\ call = "applying" /\ applied = Len(Ops(overlay))
    /\ log' = log \o Ops(overlay)
    /\ promised' = Promise(promised, overlay)
    /\ overlay' = EmptyOverlay
    /\ txn' = 0
    /\ applied' = 0
    /\ call' = IF Ops(overlay) = <<>> THEN "none" ELSE "broadcast"
    /\ UNCHANGED <<status, mem, disk, next_txn, stream_epoch, reader>>

(* Mutant of broadcast: nobody is signalled. *)
broadcastNobody ==
    /\ call = "broadcast"
    /\ stream_epoch' = stream_epoch + 1
    /\ call' = "none"
    /\ UNCHANGED <<status, mem, disk, log, txn, next_txn, overlay, applied, reader, promised>>

broadcast ==
    /\ call = "broadcast"
    /\ stream_epoch' = stream_epoch + 1
    /\ reader' = [reader EXCEPT !.woken = @ \/ reader.at = "wait"]
    /\ call' = "none"
    /\ UNCHANGED <<status, mem, disk, log, txn, next_txn, overlay, applied, promised>>

abortTransaction ==
    /\ status = "open" /\ txn # 0 /\ call \in {"none", "failed"}
    /\ overlay' = EmptyOverlay
    /\ txn' = 0
    /\ call' = "none"
    /\ UNCHANGED <<status, mem, disk, log, next_txn, applied, stream_epoch, reader, promised>>

-------------------------------------------------------------------------------
(* readStream                                                              *)

ReaderStep ==
    /\ status = "open"
    /\ UNCHANGED <<status, mem, disk, log, txn, next_txn, overlay, call, applied, stream_epoch, promised>>

(* The call returns these records, and the application handles them.       *)
Return(batch) ==
    reader' = IdleReader(Max({reader.cursor} \cup {e[2] : e \in batch}),
                         reader.handled \cup {<<e[2], e[3]>> : e \in batch})

Batch(limit) == read(mem, "jobs", reader.cursor, limit)

(* The first read of a call; with a timeout of zero it returns whatever    *)
(* there is.                                                               *)
readStream(limit) ==
    /\ ReaderStep
    /\ reader.at = "idle"
    /\ IF Batch(limit) # {} THEN Return(Batch(limit))
       ELSE reader' = [reader EXCEPT !.at = "observe"]

observe ==
    /\ ReaderStep
    /\ reader.at = "observe"
    /\ reader' = [reader EXCEPT !.at = "loop", !.epoch = stream_epoch]

(* Past the timeout, the last read; otherwise the check of the epoch and   *)
(* the wait, both under stream_mutex.                                      *)
loop(limit) ==
    /\ ReaderStep
    /\ reader.at = "loop"
    /\ IF reader.elapsed THEN Return(Batch(limit))
       ELSE IF reader.epoch = stream_epoch
            THEN reader' = [reader EXCEPT !.at = "wait", !.woken = FALSE]
            ELSE reader' = [reader EXCEPT !.at = "read", !.epoch = stream_epoch]

(* Mutant of wake: only a signal ends the wait. *)
wakeBySignal ==
    /\ ReaderStep
    /\ reader.at = "wait" /\ reader.woken
    /\ reader' = [reader EXCEPT !.at = "read", !.epoch = stream_epoch]

(* timedWait ends by a signal or by the timeout. *)
wake ==
    /\ ReaderStep
    /\ reader.at = "wait" /\ (reader.woken \/ reader.elapsed)
    /\ reader' = [reader EXCEPT !.at = "read", !.epoch = stream_epoch]

readAgain(limit) ==
    /\ ReaderStep
    /\ reader.at = "read"
    /\ IF Batch(limit) # {} THEN Return(Batch(limit))
       ELSE reader' = [reader EXCEPT !.at = "loop", !.again = TRUE]

timeout ==
    /\ ReaderStep
    /\ reader.at \in {"loop", "wait"} /\ ~reader.elapsed
    /\ reader' = [reader EXCEPT !.elapsed = TRUE]

Read == observe \/ wake \/ \E limit \in 1..2 : loop(limit) \/ readAgain(limit)

-------------------------------------------------------------------------------
(* Files, crashes and recovery                                             *)

Init ==
    /\ status = "open"
    /\ mem = EmptyTrees /\ disk = EmptyTrees
    /\ log = <<>>
    /\ txn = 0 /\ next_txn = 1
    /\ overlay = EmptyOverlay
    /\ call = "none" /\ applied = 0
    /\ stream_epoch = 0
    /\ reader = IdleReader(0, {})
    /\ promised = [records |-> [s \in Streams |-> <<>>], trimmed |-> 0,
                   offset |-> Absent]

(* Has a commit changed the stores that is not committed yet?              *)
Applying == call = "applying" /\ applied > 0

(* The events, the last numbers and the offsets are trees of their own,    *)
(* which the pool may write to the file one without the other, also during *)
(* recovery.  They do not change while a transaction stages, so it is      *)
(* enough that the pool writes before it begins.                           *)
evict(tree) ==
    /\ status # "closed" /\ mem[tree] # disk[tree]
    /\ (txn = 0 /\ call = "none") \/ (Applying /\ "dirty" \in Faults)
    /\ disk' = [disk EXCEPT ![tree] = mem[tree]]
    /\ UNCHANGED <<status, mem, log, txn, next_txn, overlay, call, applied, stream_epoch, reader, promised>>

(* A checkpoint between transactions: everything is written, and recovery  *)
(* starts after it.                                                        *)
checkpoint ==
    /\ status = "open" /\ txn = 0 /\ call = "none"
    /\ disk' = mem
    /\ log' = <<>>
    /\ UNCHANGED <<status, mem, txn, next_txn, overlay, call, applied, stream_epoch, reader, promised>>

kill ==
    /\ status # "closed"
    /\ status' = "closed"
    /\ mem' = EmptyTrees
    /\ txn' = 0
    /\ overlay' = EmptyOverlay
    /\ call' = "none" /\ applied' = 0
    /\ stream_epoch' = 0
    /\ reader' = IdleReader(0, reader.handled)
    /\ UNCHANGED <<disk, log, next_txn, promised>>

open ==
    /\ status = "closed"
    /\ status' = "recovering"
    /\ mem' = disk
    /\ UNCHANGED <<disk, log, txn, next_txn, overlay, call, applied, stream_epoch, reader, promised>>

(* redoPass, one record at a time.                                         *)
redoPass ==
    /\ status = "recovering" /\ applied < Len(log)
    /\ mem' = Redo(mem, log[applied + 1])
    /\ applied' = applied + 1
    /\ UNCHANGED <<status, disk, log, txn, next_txn, overlay, call, stream_epoch, reader, promised>>

(* The application resumes at its offset.                                  *)
resume ==
    /\ status = "recovering" /\ applied = Len(log)
    /\ status' = "open"
    /\ applied' = 0
    /\ reader' = IdleReader(IF mem.offset = Absent THEN 0 ELSE mem.offset, reader.handled)
    /\ UNCHANGED <<mem, disk, log, txn, next_txn, overlay, call, stream_epoch, promised>>

Commit ==
    applyTxnOverlay \/ commit \/ broadcast

Next ==
    \/ beginTransaction \/ publishStream \/ setStreamOffset \/ writeGraph
    \/ \E through \in Seqs : trimStream(through)
    \/ logTxnOverlayForCommit \/ LogFails \/ abortTransaction
    \/ Commit
    \/ (\E limit \in 1..2 : readStream(limit)) \/ Read \/ timeout
    \/ \E tree \in {"events", "meta", "offset"} : evict(tree)
    \/ checkpoint \/ kill \/ open \/ redoPass \/ resume

(* A call that has been made runs to its end, and time passes.             *)
Spec == Init /\ [][Next]_vars /\ WF_vars(Commit) /\ WF_vars(Read) /\ WF_vars(timeout)

-------------------------------------------------------------------------------
(* The properties                                                          *)

TypeOK ==
    /\ status \in {"open", "recovering", "closed"}
    /\ \A t \in {mem, disk} :
         /\ t.events \subseteq Streams \X Seqs \X Txns
         /\ t.meta \in [Streams -> 0..MaxSeq]
         /\ t.offset \in Seqs \cup {Absent}
    /\ txn \in {0} \cup Txns /\ next_txn \in 1..(MaxTxn + 1)
    /\ call \in {"none", "failed", "applying", "broadcast"}
    /\ applied \in 0..Len(IF status = "recovering" THEN log ELSE Ops(overlay))
    /\ stream_epoch \in 0..MaxTxn
    /\ reader.at \in {"idle", "observe", "loop", "wait", "read"}
    /\ reader.cursor \in 0..MaxSeq
    /\ reader.handled \subseteq Seqs \X Txns

(* Between the changes of a commit, each stream holds what was committed   *)
(* to it, numbered from 1 without a gap, less what was trimmed: no message *)
(* and no change of the graph is lost, repeated or renumbered by failed    *)
(* commits, rollbacks, kills and recovery, and no number is used twice     *)
(* (docs/14_durable_streams.md, Stream Model).                             *)
StreamsAsCommitted ==
    status = "open" /\ ~Applying =>
        /\ mem.offset = promised.offset
        /\ \A s \in Streams :
             LET all == promised.records[s]
                 kept == IF s = "jobs" THEN (promised.trimmed + 1)..Len(all) ELSE DOMAIN all
             IN  /\ mem.meta[s] = Len(all)
                 /\ {e \in mem.events : e[1] = s} = {<<s, i, all[i]>> : i \in kept}

(* A consumer that acknowledges what it has read gets every message before *)
(* the committed offset, across crashes and however its reads interleave   *)
(* with commits, unless the message was trimmed.                           *)
NothingSkipped ==
    promised.offset # Absent =>
        \A i \in (promised.trimmed + 1)..promised.offset :
            <<i, promised.records["jobs"][i]>> \in reader.handled

Available == Batch(1) # {}

(* A reader that has gone round the loop is not left asleep beside a       *)
(* message: it has been signalled or the commit is about to.               *)
LoopingReaderIsWoken ==
    reader.at = "wait" /\ reader.again /\ Available /\ ~reader.woken =>
        Applying \/ call = "broadcast"

(* The same of the first wait of a call, where the epoch is noted after    *)
(* the read (docs/14_durable_streams.md: same-process read wakeups).       *)
NoLostWakeup ==
    reader.at = "wait" /\ Available /\ ~reader.woken => Applying \/ call = "broadcast"

(* A message that was handed to the application is a committed one, and    *)
(* stays where it is in its stream: a transaction becomes visible as a     *)
(* whole, when it commits (docs/14_durable_streams.md).                    *)
DeliveredWasCommitted ==
    status = "open" /\ ~Applying =>
        \A h \in reader.handled :
            /\ h[1] \in DOMAIN promised.records["jobs"]
            /\ promised.records["jobs"][h[1]] = h[2]

(* Every read ends, by a message or by its timeout.                        *)
ReadReturns == (reader.at # "idle") ~> (reader.at = "idle")
===============================================================================
