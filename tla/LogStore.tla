------------------------------- MODULE LogStore -------------------------------
(***************************************************************************)
(* LogManager for one topic: LogWriter threads that append batches,        *)
(* LogReader threads that read them, create_topic on the event-loop        *)
(* thread, and a process that may be killed and started again.             *)
(*                                                                         *)
(* A registry method is one step (it holds the topic's RLock); the writer  *)
(* lock is held across several of them, so a write is interleaved with     *)
(* reads and with create_topic at every call it makes.                     *)
(*                                                                         *)
(* The segment files are the set disk of frames <<base of the file,        *)
(* position, payload>>; a frame is the 4-byte length and the payload.      *)
(* A reader sees a file through the mapping of the handle it acquired,     *)
(* which may be shorter than the file and shorter than the committed       *)
(* segment: when that happens is the subject of the module SegmentMemory   *)
(* (MapsCommitted), and here a mapping has any length.  A writer's handle  *)
(* grows the mapping it writes through.                                    *)
(***************************************************************************)
EXTENDS SegmentRegistry, FiniteSets

CONSTANTS
  Writers,         \* threads of the writer pool
  Readers,         \* callers of read and read_bytes
  NoWriter,        \* the writer lock is free
  Payloads,        \* message payloads
  PayloadLen,      \* their lengths in bytes
  ReadSizes,       \* the size argument of a read
  MapLengths,      \* the lengths a reader's mapping may have
  MaxSegmentSize,  \* config.max_segment_size
  RolloverAge,     \* config.rollover_ms
  MaxBatch,        \* bound: messages in one append_batch
  MaxAppends,      \* bound: messages submitted in all
  MaxTime,         \* bound: clock
  MaxFaults,       \* bound: failing file operations
  MaxRestarts      \* bound: process restarts

ASSUME LogStoreAssumption ==
  /\ NoWriter \notin Writers
  /\ PayloadLen \in [Payloads -> Nat]
  /\ ReadSizes \subseteq Nat /\ MapLengths \subseteq Nat
  /\ MaxSegmentSize \in Nat /\ RolloverAge \in Nat
  /\ MaxBatch \in Nat /\ MaxAppends \in Nat
  /\ MaxTime \in Nat /\ MaxFaults \in Nat /\ MaxRestarts \in Nat

VARIABLES
  disk,      \* the frames in the segment files
  lock,      \* the writer lock of the topic
  wpc,       \* where each writer is in write / _rollover
  wbatch,    \* the messages of write_batch still to be written
  wmeta,     \* LogWriter.write's local meta
  wdone,     \* write_batch's offsets, with the message written at each
  cpc,       \* where create_topic is
  rpc, rreq, rmeta, rnext, rdata, rlatest,  \* the readers' locals
  rcap,      \* the length of the mapping each reader scanned
  now,       \* time.time()
  acked,     \* history: every <<offset, message>> a batch returned
  submitted, faults, restarts               \* counters for the bounds

writerVars == <<lock, wpc, wbatch, wmeta, wdone, acked, submitted>>
readerVars == <<rpc, rreq, rmeta, rnext, rdata, rlatest, rcap>>
envVars    == <<now, faults, restarts>>
vars == <<registry, disk, writerVars, cpc, readerVars, envVars>>

-----------------------------------------------------------------------------
PrefixSize == 4

FrameLen(payload) == PrefixSize + PayloadLen[payload]

\* handle.write(position, msg): the bytes of a frame replace whatever older
\* frame they overlap.  A file that a previous process left is not empty.
Overlaps(frame, base, pos, len) ==
  /\ frame.base = base
  /\ frame.pos < pos + len
  /\ pos < frame.pos + FrameLen(frame.payload)

WriteFrame(files, base, pos, payload) ==
  {f \in files : ~Overlaps(f, base, pos, FrameLen(payload))}
    \cup {[base |-> base, pos |-> pos, payload |-> payload]}

\* The frames whose length a mapping of cap bytes shows.  A slice past its end is
\* empty and one cut by it has the leading bytes only, which are 0 for a message
\* shorter than 256 bytes: either reads as the length 0.
Shown(files, cap) == {f \in files : f.pos + PrefixSize <= cap}

\* The length read at a position: a frame's, or 0 where the file still has the
\* zeros it was created with.
FrameLenAt(files, base, pos) ==
  IF \E f \in files : f.base = base /\ f.pos = pos
  THEN FrameLen((CHOOSE f \in files : f.base = base /\ f.pos = pos).payload)
  ELSE PrefixSize

\* Mutant: stops only after the limit is passed.
MutCalcReadSize(files, base, pos, limit) ==
  LET Scan[r \in Nat] ==
        IF r >= pos + limit THEN r - pos ELSE Scan[r + FrameLenAt(files, base, r)]
  IN  Scan[pos]

\* roffset and batch_size of _calc_read_size, and the body of its loop.
ScanState == [at : Nat, batch : Nat]

ScanOne(files, base, limit, s) ==
  LET len == FrameLenAt(files, base, s.at)
  IN  [at |-> s.at + len, batch |-> IF s.batch + len <= limit THEN s.batch + len ELSE s.batch]

\* _calc_read_size: whole messages from pos that fit in limit, at least one.
CalcReadSize(files, base, pos, limit) ==
  LET Scan[s \in ScanState] ==
        IF s.at >= pos + limit THEN s.batch ELSE Scan[ScanOne(files, base, limit, s)]
      size == Scan[[at |-> pos, batch |-> 0]]
  IN  IF size = 0 THEN FrameLenAt(files, base, pos) ELSE size

\* The messages in the bytes [pos, pos + len) of a file, with their offsets.
Slice(files, base, pos, len) ==
  {<<f.base + f.pos, f.payload>> :
     f \in {g \in files : /\ g.base = base
                          /\ pos <= g.pos
                          /\ g.pos + FrameLen(g.payload) <= pos + len}}

-----------------------------------------------------------------------------
\* should_rollover.  created_at's default, time(), is evaluated once, when the
\* class is defined: every segment of the process carries the same time, 0.
ImportTime == 0

\* Mutant: asks whether the segment is full, not whether the message fits.
MutShouldRollover(meta, payload) == meta.size >= MaxSegmentSize

ShouldRollover(meta, payload) ==
  \/ now - ImportTime > RolloverAge
  \/ meta.size + FrameLen(payload) > MaxSegmentSize

\* Mutant: the offset after the message.
MutWritten(meta, payload) == <<EndOffset(meta) + FrameLen(payload), payload>>

\* What write returns for a message: write_offset, read before advance_offset.
Written(meta, payload) == <<EndOffset(meta), payload>>

Min2(a, b) == IF a < b THEN a ELSE b

NoMeta == NewSegment(0)

NoRequest == [offset |-> 0, size |-> 0, kind |-> "bytes"]

Init ==
  /\ registry = NoTopic
  /\ disk = {}
  /\ lock = NoWriter
  /\ wpc = [w \in Writers |-> "idle"]
  /\ wbatch = [w \in Writers |-> <<>>]
  /\ wmeta = [w \in Writers |-> NoMeta]
  /\ wdone = [w \in Writers |-> <<>>]
  /\ cpc = "idle"
  /\ rpc = [r \in Readers |-> "idle"]
  /\ rreq = [r \in Readers |-> NoRequest]
  /\ rmeta = [r \in Readers |-> NoMeta]
  /\ rnext = [r \in Readers |-> 0]
  /\ rdata = [r \in Readers |-> {}]
  /\ rlatest = [r \in Readers |-> 0]
  /\ rcap = [r \in Readers |-> 0]
  /\ now = 0 /\ acked = {}
  /\ submitted = 0 /\ faults = 0 /\ restarts = 0

-----------------------------------------------------------------------------
\* Mutant: the lock is not released when write raises.
MutAbort(w) ==
  /\ wpc' = [wpc EXCEPT ![w] = "idle"]
  /\ wbatch' = [wbatch EXCEPT ![w] = <<>>]
  /\ wmeta' = [wmeta EXCEPT ![w] = NoMeta]
  /\ wdone' = [wdone EXCEPT ![w] = <<>>]
  /\ UNCHANGED <<lock, acked, submitted>>

\* LogWriter.write raised: the lock is released, write_batch is abandoned and
\* the offsets of the messages it did write are never returned.
Abort(w) ==
  /\ lock' = NoWriter
  /\ wpc' = [wpc EXCEPT ![w] = "idle"]
  /\ wbatch' = [wbatch EXCEPT ![w] = <<>>]
  /\ wmeta' = [wmeta EXCEPT ![w] = NoMeta]
  /\ wdone' = [wdone EXCEPT ![w] = <<>>]
  /\ UNCHANGED <<acked, submitted>>

\* append_batch / write_batch is called with a batch.
Submit(w, batch) ==
  /\ wpc[w] = "idle"
  /\ submitted + Len(batch) <= MaxAppends
  /\ wpc' = [wpc EXCEPT ![w] = "lock"]
  /\ wbatch' = [wbatch EXCEPT ![w] = batch]
  /\ submitted' = submitted + Len(batch)
  /\ UNCHANGED <<registry, disk, lock, wmeta, wdone, acked, cpc, readerVars, envVars>>

\* Mutant: every call makes a lock of its own.
MutLock(w) ==
  /\ wpc[w] = "lock"
  /\ lock' = w
  /\ wpc' = [wpc EXCEPT ![w] = "get"]
  /\ UNCHANGED <<registry, disk, wbatch, wmeta, wdone, acked, submitted, cpc, readerVars, envVars>>

\* The lock is taken anew for each message of the batch.
Lock(w) ==
  /\ wpc[w] = "lock"
  /\ lock = NoWriter
  /\ lock' = w
  /\ wpc' = [wpc EXCEPT ![w] = "get"]
  /\ UNCHANGED <<registry, disk, wbatch, wmeta, wdone, acked, submitted, cpc, readerVars, envVars>>

\* get_segment, and the rollover decision on the copy it returned.
GetMeta(w) ==
  /\ wpc[w] = "get"
  /\ CanGetLast(registry)
  /\ wmeta' = [wmeta EXCEPT ![w] = LastSegment(registry)]
  /\ wpc' = [wpc EXCEPT ![w] =
       IF ShouldRollover(LastSegment(registry), Head(wbatch[w])) /\ LastSegment(registry).size # 0
       THEN "rollget" ELSE "write"]
  /\ UNCHANGED <<registry, disk, lock, wbatch, wdone, acked, submitted, cpc, readerVars, envVars>>

\* get_segment raised TopicDoesntExistsError.
TopicMissing(w) ==
  /\ wpc[w] = "get"
  /\ registry = NoTopic
  /\ wpc' = [wpc EXCEPT ![w] = "init"]
  /\ UNCHANGED <<registry, disk, lock, wbatch, wmeta, wdone, acked, submitted, cpc, readerVars, envVars>>

\* create_segment(topic, 0) in the except branch; an empty segment never rolls
\* over.
InitTopic(w) ==
  /\ wpc[w] = "init"
  /\ CanCreate(registry, 0)
  /\ registry' = CreateSegment(registry, 0)
  /\ wmeta' = [wmeta EXCEPT ![w] = NewSegment(0)]
  /\ wpc' = [wpc EXCEPT ![w] = "write"]
  /\ UNCHANGED <<disk, lock, wbatch, wdone, acked, submitted, cpc, readerVars, envVars>>

\* create_topic won the race: create_segment raises ValueError.
InitTopicRaises(w) ==
  /\ wpc[w] = "init"
  /\ ~CanCreate(registry, 0)
  /\ Abort(w)
  /\ UNCHANGED <<registry, disk, cpc, readerVars, envVars>>

\* _rollover: get_segment, progress_state(SEALED), create_segment at the end of
\* the copy.  Three calls, three critical sections of the registry, each of which
\* would raise if the registry had changed in between (see RolloverSucceeds).
RollGet(w) ==
  /\ wpc[w] = "rollget"
  /\ CanGetLast(registry)
  /\ wmeta' = [wmeta EXCEPT ![w] = LastSegment(registry)]
  /\ wpc' = [wpc EXCEPT ![w] = "seal"]
  /\ UNCHANGED <<registry, disk, lock, wbatch, wdone, acked, submitted, cpc, readerVars, envVars>>

RollSeal(w) ==
  /\ wpc[w] = "seal"
  /\ CanProgress(registry, wmeta[w], SEALED)
  /\ registry' = ProgressState(registry, wmeta[w], SEALED)
  /\ wpc' = [wpc EXCEPT ![w] = "create"]
  /\ UNCHANGED <<disk, lock, wbatch, wmeta, wdone, acked, submitted, cpc, readerVars, envVars>>

RollCreate(w) ==
  /\ wpc[w] = "create"
  /\ CanCreate(registry, EndOffset(wmeta[w]))
  /\ registry' = CreateSegment(registry, EndOffset(wmeta[w]))
  /\ wmeta' = [wmeta EXCEPT ![w] = NewSegment(EndOffset(wmeta[w]))]
  /\ wpc' = [wpc EXCEPT ![w] = "write"]
  /\ UNCHANGED <<disk, lock, wbatch, wdone, acked, submitted, cpc, readerVars, envVars>>

\* Mutant: writes at get_end_offset, the offset in the topic.
MutWriteFile(w) ==
  /\ wpc[w] = "write"
  /\ disk' = WriteFrame(disk, wmeta[w].base, EndOffset(wmeta[w]), Head(wbatch[w]))
  /\ wpc' = [wpc EXCEPT ![w] = "advance"]
  /\ UNCHANGED <<registry, lock, wbatch, wmeta, wdone, acked, submitted, cpc, readerVars, envVars>>

\* handle.write at the file end of the copy.
WriteFile(w) ==
  /\ wpc[w] = "write"
  /\ disk' = WriteFrame(disk, wmeta[w].base, wmeta[w].size, Head(wbatch[w]))
  /\ wpc' = [wpc EXCEPT ![w] = "advance"]
  /\ UNCHANGED <<registry, lock, wbatch, wmeta, wdone, acked, submitted, cpc, readerVars, envVars>>

\* acquire or handle.write raised before a byte was copied: the OSError of open,
\* truncate or mmap.
WriteRaises(w) ==
  /\ wpc[w] = "write"
  /\ faults < MaxFaults
  /\ faults' = faults + 1
  /\ Abort(w)
  /\ UNCHANGED <<registry, disk, cpc, readerVars, now, restarts>>

\* advance_offset, return write_offset and release the lock; write_batch goes
\* on to its next message or returns its offsets.
Advance(w) ==
  LET entry == Written(wmeta[w], Head(wbatch[w]))
      last  == Len(wbatch[w]) = 1
  IN
  /\ wpc[w] = "advance"
  /\ registry' = AdvanceOffset(registry, wmeta[w], FrameLen(Head(wbatch[w])))
  /\ lock' = NoWriter
  /\ wpc' = [wpc EXCEPT ![w] = IF last THEN "idle" ELSE "lock"]
  /\ wbatch' = [wbatch EXCEPT ![w] = Tail(@)]
  /\ wmeta' = [wmeta EXCEPT ![w] = NoMeta]
  /\ wdone' = [wdone EXCEPT ![w] = IF last THEN <<>> ELSE Append(@, entry)]
  /\ acked' = IF last THEN acked \cup {entry} \cup {wdone[w][i] : i \in 1..Len(wdone[w])} ELSE acked
  /\ UNCHANGED <<disk, submitted, cpc, readerVars, envVars>>

-----------------------------------------------------------------------------
\* LogManager.create_topic: get_segment, then create_segment if it raised
\* TopicDoesntExistsError; a writer may create the topic in between.
CreateTopicCheck ==
  /\ cpc = "idle"
  /\ registry = NoTopic
  /\ cpc' = "create"
  /\ UNCHANGED <<registry, disk, writerVars, readerVars, envVars>>

CreateTopic ==
  /\ cpc = "create"
  /\ CanCreate(registry, 0)
  /\ registry' = CreateSegment(registry, 0)
  /\ cpc' = "idle"
  /\ UNCHANGED <<disk, writerVars, readerVars, envVars>>

CreateTopicRaises ==
  /\ cpc = "create"
  /\ ~CanCreate(registry, 0)
  /\ cpc' = "idle"
  /\ UNCHANGED <<registry, disk, writerVars, readerVars, envVars>>

-----------------------------------------------------------------------------
LogEnd == IF registry = NoTopic THEN 0 ELSE LatestOffset(registry)

\* The frames the registry makes readable: below the size of their segment.
CommittedFrames ==
  IF registry = NoTopic THEN {}
  ELSE {f \in disk : \E i \in 1..Len(registry) : registry[i].base = f.base /\ f.pos < registry[i].size}

Committed == {<<f.base + f.pos, f.payload>> : f \in CommittedFrames}

\* The offsets that are those of a message: the start, those acknowledged or
\* reached by reading, and the end.
KnownOffsets == {0, LogEnd} \cup {e[1] : e \in Committed}

\* read (kind "file") and read_bytes (kind "bytes") begin with get_segment; one
\* that raises changes nothing.
ReadGet(r, offset, size, kind) ==
  /\ rpc[r] = "idle"
  /\ CanGetSegment(registry, offset)
  /\ rreq' = [rreq EXCEPT ![r] = [offset |-> offset, size |-> size, kind |-> kind]]
  /\ rmeta' = [rmeta EXCEPT ![r] = GetSegment(registry, offset)]
  /\ rpc' = [rpc EXCEPT ![r] = "calc"]
  /\ UNCHANGED <<registry, disk, writerVars, cpc, rnext, rdata, rlatest, rcap, envVars>>

\* max_batch_size: the size asked for, within the committed size in the copy.
ReadLimit(req, meta) == Min2(req.size, EndOffset(meta) - req.offset)

\* A client may send any offset.  The lengths a read takes from the middle of a
\* message are whatever its payload holds; they decide what it returns, which
\* nothing here says, and no other state.
ReadInside(r, offset) ==
  /\ rpc[r] = "idle"
  /\ CanGetSegment(registry, offset)
  /\ rpc' = [rpc EXCEPT ![r] = "inside"]
  /\ UNCHANGED <<registry, disk, writerVars, cpc, rreq, rmeta, rnext, rdata, rlatest, rcap, envVars>>

\* acquire, whose handle maps cap bytes, and _calc_read_size through it.
ReadCalc(r) ==
  LET pos   == rreq[r].offset - rmeta[r].base
      limit == ReadLimit(rreq[r], rmeta[r])
  IN
  /\ rpc[r] = "calc"
  /\ \E cap \in MapLengths :
       /\ rcap' = [rcap EXCEPT ![r] = cap]
       /\ rnext' = [rnext EXCEPT ![r] =
            rreq[r].offset + CalcReadSize(Shown(disk, cap), rmeta[r].base, pos, limit)]
  /\ rpc' = [rpc EXCEPT ![r] = IF rreq[r].kind = "bytes" THEN "copy" ELSE "latest"]
  /\ UNCHANGED <<registry, disk, writerVars, cpc, rreq, rmeta, rdata, rlatest, envVars>>

\* handle.read_bytes: a slice of the mapping, which a writer that shares the handle
\* may have grown since the scan, ends where the mapping ends.
ReadCopy(r) ==
  LET pos == rreq[r].offset - rmeta[r].base
      len == rnext[r] - rreq[r].offset
  IN
  /\ rpc[r] = "copy" /\ rreq[r].kind = "bytes"
  /\ \E cap \in MapLengths :
       /\ cap >= rcap[r]
       /\ rdata' = [rdata EXCEPT ![r] = Slice(disk, rmeta[r].base, pos, Min2(len, cap - pos))]
  /\ rpc' = [rpc EXCEPT ![r] = "latest"]
  /\ UNCHANGED <<registry, disk, writerVars, cpc, rreq, rmeta, rnext, rlatest, rcap, envVars>>

\* For read, the sendfile of the FileSlice, which the event loop does after read
\* returned; it reads the file.
SendFile(r) ==
  /\ rpc[r] = "copy" /\ rreq[r].kind = "file"
  /\ rdata' = [rdata EXCEPT ![r] =
       Slice(disk, rmeta[r].base, rreq[r].offset - rmeta[r].base, rnext[r] - rreq[r].offset)]
  /\ rpc' = [rpc EXCEPT ![r] = "done"]
  /\ UNCHANGED <<registry, disk, writerVars, cpc, rreq, rmeta, rnext, rlatest, rcap, envVars>>

ReadLatest(r) ==
  /\ rpc[r] = "latest"
  /\ CanGetLast(registry)
  /\ rlatest' = [rlatest EXCEPT ![r] = LatestOffset(registry)]
  /\ rpc' = [rpc EXCEPT ![r] = IF rreq[r].kind = "bytes" THEN "done" ELSE "copy"]
  /\ UNCHANGED <<registry, disk, writerVars, cpc, rreq, rmeta, rnext, rdata, rcap, envVars>>

ReadReturn(r) ==
  /\ rpc[r] \in {"done", "inside"}
  /\ rpc' = [rpc EXCEPT ![r] = "idle"]
  /\ rreq' = [rreq EXCEPT ![r] = NoRequest]
  /\ rmeta' = [rmeta EXCEPT ![r] = NoMeta]
  /\ rnext' = [rnext EXCEPT ![r] = 0]
  /\ rdata' = [rdata EXCEPT ![r] = {}]
  /\ rlatest' = [rlatest EXCEPT ![r] = 0]
  /\ rcap' = [rcap EXCEPT ![r] = 0]
  /\ UNCHANGED <<registry, disk, writerVars, cpc, envVars>>

-----------------------------------------------------------------------------
Tick ==
  /\ now < MaxTime
  /\ now' = now + 1
  /\ UNCHANGED <<registry, disk, writerVars, cpc, readerVars, faults, restarts>>

\* The process is killed and started again: every thread, the registry and the
\* clock's origin (the class is imported anew) are gone, the files stay.
Restart ==
  /\ restarts < MaxRestarts
  /\ restarts' = restarts + 1
  /\ registry' = NoTopic
  /\ now' = 0
  /\ lock' = NoWriter
  /\ wpc' = [w \in Writers |-> "idle"]
  /\ wbatch' = [w \in Writers |-> <<>>]
  /\ wmeta' = [w \in Writers |-> NoMeta]
  /\ wdone' = [w \in Writers |-> <<>>]
  /\ cpc' = "idle"
  /\ rpc' = [r \in Readers |-> "idle"]
  /\ rreq' = [r \in Readers |-> NoRequest]
  /\ rmeta' = [r \in Readers |-> NoMeta]
  /\ rnext' = [r \in Readers |-> 0]
  /\ rdata' = [r \in Readers |-> {}]
  /\ rlatest' = [r \in Readers |-> 0]
  /\ rcap' = [r \in Readers |-> 0]
  /\ UNCHANGED <<disk, acked, submitted, faults>>

\* The steps of a writer thread once it has a batch.
WriterStep(w) ==
  \/ Lock(w) \/ GetMeta(w) \/ TopicMissing(w) \/ InitTopic(w) \/ InitTopicRaises(w)
  \/ RollGet(w) \/ RollSeal(w) \/ RollCreate(w)
  \/ WriteFile(w) \/ WriteRaises(w) \/ Advance(w)

ReaderStep(r) == ReadCalc(r) \/ ReadCopy(r) \/ ReadLatest(r) \/ SendFile(r) \/ ReadReturn(r)

\* The calls a client's request makes.
ReaderCall(r) ==
  \/ \E offset \in KnownOffsets, size \in ReadSizes, kind \in {"bytes", "file"} :
       ReadGet(r, offset, size, kind)
  \/ \E offset \in (0..LogEnd) \ KnownOffsets : ReadInside(r, offset)

Batches == UNION {[1..n -> Payloads] : n \in 1..MaxBatch}

Next ==
  \/ \E w \in Writers : WriterStep(w) \/ \E batch \in Batches : Submit(w, batch)
  \/ CreateTopicCheck \/ CreateTopic \/ CreateTopicRaises
  \/ \E r \in Readers : ReaderStep(r) \/ ReaderCall(r)
  \/ Tick
  \/ Restart

Spec == Init /\ [][Next]_vars

\* Threads of the pool are scheduled by the operating system: a writer that can
\* step eventually does.
FairSpec == Spec /\ \A w \in Writers : WF_vars(WriterStep(w))

-----------------------------------------------------------------------------
Frames == [base : Nat, pos : Nat, payload : Payloads]

WriterStates == {"idle", "lock", "get", "init", "rollget", "seal", "create", "write", "advance"}

\* rnext is the value of a recursive scan of the file; ReadsExact says what it is.
TypeOK ==
  /\ registry \in Seq(SegmentMeta) \cup {NoTopic}
  /\ disk \subseteq Frames
  /\ lock \in Writers \cup {NoWriter}
  /\ wpc \in [Writers -> WriterStates]
  /\ wbatch \in [Writers -> Seq(Payloads)]
  /\ wmeta \in [Writers -> SegmentMeta]
  /\ wdone \in [Writers -> Seq(Nat \X Payloads)]
  /\ cpc \in {"idle", "create"}
  /\ rpc \in [Readers -> {"idle", "inside", "calc", "copy", "latest", "done"}]
  /\ rmeta \in [Readers -> SegmentMeta]
  /\ rdata \in [Readers -> SUBSET (Nat \X Payloads)]
  /\ rlatest \in [Readers -> Nat] /\ rcap \in [Readers -> Nat]
  /\ now \in Nat /\ acked \subseteq Nat \X Payloads
  /\ submitted \in Nat /\ faults \in Nat /\ restarts \in Nat

\* Whatever writers, create_topic and restarts interleave, the registry is one
\* gap-free run of segments from offset 0: each starts where its predecessor
\* ends, all but the last are SEALED and hold data, and the last is ACTIVE
\* except between the two registry calls of _rollover.
SegmentChain ==
  registry # NoTopic =>
    /\ Len(registry) > 0
    /\ registry[1].base = 0
    /\ \A i \in 1..(Len(registry) - 1) :
         /\ registry[i + 1].base = EndOffset(registry[i])
         /\ registry[i].size > 0
         /\ registry[i].state = SEALED
    /\ LastSegment(registry).state = ACTIVE \/ \E w \in Writers : wpc[w] = "create"

\* _rollover never raises half way: the copy it seals is still the registry's and
\* the new segment is neither an overlap nor a duplicate.  A failure between the
\* two calls would leave the topic without an ACTIVE segment for good.
RolloverSucceeds ==
  \A w \in Writers :
    /\ wpc[w] = "seal" => CanProgress(registry, wmeta[w], SEALED)
    /\ wpc[w] = "create" => CanCreate(registry, EndOffset(wmeta[w]))

\* A segment's committed bytes are whole messages back to back: each byte below
\* its size is in exactly one frame and no committed frame runs past the size,
\* also when the file still holds frames of a previous process.
FramesTile ==
  registry # NoTopic =>
    \A i \in 1..Len(registry) :
      /\ \A p \in 0..(registry[i].size - 1) :
           \E f \in disk : Overlaps(f, registry[i].base, p, 1)
      /\ \A f, g \in disk :
           f.base = registry[i].base /\ Overlaps(g, f.base, f.pos, FrameLen(f.payload)) => f = g
      /\ \A f \in disk :
           f.base = registry[i].base /\ f.pos < registry[i].size
             => f.pos + FrameLen(f.payload) <= registry[i].size

\* The writer rolls over before a segment outgrows max_segment_size; only a
\* message larger than that may exceed it, alone in its segment.
SegmentBounded ==
  registry # NoTopic =>
    \A i \in 1..Len(registry) :
      \/ registry[i].size <= MaxSegmentSize
      \/ \E f \in disk : /\ f.base = registry[i].base
                          /\ f.pos = 0
                          /\ FrameLen(f.payload) = registry[i].size

\* Every offset append_batch returned reads back the message it was returned for,
\* whatever failed in between, until the process is restarted (no code loads the
\* segments of an earlier process, although docs/design.md says "Messages
\* survive restarts").
AckedReadable == restarts = 0 => acked \subseteq Committed

\* A finished read returned only committed messages and no offset past the log
\* end, whatever its mapping showed.  If the mapping it scanned covered the segment
\* as the reader knew it, the messages fill exactly [offset, next_offset), at least
\* one, within the requested size unless it is a single message, and it stopped
\* because the next message of the segment does not fit.
ReadsExact ==
  \A r \in Readers :
    rpc[r] = "done" =>
      /\ rdata[r] \subseteq Committed
      /\ rnext[r] <= rlatest[r]
      /\ rcap[r] >= rmeta[r].size =>
           /\ rdata[r] # {}
           /\ \A o \in rreq[r].offset..(rnext[r] - 1) :
                \E e \in rdata[r] : e[1] <= o /\ o < e[1] + FrameLen(e[2])
           /\ rnext[r] - rreq[r].offset <= rreq[r].size \/ Cardinality(rdata[r]) = 1
           /\ \A f \in disk :
                /\ f.base = rmeta[r].base /\ f.base + f.pos = rnext[r]
                /\ rnext[r] < EndOffset(rmeta[r])
                => rnext[r] + FrameLen(f.payload) - rreq[r].offset > rreq[r].size

\* The log LogManager shows its callers is an AbstractLog.
Abs == INSTANCE AbstractLog WITH log <- Committed, leo <- LogEnd, FrameSize <- FrameLen

Refinement == Abs!Spec

\* Every batch handed to the pool returns its offsets or raises: no writer is
\* left waiting for the lock or stuck in a rollover.
BatchEnds == \A w \in Writers : wpc[w] # "idle" ~> wpc[w] = "idle"
=============================================================================
