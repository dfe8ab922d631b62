----------------------------- MODULE SegmentMemory -----------------------------
(***************************************************************************)
(* SegmentMemory (broker log/segment_memory.py): the LRU cache of mapped   *)
(* segment files, the reference counts that keep a mapping open while a    *)
(* handle uses it, the cleanup thread that closes evicted entries, and the *)
(* growth of a file that is full.                                          *)
(*                                                                         *)
(* A method is split where it lets go of __cache_lock: acquire takes a     *)
(* reference under the lock and maps the file after it.  Reading and       *)
(* writing through a mapping are single steps.  LogWriter and LogReader    *)
(* appear as the two ways a thread uses a handle; committed is the size in *)
(* the registry, which LogWriter advances after it released its handle.    *)
(***************************************************************************)
EXTENDS Integers, Sequences, FiniteSets

CONSTANTS
  Users,      \* threads of LogWriter and LogReader
  Evictors,   \* callers of try_evict and force_evict
  Segments,   \* SegmentMeta identities: [topic |-> characters, base |-> offset]
  Entries,    \* Entry objects; one that is garbage is used again
  NoEntry,
  Capacity,   \* segment_cache_size
  InitSize,   \* init_segment_size
  SizeInc,    \* segment_size_inc
  Lengths,    \* lengths of the messages written
  MaxSize,    \* bound: committed bytes of a segment
  MaxLeaks    \* bound: entries with a reference that a failing load left behind

ASSUME MemoryAssumption ==
  /\ NoEntry \notin Entries
  /\ Segments # {} /\ Segments \subseteq [topic : Seq(STRING), base : Nat]
  /\ IsFiniteSet(Users) /\ Users \cap Evictors = {}
  /\ Capacity \in Nat /\ InitSize \in Nat /\ SizeInc \in Nat /\ MaxSize \in Nat /\ MaxLeaks \in Nat
  /\ Lengths \subseteq Nat

VARIABLES
  cache,      \* __cache, least recently used first
  seg,        \* the segment each Entry was made for (its __filepath)
  refcount,   \* Entry._refcount
  loaded,     \* Entry.__mmap is not None
  cap,        \* Entry.__capacity: the length of its mapping
  file,       \* length of each segment's file, 0 if there is none
  committed,  \* size of each segment in the registry
  queue,      \* __cleanup_queue
  cleaning,   \* the entry the cleanup thread waits for
  pc,         \* where each thread is
  job,        \* what it does: its mode, the segment asked for and a size (for a
              \* reader the size in its SegmentMeta, for a writer its message's)
  handle,     \* the entry it got
  second      \* history: entries made while a writer still held an older one of the
              \* segment, pushed out of the cache under it

entryVars  == <<seg, refcount, loaded, cap>>
threadVars == <<pc, job, handle>>
vars == <<cache, entryVars, file, committed, queue, cleaning, threadVars, second>>

Threads == Users \cup Evictors

AnySegment == CHOOSE s \in Segments : TRUE

Job(mode, segment, n) == [mode |-> mode, seg |-> segment, size |-> n]
NoJob == Job("none", AnySegment, 0)

Init ==
  /\ cache = <<>> /\ queue = <<>> /\ cleaning = NoEntry
  /\ seg = [e \in Entries |-> AnySegment]
  /\ refcount = [e \in Entries |-> 0]
  /\ loaded = [e \in Entries |-> FALSE]
  /\ cap = [e \in Entries |-> 0]
  /\ file = [s \in Segments |-> 0]
  /\ committed = [s \in Segments |-> 0]
  /\ pc = [t \in Threads |-> "idle"]
  /\ job = [t \in Threads |-> NoJob]
  /\ handle = [t \in Threads |-> NoEntry]
  /\ second = {}

-----------------------------------------------------------------------------
\* SegmentMeta.get_id: topic + str(base_offset).  A digit of the offset is a
\* character as those of the topic are.
Digit(d) == <<"0", "1", "2", "3", "4", "5", "6", "7", "8", "9">>[d + 1]

Digits[n \in Nat] == IF n < 10 THEN <<Digit(n)>> ELSE Append(Digits[n \div 10], Digit(n % 10))

GetId(s) == s.topic \o Digits[s.base]

Max2(a, b) == IF a > b THEN a ELSE b

InSeq(e, q) == \E i \in 1..Len(q) : q[i] = e

\* OrderedDict.pop: the cache without an entry that is in it.
Without(q, e) ==
  LET at == CHOOSE i \in 1..Len(q) : q[i] = e
  IN  [i \in 1..(Len(q) - 1) |-> IF i < at THEN q[i] ELSE q[i + 1]]

\* The entry under the key of a segment.
CachedFor(s) == {e \in Entries : InSeq(e, cache) /\ GetId(seg[e]) = GetId(s)}

\* An Entry object nothing refers to.
Garbage(e) ==
  /\ ~InSeq(e, cache) /\ ~InSeq(e, queue) /\ cleaning # e
  /\ \A t \in Threads : handle[t] # e

\* A writer of the segment is between acquire and release.
HasWriter(s) ==
  \E t \in Users : job[t].mode = "write" /\ job[t].seg = s /\ handle[t] # NoEntry

\* __cleanup_locked: everything beyond the capacity, oldest first, used or not.
Excess(q) == Max2(0, Len(q) - Capacity)

\* Mutant: an entry that has to go is dropped, not queued for closing.
MutEvicted(q) == <<>>

Evicted(q) == SubSeq(q, 1, Excess(q))
Kept(q)    == SubSeq(q, Excess(q) + 1, Len(q))

\* The critical section of acquire, for entry e with the given new cache order.
TakeReference(t, m, s, n, e, order) ==
  /\ pc[t] = "idle"
  /\ cache' = Kept(order)
  /\ queue' = queue \o Evicted(order)
  /\ pc' = [pc EXCEPT ![t] = "load"]
  /\ job' = [job EXCEPT ![t] = Job(m, s, n)]
  /\ handle' = [handle EXCEPT ![t] = e]
  /\ UNCHANGED <<cap, loaded, file, committed, cleaning>>

AcquireCached(t, m, s, n) ==
  \E e \in CachedFor(s) :
    /\ refcount' = [refcount EXCEPT ![e] = @ + 1]
    /\ TakeReference(t, m, s, n, e, Append(Without(cache, e), e))
    /\ UNCHANGED <<seg, second>>

AcquireNew(t, m, s, n) ==
  /\ CachedFor(s) = {}
  /\ \E e \in Entries :
       /\ Garbage(e)
       /\ refcount' = [refcount EXCEPT ![e] = 1]
       /\ seg' = [seg EXCEPT ![e] = s]
       /\ second' = IF HasWriter(s) THEN second \cup {e} ELSE second
       /\ TakeReference(t, m, s, n, e, Append(cache, e))

\* A reader asks for the segment with the size its SegmentMeta has.
AcquireToRead(t, s) ==
  AcquireCached(t, "read", s, committed[s]) \/ AcquireNew(t, "read", s, committed[s])

\* A writer asks for it holding the writer lock of the topic, so one at a time.
AcquireToWrite(t, s, n) ==
  /\ \A u \in Users : ~(job[u].mode = "write" /\ job[u].seg = s)
  /\ committed[s] + n <= MaxSize
  /\ AcquireCached(t, "write", s, n) \/ AcquireNew(t, "write", s, n)

\* Mutant: takes the file for a new one.
MutMapLength(e) == InitSize

\* The length load maps: the file's, or InitSize for a file it creates.
MapLength(e) == IF file[seg[e]] = 0 THEN InitSize ELSE file[seg[e]]

\* Entry.load, under the entry's lock: creates an empty file at InitSize, maps
\* the file at its present length; a second load finds the mapping.
Load(t) ==
  LET e == handle[t]
      length == MapLength(e)
  IN
  /\ pc[t] = "load"
  /\ pc' = [pc EXCEPT ![t] = "using"]
  /\ loaded' = [loaded EXCEPT ![e] = TRUE]
  /\ IF loaded[e] THEN UNCHANGED <<cap, file>>
                  ELSE /\ cap' = [cap EXCEPT ![e] = length]
                       /\ file' = [file EXCEPT ![seg[e]] = length]
  /\ UNCHANGED <<cache, seg, refcount, committed, queue, cleaning, job, handle, second>>

\* The entries with a reference no thread holds.
Leaked == {e \in Entries : refcount[e] > Cardinality({t \in Users : handle[t] = e})}

\* open, truncate, mmap or posix_fadvise raised in load.  The file may have been
\* created, the mapping may have been made; acquire counted the reference before
\* it called load and returns no handle, so nobody gives the reference back.
LoadRaises(t) ==
  LET e == handle[t]
  IN
  /\ pc[t] = "load" /\ ~loaded[e]
  /\ e \notin Leaked /\ Cardinality(Leaked) < MaxLeaks
  /\ \/ UNCHANGED <<cap, file, loaded>>
     \/ file' = [file EXCEPT ![seg[e]] = MapLength(e)] /\ UNCHANGED <<cap, loaded>>
     \/ /\ file' = [file EXCEPT ![seg[e]] = MapLength(e)]
        /\ cap' = [cap EXCEPT ![e] = MapLength(e)]
        /\ loaded' = [loaded EXCEPT ![e] = TRUE]
  /\ pc' = [pc EXCEPT ![t] = "idle"]
  /\ job' = [job EXCEPT ![t] = NoJob]
  /\ handle' = [handle EXCEPT ![t] = NoEntry]
  /\ UNCHANGED <<cache, seg, refcount, committed, queue, cleaning, second>>

\* Mutant: one increment, however long the message.
MutGrown(e, required) == SizeInc + cap[e]

\* The new length of the file.
Grown(e, required) == Max2(required, SizeInc + cap[e])

\* _increase_capacity_locked: the file is set to the new length, whatever its
\* length was, and mapped anew.
Grow(e, required) ==
  /\ cap' = [cap EXCEPT ![e] = Grown(e, required)]
  /\ file' = [file EXCEPT ![seg[e]] = Grown(e, required)]

\* Entry.write at the end of the segment, with _increase_capacity_locked when
\* the mapping is too short.
Write(t) ==
  LET e == handle[t]
      required == committed[job[t].seg] + job[t].size
  IN
  /\ pc[t] = "using" /\ job[t].mode = "write"
  /\ pc' = [pc EXCEPT ![t] = "written"]
  /\ IF required > cap[e] THEN Grow(e, required) ELSE UNCHANGED <<cap, file>>
  /\ UNCHANGED <<cache, seg, refcount, loaded, committed, queue, cleaning, job, handle, second>>

\* Mutant: the reference is not given back.
MutRelease(t) ==
  /\ \/ pc[t] = "using" /\ job[t].mode = "read"
     \/ pc[t] = "written"
  /\ handle' = [handle EXCEPT ![t] = NoEntry]
  /\ pc' = [pc EXCEPT ![t] = IF job[t].mode = "write" THEN "advance" ELSE "idle"]
  /\ job' = [job EXCEPT ![t] = IF @.mode = "write" THEN @ ELSE NoJob]
  /\ UNCHANGED <<cache, entryVars, file, committed, queue, cleaning, second>>

\* _release_entry: a reader when it is done, a writer before advance_offset.
Release(t) ==
  /\ \/ pc[t] = "using" /\ job[t].mode = "read"
     \/ pc[t] = "written"
  /\ refcount' = [refcount EXCEPT ![handle[t]] = @ - 1]
  /\ handle' = [handle EXCEPT ![t] = NoEntry]
  /\ pc' = [pc EXCEPT ![t] = IF job[t].mode = "write" THEN "advance" ELSE "idle"]
  /\ job' = [job EXCEPT ![t] = IF @.mode = "write" THEN @ ELSE NoJob]
  /\ UNCHANGED <<cache, seg, loaded, cap, file, committed, queue, cleaning, second>>

\* LogWriter's advance_offset: what was written becomes readable.
Advance(t) ==
  /\ pc[t] = "advance"
  /\ committed' = [committed EXCEPT ![job[t].seg] = @ + job[t].size]
  /\ pc' = [pc EXCEPT ![t] = "idle"]
  /\ job' = [job EXCEPT ![t] = NoJob]
  /\ UNCHANGED <<cache, entryVars, file, queue, cleaning, handle, second>>

-----------------------------------------------------------------------------
\* try_evict and force_evict pop the entry under __cache_lock and close it
\* later; try_evict gives up if the entry is referenced.
EvictPop(t, m, s) ==
  \E e \in CachedFor(s) :
    /\ pc[t] = "idle"
    /\ m = "try" => refcount[e] = 0
    /\ cache' = Without(cache, e)
    /\ pc' = [pc EXCEPT ![t] = "evict"]
    /\ job' = [job EXCEPT ![t] = Job(m, s, 0)]
    /\ handle' = [handle EXCEPT ![t] = e]
    /\ UNCHANGED <<entryVars, file, committed, queue, cleaning, second>>

\* Entry.release; the object is garbage from here on.
Unmap(e) ==
  /\ loaded' = [loaded EXCEPT ![e] = FALSE]
  /\ cap' = [cap EXCEPT ![e] = 0]
  /\ seg' = [seg EXCEPT ![e] = AnySegment]
  /\ second' = second \ {e}
  /\ UNCHANGED <<cache, refcount, file, committed>>

\* force_evict waits until no handle is left.
EvictClose(t) ==
  /\ pc[t] = "evict"
  /\ job[t].mode = "force" => refcount[handle[t]] = 0
  /\ Unmap(handle[t])
  /\ pc' = [pc EXCEPT ![t] = "idle"]
  /\ job' = [job EXCEPT ![t] = NoJob]
  /\ handle' = [handle EXCEPT ![t] = NoEntry]
  /\ UNCHANGED <<queue, cleaning>>

\* __cleanup_thread: one entry at a time, waiting for its references to go.
CleanerTake ==
  /\ cleaning = NoEntry
  /\ queue # <<>>
  /\ cleaning' = Head(queue)
  /\ queue' = Tail(queue)
  /\ UNCHANGED <<cache, entryVars, file, committed, threadVars, second>>

\* Mutant: closes without waiting.
MutCleanerClose ==
  /\ cleaning # NoEntry
  /\ Unmap(cleaning)
  /\ cleaning' = NoEntry
  /\ UNCHANGED <<queue, threadVars>>

CleanerClose ==
  /\ cleaning # NoEntry
  /\ refcount[cleaning] = 0
  /\ Unmap(cleaning)
  /\ cleaning' = NoEntry
  /\ UNCHANGED <<queue, threadVars>>

UserStep(t) == Load(t) \/ LoadRaises(t) \/ Write(t) \/ Release(t) \/ Advance(t)

Next ==
  \/ \E t \in Users :
       \/ UserStep(t)
       \/ \E s \in Segments :
            \/ AcquireToRead(t, s)
            \/ \E n \in Lengths : AcquireToWrite(t, s, n)
  \/ \E t \in Evictors :
       \/ EvictClose(t)
       \/ \E m \in {"try", "force"}, s \in Segments : EvictPop(t, m, s)
  \/ CleanerTake \/ CleanerClose

Spec == Init /\ [][Next]_vars

\* A thread that holds a handle goes on, and so does the daemon cleanup thread.
FairSpec ==
  /\ Spec
  /\ \A t \in Users : WF_vars(UserStep(t))
  /\ \A t \in Evictors : WF_vars(EvictClose(t))
  /\ WF_vars(CleanerTake) /\ WF_vars(CleanerClose)

-----------------------------------------------------------------------------
Jobs == [mode : {"none", "read", "write", "try", "force"}, seg : Segments, size : Nat]

TypeOK ==
  /\ cache \in Seq(Entries) /\ queue \in Seq(Entries)
  /\ cleaning \in Entries \cup {NoEntry}
  /\ seg \in [Entries -> Segments] /\ refcount \in [Entries -> Nat]
  /\ loaded \in [Entries -> BOOLEAN] /\ cap \in [Entries -> Nat]
  /\ file \in [Segments -> Nat] /\ committed \in [Segments -> Nat]
  /\ pc \in [Threads -> {"idle", "load", "using", "written", "advance", "evict"}]
  /\ job \in [Threads -> Jobs]
  /\ handle \in [Threads -> Entries \cup {NoEntry}]
  /\ second \subseteq Entries

\* "Gives guranteed that file will be loaded when it's in use": a thread between
\* acquire and release never finds its mapping closed, whichever of the cache
\* limit, try_evict and force_evict removed the entry meanwhile.
NoUseAfterRelease ==
  \A t \in Users : pc[t] \in {"using", "written"} => loaded[handle[t]]

\* Growth sets the file to a length computed from one entry's own capacity, also
\* when a second entry maps the file at another length: the file keeps the bytes
\* already committed.
FileCoversCommitted ==
  \A s \in Segments : committed[s] > 0 => file[s] >= committed[s]

\* A reader's mapping is as long as the segment it was told of, so that LogReader
\* finds every committed message in it (what LogStore!ReadsExact asks of a mapping),
\* however entries come, go and grow.  The exception is an entry made while a writer
\* held the one before it: the writer grows the file and its own mapping, and the
\* new mapping may be short of what is committed then.
MapsCommitted ==
  \A t \in Users :
    pc[t] = "using" /\ job[t].mode = "read" /\ handle[t] \notin second
      => cap[handle[t]] >= job[t].size

\* A mapping outside the cache is one someone will still close: none leaks.
NoLeak ==
  \A e \in Entries :
    loaded[e] => \/ InSeq(e, cache) \/ InSeq(e, queue) \/ cleaning = e
                 \/ \E t \in Evictors : handle[t] = e

\* Every evicted mapping is eventually closed, however long handles are held.
EvictedIsClosed ==
  \A e \in Entries : InSeq(e, queue) ~> ~loaded[e]
=============================================================================
