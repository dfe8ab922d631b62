# TLA+ models of pylogstream

pylogstream is a small Kafka-like log: brokers keep append-only topic logs, one
broker leads each topic and followers fetch from it, controllers elected through
ZooKeeper decide who leads what. This directory models the parts of it that
concurrency, failure and ordering make hard, checks them with TLC and proves some
of the results with TLAPS.

Paths: `B` = `src/broker/src/pylogstream_broker`, `C` =
`src/controller/src/pylogstream_controller`, `P` = `src/protocol/src/pylogstream_protocol`.

## The system

| component | state | operations | talks to | what must hold |
|---|---|---|---|---|
| `SegmentRegistry` (B/log/segment_registry.py) | per topic, a list of frozen `SegmentMeta` | create, advance, get, list, progress, remove, latest offset; each under the topic's RLock | called by reader, writer, manager, with copies that go stale | list sorted by base; a stale copy undoes nothing |
| `LogWriter`, `LogReader`, `LogManager`, `SegmentPolicy` (B/log) | a writer lock per topic; the segment files | append, append_batch, rollover, read, read_bytes, create_topic | registry and memory, from pool threads and the event loop | one gap-free append-only log; exact reads |
| `SegmentMemory` (B/log/segment_memory.py) | LRU cache of mapped files, reference counts, cleanup queue | acquire, release, grow, try_evict, force_evict, cleanup thread | reader and writer threads | nothing closed while used, nothing leaked, no data cut off |
| `ReplicaLeader` (B/replication/leader.py) | ISR, follower offsets, high watermark, waiters | fetch, wait_for_hw, high watermark, ISR update | broker handlers; the log end moves under it | watermark monotone and within the log; the ISR the one `_update_isr` is for |
| `Writer` (B/network/writer.py) | a queue and a collector task per topic, a thread pool | submit, collect, flush, close | broker to LogManager | every request answered with its own offset; nothing lost or doubled; close ends |
| `Broker` (B/network/broker.py) | client tasks | publish, pull, fetch, register, commit offset, ping | all of the above | answers match the log |
| `ReplicaManager` (B/replication/manager.py) | `TopicState` per topic: role, version, leader or fetcher, loop task | apply_metadata(_list), remove, close, leader loop | ControllerConnection feeds it | while the broker leads its loop runs, and no loop outlives its state |
| `ReplicaFetcher` (B/replication/fetcher.py) | its log end | run | the leader's broker | never runs: its constructor reads `self.log_manager` before assigning it |
| `ControllerConnection` (B/network/controller.py) | connection id, events, pending requests | connect, reconnect, send, heartbeat, read | controller | a lost connection is replaced; a broker that cannot is taken off the cluster |
| `ControllerServer` (C/server.py) | is_leader, active brokers | election, register, heartbeat check, broadcast | ZooKeeper, brokers | one leader; one that is told of its loss brings a next one about; whoever is registered is watched |
| `MetastoreManager`, storage (C/metastore) | brokers, topics, hash ring | (de)register broker, register topic, ISR update, election | ZooKeeper through awaits | replicas are registered; ring and znodes agree; writes do not overtake |
| protocol (P) | none; the reading loops keep their place in the stream | encode, parse, read frame and payload | all | what is sent is received, and the reader stays in step |

Hard behaviour, in short: threads of the writer pool against readers and the event
loop; copies of metadata used after they changed; several critical sections per
logical operation (rollover, create_topic); eviction against use; a process that
dies and leaves its files; followers that report arbitrary offsets; coroutines of
the controller and of a broker's controller connection that suspend between reading
shared state and changing it; a broker's old connection that outlives its new one;
controllers whose ZooKeeper session ends under them; ZooKeeper calls between which
other coroutines run; a shutdown that meets requests in every stage.
`PROJECT.json` lists every hazard at its line.

## Modules

**SegmentRegistry** has the registry's methods as operators on one topic's list: a
guard (`Can...`: the method does not raise) and a result. Topics share nothing, so
one topic is enough. `BinarySearch` is the loop as coded, `Halve` its body; the other
operators use the declarative `FindSegmentIndex`. That the two agree in every
registry that arises is checked by `registry_clients` and proved (`SearchCorrect`).

**RegistryClients** drives these operators by clients that follow no protocol: any
method, any order, with a `SegmentMeta` obtained at any earlier time.

**LogStore** is `LogManager` for one topic. Actions of a writer follow
`LogWriter.write` call by call: `Submit`, `Lock`, `GetMeta` (or `TopicMissing`,
`InitTopic`, `InitTopicRaises`), the three calls of `_rollover` (`RollGet`,
`RollSeal`, `RollCreate`), `WriteFile` (or `WriteRaises`), `Advance`. `Abort` is
what a raise does. `create_topic` and the two kinds of read are split the same way.
A reader sees its file through the mapping of the handle it acquired. How long that
is, is SegmentMemory's affair: here it is any of `MapLengths`, `Shown` are the frames
within it, and `ReadsExact` promises more of a mapping that covers the segment
(`rcap`) than of a short one. `read` sends the file itself (`SendFile`). A client may
also ask for an offset inside a message; `_calc_read_size` then takes payload bytes
for a length, and what comes of that is not followed (`ReadInside`).
The files are a set of frames; a write removes the frames whose bytes it replaces,
so a file left by an earlier process is modelled as it is. `Restart` empties every
in-memory structure and keeps the files. `created_at` is evaluated when the class
is defined, so every segment has the creation time of the process (`ImportTime`):
rollover by age happens as the code does it, although
docs/log-system-design.md:276-277 means the age of the segment.

**AbstractLog** is what a log promises: a set of (offset, payload) and an end;
appending puts the message at the end. `LogStore!Refinement` states that the
committed frames and `get_latest_offset` implement it; a restart is the abstract
`Restart`.

**SegmentMemory** has the cache, entries with their reference counts, the files'
lengths, the cleanup thread, evictors, and threads that use handles as `LogReader`
and `LogWriter` do. `acquire` is two steps, the critical section and `Load`.
`load` may raise, with the file created and mapped or not, and then leaves the
reference behind (`LoadRaises`, `Leaked`). An `Entry` nobody refers to is garbage and
its identity is used again. Reads and writes through a mapping are single steps. A
cache key is the topic's characters followed by those of the base offset in decimal,
as `segment_id` puts them together, so two segments may share one; that they do not
within a topic is a lemma of the theorems about files. `second` is history: the
entries made while a writer still held an older one of the same segment.
`MapsCommitted` says when a reader's mapping covers its segment, which is the
condition of `LogStore!ReadsExact`. Left out: `Entry.__mutable` (only the last, ACTIVE
segment is written to), and the BufferError of resizing a mapping that is exported
(segment_memory.py:160): the readers slice and copy a memoryview in one expression,
between whose bytecodes CPython does not switch threads unless a call returns to
Python code.

**ReplicaLeader** is the leader of one topic with the handlers that use it. They
all run on the event loop; only the writer pool runs beside them. A handler that
reads the log end twice is two actions (`FetchBegin`/`FetchEnd`,
`PullBegin`/`PullRead`), and `loop` is the handler in between. Followers are the
fetches they send, with any offset. The read a pull does is taken from what
LogStore shows: whole messages from the offset, at least one. `phase` is the shutdown:
`CancelHandlers` is `Broker.close`, which cancels the handlers and the futures they
wait for, and `Close` the leader's own, whose `set_exception` raises at the first
future that is done and leaves the rest of the queue.

**PublishPath** is how a published message gets into the log: connection handlers
(`Register`, `Publish`, `Resume`, `Replicated`, `Leave`, `Die`), the collector task
(`CollectFirst`, `CollectNext`, `Timeout`), the pool's threads (`Begin`,
`AppendMessage`, `AppendRaises`, `Schedule`), `SetResult` on the event loop, and
`Broker.close` from `CloseBegin` to `ShutdownDone`. A request is its number in the
order of submission and the log is the sequence of appended requests; that
`append_batch` appends to the end, message by message under the topic's lock, is
what LogStore shows. How many threads the pool has is chosen in `Init`.
`executor.shutdown(wait=True)` blocks the event loop, which `LoopRuns` says of every
action of the loop. Message lengths are left out: a batch may be full by bytes at
any time. A request whose callback close has cancelled may still lie in the queue
in the model when the collector would already have taken it; that is a few more
behaviours than the code has.

**ReplicaManager** is what one broker does with the metadata of one topic. `Callers`
are the coroutines that call `apply_metadata_list`; a caller suspends while it waits
for a cancelled leader loop (`CloseState`, `Closed`) and while a follower's fetcher
dials (`Install`, `FetcherFails`). The controller connection has two, its reader loop
and its retry loop, but in the present program the retry loop never gets that far (see
`cluster_reconnect`). Which of them there are is chosen in `Init` (`present`):
`LeaderLoopRuns` holds for any number, `OneLoop` is about a process with one.
`RemoveRaises` is the KeyError of `del topics[topic]`. The lists are arbitrary, as
after a reconnect to another controller. Left out: close and close_all at shutdown.

**Metastore** has what `MetastoreManager` computes as operators: the replicas and
the leader of a new topic, and of a topic that loses a broker. The hash ring is a
fixed preference order of the brokers, which for one topic is what it computes.
`Keep` is Python's `[r for r in s if ...]`, written without recursion so that it can
be proved about.

**Controller** is a `ControllerServer` without ZooKeeper, for one topic. Each
connection handler and the heartbeat checker is a coroutine with a record of where
it is suspended. A step runs to the next suspension, and the code suspends in
three places only: reading, writing to a connection that is closing, and
`wait_closed`. Without ZooKeeper, storage calls take an uncontended `asyncio.Lock` and do not suspend.
The nested calls (a broadcast that finds a lost broker disconnects it, which
broadcasts again) are the record's `dests`, `failed` and `todo`. Left out: what the
lists say, `drain` on an open connection above its high-water mark (metadata lists are
small and a connection is read by a broker that does little else), MetadataRequest (changes nothing), ISRChange (no broker sends it:
`on_isr_change` is a coroutine function that is called and not awaited), close. The
election is ControllerElection, the storage over ZooKeeper ZKMetastore.

**Cluster** composes Controller with the brokers' `ControllerConnection`s: they
dial, register and wait for the answer (`Dial`, `TrySucceeds`, `TryFails`,
`TryRaises`), send commands, lose connections, crash and restart. What a loss does is
`HandleDisconnect`: `_handle_disconnect` sets the event of the retry loop and goes on
to `while True: await self._conn_status_event.wait()`. The status event is still
set, and `asyncio.Event.wait` returns without suspending then, so the coroutine
spins and nothing else in the process runs: the broker is `frozen`. That makes the
body of the retry loop and the resending of requests unreachable, and they are not
modelled. A broker never closes a connection it gives up, so the controller may
serve several connections of one broker. A loop that ends for another reason, a frame
it cannot parse or a NotLeader response, calls `_handle_disconnect` too and freezes
the same way; it is not told apart from a loss. Left out: hints to other controllers, close.

**ControllerElection** has several controllers over one ephemeral znode. An election
is `Elected`, or `NotElected` and `SetWatch`; a fired watch is `LeaderGone`, which
starts the next election. ZooKeeper and kazoo are external: the node goes when its
session is closed (`Close`) or times out (`NodeExpires`, `SessionExpires`), watches
fire once, at a creation or a deletion, and also when kazoo's connection is
interrupted (`Interrupted`), since the watch function does not look at the event.
`ElectionRaises` is any other error of a call, executed at the server or not.

**ZKMetastore** is `MetastoreManager` over `ZKMetastoreStorage`. Each ZooKeeper call
takes effect in one step and the coroutine goes on in another, so the four
operations of two coroutines interleave call by call. `HandlerEnds` is the exception
that costs a broker its connection. `Failover` puts a new manager over the same
znodes. `get_all_topics` and `get_all_nodes` read several nodes one by one in the
code and at once here: there is one topic, and the node list is only tested for being empty.
`disturbed`, `orphans` and `raced` are history: they say when the properties
promise less. Two controllers that write at once (after an expired session) are not
modelled.

**Protocol** has both tables of the wire format, what the encoder writes and what
the parser takes from which part, and one direction of a connection with the loop
that reads it. Text is a sequence of words and a word a sequence of atoms, so a name
with a space, an empty list and a character of two bytes are told apart and nothing
else is. The two tables are translated separately, one from encoder.py and one from
parser.py; `InSync` is what compares them.

**LogStoreProofs** (with SegmentRegistry and RegistryClients), **SegmentMemoryProofs**,
**ReplicationProofs** (ReplicaLeader and ReplicaManager), **PublishPathProofs**,
**ControllerElectionProofs**, **ZKMetastoreProofs**, **ClusterProofs** and
**MetastoreProofs**, which the two before it extend, hold the lemmas and theorems.
The `MC...` modules give constants their values. An operator whose name
begins with `Mut` is a plausible bug in the definition that follows it; each is
there to show that a property would notice.

## Runs

| run | property | shows |
|---|---|---|
| registry_clients | BasesIncreasing, SearchAgrees, NoLostUpdate | two threads with stale copies cannot unsort the list, mislead the search or undo an advance |
| log_store | SegmentChain, FramesTile, SegmentBounded, AckedReadable, ReadsExact, Refinement, BatchEnds | two writers, a reader, create_topic, a failing file operation, rollover by age and a restart: a gap-free log, an append-only log for its callers, nothing of the old files shows through, no batch hangs; a reader gets committed messages only, and exactly the right ones if its mapping covers the segment |
| segment_memory | NoUseAfterRelease, FileCoversCommitted, MapsCommitted, NoLeak | a cache of one entry over two segments, and a load that raises: closing waits for users, two entries of one file never cut off committed data, a reader's mapping covers its segment unless its entry was made while a writer held an older one |
| memory_eviction_ends | EvictedIsClosed | every entry on the cleanup queue is closed, while no load raises |
| replica_leader | HWBelowLEO, AcceptedPullIsReadable, HWMonotone, IsrWellChosen | the watermark rises and stays in the log, an accepted pull can be read, the ISR is well chosen by the comparison the code makes |
| publish_path | Conserved, OffsetIsOwn, OneThreadKeepsOrder, ClosedLeavesNone, Answered, CloseEnds | from submit to the log nothing is doubled, and lost only where an append raised or close cancelled; each publisher gets its own offset; close strands nobody and ends |
| cluster | ReplicasRegistered, RegisteredIsWatched, DeadBrokerGone | brokers lose connections and freeze, crash and come back while handlers are suspended: replicas are registered, whoever is registered is watched or being removed, a dead or frozen broker goes |
| cluster_reconnect (violation) | Reconnects | a broker that loses its connection never gets another |
| controller_election | LeaderHoldsNode, TakesOver | a second leader only after an expired session; a controller that is told the leader is gone brings one about |
| zk_metastore | RingAgrees, ReplicasRegistered, WritesSuccessive | interleaved ZooKeeper calls and a failover: the ring has the registered brokers, a topic is created once, unraced writes stay consistent |
| replica_manager | LeaderLoopRuns, OneLoop | any sequence of lists: a leader's loop runs until it is being stopped, also when two callers overlap; with one caller no loop outlives the state it belongs to |
| protocol | InSync | every message the protocol can carry arrives field by field; no payload shifts the frames behind it |

### Bounds

* registry_clients: offsets to 3, four segments, two clients. Gaps, empty segments,
  removal in the middle and at both ends, and a copy made stale by the other client
  all occur.
* log_store: payloads of 1 and 8 bytes, 5 and 12 with their prefix, and segments of 10:
  two small messages fill a segment exactly and a large one exceeds it. Three
  messages in batches of at most two, enough for two rollovers and for a batch that
  fails after its first message. A read of 6 bytes has room for one small message
  and for no large one, a read of 10 for two small ones; a mapping of 8 bytes ends in
  the second small message or in a large one, one of 16 covers any segment. One
  restart, one failing file operation, one tick with `RolloverAge` 0, after which every
  non-empty segment is due. `AckedReadable` speaks of the time before the restart, since
  the registry is empty after it (see below).
* segment_memory: messages of 3 bytes in files that start at 4 and grow by 1, so a
  growth by the increment alone would be too small; two messages per segment; three
  entries, so that one waits on the queue behind another; one raising load.
  memory_eviction_ends has the same threads without writers and without a raising load.
* replica_leader: two followers, log end to 3, fetch offsets to 4 (past the end),
  lag 0 to 4 against a limit of 1.
* publish_path: two clients, three requests, batches of at most two, one or two
  threads, one raising append: two batches in work at once, one of them of one
  message, and a request left in each place when close begins.
* cluster: two brokers, two connections each, one fault (a lost connection, a late
  answer or a crash) and one command after registering. One fault is enough for an
  old connection beside a new one, for a registration during `wait_closed`, and for
  a broadcast that fails.
* controller_election: three controllers, five starts, three faults: a leader lost,
  its successor lost while the third is still setting its watch, and a restart.
* zk_metastore: three brokers with two replicas per topic, so that a loss is filled
  up from the ring; two coroutines, six operations, one failover.
* protocol: two messages, so that the second shows whether the first left the reader
  in step; every tag, with one-word, two-word and empty values and a wide character.
* replica_manager: one or two callers and four versions, so that the broker can lead, follow,
  be excluded and lead again; one other broker to lead and to be the only replica.

`CHECK_DEADLOCK FALSE` is set because each model stops at its bounds.

### Fairness

Threads of the pool, of readers and of the cleanup daemon are scheduled by the
operating system, so weak fairness of each thread's steps is justified
(`LogStore!FairSpec`, `SegmentMemory!FairSpec`). Locks need no strong fairness
here: a waiting writer finds the lock free once the bounded appends of the others
are over. In `Cluster!Fairness` the controller's event loop runs every coroutine
that can go on, which is how asyncio schedules; a read on a lost connection ends,
and the checker's sleep ends. `Cluster!BrokerFairness`, used only by
cluster_reconnect, says the same of a broker's loop; the violation is therefore not
a broker that is never scheduled. `PublishPath!Fairness` is the event loop (the
collector, whose wait for a batch is bounded by max_batch_wait, scheduled callbacks,
and close once it has begun) and the pool's threads. `ControllerElection!Fairness` is
each controller's event loop and ZooKeeper's session timeout. Nothing is assumed of clients, followers or failures: no one
need publish, fetch, close or restart.

In Cluster a handler or the checker finds a connection stale only if it is lost, its
broker has given it up or is frozen (`Silent`): a broker pings the connection it uses every
five seconds (controller.py:320), well within the timeout.

### What the violation says, and what else was seen

cluster_reconnect states the docstring of `_handle_disconnect`, "Handle the
disconnection await till the connection is re-established" (controller.py:117;
`_connection_retry_loop`, line 127, and `_send_command_loop`, line 263, say the same).
The trace is short: a broker connects, the connection is lost, a loop of the broker
notices, and from then on the process spins at controller.py:225. What the cluster
still promises is `DeadBrokerGone`: the controller's heartbeat timeout removes it.

More was seen with these models. These are statements of the docs, or of what a
reader would expect, that the code does not meet; the properties above are worded so
as to say what does hold.

The log:
* nothing reads the files of an earlier process back, although docs/design.md:19 has
  messages survive restarts (`AckedReadable` says so);
* segment 10 of topic `a` and segment 0 of topic `a1` have the same cache key
  (segment.py:21), so a handle may be on the file of another topic. The models have
  one topic, and the theorems about files the hypothesis `TopicsApart`;
* the cache limit evicts entries in use (docs/log-system-design.md:507 says reference
  counts prevent that). If the segment is asked for again while a writer holds the
  evicted entry, the new mapping may stay shorter than what the writer commits, and
  `read_bytes` returns short data: the exception in `MapsCommitted`, and the reason for
  the condition in `ReadsExact`;
* a `load` that raises leaves its reference behind, and once the entry is evicted the
  cleanup thread waits for it and closes nothing more (docs/log-system-design.md:510
  has cleanup happen "safely and deterministically").

Replication:
* a pull that starts below the high watermark returns messages above it
  (broker.py:192; docs/replicatin-design.md:18 says consumers read up to it only);
* acks = -1 is answered when the watermark reaches the start of the message, not its
  end (leader.py:98), and the ISR may contain a follower below the watermark
  (leader.py:130; docs/replicatin-design.md:12), so an answer does not mean what the
  comment at broker.py:272 says, "replicated to all in-sync replicas". No property
  states it;
* a publisher in `hw_waiter_queue` is woken by close only: `_notify_hw_waiters` has no
  caller;
* the lag compared with `max_isr_lag_ms` is in seconds (leader.py:163; config.py:44 and
  docs/replicatin-design.md:83 say milliseconds), so the configured limit is a thousand
  times as long as it reads. `IsrWellChosen` uses the comparison as it is coded;
* a lost follower stays in the ISR (manager.py:113) and may be elected leader later;
* `apply_metadata` is not safe for two callers: one that was overtaken in `_close_state`
  installs its older metadata, and the loop of the state it overwrites runs on
  (manager.py:94 says older is ignored). With one caller, as in the present program,
  this cannot happen (`OneLoop`).

Publishing:
* with more than one pool thread, batches of one topic overtake each other, and two
  batches may be mixed in the log; `OneThreadKeepsOrder` says when they do not;
* when `append_batch` raises, the publishers of the batch wait for ever, also those
  whose message was appended; `Answered` excludes them;
* the exception that `Writer.close` sets on queued requests never reaches a waiting
  publisher, because `Broker.close` has cancelled the handlers first; it would raise
  on a callback that is done already (writer.py:54). What close throws away is what
  was published with acks = 0 or by a cancelled handler;
* a handler that died of an exception (the ValueError of a CommitOffset for a topic
  this broker does not lead, broker.py:201, or a reset connection in a response)
  stays in `_client_tasks`, and `Broker.close` ends with its exception before it
  closes the writer and the replica manager (phase `aborted`).

Controllers:
* the watch is set after two awaits (server.py:94) and does not look whether the node
  is still there: if the leader goes in between, the follower waits for a node that
  nobody creates, although the docstring (server.py:71-72) has it re-run the election.
  `TakesOver` is therefore about a controller that was told;
* a leader whose session expires is not told and goes on leading beside the next one;
* a ZooKeeper error in a re-election leaves a follower without a watch for good;
* a broker that registers again while its old connection is in `wait_closed` is
  deregistered afterwards and stays connected (server.py:182-185);
* over ZooKeeper, two overlapping writes of a topic lose one of them, may give two
  different metadata the same version, and may decrease the version; overlapping
  operations of one broker leave a ring member without a node or the reverse; after
  a failover the ring is empty until brokers register again, and a broker that died
  meanwhile is watched by nobody.

Protocol:
* an empty ISR list is written as nothing and read as a list of one empty name
  (encoder.py:279 against parser.py:127);
* the length of a metadata list counts characters and its payload is bytes
  (encoder.py:152), so one non-ASCII name puts the reader out of step;
* a topic with a space can be registered (RGT takes the rest of the line) and then
  no metadata of it can be read;
* a PUB without a checksum fails at a broker that verifies, and with one keeps the
  checksum as part of the payload, as the consumers expect.

## Proofs

The theorems hold for every value of the constants that satisfies the named
assumptions: constants that are numbers are naturals, payloads have a length, and
`NoTopic`, `NoWriter`, `NoMeta`, `NoCopy`, `NoConn` are not what they stand in for.
The pool has finitely many threads (`ThreadPoolExecutor` has max_workers), as have
the users of SegmentMemory, whose segments are at least one; no two followers have
the same place in `replica_list` (`ListIndex`), the hash ring's preference order
names every broker once, and ISR lists name brokers. The bounds (`MaxAppends`, `MaxRestarts`,
...) are arbitrary.

| module | theorem | states |
|---|---|---|
| LogStoreProofs | RegistrySorted | `[](ClientsTypeOK /\ BasesIncreasing)` |
| LogStoreProofs | UpdatesSurvive | `NoLostUpdate`, an action property |
| LogStoreProofs | SearchCorrect | `[]SearchAgrees` |
| LogStoreProofs | LogStoreTypeOK | `[]TypeOK` |
| LogStoreProofs | RegistryIsChain | `[]SegmentChain` |
| LogStoreProofs | RolloverNeverRaises | `[]RolloverSucceeds` |
| LogStoreProofs | CommittedFramesTile | `[]FramesTile` |
| LogStoreProofs | SegmentsBounded | `[]SegmentBounded` |
| LogStoreProofs | AckedStaysReadable | `[]AckedReadable` |
| LogStoreProofs | ReadsAreExact | `[]ReadsExact` |
| LogStoreProofs | ImplementsAbstractLog | `Refinement`: LogStore implements AbstractLog |
| SegmentMemoryProofs | MemoryInvariant | `[]Held`: types, places of entries, reference counts |
| SegmentMemoryProofs | HandleStaysMapped | `[]NoUseAfterRelease` |
| SegmentMemoryProofs | MappingsAreClosed | `[]NoLeak` |
| SegmentMemoryProofs | CommittedBytesKept | `TopicsApart => []FileCoversCommitted` |
| SegmentMemoryProofs | ReaderMapsCommitted | `TopicsApart => []MapsCommitted` |
| SegmentMemoryProofs | GrowthOnlyGrows | `TopicsApart =>` no step shortens a file |
| ReplicationProofs | LeaderTypeOK | `[]TypeOK` |
| ReplicationProofs | HighWatermarkBelowLogEnd | `[]HWBelowLEO` |
| ReplicationProofs | PullReadable | `[]AcceptedPullIsReadable` |
| ReplicationProofs | HighWatermarkMonotone | `HWMonotone`, an action property |
| ReplicationProofs | IsrChangesWellChosen | `IsrWellChosen`, an action property |
| ReplicationProofs | ManagerTypes | `[]ManagerTypeOK` |
| ReplicationProofs | LeaderLoop | `[]LeaderLoopRuns` |
| ReplicationProofs | OneCallerOneLoop | `[]OneLoop` |
| PublishPathProofs | PublishTypeOK | `[]TypeOK` |
| PublishPathProofs | OffsetsAreOwn | `[]OffsetIsOwn` |
| PublishPathProofs | CloseLeavesNone | `[]ClosedLeavesNone` |
| PublishPathProofs | MessagesConserved | `[]Conserved` |
| PublishPathProofs | OrderKept | `[]OneThreadKeepsOrder` |
| ControllerElectionProofs | ElectionTypeOK | `[]TypeOK` |
| ControllerElectionProofs | LeaderHolds | `[]LeaderHoldsNode` |
| ZKMetastoreProofs | ZKTypeOK | `[]TypeOK` |
| ZKMetastoreProofs | RingMatchesNodes | `[]RingAgrees` |
| ZKMetastoreProofs | ReplicasHaveNodes | `[]ReplicasRegistered` |
| ZKMetastoreProofs | VersionsSuccessive | `WritesSuccessive`, an action property |
| ClusterProofs | ReplicasAreRegistered | `[]ReplicasRegistered` |
| ClusterProofs | RegisteredAreWatched | `[]RegisteredIsWatched` |

**LogStoreProofs, the registry.** The first lemmas say what each operator of
SegmentRegistry returns (the two searches, append, advance, pop, progress); the rest
of the module cites them. The searches rest on the least element of a non-empty
set of naturals, which comes from the library's well-foundedness of `<`.
For the binary search, `SearchIsLoop` shows that a function satisfying the loop's
equation exists (the declarative answer does), and `SearchFinds` that any such
function gives that answer on a sorted list: take the shortest interval on which it
does not, and halve it once.

For the clients, `ClientsTypeOK /\ BasesIncreasing` is inductive as it stands. No
relation between a client's copy and the list is needed: `advance_offset` takes base
and size from the list, and `progress_state` takes them from a copy it has found
equal to the entry. The same case analysis gives `NoLostUpdate`. `SearchCorrect` is
`SearchFinds` applied to the sorted list.

**LogStoreProofs, the log.** `SegmentChain` is not inductive. The invariant `IInv` adds
* `Exclusive`: a writer past `Lock` holds the lock, so only one is;
* `MetaCurrent`: the copy that writer works on is the registry's last segment (with
  `create` pending, its sealed form), and a rollover is begun only on a non-empty
  segment;
* `Busy`: a batch in work still has a message;
* `Sorted`, which follows from the chain only by induction over the list and is
  therefore carried along.

`create_topic`, which does not take the writer lock, cannot break `MetaCurrent`: a
second `create_segment(topic, 0)` always raises (`NoSecondAtZero`), and while there
is no topic no writer is past `get_segment`. `IInv` was model-checked with the
constants of log_store before it was proved.

`DiskInv` says what the files have to do with the registry:
* `Disjoint`: no two frames of a file overlap, which `handle.write` keeps by
  replacing what it overlaps;
* `AllFilled`: of each segment, the frames below its size reach from its start to its
  size without a gap, none of them crosses it, and the size is within the limit or
  one message;
* `WriteFits`: the message a writer is about to write fits its segment or is alone in
  it, and between write and advance its frame lies at the end of the last segment.

A write therefore replaces only frames above the size, left by a failed write or an
earlier process, and `advance_offset` makes exactly one of them readable.
`FramesTile` and `SegmentBounded` follow from `DiskInv` at once. For `AckedReadable`
and the refinement every step is shown to leave `Committed` and the log end alone
(`SameLog`), to append the head of one writer's batch at the end (`AppendsHead`), or
to be a restart.

`ReadsExact` is about a reader whose copy of the metadata may be stale, whose file
is being written and whose mapping may be of any length. `ReadInv` follows it: its
segment is still in the list and has not shrunk (`Held`), and the messages below the
size in its copy fill that size and one of them starts at the offset (`Asked`). If
the mapping covers that size (`Covers`), next_offset is the start of a message or the
end of the copy (`Chosen`) and the bytes are exactly the messages before it; a shorter
mapping gives some of these bytes and a next_offset within the copy, no more. All of
it speaks only of messages below the size in the copy (`Known`), and `KnownStays`
shows that no step but a restart changes these. For the loop of `_calc_read_size`,
`LoopExists` shows that a loop has a function with its equation whether it ends or
not, and `ScanFits` what any such function returns: the first message that does not
fit is the last one the loop looks at, so no message is skipped and a later one
taken. `ShownWhole` says that a covering mapping shows every known message whole,
`ScanBounded`, `CalcWithin` and `SliceShorter` what is left when it does not cover.
`ReadInv`, too, was model-checked first. That the mapping a reader gets does cover
what it was told of is `ReaderMapsCommitted`, below.

**SegmentMemoryProofs.** `NoUseAfterRelease` depends on where an entry can be. `Held`
says that an entry is in the cache, on the cleanup queue, with the cleanup thread or
with one caller of an evict method, in one of these places only (`OnePlace`), that
its reference count is at least the number of handles on it (`Counted`; a load that
raises leaves a reference behind), and that an entry
which is mapped or held is in one of them (`Tracked`). `try_evict` closes without
looking at the count again, which is safe because nobody can find the entry once it
was popped (`EvictorsAt`). `NoLeak` is part of it.

The invariants about files need more. An entry pushed out of the cache while in
use leaves its file with two mappings of different lengths, and growth truncates the
file to a length computed from one of them. `Sized` says why that never cuts anything
off: a file is grown only by the one writer of the segment (`OneWriter`, the
contract's serialized writes), through the cached entry or through one it took before,
and then the entry that took its place maps the whole file (`Fresh`), so the new
length is at least the old one (`NoSlack`). The proof of `CommittedBytesKept` shows of
each step that it keeps `Sized` and shortens no file; the second half is
`GrowthOnlyGrows`, which TLC checked as well, at the constants of segment_memory,
before it was proved.

`MapsCommitted` rests on `Full`. A segment is written through its cached entry only,
unless a writer held an older entry when that one was made (`WrittenThrough`; `second`
records those entries). The mapping of such a cached entry has everything committed
and what is about to be (`CachedCovers`): a load maps the whole file, which has it by
`FileCoversCommitted`, and `ensure_capacity` grows the mapping before the write. So
the size a reader was told of lies within the mapping it gets (`ToldIsMapped`), and
stays there, since a mapping only grows until it is closed.

All of this presumes that a cache key names one segment (`HandleOnOwnFile`, a part of
the invariant `Keyed`). Within a topic it does:
`Digits` is a recursive function, so it is first shown to satisfy its equation, and
then to be injective, by looking at the least number that has the digits of another.
Across topics it does not (see the observations above), so the theorems about files
have the hypothesis `TopicsApart`, which holds for every set of segments of a single
topic.

**ReplicationProofs, the leader.** `hw <= leo` is not inductive: the watermark is the least
offset of the ISR, and a follower may report one past the log end. What keeps it
below `leo` is that the leader is always in its own ISR (`LeaderInIsr`).
`PullBelowHW` carries the check of a pull over to its read. For
`IsrWellChosen` the lemmas say of `_update_isr` that it takes the followers in a total order that puts fresher
ones first (`TakenInOrder`), that `Rank` numbers them along it (`RankOrders`), and
that the first n are n followers (`FirstAreMany`).

**ReplicationProofs, the manager.** `LeaderLoopRuns` is not inductive: a caller that
resumes installs its metadata whatever `topics` has become, so `ManagerInv` adds
(`ClosingIsCurrent`) that a loop runs only for a broker that leads, and that a caller
whose state is still the current one has its loop stopped. One lemma per kind of step
(`InstallKeepsInv` serves `Apply` and `Closed`). `OneCallerOneLoop` adds that with
a single caller the state being closed is always the current one, so no `Install`
finds a loop running and leaves it orphaned.

**PublishPathProofs.** `OffsetIsOwn` is about offsets that were delivered; the
invariant `Owned` says the same of the offsets a pool thread has collected and of
those scheduled on the event loop: each lies in the log at its own request. Since
the log only grows at its end, appends of other threads cannot disturb it. For
`ClosedLeavesNone` the invariant `Awaited` says that every pending callback has a
handler that awaits it, and that no handler acts once they are cancelled; the batch
the collector throws away can then hold no pending callback.

`Conserved` and `OneThreadKeepsOrder` need `PathInv`: the requests in the queue, in
the collector's batch and in the executor's jobs form one increasing line in front of
what the threads still have to append (`Line`), what two threads have to append is
apart from each other and from the log (`Apart`), every request that is nowhere was
dropped by a raising append or by close (`NoneLost`), and with a single thread what
is appended lies before what it still has (`Single`).

**ControllerElectionProofs.** `LeaderHoldsNode` is not inductive: a fired watch
starts an election in a controller that could be leading. `StandsBack` excludes that: a watch is
set only by a serving follower outside an election, whoever is about to set one has
given up leading, and a serving controller in an election does not lead. The
invariant is a conjunction over controllers (`Good`), so a step is checked for the
controller that takes it and for one that only sees the node change.

**ZKMetastoreProofs.** `RingAgrees` is about a broker at rest. `Settled(b)` follows
a broker through its operation: unless `b` is disturbed at most one coroutine works
on it, and its node and ring membership are what the coroutine's position says (node
and no ring entry before `ringAdd`, ring entry and no node before `ringRemove`, and
so on). `OpShape` gives the operations their record form. Steps of coroutines that work
on another broker, or on the topic, leave `Settled(b)` alone.

`TopicInv` is the same for the topic. As long as nothing was overtaken (`~raced`) at
most one coroutine is writing the topic, what it holds in hand fits the topic in the
store (`HandFits`: the same metadata before it computes, the next version and only
replicas with a node before it writes), and a replica or ring member without a node
is one that a `deregister_broker` is still taking out. The lemmas of
**MetastoreProofs** on `Keep`, `Take` and `GetReplicas` say where the members of a computed replica list come from: from
the old list without the lost broker, or from the ring.

**ClusterProofs.** `RegisteredIsWatched` is a statement about every point at which a
coroutine of the controller is suspended. A step ends in one of a few parts:
`_handle_broker_disconnect` for the next broker, the writes of a broadcast, the
`finally` of a handler. One lemma per part shows that it keeps watch (`KeepsWatch`): who had
an entry in `active_brokers` keeps it, or the coroutine now waits to deregister this
very broker. `CoroutineStep` turns that into the invariant, and each handler adds only
what it does before: `Register` makes the entry before the broadcast, `Deregister` takes
the broker out of the metastore and of the replicas together. `Undialled` is needed because
`Dial` gives a connection a fresh handler: the one it replaces must not be the
coroutine somebody relies on. `ReplicasRegistered` rests on MetastoreProofs: replicas
come from the ring, and the ring is the registered brokers.

Only model-checked: `InSync` of Protocol, since what the encoder writes and the parser
reads is folded over lists of words (`FlattenSeq`, `SelectSeq`) and would need an
induction over data; and the liveness properties (`BatchEnds`, `EvictedIsClosed`,
`Answered`, `CloseEnds`, `TakesOver`, `DeadBrokerGone`), which are out of
this prover's reach. Every other invariant and action property of a run is stated by a
theorem above.

## Plan

Two leaders over one set of znodes after an expired session (ControllerElection with
ZKMetastore), and brokers that follow a leader hint from one controller to the next,
on top of Cluster.

## Not modelled

`ReplicaFetcher` never runs: its constructor raises. The body of
`_connection_retry_loop` and the resending in `_send_command_loop` are unreachable
(see `cluster_reconnect`). `OffsetsManager` has no user, `SegmentPolicy.is_expired`,
`_notify_hw_waiters`, `watch_data` and `remove_topic` no caller. `parse_records` and
`decode_record` are pure functions of a consumer's payload. The legacy client speaks
an older protocol; configuration, entry points and benchmarks keep no state. At
shutdown, `ReplicaManager.close_all` and `ControllerConnection.close` are left out:
`Broker.close` is modelled up to the writer. Bytes are not modelled: a frame is a
payload with a length.
