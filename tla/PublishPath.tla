----------------------------- MODULE PublishPath -----------------------------
(***************************************************************************)
(* How a published message gets into the log: the connection handlers of   *)
(* Broker (broker network/broker.py), the Writer with its collector task   *)
(* and its thread pool (network/writer.py), and Broker.close.              *)
(*                                                                         *)
(* One topic.  A request is its number in the order of submission, and the *)
(* log the sequence of appended requests; that append_batch appends to the *)
(* end is what LogStore shows.  Several batches may be in work at once and *)
(* append_batch takes the topic's lock message by message.  Handlers, the  *)
(* collector, call_soon callbacks and close run on the event loop, which   *)
(* executor.shutdown(wait=True) blocks.                                    *)
(***************************************************************************)
EXTENDS Integers, Sequences, FiniteSets

CONSTANTS
  Clients,       \* client connections
  Workers,       \* threads a pool may have
  MaxBatchSize,  \* WriterConfig.max_batch_size
  MaxRequests,   \* bound: requests submitted
  MaxFaults      \* bound: append_batch raises

ASSUME PublishAssumption ==
  /\ MaxBatchSize \in Nat \ {0} /\ MaxRequests \in Nat /\ MaxFaults \in Nat
  /\ Workers # {} /\ IsFiniteSet(Workers)

VARIABLES
  handler,    \* what each connection's handler is doing
  awaits,     \* the request whose callback it awaits, 0 if none
  phase,      \* how far Broker.close has come
  future,     \* per request the state of its callback
  queue,      \* topic_queue
  collector,  \* the topic's task
  batch,      \* the batch the collector holds
  pool,       \* max_workers: the threads the executor really has
  jobs,       \* batches the executor has not begun
  thread,     \* the batch each thread works on and the offsets so far
  log,        \* the topic's log
  scheduled,  \* set_result calls waiting in the event loop
  answers,    \* offsets delivered to callbacks
  raised,     \* requests of batches whose append_batch raised
  faults

clientVars == <<handler, awaits, phase>>
writerVars == <<queue, collector, batch>>
poolVars == <<jobs, thread, log, raised, faults>>
vars == <<clientVars, future, writerVars, pool, poolVars, scheduled, answers>>

\* A pool thread without a batch.
Free == [reqs |-> <<>>, offsets |-> <<>>]

Init ==
  /\ handler = [c \in Clients |-> "new"]
  /\ awaits = [c \in Clients |-> 0]
  /\ phase = "running"
  /\ future = <<>>
  /\ queue = <<>> /\ collector = "none" /\ batch = <<>>
  /\ pool \in (SUBSET Workers) \ {{}}
  /\ jobs = <<>> /\ thread = [t \in Workers |-> Free]
  /\ log = <<>> /\ raised = {} /\ faults = 0
  /\ scheduled = {} /\ answers = {}

\* executor.shutdown blocks the event loop.
LoopRuns == phase # "shutdown"

\* Back at the top of the handler's loop: `while self.running`.
NextCommand == IF phase = "running" THEN "ready" ELSE "left"

(***************************************************************************)
(* Connection handlers                                                     *)
(***************************************************************************)

\* A client registers, or names the id it got earlier.
Register(c) ==
  /\ LoopRuns /\ handler[c] \in {"new", "ready"}
  /\ handler' = [handler EXCEPT ![c] = NextCommand]
  /\ UNCHANGED <<awaits, phase, future, writerVars, pool, poolVars, scheduled, answers>>

\* The connection ends in the handler's own way: end of input, a timeout, a bad
\* command, or a client that has not registered.
Leave(c) ==
  /\ LoopRuns /\ handler[c] \in {"new", "ready"}
  /\ handler' = [handler EXCEPT ![c] = "left"]
  /\ UNCHANGED <<awaits, phase, future, writerVars, pool, poolVars, scheduled, answers>>

\* An exception nobody catches ends the handler, which stays in _client_tasks:
\* the ValueError of _handle_write when it comes from a CommitOffset, or the
\* ConnectionResetError of a response to a client that has gone.
Die(c) ==
  /\ LoopRuns
  /\ \/ handler[c] \in {"new", "ready", "replicating"}
     \/ handler[c] = "waiting" /\ future[awaits[c]] = "result"
  /\ handler' = [handler EXCEPT ![c] = "dead"]
  /\ awaits' = [awaits EXCEPT ![c] = 0]
  /\ UNCHANGED <<phase, future, writerVars, pool, poolVars, scheduled, answers>>

\* Writer.submit: the first request of the topic starts the collector.
Submit(r) ==
  /\ queue' = Append(queue, r)
  /\ collector' = IF collector = "none" THEN "running" ELSE collector

\* Publish or CommitOffset with a leader.  acks = 0 creates no callback and does
\* not wait.
Publish(c, acks) ==
  /\ LoopRuns /\ handler[c] = "ready" /\ Len(future) < MaxRequests
  /\ Submit(Len(future) + 1)
  /\ IF acks = 0
     THEN /\ future' = Append(future, "none")
          /\ handler' = [handler EXCEPT ![c] = NextCommand]
          /\ UNCHANGED awaits
     ELSE /\ future' = Append(future, "pending")
          /\ handler' = [handler EXCEPT ![c] = "waiting"]
          /\ awaits' = [awaits EXCEPT ![c] = Len(future) + 1]
  /\ UNCHANGED <<phase, batch, pool, poolVars, scheduled, answers>>

\* The callback has its result: the handler answers, or with acks = -1 goes on to
\* wait for the high watermark (ReplicaLeader).
Resume(c) ==
  /\ LoopRuns /\ handler[c] = "waiting" /\ future[awaits[c]] = "result"
  /\ awaits' = [awaits EXCEPT ![c] = 0]
  /\ \E h \in {NextCommand, "replicating"} : handler' = [handler EXCEPT ![c] = h]
  /\ UNCHANGED <<phase, future, writerVars, pool, poolVars, scheduled, answers>>

Replicated(c) ==
  /\ LoopRuns /\ handler[c] = "replicating"
  /\ handler' = [handler EXCEPT ![c] = NextCommand]
  /\ UNCHANGED <<awaits, phase, future, writerVars, pool, poolVars, scheduled, answers>>

(***************************************************************************)
(* The collector task                                                      *)
(***************************************************************************)

\* Mutant: the batch is kept after it was handed over.
MutFlush(b) == jobs' = Append(jobs, b) /\ batch' = b

\* Mutant: the newest batch is begun first.
MutFlushFirst(b) == jobs' = <<b>> \o jobs /\ batch' = <<>>

\* executor.submit and the reset of the batch.
Flush(b) == jobs' = Append(jobs, b) /\ batch' = <<>>

\* The first request of a batch; the limits are not looked at.
CollectFirst ==
  /\ LoopRuns /\ collector = "running" /\ batch = <<>> /\ queue # <<>>
  /\ batch' = <<Head(queue)>> /\ queue' = Tail(queue)
  /\ UNCHANGED <<clientVars, future, collector, pool, poolVars, scheduled, answers>>

\* A further request.  full: max_batch_bytes is reached; lengths are not modelled.
CollectNext(full) ==
  /\ LoopRuns /\ collector = "running" /\ batch # <<>> /\ queue # <<>>
  /\ queue' = Tail(queue)
  /\ LET b == Append(batch, Head(queue)) IN
       IF Len(b) >= MaxBatchSize \/ full THEN Flush(b) ELSE batch' = b /\ UNCHANGED jobs
  /\ UNCHANGED <<clientVars, future, collector, pool, thread, log, raised, faults, scheduled, answers>>

\* Mutant: a batch of one is not worth a flush.
MutTimeout ==
  /\ LoopRuns /\ collector = "running" /\ Len(batch) > 1
  /\ Flush(batch)
  /\ UNCHANGED <<clientVars, future, queue, collector, pool, thread, log, raised, faults, scheduled, answers>>

\* max_batch_wait is over (also with requests in the queue: wait_for may give up
\* before it looks).
Timeout ==
  /\ LoopRuns /\ collector = "running" /\ batch # <<>>
  /\ Flush(batch)
  /\ UNCHANGED <<clientVars, future, queue, collector, pool, thread, log, raised, faults, scheduled, answers>>

(***************************************************************************)
(* Pool threads: _flush_batch                                              *)
(***************************************************************************)
Begin(t) ==
  /\ t \in pool /\ thread[t] = Free /\ jobs # <<>>
  /\ thread' = [thread EXCEPT ![t] = [reqs |-> Head(jobs), offsets |-> <<>>]]
  /\ jobs' = Tail(jobs)
  /\ UNCHANGED <<clientVars, future, writerVars, pool, log, raised, faults, scheduled, answers>>

\* The batch has a message that is not appended yet.
Appending(t) == Len(thread[t].offsets) < Len(thread[t].reqs)

\* One message of append_batch, under the topic's lock.
AppendMessage(t) ==
  /\ Appending(t)
  /\ log' = Append(log, thread[t].reqs[Len(thread[t].offsets) + 1])
  /\ thread' = [thread EXCEPT ![t].offsets = Append(@, Len(log) + 1)]
  /\ UNCHANGED <<clientVars, future, writerVars, pool, jobs, raised, faults, scheduled, answers>>

\* append_batch raises: the exception stays in the executor's future, which nobody
\* reads, and with it the offsets of the messages that were appended.
AppendRaises(t) ==
  /\ Appending(t) /\ faults < MaxFaults
  /\ faults' = faults + 1
  /\ raised' = raised \cup {thread[t].reqs[i] : i \in 1..Len(thread[t].reqs)}
  /\ thread' = [thread EXCEPT ![t] = Free]
  /\ UNCHANGED <<clientVars, future, writerVars, pool, jobs, log, scheduled, answers>>

\* Mutant: every callback of the batch gets its last offset.
MutResults(t) ==
  {<<thread[t].reqs[i], thread[t].offsets[Len(thread[t].offsets)]>> :
     i \in {j \in 1..Len(thread[t].reqs) : future[thread[t].reqs[j]] # "none"}}

\* zip(offsets, batch), without the requests that have no callback.
Results(t) ==
  {<<thread[t].reqs[i], thread[t].offsets[i]>> :
     i \in {j \in 1..Len(thread[t].reqs) : future[thread[t].reqs[j]] # "none"}}

\* call_soon_threadsafe for every callback of the batch.
Schedule(t) ==
  /\ thread[t] # Free /\ ~Appending(t)
  /\ scheduled' = scheduled \cup Results(t)
  /\ thread' = [thread EXCEPT ![t] = Free]
  /\ UNCHANGED <<clientVars, future, writerVars, pool, jobs, log, raised, faults, answers>>

\* The event loop calls set_result; on a cancelled future that raises, which the
\* loop logs.
SetResult ==
  /\ LoopRuns
  /\ \E s \in scheduled :
       /\ scheduled' = scheduled \ {s}
       /\ IF future[s[1]] = "pending"
          THEN /\ future' = [future EXCEPT ![s[1]] = "result"]
               /\ answers' = answers \cup {s}
          ELSE UNCHANGED <<future, answers>>
  /\ UNCHANGED <<clientVars, writerVars, pool, poolVars>>

(***************************************************************************)
(* Broker.close                                                            *)
(***************************************************************************)

\* running = False; then the controller connection is closed, during which the
\* handlers go on to the end of the command they are waiting for or working on.
CloseBegin ==
  /\ phase = "running" /\ phase' = "stopping"
  /\ UNCHANGED <<handler, awaits, future, writerVars, pool, poolVars, scheduled, answers>>

\* Mutant: the handlers are not cancelled, only awaited if they are done.
MutCancelHandlers ==
  /\ phase = "stopping" /\ phase' = "cancelled"
  /\ UNCHANGED <<handler, awaits, future, writerVars, pool, poolVars, scheduled, answers>>

\* Every handler is cancelled, and with it the future it awaits.
CancelHandlers ==
  /\ phase = "stopping" /\ phase' = "cancelled"
  /\ handler' = [c \in Clients |-> IF handler[c] = "dead" THEN "dead" ELSE "left"]
  /\ awaits' = [c \in Clients |-> 0]
  /\ future' = [r \in 1..Len(future) |->
                  IF future[r] = "pending" /\ \E c \in Clients : awaits[c] = r
                  THEN "cancelled" ELSE future[r]]
  /\ UNCHANGED <<writerVars, pool, poolVars, scheduled, answers>>

\* `await task` raises what a dead handler raised: close ends here.
JoinRaises ==
  /\ phase = "cancelled" /\ \E c \in Clients : handler[c] = "dead"
  /\ phase' = "aborted"
  /\ UNCHANGED <<handler, awaits, future, writerVars, pool, poolVars, scheduled, answers>>

\* set_exception raises for a callback that is done or cancelled already.
Undrainable == {i \in 1..Len(queue) : future[queue[i]] \notin {"none", "pending"}}

\* Writer.close up to the shutdown of the executor: the collector is cancelled
\* with the batch it holds, and the queue is drained.
CloseWriter ==
  /\ phase = "cancelled" /\ \A c \in Clients : handler[c] # "dead"
  /\ collector' = "cancelled" /\ batch' = <<>>
  /\ \E last \in 0..Len(queue) :
       /\ IF Undrainable = {} THEN last = Len(queue)
          ELSE last \in Undrainable /\ \A i \in Undrainable : last <= i
       /\ queue' = SubSeq(queue, last + 1, Len(queue))
       /\ future' = [r \in 1..Len(future) |->
                       IF future[r] = "pending" /\ \E i \in 1..last : queue[i] = r
                       THEN "failed" ELSE future[r]]
  /\ phase' = IF Undrainable = {} THEN "shutdown" ELSE "aborted"
  /\ UNCHANGED <<handler, awaits, pool, poolVars, scheduled, answers>>

\* Mutant: close also waits for the callbacks, which the blocked loop cannot run.
MutShutdownDone ==
  /\ phase = "shutdown" /\ jobs = <<>> /\ \A t \in Workers : thread[t] = Free
  /\ scheduled = {}
  /\ phase' = "closed"
  /\ UNCHANGED <<handler, awaits, future, writerVars, pool, poolVars, scheduled, answers>>

\* The executor has finished every batch.
ShutdownDone ==
  /\ phase = "shutdown" /\ jobs = <<>> /\ \A t \in Workers : thread[t] = Free
  /\ phase' = "closed"
  /\ UNCHANGED <<handler, awaits, future, writerVars, pool, poolVars, scheduled, answers>>

Collects == CollectFirst \/ Timeout \/ \E full \in BOOLEAN : CollectNext(full)

ThreadStep(t) == Begin(t) \/ AppendMessage(t) \/ AppendRaises(t) \/ Schedule(t)

CloseStep == CancelHandlers \/ JoinRaises \/ CloseWriter \/ ShutdownDone

Next ==
  \/ \E c \in Clients :
       \/ Register(c) \/ Leave(c) \/ Die(c) \/ Resume(c) \/ Replicated(c)
       \/ \E acks \in {0, 1} : Publish(c, acks)
  \/ Collects \/ SetResult \/ CloseBegin \/ CloseStep
  \/ \E t \in Workers : ThreadStep(t)

Spec == Init /\ [][Next]_vars

\* The event loop runs what is ready and the operating system every thread; the
\* wait for a batch is bounded.  Nothing is assumed of clients.
Fairness ==
  /\ WF_vars(Collects) /\ WF_vars(SetResult) /\ WF_vars(CloseStep)
  /\ \A t \in Workers : WF_vars(ThreadStep(t))

FairSpec == Spec /\ Fairness

-----------------------------------------------------------------------------
TypeOK ==
  /\ handler \in [Clients -> {"new", "ready", "waiting", "replicating", "left", "dead"}]
  /\ awaits \in [Clients -> Nat]
  /\ phase \in {"running", "stopping", "cancelled", "shutdown", "closed", "aborted"}
  /\ future \in Seq({"none", "pending", "result", "cancelled", "failed"})
  /\ queue \in Seq(Nat) /\ batch \in Seq(Nat)
  /\ collector \in {"none", "running", "cancelled"}
  /\ pool \in SUBSET Workers
  /\ jobs \in Seq(Seq(Nat))
  /\ thread \in [Workers -> [reqs : Seq(Nat), offsets : Seq(Nat)]]
  /\ log \in Seq(Nat)
  /\ scheduled \subseteq Nat \X Nat /\ answers \subseteq Nat \X Nat
  /\ raised \subseteq Nat /\ faults \in Nat

\* Where request r is between submit and the log.
Places(r) ==
  {<<"queue", i>> : i \in {j \in 1..Len(queue) : queue[j] = r}}
  \cup {<<"batch", i>> : i \in {j \in 1..Len(batch) : batch[j] = r}}
  \cup (UNION {{<<"job", n, i>> : i \in {j \in 1..Len(jobs[n]) : jobs[n][j] = r}} : n \in 1..Len(jobs)})
  \cup (UNION {{<<t, i>> : i \in {j \in (Len(thread[t].offsets) + 1)..Len(thread[t].reqs) :
                                     thread[t].reqs[j] = r}} : t \in Workers})
  \cup {<<"log", i>> : i \in {j \in 1..Len(log) : log[j] = r}}

\* A submitted message is in exactly one place on its way into the log, so it is
\* appended once; only a raising append_batch or the cancelled collector of
\* Writer.close may lose it, and nothing duplicates it.
Conserved ==
  \A r \in 1..Len(future) :
    \/ Cardinality(Places(r)) = 1
    \/ Places(r) = {} /\ (r \in raised \/ collector = "cancelled")

\* The offset a publisher is told is where its own message lies, whichever threads
\* appended whichever batches in between.
OffsetIsOwn == \A a \in answers : a[2] \in 1..Len(log) /\ log[a[2]] = a[1]

\* With one pool thread the log has the messages in the order of their submission
\* (with several, batches of one topic overtake each other).
OneThreadKeepsOrder ==
  Cardinality(pool) = 1 => \A i, j \in 1..Len(log) : i < j => log[i] < log[j]

\* When Broker.close returns no publisher is left waiting: the handlers were
\* cancelled before the writer threw away the batch in the collector's hands.
ClosedLeavesNone ==
  phase = "closed" => \A r \in 1..Len(future) : future[r] # "pending"

\* A publisher waits for a callback, and append_batch did not raise for its batch.
Waits(r) == r <= Len(future) /\ future[r] = "pending" /\ r \notin raised

\* Every publisher that waits gets its offset or is cancelled by close, unless
\* append_batch raised for its batch.
Answered == \A r \in 1..MaxRequests : Waits(r) ~> ~Waits(r)

\* Broker.close ends: the pool's threads do not need the event loop, which
\* executor.shutdown blocks.
CloseEnds == phase = "stopping" ~> phase \in {"closed", "aborted"}
=============================================================================
