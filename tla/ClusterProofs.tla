----------------------------- MODULE ClusterProofs -----------------------------
(***************************************************************************)
(* The controller's metastore under any number of brokers, connections,    *)
(* faults and commands.                                                    *)
(*                                                                         *)
(* Every step of a coroutine ends in one of a few parts, DisconnectNext,   *)
(* Writes, Broadcast or AnswerAndBroadcast, and all of them keep watch:    *)
(* a broker that had an entry in active_brokers keeps it, or the coroutine *)
(* itself is now waiting to deregister it.                                 *)
(***************************************************************************)
EXTENDS Cluster, MetastoreProofs, WellFoundedInduction

\* A coroutine's place and its locals.
TaskRecords == [pc     : {"unused", "read", "answering", "sending", "closing", "done"},
                broker : Brokers \cup {NoBroker},
                lost   : Brokers \cup {NoBroker},
                dests  : SUBSET Conns,
                failed : Seq(Brokers),
                todo   : Seq(Brokers),
                next   : {"read", "done"}]

Entries == [Brokers -> Conns \cup {NoConn}]

Typed ==
  /\ nodes \in SUBSET Brokers
  /\ topic \in TopicMetadata \cup {NoTopic}
  /\ active \in Entries
  /\ task \in [Tasks -> TaskRecords]
  /\ dialled \in [Brokers -> Nat]

\* t waits for b's connection to close and then deregisters it.
Removes(t, b) == task[t].pc = "closing" /\ task[t].lost = b

\* The rest of t's step, after which active_brokers was act, loses sight of nobody.
KeepsWatch(t, act) ==
  /\ active' \in Entries
  /\ task' \in [Tasks -> TaskRecords]
  /\ \A u \in Tasks : u # t => task'[u] = task[u]
  /\ \A b \in Brokers : act[b] # NoConn => active'[b] # NoConn \/ Removes(t, b)'

\* A connection has no handler before it is dialled.
Undialled == \A c \in Conns : dialled[c[1]] < c[2] => task[c].pc = "unused"

ClusterInv == Typed /\ Undialled /\ ReplicasRegistered /\ RegisteredIsWatched

-----------------------------------------------------------------------------
\* A connection belongs to a broker.
LEMMA ConnOfBroker ==
  ASSUME NEW c \in Conns
  PROVE  c[1] \in Brokers /\ c # NoConn /\ c \in Tasks
<1>1. PICK b \in Brokers : c \in {b} \X (1..MaxConns[b])
  BY DEF Conns
<1>2. c[1] = b
  BY <1>1
<1> QED
  BY <1>2, ControllerAssumption DEF Tasks

\* The ring names every broker, so there are finitely many.
LEMMA BrokersFinite == IsFiniteSet(Brokers)
<1> DEFINE n == Len(RingOrder)
           place == [b \in Brokers |-> CHOOSE i \in 1..n : RingOrder[i] = b]
<1>1. n \in Nat /\ DOMAIN RingOrder = 1..n
  BY MetastoreAssumption
<1>2. \A b \in Brokers : \E i \in 1..n : RingOrder[i] = b
  BY <1>1, MetastoreAssumption DEF Contains
<1>3. \A b \in Brokers : place[b] \in 1..n /\ RingOrder[place[b]] = b
  BY <1>2
<1> HIDE DEF place
<1>4. place \in Injection(Brokers, 1..n)
  <2>1. place \in [Brokers -> 1..n]
    BY <1>3 DEF place
  <2>2. \A a, b \in Brokers : place[a] = place[b] => a = b
    BY <1>3
  <2> QED
    BY <2>1, <2>2, Fun_IsInj
<1>5. IsFiniteSet(1..n)
  BY <1>1, FS_Interval
<1> QED
  BY <1>4, <1>5, FS_Injection

\* The brokers _heartbeat_checker_loop found, in the order it takes them.
LEMMA OrderTyped ==
  ASSUME NEW S \in SUBSET Brokers, NEW order \in SetToSeqs(S)
  PROVE  order \in Seq(Brokers)
<1>1. IsFiniteSet(S) /\ Cardinality(S) \in Nat
  BY BrokersFinite, FS_Subset, FS_CardinalityType
<1>2. order \in [1..Cardinality(S) -> S]
  BY DEF SetToSeqs
<1>3. order \in [1..Cardinality(S) -> Brokers]
  BY <1>2
<1> QED
  BY <1>1, <1>3

\* A new coroutine's locals.
LEMMA NewTaskTyped == NewTask \in TaskRecords
<1>1. <<>> \in Seq(Brokers) /\ {} \in SUBSET Conns
  OBVIOUS
<1> QED
  BY <1>1 DEF NewTask, TaskRecords

\* A coroutine's fields after an assignment to some of them.
LEMMA RecordUpdates ==
  ASSUME NEW r \in TaskRecords
  PROVE  /\ \A pc \in {"unused", "read", "answering", "sending", "closing", "done"} :
              [r EXCEPT !.pc = pc] \in TaskRecords
         /\ \A b \in Brokers \cup {NoBroker} : [r EXCEPT !.broker = b] \in TaskRecords
         /\ \A b \in Brokers \cup {NoBroker} : [r EXCEPT !.lost = b] \in TaskRecords
         /\ \A D \in SUBSET Conns : [r EXCEPT !.dests = D] \in TaskRecords
         /\ \A q \in Seq(Brokers) : [r EXCEPT !.failed = q] \in TaskRecords
         /\ \A q \in Seq(Brokers) : [r EXCEPT !.todo = q] \in TaskRecords
         /\ [r EXCEPT !.next = "done"] \in TaskRecords
BY DEF TaskRecords

\* A non-empty set of naturals has a least element.
LEMMA MinIsIn ==
  ASSUME NEW S \in SUBSET Nat, S # {}
  PROVE  Min(S) \in S
<1>1. PICK x \in S : \A y \in S : ~(<<y, x>> \in OpToRel(<, Nat))
  BY WFMin, NatLessThanWellFounded
<1>2. ASSUME NEW y \in S PROVE ~(y < x)
  BY <1>1, Zenon DEF OpToRel
<1>3. \A y \in S : x =< y
  BY <1>2
<1>4. \E z \in S : \A y \in S : z =< y
  BY <1>3
<1> QED
  BY <1>4, Zenon DEF Min

-----------------------------------------------------------------------------
\* A coroutine that goes on without taking an entry.
LEMMA MovesOn ==
  ASSUME Typed, NEW t \in Tasks, NEW r \in TaskRecords, NEW act \in Entries,
         task' = [task EXCEPT ![t] = r], active' = act
  PROVE  KeepsWatch(t, act)
BY DEF Typed, KeepsWatch

\* _handle_broker_disconnect: the one whose entry is taken is removed by the
\* coroutine that took it.
LEMMA DisconnectKeepsWatch ==
  ASSUME Typed, NEW t \in Tasks, NEW r \in TaskRecords, NEW act \in Entries,
         DisconnectNext(t, r, act)
  PROVE  KeepsWatch(t, act)
<1> DEFINE entries == {i \in DOMAIN r.todo : act[r.todo[i]] # NoConn}
           i == Min(entries)
           b == r.todo[i]
           left == SubSeq(r.todo, i + 1, Len(r.todo))
           done == [NewTask EXCEPT !.pc = r.next, !.broker = r.broker]
           closing == [r EXCEPT !.pc = "closing", !.lost = b, !.todo = left]
<1>1. r.todo \in Seq(Brokers) /\ r.next \in {"read", "done"} /\ r.broker \in Brokers \cup {NoBroker}
  BY DEF TaskRecords
<1>2. CASE entries = {}
  <2>1. task' = [task EXCEPT ![t] = done] /\ active' = act
    BY <1>2 DEF DisconnectNext
  <2>2. done \in TaskRecords
    <3>1. [NewTask EXCEPT !.pc = r.next] \in TaskRecords
      BY <1>1, NewTaskTyped, RecordUpdates
    <3>2. done = [[NewTask EXCEPT !.pc = r.next] EXCEPT !.broker = r.broker]
      OBVIOUS
    <3> QED
      BY <1>1, <3>1, <3>2, RecordUpdates
  <2> HIDE DEF done
  <2> QED
    BY <2>1, <2>2, MovesOn
<1>3. CASE entries # {}
  <2>1. /\ task' = [task EXCEPT ![t] = closing]
        /\ active' = [act EXCEPT ![b] = NoConn]
    BY <1>3 DEF DisconnectNext
  <2>2. i \in entries
    <3>1. entries \in SUBSET Nat
      BY <1>1
    <3> HIDE DEF entries
    <3> QED
      BY <1>3, <3>1, MinIsIn
  <2> HIDE DEF i
  <2>3. i \in 1..Len(r.todo) /\ b \in Brokers
    BY <1>1, <2>2
  <2>4. left \in Seq(Brokers)
    BY <1>1, <2>3
  <2> HIDE DEF b, left
  <2>5. closing \in TaskRecords /\ closing.pc = "closing" /\ closing.lost = b
    <3>1. PICK r1 \in TaskRecords : r1 = [r EXCEPT !.pc = "closing"]
      BY RecordUpdates
    <3>2. PICK r2 \in TaskRecords : r2 = [r1 EXCEPT !.lost = b]
      BY <2>3, <3>1, RecordUpdates
    <3>3. PICK r3 \in TaskRecords : r3 = [r2 EXCEPT !.todo = left]
      BY <2>4, <3>2, RecordUpdates
    <3>4. r1.pc = "closing" /\ r2.pc = r1.pc /\ r2.lost = b /\ r3.pc = r2.pc /\ r3.lost = r2.lost
      BY <3>1, <3>2, <3>3 DEF TaskRecords
    <3>5. closing = r3
      BY <3>1, <3>2, <3>3
    <3> QED
      BY <3>3, <3>4, <3>5
  <2> HIDE DEF closing
  <2>6. /\ task' \in [Tasks -> TaskRecords] /\ task'[t] = closing
        /\ \A u \in Tasks : u # t => task'[u] = task[u]
    BY <2>1, <2>5 DEF Typed
  <2>7. active' \in Entries /\ \A a \in Brokers : a # b => active'[a] = act[a]
    BY <2>1, <2>3 DEF Entries
  <2>8. Removes(t, b)'
    BY <2>5, <2>6 DEF Removes
  <2> QED
    BY <2>6, <2>7, <2>8 DEF KeepsWatch
<1> QED
  BY <1>2, <1>3

\* The writes of a broadcast.
LEMMA WritesKeepWatch ==
  ASSUME Typed, NEW t \in Tasks, NEW r \in TaskRecords, NEW act \in Entries,
         NEW answered, Writes(t, r, act, answered)
  PROVE  KeepsWatch(t, act)
<1>1. r.failed \in Seq(Brokers) /\ r.todo \in Seq(Brokers) /\ r.dests \in SUBSET Conns
  BY DEF TaskRecords
<1>2. ASSUME DisconnectNext(t, [r EXCEPT !.dests = {}, !.failed = <<>>, !.todo = r.failed \o @], act)
      PROVE  KeepsWatch(t, act)
  <2> DEFINE todo == r.failed \o r.todo
             sent == [r EXCEPT !.dests = {}, !.failed = <<>>, !.todo = todo]
  <2>1. todo \in Seq(Brokers) /\ <<>> \in Seq(Brokers) /\ {} \in SUBSET Conns
    BY <1>1
  <2>2. DisconnectNext(t, sent, act)
    BY <1>2
  <2> HIDE DEF todo
  <2>3. sent \in TaskRecords
    <3>1. PICK r1 \in TaskRecords : r1 = [r EXCEPT !.dests = {}]
      BY <2>1, RecordUpdates
    <3>2. PICK r2 \in TaskRecords : r2 = [r1 EXCEPT !.failed = <<>>]
      BY <2>1, RecordUpdates
    <3>3. PICK r3 \in TaskRecords : r3 = [r2 EXCEPT !.todo = todo]
      BY <2>1, RecordUpdates
    <3>4. sent = r3
      BY <3>1, <3>2, <3>3
    <3> QED
      BY <3>4
  <2> HIDE DEF sent
  <2> QED
    BY <2>2, <2>3, DisconnectKeepsWatch
<1>3. ASSUME NEW c \in r.dests, NEW before \in SUBSET {d \in r.dests : open[d]}, NEW raised \in BOOLEAN,
             task' = [task EXCEPT ![t] = [r EXCEPT !.pc = "sending",
                        !.dests = @ \ (before \cup {c}),
                        !.failed = IF raised THEN Append(@, c[1]) ELSE @]],
             active' = act
      PROVE  KeepsWatch(t, act)
  <2> DEFINE dests == r.dests \ (before \cup {c})
             failed == IF raised THEN Append(r.failed, c[1]) ELSE r.failed
             rest == [r EXCEPT !.pc = "sending", !.dests = dests, !.failed = failed]
  <2>1. dests \in SUBSET Conns
    BY <1>1
  <2>2. failed \in Seq(Brokers)
    <3>1. c[1] \in Brokers
      BY <1>1, ConnOfBroker
    <3> QED
      BY <1>1, <3>1
  <2>3. task' = [task EXCEPT ![t] = rest]
    BY <1>3
  <2> HIDE DEF dests, failed
  <2>4. rest \in TaskRecords
    <3>1. PICK r1 \in TaskRecords : r1 = [r EXCEPT !.pc = "sending"]
      BY RecordUpdates
    <3>2. PICK r2 \in TaskRecords : r2 = [r1 EXCEPT !.dests = dests]
      BY <2>1, RecordUpdates
    <3>3. PICK r3 \in TaskRecords : r3 = [r2 EXCEPT !.failed = failed]
      BY <2>2, RecordUpdates
    <3>4. rest = r3
      BY <3>1, <3>2, <3>3
    <3> QED
      BY <3>4
  <2> HIDE DEF rest
  <2> QED
    BY <1>3, <2>3, <2>4, MovesOn
<1> QED
  BY <1>2, <1>3, Zenon DEF Writes

\* broadcast_metadata.
LEMMA BroadcastKeepsWatch ==
  ASSUME Typed, NEW t \in Tasks, NEW r \in TaskRecords, NEW act \in Entries,
         NEW answered, Broadcast(t, r, act, answered)
  PROVE  KeepsWatch(t, act)
<1> DEFINE dests == {act[b] : b \in Brokers} \ {NoConn}
<1>1. dests \in SUBSET Conns
  BY DEF Entries
<1>2. Writes(t, [r EXCEPT !.dests = dests], act, answered)
  BY DEF Broadcast
<1> HIDE DEF dests
<1>3. PICK r1 \in TaskRecords : r1 = [r EXCEPT !.dests = dests]
  BY <1>1, RecordUpdates
<1> QED
  BY <1>2, <1>3, WritesKeepWatch

\* The answer to a command, and the broadcast after it.
LEMMA AnswerKeepsWatch ==
  ASSUME Typed, NEW c \in Conns, NEW r \in TaskRecords, NEW act \in Entries,
         NEW answered, AnswerAndBroadcast(c, r, act, answered)
  PROVE  KeepsWatch(c, act)
<1>1. c \in Tasks
  BY ConnOfBroker
<1>2. CASE open[c]
  BY <1>1, <1>2, BroadcastKeepsWatch DEF AnswerAndBroadcast
<1>3. CASE ~open[c]
  <2>1. PICK r1 \in TaskRecords : r1 = [r EXCEPT !.pc = "answering"]
    BY RecordUpdates
  <2> QED
    BY <1>1, <1>3, <2>1, MovesOn DEF AnswerAndBroadcast
<1> QED
  BY <1>2, <1>3

\* The end of a handler.
LEMMA FinallyKeepsWatch ==
  ASSUME Typed, NEW c \in Conns, Finally(c)
  PROVE  KeepsWatch(c, active)
<1> DEFINE b == task[c].broker
           r == [NewTask EXCEPT !.broker = b, !.next = "done"]
<1>1. c \in Tasks /\ b \in Brokers \cup {NoBroker} /\ active \in Entries
  BY ConnOfBroker DEF Typed, TaskRecords
<1>2. r \in TaskRecords
  <2>1. PICK r1 \in TaskRecords : r1 = [NewTask EXCEPT !.broker = b]
    BY <1>1, NewTaskTyped, RecordUpdates
  <2>2. PICK r2 \in TaskRecords : r2 = [r1 EXCEPT !.next = "done"]
    BY RecordUpdates
  <2> QED
    BY <2>1, <2>2
<1>3. CASE b = NoBroker
  <2>1. task' = [task EXCEPT ![c] = [r EXCEPT !.pc = "done"]] /\ active' = active
    BY <1>3 DEF Finally
  <2> HIDE DEF r
  <2>2. PICK r1 \in TaskRecords : r1 = [r EXCEPT !.pc = "done"]
    BY <1>2, RecordUpdates
  <2> QED
    BY <1>1, <2>1, <2>2, MovesOn
<1>4. CASE b # NoBroker
  <2>1. DisconnectNext(c, [r EXCEPT !.todo = <<b>>], active)
    BY <1>4 DEF Finally
  <2> HIDE DEF r
  <2>2. <<b>> \in Seq(Brokers)
    BY <1>1, <1>4
  <2>3. PICK r1 \in TaskRecords : r1 = [r EXCEPT !.todo = <<b>>]
    BY <1>2, <2>2, RecordUpdates
  <2> QED
    BY <1>1, <2>1, <2>3, DisconnectKeepsWatch
<1> QED
  BY <1>3, <1>4

-----------------------------------------------------------------------------
\* A step of coroutine t that keeps watch, and after which every registered broker
\* has an entry or was registered before and is not the one t was removing.
LEMMA CoroutineStep ==
  ASSUME ClusterInv, NEW t \in Tasks, task[t].pc # "unused", NEW act \in Entries, KeepsWatch(t, act),
         dialled' = dialled, nodes' \in SUBSET Brokers, topic' \in TopicMetadata \cup {NoTopic},
         ReplicasRegistered',
         \A b \in nodes' : \/ act[b] # NoConn
                           \/ b \in nodes /\ ~Removes(t, b) /\ act[b] = active[b]
  PROVE  ClusterInv'
<1>1. Typed'
  BY DEF ClusterInv, Typed, KeepsWatch
<1>2. Undialled'
  <2> SUFFICES ASSUME NEW c \in Conns, dialled[c[1]] < c[2] PROVE task'[c].pc = "unused"
    BY DEF Undialled
  <2>1. task[c].pc = "unused"
    BY DEF ClusterInv, Undialled
  <2>2. c # t /\ c \in Tasks
    BY <2>1, ConnOfBroker
  <2> QED
    BY <2>1, <2>2 DEF KeepsWatch
<1>3. RegisteredIsWatched'
  <2> SUFFICES ASSUME NEW b \in nodes'
               PROVE  active'[b] # NoConn \/ \E u \in Tasks : Removes(u, b)'
    BY DEF RegisteredIsWatched, Removes
  <2>1. b \in Brokers
    OBVIOUS
  <2>2. CASE act[b] # NoConn
    BY <2>1, <2>2 DEF KeepsWatch
  <2>3. CASE b \in nodes /\ ~Removes(t, b) /\ act[b] = active[b] /\ act[b] = NoConn
    <3>1. PICK u \in Tasks : Removes(u, b)
      BY <2>3 DEF ClusterInv, RegisteredIsWatched, Removes
    <3>2. u # t /\ task'[u] = task[u]
      BY <2>3, <3>1 DEF KeepsWatch
    <3> QED
      BY <3>1, <3>2 DEF Removes
  <2> QED
    BY <2>2, <2>3
<1> QED
  BY <1>1, <1>2, <1>3 DEF ClusterInv

\* A step that leaves the metastore alone, of a coroutine that removes nobody.
LEMMA QuietStep ==
  ASSUME ClusterInv, NEW t \in Tasks, task[t].pc \notin {"unused", "closing"}, KeepsWatch(t, active),
         UNCHANGED <<dialled, nodes, topic>>
  PROVE  ClusterInv'
<1>1. /\ active \in Entries /\ nodes' \in SUBSET Brokers /\ topic' \in TopicMetadata \cup {NoTopic}
      /\ ReplicasRegistered' /\ task[t].pc # "unused"
  BY DEF ClusterInv, Typed, ReplicasRegistered
<1>2. \A b \in nodes' : b \in nodes /\ ~Removes(t, b)
  BY DEF Removes
<1> QED
  BY <1>1, <1>2, CoroutineStep

\* BrokerRegisterCommand.
LEMMA RegisterStep ==
  ASSUME ClusterInv, NEW c \in Conns, Register(c), dialled' = dialled
  PROVE  ClusterInv'
<1> DEFINE b == c[1]
           act == [active EXCEPT ![b] = c]
           r == [task[c] EXCEPT !.broker = b]
<1>1. b \in Brokers /\ c # NoConn /\ c \in Tasks
  BY ConnOfBroker
<1>2. /\ task[c].pc = "read" /\ nodes' = nodes \cup {b} /\ topic' = topic
      /\ AnswerAndBroadcast(c, r, act, {c})
  BY DEF Register, Takes
<1>3. act \in Entries /\ act[b] # NoConn /\ \A a \in Brokers : a # b => act[a] = active[a]
  BY <1>1 DEF ClusterInv, Typed, Entries
<1>4. PICK r1 \in TaskRecords : r1 = r
  <2>1. task[c] \in TaskRecords
    BY <1>1 DEF ClusterInv, Typed
  <2> QED
    BY <1>1, <2>1, RecordUpdates
<1> HIDE DEF r, act, b
<1>5. KeepsWatch(c, act)
  BY <1>2, <1>3, <1>4, AnswerKeepsWatch DEF ClusterInv
<1>6. nodes' \in SUBSET Brokers /\ topic' \in TopicMetadata \cup {NoTopic} /\ ReplicasRegistered'
  BY <1>1, <1>2 DEF ClusterInv, Typed, ReplicasRegistered
<1>7. \A a \in nodes' : act[a] # NoConn \/ (a \in nodes /\ ~Removes(c, a) /\ act[a] = active[a])
  BY <1>2, <1>3 DEF Removes, ClusterInv, Typed
<1> QED
  BY <1>1, <1>2, <1>3, <1>5, <1>6, <1>7, CoroutineStep

\* RegisterTopicCommand: the replicas of a new topic come from the ring.
LEMMA RegisterTopicStep ==
  ASSUME ClusterInv, NEW c \in Conns, RegisterTopic(c), dialled' = dialled
  PROVE  ClusterInv'
<1>1. c \in Tasks /\ task[c] \in TaskRecords /\ active \in Entries /\ nodes \in SUBSET Brokers
  BY ConnOfBroker DEF ClusterInv, Typed
<1>2. /\ task[c].pc = "read" /\ nodes' = nodes
      /\ topic' = IF topic = NoTopic THEN NewTopic(nodes) ELSE topic
      /\ AnswerAndBroadcast(c, task[c], active, {})
  BY DEF RegisterTopic, Takes
<1>3. KeepsWatch(c, active)
  BY <1>1, <1>2, AnswerKeepsWatch DEF ClusterInv
<1>4. topic' \in TopicMetadata \cup {NoTopic} /\ ReplicasRegistered'
  <2>1. CASE topic = NoTopic
    BY <1>1, <1>2, <2>1, NewTopicType DEF ReplicasRegistered
  <2>2. CASE topic # NoTopic
    BY <1>2, <2>2 DEF ClusterInv, Typed, ReplicasRegistered
  <2> QED
    BY <2>1, <2>2
<1>5. \A b \in nodes' : b \in nodes /\ ~Removes(c, b)
  BY <1>2 DEF Removes
<1> QED
  BY <1>1, <1>2, <1>3, <1>4, <1>5, CoroutineStep

\* ControllerPingCommand: an entry stays an entry.
LEMMA PingStep ==
  ASSUME ClusterInv, NEW c \in Conns, Ping(c), dialled' = dialled
  PROVE  ClusterInv'
<1>1. c[1] \in Brokers /\ c # NoConn /\ c \in Tasks /\ task[c].pc = "read"
  BY ConnOfBroker DEF Ping, Takes
<1>2. /\ UNCHANGED <<nodes, topic, task>>
      /\ active' = [active EXCEPT ![c[1]] = IF @ = NoConn THEN NoConn ELSE c]
  BY DEF Ping
<1>3. active' \in Entries /\ \A b \in Brokers : active[b] # NoConn => active'[b] # NoConn
  BY <1>1, <1>2 DEF ClusterInv, Typed, Entries
<1>4. KeepsWatch(c, active)
  BY <1>2, <1>3 DEF KeepsWatch, ClusterInv, Typed
<1> QED
  BY <1>1, <1>2, <1>4, QuietStep

\* deregister_broker takes the broker out of the metastore and out of the topic
\* in one step.
LEMMA DeregisterStep ==
  ASSUME ClusterInv, NEW t \in Tasks, Deregister(t), dialled' = dialled
  PROVE  ClusterInv'
<1> DEFINE b == task[t].lost
           r == [task[t] EXCEPT !.lost = NoBroker]
<1>1. task[t] \in TaskRecords /\ active \in Entries /\ nodes \in SUBSET Brokers
  BY DEF ClusterInv, Typed
<1>2. /\ task[t].pc = "closing" /\ nodes' = nodes \ {b}
      /\ topic' = IF topic # NoTopic /\ NeedsUpdate(topic, b) THEN AfterLoss(topic, b, nodes', nodes') ELSE topic
      /\ Broadcast(t, r, active, {})
  BY DEF Deregister
<1>3. PICK r1 \in TaskRecords : r1 = r
  BY <1>1, RecordUpdates
<1> HIDE DEF r
<1>4. KeepsWatch(t, active)
  BY <1>1, <1>2, <1>3, BroadcastKeepsWatch DEF ClusterInv
<1>5. nodes' \in SUBSET Brokers
  BY <1>1, <1>2
<1>6. topic' \in TopicMetadata \cup {NoTopic} /\ ReplicasRegistered'
  <2>1. CASE topic = NoTopic
    BY <1>2, <2>1 DEF ReplicasRegistered
  <2>2. CASE topic # NoTopic
    <3>1. topic \in TopicMetadata /\ ToSet(topic.replicas) \subseteq nodes
      BY <2>2 DEF ClusterInv, Typed, ReplicasRegistered
    <3>2. CASE NeedsUpdate(topic, b)
      <4>1. topic' = AfterLoss(topic, b, nodes', nodes')
        BY <1>2, <2>2, <3>2
      <4>2. /\ topic' \in TopicMetadata
            /\ ToSet(topic'.replicas) \subseteq (ToSet(topic.replicas) \ {b}) \cup nodes'
        BY <1>5, <3>1, <4>1, LossType
      <4> QED
        BY <1>2, <3>1, <4>2 DEF ReplicasRegistered
    <3>3. CASE ~NeedsUpdate(topic, b)
      <4>1. topic' = topic /\ b \notin ToSet(topic.replicas)
        <5>1. topic.replicas \in Seq(Brokers)
          BY <3>1 DEF TopicMetadata
        <5> QED
          BY <1>2, <3>3, <5>1 DEF NeedsUpdate, Contains, ToSet
      <4> QED
        BY <1>2, <3>1, <4>1 DEF ReplicasRegistered
    <3> QED
      BY <3>2, <3>3
  <2> QED
    BY <2>1, <2>2
<1>7. \A a \in nodes' : a \in nodes /\ ~Removes(t, a)
  BY <1>2 DEF Removes
<1> QED
  BY <1>1, <1>2, <1>4, <1>5, <1>6, <1>7, CoroutineStep

\* A new connection starts a handler that was not there before.
LEMMA DialStep ==
  ASSUME ClusterInv, NEW b \in Brokers, Dial(b)
  PROVE  ClusterInv'
<1> DEFINE c == <<b, dialled[b] + 1>>
<1>1. /\ dialled[b] \in Nat /\ dialled[b] < MaxConns[b] /\ MaxConns[b] \in Nat
      /\ dialled' = [dialled EXCEPT ![b] = dialled[b] + 1]
      /\ task' = [task EXCEPT ![c].pc = "read"]
      /\ UNCHANGED <<nodes, topic, active>>
  BY ControllerAssumption DEF Dial, ClusterInv, Typed
<1>2. c \in Conns /\ c[1] = b /\ c[2] = dialled[b] + 1
  <2>1. c \in {b} \X (1..MaxConns[b])
    BY <1>1
  <2> QED
    BY <2>1 DEF Conns
<1> HIDE DEF c
<1>3. c \in Tasks /\ task[c] \in TaskRecords /\ task[c].pc = "unused"
  BY <1>1, <1>2, ConnOfBroker DEF ClusterInv, Typed, Undialled
<1>4. PICK r \in TaskRecords : r = [task[c] EXCEPT !.pc = "read"]
  BY <1>3, RecordUpdates
<1>5. /\ task' \in [Tasks -> TaskRecords]
      /\ \A u \in Tasks : u # c => task'[u] = task[u]
  BY <1>1, <1>3, <1>4 DEF ClusterInv, Typed
<1>6. Typed'
  BY <1>1, <1>5 DEF ClusterInv, Typed
<1>7. Undialled'
  <2> SUFFICES ASSUME NEW d \in Conns, dialled'[d[1]] < d[2] PROVE task'[d].pc = "unused"
    BY DEF Undialled
  <2>1. PICK a \in Brokers : d \in {a} \X (1..MaxConns[a])
    BY DEF Conns
  <2>2. d[1] = a /\ d[2] \in Nat /\ d \in Tasks
    BY <2>1, ConnOfBroker, ControllerAssumption
  <2>3. dialled[a] \in Nat /\ dialled[a] <= dialled'[a] /\ dialled'[a] \in Nat
    BY <1>1 DEF ClusterInv, Typed
  <2>4. task[d].pc = "unused"
    BY <2>2, <2>3 DEF ClusterInv, Undialled
  <2>5. d # c
    BY <1>1, <1>2, <2>2, <2>3 DEF ClusterInv, Typed
  <2> QED
    BY <1>5, <2>2, <2>4, <2>5
<1>8. ReplicasRegistered'
  BY <1>1 DEF ClusterInv, ReplicasRegistered
<1>9. RegisteredIsWatched'
  <2> SUFFICES ASSUME NEW a \in nodes, active[a] = NoConn
               PROVE  \E u \in Tasks : task'[u].pc = "closing" /\ task'[u].lost = a
    BY <1>1 DEF RegisteredIsWatched
  <2>1. PICK u \in Tasks : task[u].pc = "closing" /\ task[u].lost = a
    BY DEF ClusterInv, RegisteredIsWatched
  <2> QED
    BY <1>3, <1>5, <2>1
<1> QED
  BY <1>6, <1>7, <1>8, <1>9 DEF ClusterInv

\* The other steps of brokers and of the network.
LEMMA OutsideStep ==
  ASSUME ClusterInv, UNCHANGED <<nodes, topic, active, task, dialled>>
  PROVE  ClusterInv'
BY DEF ClusterInv, Typed, Undialled, ReplicasRegistered, RegisteredIsWatched

\* Every step keeps the invariant.
LEMMA NextClusterInv == ClusterInv /\ [Next]_vars => ClusterInv'
<1> SUFFICES ASSUME ClusterInv, [Next]_vars PROVE ClusterInv'
  OBVIOUS
<1>0. active \in Entries /\ \A t \in Tasks : task[t] \in TaskRecords
  BY DEF ClusterInv, Typed
<1>1. CASE UNCHANGED vars
  BY <1>1, OutsideStep DEF vars, controllerVars, connVars
<1>2. ASSUME NEW c \in Conns, HandlerInputEnds(c) PROVE ClusterInv'
  <2>1. Finally(c) /\ task[c].pc = "read" /\ UNCHANGED <<dialled, nodes, topic>>
    BY <1>2 DEF HandlerInputEnds, InputEnds, connVars
  <2> QED
    BY <2>1, ConnOfBroker, FinallyKeepsWatch, QuietStep DEF ClusterInv
<1>3. ASSUME HeartbeatChecker PROVE ClusterInv'
  <2>1. PICK stale \in SUBSET Brokers : \E order \in SetToSeqs(stale) : CheckHeartbeats(order)
    BY <1>3 DEF HeartbeatChecker
  <2>2. PICK order \in SetToSeqs(stale) : CheckHeartbeats(order)
    BY <2>1
  <2>3. Checker \in Tasks /\ task[Checker].pc = "read" /\ UNCHANGED <<dialled, nodes, topic>>
    BY <1>3, <2>2 DEF CheckHeartbeats, HeartbeatChecker, connVars, Tasks
  <2>4. order \in Seq(Brokers)
    BY OrderTyped
  <2>5. PICK r \in TaskRecords : r = [task[Checker] EXCEPT !.todo = order]
    BY <1>0, <2>3, <2>4, RecordUpdates
  <2>6. DisconnectNext(Checker, r, active)
    BY <2>2, <2>5 DEF CheckHeartbeats
  <2>7. KeepsWatch(Checker, active)
    BY <1>0, <2>3, <2>6, DisconnectKeepsWatch DEF ClusterInv
  <2> QED
    BY <2>3, <2>7, QuietStep
<1>4. ASSUME NEW t \in Tasks, ControllerRuns(t) PROVE ClusterInv'
  <2>1. ControllerStep(t) /\ dialled' = dialled
    BY <1>4 DEF ControllerRuns, connVars
  <2>2. ASSUME t \in Conns, Answered(t) PROVE ClusterInv'
    BY <1>0, <2>1, <2>2, BroadcastKeepsWatch, QuietStep DEF Answered, ClusterInv
  <2>3. ASSUME t \in Conns, AnswerRaises(t) PROVE ClusterInv'
    BY <2>1, <2>3, FinallyKeepsWatch, QuietStep DEF AnswerRaises, ClusterInv
  <2>4. ASSUME SendsOn(t) PROVE ClusterInv'
    BY <1>0, <2>1, <2>4, WritesKeepWatch, QuietStep DEF SendsOn, ClusterInv
  <2> QED
    BY <2>1, <2>2, <2>3, <2>4, RegisterStep, RegisterTopicStep, PingStep, DeregisterStep DEF ControllerStep
<1>5. ASSUME NEW b \in Brokers, BrokerNext(b) PROVE ClusterInv'
  <2>1. Dial(b) \/ UNCHANGED <<nodes, topic, active, task, dialled>>
    BY <1>5 DEF BrokerNext, BrokerRuns, TrySucceeds, TryFails, TryRaises, Exit, HandleDisconnect,
                SendCommand, Crash, Restart, controllerVars, connVars
  <2> QED
    BY <2>1, DialStep, OutsideStep
<1>6. ASSUME NEW c \in Conns, LoseConnection(c) PROVE ClusterInv'
  BY <1>6, OutsideStep DEF LoseConnection, connVars
<1> QED
  BY <1>1, <1>2, <1>3, <1>4, <1>5, <1>6 DEF Next, ControllerNext

\* Nobody is registered at the start.
LEMMA InitClusterInv == Init => ClusterInv
<1> SUFFICES ASSUME Init PROVE ClusterInv
  OBVIOUS
<1>1. PICK r \in TaskRecords : r = [NewTask EXCEPT !.pc = "read"]
  BY NewTaskTyped, RecordUpdates
<1>2. Typed
  BY <1>1, NewTaskTyped DEF Init, ControllerInit, Typed, Entries
<1>3. Undialled
  <2> SUFFICES ASSUME NEW c \in Conns PROVE task[c].pc = "unused"
    BY DEF Undialled
  <2>1. c \in Tasks /\ c # Checker
    BY ConnOfBroker, ControllerAssumption
  <2> QED
    BY <2>1 DEF Init, ControllerInit, NewTask
<1> QED
  BY <1>2, <1>3 DEF Init, ControllerInit, ClusterInv, ReplicasRegistered, RegisteredIsWatched

\* The invariant holds in every state.
LEMMA ClusterInvariant == Spec => []ClusterInv
BY InitClusterInv, NextClusterInv, PTL DEF Spec

\* Between any two steps of the controller's coroutines, the replicas of the topic
\* are registered brokers.
THEOREM ReplicasAreRegistered == Spec => []ReplicasRegistered
<1>1. ClusterInv => ReplicasRegistered
  BY DEF ClusterInv
<1> QED
  BY <1>1, ClusterInvariant, PTL

\* However a broker's connections overlap, fail and are closed, a registered broker
\* has an entry in active_brokers or a coroutine that is about to deregister it:
\* nobody stays in the metastore unwatched.
THEOREM RegisteredAreWatched == Spec => []RegisteredIsWatched
<1>1. ClusterInv => RegisteredIsWatched
  BY DEF ClusterInv
<1> QED
  BY <1>1, ClusterInvariant, PTL
=============================================================================
