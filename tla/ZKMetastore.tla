----------------------------- MODULE ZKMetastore -----------------------------
(***************************************************************************)
(* MetastoreManager over ZKMetastoreStorage (controller                    *)
(* metastore/manager.py, metastore/storage.py): the znodes of brokers and  *)
(* of one topic, the hash ring in the leader's memory, and coroutines of   *)
(* the leader's handlers between whose ZooKeeper calls others run.         *)
(*                                                                         *)
(* A call takes effect at ZooKeeper in one step and its coroutine goes on  *)
(* in another.  A failover starts a new manager over the same znodes.      *)
(***************************************************************************)
EXTENDS Metastore

CONSTANTS
  Tasks,         \* coroutines that may be in the manager at once
  IsrLists,      \* lists an ISRChange may carry
  MaxOps,        \* bound: operations begun
  MaxFailovers   \* bound: failovers

ASSUME ZKAssumption == MaxOps \in Nat /\ MaxFailovers \in Nat /\ IsrLists \subseteq Seq(Brokers)

VARIABLES
  nodes,      \* znodes under /pylogstream/brokers
  topic,      \* the znode under /pylogstream/topics
  ring,       \* members of manager.ring
  active,     \* brokers with an entry in active_brokers
  op,         \* what each coroutine is doing in the manager
  ops, failovers,
  disturbed,  \* history: brokers two of whose operations overlapped
  orphans,    \* history: brokers whose node is of the time before a failover
  raced       \* history: a write of the topic may rest on an overtaken read

storage == <<nodes, topic>>
history == <<disturbed, orphans, raced>>
vars == <<storage, ring, active, op, ops, failovers, history>>

\* An operation, nothing read so far: meta is for the topic's metadata and listed for
\* get_all_nodes; isr is the list of an ISRChange.
Operation(kind, pc, b, isr) ==
  [kind |-> kind, pc |-> pc, b |-> b, meta |-> NoTopic, listed |-> {}, isr |-> isr]

Idle == Operation("none", "idle", NoBroker, <<>>)

Init ==
  /\ nodes = {} /\ topic = NoTopic /\ ring = {} /\ active = {}
  /\ op = [t \in Tasks |-> Idle]
  /\ ops = 0 /\ failovers = 0
  /\ disturbed = {} /\ orphans = {} /\ raced = FALSE

\* The coroutines other than t that are in an operation of one of these kinds.
Others(t, kinds) == {u \in Tasks \ {t} : op[u].kind \in kinds}

\* History of t beginning an operation of this kind, for broker b.
Noted(t, kind, b) ==
  LET ofBroker == kind \in {"register", "lose"}
      overlaps == ofBroker /\ \E u \in Others(t, {"register", "lose"}) : op[u].b = b
  IN  /\ disturbed' = IF overlaps THEN disturbed \cup {b}
                      ELSE IF ofBroker THEN disturbed \ {b} ELSE disturbed
      /\ orphans' = IF ofBroker THEN orphans \ {b} ELSE orphans
      /\ raced' = \/ raced \/ overlaps
                  \/ kind # "register" /\ Others(t, {"lose", "topic", "isr"}) # {}

At(t, pc) == op[t].pc = pc
Goto(t, pc) == op' = [op EXCEPT ![t].pc = pc]
Done(t) == op' = [op EXCEPT ![t] = Idle]

\* t's coroutine goes on to pc with this metadata and node list in hand.
Holding(t, meta, listed, pc) ==
  LET o == op[t]
  IN  op' = [op EXCEPT ![t] = [kind |-> o.kind, pc |-> pc, b |-> o.b,
                               meta |-> meta, listed |-> listed, isr |-> o.isr]]

Begin(t, kind, pc, b, isr) ==
  /\ At(t, "idle") /\ ops < MaxOps
  /\ ops' = ops + 1
  /\ op' = [op EXCEPT ![t] = Operation(kind, pc, b, isr)]
  /\ Noted(t, kind, b)
  /\ UNCHANGED <<storage, ring, failovers>>

\* The handler's exception ends in _handle_broker_disconnect of its broker.
HandlerEnds(t) ==
  LET b == op[t].b
  IN  IF b \in active
      THEN /\ active' = active \ {b}
           /\ op' = [op EXCEPT ![t] = Operation("lose", "delete", b, <<>>)]
           /\ Noted(t, "lose", b)
      ELSE Done(t) /\ UNCHANGED <<active, history>>

-----------------------------------------------------------------------------
(* register_broker *)

Register(t, b) == Begin(t, "register", "create", b, <<>>) /\ active' = active \cup {b}

\* add_node creates the node or is told that it exists.
CreateNode(t) ==
  /\ At(t, "create")
  /\ nodes' = nodes \cup {op[t].b}
  /\ Goto(t, IF op[t].b \in nodes THEN "set" ELSE "ringAdd")
  /\ UNCHANGED <<topic, ring, active, ops, failovers, history>>

\* set, which raises if the node has gone.
SetNode(t) ==
  /\ At(t, "set")
  /\ IF op[t].b \in nodes
     THEN Goto(t, "ringAdd") /\ UNCHANGED <<active, history>>
     ELSE HandlerEnds(t)
  /\ UNCHANGED <<storage, ring, ops, failovers>>

\* The answer and the broadcast only read.
RingAdd(t) ==
  /\ At(t, "ringAdd")
  /\ ring' = ring \cup {op[t].b} /\ Done(t)
  /\ UNCHANGED <<storage, active, ops, failovers, history>>

-----------------------------------------------------------------------------
(* deregister_broker *)

\* _handle_broker_disconnect, by the handler, the heartbeat checker or a broadcast.
Lose(t, b) ==
  /\ b \in active /\ active' = active \ {b}
  /\ Begin(t, "lose", "delete", b, <<>>)

DeleteNode(t) ==
  /\ At(t, "delete")
  /\ nodes' = nodes \ {op[t].b} /\ Goto(t, "ringRemove")
  /\ UNCHANGED <<topic, ring, active, ops, failovers, history>>

\* Mutant: the broker stays in the ring.
MutRingRemove(t) ==
  /\ At(t, "ringRemove") /\ Goto(t, "topics")
  /\ UNCHANGED <<storage, ring, active, ops, failovers, history>>

RingRemove(t) ==
  /\ At(t, "ringRemove")
  /\ ring' = ring \ {op[t].b} /\ Goto(t, "topics")
  /\ UNCHANGED <<storage, active, ops, failovers, history>>

\* get_all_topics, then get_all_nodes.
ReadTopics(t) ==
  /\ At(t, "topics")
  /\ Holding(t, topic, {}, "nodes")
  /\ UNCHANGED <<storage, ring, active, ops, failovers, history>>

ReadNodes(t) ==
  /\ At(t, "nodes")
  /\ Holding(t, op[t].meta, nodes, "loss")
  /\ UNCHANGED <<storage, ring, active, ops, failovers, history>>

\* The loop body: what the topic becomes, from what was read and today's ring.
ComputeLoss(t) ==
  LET o == op[t]
  IN
  /\ At(t, "loss")
  /\ IF o.meta # NoTopic /\ NeedsUpdate(o.meta, o.b)
     THEN Holding(t, AfterLoss(o.meta, o.b, ring, o.listed), {}, "write")
     ELSE Done(t)
  /\ UNCHANGED <<storage, ring, active, ops, failovers, history>>

\* update_topic: the topic exists, since nothing removes one.
WriteTopic(t) ==
  /\ At(t, "write")
  /\ topic' = op[t].meta /\ Done(t)
  /\ UNCHANGED <<nodes, ring, active, ops, failovers, history>>

-----------------------------------------------------------------------------
(* register_topic and update_topic_isr *)

\* RegisterTopicCommand on the connection of b.
RegisterTopic(t, b) ==
  /\ b \in active /\ Begin(t, "topic", "getTopic", b, <<>>)
  /\ UNCHANGED active

GetTopic(t) ==
  /\ At(t, "getTopic")
  /\ IF topic = NoTopic THEN Goto(t, "newTopic") ELSE Done(t)
  /\ UNCHANGED <<storage, ring, active, ops, failovers, history>>

ComputeTopic(t) ==
  /\ At(t, "newTopic")
  /\ Holding(t, NewTopic(ring), {}, "addTopic")
  /\ UNCHANGED <<storage, ring, active, ops, failovers, history>>

\* Mutant: an existing topic is set, as add_node does with a broker.
MutAddTopic(t) ==
  /\ At(t, "addTopic")
  /\ topic' = op[t].meta /\ Done(t)
  /\ UNCHANGED <<nodes, ring, active, ops, failovers, history>>

\* add_topic; a topic that exists by now is a ValueError, which costs the broker
\* its connection.
AddTopic(t) ==
  /\ At(t, "addTopic")
  /\ IF topic = NoTopic
     THEN topic' = op[t].meta /\ Done(t) /\ UNCHANGED <<active, history>>
     ELSE HandlerEnds(t) /\ UNCHANGED topic
  /\ UNCHANGED <<nodes, ring, ops, failovers>>

\* ISRChangeCommand.
IsrChange(t, isr) == Begin(t, "isr", "getIsr", NoBroker, isr) /\ UNCHANGED active

ReadForIsr(t) ==
  /\ At(t, "getIsr")
  /\ IF topic = NoTopic THEN Done(t) ELSE Holding(t, topic, {}, "isr")
  /\ UNCHANGED <<storage, ring, active, ops, failovers, history>>

ComputeIsr(t) ==
  /\ At(t, "isr")
  /\ Holding(t, WithIsr(op[t].meta, op[t].isr, ring), {}, "write")
  /\ UNCHANGED <<storage, ring, active, ops, failovers, history>>

-----------------------------------------------------------------------------
\* Another controller is elected: nothing but the znodes is left.
Failover ==
  /\ failovers < MaxFailovers /\ failovers' = failovers + 1
  /\ ring' = {} /\ active' = {}
  /\ op' = [t \in Tasks |-> Idle]
  /\ disturbed' = {} /\ orphans' = nodes
  /\ raced' = (raced \/ \E t \in Tasks : op[t].kind = "lose")
  /\ UNCHANGED <<storage, ops>>

Step(t) ==
  \/ CreateNode(t) \/ SetNode(t) \/ RingAdd(t)
  \/ DeleteNode(t) \/ RingRemove(t) \/ ReadTopics(t) \/ ReadNodes(t) \/ ComputeLoss(t)
  \/ WriteTopic(t)
  \/ GetTopic(t) \/ ComputeTopic(t) \/ AddTopic(t) \/ ReadForIsr(t) \/ ComputeIsr(t)

Next ==
  \/ Failover
  \/ \E t \in Tasks :
       \/ Step(t)
       \/ \E b \in Brokers : Register(t, b) \/ Lose(t, b) \/ RegisterTopic(t, b)
       \/ \E isr \in IsrLists : IsrChange(t, isr)

Spec == Init /\ [][Next]_vars

-----------------------------------------------------------------------------
TypeOK ==
  /\ nodes \subseteq Brokers /\ ring \subseteq Brokers /\ active \subseteq Brokers
  /\ disturbed \subseteq Brokers /\ orphans \subseteq Brokers /\ raced \in BOOLEAN
  /\ ops \in Nat /\ failovers \in Nat
  /\ \A t \in Tasks :
       \/ op[t].kind = "none" /\ op[t].pc = "idle"
       \/ op[t].kind = "isr" /\ op[t].pc \in {"getIsr", "isr", "write"}
       \/ /\ op[t].b \in Brokers
          /\ \/ op[t].kind = "register" /\ op[t].pc \in {"create", "set", "ringAdd"}
             \/ /\ op[t].kind = "lose"
                /\ op[t].pc \in {"delete", "ringRemove", "topics", "nodes", "loss", "write"}
             \/ op[t].kind = "topic" /\ op[t].pc \in {"getTopic", "newTopic", "addTopic"}

\* The ring has exactly the brokers that have a node, but for those a failover
\* left without a place in it, whenever no operation of the broker is going on
\* and its last ones did not overlap (as those of an old and a new connection
\* may, which leaves a ring member without a node or the reverse).
RingAgrees ==
  \A b \in Brokers \ disturbed :
    (\A t \in Tasks : op[t].kind \in {"register", "lose"} => op[t].b # b)
      => (b \in ring <=> b \in nodes \ orphans)

\* A topic names only brokers with a node as its replicas, unless two operations
\* that write it overlapped or a failover cut a deregister_broker short.
ReplicasRegistered ==
  (topic # NoTopic /\ ~raced /\ \A t \in Tasks : op[t].kind # "lose")
    => \A i \in DOMAIN topic.replicas : topic.replicas[i] \in nodes

\* A topic is created once, whoever registers it at the same time: only a topic
\* that does not exist gets version 1, and every later write counts on from the
\* version it replaces unless it was overtaken.
WritesSuccessive ==
  [][topic' # topic =>
       IF topic = NoTopic THEN topic'.version = 1
       ELSE topic'.version > 1 /\ (raced \/ topic'.version = topic.version + 1)]_vars
=============================================================================
