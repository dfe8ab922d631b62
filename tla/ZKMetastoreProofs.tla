-------------------------- MODULE ZKMetastoreProofs --------------------------
(***************************************************************************)
(* The ring of the leading controller and the broker znodes agree,         *)
(* replicas have nodes and topic versions count on, for any brokers,       *)
(* coroutines and bounds.                                                  *)
(*                                                                         *)
(* Settled follows a broker through its operation.  TopicInv is about the  *)
(* topic: what a coroutine holds in hand fits the topic in the store as    *)
(* long as nobody else writes it.                                          *)
(***************************************************************************)
EXTENDS ZKMetastore, MetastoreProofs

\* op is a function on Tasks to records with these fields.
OpShape ==
  op = [t \in Tasks |-> [kind |-> op[t].kind, pc |-> op[t].pc, b |-> op[t].b,
                         meta |-> op[t].meta, listed |-> op[t].listed, isr |-> op[t].isr]]

\* t's coroutine comes to stand here, the others stay where they are.
Moves(t, kind, pc, b) ==
  /\ op'[t].kind = kind /\ op'[t].pc = pc /\ op'[t].b = b
  /\ \A u \in Tasks \ {t} : op'[u] = op[u]

Busy(t, b) == op[t].kind \in {"register", "lose"} /\ op[t].b = b

\* What is known of a broker whose last operations did not overlap: at most one
\* coroutine is at work on it, and the ring and the node are as far as it has come.
Settled(b) ==
  b \notin disturbed =>
    /\ \A t, u \in Tasks : Busy(t, b) /\ Busy(u, b) => t = u
    /\ \A t \in Tasks : Busy(t, b) =>
         /\ b \notin orphans
         /\ op[t].pc \in {"set", "ringAdd"} => b \in nodes
         /\ op[t].pc = "ringRemove" => b \notin nodes
         /\ op[t].pc \in {"topics", "nodes", "loss", "write"} => b \notin nodes /\ b \notin ring
    /\ (\A t \in Tasks : ~Busy(t, b)) => (b \in ring <=> b \in nodes \ orphans)

IInv == OpShape /\ TypeOK /\ \A b \in Brokers : Settled(b)

-----------------------------------------------------------------------------
LEMMA GotoMoves ==
  ASSUME OpShape, NEW t \in Tasks, NEW pc, Goto(t, pc)
  PROVE  OpShape' /\ Moves(t, op[t].kind, pc, op[t].b)
  BY DEF OpShape, Goto, Moves

LEMMA SetMoves ==
  ASSUME OpShape, NEW t \in Tasks, NEW kind, NEW pc, NEW b, NEW meta, NEW listed, NEW isr,
         op' = [op EXCEPT ![t] = [kind |-> kind, pc |-> pc, b |-> b, meta |-> meta,
                                  listed |-> listed, isr |-> isr]]
  PROVE  OpShape' /\ Moves(t, kind, pc, b)
  BY DEF OpShape, Moves

LEMMA DoneMoves ==
  ASSUME OpShape, NEW t \in Tasks, Done(t)
  PROVE  OpShape' /\ Moves(t, "none", "idle", NoBroker)
  BY SetMoves DEF Done, Idle, Operation

LEMMA OperationMoves ==
  ASSUME OpShape, NEW t \in Tasks, NEW kind, NEW pc, NEW b, NEW isr,
         op' = [op EXCEPT ![t] = Operation(kind, pc, b, isr)]
  PROVE  OpShape' /\ Moves(t, kind, pc, b)
  BY SetMoves DEF Operation

LEMMA HoldingMoves ==
  ASSUME OpShape, NEW t \in Tasks, NEW meta, NEW listed, NEW pc, Holding(t, meta, listed, pc)
  PROVE  OpShape' /\ Moves(t, op[t].kind, pc, op[t].b)
  BY SetMoves DEF Holding

-----------------------------------------------------------------------------
(* The parts of the invariant about one broker b, step by step. *)

\* A coroutine begins an operation of broker c.
LEMMA NotedSettled ==
  ASSUME NEW t \in Tasks, NEW b \in Brokers, NEW c, NEW kind \in {"register", "lose"},
         NEW pc \in {"create", "delete"},
         Settled(b), Noted(t, kind, c), Moves(t, kind, pc, c), Busy(t, b) => b = c,
         UNCHANGED <<nodes, ring>>
  PROVE  Settled(b)'
<1>1. CASE b # c
  <2>1. b \in disturbed' <=> b \in disturbed
    BY <1>1 DEF Noted
  <2>2. b \in orphans' <=> b \in orphans
    BY <1>1 DEF Noted
  <2>3. ~Busy(t, b) /\ ~Busy(t, b)'
    BY <1>1 DEF Moves, Busy
  <2>4. \A u \in Tasks \ {t} : op'[u] = op[u]
    BY DEF Moves
  <2> QED BY <2>1, <2>2, <2>3, <2>4 DEF Settled, Busy
<1>2. CASE b = c /\ \E u \in Others(t, {"register", "lose"}) : op[u].b = c
  <2>1. b \in disturbed'
    BY <1>2 DEF Noted
  <2> QED BY <2>1 DEF Settled
<1>3. CASE b = c /\ ~\E u \in Others(t, {"register", "lose"}) : op[u].b = c
  <2>1. b \notin orphans'
    BY <1>3 DEF Noted
  <2>2. \A u \in Tasks : Busy(u, b)' => u = t
    BY <1>3 DEF Moves, Busy, Others
  <2>3. Busy(t, b)' /\ op'[t].pc \in {"create", "delete"}
    BY <1>3 DEF Moves, Busy
  <2> QED BY <2>1, <2>2, <2>3 DEF Settled
<1> QED BY <1>1, <1>2, <1>3

\* A coroutine that is not, and does not come to be, in an operation of a broker.
LEMMA QuietSettled ==
  ASSUME NEW t \in Tasks, NEW b \in Brokers, NEW kind, NEW pc, NEW c, Settled(b),
         Moves(t, kind, pc, c), kind \notin {"register", "lose"},
         op[t].kind \notin {"register", "lose"}, UNCHANGED <<nodes, ring, disturbed, orphans>>
  PROVE  Settled(b)'
<1>1. ~Busy(t, b) /\ ~Busy(t, b)'
  BY DEF Moves, Busy
<1>2. \A u \in Tasks \ {t} : op'[u] = op[u]
  BY DEF Moves
<1> QED BY <1>1, <1>2 DEF Settled, Busy

\* A coroutine in an operation of another broker.
LEMMA OtherSettled ==
  ASSUME NEW t \in Tasks, NEW b \in Brokers, NEW kind, NEW pc, NEW c, Settled(b),
         Moves(t, kind, pc, c), c # b, op[t].b # b, UNCHANGED <<disturbed, orphans>>,
         b \in nodes' <=> b \in nodes, b \in ring' <=> b \in ring
  PROVE  Settled(b)'
<1>1. ~Busy(t, b) /\ ~Busy(t, b)'
  BY DEF Moves, Busy
<1>2. \A u \in Tasks \ {t} : op'[u] = op[u]
  BY DEF Moves
<1> QED BY <1>1, <1>2 DEF Settled, Busy

\* A coroutine goes on in its operation of b, ...
LEMMA OwnSettled ==
  ASSUME NEW t \in Tasks, NEW b \in Brokers, NEW pc, Settled(b), Busy(t, b),
         Moves(t, op[t].kind, pc, b), UNCHANGED <<disturbed, orphans>>,
         b \notin disturbed =>
           /\ pc \in {"set", "ringAdd"} => b \in nodes'
           /\ pc = "ringRemove" => b \notin nodes'
           /\ pc \in {"topics", "nodes", "loss", "write"} => b \notin nodes' /\ b \notin ring'
  PROVE  Settled(b)'
<1> SUFFICES ASSUME b \notin disturbed' PROVE Settled(b)'
  BY DEF Settled
<1>1. Busy(t, b)' /\ op'[t].pc = pc
  BY DEF Moves, Busy
<1>2. \A u \in Tasks : Busy(u, b)' => u = t
  BY DEF Moves, Busy, Settled
<1>3. b \notin orphans'
  BY DEF Settled
<1> QED BY <1>1, <1>2, <1>3 DEF Settled

\* ... or comes to its end.
LEMMA DoneSettled ==
  ASSUME NEW t \in Tasks, NEW b \in Brokers, NEW pc, NEW c, Settled(b), Busy(t, b),
         Moves(t, "none", pc, c), UNCHANGED <<disturbed, orphans>>,
         b \notin disturbed => (b \in ring' <=> b \in nodes')
  PROVE  Settled(b)'
<1> SUFFICES ASSUME b \notin disturbed' PROVE Settled(b)'
  BY DEF Settled
<1>1. ~Busy(t, b)'
  BY DEF Moves, Busy
<1>2. \A u \in Tasks : ~Busy(u, b)'
  BY <1>1 DEF Moves, Busy, Settled
<1>3. b \notin orphans'
  BY DEF Settled
<1> QED BY <1>2, <1>3 DEF Settled

-----------------------------------------------------------------------------
(* The types. *)

Typed(kind, pc, b) ==
  \/ kind = "none" /\ pc = "idle"
  \/ kind = "isr" /\ pc \in {"getIsr", "isr", "write"}
  \/ /\ b \in Brokers
     /\ \/ kind = "register" /\ pc \in {"create", "set", "ringAdd"}
        \/ kind = "lose" /\ pc \in {"delete", "ringRemove", "topics", "nodes", "loss", "write"}
        \/ kind = "topic" /\ pc \in {"getTopic", "newTopic", "addTopic"}

SetsTyped ==
  /\ nodes \subseteq Brokers /\ ring \subseteq Brokers /\ active \subseteq Brokers
  /\ disturbed \subseteq Brokers /\ orphans \subseteq Brokers /\ raced \in BOOLEAN
  /\ ops \in Nat /\ failovers \in Nat

LEMMA TypeParts == TypeOK <=> SetsTyped /\ \A t \in Tasks : Typed(op[t].kind, op[t].pc, op[t].b)
  BY DEF TypeOK, SetsTyped, Typed

LEMMA MovesTyped ==
  ASSUME TypeOK, SetsTyped', NEW t \in Tasks, NEW kind, NEW pc, NEW b,
         Moves(t, kind, pc, b), Typed(kind, pc, b)
  PROVE  TypeOK'
<1>1. \A u \in Tasks : Typed(op[u].kind, op[u].pc, op[u].b)
  BY TypeParts
<1>2. \A u \in Tasks : Typed(op'[u].kind, op'[u].pc, op'[u].b)
  BY <1>1 DEF Moves
<1> QED BY <1>2 DEF TypeOK, SetsTyped, Typed

LEMMA NotedTyped ==
  ASSUME TypeOK, NEW t, NEW kind, NEW b \in Brokers \cup {NoBroker}, Noted(t, kind, b),
         kind \in {"register", "lose"} => b \in Brokers
  PROVE  disturbed' \subseteq Brokers /\ orphans' \subseteq Brokers /\ raced' \in BOOLEAN
<1>1. disturbed' \subseteq Brokers
  BY DEF Noted, TypeOK
<1>2. orphans' \subseteq Brokers
  BY DEF Noted, TypeOK
<1>3. raced' \in BOOLEAN
  BY Zenon DEF Noted, TypeOK
<1> QED BY <1>1, <1>2, <1>3

-----------------------------------------------------------------------------
(* The invariant, step by step. *)

LEMMA BeginBroker ==
  ASSUME IInv, NEW t \in Tasks, NEW c \in Brokers, NEW kind \in {"register", "lose"},
         NEW pc, NEW isr, <<kind, pc>> \in {<<"register", "create">>, <<"lose", "delete">>},
         Begin(t, kind, pc, c, isr), active' \subseteq Brokers
  PROVE  IInv'
<1>1. OpShape' /\ Moves(t, kind, pc, c) /\ op[t].pc = "idle"
  BY OperationMoves DEF IInv, Begin, At
<1>2. op[t].kind = "none"
  BY <1>1 DEF IInv, TypeOK
<1>3. Noted(t, kind, c) /\ UNCHANGED <<nodes, topic, ring, failovers>> /\ ops' = ops + 1
  BY DEF Begin, storage
<1>4. disturbed' \subseteq Brokers /\ orphans' \subseteq Brokers /\ raced' \in BOOLEAN
  BY <1>3, NotedTyped DEF IInv
<1>5. SetsTyped'
  BY <1>3, <1>4 DEF IInv, TypeOK, SetsTyped
<1>6. Typed(kind, pc, c)
  BY DEF Typed
<1>7. TypeOK'
  BY <1>1, <1>5, <1>6, MovesTyped DEF IInv
<1>8. ASSUME NEW b \in Brokers PROVE Settled(b)'
  <2>1. ~Busy(t, b)
    BY <1>2 DEF Busy
  <2>2. Settled(b) /\ pc \in {"create", "delete"}
    BY DEF IInv
  <2> QED BY <1>1, <1>3, <2>1, <2>2, NotedSettled
<1> QED BY <1>1, <1>7, <1>8 DEF IInv

LEMMA BeginTopic ==
  ASSUME IInv, NEW t \in Tasks, NEW c \in Brokers \cup {NoBroker}, NEW kind, NEW pc, NEW isr,
         Begin(t, kind, pc, c, isr), UNCHANGED active,
         \/ kind = "topic" /\ pc = "getTopic" /\ c \in Brokers
         \/ kind = "isr" /\ pc = "getIsr"
  PROVE  IInv'
<1>1. OpShape' /\ Moves(t, kind, pc, c) /\ op[t].pc = "idle"
  BY OperationMoves DEF IInv, Begin, At
<1>2. op[t].kind = "none"
  BY <1>1 DEF IInv, TypeOK
<1>3. Noted(t, kind, c) /\ UNCHANGED <<nodes, topic, ring, failovers>> /\ ops' = ops + 1
  BY DEF Begin, storage
<1>4. disturbed' \subseteq Brokers /\ orphans' \subseteq Brokers /\ raced' \in BOOLEAN
  BY <1>3, NotedTyped DEF IInv
<1>5. SetsTyped'
  BY <1>3, <1>4 DEF IInv, TypeOK, SetsTyped
<1>6. Typed(kind, pc, c)
  BY DEF Typed
<1>7. TypeOK'
  BY <1>1, <1>5, <1>6, MovesTyped DEF IInv
<1>8. UNCHANGED <<disturbed, orphans>>
  BY <1>3 DEF Noted
<1>9. ASSUME NEW b \in Brokers PROVE Settled(b)'
  <2>1. Settled(b)
    BY DEF IInv
  <2>2. kind \notin {"register", "lose"} /\ op[t].kind \notin {"register", "lose"}
    BY <1>2
  <2> QED BY <1>1, <1>3, <1>8, <2>1, <2>2, QuietSettled
<1> QED BY <1>1, <1>7, <1>9 DEF IInv

\* HandlerEnds, from an operation of c.
LEMMA EndsStep ==
  ASSUME IInv, NEW t \in Tasks, op[t].kind \in {"register", "topic"}, HandlerEnds(t),
         op[t].kind = "register" => op[t].b \notin nodes /\ op[t].pc = "set",
         UNCHANGED <<nodes, ring, ops, failovers>>
  PROVE  IInv'
<1> DEFINE c == op[t].b
<1>0. c \in Brokers
  BY DEF IInv, TypeOK
<1>1. CASE c \in active
  <2>1. OpShape' /\ Moves(t, "lose", "delete", c)
    BY <1>1, OperationMoves DEF IInv, HandlerEnds
  <2>2. Noted(t, "lose", c) /\ active' = active \ {c}
    BY <1>1 DEF HandlerEnds
  <2>3. disturbed' \subseteq Brokers /\ orphans' \subseteq Brokers /\ raced' \in BOOLEAN
    BY <1>0, <2>2, NotedTyped DEF IInv
  <2>4. SetsTyped'
    BY <2>2, <2>3 DEF IInv, TypeOK, SetsTyped
  <2>5. Typed("lose", "delete", c)
    BY <1>0 DEF Typed
  <2>6. TypeOK'
    BY <2>1, <2>4, <2>5, MovesTyped DEF IInv
  <2>7. ASSUME NEW b \in Brokers PROVE Settled(b)'
    <3>1. Settled(b) /\ (Busy(t, b) => b = c)
      BY DEF IInv, Busy
    <3> QED BY <2>1, <2>2, <3>1, NotedSettled
  <2> QED BY <2>1, <2>6, <2>7 DEF IInv
<1>2. CASE c \notin active
  <2>1. OpShape' /\ Moves(t, "none", "idle", NoBroker) /\ UNCHANGED <<active, disturbed, orphans, raced>>
    BY <1>2, DoneMoves DEF IInv, HandlerEnds, history
  <2>2. SetsTyped'
    BY <2>1 DEF IInv, TypeOK, SetsTyped
  <2>3. TypeOK'
    BY <2>1, <2>2, MovesTyped DEF IInv, Typed
  <2>4. ASSUME NEW b \in Brokers PROVE Settled(b)'
    <3>0. Settled(b)
      BY DEF IInv
    <3>1. CASE op[t].kind = "topic"
      BY <2>1, <3>0, <3>1, QuietSettled
    <3>2. CASE op[t].kind = "register" /\ b = c
      <4>1. Busy(t, b)
        BY <3>2 DEF Busy
      <4>2. b \in disturbed
        BY <3>0, <3>2, <4>1 DEF Settled
      <4> QED BY <2>1, <4>2 DEF Settled
    <3>3. CASE b # c
      <4>1. ~Busy(t, b) /\ ~Busy(t, b)' /\ \A u \in Tasks \ {t} : op'[u] = op[u]
        BY <2>1, <3>3 DEF Busy, Moves
      <4> QED BY <2>1, <3>0, <4>1 DEF Settled, Busy
    <3> QED BY <3>1, <3>2, <3>3
  <2> QED BY <2>1, <2>3, <2>4 DEF IInv
<1> QED BY <1>1, <1>2

\* A coroutine goes on in its operation of a broker, ...
LEMMA WorkStep ==
  ASSUME IInv, NEW t \in Tasks, NEW pc, op[t].kind \in {"register", "lose"},
         OpShape', Moves(t, op[t].kind, pc, op[t].b), Typed(op[t].kind, pc, op[t].b),
         UNCHANGED <<active, disturbed, orphans, raced, ops, failovers>>,
         nodes' \subseteq Brokers, ring' \subseteq Brokers,
         \A b \in Brokers \ {op[t].b} :
           (b \in nodes' <=> b \in nodes) /\ (b \in ring' <=> b \in ring),
         op[t].b \notin disturbed =>
           /\ pc \in {"set", "ringAdd"} => op[t].b \in nodes'
           /\ pc = "ringRemove" => op[t].b \notin nodes'
           /\ pc \in {"topics", "nodes", "loss", "write"} => op[t].b \notin nodes' /\ op[t].b \notin ring'
  PROVE  IInv'
<1>1. SetsTyped'
  BY DEF IInv, TypeOK, SetsTyped
<1>2. TypeOK'
  BY <1>1, MovesTyped DEF IInv
<1>3. ASSUME NEW b \in Brokers PROVE Settled(b)'
  <2>0. Settled(b)
    BY DEF IInv
  <2>1. CASE b = op[t].b
    <3>1. Busy(t, b)
      BY <2>1 DEF Busy
    <3> QED BY <2>0, <2>1, <3>1, OwnSettled
  <2>2. CASE b # op[t].b
    BY <2>0, <2>2, OtherSettled
  <2> QED BY <2>1, <2>2
<1> QED BY <1>2, <1>3 DEF IInv

\* ... or comes to its end.
LEMMA EndStep ==
  ASSUME IInv, NEW t \in Tasks, op[t].kind \in {"register", "lose"}, Done(t),
         UNCHANGED <<nodes, active, disturbed, orphans, raced, ops, failovers>>,
         ring' \subseteq Brokers,
         \A b \in Brokers \ {op[t].b} : b \in ring' <=> b \in ring,
         op[t].b \notin disturbed => (op[t].b \in ring' <=> op[t].b \in nodes)
  PROVE  IInv'
<1>0. OpShape' /\ Moves(t, "none", "idle", NoBroker)
  BY DoneMoves DEF IInv
<1>1. SetsTyped'
  BY DEF IInv, TypeOK, SetsTyped
<1>2. TypeOK'
  BY <1>0, <1>1, MovesTyped DEF IInv, Typed
<1>3. ASSUME NEW b \in Brokers PROVE Settled(b)'
  <2>0. Settled(b)
    BY DEF IInv
  <2>1. CASE b = op[t].b
    <3>1. Busy(t, b)
      BY <2>1 DEF Busy
    <3> QED BY <1>0, <2>0, <2>1, <3>1, DoneSettled
  <2>2. CASE b # op[t].b
    <3>1. NoBroker # b
      BY MetastoreAssumption
    <3> QED BY <1>0, <2>0, <2>2, <3>1, OtherSettled
  <2> QED BY <2>1, <2>2
<1> QED BY <1>0, <1>2, <1>3 DEF IInv

\* A coroutine in an operation of the topic.
LEMMA TopicStep ==
  ASSUME IInv, NEW t \in Tasks, NEW kind, NEW pc, NEW c, op[t].kind \in {"topic", "isr"},
         kind \notin {"register", "lose"},
         OpShape', Moves(t, kind, pc, c), Typed(kind, pc, c),
         UNCHANGED <<nodes, ring, active, disturbed, orphans, raced, ops, failovers>>
  PROVE  IInv'
<1>1. SetsTyped'
  BY DEF IInv, TypeOK, SetsTyped
<1>2. TypeOK'
  BY <1>1, MovesTyped DEF IInv
<1>3. ASSUME NEW b \in Brokers PROVE Settled(b)'
  <2>0. Settled(b) /\ op[t].kind \notin {"register", "lose"}
    BY DEF IInv
  <2> QED BY <2>0, QuietSettled
<1> QED BY <1>2, <1>3 DEF IInv

LEMMA FailoverStep == IInv /\ Failover => IInv'
<1> SUFFICES ASSUME IInv, Failover PROVE IInv'
  OBVIOUS
<1>1. \A t \in Tasks : op'[t].kind = "none" /\ op'[t].pc = "idle"
  BY DEF Failover, Idle, Operation
<1>2. OpShape'
  BY DEF Failover, OpShape, Idle, Operation
<1>3. /\ ring' = {} /\ active' = {} /\ nodes' = nodes /\ disturbed' = {} /\ orphans' = nodes
      /\ failovers' = failovers + 1 /\ ops' = ops
  BY DEF Failover, storage
<1>4. raced' \in BOOLEAN
  BY Zenon DEF Failover, IInv, TypeOK
<1>5. TypeOK'
  BY <1>1, <1>3, <1>4 DEF IInv, TypeOK
<1>6. \A b \in Brokers : Settled(b)'
  BY <1>1, <1>3 DEF Settled, Busy
<1> QED BY <1>2, <1>5, <1>6 DEF IInv

LEMMA StepIInv ==
  ASSUME IInv, NEW t \in Tasks, Step(t)
  PROVE  IInv'
<1> USE DEF IInv
<1> DEFINE c == op[t].b
<1>0. Typed(op[t].kind, op[t].pc, c)
  BY TypeParts
<1>1. op[t].kind \in {"register", "lose"} => c \in Brokers /\ Busy(t, c) /\ Settled(c)
  BY <1>0 DEF Typed, Busy
<1>2. CASE CreateNode(t)
  <2>1. op[t].kind = "register" /\ c \in Brokers
    BY <1>0, <1>2 DEF CreateNode, At, Typed
  <2>2. PICK pc \in {"set", "ringAdd"} : Goto(t, pc)
    BY <1>2 DEF CreateNode
  <2>3. OpShape' /\ Moves(t, op[t].kind, pc, c)
    BY <2>2, GotoMoves
  <2>4. /\ nodes' = nodes \cup {c} /\ ring' = ring
        /\ UNCHANGED <<active, disturbed, orphans, raced, ops, failovers>>
    BY <1>2 DEF CreateNode, history
  <2>5. nodes' \subseteq Brokers /\ ring' \subseteq Brokers
    BY <2>1, <2>4 DEF TypeOK
  <2>6. Typed(op[t].kind, pc, c)
    BY <2>1 DEF Typed
  <2> QED BY <2>1, <2>3, <2>4, <2>5, <2>6, WorkStep
<1>3. CASE SetNode(t)
  <2>1. op[t].kind = "register" /\ op[t].pc = "set" /\ c \in Brokers
    BY <1>0, <1>3 DEF SetNode, At, Typed
  <2>2. CASE c \in nodes
    <3>1. OpShape' /\ Moves(t, op[t].kind, "ringAdd", c)
      BY <1>3, <2>2, GotoMoves DEF SetNode
    <3>2. UNCHANGED <<nodes, ring, active, disturbed, orphans, raced, ops, failovers>>
      BY <1>3, <2>2 DEF SetNode, history, storage
    <3>3. nodes' \subseteq Brokers /\ ring' \subseteq Brokers /\ Typed(op[t].kind, "ringAdd", c)
      BY <2>1, <3>2 DEF TypeOK, Typed
    <3> QED BY <2>1, <2>2, <3>1, <3>2, <3>3, WorkStep
  <2>3. CASE c \notin nodes
    <3>1. HandlerEnds(t) /\ UNCHANGED <<nodes, ring, ops, failovers>>
      BY <1>3, <2>3 DEF SetNode, storage
    <3> QED BY <2>1, <2>3, <3>1, EndsStep
  <2> QED BY <2>2, <2>3
<1>4. CASE RingAdd(t)
  <2>1. op[t].kind = "register" /\ op[t].pc = "ringAdd" /\ c \in Brokers
    BY <1>0, <1>4 DEF RingAdd, At, Typed
  <2>2. /\ ring' = ring \cup {c} /\ Done(t)
        /\ UNCHANGED <<nodes, active, disturbed, orphans, raced, ops, failovers>>
    BY <1>4 DEF RingAdd, history, storage
  <2>3. c \notin disturbed => c \in nodes
    BY <1>1, <2>1 DEF Settled
  <2>4. ring' \subseteq Brokers
    BY <2>1, <2>2 DEF TypeOK
  <2> QED BY <2>1, <2>2, <2>3, <2>4, EndStep
<1>5. CASE DeleteNode(t)
  <2>1. op[t].kind = "lose" /\ c \in Brokers
    BY <1>0, <1>5 DEF DeleteNode, At, Typed
  <2>2. OpShape' /\ Moves(t, op[t].kind, "ringRemove", c)
    BY <1>5, GotoMoves DEF DeleteNode
  <2>3. /\ nodes' = nodes \ {c} /\ ring' = ring
        /\ UNCHANGED <<active, disturbed, orphans, raced, ops, failovers>>
    BY <1>5 DEF DeleteNode, history
  <2>4. nodes' \subseteq Brokers /\ ring' \subseteq Brokers /\ Typed(op[t].kind, "ringRemove", c)
    BY <2>1, <2>3 DEF TypeOK, Typed
  <2> QED BY <2>1, <2>2, <2>3, <2>4, WorkStep
<1>6. CASE RingRemove(t)
  <2>1. op[t].kind = "lose" /\ op[t].pc = "ringRemove" /\ c \in Brokers
    BY <1>0, <1>6 DEF RingRemove, At, Typed
  <2>2. OpShape' /\ Moves(t, op[t].kind, "topics", c)
    BY <1>6, GotoMoves DEF RingRemove
  <2>3. /\ ring' = ring \ {c}
        /\ UNCHANGED <<nodes, active, disturbed, orphans, raced, ops, failovers>>
    BY <1>6 DEF RingRemove, history, storage
  <2>4. c \notin disturbed => c \notin nodes
    BY <1>1, <2>1 DEF Settled
  <2>5. nodes' \subseteq Brokers /\ ring' \subseteq Brokers /\ Typed(op[t].kind, "topics", c)
    BY <2>1, <2>3 DEF TypeOK, Typed
  <2> QED BY <2>1, <2>2, <2>3, <2>4, <2>5, WorkStep
<1>7. ASSUME op[t].kind = "lose", op[t].pc \in {"topics", "nodes", "loss", "write"}
      PROVE  c \in Brokers /\ (c \notin disturbed => c \notin nodes /\ c \notin ring)
  BY <1>1, <1>7 DEF Settled
<1>8. ASSUME NEW pc \in {"nodes", "loss", "write"}, op[t].kind = "lose",
             op[t].pc \in {"topics", "nodes", "loss"},
             NEW meta, NEW listed, Holding(t, meta, listed, pc),
             UNCHANGED <<storage, ring, active, ops, failovers, history>>
      PROVE  IInv'
  <2>1. OpShape' /\ Moves(t, op[t].kind, pc, c)
    BY <1>8, HoldingMoves
  <2>2. UNCHANGED <<nodes, ring, active, disturbed, orphans, raced, ops, failovers>>
    BY <1>8 DEF history, storage
  <2>3. c \in Brokers /\ (c \notin disturbed => c \notin nodes /\ c \notin ring)
    BY <1>7, <1>8
  <2>4. nodes' \subseteq Brokers /\ ring' \subseteq Brokers /\ Typed(op[t].kind, pc, c)
    BY <1>8, <2>2, <2>3 DEF TypeOK, Typed
  <2> QED BY <1>8, <2>1, <2>2, <2>3, <2>4, WorkStep
<1>9. ASSUME op[t].kind = "lose", op[t].pc \in {"loss", "write"}, Done(t),
             UNCHANGED <<nodes, ring, active, ops, failovers, history>>
      PROVE  IInv'
  <2>1. UNCHANGED <<nodes, active, disturbed, orphans, raced, ops, failovers>> /\ ring' = ring
    BY <1>9 DEF history
  <2>2. c \notin disturbed => c \notin nodes /\ c \notin ring
    BY <1>7, <1>9
  <2>3. ring' \subseteq Brokers
    BY <2>1 DEF TypeOK
  <2> QED BY <1>9, <2>1, <2>2, <2>3, EndStep
<1>10. CASE ReadTopics(t)
  <2>1. op[t].kind = "lose" /\ op[t].pc = "topics"
    BY <1>0, <1>10 DEF ReadTopics, At, Typed
  <2> QED BY <1>8, <1>10, <2>1 DEF ReadTopics
<1>11. CASE ReadNodes(t)
  <2>1. op[t].kind = "lose" /\ op[t].pc = "nodes"
    BY <1>0, <1>11 DEF ReadNodes, At, Typed
  <2> QED BY <1>8, <1>11, <2>1 DEF ReadNodes
<1>12. CASE ComputeLoss(t)
  <2>1. op[t].kind = "lose" /\ op[t].pc = "loss"
    BY <1>0, <1>12 DEF ComputeLoss, At, Typed
  <2>2. CASE Done(t)
    BY <1>9, <1>12, <2>1, <2>2 DEF ComputeLoss, storage
  <2>3. CASE Holding(t, AfterLoss(op[t].meta, op[t].b, ring, op[t].listed), {}, "write")
    BY <1>8, <1>12, <2>1, <2>3 DEF ComputeLoss
  <2> QED BY <1>12, <2>2, <2>3 DEF ComputeLoss
<1>13. ASSUME op[t].kind \in {"topic", "isr"}, Done(t),
              UNCHANGED <<nodes, ring, active, ops, failovers, history>>
       PROVE  IInv'
  <2>1. OpShape' /\ Moves(t, "none", "idle", NoBroker)
    BY <1>13, DoneMoves
  <2>2. UNCHANGED <<nodes, ring, active, disturbed, orphans, raced, ops, failovers>>
    BY <1>13 DEF history
  <2>3. Typed("none", "idle", NoBroker)
    BY DEF Typed
  <2> QED BY <1>13, <2>1, <2>2, <2>3, TopicStep
<1>14. ASSUME op[t].kind \in {"topic", "isr"}, NEW pc, Moves(t, op[t].kind, pc, c), OpShape',
              op[t].kind = "topic" => pc \in {"newTopic", "addTopic"},
              op[t].kind = "isr" => pc \in {"isr", "write"},
              UNCHANGED <<nodes, ring, active, ops, failovers, history>>
       PROVE  IInv'
  <2>1. UNCHANGED <<nodes, ring, active, disturbed, orphans, raced, ops, failovers>>
    BY <1>14 DEF history
  <2>2. Typed(op[t].kind, pc, c)
    BY <1>0, <1>14 DEF Typed
  <2> QED BY <1>14, <2>1, <2>2, TopicStep
<1>15. CASE WriteTopic(t)
  <2>1. op[t].kind \in {"lose", "isr"} /\ op[t].pc = "write"
    BY <1>0, <1>15 DEF WriteTopic, At, Typed
  <2> QED BY <1>9, <1>13, <1>15, <2>1 DEF WriteTopic
<1>16. CASE GetTopic(t)
  <2>1. op[t].kind = "topic"
    BY <1>0, <1>16 DEF GetTopic, At, Typed
  <2>2. CASE topic = NoTopic
    <3>1. OpShape' /\ Moves(t, op[t].kind, "newTopic", c)
      BY <1>16, <2>2, GotoMoves DEF GetTopic
    <3> QED BY <1>14, <1>16, <2>1, <3>1 DEF GetTopic, storage
  <2>3. CASE topic # NoTopic
    BY <1>13, <1>16, <2>1, <2>3 DEF GetTopic, storage
  <2> QED BY <2>2, <2>3
<1>17. CASE ComputeTopic(t)
  <2>1. op[t].kind = "topic"
    BY <1>0, <1>17 DEF ComputeTopic, At, Typed
  <2>2. OpShape' /\ Moves(t, op[t].kind, "addTopic", c)
    BY <1>17, HoldingMoves DEF ComputeTopic
  <2> QED BY <1>14, <1>17, <2>1, <2>2 DEF ComputeTopic, storage
<1>18. CASE AddTopic(t)
  <2>1. op[t].kind = "topic"
    BY <1>0, <1>18 DEF AddTopic, At, Typed
  <2>2. CASE topic = NoTopic
    BY <1>13, <1>18, <2>1, <2>2 DEF AddTopic
  <2>3. CASE topic # NoTopic
    BY <1>18, <2>1, <2>3, EndsStep DEF AddTopic
  <2> QED BY <2>2, <2>3
<1>19. CASE ReadForIsr(t)
  <2>1. op[t].kind = "isr"
    BY <1>0, <1>19 DEF ReadForIsr, At, Typed
  <2>2. CASE topic = NoTopic
    BY <1>13, <1>19, <2>1, <2>2 DEF ReadForIsr, storage
  <2>3. CASE topic # NoTopic
    <3>1. OpShape' /\ Moves(t, op[t].kind, "isr", c)
      BY <1>19, <2>3, HoldingMoves DEF ReadForIsr
    <3> QED BY <1>14, <1>19, <2>1, <3>1 DEF ReadForIsr, storage
  <2> QED BY <2>2, <2>3
<1>20. CASE ComputeIsr(t)
  <2>1. op[t].kind = "isr"
    BY <1>0, <1>20 DEF ComputeIsr, At, Typed
  <2>2. OpShape' /\ Moves(t, op[t].kind, "write", c)
    BY <1>20, HoldingMoves DEF ComputeIsr
  <2> QED BY <1>14, <1>20, <2>1, <2>2 DEF ComputeIsr, storage
<1> QED
  BY <1>2, <1>3, <1>4, <1>5, <1>6, <1>10, <1>11, <1>12, <1>15, <1>16, <1>17, <1>18, <1>19, <1>20
  DEF Step

LEMMA InitIInv == Init => IInv
<1> SUFFICES ASSUME Init PROVE IInv
  OBVIOUS
<1>1. \A t \in Tasks : op[t].kind = "none" /\ op[t].pc = "idle"
  BY DEF Init, Idle, Operation
<1>2. OpShape
  BY DEF Init, OpShape, Idle, Operation
<1>3. TypeOK
  BY <1>1 DEF Init, TypeOK
<1>4. \A b \in Brokers : Settled(b)
  BY <1>1 DEF Init, Settled, Busy
<1> QED BY <1>2, <1>3, <1>4 DEF IInv

LEMMA NextIInv == IInv /\ [Next]_vars => IInv'
<1> SUFFICES ASSUME IInv, [Next]_vars PROVE IInv'
  OBVIOUS
<1>1. CASE UNCHANGED vars
  BY <1>1 DEF IInv, OpShape, TypeOK, Settled, Busy, vars, storage, history
<1>2. CASE Failover
  BY <1>2, FailoverStep
<1>3. ASSUME NEW t \in Tasks, NEW b \in Brokers, Register(t, b) PROVE IInv'
  <2>1. active' \subseteq Brokers
    BY <1>3 DEF Register, IInv, TypeOK
  <2> QED BY <1>3, <2>1, BeginBroker DEF Register
<1>4. ASSUME NEW t \in Tasks, NEW b \in Brokers, Lose(t, b) PROVE IInv'
  <2>1. active' \subseteq Brokers
    BY <1>4 DEF Lose, IInv, TypeOK
  <2> QED BY <1>4, <2>1, BeginBroker DEF Lose
<1>5. ASSUME NEW t \in Tasks, NEW b \in Brokers, RegisterTopic(t, b) PROVE IInv'
  BY <1>5, BeginTopic DEF RegisterTopic
<1>6. ASSUME NEW t \in Tasks, NEW isr, IsrChange(t, isr) PROVE IInv'
  BY <1>6, BeginTopic DEF IsrChange
<1> QED BY <1>1, <1>2, <1>3, <1>4, <1>5, <1>6, StepIInv DEF Next

-----------------------------------------------------------------------------
\* Every coroutine is at a place of its operation, and the sets hold brokers only.
THEOREM ZKTypeOK == Spec => []TypeOK
<1>1. IInv => TypeOK
  BY DEF IInv
<1> QED BY <1>1, InitIInv, NextIInv, PTL DEF Spec

\* However register_broker, deregister_broker and the topic's operations of other
\* coroutines interleave, and over failovers, the ring and the broker nodes agree
\* on every broker whose own operations did not overlap.
THEOREM RingMatchesNodes == Spec => []RingAgrees
<1>1. IInv => RingAgrees
  <2> SUFFICES ASSUME IInv, NEW b \in Brokers \ disturbed,
                      \A t \in Tasks : op[t].kind \in {"register", "lose"} => op[t].b # b
               PROVE  b \in ring <=> b \in nodes \ orphans
    BY DEF RingAgrees
  <2>1. Settled(b) /\ \A t \in Tasks : ~Busy(t, b)
    BY DEF IInv, Busy
  <2> QED BY <2>1 DEF Settled
<1> QED BY <1>1, InitIInv, NextIInv, PTL DEF Spec
-----------------------------------------------------------------------------
(***************************************************************************)
(* The topic.  Writes are successive and replicas registered because of    *)
(* what a coroutine has in hand: its metadata is that of the topic, or one *)
(* write ahead, for as long as it is the only one that may write.          *)
(***************************************************************************)

\* t is in an operation that may write the topic.
Writing(t) == op[t].kind \in {"lose", "topic", "isr"}

\* t has taken b's node away and is not done with the topic.
Losing(t, b) == op[t].kind = "lose" /\ op[t].pc # "delete" /\ op[t].b = b

\* What a coroutine has in hand, whatever overtook it.
HandTyped(t) ==
  /\ op[t].kind = "isr" => op[t].isr \in Seq(Brokers)
  /\ op[t].pc \in {"nodes", "loss"} =>
       \/ op[t].meta = NoTopic
       \/ op[t].meta \in TopicMetadata /\ op[t].meta.version > 0 /\ topic # NoTopic
  /\ op[t].pc = "isr" => op[t].meta \in TopicMetadata /\ op[t].meta.version > 0 /\ topic # NoTopic
  /\ op[t].pc = "write" => op[t].meta \in TopicMetadata /\ op[t].meta.version > 1 /\ topic # NoTopic
  /\ op[t].pc = "addTopic" => op[t].meta \in TopicMetadata /\ op[t].meta.version = 1

TopicTyped ==
  /\ topic # NoTopic => topic \in TopicMetadata /\ topic.version > 0
  /\ \A t \in Tasks : HandTyped(t)

\* It fits the topic and the nodes, as long as nothing overtook it.
HandFits(t) ==
  /\ op[t].pc \in {"nodes", "loss", "isr"} => op[t].meta = topic
  /\ op[t].pc \in {"newTopic", "addTopic"} => topic = NoTopic
  /\ op[t].pc = "write" => op[t].meta.version = topic.version + 1
  /\ op[t].pc \in {"write", "addTopic"} => ToSet(op[t].meta.replicas) \subseteq nodes

\* The topic, its writers and the ring, as long as nothing was overtaken.
Unraced ==
  /\ disturbed = {}
  /\ \A t, u \in Tasks : Writing(t) /\ Writing(u) => t = u
  /\ \A b \in ring \ nodes : \E t \in Tasks : Losing(t, b) /\ op[t].pc = "ringRemove"
  /\ topic # NoTopic => \A b \in ToSet(topic.replicas) \ nodes : \E t \in Tasks : Losing(t, b)
  /\ \A t \in Tasks : HandFits(t)

TopicInv == TopicTyped /\ (~raced => Unraced)

\* The same, seen from the one coroutine that may be writing.
Alone(t) ==
  /\ disturbed = {}
  /\ \A u \in Tasks \ {t} : ~Writing(u)
  /\ \A b \in ring \ nodes : Losing(t, b) /\ op[t].pc = "ringRemove"
  /\ topic # NoTopic => \A b \in ToSet(topic.replicas) \ nodes : Losing(t, b)
  /\ HandFits(t)

\* t's coroutine comes to stand here with this in hand.
Takes(t, kind, pc, b, meta, isr) ==
  Moves(t, kind, pc, b) /\ op'[t].meta = meta /\ op'[t].isr = isr

LEMMA GotoTakes ==
  ASSUME OpShape, NEW t \in Tasks, NEW pc, Goto(t, pc)
  PROVE  Takes(t, op[t].kind, pc, op[t].b, op[t].meta, op[t].isr)
  BY DEF OpShape, Goto, Moves, Takes

LEMMA SetTakes ==
  ASSUME OpShape, NEW t \in Tasks, NEW kind, NEW pc, NEW b, NEW meta, NEW listed, NEW isr,
         op' = [op EXCEPT ![t] = [kind |-> kind, pc |-> pc, b |-> b, meta |-> meta,
                                  listed |-> listed, isr |-> isr]]
  PROVE  Takes(t, kind, pc, b, meta, isr)
  BY DEF OpShape, Moves, Takes

LEMMA DoneTakes ==
  ASSUME OpShape, NEW t \in Tasks, Done(t)
  PROVE  Takes(t, "none", "idle", NoBroker, NoTopic, <<>>)
  BY SetTakes DEF Done, Idle, Operation

LEMMA OperationTakes ==
  ASSUME OpShape, NEW t \in Tasks, NEW kind, NEW pc, NEW b, NEW isr,
         op' = [op EXCEPT ![t] = Operation(kind, pc, b, isr)]
  PROVE  Takes(t, kind, pc, b, NoTopic, isr)
  BY SetTakes DEF Operation

LEMMA HoldingTakes ==
  ASSUME OpShape, NEW t \in Tasks, NEW meta, NEW listed, NEW pc, Holding(t, meta, listed, pc)
  PROVE  Takes(t, op[t].kind, pc, op[t].b, meta, op[t].isr)
  BY SetTakes DEF Holding

\* A step of t leaves the hands of the others typed: a topic never goes away.
LEMMA TypedStep ==
  ASSUME TopicTyped, NEW t \in Tasks, NEW kind, NEW pc, NEW b, Moves(t, kind, pc, b),
         topic' = topic \/ (topic' \in TopicMetadata /\ topic'.version > 0), HandTyped(t)'
  PROVE  TopicTyped'
<1>1. topic' = topic \/ topic' # NoTopic
  BY MetastoreAssumption
<1>2. ASSUME NEW u \in Tasks, u # t PROVE HandTyped(u)'
  <2>1. op'[u] = op[u] /\ HandTyped(u)
    BY <1>2 DEF Moves, TopicTyped
  <2> QED BY <1>1, <2>1 DEF HandTyped
<1>3. topic' # NoTopic => topic' \in TopicMetadata /\ topic'.version > 0
  BY DEF TopicTyped
<1> QED BY <1>2, <1>3 DEF TopicTyped

\* A coroutine that writes no topic has nothing in hand that could not fit.
LEMMA AloneIsUnraced ==
  ASSUME TypeOK', NEW t \in Tasks, Alone(t)'
  PROVE  Unraced'
<1>1. ASSUME NEW u \in Tasks, u # t PROVE HandFits(u)'
  <2>1. ~Writing(u)'
    BY <1>1 DEF Alone
  <2>2. op'[u].pc \in {"idle", "create", "set", "ringAdd"}
    BY <2>1 DEF TypeOK, Writing
  <2> QED BY <2>2 DEF HandFits
<1>2. \A u \in Tasks : HandFits(u)'
  BY <1>1 DEF Alone
<1>3. \A u, v \in Tasks : Writing(u)' /\ Writing(v)' => u = v
  BY DEF Alone
<1> QED BY <1>2, <1>3 DEF Alone, Unraced

LEMMA UnracedIsAlone ==
  ASSUME Unraced, NEW t \in Tasks, \A u \in Tasks \ {t} : ~Writing(u)
  PROVE  Alone(t)
<1>1. \A u \in Tasks : \A b : Losing(u, b) => u = t
  BY DEF Losing, Writing
<1> QED BY <1>1 DEF Unraced, Alone

\* A place at which the coroutine has nothing in hand.
LEMMA EmptyHanded ==
  ASSUME NEW t \in Tasks, NEW kind, NEW pc, NEW b, NEW meta, NEW isr,
         Takes(t, kind, pc, b, meta, isr),
         pc \notin {"nodes", "loss", "isr", "write", "addTopic"},
         kind = "isr" => isr \in Seq(Brokers)
  PROVE  HandTyped(t)'
  BY DEF Takes, Moves, HandTyped

LEMMA DoneTyped ==
  ASSUME IInv, TopicTyped, NEW t \in Tasks, Done(t),
         topic' = topic \/ (topic' \in TopicMetadata /\ topic'.version > 0)
  PROVE  TopicTyped'
<1>1. Takes(t, "none", "idle", NoBroker, NoTopic, <<>>)
  BY DoneTakes DEF IInv
<1>2. HandTyped(t)'
  BY <1>1, EmptyHanded
<1> QED BY <1>1, <1>2, TypedStep DEF Takes

LEMMA EndsTyped ==
  ASSUME IInv, TopicTyped, NEW t \in Tasks, HandlerEnds(t), topic' = topic
  PROVE  TopicTyped'
<1>1. CASE op[t].b \in active
  <2>1. Takes(t, "lose", "delete", op[t].b, NoTopic, <<>>)
    BY <1>1, OperationTakes DEF HandlerEnds, IInv
  <2>2. HandTyped(t)'
    BY <2>1, EmptyHanded
  <2> QED BY <2>1, <2>2, TypedStep DEF Takes
<1>2. CASE op[t].b \notin active
  BY <1>2, DoneTyped DEF HandlerEnds
<1> QED BY <1>1, <1>2

LEMMA BeginTyped ==
  ASSUME IInv, TopicTyped, NEW t \in Tasks, NEW kind, NEW pc, NEW b, NEW isr,
         Begin(t, kind, pc, b, isr),
         pc \notin {"nodes", "loss", "isr", "write", "addTopic"},
         kind = "isr" => isr \in Seq(Brokers)
  PROVE  TopicTyped'
<1>1. Takes(t, kind, pc, b, NoTopic, isr) /\ topic' = topic
  BY OperationTakes DEF Begin, IInv, storage
<1>2. HandTyped(t)'
  BY <1>1, EmptyHanded
<1> QED BY <1>1, <1>2, TypedStep DEF Takes

LEMMA FailoverTyped ==
  ASSUME TopicTyped, Failover
  PROVE  TopicTyped'
<1>1. topic' = topic
  BY DEF Failover, storage
<1>2. \A t \in Tasks : op'[t].kind = "none" /\ op'[t].pc = "idle"
  BY DEF Failover, Idle, Operation
<1> QED BY <1>1, <1>2 DEF TopicTyped, HandTyped

\* Only a coroutine at "write" or "addTopic" writes the topic.
LEMMA WriteTyped ==
  ASSUME IInv, TopicTyped, NEW t \in Tasks, WriteTopic(t)
  PROVE  TopicTyped' /\ topic # NoTopic /\ topic' = op[t].meta /\ topic'.version > 1
<1>1. HandTyped(t) /\ op[t].pc = "write" /\ Done(t) /\ topic' = op[t].meta
  BY DEF TopicTyped, WriteTopic, At
<1>2. topic # NoTopic /\ topic' \in TopicMetadata /\ topic'.version > 1
  BY <1>1 DEF HandTyped
<1>3. topic'.version > 0
  BY <1>2 DEF TopicMetadata
<1> QED BY <1>1, <1>2, <1>3, DoneTyped

LEMMA AddTyped ==
  ASSUME IInv, TopicTyped, NEW t \in Tasks, AddTopic(t)
  PROVE  TopicTyped' /\ (topic' # topic => topic = NoTopic /\ topic' = op[t].meta /\ topic'.version = 1)
<1>1. HandTyped(t) /\ op[t].pc = "addTopic"
  BY DEF TopicTyped, AddTopic, At
<1>2. CASE topic = NoTopic
  <2>1. Done(t) /\ topic' = op[t].meta
    BY <1>2 DEF AddTopic
  <2>2. topic' \in TopicMetadata /\ topic'.version = 1
    BY <1>1, <2>1 DEF HandTyped
  <2> QED BY <1>2, <2>1, <2>2, DoneTyped
<1>3. CASE topic # NoTopic
  <2>1. HandlerEnds(t) /\ topic' = topic
    BY <1>3 DEF AddTopic
  <2> QED BY <2>1, EndsTyped
<1> QED BY <1>2, <1>3

\* The other steps keep the topic, and what they take in hand is typed.
LEMMA StepTyped ==
  ASSUME IInv, TopicTyped, NEW t \in Tasks, Step(t), ~WriteTopic(t), ~AddTopic(t)
  PROVE  TopicTyped' /\ topic' = topic
<1> USE DEF IInv
<1>0. /\ OpShape /\ HandTyped(t) /\ Typed(op[t].kind, op[t].pc, op[t].b) /\ ring \in SUBSET Brokers
      /\ topic # NoTopic => topic \in TopicMetadata /\ topic.version > 0
  BY TypeParts DEF TopicTyped, TypeOK
<1>1. topic' = topic
  BY DEF Step, CreateNode, SetNode, RingAdd, DeleteNode, RingRemove, ReadTopics, ReadNodes,
         ComputeLoss, GetTopic, ComputeTopic, ReadForIsr, ComputeIsr, storage
<1>2. ASSUME NEW pc \in {"set", "ringAdd", "ringRemove", "topics", "newTopic"}, Goto(t, pc),
             op[t].kind # "isr"
      PROVE  TopicTyped'
  <2>1. Takes(t, op[t].kind, pc, op[t].b, op[t].meta, op[t].isr)
    BY <1>0, <1>2, GotoTakes
  <2>2. HandTyped(t)'
    BY <1>2, <2>1, EmptyHanded
  <2> QED BY <1>1, <2>1, <2>2, TypedStep DEF Takes
<1>3. ASSUME Done(t) PROVE TopicTyped'
  BY <1>1, <1>3, DoneTyped
<1>4. ASSUME NEW meta, NEW listed, NEW pc, Holding(t, meta, listed, pc),
             pc \in {"nodes", "loss"} =>
               meta = NoTopic \/ (meta \in TopicMetadata /\ meta.version > 0 /\ topic # NoTopic),
             pc = "isr" => meta \in TopicMetadata /\ meta.version > 0 /\ topic # NoTopic,
             pc = "write" => meta \in TopicMetadata /\ meta.version > 1 /\ topic # NoTopic,
             pc = "addTopic" => meta \in TopicMetadata /\ meta.version = 1
      PROVE  TopicTyped'
  <2>1. Takes(t, op[t].kind, pc, op[t].b, meta, op[t].isr)
    BY <1>0, <1>4, HoldingTakes
  <2>2. HandTyped(t)'
    BY <1>0, <1>1, <1>4, <2>1 DEF Takes, Moves, HandTyped
  <2> QED BY <1>1, <2>1, <2>2, TypedStep DEF Takes
<1>5. CASE CreateNode(t) \/ DeleteNode(t) \/ RingRemove(t) \/ GetTopic(t)
  <2>1. op[t].kind # "isr"
    BY <1>0, <1>5 DEF CreateNode, DeleteNode, RingRemove, GetTopic, At, Typed
  <2> QED BY <1>1, <1>2, <1>3, <1>5, <2>1 DEF CreateNode, DeleteNode, RingRemove, GetTopic
<1>6. CASE SetNode(t)
  <2>1. op[t].kind # "isr"
    BY <1>0, <1>6 DEF SetNode, At, Typed
  <2> QED BY <1>1, <1>2, <1>6, <2>1, EndsTyped DEF SetNode
<1>7. CASE RingAdd(t)
  BY <1>1, <1>3, <1>7 DEF RingAdd
<1>8. CASE ReadTopics(t)
  BY <1>1, <1>0, <1>4, <1>8 DEF ReadTopics
<1>9. CASE ReadNodes(t)
  <2>1. Holding(t, op[t].meta, nodes, "loss") /\ op[t].pc = "nodes"
    BY <1>9 DEF ReadNodes, At
  <2> QED BY <1>1, <1>0, <1>4, <2>1 DEF HandTyped
<1>10. CASE ComputeLoss(t)
  <2> DEFINE after == AfterLoss(op[t].meta, op[t].b, ring, op[t].listed)
  <2>1. op[t].pc = "loss"
    BY <1>10 DEF ComputeLoss, At
  <2>2. CASE op[t].meta # NoTopic /\ NeedsUpdate(op[t].meta, op[t].b)
    <3>1. op[t].meta \in TopicMetadata /\ op[t].meta.version > 0 /\ topic # NoTopic
      BY <1>0, <2>1, <2>2 DEF HandTyped
    <3>2. after \in TopicMetadata /\ after.version = op[t].meta.version + 1
      BY <1>0, <3>1, LossType
    <3>3. after.version > 1
      BY <3>1, <3>2 DEF TopicMetadata
    <3>4. Holding(t, after, {}, "write")
      BY <1>10, <2>2 DEF ComputeLoss
    <3> QED BY <1>1, <1>4, <3>1, <3>2, <3>3, <3>4
  <2>3. CASE ~(op[t].meta # NoTopic /\ NeedsUpdate(op[t].meta, op[t].b))
    BY <1>1, <1>3, <1>10, <2>3 DEF ComputeLoss
  <2> QED BY <2>2, <2>3
<1>11. CASE ComputeTopic(t)
  BY <1>1, <1>0, <1>4, <1>11, NewTopicType DEF ComputeTopic
<1>12. CASE ReadForIsr(t)
  BY <1>1, <1>0, <1>3, <1>4, <1>12 DEF ReadForIsr
<1>13. CASE ComputeIsr(t)
  <2> DEFINE after == WithIsr(op[t].meta, op[t].isr, ring)
  <2>1. op[t].pc = "isr" /\ op[t].kind = "isr"
    BY <1>0, <1>13 DEF ComputeIsr, At, Typed
  <2>2. /\ op[t].meta \in TopicMetadata /\ op[t].meta.version > 0 /\ topic # NoTopic
        /\ op[t].isr \in Seq(Brokers)
    BY <1>0, <2>1 DEF HandTyped
  <2>3. after \in TopicMetadata /\ after.version = op[t].meta.version + 1
    BY <1>0, <2>2, IsrType
  <2>4. after.version > 1
    BY <2>2, <2>3 DEF TopicMetadata
  <2>5. Holding(t, after, {}, "write")
    BY <1>13 DEF ComputeIsr
  <2> QED BY <1>1, <1>4, <2>2, <2>3, <2>4, <2>5
<1> QED BY <1>1, <1>5, <1>6, <1>7, <1>8, <1>9, <1>10, <1>11, <1>12, <1>13 DEF Step

-----------------------------------------------------------------------------
(* Nothing was overtaken and nothing is: the steps of the one that writes, ... *)

LEMMA RacedStays == IInv /\ [Next]_vars => (raced => raced')
<1> SUFFICES ASSUME IInv, [Next]_vars, raced PROVE raced'
  OBVIOUS
<1>1. \A t, kind, b : Noted(t, kind, b) => raced'
  BY DEF Noted
<1> QED
  BY <1>1 DEF Next, Failover, Step, CreateNode, SetNode, RingAdd, DeleteNode, RingRemove,
     ReadTopics, ReadNodes, ComputeLoss, WriteTopic, GetTopic, ComputeTopic, AddTopic,
     ReadForIsr, ComputeIsr, Register, Lose, RegisterTopic, IsrChange, Begin, HandlerEnds,
     vars, history

LEMMA LossAlone ==
  ASSUME IInv, TopicTyped, NEW t \in Tasks, Alone(t), op[t].kind = "lose", Step(t),
         UNCHANGED history
  PROVE  Alone(t)'
<1> DEFINE c == op[t].b
<1>0. /\ OpShape /\ Typed(op[t].kind, op[t].pc, c) /\ c \in Brokers /\ ring \in SUBSET Brokers
      /\ Settled(c) /\ Busy(t, c) /\ HandTyped(t) /\ HandFits(t) /\ c \notin disturbed
  BY TypeParts DEF IInv, TypeOK, TopicTyped, Alone, Busy
<1>1. disturbed' = {}
  BY DEF Alone, history
<1>2. ASSUME NEW kind, NEW pc, NEW b, Moves(t, kind, pc, b) PROVE \A u \in Tasks \ {t} : ~Writing(u)'
  BY <1>2 DEF Alone, Writing, Moves
<1>3. CASE DeleteNode(t)
  <2>1. op[t].pc = "delete" /\ nodes' = nodes \ {c} /\ ring' = ring /\ topic' = topic
    BY <1>3 DEF DeleteNode, At
  <2>2. Moves(t, "lose", "ringRemove", c)
    BY <1>0, <1>3, GotoMoves DEF DeleteNode
  <2>3. HandFits(t)' /\ op'[t].kind = "lose" /\ op'[t].pc # "delete" /\ op'[t].b = c /\ op'[t].pc = "ringRemove"
    BY <2>2 DEF Moves, HandFits
  <2>4. ring \subseteq nodes /\ (topic # NoTopic => ToSet(topic.replicas) \subseteq nodes)
    BY <2>1 DEF Alone, Losing
  <2> QED BY <1>1, <1>2, <2>1, <2>2, <2>3, <2>4 DEF Alone, Losing
<1>4. CASE RingRemove(t)
  <2>1. op[t].pc = "ringRemove" /\ ring' = ring \ {c} /\ nodes' = nodes /\ topic' = topic
    BY <1>4 DEF RingRemove, At, storage
  <2>2. Moves(t, "lose", "topics", c)
    BY <1>0, <1>4, GotoMoves DEF RingRemove
  <2>3. HandFits(t)' /\ op'[t].kind = "lose" /\ op'[t].pc # "delete" /\ op'[t].b = c
    BY <2>2 DEF Moves, HandFits
  <2>4. ring \ nodes \subseteq {c} /\ (topic # NoTopic => ToSet(topic.replicas) \ nodes \subseteq {c})
    BY DEF Alone, Losing
  <2> QED BY <1>1, <1>2, <2>1, <2>2, <2>3, <2>4 DEF Alone, Losing
<1>5. ASSUME op[t].pc # "ringRemove", op[t].pc # "delete"
      PROVE  /\ ring \subseteq nodes /\ c \notin nodes
             /\ topic # NoTopic => ToSet(topic.replicas) \ nodes \subseteq {c}
  <2>1. c \notin nodes
    BY <1>0, <1>5 DEF Settled, Typed
  <2> QED BY <1>5, <2>1 DEF Alone, Losing
<1>6. ASSUME NEW pc \in {"nodes", "loss", "write"}, Moves(t, "lose", pc, c), HandFits(t)',
             op[t].pc # "ringRemove", op[t].pc # "delete", UNCHANGED <<ring, nodes, topic>>
      PROVE  Alone(t)'
  <2>1. op'[t].kind = "lose" /\ op'[t].pc # "delete" /\ op'[t].b = c
    BY <1>6 DEF Moves
  <2> QED BY <1>1, <1>2, <1>5, <1>6, <2>1 DEF Alone, Losing
<1>7. CASE ReadTopics(t)
  <2>1. Takes(t, "lose", "nodes", c, topic, op[t].isr) /\ op[t].pc = "topics"
    BY <1>0, <1>7, HoldingTakes DEF ReadTopics, At
  <2>2. UNCHANGED <<ring, nodes, topic>>
    BY <1>7 DEF ReadTopics, storage
  <2>3. HandFits(t)'
    BY <2>1, <2>2 DEF Takes, Moves, HandFits
  <2> QED BY <1>6, <2>1, <2>2, <2>3 DEF Takes
<1>8. CASE ReadNodes(t)
  <2>1. Takes(t, "lose", "loss", c, op[t].meta, op[t].isr) /\ op[t].pc = "nodes"
    BY <1>0, <1>8, HoldingTakes DEF ReadNodes, At
  <2>2. UNCHANGED <<ring, nodes, topic>>
    BY <1>8 DEF ReadNodes, storage
  <2>3. HandFits(t)'
    BY <1>0, <2>1, <2>2 DEF Takes, Moves, HandFits
  <2> QED BY <1>6, <2>1, <2>2, <2>3 DEF Takes
<1>9. CASE ComputeLoss(t)
  <2> DEFINE after == AfterLoss(op[t].meta, c, ring, op[t].listed)
  <2>1. op[t].pc = "loss" /\ op[t].meta = topic /\ UNCHANGED <<ring, nodes, topic>>
    BY <1>0, <1>9 DEF ComputeLoss, At, HandFits, storage
  <2>2. /\ ring \subseteq nodes /\ c \notin nodes
        /\ topic # NoTopic => ToSet(topic.replicas) \ nodes \subseteq {c}
    BY <1>5, <2>1
  <2>3. CASE topic # NoTopic /\ NeedsUpdate(topic, c)
    <3>1. topic \in TopicMetadata
      BY <2>3 DEF TopicTyped
    <3>2. after.version = topic.version + 1 /\ ToSet(after.replicas) \subseteq nodes
      BY <1>0, <2>1, <2>2, <2>3, <3>1, LossType
    <3>3. Takes(t, "lose", "write", c, after, op[t].isr)
      BY <1>0, <1>9, <2>1, <2>3, HoldingTakes DEF ComputeLoss
    <3>4. HandFits(t)'
      BY <2>1, <3>2, <3>3 DEF Takes, Moves, HandFits
    <3> QED BY <1>6, <2>1, <3>3, <3>4 DEF Takes
  <2>4. CASE ~(topic # NoTopic /\ NeedsUpdate(topic, c))
    <3>1. Moves(t, "none", "idle", NoBroker)
      BY <1>0, <1>9, <2>1, <2>4, DoneMoves DEF ComputeLoss
    <3>2. topic # NoTopic => c \notin ToSet(topic.replicas)
      <4>1. topic # NoTopic => topic.replicas \in Seq(Brokers)
        BY DEF TopicTyped, TopicMetadata
      <4> QED BY <2>4, <4>1 DEF NeedsUpdate, Contains, ToSet
    <3>3. HandFits(t)'
      BY <3>1 DEF Moves, HandFits
    <3> QED BY <1>1, <1>2, <2>1, <2>2, <3>1, <3>2, <3>3 DEF Alone
  <2> QED BY <2>3, <2>4
<1>10. CASE WriteTopic(t)
  <2>1. op[t].pc = "write" /\ topic' = op[t].meta /\ UNCHANGED <<ring, nodes>>
    BY <1>10 DEF WriteTopic, At
  <2>2. Moves(t, "none", "idle", NoBroker)
    BY <1>0, <1>10, DoneMoves DEF WriteTopic
  <2>3. ring \subseteq nodes /\ ToSet(topic'.replicas) \subseteq nodes
    BY <1>0, <1>5, <2>1 DEF HandFits
  <2>4. HandFits(t)'
    BY <2>2 DEF Moves, HandFits
  <2> QED BY <1>1, <1>2, <2>1, <2>2, <2>3, <2>4 DEF Alone
<1> QED
  BY <1>0, <1>3, <1>4, <1>7, <1>8, <1>9, <1>10
  DEF Step, CreateNode, SetNode, RingAdd, GetTopic, ComputeTopic, AddTopic, ReadForIsr, ComputeIsr,
      At, Typed

LEMMA TopicAlone ==
  ASSUME IInv, TopicTyped, NEW t \in Tasks, Alone(t), op[t].kind \in {"topic", "isr"}, Step(t),
         UNCHANGED history
  PROVE  Alone(t)'
<1> DEFINE c == op[t].b
<1>0. /\ OpShape /\ Typed(op[t].kind, op[t].pc, c) /\ ring \in SUBSET Brokers
      /\ HandTyped(t) /\ HandFits(t)
  BY TypeParts DEF IInv, TypeOK, TopicTyped, Alone
<1>1. disturbed' = {}
  BY DEF Alone, history
<1>2. ASSUME NEW kind, NEW pc, NEW b, Moves(t, kind, pc, b) PROVE \A u \in Tasks \ {t} : ~Writing(u)'
  BY <1>2 DEF Alone, Writing, Moves
<1>3. ring \subseteq nodes /\ (topic # NoTopic => ToSet(topic.replicas) \subseteq nodes)
  BY DEF Alone, Losing
<1>4. ASSUME NEW kind, NEW pc, NEW b, Moves(t, kind, pc, b), UNCHANGED <<ring, nodes>>, HandFits(t)',
             topic' = topic \/ ToSet(topic'.replicas) \subseteq nodes
      PROVE  Alone(t)'
  BY <1>1, <1>2, <1>3, <1>4 DEF Alone
<1>5. ASSUME Done(t), UNCHANGED <<ring, nodes>>, topic' = topic \/ ToSet(topic'.replicas) \subseteq nodes
      PROVE  Alone(t)'
  <2>1. Moves(t, "none", "idle", NoBroker)
    BY <1>0, <1>5, DoneMoves
  <2>2. HandFits(t)'
    BY <2>1 DEF Moves, HandFits
  <2> QED BY <1>4, <1>5, <2>1, <2>2
<1>6. CASE GetTopic(t)
  <2>1. UNCHANGED <<ring, nodes, topic>>
    BY <1>6 DEF GetTopic, storage
  <2>2. CASE topic = NoTopic
    <3>1. Moves(t, op[t].kind, "newTopic", c)
      BY <1>0, <1>6, <2>2, GotoMoves DEF GetTopic
    <3>2. HandFits(t)'
      BY <2>1, <2>2, <3>1 DEF Moves, HandFits
    <3> QED BY <1>4, <2>1, <3>1, <3>2
  <2> QED BY <1>5, <1>6, <2>1, <2>2 DEF GetTopic
<1>7. CASE ComputeTopic(t)
  <2>1. UNCHANGED <<ring, nodes, topic>> /\ op[t].pc = "newTopic"
    BY <1>7 DEF ComputeTopic, At, storage
  <2>2. Takes(t, op[t].kind, "addTopic", c, NewTopic(ring), op[t].isr)
    BY <1>0, <1>7, HoldingTakes DEF ComputeTopic
  <2>3. ToSet(NewTopic(ring).replicas) \subseteq nodes
    BY <1>0, <1>3, NewTopicType
  <2>4. HandFits(t)'
    BY <1>0, <2>1, <2>2, <2>3 DEF Takes, Moves, HandFits
  <2> QED BY <1>4, <2>1, <2>2, <2>4 DEF Takes
<1>8. CASE AddTopic(t)
  <2>1. op[t].pc = "addTopic" /\ topic = NoTopic /\ ToSet(op[t].meta.replicas) \subseteq nodes
    BY <1>0, <1>8 DEF AddTopic, At, HandFits
  <2> QED BY <1>5, <1>8, <2>1 DEF AddTopic
<1>9. CASE ReadForIsr(t)
  <2>1. UNCHANGED <<ring, nodes, topic>>
    BY <1>9 DEF ReadForIsr, storage
  <2>2. CASE topic # NoTopic
    <3>1. Takes(t, op[t].kind, "isr", c, topic, op[t].isr)
      BY <1>0, <1>9, <2>2, HoldingTakes DEF ReadForIsr
    <3>2. HandFits(t)'
      BY <2>1, <3>1 DEF Takes, Moves, HandFits
    <3> QED BY <1>4, <2>1, <3>1, <3>2 DEF Takes
  <2> QED BY <1>5, <1>9, <2>1, <2>2 DEF ReadForIsr
<1>10. CASE ComputeIsr(t)
  <2> DEFINE after == WithIsr(op[t].meta, op[t].isr, ring)
  <2>1. UNCHANGED <<ring, nodes, topic>> /\ op[t].pc = "isr" /\ op[t].kind = "isr" /\ op[t].meta = topic
    BY <1>0, <1>10 DEF ComputeIsr, At, Typed, HandFits, storage
  <2>2. topic \in TopicMetadata /\ topic # NoTopic /\ op[t].isr \in Seq(Brokers)
    BY <1>0, <2>1 DEF HandTyped
  <2>3. after.version = topic.version + 1 /\ after.replicas = topic.replicas
    BY <1>0, <2>1, <2>2, IsrType
  <2>4. Takes(t, op[t].kind, "write", c, after, op[t].isr)
    BY <1>0, <1>10, HoldingTakes DEF ComputeIsr
  <2>5. HandFits(t)'
    BY <1>3, <2>1, <2>2, <2>3, <2>4 DEF Takes, Moves, HandFits
  <2> QED BY <1>4, <2>1, <2>4, <2>5 DEF Takes
<1>11. CASE WriteTopic(t)
  <2>1. op[t].pc = "write" /\ topic' = op[t].meta /\ UNCHANGED <<ring, nodes>> /\ Done(t)
    BY <1>11 DEF WriteTopic, At
  <2> QED BY <1>0, <1>5, <2>1 DEF HandFits
<1> QED
  BY <1>0, <1>6, <1>7, <1>8, <1>9, <1>10, <1>11
  DEF Step, CreateNode, SetNode, RingAdd, DeleteNode, RingRemove, ReadTopics, ReadNodes,
      ComputeLoss, At, Typed

\* ... those of a coroutine that registers a broker, ...
LEMMA RegisterUnraced ==
  ASSUME Unraced, TypeOK', NEW t \in Tasks, NEW kind \in {"none", "register"}, NEW pc, NEW b,
         Moves(t, kind, pc, b), op[t].kind \in {"none", "register"},
         nodes \subseteq nodes', ring' \subseteq ring \cup nodes', topic' = topic, disturbed' = {}
  PROVE  Unraced'
<1>1. ~Writing(t) /\ ~Writing(t)' /\ \A u \in Tasks \ {t} : op'[u] = op[u]
  BY DEF Writing, Moves
<1>2. \A u \in Tasks : Writing(u)' <=> Writing(u)
  BY <1>1 DEF Writing
<1>3. \A u \in Tasks : \A r : Losing(u, r) => Losing(u, r)' /\ op'[u] = op[u]
  BY <1>1 DEF Losing, Writing
<1>4. ASSUME NEW u \in Tasks PROVE HandFits(u)'
  <2>1. CASE u = t
    <3>1. op'[t].pc \in {"idle", "create", "set", "ringAdd"}
      BY <1>1 DEF TypeOK, Writing
    <3> QED BY <2>1, <3>1 DEF HandFits
  <2>2. CASE u # t
    <3>1. op'[u] = op[u] /\ HandFits(u)
      BY <1>1, <2>2 DEF Unraced
    <3> QED BY <3>1 DEF HandFits
  <2> QED BY <2>1, <2>2
<1>5. ASSUME NEW r \in ring' \ nodes' PROVE \E u \in Tasks : Losing(u, r)' /\ op'[u].pc = "ringRemove"
  <2>1. r \in ring \ nodes
    OBVIOUS
  <2>2. PICK u \in Tasks : Losing(u, r) /\ op[u].pc = "ringRemove"
    BY <2>1 DEF Unraced
  <2> QED BY <1>3, <2>2
<1>6. ASSUME topic' # NoTopic, NEW r \in ToSet(topic'.replicas) \ nodes' PROVE \E u \in Tasks : Losing(u, r)'
  <2>1. PICK u \in Tasks : Losing(u, r)
    BY <1>6 DEF Unraced
  <2> QED BY <1>3, <2>1
<1> QED BY <1>2, <1>4, <1>5, <1>6 DEF Unraced

LEMMA StepUnraced ==
  ASSUME IInv, TopicTyped, Unraced, NEW t \in Tasks, Step(t)
  PROVE  Unraced'
<1>0. IInv' /\ TypeOK' /\ Typed(op[t].kind, op[t].pc, op[t].b) /\ disturbed = {} /\ HandFits(t)
  BY StepIInv, TypeParts DEF IInv, Unraced
<1>1. op[t].kind = "register" => op[t].b \in Brokers /\ Settled(op[t].b) /\ Busy(t, op[t].b)
  BY <1>0 DEF Typed, Busy, IInv
<1>2. op[t].kind = "register" /\ op[t].pc = "set" => op[t].b \in nodes
  BY <1>0, <1>1 DEF Settled
<1>3. UNCHANGED history
  <2>1. AddTopic(t) => topic = NoTopic
    BY <1>0 DEF AddTopic, At, HandFits
  <2>2. SetNode(t) => op[t].b \in nodes
    BY <1>0, <1>2 DEF SetNode, At, Typed
  <2> QED
    BY <2>1, <2>2 DEF Step, CreateNode, SetNode, RingAdd, DeleteNode, RingRemove, ReadTopics,
       ReadNodes, ComputeLoss, WriteTopic, GetTopic, ComputeTopic, AddTopic, ReadForIsr, ComputeIsr
<1>4. CASE Writing(t)
  <2>1. Alone(t)
    BY <1>4, UnracedIsAlone DEF Unraced
  <2>2. Alone(t)'
    BY <1>3, <1>4, <2>1, LossAlone, TopicAlone DEF Writing
  <2> QED BY <1>0, <2>2, AloneIsUnraced
<1>5. CASE op[t].kind = "register"
  <2>1. CreateNode(t) \/ SetNode(t) \/ RingAdd(t)
    BY <1>0, <1>5 DEF Step, DeleteNode, RingRemove, ReadTopics, ReadNodes, ComputeLoss, WriteTopic,
       GetTopic, ComputeTopic, AddTopic, ReadForIsr, ComputeIsr, At, Typed
  <2>2. disturbed' = {} /\ OpShape
    BY <1>0, <1>3 DEF history, IInv
  <2>3. CASE CreateNode(t)
    <3>1. PICK pc : Goto(t, pc)
      BY <2>3 DEF CreateNode
    <3>2. Moves(t, "register", pc, op[t].b)
      BY <1>5, <2>2, <3>1, GotoMoves
    <3> QED BY <1>0, <1>5, <2>2, <2>3, <3>2, RegisterUnraced DEF CreateNode
  <2>4. CASE SetNode(t)
    <3>1. Goto(t, "ringAdd") /\ UNCHANGED <<nodes, ring, topic>>
      BY <1>2, <1>5, <2>4 DEF SetNode, At, storage
    <3>2. Moves(t, "register", "ringAdd", op[t].b)
      BY <1>5, <2>2, <3>1, GotoMoves
    <3> QED BY <1>0, <1>5, <2>2, <3>1, <3>2, RegisterUnraced
  <2>5. CASE RingAdd(t)
    <3>1. Done(t) /\ ring' = ring \cup {op[t].b} /\ UNCHANGED <<nodes, topic>> /\ op[t].pc = "ringAdd"
      BY <2>5 DEF RingAdd, At, storage
    <3>2. Moves(t, "none", "idle", NoBroker)
      BY <2>2, <3>1, DoneMoves
    <3>3. op[t].b \in nodes
      BY <1>0, <1>1, <1>5, <3>1 DEF Settled
    <3> QED BY <1>0, <1>5, <2>2, <3>1, <3>2, <3>3, RegisterUnraced
  <2> QED BY <2>1, <2>3, <2>4, <2>5
<1>6. op[t].kind # "none"
  BY <1>0 DEF Step, CreateNode, SetNode, RingAdd, DeleteNode, RingRemove, ReadTopics,
     ReadNodes, ComputeLoss, WriteTopic, GetTopic, ComputeTopic, AddTopic, ReadForIsr, ComputeIsr,
     At, Typed
<1> QED BY <1>0, <1>4, <1>5, <1>6 DEF Typed, Writing

\* ... and the beginning of an operation, unless it overlaps another.
LEMMA BeginUnraced ==
  ASSUME IInv, Unraced, IInv', ~raced', NEW t \in Tasks, NEW kind, NEW pc, NEW b, NEW isr,
         Begin(t, kind, pc, b, isr),
         <<kind, pc>> \in {<<"register", "create">>, <<"lose", "delete">>,
                           <<"topic", "getTopic">>, <<"isr", "getIsr">>}
  PROVE  Unraced'
<1>1. /\ Moves(t, kind, pc, b) /\ op[t].kind = "none" /\ UNCHANGED <<nodes, ring, topic>>
      /\ Noted(t, kind, b) /\ TypeOK'
  BY OperationMoves DEF Begin, IInv, TypeOK, At, storage
<1>2. /\ kind # "register" => Others(t, {"lose", "topic", "isr"}) = {}
      /\ disturbed' = {}
  BY <1>1 DEF Noted, Unraced
<1>3. CASE kind = "register"
  BY <1>1, <1>2, <1>3, RegisterUnraced
<1>4. CASE kind # "register"
  <2>1. \A u \in Tasks \ {t} : ~Writing(u)
    BY <1>2, <1>4 DEF Others, Writing
  <2>2. Alone(t)
    BY <2>1, UnracedIsAlone
  <2>3. ring \subseteq nodes /\ (topic # NoTopic => ToSet(topic.replicas) \subseteq nodes)
    BY <1>1, <2>2 DEF Alone, Losing
  <2>4. HandFits(t)' /\ \A u \in Tasks \ {t} : ~Writing(u)'
    BY <1>1, <2>1 DEF Moves, HandFits, Writing
  <2>5. Alone(t)'
    BY <1>1, <1>2, <2>3, <2>4 DEF Alone
  <2> QED BY <1>1, <2>5, AloneIsUnraced
<1> QED BY <1>3, <1>4

LEMMA FailoverUnraced ==
  ASSUME IInv, Unraced, Failover, ~raced'
  PROVE  Unraced'
<1>1. \A t \in Tasks : op[t].kind # "lose" /\ op'[t].kind = "none" /\ op'[t].pc = "idle"
  BY DEF Failover, Idle, Operation
<1>2. ring' = {} /\ disturbed' = {} /\ UNCHANGED <<nodes, topic>>
  BY DEF Failover, storage
<1>3. topic # NoTopic => ToSet(topic.replicas) \subseteq nodes
  BY <1>1 DEF Unraced, Losing
<1>4. \A t \in Tasks : HandFits(t)' /\ ~Writing(t)'
  BY <1>1 DEF HandFits, Writing
<1> QED BY <1>2, <1>3, <1>4 DEF Unraced

LEMMA InitTopicInv == Init => TopicInv
<1> SUFFICES ASSUME Init PROVE TopicInv
  OBVIOUS
<1>1. \A t \in Tasks : op[t].kind = "none" /\ op[t].pc = "idle"
  BY DEF Init, Idle, Operation
<1>2. \A t \in Tasks : HandTyped(t) /\ HandFits(t) /\ ~Writing(t)
  BY <1>1 DEF HandTyped, HandFits, Writing
<1> QED BY <1>2 DEF Init, TopicInv, TopicTyped, Unraced

\* Every step keeps the invariant, and is a write that counts on, if it writes.
LEMMA NextTopicInv ==
  ASSUME IInv, TopicInv, [Next]_vars
  PROVE  /\ TopicInv'
         /\ topic' # topic =>
              IF topic = NoTopic THEN topic'.version = 1
              ELSE topic'.version > 1 /\ (raced \/ topic'.version = topic.version + 1)
<1>0. IInv' /\ TopicTyped /\ (raced => raced') /\ (~raced => Unraced)
  BY NextIInv, RacedStays DEF TopicInv
<1>1. CASE UNCHANGED vars
  <2>1. UNCHANGED <<nodes, topic, ring, op, disturbed, raced>>
    BY <1>1 DEF vars, storage, history
  <2>2. TopicTyped'
    BY <1>0, <2>1 DEF TopicTyped, HandTyped
  <2>3. Unraced => Unraced'
    BY <2>1 DEF Unraced, HandFits, Writing, Losing
  <2> QED BY <1>0, <2>1, <2>2, <2>3 DEF TopicInv
<1>2. CASE Failover
  <2>1. TopicTyped' /\ topic' = topic
    BY <1>0, <1>2, FailoverTyped DEF Failover, storage
  <2> QED BY <1>0, <1>2, <2>1, FailoverUnraced DEF TopicInv
<1>3. ASSUME NEW t \in Tasks, Step(t) PROVE TopicInv'
  <2>1. TopicTyped'
    BY <1>0, <1>3, WriteTyped, AddTyped, StepTyped
  <2>2. ~raced => Unraced'
    BY <1>0, <1>3, StepUnraced
  <2> QED BY <1>0, <2>1, <2>2 DEF TopicInv
<1>4. ASSUME NEW t \in Tasks, Step(t), topic' # topic
      PROVE  IF topic = NoTopic THEN topic'.version = 1
             ELSE topic'.version > 1 /\ (raced \/ topic'.version = topic.version + 1)
  <2>1. CASE WriteTopic(t)
    <3>1. topic # NoTopic /\ topic' = op[t].meta /\ topic'.version > 1
      BY <1>0, <2>1, WriteTyped
    <3>2. ~raced => op[t].meta.version = topic.version + 1
      BY <1>0, <2>1 DEF Unraced, HandFits, WriteTopic, At
    <3> QED BY <3>1, <3>2
  <2>2. CASE AddTopic(t)
    BY <1>0, <1>4, <2>2, AddTyped
  <2> QED BY <1>0, <1>4, <2>1, <2>2, StepTyped
<1>5. ASSUME NEW t \in Tasks, NEW kind, NEW pc, NEW b, NEW isr, Begin(t, kind, pc, b, isr),
             <<kind, pc>> \in {<<"register", "create">>, <<"lose", "delete">>,
                               <<"topic", "getTopic">>, <<"isr", "getIsr">>},
             kind = "isr" => isr \in Seq(Brokers)
      PROVE  TopicInv' /\ topic' = topic
  <2>1. TopicTyped' /\ topic' = topic
    BY <1>0, <1>5, BeginTyped DEF Begin, storage
  <2>2. ~raced' => Unraced'
    BY <1>0, <1>5, BeginUnraced
  <2> QED BY <2>1, <2>2 DEF TopicInv
<1>6. ASSUME NEW t \in Tasks, NEW b \in Brokers, Register(t, b) \/ Lose(t, b) \/ RegisterTopic(t, b)
      PROVE  TopicInv' /\ topic' = topic
  BY <1>5, <1>6 DEF Register, Lose, RegisterTopic
<1>7. ASSUME NEW t \in Tasks, NEW isr \in IsrLists, IsrChange(t, isr) PROVE TopicInv' /\ topic' = topic
  BY <1>5, <1>7, ZKAssumption DEF IsrChange
<1> QED BY <1>1, <1>2, <1>3, <1>4, <1>6, <1>7 DEF Next

LEMMA TopicInvariant == Spec => [](IInv /\ TopicInv)
<1>1. Init => IInv /\ TopicInv
  BY InitIInv, InitTopicInv
<1>2. IInv /\ TopicInv /\ [Next]_vars => (IInv /\ TopicInv)'
  BY NextIInv, NextTopicInv
<1> QED BY <1>1, <1>2, PTL DEF Spec

\* The replicas of a topic are brokers with a node, over any interleaving with
\* registrations and losses of brokers and over failovers, as long as no two
\* operations that write the topic overlapped.
THEOREM ReplicasHaveNodes == Spec => []ReplicasRegistered
<1>1. IInv /\ TopicInv => ReplicasRegistered
  <2> SUFFICES ASSUME TopicInv, topic # NoTopic, ~raced, \A t \in Tasks : op[t].kind # "lose",
                      NEW i \in DOMAIN topic.replicas
               PROVE  topic.replicas[i] \in nodes
    BY DEF ReplicasRegistered
  <2>1. \A b \in ToSet(topic.replicas) : b \in nodes
    BY DEF TopicInv, Unraced, Losing
  <2> QED BY <2>1 DEF ToSet
<1> QED BY <1>1, TopicInvariant, PTL

\* Registering a topic twice creates it once, and the versions count on one by
\* one until a write is overtaken; even then none falls back to 1.
THEOREM VersionsSuccessive == Spec => WritesSuccessive
<1>1. IInv /\ TopicInv /\ [Next]_vars
        => [topic' # topic =>
              IF topic = NoTopic THEN topic'.version = 1
              ELSE topic'.version > 1 /\ (raced \/ topic'.version = topic.version + 1)]_vars
  BY NextTopicInv
<1> QED BY <1>1, TopicInvariant, PTL DEF Spec, WritesSuccessive
=============================================================================
