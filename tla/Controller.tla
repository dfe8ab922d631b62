------------------------------ MODULE Controller ------------------------------
(***************************************************************************)
(* ControllerServer with its in-memory metastore and one topic (controller *)
(* server.py, metastore/): the connection handlers and the heartbeat       *)
(* checker as coroutines of one event loop.                                *)
(*                                                                         *)
(* A step is what a coroutine does between two suspensions: it suspends to *)
(* read from its connection, to write to one that is closing, and to wait  *)
(* for one to close.  The storage calls do not suspend, since an           *)
(* uncontended asyncio.Lock does not (over ZooKeeper they would).          *)
(*                                                                         *)
(* A connection that is not open has been closed or lost on one side: what *)
(* is written to it is lost, and either side may notice late.              *)
(***************************************************************************)
EXTENDS Metastore, FiniteSets

CONSTANTS
  MaxConns,  \* bound: connections of each broker
  Checker,   \* _heartbeat_checker_loop
  NoConn

Conns == UNION {{b} \X (1..MaxConns[b]) : b \in Brokers}

ASSUME ControllerAssumption ==
  /\ MaxConns \in [Brokers -> Nat]
  /\ NoConn \notin Conns /\ Checker \notin Conns

Tasks == Conns \cup {Checker}

VARIABLES
  nodes,   \* the stored brokers, who are also the members of the hash ring
  topic,   \* the stored TopicMetadata
  active,  \* active_brokers: the connection of each
  task,    \* the coroutines: where each is suspended, and its locals
  open,    \* neither side has closed or lost the connection
  inbox,   \* commands on their way to the controller
  served   \* connections to which a metadata list was written

controllerVars == <<nodes, topic, active, task, open, inbox, served>>

\* broker: broker_id; lost: the broker that is being disconnected; dests, failed:
\* where a broadcast still has to write, and where it failed; todo: brokers
\* still to disconnect; next: where the coroutine goes after them.
NewTask == [pc |-> "unused", broker |-> NoBroker, lost |-> NoBroker,
            dests |-> {}, failed |-> <<>>, todo |-> <<>>, next |-> "read"]

ControllerInit ==
  /\ nodes = {}
  /\ topic = NoTopic
  /\ active = [b \in Brokers |-> NoConn]
  /\ task = [t \in Tasks |-> IF t = Checker THEN [NewTask EXCEPT !.pc = "read"] ELSE NewTask]
  /\ open = [c \in Conns |-> FALSE]
  /\ inbox = [c \in Conns |-> <<>>]
  /\ served = {}

-----------------------------------------------------------------------------
(* Parts of steps.  r is the coroutine's record and act what               *)
(* active_brokers has become earlier in the step, answered the connections *)
(* on which a metadata list was written as the answer to a command.        *)

\* _handle_broker_disconnect for r.todo: brokers without an entry are skipped; the
\* first with one loses it, whichever connection it names is closed, and
\* wait_closed suspends.  After the last, back to reading or out of the handler.
DisconnectNext(t, r, act) ==
  LET entries == {i \in DOMAIN r.todo : act[r.todo[i]] # NoConn}
      i       == Min(entries)
      b       == r.todo[i]
  IN  IF entries = {}
      THEN /\ task' = [task EXCEPT ![t] = [NewTask EXCEPT !.pc = r.next, !.broker = r.broker]]
           /\ active' = act
           /\ UNCHANGED open
      ELSE /\ task' = [task EXCEPT ![t] = [r EXCEPT !.pc = "closing", !.lost = b,
                                                    !.todo = SubSeq(@, i + 1, Len(@))]]
           /\ active' = [act EXCEPT ![b] = NoConn]
           /\ open' = [open EXCEPT ![act[b]] = FALSE]

\* The writes of a broadcast: all of them, or those up to one on a lost
\* connection, which suspends and may raise.
Writes(t, r, act, answered) ==
  \/ /\ \A c \in r.dests : open[c]
     /\ served' = served \cup answered \cup r.dests
     /\ DisconnectNext(t, [r EXCEPT !.dests = {}, !.failed = <<>>, !.todo = r.failed \o @], act)
  \/ \E c \in r.dests, before \in SUBSET {d \in r.dests : open[d]}, raised \in BOOLEAN :
       /\ ~open[c]
       /\ served' = served \cup answered \cup before
       /\ task' = [task EXCEPT ![t] = [r EXCEPT !.pc = "sending",
                     !.dests = @ \ (before \cup {c}),
                     !.failed = IF raised THEN Append(@, c[1]) ELSE @]]
       /\ active' = act
       /\ UNCHANGED open

\* broadcast_metadata; what the lists say is left out.
Broadcast(t, r, act, answered) ==
  Writes(t, [r EXCEPT !.dests = {act[b] : b \in Brokers} \ {NoConn}], act, answered)

\* A command's answer: drain suspends on a closing connection, else the broadcast
\* follows.
AnswerAndBroadcast(c, r, act, answered) ==
  IF open[c] THEN Broadcast(c, r, act, answered)
  ELSE /\ task' = [task EXCEPT ![c] = [r EXCEPT !.pc = "answering"]]
       /\ active' = act
       /\ UNCHANGED <<open, served>>

\* Mutant: the entry goes, the broker stays.
MutFinally(c) ==
  /\ task' = [task EXCEPT ![c] = [NewTask EXCEPT !.pc = "done", !.broker = task[c].broker]]
  /\ active' = IF task[c].broker = NoBroker THEN active ELSE [active EXCEPT ![task[c].broker] = NoConn]
  /\ open' = [open EXCEPT ![c] = FALSE]

\* The finally of handle_connection: whoever registered here is disconnected, a
\* connection on which nobody did is closed.
Finally(c) ==
  LET b == task[c].broker
      r == [NewTask EXCEPT !.broker = b, !.next = "done"]
  IN  IF b = NoBroker
      THEN /\ task' = [task EXCEPT ![c] = [r EXCEPT !.pc = "done"]]
           /\ open' = [open EXCEPT ![c] = FALSE]
           /\ UNCHANGED active
      ELSE DisconnectNext(c, [r EXCEPT !.todo = <<b>>], active)

-----------------------------------------------------------------------------
(* The steps. *)

Takes(c, cmd) ==
  /\ task[c].pc = "read"
  /\ inbox[c] # <<>> /\ Head(inbox[c]) = cmd
  /\ inbox' = [inbox EXCEPT ![c] = Tail(@)]

\* BrokerRegisterCommand.
Register(c) ==
  /\ Takes(c, "register")
  /\ nodes' = nodes \cup {c[1]}
  /\ AnswerAndBroadcast(c, [task[c] EXCEPT !.broker = c[1]], [active EXCEPT ![c[1]] = c], {c})
  /\ UNCHANGED topic

\* RegisterTopicCommand.
RegisterTopic(c) ==
  /\ Takes(c, "topic")
  /\ topic' = IF topic = NoTopic THEN NewTopic(nodes) ELSE topic
  /\ AnswerAndBroadcast(c, task[c], active, {})
  /\ UNCHANGED nodes

\* ControllerPingCommand: the entry is rewritten with the connection of the ping.
\* An answer that cannot be sent ends the handler as InputEnds does.
Ping(c) ==
  /\ Takes(c, "ping")
  /\ active' = [active EXCEPT ![c[1]] = IF @ = NoConn THEN NoConn ELSE c]
  /\ UNCHANGED <<nodes, topic, task, open, served>>

\* drain returned, or raised.
Answered(c) ==
  /\ task[c].pc = "answering"
  /\ UNCHANGED <<nodes, topic, inbox>>
  /\ Broadcast(c, task[c], active, {})

AnswerRaises(c) ==
  /\ task[c].pc = "answering"
  /\ Finally(c)
  /\ UNCHANGED <<nodes, topic, inbox, served>>

\* The read ends: closed, reset (what was received before is dropped), or silent
\* for heartbeat_timeout.
InputEnds(c) ==
  /\ task[c].pc = "read"
  /\ open[c] => inbox[c] = <<>>
  /\ Finally(c)
  /\ UNCHANGED <<nodes, topic, inbox, served>>

\* _heartbeat_checker_loop finds the stale brokers.
CheckHeartbeats(stale) ==
  /\ task[Checker].pc = "read"
  /\ DisconnectNext(Checker, [task[Checker] EXCEPT !.todo = stale], active)
  /\ UNCHANGED <<nodes, topic, inbox, served>>

\* The broadcast goes on after a lost connection.
SendsOn(t) ==
  /\ task[t].pc = "sending"
  /\ Writes(t, task[t], active, {})
  /\ UNCHANGED <<nodes, topic, inbox>>

\* Mutant: it waits for the broker's next connection.
MutDeregister(t) ==
  /\ task[t].pc = "closing"
  /\ active[task[t].lost] # NoConn
  /\ Broadcast(t, [task[t] EXCEPT !.lost = NoBroker], active, {})
  /\ UNCHANGED <<nodes, topic, inbox>>

\* wait_closed is over: deregister_broker and broadcast_metadata.
Deregister(t) ==
  LET b == task[t].lost
  IN
  /\ task[t].pc = "closing"
  /\ nodes' = nodes \ {b}
  /\ topic' = IF topic # NoTopic /\ NeedsUpdate(topic, b) THEN AfterLoss(topic, b, nodes', nodes') ELSE topic
  /\ Broadcast(t, [task[t] EXCEPT !.lost = NoBroker], active, {})
  /\ UNCHANGED inbox

ControllerStep(t) ==
  \/ t \in Conns /\ (Register(t) \/ RegisterTopic(t) \/ Ping(t) \/ Answered(t) \/ AnswerRaises(t))
  \/ SendsOn(t) \/ Deregister(t)
=============================================================================
