-------------------------------- MODULE Cluster --------------------------------
(***************************************************************************)
(* Brokers and their controller: Controller joined with the brokers'       *)
(* ControllerConnections (broker network/controller.py).  What the brokers *)
(* do with the metadata lists is the module ReplicaManager.                *)
(*                                                                         *)
(* A connection of broker b is <<b, n>>, dialled in the order of n.  A     *)
(* broker never closes a connection that it gives up.                      *)
(*                                                                         *)
(* Whichever loop notices that the connection is lost calls                *)
(* _handle_disconnect, which sets the event the retry loop waits for and   *)
(* goes on to `while True: await self._conn_status_event.wait()`.  The     *)
(* status event is set, and waiting for an event that is set does not      *)
(* suspend: the loop spins, no other coroutine of the process runs again,  *)
(* and the retry loop, which would clear the event, never wakes up.        *)
(***************************************************************************)
EXTENDS Controller

CONSTANTS
  MaxFaults,  \* bound: lost connections, late answers and crashes
  MaxSends    \* bound: commands sent after registering

ASSUME ClusterAssumption == MaxFaults \in Nat /\ MaxSends \in Nat

VARIABLES
  link,      \* the process: down, dialling, up (connected), frozen
  cur,       \* _reader and _writer
  trying,    \* the connection _try_controller waits on
  dialled,   \* connections dialled so far
  faults, sends

connVars == <<link, cur, trying, dialled>>
budgets == <<faults, sends>>
vars == <<controllerVars, connVars, budgets>>

Init ==
  /\ ControllerInit
  /\ link = [b \in Brokers |-> "dialling"]
  /\ cur = [b \in Brokers |-> NoConn]
  /\ trying = [b \in Brokers |-> NoConn]
  /\ dialled = [b \in Brokers |-> 0]
  /\ faults = 0 /\ sends = 0

-----------------------------------------------------------------------------
(* The controller. *)

\* Only a connection its broker has given up, or any of a frozen broker, is silent
\* for heartbeat_timeout: the others are pinged every five seconds.
Silent(c) == c \notin {cur[c[1]], trying[c[1]]} \/ link[c[1]] = "frozen"

HandlerInputEnds(c) ==
  /\ ~open[c] \/ Silent(c)
  /\ InputEnds(c)
  /\ UNCHANGED <<connVars, budgets>>

HeartbeatChecker ==
  /\ \E stale \in SUBSET {b \in Brokers : active[b] # NoConn /\ (~open[active[b]] \/ Silent(active[b]))} :
       /\ stale # {}
       /\ \E order \in SetToSeqs(stale) : CheckHeartbeats(order)
  /\ UNCHANGED <<connVars, budgets>>

ControllerRuns(t) == ControllerStep(t) /\ UNCHANGED <<connVars, budgets>>

-----------------------------------------------------------------------------
(* The brokers. *)

\* _connect: dial, and send the registration.
Dial(b) ==
  LET c == <<b, dialled[b] + 1>>
  IN
  /\ link[b] = "dialling" /\ trying[b] = NoConn
  /\ dialled[b] < MaxConns[b]
  /\ dialled' = [dialled EXCEPT ![b] = @ + 1]
  /\ trying' = [trying EXCEPT ![b] = c]
  /\ open' = [open EXCEPT ![c] = TRUE]
  /\ inbox' = [inbox EXCEPT ![c] = <<"register">>]
  /\ task' = [task EXCEPT ![c].pc = "read"]
  /\ UNCHANGED <<nodes, topic, active, served, link, cur, budgets>>

\* _try_controller has its answer; _start starts the loops.
TrySucceeds(b) ==
  /\ trying[b] \in served
  /\ link' = [link EXCEPT ![b] = "up"]
  /\ cur' = [cur EXCEPT ![b] = trying[b]]
  /\ trying' = [trying EXCEPT ![b] = NoConn]
  /\ UNCHANGED <<controllerVars, dialled, budgets>>

\* The connection was reset, or there is no answer in time: dial again.
TryFails(b) ==
  /\ trying[b] # NoConn
  /\ \/ ~open[trying[b]] /\ UNCHANGED faults
     \/ trying[b] \notin served /\ faults < MaxFaults /\ faults' = faults + 1
  /\ trying' = [trying EXCEPT ![b] = NoConn]
  /\ UNCHANGED <<controllerVars, link, cur, dialled, sends>>

\* The process ends, with all its connections.
Exit(b) ==
  /\ link' = [link EXCEPT ![b] = "down"]
  /\ cur' = [cur EXCEPT ![b] = NoConn]
  /\ trying' = [trying EXCEPT ![b] = NoConn]
  /\ open' = [c \in Conns |-> open[c] /\ c[1] # b]
  /\ UNCHANGED <<nodes, topic, active, task, inbox, served, dialled, sends>>

\* The controller closed the connection without an answer: IncompleteReadError is
\* none of the errors _try_controller catches, and start_server raises it.
TryRaises(b) ==
  /\ trying[b] # NoConn /\ trying[b] \notin served /\ ~open[trying[b]]
  /\ Exit(b)
  /\ UNCHANGED faults

\* A read, a ping or a request fails: _handle_disconnect, which spins.  A frame that
\* cannot be parsed and a NotLeader answer end in the same loop; with the one
\* controller of this module and what Protocol shows of its lists neither occurs.
HandleDisconnect(b) ==
  /\ link[b] = "up" /\ ~open[cur[b]]
  /\ link' = [link EXCEPT ![b] = "frozen"]
  /\ UNCHANGED <<controllerVars, cur, trying, dialled, budgets>>

SendCommand(b, cmd) ==
  /\ link[b] = "up" /\ open[cur[b]]
  /\ sends < MaxSends
  /\ sends' = sends + 1
  /\ inbox' = [inbox EXCEPT ![cur[b]] = Append(@, cmd)]
  /\ UNCHANGED <<nodes, topic, active, task, open, served, connVars, faults>>

-----------------------------------------------------------------------------
(* Failures. *)

LoseConnection(c) ==
  /\ open[c] /\ faults < MaxFaults
  /\ faults' = faults + 1
  /\ open' = [open EXCEPT ![c] = FALSE]
  /\ UNCHANGED <<nodes, topic, active, task, inbox, served, connVars, sends>>

\* The process dies or is stopped; a frozen one is killed, which is no new fault.
Crash(b) ==
  /\ link[b] # "down"
  /\ \/ link[b] = "frozen" /\ UNCHANGED faults
     \/ link[b] # "frozen" /\ faults < MaxFaults /\ faults' = faults + 1
  /\ Exit(b)

Restart(b) ==
  /\ link[b] = "down"
  /\ link' = [link EXCEPT ![b] = "dialling"]
  /\ UNCHANGED <<controllerVars, cur, trying, dialled, budgets>>

ControllerNext ==
  \/ \E c \in Conns : HandlerInputEnds(c)
  \/ \E t \in Tasks : ControllerRuns(t)
  \/ HeartbeatChecker

\* What the event loop of a broker does.
BrokerRuns(b) == Dial(b) \/ TrySucceeds(b) \/ TryFails(b) \/ TryRaises(b) \/ HandleDisconnect(b)

BrokerNext(b) ==
  \/ BrokerRuns(b)
  \/ \E cmd \in {"topic", "ping"} : SendCommand(b, cmd)
  \/ Crash(b) \/ Restart(b)

Next ==
  \/ ControllerNext
  \/ \E b \in Brokers : BrokerNext(b)
  \/ \E c \in Conns : LoseConnection(c)

\* The event loop runs every coroutine that can go on.
Fairness ==
  /\ \A c \in Conns : WF_vars(HandlerInputEnds(c))
  /\ \A t \in Tasks : WF_vars(ControllerRuns(t))
  /\ WF_vars(HeartbeatChecker)

BrokerFairness == \A b \in Brokers : WF_vars(BrokerRuns(b))

Spec == Init /\ [][Next]_vars
FairSpec == Spec /\ Fairness
LiveSpec == FairSpec /\ BrokerFairness

-----------------------------------------------------------------------------
\* The replicas of the topic are registered brokers whenever no coroutine of the
\* controller runs (register_topic, deregister_broker).
ReplicasRegistered == topic # NoTopic => ToSet(topic.replicas) \subseteq nodes

\* A registered broker has a connection that will be missed, or is being
\* deregistered, however its connections overlap (handle_connection,
\* _handle_broker_disconnect).
RegisteredIsWatched ==
  \A b \in nodes : active[b] # NoConn \/ \E t \in Tasks : task[t].pc = "closing" /\ task[t].lost = b

\* A broker that stays down or frozen leaves the metastore and the replicas.
DeadBrokerGone ==
  \A b \in Brokers :
    <>[](link[b] \in {"down", "frozen"})
      => <>[](b \notin nodes /\ (topic # NoTopic => ~Contains(topic.replicas, b)))

\* A broker that loses its connection gets a new one, unless the process ends
\* (_handle_disconnect: "await till the connection is re-established").
Reconnects ==
  \A b \in Brokers :
    (link[b] = "up" /\ ~open[cur[b]]) ~> (link[b] = "down" \/ (link[b] = "up" /\ open[cur[b]]))
=============================================================================
