-------------------------- MODULE ControllerElection --------------------------
(***************************************************************************)
(* Leader election among controllers (controller server.py: _run_election, *)
(* _on_leader_gone, start and close) over the calls of ZKClient            *)
(* (zk/client.py).  ZooKeeper and kazoo are external: one ephemeral znode, *)
(* deleted when its session is closed or has timed out, and one-shot       *)
(* watches that fire at the next creation or deletion.  kazoo also calls a *)
(* watch when its own connection is interrupted, and the watch function    *)
(* does not look at the event.                                             *)
(*                                                                         *)
(* A controller is in its election or has its watch set, never both, so    *)
(* _election_lock is free whenever it is asked for.  No broker is          *)
(* connected to a controller that watches, so _broadcast_not_leader finds  *)
(* active_brokers empty and only reads the znode.                          *)
(***************************************************************************)
EXTENDS Naturals

CONSTANTS
  Controllers,
  Absent,     \* there is no /controller node
  Orphan,     \* it is that of a process that is gone, its session not timed out
  MaxStarts,  \* bound: starts of a controller process
  MaxFaults   \* bound: crashes, expired sessions, interrupted connections, errors

ASSUME ElectionAssumption ==
  /\ Absent \notin Controllers /\ Orphan \notin Controllers /\ Absent # Orphan
  /\ MaxStarts \in Nat /\ MaxFaults \in Nat

VARIABLES
  proc,      \* is the process down, in start(), or serving brokers
  isLeader,  \* is_leader
  elect,     \* where its election stands
  watch,     \* controllers whose watch is set
  znode,     \* whose session owns /controller
  expired,   \* leaders whose session expired under them
  starts, faults

vars == <<proc, isLeader, elect, watch, znode, expired, starts, faults>>

Init ==
  /\ proc = [k \in Controllers |-> "down"]
  /\ isLeader = [k \in Controllers |-> TRUE]
  /\ elect = [k \in Controllers |-> "none"]
  /\ watch = {} /\ znode = Absent /\ expired = {}
  /\ starts = 0 /\ faults = 0

\* ControllerServer() and start, up to _run_election.
Start(k) ==
  /\ proc[k] = "down" /\ starts < MaxStarts
  /\ proc' = [proc EXCEPT ![k] = "starting"]
  /\ isLeader' = [isLeader EXCEPT ![k] = TRUE]
  /\ elect' = [elect EXCEPT ![k] = "create"]
  /\ expired' = expired \ {k}
  /\ starts' = starts + 1
  /\ UNCHANGED <<watch, znode, faults>>

\* The watches of ws are called: _on_leader_gone is put on each one's event loop.
Fired(e, ws) == [k \in Controllers |-> IF k \in ws THEN "gone" ELSE e[k]]

\* create_ephemeral succeeds.  In start the server is opened next.
Elected(k) ==
  /\ elect[k] = "create" /\ znode = Absent
  /\ znode' = k
  /\ isLeader' = [isLeader EXCEPT ![k] = TRUE]
  /\ proc' = [proc EXCEPT ![k] = "serving"]
  /\ elect' = Fired([elect EXCEPT ![k] = "none"], watch) /\ watch' = {}
  /\ UNCHANGED <<expired, starts, faults>>

\* Mutant: is_leader keeps the value the constructor gave it.
MutNotElected(k) ==
  /\ elect[k] = "create" /\ znode # Absent
  /\ elect' = [elect EXCEPT ![k] = "watch"]
  /\ UNCHANGED <<proc, isLeader, watch, znode, expired, starts, faults>>

\* create_ephemeral raises NodeExistsError; get_leader is awaited.
NotElected(k) ==
  /\ elect[k] = "create" /\ znode # Absent
  /\ isLeader' = [isLeader EXCEPT ![k] = FALSE]
  /\ elect' = [elect EXCEPT ![k] = "watch"]
  /\ UNCHANGED <<proc, watch, znode, expired, starts, faults>>

\* watch_exists, which does not look whether the node still exists.
SetWatch(k) ==
  /\ elect[k] = "watch"
  /\ watch' = watch \cup {k}
  /\ proc' = [proc EXCEPT ![k] = "serving"]
  /\ elect' = [elect EXCEPT ![k] = "none"]
  /\ UNCHANGED <<isLeader, znode, expired, starts, faults>>

\* Mutant: the controller looks for the next leader instead of standing for it.
MutLeaderGone(k) ==
  /\ elect[k] = "gone"
  /\ isLeader' = [isLeader EXCEPT ![k] = FALSE]
  /\ elect' = [elect EXCEPT ![k] = "watch"]
  /\ UNCHANGED <<proc, watch, znode, expired, starts, faults>>

\* _on_leader_gone, up to _run_election.
LeaderGone(k) ==
  /\ elect[k] = "gone"
  /\ isLeader' = [isLeader EXCEPT ![k] = FALSE]
  /\ elect' = [elect EXCEPT ![k] = "create"]
  /\ UNCHANGED <<proc, watch, znode, expired, starts, faults>>

\* A call of ZooKeeper raises something else; create may have been executed all the
\* same.  In start that ends the process, which closes its session; later the
\* exception stays in a future nobody reads.
ElectionRaises(k, executed) ==
  /\ elect[k] \in {"create", "watch", "gone"} /\ faults < MaxFaults
  /\ executed => elect[k] = "create" /\ znode = Absent /\ proc[k] = "serving"
  /\ faults' = faults + 1
  /\ IF proc[k] = "starting"
     THEN /\ proc' = [proc EXCEPT ![k] = "down"]
          /\ elect' = [elect EXCEPT ![k] = "none"]
          /\ UNCHANGED <<isLeader, watch, znode>>
     ELSE /\ isLeader' = IF elect[k] = "gone" THEN [isLeader EXCEPT ![k] = FALSE] ELSE isLeader
          /\ elect' = Fired([elect EXCEPT ![k] = "failed"], IF executed THEN watch ELSE {})
          /\ watch' = IF executed THEN {} ELSE watch
          /\ znode' = IF executed THEN k ELSE znode
          /\ UNCHANGED proc
  /\ UNCHANGED <<expired, starts>>

\* The process of k is gone.
Ends(k, ws) ==
  /\ proc' = [proc EXCEPT ![k] = "down"]
  /\ elect' = Fired([elect EXCEPT ![k] = "none"], ws \ {k})

\* close: the session is closed with the process, and its node with the session.
Close(k) ==
  /\ proc[k] = "serving"
  /\ IF znode = k
     THEN Ends(k, watch) /\ znode' = Absent /\ watch' = {}
     ELSE Ends(k, {}) /\ watch' = watch \ {k} /\ UNCHANGED znode
  /\ UNCHANGED <<isLeader, expired, starts, faults>>

\* The process is killed: ZooKeeper keeps the node until the session times out.
Crash(k) ==
  /\ proc[k] # "down" /\ faults < MaxFaults
  /\ faults' = faults + 1
  /\ Ends(k, {}) /\ watch' = watch \ {k}
  /\ znode' = IF znode = k THEN Orphan ELSE znode
  /\ UNCHANGED <<isLeader, expired, starts>>

NodeExpires ==
  /\ znode = Orphan /\ znode' = Absent
  /\ elect' = Fired(elect, watch) /\ watch' = {}
  /\ UNCHANGED <<proc, isLeader, expired, starts, faults>>

\* The session of a living leader expires.  Nothing tells the controller.
SessionExpires(k) ==
  /\ znode = k /\ faults < MaxFaults
  /\ znode' = Absent /\ expired' = expired \cup {k}
  /\ elect' = Fired(elect, watch) /\ watch' = {}
  /\ faults' = faults + 1
  /\ UNCHANGED <<proc, isLeader, starts>>

\* kazoo's connection is interrupted and it calls the controller's watch.
Interrupted(k) ==
  /\ k \in watch /\ faults < MaxFaults
  /\ elect' = Fired(elect, {k}) /\ watch' = watch \ {k}
  /\ faults' = faults + 1
  /\ UNCHANGED <<proc, isLeader, znode, expired, starts>>

ElectionStep(k) == Elected(k) \/ NotElected(k) \/ SetWatch(k) \/ LeaderGone(k)

Next ==
  \/ NodeExpires
  \/ \E k \in Controllers :
       \/ Start(k) \/ ElectionStep(k) \/ Close(k) \/ Crash(k)
       \/ SessionExpires(k) \/ Interrupted(k)
       \/ \E executed \in BOOLEAN : ElectionRaises(k, executed)

Spec == Init /\ [][Next]_vars

\* The event loop runs every election; ZooKeeper times dead sessions out.
Fairness == WF_vars(NodeExpires) /\ \A k \in Controllers : WF_vars(ElectionStep(k))

FairSpec == Spec /\ Fairness

-----------------------------------------------------------------------------
TypeOK ==
  /\ proc \in [Controllers -> {"down", "starting", "serving"}]
  /\ isLeader \in [Controllers -> BOOLEAN]
  /\ elect \in [Controllers -> {"none", "create", "watch", "gone", "failed"}]
  /\ watch \subseteq Controllers /\ expired \subseteq Controllers
  /\ znode \in Controllers \cup {Absent, Orphan}
  /\ starts \in Nat /\ faults \in Nat

\* A controller that serves brokers as leader owns the /controller node, unless its
\* session expired under it: two controllers lead at once only after an expiry
\* that the code does not notice.
LeaderHoldsNode ==
  \A k \in Controllers :
    proc[k] = "serving" /\ isLeader[k] /\ k \notin expired => znode = k

\* A controller that is told that the leader is gone brings a leader about: the
\* node exists again, or its election raised, or it went down meanwhile.
TakesOver ==
  \A k \in Controllers :
    elect[k] = "gone" ~> znode # Absent \/ elect[k] = "failed" \/ proc[k] = "down"

=============================================================================
