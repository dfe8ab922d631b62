---------------------------- MODULE ReplicaManager ----------------------------
(***************************************************************************)
(* ReplicaManager of one broker (broker replication/manager.py) and one    *)
(* topic: the metadata it has applied and the leader loop it runs.         *)
(*                                                                         *)
(* Which coroutines apply metadata lists is chosen in the initial state.   *)
(* The present program has one that gets there, the reader loop of the     *)
(* controller connection; its retry loop would be the second, but a lost   *)
(* connection freezes the process before (see Cluster).                    *)
(* Closing a leader's state suspends the caller until the leader loop is   *)
(* gone, and starting a follower until the leader was dialled.  That ends  *)
(* in an exception in ReplicaFetcher.__init__, which is printed, so there  *)
(* never is a fetcher.                                                     *)
(*                                                                         *)
(* The controller is not part of the module: any list may come next, as    *)
(* after reconnecting to another controller or over an old connection.     *)
(***************************************************************************)
EXTENDS Integers, FiniteSets

CONSTANTS
  Self,        \* broker_id
  Others,      \* the other brokers
  Callers,     \* coroutines that may apply metadata
  MaxVersion,  \* bound: versions of the metadata
  NoTopic      \* the topic is not in the list, or not in topics

Brokers == {Self} \cup Others

\* found: the controller knew the leader's address.
Metadata == [leader : Brokers, found : BOOLEAN, replicas : SUBSET Brokers, version : 1..MaxVersion]

ASSUME ManagerAssumption == Self \notin Others /\ MaxVersion \in Nat /\ NoTopic \notin Metadata

VARIABLES
  present,   \* the coroutines that do in this process
  topics,    \* the TopicState, as the metadata it was made from
  running,   \* its leader loop runs
  orphaned,  \* the loop of a state that is no longer in topics runs
  applying   \* where each caller is suspended, and with which metadata

managerVars == <<present, topics, running, orphaned, applying>>

\* current: the state the caller is closing is still the one in topics.
NotApplying == [stage |-> "idle", current |-> FALSE, msg |-> NoTopic]

ManagerInit ==
  /\ present \in (SUBSET Callers) \ {{}}
  /\ topics = NoTopic
  /\ running = FALSE /\ orphaned = FALSE
  /\ applying = [k \in Callers |-> NotApplying]

Leads(state) == state # NoTopic /\ state.leader = Self

\* The topic goes: it is not in the list, or this broker not in its replicas.
Excluded(msg) == IF msg = NoTopic THEN TRUE ELSE Self \notin msg.replicas

\* compare_meta; the role follows from the leader.
SameMeta(m, n) == m.leader = n.leader /\ m.found = n.found /\ m.replicas = n.replicas

\* The metadata is not newer, or there is nothing new in it.
NotNewer(msg) ==
  /\ topics # NoTopic
  /\ msg.version <= topics.version \/ SameMeta(msg, topics)

Ignored(msg) == IF Excluded(msg) THEN topics = NoTopic ELSE NotNewer(msg)

\* Mutant: the loop is only started for a new topic.
MutInstall(k, msg) ==
  LET gone == Excluded(msg)
  IN
  /\ topics' = IF gone THEN NoTopic ELSE msg
  /\ running' = (~gone /\ topics = NoTopic /\ Leads(msg))
  /\ orphaned' = (orphaned \/ running)
  /\ present' = present
  /\ applying' = [j \in Callers |-> IF j = k THEN NotApplying ELSE [applying[j] EXCEPT !.current = FALSE]]

\* topics[topic] = state and _start_topic, or del topics[topic], by k.
Install(k, msg) ==
  LET gone == Excluded(msg)
      stage == IF gone \/ Leads(msg) THEN NotApplying ELSE [NotApplying EXCEPT !.stage = "dial"]
  IN
  /\ topics' = IF gone THEN NoTopic ELSE msg
  /\ running' = (~gone /\ Leads(msg))
  /\ orphaned' = (orphaned \/ running)
  /\ present' = present
  /\ applying' = [j \in Callers |-> IF j = k THEN stage ELSE [applying[j] EXCEPT !.current = FALSE]]

\* apply_metadata_list: nothing to do.
Ignore(k, msg) ==
  /\ applying[k] = NotApplying
  /\ Ignored(msg)
  /\ UNCHANGED managerVars

\* Mutant: the loop is waited for and not cancelled.
MutCloseState(k, msg) ==
  /\ applying[k] = NotApplying
  /\ ~Ignored(msg)
  /\ Leads(topics)
  /\ applying' = [applying EXCEPT ![k] = [stage |-> "close", current |-> TRUE, msg |-> msg]]
  /\ UNCHANGED <<present, topics, running, orphaned>>

\* The state that goes is a leader's: _close_state cancels the loop and waits.
CloseState(k, msg) ==
  /\ applying[k] = NotApplying
  /\ ~Ignored(msg)
  /\ Leads(topics)
  /\ applying' = [applying EXCEPT ![k] = [stage |-> "close", current |-> TRUE, msg |-> msg]]
  /\ running' = FALSE
  /\ UNCHANGED <<present, topics, orphaned>>

\* There is no state, or a follower's, which has nothing to close.
Apply(k, msg) ==
  /\ applying[k] = NotApplying
  /\ ~Ignored(msg)
  /\ ~Leads(topics)
  /\ Install(k, msg)

\* The leader loop is gone; the other caller may have changed topics meanwhile.
Closed(k) ==
  /\ applying[k].stage = "close"
  /\ ~(Excluded(applying[k].msg) /\ topics = NoTopic)
  /\ Install(k, applying[k].msg)

\* del topics[topic] raises KeyError: the other caller has removed the topic.
RemoveRaises(k) ==
  /\ applying[k].stage = "close"
  /\ Excluded(applying[k].msg) /\ topics = NoTopic
  /\ applying' = [applying EXCEPT ![k] = NotApplying]
  /\ UNCHANGED <<present, topics, running, orphaned>>

\* ReplicaFetcher.create has failed.
FetcherFails(k) ==
  /\ applying[k].stage = "dial"
  /\ applying' = [applying EXCEPT ![k] = NotApplying]
  /\ UNCHANGED <<present, topics, running, orphaned>>

ManagerNext ==
  \E k \in present :
    \/ \E msg \in Metadata \cup {NoTopic} : Ignore(k, msg) \/ CloseState(k, msg) \/ Apply(k, msg)
    \/ Closed(k) \/ RemoveRaises(k) \/ FetcherFails(k)

ManagerSpec == ManagerInit /\ [][ManagerNext]_managerVars

-----------------------------------------------------------------------------
\* Every variable has its type.
ManagerTypeOK ==
  LET Maybe == Metadata \cup {NoTopic}
  IN  /\ present \in SUBSET Callers
      /\ topics \in Maybe
      /\ running \in BOOLEAN /\ orphaned \in BOOLEAN
      /\ applying \in [Callers -> [stage : {"idle", "close", "dial"}, current : BOOLEAN, msg : Maybe]]

Closing(k, current) == applying[k].stage = "close" /\ applying[k].current = current

\* A broker that leads the topic runs its leader loop, unless a caller is
\* stopping it, however the callers overlap (_start_topic, _close_state).
LeaderLoopRuns == Leads(topics) => running \/ \E k \in Callers : Closing(k, TRUE)

\* In a process with one caller, as the program has, a loop that changes an ISR is
\* the current leader's: whatever lists make the broker leader, follower, excluded
\* and leader again, none is left running behind a state that was replaced
\* (_close_state).
OneLoop ==
  (\E c \in Callers : present = {c}) => ~orphaned /\ (running => Leads(topics))
=============================================================================
