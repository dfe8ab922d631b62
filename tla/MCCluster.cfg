SPECIFICATION FairSpec
CONSTANTS
  b1 = b1
  b2 = b2
  Brokers <- MCBrokers
  RingOrder <- MCRingOrder
  ReplicasPerTopic = 2
  NoBroker = NoBroker
  NoTopic = NoTopic
  MaxConns <- BothReconnect
  Checker = Checker
  NoConn = NoConn
  MaxFaults = 1
  MaxSends = 1
INVARIANTS ReplicasRegistered RegisteredIsWatched
PROPERTY DeadBrokerGone
CHECK_DEADLOCK FALSE
