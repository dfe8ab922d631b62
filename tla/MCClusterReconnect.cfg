SPECIFICATION LiveSpec
CONSTANTS
  b1 = b1
  b2 = b2
  Brokers <- MCBrokers
  RingOrder <- MCRingOrder
  ReplicasPerTopic = 2
  NoBroker = NoBroker
  NoTopic = NoTopic
  MaxConns <- FirstReconnects
  Checker = Checker
  NoConn = NoConn
  MaxFaults = 1
  MaxSends = 0
PROPERTY Reconnects
CHECK_DEADLOCK FALSE
