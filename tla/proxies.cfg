CONSTANTS
  TcpClients = {"t"}
  UdpClients = {"u", "v"}
  MaxConnectAttempts = 5
  MaxSent = 2
CHECK_DEADLOCK FALSE
SPECIFICATION FairSpec
INVARIANTS
  ProxyInv
PROPERTIES
  Reaches
  ImplementsRelay
