SPECIFICATION Spec
CONSTANTS
  c1 = c1
  c2 = c2
  c3 = c3
  NoConn = NoConn
  Conn <- MCConn
  Outgoing <- MCOutgoing
  Talking <- MCTalking
  PeerOf <- MCPeerOf
  MaxClients = 1
  MaxFd = 2
  MaxTerminates = 1
INVARIANT SendReachesItsPeer
