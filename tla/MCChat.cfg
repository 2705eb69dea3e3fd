SPECIFICATION FairSpec
CONSTANTS
  c1 = c1
  c2 = c2
  c3 = c3
  NoConn = NoConn
  Conn <- MCConn
  Outgoing <- MCOutgoing
  Talking <- MCTalking
  PeerOf <- MCPeerOf
  MaxClients = 2
  MaxFd = 3
  MaxTerminates = 1
INVARIANTS
  ListMatchesThreads
  NoDescriptorLeak
PROPERTY LostPeerLeaves
