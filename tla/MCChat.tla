------------------------------ MODULE MCChat -------------------------------
(***************************************************************************)
(* Three connections, two of them with the same peer.                      *)
(***************************************************************************)
EXTENDS Chat

CONSTANTS c1, c2, c3

MCConn == {c1, c2, c3}
MCOutgoing == {c3}
MCTalking == {c1}
MCPeerOf == [c \in MCConn |-> IF c = c2 THEN 2 ELSE 1]
=============================================================================
