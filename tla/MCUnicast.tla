------------------------------ MODULE MCUnicast -----------------------------
(* Two peers; at most MCMaxWaiting chunks and packets wait to be sent or are *)
(* on their way.                                                             *)
EXTENDS UnicastConnection

CONSTANTS a, b

MCPeers == {a, b}
MCSymmetry == Permutations(MCPeers)
MCMaxWaiting == 3
MCFewWaiting ==
    Len(conn[a].outQueue) + Len(conn[b].outQueue)
    + Len(net[a]) + Len(net[b]) <= MCMaxWaiting
=============================================================================
