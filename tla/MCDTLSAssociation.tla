------------------------- MODULE MCDTLSAssociation -------------------------
(* Two peers.  The larger instance draws a third tag, so that a peer that    *)
(* starts again meets the packets of its earlier life; there at most         *)
(* MCMaxSent different packets are sent in a run.                            *)
EXTENDS DTLSAssociation, FiniteSets, TLC

CONSTANTS a, b

MCPeers == {a, b}
MCKeyKnown == {TRUE}
MCKeyAny == BOOLEAN
MCSymmetry == Permutations(MCPeers)
MCMaxSent == 7
MCFewPackets == Cardinality(sent) <= MCMaxSent
=============================================================================
