------------------------------ MODULE MCLobby ------------------------------
(* Bytes of four values and sizes of two bytes: a plain message, one that   *)
(* decrypts, one that does not and one too large for either buffer.  The    *)
(* listeners' bytes without a frame are a greeting that reads as a size, of *)
(* bdLobbyService, and four zeros, of bdAuthService.                        *)
EXTENDS LobbyConnection

MCPlain == [enc |-> 0, body |-> <<1>>]
MCSigned == [enc |-> 1, body |-> <<3, 2>>]
MCForged == [enc |-> 1, body |-> <<0, 2>>]
MCLarge == [enc |-> 0, body |-> <<1, 0, 1>>]
MCServerMessages == {MCSigned, MCForged, MCLarge}
MCClientMessages == {MCPlain, MCLarge}
MCRawMessages == {<<3, 0>>, KeepAlive}
=============================================================================
