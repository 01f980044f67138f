---------------------------- MODULE LobbyChannel ----------------------------
(***************************************************************************)
(* What a lobby connection promises the program that polls it: the server's*)
(* messages come out whole, in the order they were sent and each once, only *)
(* while the connection is up; a message that cannot be decrypted never     *)
(* comes out and holds back what follows; a connection that went down stays *)
(* down.                                                                    *)
(***************************************************************************)
EXTENDS Naturals, Sequences

CONSTANTS Messages,   \* what the server can send
          Readable    \* the messages of them that can be decrypted

VARIABLES sent,    \* every message the server sent, in order
          got,     \* every message the program was given, in order
          phase    \* "new", "opening", "up" or "down"

channelVars == <<sent, got, phase>>

ChannelInit == sent = <<>> /\ got = <<>> /\ phase = "new"

ServerSends(m) == /\ phase \in {"up", "down"}
                  /\ sent' = Append(sent, m)
                  /\ UNCHANGED <<got, phase>>

Deliver == /\ phase = "up"
           /\ Len(got) < Len(sent)
           /\ sent[Len(got) + 1] \in Readable
           /\ got' = Append(got, sent[Len(got) + 1])
           /\ UNCHANGED <<sent, phase>>

Open == /\ phase = "new" /\ phase' \in {"opening", "up"}
        /\ UNCHANGED <<sent, got>>

ComeUp == phase = "opening" /\ phase' = "up" /\ UNCHANGED <<sent, got>>

GoDown == phase # "down" /\ phase' = "down" /\ UNCHANGED <<sent, got>>

ChannelNext == \/ \E m \in Messages : ServerSends(m)
               \/ Deliver \/ Open \/ ComeUp \/ GoDown

ChannelSpec == ChannelInit /\ [][ChannelNext]_channelVars
=============================================================================
