------------------------------- MODULE MCAuth -------------------------------
(* Two credentials; the second request meets what the first left behind.   *)
EXTENDS AuthService

CONSTANTS c1, c2
MCCredentials == {c1, c2}
=============================================================================
