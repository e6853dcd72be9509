----------------------------- MODULE MCWsSessions -----------------------------
(***************************************************************************)
(* Small instances of WsSessions: two connections, one after the other or  *)
(* at once, for session x, and one for session y.                          *)
(***************************************************************************)
EXTENDS WsSessions

CONSTANTS s1, s2, s3, x, y

MCSidOf == [s \in Sockets |-> IF s = s3 THEN y ELSE x]

=============================================================================
