----------------------------- MODULE MCSessions -----------------------------
(* Two connections, one after the other or the second waiting for the      *)
(* first.                                                                  *)
EXTENDS Sessions

CONSTANTS c1, c2

MCClients == {c1, c2}
=============================================================================
