---------------------------- MODULE MCRoonClient ----------------------------
(* Two zones, and two tracks of different albums.                          *)
EXTENDS RoonClient, TLC

CONSTANTS t1, t2, k1, k2, zone, other

MCTracks == {t1, t2}
MCImages == {k1, k2}
MCImageOf == t1 :> k1 @@ t2 :> k2
MCNames == {zone, other}
=============================================================================
