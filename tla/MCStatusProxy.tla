--------------------------- MODULE MCStatusProxy ---------------------------
(* Two messages, the first with an artist's name of two-byte characters,   *)
(* and a third without a song; a title all of special characters, a track  *)
(* without a title, and another title.                                     *)
EXTENDS StatusProxy

MCKinds ==
    <<"text", "so", "ng=", "quote", "Roon", "quote", "u1", "u2",
      "so", "ng=", "quote", "Roon", "quote", "text", "text">>
MCStream == [i \in DOMAIN MCKinds |-> [k |-> MCKinds[i], at |-> i]]
MCTitles == <<<<"&", "quote", "<", ">">>, <<>>, <<"b">>>>
=============================================================================
