----------------------------- MODULE NaaStream -----------------------------
(***************************************************************************)
(* What the NAA endpoint is promised, whatever HQPlayer sends and however  *)
(* TCP cuts it: a well-formed NAA v6 stream.  XML only between frames; a   *)
(* header announces exactly the sections that follow it, in the order      *)
(* [pcm][pos][meta][pic]; audio is counted with the sample width of the    *)
(* last start message; and when the connection breaks, a prefix of that.   *)
(***************************************************************************)
EXTENDS NaaProtocol

VARIABLES
    heard,   \* what has been sent to the NAA
    owed,    \* what the last header announced and is still to come
    bits,    \* the sample width in force
    open     \* the connection still stands

streamVars == <<heard, owed, bits, open>>

-----------------------------------------------------------------------------
XmlToken == [kind : {"xml"}, start : BOOLEAN, bits : Nat]
PcmToken == [kind |-> "pcm"]

Nothing == [pcm |-> 0, sections |-> {}]

(* heard grows by tokens of a set, at least one.                           *)
GrowsBy(Tokens) ==
    /\ IsStrictPrefix(heard, heard')
    /\ \A i \in (Len(heard) + 1)..Len(heard') : heard'[i] \in Tokens

StartsHeard == {i \in (Len(heard) + 1)..Len(heard') : heard'[i].start}

Xml ==
    /\ open /\ owed = Nothing
    /\ GrowsBy(XmlToken)
    /\ bits' = IF StartsHeard = {} THEN bits ELSE heard'[Max(StartsHeard)].bits
    /\ UNCHANGED <<owed, open>>

(* What a header says of the body that follows it: at most one section of  *)
(* each kind, a PIC only beside a META, and a META with the width in force.*)
Announced(h, b, body) ==
    LET kinds == {s.kind : s \in body.sections}
    IN  /\ h.mask \subseteq Bits
        /\ body.pcm = h.pcm * bytes_per_sample(b)
        /\ kinds \subseteq {"pos", "meta", "pic"}
        /\ \A s, t \in body.sections : s.kind = t.kind => s = t
        /\ h.pos  = (IF "pos" \in kinds THEN PosLen ELSE 0)
        /\ h.meta = (IF "meta" \in kinds THEN MetaLen ELSE 0)
        /\ h.pic  = (IF "pic" \in kinds THEN PicLen ELSE 0)
        /\ ("POS" \in h.mask) = ("pos" \in kinds)
        /\ ("META" \in h.mask) = ("meta" \in kinds)
        /\ ("PIC" \in h.mask) = ("pic" \in kinds)
        /\ "pic" \in kinds => "meta" \in kinds
        /\ \A s \in body.sections : s.kind = "meta" => s.bits = b

Header ==
    /\ open /\ owed = Nothing
    /\ IsStrictPrefix(heard, heard') /\ Len(heard') = Len(heard) + 1
    /\ heard'[Len(heard')].kind = "hdr"
    /\ Announced(heard'[Len(heard')].h, bits, owed')
    /\ UNCHANGED <<bits, open>>

Audio ==
    /\ open /\ owed.pcm > 0
    /\ GrowsBy({PcmToken})
    /\ LET left == owed.pcm - (Len(heard') - Len(heard))
       IN  left >= 0 /\ owed' = [owed EXCEPT !.pcm = left]
    /\ UNCHANGED <<bits, open>>

(* The sections come after the audio, in the order of the layout.          *)
Before(s, t) ==
    \/ s.kind = "pos" /\ t.kind \in {"meta", "pic"}
    \/ s.kind = "meta" /\ t.kind = "pic"

Section ==
    /\ open /\ owed.pcm = 0
    /\ \E s \in owed.sections :
         /\ \A t \in owed.sections \ {s} : Before(s, t)
         /\ heard' = Append(heard, s)
         /\ owed' = [owed EXCEPT !.sections = @ \ {s}]
    /\ UNCHANGED <<bits, open>>

(* The connection breaks: the NAA got a prefix of what was sent to it, the *)
(* last of it perhaps the beginning of an XML message.                     *)
Break ==
    /\ open /\ open' = FALSE
    /\ IsPrefix(heard', heard) \/ (owed = Nothing /\ GrowsBy(XmlToken))
    /\ UNCHANGED owed
    /\ bits' \in Nat

StreamInit ==
    /\ heard = <<>> /\ owed = Nothing
    /\ bits = 32
    /\ open = TRUE

StreamNext == Xml \/ Header \/ Audio \/ Section \/ Break

StreamSpec == StreamInit /\ [][StreamNext]_streamVars
=============================================================================
