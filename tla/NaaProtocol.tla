---------------------------- MODULE NaaProtocol ----------------------------
(***************************************************************************)
(* The byte stream HQPlayer sends to the NAA endpoint, as the proxy's code *)
(* (src/src/frame.rs, src/src/proxy.rs) reads it: NAA v6 binary frames and *)
(* XML messages, back to back on one TCP connection with nothing between   *)
(* them.                                                                   *)
(*                                                                         *)
(* A stream is a sequence of units, each standing for a run of bytes that  *)
(* the code tells apart, and labelled with the message it belongs to:      *)
(*   - an XML message is 4 or 5 units: its first '<', its attributes,      *)
(*     "</networkaudio", ">" and, when the peer adds one, the newline;     *)
(*   - a frame is FRAME_HEADER_SIZE header units and its body, laid out    *)
(*     [pcm][pos][meta][pic], one unit per byte.                           *)
(* The label is the ground truth about the stream; the proxy, which only   *)
(* sees bytes, may look at no more of it than the operators below show.    *)
(***************************************************************************)
EXTENDS Integers, Sequences, FiniteSets, SequencesExt

CONSTANTS
    FRAME_HEADER_SIZE,            \* bytes of a frame header (32 in the code)
    MaxPcm, MaxPos, MaxMeta, MaxPic,   \* the largest lengths is_corrupt lets through
    PosLen, MetaLen, PicLen       \* bytes of the sections the proxy builds itself

ASSUME NaaProtocolAssumption ==
    /\ FRAME_HEADER_SIZE \in Nat /\ FRAME_HEADER_SIZE >= 2
    /\ {MaxPcm, MaxPos, MaxMeta, MaxPic} \subseteq Nat
    /\ {PosLen, MetaLen, PicLen} \subseteq Nat \ {0}

-----------------------------------------------------------------------------
(* Headers and messages.                                                   *)

Bits == {"PCM", "POS", "META", "PIC"}          \* the bits of type_mask

FrameHeader == [mask : SUBSET Bits, pcm : Nat, pos : Nat, meta : Nat, pic : Nat]

(* max(1, bits / 8): one byte for DSD (bits = 1), four for 32-bit PCM.     *)
bytes_per_sample(bits) == IF bits \div 8 > 1 THEN bits \div 8 ELSE 1

is_corrupt(h) ==
    h.pcm > MaxPcm \/ h.pos > MaxPos \/ h.meta > MaxMeta \/ h.pic > MaxPic

(* "start" is what parse_start_message recognises, "bits" the sample width *)
(* it carries; "nl" says whether a newline follows the closing tag.        *)
XmlMessage == [type : {"xml"}, start : BOOLEAN, bits : Nat, nl : BOOLEAN]

(* "bits" is the sample width in force when HQPlayer sent the frame, "lt"  *)
(* whether its body bytes happen to be the byte '<'.                       *)
FrameMessage == [type : {"frame"}, bits : Nat, h : FrameHeader, lt : BOOLEAN]

Message == XmlMessage \cup FrameMessage

PcmBytes(m) == m.h.pcm * bytes_per_sample(m.bits)
BodyBytes(m) == PcmBytes(m) + m.h.pos + m.h.meta + m.h.pic

Size(m) == IF m.type = "xml" THEN (IF m.nl THEN 5 ELSE 4)
                             ELSE FRAME_HEADER_SIZE + BodyBytes(m)

-----------------------------------------------------------------------------
(* Units: byte number "off" of message "msg".                              *)

Unit == [msg : Message, off : Nat \ {0}]

IsXml(u) == u.msg.type = "xml"
IsHeader(u) == u.msg.type = "frame" /\ u.off <= FRAME_HEADER_SIZE

(* What the NAA must hear byte for byte: every XML message and the audio.  *)
IsPayload(u) ==
    \/ IsXml(u)
    \/ u.off > FRAME_HEADER_SIZE /\ u.off <= FRAME_HEADER_SIZE + PcmBytes(u.msg)

(* What build_frame_ops strips: HQPlayer's own POS, META and PIC sections. *)
IsStripped(u) == ~IsXml(u) /\ u.off > FRAME_HEADER_SIZE + PcmBytes(u.msg)

(* The byte is '<'.  No header byte is: a type_mask is 1, 5, 9, 13, ...    *)
IsLt(u) == IF IsXml(u) THEN u.off \in {1, 3}
                       ELSE u.off > FRAME_HEADER_SIZE /\ u.msg.lt

(* The byte is ASCII white space: a newline, and the low byte of a         *)
(* type_mask PCM|META (0x09, tab) or PCM|POS|META (0x0d, carriage return). *)
IsWhitespace(u) ==
    \/ IsXml(u) /\ u.off = 5
    \/ /\ ~IsXml(u) /\ u.off = 1
       /\ u.msg.h.mask \in {{"PCM", "META"}, {"PCM", "POS", "META"}}

(* The attributes that make parse_start_message return parameters.         *)
IsStart(u) == IsXml(u) /\ u.off = 2 /\ u.msg.start

-----------------------------------------------------------------------------
(* HQPlayer's side of the connection (external): whole messages back to    *)
(* back, each frame with the sample width of the last start message, 32    *)
(* before the first one.                                                   *)

IsStream(w) ==
    /\ w \in Seq(Unit)
    /\ \A i \in 1..Len(w) :
         LET m == w[i].msg
             first == i - w[i].off        \* units before this message
         IN  /\ w[i].off \in 1..Size(m)
             /\ first >= 0
             /\ first + Size(m) <= Len(w)
             /\ \A k \in 1..Size(m) : w[first + k] = [msg |-> m, off |-> k]
             /\ first = 0 => m.bits = 32 \/ (IsXml(w[i]) /\ m.start)
             /\ first + Size(m) < Len(w) =>
                  LET next == w[first + Size(m) + 1]
                  IN  /\ next.off = 1
                      /\ next.msg.bits = m.bits \/ (IsXml(next) /\ next.msg.start)

(* The units of one message, and of several.                               *)
Units(m) == [k \in 1..Size(m) |-> [msg |-> m, off |-> k]]
UnitsOf(ms) == FlattenSeq([i \in DOMAIN ms |-> Units(ms[i])])
=============================================================================
