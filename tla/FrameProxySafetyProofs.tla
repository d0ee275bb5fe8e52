----------------------- MODULE FrameProxySafetyProofs -----------------------
(***************************************************************************)
(* The safety of FrameProxy for every stream, buffer size and interleaving *)
(* with the Roon thread; but for 6, as long as no read ends inside an XML  *)
(* message:                                                                *)
(*   1. streams: which unit follows which (InMessage, NextUnit);           *)
(*   2. find_xml_end then ends exactly where the message ends (XmlEnd);    *)
(*   3. what was handed on is Clean: payload only, in order, gaps in       *)
(*      nothing but what is stripped; and Complete up to what is consumed; *)
(*   4. the queue built for a frame is a Plan for exactly its body;        *)
(*   5. the inductive invariant IInv puts these together, and each         *)
(*      property follows from one of its parts;                            *)
(*   6. what was handed on is Rising, that is in order, wherever reads end.*)
(***************************************************************************)
EXTENDS FrameProxyProofs

-----------------------------------------------------------------------------
(* Streams: a unit's neighbours in its message, and across messages.       *)

LEMMA SizeType ==
    ASSUME NEW m \in Message
    PROVE  /\ Size(m) \in Nat /\ Size(m) >= 2
           /\ m.type = "xml" => Size(m) \in {4, 5}
           /\ m.type # "xml" => /\ m \in FrameMessage
                                /\ PcmBytes(m) \in Nat /\ BodyBytes(m) \in Nat
                                /\ Size(m) = FRAME_HEADER_SIZE + BodyBytes(m)
<1>1. CASE m \in XmlMessage
  BY <1>1 DEF Size, XmlMessage
<1>2. CASE m \in FrameMessage
  <2>1. m.h.pcm \in Nat /\ m.h.pos \in Nat /\ m.h.meta \in Nat /\ m.h.pic \in Nat
    BY <1>2 DEF FrameMessage, FrameHeader
  <2>2. bytes_per_sample(m.bits) \in Nat
    BY <1>2 DEF FrameMessage, bytes_per_sample
  <2>3. PcmBytes(m) \in Nat
    BY <2>1, <2>2 DEF PcmBytes
  <2>4. BodyBytes(m) \in Nat
    BY <2>1, <2>3 DEF BodyBytes
  <2> QED
    BY <1>2, <2>3, <2>4, NaaProtocolAssumption
       DEF NaaProtocolAssumption, Size, FrameMessage
<1> QED
  BY <1>1, <1>2 DEF Message

LEMMA InMessage ==
    ASSUME NEW w, IsStream(w), NEW i \in 1..Len(w)
    PROVE  /\ Len(w) \in Nat /\ w[i] \in Unit /\ w[i].msg \in Message
           /\ w[i].off \in 1..Size(w[i].msg)
           /\ w[i].off <= i
           /\ i - w[i].off + Size(w[i].msg) <= Len(w)
           /\ \A k \in 1..Size(w[i].msg) :
                /\ i - w[i].off + k \in 1..Len(w)
                /\ w[i - w[i].off + k] = [msg |-> w[i].msg, off |-> k]
<1>1. Len(w) \in Nat /\ w[i] \in Unit
  BY ElementOfSeq, LenProperties DEF IsStream
<1>2. w[i].msg \in Message /\ w[i].off \in Nat /\ Size(w[i].msg) \in Nat
  BY <1>1, SizeType DEF Unit
<1>3. /\ w[i].off \in 1..Size(w[i].msg)
      /\ i - w[i].off >= 0
      /\ i - w[i].off + Size(w[i].msg) <= Len(w)
      /\ \A k \in 1..Size(w[i].msg) : w[i - w[i].off + k] = [msg |-> w[i].msg, off |-> k]
  BY DEF IsStream
<1> HIDE DEF Size
<1> QED
  BY <1>1, <1>2, <1>3

LEMMA NextMessage ==
    ASSUME NEW w, IsStream(w), NEW i \in 1..Len(w), i < Len(w), w[i].off = Size(w[i].msg)
    PROVE  /\ w[i + 1].off = 1
           /\ w[i + 1].msg.bits = w[i].msg.bits \/ (IsXml(w[i + 1]) /\ w[i + 1].msg.start)
<1>1. Size(w[i].msg) \in Nat /\ i - w[i].off + Size(w[i].msg) = i
  BY InMessage, SizeType
<1> QED
  BY <1>1 DEF IsStream

LEMMA FirstMessage ==
    ASSUME NEW w, IsStream(w), Len(w) > 0
    PROVE  /\ w[1].off = 1
           /\ w[1].msg.bits = 32 \/ (IsXml(w[1]) /\ w[1].msg.start)
<1>1. Len(w) \in Nat
  BY LenProperties DEF IsStream
<1>2. 1 \in 1..Len(w)
  BY <1>1
<1>3. w[1].off = 1
  BY <1>2, InMessage, SizeType
<1> QED
  BY <1>2, <1>3 DEF IsStream

(* Position i is the end of a message, or the start of the stream; and the *)
(* sample width in force there.                                            *)
AtBoundary(w, i) == i = 0 \/ w[i].off = Size(w[i].msg)
InForce(w, i) == IF i = 0 THEN 32 ELSE w[i].msg.bits

LEMMA NextUnit ==
    ASSUME NEW w, IsStream(w), NEW i \in Nat, i < Len(w), AtBoundary(w, i)
    PROVE  /\ w[i + 1].off = 1
           /\ w[i + 1].msg.bits = InForce(w, i) \/ (IsXml(w[i + 1]) /\ w[i + 1].msg.start)
<1>1. CASE i = 0
  BY <1>1, FirstMessage DEF InForce
<1>2. CASE i # 0
  <2>1. i \in 1..Len(w)
    BY <1>2, LenProperties DEF IsStream
  <2> QED
    BY <1>2, <2>1, NextMessage DEF InForce, AtBoundary
<1> QED
  BY <1>1, <1>2

(* The message that begins after position lo.                              *)
LEMMA MessageAfter ==
    ASSUME NEW w, IsStream(w), NEW lo \in Nat, lo < Len(w), w[lo + 1].off = 1
    PROVE  /\ Len(w) \in Nat /\ w[lo + 1].msg \in Message
           /\ lo + Size(w[lo + 1].msg) <= Len(w)
           /\ \A k \in 1..Size(w[lo + 1].msg) :
                w[lo + k] = [msg |-> w[lo + 1].msg, off |-> k]
<1>1. Len(w) \in Nat /\ lo + 1 \in 1..Len(w) /\ lo + 1 - 1 = lo
  BY LenProperties DEF IsStream
<1>2. lo + 1 - w[lo + 1].off = lo
  BY <1>1
<1> HIDE DEF Size, IsStream
<1> QED
  BY <1>1, <1>2, InMessage

LEMMA XmlEnd ==
    ASSUME IsStream(wire), NEW lo \in Nat, NEW hi \in Nat, lo < hi, hi <= Len(wire),
           wire[lo + 1].off = 1, IsXml(wire[lo + 1]),
           hi < Len(wire) /\ IsXml(wire[hi + 1]) => wire[hi + 1].off = 1
    PROVE  /\ find_xml_end(lo, hi) = lo + Size(wire[lo + 1].msg)
           /\ find_xml_end(lo, hi) <= hi
<1> DEFINE m == wire[lo + 1].msg
           tags == ClosingTags(lo, hi)
<1>1. /\ Len(wire) \in Nat /\ m \in Message /\ lo + Size(m) <= Len(wire)
      /\ \A k \in 1..Size(m) : wire[lo + k] = [msg |-> m, off |-> k]
      /\ m.type = "xml" /\ Size(m) \in {4, 5}
  <2>1. Len(wire) \in Nat
    BY LenProperties DEF IsStream
  <2>2. lo < Len(wire)
    BY <2>1
  <2> QED
    BY <2>2, MessageAfter, SizeType DEF IsXml
<1> HIDE DEF m
<1>2. \A i \in (lo + 1)..(lo + Size(m)) : wire[i].msg = m /\ wire[i].off = i - lo
  <2> TAKE i \in (lo + 1)..(lo + Size(m))
  <2>1. i - lo \in 1..Size(m) /\ lo + (i - lo) = i
    BY <1>1
  <2>2. wire[lo + (i - lo)] = [msg |-> m, off |-> i - lo]
    BY <1>1, <2>1
  <2> QED
    BY <2>1, <2>2
<1>3. lo + Size(m) <= hi
  <2> SUFFICES ASSUME hi < lo + Size(m) PROVE FALSE
    BY <1>1
  <2>1. hi + 1 \in (lo + 1)..(lo + Size(m)) /\ hi < Len(wire)
    BY <1>1
  <2>2. wire[hi + 1].msg = m /\ wire[hi + 1].off = hi + 1 - lo
    BY <1>2, <2>1
  <2> QED
    BY <1>1, <2>1, <2>2 DEF IsXml
<1>4. lo + 4 \in tags
  BY <1>1, <1>2, <1>3 DEF ClosingTags, IsXml
<1>5. \A t \in tags : t \in Nat /\ lo + 4 <= t
  BY <1>1, <1>2, <1>3 DEF ClosingTags
<1>6. Min(tags) = lo + 4
  BY <1>4, <1>5, MinOfNaturals
<1>7. CASE Size(m) = 5
  <2>1. lo + 4 < hi /\ lo + 4 + 1 = lo + 5
    BY <1>1, <1>3, <1>7
  <2>2. IsXml(wire[lo + 5]) /\ wire[lo + 5].off = 5
    BY <1>1, <1>2, <1>7 DEF IsXml
  <2>3. find_xml_end(lo, hi) = lo + 5
    BY <1>4, <1>6, <2>1, <2>2 DEF find_xml_end
  <2> QED
    BY <1>3, <1>7, <2>3 DEF m
<1>8. CASE Size(m) = 4
  <2>1. lo + 4 < hi => wire[lo + 5].off = 1
    <3> SUFFICES ASSUME lo + 4 < hi PROVE wire[lo + 5].off = 1
      OBVIOUS
    <3>1. lo + 4 \in 1..Len(wire) /\ lo + 4 < Len(wire)
      BY <1>1
    <3>2. wire[lo + 4].off = Size(wire[lo + 4].msg)
      BY <1>2, <1>8
    <3>3. lo + 4 + 1 = lo + 5
      OBVIOUS
    <3> QED
      BY <3>1, <3>2, <3>3, NextMessage
  <2> QED
    BY <1>1, <1>3, <1>4, <1>6, <1>8, <2>1 DEF find_xml_end, m
<1>9. Size(m) = 4 \/ Size(m) = 5
  BY <1>1
<1> QED
  BY <1>7, <1>8, <1>9

LEMMA XmlHandled ==
    ASSUME IsStream(wire), NEW lo \in Nat, lo < Len(wire),
           wire[lo + 1].off = 1, IsXml(wire[lo + 1]),
           wire[lo + 1].msg.bits = bits \/ wire[lo + 1].msg.start,
           ops = <<>>, header_buf = 0,
           handle_xml(lo, lo + Size(wire[lo + 1].msg))
    PROVE  bits' = wire[lo + 1].msg.bits /\ ops' = <<>> /\ header_buf' = 0
<1> DEFINE m == wire[lo + 1].msg
           starts == {i \in (lo + 1)..(lo + Size(m)) : IsStart(wire[i])}
<1>1. /\ m \in Message /\ m.type = "xml" /\ Size(m) \in {4, 5}
      /\ \A k \in 1..Size(m) : wire[lo + k] = [msg |-> m, off |-> k]
  BY MessageAfter, SizeType DEF IsXml
<1> HIDE DEF m
<1>2. \A i \in (lo + 1)..(lo + Size(m)) : wire[i].msg = m /\ wire[i].off = i - lo
  <2> TAKE i \in (lo + 1)..(lo + Size(m))
  <2>1. i - lo \in 1..Size(m) /\ lo + (i - lo) = i
    BY <1>1
  <2>2. wire[lo + (i - lo)] = [msg |-> m, off |-> i - lo]
    BY <1>1, <2>1
  <2> QED
    BY <2>1, <2>2
<1>3. CASE m.start
  <2>1. lo + 2 \in starts /\ starts \subseteq Nat
    BY <1>1, <1>2, <1>3 DEF IsStart, IsXml
  <2>2. Min(starts) \in starts
    BY <2>1, MinOfNaturals
  <2>3. wire[Min(starts)].msg = m
    BY <1>2, <2>2
  <2> QED
    BY <2>1, <2>3 DEF handle_xml, reset_for_start, m
<1>4. CASE ~m.start
  <2>1. starts = {}
    BY <1>2, <1>4 DEF IsStart
  <2> QED
    BY <1>4, <2>1 DEF handle_xml, reset_for_start, m
<1> QED
  BY <1>3, <1>4

LEMMA XmlOnTopIsXml ==
    ASSUME IsStream(wire), at \in Nat, lim \in Nat, lim <= Len(wire),
           AtBoundary(wire, at), XmlOnTop
    PROVE  at < lim /\ wire[at + 1].off = 1 /\ IsXml(wire[at + 1])
<1>1. PICK i \in (at + 1)..lim :
          IsLt(wire[i]) /\ \A j \in (at + 1)..(i - 1) : IsWhitespace(wire[j])
  BY DEF XmlOnTop
<1>2. Len(wire) \in Nat /\ at < lim /\ at < Len(wire)
  BY <1>1, LenProperties DEF IsStream
<1>3. wire[at + 1].off = 1
  BY <1>2, NextUnit
<1> DEFINE m == wire[at + 1].msg
<1>4. /\ Size(m) >= 2 /\ Size(m) \in Nat
      /\ \A k \in 1..Size(m) : wire[at + k] = [msg |-> m, off |-> k]
  BY <1>2, <1>3, MessageAfter, SizeType
<1>5. IsXml(wire[at + 1])
  <2> SUFFICES ASSUME ~IsXml(wire[at + 1]) PROVE FALSE
    OBVIOUS
  <2> HIDE DEF m
  <2>0. 2 \in 1..Size(m)
    BY <1>4
  <2>a. wire[at + 2] = [msg |-> m, off |-> 2]
    BY <1>4, <2>0
  <2>1. /\ ~IsXml(wire[at + 1]) /\ wire[at + 1].off = 1
        /\ ~IsXml(wire[at + 2]) /\ wire[at + 2].off = 2
    BY <2>a, <1>3 DEF IsXml, m
  <2>2. i # at + 1 /\ i # at + 2
    BY <1>1, <2>1, NaaProtocolAssumption DEF NaaProtocolAssumption, IsLt
  <2>3. at + 2 \in (at + 1)..(i - 1)
    BY <1>1, <2>2
  <2> QED
    BY <1>1, <2>1, <2>3 DEF IsWhitespace
<1> QED
  BY <1>2, <1>3, <1>5

-----------------------------------------------------------------------------
(* What has been handed on, compared with the first p units of stream w.   *)

SrcByte(p) == [kind |-> "src", at |-> p]

Clean(w, s, p) ==
    \A i \in 1..Len(s) : s[i].kind = "src" =>
        /\ s[i].at \in 1..p
        /\ IsPayload(w[s[i].at])
        /\ \A j \in 1..(i - 1) : s[j].kind = "src" => s[j].at < s[i].at
        /\ \A r \in 1..(s[i].at - 1) :
             IsPayload(w[r]) => \E j \in 1..(i - 1) : s[j] = SrcByte(r)

Complete(w, s, p) ==
    \A r \in 1..p : IsPayload(w[r]) => \E i \in 1..Len(s) : s[i] = SrcByte(r)

LEMMA CleanLater ==
    ASSUME NEW w, NEW s, NEW p \in Nat, NEW q \in Nat, p <= q, Clean(w, s, p)
    PROVE  Clean(w, s, q)
BY DEF Clean

LEMMA CompleteLater ==
    ASSUME NEW w, NEW s, NEW p \in Nat, NEW q \in Nat, p <= q, Complete(w, s, p),
           \A r \in (p + 1)..q : ~IsPayload(w[r])
    PROVE  Complete(w, s, q)
<1> SUFFICES ASSUME NEW r \in 1..q, IsPayload(w[r])
             PROVE  \E i \in 1..Len(s) : s[i] = SrcByte(r)
  BY DEF Complete
<1>1. r \in 1..p
  OBVIOUS
<1> QED
  BY <1>1 DEF Complete

LEMMA CleanSection ==
    ASSUME NEW w, NEW S, NEW s \in Seq(S), NEW e \in S, e.kind # "src", NEW p \in Nat,
           Clean(w, s, p)
    PROVE  /\ Clean(w, Append(s, e), p)
           /\ Complete(w, s, p) => Complete(w, Append(s, e), p)
<1> DEFINE t == Append(s, e)
<1>1. /\ Len(t) = Len(s) + 1 /\ Len(s) \in Nat
      /\ \A i \in 1..Len(s) : t[i] = s[i]
      /\ t[Len(s) + 1] = e
  BY AppendProperties, LenProperties
<1> HIDE DEF t
<1>2. Clean(w, t, p)
  <2> SUFFICES ASSUME NEW i \in 1..Len(t), t[i].kind = "src"
               PROVE  /\ t[i].at \in 1..p
                      /\ IsPayload(w[t[i].at])
                      /\ \A j \in 1..(i - 1) : t[j].kind = "src" => t[j].at < t[i].at
                      /\ \A r \in 1..(t[i].at - 1) :
                           IsPayload(w[r]) => \E j \in 1..(i - 1) : t[j] = SrcByte(r)
    BY DEF Clean
  <2>1. i \in 1..Len(s) /\ t[i] = s[i]
    BY <1>1
  <2>2. \A j \in 1..(i - 1) : t[j] = s[j]
    BY <1>1, <2>1
  <2> QED
    BY <2>1, <2>2 DEF Clean
<1>3. ASSUME Complete(w, s, p) PROVE Complete(w, t, p)
  <2> SUFFICES ASSUME NEW r \in 1..p, IsPayload(w[r])
               PROVE  \E i \in 1..Len(t) : t[i] = SrcByte(r)
    BY DEF Complete
  <2>1. PICK i \in 1..Len(s) : s[i] = SrcByte(r)
    BY <1>3 DEF Complete
  <2>2. i \in 1..Len(t) /\ t[i] = SrcByte(r)
    BY <1>1, <2>1
  <2> QED
    BY <2>2
<1> QED
  BY <1>2, <1>3 DEF t

LEMMA CleanPrefix ==
    ASSUME NEW w, NEW S, NEW s \in Seq(S), NEW b \in Seq(S), NEW k \in 0..Len(b),
           NEW p \in Nat, Clean(w, s \o b, p)
    PROVE  Clean(w, s \o SubSeq(b, 1, k), p)
<1> DEFINE t == s \o SubSeq(b, 1, k)
           u == s \o b
<1>1. Len(s) \in Nat /\ Len(b) \in Nat
  BY LenProperties
<1>2. /\ SubSeq(b, 1, k) \in Seq(S) /\ Len(SubSeq(b, 1, k)) = k
      /\ \A i \in 1..k : SubSeq(b, 1, k)[i] = b[i]
  <2>1. \A i \in 1..k : b[i] \in S
    BY <1>1, ElementOfSeq
  <2> QED
    BY <2>1, <1>1, SubSeqProperties
<1>3. Len(t) = Len(s) + k /\ Len(u) = Len(s) + Len(b)
  BY <1>2, ConcatProperties
<1>4. \A i \in 1..Len(t) : i \in 1..Len(u) /\ t[i] = u[i]
  <2> TAKE i \in 1..Len(t)
  <2>1. i \in 1..(Len(s) + Len(SubSeq(b, 1, k))) /\ i \in 1..(Len(s) + Len(b))
    BY <1>1, <1>2, <1>3
  <2>2. t[i] = IF i <= Len(s) THEN s[i] ELSE SubSeq(b, 1, k)[i - Len(s)]
    BY <2>1, <1>2, ConcatProperties
  <2>3. u[i] = IF i <= Len(s) THEN s[i] ELSE b[i - Len(s)]
    BY <2>1, ConcatProperties
  <2>4. i > Len(s) => i - Len(s) \in 1..k
    BY <2>1, <1>1, <1>2
  <2> HIDE DEF t, u
  <2> QED
    BY <1>1, <1>2, <1>3, <2>1, <2>2, <2>3, <2>4
<1>5. Len(t) \in Nat
  BY <1>1, <1>3
<1> HIDE DEF t, u
<1>6. Clean(w, u, p) => Clean(w, t, p)
  <2> SUFFICES ASSUME Clean(w, u, p), NEW i \in 1..Len(t), t[i].kind = "src"
               PROVE  /\ t[i].at \in 1..p
                      /\ IsPayload(w[t[i].at])
                      /\ \A j \in 1..(i - 1) : t[j].kind = "src" => t[j].at < t[i].at
                      /\ \A r \in 1..(t[i].at - 1) :
                           IsPayload(w[r]) => \E j \in 1..(i - 1) : t[j] = SrcByte(r)
    BY DEF Clean
  <2>1. i \in 1..Len(u) /\ t[i] = u[i]
    BY <1>4
  <2>2. \A j \in 1..(i - 1) : t[j] = u[j]
    BY <1>4, <1>5
  <2> QED
    BY <2>1, <2>2 DEF Clean
<1> QED
  BY <1>6 DEF t, u

LEMMA CleanSrc ==
    ASSUME NEW w, NEW S, NEW s \in Seq(S), NEW p \in Nat, NEW q \in Nat, p <= q,
           \A r \in (p + 1)..q : SrcByte(r) \in S /\ IsPayload(w[r]),
           Clean(w, s, p), Complete(w, s, p)
    PROVE  Clean(w, s \o Src(p, q), q) /\ Complete(w, s \o Src(p, q), q)
<1> DEFINE t == s \o Src(p, q)
<1>1. Len(s) \in Nat
  BY LenProperties
<1>2. /\ Src(p, q) \in Seq(S) /\ Len(Src(p, q)) = q - p
      /\ \A k \in 1..(q - p) : Src(p, q)[k] = SrcByte(p + k)
  <2>1. \A k \in 1..(q - p) : p + k \in (p + 1)..q
    OBVIOUS
  <2>2. \A k \in 1..(q - p) : SrcByte(p + k) \in S
    BY <2>1
  <2>3. q - p \in Nat
    OBVIOUS
  <2>4. Src(p, q) \in Seq(S)
    BY <2>2, <2>3, IsASeq DEF Src, SrcByte
  <2> QED
    BY <2>3, <2>4, LenProperties DEF Src, SrcByte
<1>3. Len(t) = Len(s) + (q - p)
  BY <1>2, ConcatProperties
<1>4. /\ \A i \in 1..Len(s) : t[i] = s[i]
      /\ \A i \in (Len(s) + 1)..Len(t) :
           t[i] = SrcByte(p + (i - Len(s))) /\ p + (i - Len(s)) \in (p + 1)..q
  <2>1. \A i \in 1..(Len(s) + Len(Src(p, q))) :
           t[i] = IF i <= Len(s) THEN s[i] ELSE Src(p, q)[i - Len(s)]
    BY <1>2, ConcatProperties
  <2> HIDE DEF t
  <2>2. \A i \in 1..Len(s) : t[i] = s[i]
    BY <2>1, <1>1, <1>2
  <2>3. ASSUME NEW i \in (Len(s) + 1)..Len(t)
        PROVE  t[i] = SrcByte(p + (i - Len(s))) /\ p + (i - Len(s)) \in (p + 1)..q
    <3>1. i \in 1..(Len(s) + Len(Src(p, q))) /\ ~(i <= Len(s)) /\ i - Len(s) \in 1..(q - p)
      BY <1>1, <1>2, <1>3
    <3>2. t[i] = Src(p, q)[i - Len(s)]
      BY <2>1, <3>1
    <3> QED
      BY <3>1, <3>2, <1>2
  <2> QED
    BY <2>2, <2>3
<1> HIDE DEF t
<1>5. Complete(w, t, q)
  <2> SUFFICES ASSUME NEW r \in 1..q, IsPayload(w[r])
               PROVE  \E i \in 1..Len(t) : t[i] = SrcByte(r)
    BY DEF Complete
  <2>1. CASE r <= p
    <3>1. PICK i \in 1..Len(s) : s[i] = SrcByte(r)
      BY <2>1 DEF Complete
    <3> QED
      BY <3>1, <1>1, <1>3, <1>4
  <2>2. CASE r > p
    <3> DEFINE i == Len(s) + (r - p)
    <3>1. i \in (Len(s) + 1)..Len(t) /\ p + (i - Len(s)) = r
      BY <2>2, <1>1, <1>3
    <3>2. t[i] = SrcByte(r) /\ i \in 1..Len(t)
      BY <3>1, <1>1, <1>4
    <3> QED
      BY <3>2
  <2> QED
    BY <2>1, <2>2
<1>6. Clean(w, t, q)
  <2> SUFFICES ASSUME NEW i \in 1..Len(t), t[i].kind = "src"
               PROVE  /\ t[i].at \in 1..q
                      /\ IsPayload(w[t[i].at])
                      /\ \A j \in 1..(i - 1) : t[j].kind = "src" => t[j].at < t[i].at
                      /\ \A r \in 1..(t[i].at - 1) :
                           IsPayload(w[r]) => \E j \in 1..(i - 1) : t[j] = SrcByte(r)
    BY DEF Clean
  <2>1. CASE i <= Len(s)
    <3>1. i \in 1..Len(s) /\ t[i] = s[i] /\ \A j \in 1..(i - 1) : t[j] = s[j]
      BY <2>1, <1>1, <1>4
    <3>2. /\ s[i].at \in 1..p /\ IsPayload(w[s[i].at])
          /\ \A j \in 1..(i - 1) : s[j].kind = "src" => s[j].at < s[i].at
          /\ \A r \in 1..(s[i].at - 1) :
                IsPayload(w[r]) => \E j \in 1..(i - 1) : s[j] = SrcByte(r)
      BY <3>1 DEF Clean
    <3> QED
      BY <3>1, <3>2
  <2>2. CASE i > Len(s)
    <3> DEFINE x == p + (i - Len(s))
    <3>1. t[i] = SrcByte(x) /\ x \in (p + 1)..q
      BY <2>2, <1>1, <1>3, <1>4
    <3>2. t[i].at = x
      BY <3>1 DEF SrcByte
    <3> HIDE DEF x
    <3>3. IsPayload(w[x]) /\ x \in 1..q
      BY <3>1
    <3>4. ASSUME NEW j \in 1..(i - 1), t[j].kind = "src"
          PROVE  t[j].at < x
      <4>1. CASE j <= Len(s)
        <5>1. j \in 1..Len(s) /\ t[j] = s[j]
          BY <4>1, <1>1, <1>4
        <5>2. s[j].at \in 1..p
          BY <5>1, <3>4 DEF Clean
        <5> QED
          BY <5>1, <5>2, <3>1
      <4>2. CASE j > Len(s)
        <5>1. j \in (Len(s) + 1)..Len(t)
          BY <4>2, <1>1, <1>3
        <5>a. t[j] = SrcByte(p + (j - Len(s)))
          BY <5>1, <1>4
        <5>2. t[j].at = p + (j - Len(s))
          BY <5>a DEF SrcByte
        <5> QED
          BY <5>2, <4>2, <2>2, <1>1 DEF x
      <4> QED
        BY <4>1, <4>2, <1>1
    <3>5. ASSUME NEW r \in 1..(x - 1), IsPayload(w[r])
          PROVE  \E j \in 1..(i - 1) : t[j] = SrcByte(r)
      <4>1. CASE r <= p
        <5>1. PICK j \in 1..Len(s) : s[j] = SrcByte(r)
          BY <4>1, <3>1, <3>5 DEF Complete
        <5> QED
          BY <5>1, <1>1, <1>3, <1>4, <2>2
      <4>2. CASE r > p
        <5> DEFINE j == Len(s) + (r - p)
        <5>1. j \in (Len(s) + 1)..Len(t) /\ j \in 1..(i - 1) /\ p + (j - Len(s)) = r
          BY <4>2, <1>1, <1>3, <2>2, <3>1 DEF x
        <5>2. t[j] = SrcByte(r)
          BY <5>1, <1>1, <1>3, <1>4
        <5> HIDE DEF j
        <5> QED
          BY <5>1, <5>2
      <4> QED
        BY <4>1, <4>2, <3>1
    <3> QED
      BY <3>2, <3>3, <3>4, <3>5
  <2> QED
    BY <2>1, <2>2, <1>1
<1> QED
  BY <1>5, <1>6 DEF t

-----------------------------------------------------------------------------
(* A queue of operations as a plan for the units f+1..t of stream w: each  *)
(* operation has its share of them, Pass all audio and Skip none.          *)

Takes(w, o, f, t) ==
    /\ o.op = "Emit" => t = f
    /\ o.op # "Emit" => t = f + o.n
    /\ \A r \in (f + 1)..t : IsPayload(w[r]) <=> o.op = "Pass"

Plan(w, q, f, t) ==
    \E d \in [0..Len(q) -> Nat] :
        /\ d[0] = f /\ d[Len(q)] = t
        /\ \A i \in 0..Len(q) : d[i] <= t
        /\ \A i \in 1..Len(q) : Takes(w, q[i], d[i - 1], d[i])

LEMMA PlanOne ==
    ASSUME NEW w, NEW o, NEW f \in Nat, NEW t \in Nat, f <= t, Takes(w, o, f, t)
    PROVE  Plan(w, <<o>>, f, t)
<1> DEFINE d == [i \in 0..1 |-> IF i = 0 THEN f ELSE t]
           q == <<o>>
<1>1. Len(q) = 1 /\ q[1] = o
  OBVIOUS
<1> HIDE DEF q
<1>2. d \in [0..Len(q) -> Nat] /\ d[0] = f /\ d[Len(q)] = t /\ \A i \in 0..Len(q) : d[i] <= t
  BY <1>1
<1>3. \A i \in 1..Len(q) : Takes(w, q[i], d[i - 1], d[i])
  BY <1>1
<1> HIDE DEF d
<1>4. Plan(w, q, f, t)
  BY <1>2, <1>3 DEF Plan
<1> QED
  BY <1>4 DEF q

LEMMA PlanWhen ==
    ASSUME NEW w, NEW c, NEW o, NEW f \in Nat, NEW t \in Nat, f <= t,
           c => Takes(w, o, f, t), ~c => f = t
    PROVE  Plan(w, When(c, o), f, t)
<1>1. CASE c
  BY <1>1, PlanOne DEF When
<1>2. CASE ~c
  <2> DEFINE d == [i \in {0} |-> f]
             q == <<>>
  <2>1. Len(q) = 0 /\ 0..0 = {0} /\ 1..0 = {}
    OBVIOUS
  <2> HIDE DEF q
  <2>2. /\ d \in [0..Len(q) -> Nat] /\ d[0] = f /\ d[Len(q)] = t
        /\ \A i \in 0..Len(q) : d[i] <= t
    BY <2>1, <1>2
  <2>3. \A i \in 1..Len(q) : Takes(w, q[i], d[i - 1], d[i])
    BY <2>1
  <2> HIDE DEF d
  <2>4. Plan(w, q, f, t)
    BY <2>2, <2>3 DEF Plan
  <2> QED
    BY <1>2, <2>4 DEF When, q
<1> QED
  BY <1>1, <1>2

LEMMA PlanConcat ==
    ASSUME NEW w, NEW S, NEW q1 \in Seq(S), NEW q2 \in Seq(S),
           NEW f, NEW m, NEW t, Plan(w, q1, f, m), Plan(w, q2, m, t)
    PROVE  Plan(w, q1 \o q2, f, t)
<1> DEFINE q == q1 \o q2
<1>1. /\ Len(q1) \in Nat /\ Len(q2) \in Nat /\ Len(q) = Len(q1) + Len(q2)
      /\ \A i \in 1..Len(q) : q[i] = IF i <= Len(q1) THEN q1[i] ELSE q2[i - Len(q1)]
  BY ConcatProperties, LenProperties
<1>2. PICK a \in [0..Len(q1) -> Nat] :
          /\ a[0] = f /\ a[Len(q1)] = m
          /\ \A i \in 0..Len(q1) : a[i] <= m
          /\ \A i \in 1..Len(q1) : Takes(w, q1[i], a[i - 1], a[i])
  BY DEF Plan
<1>3. PICK b \in [0..Len(q2) -> Nat] :
          /\ b[0] = m /\ b[Len(q2)] = t
          /\ \A i \in 0..Len(q2) : b[i] <= t
          /\ \A i \in 1..Len(q2) : Takes(w, q2[i], b[i - 1], b[i])
  BY DEF Plan
<1> DEFINE d == [i \in 0..Len(q) |-> IF i <= Len(q1) THEN a[i] ELSE b[i - Len(q1)]]
<1> HIDE DEF q
<1>4. /\ \A i \in 0..Len(q1) : d[i] = a[i] /\ i \in 0..Len(q)
      /\ \A i \in Len(q1)..Len(q) : d[i] = b[i - Len(q1)] /\ i - Len(q1) \in 0..Len(q2)
  BY <1>1, <1>2, <1>3
<1>5. m \in Nat /\ t \in Nat /\ m <= t
  <2>1. Len(q1) \in 0..Len(q1) /\ Len(q2) \in 0..Len(q2) /\ 0 \in 0..Len(q2)
    BY <1>1
  <2> QED
    BY <1>2, <1>3, <2>1
<1>6. d \in [0..Len(q) -> Nat]
  BY <1>1, <1>2, <1>3
<1> HIDE DEF d
<1>7. d[0] = f /\ d[Len(q)] = t
  <2>1. 0 \in 0..Len(q1) /\ Len(q) \in Len(q1)..Len(q) /\ Len(q) - Len(q1) = Len(q2)
    BY <1>1
  <2> QED
    BY <1>2, <1>3, <1>4, <2>1
<1>8. \A i \in 0..Len(q) : d[i] <= t
  <2> TAKE i \in 0..Len(q)
  <2>1. CASE i <= Len(q1)
    <3>0. i \in 0..Len(q1)
      BY <2>1, <1>1
    <3>1. i \in 0..Len(q1) /\ a[i] \in Nat
      BY <3>0, <1>2
    <3>2. d[i] = a[i] /\ a[i] <= m
      BY <3>1, <1>2, <1>4
    <3> QED
      BY <3>1, <3>2, <1>5
  <2>2. CASE i > Len(q1)
    <3>1. i \in Len(q1)..Len(q)
      BY <2>2, <1>1
    <3> QED
      BY <3>1, <1>3, <1>4
  <2> QED
    BY <2>1, <2>2, <1>1
<1>9. \A i \in 1..Len(q) : Takes(w, q[i], d[i - 1], d[i])
  <2> TAKE i \in 1..Len(q)
  <2>1. CASE i <= Len(q1)
    <3>1. i \in 1..Len(q1) /\ i \in 0..Len(q1) /\ i - 1 \in 0..Len(q1)
      BY <2>1, <1>1
    <3>2. q[i] = q1[i] /\ d[i] = a[i] /\ d[i - 1] = a[i - 1]
      BY <3>1, <1>1, <1>4
    <3> QED
      BY <3>1, <3>2, <1>2
  <2>2. CASE i > Len(q1)
    <3> DEFINE j == i - Len(q1)
    <3>1. /\ j \in 1..Len(q2) /\ i \in Len(q1)..Len(q) /\ i - 1 \in Len(q1)..Len(q)
          /\ i - 1 - Len(q1) = j - 1
      BY <2>2, <1>1
    <3>2. q[i] = q2[j] /\ d[i] = b[j] /\ d[i - 1] = b[j - 1]
      BY <2>2, <3>1, <1>1, <1>4
    <3> HIDE DEF j
    <3> QED
      BY <3>1, <3>2, <1>3
  <2> QED
    BY <2>1, <2>2, <1>1
<1>10. Plan(w, q, f, t)
  BY <1>6, <1>7, <1>8, <1>9 DEF Plan
<1> QED
  BY <1>10 DEF q

LEMMA PlanEmpty ==
    ASSUME NEW w, NEW f, NEW t, Plan(w, <<>>, f, t)
    PROVE  f = t
<1>1. Len(<<>>) = 0
  OBVIOUS
<1> QED
  BY <1>1 DEF Plan

(* What the head of a plan covers, what follows when it is done, and when  *)
(* it has been done in part.                                               *)
LEMMA PlanHead ==
    ASSUME NEW w, NEW S, NEW q \in Seq(S), q # <<>>, NEW f \in Nat, NEW t \in Nat,
           Plan(w, q, f, t)
    PROVE  \E m \in Nat :
             /\ m <= t
             /\ Takes(w, q[1], f, m)
             /\ Plan(w, Tail(q), m, t)
             /\ \A p \in Seq(S), g \in Nat :
                  /\ Len(p) = Len(q) /\ \A i \in 2..Len(q) : p[i] = q[i]
                  /\ g <= t /\ Takes(w, p[1], g, m)
                  => Plan(w, p, g, t)
<1>1. /\ Len(q) \in Nat \ {0} /\ Len(Tail(q)) = Len(q) - 1
      /\ \A i \in 1..Len(Tail(q)) : Tail(q)[i] = q[i + 1]
  BY HeadTailProperties, EmptySeq
<1>2. PICK d \in [0..Len(q) -> Nat] :
          /\ d[0] = f /\ d[Len(q)] = t
          /\ \A i \in 0..Len(q) : d[i] <= t
          /\ \A i \in 1..Len(q) : Takes(w, q[i], d[i - 1], d[i])
  BY DEF Plan
<1>3. /\ 1 \in 0..Len(q) /\ 1 \in 1..Len(q) /\ 1 - 1 = 0
      /\ d[1] \in Nat /\ d[1] <= t /\ Takes(w, q[1], f, d[1])
  <2>1. 1 \in 0..Len(q) /\ 1 \in 1..Len(q) /\ 1 - 1 = 0
    BY <1>1
  <2>2. Takes(w, q[1], d[1 - 1], d[1])
    BY <1>2, <2>1
  <2> QED
    BY <1>2, <2>1, <2>2
<1>4. Plan(w, Tail(q), d[1], t)
  <2> DEFINE u == Tail(q)
             e == [i \in 0..Len(u) |-> d[i + 1]]
  <2>1. Len(u) \in Nat /\ \A i \in 0..Len(u) : i + 1 \in 0..Len(q)
    BY <1>1
  <2> HIDE DEF u
  <2>2. /\ e \in [0..Len(u) -> Nat] /\ e[0] = d[1] /\ e[Len(u)] = t
        /\ \A i \in 0..Len(u) : e[i] <= t
    BY <1>1, <1>2, <2>1 DEF u
  <2>3. \A i \in 1..Len(u) : Takes(w, u[i], e[i - 1], e[i])
    <3> TAKE i \in 1..Len(u)
    <3>1. /\ i + 1 \in 1..Len(q) /\ i \in 0..Len(u) /\ i - 1 \in 0..Len(u)
          /\ (i + 1) - 1 = i /\ (i - 1) + 1 = i /\ u[i] = q[i + 1]
      BY <1>1, <2>1 DEF u
    <3>2. Takes(w, q[i + 1], d[(i + 1) - 1], d[i + 1])
      BY <1>2, <3>1
    <3>3. e[i - 1] = d[i] /\ e[i] = d[i + 1]
      BY <3>1
    <3> HIDE DEF e
    <3> QED
      BY <3>1, <3>2, <3>3
  <2> HIDE DEF e
  <2>4. Plan(w, u, d[1], t)
    BY <2>2, <2>3 DEF Plan
  <2> QED
    BY <2>4 DEF u
<1>5. ASSUME NEW p \in Seq(S), NEW g \in Nat, Len(p) = Len(q),
             \A i \in 2..Len(q) : p[i] = q[i],
             g <= t, Takes(w, p[1], g, d[1])
      PROVE  Plan(w, p, g, t)
  <2> DEFINE e == [i \in 0..Len(p) |-> IF i = 0 THEN g ELSE d[i]]
  <2>1. /\ e \in [0..Len(p) -> Nat] /\ e[0] = g /\ e[Len(p)] = t
        /\ \A i \in 0..Len(p) : e[i] <= t
    BY <1>1, <1>2, <1>5
  <2>2. \A i \in 1..Len(p) : Takes(w, p[i], e[i - 1], e[i])
    <3> TAKE i \in 1..Len(p)
    <3>1. CASE i = 1
      <4>1. e[i - 1] = g /\ e[i] = d[1]
        BY <1>3, <1>5, <3>1
      <4> HIDE DEF e
      <4> QED
        BY <1>5, <3>1, <4>1
    <3>2. CASE i # 1
      <4>1. /\ i \in 2..Len(q) /\ i \in 1..Len(q) /\ i \in 0..Len(p) /\ i - 1 \in 0..Len(p)
            /\ i # 0 /\ i - 1 # 0
        BY <1>1, <1>5, <3>2
      <4>2. e[i - 1] = d[i - 1] /\ e[i] = d[i] /\ p[i] = q[i]
        BY <1>5, <4>1
      <4> HIDE DEF e
      <4> QED
        BY <1>2, <4>1, <4>2
    <3> QED
      BY <3>1, <3>2
  <2> HIDE DEF e
  <2> QED
    BY <2>1, <2>2 DEF Plan
<1> QED
  BY <1>3, <1>4, <1>5

-----------------------------------------------------------------------------
(* The inductive invariant.  While the thread runs it stands, with no      *)
(* operation pending, between two messages or inside a header; with some   *)
(* pending, in the body of a frame, and the queue is a plan for exactly    *)
(* the rest of it.  Reads never end inside an XML message.                 *)

EndOf(w, i) == i - w[i].off + Size(w[i].msg)

Placed(w, b, p, l, q, h) ==
    /\ b = InForce(w, p)
    /\ l < Len(w) /\ IsXml(w[l + 1]) => w[l + 1].off = 1
    /\ q = <<>> => IF h = 0 THEN AtBoundary(w, p)
                   ELSE p > 0 /\ IsHeader(w[p]) /\ w[p].off = h
    /\ q # <<>> => /\ h = 0 /\ p > 0
                   /\ ~IsXml(w[p]) /\ w[p].off >= FRAME_HEADER_SIZE
                   /\ Plan(w, q, p, EndOf(w, p))

IInv ==
    /\ TypeOK
    /\ Running => Placed(wire, bits, at, lim, ops, header_buf)
    /\ Running => Complete(wire, Emitted, at)
    /\ Clean(wire, Emitted, at)
    /\ CorruptOnlyIfSent

LEMMA Stream == TypeOK => /\ IsStream(wire) /\ Len(wire) \in Nat
                          /\ at \in Nat /\ lim \in Nat /\ header_buf \in Nat
                          /\ at <= lim /\ lim <= Len(wire)
BY FrameProxyAssumption, StreamUnits DEF FrameProxyAssumption, TypeOK

LEMMA EmittedType == TypeOK => Emitted \in Seq(Element)
BY ConcatProperties DEF TypeOK, Emitted

(* The units of the frame that unit p belongs to, from p to its end.       *)
LEMMA SameFrame ==
    ASSUME NEW w, IsStream(w), NEW p \in 1..Len(w), NEW q \in Nat, p <= q, q <= EndOf(w, p)
    PROVE  /\ q \in 1..Len(w) /\ EndOf(w, p) <= Len(w) /\ EndOf(w, p) \in Nat
           /\ w[q].msg = w[p].msg
           /\ w[q].off = w[p].off + (q - p)
           /\ EndOf(w, q) = EndOf(w, p)
<1> DEFINE k == w[p].off + (q - p)
<1>1. /\ Len(w) \in Nat /\ w[p].msg \in Message /\ w[p].off \in 1..Size(w[p].msg)
      /\ Size(w[p].msg) \in Nat /\ w[p].off <= p
      /\ p - w[p].off + Size(w[p].msg) <= Len(w)
  BY InMessage, SizeType
<1>2. k \in 1..Size(w[p].msg) /\ p - w[p].off + k = q
  BY <1>1 DEF EndOf
<1> HIDE DEF k
<1>3. w[p - w[p].off + k] = [msg |-> w[p].msg, off |-> k]
  BY <1>2, InMessage
<1>4. w[q].msg = w[p].msg /\ w[q].off = k
  BY <1>2, <1>3
<1>5. w[q].off = w[p].off + (q - p)
  BY <1>4 DEF k
<1>6. EndOf(w, q) = q - w[q].off + Size(w[p].msg)
  BY <1>4 DEF EndOf
<1>7. EndOf(w, p) = p - w[p].off + Size(w[p].msg)
  BY DEF EndOf
<1>8. EndOf(w, q) = EndOf(w, p)
  <2>1. q - (w[p].off + (q - p)) = p - w[p].off
    BY <1>1
  <2> QED
    BY <1>5, <1>6, <1>7, <2>1
<1>9. q \in 1..Len(w) /\ EndOf(w, p) <= Len(w) /\ EndOf(w, p) \in Nat
  BY <1>1, <1>7
<1> QED
  BY <1>4, <1>5, <1>8, <1>9

(* What stands before the thread when it accumulates a header.             *)
LEMMA HeaderAhead ==
    ASSUME IInv, Running, ops = <<>>, at < lim, ~AtXml
    PROVE  LET m == wire[at + 1].msg
               s == at - header_buf
           IN  /\ m \in FrameMessage /\ m.type # "xml" /\ bits = m.bits
               /\ s \in Nat /\ s + Size(m) <= Len(wire)
               /\ \A k \in 1..Size(m) : wire[s + k] = [msg |-> m, off |-> k]
<1> DEFINE m == wire[at + 1].msg
           s == at - header_buf
<1>1. /\ IsStream(wire) /\ Len(wire) \in Nat /\ at \in Nat /\ at < Len(wire)
      /\ header_buf \in Nat
  BY Stream DEF IInv
<1>2. Placed(wire, bits, at, lim, ops, header_buf)
  BY DEF IInv
<1>3. CASE header_buf = 0
  <2>1. AtBoundary(wire, at) /\ bits = InForce(wire, at)
    BY <1>2, <1>3 DEF Placed
  <2>2. /\ wire[at + 1].off = 1
        /\ m.bits = bits \/ (IsXml(wire[at + 1]) /\ m.start)
    BY <1>1, <2>1, NextUnit
  <2>3. ~IsXml(wire[at + 1])
    BY <1>3, <2>2 DEF AtXml, IsLt
  <2>4. /\ m \in Message /\ at + Size(m) <= Len(wire)
        /\ \A k \in 1..Size(m) : wire[at + k] = [msg |-> m, off |-> k]
    BY <1>1, <2>2, MessageAfter
  <2>5. m \in FrameMessage /\ m.type # "xml"
    BY <2>3, <2>4, SizeType DEF IsXml
  <2>6. s = at
    BY <1>1, <1>3
  <2> HIDE DEF m, s
  <2>7. bits = m.bits
    BY <2>2, <2>3
  <2> QED
    BY <1>1, <2>4, <2>5, <2>6, <2>7 DEF m, s
<1>4. CASE header_buf # 0
  <2>1. at > 0 /\ IsHeader(wire[at]) /\ wire[at].off = header_buf /\ bits = wire[at].msg.bits
    BY <1>1, <1>2, <1>4 DEF Placed, InForce
  <2> DEFINE n == wire[at].msg
  <2>2. at \in 1..Len(wire)
    BY <1>1, <2>1
  <2>3. /\ n \in Message /\ header_buf <= at
        /\ at - header_buf + Size(n) <= Len(wire)
        /\ \A k \in 1..Size(n) : wire[at - header_buf + k] = [msg |-> n, off |-> k]
    BY <1>1, <2>1, <2>2, InMessage
  <2>4. /\ n \in FrameMessage /\ n.type # "xml" /\ Size(n) \in Nat
        /\ header_buf + 1 \in 1..Size(n)
    <3>1. n \in FrameMessage /\ n.type # "xml" /\ Size(n) \in Nat /\ Size(n) >= FRAME_HEADER_SIZE
      BY <2>1, <2>3, SizeType, NaaProtocolAssumption DEF NaaProtocolAssumption, IsHeader
    <3>2. header_buf < FRAME_HEADER_SIZE
      BY NaaProtocolAssumption DEF NaaProtocolAssumption, IInv, TypeOK
    <3> QED
      BY <3>1, <3>2, <1>1, NaaProtocolAssumption DEF NaaProtocolAssumption
  <2> HIDE DEF n
  <2>5. wire[at - header_buf + (header_buf + 1)] = [msg |-> n, off |-> header_buf + 1]
    BY <2>3, <2>4
  <2>6. at - header_buf + (header_buf + 1) = at + 1
    BY <1>1
  <2>7. m = n
    BY <2>5, <2>6
  <2> QED
    BY <1>1, <2>1, <2>3, <2>4, <2>7 DEF n
<1> QED
  BY <1>3, <1>4

(* What happens to the thread's place when it handles an XML message.      *)
LEMMA XmlStep ==
    ASSUME IInv, Running, ops = <<>>, header_buf = 0, at < lim, IsXml(wire[at + 1]),
           handle_xml(at, find_xml_end(at, lim))
    PROVE  LET end == find_xml_end(at, lim)
           IN  /\ end \in (at + 1)..lim
               /\ Placed(wire, bits', end, lim, ops', header_buf')
               /\ \A r \in (at + 1)..end : IsPayload(wire[r])
<1> DEFINE end == find_xml_end(at, lim)
           m == wire[at + 1].msg
<1>1. /\ IsStream(wire) /\ Len(wire) \in Nat /\ at \in Nat /\ lim \in Nat /\ at < Len(wire)
      /\ lim <= Len(wire)
  BY Stream DEF IInv
<1>2. /\ AtBoundary(wire, at) /\ bits = InForce(wire, at)
      /\ lim < Len(wire) /\ IsXml(wire[lim + 1]) => wire[lim + 1].off = 1
  BY DEF IInv, Placed
<1>3. wire[at + 1].off = 1 /\ (m.bits = bits \/ m.start)
  BY <1>1, <1>2, NextUnit
<1>4. end = at + Size(m) /\ end <= lim
  BY <1>1, <1>2, <1>3, XmlEnd
<1>5. /\ m \in Message /\ m.type = "xml" /\ Size(m) \in {4, 5}
      /\ \A k \in 1..Size(m) : wire[at + k] = [msg |-> m, off |-> k]
  BY <1>1, <1>3, MessageAfter, SizeType DEF IsXml
<1>6. bits' = m.bits /\ ops' = <<>> /\ header_buf' = 0
  <2>1. handle_xml(at, at + Size(m))
    BY <1>4
  <2> QED
    BY <1>1, <1>3, <2>1, XmlHandled
<1> HIDE DEF m, end
<1>7. wire[end] = [msg |-> m, off |-> Size(m)] /\ end \in (at + 1)..lim
  BY <1>1, <1>4, <1>5
<1>8. AtBoundary(wire, end) /\ InForce(wire, end) = m.bits
  BY <1>1, <1>7 DEF AtBoundary, InForce
<1>9. \A r \in (at + 1)..end : IsPayload(wire[r])
  <2> TAKE r \in (at + 1)..end
  <2>1. r - at \in 1..Size(m) /\ at + (r - at) = r
    BY <1>1, <1>4, <1>5
  <2>2. wire[at + (r - at)] = [msg |-> m, off |-> r - at]
    BY <1>5, <2>1
  <2> QED
    BY <1>5, <2>1, <2>2 DEF IsPayload, IsXml
<1>10. Placed(wire, bits', end, lim, ops', header_buf')
  BY <1>2, <1>6, <1>8 DEF Placed
<1> QED
  BY <1>7, <1>9, <1>10 DEF end

LEMMA WhenSeq ==
    ASSUME NEW S, NEW c, NEW o \in S
    PROVE  <<o>> \in Seq(S) /\ When(c, o) \in Seq(S)
BY EmptySeq DEF When

LEMMA PairConcat ==
    ASSUME NEW a, NEW b
    PROVE  <<a>> \o <<b>> = <<a, b>>
<1> DEFINE S == {a, b}
<1>1. <<a>> \in Seq(S) /\ <<b>> \in Seq(S) /\ <<a, b>> \in Seq(S)
  OBVIOUS
<1>2. Len(<<a>>) = 1 /\ Len(<<b>>) = 1 /\ Len(<<a, b>>) = 2
  OBVIOUS
<1> HIDE DEF S
<1>3. /\ <<a>> \o <<b>> \in Seq(S) /\ Len(<<a>> \o <<b>>) = 2
      /\ (<<a>> \o <<b>>)[1] = a /\ (<<a>> \o <<b>>)[2] = b
  BY <1>1, <1>2, ConcatProperties
<1>4. \A i \in 1..2 : (<<a>> \o <<b>>)[i] = <<a, b>>[i]
  BY <1>3
<1> QED
  BY <1>1, <1>2, <1>3, <1>4, SeqEqual

(* The queue build_frame_ops returns is a plan for the body of the frame   *)
(* whose header has just been completed.                                   *)
LEMMA BuildPlan ==
    ASSUME TypeOK, NEW p \in Nat, NEW m \in FrameMessage, m.bits = bits,
           NEW s \in Nat, p = s + FRAME_HEADER_SIZE,
           \A k \in 1..Size(m) : wire[s + k] = [msg |-> m, off |-> k]
    PROVE  Plan(wire, build_frame_ops(m.h), p, s + Size(m))
<1> DEFINE h == m.h
           pcm == h.pcm * bytes_per_sample(bits)
           p1 == p + pcm
           p2 == p1 + h.pos
           p3 == p2 + (h.meta + h.pic)
<1>1. /\ h \in FrameHeader /\ h.pcm \in Nat /\ h.pos \in Nat /\ h.meta \in Nat /\ h.pic \in Nat
      /\ m.type = "frame"
  BY DEF FrameMessage, FrameHeader
<1>2. pcm = PcmBytes(m) /\ pcm \in Nat
  <2>1. m \in Message /\ m.type # "xml"
    BY <1>1 DEF Message
  <2> QED
    BY <2>1, SizeType DEF PcmBytes
<1>3. FRAME_HEADER_SIZE \in Nat /\ p >= FRAME_HEADER_SIZE
  BY NaaProtocolAssumption DEF NaaProtocolAssumption
<1>4. BodyBytes(m) = pcm + h.pos + h.meta + h.pic
  BY <1>2 DEF BodyBytes
<1>5. Size(m) = FRAME_HEADER_SIZE + BodyBytes(m)
  BY <1>1 DEF Size
<1> HIDE DEF pcm, h
<1>6. p1 \in Nat /\ p2 \in Nat /\ p3 \in Nat /\ p <= p1 /\ p1 <= p2 /\ p2 <= p3
  BY <1>1, <1>2
<1>7. p3 = s + Size(m)
  BY <1>1, <1>2, <1>3, <1>4, <1>5
<1> HIDE DEF p1, p2, p3
<1>8. \A r \in (p + 1)..p3 : IsPayload(wire[r]) <=> r <= p1
  <2> TAKE r \in (p + 1)..p3
  <2>1. r - s \in 1..Size(m) /\ s + (r - s) = r
    <3>1. Size(m) \in Nat
      BY <1>1, <1>2, <1>3, <1>4, <1>5
    <3> QED
      BY <1>3, <1>6, <1>7, <3>1
  <2>2. wire[s + (r - s)] = [msg |-> m, off |-> r - s]
    BY <2>1
  <2>3. wire[r].msg = m /\ wire[r].off = r - s
    BY <2>1, <2>2
  <2>4. IsPayload(wire[r]) <=> r - s > FRAME_HEADER_SIZE /\ r - s <= FRAME_HEADER_SIZE + pcm
    BY <1>1, <1>2, <2>3 DEF IsPayload, IsXml
  <2> QED
    BY <1>2, <1>3, <1>6, <2>4 DEF p1
<1>9. Plan(wire, <<Emit(Hdr(Rewritten(h)))>>, p, p)
  <2>1. Takes(wire, Emit(Hdr(Rewritten(h))), p, p)
    BY DEF Takes, Emit
  <2> QED
    BY <2>1, PlanOne
<1>10. Plan(wire, <<Pass(pcm)>>, p, p1)
  <2>1. Takes(wire, Pass(pcm), p, p1)
    BY <1>2, <1>6, <1>8 DEF Takes, Pass, p1
  <2> QED
    BY <1>6, <2>1, PlanOne
<1>11. Plan(wire, When(h.pos > 0, Skip(h.pos)), p1, p2)
  <2>1. Takes(wire, Skip(h.pos), p1, p2)
    BY <1>1, <1>2, <1>6, <1>8 DEF Takes, Skip, p2
  <2>2. ~(h.pos > 0) => p1 = p2
    BY <1>1, <1>6 DEF p2
  <2> QED
    BY <1>6, <2>1, <2>2, PlanWhen
<1>12. ASSUME NEW p0 \in Nat, NEW c, NEW sec
       PROVE  Plan(wire, When(c, Emit(sec)), p0, p0)
  <2>1. Takes(wire, Emit(sec), p0, p0)
    BY DEF Takes, Emit
  <2> QED
    BY <2>1, PlanWhen
<1>13. Plan(wire, When(h.meta + h.pic > 0, Skip(h.meta + h.pic)), p2, p3)
  <2>1. Takes(wire, Skip(h.meta + h.pic), p2, p3)
    BY <1>1, <1>2, <1>6, <1>8 DEF Takes, Skip, p3
  <2>2. ~(h.meta + h.pic > 0) => p2 = p3
    BY <1>1, <1>6 DEF p3
  <2> QED
    BY <1>6, <2>1, <2>2, PlanWhen
<1> DEFINE q1 == <<Emit(Hdr(Rewritten(h)))>>
           q2 == <<Pass(pcm)>>
           q3 == When(h.pos > 0, Skip(h.pos))
           q4 == When(NewPos, Emit(Pos(shared.pos)))
           q5 == When(h.meta + h.pic > 0, Skip(h.meta + h.pic))
           q6 == When(content_changed, Emit(Meta(shared.key, bits)))
           q7 == When(NewPic, Emit(Pic(shared.cover)))
           S == {Emit(Hdr(Rewritten(h))), Pass(pcm), Skip(h.pos), Emit(Pos(shared.pos)),
                 Skip(h.meta + h.pic), Emit(Meta(shared.key, bits)), Emit(Pic(shared.cover))}
<1>14. /\ q1 \in Seq(S) /\ q2 \in Seq(S) /\ q3 \in Seq(S) /\ q4 \in Seq(S)
       /\ q5 \in Seq(S) /\ q6 \in Seq(S) /\ q7 \in Seq(S)
  <2>1. /\ Emit(Hdr(Rewritten(h))) \in S /\ Pass(pcm) \in S /\ Skip(h.pos) \in S
        /\ Emit(Pos(shared.pos)) \in S /\ Skip(h.meta + h.pic) \in S
        /\ Emit(Meta(shared.key, bits)) \in S /\ Emit(Pic(shared.cover)) \in S
    OBVIOUS
  <2> HIDE DEF S
  <2> QED
    BY <2>1, WhenSeq
<1>15. build_frame_ops(h) = (q1 \o q2) \o q3 \o q4 \o q5 \o q6 \o q7
  <2>1. q1 \o q2 = <<Emit(Hdr(Rewritten(h))), Pass(pcm)>>
    BY PairConcat
  <2> QED
    BY <2>1 DEF build_frame_ops, pcm
<1> HIDE DEF q1, q2, q3, q4, q5, q6, q7, S
<1>16. /\ Plan(wire, q1, p, p) /\ Plan(wire, q2, p, p1) /\ Plan(wire, q3, p1, p2)
       /\ Plan(wire, q4, p2, p2) /\ Plan(wire, q5, p2, p3) /\ Plan(wire, q6, p3, p3)
       /\ Plan(wire, q7, p3, p3)
  BY <1>6, <1>9, <1>10, <1>11, <1>12, <1>13 DEF q1, q2, q3, q4, q5, q6, q7
<1>17. q1 \o q2 \in Seq(S) /\ Plan(wire, q1 \o q2, p, p1)
  BY <1>14, <1>16, PlanConcat, ConcatProperties
<1>18. q1 \o q2 \o q3 \in Seq(S) /\ Plan(wire, q1 \o q2 \o q3, p, p2)
  BY <1>14, <1>16, <1>17, PlanConcat, ConcatProperties
<1>19. q1 \o q2 \o q3 \o q4 \in Seq(S) /\ Plan(wire, q1 \o q2 \o q3 \o q4, p, p2)
  BY <1>14, <1>16, <1>18, PlanConcat, ConcatProperties
<1>20. q1 \o q2 \o q3 \o q4 \o q5 \in Seq(S) /\ Plan(wire, q1 \o q2 \o q3 \o q4 \o q5, p, p3)
  BY <1>14, <1>16, <1>19, PlanConcat, ConcatProperties
<1>21. /\ q1 \o q2 \o q3 \o q4 \o q5 \o q6 \in Seq(S)
       /\ Plan(wire, q1 \o q2 \o q3 \o q4 \o q5 \o q6, p, p3)
  BY <1>14, <1>16, <1>20, PlanConcat, ConcatProperties
<1>22. Plan(wire, q1 \o q2 \o q3 \o q4 \o q5 \o q6 \o q7, p, p3)
  BY <1>14, <1>16, <1>21, PlanConcat
<1> QED
  BY <1>7, <1>15, <1>22 DEF h

(* What may be written may be written in part.                             *)
LEMMA WriteClean ==
    ASSUME NEW S, dst \in Seq(S), NEW b \in Seq(S), NEW next, NEW p \in Nat,
           WriteAll(b, next), Clean(wire, dst \o b, p)
    PROVE  /\ Clean(wire, dst', p)
           /\ pc' \in {next, "closed"}
           /\ pc' # "closed" => dst' = dst \o b
<1>1. CASE dst' = dst \o b /\ pc' = next
  BY <1>1
<1>2. ASSUME NEW k \in 0..Len(b), dst' = dst \o SubSeq(b, 1, k), pc' = "closed"
      PROVE  Clean(wire, dst', p)
  BY <1>2, CleanPrefix
<1> QED
  BY <1>1, <1>2 DEF WriteAll

LEMMA EmptyRight == ASSUME NEW S, NEW s \in Seq(S) PROVE s \o <<>> = s
BY ConcatEmptySeq

LEMMA SrcBytes ==
    ASSUME NEW lo \in Nat, NEW hi \in Nat, Len(wire) \in Nat, hi <= Len(wire)
    PROVE  \A r \in (lo + 1)..hi : SrcByte(r) \in Element
BY DEF SrcByte, Element, Byte

-----------------------------------------------------------------------------
LEMMA SafetyInit == Init => IInv
<1> SUFFICES ASSUME Init PROVE IInv
  OBVIOUS
<1>1. TypeOK
  BY TypeInit
<1>2. /\ at = 0 /\ lim = 0 /\ ops = <<>> /\ header_buf = 0 /\ bits = 32 /\ pc = "read"
      /\ dst = <<>>
  BY DEF Init
<1>3. Placed(wire, bits, at, lim, ops, header_buf)
  <2>1. 0 < Len(wire) => wire[0 + 1].off = 1
    BY <1>1, Stream, FirstMessage
  <2> QED
    BY <1>2, <2>1 DEF Placed, InForce, AtBoundary
<1>4. Emitted = <<>>
  BY <1>2 DEF Emitted
<1>5. Clean(wire, Emitted, at) /\ Complete(wire, Emitted, at)
  BY <1>2, <1>4 DEF Clean, Complete
<1> QED
  BY <1>1, <1>2, <1>3, <1>5 DEF IInv, CorruptOnlyIfSent

(* The steps that move neither the thread nor its data.                    *)
LEMMA SafetyIdle ==
    ASSUME IInv, UNCHANGED <<wire, at, lim, pc, ops, header_buf, bits, out, dst>>, TypeOK'
    PROVE  IInv'
<1>1. Emitted' = Emitted
  BY DEF Emitted
<1>2. Running' = Running /\ CorruptOnlyIfSent' = CorruptOnlyIfSent
  BY DEF Running, CorruptOnlyIfSent
<1> QED
  BY <1>1, <1>2 DEF IInv

LEMMA SafetyTopXml ==
    ASSUME SplitXml = FALSE, IInv, TypeOK', TopOfBuffer,
           ops = <<>>, header_buf = 0, XmlOnTop
    PROVE  IInv'
<1> DEFINE end == find_xml_end(at, lim)
<1>1. /\ IsStream(wire) /\ Len(wire) \in Nat /\ at \in Nat /\ lim \in Nat /\ lim <= Len(wire)
  BY Stream DEF IInv
<1>2. pc = "top" /\ Running
  BY DEF TopOfBuffer, Running
<1>3. at < lim /\ IsXml(wire[at + 1])
  BY <1>1, <1>2, XmlOnTopIsXml DEF IInv, Placed
<1>4. /\ handle_xml(at, end)
      /\ WriteAll(Src(at, end), IF end >= lim THEN "read" ELSE "loop")
      /\ at' = end
      /\ out' = IF end >= lim THEN out ELSE <<>>
      /\ UNCHANGED <<wire, lim>>
  BY DEF TopOfBuffer
<1>5. /\ end \in (at + 1)..lim
      /\ Placed(wire, bits', end, lim, ops', header_buf')
      /\ \A r \in (at + 1)..end : IsPayload(wire[r])
  BY <1>2, <1>3, <1>4, XmlStep
<1> HIDE DEF end
<1>6. Emitted = dst /\ dst \in Seq(Element) /\ end \in Nat /\ at <= end /\ end <= Len(wire)
  BY <1>1, <1>2, <1>5 DEF Emitted, IInv, TypeOK
<1>7. Clean(wire, dst \o Src(at, end), end) /\ Complete(wire, dst \o Src(at, end), end)
  BY <1>1, <1>2, <1>5, <1>6, SrcBytes, CleanSrc DEF IInv
<1>8. Src(at, end) \in Seq(Element)
  BY <1>1, <1>6, SrcProperties
<1>9. /\ Clean(wire, dst', end)
      /\ pc' \in {IF end >= lim THEN "read" ELSE "loop", "closed"}
      /\ pc' # "closed" => dst' = dst \o Src(at, end)
  BY <1>4, <1>6, <1>7, <1>8, WriteClean
<1>10. Emitted' = dst'
  <2>1. dst' \o <<>> = dst'
    BY EmptyRight DEF TypeOK
  <2>2. CASE end >= lim
    BY <1>9, <2>2 DEF Emitted
  <2>3. CASE ~(end >= lim)
    BY <1>4, <1>9, <2>1, <2>3 DEF Emitted
  <2> QED
    BY <2>2, <2>3
<1>11. pc' # "corrupt"
  BY <1>9
<1> QED
  BY <1>4, <1>5, <1>7, <1>9, <1>10, <1>11 DEF IInv, Running, CorruptOnlyIfSent

LEMMA SafetyMidXml ==
    ASSUME SplitXml = FALSE, IInv, TypeOK', MidBufferXml
    PROVE  IInv'
<1> DEFINE end == find_xml_end(at, lim)
<1>1. /\ IsStream(wire) /\ Len(wire) \in Nat /\ at \in Nat /\ lim \in Nat /\ lim <= Len(wire)
  BY Stream DEF IInv
<1>2. pc = "loop" /\ Running /\ ops = <<>> /\ header_buf = 0 /\ at < lim /\ IsLt(wire[at + 1])
  BY DEF MidBufferXml, AtXml, Running
<1>3. IsXml(wire[at + 1])
  <2>1. wire[at + 1].off = 1
    BY <1>1, <1>2, NextUnit DEF IInv, Placed
  <2> QED
    BY <1>2, <2>1, NaaProtocolAssumption DEF NaaProtocolAssumption, IsLt
<1>4. /\ handle_xml(at, end)
      /\ WriteAll(out \o Src(at, end), "loop")
      /\ at' = end
      /\ out' = <<>>
      /\ UNCHANGED <<wire, lim>>
  BY DEF MidBufferXml
<1>5. /\ end \in (at + 1)..lim
      /\ Placed(wire, bits', end, lim, ops', header_buf')
      /\ \A r \in (at + 1)..end : IsPayload(wire[r])
  BY <1>2, <1>3, <1>4, XmlStep
<1> HIDE DEF end
<1>6. /\ Emitted = dst \o out /\ dst \in Seq(Element) /\ out \in Seq(Element)
      /\ Emitted \in Seq(Element) /\ end \in Nat /\ at <= end /\ end <= Len(wire)
  BY <1>1, <1>2, <1>5, EmittedType DEF Emitted, IInv, TypeOK
<1>7. Clean(wire, Emitted \o Src(at, end), end) /\ Complete(wire, Emitted \o Src(at, end), end)
  BY <1>1, <1>2, <1>5, <1>6, SrcBytes, CleanSrc DEF IInv
<1>8. Src(at, end) \in Seq(Element) /\ out \o Src(at, end) \in Seq(Element)
  BY <1>1, <1>6, SrcProperties, ConcatProperties
<1>9. dst \o (out \o Src(at, end)) = Emitted \o Src(at, end)
  BY <1>6, <1>8, ConcatAssociative
<1>10. /\ Clean(wire, dst', end)
       /\ pc' \in {"loop", "closed"}
       /\ pc' # "closed" => dst' = Emitted \o Src(at, end)
  BY <1>4, <1>6, <1>7, <1>8, <1>9, WriteClean
<1>11. Emitted' = dst'
  <2>1. dst' \o <<>> = dst'
    BY EmptyRight DEF TypeOK
  <2> QED
    BY <1>4, <1>10, <2>1 DEF Emitted
<1> QED
  BY <1>4, <1>5, <1>7, <1>10, <1>11 DEF IInv, Running, CorruptOnlyIfSent

LEMMA SafetyAccumulate ==
    ASSUME IInv, TypeOK', AccumulateHeader
    PROVE  IInv'
<1> DEFINE m == wire[at + 1].msg
           s == at - header_buf
<1>1. /\ IsStream(wire) /\ Len(wire) \in Nat /\ at \in Nat /\ lim \in Nat /\ lim <= Len(wire)
      /\ header_buf \in Nat /\ FRAME_HEADER_SIZE \in Nat
  BY Stream, NaaProtocolAssumption DEF NaaProtocolAssumption, IInv
<1>2. /\ pc = "loop" /\ Running /\ ops = <<>> /\ at < lim /\ ~AtXml
      /\ lim - at < FRAME_HEADER_SIZE - header_buf
      /\ header_buf' = header_buf + (lim - at) /\ at' = lim
      /\ UNCHANGED <<wire, lim, pc, ops, bits, out, dst>>
  BY DEF AccumulateHeader, Running
<1>3. /\ m \in FrameMessage /\ m.type # "xml" /\ bits = m.bits
      /\ s \in Nat /\ s + Size(m) <= Len(wire)
      /\ \A k \in 1..Size(m) : wire[s + k] = [msg |-> m, off |-> k]
  BY <1>2, HeaderAhead
<1>4. Size(m) \in Nat /\ Size(m) >= FRAME_HEADER_SIZE
  BY <1>1, <1>3, SizeType DEF Message
<1> HIDE DEF m
<1>5. \A r \in (at + 1)..lim : wire[r].msg = m /\ wire[r].off = r - s /\ r - s < FRAME_HEADER_SIZE
  <2> TAKE r \in (at + 1)..lim
  <2>1. r - s \in 1..Size(m) /\ s + (r - s) = r /\ r - s < FRAME_HEADER_SIZE
    BY <1>1, <1>2, <1>3, <1>4
  <2> HIDE DEF s
  <2>2. wire[s + (r - s)] = [msg |-> m, off |-> r - s]
    BY <1>3, <2>1
  <2> QED
    BY <2>1, <2>2
<1>6. \A r \in (at + 1)..lim : ~IsPayload(wire[r])
  <2> TAKE r \in (at + 1)..lim
  <2>1. wire[r].off < FRAME_HEADER_SIZE /\ wire[r].off \in Int /\ ~IsXml(wire[r])
    BY <1>1, <1>3, <1>5 DEF IsXml
  <2> QED
    BY <1>1, <2>1 DEF IsPayload
<1>7. lim > 0 /\ IsHeader(wire[lim]) /\ wire[lim].off = header_buf' /\ wire[lim].msg.bits = bits
  <2>1. lim \in (at + 1)..lim /\ lim - s = header_buf' /\ m.type = "frame"
    BY <1>1, <1>2, <1>3 DEF FrameMessage
  <2> HIDE DEF s
  <2> QED
    BY <1>1, <1>3, <1>5, <2>1 DEF IsHeader
<1>8. header_buf' # 0
  BY <1>1, <1>2
<1>9. Placed(wire, bits, lim, lim, ops, header_buf')
  BY <1>1, <1>2, <1>7, <1>8 DEF IInv, Placed, InForce
<1>10. Emitted' = Emitted
  BY <1>2 DEF Emitted
<1>11. Clean(wire, Emitted, lim) /\ Complete(wire, Emitted, lim)
  BY <1>1, <1>2, <1>6, CleanLater, CompleteLater DEF IInv
<1> QED
  BY <1>2, <1>9, <1>10, <1>11 DEF IInv, Running, CorruptOnlyIfSent

LEMMA SafetyComplete ==
    ASSUME IInv, TypeOK', CompleteHeader
    PROVE  IInv'
<1> DEFINE m == wire[at + 1].msg
           s == at - header_buf
           H == FRAME_HEADER_SIZE
<1>1. /\ IsStream(wire) /\ Len(wire) \in Nat /\ at \in Nat /\ lim \in Nat /\ lim <= Len(wire)
      /\ header_buf \in Nat /\ H \in Nat /\ H >= 2
  BY Stream, NaaProtocolAssumption DEF NaaProtocolAssumption, IInv
<1>2. /\ pc = "loop" /\ Running /\ ops = <<>> /\ at < lim /\ ~AtXml
      /\ lim - at >= H - header_buf
      /\ header_buf' = 0 /\ at' = at + (H - header_buf)
      /\ UNCHANGED <<wire, lim, bits, out, dst>>
  BY DEF CompleteHeader, Running
<1>3. /\ m \in FrameMessage /\ m.type # "xml" /\ bits = m.bits
      /\ s \in Nat /\ s + Size(m) <= Len(wire)
      /\ \A k \in 1..Size(m) : wire[s + k] = [msg |-> m, off |-> k]
  BY <1>2, HeaderAhead
<1>4. Size(m) \in Nat /\ Size(m) >= H
  BY <1>1, <1>3, SizeType DEF Message
<1>5. at' = s + H /\ at' \in Nat /\ at <= at' /\ at' <= lim
  <2>1. header_buf < H
    BY <1>1 DEF IInv, TypeOK
  <2> QED
    BY <1>1, <1>2, <2>1
<1>6. \A r \in (at + 1)..at' : ~IsPayload(wire[r])
  <2> TAKE r \in (at + 1)..at'
  <2>1. r - s \in 1..Size(m) /\ s + (r - s) = r /\ r - s <= H
    BY <1>1, <1>3, <1>4, <1>5
  <2> HIDE DEF s, m
  <2>2. wire[s + (r - s)] = [msg |-> m, off |-> r - s]
    BY <1>3, <2>1
  <2>3. wire[r].off <= H /\ wire[r].off \in Int /\ ~IsXml(wire[r])
    BY <1>3, <2>1, <2>2 DEF IsXml
  <2> QED
    BY <1>1, <2>3 DEF IsPayload
<1> HIDE DEF m, s, H
<1>7. wire[at'] = [msg |-> m, off |-> H]
  BY <1>1, <1>3, <1>4, <1>5
<1>8. parse_header(at') = {m.h}
  <2>1. ASSUME NEW k \in 1..FRAME_HEADER_SIZE
        PROVE  LET u == wire[at' - FRAME_HEADER_SIZE + k]
               IN  ~IsXml(u) /\ u.off = k /\ u.msg = wire[at'].msg
    <3>1. k \in 1..Size(m) /\ at' - FRAME_HEADER_SIZE + k = s + k
      BY <1>1, <1>3, <1>4, <1>5 DEF H
    <3>2. wire[s + k] = [msg |-> m, off |-> k]
      BY <1>3, <3>1
    <3> QED
      BY <1>3, <1>7, <3>1, <3>2 DEF IsXml
  <2> QED
    BY <1>7, <2>1 DEF parse_header
<1>9. /\ is_corrupt(m.h) => pc' = "corrupt"
      /\ ~is_corrupt(m.h) => pc' = "drain" /\ ops' = build_frame_ops(m.h)
  BY <1>8 DEF CompleteHeader
<1>10. Clean(wire, Emitted, at') /\ Complete(wire, Emitted, at')
  BY <1>1, <1>2, <1>5, <1>6, CleanLater, CompleteLater DEF IInv
<1>11. Emitted = dst \o out /\ dst \in Seq(Element) /\ out \in Seq(Element)
  BY <1>2 DEF Emitted, IInv, TypeOK
<1>12. CASE is_corrupt(m.h)
  <2>1. Emitted' = dst
    BY <1>2, <1>9, <1>12 DEF Emitted
  <2>2. Clean(wire, dst, at')
    <3>1. 0 \in 0..Len(out) /\ SubSeq(out, 1, 0) = <<>> /\ dst \o <<>> = dst
      BY <1>11, LenProperties, SubSeqEmpty, EmptyRight
    <3> QED
      BY <1>5, <1>10, <1>11, <3>1, CleanPrefix
  <2>3. IsHeader(wire[at']) /\ wire[at'].off = FRAME_HEADER_SIZE /\ wire[at'].msg.h = m.h
    BY <1>1, <1>3, <1>7 DEF IsHeader, FrameMessage, H
  <2> QED
    BY <1>2, <1>9, <1>12, <2>1, <2>2, <2>3 DEF IInv, Running, CorruptOnlyIfSent
<1>13. CASE ~is_corrupt(m.h)
  <2>1. Emitted' = Emitted
    BY <1>2, <1>9, <1>13 DEF Emitted
  <2>2. EndOf(wire, at') = s + Size(m)
    BY <1>1, <1>3, <1>4, <1>5, <1>7 DEF EndOf
  <2>3. Plan(wire, build_frame_ops(m.h), at', s + Size(m))
    BY <1>3, <1>5, BuildPlan DEF IInv, H
  <2>4. build_frame_ops(m.h) = <<>> => AtBoundary(wire, at')
    <3>1. build_frame_ops(m.h) = <<>> => at' = s + Size(m)
      BY <2>3, PlanEmpty
    <3> QED
      BY <1>1, <1>3, <1>4, <1>5, <1>7, <3>1 DEF AtBoundary
  <2>5. Placed(wire, bits, at', lim, ops', 0)
    BY <1>1, <1>2, <1>3, <1>5, <1>7, <1>9, <1>13, <2>2, <2>3, <2>4
       DEF IInv, Placed, InForce, IsXml, H
  <2> QED
    BY <1>2, <1>9, <1>10, <1>13, <2>1, <2>5 DEF IInv, Running, CorruptOnlyIfSent
<1> QED
  BY <1>12, <1>13

(* The place in a frame after the first part of it, up to q, is done.      *)
LEMMA PlacedLater ==
    ASSUME IInv, Running, ops # <<>>, NEW q \in Nat, at <= q, q <= EndOf(wire, at),
           NEW rest, Plan(wire, rest, q, EndOf(wire, at))
    PROVE  Placed(wire, bits, q, lim, rest, 0)
<1>1. /\ IsStream(wire) /\ Len(wire) \in Nat /\ at \in Nat /\ FRAME_HEADER_SIZE \in Nat
      /\ lim \in Nat /\ lim <= Len(wire) /\ at <= lim
  BY Stream, NaaProtocolAssumption DEF NaaProtocolAssumption, IInv
<1>2. /\ at > 0 /\ ~IsXml(wire[at]) /\ wire[at].off >= FRAME_HEADER_SIZE
      /\ bits = InForce(wire, at)
      /\ lim < Len(wire) /\ IsXml(wire[lim + 1]) => wire[lim + 1].off = 1
  BY DEF IInv, Placed
<1>3. at \in 1..Len(wire)
  BY <1>1, <1>2
<1>4. /\ q \in 1..Len(wire) /\ wire[q].msg = wire[at].msg
      /\ wire[q].off = wire[at].off + (q - at)
      /\ EndOf(wire, q) = EndOf(wire, at)
  BY <1>1, <1>3, SameFrame
<1>5. wire[at].off \in Nat /\ wire[q].off \in Nat /\ Size(wire[q].msg) \in Nat
  BY <1>1, <1>3, <1>4, InMessage, SizeType
<1>6. wire[q].off >= FRAME_HEADER_SIZE /\ ~IsXml(wire[q]) /\ bits = InForce(wire, q) /\ q > 0
  BY <1>1, <1>2, <1>4, <1>5 DEF IsXml, InForce
<1>7. rest = <<>> => AtBoundary(wire, q)
  <2> SUFFICES ASSUME rest = <<>> PROVE AtBoundary(wire, q)
    OBVIOUS
  <2>1. q = EndOf(wire, q)
    BY <1>4, PlanEmpty
  <2> QED
    BY <1>4, <1>5, <2>1 DEF EndOf, AtBoundary
<1> QED
  BY <1>2, <1>4, <1>6, <1>7 DEF Placed

(* One step of an operation that takes bytes: what it covers, and its plan *)
(* for what is left.                                                       *)
LEMMA ConsumeStep ==
    ASSUME IInv, TypeOK', Running, ops # <<>>, ops[1].op # "Emit", Consume(ops[1].n)
    PROVE  /\ at' \in Nat /\ at <= at' /\ at' <= lim
           /\ Placed(wire, bits, at', lim, ops', 0)
           /\ \A r \in (at + 1)..at' : IsPayload(wire[r]) <=> ops[1].op = "Pass"
<1>1. /\ IsStream(wire) /\ Len(wire) \in Nat /\ at \in Nat /\ FRAME_HEADER_SIZE \in Nat
      /\ lim \in Nat /\ lim <= Len(wire) /\ at <= lim
  BY Stream, NaaProtocolAssumption DEF NaaProtocolAssumption, IInv
<1>2. /\ at \in 1..Len(wire) /\ Plan(wire, ops, at, EndOf(wire, at))
      /\ ops \in Seq(FrameOp)
  BY <1>1 DEF IInv, Placed, TypeOK
<1>3. EndOf(wire, at) \in Nat /\ EndOf(wire, at) <= Len(wire)
  <2>1. wire[at].off <= Size(wire[at].msg) /\ wire[at].off \in Nat /\ Size(wire[at].msg) \in Nat
    BY <1>1, <1>2, InMessage, SizeType
  <2>2. at <= EndOf(wire, at)
    BY <1>1, <2>1 DEF EndOf
  <2> QED
    BY <1>1, <1>2, <2>2, SameFrame
<1> DEFINE e == EndOf(wire, at)
           n == ops[1].n
           take == Least(n, lim - at)
<1>4. PICK m \in Nat :
        /\ m <= e
        /\ Takes(wire, ops[1], at, m)
        /\ Plan(wire, Tail(ops), m, e)
        /\ \A p \in Seq(FrameOp), g \in Nat :
             /\ Len(p) = Len(ops) /\ \A i \in 2..Len(ops) : p[i] = ops[i]
             /\ g <= e /\ Takes(wire, p[1], g, m)
             => Plan(wire, p, g, e)
  BY <1>1, <1>2, <1>3, PlanHead
<1>5. 1 \in 1..Len(ops) /\ Len(ops) \in Nat /\ ops[1] \in FrameOp
  BY <1>2, EmptySeq, ElementOfSeq
<1>6. n \in Nat /\ m = at + n /\ m <= e
  BY <1>4, <1>5 DEF FrameOp, Takes
<1>7. take \in Nat /\ take <= n /\ at' = at + take /\ take <= lim - at
  BY <1>1, <1>6 DEF Consume, Least
<1>8. /\ at' \in Nat /\ at <= at' /\ at' <= lim /\ at' <= m /\ at' <= e
  <2>1. at \in Nat /\ lim \in Nat /\ e \in Nat
    BY <1>1, <1>3
  <2> QED
    BY <1>6, <1>7, <2>1
<1>9. \A r \in (at + 1)..at' : IsPayload(wire[r]) <=> ops[1].op = "Pass"
  BY <1>1, <1>4, <1>8 DEF Takes
<1>10. Plan(wire, ops', at', e)
  <2>1. CASE take = n
    BY <1>4, <1>6, <1>7, <2>1 DEF Consume
  <2>2. CASE take # n
    <3>1. ops' = [ops EXCEPT ![1].n = n - take]
      BY <2>2 DEF Consume
    <3>2. [ops[1] EXCEPT !.n = n - take] \in FrameOp
      BY <1>5, <1>6, <1>7 DEF FrameOp
    <3>3. /\ ops' \in Seq(FrameOp) /\ Len(ops') = Len(ops)
          /\ \A i \in 1..Len(ops) :
                ops'[i] = IF i = 1 THEN [ops[1] EXCEPT !.n = n - take] ELSE ops[i]
      BY <1>2, <1>5, <3>1, <3>2, ExceptSeq
    <3>4. /\ ops'[1].op = ops[1].op /\ ops'[1].n = n - take
          /\ \A i \in 2..Len(ops) : ops'[i] = ops[i]
      BY <1>5, <3>2, <3>3 DEF FrameOp
    <3>5. Takes(wire, ops'[1], at', m)
      BY <1>1, <1>4, <1>6, <1>7, <1>8, <3>4 DEF Takes
    <3> QED
      BY <1>4, <1>8, <3>3, <3>4, <3>5
  <2> QED
    BY <2>1, <2>2
<1>11. Placed(wire, bits, at', lim, ops', 0)
  BY <1>8, <1>10, PlacedLater
<1> QED
  BY <1>8, <1>9, <1>11

LEMMA SafetyPass ==
    ASSUME IInv, TypeOK', DrainPass
    PROVE  IInv'
<1>1. /\ Running /\ pc = "drain" /\ ops # <<>> /\ ops[1].op = "Pass" /\ Consume(ops[1].n)
      /\ out' = out \o Src(at, at') /\ UNCHANGED <<wire, lim, header_buf, bits, dst>>
      /\ header_buf = 0
  BY DEF DrainPass, Running, IInv, Placed
<1>2. /\ at' \in Nat /\ at <= at' /\ at' <= lim
      /\ Placed(wire, bits, at', lim, ops', 0)
      /\ \A r \in (at + 1)..at' : IsPayload(wire[r])
  BY <1>1, ConsumeStep
<1>3. /\ Len(wire) \in Nat /\ at \in Nat /\ at' <= Len(wire)
      /\ Emitted = dst \o out /\ Emitted \in Seq(Element)
      /\ dst \in Seq(Element) /\ out \in Seq(Element)
  BY <1>1, <1>2, Stream, EmittedType DEF IInv, Emitted, TypeOK
<1>4. Src(at, at') \in Seq(Element)
  BY <1>2, <1>3, SrcProperties
<1>5. Emitted' = Emitted \o Src(at, at')
  <2>1. pc' \in {"loop", "drain"}
    BY <1>1 DEF Consume
  <2>2. Emitted' = dst \o (out \o Src(at, at'))
    BY <1>1, <2>1 DEF Emitted
  <2> QED
    BY <1>3, <1>4, <2>2, ConcatAssociative
<1>6. /\ Clean(wire, Emitted \o Src(at, at'), at')
      /\ Complete(wire, Emitted \o Src(at, at'), at')
  <2>1. \A r \in (at + 1)..at' : SrcByte(r) \in Element
    BY <1>2, <1>3, SrcBytes
  <2> QED
    BY <1>1, <1>2, <1>3, <2>1, CleanSrc DEF IInv
<1>7. pc' # "corrupt"
  BY <1>1 DEF Consume
<1> QED
  BY <1>1, <1>2, <1>5, <1>6, <1>7 DEF IInv, CorruptOnlyIfSent

LEMMA SafetySkip ==
    ASSUME IInv, TypeOK', DrainSkip
    PROVE  IInv'
<1>1. /\ Running /\ pc = "drain" /\ ops # <<>> /\ ops[1].op = "Skip" /\ Consume(ops[1].n)
      /\ UNCHANGED <<wire, lim, header_buf, bits, dst, out>>
      /\ header_buf = 0
  BY DEF DrainSkip, Running, IInv, Placed
<1>2. /\ at' \in Nat /\ at <= at' /\ at' <= lim
      /\ Placed(wire, bits, at', lim, ops', 0)
      /\ \A r \in (at + 1)..at' : ~IsPayload(wire[r])
  BY <1>1, ConsumeStep
<1>3. at \in Nat
  BY Stream DEF IInv
<1>4. pc' \in {"loop", "drain"} /\ Emitted' = Emitted
  BY <1>1 DEF Consume, Emitted
<1>5. Clean(wire, Emitted, at') /\ Complete(wire, Emitted, at')
  BY <1>1, <1>2, <1>3, CleanLater, CompleteLater DEF IInv
<1> QED
  BY <1>1, <1>2, <1>4, <1>5 DEF IInv, CorruptOnlyIfSent

LEMMA SafetyEmit ==
    ASSUME IInv, TypeOK', DrainEmit
    PROVE  IInv'
<1>1. /\ Running /\ pc = "drain" /\ ops # <<>> /\ ops[1].op = "Emit"
      /\ out' = Append(out, ops[1].sec) /\ ops' = Tail(ops)
      /\ UNCHANGED <<wire, at, lim, pc, header_buf, bits, dst>>
      /\ header_buf = 0
  BY DEF DrainEmit, Running, IInv, Placed
<1>2. /\ Len(wire) \in Nat /\ at \in Nat /\ IsStream(wire)
      /\ Emitted = dst \o out /\ Emitted \in Seq(Element)
      /\ dst \in Seq(Element) /\ out \in Seq(Element) /\ ops \in Seq(FrameOp)
      /\ at \in 1..Len(wire) /\ Plan(wire, ops, at, EndOf(wire, at))
  BY <1>1, Stream, EmittedType DEF IInv, Emitted, TypeOK, Placed
<1>3. ops[1].sec \in Element /\ ops[1].sec.kind # "src"
  <2>1. ops[1] \in FrameOp
    BY <1>1, <1>2, EmptySeq, ElementOfSeq
  <2>2. ops[1].sec \in Section
    BY <1>1, <2>1 DEF FrameOp
  <2> QED
    BY <2>2 DEF Element, Section
<1>4. Emitted' = Append(Emitted, ops[1].sec)
  <2>1. Emitted' = dst \o Append(out, ops[1].sec)
    BY <1>1 DEF Emitted
  <2>2. /\ Append(out, ops[1].sec) = out \o <<ops[1].sec>>
        /\ Append(Emitted, ops[1].sec) = Emitted \o <<ops[1].sec>>
    BY <1>2, <1>3, AppendIsConcat
  <2>3. <<ops[1].sec>> \in Seq(Element)
    BY <1>3, WhenSeq
  <2> QED
    BY <1>2, <2>1, <2>2, <2>3, ConcatAssociative
<1>5. /\ Clean(wire, Append(Emitted, ops[1].sec), at)
      /\ Complete(wire, Append(Emitted, ops[1].sec), at)
  BY <1>1, <1>2, <1>3, CleanSection DEF IInv
<1>6. Placed(wire, bits, at, lim, ops', 0)
  <2>1. EndOf(wire, at) \in Nat /\ at <= EndOf(wire, at)
    <3>1. /\ wire[at].off <= Size(wire[at].msg) /\ wire[at].off \in Nat
          /\ wire[at].off <= at /\ Size(wire[at].msg) \in Nat
      BY <1>2, InMessage, SizeType
    <3> QED
      BY <1>2, <3>1 DEF EndOf
  <2>2. \E m \in Nat : Takes(wire, ops[1], at, m) /\ Plan(wire, Tail(ops), m, EndOf(wire, at))
    BY <1>1, <1>2, <2>1, PlanHead
  <2>3. Plan(wire, Tail(ops), at, EndOf(wire, at))
    BY <1>1, <2>2 DEF Takes
  <2> QED
    BY <1>1, <1>2, <2>1, <2>3, PlacedLater
<1> QED
  BY <1>1, <1>4, <1>5, <1>6 DEF IInv, CorruptOnlyIfSent

LEMMA SafetyFlush ==
    ASSUME IInv, TypeOK', FlushOut
    PROVE  IInv'
<1>1. /\ Running /\ pc = "loop"
      /\ UNCHANGED <<wire, at, lim, ops, header_buf, bits, out>>
      /\ IF out = <<>> THEN pc' = "read" /\ UNCHANGED dst ELSE WriteAll(out, "read")
  BY DEF FlushOut, Running
<1>2. /\ at \in Nat /\ Emitted = dst \o out /\ dst \in Seq(Element) /\ out \in Seq(Element)
      /\ Clean(wire, Emitted, at)
  BY <1>1, Stream DEF IInv, Emitted, TypeOK
<1>3. CASE out = <<>>
  <2>1. pc' = "read" /\ Emitted' = Emitted
    BY <1>1, <1>2, <1>3, EmptyRight DEF Emitted
  <2> QED
    BY <1>1, <2>1 DEF IInv, Running, CorruptOnlyIfSent
<1>4. CASE out # <<>>
  <2>1. /\ Clean(wire, dst', at) /\ pc' \in {"read", "closed"}
        /\ pc' # "closed" => dst' = Emitted
    BY <1>1, <1>2, <1>4, WriteClean
  <2>2. Emitted' = dst'
    BY <2>1 DEF Emitted
  <2> QED
    BY <1>1, <2>1, <2>2 DEF IInv, Running, CorruptOnlyIfSent
<1> QED
  BY <1>3, <1>4

(* A read moves only lim, and never into an XML message.                   *)
LEMMA SafetyRead ==
    ASSUME SplitXml = FALSE, IInv, TypeOK', Read
    PROVE  IInv'
<1>1. /\ pc = "read" /\ pc' = "top" /\ Running /\ Running'
      /\ UNCHANGED <<wire, at, ops, header_buf, bits, dst, out>>
  BY DEF Read, Running
<1>2. lim' < Len(wire) /\ IsXml(wire[lim' + 1]) => wire[lim' + 1].off = 1
  BY DEF Read, MayEndAt
<1>3. Placed(wire, bits, at, lim', ops, header_buf)
  BY <1>1, <1>2 DEF IInv, Placed
<1>4. Emitted' = Emitted
  BY <1>1 DEF Emitted
<1>5. Placed(wire, bits, at, lim, ops, header_buf)'
  BY <1>1, <1>3
<1>6. Clean(wire, Emitted, at)' /\ Complete(wire, Emitted, at)'
  BY <1>1, <1>4 DEF IInv
<1>7. CorruptOnlyIfSent'
  BY <1>1 DEF CorruptOnlyIfSent
<1> QED
  BY <1>5, <1>6, <1>7 DEF IInv

LEMMA SafetyReadEnds ==
    ASSUME IInv, TypeOK', ReadEnds
    PROVE  IInv'
<1>1. /\ pc = "read" /\ pc' = "closed"
      /\ UNCHANGED <<wire, at, dst>>
  BY DEF ReadEnds
<1>2. Emitted' = Emitted
  BY <1>1 DEF Emitted
<1>3. Clean(wire, Emitted, at)'
  BY <1>1, <1>2 DEF IInv
<1> QED
  BY <1>1, <1>3 DEF IInv, Running, CorruptOnlyIfSent

(* The steps that only move on in the code: into the loop with nothing     *)
(* collected, into execute_ops and out of it.                              *)
LEMMA SafetyMoves ==
    ASSUME IInv, TypeOK', Running, Running', Emitted' = Emitted,
           UNCHANGED <<wire, at, lim, ops, header_buf, bits>>
    PROVE  IInv'
<1>1. Placed(wire, bits, at, lim, ops, header_buf)'
  BY DEF IInv
<1>2. Clean(wire, Emitted, at)' /\ Complete(wire, Emitted, at)'
  BY DEF IInv
<1>3. CorruptOnlyIfSent'
  BY DEF CorruptOnlyIfSent, Running
<1> QED
  BY <1>1, <1>2, <1>3 DEF IInv

LEMMA SafetyTop ==
    ASSUME SplitXml = FALSE, IInv, TypeOK', TopOfBuffer
    PROVE  IInv'
<1>1. CASE ops = <<>> /\ header_buf = 0 /\ XmlOnTop
  BY <1>1, SafetyTopXml
<1>2. CASE ~(ops = <<>> /\ header_buf = 0 /\ XmlOnTop)
  <2>1. /\ pc = "top" /\ pc' = "loop" /\ out' = <<>> /\ dst' = dst
        /\ UNCHANGED <<wire, at, lim, ops, header_buf, bits>>
    BY <1>2 DEF TopOfBuffer
  <2>2. dst \in Seq(Element)
    BY DEF IInv, TypeOK
  <2>3. dst' \o out' = dst
    BY <2>1, <2>2, EmptyRight
  <2>4. Emitted' = Emitted /\ Running /\ Running'
    BY <2>1, <2>3 DEF Emitted, Running
  <2> QED
    BY <2>1, <2>4, SafetyMoves
<1> QED
  BY <1>1, <1>2

LEMMA SafetyStep ==
    ASSUME SplitXml = FALSE, IInv, [Next]_vars
    PROVE  IInv'
<1>0. TypeOK'
  BY TypeStep DEF IInv
<1>1. CASE Read
  BY <1>0, <1>1, SafetyRead
<1>2. CASE ReadEnds
  BY <1>0, <1>2, SafetyReadEnds
<1>3. CASE TopOfBuffer
  BY <1>0, <1>3, SafetyTop
<1>4. CASE MidBufferXml
  BY <1>0, <1>4, SafetyMidXml
<1>5. CASE AccumulateHeader
  BY <1>0, <1>5, SafetyAccumulate
<1>6. CASE CompleteHeader
  BY <1>0, <1>6, SafetyComplete
<1>7. CASE Resume
  <2>1. /\ pc = "loop" /\ pc' = "drain"
        /\ UNCHANGED <<wire, at, lim, ops, header_buf, bits, out, dst>>
    BY <1>7 DEF Resume
  <2> QED
    BY <1>0, <2>1, SafetyMoves DEF Emitted, Running
<1>8. CASE DrainPass
  BY <1>0, <1>8, SafetyPass
<1>9. CASE DrainSkip
  BY <1>0, <1>9, SafetySkip
<1>10. CASE DrainEmit
  BY <1>0, <1>10, SafetyEmit
<1>11. CASE DrainDone
  <2>1. /\ pc = "drain" /\ pc' = "loop"
        /\ UNCHANGED <<wire, at, lim, ops, header_buf, bits, out, dst>>
    BY <1>11 DEF DrainDone
  <2> QED
    BY <1>0, <2>1, SafetyMoves DEF Emitted, Running
<1>12. CASE FlushOut
  BY <1>0, <1>12, SafetyFlush
<1>13. CASE Set
  BY <1>0, <1>13, SafetyIdle DEF Set
<1>14. CASE UNCHANGED vars
  BY <1>0, <1>14, SafetyIdle DEF vars
<1> QED
  BY <1>1, <1>2, <1>3, <1>4, <1>5, <1>6, <1>7, <1>8, <1>9, <1>10, <1>11, <1>12, <1>13, <1>14
     DEF Next, Process

(* The inductive invariant holds in every reachable state, for every       *)
(* stream, buffer size and interleaving with the Roon thread, as long as   *)
(* no read ends inside an XML message.                                     *)
THEOREM Safety ==
    ASSUME SplitXml = FALSE
    PROVE  Spec => []IInv
BY SafetyInit, SafetyStep, PTL DEF Spec

-----------------------------------------------------------------------------
(* The positions of a sequence handed on.                                  *)
LEMMA Handed ==
    ASSUME TypeOK
    PROVE  Len(Emitted) \in Nat /\ DOMAIN Emitted = 1..Len(Emitted)
BY EmittedType, LenProperties

LEMMA CleanNoLeak == IInv => NoLeak
BY Handed DEF IInv, Clean, NoLeak

(* No byte of HQPlayer's headers, POS, META or PIC reaches the NAA.        *)
THEOREM HqpSectionsStripped ==
    ASSUME SplitXml = FALSE
    PROVE  Spec => []NoLeak
BY Safety, CleanNoLeak, PTL

LEMMA CompleteNothingLost == IInv => NothingLost
<1> SUFFICES ASSUME IInv PROVE NothingLost
  OBVIOUS
<1>1. Len(Emitted) \in Nat /\ DOMAIN Emitted = 1..Len(Emitted)
  BY Handed DEF IInv
<1>2. Clean(wire, Emitted, at) /\ (Running => Complete(wire, Emitted, at))
  BY DEF IInv
<1> QED
  BY <1>1, <1>2 DEF Clean, Complete, SrcByte, NothingLost

(* No byte of XML or audio that was consumed goes missing on the way.      *)
THEOREM StreamIsWhole ==
    ASSUME SplitXml = FALSE
    PROVE  Spec => []NothingLost
BY Safety, CompleteNothingLost, PTL

LEMMA PlacedInStep == IInv => InStep
BY DEF IInv, Placed, AtBoundary, Boundary, InStep

(* With nothing pending the proxy stands at a message boundary or as far   *)
(* into a header as it has accumulated.                                    *)
THEOREM ProxyInStep ==
    ASSUME SplitXml = FALSE
    PROVE  Spec => []InStep
BY Safety, PlacedInStep, PTL

LEMMA InvCorrupt == IInv => CorruptOnlyIfSent
BY DEF IInv

(* The connection is closed as corrupt only for a header really sent.      *)
THEOREM NoFalseAlarm ==
    ASSUME SplitXml = FALSE
    PROVE  Spec => []CorruptOnlyIfSent
BY Safety, InvCorrupt, PTL

-----------------------------------------------------------------------------
(* Order needs none of this: the proxy may lose its place in the stream,   *)
(* when a read ends inside an XML message, but it only ever moves forward, *)
(* and everything it hands on lies at or before where it stands.           *)

Rising(s, p) ==
    \A i \in 1..Len(s) : s[i].kind = "src" =>
        /\ s[i].at \in 1..p
        /\ \A j \in 1..(i - 1) : s[j].kind = "src" => s[j].at < s[i].at

OrderInv == TypeOK /\ Rising(Emitted, at)

LEMMA RisingLater ==
    ASSUME NEW s, NEW p \in Nat, NEW q \in Nat, p <= q, Rising(s, p)
    PROVE  Rising(s, q)
BY DEF Rising

LEMMA RisingSection ==
    ASSUME NEW S, NEW s \in Seq(S), NEW e \in S, e.kind # "src", NEW p \in Nat, Rising(s, p)
    PROVE  Rising(Append(s, e), p)
<1> DEFINE t == Append(s, e)
<1>1. /\ Len(t) = Len(s) + 1 /\ Len(s) \in Nat
      /\ \A i \in 1..Len(s) : t[i] = s[i]
      /\ t[Len(s) + 1] = e
  BY AppendProperties, LenProperties
<1> HIDE DEF t
<1>2. ASSUME NEW i \in 1..Len(t), t[i].kind = "src"
      PROVE  /\ t[i].at \in 1..p
             /\ \A j \in 1..(i - 1) : t[j].kind = "src" => t[j].at < t[i].at
  <2>1. i \in 1..Len(s) /\ t[i] = s[i] /\ \A j \in 1..(i - 1) : j \in 1..Len(s) /\ t[j] = s[j]
    BY <1>1, <1>2
  <2> QED
    BY <1>2, <2>1 DEF Rising
<1> QED
  BY <1>2 DEF Rising, t

(* What is handed on in part keeps its order.                              *)
LEMMA RisingPart ==
    ASSUME NEW S, NEW s \in Seq(S), NEW b \in Seq(S), NEW k \in 0..Len(b), NEW p \in Nat,
           Rising(s \o b, p)
    PROVE  Rising(s \o SubSeq(b, 1, k), p)
<1> DEFINE c == SubSeq(b, 1, k)
           t == s \o c
           u == s \o b
<1>1. Len(s) \in Nat /\ Len(b) \in Nat /\ k \in Nat /\ k <= Len(b)
  BY LenProperties
<1>2. c \in Seq(S) /\ Len(c) = k /\ \A i \in 1..k : c[i] = b[i]
  <2>1. \A i \in 1..k : b[i] \in S
    BY <1>1, ElementOfSeq
  <2> QED
    BY <2>1, <1>1, SubSeqProperties
<1> HIDE DEF c
<1>3. /\ Len(t) = Len(s) + k /\ Len(u) = Len(s) + Len(b)
      /\ \A i \in 1..(Len(s) + k) : t[i] = IF i <= Len(s) THEN s[i] ELSE c[i - Len(s)]
      /\ \A i \in 1..(Len(s) + Len(b)) : u[i] = IF i <= Len(s) THEN s[i] ELSE b[i - Len(s)]
  BY <1>2, ConcatProperties
<1> HIDE DEF t, u
<1>4. \A i \in 1..Len(t) : i \in 1..Len(u) /\ t[i] = u[i]
  BY <1>1, <1>2, <1>3
<1>5. ASSUME Rising(u, p), NEW i \in 1..Len(t), t[i].kind = "src"
      PROVE  /\ t[i].at \in 1..p
             /\ \A j \in 1..(i - 1) : t[j].kind = "src" => t[j].at < t[i].at
  <2>1. i \in 1..Len(u) /\ t[i] = u[i]
    BY <1>4
  <2>2. \A j \in 1..(i - 1) : t[j] = u[j]
    BY <1>1, <1>3, <1>4
  <2> QED
    BY <1>5, <2>1, <2>2 DEF Rising
<1> QED
  BY <1>5 DEF Rising, c, t, u

LEMMA RisingSrc ==
    ASSUME NEW S, NEW s \in Seq(S), NEW p \in Nat, NEW q \in Nat, p <= q,
           Src(p, q) \in Seq(S), Rising(s, p)
    PROVE  Rising(s \o Src(p, q), q)
<1> DEFINE b == Src(p, q)
           t == s \o b
<1>1. /\ Len(s) \in Nat /\ q - p \in Nat /\ Len(b) = q - p
      /\ \A k \in 1..(q - p) : b[k] = SrcByte(p + k)
  BY LenProperties DEF Src, SrcByte
<1>2. /\ Len(t) = Len(s) + (q - p)
      /\ \A i \in 1..(Len(s) + (q - p)) : t[i] = IF i <= Len(s) THEN s[i] ELSE b[i - Len(s)]
  BY <1>1, ConcatProperties
<1> HIDE DEF b, t
<1>3. \A i \in 1..Len(t) : i <= Len(s) => i \in 1..Len(s) /\ t[i] = s[i]
  BY <1>1, <1>2
<1>4. ASSUME NEW i \in 1..Len(t), i > Len(s)
      PROVE  t[i].at = p + (i - Len(s)) /\ p + (i - Len(s)) \in (p + 1)..q
  <2>1. i \in 1..(Len(s) + (q - p)) /\ ~(i <= Len(s)) /\ i - Len(s) \in 1..(q - p)
    BY <1>1, <1>2, <1>4
  <2>2. t[i] = b[i - Len(s)]
    BY <1>2, <2>1
  <2>3. b[i - Len(s)] = SrcByte(p + (i - Len(s)))
    BY <1>1, <2>1
  <2>4. t[i].at = p + (i - Len(s))
    BY <2>2, <2>3 DEF SrcByte
  <2> QED
    BY <2>1, <2>4
<1>5. ASSUME NEW i \in 1..Len(t), t[i].kind = "src"
      PROVE  /\ t[i].at \in 1..q
             /\ \A j \in 1..(i - 1) : t[j].kind = "src" => t[j].at < t[i].at
  <2>0. Len(t) \in Nat
    BY <1>1, <1>2
  <2>1. CASE i <= Len(s)
    <3>1. i \in 1..Len(s) /\ t[i] = s[i] /\ \A j \in 1..(i - 1) : t[j] = s[j]
      BY <1>3, <2>0, <2>1
    <3> QED
      BY <1>5, <3>1 DEF Rising
  <2>2. CASE i > Len(s)
    <3>1. t[i].at = p + (i - Len(s)) /\ t[i].at \in (p + 1)..q
      BY <1>4, <2>2
    <3>2. ASSUME NEW j \in 1..(i - 1), t[j].kind = "src" PROVE t[j].at < t[i].at
      <4>0. j \in 1..Len(t)
        BY <2>0
      <4>1. CASE j <= Len(s)
        <5>1. s[j].at \in 1..p /\ t[j] = s[j]
          BY <1>3, <3>2, <4>0, <4>1 DEF Rising
        <5> QED
          BY <3>1, <5>1
      <4>2. CASE j > Len(s)
        <5>1. t[j].at = p + (j - Len(s))
          BY <1>4, <4>0, <4>2
        <5> QED
          BY <1>1, <3>1, <5>1
      <4> QED
        BY <1>1, <4>1, <4>2
    <3> QED
      BY <3>1, <3>2
  <2> QED
    BY <1>1, <2>1, <2>2
<1> QED
  BY <1>5 DEF Rising, b, t

(* A write of b, whole or in part, after which nothing is collected.       *)
LEMMA RisingWrite ==
    ASSUME dst \in Seq(Element), NEW b \in Seq(Element), NEW next, NEW p \in Nat,
           WriteAll(b, next), Rising(dst \o b, p)
    PROVE  Rising(dst', p)
<1>1. ASSUME NEW k \in 0..Len(b), dst' = dst \o SubSeq(b, 1, k)
      PROVE  Rising(dst', p)
  BY <1>1, RisingPart
<1> QED
  BY <1>1 DEF WriteAll

LEMMA OrderInit == Init => OrderInv
<1> SUFFICES ASSUME Init PROVE OrderInv
  OBVIOUS
<1>1. Emitted = <<>>
  BY DEF Init, Emitted
<1> QED
  BY <1>1, TypeInit DEF OrderInv, Rising

LEMMA OrderTop ==
    ASSUME OrderInv, TypeOK', TopOfBuffer
    PROVE  Rising(Emitted', at')
<1>1. /\ Len(wire) \in Nat /\ at \in Nat /\ lim \in Nat /\ at <= lim /\ lim <= Len(wire)
      /\ dst \in Seq(Element) /\ pc = "top"
  BY Stream DEF OrderInv, TypeOK, TopOfBuffer
<1>2. Emitted = dst /\ Rising(dst, at)
  BY <1>1 DEF Emitted, OrderInv
<1>3. CASE ops = <<>> /\ header_buf = 0 /\ XmlOnTop
  <2> DEFINE end == find_xml_end(at, lim)
             next == IF end >= lim THEN "read" ELSE "loop"
  <2>1. /\ WriteAll(Src(at, end), next) /\ at' = end
        /\ out' = IF end >= lim THEN out ELSE <<>>
    BY <1>3 DEF TopOfBuffer
  <2>2. at < lim
    BY <1>1, <1>3 DEF XmlOnTop
  <2>3. end \in (at + 1)..lim
    BY <1>1, <2>2, XmlEndInRange
  <2> HIDE DEF end
  <2>4. end \in Nat /\ at <= end /\ end <= Len(wire)
    BY <1>1, <2>3
  <2>5. Src(at, end) \in Seq(Element)
    BY <1>1, <2>4, SrcProperties
  <2>6. Rising(dst', end)
    BY <1>1, <1>2, <2>1, <2>4, <2>5, RisingSrc, RisingWrite
  <2>7. dst' \o <<>> = dst'
    BY EmptyRight DEF TypeOK
  <2>8. pc' \in {next, "closed"}
    BY <2>1 DEF WriteAll
  <2>9. Emitted' = dst'
    BY <2>1, <2>7, <2>8 DEF Emitted
  <2> QED
    BY <2>1, <2>6, <2>9
<1>4. CASE ~(ops = <<>> /\ header_buf = 0 /\ XmlOnTop)
  <2>1. pc' = "loop" /\ out' = <<>> /\ dst' = dst /\ at' = at
    BY <1>4 DEF TopOfBuffer
  <2>2. dst \o <<>> = dst
    BY <1>1, EmptyRight
  <2> QED
    BY <1>2, <2>1, <2>2 DEF Emitted
<1> QED
  BY <1>3, <1>4

LEMMA OrderMidXml ==
    ASSUME OrderInv, TypeOK', MidBufferXml
    PROVE  Rising(Emitted', at')
<1> DEFINE end == find_xml_end(at, lim)
<1>1. /\ Len(wire) \in Nat /\ at \in Nat /\ lim \in Nat /\ at < lim /\ lim <= Len(wire)
      /\ dst \in Seq(Element) /\ out \in Seq(Element)
      /\ Emitted = dst \o out /\ Emitted \in Seq(Element) /\ Rising(Emitted, at)
  BY Stream, EmittedType DEF OrderInv, TypeOK, MidBufferXml, Emitted
<1>2. end \in (at + 1)..lim
  BY <1>1, XmlEndInRange
<1>3. WriteAll(out \o Src(at, end), "loop") /\ at' = end /\ out' = <<>>
  BY DEF MidBufferXml
<1> HIDE DEF end
<1>4. end \in Nat /\ at <= end /\ end <= Len(wire)
  BY <1>1, <1>2
<1>5. Src(at, end) \in Seq(Element)
  BY <1>1, <1>4, SrcProperties
<1>6. Rising(Emitted \o Src(at, end), end)
  BY <1>1, <1>4, <1>5, RisingSrc
<1>7. out \o Src(at, end) \in Seq(Element)
  BY <1>1, <1>5, ConcatProperties
<1>8. dst \o (out \o Src(at, end)) = Emitted \o Src(at, end)
  BY <1>1, <1>5, ConcatAssociative
<1>9. Rising(dst', end)
  BY <1>1, <1>3, <1>4, <1>6, <1>7, <1>8, RisingWrite
<1>10. dst' \o <<>> = dst'
  BY EmptyRight DEF TypeOK
<1> QED
  BY <1>3, <1>9, <1>10 DEF Emitted

(* The operation at the head takes what the buffer has of it, no less.     *)
LEMMA ConsumeForward ==
    ASSUME ops \in Seq(FrameOp), ops # <<>>, ops[1].op # "Emit", Consume(ops[1].n),
           at \in Nat, lim \in Nat, at <= lim
    PROVE  at <= at'
<1>1. ops[1] \in FrameOp
  BY EmptySeq, ElementOfSeq
<1>2. ops[1].n \in Nat
  BY <1>1 DEF FrameOp
<1> QED
  BY <1>2 DEF Consume, Least

LEMMA OrderPass ==
    ASSUME OrderInv, TypeOK', DrainPass
    PROVE  Rising(Emitted', at')
<1>1. /\ Len(wire) \in Nat /\ at \in Nat /\ lim \in Nat /\ at <= lim /\ lim <= Len(wire)
      /\ dst \in Seq(Element) /\ out \in Seq(Element) /\ ops \in Seq(FrameOp)
      /\ Emitted = dst \o out /\ Emitted \in Seq(Element) /\ Rising(Emitted, at)
      /\ wire' = wire /\ at' \in 0..lim
  BY Stream, EmittedType DEF OrderInv, TypeOK, DrainPass, Emitted
<1>2. /\ ops # <<>> /\ ops[1].op = "Pass" /\ Consume(ops[1].n) /\ pc = "drain"
      /\ out' = out \o Src(at, at') /\ dst' = dst
  BY DEF DrainPass
<1>3. at' \in Nat /\ at <= at' /\ at' <= Len(wire)
  BY <1>1, <1>2, ConsumeForward
<1>4. Src(at, at') \in Seq(Element)
  BY <1>1, <1>3, SrcProperties
<1>5. pc' \in {"loop", "drain"}
  BY <1>2 DEF Consume
<1>6. Emitted' = Emitted \o Src(at, at')
  <2>1. Emitted' = dst \o (out \o Src(at, at'))
    BY <1>2, <1>5 DEF Emitted
  <2> QED
    BY <1>1, <1>4, <2>1, ConcatAssociative
<1> QED
  BY <1>1, <1>3, <1>4, <1>6, RisingSrc

LEMMA OrderSkip ==
    ASSUME OrderInv, TypeOK', DrainSkip
    PROVE  Rising(Emitted', at')
<1>1. /\ at \in Nat /\ lim \in Nat /\ at <= lim /\ ops \in Seq(FrameOp)
      /\ at' \in 0..lim /\ Rising(Emitted, at)
  BY Stream DEF OrderInv, TypeOK, DrainSkip
<1>2. /\ ops # <<>> /\ ops[1].op = "Skip" /\ Consume(ops[1].n) /\ pc = "drain"
      /\ out' = out /\ dst' = dst
  BY DEF DrainSkip
<1>3. at' \in Nat /\ at <= at'
  BY <1>1, <1>2, ConsumeForward
<1>4. Emitted' = Emitted
  BY <1>2 DEF Consume, Emitted
<1> QED
  BY <1>1, <1>3, <1>4, RisingLater

LEMMA OrderEmit ==
    ASSUME OrderInv, TypeOK', DrainEmit
    PROVE  Rising(Emitted', at')
<1>1. /\ at \in Nat /\ dst \in Seq(Element) /\ out \in Seq(Element) /\ ops \in Seq(FrameOp)
      /\ Emitted = dst \o out /\ Emitted \in Seq(Element) /\ Rising(Emitted, at)
  BY Stream, EmittedType DEF OrderInv, TypeOK, DrainEmit, Emitted
<1>2. /\ ops # <<>> /\ ops[1].op = "Emit" /\ pc = "drain"
      /\ out' = Append(out, ops[1].sec)
      /\ UNCHANGED <<at, pc, dst>>
  BY DEF DrainEmit
<1>3. ops[1].sec \in Element /\ ops[1].sec.kind # "src"
  <2>1. ops[1] \in FrameOp
    BY <1>1, <1>2, EmptySeq, ElementOfSeq
  <2> QED
    BY <1>2, <2>1 DEF FrameOp, Element, Section
<1>4. Emitted' = Append(Emitted, ops[1].sec)
  <2>1. Emitted' = dst \o Append(out, ops[1].sec)
    BY <1>2 DEF Emitted
  <2>2. /\ Append(out, ops[1].sec) = out \o <<ops[1].sec>>
        /\ Append(Emitted, ops[1].sec) = Emitted \o <<ops[1].sec>>
    BY <1>1, <1>3, AppendIsConcat
  <2>3. <<ops[1].sec>> \in Seq(Element)
    BY <1>3, WhenSeq
  <2> QED
    BY <1>1, <2>1, <2>2, <2>3, ConcatAssociative
<1> QED
  BY <1>1, <1>2, <1>3, <1>4, RisingSection

LEMMA OrderFlush ==
    ASSUME OrderInv, TypeOK', FlushOut
    PROVE  Rising(Emitted', at')
<1>1. /\ at \in Nat /\ dst \in Seq(Element) /\ out \in Seq(Element)
      /\ Emitted = dst \o out /\ Rising(Emitted, at)
      /\ at' = at
      /\ IF out = <<>> THEN pc' = "read" /\ UNCHANGED dst ELSE WriteAll(out, "read")
  BY Stream DEF OrderInv, TypeOK, FlushOut, Emitted
<1>2. CASE out = <<>>
  <2>1. dst \o <<>> = dst
    BY <1>1, EmptyRight
  <2> QED
    BY <1>1, <1>2, <2>1 DEF Emitted
<1>3. CASE out # <<>>
  <2>1. Rising(dst', at)
    BY <1>1, <1>3, RisingWrite
  <2>2. pc' \in {"read", "closed"}
    BY <1>1, <1>3 DEF WriteAll
  <2> QED
    BY <1>1, <2>1, <2>2 DEF Emitted
<1> QED
  BY <1>2, <1>3

(* The header is consumed; a corrupt one leaves what was collected behind. *)
LEMMA OrderComplete ==
    ASSUME OrderInv, TypeOK', CompleteHeader
    PROVE  Rising(Emitted', at')
<1>1. /\ at \in Nat /\ header_buf \in 0..(FRAME_HEADER_SIZE - 1) /\ at' \in Nat
      /\ FRAME_HEADER_SIZE \in Nat
      /\ dst \in Seq(Element) /\ out \in Seq(Element)
      /\ Emitted = dst \o out /\ Rising(Emitted, at)
  BY Stream, NaaProtocolAssumption
     DEF OrderInv, TypeOK, CompleteHeader, Emitted, NaaProtocolAssumption
<1>2. /\ at' = at + (FRAME_HEADER_SIZE - header_buf)
      /\ pc' \in {"corrupt", "drain"} /\ out' = out /\ dst' = dst
  BY DEF CompleteHeader
<1>3. at <= at'
  BY <1>1, <1>2
<1>4. CASE pc' = "drain"
  BY <1>1, <1>2, <1>3, <1>4, RisingLater DEF Emitted
<1>5. CASE pc' = "corrupt"
  <2>1. dst \o SubSeq(out, 1, 0) = dst
    <3>1. SubSeq(out, 1, 0) = <<>>
      BY <1>1, SubSeqProperties, EmptySeq, LenProperties
    <3> QED
      BY <1>1, <3>1, EmptyRight
  <2>2. 0 \in 0..Len(out)
    BY <1>1, LenProperties
  <2>3. Rising(dst, at)
    BY <1>1, <2>1, <2>2, RisingPart
  <2>4. Emitted' = dst
    BY <1>2, <1>5 DEF Emitted
  <2> QED
    BY <1>1, <1>3, <2>3, <2>4, RisingLater
<1> QED
  BY <1>2, <1>4, <1>5

(* The steps that hand nothing on and take nothing back.                   *)
LEMMA OrderMoves ==
    ASSUME OrderInv, TypeOK', Emitted' = Emitted, at <= at'
    PROVE  Rising(Emitted', at')
<1>1. at \in Nat /\ at' \in Nat
  BY Stream DEF OrderInv, TypeOK
<1> QED
  BY <1>1, RisingLater DEF OrderInv

LEMMA OrderStep == OrderInv /\ [Next]_vars => OrderInv'
<1> SUFFICES ASSUME OrderInv, [Next]_vars PROVE OrderInv'
  OBVIOUS
<1>0. TypeOK' /\ at \in Nat /\ lim \in Nat /\ at <= lim
  BY TypeStep, Stream DEF OrderInv
<1>1. CASE Read \/ ReadEnds
  <2>1. Emitted' = Emitted /\ at' = at
    BY <1>1 DEF Read, ReadEnds, Emitted
  <2> QED
    BY <1>0, <2>1, OrderMoves DEF OrderInv
<1>2. CASE TopOfBuffer
  BY <1>0, <1>2, OrderTop DEF OrderInv
<1>3. CASE MidBufferXml
  BY <1>0, <1>3, OrderMidXml DEF OrderInv
<1>4. CASE AccumulateHeader
  <2>1. Emitted' = Emitted /\ at' = lim
    BY <1>4 DEF AccumulateHeader, Emitted
  <2> QED
    BY <1>0, <2>1, OrderMoves DEF OrderInv
<1>5. CASE CompleteHeader
  BY <1>0, <1>5, OrderComplete DEF OrderInv
<1>6. CASE Resume \/ DrainDone
  <2>1. Emitted' = Emitted /\ at' = at
    BY <1>6 DEF Resume, DrainDone, Emitted
  <2> QED
    BY <1>0, <2>1, OrderMoves DEF OrderInv
<1>7. CASE DrainPass
  BY <1>0, <1>7, OrderPass DEF OrderInv
<1>8. CASE DrainSkip
  BY <1>0, <1>8, OrderSkip DEF OrderInv
<1>9. CASE DrainEmit
  BY <1>0, <1>9, OrderEmit DEF OrderInv
<1>10. CASE FlushOut
  BY <1>0, <1>10, OrderFlush DEF OrderInv
<1>11. CASE Set \/ UNCHANGED vars
  <2>1. Emitted' = Emitted /\ at' = at
    BY <1>11 DEF Set, vars, Emitted
  <2> QED
    BY <1>0, <2>1, OrderMoves DEF OrderInv
<1> QED
  BY <1>1, <1>2, <1>3, <1>4, <1>5, <1>6, <1>7, <1>8, <1>9, <1>10, <1>11 DEF Next, Process

LEMMA OrderInvInOrder == OrderInv => InOrder
BY Handed DEF OrderInv, Rising, InOrder

(* XML and audio reach the NAA in the order sent, no byte of them twice,   *)
(* wherever reads end: even a proxy that has lost its place keeps them so. *)
THEOREM StreamKeepsOrder == Spec => []InOrder
BY OrderInit, OrderStep, OrderInvInOrder, PTL DEF Spec
=============================================================================
