-------------------------- MODULE FrameProxyProofs --------------------------
(***************************************************************************)
(* TypeOK of FrameProxy is inductive as it stands, XML split or not.  What *)
(* needs an argument is that the buffer position stays in the buffer:      *)
(* find_xml_end, a minimum over the closing tags, returns a position in it *)
(* (XmlEndInRange), and the head of a queue takes no more than is left.    *)
(***************************************************************************)
EXTENDS FrameProxyProperties, SequenceLemmas

LEMMA StreamUnits ==
    ASSUME wire \in Streams
    PROVE  /\ wire \in Seq(Unit) /\ Len(wire) \in Nat
           /\ \A i \in 1..Len(wire) : wire[i] \in Unit
<1>1. wire \in Seq(Unit)
  BY FrameProxyAssumption DEF FrameProxyAssumption, IsStream
<1> QED
  BY <1>1, ElementOfSeq, LenProperties

LEMMA XmlEndInRange ==
    ASSUME NEW lo \in Nat, NEW hi \in Nat, lo < hi
    PROVE  find_xml_end(lo, hi) \in (lo + 1)..hi
<1> DEFINE tags == ClosingTags(lo, hi)
<1>1. CASE tags = {}
  BY <1>1 DEF find_xml_end
<1>2. CASE tags # {}
  <2>1. Min(tags) \in (lo + 2)..hi
    <3>1. tags \subseteq (lo + 2)..hi /\ tags \subseteq Nat
      BY DEF ClosingTags
    <3> QED
      BY <3>1, <1>2, MinOfNaturals
  <2> QED
    BY <2>1, <1>2 DEF find_xml_end
<1> QED
  BY <1>1, <1>2

LEMMA SrcProperties ==
    ASSUME NEW lo \in Nat, NEW hi \in Nat, lo <= hi, Len(wire) \in Nat, hi <= Len(wire)
    PROVE  /\ Src(lo, hi) \in Seq(Element)
           /\ Len(Src(lo, hi)) = hi - lo
           /\ \A k \in 1..(hi - lo) : Src(lo, hi)[k] = [kind |-> "src", at |-> lo + k]
<1>1. \A k \in 1..(hi - lo) : [kind |-> "src", at |-> lo + k] \in Element
  BY DEF Element, Byte
<1>2. hi - lo \in Nat
  OBVIOUS
<1>3. Src(lo, hi) \in Seq(Element)
  BY <1>1, <1>2, IsASeq DEF Src
<1> QED
  BY <1>2, <1>3, LenProperties DEF Src

LEMMA WriteAllType ==
    ASSUME NEW b \in Seq(Element), dst \in Seq(Element), NEW next, WriteAll(b, next)
    PROVE  dst' \in Seq(Element) /\ pc' \in {next, "closed"}
<1>1. CASE dst' = dst \o b /\ pc' = next
  BY <1>1, ConcatProperties
<1>2. ASSUME NEW k \in 0..Len(b), dst' = dst \o SubSeq(b, 1, k), pc' = "closed"
      PROVE  dst' \in Seq(Element)
  <2>1. \A i \in 1..k : b[i] \in Element
    BY ElementOfSeq, LenProperties
  <2>2. SubSeq(b, 1, k) \in Seq(Element)
    BY <2>1, SubSeqProperties, LenProperties
  <2> QED
    BY <1>2, <2>2, ConcatProperties
<1> QED
  BY <1>1, <1>2 DEF WriteAll

LEMMA HandleXmlType ==
    ASSUME TypeOK, NEW lo \in Nat, NEW hi \in Nat, hi <= Len(wire), handle_xml(lo, hi)
    PROVE  /\ bits' \in Nat
           /\ ops' \in Seq(FrameOp)
           /\ header_buf' \in 0..(FRAME_HEADER_SIZE - 1)
           /\ last_meta_key' \in Keys \cup {None}
           /\ last_pos_key' \in Positions \cup {None}
<1> DEFINE starts == {i \in (lo + 1)..hi : IsStart(wire[i])}
<1>1. CASE starts = {}
  BY <1>1 DEF TypeOK, handle_xml, reset_for_start
<1>2. CASE starts # {}
  <2>1. Min(starts) \in 1..Len(wire)
    <3>1. starts \subseteq Nat /\ starts \subseteq 1..Len(wire)
      BY StreamUnits DEF TypeOK
    <3> QED
      BY <3>1, <1>2, MinOfNaturals
  <2>2. wire[Min(starts)].msg.bits \in Nat
    BY <2>1, StreamUnits DEF TypeOK, Unit, Message, XmlMessage, FrameMessage
  <2>3. header_buf' = 0 /\ 0 \in 0..(FRAME_HEADER_SIZE - 1)
    BY <1>2, NaaProtocolAssumption DEF NaaProtocolAssumption, handle_xml, reset_for_start
  <2> QED
    BY <1>2, <2>2, <2>3, EmptySeq DEF handle_xml, reset_for_start
<1> QED
  BY <1>1, <1>2

LEMMA RewrittenType ==
    ASSUME NEW h \in FrameHeader
    PROVE  Rewritten(h) \in FrameHeader
BY NaaProtocolAssumption DEF NaaProtocolAssumption, Rewritten, FrameHeader, Bits

LEMMA ParsedHeaderType ==
    ASSUME TypeOK, NEW i \in 1..Len(wire), NEW h \in parse_header(i)
    PROVE  h \in FrameHeader
<1>1. CASE h \in Garbage
  BY <1>1, FrameProxyAssumption DEF FrameProxyAssumption
<1>2. CASE h \notin Garbage
  <2>1. ~IsXml(wire[i]) /\ h = wire[i].msg.h
    <3>1. FRAME_HEADER_SIZE \in 1..FRAME_HEADER_SIZE /\ i - FRAME_HEADER_SIZE + FRAME_HEADER_SIZE = i
      BY NaaProtocolAssumption, StreamUnits DEF NaaProtocolAssumption, TypeOK
    <3> QED
      BY <1>2, <3>1 DEF parse_header
  <2> QED
    BY <2>1, StreamUnits DEF TypeOK, Unit, Message, XmlMessage, FrameMessage, IsXml
<1> QED
  BY <1>1, <1>2

LEMMA BuildType ==
    ASSUME TypeOK, NEW h \in FrameHeader
    PROVE  build_frame_ops(h) \in Seq(FrameOp)
<1>1. Emit(Hdr(Rewritten(h))) \in FrameOp
  BY RewrittenType DEF Emit, Hdr, FrameOp, Element, Section
<1>2. Pass(h.pcm * bytes_per_sample(bits)) \in FrameOp
  BY DEF Pass, FrameOp, FrameHeader, bytes_per_sample, TypeOK
<1>3. Skip(h.pos) \in FrameOp /\ Skip(h.meta + h.pic) \in FrameOp
  BY DEF Skip, FrameOp, FrameHeader
<1>4. When(NewPos, Emit(Pos(shared.pos))) \in Seq(FrameOp)
  <2>1. NewPos => shared.pos \in Positions
    BY DEF TypeOK, NewPos, Positions
  <2>2. NewPos => Emit(Pos(shared.pos)) \in FrameOp
    BY <2>1 DEF Emit, Pos, FrameOp, Section
  <2> QED
    BY <2>2, EmptySeq DEF When
<1>5. When(content_changed, Emit(Meta(shared.key, bits))) \in Seq(FrameOp)
  <2>1. content_changed => shared.key \in Keys /\ bits \in Nat
    BY DEF TypeOK, content_changed, Keys
  <2>2. content_changed => Emit(Meta(shared.key, bits)) \in FrameOp
    BY <2>1 DEF Emit, Meta, FrameOp, Section
  <2> QED
    BY <2>2, EmptySeq DEF When
<1>6. When(NewPic, Emit(Pic(shared.cover))) \in Seq(FrameOp)
  <2>1. NewPic => shared.cover \in Covers
    BY DEF TypeOK, NewPic, content_changed, Covers
  <2>2. NewPic => Emit(Pic(shared.cover)) \in FrameOp
    BY <2>1 DEF Emit, Pic, FrameOp, Section
  <2> QED
    BY <2>2, EmptySeq DEF When
<1>7. /\ When(h.pos > 0, Skip(h.pos)) \in Seq(FrameOp)
      /\ When(h.meta + h.pic > 0, Skip(h.meta + h.pic)) \in Seq(FrameOp)
  BY <1>3, EmptySeq DEF When
<1>8. <<Emit(Hdr(Rewritten(h))), Pass(h.pcm * bytes_per_sample(bits))>> \in Seq(FrameOp)
  BY <1>1, <1>2
<1> QED
  BY <1>4, <1>5, <1>6, <1>7, <1>8, ConcatProperties DEF build_frame_ops

-----------------------------------------------------------------------------
(* Type correctness: every reachable state of the thread, whatever the     *)
(* stream, the reads and the metadata, is of the types above; in           *)
(* particular a whole header never waits in header_buf.                    *)
LEMMA TypeInit == Init => TypeOK
<1> SUFFICES ASSUME Init PROVE TypeOK
  OBVIOUS
<1>1. Len(wire) \in Nat
  BY StreamUnits DEF Init
<1> QED
  BY <1>1, NaaProtocolAssumption, EmptySeq DEF NaaProtocolAssumption, Init, TypeOK

LEMMA TypeStep ==
    ASSUME TypeOK, [Next]_vars
    PROVE  TypeOK'
<1> USE DEF TypeOK
<1>0. Len(wire) \in Nat /\ at \in Nat /\ lim \in Nat /\ header_buf \in Nat
  BY StreamUnits
<1>1. CASE Read
  BY <1>0, <1>1 DEF Read, Byte, Element
<1>2. CASE ReadEnds
  BY <1>0, <1>2 DEF ReadEnds, Byte, Element
<1>3. CASE TopOfBuffer
  <2>1. CASE ops = <<>> /\ header_buf = 0 /\ XmlOnTop
    <3> DEFINE end == find_xml_end(at, lim)
    <3>1. at < lim
      BY <1>0, <2>1 DEF XmlOnTop
    <3>2. end \in (at + 1)..lim
      BY <1>0, <3>1, XmlEndInRange
    <3>3. /\ handle_xml(at, end)
          /\ WriteAll(Src(at, end), IF end >= lim THEN "read" ELSE "loop")
          /\ at' = end
          /\ out' = IF end >= lim THEN out ELSE <<>>
          /\ UNCHANGED <<wire, lim, shared>>
      BY <1>3, <2>1 DEF TopOfBuffer
    <3> HIDE DEF end, TypeOK
    <3>4. TypeOK => /\ bits' \in Nat /\ ops' \in Seq(FrameOp)
                    /\ header_buf' \in 0..(FRAME_HEADER_SIZE - 1)
                    /\ last_meta_key' \in Keys \cup {None}
                    /\ last_pos_key' \in Positions \cup {None}
      BY <1>0, <3>2, <3>3, HandleXmlType DEF TypeOK
    <3>5. dst' \in Seq(Element) /\ pc' \in {IF end >= lim THEN "read" ELSE "loop", "closed"}
      <4>0. end \in Nat /\ at <= end /\ end <= Len(wire)
        BY <1>0, <3>2 DEF TypeOK
      <4>1. Src(at, end) \in Seq(Element)
        BY <1>0, <4>0, SrcProperties
      <4> QED
        BY <4>1, <3>3, WriteAllType DEF TypeOK
    <3>6. out' \in Seq(Element)
      BY <3>3, EmptySeq DEF TypeOK
    <3> QED
      BY <1>0, <3>2, <3>3, <3>4, <3>5, <3>6 DEF TypeOK, Element, Byte
  <2>2. CASE ~(ops = <<>> /\ header_buf = 0 /\ XmlOnTop)
    BY <1>0, <1>3, <2>2, EmptySeq DEF TopOfBuffer, Element, Byte
  <2> QED
    BY <2>1, <2>2
<1>4. CASE MidBufferXml
  <2> DEFINE end == find_xml_end(at, lim)
  <2>1. end \in (at + 1)..lim
    BY <1>0, <1>4, XmlEndInRange DEF MidBufferXml
  <2>2. /\ handle_xml(at, end)
        /\ WriteAll(out \o Src(at, end), "loop")
        /\ at' = end /\ out' = <<>>
        /\ UNCHANGED <<wire, lim, shared>>
    BY <1>4 DEF MidBufferXml
  <2> HIDE DEF end, TypeOK
  <2>3. /\ bits' \in Nat /\ ops' \in Seq(FrameOp)
        /\ header_buf' \in 0..(FRAME_HEADER_SIZE - 1)
        /\ last_meta_key' \in Keys \cup {None}
        /\ last_pos_key' \in Positions \cup {None}
    BY <1>0, <2>1, <2>2, HandleXmlType DEF TypeOK
  <2>4. dst' \in Seq(Element) /\ pc' \in {"loop", "closed"}
    <3>0. end \in Nat /\ at <= end /\ end <= Len(wire)
      BY <1>0, <2>1 DEF TypeOK
    <3>1. Src(at, end) \in Seq(Element)
      BY <1>0, <3>0, SrcProperties
    <3>2. out \o Src(at, end) \in Seq(Element)
      BY <3>1, ConcatProperties DEF TypeOK
    <3> QED
      BY <3>2, <2>2, WriteAllType DEF TypeOK
  <2> QED
    BY <1>0, <2>1, <2>2, <2>3, <2>4, EmptySeq DEF TypeOK, Element, Byte
<1>5. CASE AccumulateHeader
  BY <1>0, <1>5, NaaProtocolAssumption
     DEF NaaProtocolAssumption, AccumulateHeader, Element, Byte
<1>6. CASE CompleteHeader
  <2>1. at' \in 1..Len(wire) /\ at' <= lim
    BY <1>0, <1>6, NaaProtocolAssumption DEF NaaProtocolAssumption, CompleteHeader
  <2>2. PICK h \in parse_header(at') :
          IF is_corrupt(h)
          THEN /\ pc' = "corrupt"
               /\ UNCHANGED <<ops, last_meta_key, last_pos_key>>
          ELSE /\ pc' = "drain"
               /\ ops' = build_frame_ops(h)
               /\ last_meta_key' = IF content_changed THEN shared.key ELSE last_meta_key
               /\ last_pos_key' = IF NewPos THEN shared.pos ELSE last_pos_key
    BY <1>6 DEF CompleteHeader
  <2>3. build_frame_ops(h) \in Seq(FrameOp)
    BY <2>1, <2>2, ParsedHeaderType, BuildType
  <2>4. /\ last_meta_key' \in Keys \cup {None}
        /\ last_pos_key' \in Positions \cup {None}
    BY <2>2 DEF content_changed, NewPos, Keys, Positions
  <2>5. header_buf' \in 0..(FRAME_HEADER_SIZE - 1)
    BY <1>6, NaaProtocolAssumption DEF NaaProtocolAssumption, CompleteHeader
  <2>6. UNCHANGED <<wire, lim, bits, out, dst, shared>>
    BY <1>6 DEF CompleteHeader
  <2> QED
    BY <1>0, <2>1, <2>2, <2>3, <2>4, <2>5, <2>6 DEF Element, Byte
<1>7. CASE Resume
  BY <1>0, <1>7 DEF Resume, Element, Byte
<1>8. ASSUME NEW n \in Nat, ops # <<>>, ops[1].op \in {"Pass", "Skip"}, ops[1].n = n, Consume(n)
      PROVE  at' \in at..lim /\ ops' \in Seq(FrameOp) /\ pc' \in {pc, "loop"}
  <2>1. at' \in at..lim
    BY <1>0, <1>8 DEF Consume, Least
  <2>2. CASE Least(n, lim - at) = n
    BY <1>8, <2>1, <2>2, HeadTailProperties DEF Consume
  <2>3. CASE Least(n, lim - at) # n
    <3>1. n - Least(n, lim - at) \in Nat
      BY <1>0, <1>8 DEF Least
    <3>2. 1 \in 1..Len(ops) /\ ops[1] \in FrameOp
      BY <1>8, EmptySeq, ElementOfSeq
    <3>3. [ops[1] EXCEPT !.n = n - Least(n, lim - at)] \in FrameOp
      BY <1>8, <3>1, <3>2 DEF FrameOp
    <3>4. [ops EXCEPT ![1].n = n - Least(n, lim - at)] \in Seq(FrameOp)
      BY <3>2, <3>3, ExceptSeq
    <3> QED
      BY <1>8, <2>1, <2>3, <3>4 DEF Consume
  <2> QED
    BY <2>2, <2>3
<1>9. ASSUME ops # <<>>, Head(ops).op \in {"Pass", "Skip"}
      PROVE  Head(ops).n \in Nat /\ Head(ops) = ops[1]
  <2>1. Head(ops) \in FrameOp
    BY <1>9, HeadTailProperties
  <2> QED
    BY <1>9, <2>1 DEF FrameOp
<1>10. CASE DrainPass
  <2>1. at' \in at..lim /\ ops' \in Seq(FrameOp) /\ pc' \in {pc, "loop"}
    BY <1>8, <1>9, <1>10 DEF DrainPass
  <2>0. at' \in Nat /\ at <= at' /\ at' <= Len(wire)
    BY <1>0, <2>1
  <2>2. Src(at, at') \in Seq(Element)
    BY <1>0, <2>0, SrcProperties
  <2>3. out' \in Seq(Element)
    BY <1>10, <2>2, ConcatProperties DEF DrainPass
  <2> QED
    BY <1>0, <1>10, <2>1, <2>3 DEF DrainPass, Element, Byte
<1>11. CASE DrainSkip
  <2>1. at' \in at..lim /\ ops' \in Seq(FrameOp) /\ pc' \in {pc, "loop"}
    BY <1>8, <1>9, <1>11 DEF DrainSkip
  <2> QED
    BY <1>0, <1>11, <2>1 DEF DrainSkip, Element, Byte
<1>12. CASE DrainEmit
  <2>1. Head(ops) \in FrameOp /\ Tail(ops) \in Seq(FrameOp)
    BY <1>12, HeadTailProperties DEF DrainEmit
  <2>2. Head(ops).sec \in Element
    BY <1>12, <2>1 DEF DrainEmit, FrameOp, Element
  <2>3. out' \in Seq(Element)
    BY <1>12, <2>2, AppendProperties DEF DrainEmit
  <2> QED
    BY <1>0, <1>12, <2>1, <2>3 DEF DrainEmit, Element, Byte
<1>13. CASE DrainDone
  BY <1>0, <1>13 DEF DrainDone, Element, Byte
<1>14. CASE FlushOut
  <2>1. dst' \in Seq(Element) /\ pc' \in {"read", "closed"}
    BY <1>14, WriteAllType DEF FlushOut
  <2> QED
    BY <1>0, <1>14, <2>1 DEF FlushOut, Element, Byte
<1>15. CASE Set
  BY <1>0, <1>15 DEF Set, Element, Byte
<1>16. CASE UNCHANGED vars
  BY <1>0, <1>16 DEF vars, Element, Byte
<1> QED
  BY <1>1, <1>2, <1>3, <1>4, <1>5, <1>6, <1>7, <1>10, <1>11, <1>12, <1>13, <1>14, <1>15, <1>16
     DEF Next, Process

-----------------------------------------------------------------------------
(* The state of forward_hqp_to_naa is well typed in every reachable state: *)
(* what is consumed was read, what was read was sent, and the accumulator  *)
(* never holds a whole header.                                             *)
THEOREM TypeCorrect == Spec => []TypeOK
BY TypeInit, TypeStep, PTL DEF Spec
=============================================================================
