------------------------- MODULE FrameProxyNaaProofs -------------------------
(***************************************************************************)
(* What the NAA hears of FrameProxy and comes to display, for every        *)
(* stream, buffer size and interleaving with the Roon thread, as long as   *)
(* no read ends inside an XML message (the inductive invariant IInv of     *)
(* FrameProxySafetyProofs):                                                *)
(*   1. an operation left for the next buffer wants bytes (Wanting), so    *)
(*      nothing is held back at the end of a message;                      *)
(*   2. the latest section of each kind that the NAA is to hear is the one *)
(*      remembered (Held), so the memory is what the NAA displays;         *)
(*   3. the queue is laid out as the header at its front announces (Shape),*)
(*      so every step is one of NaaStream or tells the NAA nothing.        *)
(***************************************************************************)
EXTENDS FrameProxySafetyProofs

-----------------------------------------------------------------------------
(* 1. Nothing is held back.                                                *)

Wanting ==
    Running /\ pc # "drain" /\ ops # <<>> => ops[1].op # "Emit" /\ ops[1].n > 0

LEMMA WantingInit == Init => Wanting
BY DEF Init, Wanting

(* What execute_ops leaves when it returns still wants bytes.              *)
LEMMA ConsumeWanting ==
    ASSUME TypeOK, ops # <<>>, ops[1].op # "Emit", Consume(ops[1].n), pc = "drain",
           pc' # "drain"
    PROVE  ops'[1].op # "Emit" /\ ops'[1].n > 0
<1> DEFINE n == ops[1].n
           take == Least(n, lim - at)
<1>1. /\ ops \in Seq(FrameOp) /\ 1 \in 1..Len(ops) /\ ops[1] \in FrameOp
      /\ at \in Nat /\ lim \in Nat /\ at <= lim
  BY Stream, EmptySeq, ElementOfSeq, LenProperties DEF TypeOK
<1>2. n \in Nat
  BY <1>1 DEF FrameOp
<1>3. take \in Nat /\ take <= n
  BY <1>1, <1>2 DEF Least
<1>4. take # n /\ ops' = [ops EXCEPT ![1].n = n - take]
  BY DEF Consume
<1>5. [ops[1] EXCEPT !.n = n - take] = [op |-> ops[1].op, n |-> n - take]
  BY <1>1 DEF FrameOp
<1>6. ops'[1] = [op |-> ops[1].op, n |-> n - take]
  BY <1>1, <1>4, <1>5
<1> QED
  BY <1>2, <1>3, <1>4, <1>6

LEMMA WantingStep ==
    ASSUME TypeOK, Wanting, [Next]_vars
    PROVE  Wanting'
<1>1. CASE Read \/ ReadEnds \/ Set \/ UNCHANGED vars
  BY <1>1 DEF Read, ReadEnds, Set, vars, Wanting, Running
<1>2. CASE TopOfBuffer \/ MidBufferXml
  BY <1>2 DEF TopOfBuffer, MidBufferXml, handle_xml, reset_for_start, Wanting, Running
<1>3. CASE AccumulateHeader \/ CompleteHeader \/ Resume \/ DrainEmit \/ DrainDone
  BY <1>3 DEF AccumulateHeader, CompleteHeader, Resume, DrainEmit, DrainDone, Wanting, Running
<1>4. CASE DrainPass \/ DrainSkip
  <2>1. ops # <<>> /\ ops[1].op # "Emit" /\ Consume(ops[1].n) /\ pc = "drain"
    BY <1>4 DEF DrainPass, DrainSkip
  <2> QED
    BY <2>1, ConsumeWanting DEF Wanting
<1>5. CASE FlushOut
  BY <1>5 DEF FlushOut, WriteAll, Wanting, Running
<1> QED
  BY <1>1, <1>2, <1>3, <1>4, <1>5 DEF Next, Process

LEMMA WantingHoldsNothing == IInv /\ Wanting => NothingHeldBack
<1> SUFFICES ASSUME IInv, Wanting, pc = "read", Boundary
             PROVE  ops = <<>> /\ header_buf = 0
  BY DEF NothingHeldBack
<1>1. /\ IsStream(wire) /\ Len(wire) \in Nat /\ at \in Nat /\ at <= Len(wire)
      /\ FRAME_HEADER_SIZE \in Nat /\ header_buf \in 0..(FRAME_HEADER_SIZE - 1)
      /\ ops \in Seq(FrameOp)
  BY Stream, NaaProtocolAssumption DEF NaaProtocolAssumption, IInv, TypeOK
<1>2. Running /\ Placed(wire, bits, at, lim, ops, header_buf)
  BY DEF Running, IInv
<1>3. at > 0 => /\ at \in 1..Len(wire) /\ wire[at].msg \in Message
                /\ wire[at].off \in Nat /\ Size(wire[at].msg) \in Nat
                /\ wire[at].off = Size(wire[at].msg)
  <2> SUFFICES ASSUME at > 0
               PROVE  /\ at \in 1..Len(wire) /\ wire[at].msg \in Message
                      /\ wire[at].off \in Nat /\ Size(wire[at].msg) \in Nat
                      /\ wire[at].off = Size(wire[at].msg)
    OBVIOUS
  <2>1. at \in 1..Len(wire)
    BY <1>1
  <2> QED
    BY <1>1, <2>1, InMessage, SizeType DEF Boundary
<1>4. ops = <<>>
  <2> SUFFICES ASSUME ops # <<>> PROVE FALSE
    OBVIOUS
  <2>1. at > 0 /\ Plan(wire, ops, at, EndOf(wire, at))
    BY <1>2 DEF Placed
  <2>2. EndOf(wire, at) = at
    BY <1>1, <1>3, <2>1 DEF EndOf
  <2>3. PICK m \in Nat : m <= at /\ Takes(wire, ops[1], at, m)
    BY <1>1, <2>1, <2>2, PlanHead
  <2>4. ops[1] \in FrameOp /\ ops[1].op # "Emit" /\ ops[1].n > 0
    BY <1>1, <1>2, EmptySeq, ElementOfSeq, LenProperties DEF Wanting
  <2> QED
    BY <1>1, <2>3, <2>4 DEF Takes, FrameOp
<1>5. header_buf = 0
  <2> SUFFICES ASSUME header_buf # 0 PROVE FALSE
    OBVIOUS
  <2>1. at > 0 /\ IsHeader(wire[at]) /\ wire[at].off = header_buf
    BY <1>2, <1>4 DEF Placed
  <2>2. Size(wire[at].msg) >= FRAME_HEADER_SIZE
    BY <1>1, <1>3, <2>1, SizeType DEF IsHeader
  <2> QED
    BY <1>1, <1>3, <2>1, <2>2
<1> QED
  BY <1>4, <1>5

(* Whenever the thread blocks in read behind the last byte of a message,   *)
(* everything that follows from it has been written: the sections Roon's   *)
(* metadata adds to a frame never wait for the next one.                   *)
THEOREM NothingWaits ==
    ASSUME SplitXml = FALSE
    PROVE  Spec => []NothingHeldBack
<1>1. Spec => []Wanting
  <2>1. Wanting /\ TypeOK /\ [Next]_vars => Wanting'
    BY WantingStep
  <2> QED
    BY WantingInit, <2>1, TypeCorrect, PTL DEF Spec
<1> QED
  BY <1>1, Safety, WantingHoldsNothing, PTL

-----------------------------------------------------------------------------
(* 2. What the NAA is to hear, and what each step adds to it.              *)

Said == Section \cup {Silence}
Heard == Byte \cup Said

LEMMA Elementary ==
    /\ Element \subseteq Heard /\ Said \subseteq Heard /\ Section \subseteq Said
    /\ \A e \in Said : e.kind # "src" /\ e \notin Byte
    /\ \A e \in Byte : e.kind = "src"
BY DEF Said, Heard, Element, Byte, Section, Silence

(* What a queue of operations says.                                        *)
Say(q) == [i \in DOMAIN q |-> IF q[i].op = "Emit" THEN q[i].sec ELSE Silence]

LEMMA SayQueued == Queued = Say(ops) /\ Queued' = Say(ops')
BY DEF Say, Queued

LEMMA SayType ==
    ASSUME NEW q \in Seq(FrameOp)
    PROVE  /\ Say(q) \in Seq(Said) /\ Say(q) \in Seq(Heard)
           /\ Len(q) \in Nat /\ Len(Say(q)) = Len(q)
           /\ DOMAIN Say(q) = 1..Len(q) /\ DOMAIN q = 1..Len(q)
           /\ \A i \in 1..Len(q) : Say(q)[i] = IF q[i].op = "Emit" THEN q[i].sec ELSE Silence
<1>1. Len(q) \in Nat /\ DOMAIN q = 1..Len(q)
  BY LenProperties
<1>2. \A i \in 1..Len(q) : q[i] \in FrameOp
  BY <1>1, ElementOfSeq
<1>3. \A i \in 1..Len(q) : (IF q[i].op = "Emit" THEN q[i].sec ELSE Silence) \in Said
  BY <1>2 DEF FrameOp, Said
<1>4. Say(q) \in Seq(Said)
  BY <1>1, <1>3, IsASeq DEF Say
<1>5. Say(q) \in Seq(Heard)
  BY <1>4, Elementary, SeqMonotonic
<1>6. Len(Say(q)) = Len(q)
  BY <1>1, <1>4, LenProperties DEF Say
<1> QED
  BY <1>1, <1>4, <1>5, <1>6 DEF Say

(* The first operation is done, or done in part: what is queued behind it  *)
(* stays as it was.                                                        *)
LEMMA SayTail ==
    ASSUME NEW q \in Seq(FrameOp), q # <<>>
    PROVE  /\ Say(q) # <<>> /\ Say(Tail(q)) = Tail(Say(q))
           /\ Head(Say(q)) = IF q[1].op = "Emit" THEN q[1].sec ELSE Silence
<1>1. /\ Tail(q) \in Seq(FrameOp) /\ Len(q) \in Nat /\ Len(q) # 0
      /\ Len(Tail(q)) = Len(q) - 1 /\ \A i \in 1..Len(Tail(q)) : Tail(q)[i] = q[i + 1]
  BY HeadTailProperties, EmptySeq, LenProperties
<1>2. /\ Say(q) \in Seq(Said) /\ Len(Say(q)) = Len(q)
      /\ \A i \in 1..Len(q) : Say(q)[i] = IF q[i].op = "Emit" THEN q[i].sec ELSE Silence
  BY SayType
<1>3. /\ Say(Tail(q)) \in Seq(Said) /\ Len(Say(Tail(q))) = Len(q) - 1
      /\ \A i \in 1..(Len(q) - 1) : Say(Tail(q))[i] =
            IF Tail(q)[i].op = "Emit" THEN Tail(q)[i].sec ELSE Silence
  BY <1>1, SayType
<1>4. Say(q) # <<>>
  BY <1>1, <1>2, EmptySeq
<1>5. /\ Tail(Say(q)) \in Seq(Said) /\ Len(Tail(Say(q))) = Len(q) - 1
      /\ \A i \in 1..(Len(q) - 1) : Tail(Say(q))[i] = Say(q)[i + 1]
  BY <1>2, <1>4, HeadTailProperties
<1>6. \A i \in 1..(Len(q) - 1) : Say(Tail(q))[i] = Tail(Say(q))[i]
  BY <1>1, <1>2, <1>3, <1>5
<1>7. Say(Tail(q)) = Tail(Say(q))
  BY <1>3, <1>5, <1>6, SeqEqual
<1>8. Head(Say(q)) = Say(q)[1] /\ 1 \in 1..Len(q)
  BY <1>1
<1> QED
  BY <1>2, <1>4, <1>7, <1>8

LEMMA SayExcept ==
    ASSUME NEW q \in Seq(FrameOp), q # <<>>, q[1].op # "Emit", NEW n \in Nat
    PROVE  Say([q EXCEPT ![1].n = n]) = Say(q)
<1> DEFINE r == [q EXCEPT ![1].n = n]
<1>1. Len(q) \in Nat /\ 1 \in 1..Len(q) /\ DOMAIN q = 1..Len(q) /\ q[1] \in FrameOp
  BY EmptySeq, ElementOfSeq, LenProperties
<1>2. [q[1] EXCEPT !.n = n].op = q[1].op
  BY <1>1 DEF FrameOp
<1>3. DOMAIN r = DOMAIN q /\ \A i \in DOMAIN q : r[i] = IF i = 1 THEN [q[1] EXCEPT !.n = n] ELSE q[i]
  BY <1>1
<1> HIDE DEF r
<1>4. \A i \in DOMAIN q : Say(r)[i] = Say(q)[i]
  BY <1>1, <1>2, <1>3 DEF Say
<1>5. Say(r) = Say(q)
  BY <1>3, <1>4 DEF Say
<1> QED
  BY <1>5 DEF r

LEMMA HearingType ==
    ASSUME TypeOK
    PROVE  /\ ops \in Seq(FrameOp) /\ Emitted \in Seq(Heard)
           /\ Queued = Say(ops) /\ Queued \in Seq(Heard)
           /\ WillHear \in Seq(Heard)
<1>1. Emitted \in Seq(Heard)
  BY EmittedType, Elementary, SeqMonotonic
<1>2. ops \in Seq(FrameOp)
  BY DEF TypeOK
<1>3. Queued = Say(ops) /\ Queued \in Seq(Heard)
  BY <1>2, SayQueued, SayType
<1> QED
  BY <1>1, <1>2, <1>3, ConcatProperties DEF WillHear

(* The operations that take bytes of the stream: none of these is XML.     *)
LEMMA ConsumeUnits ==
    ASSUME IInv, TypeOK', Running, ops # <<>>, ops[1].op # "Emit", Consume(ops[1].n)
    PROVE  /\ at' \in Nat /\ at <= at' /\ at' <= lim
           /\ \A r \in (at + 1)..at' : ~IsXml(wire[r]) /\ r \in 1..Len(wire)
<1>1. /\ IsStream(wire) /\ Len(wire) \in Nat /\ at \in Nat /\ lim \in Nat
      /\ lim <= Len(wire) /\ at <= lim /\ ops \in Seq(FrameOp)
  BY Stream DEF IInv, TypeOK
<1>2. /\ at \in 1..Len(wire) /\ ~IsXml(wire[at]) /\ Plan(wire, ops, at, EndOf(wire, at))
  BY <1>1 DEF IInv, Placed
<1>3. EndOf(wire, at) \in Nat /\ at <= EndOf(wire, at)
  <2>1. wire[at].off <= Size(wire[at].msg) /\ wire[at].off \in Nat /\ Size(wire[at].msg) \in Nat
    BY <1>1, <1>2, InMessage, SizeType
  <2>2. at <= EndOf(wire, at)
    BY <1>1, <2>1 DEF EndOf
  <2> QED
    BY <1>1, <1>2, <2>2, SameFrame
<1>4. PICK m \in Nat : m <= EndOf(wire, at) /\ Takes(wire, ops[1], at, m)
  BY <1>1, <1>2, <1>3, PlanHead
<1>5. ops[1].n \in Nat /\ m = at + ops[1].n
  <2>1. ops[1] \in FrameOp
    BY <1>1, EmptySeq, ElementOfSeq
  <2> QED
    BY <1>4, <2>1 DEF FrameOp, Takes
<1>6. at' \in Nat /\ at <= at' /\ at' <= lim /\ at' <= m
  BY <1>1, <1>5 DEF Consume, Least
<1>7. ASSUME NEW r \in (at + 1)..at' PROVE ~IsXml(wire[r]) /\ r \in 1..Len(wire)
  <2>1. r \in Nat /\ at <= r /\ r <= EndOf(wire, at) /\ r <= lim
    BY <1>1, <1>3, <1>4, <1>6
  <2>2. wire[r].msg = wire[at].msg
    BY <1>1, <1>2, <2>1, SameFrame
  <2> QED
    BY <1>1, <1>2, <2>1, <2>2 DEF IsXml
<1> QED
  BY <1>6, <1>7

(* What it still says after that.                                          *)
LEMMA ConsumeSays ==
    ASSUME TypeOK, ops # <<>>, ops[1].op # "Emit", Consume(ops[1].n)
    PROVE  Queued' = Queued \/ (Queued # <<>> /\ Head(Queued) = Silence /\ Queued' = Tail(Queued))
<1>1. /\ ops \in Seq(FrameOp) /\ ops[1] \in FrameOp /\ at \in Nat /\ lim \in Nat /\ at <= lim
  BY Stream, EmptySeq, ElementOfSeq, LenProperties DEF TypeOK
<1> DEFINE n == ops[1].n
           take == Least(n, lim - at)
<1>2. n \in Nat /\ n - take \in Nat
  BY <1>1 DEF FrameOp, Least
<1>3. CASE take = n
  <2>1. ops' = Tail(ops)
    BY <1>3 DEF Consume
  <2> QED
    BY <1>1, <2>1, SayTail, SayQueued
<1>4. CASE take # n
  <2>1. ops' = [ops EXCEPT ![1].n = n - take]
    BY <1>4 DEF Consume
  <2>2. Say([ops EXCEPT ![1].n = n - take]) = Say(ops)
    BY <1>1, <1>2, SayExcept
  <2> QED
    BY <2>1, <2>2, SayQueued
<1> QED
  BY <1>3, <1>4

(* Bytes that go out: all of them, or a first part and the thread ends.    *)
LEMMA WriteCut ==
    ASSUME dst \in Seq(Element), NEW b \in Seq(Element), NEW next, WriteAll(b, next)
    PROVE  \/ dst' = dst \o b /\ pc' = next
           \/ pc' = "closed" /\ \E n \in 0..Len(dst \o b) : dst' = SubSeq(dst \o b, 1, n)
<1> SUFFICES ASSUME NEW k \in 0..Len(b), dst' = dst \o SubSeq(b, 1, k), pc' = "closed"
             PROVE  \E n \in 0..Len(dst \o b) : dst' = SubSeq(dst \o b, 1, n)
  BY DEF WriteAll
<1> DEFINE u == dst \o b
           n == Len(dst) + k
           v == SubSeq(u, 1, n)
           s == SubSeq(b, 1, k)
<1>1. /\ Len(dst) \in Nat /\ Len(b) \in Nat /\ u \in Seq(Element)
      /\ Len(u) = Len(dst) + Len(b)
      /\ \A i \in 1..(Len(dst) + Len(b)) : u[i] = IF i <= Len(dst) THEN dst[i] ELSE b[i - Len(dst)]
  BY LenProperties, ConcatProperties
<1>2. s \in Seq(Element) /\ Len(s) = k /\ \A i \in 1..k : s[i] = b[i]
  <2>1. \A i \in 1..k : b[i] \in Element
    BY <1>1, ElementOfSeq
  <2> QED
    BY <2>1, <1>1, SubSeqProperties
<1>3. /\ dst' \in Seq(Element) /\ Len(dst') = n
      /\ \A i \in 1..n : dst'[i] = IF i <= Len(dst) THEN dst[i] ELSE s[i - Len(dst)]
  BY <1>2, ConcatProperties
<1> HIDE DEF u, s
<1>4. n \in 0..Len(u) /\ \A i \in 1..n : i \in 1..Len(u)
  BY <1>1
<1>5. v \in Seq(Element) /\ Len(v) = n /\ \A i \in 1..n : v[i] = u[i]
  <2>1. \A i \in 1..n : u[i] \in Element
    BY <1>1, <1>4, ElementOfSeq
  <2>2. n \in Int /\ 1 \in Int /\ n - 1 + 1 = n /\ (IF 1 <= n THEN n - 1 + 1 ELSE 0) = n
    BY <1>4
  <2> HIDE DEF n
  <2> QED
    BY <2>1, <2>2, SubSeqProperties
<1>6. \A i \in 1..n : dst'[i] = v[i]
  <2> TAKE i \in 1..n
  <2>1. CASE i <= Len(dst)
    BY <1>1, <1>3, <1>4, <1>5, <2>1
  <2>2. CASE ~(i <= Len(dst))
    <3>1. i - Len(dst) \in 1..k
      BY <1>1, <2>2
    <3> QED
      BY <1>1, <1>2, <1>3, <1>4, <1>5, <2>2, <3>1
  <2> QED
    BY <2>1, <2>2
<1> HIDE DEF n, v
<1>7. dst' = v
  BY <1>3, <1>5, <1>6, SeqEqual
<1> QED
  BY <1>4, <1>7 DEF u, v

(* A step that handles an XML message, at the top of the buffer or behind  *)
(* a frame.                                                                *)
HandlesXml ==
    \/ MidBufferXml
    \/ TopOfBuffer /\ ops = <<>> /\ header_buf = 0 /\ XmlOnTop

LEMMA XmlAhead ==
    ASSUME IInv, HandlesXml
    PROVE  Running /\ ops = <<>> /\ header_buf = 0 /\ at < lim /\ IsXml(wire[at + 1])
<1>1. /\ IsStream(wire) /\ Len(wire) \in Nat /\ at \in Nat /\ lim \in Nat /\ lim <= Len(wire)
  BY Stream DEF IInv
<1>2. CASE MidBufferXml
  <2>1. pc = "loop" /\ Running /\ ops = <<>> /\ header_buf = 0 /\ at < lim /\ IsLt(wire[at + 1])
    BY <1>2 DEF MidBufferXml, AtXml, Running
  <2>2. wire[at + 1].off = 1
    BY <1>1, <2>1, NextUnit DEF IInv, Placed
  <2> QED
    BY <2>1, <2>2, NaaProtocolAssumption DEF IsLt, NaaProtocolAssumption
<1>3. CASE TopOfBuffer /\ ops = <<>> /\ header_buf = 0 /\ XmlOnTop
  <2>1. pc = "top" /\ Running
    BY <1>3 DEF TopOfBuffer, Running
  <2> QED
    BY <1>1, <1>3, <2>1, XmlOnTopIsXml DEF IInv, Placed
<1> QED
  BY <1>2, <1>3 DEF HandlesXml

(* All of the message goes out behind what was handed on, or a first part  *)
(* of that and the connection is closed.                                   *)
LEMMA XmlWritten ==
    ASSUME IInv, TypeOK', HandlesXml
    PROVE  LET end == find_xml_end(at, lim)
               all == Emitted \o Src(at, end)
           IN  /\ end \in Nat /\ at < end /\ end <= lim
               /\ handle_xml(at, end) /\ at' = end /\ wire' = wire /\ ops' = <<>>
               /\ Src(at, end) \in Seq(Element)
               /\ \/ Running' /\ Emitted' = all
                  \/ ~Running' /\ \E n \in 0..Len(all) : Emitted' = SubSeq(all, 1, n)
<1> DEFINE end == find_xml_end(at, lim)
           all == Emitted \o Src(at, end)
<1>1. /\ Len(wire) \in Nat /\ at \in Nat /\ lim \in Nat /\ lim <= Len(wire)
      /\ dst \in Seq(Element) /\ out \in Seq(Element)
      /\ Running /\ ops = <<>> /\ header_buf = 0 /\ at < lim /\ IsXml(wire[at + 1])
  BY Stream, XmlAhead DEF IInv, TypeOK
<1>2. /\ handle_xml(at, end) /\ at' = end /\ UNCHANGED <<wire, lim>>
      /\ \/ /\ pc = "top" /\ WriteAll(Src(at, end), IF end >= lim THEN "read" ELSE "loop")
            /\ out' = IF end >= lim THEN out ELSE <<>>
         \/ pc = "loop" /\ WriteAll(out \o Src(at, end), "loop") /\ out' = <<>>
  BY DEF HandlesXml, MidBufferXml, TopOfBuffer
<1>3. end \in (at + 1)..lim /\ ops' = <<>>
  <2>1. ops' = <<>>
    BY <1>1, <1>2 DEF handle_xml, reset_for_start
  <2> QED
    BY <1>1, <1>2, <2>1, XmlStep
<1> HIDE DEF end
<1>4. end \in Nat /\ at < end /\ end <= lim /\ end <= Len(wire) /\ at <= end
  BY <1>1, <1>3
<1>5. Src(at, end) \in Seq(Element) /\ out \o Src(at, end) \in Seq(Element)
  BY <1>1, <1>4, SrcProperties, ConcatProperties
<1>6. /\ pc' \in {"read", "loop", "closed"}
      /\ \/ Running' /\ dst' = all
         \/ pc' = "closed" /\ \E n \in 0..Len(all) : dst' = SubSeq(all, 1, n)
      /\ pc' = "loop" => out' = <<>>
  <2>1. CASE pc = "top"
    <3>1. all = dst \o Src(at, end)
      BY <2>1 DEF Emitted
    <3>2. /\ WriteAll(Src(at, end), IF end >= lim THEN "read" ELSE "loop")
          /\ out' = IF end >= lim THEN out ELSE <<>>
      BY <1>2, <2>1
    <3>3. \/ dst' = all /\ pc' = IF end >= lim THEN "read" ELSE "loop"
          \/ pc' = "closed" /\ \E n \in 0..Len(all) : dst' = SubSeq(all, 1, n)
      BY <1>1, <1>5, <3>1, <3>2, WriteCut
    <3> HIDE DEF all
    <3> QED
      BY <3>2, <3>3 DEF Running
  <2>2. CASE pc = "loop"
    <3>0. Emitted = dst \o out
      BY <2>2 DEF Emitted
    <3>1. all = dst \o (out \o Src(at, end))
      BY <1>1, <1>5, <3>0, ConcatAssociative
    <3>2. WriteAll(out \o Src(at, end), "loop") /\ out' = <<>>
      BY <1>2, <2>2
    <3>3. \/ dst' = all /\ pc' = "loop"
          \/ pc' = "closed" /\ \E n \in 0..Len(all) : dst' = SubSeq(all, 1, n)
      BY <1>1, <1>5, <3>1, <3>2, WriteCut
    <3> HIDE DEF all
    <3> QED
      BY <3>2, <3>3 DEF Running
  <2> QED
    BY <1>2, <2>1, <2>2
<1>7. Emitted' = dst'
  <2>1. dst' \o <<>> = dst'
    BY EmptyRight DEF TypeOK
  <2> QED
    BY <1>6, <2>1 DEF Emitted
<1> HIDE DEF all
<1>8. \/ Running' /\ Emitted' = all
      \/ ~Running' /\ \E n \in 0..Len(all) : Emitted' = SubSeq(all, 1, n)
  BY <1>6, <1>7 DEF Running
<1> QED
  BY <1>2, <1>3, <1>4, <1>5, <1>8 DEF end, all

LEMMA HeadTail ==
    ASSUME NEW S, NEW s \in Seq(S), s # <<>>
    PROVE  <<Head(s)>> \in Seq(S) /\ Tail(s) \in Seq(S) /\ <<Head(s)>> \o Tail(s) = s
<1> DEFINE h == <<Head(s)>>
           u == h \o Tail(s)
<1>1. /\ Len(s) \in Nat /\ Len(s) # 0 /\ Head(s) = s[1]
      /\ Head(s) \in S /\ Tail(s) \in Seq(S) /\ Len(Tail(s)) = Len(s) - 1
      /\ \A i \in 1..(Len(s) - 1) : Tail(s)[i] = s[i + 1]
  BY HeadTailProperties, EmptySeq, LenProperties
<1>2. h \in Seq(S) /\ Len(h) = 1 /\ h[1] = s[1]
  BY <1>1
<1> HIDE DEF h
<1>3. /\ u \in Seq(S) /\ Len(u) = 1 + (Len(s) - 1)
      /\ \A i \in 1..(1 + (Len(s) - 1)) : u[i] = IF i <= 1 THEN h[i] ELSE Tail(s)[i - 1]
  <2>0. h \in Seq(S) /\ Tail(s) \in Seq(S)
    BY <1>1, <1>2
  <2>1. /\ u \in Seq(S) /\ Len(u) = Len(h) + Len(Tail(s))
        /\ \A i \in 1..(Len(h) + Len(Tail(s))) :
              u[i] = IF i <= Len(h) THEN h[i] ELSE Tail(s)[i - Len(h)]
    BY <2>0, ConcatProperties
  <2> HIDE DEF u
  <2> QED
    BY <1>1, <1>2, <2>1
<1> HIDE DEF u
<1>4. Len(u) = Len(s)
  BY <1>1, <1>3
<1>5. \A i \in 1..Len(u) : u[i] = s[i]
  <2> TAKE i \in 1..Len(u)
  <2>1. CASE i = 1
    BY <1>1, <1>2, <1>3, <2>1
  <2>2. CASE i # 1
    <3>1. i - 1 \in 1..(Len(s) - 1) /\ ~(i <= 1) /\ i \in 1..(1 + (Len(s) - 1)) /\ i - 1 + 1 = i
      BY <1>1, <1>3, <2>2
    <3>2. Tail(s)[i - 1] = s[i - 1 + 1]
      BY <1>1, <3>1
    <3> QED
      BY <1>3, <3>1, <3>2
  <2> QED
    BY <2>1, <2>2
<1>6. u = s
  BY <1>3, <1>4, <1>5, SeqEqual
<1> QED
  BY <1>1, <1>2, <1>6 DEF h, u

(* A step of execute_ops hands on bytes that are no XML, or the section it *)
(* was to hand on.                                                         *)
LEMMA DrainHears ==
    ASSUME IInv, TypeOK', DrainPass \/ DrainSkip \/ DrainEmit
    PROVE  /\ Running /\ wire' = wire
           /\ \/ WillHear' = WillHear
              \/ \E x \in Seq(Byte), r \in Seq(Heard) :
                   /\ \A i \in DOMAIN x : ~IsXml(wire[x[i].at])
                   /\ WillHear' = (Emitted \o x) \o r
                   /\ \/ r = Queued
                      \/ Queued # <<>> /\ Head(Queued) = Silence /\ r = Tail(Queued)
<1>1. /\ dst \in Seq(Element) /\ out \in Seq(Element) /\ Emitted \in Seq(Heard)
      /\ Queued \in Seq(Heard) /\ Queued = Say(ops) /\ ops \in Seq(FrameOp)
      /\ WillHear = Emitted \o Queued /\ Len(wire) \in Nat /\ at \in Nat
      /\ Emitted \in Seq(Element)
  BY HearingType, EmittedType, Stream DEF IInv, TypeOK, WillHear
<1>2. /\ pc = "drain" /\ Running /\ wire' = wire /\ ops # <<>> /\ dst' = dst
      /\ Emitted = dst \o out
  BY DEF DrainPass, DrainSkip, DrainEmit, Running, Emitted
<1>3. CASE DrainPass \/ DrainSkip
  <2>1. /\ ops[1].op # "Emit" /\ Consume(ops[1].n)
        /\ out' = out \o Src(at, at') \/ out' = out
    BY <1>3 DEF DrainPass, DrainSkip
  <2>2. /\ at' \in Nat /\ at <= at' /\ at' <= Len(wire)
        /\ \A r \in (at + 1)..at' : ~IsXml(wire[r]) /\ r \in 1..Len(wire)
    BY <1>1, <1>2, <2>1, ConsumeUnits, Stream DEF IInv
  <2>3. \/ Queued' = Queued
        \/ Queued # <<>> /\ Head(Queued) = Silence /\ Queued' = Tail(Queued)
    BY <1>2, <2>1, ConsumeSays DEF IInv
  <2>4. Queued' \in Seq(Heard)
    BY <1>1, <2>3, HeadTailProperties
  <2>5. PICK x : x \in Seq(Byte) /\ x \in Seq(Element) /\ out' = out \o x
                 /\ \A i \in DOMAIN x : ~IsXml(wire[x[i].at])
    <3>1. CASE out' = out
      <4>1. <<>> \in Seq(Byte) /\ <<>> \in Seq(Element) /\ out \o <<>> = out /\ DOMAIN <<>> = {}
        BY <1>1, EmptySeq, EmptyRight
      <4> QED
        BY <3>1, <4>1
    <3>2. CASE out' = out \o Src(at, at')
      <4>0. PICK to : to = at'
        OBVIOUS
      <4> DEFINE x == Src(at, to)
      <4>1. /\ to - at \in Nat
            /\ \A k \in 1..(to - at) :
                 /\ [kind |-> "src", at |-> at + k] \in Byte
                 /\ ~IsXml(wire[at + k])
        <5>0. to \in Nat /\ at <= to /\ \A r \in (at + 1)..to : ~IsXml(wire[r]) /\ r \in 1..Len(wire)
          BY <2>2, <4>0
        <5>1. to - at \in Nat /\ \A k \in 1..(to - at) : at + k \in (at + 1)..to
          BY <1>1, <5>0
        <5> QED
          BY <5>0, <5>1 DEF Byte
      <4>2. x \in Seq(Byte)
        BY <4>1, IsASeq DEF Src
      <4>3. x \in Seq(Element)
        BY <4>2, SeqMonotonic DEF Element
      <4>4. \A i \in DOMAIN x : ~IsXml(wire[x[i].at])
        BY <4>1 DEF Src
      <4> QED
        BY <3>2, <4>0, <4>2, <4>3, <4>4
    <3> QED
      BY <2>1, <3>1, <3>2
  <2>6. Emitted' = Emitted \o x
    <3>1. Emitted' = dst \o (out \o x)
      BY <1>2, <2>1, <2>5 DEF Emitted, Consume
    <3>2. (dst \o out) \o x = dst \o (out \o x)
      BY <1>1, <2>5, ConcatAssociative
    <3> QED
      BY <1>2, <3>1, <3>2
  <2>7. WillHear' = (Emitted \o x) \o Queued'
    BY <2>6 DEF WillHear
  <2>8. PICK r : r = Queued'
    OBVIOUS
  <2> QED
    BY <1>2, <2>3, <2>4, <2>5, <2>7, <2>8
<1>4. CASE DrainEmit
  <2>1. /\ ops[1].op = "Emit" /\ out' = Append(out, ops[1].sec) /\ ops' = Tail(ops) /\ pc' = pc
    BY <1>4 DEF DrainEmit
  <2>2. /\ Queued # <<>> /\ Queued' = Tail(Queued) /\ Head(Queued) = ops[1].sec
    BY <1>1, <1>2, <2>1, SayTail, SayQueued
  <2>3. ops[1].sec \in Element
    <3>1. ops[1] \in FrameOp
      BY <1>1, <1>2, EmptySeq, ElementOfSeq
    <3> QED
      BY <2>1, <3>1 DEF FrameOp, Element
  <2>4. Emitted' = Emitted \o <<ops[1].sec>>
    <3>1. Emitted' = dst \o (out \o <<ops[1].sec>>)
      BY <1>1, <1>2, <2>1, <2>3, AppendIsConcat DEF Emitted
    <3>2. <<ops[1].sec>> \in Seq(Element)
      BY <2>3, WhenSeq
    <3> QED
      BY <1>1, <1>2, <3>1, <3>2, ConcatAssociative
  <2>5. /\ <<Head(Queued)>> \in Seq(Heard) /\ Tail(Queued) \in Seq(Heard)
        /\ <<Head(Queued)>> \o Tail(Queued) = Queued
    BY <1>1, <2>2, HeadTail
  <2>6. WillHear' = (Emitted \o <<Head(Queued)>>) \o Tail(Queued)
    BY <2>2, <2>4 DEF WillHear
  <2>7. WillHear' = WillHear
    BY <1>1, <2>5, <2>6, ConcatAssociative
  <2> QED
    BY <1>2, <2>7
<1> QED
  BY <1>3, <1>4

-----------------------------------------------------------------------------
(* The inductive invariant: the latest of a section's kind and of the      *)
(* start messages that the NAA is to hear is the section remembered, or a  *)
(* start message and nothing is remembered.                                *)

Starts == {e \in Byte : IsStart(wire[e.at])}

MetaOrStart == [kind : {"meta"}, key : Keys, bits : Nat] \cup Starts
MetaHeld ==
    {e \in MetaOrStart : IF e.kind = "meta" THEN e.key = last_meta_key /\ e.bits = bits
                                            ELSE last_meta_key = None}
MetaDue == Due(WillHear, MetaOrStart, MetaHeld, last_meta_key, {None})

PosOrStart == [kind : {"pos"}, pos : Positions] \cup Starts
PosHeld ==
    {e \in PosOrStart : IF e.kind = "pos" THEN e.pos = last_pos_key ELSE last_pos_key = None}
PosDue == Due(WillHear, PosOrStart, PosHeld, last_pos_key, {None})

Held == Running => MetaDue /\ PosDue

LEMMA SpokenSets ==
    /\ Silence \notin MetaOrStart /\ Silence \notin PosOrStart
    /\ MetaOrStart \cap Byte = Starts /\ PosOrStart \cap Byte = Starts
    /\ Starts \subseteq MetaOrStart /\ Starts \subseteq PosOrStart
    /\ \A e \in Starts : e.kind = "src"
BY DEF MetaOrStart, PosOrStart, Starts, Silence, Byte

LEMMA HeldInit == Init => Held
<1> SUFFICES ASSUME Init PROVE MetaDue /\ PosDue
  BY DEF Held
<1>1. Emitted = <<>> /\ Queued = <<>> /\ last_meta_key = None /\ last_pos_key = None
  BY DEF Init, Emitted, Queued
<1>2. WillHear = <<>> /\ DOMAIN <<>> = {}
  BY <1>1, EmptySeq, EmptyRight DEF WillHear
<1> QED
  BY <1>1, <1>2 DEF MetaDue, PosDue, Due, LatestIn, NoneOf

(* The steps that tell the NAA nothing.                                    *)
LEMMA HeldKept ==
    ASSUME Held, Running' => Running /\ WillHear' = WillHear,
           UNCHANGED <<wire, bits, last_meta_key, last_pos_key>>
    PROVE  Held'
BY DEF Held, MetaDue, PosDue, MetaOrStart, MetaHeld, PosOrStart, PosHeld, Starts, Byte

LEMMA DrainDue ==
    ASSUME IInv, TypeOK', DrainPass \/ DrainSkip \/ DrainEmit,
           NEW M, NEW G, NEW now, NEW Good,
           Silence \notin M, M \cap Byte = Starts, Due(WillHear, M, G, now, Good)
    PROVE  Due(WillHear', M, G, now, Good)
<1>1. CASE WillHear' = WillHear
  BY <1>1
<1>2. ASSUME NEW x \in Seq(Byte), NEW r \in Seq(Heard),
             \A i \in DOMAIN x : ~IsXml(wire[x[i].at]),
             WillHear' = (Emitted \o x) \o r,
             r = Queued \/ (Queued # <<>> /\ Head(Queued) = Silence /\ r = Tail(Queued))
      PROVE  Due(WillHear', M, G, now, Good)
  <2>1. Emitted \in Seq(Heard) /\ Queued \in Seq(Heard) /\ WillHear = Emitted \o Queued
    BY HearingType DEF IInv, WillHear
  <2>2. x \in Seq(Heard)
    BY SeqMonotonic DEF Heard
  <2>3. NoneOf(x, M)
    <3> SUFFICES ASSUME NEW i \in DOMAIN x PROVE x[i] \notin M
      BY DEF NoneOf
    <3>1. x[i] \in Byte
      BY ElementOfSeq, LenProperties
    <3>2. x[i] \notin Starts
      BY <1>2 DEF Starts, IsStart
    <3> QED
      BY <3>1, <3>2
  <2>4. Due((Emitted \o x) \o r, M, G, now, Good)
    BY <1>2, <2>1, <2>2, <2>3, SilentDue
  <2> QED
    BY <1>2, <2>4
<1> QED
  BY <1>1, <1>2, DrainHears

LEMMA HeldDrain ==
    ASSUME IInv, TypeOK', Held, DrainPass \/ DrainSkip \/ DrainEmit
    PROVE  Held'
<1>1. Running /\ UNCHANGED <<wire, bits, last_meta_key, last_pos_key>>
  BY DEF DrainPass, DrainSkip, DrainEmit, Running
<1>2. MetaDue' <=> Due(WillHear', MetaOrStart, MetaHeld, last_meta_key, {None})
  BY <1>1 DEF MetaDue, MetaOrStart, MetaHeld, Starts, Byte
<1>3. PosDue' <=> Due(WillHear', PosOrStart, PosHeld, last_pos_key, {None})
  BY <1>1 DEF PosDue, PosOrStart, PosHeld, Starts, Byte
<1>4. PICK M1, G1, now1, M2, G2, now2 :
         /\ M1 = MetaOrStart /\ G1 = MetaHeld /\ now1 = last_meta_key
         /\ M2 = PosOrStart /\ G2 = PosHeld /\ now2 = last_pos_key
  OBVIOUS
<1>5. Due(WillHear, M1, G1, now1, {None}) /\ Due(WillHear, M2, G2, now2, {None})
  BY <1>1, <1>4 DEF Held, MetaDue, PosDue
<1>6. Due(WillHear', M1, G1, now1, {None})
  BY <1>4, <1>5, SpokenSets, DrainDue
<1>7. Due(WillHear', M2, G2, now2, {None})
  BY <1>4, <1>5, SpokenSets, DrainDue
<1> QED
  BY <1>2, <1>3, <1>4, <1>6, <1>7 DEF Held

(* An XML message: without a start message in it nothing changes; with one *)
(* the NAA forgets, and so does the proxy.                                 *)
LEMMA HeldXml ==
    ASSUME IInv, TypeOK', Held, HandlesXml
    PROVE  Held'
<1> SUFFICES ASSUME Running' PROVE MetaDue' /\ PosDue'
  BY DEF Held
<1> DEFINE end == find_xml_end(at, lim)
           x == Src(at, end)
           starts == {i \in (at + 1)..end : IsStart(wire[i])}
<1>1. /\ end \in Nat /\ at < end /\ end <= lim /\ handle_xml(at, end) /\ wire' = wire
      /\ ops' = <<>> /\ Src(at, end) \in Seq(Element) /\ Emitted' = Emitted \o Src(at, end)
  BY XmlWritten
<1>2. Running /\ ops = <<>> /\ MetaDue /\ PosDue
  BY XmlAhead DEF Held
<1>3. /\ Len(wire) \in Nat /\ at \in Nat /\ lim \in Nat /\ lim <= Len(wire)
      /\ Emitted \in Seq(Heard)
  BY Stream, HearingType DEF IInv
<1> HIDE DEF end
<1>4. x \in Seq(Heard)
  BY <1>1, Elementary, SeqMonotonic
<1>5. Queued = <<>> /\ Queued' = <<>>
  BY <1>1, <1>2 DEF Queued
<1>6. WillHear = Emitted /\ WillHear' = Emitted \o x
  <2>1. Emitted \o x \in Seq(Heard)
    BY <1>3, <1>4, ConcatProperties
  <2>2. Emitted \o <<>> = Emitted /\ (Emitted \o x) \o <<>> = Emitted \o x
    BY <1>3, <2>1, EmptyRight
  <2> QED
    BY <1>1, <1>5, <2>2 DEF WillHear
<1>7. \A k \in DOMAIN x : /\ at + k \in (at + 1)..end /\ x[k] \in Byte
                          /\ x[k].at = at + k
  BY <1>1, <1>3 DEF Src, Byte
<1>8. MetaOrStart' = MetaOrStart /\ PosOrStart' = PosOrStart
  BY <1>1 DEF MetaOrStart, PosOrStart, Starts, Byte
<1>9. CASE starts = {}
  <2>1. UNCHANGED <<bits, last_meta_key, last_pos_key>>
    BY <1>1, <1>9 DEF handle_xml
  <2>2. NoneOf(x, MetaOrStart) /\ NoneOf(x, PosOrStart)
    <3> SUFFICES ASSUME NEW k \in DOMAIN x PROVE x[k] \notin MetaOrStart /\ x[k] \notin PosOrStart
      BY DEF NoneOf
    <3>1. x[k] \in Byte /\ x[k] \notin Starts
      BY <1>7, <1>9 DEF Starts
    <3> QED
      BY <3>1, SpokenSets
  <2>3. LatestIn(x, MetaOrStart, MetaHeld) /\ LatestIn(x, PosOrStart, PosHeld)
    BY <2>2 DEF NoneOf, LatestIn
  <2> HIDE DEF x
  <2>4. Due(Emitted \o x, MetaOrStart, MetaHeld, last_meta_key, {None})
    BY <1>2, <1>3, <1>4, <1>6, <2>3, ConcatDue DEF MetaDue
  <2>5. Due(Emitted \o x, PosOrStart, PosHeld, last_pos_key, {None})
    BY <1>2, <1>3, <1>4, <1>6, <2>3, ConcatDue DEF PosDue
  <2>6. MetaHeld' = MetaHeld /\ PosHeld' = PosHeld
    BY <1>8, <2>1 DEF MetaHeld, PosHeld
  <2> QED
    BY <1>6, <1>8, <2>1, <2>4, <2>5, <2>6 DEF MetaDue, PosDue
<1>10. CASE starts # {}
  <2>1. last_meta_key' = None /\ last_pos_key' = None
    BY <1>1, <1>10 DEF handle_xml, reset_for_start
  <2>2. Starts \subseteq MetaHeld' /\ Starts \subseteq PosHeld'
    BY <1>8, <2>1, SpokenSets DEF MetaHeld, PosHeld
  <2>3. \A k \in DOMAIN x : x[k] \in MetaOrStart \cup PosOrStart => x[k] \in Starts
    BY <1>7, SpokenSets
  <2>4. ~NoneOf(x, Starts)
    <3>1. PICK i \in (at + 1)..end : IsStart(wire[i])
      BY <1>10
    <3>2. i - at \in DOMAIN x /\ at + (i - at) = i
      BY <1>1, <1>3, <3>1 DEF Src
    <3>3. x[i - at] \in Starts
      BY <1>7, <3>1, <3>2 DEF Starts
    <3> QED
      BY <3>2, <3>3 DEF NoneOf
  <2> HIDE DEF x
  <2>5. PICK M1, G1, M2, G2 :
          /\ M1 = MetaOrStart /\ G1 = MetaHeld' /\ M2 = PosOrStart /\ G2 = PosHeld'
    OBVIOUS
  <2>6. /\ LatestIn(x, M1, G1) /\ ~NoneOf(x, M1)
        /\ LatestIn(x, M2, G2) /\ ~NoneOf(x, M2)
    BY <2>2, <2>3, <2>4, <2>5, SpokenSets DEF LatestIn, NoneOf
  <2>7. /\ Due(Emitted \o x, M1, G1, None, {None})
        /\ Due(Emitted \o x, M2, G2, None, {None})
    BY <1>3, <1>4, <2>6, ConcatDue
  <2> QED
    BY <1>6, <1>8, <2>1, <2>5, <2>7 DEF MetaDue, PosDue
<1> QED
  BY <1>9, <1>10

-----------------------------------------------------------------------------
(* What build_frame_ops queues, as a set.                                  *)

LEMMA WhenElements ==
    ASSUME NEW c, NEW o
    PROVE  Elements(When(c, o)) = IF c THEN {o} ELSE {}
<1>1. CASE c
  BY <1>1 DEF When, Elements
<1>2. CASE ~c
  BY <1>2 DEF When, Elements
<1> QED
  BY <1>1, <1>2

LEMMA BuildElements ==
    ASSUME NEW h
    PROVE  Elements(build_frame_ops(h)) =
             {Emit(Hdr(Rewritten(h))), Pass(h.pcm * bytes_per_sample(bits))}
               \cup (IF h.pos > 0 THEN {Skip(h.pos)} ELSE {})
               \cup (IF NewPos THEN {Emit(Pos(shared.pos))} ELSE {})
               \cup (IF h.meta + h.pic > 0 THEN {Skip(h.meta + h.pic)} ELSE {})
               \cup (IF content_changed THEN {Emit(Meta(shared.key, bits))} ELSE {})
               \cup (IF NewPic THEN {Emit(Pic(shared.cover))} ELSE {})
<1> DEFINE o1 == Emit(Hdr(Rewritten(h)))
           o2 == Pass(h.pcm * bytes_per_sample(bits))
           o3 == Skip(h.pos)
           o4 == Emit(Pos(shared.pos))
           o5 == Skip(h.meta + h.pic)
           o6 == Emit(Meta(shared.key, bits))
           o7 == Emit(Pic(shared.cover))
           S == {o1, o2, o3, o4, o5, o6, o7}
           q2 == <<o1, o2>>
           q3 == When(h.pos > 0, o3)
           q4 == When(NewPos, o4)
           q5 == When(h.meta + h.pic > 0, o5)
           q6 == When(content_changed, o6)
           q7 == When(NewPic, o7)
<1>1. build_frame_ops(h) = q2 \o q3 \o q4 \o q5 \o q6 \o q7
  BY DEF build_frame_ops
<1>2. /\ Elements(q3) = (IF h.pos > 0 THEN {o3} ELSE {})
      /\ Elements(q4) = (IF NewPos THEN {o4} ELSE {})
      /\ Elements(q5) = (IF h.meta + h.pic > 0 THEN {o5} ELSE {})
      /\ Elements(q6) = (IF content_changed THEN {o6} ELSE {})
      /\ Elements(q7) = (IF NewPic THEN {o7} ELSE {})
  BY WhenElements
<1> HIDE DEF o1, o2, o3, o4, o5, o6, o7
<1>3. Elements(q2) = {o1, o2} /\ q2 \in Seq(S)
  BY DEF Elements
<1>4. o3 \in S /\ o4 \in S /\ o5 \in S /\ o6 \in S /\ o7 \in S
  OBVIOUS
<1> HIDE DEF S, q2
<1>5. /\ q3 \in Seq(S) /\ q4 \in Seq(S) /\ q5 \in Seq(S) /\ q6 \in Seq(S) /\ q7 \in Seq(S)
  BY <1>4, WhenSeq
<1> HIDE DEF q3, q4, q5, q6, q7
<1> DEFINE a3 == q2 \o q3
           a4 == a3 \o q4
           a5 == a4 \o q5
           a6 == a5 \o q6
           a7 == a6 \o q7
<1>6. a3 \in Seq(S) /\ Elements(a3) = Elements(q2) \cup Elements(q3)
  BY <1>3, <1>5, ElementsConcat, ConcatProperties
<1> HIDE DEF a3
<1>7. a4 \in Seq(S) /\ Elements(a4) = Elements(a3) \cup Elements(q4)
  BY <1>5, <1>6, ElementsConcat, ConcatProperties
<1> HIDE DEF a4
<1>8. a5 \in Seq(S) /\ Elements(a5) = Elements(a4) \cup Elements(q5)
  BY <1>5, <1>7, ElementsConcat, ConcatProperties
<1> HIDE DEF a5
<1>9. a6 \in Seq(S) /\ Elements(a6) = Elements(a5) \cup Elements(q6)
  BY <1>5, <1>8, ElementsConcat, ConcatProperties
<1> HIDE DEF a6
<1>10. Elements(a7) = Elements(a6) \cup Elements(q7)
  BY <1>5, <1>9, ElementsConcat
<1>11. build_frame_ops(h) = a7
  BY <1>1 DEF a3, a4, a5, a6
<1> HIDE DEF a7
<1>12. Elements(a7) = {o1, o2} \cup Elements(q3) \cup Elements(q4) \cup Elements(q5)
                        \cup Elements(q6) \cup Elements(q7)
  BY <1>3, <1>6, <1>7, <1>8, <1>9, <1>10
<1> QED
  BY <1>2, <1>11, <1>12 DEF o1, o2, o3, o4, o5, o6, o7

(* The sections a frame brings: Roon's, where they have changed.           *)
NewSections ==
    (IF NewPos THEN {Pos(shared.pos)} ELSE {})
      \cup (IF content_changed THEN {Meta(shared.key, bits)} ELSE {})
      \cup (IF NewPic THEN {Pic(shared.cover)} ELSE {})

LEMMA BuildSections ==
    ASSUME NEW h, NEW q, q = build_frame_ops(h)
    PROVE  /\ \A i \in DOMAIN q : q[i].op = "Emit" =>
                 q[i].sec = Hdr(Rewritten(h)) \/ q[i].sec \in NewSections
           /\ \A sec \in NewSections : \E i \in DOMAIN q : q[i].op = "Emit" /\ q[i].sec = sec
<1>1. \A i \in DOMAIN q : q[i] \in Elements(q)
  BY DEF Elements
<1>2. \A o \in Elements(q) : o.op = "Emit" =>
         o.sec = Hdr(Rewritten(h)) \/ o.sec \in NewSections
  BY BuildElements DEF Emit, Pass, Skip, NewSections
<1>3. \A sec \in NewSections : Emit(sec) \in Elements(q)
  BY BuildElements DEF NewSections
<1>4. \A sec \in NewSections : \E i \in DOMAIN q : q[i] = Emit(sec)
  BY <1>3 DEF Elements
<1>5. \A sec : Emit(sec).op = "Emit" /\ Emit(sec).sec = sec
  BY DEF Emit
<1> QED
  BY <1>1, <1>2, <1>4, <1>5

(* The step that queues a frame's operations.                              *)
LEMMA FrameStarts ==
    ASSUME IInv, TypeOK', CompleteHeader, Running'
    PROVE  /\ Running /\ ops = <<>> /\ pc' = "drain" /\ Queued = <<>>
           /\ UNCHANGED <<wire, bits, shared>> /\ Emitted' = Emitted
           /\ last_meta_key' = IF content_changed THEN shared.key ELSE last_meta_key
           /\ last_pos_key' = IF NewPos THEN shared.pos ELSE last_pos_key
           /\ \E h \in FrameHeader : ops' = build_frame_ops(h)
           /\ Queued' \in Seq(Heard)
           /\ \A i \in DOMAIN Queued' : Queued'[i] \in NewSections \/ Queued'[i].kind \in {"hdr", "none"}
           /\ \A sec \in NewSections : \E i \in DOMAIN Queued' : Queued'[i] = sec
<1>1. /\ pc = "loop" /\ ops = <<>> /\ UNCHANGED <<wire, bits, out, dst, shared>>
      /\ at' = at + (FRAME_HEADER_SIZE - header_buf) /\ lim - at >= FRAME_HEADER_SIZE - header_buf
  BY DEF CompleteHeader
<1>2. at' \in 1..Len(wire)
  BY <1>1, Stream, NaaProtocolAssumption DEF NaaProtocolAssumption, IInv, TypeOK
<1>3. PICK h \in parse_header(at') :
         /\ pc' = "drain"
         /\ ops' = build_frame_ops(h)
         /\ last_meta_key' = IF content_changed THEN shared.key ELSE last_meta_key
         /\ last_pos_key' = IF NewPos THEN shared.pos ELSE last_pos_key
  BY DEF CompleteHeader, Running
<1>4. h \in FrameHeader
  BY <1>2, ParsedHeaderType DEF IInv
<1>5. Running /\ Emitted' = Emitted /\ Queued = <<>>
  BY <1>1, <1>3 DEF Running, Emitted, Queued
<1>6. PICK q : q = ops' /\ q \in Seq(FrameOp)
  BY DEF TypeOK, FrameOp, Section
<1>7. /\ Queued' = Say(q) /\ Say(q) \in Seq(Heard)
      /\ DOMAIN Say(q) = 1..Len(q) /\ DOMAIN q = 1..Len(q)
      /\ \A i \in 1..Len(q) : Say(q)[i] = IF q[i].op = "Emit" THEN q[i].sec ELSE Silence
  BY <1>6, SayQueued, SayType
<1>8. /\ \A i \in DOMAIN q : q[i].op = "Emit" =>
            q[i].sec = Hdr(Rewritten(h)) \/ q[i].sec \in NewSections
      /\ \A sec \in NewSections : \E i \in DOMAIN q : q[i].op = "Emit" /\ q[i].sec = sec
  BY <1>3, <1>6, BuildSections
<1>9. Hdr(Rewritten(h)).kind = "hdr" /\ Silence.kind = "none"
  BY DEF Hdr, Silence
<1> QED
  BY <1>1, <1>3, <1>4, <1>5, <1>7, <1>8, <1>9

LEMMA HeldFrame ==
    ASSUME IInv, TypeOK', Held, CompleteHeader
    PROVE  Held'
<1> SUFFICES ASSUME Running' PROVE MetaDue' /\ PosDue'
  BY DEF Held
<1>1. /\ Running /\ Queued = <<>> /\ UNCHANGED <<wire, bits>> /\ Emitted' = Emitted
      /\ last_meta_key' = IF content_changed THEN shared.key ELSE last_meta_key
      /\ last_pos_key' = IF NewPos THEN shared.pos ELSE last_pos_key
      /\ Queued' \in Seq(Heard)
      /\ \A i \in DOMAIN Queued' : Queued'[i] \in NewSections \/ Queued'[i].kind \in {"hdr", "none"}
      /\ \A sec \in NewSections : \E i \in DOMAIN Queued' : Queued'[i] = sec
  BY FrameStarts
<1>2. MetaDue /\ PosDue /\ Emitted \in Seq(Heard) /\ WillHear = Emitted
  <2>1. Emitted \in Seq(Heard)
    BY HearingType DEF IInv
  <2> QED
    BY <1>1, <2>1, EmptyRight DEF Held, WillHear
<1>3. MetaOrStart' = MetaOrStart /\ PosOrStart' = PosOrStart
  BY <1>1 DEF MetaOrStart, PosOrStart, Starts, Byte
<1>4. PICK q, MG, PG : q = Queued' /\ MG = MetaHeld' /\ PG = PosHeld'
  OBVIOUS
<1>5. WillHear' = Emitted \o q
  BY <1>1, <1>4 DEF WillHear
<1>6. /\ content_changed => shared.key \in Keys /\ bits \in Nat
      /\ NewPos => shared.pos \in Positions
  BY DEF IInv, TypeOK, content_changed, NewPos, Keys, Positions
<1>7. MetaDue'
  <2>1. \A i \in DOMAIN q : q[i] \in MetaOrStart => content_changed /\ q[i] = Meta(shared.key, bits)
    BY <1>1, <1>4 DEF MetaOrStart, Starts, Byte, NewSections, Pos, Meta, Pic
  <2>2. content_changed => Meta(shared.key, bits) \in MG
    BY <1>1, <1>3, <1>4, <1>6 DEF MetaHeld, MetaOrStart, Meta
  <2>3. LatestIn(q, MetaOrStart, MG)
    BY <2>1, <2>2 DEF LatestIn
  <2>4. NoneOf(q, MetaOrStart) => ~content_changed
    <3> SUFFICES ASSUME content_changed PROVE \E i \in DOMAIN q : q[i] \in MetaOrStart
      BY DEF NoneOf
    <3>1. Meta(shared.key, bits) \in NewSections /\ Meta(shared.key, bits) \in MetaOrStart
      BY <1>6 DEF NewSections, MetaOrStart, Meta
    <3> QED
      BY <1>1, <1>4, <3>1
  <2>5. ~content_changed => Due(Emitted, MetaOrStart, MG, last_meta_key', {None})
    <3> SUFFICES ASSUME ~content_changed PROVE Due(Emitted, MetaOrStart, MG, last_meta_key', {None})
      OBVIOUS
    <3>1. last_meta_key' = last_meta_key /\ MG = MetaHeld
      BY <1>1, <1>3, <1>4 DEF MetaHeld
    <3> QED
      BY <1>2, <3>1 DEF MetaDue
  <2>6. PICK M, now : M = MetaOrStart /\ now = last_meta_key'
    OBVIOUS
  <2>7. Due(Emitted \o q, M, MG, now, {None})
    BY <1>1, <1>2, <1>4, <2>3, <2>4, <2>5, <2>6, ConcatDue
  <2> QED
    BY <1>3, <1>4, <1>5, <2>6, <2>7 DEF MetaDue
<1>8. PosDue'
  <2>1. \A i \in DOMAIN q : q[i] \in PosOrStart => NewPos /\ q[i] = Pos(shared.pos)
    BY <1>1, <1>4 DEF PosOrStart, Starts, Byte, NewSections, Pos, Meta, Pic
  <2>2. NewPos => Pos(shared.pos) \in PG
    BY <1>1, <1>3, <1>4, <1>6 DEF PosHeld, PosOrStart, Pos
  <2>3. LatestIn(q, PosOrStart, PG)
    BY <2>1, <2>2 DEF LatestIn
  <2>4. NoneOf(q, PosOrStart) => ~NewPos
    <3> SUFFICES ASSUME NewPos PROVE \E i \in DOMAIN q : q[i] \in PosOrStart
      BY DEF NoneOf
    <3>1. Pos(shared.pos) \in NewSections /\ Pos(shared.pos) \in PosOrStart
      BY <1>6 DEF NewSections, PosOrStart, Pos
    <3> QED
      BY <1>1, <1>4, <3>1
  <2>5. ~NewPos => Due(Emitted, PosOrStart, PG, last_pos_key', {None})
    <3> SUFFICES ASSUME ~NewPos PROVE Due(Emitted, PosOrStart, PG, last_pos_key', {None})
      OBVIOUS
    <3>1. last_pos_key' = last_pos_key /\ PG = PosHeld
      BY <1>1, <1>3, <1>4 DEF PosHeld
    <3> QED
      BY <1>2, <3>1 DEF PosDue
  <2>6. PICK M, now : M = PosOrStart /\ now = last_pos_key'
    OBVIOUS
  <2>7. Due(Emitted \o q, M, PG, now, {None})
    BY <1>1, <1>2, <1>4, <2>3, <2>4, <2>5, <2>6, ConcatDue
  <2> QED
    BY <1>3, <1>4, <1>5, <2>6, <2>7 DEF PosDue
<1> QED
  BY <1>7, <1>8

LEMMA HeldStep ==
    ASSUME IInv, TypeOK', Held, [Next]_vars
    PROVE  Held'
<1>1. CASE Read \/ ReadEnds \/ AccumulateHeader \/ Resume \/ DrainDone \/ Set \/ UNCHANGED vars
  <2>1. /\ UNCHANGED <<wire, ops, bits, last_meta_key, last_pos_key>>
        /\ Running' => Running /\ Emitted' = Emitted
    BY <1>1 DEF Read, ReadEnds, AccumulateHeader, Resume, DrainDone, Set, vars, Running, Emitted
  <2>2. Running' => WillHear' = WillHear
    BY <2>1 DEF WillHear, Queued
  <2> QED
    BY <2>1, <2>2, HeldKept
<1>2. CASE FlushOut
  <2>1. /\ UNCHANGED <<wire, ops, bits, last_meta_key, last_pos_key>>
        /\ Running /\ (Running' => Emitted' = Emitted)
    <3>1. dst \in Seq(Element)
      BY DEF IInv, TypeOK
    <3> QED
      BY <1>2, <3>1, EmptyRight DEF FlushOut, WriteAll, Running, Emitted
  <2>2. Running' => WillHear' = WillHear
    BY <2>1 DEF WillHear, Queued
  <2> QED
    BY <2>1, <2>2, HeldKept
<1>3. CASE TopOfBuffer \/ MidBufferXml
  <2>1. CASE HandlesXml
    BY <2>1, HeldXml
  <2>2. CASE ~HandlesXml
    <3>1. /\ pc = "top" /\ pc' = "loop" /\ out' = <<>> /\ dst' = dst
          /\ UNCHANGED <<wire, ops, bits, last_meta_key, last_pos_key>>
      BY <1>3, <2>2 DEF HandlesXml, TopOfBuffer
    <3>2. dst \o <<>> = dst
      BY EmptyRight DEF IInv, TypeOK
    <3>3. Running /\ Emitted' = Emitted
      BY <3>1, <3>2 DEF Running, Emitted
    <3>4. WillHear' = WillHear
      BY <3>1, <3>3 DEF WillHear, Queued
    <3> QED
      BY <3>1, <3>3, <3>4, HeldKept
  <2> QED
    BY <2>1, <2>2
<1>4. CASE CompleteHeader
  BY <1>4, HeldFrame
<1>5. CASE DrainPass \/ DrainSkip \/ DrainEmit
  BY <1>5, HeldDrain
<1> QED
  BY <1>1, <1>2, <1>3, <1>4, <1>5 DEF Next, Process

-----------------------------------------------------------------------------
(* From the latest of what is heard to what is displayed.                  *)

LEMMA MaxOfPlaces ==
    ASSUME NEW n \in Nat, NEW S, S \subseteq 1..n, S # {}
    PROVE  Max(S) \in S /\ \A y \in S : y <= Max(S)
<1> DEFINE T == {n - y : y \in S}
<1>1. T \subseteq Nat /\ T # {}
  <2>1. \A y \in S : n - y \in Nat
    OBVIOUS
  <2>2. PICK y \in S : TRUE
    OBVIOUS
  <2> QED
    BY <2>1, <2>2
<1>2. Min(T) \in T /\ \A z \in T : Min(T) <= z
  BY <1>1, MinOfNaturals
<1>3. PICK x \in S : \A y \in S : n - x <= n - y
  <2> HIDE DEF T
  <2>1. PICK x \in S : Min(T) = n - x
    BY <1>2 DEF T
  <2>2. \A y \in S : n - y \in T
    BY DEF T
  <2> QED
    BY <1>2, <2>1, <2>2
<1>4. \A y \in S : x >= y
  <2> TAKE y \in S
  <2>1. n - x <= n - y /\ x \in Nat /\ y \in Nat
    BY <1>3
  <2> QED
    BY <2>1
<1>5. \A m \in S : m \in Nat
  OBVIOUS
<1> QED
  BY <1>4, <1>5 DEF Max

(* K is all of a kind that the NAA may hear.                               *)
AllOf(K, kind) == K \subseteq Heard /\ \A e \in Heard : e \in K <=> e.kind = kind

DueSince(K, G, now) == Due(WillHear, K \cup Starts, G, now, {None})

(* The latest of a kind not forgotten is displayed; if it is none, the     *)
(* latest of all is a start message or there is none of them.              *)
LEMMA ShownIs ==
    ASSUME TypeOK, NEW kind, kind # "src", NEW K, AllOf(K, kind),
           NEW G, NEW now, NEW blank, DueSince(K, G, now)
    PROVE  \/ Displayed(kind, blank) \in K \cap G
           \/ /\ Displayed(kind, blank) = blank
              /\ now = None \/ \E e \in Starts : e \in G
<1> DEFINE w == WillHear
           M == K \cup Starts
<1>d. Due(w, M, G, now, {None})
  BY DEF DueSince
<1>0. K \subseteq Heard /\ \A e \in Heard : e \in K <=> e.kind = kind
  BY DEF AllOf
<1>1. /\ w \in Seq(Heard) /\ Len(w) \in Nat /\ DOMAIN w = 1..Len(w)
      /\ \A i \in DOMAIN w : w[i] \in Heard
  BY HearingType, LenProperties, ElementOfSeq
<1>2. \A i \in DOMAIN w : Forgets(w[i]) <=> w[i] \in Starts
  <2>1. \A e \in Heard : e.kind = "src" <=> e \in Byte
    BY Elementary DEF Heard
  <2> QED
    BY <1>1, <2>1 DEF Forgets, Starts
<1>3. Since(kind) \subseteq 1..Len(w)
  BY <1>1 DEF Since
<1>m. \A e : e \in M <=> e \in K \/ e \in Starts
  OBVIOUS
<1> HIDE DEF w, M
<1>4. CASE Since(kind) # {}
  <2> DEFINE i == Max(Since(kind))
  <2>1. i \in Since(kind) /\ \A j \in Since(kind) : j <= i
    BY <1>1, <1>3, <1>4, MaxOfPlaces
  <2>2. Displayed(kind, blank) = w[i]
    BY <1>4 DEF Displayed, w
  <2> HIDE DEF i
  <2>3. /\ i \in DOMAIN w /\ w[i].kind = kind /\ w[i] \in K
        /\ \A j \in DOMAIN w : j > i => ~Forgets(w[j])
    BY <1>0, <1>1, <2>1 DEF Since, w
  <2>4. ASSUME NEW j \in DOMAIN w, j > i PROVE w[j] \notin M
    <3>1. w[j] \notin Starts
      BY <1>2, <2>3, <2>4
    <3>2. w[j] \notin K
      <4> SUFFICES ASSUME w[j] \in K PROVE FALSE
        OBVIOUS
      <4>1. w[j].kind = kind
        BY <1>0
      <4>2. \A k \in DOMAIN w : k > j => ~Forgets(w[k])
        BY <1>1, <2>3, <2>4
      <4>3. j \in Since(kind)
        BY <4>1, <4>2 DEF Since, w
      <4> QED
        BY <1>1, <2>1, <2>3, <2>4, <4>3
    <3> QED
      BY <3>1, <3>2, <1>m
  <2>5. w[i] \in G
    BY <1>d, <1>m, <2>3, <2>4 DEF Due, LatestIn
  <2> QED
    BY <2>2, <2>3, <2>5
<1>5. CASE Since(kind) = {}
  <2>1. Displayed(kind, blank) = blank
    BY <1>5 DEF Displayed
  <2>2. CASE NoneOf(w, M)
    BY <1>d, <2>1, <2>2 DEF Due
  <2>3. CASE ~NoneOf(w, M)
    <3> DEFINE P == {k \in DOMAIN w : w[k] \in M}
               i == Max(P)
    <3>1. P \subseteq 1..Len(w) /\ P # {}
      BY <1>1, <2>3 DEF NoneOf
    <3>2. i \in P /\ \A j \in P : j <= i
      BY <1>1, <3>1, MaxOfPlaces
    <3> HIDE DEF i
    <3>3. i \in DOMAIN w /\ w[i] \in M /\ \A j \in DOMAIN w : j > i => w[j] \notin M
      BY <1>1, <3>2
    <3>4. w[i] \in G
      BY <1>d, <3>3 DEF Due, LatestIn
    <3>5. w[i] \in Starts
      <4> SUFFICES ASSUME w[i] \in K PROVE FALSE
        BY <1>m, <3>3
      <4>1. w[i].kind = kind /\ \A j \in DOMAIN w : j > i => ~Forgets(w[j])
        BY <1>0, <1>1, <1>2, <1>m, <3>3
      <4>2. i \in Since(kind)
        BY <3>3, <4>1 DEF Since, w
      <4> QED
        BY <1>5, <4>2
    <3> QED
      BY <2>1, <3>4, <3>5
  <2> QED
    BY <2>2, <2>3
<1> QED
  BY <1>4, <1>5

LEMMA DisplayHeld ==
    ASSUME TypeOK, MetaDue, PosDue
    PROVE  /\ Display.key = last_meta_key
           /\ Display.pos = last_pos_key
           /\ Display.key # None => Display.bits = bits
<1>1. \A e \in Starts : e.kind = "src"
  BY SpokenSets
<1>2. /\ Display.key = last_meta_key
      /\ Display.key # None => Display.bits = bits
  <2> DEFINE K == [kind : {"meta"}, key : Keys, bits : Nat]
             d == Displayed("meta", Meta(None, 32))
  <2>1. AllOf(K, "meta")
    BY DEF AllOf, Heard, Said, Section, Byte, Silence
  <2>2. DueSince(K, MetaHeld, last_meta_key)
    BY DEF MetaDue, MetaOrStart, DueSince
  <2> HIDE DEF K, d
  <2>3. \/ d \in K \cap MetaHeld
        \/ /\ d = Meta(None, 32)
           /\ last_meta_key = None \/ \E e \in Starts : e \in MetaHeld
    <3>1. "meta" # "src"
      OBVIOUS
    <3> QED
      BY <2>1, <2>2, <3>1, ShownIs DEF d
  <2>4. d \in K => d.kind = "meta"
    BY DEF K
  <2>5. (\E e \in Starts : e \in MetaHeld) => last_meta_key = None
    BY <1>1 DEF MetaHeld
  <2>6. d.key = last_meta_key /\ (d.key # None => d.bits = bits)
    BY <2>3, <2>4, <2>5 DEF MetaHeld, Meta
  <2> QED
    BY <2>6 DEF Display, d
<1>3. Display.pos = last_pos_key
  <2> DEFINE K == [kind : {"pos"}, pos : Positions]
             d == Displayed("pos", Pos(None))
  <2>1. AllOf(K, "pos")
    BY DEF AllOf, Heard, Said, Section, Byte, Silence
  <2>2. DueSince(K, PosHeld, last_pos_key)
    BY DEF PosDue, PosOrStart, DueSince
  <2> HIDE DEF K, d
  <2>3. \/ d \in K \cap PosHeld
        \/ /\ d = Pos(None)
           /\ last_pos_key = None \/ \E e \in Starts : e \in PosHeld
    <3>1. "pos" # "src"
      OBVIOUS
    <3> QED
      BY <2>1, <2>2, <3>1, ShownIs DEF d
  <2>4. d \in K => d.kind = "pos"
    BY DEF K
  <2>5. (\E e \in Starts : e \in PosHeld) => last_pos_key = None
    BY <1>1 DEF PosHeld
  <2>6. d.pos = last_pos_key
    BY <2>3, <2>4, <2>5 DEF PosHeld, Pos
  <2> QED
    BY <2>6 DEF Display, d
<1> QED
  BY <1>2, <1>3

LEMMA HeldIsDisplayed == TypeOK /\ Held => BeliefHeld
BY DisplayHeld DEF Held, BeliefHeld

(* The invariants together.                                                *)
Hearing == IInv /\ Held

THEOREM HearingCorrect ==
    ASSUME SplitXml = FALSE
    PROVE  Spec => []Hearing
<1>1. Init => Hearing
  BY SafetyInit, HeldInit DEF Hearing
<1>2. Hearing /\ [Next]_vars => Hearing'
  <2> SUFFICES ASSUME Hearing, [Next]_vars PROVE Hearing'
    OBVIOUS
  <2>1. IInv'
    BY SafetyStep DEF Hearing
  <2> QED
    BY <2>1, HeldStep DEF Hearing, IInv
<1> QED
  BY <1>1, <1>2, PTL DEF Spec

(* What the proxy remembers having emitted last is what the NAA displays,  *)
(* whatever start messages come between, and with the parameters of the    *)
(* stream now playing.                                                     *)
THEOREM BeliefIsDisplay ==
    ASSUME SplitXml = FALSE
    PROVE  Spec => []BeliefHeld
<1>1. Hearing => BeliefHeld
  BY HeldIsDisplayed DEF Hearing, IInv
<1> QED
  BY <1>1, HearingCorrect, PTL

-----------------------------------------------------------------------------
(* A frame begins.                                                         *)
LEMMA OnlyCompleteBegins ==
    ASSUME TypeOK, [Next]_vars, FrameBegins
    PROVE  CompleteHeader /\ Running /\ Running'
<1>1. pc = "loop" /\ pc' = "drain" /\ ops = <<>>
  BY DEF FrameBegins
<1>2. CompleteHeader
  BY <1>1 DEF Next, Process, Read, ReadEnds, TopOfBuffer, MidBufferXml, AccumulateHeader,
              Resume, DrainPass, DrainSkip, DrainEmit, DrainDone, FlushOut, WriteAll, Set, vars
<1> QED
  BY <1>1, <1>2 DEF Running

(* The cover displayed after a frame that brings one is that one.          *)
LEMMA CoverDisplayed ==
    ASSUME IInv, TypeOK', CompleteHeader, Running', NewPic
    PROVE  Display'.cover = shared.cover
<1>1. /\ Running /\ UNCHANGED <<wire, shared>> /\ Emitted' = Emitted
      /\ Queued' \in Seq(Heard)
      /\ \A i \in DOMAIN Queued' : Queued'[i] \in NewSections \/ Queued'[i].kind \in {"hdr", "none"}
      /\ \A sec \in NewSections : \E i \in DOMAIN Queued' : Queued'[i] = sec
  BY FrameStarts
<1>2. PICK q, w : q = Queued' /\ w = WillHear'
  OBVIOUS
<1>3. /\ Emitted \in Seq(Heard) /\ q \in Seq(Heard) /\ w = Emitted \o q
  BY <1>1, <1>2, HearingType DEF IInv, WillHear
<1> DEFINE n == Len(Emitted)
<1>4. /\ n \in Nat /\ w \in Seq(Heard) /\ Len(w) \in Nat /\ DOMAIN w = 1..Len(w)
      /\ \A i \in DOMAIN q : i \in Nat \ {0} /\ n + i \in DOMAIN w /\ w[n + i] = q[i]
      /\ \A i \in DOMAIN w : i \in Nat /\ (i \in 1..n \/ (i > n /\ i - n \in DOMAIN q))
  <2>1. DOMAIN Emitted = 1..n
    BY <1>3, LenProperties
  <2>2. w \in Seq(Heard)
    BY <1>3, ConcatProperties
  <2> QED
    BY <1>3, <2>1, <2>2, ConcatPlaces, LenProperties
<1> HIDE DEF n
<1>5. \A i \in DOMAIN w : i > n => i - n \in DOMAIN q /\ w[i] = q[i - n]
  <2> TAKE i \in DOMAIN w
  <2> HAVE i > n
  <2>1. i \in Nat /\ i - n \in DOMAIN q /\ n + (i - n) = i
    BY <1>4
  <2> QED
    BY <1>4, <2>1
<1>6. \A i \in DOMAIN q : q[i].kind # "src" /\ (q[i].kind = "pic" => q[i] = Pic(shared.cover))
  BY <1>1, <1>2 DEF NewSections, Pos, Meta, Pic
<1>7. PICK S : S = Since("pic")'
  OBVIOUS
<1>8. S = {i \in DOMAIN w : /\ w[i].kind = "pic"
                            /\ \A j \in DOMAIN w : j > i =>
                                 ~(w[j].kind = "src" /\ IsStart(wire[w[j].at]))}
  BY <1>1, <1>2, <1>7 DEF Since, Forgets, IsStart, IsXml
<1>9. \E i \in S : i > n
  <2>1. PICK i \in DOMAIN q : q[i] = Pic(shared.cover)
    BY <1>1, <1>2 DEF NewSections
  <2>2. n + i \in DOMAIN w /\ w[n + i].kind = "pic" /\ n + i > n
    BY <1>4, <2>1 DEF Pic
  <2>3. ASSUME NEW j \in DOMAIN w, j > n + i PROVE w[j].kind # "src"
    <3>1. j > n
      BY <1>4, <2>1, <2>3
    <3> QED
      BY <1>5, <1>6, <3>1
  <2> QED
    BY <1>8, <2>2, <2>3
<1>10. S \subseteq 1..Len(w) /\ S # {}
  BY <1>4, <1>8, <1>9
<1>11. Max(S) \in S /\ Max(S) > n
  <2>1. Max(S) \in S /\ \A y \in S : y <= Max(S)
    BY <1>4, <1>10, MaxOfPlaces
  <2> QED
    BY <1>4, <1>9, <1>10, <2>1
<1>12. w[Max(S)] = Pic(shared.cover)
  BY <1>5, <1>6, <1>8, <1>11
<1>13. Displayed("pic", Pic(None))' = w[Max(S)]
  BY <1>2, <1>7, <1>10 DEF Displayed
<1>14. Display'.cover = Displayed("pic", Pic(None))'.cover
  BY DEF Display
<1> QED
  BY <1>12, <1>13, <1>14 DEF Pic

LEMMA RefreshStep ==
    ASSUME Hearing, Hearing', [Next]_vars, FrameBegins
    PROVE  /\ shared.key # None => Display'.key = shared.key
           /\ shared.pos # None => Display'.pos = shared.pos
           /\ Display'.key # Display.key /\ shared.cover # None => Display'.cover = shared.cover
<1>1. CompleteHeader /\ Running /\ Running' /\ TypeOK /\ TypeOK' /\ IInv
  BY OnlyCompleteBegins DEF Hearing, IInv
<1>2. /\ last_meta_key' = IF content_changed THEN shared.key ELSE last_meta_key
      /\ last_pos_key' = IF NewPos THEN shared.pos ELSE last_pos_key
  BY <1>1, FrameStarts
<1>3. Display.key = last_meta_key
  BY <1>1, HeldIsDisplayed DEF Hearing, BeliefHeld
<1>4. Display'.key = last_meta_key' /\ Display'.pos = last_pos_key'
  <2>1. BeliefHeld'
    BY HeldIsDisplayed, PTL DEF Hearing, IInv
  <2> QED
    BY <1>1, <2>1 DEF BeliefHeld
<1>5. Display'.key # Display.key /\ shared.cover # None => NewPic
  BY <1>2, <1>3, <1>4 DEF NewPic
<1> QED
  BY <1>1, <1>2, <1>4, <1>5, CoverDisplayed DEF content_changed, NewPos

(* Every frame brings the NAA up to date with Roon as it was when the      *)
(* frame began, the cover with the track.                                  *)
THEOREM FramesRefresh ==
    ASSUME SplitXml = FALSE
    PROVE  Spec => EveryFrameRefreshes
<1>1. Hearing /\ Hearing' /\ [Next]_vars =>
        [FrameBegins =>
           /\ shared.key # None => Display'.key = shared.key
           /\ shared.pos # None => Display'.pos = shared.pos
           /\ Display'.key # Display.key /\ shared.cover # None =>
                Display'.cover = shared.cover]_vars
  BY RefreshStep
<1> QED
  BY <1>1, HearingCorrect, PTL DEF Spec, EveryFrameRefreshes

LEMMA RepeatStep ==
    ASSUME Hearing, Hearing', [Next]_vars, FrameBegins, NEW sec \in PendingSections'
    PROVE  /\ sec.kind = "meta" => sec.key # Display.key
           /\ sec.kind = "pos" => sec.pos # Display.pos
<1>1. CompleteHeader /\ Running /\ Running' /\ TypeOK' /\ IInv
  BY OnlyCompleteBegins DEF Hearing, IInv
<1>2. PICK h : ops' = build_frame_ops(h)
  BY <1>1, FrameStarts
<1>3. sec = Hdr(Rewritten(h)) \/ sec \in NewSections
  <2>1. PICK q : q = ops'
    OBVIOUS
  <2>2. PICK i \in DOMAIN q : q[i].op = "Emit" /\ sec = q[i].sec
    BY <2>1 DEF PendingSections
  <2> QED
    BY <1>2, <2>1, <2>2, BuildSections
<1>4. Display.key = last_meta_key /\ Display.pos = last_pos_key
  BY <1>1, HeldIsDisplayed DEF Hearing, BeliefHeld, IInv
<1> QED
  BY <1>3, <1>4 DEF NewSections, Hdr, Pos, Meta, Pic, content_changed, NewPos

(* No META and no POS repeats what the NAA displays already.               *)
THEOREM SectionsNeverRepeat ==
    ASSUME SplitXml = FALSE
    PROVE  Spec => NoRepeat
<1>1. Hearing /\ Hearing' /\ [Next]_vars =>
        [FrameBegins => \A sec \in PendingSections' :
           /\ sec.kind = "meta" => sec.key # Display.key
           /\ sec.kind = "pos" => sec.pos # Display.pos]_vars
  BY RepeatStep
<1> QED
  BY <1>1, HearingCorrect, PTL DEF Spec, NoRepeat

-----------------------------------------------------------------------------
(* 3. What the NAA hears is a stream as NaaStream promises.                *)

SectionsFrom(q, k) == {q[i].sec : i \in {j \in DOMAIN q : j >= k /\ q[j].op = "Emit"}}

(* From the k-th on there are sections in their order, and bytes to strip. *)
LateFrom(q, k) ==
    \A i \in DOMAIN q : i >= k =>
        \/ q[i].op = "Skip"
        \/ /\ q[i].op = "Emit" /\ q[i].sec.kind \in {"pos", "meta", "pic"}
           /\ \A j \in DOMAIN q : j > i /\ q[j].op = "Emit" => Naa!Before(q[i].sec, q[j].sec)

HeaderFirst(q) == q # <<>> /\ q[1].op = "Emit" /\ q[1].sec.kind = "hdr"

(* A queue b bits wide: the header with all that it announces, what is     *)
(* left once that is out, and once the audio is.                           *)
Shaped(q, b) ==
    \/ LateFrom(q, 1)
    \/ q # <<>> /\ q[1].op = "Pass" /\ LateFrom(q, 2)
    \/ /\ HeaderFirst(q) /\ 2 \in DOMAIN q /\ q[2].op = "Pass" /\ LateFrom(q, 3)
       /\ Naa!Announced(q[1].sec.h, b, [pcm |-> q[2].n, sections |-> SectionsFrom(q, 2)])

Owed(q) ==
    IF HeaderFirst(q) THEN [pcm |-> 0, sections |-> {}]
    ELSE [pcm |-> IF q # <<>> /\ q[1].op = "Pass" THEN q[1].n ELSE 0,
          sections |-> SectionsFrom(q, 1)]

LEMMA OwedIs ==
    ASSUME ops \in Seq(FrameOp)
    PROVE  owedToNaa = Owed(ops)
<1>1. \A j \in DOMAIN ops : j >= 1
  BY LenProperties
<1>2. PendingSections = SectionsFrom(ops, 1)
  BY <1>1 DEF PendingSections, SectionsFrom
<1> QED
  BY <1>2 DEF owedToNaa, HeaderQueued, Owed, HeaderFirst

LEMMA TailShape ==
    ASSUME NEW q \in Seq(FrameOp), q # <<>>, NEW k \in Nat \ {0}
    PROVE  /\ LateFrom(q, k + 1) => LateFrom(Tail(q), k)
           /\ SectionsFrom(Tail(q), k) = SectionsFrom(q, k + 1)
<1> DEFINE r == Tail(q)
<1>1. /\ 1 \in DOMAIN q /\ q[1] = Head(q)
      /\ \A i \in DOMAIN r : i \in Nat /\ i + 1 \in DOMAIN q /\ r[i] = q[i + 1]
      /\ \A i \in DOMAIN q : i \in Nat /\ (i # 1 => i - 1 \in DOMAIN r /\ r[i - 1] = q[i])
  BY TailPlaces
<1> HIDE DEF r
<1>2. ASSUME LateFrom(q, k + 1), NEW i \in DOMAIN r, i >= k
      PROVE  \/ r[i].op = "Skip"
             \/ /\ r[i].op = "Emit" /\ r[i].sec.kind \in {"pos", "meta", "pic"}
                /\ \A j \in DOMAIN r : j > i /\ r[j].op = "Emit" => Naa!Before(r[i].sec, r[j].sec)
  <2>1. i + 1 \in DOMAIN q /\ i + 1 >= k + 1 /\ r[i] = q[i + 1] /\ i \in Nat
    BY <1>1, <1>2
  <2>2. \A j \in DOMAIN r : j > i => j + 1 \in DOMAIN q /\ j + 1 > i + 1 /\ r[j] = q[j + 1]
    BY <1>1, <2>1
  <2> QED
    BY <1>2, <2>1, <2>2 DEF LateFrom
<1>3. \A s : s \in SectionsFrom(r, k) <=> s \in SectionsFrom(q, k + 1)
  <2>1. ASSUME NEW i \in DOMAIN r, i >= k, r[i].op = "Emit"
        PROVE  r[i].sec \in SectionsFrom(q, k + 1)
    <3>1. i + 1 \in DOMAIN q /\ i + 1 >= k + 1 /\ r[i] = q[i + 1]
      BY <1>1, <2>1
    <3> QED
      BY <2>1, <3>1 DEF SectionsFrom
  <2>2. ASSUME NEW i \in DOMAIN q, i >= k + 1, q[i].op = "Emit"
        PROVE  q[i].sec \in SectionsFrom(r, k)
    <3>1. i - 1 \in DOMAIN r /\ i - 1 >= k /\ r[i - 1] = q[i]
      BY <1>1, <2>2
    <3> QED
      BY <2>2, <3>1 DEF SectionsFrom
  <2> QED
    BY <2>1, <2>2 DEF SectionsFrom
<1> QED
  BY <1>2, <1>3 DEF LateFrom, r

(* The operation at the head takes some of its bytes, or is done.          *)
LEMMA TakeShaped ==
    ASSUME NEW q \in Seq(FrameOp), q # <<>>, q[1].op # "Emit", NEW b, Shaped(q, b),
           NEW n \in Nat, NEW r,
           (r = Tail(q) /\ n = 0) \/ r = [q EXCEPT ![1].n = n]
    PROVE  /\ Shaped(r, b)
           /\ Owed(q).pcm = IF q[1].op = "Pass" THEN q[1].n ELSE 0
           /\ Owed(r) = [Owed(q) EXCEPT !.pcm = IF q[1].op = "Pass" THEN n ELSE 0]
<1>0. /\ 1 \in DOMAIN q /\ q[1] \in FrameOp /\ q[1].op \in {"Pass", "Skip"}
      /\ \A i \in DOMAIN q : i \in Nat /\ i >= 1
  <2>1. Len(q) \in Nat /\ 1 \in 1..Len(q) /\ DOMAIN q = 1..Len(q) /\ q[1] \in FrameOp
    BY EmptySeq, ElementOfSeq, LenProperties
  <2> QED
    BY <2>1 DEF FrameOp
<1>1. ~HeaderFirst(q) /\ LateFrom(q, 2) /\ (q[1].op = "Skip" => LateFrom(q, 1))
  <2>1. LateFrom(q, 1) => LateFrom(q, 2)
    BY <1>0 DEF LateFrom
  <2> QED
    BY <1>0, <2>1 DEF HeaderFirst, Shaped
<1>2. /\ Owed(q) = [pcm |-> IF q[1].op = "Pass" THEN q[1].n ELSE 0, sections |-> SectionsFrom(q, 1)]
      /\ SectionsFrom(q, 1) = SectionsFrom(q, 2)
  <2>1. \A j \in DOMAIN q : q[j].op = "Emit" => j >= 2
    BY <1>0
  <2>2. SectionsFrom(q, 1) = SectionsFrom(q, 2)
    BY <1>0, <2>1 DEF SectionsFrom
  <2> QED
    BY <1>1, <2>2 DEF Owed
<1>3. CASE r = Tail(q) /\ n = 0
  <2>1. LateFrom(r, 1) /\ SectionsFrom(r, 1) = SectionsFrom(q, 2)
    BY <1>1, <1>3, TailShape
  <2>2. r # <<>> => 1 \in DOMAIN r
    BY <1>3, HeadTailProperties, EmptySeq, LenProperties
  <2>3. ~HeaderFirst(r) /\ (r # <<>> => r[1].op # "Pass")
    BY <2>1, <2>2 DEF LateFrom, HeaderFirst
  <2>4. Owed(r) = [pcm |-> 0, sections |-> SectionsFrom(r, 1)]
    BY <2>3 DEF Owed
  <2> QED
    BY <1>2, <1>3, <2>1, <2>4 DEF Shaped
<1>4. CASE r = [q EXCEPT ![1].n = n]
  <2>1. /\ DOMAIN r = DOMAIN q /\ \A i \in DOMAIN q : i # 1 => r[i] = q[i]
        /\ r[1] = [q[1] EXCEPT !.n = n]
    BY <1>0, <1>4
  <2>2. r[1].op = q[1].op /\ r[1].n = n
    BY <1>0, <2>1 DEF FrameOp
  <2>3. LateFrom(r, 2) /\ (q[1].op = "Skip" => LateFrom(r, 1))
    <3>1. \A i \in DOMAIN r : i >= 2 => r[i] = q[i]
      BY <2>1
    <3>2. \A i, j \in DOMAIN r : i >= 2 /\ j > i => r[j] = q[j]
      BY <1>0, <2>1
    <3>3. LateFrom(r, 2)
      BY <1>1, <2>1, <3>1, <3>2 DEF LateFrom
    <3>4. q[1].op = "Skip" => LateFrom(r, 1)
      <4> SUFFICES ASSUME q[1].op = "Skip", NEW i \in DOMAIN r, i # 1 PROVE i >= 2
        BY <2>1, <2>2, <3>3 DEF LateFrom
      <4> QED
        BY <1>0, <2>1
    <3> QED
      BY <3>3, <3>4
  <2>4. SectionsFrom(r, 1) = SectionsFrom(q, 1)
    <3>1. \A j \in DOMAIN q : (r[j].op = "Emit") = (q[j].op = "Emit")
      BY <1>0, <2>1, <2>2
    <3>2. \A j \in DOMAIN q : r[j].op = "Emit" => r[j].sec = q[j].sec
      BY <1>0, <2>1, <2>2
    <3> QED
      BY <2>1, <3>1, <3>2 DEF SectionsFrom
  <2>5. r # <<>> /\ ~HeaderFirst(r)
    BY <1>0, <2>1, <2>2, EmptySeq DEF HeaderFirst
  <2>6. Owed(r) = [pcm |-> IF q[1].op = "Pass" THEN n ELSE 0, sections |-> SectionsFrom(r, 1)]
    BY <2>2, <2>5 DEF Owed
  <2>7. Shaped(r, b)
    BY <1>0, <2>2, <2>3, <2>5 DEF Shaped
  <2> QED
    BY <1>2, <2>4, <2>6, <2>7
<1> QED
  BY <1>3, <1>4

(* The header or section at the head goes out.                             *)
LEMMA EmitShaped ==
    ASSUME NEW q \in Seq(FrameOp), q # <<>>, q[1].op = "Emit", NEW b, Shaped(q, b)
    PROVE  /\ Shaped(Tail(q), b)
           /\ \/ /\ q[1].sec.kind = "hdr" /\ Owed(q) = [pcm |-> 0, sections |-> {}]
                 /\ Naa!Announced(q[1].sec.h, b, Owed(Tail(q)))
              \/ /\ q[1].sec.kind \in {"pos", "meta", "pic"} /\ Owed(q).pcm = 0
                 /\ q[1].sec \in Owed(q).sections
                 /\ \A t \in Owed(q).sections \ {q[1].sec} : Naa!Before(q[1].sec, t)
                 /\ Owed(Tail(q)) = [Owed(q) EXCEPT !.sections = @ \ {q[1].sec}]
<1> DEFINE r == Tail(q)
<1>1. /\ 1 \in DOMAIN q /\ \A i \in DOMAIN q : i \in Nat /\ (i # 1 => i > 1 /\ i >= 2)
      /\ r \in Seq(FrameOp) /\ (r # <<>> => 1 \in DOMAIN r)
      /\ \A i \in DOMAIN q : i # 1 => i - 1 \in DOMAIN r /\ r[i - 1] = q[i]
  <2>1. Len(q) \in Nat /\ 1 \in 1..Len(q) /\ DOMAIN q = 1..Len(q)
    BY EmptySeq, LenProperties
  <2>2. r \in Seq(FrameOp)
    BY HeadTailProperties
  <2>3. r # <<>> => 1 \in DOMAIN r
    BY <2>2, EmptySeq, LenProperties
  <2> QED
    BY <2>1, <2>2, <2>3, TailPlaces
<1>2. /\ LateFrom(q, 2) => LateFrom(r, 1)
      /\ LateFrom(q, 3) => LateFrom(r, 2)
      /\ SectionsFrom(r, 1) = SectionsFrom(q, 2)
  BY TailShape
<1> HIDE DEF r
<1>3. CASE LateFrom(q, 1)
  <2> DEFINE s == q[1].sec
  <2>1. /\ s.kind \in {"pos", "meta", "pic"}
        /\ \A j \in DOMAIN q : j > 1 /\ q[j].op = "Emit" => Naa!Before(s, q[j].sec)
    BY <1>1, <1>3 DEF LateFrom
  <2>2. LateFrom(q, 2)
    BY <1>1, <1>3 DEF LateFrom
  <2>3. LateFrom(r, 1) /\ Shaped(r, b)
    BY <1>2, <2>2 DEF Shaped
  <2>4. Owed(q) = [pcm |-> 0, sections |-> SectionsFrom(q, 1)]
    BY <2>1 DEF Owed, HeaderFirst
  <2>5. Owed(r) = [pcm |-> 0, sections |-> SectionsFrom(q, 2)]
    BY <1>1, <1>2, <2>3 DEF Owed, HeaderFirst, LateFrom
  <2>6. s \in SectionsFrom(q, 1) /\ SectionsFrom(q, 1) = SectionsFrom(q, 2) \cup {s}
    BY <1>1 DEF SectionsFrom
  <2>7. \A t \in SectionsFrom(q, 2) : Naa!Before(s, t)
    BY <1>1, <2>1 DEF SectionsFrom
  <2>8. s \notin SectionsFrom(q, 2)
    BY <2>7 DEF Naa!Before
  <2> HIDE DEF s
  <2>9. /\ \A t \in SectionsFrom(q, 1) \ {s} : Naa!Before(s, t)
        /\ SectionsFrom(q, 1) \ {s} = SectionsFrom(q, 2)
    BY <2>6, <2>7, <2>8
  <2> QED
    BY <2>1, <2>3, <2>4, <2>5, <2>6, <2>9 DEF s, r
<1>4. CASE /\ HeaderFirst(q) /\ 2 \in DOMAIN q /\ q[2].op = "Pass" /\ LateFrom(q, 3)
           /\ Naa!Announced(q[1].sec.h, b, [pcm |-> q[2].n, sections |-> SectionsFrom(q, 2)])
  <2>1. r[1] = q[2] /\ r # <<>>
    <3>1. 2 # 1 /\ 2 - 1 = 1 /\ 1 \in DOMAIN r /\ r[1] = q[2]
      BY <1>1, <1>4
    <3> QED
      BY <3>1, EmptySeq
  <2>2. Owed(r) = [pcm |-> q[2].n, sections |-> SectionsFrom(q, 2)]
    BY <1>2, <1>4, <2>1 DEF Owed, HeaderFirst
  <2>3. Shaped(r, b)
    BY <1>2, <1>4, <2>1 DEF Shaped
  <2> QED
    BY <1>4, <2>2, <2>3 DEF Owed, HeaderFirst, r
<1> QED
  BY <1>3, <1>4 DEF Shaped

LEMMA EmptyShaped == ASSUME NEW b PROVE Shaped(<<>>, b) /\ Owed(<<>>) = [pcm |-> 0, sections |-> {}]
<1>1. DOMAIN <<>> = {}
  BY EmptySeq
<1> QED
  BY <1>1 DEF Shaped, LateFrom, Owed, HeaderFirst, SectionsFrom

-----------------------------------------------------------------------------
(* The queue of a new frame is shaped: built by adding to header and audio *)
(* one operation after the other.                                          *)

Rank(s) == IF s.kind = "pos" THEN 1 ELSE IF s.kind = "meta" THEN 2 ELSE 3

Laid(q, o1, o2, r) ==
    /\ 1 \in DOMAIN q /\ q[1] = o1 /\ 2 \in DOMAIN q /\ q[2] = o2
    /\ LateFrom(q, 3)
    /\ \A i \in DOMAIN q : i >= 3 /\ q[i].op = "Emit" => Rank(q[i].sec) <= r

LEMMA LaidWhen ==
    ASSUME NEW S, NEW q \in Seq(S), NEW o1, NEW o2, NEW r \in Nat, Laid(q, o1, o2, r),
           NEW c, NEW o \in S, NEW t \in Nat, r <= t,
           c => \/ o.op = "Skip"
                \/ /\ o.op = "Emit" /\ o.sec.kind \in {"pos", "meta", "pic"}
                   /\ r < Rank(o.sec) /\ Rank(o.sec) <= t
    PROVE  q \o When(c, o) \in Seq(S) /\ Laid(q \o When(c, o), o1, o2, t)
<1>1. CASE ~c
  <2>1. q \o When(c, o) = q
    BY <1>1, EmptyRight DEF When
  <2>2. \A i \in DOMAIN q : i >= 3 /\ q[i].op = "Emit" => Rank(q[i].sec) <= t
    BY DEF Laid, Rank
  <2> QED
    BY <2>1, <2>2 DEF Laid
<1>2. CASE c
  <2> DEFINE u == Append(q, o)
             n == Len(q)
  <2>1. q \o When(c, o) = u /\ u \in Seq(S)
    BY <1>2, AppendIsConcat, AppendProperties DEF When
  <2>2. /\ n \in Nat /\ \A i \in DOMAIN q : i \in Nat /\ i \in DOMAIN u /\ u[i] = q[i] /\ n + 1 > i
        /\ n + 1 \in DOMAIN u /\ u[n + 1] = o
        /\ \A i \in DOMAIN u : i \in DOMAIN q \/ i = n + 1
    BY AppendPlaces, LenProperties
  <2> HIDE DEF u, n
  <2>3. \A i \in DOMAIN q : i >= 3 /\ q[i].op = "Emit" /\ o.op = "Emit" => Naa!Before(q[i].sec, o.sec)
    <3> TAKE i \in DOMAIN q
    <3> HAVE i >= 3 /\ q[i].op = "Emit" /\ o.op = "Emit"
    <3>1. q[i].sec.kind \in {"pos", "meta", "pic"} /\ Rank(q[i].sec) <= r
      BY DEF Laid, LateFrom
    <3>2. o.sec.kind \in {"pos", "meta", "pic"} /\ r < Rank(o.sec)
      BY <1>2
    <3> QED
      BY <3>1, <3>2 DEF Rank, Naa!Before
  <2>4. ASSUME NEW i \in DOMAIN u, i >= 3
        PROVE  \/ u[i].op = "Skip"
               \/ /\ u[i].op = "Emit" /\ u[i].sec.kind \in {"pos", "meta", "pic"}
                  /\ \A j \in DOMAIN u : j > i /\ u[j].op = "Emit" => Naa!Before(u[i].sec, u[j].sec)
    <3>1. CASE i = n + 1
      <4>1. \A j \in DOMAIN u : ~(j > i)
        BY <2>2, <3>1
      <4> QED
        BY <1>2, <2>2, <3>1, <4>1
    <3>2. CASE i \in DOMAIN q
      <4>1. CASE q[i].op = "Skip"
        BY <2>2, <3>2, <4>1
      <4>2. CASE q[i].op # "Skip"
        <5>1. /\ q[i].op = "Emit" /\ q[i].sec.kind \in {"pos", "meta", "pic"}
              /\ \A j \in DOMAIN q : j > i /\ q[j].op = "Emit" => Naa!Before(q[i].sec, q[j].sec)
          BY <2>4, <3>2, <4>2 DEF Laid, LateFrom
        <5>2. \A j \in DOMAIN u : j > i /\ u[j].op = "Emit" => Naa!Before(q[i].sec, u[j].sec)
          BY <2>2, <2>3, <2>4, <3>2, <5>1
        <5> QED
          BY <2>2, <3>2, <5>1, <5>2
      <4> QED
        BY <4>1, <4>2
    <3> QED
      BY <2>2, <3>1, <3>2
  <2>5. ASSUME NEW i \in DOMAIN u, i >= 3, u[i].op = "Emit"
        PROVE  Rank(u[i].sec) <= t
    <3>1. CASE i = n + 1
      BY <1>2, <2>2, <2>5, <3>1
    <3>2. CASE i \in DOMAIN q
      <4>1. Rank(q[i].sec) <= r /\ Rank(q[i].sec) \in Nat
        BY <2>2, <2>5, <3>2 DEF Laid, Rank
      <4> QED
        BY <2>2, <3>2, <4>1
    <3> QED
      BY <2>2, <3>1, <3>2
  <2>6. 1 \in DOMAIN u /\ u[1] = o1 /\ 2 \in DOMAIN u /\ u[2] = o2
    BY <2>2 DEF Laid
  <2>7. Laid(u, o1, o2, t)
    BY <2>4, <2>5, <2>6 DEF Laid, LateFrom
  <2> QED
    BY <2>1, <2>7
<1> QED
  BY <1>1, <1>2

LEMMA BuildLaid ==
    ASSUME NEW h
    PROVE  Laid(build_frame_ops(h), Emit(Hdr(Rewritten(h))), Pass(h.pcm * bytes_per_sample(bits)), 3)
<1> DEFINE o1 == Emit(Hdr(Rewritten(h)))
           o2 == Pass(h.pcm * bytes_per_sample(bits))
           o3 == Skip(h.pos)
           o4 == Emit(Pos(shared.pos))
           o5 == Skip(h.meta + h.pic)
           o6 == Emit(Meta(shared.key, bits))
           o7 == Emit(Pic(shared.cover))
           S == {o1, o2, o3, o4, o5, o6, o7}
           q2 == <<o1, o2>>
           a3 == q2 \o When(h.pos > 0, o3)
           a4 == a3 \o When(NewPos, o4)
           a5 == a4 \o When(h.meta + h.pic > 0, o5)
           a6 == a5 \o When(content_changed, o6)
           a7 == a6 \o When(NewPic, o7)
<1>1. build_frame_ops(h) = a7
  BY DEF build_frame_ops
<1>2. /\ o3.op = "Skip" /\ o5.op = "Skip"
      /\ o4.op = "Emit" /\ o4.sec.kind = "pos" /\ Rank(o4.sec) = 1
      /\ o6.op = "Emit" /\ o6.sec.kind = "meta" /\ Rank(o6.sec) = 2
      /\ o7.op = "Emit" /\ o7.sec.kind = "pic" /\ Rank(o7.sec) = 3
  BY DEF Skip, Emit, Pos, Meta, Pic, Rank
<1> HIDE DEF o1, o2, o3, o4, o5, o6, o7
<1>3. o3 \in S /\ o4 \in S /\ o5 \in S /\ o6 \in S /\ o7 \in S /\ q2 \in Seq(S)
  OBVIOUS
<1>4. Laid(q2, o1, o2, 0)
  BY DEF Laid, LateFrom
<1> HIDE DEF S, q2
<1>5. a3 \in Seq(S) /\ Laid(a3, o1, o2, 0)
  BY <1>2, <1>3, <1>4, LaidWhen
<1> HIDE DEF a3
<1>6. a4 \in Seq(S) /\ Laid(a4, o1, o2, 1)
  BY <1>2, <1>3, <1>5, LaidWhen
<1> HIDE DEF a4
<1>7. a5 \in Seq(S) /\ Laid(a5, o1, o2, 1)
  BY <1>2, <1>3, <1>6, LaidWhen
<1> HIDE DEF a5
<1>8. a6 \in Seq(S) /\ Laid(a6, o1, o2, 2)
  BY <1>2, <1>3, <1>7, LaidWhen
<1> HIDE DEF a6
<1>9. Laid(a7, o1, o2, 3)
  BY <1>2, <1>3, <1>8, LaidWhen
<1> HIDE DEF a7
<1> QED
  BY <1>1, <1>9 DEF o1, o2

(* The header says of the body what build_frame_ops queues.                *)
LEMMA HeaderTells ==
    ASSUME TypeOK, NEW h \in FrameHeader
    PROVE  Naa!Announced(Rewritten(h), bits,
                         [pcm |-> h.pcm * bytes_per_sample(bits), sections |-> NewSections])
<1> DEFINE kinds == {s.kind : s \in NewSections}
           g == Rewritten(h)
<1>1. /\ ("pos" \in kinds) = NewPos
      /\ ("meta" \in kinds) = content_changed
      /\ ("pic" \in kinds) = NewPic
      /\ kinds \subseteq {"pos", "meta", "pic"}
      /\ \A s, t \in NewSections : s.kind = t.kind => s = t
      /\ \A s \in NewSections : s.kind = "meta" => s.bits = bits
  <2>1. /\ \A s \in NewSections :
              /\ s.kind \in {"pos", "meta", "pic"}
              /\ s.kind = "pos" => NewPos /\ s = Pos(shared.pos)
              /\ s.kind = "meta" => content_changed /\ s = Meta(shared.key, bits)
              /\ s.kind = "pic" => NewPic /\ s = Pic(shared.cover)
        /\ NewPos => Pos(shared.pos) \in NewSections
        /\ content_changed => Meta(shared.key, bits) \in NewSections
        /\ NewPic => Pic(shared.cover) \in NewSections
    BY DEF NewSections, Pos, Meta, Pic
  <2>2. /\ Pos(shared.pos).kind = "pos" /\ Pic(shared.cover).kind = "pic"
        /\ Meta(shared.key, bits).kind = "meta" /\ Meta(shared.key, bits).bits = bits
    BY DEF Pos, Meta, Pic
  <2>3. NewPos \in BOOLEAN /\ content_changed \in BOOLEAN /\ NewPic \in BOOLEAN
    BY DEF NewPos, content_changed, NewPic
  <2>4. /\ "pos" \in kinds <=> NewPos
        /\ "meta" \in kinds <=> content_changed
        /\ "pic" \in kinds <=> NewPic
        /\ kinds \subseteq {"pos", "meta", "pic"}
    BY <2>1, <2>2
  <2>5. /\ \A s, t \in NewSections : s.kind = t.kind => s = t
        /\ \A s \in NewSections : s.kind = "meta" => s.bits = bits
    BY <2>1, <2>2
  <2> QED
    BY <2>3, <2>4, <2>5
<1>2. NewPic => content_changed
  BY DEF NewPic
<1>3. /\ g.mask \subseteq Naa!Bits /\ g.pcm = h.pcm
      /\ g.pos = (IF NewPos THEN PosLen ELSE 0)
      /\ g.meta = (IF content_changed THEN MetaLen ELSE 0)
      /\ g.pic = (IF NewPic THEN PicLen ELSE 0)
      /\ ("POS" \in g.mask) = NewPos
      /\ ("META" \in g.mask) = content_changed
      /\ ("PIC" \in g.mask) = NewPic
  BY DEF Rewritten, FrameHeader, Bits, Naa!Bits, NewPos, content_changed, NewPic
<1>4. Naa!bytes_per_sample(bits) = bytes_per_sample(bits)
  BY DEF Naa!bytes_per_sample, bytes_per_sample
<1> HIDE DEF g
<1> QED
  BY <1>1, <1>2, <1>3, <1>4 DEF Naa!Announced, g

LEMMA BuildShaped ==
    ASSUME TypeOK, NEW h \in FrameHeader, NEW q, q = build_frame_ops(h)
    PROVE  HeaderFirst(q) /\ Shaped(q, bits)
<1> DEFINE o1 == Emit(Hdr(Rewritten(h)))
           n == h.pcm * bytes_per_sample(bits)
<1>1. Laid(q, o1, Pass(n), 3)
  BY BuildLaid
<1>2. /\ 1 \in DOMAIN q /\ q[1] = o1 /\ 2 \in DOMAIN q /\ q[2] = Pass(n) /\ LateFrom(q, 3)
  BY <1>1 DEF Laid
<1>3. o1.op = "Emit" /\ o1.sec.kind = "hdr" /\ o1.sec.h = Rewritten(h)
  BY DEF Emit, Hdr
<1>4. Pass(n).op = "Pass" /\ Pass(n).n = n
  BY DEF Pass
<1>5. q \in Seq(FrameOp) /\ \A i \in DOMAIN q : i \in Nat /\ (i # 1 => i >= 2) /\ (i > 2 => i >= 3)
  BY BuildType, LenProperties
<1>6. HeaderFirst(q)
  BY <1>2, <1>3, EmptySeq DEF HeaderFirst
<1>7. SectionsFrom(q, 2) = NewSections
  <2>1. ASSUME NEW i \in DOMAIN q, i >= 2, q[i].op = "Emit"
        PROVE  q[i].sec \in NewSections
    <3>1. i # 2
      BY <1>2, <1>4, <2>1
    <3>2. q[i].sec.kind \in {"pos", "meta", "pic"}
      BY <1>2, <1>5, <2>1, <3>1 DEF LateFrom
    <3>3. q[i].sec # Hdr(Rewritten(h))
      BY <3>2 DEF Hdr
    <3> QED
      BY <2>1, <3>3, BuildSections
  <2>2. ASSUME NEW sec \in NewSections
        PROVE  sec \in SectionsFrom(q, 2)
    <3>1. PICK i \in DOMAIN q : q[i].op = "Emit" /\ q[i].sec = sec
      BY BuildSections
    <3>2. sec.kind # "hdr"
      BY DEF NewSections, Pos, Meta, Pic
    <3>3. i >= 2
      BY <1>2, <1>3, <1>5, <3>1, <3>2
    <3> QED
      BY <3>1, <3>3 DEF SectionsFrom
  <2> QED
    BY <2>1, <2>2 DEF SectionsFrom
<1>8. Naa!Announced(q[1].sec.h, bits, [pcm |-> q[2].n, sections |-> SectionsFrom(q, 2)])
  BY <1>2, <1>3, <1>4, <1>7, HeaderTells
<1> QED
  BY <1>2, <1>4, <1>6, <1>8 DEF Shaped

(* What is left of the operation at the head after it has taken bytes.     *)
LEMMA ConsumeLeaves ==
    ASSUME TypeOK, ops # <<>>, ops[1].op # "Emit", Consume(ops[1].n)
    PROVE  /\ ops[1].n \in Nat /\ at \in Nat /\ at' \in Nat /\ at <= at'
           /\ at' - at <= ops[1].n
           /\ \E n \in Nat : /\ n = ops[1].n - (at' - at)
                             /\ (ops' = Tail(ops) /\ n = 0) \/ ops' = [ops EXCEPT ![1].n = n]
<1>1. /\ ops \in Seq(FrameOp) /\ ops[1] \in FrameOp /\ at \in Nat /\ lim \in Nat /\ at <= lim
  BY Stream, EmptySeq, ElementOfSeq, LenProperties DEF TypeOK
<1> DEFINE m == ops[1].n
           take == Least(m, lim - at)
<1>2. m \in Nat /\ take \in Nat /\ take <= m /\ m - take \in Nat
  BY <1>1 DEF FrameOp, Least
<1>3. at' = at + take
  BY DEF Consume
<1>4. (ops' = Tail(ops) /\ take = m) \/ ops' = [ops EXCEPT ![1].n = m - take]
  BY DEF Consume
<1>5. PICK n \in Nat : n = m - take
  BY <1>2
<1>6. /\ at' \in Nat /\ at <= at' /\ at' - at = take
  BY <1>1, <1>2, <1>3
<1>7. (ops' = Tail(ops) /\ n = 0) \/ ops' = [ops EXCEPT ![1].n = n]
  BY <1>2, <1>4, <1>5
<1> HIDE DEF take, m
<1> QED
  BY <1>1, <1>2, <1>5, <1>6, <1>7 DEF m

(* The inductive invariant.                                                *)
Shape == Running => Shaped(ops, bits)

LEMMA ShapeStep ==
    ASSUME IInv, TypeOK', Shape, [Next]_vars
    PROVE  Shape'
<1> SUFFICES ASSUME Running' PROVE Shaped(ops', bits')
  BY DEF Shape
<1>1. CASE Read \/ ReadEnds \/ AccumulateHeader \/ Resume \/ DrainDone \/ FlushOut \/ Set \/ UNCHANGED vars
  <2>1. UNCHANGED <<ops, bits>> /\ Running
    BY <1>1 DEF Read, ReadEnds, AccumulateHeader, Resume, DrainDone, FlushOut, WriteAll, Set, vars, Running
  <2> QED
    BY <2>1 DEF Shape
<1>2. CASE HandlesXml
  BY <1>2, XmlWritten, EmptyShaped
<1>3. CASE TopOfBuffer /\ ~HandlesXml
  <2>1. UNCHANGED <<ops, bits>> /\ Running
    BY <1>3 DEF TopOfBuffer, HandlesXml, Running
  <2> QED
    BY <2>1 DEF Shape
<1>4. CASE CompleteHeader
  <2>1. UNCHANGED bits /\ \E h \in FrameHeader : ops' = build_frame_ops(h)
    BY <1>4, FrameStarts
  <2> QED
    BY <2>1, BuildShaped DEF IInv
<1>5. CASE DrainPass \/ DrainSkip
  <2>1. /\ Running /\ UNCHANGED bits /\ ops # <<>> /\ ops[1].op # "Emit" /\ Consume(ops[1].n)
    BY <1>5 DEF DrainPass, DrainSkip, Running
  <2>2. PICK n \in Nat : (ops' = Tail(ops) /\ n = 0) \/ ops' = [ops EXCEPT ![1].n = n]
    BY <2>1, ConsumeLeaves DEF IInv
  <2>3. ops \in Seq(FrameOp) /\ Shaped(ops, bits)
    BY <2>1 DEF Shape, IInv, TypeOK
  <2> QED
    BY <2>1, <2>2, <2>3, TakeShaped
<1>6. CASE DrainEmit
  <2>1. ops # <<>> /\ ops[1].op = "Emit" /\ ops' = Tail(ops) /\ UNCHANGED bits /\ Running
    BY <1>6 DEF DrainEmit, Running
  <2>2. ops \in Seq(FrameOp) /\ Shaped(ops, bits)
    BY <2>1 DEF Shape, IInv, TypeOK
  <2> QED
    BY <2>1, <2>2, EmitShaped
<1> QED
  BY <1>1, <1>2, <1>3, <1>4, <1>5, <1>6 DEF Next, Process, HandlesXml

-----------------------------------------------------------------------------
(* What the NAA hears, as tokens.                                          *)

Tokens(s) == [i \in DOMAIN s |-> Token(s[i])]

LEMMA HeardIs == heardByNaa = Tokens(Emitted) /\ (wire' = wire => heardByNaa' = Tokens(Emitted'))
BY DEF heardByNaa, Tokens, Token

(* A sequence that goes on where another ends.                             *)
LEMMA LongerHeard ==
    ASSUME NEW s \in Seq(Element), NEW u \in Seq(Element), Len(s) <= Len(u),
           \A i \in 1..Len(s) : u[i] = s[i]
    PROVE  /\ Len(Tokens(s)) = Len(s) /\ Len(Tokens(u)) = Len(u)
           /\ \A i \in 1..Len(u) : Tokens(u)[i] = Token(u[i])
           /\ Naa!IsPrefix(Tokens(s), Tokens(u))
           /\ Len(s) < Len(u) => Naa!IsStrictPrefix(Tokens(s), Tokens(u))
<1> DEFINE T == {Token(e) : e \in Element}
           n == Len(s)
<1>1. /\ n \in Nat /\ Len(u) \in Nat /\ DOMAIN s = 1..n /\ DOMAIN u = 1..Len(u)
      /\ \A i \in 1..n : s[i] \in Element
      /\ \A i \in 1..Len(u) : u[i] \in Element
  BY LenProperties, ElementOfSeq
<1>2. /\ \A i \in 1..n : Tokens(s)[i] = Token(s[i]) /\ Tokens(s)[i] \in T
      /\ \A i \in 1..Len(u) : Tokens(u)[i] = Token(u[i]) /\ Tokens(u)[i] \in T
  BY <1>1 DEF Tokens
<1>3. Tokens(s) \in Seq(T) /\ Tokens(u) \in Seq(T)
  <2>1. (\A i \in 1..n : Token(s[i]) \in T) /\ (\A i \in 1..Len(u) : Token(u[i]) \in T)
    BY <1>1
  <2> HIDE DEF T, n
  <2>2. [i \in 1..n |-> Token(s[i])] \in Seq(T)
    BY <1>1, <2>1, IsASeq
  <2>3. [i \in 1..Len(u) |-> Token(u[i])] \in Seq(T)
    BY <1>1, <2>1, IsASeq
  <2> QED
    BY <1>1, <2>2, <2>3 DEF Tokens
<1>4. Len(Tokens(s)) = n /\ Len(Tokens(u)) = Len(u)
  BY <1>1, <1>3, LenProperties DEF Tokens
<1>5. \A i \in 1..n : i \in 1..Len(u) /\ Tokens(s)[i] = Tokens(u)[i]
  BY <1>1, <1>2
<1> DEFINE ts == Tokens(s)
           tu == Tokens(u)
<1> HIDE DEF T, n, ts, tu
<1>6. \A v \in Seq(T) : Len(v) >= n /\ (\A i \in 1..n : v[i] \in T) =>
         /\ SubSeq(v, 1, n) \in Seq(T) /\ Len(SubSeq(v, 1, n)) = n
         /\ \A i \in 1..n : SubSeq(v, 1, n)[i] = v[i]
  <2>1. 1 \in Int /\ n \in Int /\ (IF 1 <= n THEN n - 1 + 1 ELSE 0) = n
    BY <1>1
  <2> TAKE v \in Seq(T)
  <2> HAVE Len(v) >= n /\ \A i \in 1..n : v[i] \in T
  <2>2. /\ SubSeq(v, 1, n) \in Seq(T)
        /\ Len(SubSeq(v, 1, n)) = IF 1 <= n THEN n - 1 + 1 ELSE 0
        /\ \A i \in 1..(n - 1 + 1) : SubSeq(v, 1, n)[i] = v[1 + i - 1]
    BY <2>1, SubSeqProperties
  <2>3. n - 1 + 1 = n /\ \A i \in 1..n : 1 + i - 1 = i
    BY <1>1
  <2> QED
    BY <2>1, <2>2, <2>3
<1>7. SubSeq(ts, 1, n) = SubSeq(tu, 1, n)
  <2>1. ts \in Seq(T) /\ Len(ts) = n /\ tu \in Seq(T) /\ Len(tu) = Len(u) /\ Len(tu) >= n /\ Len(ts) >= n
    BY <1>1, <1>3, <1>4 DEF ts, tu, n
  <2>2. /\ \A i \in 1..n : ts[i] \in T /\ tu[i] \in T /\ ts[i] = tu[i]
    BY <1>2, <1>5 DEF ts, tu
  <2>3. /\ SubSeq(ts, 1, n) \in Seq(T) /\ Len(SubSeq(ts, 1, n)) = n
        /\ SubSeq(tu, 1, n) \in Seq(T) /\ Len(SubSeq(tu, 1, n)) = n
        /\ \A i \in 1..n : SubSeq(ts, 1, n)[i] = SubSeq(tu, 1, n)[i]
    BY <1>6, <2>1, <2>2
  <2> QED
    BY <2>3, SeqEqual
<1>8. Naa!IsPrefix(ts, tu)
  BY <1>1, <1>4, <1>7 DEF Naa!IsPrefix, ts, tu, n
<1>9. Len(s) < Len(u) => Naa!IsStrictPrefix(ts, tu)
  <2>1. Len(s) < Len(u) => ts # tu
    BY <1>1, <1>4 DEF ts, tu, n
  <2> QED
    BY <1>8, <2>1 DEF Naa!IsStrictPrefix
<1> QED
  BY <1>2, <1>4, <1>8, <1>9 DEF ts, tu, n

-----------------------------------------------------------------------------
(* Each step of the proxy is one of NaaStream, or tells the NAA nothing.   *)

Untold == UNCHANGED <<heardByNaa, owedToNaa, bits, Running>>

LEMMA NothingOwed ==
    ASSUME ops = <<>>
    PROVE  owedToNaa = Naa!Nothing
<1>1. ops \in Seq(FrameOp)
  BY EmptySeq
<1> QED
  BY <1>1, OwedIs, EmptyShaped DEF Naa!Nothing

LEMMA OwedThen ==
    ASSUME TypeOK, TypeOK'
    PROVE  owedToNaa = Owed(ops) /\ owedToNaa' = Owed(ops')
<1>1. ASSUME NEW q \in Seq(FrameOp)
      PROVE  /\ \A j \in DOMAIN q : j >= 1
             /\ {q[i].sec : i \in {k \in DOMAIN q : q[k].op = "Emit"}} = SectionsFrom(q, 1)
  <2>1. \A j \in DOMAIN q : j >= 1
    BY LenProperties
  <2> QED
    BY <2>1 DEF SectionsFrom
<1>2. PICK q : q = ops' /\ q \in Seq(FrameOp)
  BY DEF TypeOK, FrameOp, Section
<1>3. owedToNaa' = Owed(q)
  BY <1>1, <1>2 DEF owedToNaa, HeaderQueued, PendingSections, Owed, HeaderFirst
<1> QED
  BY <1>2, <1>3, OwedIs DEF TypeOK

(* The first n of a sequence.                                              *)
LEMMA CutIs ==
    ASSUME NEW S, NEW t \in Seq(S), NEW n \in 0..Len(t)
    PROVE  LET c == SubSeq(t, 1, n)
           IN  n \in Nat /\ n <= Len(t) /\ c \in Seq(S) /\ Len(c) = n /\ \A i \in 1..n : c[i] = t[i]
<1>1. Len(t) \in Nat /\ n \in Nat /\ n <= Len(t) /\ \A i \in 1..n : t[i] \in S
  <2>1. Len(t) \in Nat
    BY LenProperties
  <2>2. \A i \in 1..n : i \in 1..Len(t)
    BY <2>1
  <2> QED
    BY <2>1, <2>2, ElementOfSeq
<1>2. /\ 1 \in Int /\ n \in Int /\ (IF 1 <= n THEN n - 1 + 1 ELSE 0) = n
      /\ n - 1 + 1 = n /\ \A i \in 1..n : 1 + i - 1 = i
  BY <1>1
<1>3. /\ SubSeq(t, 1, n) \in Seq(S)
      /\ Len(SubSeq(t, 1, n)) = IF 1 <= n THEN n - 1 + 1 ELSE 0
      /\ \A i \in 1..(n - 1 + 1) : SubSeq(t, 1, n)[i] = t[1 + i - 1]
  BY <1>1, <1>2, SubSeqProperties
<1> QED
  BY <1>1, <1>2, <1>3

(* The units of the message handled, and the width it sets.                *)
LEMMA XmlUnits ==
    ASSUME IInv, HandlesXml, handle_xml(at, find_xml_end(at, lim))
    PROVE  LET m == wire[at + 1].msg
               end == find_xml_end(at, lim)
           IN  /\ m \in Message /\ m.type = "xml" /\ bits' = m.bits
               /\ \A r \in (at + 1)..end : wire[r].msg = m
               /\ bits' = bits \/ (at + 2 <= end /\ IsStart(wire[at + 2]))
<1> DEFINE end == find_xml_end(at, lim)
           m == wire[at + 1].msg
<1>1. /\ IsStream(wire) /\ Len(wire) \in Nat /\ at \in Nat /\ lim \in Nat /\ at < Len(wire)
      /\ lim <= Len(wire) /\ at < lim
      /\ Running /\ ops = <<>> /\ header_buf = 0 /\ IsXml(wire[at + 1])
  BY Stream, XmlAhead DEF IInv
<1>2. /\ AtBoundary(wire, at) /\ bits = InForce(wire, at)
      /\ lim < Len(wire) /\ IsXml(wire[lim + 1]) => wire[lim + 1].off = 1
  BY <1>1 DEF IInv, Placed
<1>3. wire[at + 1].off = 1 /\ (m.bits = bits \/ m.start)
  BY <1>1, <1>2, NextUnit
<1>4. end = at + Size(m)
  BY <1>1, <1>2, <1>3, XmlEnd
<1>5. /\ m \in Message /\ m.type = "xml" /\ Size(m) \in {4, 5}
      /\ \A k \in 1..Size(m) : wire[at + k] = [msg |-> m, off |-> k]
  BY <1>1, <1>3, MessageAfter, SizeType DEF IsXml
<1>6. bits' = m.bits
  <2>1. handle_xml(at, at + Size(m))
    BY <1>4
  <2> QED
    BY <1>1, <1>3, <2>1, XmlHandled
<1> HIDE DEF m, end
<1>7. ASSUME NEW r \in (at + 1)..end PROVE wire[r].msg = m
  <2>1. r - at \in 1..Size(m) /\ at + (r - at) = r
    BY <1>1, <1>4, <1>5, <1>7
  <2>2. wire[at + (r - at)] = [msg |-> m, off |-> r - at]
    BY <1>5, <2>1
  <2> QED
    BY <2>1, <2>2
<1>8. m.start => at + 2 <= end /\ IsStart(wire[at + 2])
  <2>1. 2 \in 1..Size(m) /\ at + 2 <= end
    BY <1>1, <1>4, <1>5
  <2>2. wire[at + 2] = [msg |-> m, off |-> 2]
    BY <1>5, <2>1
  <2> QED
    BY <1>5, <2>1, <2>2 DEF IsStart, IsXml
<1>9. bits' = bits \/ (at + 2 <= end /\ IsStart(wire[at + 2]))
  BY <1>3, <1>6, <1>8
<1> QED
  BY <1>5, <1>6, <1>7, <1>9 DEF m, end

LEMMA XmlTokens ==
    ASSUME NEW e \in Byte, wire[e.at].msg \in Message, wire[e.at].msg.type = "xml"
    PROVE  /\ Token(e) \in Naa!XmlToken /\ Token(e).bits = wire[e.at].msg.bits
           /\ Token(e).start = IsStart(wire[e.at])
<1>1. IsXml(wire[e.at]) /\ e.kind = "src"
  BY DEF IsXml, Byte
<1>2. wire[e.at].msg \in XmlMessage
  BY DEF Message, FrameMessage
<1>3. wire[e.at].msg.start \in BOOLEAN /\ wire[e.at].msg.bits \in Nat
  BY <1>2 DEF XmlMessage
<1>4. IsStart(wire[e.at]) \in BOOLEAN
  BY <1>3, Zenon DEF IsStart
<1>5. Token(e) = [kind |-> "xml", start |-> IsStart(wire[e.at]), bits |-> wire[e.at].msg.bits]
  BY <1>1 DEF Token
<1> HIDE DEF IsStart
<1> QED
  BY <1>3, <1>4, <1>5 DEF Naa!XmlToken

(* An XML message goes out between frames; if the connection breaks there, *)
(* perhaps only the beginning of it.                                       *)
LEMMA StepXml ==
    ASSUME IInv, TypeOK', HandlesXml
    PROVE  Naa!Xml \/ Naa!Break
<1> DEFINE end == find_xml_end(at, lim)
           x == Src(at, end)
<1>1. /\ end \in Nat /\ at < end /\ end <= lim /\ handle_xml(at, end) /\ wire' = wire
      /\ ops' = <<>> /\ ops = <<>> /\ Running /\ x \in Seq(Element)
      /\ \/ Running' /\ Emitted' = Emitted \o x
         \/ ~Running' /\ \E n \in 0..Len(Emitted \o x) : Emitted' = SubSeq(Emitted \o x, 1, n)
  BY XmlWritten, XmlAhead
<1>2. PICK b : b = bits' /\ b \in Nat
  BY DEF TypeOK
<1>3. \A r \in (at + 1)..end : /\ wire[r].msg \in Message /\ wire[r].msg.type = "xml"
                               /\ wire[r].msg.bits = b
  BY <1>1, <1>2, XmlUnits
<1>s. b = bits \/ (at + 2 <= end /\ IsStart(wire[at + 2]))
  BY <1>1, <1>2, XmlUnits
<1>4. /\ Len(wire) \in Nat /\ at \in Nat /\ lim \in Nat /\ lim <= Len(wire)
      /\ Emitted \in Seq(Element)
  BY Stream, EmittedType DEF IInv
<1> HIDE DEF end
<1>5. /\ Len(x) = end - at
      /\ \A k \in 1..(end - at) : /\ x[k] \in Byte
                                  /\ Token(x[k]) \in Naa!XmlToken /\ Token(x[k]).bits = b
                                  /\ Token(x[k]).start = IsStart(wire[at + k])
  <2>1. /\ Len(x) = end - at
        /\ \A k \in 1..(end - at) : x[k] = [kind |-> "src", at |-> at + k]
    <3>1. end \in Nat /\ at \in Nat /\ at <= end /\ Len(wire) \in Nat /\ end <= Len(wire)
      BY <1>1, <1>4
    <3> QED
      BY <3>1, SrcProperties
  <2> HIDE DEF x
  <2>2. ASSUME NEW k \in 1..(end - at)
        PROVE  /\ x[k] \in Byte /\ Token(x[k]) \in Naa!XmlToken /\ Token(x[k]).bits = b
               /\ Token(x[k]).start = IsStart(wire[at + k])
    <3>1. at + k \in (at + 1)..end /\ at + k \in 1..Len(wire)
      BY <1>1, <1>4
    <3>2. x[k] \in Byte /\ x[k].at = at + k
      BY <2>1, <3>1 DEF Byte
    <3> QED
      BY <1>3, <3>1, <3>2, XmlTokens
  <2> QED
    BY <2>1, <2>2
<1> HIDE DEF x
<1>6. PICK s, u, all : s = Emitted /\ u = Emitted' /\ all = Emitted \o x
  OBVIOUS
<1>7. /\ s \in Seq(Element) /\ all \in Seq(Element) /\ Len(s) \in Nat
      /\ Len(all) = Len(s) + (end - at)
      /\ \A i \in 1..Len(all) : all[i] = IF i <= Len(s) THEN s[i] ELSE x[i - Len(s)]
  <2>1. s \in Seq(Element) /\ x \in Seq(Element) /\ all = s \o x /\ Len(x) = end - at
    BY <1>1, <1>4, <1>5, <1>6 DEF x
  <2>2. /\ all \in Seq(Element) /\ Len(all) = Len(s) + Len(x)
        /\ \A i \in 1..(Len(s) + Len(x)) : all[i] = IF i <= Len(s) THEN s[i] ELSE x[i - Len(s)]
    BY <2>1, ConcatProperties
  <2>3. Len(s) \in Nat
    BY <2>1, LenProperties
  <2> QED
    BY <2>1, <2>2, <2>3
<1>8. u \in Seq(Element)
  <2>1. Emitted' \in Seq(Element)
    <3>1. /\ dst' \in Seq(Element) /\ out' \in Seq(Element)
      BY <1>1 DEF TypeOK, Element, Byte, Section
    <3> QED
      BY <3>1, ConcatProperties DEF Emitted
  <2> QED
    BY <1>6, <2>1
<1>9. /\ heardByNaa = Tokens(s) /\ heardByNaa' = Tokens(u)
      /\ owedToNaa = Naa!Nothing /\ owedToNaa' = owedToNaa
  <2>1. owedToNaa' = Naa!Nothing
    BY <1>1, EmptyShaped, OwedThen DEF IInv, Naa!Nothing
  <2> QED
    BY <1>1, <1>6, <2>1, HeardIs, NothingOwed
(* As long as all of s is there, what comes behind it is XML.              *)
<1>10. ASSUME NEW n \in Nat, Len(u) = n, Len(s) < n, n <= Len(all),
              \A i \in 1..n : u[i] = all[i]
       PROVE  /\ Naa!GrowsBy(Naa!XmlToken)
              /\ Len(heardByNaa) = Len(s) /\ Len(heardByNaa') = n
              /\ \A i \in (Len(s) + 1)..n :
                   /\ heardByNaa'[i].bits = b
                   /\ heardByNaa'[i].start = IsStart(wire[at + (i - Len(s))])
  <2>1. \A i \in 1..Len(s) : u[i] = s[i]
    BY <1>7, <1>10
  <2>2. /\ Len(Tokens(s)) = Len(s) /\ Len(Tokens(u)) = n
        /\ \A i \in 1..n : Tokens(u)[i] = Token(u[i])
        /\ Naa!IsStrictPrefix(Tokens(s), Tokens(u))
    <3>1. s \in Seq(Element) /\ u \in Seq(Element) /\ Len(s) <= Len(u) /\ Len(s) < Len(u)
      BY <1>7, <1>8, <1>10
    <3> QED
      BY <1>10, <2>1, <3>1, LongerHeard
  <2>3. ASSUME NEW i \in (Len(s) + 1)..n
        PROVE  /\ Tokens(u)[i] \in Naa!XmlToken /\ Tokens(u)[i].bits = b
               /\ Tokens(u)[i].start = IsStart(wire[at + (i - Len(s))])
    <3>1. i \in 1..n /\ i \in 1..Len(all) /\ ~(i <= Len(s)) /\ i - Len(s) \in 1..(end - at)
      BY <1>1, <1>4, <1>7, <1>10
    <3>2. Tokens(u)[i] = Token(x[i - Len(s)])
      BY <1>7, <1>10, <2>2, <3>1
    <3> QED
      BY <1>5, <3>1, <3>2
  <2> QED
    BY <1>9, <2>2, <2>3 DEF Naa!GrowsBy
<1>11. CASE Running'
  <2>1. u = all /\ Len(u) \in Nat /\ Len(s) < Len(u)
    BY <1>1, <1>4, <1>6, <1>7, <1>11
  <2>2. /\ Naa!GrowsBy(Naa!XmlToken)
        /\ Len(heardByNaa) = Len(s) /\ Len(heardByNaa') = Len(u)
        /\ \A i \in (Len(s) + 1)..Len(u) :
             /\ heardByNaa'[i].bits = b
             /\ heardByNaa'[i].start = IsStart(wire[at + (i - Len(s))])
    BY <1>7, <1>10, <2>1
  <2>3. bits' = IF Naa!StartsHeard = {} THEN bits ELSE heardByNaa'[Naa!Max(Naa!StartsHeard)].bits
    <3>1. PICK P, h : /\ P = Naa!StartsHeard /\ h = heardByNaa'
                      /\ P = {i \in (Len(s) + 1)..Len(u) : h[i].start}
      BY <2>2 DEF Naa!StartsHeard
    <3>2. CASE P = {}
      <4>1. ~(at + 2 <= end /\ IsStart(wire[at + 2]))
        <5> SUFFICES ASSUME at + 2 <= end, IsStart(wire[at + 2]) PROVE FALSE
          OBVIOUS
        <5>1. Len(s) + 2 \in (Len(s) + 1)..Len(u) /\ Len(s) + 2 - Len(s) = 2
          BY <1>1, <1>4, <1>7, <2>1
        <5>2. h[Len(s) + 2].start
          BY <2>2, <3>1, <5>1
        <5> QED
          BY <3>1, <3>2, <5>1, <5>2
      <4> QED
        BY <1>2, <1>s, <3>1, <3>2, <4>1
    <3>3. CASE P # {}
      <4>1. P \subseteq 1..Len(u)
        BY <1>7, <3>1
      <4>2. Naa!Max(P) \in P
        BY <2>1, <3>3, <4>1, MaxOfPlaces DEF Naa!Max, Max
      <4>3. h[Naa!Max(P)].bits = b
        BY <2>2, <3>1, <4>2
      <4> QED
        BY <1>2, <3>1, <3>3, <4>3
    <3> QED
      BY <3>2, <3>3
  <2> QED
    BY <1>1, <1>9, <1>11, <2>2, <2>3 DEF Naa!Xml
<1>12. CASE ~Running'
  <2>1. PICK n \in 0..Len(all) : u = SubSeq(all, 1, n)
    BY <1>1, <1>6, <1>12
  <2>2. /\ n \in Nat /\ n <= Len(all) /\ Len(u) = n /\ \A i \in 1..n : u[i] = all[i]
    BY <1>1, <1>4, <1>7, <2>1, CutIs
  <2>3. CASE n <= Len(s)
    <3>1. \A i \in 1..Len(u) : s[i] = u[i]
      BY <1>7, <2>2, <2>3
    <3>2. Naa!IsPrefix(Tokens(u), Tokens(s))
      BY <1>7, <1>8, <2>2, <2>3, <3>1, LongerHeard
    <3> QED
      BY <1>1, <1>2, <1>9, <1>12, <3>2 DEF Naa!Break
  <2>4. CASE ~(n <= Len(s))
    <3>1. Naa!GrowsBy(Naa!XmlToken)
      BY <1>7, <1>10, <2>2, <2>4
    <3> QED
      BY <1>1, <1>2, <1>9, <1>12, <3>1 DEF Naa!Break
  <2> QED
    BY <2>3, <2>4
<1> QED
  BY <1>11, <1>12

(* A section goes out behind what the NAA heard.                           *)
LEMMA SectionHeard ==
    ASSUME NEW s \in Seq(Element), NEW e \in Section, NEW u, u = s \o <<e>>
    PROVE  /\ Tokens(u) = Append(Tokens(s), e)
           /\ Naa!IsStrictPrefix(Tokens(s), Tokens(u))
           /\ Len(Tokens(u)) = Len(Tokens(s)) + 1 /\ Tokens(u)[Len(Tokens(u))] = e
<1>1. /\ e \in Element /\ Token(e) = e
  BY DEF Element, Section, Token
<1>2. /\ <<e>> \in Seq(Element) /\ Len(<<e>>) = 1 /\ <<e>>[1] = e
  BY <1>1
<1>3. /\ u \in Seq(Element) /\ Len(u) = Len(s) + 1 /\ Len(s) \in Nat
      /\ \A i \in 1..(Len(s) + 1) : u[i] = IF i <= Len(s) THEN s[i] ELSE <<e>>[i - Len(s)]
  <2>1. /\ u \in Seq(Element) /\ Len(u) = Len(s) + Len(<<e>>)
        /\ \A i \in 1..(Len(s) + Len(<<e>>)) :
              u[i] = IF i <= Len(s) THEN s[i] ELSE <<e>>[i - Len(s)]
    BY <1>2, ConcatProperties
  <2> QED
    BY <1>2, <2>1, LenProperties
<1>4. u[Len(s) + 1] = e /\ \A i \in 1..Len(s) : u[i] = s[i]
  <2>1. /\ Len(s) + 1 \in 1..(Len(s) + 1) /\ ~(Len(s) + 1 <= Len(s)) /\ Len(s) + 1 - Len(s) = 1
        /\ \A i \in 1..Len(s) : i \in 1..(Len(s) + 1) /\ i <= Len(s)
    BY <1>3
  <2> QED
    BY <1>2, <1>3, <2>1
<1>5. /\ Len(Tokens(s)) = Len(s) /\ Len(Tokens(u)) = Len(u)
      /\ \A i \in 1..Len(u) : Tokens(u)[i] = Token(u[i])
      /\ Naa!IsStrictPrefix(Tokens(s), Tokens(u))
  <2>1. u \in Seq(Element) /\ Len(s) <= Len(u) /\ Len(s) < Len(u)
    BY <1>3
  <2> QED
    BY <1>4, <2>1, LongerHeard
<1>6. Tokens(u)[Len(s) + 1] = e
  BY <1>1, <1>3, <1>4, <1>5
<1>7. Tokens(u) = Append(Tokens(s), e)
  <2> DEFINE T == {Token(x) : x \in Element}
             a == Append(Tokens(s), e)
  <2>1. /\ \A i \in 1..Len(s) : s[i] \in Element /\ Tokens(s)[i] = Token(s[i]) /\ Token(s[i]) \in T
        /\ \A i \in 1..Len(u) : u[i] \in Element /\ Token(u[i]) \in T
        /\ DOMAIN s = 1..Len(s) /\ DOMAIN u = 1..Len(u) /\ e \in T
    <3>1. /\ \A i \in 1..Len(s) : s[i] \in Element
          /\ \A i \in 1..Len(u) : u[i] \in Element
          /\ DOMAIN s = 1..Len(s) /\ DOMAIN u = 1..Len(u)
      BY <1>3, ElementOfSeq, LenProperties
    <3> QED
      BY <1>1, <3>1 DEF Tokens
  <2> HIDE DEF T
  <2>2. Tokens(s) \in Seq(T) /\ Tokens(u) \in Seq(T)
    BY <1>3, <2>1, IsASeq DEF Tokens
  <2>3. /\ a \in Seq(T) /\ Len(a) = Len(Tokens(s)) + 1 /\ a[Len(Tokens(s)) + 1] = e
        /\ \A i \in 1..Len(Tokens(s)) : a[i] = Tokens(s)[i]
    BY <2>1, <2>2, AppendProperties
  <2> HIDE DEF a
  <2>4. \A i \in 1..Len(u) : Tokens(u)[i] = a[i]
    <3> TAKE i \in 1..Len(u)
    <3>1. CASE i = Len(s) + 1
      BY <1>5, <1>6, <2>3, <3>1
    <3>2. CASE i # Len(s) + 1
      <4>1. i \in 1..Len(s)
        BY <1>3, <3>2
      <4> QED
        BY <1>4, <1>5, <2>1, <2>3, <4>1
    <3> QED
      BY <3>1, <3>2
  <2>5. Len(a) = Len(Tokens(u))
    BY <1>3, <1>5, <2>3
  <2> QED
    BY <1>5, <2>2, <2>3, <2>4, <2>5, SeqEqual DEF a
<1> QED
  BY <1>3, <1>5, <1>6, <1>7

(* A header goes out, or a section it announced.                           *)
LEMMA StepEmit ==
    ASSUME IInv, TypeOK', Shape, DrainEmit
    PROVE  Naa!Header \/ Naa!Section
<1> DEFINE e == ops[1].sec
<1>1. /\ ops # <<>> /\ ops[1].op = "Emit" /\ ops' = Tail(ops) /\ out' = Append(out, e)
      /\ pc = "drain" /\ UNCHANGED <<wire, dst, pc, bits>> /\ Running /\ Running'
  BY DEF DrainEmit, Running
<1>2. /\ ops \in Seq(FrameOp) /\ dst \in Seq(Element) /\ out \in Seq(Element)
      /\ Emitted \in Seq(Element) /\ Shaped(ops, bits)
  BY <1>1, EmittedType DEF IInv, TypeOK, Shape
<1>3. e \in Section
  <2>1. ops[1] \in FrameOp
    BY <1>1, <1>2, EmptySeq, ElementOfSeq
  <2> QED
    BY <1>1, <2>1 DEF FrameOp
<1>4. Emitted' = Emitted \o <<e>>
  <2>1. e \in Element /\ <<e>> \in Seq(Element)
    BY <1>3, WhenSeq DEF Element
  <2>2. Emitted = dst \o out /\ Emitted' = dst \o (out \o <<e>>)
    BY <1>1, <1>2, <2>1, AppendIsConcat DEF Emitted
  <2> QED
    BY <1>2, <2>1, <2>2, ConcatAssociative
<1>5. heardByNaa = Tokens(Emitted) /\ heardByNaa' = Tokens(Emitted')
  BY <1>1, HeardIs
<1>6. /\ heardByNaa' = Append(heardByNaa, e)
      /\ Naa!IsStrictPrefix(heardByNaa, heardByNaa')
      /\ Len(heardByNaa') = Len(heardByNaa) + 1 /\ heardByNaa'[Len(heardByNaa')] = e
  <2>1. PICK u : u = Emitted'
    OBVIOUS
  <2>2. /\ Tokens(u) = Append(Tokens(Emitted), e)
        /\ Naa!IsStrictPrefix(Tokens(Emitted), Tokens(u))
        /\ Len(Tokens(u)) = Len(Tokens(Emitted)) + 1 /\ Tokens(u)[Len(Tokens(u))] = e
    BY <1>2, <1>3, <1>4, <2>1, SectionHeard
  <2> QED
    BY <1>5, <2>1, <2>2
<1>7. owedToNaa = Owed(ops) /\ owedToNaa' = Owed(Tail(ops))
  BY <1>1, OwedThen DEF IInv
<1>8. \/ /\ e.kind = "hdr" /\ Owed(ops) = [pcm |-> 0, sections |-> {}]
         /\ Naa!Announced(e.h, bits, Owed(Tail(ops)))
      \/ /\ Owed(ops).pcm = 0 /\ e \in Owed(ops).sections
         /\ \A t \in Owed(ops).sections \ {e} : Naa!Before(e, t)
         /\ Owed(Tail(ops)) = [Owed(ops) EXCEPT !.sections = @ \ {e}]
  BY <1>1, <1>2, EmitShaped
<1> HIDE DEF e
<1>9. CASE /\ e.kind = "hdr" /\ Owed(ops) = [pcm |-> 0, sections |-> {}]
           /\ Naa!Announced(e.h, bits, Owed(Tail(ops)))
  <2>1. owedToNaa = Naa!Nothing /\ Naa!Announced(heardByNaa'[Len(heardByNaa')].h, bits, owedToNaa')
    BY <1>6, <1>7, <1>9 DEF Naa!Nothing
  <2> QED
    BY <1>1, <1>6, <1>9, <2>1 DEF Naa!Header
<1>10. CASE /\ Owed(ops).pcm = 0 /\ e \in Owed(ops).sections
            /\ \A t \in Owed(ops).sections \ {e} : Naa!Before(e, t)
            /\ Owed(Tail(ops)) = [Owed(ops) EXCEPT !.sections = @ \ {e}]
  BY <1>1, <1>6, <1>7, <1>10 DEF Naa!Section
<1> QED
  BY <1>8, <1>9, <1>10

LEMMA OwedFields == ASSUME NEW q PROVE Owed(q) = [pcm |-> Owed(q).pcm, sections |-> Owed(q).sections]
BY DEF Owed

(* Audio goes out, as much of it as is owed or less; a read that ended     *)
(* with the header has none yet.                                           *)
LEMMA StepPass ==
    ASSUME IInv, TypeOK', Shape, DrainPass
    PROVE  Naa!Audio \/ Untold
<1>1. /\ ops # <<>> /\ ops[1].op = "Pass" /\ Consume(ops[1].n) /\ out' = out \o Src(at, at')
      /\ pc = "drain" /\ pc' \in {"drain", "loop"} /\ UNCHANGED <<wire, dst, bits>>
      /\ Running /\ Running'
  BY DEF DrainPass, Running, Consume
<1>0. PICK to, later : to = at' /\ later = ops'
  OBVIOUS
<1>2. PICK n \in Nat : /\ n = ops[1].n - (to - at)
                       /\ (later = Tail(ops) /\ n = 0) \/ later = [ops EXCEPT ![1].n = n]
  BY <1>0, <1>1, ConsumeLeaves DEF IInv
<1>3. /\ ops[1].n \in Nat /\ at \in Nat /\ to \in Nat /\ at <= to /\ to - at <= ops[1].n
  BY <1>0, <1>1, ConsumeLeaves DEF IInv
<1>4. /\ \A r \in (at + 1)..to : IsPayload(wire[r]) /\ ~IsXml(wire[r])
      /\ Len(wire) \in Nat /\ to <= Len(wire)
  <2>1. at' <= lim /\ \A r \in (at + 1)..at' : IsPayload(wire[r])
    BY <1>1, ConsumeStep
  <2>2. \A r \in (at + 1)..at' : ~IsXml(wire[r])
    BY <1>1, ConsumeUnits
  <2>3. Len(wire) \in Nat /\ lim \in Nat /\ lim <= Len(wire)
    BY Stream DEF IInv
  <2> QED
    BY <1>0, <1>3, <2>1, <2>2, <2>3
<1>5. /\ owedToNaa = Owed(ops) /\ owedToNaa' = Owed(later)
      /\ Owed(ops).pcm = ops[1].n /\ Owed(later) = [Owed(ops) EXCEPT !.pcm = n]
  <2>1. ops \in Seq(FrameOp) /\ Shaped(ops, bits)
    BY <1>1 DEF IInv, TypeOK, Shape
  <2>2. Owed(ops).pcm = ops[1].n /\ Owed(later) = [Owed(ops) EXCEPT !.pcm = n]
    BY <1>1, <1>2, <2>1, TakeShaped
  <2> QED
    BY <1>0, <2>2, OwedThen DEF IInv
<1> DEFINE x == Src(at, to)
<1>6. /\ x \in Seq(Element) /\ Len(x) = to - at
      /\ \A k \in 1..(to - at) : Token(x[k]) = Naa!PcmToken
  <2>1. /\ x \in Seq(Element) /\ Len(x) = to - at
        /\ \A k \in 1..(to - at) : x[k] = [kind |-> "src", at |-> at + k]
    BY <1>3, <1>4, SrcProperties
  <2>2. ASSUME NEW k \in 1..(to - at) PROVE Token(x[k]) = Naa!PcmToken
    <3>1. at + k \in (at + 1)..to
      BY <1>3
    <3>2. x[k].kind = "src" /\ x[k].at = at + k
      BY <2>1
    <3>3. IsPayload(wire[x[k].at]) /\ ~IsXml(wire[x[k].at])
      BY <1>4, <3>1, <3>2
    <3> HIDE DEF x
    <3> QED
      BY <3>2, <3>3 DEF Token, Naa!PcmToken
  <2> QED
    BY <2>1, <2>2
<1>7. Emitted' = Emitted \o x /\ Emitted \in Seq(Element)
  <2>1. dst \in Seq(Element) /\ out \in Seq(Element) /\ Emitted \in Seq(Element)
    BY EmittedType DEF IInv, TypeOK
  <2>2. Emitted = dst \o out /\ Emitted' = dst \o (out \o x)
    BY <1>0, <1>1 DEF Emitted
  <2> QED
    BY <1>6, <2>1, <2>2, ConcatAssociative
<1> HIDE DEF x
<1>8. PICK s, u : s = Emitted /\ u = Emitted'
  OBVIOUS
<1>9. /\ s \in Seq(Element) /\ u \in Seq(Element) /\ Len(s) \in Nat
      /\ Len(u) = Len(s) + (to - at)
      /\ \A i \in 1..Len(u) : u[i] = IF i <= Len(s) THEN s[i] ELSE x[i - Len(s)]
  <2>1. s \in Seq(Element) /\ x \in Seq(Element) /\ u = s \o x /\ Len(x) = to - at
    BY <1>6, <1>7, <1>8
  <2>2. /\ u \in Seq(Element) /\ Len(u) = Len(s) + Len(x)
        /\ \A i \in 1..(Len(s) + Len(x)) : u[i] = IF i <= Len(s) THEN s[i] ELSE x[i - Len(s)]
    BY <2>1, ConcatProperties
  <2>3. Len(s) \in Nat
    BY <2>1, LenProperties
  <2> QED
    BY <2>1, <2>2, <2>3
<1>10. heardByNaa = Tokens(s) /\ heardByNaa' = Tokens(u)
  BY <1>1, <1>8, HeardIs
<1>11. CASE to = at
  <2>1. Len(x) = 0 /\ n = ops[1].n
    BY <1>2, <1>3, <1>6, <1>11
  <2>2. u = s
    BY <1>6, <1>7, <1>8, <2>1, EmptySeq, EmptyRight
  <2>3. Owed(later) = Owed(ops)
    BY <1>5, <2>1, OwedFields
  <2> QED
    BY <1>1, <1>5, <1>10, <2>2, <2>3 DEF Untold
<1>12. CASE to # at
  <2>1. /\ to - at > 0 /\ to - at \in Nat /\ Len(s) < Len(u) /\ Len(u) \in Nat
        /\ \A i \in 1..Len(s) : i \in 1..Len(u) /\ u[i] = s[i]
    BY <1>3, <1>9, <1>12
  <2>2. /\ Len(Tokens(s)) = Len(s) /\ Len(Tokens(u)) = Len(u)
        /\ \A i \in 1..Len(u) : Tokens(u)[i] = Token(u[i])
        /\ Naa!IsStrictPrefix(Tokens(s), Tokens(u))
    BY <1>9, <2>1, LongerHeard
  <2>3. \A i \in (Len(s) + 1)..Len(u) : Tokens(u)[i] \in {Naa!PcmToken}
    <3> TAKE i \in (Len(s) + 1)..Len(u)
    <3>1. i \in 1..Len(u) /\ ~(i <= Len(s)) /\ i - Len(s) \in 1..(to - at)
      BY <1>3, <1>9, <2>1
    <3>2. Tokens(u)[i] = Token(x[i - Len(s)])
      BY <1>9, <2>2, <3>1
    <3> QED
      BY <1>6, <3>1, <3>2
  <2>4. Naa!GrowsBy({Naa!PcmToken})
    BY <1>10, <2>2, <2>3 DEF Naa!GrowsBy
  <2>5. owedToNaa.pcm > 0
    BY <1>3, <1>5, <2>1
  <2>6. owedToNaa.pcm - (Len(heardByNaa') - Len(heardByNaa)) = n
    <3>1. Len(heardByNaa') - Len(heardByNaa) = to - at
      BY <1>9, <1>10, <2>1, <2>2
    <3> QED
      BY <1>2, <1>5, <3>1
  <2>7. owedToNaa' = [owedToNaa EXCEPT !.pcm = n] /\ n >= 0
    BY <1>5
  <2> QED
    BY <1>1, <2>4, <2>5, <2>6, <2>7 DEF Naa!Audio
<1> QED
  BY <1>11, <1>12

(* Bytes are stripped: the NAA hears nothing.                              *)
LEMMA StepSkip ==
    ASSUME IInv, TypeOK', Shape, DrainSkip
    PROVE  Untold
<1>1. /\ ops # <<>> /\ ops[1].op = "Skip" /\ Consume(ops[1].n)
      /\ pc = "drain" /\ pc' \in {"drain", "loop"} /\ UNCHANGED <<wire, out, dst, bits>>
      /\ Running /\ Running'
  BY DEF DrainSkip, Running, Consume
<1>0. PICK later : later = ops'
  OBVIOUS
<1>2. PICK n \in Nat : (later = Tail(ops) /\ n = 0) \/ later = [ops EXCEPT ![1].n = n]
  BY <1>0, <1>1, ConsumeLeaves DEF IInv
<1>3. ops \in Seq(FrameOp) /\ Shaped(ops, bits)
  BY <1>1 DEF IInv, TypeOK, Shape
<1>4. Owed(ops).pcm = 0 /\ Owed(later) = [Owed(ops) EXCEPT !.pcm = 0]
  BY <1>1, <1>2, <1>3, TakeShaped
<1>5. owedToNaa' = owedToNaa
  BY <1>0, <1>4, OwedFields, OwedThen DEF IInv
<1>6. Emitted' = Emitted
  BY <1>1 DEF Emitted
<1> QED
  BY <1>1, <1>5, <1>6, HeardIs DEF Untold

(* The connection ends with a first part of what was handed on.            *)
LEMMA BreakOff ==
    ASSUME IInv, TypeOK', Running, ~Running', UNCHANGED <<wire, ops>>,
           NEW n \in 0..Len(Emitted), Emitted' = SubSeq(Emitted, 1, n)
    PROVE  Naa!Break
<1>1. Emitted \in Seq(Element)
  BY EmittedType DEF IInv
<1>2. PICK u : u = Emitted' /\ u = SubSeq(Emitted, 1, n)
  OBVIOUS
<1>3. /\ u \in Seq(Element) /\ Len(u) <= Len(Emitted)
      /\ \A i \in 1..Len(u) : Emitted[i] = u[i]
  BY <1>1, <1>2, CutIs
<1>4. Naa!IsPrefix(Tokens(u), Tokens(Emitted))
  BY <1>1, <1>3, LongerHeard
<1>5. heardByNaa = Tokens(Emitted) /\ heardByNaa' = Tokens(u)
  BY <1>2, HeardIs
<1>6. owedToNaa' = owedToNaa /\ bits' \in Nat
  BY OwedThen DEF IInv, TypeOK
<1> QED
  BY <1>4, <1>5, <1>6 DEF Naa!Break

LEMMA WholeOrLess ==
    ASSUME NEW S, NEW s \in Seq(S), NEW t \in Seq(S)
    PROVE  /\ Len(s) \in 0..Len(s) /\ SubSeq(s, 1, Len(s)) = s
           /\ Len(s) \in 0..Len(s \o t) /\ SubSeq(s \o t, 1, Len(s)) = s
<1>1. /\ Len(s) \in Nat /\ Len(t) \in Nat /\ s \o t \in Seq(S)
      /\ Len(s \o t) = Len(s) + Len(t)
      /\ \A i \in 1..(Len(s) + Len(t)) : (s \o t)[i] = IF i <= Len(s) THEN s[i] ELSE t[i - Len(s)]
  BY ConcatProperties, LenProperties
<1>2. Len(s) \in 0..Len(s) /\ Len(s) \in 0..Len(s \o t)
  BY <1>1
<1>3. /\ SubSeq(s, 1, Len(s)) \in Seq(S) /\ Len(SubSeq(s, 1, Len(s))) = Len(s)
      /\ \A i \in 1..Len(s) : SubSeq(s, 1, Len(s))[i] = s[i]
  BY <1>2, CutIs
<1>4. /\ SubSeq(s \o t, 1, Len(s)) \in Seq(S) /\ Len(SubSeq(s \o t, 1, Len(s))) = Len(s)
      /\ \A i \in 1..Len(s) : SubSeq(s \o t, 1, Len(s))[i] = (s \o t)[i]
  BY <1>1, <1>2, CutIs
<1>5. \A i \in 1..Len(s) : (s \o t)[i] = s[i]
  BY <1>1
<1> QED
  BY <1>2, <1>3, <1>4, <1>5, SeqEqual

(* HQPlayer is gone, or a header is corrupt and what was collected before  *)
(* it stays unwritten.                                                     *)
LEMMA StepEnds ==
    ASSUME IInv, TypeOK', ReadEnds \/ (CompleteHeader /\ ~Running')
    PROVE  Naa!Break
<1>1. dst \in Seq(Element) /\ out \in Seq(Element)
  BY DEF IInv, TypeOK
<1>2. CASE ReadEnds
  <2>1. /\ UNCHANGED <<wire, ops, dst>> /\ Running /\ ~Running' /\ Emitted = dst /\ Emitted' = dst
    BY <1>2 DEF ReadEnds, Running, Emitted
  <2> QED
    BY <1>1, <2>1, WholeOrLess, BreakOff
<1>3. CASE CompleteHeader /\ ~Running'
  <2>1. /\ UNCHANGED <<wire, ops, dst>> /\ Running /\ Emitted = dst \o out /\ Emitted' = dst
    BY <1>3 DEF CompleteHeader, Running, Emitted
  <2> QED
    BY <1>1, <1>3, <2>1, WholeOrLess, BreakOff
<1> QED
  BY <1>2, <1>3

(* What was collected goes out: the NAA is to hear what it was to hear     *)
(* before, or only a first part and the connection is closed.              *)
LEMMA StepFlush ==
    ASSUME IInv, TypeOK', FlushOut
    PROVE  Naa!Break \/ Untold
<1>1. /\ dst \in Seq(Element) /\ out \in Seq(Element)
      /\ UNCHANGED <<wire, ops, bits>> /\ Running /\ Emitted = dst \o out
      /\ pc' = "closed" \/ pc' = "read"
  BY DEF FlushOut, WriteAll, Running, Emitted, IInv, TypeOK
<1>2. Emitted' = dst'
  BY <1>1 DEF Emitted
<1>3. \/ pc' = "read" /\ Emitted' = Emitted
      \/ pc' = "closed" /\ \E n \in 0..Len(Emitted) : Emitted' = SubSeq(Emitted, 1, n)
  <2>1. CASE out = <<>>
    <3>1. pc' = "read" /\ dst' = dst
      BY <2>1 DEF FlushOut
    <3> QED
      BY <1>1, <1>2, <2>1, <3>1, EmptyRight
  <2>2. CASE out # <<>>
    <3>1. WriteAll(out, "read")
      BY <2>2 DEF FlushOut
    <3> QED
      BY <1>1, <1>2, <3>1, WriteCut
  <2> QED
    BY <2>1, <2>2
<1>4. CASE pc' = "read" /\ Emitted' = Emitted
  <2>1. owedToNaa' = owedToNaa /\ heardByNaa' = heardByNaa
    BY <1>1, <1>4, OwedThen, HeardIs DEF IInv
  <2> QED
    BY <1>1, <1>4, <2>1 DEF Untold, Running
<1>5. CASE pc' = "closed" /\ \E n \in 0..Len(Emitted) : Emitted' = SubSeq(Emitted, 1, n)
  <2>1. ~Running'
    BY <1>5 DEF Running
  <2> QED
    BY <1>1, <1>5, <2>1, BreakOff
<1> QED
  BY <1>3, <1>4, <1>5

(* Nothing goes out: a buffer is read or header bytes are, the operations  *)
(* of a frame are queued, the Roon thread stores metadata.                 *)
LEMMA StepSilent ==
    ASSUME IInv, TypeOK',
           \/ Read \/ AccumulateHeader \/ Resume \/ DrainDone \/ Set \/ UNCHANGED vars
           \/ TopOfBuffer /\ ~HandlesXml
           \/ CompleteHeader /\ Running'
    PROVE  Untold
<1>1. wire' = wire /\ dst \in Seq(Element)
  BY DEF Read, AccumulateHeader, Resume, DrainDone, Set, vars, TopOfBuffer, CompleteHeader,
         IInv, TypeOK
<1>2. CASE Read \/ AccumulateHeader \/ Resume \/ DrainDone \/ Set \/ UNCHANGED vars
  <2>1. UNCHANGED <<ops, bits, Running, Emitted>>
    BY <1>2 DEF Read, AccumulateHeader, Resume, DrainDone, Set, vars, Running, Emitted
  <2> QED
    BY <1>1, <2>1, OwedThen, HeardIs DEF Untold, IInv
<1>3. CASE TopOfBuffer /\ ~HandlesXml
  <2>1. UNCHANGED <<ops, bits, Running, dst>> /\ Emitted = dst /\ Emitted' = dst \o <<>>
    BY <1>3 DEF TopOfBuffer, HandlesXml, Running, Emitted
  <2>2. Emitted' = Emitted
    BY <1>1, <2>1, EmptyRight
  <2> QED
    BY <1>1, <2>1, <2>2, OwedThen, HeardIs DEF Untold, IInv
<1>4. CASE CompleteHeader /\ Running'
  <2>1. /\ Running /\ ops = <<>> /\ bits' = bits /\ Emitted' = Emitted
        /\ \E h \in FrameHeader : ops' = build_frame_ops(h)
    BY <1>4, FrameStarts
  <2>2. PICK q : q = ops' /\ HeaderFirst(q)
    BY <2>1, BuildShaped DEF IInv
  <2>3. Owed(ops') = [pcm |-> 0, sections |-> {}]
    BY <2>2 DEF Owed
  <2>4. owedToNaa' = owedToNaa
    BY <2>1, <2>3, OwedThen, EmptyShaped DEF IInv
  <2> QED
    BY <1>1, <1>4, <2>1, <2>4, HeardIs DEF Untold
<1> QED
  BY <1>2, <1>3, <1>4

-----------------------------------------------------------------------------
(* The refinement.                                                         *)

Framing == IInv /\ Shape

LEMMA FramingInit == SplitXml = FALSE /\ Init => Framing /\ Naa!StreamInit
<1> SUFFICES ASSUME Init PROVE Framing /\ Naa!StreamInit
  OBVIOUS
<1>1. IInv /\ ops = <<>> /\ bits = 32 /\ Running /\ Emitted = <<>>
  BY SafetyInit DEF Init, Running, Emitted
<1>2. Shape
  BY <1>1, EmptyShaped DEF Shape
<1>3. heardByNaa = <<>>
  <2>1. DOMAIN Emitted = {} /\ DOMAIN heardByNaa = DOMAIN Emitted
    BY <1>1, EmptySeq DEF heardByNaa
  <2> QED
    BY <2>1, <1>1 DEF heardByNaa
<1> QED
  BY <1>1, <1>2, <1>3, NothingOwed DEF Framing, Naa!StreamInit

LEMMA FramingStep ==
    ASSUME SplitXml = FALSE, Framing, [Next]_vars
    PROVE  Framing' /\ [Naa!StreamNext]_(Naa!streamVars)
<1>1. IInv /\ Shape /\ IInv' /\ TypeOK'
  BY SafetyStep DEF Framing, IInv
<1>2. Shape'
  BY <1>1, ShapeStep
<1>3. \/ Naa!Xml \/ Naa!Header \/ Naa!Audio \/ Naa!Section \/ Naa!Break
      \/ Untold
  <2>1. CASE HandlesXml
    BY <1>1, <2>1, StepXml
  <2>2. CASE DrainEmit
    BY <1>1, <2>2, StepEmit
  <2>3. CASE DrainPass
    BY <1>1, <2>3, StepPass
  <2>4. CASE DrainSkip
    BY <1>1, <2>4, StepSkip
  <2>5. CASE ReadEnds \/ (CompleteHeader /\ ~Running')
    BY <1>1, <2>5, StepEnds
  <2>6. CASE FlushOut
    BY <1>1, <2>6, StepFlush
  <2>7. CASE \/ Read \/ AccumulateHeader \/ Resume \/ DrainDone \/ Set \/ UNCHANGED vars
             \/ TopOfBuffer /\ ~HandlesXml
             \/ CompleteHeader /\ Running'
    BY <1>1, <2>7, StepSilent
  <2> QED
    BY <2>1, <2>2, <2>3, <2>4, <2>5, <2>6, <2>7 DEF Next, Process, HandlesXml
<1> QED
  BY <1>1, <1>2, <1>3 DEF Framing, Naa!StreamNext, Naa!streamVars, Untold

(* Whatever HQPlayer sends, however TCP cuts it and whenever Roon changes  *)
(* what is played, the NAA hears a well-formed stream: XML only between    *)
(* frames, and behind each header exactly the audio and the sections it    *)
(* announces, in their order; or a first part of that, if the connection   *)
(* breaks.                                                                 *)
THEOREM StreamPromised ==
    ASSUME SplitXml = FALSE
    PROVE  Spec => WellFramed
<1>1. Framing /\ [Next]_vars => Framing' /\ [Naa!StreamNext]_(Naa!streamVars)
  BY FramingStep
<1>2. Init => Framing /\ Naa!StreamInit
  BY FramingInit
<1> QED
  BY <1>1, <1>2, PTL DEF Spec, WellFramed, Naa!StreamSpec
=============================================================================
