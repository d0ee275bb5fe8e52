----------------------------- MODULE FrameProxy -----------------------------
(***************************************************************************)
(* The HQP->NAA direction of the proxy: forward_hqp_to_naa and the         *)
(* FrameProcessor it drives (src/src/proxy.rs), while the Roon thread      *)
(* replaces the shared metadata at any moment (src/src/metadata.rs).       *)
(*                                                                         *)
(* The thread reads a buffer of any size the TCP stack gives it, consumes  *)
(* it byte by byte through a header accumulator and a queue of operations, *)
(* and writes what the NAA endpoint is to hear: HQPlayer's XML and audio   *)
(* untouched, HQPlayer's own metadata replaced by Roon's.                  *)
(***************************************************************************)
EXTENDS NaaProtocol

CONSTANTS
    Streams,     \* the streams HQPlayer may send
    BufSize,     \* bytes of the read buffer (65536 in the code)
    Metas,       \* what the Roon thread may store in the shared metadata
    None,        \* an Option::None, and an empty title
    Garbage,     \* headers that bytes which are no header may parse to
    SplitXml     \* whether TCP may cut an XML message between two reads

ASSUME FrameProxyAssumption ==
    /\ \A w \in Streams : IsStream(w)
    /\ BufSize \in Nat \ {0}
    /\ \A m \in Metas : m = [key |-> m.key, cover |-> m.cover, pos |-> m.pos]
    /\ Garbage \subseteq FrameHeader
    /\ SplitXml \in BOOLEAN

VARIABLES
    wire,           \* the stream HQPlayer sends on this connection
    at,             \* bytes of it consumed (the code's pos, counted from the start)
    lim,            \* bytes of it read so far: at..lim is the rest of data
    pc,             \* where forward_hqp_to_naa stands
    ops,            \* FrameProcessor.ops
    header_buf,     \* how many header bytes are accumulated: those just before at
    bits,           \* params.bits, from which bytes_per_sample and META follow
    last_meta_key,  \* (title, artist, album) last emitted as META
    last_pos_key,   \* (length, seek, state) last emitted as POS
    out,            \* bytes collected from this buffer, not yet written
    dst,            \* bytes written to the NAA
    shared          \* the Metadata the Roon thread last set

vars == <<wire, at, lim, pc, ops, header_buf, bits, last_meta_key, last_pos_key,
          out, dst, shared>>

-----------------------------------------------------------------------------
(* What travels to the NAA: bytes of the stream, by position, and the      *)
(* sections the proxy builds, each as one element.                         *)

Src(lo, hi) == [k \in 1..(hi - lo) |-> [kind |-> "src", at |-> lo + k]]
Hdr(h) == [kind |-> "hdr", h |-> h]
Pos(key) == [kind |-> "pos", pos |-> key]
Meta(key, b) == [kind |-> "meta", key |-> key, bits |-> b]
Pic(cover) == [kind |-> "pic", cover |-> cover]

Pass(n) == [op |-> "Pass", n |-> n]
Skip(n) == [op |-> "Skip", n |-> n]
Emit(sec) == [op |-> "Emit", sec |-> sec]

When(cond, o) == IF cond THEN <<o>> ELSE <<>>

Least(a, b) == IF a <= b THEN a ELSE b

(* write_all: everything is written, or the peer is gone and the thread    *)
(* ends with only a prefix written.                                        *)
WriteAll(bytes, next) ==
    \/ dst' = dst \o bytes /\ pc' = next
    \/ /\ \E k \in 0..Len(bytes) : dst' = dst \o SubSeq(bytes, 1, k)
       /\ pc' = "closed"

-----------------------------------------------------------------------------
(* XML.                                                                    *)

(* find_xml_end on the bytes lo+1..hi: past the first complete closing tag *)
(* and the newline after it when it is in the buffer, else the whole rest. *)
ClosingTags(lo, hi) ==
    {i \in (lo + 2)..hi : IsXml(wire[i]) /\ wire[i].off = 4}

(* Mutant: the whole read is taken for XML.                                *)
find_xml_end_Greedy(lo, hi) == hi

(* Mutant: the newline after the closing tag is left for the frames.       *)
find_xml_end_NoNewline(lo, hi) ==
    IF ClosingTags(lo, hi) = {} THEN hi ELSE Min(ClosingTags(lo, hi))

find_xml_end(lo, hi) ==
    IF ClosingTags(lo, hi) = {} THEN hi
    ELSE LET t == Min(ClosingTags(lo, hi))
         IN  IF t < hi /\ IsXml(wire[t + 1]) /\ wire[t + 1].off = 5 THEN t + 1 ELSE t

(* Mutant: a start message does not clear what was last emitted.           *)
handle_xml_NoReset(lo, hi) ==
    LET starts == {i \in (lo + 1)..hi : IsStart(wire[i])}
    IN  /\ bits' = IF starts = {} THEN bits ELSE wire[Min(starts)].msg.bits
        /\ UNCHANGED <<last_meta_key, last_pos_key, header_buf, ops>>

(* A new stream: everything known of the old one is forgotten.             *)
reset_for_start(b) ==
    /\ bits' = b
    /\ last_meta_key' = None
    /\ last_pos_key' = None
    /\ header_buf' = 0
    /\ ops' = <<>>

(* handle_xml on the bytes lo+1..hi, its state change: a start message     *)
(* resets the processor, any other message leaves it alone.                *)
handle_xml(lo, hi) ==
    LET starts == {i \in (lo + 1)..hi : IsStart(wire[i])}
    IN  IF starts = {}
        THEN UNCHANGED <<bits, last_meta_key, last_pos_key, header_buf, ops>>
        ELSE reset_for_start(wire[Min(starts)].msg.bits)

(* The first byte of the buffer that is not white space is '<'.            *)
XmlOnTop ==
    \E i \in (at + 1)..lim :
        IsLt(wire[i]) /\ \A j \in (at + 1)..(i - 1) : IsWhitespace(wire[j])

-----------------------------------------------------------------------------
(* Reading.                                                                *)

Init ==
    /\ wire \in Streams
    /\ at = 0 /\ lim = 0
    /\ pc = "read"
    /\ ops = <<>>
    /\ header_buf = 0
    /\ bits = 32
    /\ last_meta_key = None /\ last_pos_key = None
    /\ out = <<>> /\ dst = <<>>
    /\ shared = [key |-> None, cover |-> None, pos |-> None]

(* A read may end inside a message only if that is a frame, or SplitXml.   *)
MayEndAt(i) ==
    ~SplitXml /\ i < Len(wire) /\ IsXml(wire[i + 1]) => wire[i + 1].off = 1

Read ==
    /\ pc = "read"
    /\ \E n \in 1..BufSize :
         /\ lim + n <= Len(wire)
         /\ MayEndAt(lim + n)
         /\ lim' = lim + n
    /\ pc' = "top"
    /\ UNCHANGED <<wire, at, ops, header_buf, bits, last_meta_key, last_pos_key,
                   out, dst, shared>>

(* Ok(0) or an error: HQPlayer has gone, or the session was shut down.     *)
ReadEnds ==
    /\ pc = "read"
    /\ pc' = "closed"
    /\ UNCHANGED <<wire, at, lim, ops, header_buf, bits, last_meta_key, last_pos_key,
                   out, dst, shared>>

(* The check before any frame processing: an XML message at the top of the *)
(* buffer is written at once; "continue" leaves the old out as it is.      *)
TopOfBuffer ==
    /\ pc = "top"
    /\ IF ops = <<>> /\ header_buf = 0 /\ XmlOnTop
       THEN LET end == find_xml_end(at, lim)
            IN  /\ handle_xml(at, end)
                /\ WriteAll(Src(at, end), IF end >= lim THEN "read" ELSE "loop")
                /\ at' = end
                /\ out' = IF end >= lim THEN out ELSE <<>>
       ELSE /\ pc' = "loop"
            /\ out' = <<>>
            /\ UNCHANGED <<at, ops, header_buf, bits, last_meta_key, last_pos_key, dst>>
    /\ UNCHANGED <<wire, lim, shared>>

-----------------------------------------------------------------------------
(* The loop over the buffer.                                               *)

AtXml == header_buf = 0 /\ IsLt(wire[at + 1])

(* Mutant: the XML overtakes what was collected.                           *)
MidBufferXml_NoFlush ==
    /\ pc = "loop" /\ at < lim
    /\ ops = <<>> /\ AtXml
    /\ LET end == find_xml_end(at, lim)
       IN  /\ handle_xml(at, end)
           /\ WriteAll(Src(at, end), "loop")
           /\ at' = end
    /\ UNCHANGED <<wire, lim, out, shared>>

(* Mutant: what was collected is cleared without having been written.      *)
MidBufferXml_Drops ==
    /\ pc = "loop" /\ at < lim
    /\ ops = <<>> /\ AtXml
    /\ LET end == find_xml_end(at, lim)
       IN  /\ handle_xml(at, end)
           /\ WriteAll(Src(at, end), "loop")
           /\ at' = end
    /\ out' = <<>>
    /\ UNCHANGED <<wire, lim, shared>>

(* XML behind a frame: what was collected goes out first, then the XML.    *)
MidBufferXml ==
    /\ pc = "loop" /\ at < lim
    /\ ops = <<>> /\ AtXml
    /\ LET end == find_xml_end(at, lim)
       IN  /\ handle_xml(at, end)
           /\ WriteAll(out \o Src(at, end), "loop")
           /\ at' = end
    /\ out' = <<>>
    /\ UNCHANGED <<wire, lim, shared>>

(* Mutant: off by one, a complete header is taken for an incomplete one.   *)
AccumulateHeader_OffByOne ==
    /\ pc = "loop" /\ at < lim
    /\ ops = <<>> /\ ~AtXml
    /\ lim - at <= FRAME_HEADER_SIZE - header_buf
    /\ header_buf' = header_buf + (lim - at)
    /\ at' = lim
    /\ UNCHANGED <<wire, lim, pc, ops, bits, last_meta_key, last_pos_key, out, dst, shared>>

(* Header bytes are consumed; more of the header is still to come.         *)
AccumulateHeader ==
    /\ pc = "loop" /\ at < lim
    /\ ops = <<>> /\ ~AtXml
    /\ lim - at < FRAME_HEADER_SIZE - header_buf
    /\ header_buf' = header_buf + (lim - at)
    /\ at' = lim
    /\ UNCHANGED <<wire, lim, pc, ops, bits, last_meta_key, last_pos_key, out, dst, shared>>

(* What the FRAME_HEADER_SIZE bytes before position i+1 parse to.          *)
parse_header(i) ==
    IF \A k \in 1..FRAME_HEADER_SIZE :
         LET u == wire[i - FRAME_HEADER_SIZE + k]
         IN  ~IsXml(u) /\ u.off = k /\ u.msg = wire[i].msg
    THEN {wire[i].msg.h}
    ELSE Garbage

NewPos == shared.pos # None /\ shared.pos # last_pos_key
(* Mutant: META is emitted with every frame.                               *)
content_changed_Always == shared.key # None

content_changed == shared.key # None /\ shared.key # last_meta_key
NewPic == content_changed /\ shared.cover # None

(* Mutant: the header keeps HQPlayer's section bits and lengths.           *)
Rewritten_Kept(h) == h

Rewritten(h) ==
    [mask |-> (h.mask \ {"POS", "META", "PIC"})
                \cup (IF NewPos THEN {"POS"} ELSE {})
                \cup (IF content_changed THEN {"META"} ELSE {})
                \cup (IF NewPic THEN {"PIC"} ELSE {}),
     pcm  |-> h.pcm,
     pos  |-> IF NewPos THEN PosLen ELSE 0,
     meta |-> IF content_changed THEN MetaLen ELSE 0,
     pic  |-> IF NewPic THEN PicLen ELSE 0]

(* The queue for the frame with header h: the body is [pcm][pos][meta][pic],*)
(* and the rewritten header was pushed to the front.                       *)
build_frame_ops(h) ==
    <<Emit(Hdr(Rewritten(h))), Pass(h.pcm * bytes_per_sample(bits))>>
      \o When(h.pos > 0, Skip(h.pos))
      \o When(NewPos, Emit(Pos(shared.pos)))
      \o When(h.meta + h.pic > 0, Skip(h.meta + h.pic))
      \o When(content_changed, Emit(Meta(shared.key, bits)))
      \o When(NewPic, Emit(Pic(shared.cover)))

(* The header is complete: it is corrupt and the thread returns (with out  *)
(* unwritten), or the frame's operations are queued from one reading of    *)
(* the shared metadata.                                                    *)
CompleteHeader ==
    /\ pc = "loop" /\ at < lim
    /\ ops = <<>> /\ ~AtXml
    /\ lim - at >= FRAME_HEADER_SIZE - header_buf
    /\ at' = at + (FRAME_HEADER_SIZE - header_buf)
    /\ header_buf' = 0
    /\ \E h \in parse_header(at') :
         IF is_corrupt(h)
         THEN /\ pc' = "corrupt"
              /\ UNCHANGED <<ops, last_meta_key, last_pos_key>>
         ELSE /\ pc' = "drain"
              /\ ops' = build_frame_ops(h)
              /\ last_meta_key' = IF content_changed THEN shared.key ELSE last_meta_key
              /\ last_pos_key' = IF NewPos THEN shared.pos ELSE last_pos_key
    /\ UNCHANGED <<wire, lim, bits, out, dst, shared>>

Resume ==
    /\ pc = "loop" /\ at < lim
    /\ ops # <<>>
    /\ pc' = "drain"
    /\ UNCHANGED <<wire, at, lim, ops, header_buf, bits, last_meta_key, last_pos_key,
                   out, dst, shared>>

(* The end of the buffer: write what was collected, if anything.           *)
FlushOut ==
    /\ pc = "loop" /\ at = lim
    /\ IF out = <<>> THEN pc' = "read" /\ UNCHANGED dst ELSE WriteAll(out, "read")
    /\ UNCHANGED <<wire, at, lim, ops, header_buf, bits, last_meta_key, last_pos_key,
                   out, shared>>

-----------------------------------------------------------------------------
(* execute_ops, one operation of the queue at a time.                      *)

(* Mutant: an operation of no bytes is never popped.                       *)
Consume_NeverEmpty(n) ==
    LET take == Least(n, lim - at)
    IN  /\ at' = at + take
        /\ IF take = n /\ n > 0
           THEN ops' = Tail(ops) /\ UNCHANGED pc
           ELSE ops' = [ops EXCEPT ![1].n = n - take] /\ pc' = "loop"

(* Take what the buffer has of the n bytes the head operation still wants; *)
(* with none left to want it is popped, else execute_ops returns.          *)
Consume(n) ==
    LET take == Least(n, lim - at)
    IN  /\ at' = at + take
        /\ IF take = n
           THEN ops' = Tail(ops) /\ UNCHANGED pc
           ELSE ops' = [ops EXCEPT ![1].n = n - take] /\ pc' = "loop"

DrainPass ==
    /\ pc = "drain" /\ ops # <<>> /\ Head(ops).op = "Pass"
    /\ Consume(Head(ops).n)
    /\ out' = out \o Src(at, at')
    /\ UNCHANGED <<wire, lim, header_buf, bits, last_meta_key, last_pos_key, dst, shared>>

DrainSkip ==
    /\ pc = "drain" /\ ops # <<>> /\ Head(ops).op = "Skip"
    /\ Consume(Head(ops).n)
    /\ UNCHANGED <<wire, lim, header_buf, bits, last_meta_key, last_pos_key, out, dst,
                   shared>>

(* Mutant: execute_ops returns as soon as the buffer is used up.           *)
DrainEmit_NeedsData ==
    /\ pc = "drain" /\ ops # <<>> /\ Head(ops).op = "Emit"
    /\ IF at < lim
       THEN out' = Append(out, Head(ops).sec) /\ ops' = Tail(ops) /\ UNCHANGED pc
       ELSE pc' = "loop" /\ UNCHANGED <<out, ops>>
    /\ UNCHANGED <<wire, at, lim, header_buf, bits, last_meta_key, last_pos_key, dst, shared>>

DrainEmit ==
    /\ pc = "drain" /\ ops # <<>> /\ Head(ops).op = "Emit"
    /\ out' = Append(out, Head(ops).sec)
    /\ ops' = Tail(ops)
    /\ UNCHANGED <<wire, at, lim, pc, header_buf, bits, last_meta_key, last_pos_key,
                   dst, shared>>

DrainDone ==
    /\ pc = "drain" /\ ops = <<>>
    /\ pc' = "loop"
    /\ UNCHANGED <<wire, at, lim, ops, header_buf, bits, last_meta_key, last_pos_key,
                   out, dst, shared>>

-----------------------------------------------------------------------------
(* SharedMetadata::set, by the Roon thread.                                *)
Set ==
    /\ shared' \in Metas
    /\ UNCHANGED <<wire, at, lim, pc, ops, header_buf, bits, last_meta_key, last_pos_key,
                   out, dst>>

(* What the thread does by itself once it has a buffer.                    *)
Process ==
    \/ TopOfBuffer \/ MidBufferXml \/ AccumulateHeader \/ CompleteHeader \/ Resume
    \/ DrainPass \/ DrainSkip \/ DrainEmit \/ DrainDone \/ FlushOut

Next == Read \/ ReadEnds \/ Process \/ Set

Spec == Init /\ [][Next]_vars

(* Fairness: the thread runs, and its writes return (the NAA drains its    *)
(* socket or the connection fails); nothing makes HQPlayer send more.      *)
FairSpec == Spec /\ WF_vars(Process)
=============================================================================
