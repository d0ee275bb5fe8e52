------------------------ MODULE FrameProxyProperties ------------------------
(***************************************************************************)
(* What makes FrameProxy correct.                                          *)
(***************************************************************************)
EXTENDS FrameProxy

Running == pc \notin {"closed", "corrupt"}

(* Everything handed on towards the NAA: out counts while the code means   *)
(* to write it (what it holds at "read" and "top" is left over).           *)
Emitted == IF pc \in {"loop", "drain"} THEN dst \o out ELSE dst

(* Nothing of a message is left before at.                                 *)
Boundary == at = 0 \/ wire[at].off = Size(wire[at].msg)

-----------------------------------------------------------------------------
Keys == {m.key : m \in Metas}
Positions == {m.pos : m \in Metas}
Covers == {m.cover : m \in Metas}

Byte == [kind : {"src"}, at : 1..Len(wire)]
Section ==
    [kind : {"hdr"}, h : FrameHeader] \cup [kind : {"pos"}, pos : Positions]
      \cup [kind : {"meta"}, key : Keys, bits : Nat] \cup [kind : {"pic"}, cover : Covers]
Element == Byte \cup Section
FrameOp == [op : {"Pass", "Skip"}, n : Nat] \cup [op : {"Emit"}, sec : Section]

(* The types of the state: buffer positions in range, never a whole header *)
(* left accumulated, a queue of the three operations of FrameOp.           *)
TypeOK ==
    /\ wire \in Streams
    /\ at \in 0..lim /\ lim \in 0..Len(wire)
    /\ pc \in {"read", "top", "loop", "drain", "closed", "corrupt"}
    /\ pc = "read" => at = lim
    /\ header_buf \in 0..(FRAME_HEADER_SIZE - 1)
    /\ bits \in Nat
    /\ ops \in Seq(FrameOp)
    /\ last_meta_key \in Keys \cup {None}
    /\ last_pos_key \in Positions \cup {None}
    /\ out \in Seq(Element) /\ dst \in Seq(Element)
    /\ shared \in Metas \cup {[key |-> None, cover |-> None, pos |-> None]}

-----------------------------------------------------------------------------
(* The proxy strips "unconditionally" (build_frame_ops): no byte of        *)
(* HQPlayer's headers or of its POS, META and PIC ever reaches the NAA,    *)
(* however TCP cuts the frames and wherever XML stands between them.       *)
NoLeak ==
    \A i \in DOMAIN Emitted :
        Emitted[i].kind = "src" => IsPayload(wire[Emitted[i].at])

(* "Any trailing binary bytes in the same TCP read must go through frame   *)
(* processing, otherwise HQP's raw META leaks through to the DAC"          *)
(* (proxy.rs:380-383): no byte of HQPlayer's sections reaches the NAA.     *)
MetaNeverLeaks ==
    \A i \in DOMAIN Emitted :
        Emitted[i].kind = "src" => ~IsStripped(wire[Emitted[i].at])

(* XML and audio reach the NAA in the order HQPlayer sent them, each byte  *)
(* once, although XML is written past the buffer the audio collects in.    *)
InOrder ==
    \A i, j \in DOMAIN Emitted :
        i < j /\ Emitted[i].kind = "src" /\ Emitted[j].kind = "src"
          => Emitted[i].at < Emitted[j].at

(* None of it is lost: the NAA never hears a byte before all the XML and   *)
(* audio that precede it, and while the thread runs every such byte it has *)
(* consumed has been handed on, the collected bytes never cleared unwritten.*)
NothingLost ==
    /\ \A i \in DOMAIN Emitted : Emitted[i].kind = "src" =>
         \A p \in 1..(Emitted[i].at - 1) : IsPayload(wire[p]) =>
           \E j \in 1..(i - 1) : Emitted[j] = [kind |-> "src", at |-> p]
    /\ Running => \A p \in 1..at : IsPayload(wire[p]) =>
         \E i \in DOMAIN Emitted : Emitted[i] = [kind |-> "src", at |-> p]

(* The state machine stays in step with the messages: with no operation    *)
(* pending it stands at the end of a message or inside a header, as many   *)
(* bytes into it as it has accumulated.                                    *)
InStep ==
    Running /\ ops = <<>> =>
        IF header_buf = 0 THEN Boundary
        ELSE at > 0 /\ IsHeader(wire[at]) /\ wire[at].off = header_buf

(* The thread closes the connection as corrupt only for a header HQPlayer  *)
(* really sent, never for one it made up by losing its place.              *)
CorruptOnlyIfSent ==
    pc = "corrupt" =>
        /\ IsHeader(wire[at]) /\ wire[at].off = FRAME_HEADER_SIZE
        /\ is_corrupt(wire[at].msg.h)

(* Nothing waits for bytes that may never come: when the thread blocks in  *)
(* read after the last byte of a message, all of it has been written.      *)
NothingHeldBack == pc = "read" /\ Boundary => ops = <<>> /\ header_buf = 0

-----------------------------------------------------------------------------
(* What the NAA is to hear: after all that was handed on the sections      *)
(* queued; the bytes between them say nothing.                             *)
Silence == [kind |-> "none"]
Queued == [i \in DOMAIN ops |-> IF ops[i].op = "Emit" THEN ops[i].sec ELSE Silence]
WillHear == Emitted \o Queued

PendingSections == {ops[i].sec : i \in {k \in DOMAIN ops : ops[k].op = "Emit"}}

(* What the NAA displays once it has heard that: a section replaces the    *)
(* one it held, a start message makes it forget (external: this is why     *)
(* reset_for_start clears what was last emitted).                          *)
Forgets(e) == e.kind = "src" /\ IsStart(wire[e.at])
Since(kind) ==
    {i \in DOMAIN WillHear : /\ WillHear[i].kind = kind
                             /\ \A j \in DOMAIN WillHear : j > i => ~Forgets(WillHear[j])}
Displayed(kind, blank) == IF Since(kind) = {} THEN blank ELSE WillHear[Max(Since(kind))]

Display ==
    [key   |-> Displayed("meta", Meta(None, 32)).key,
     bits  |-> Displayed("meta", Meta(None, 32)).bits,
     pos   |-> Displayed("pos", Pos(None)).pos,
     cover |-> Displayed("pic", Pic(None)).cover]

(* The proxy's memory of what it last emitted is what the NAA displays (or *)
(* will, after the operations pending), with the parameters of the stream  *)
(* now playing: neither can go stale, whatever start messages come between.*)
BeliefHeld ==
    Running => /\ Display.key = last_meta_key
               /\ Display.pos = last_pos_key
               /\ Display.key # None => Display.bits = bits

(* A frame's header is complete: the step that queues its operations.      *)
FrameBegins == pc = "loop" /\ pc' = "drain" /\ ops = <<>>

(* Every frame brings the NAA up to date with Roon as it was when the      *)
(* frame began, with the cover of the same track when that has one.        *)
EveryFrameRefreshes ==
    [][FrameBegins =>
         /\ shared.key # None => Display'.key = shared.key
         /\ shared.pos # None => Display'.pos = shared.pos
         /\ Display'.key # Display.key /\ shared.cover # None =>
              Display'.cover = shared.cover]_vars

(* "Emit a replacement only when Roon's value has changed since the last   *)
(* one we sent", for the track and the position: no section repeats what   *)
(* the NAA already displays.                                               *)
NoRepeat ==
    [][FrameBegins => \A sec \in PendingSections' :
         /\ sec.kind = "meta" => sec.key # Display.key
         /\ sec.kind = "pos" => sec.pos # Display.pos]_vars

-----------------------------------------------------------------------------
(* Refinement: the bytes handed on form a stream as NaaStream promises.    *)

Token(e) ==
    IF e.kind # "src" THEN e
    ELSE LET u == wire[e.at]
         IN  IF IsXml(u) THEN [kind |-> "xml", start |-> IsStart(u), bits |-> u.msg.bits]
             ELSE IF IsPayload(u) THEN [kind |-> "pcm"] ELSE [kind |-> "leak"]

heardByNaa == [i \in DOMAIN Emitted |-> Token(Emitted[i])]

(* Nothing is owed until the header itself has been emitted.               *)
HeaderQueued == ops # <<>> /\ ops[1].op = "Emit" /\ ops[1].sec.kind = "hdr"

owedToNaa ==
    IF HeaderQueued THEN [pcm |-> 0, sections |-> {}]
    ELSE [pcm |-> IF ops # <<>> /\ ops[1].op = "Pass" THEN ops[1].n ELSE 0,
          sections |-> PendingSections]

Naa == INSTANCE NaaStream
         WITH heard <- heardByNaa, owed <- owedToNaa, bits <- bits, open <- Running

(* The NAA hears a well-formed stream.                                     *)
WellFramed == Naa!StreamSpec

-----------------------------------------------------------------------------
(* Once it has read a buffer, the thread is done with it and back at read  *)
(* (or has closed the connection): no part of the loop fails to advance.   *)
BufferDone == pc \in {"read", "closed", "corrupt"}
ReadsComplete == pc = "top" ~> BufferDone
=============================================================================
