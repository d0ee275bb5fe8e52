---------------------------- MODULE MCFrameProxy ----------------------------
(* Small streams for FrameProxy: headers of two bytes, sections of at most *)
(* two, sample widths 8, 16 and 32 (and 1, DSD).                           *)
EXTENDS FrameProxyProperties

CONSTANTS a, b, x, y       \* tracks, covers

Start(bps, nl) == [type |-> "xml", start |-> TRUE, bits |-> bps, nl |-> nl]
KeepAlive(bps, nl) == [type |-> "xml", start |-> FALSE, bits |-> bps, nl |-> nl]

Frame(bps, pcm, pos, meta, pic, lt) ==
    [type |-> "frame", bits |-> bps, lt |-> lt,
     h |-> [mask |-> {"PCM"} \cup (IF pos > 0 THEN {"POS"} ELSE {})
                       \cup (IF meta > 0 THEN {"META"} ELSE {})
                       \cup (IF pic > 0 THEN {"PIC"} ELSE {}),
            pcm |-> pcm, pos |-> pos, meta |-> meta, pic |-> pic]]

(* A start, a frame with every section, a restart at another width.        *)
Restart == UnitsOf(<<Start(8, TRUE), Frame(8, 1, 1, 1, 1, FALSE),
                     Start(16, FALSE), Frame(16, 1, 0, 1, 0, FALSE)>>)
(* No start: the default width; body bytes that look like '<'; a keepalive *)
(* between frames; an empty body; a trailing message.                      *)
Mixed == UnitsOf(<<Frame(32, 1, 0, 1, 0, TRUE), KeepAlive(32, TRUE),
                   Frame(32, 0, 1, 0, 0, TRUE), Frame(32, 0, 0, 0, 0, FALSE)>>)
(* DSD, then a frame whose lengths is_corrupt refuses.                     *)
Corrupt == UnitsOf(<<Start(1, FALSE), Frame(1, 2, 0, 1, 1, TRUE), Frame(1, 3, 0, 0, 0, FALSE)>>)
(* Two starts in a row between frames: the memory is cleared twice.        *)
Twice == UnitsOf(<<Frame(32, 0, 1, 1, 0, FALSE), Start(8, TRUE), Start(8, FALSE),
                   Frame(8, 2, 1, 0, 0, TRUE), Frame(8, 1, 0, 0, 1, FALSE)>>)

MCStreams == {Restart, Mixed, Corrupt, Twice}
MCSplitStreams == {UnitsOf(<<Start(8, TRUE), Frame(8, 1, 0, 2, 0, FALSE), Frame(8, 1, 0, 1, 0, FALSE)>>)}

(* Same track with another cover and a later position; a track without a   *)
(* cover; nothing known of the track but its position.                     *)
MCMetas == {[key |-> a, cover |-> x, pos |-> 1], [key |-> a, cover |-> y, pos |-> 2],
            [key |-> b, cover |-> None, pos |-> None], [key |-> None, cover |-> None, pos |-> 2]}

(* What two bytes that are no header may say: nothing follows, or a sample. *)
MCGarbage == {Frame(8, 0, 0, 0, 0, FALSE).h, Frame(8, 1, 0, 0, 0, FALSE).h,
              Frame(8, 9, 0, 0, 0, FALSE).h}
=============================================================================
