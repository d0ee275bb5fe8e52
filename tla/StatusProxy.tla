---------------------------- MODULE StatusProxy ----------------------------
(***************************************************************************)
(* forward_status_to_naa of src/src/proxy.rs: HQPlayer's control channel   *)
(* on its way to the NAA.  In what one read returns, the value of the      *)
(* first song attribute is replaced by the title of the track Roon plays.  *)
(*                                                                         *)
(* HQPlayer, TCP and the Roon thread are external.  Sessions has the life  *)
(* of the thread; here it runs until a read or a write ends it.            *)
(***************************************************************************)
EXTENDS Naturals, Sequences, SequencesExt

CONSTANTS
    Stream,    \* what HQPlayer sends, a sequence of units
    Titles,    \* the titles of what Roon plays, one after the other; some may be empty
    MaxRead    \* units the buffer takes

(* A unit is an element of these: the parts of song=" (TCP may cut between *)
(* them), a quote, a value's text, the halves of a character of two bytes, *)
(* and any other text.  A title is a sequence of characters; the proxy     *)
(* writes some as an entity ("twice": the & of an entity is one again).    *)
(* Each unit has its place in the stream, those the proxy writes place 0.  *)
Kinds == {"so", "ng=", "quote", "Roon", "u1", "u2", "text"}
Character == {"a", "b", "&", "quote", "<", ">"}
Entities == {"&amp;", "&quot;", "&lt;", "&gt;"}
Unit ==
    [k : Kinds, at : DOMAIN Stream] \cup [k : Character \cup Entities \cup {"twice"}, at : {0}]

ASSUME StatusAssumption ==
    /\ Stream \in Seq([k : Kinds, at : Nat])
    /\ \A i \in DOMAIN Stream : Stream[i].at = i
    /\ Titles \in Seq(Seq(Character))
    /\ MaxRead \in Nat \ {0}

VARIABLES
    shared,  \* how many tracks Roon has played: the title is the last one's
    untold,  \* units read up to the last read with no title at hand (for RoonReplaced)
    at,      \* units read
    pend,    \* a read's units, rewritten, not yet written
    out,     \* units written to the NAA
    pc       \* "read", "write" or "ended"

vars == <<shared, untold, at, pend, out, pc>>

Init ==
    /\ shared = 0 /\ untold = 0
    /\ at = 0 /\ pend = <<>> /\ out = <<>> /\ pc = "read"

-----------------------------------------------------------------------------
(* Mutant: the title is looked up once.                                    *)
Title_Once == IF shared = 0 THEN <<>> ELSE Titles[1]

Title == IF shared = 0 THEN <<>> ELSE Titles[shared]

(* The metadata gets another title, or none: a track without one.          *)
Plays ==
    /\ shared < Len(Titles) /\ shared' = shared + 1
    /\ UNCHANGED <<untold, at, pend, out, pc>>

(* str::replace of one character by an entity; each entity contains an &.  *)
Replace(s, c, entity) ==
    [i \in DOMAIN s |-> IF s[i] = c THEN entity
                        ELSE IF c = "&" /\ s[i] \in Entities THEN "twice" ELSE s[i]]

(* Mutant: & is replaced last, and with it the & of the entities.          *)
xml_escape_attr_AmpLast(s) ==
    Replace(Replace(Replace(Replace(s, "quote", "&quot;"), "<", "&lt;"), ">", "&gt;"), "&", "&amp;")

xml_escape_attr(s) ==
    Replace(Replace(Replace(Replace(s, "&", "&amp;"), "quote", "&quot;"), "<", "&lt;"), ">", "&gt;")

Kind(data, i) == IF i \in DOMAIN data THEN data[i].k ELSE "none"

IsUtf8(data) ==
    \A i \in DOMAIN data :
        /\ Kind(data, i) = "u1" => Kind(data, i + 1) = "u2"
        /\ Kind(data, i) = "u2" => Kind(data, i - 1) = "u1"

(* Where the value of the first song attribute starts and where its quote  *)
(* is, 0 if there is none.                                                 *)
Starts(s) == {i \in 4..Len(s) : s[i - 3].k = "so" /\ s[i - 2].k = "ng=" /\ s[i - 1].k = "quote"}
ValStart(data) == IF Starts(data) = {} THEN 0 ELSE Min(Starts(data))

IsQuote(u) == u.k = "quote"
Quote(s, from) == SelectInSubSeq(s, from, Len(s), IsQuote)

(* Mutant: the quote is the last of the read.                              *)
ValEnd_Last(data) == SelectLastInSubSeq(data, ValStart(data), Len(data), IsQuote)

ValEnd(data) == Quote(data, ValStart(data))

Written(s) == [i \in DOMAIN s |-> [k |-> s[i], at |-> 0]]

rewrite_status_song(data, title) ==
    SubSeq(data, 1, ValStart(data) - 1)
      \o Written(xml_escape_attr(title))
      \o SubSeq(data, ValEnd(data), Len(data))

Rewrites(data) ==
    /\ Title # <<>> /\ IsUtf8(data)
    /\ ValStart(data) # 0 /\ ValEnd(data) # 0

(* A read: any number of units that TCP has, up to the buffer's size.      *)
Read ==
    /\ pc = "read" /\ pc' = "write"
    /\ \E n \in 1..MaxRead :
         LET data == SubSeq(Stream, at + 1, at + n)
         IN  /\ at + n <= Len(Stream) /\ at' = at + n
             /\ pend' = IF Rewrites(data) THEN rewrite_status_song(data, Title) ELSE data
    /\ untold' = IF Title = <<>> THEN at' ELSE untold
    /\ UNCHANGED <<shared, out>>

(* Mutant: what was written is kept.                                       *)
WriteAll_Keeps ==
    /\ pc = "write" /\ pc' = "read"
    /\ out' = out \o pend /\ UNCHANGED pend
    /\ UNCHANGED <<shared, untold, at>>

WriteAll ==
    /\ pc = "write" /\ pc' = "read"
    /\ out' = out \o pend /\ pend' = <<>>
    /\ UNCHANGED <<shared, untold, at>>

(* End of stream, an error, or a write that fails half way.                *)
Ends ==
    /\ pc # "ended" /\ pc' = "ended"
    /\ \E n \in 0..Len(pend) : out' = out \o SubSeq(pend, 1, n)
    /\ pend' = <<>>
    /\ UNCHANGED <<shared, untold, at>>

Next == Plays \/ Read \/ WriteAll \/ Ends

Spec == Init /\ [][Next]_vars

-----------------------------------------------------------------------------
(* What the NAA makes of it: the song attributes of what it has got.       *)
Songs(s) == {i \in Starts(s) : Quote(s, i) # 0}
Value(s, i) == SubSeq(s, i, Quote(s, i) - 1)
Untouched(s, i) == \A j \in DOMAIN Value(s, i) : Value(s, i)[j].at # 0

(* Its XML parser resolves the entities.                                   *)
Resolved(k) ==
    CASE k = "&amp;" -> "&" [] k = "&quot;" -> "quote" [] k = "&lt;" -> "<" [] k = "&gt;" -> ">"
      [] OTHER -> k
Shown(s, i) == [j \in DOMAIN Value(s, i) |-> Resolved(Value(s, i)[j].k)]

(* The types of the state; something is to be written only while writing.  *)
TypeOK ==
    /\ shared \in 0..Len(Titles) /\ untold \in 0..at /\ at \in 0..Len(Stream)
    /\ pc \in {"read", "write", "ended"}
    /\ pend \in Seq(Unit) /\ out \in Seq(Unit)
    /\ (pend # <<>>) = (pc = "write")

(* Nothing of HQPlayer's is changed, lost, repeated or out of order on its *)
(* way to the NAA but the values of song attributes.                       *)
InSong(i) == \E j \in Starts(Stream) : j <= i /\ i < Quote(Stream, j)
OnlySongsTouched ==
    LET s == out \o pend
    IN  /\ \A i \in DOMAIN s : s[i].at # 0 => s[i] = Stream[s[i].at]
        /\ \A i, j \in DOMAIN s : i < j /\ s[i].at # 0 /\ s[j].at # 0 => s[i].at < s[j].at
        /\ pc # "ended" => \A i \in 1..at : InSong(i) \/ \E j \in DOMAIN s : s[j].at = i

(* Whatever characters a title has, what the NAA displays as the song is   *)
(* HQPlayer's own or exactly a title Roon has played.                      *)
ShowsATitle ==
    \A i \in Songs(out) :
        Untouched(out, i) \/ \E v \in 1..shared : Shown(out, i) = Titles[v]

(* The titles displayed follow Roon: none comes after a later one, and one *)
(* that is read is that of the track now playing.                          *)
TitlesFollow ==
    [][pc = "read" /\ pc' = "write" =>
         \A i \in Songs(pend') : Untouched(pend', i) \/ Shown(pend', i) = Titles[shared]]_vars

(* "Rewriting song="Roon" with the actual track title from Roon metadata   *)
(* so the DAC displays the correct info": no song all of which was read    *)
(* with a title at hand reaches the NAA as HQPlayer sent it.               *)
RoonReplaced ==
    \A i \in Songs(out) : Untouched(out, i) => out[i - 3].at <= untold
=============================================================================
