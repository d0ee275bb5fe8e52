------------------------- MODULE StatusProxyProofs -------------------------
(***************************************************************************)
(* The safety of StatusProxy for every stream, however it is cut into      *)
(* reads, any titles and any moments at which Roon plays them:             *)
(*   1. a unit of the proxy stands in a title: song=" before it, escaped   *)
(*      characters, none of them a quote, then a quote (TitleAt, Told);    *)
(*      so the NAA reads exactly that title (ToldShows);                   *)
(*   2. this survives what is written next, for nothing that a read leaves *)
(*      ends within a title (Whole), and a write that is cut short;        *)
(*   3. HQPlayer's units stay in order (Relays), and all of them but those *)
(*      of songs are there (Complete); both add up over the reads.         *)
(* No induction over a title: each fact is about places.                   *)
(***************************************************************************)
EXTENDS StatusProxy, SequenceLemmas

-----------------------------------------------------------------------------
(* The constants.                                                          *)
LEMMA StreamUnits ==
    /\ Len(Stream) \in Nat /\ DOMAIN Stream = 1..Len(Stream) /\ Stream \in Seq(Unit)
    /\ \A i \in 1..Len(Stream) : Stream[i] \in Unit /\ Stream[i].at = i /\ i # 0
<1>1. /\ Len(Stream) \in Nat /\ DOMAIN Stream = 1..Len(Stream)
      /\ \A i \in 1..Len(Stream) : Stream[i] \in [k : Kinds, at : Nat]
  BY StatusAssumption, LenProperties, ElementOfSeq DEF StatusAssumption
<1>2. \A i \in 1..Len(Stream) : Stream[i].at = i
  BY <1>1, StatusAssumption DEF StatusAssumption
<1>3. \A i \in 1..Len(Stream) : Stream[i] \in Unit
  BY <1>1, <1>2 DEF Unit
<1>4. Stream = [i \in 1..Len(Stream) |-> Stream[i]]
  BY <1>1, StatusAssumption DEF StatusAssumption
<1>5. Stream \in Seq(Unit)
  BY <1>1, <1>3, <1>4, IsASeq
<1> QED
  BY <1>1, <1>2, <1>3, <1>5

LEMMA TitleType ==
    ASSUME NEW v \in 1..Len(Titles)
    PROVE  /\ Titles[v] \in Seq(Character) /\ Len(Titles[v]) \in Nat
           /\ DOMAIN Titles[v] = 1..Len(Titles[v])
           /\ \A i \in 1..Len(Titles[v]) : Titles[v][i] \in Character
<1>1. Titles[v] \in Seq(Character)
  BY StatusAssumption, ElementOfSeq DEF StatusAssumption
<1> QED
  BY <1>1, EmptySeq, LenProperties, ElementOfSeq

(* The first quote from a place on.                                        *)
LEMMA QuoteIs ==
    ASSUME NEW s, Len(s) \in Nat, NEW i \in Nat \ {0}
    PROVE  \/ Quote(s, i) = 0 /\ \A j \in i..Len(s) : s[j].k # "quote"
           \/ /\ Quote(s, i) \in i..Len(s) /\ s[Quote(s, i)].k = "quote"
              /\ \A j \in i..Len(s) : s[j].k = "quote" => Quote(s, i) <= j
<1> DEFINE I == {j \in i..Len(s) : s[j].k = "quote"}
<1>1. Quote(s, i) = IF I # {} THEN Min(I) ELSE 0
  BY DEF Quote, SelectInSubSeq, IsQuote
<1>2. I \subseteq Nat
  OBVIOUS
<1>3. I # {} => Min(I) \in I /\ \A y \in I : Min(I) <= y
  BY <1>2, MinOfNaturals
<1> QED
  BY <1>1, <1>3

LEMMA FirstQuote ==
    ASSUME NEW s, Len(s) \in Nat, NEW i \in Nat \ {0}, NEW q \in i..Len(s), s[q].k = "quote",
           \A j \in i..(q - 1) : s[j].k # "quote"
    PROVE  Quote(s, i) = q
<1>1. /\ Quote(s, i) \in i..Len(s) /\ s[Quote(s, i)].k = "quote"
      /\ Quote(s, i) <= q
  BY QuoteIs
<1>2. ~(Quote(s, i) < q)
  <2> SUFFICES ASSUME Quote(s, i) < q PROVE FALSE
    OBVIOUS
  <2>1. Quote(s, i) \in i..(q - 1)
    BY <1>1
  <2> QED
    BY <1>1, <2>1
<1> QED
  BY <1>1, <1>2

(* xml_escape_attr replaces each character by itself or its entity, and an *)
(* XML parser gives the character back.                                    *)
Escaped(c) ==
    CASE c = "&" -> "&amp;" [] c = "quote" -> "&quot;" [] c = "<" -> "&lt;" [] c = ">" -> "&gt;"
      [] OTHER -> c

LEMMA EscapedIs ==
    ASSUME NEW c \in Character
    PROVE  /\ Escaped(c) \in Character \cup Entities /\ Escaped(c) # "quote"
           /\ Resolved(Escaped(c)) = c
<1>1. CASE c \in {"a", "b"}
  BY <1>1 DEF Escaped, Resolved, Character
<1>2. CASE c = "&"
  BY <1>2 DEF Escaped, Resolved, Entities
<1>3. CASE c = "quote"
  BY <1>3 DEF Escaped, Resolved, Entities
<1>4. CASE c = "<"
  BY <1>4 DEF Escaped, Resolved, Entities
<1>5. CASE c = ">"
  BY <1>5 DEF Escaped, Resolved, Entities
<1> QED
  BY <1>1, <1>2, <1>3, <1>4, <1>5 DEF Character

LEMMA EscapeIs ==
    ASSUME NEW t \in Seq(Character)
    PROVE  xml_escape_attr(t) = [i \in DOMAIN t |-> Escaped(t[i])]
<1> DEFINE r1 == Replace(t, "&", "&amp;")
           r2 == Replace(r1, "quote", "&quot;")
           r3 == Replace(r2, "<", "&lt;")
           r4 == Replace(r3, ">", "&gt;")
<1>0. \A i \in DOMAIN t : t[i] \in Character /\ t[i] \notin Entities
  <2>1. \A i \in DOMAIN t : t[i] \in Character
    BY LenProperties, ElementOfSeq
  <2>2. \A c \in Character : c \notin Entities
    BY DEF Character, Entities
  <2> QED
    BY <2>1, <2>2
<1>1. r1 = [i \in DOMAIN t |-> IF t[i] = "&" THEN "&amp;" ELSE t[i]]
  BY <1>0 DEF Replace
<1>2. r2 = [i \in DOMAIN t |-> IF r1[i] = "quote" THEN "&quot;" ELSE r1[i]]
  <2>1. DOMAIN r1 = DOMAIN t
    BY DEF Replace
  <2> HIDE DEF r1
  <2> QED
    BY <2>1 DEF Replace
<1>3. r3 = [i \in DOMAIN t |-> IF r2[i] = "<" THEN "&lt;" ELSE r2[i]]
  <2>1. DOMAIN r2 = DOMAIN t
    BY DEF Replace
  <2> HIDE DEF r2
  <2> QED
    BY <2>1 DEF Replace
<1>4. r4 = [i \in DOMAIN t |-> IF r3[i] = ">" THEN "&gt;" ELSE r3[i]]
  <2>1. DOMAIN r3 = DOMAIN t
    BY DEF Replace
  <2> HIDE DEF r3
  <2> QED
    BY <2>1 DEF Replace
<1>5. xml_escape_attr(t) = r4
  BY DEF xml_escape_attr
<1> HIDE DEF r1, r2, r3, r4
<1>6. \A i \in DOMAIN t : r4[i] = Escaped(t[i])
  BY <1>0, <1>1, <1>2, <1>3, <1>4 DEF Escaped
<1> QED
  BY <1>4, <1>5, <1>6

-----------------------------------------------------------------------------
(* What rewrite_status_song returns.                                       *)
LEMMA ValIs ==
    ASSUME NEW data, Len(data) \in Nat, ValStart(data) # 0, ValEnd(data) # 0
    PROVE  /\ ValStart(data) \in Starts(data)
           /\ \A i \in Starts(data) : i \in Nat \ {0} /\ i >= 4
           /\ ValEnd(data) = Quote(data, ValStart(data))
           /\ ValEnd(data) \in ValStart(data)..Len(data) /\ data[ValEnd(data)].k = "quote"
           /\ \A j \in ValStart(data)..(ValEnd(data) - 1) : data[j].k # "quote"
<1>1. \A i \in Starts(data) : i \in Nat \ {0} /\ i >= 4
  BY DEF Starts
<1>2. Starts(data) # {} /\ ValStart(data) = Min(Starts(data))
  BY DEF ValStart
<1>3. ValStart(data) \in Starts(data)
  BY <1>1, <1>2, MinOfNaturals
<1> DEFINE a == ValStart(data)
           e == ValEnd(data)
<1>4. a \in Nat \ {0} /\ e = Quote(data, a)
  BY <1>1, <1>3 DEF ValEnd
<1> HIDE DEF a, e
<1>5. /\ e \in a..Len(data) /\ data[e].k = "quote"
      /\ \A j \in a..Len(data) : data[j].k = "quote" => e <= j
  <2>1. e # 0
    BY DEF e
  <2> QED
    BY <1>4, <2>1, QuoteIs
<1>6. ASSUME NEW j \in a..(e - 1) PROVE data[j].k # "quote"
  <2>1. j \in a..Len(data) /\ ~(e <= j)
    BY <1>4, <1>5
  <2> QED
    BY <1>5, <2>1
<1> QED
  BY <1>1, <1>3, <1>4, <1>5, <1>6 DEF a, e

LEMMA WrittenIs ==
    ASSUME NEW t \in Seq(Character)
    PROVE  LET w == Written(xml_escape_attr(t))
           IN  /\ w \in Seq(Unit) /\ Len(w) = Len(t)
               /\ \A i \in 1..Len(t) : w[i] = [k |-> Escaped(t[i]), at |-> 0]
<1> DEFINE w == Written(xml_escape_attr(t))
<1>1. Len(t) \in Nat /\ DOMAIN t = 1..Len(t) /\ \A i \in 1..Len(t) : t[i] \in Character
  BY LenProperties, ElementOfSeq
<1>2. xml_escape_attr(t) = [i \in 1..Len(t) |-> Escaped(t[i])]
  BY <1>1, EscapeIs
<1>3. w = [i \in 1..Len(t) |-> [k |-> Escaped(t[i]), at |-> 0]]
  BY <1>2 DEF Written
<1>4. \A i \in 1..Len(t) : [k |-> Escaped(t[i]), at |-> 0] \in Unit
  BY <1>1, EscapedIs DEF Unit
<1> HIDE DEF w
<1>5. w \in Seq(Unit)
  BY <1>1, <1>3, <1>4, IsASeq
<1>6. Len(w) = Len(t) /\ \A i \in 1..Len(t) : w[i] = [k |-> Escaped(t[i]), at |-> 0]
  BY <1>1, <1>3, <1>5, LenProperties
<1> QED
  BY <1>5, <1>6 DEF w

Around(data, b, e, d) ==
    /\ data \in Seq(Unit) /\ b < e /\ e <= Len(data) /\ d = Len(data) - e + 1
    /\ b + 1 = ValStart(data) /\ e = ValEnd(data)

Rewritten(p, data, t, b, e, d) ==
    /\ p \in Seq(Unit) /\ Len(p) = b + Len(t) + d
    /\ \A i \in 1..b : p[i] = data[i]
    /\ \A i \in 1..Len(t) : p[b + i] = [k |-> Escaped(t[i]), at |-> 0]
    /\ \A i \in 1..d : p[b + Len(t) + i] = data[e - 1 + i]

LEMMA RewriteIs ==
    ASSUME NEW data, NEW t \in Seq(Character), NEW b \in Nat, NEW e \in Nat, NEW d \in Nat,
           Around(data, b, e, d), NEW p, p = rewrite_status_song(data, t)
    PROVE  Rewritten(p, data, t, b, e, d)
<1>0. /\ data \in Seq(Unit) /\ b < e /\ e <= Len(data) /\ d = Len(data) - e + 1
      /\ b + 1 = ValStart(data) /\ e = ValEnd(data)
  BY DEF Around
<1> DEFINE x == SubSeq(data, 1, b)
           w == Written(xml_escape_attr(t))
           y == SubSeq(data, e, Len(data))
<1>1. Len(data) \in Nat /\ Len(t) \in Nat
  BY <1>0, LenProperties
<1>2. x \in Seq(Unit) /\ Len(x) = b /\ \A i \in 1..b : x[i] = data[i]
  <2>1. 1 \in Nat \ {0} /\ b <= Len(data) /\ 1 <= b + 1
        /\ b - 1 + 1 = b /\ \A i \in 1..b : 1 + i - 1 = i
    BY <1>0, <1>1
  <2>2. /\ x \in Seq(Unit) /\ Len(x) = b - 1 + 1
        /\ \A i \in 1..(b - 1 + 1) : x[i] = data[1 + i - 1]
    BY <1>0, <2>1, PartIs
  <2> HIDE DEF x
  <2> QED
    BY <2>1, <2>2
<1>3. y \in Seq(Unit) /\ Len(y) = d /\ \A i \in 1..d : y[i] = data[e - 1 + i]
  <2>1. e \in Nat \ {0} /\ e <= Len(data) + 1 /\ \A i \in 1..d : e + i - 1 = e - 1 + i
    BY <1>0, <1>1
  <2>2. y \in Seq(Unit) /\ Len(y) = Len(data) - e + 1
        /\ \A i \in 1..(Len(data) - e + 1) : y[i] = data[e + i - 1]
    BY <1>0, <1>1, <2>1, PartIs
  <2> HIDE DEF y
  <2> QED
    BY <1>0, <2>1, <2>2
<1>4. w \in Seq(Unit) /\ Len(w) = Len(t)
      /\ \A i \in 1..Len(t) : w[i] = [k |-> Escaped(t[i]), at |-> 0]
  BY WrittenIs
<1>5. p = x \o w \o y
  <2>1. ValStart(data) - 1 = b
    BY <1>0
  <2> QED
    BY <1>0, <2>1 DEF rewrite_status_song
<1> HIDE DEF x, w, y
<1>6. /\ p \in Seq(Unit) /\ Len(p) = Len(x) + Len(w) + Len(y)
      /\ \A i \in 1..Len(x) : p[i] = x[i]
      /\ \A i \in 1..Len(w) : p[Len(x) + i] = w[i]
      /\ \A i \in 1..Len(y) : p[Len(x) + Len(w) + i] = y[i]
  <2>1. x \in Seq(Unit) /\ w \in Seq(Unit) /\ y \in Seq(Unit)
    BY <1>2, <1>3, <1>4
  <2> QED
    BY <1>5, <2>1, ConcatThree
<1> QED
  BY <1>2, <1>3, <1>4, <1>6 DEF Rewritten

-----------------------------------------------------------------------------
(* Where the proxy's units are.  A title t stands at a: the attribute is   *)
(* open, t follows, escaped, and then the quote, as far as s reaches.      *)
TitleAt(s, a, t) ==
    /\ a >= 4 /\ s[a - 3].k = "so" /\ s[a - 2].k = "ng=" /\ s[a - 1].k = "quote"
    /\ \A j \in 1..Len(t) : a - 1 + j <= Len(s) => s[a - 1 + j] = [k |-> Escaped(t[j]), at |-> 0]
    /\ a + Len(t) <= Len(s) => s[a + Len(t)].k = "quote"

Within(i, a, t) == a <= i /\ i < a + Len(t)

(* All units of the proxy are in titles that are numbered in V.            *)
Told(s, V) ==
    \A i \in 1..Len(s) :
        s[i].at = 0 => \E v \in V, a \in Nat : TitleAt(s, a, Titles[v]) /\ Within(i, a, Titles[v])

(* The last unit is HQPlayer's: nothing of a title is still to come.       *)
Whole(s) == Len(s) > 0 => s[Len(s)].at # 0

LEMMA TitleUnit ==
    ASSUME NEW s, NEW v \in 1..Len(Titles), NEW a \in Nat, TitleAt(s, a, Titles[v]),
           NEW i \in 1..Len(s), Len(s) \in Nat, Within(i, a, Titles[v])
    PROVE  s[i].at = 0 /\ s[i].k # "quote"
<1> DEFINE t == Titles[v]
<1>1. /\ Len(t) \in Nat /\ \A j \in 1..Len(t) : t[j] \in Character
  BY TitleType
<1>2. PICK j \in Nat : j = i - a + 1
  BY DEF Within
<1>3. j \in 1..Len(t) /\ a - 1 + j = i
  BY <1>1, <1>2 DEF Within
<1>4. s[i] = [k |-> Escaped(t[j]), at |-> 0]
  <2>1. a - 1 + j <= Len(s)
    BY <1>3
  <2>2. s[a - 1 + j] = [k |-> Escaped(t[j]), at |-> 0]
    BY <1>3, <2>1 DEF TitleAt
  <2> QED
    BY <1>3, <2>2
<1>5. Escaped(t[j]) # "quote"
  BY <1>1, <1>3, EscapedIs
<1> HIDE DEF t
<1> QED
  BY <1>4, <1>5

(* A song with a unit of the proxy in it shows a title.                    *)
LEMMA ToldShows ==
    ASSUME NEW s \in Seq(Unit), NEW V \in SUBSET (1..Len(Titles)), Told(s, V),
           NEW i \in Songs(s), ~Untouched(s, i)
    PROVE  \E v \in V : Shown(s, i) = Titles[v]
<1>1. /\ Len(s) \in Nat /\ i \in 4..Len(s) /\ s[i - 3].k = "so" /\ s[i - 2].k = "ng="
      /\ s[i - 1].k = "quote" /\ Quote(s, i) # 0
  BY LenProperties DEF Songs, Starts
<1>2. PICK q \in Nat : q = Quote(s, i) /\ q \in i..Len(s) /\ s[q].k = "quote"
                       /\ \A j \in i..Len(s) : s[j].k = "quote" => q <= j
  <2>1. i \in Nat \ {0}
    BY <1>1
  <2>2. /\ Quote(s, i) \in i..Len(s) /\ s[Quote(s, i)].k = "quote"
        /\ \A j \in i..Len(s) : s[j].k = "quote" => Quote(s, i) <= j
    BY <1>1, <2>1, QuoteIs
  <2> QED
    BY <2>2, <1>1
<1>3. /\ Len(Value(s, i)) = q - i /\ Value(s, i) \in Seq(Unit)
      /\ \A j \in 1..(q - i) : Value(s, i)[j] = s[i + j - 1]
  <2>1. /\ i \in Nat \ {0} /\ q - 1 \in Nat /\ q - 1 <= Len(s) /\ i <= q - 1 + 1
        /\ q - 1 - i + 1 = q - i
    BY <1>1, <1>2
  <2>2. LET c == SubSeq(s, i, q - 1)
        IN  /\ c \in Seq(Unit) /\ Len(c) = q - 1 - i + 1
            /\ \A j \in 1..(q - 1 - i + 1) : c[j] = s[i + j - 1]
    BY <2>1, PartIs
  <2> QED
    BY <1>2, <2>1, <2>2 DEF Value
<1>4. PICK u \in i..(q - 1) : s[u].at = 0
  <2>1. PICK j \in 1..(q - i) : Value(s, i)[j].at = 0
    <3>1. DOMAIN Value(s, i) = 1..(q - i)
      BY <1>3, LenProperties
    <3> QED
      BY <3>1 DEF Untouched
  <2>2. i + j - 1 \in i..(q - 1) /\ s[i + j - 1].at = 0
    BY <1>1, <1>2, <1>3, <2>1
  <2> QED
    BY <2>2
<1>5. u \in 1..Len(s) /\ u \in Nat
  BY <1>1, <1>2
<1>6. PICK v \in V, a \in Nat : TitleAt(s, a, Titles[v]) /\ Within(u, a, Titles[v])
  BY <1>4, <1>5 DEF Told
<1> DEFINE t == Titles[v]
<1>7. v \in 1..Len(Titles) /\ Len(t) \in Nat \ {0}
  <2>1. v \in 1..Len(Titles) /\ Len(t) \in Nat
    BY TitleType
  <2> HIDE DEF t
  <2> QED
    BY <1>5, <1>6, <2>1 DEF Within, t
<1>8. a = i
  <2>1. ~(a > i)
    <3> SUFFICES ASSUME a > i PROVE FALSE
      OBVIOUS
    <3>1. a - 1 \in i..Len(s) /\ a - 1 < q
      BY <1>1, <1>2, <1>4, <1>6 DEF Within
    <3>2. s[a - 1].k = "quote"
      BY <1>6 DEF TitleAt
    <3>3. q <= a - 1
      BY <1>2, <3>1, <3>2
    <3> QED
      BY <3>1, <3>3
  <2>2. ~(a < i)
    <3> SUFFICES ASSUME a < i PROVE FALSE
      OBVIOUS
    <3>1. i - 1 \in 1..Len(s) /\ Within(i - 1, a, t)
      BY <1>1, <1>4, <1>5, <1>6, <1>7 DEF Within
    <3> QED
      BY <1>1, <1>6, <1>7, <3>1, TitleUnit
  <2> QED
    BY <2>1, <2>2, <1>1
<1>9. q = i + Len(t)
  <2>1. ~(q < i + Len(t))
    <3> SUFFICES ASSUME q < i + Len(t) PROVE FALSE
      OBVIOUS
    <3>1. q \in 1..Len(s) /\ Within(q, a, t)
      BY <1>1, <1>2, <1>8 DEF Within
    <3> QED
      BY <1>1, <1>2, <1>6, <1>7, <3>1, TitleUnit
  <2>2. i + Len(t) \in i..Len(s)
    BY <1>1, <1>2, <1>7, <2>1
  <2>3. s[i + Len(t)].k = "quote"
    BY <1>1, <1>6, <1>8, <2>2 DEF TitleAt
  <2>4. q <= i + Len(t)
    BY <1>2, <2>2, <2>3
  <2> HIDE DEF t
  <2> QED
    BY <1>1, <1>2, <1>7, <2>1, <2>4
<1>10. ASSUME NEW j \in 1..Len(t) PROVE Resolved(Value(s, i)[j].k) = t[j]
  <2>1. j \in 1..(q - i) /\ i + j - 1 = a - 1 + j /\ a - 1 + j <= Len(s)
    <3>1. j \in Nat \ {0} /\ j <= Len(t) /\ Len(t) \in Nat
      BY <1>7
    <3>2. Len(s) \in Nat /\ q \in i..Len(s)
      BY <1>1, <1>2
    <3> HIDE DEF t
    <3> QED
      BY <1>8, <1>9, <3>1, <3>2
  <2>2. Value(s, i)[j] = [k |-> Escaped(t[j]), at |-> 0]
    BY <1>3, <1>6, <2>1 DEF TitleAt
  <2>3. t[j] \in Character
    BY <1>7, TitleType
  <2> HIDE DEF t
  <2> QED
    BY <2>2, <2>3, EscapedIs
<1>11. DOMAIN Value(s, i) = 1..Len(t)
  <2>1. q - i = Len(t)
    BY <1>1, <1>2, <1>7, <1>9
  <2> QED
    BY <1>3, <2>1, LenProperties
<1>12. Shown(s, i) = [j \in 1..Len(t) |-> t[j]]
  <2> HIDE DEF t
  <2> QED
    BY <1>10, <1>11 DEF Shown
<1>13. t = [j \in 1..Len(t) |-> t[j]]
  BY <1>7, TitleType
<1> QED
  BY <1>12, <1>13

LEMMA ToldMore ==
    ASSUME NEW s, NEW V, NEW W, V \subseteq W, Told(s, V)
    PROVE  Told(s, W)
BY DEF Told

(* Cut anywhere, it still is.                                              *)
LEMMA ToldPrefix ==
    ASSUME NEW s, NEW V \in SUBSET (1..Len(Titles)), Told(s, V), Len(s) \in Nat,
           NEW u, Len(u) \in Nat, Len(u) <= Len(s), \A i \in 1..Len(u) : u[i] = s[i]
    PROVE  Told(u, V)
<1> SUFFICES ASSUME NEW i \in 1..Len(u), u[i].at = 0
             PROVE  \E v \in V, a \in Nat : TitleAt(u, a, Titles[v]) /\ Within(i, a, Titles[v])
  BY DEF Told
<1>1. i \in 1..Len(s) /\ s[i].at = 0
  OBVIOUS
<1>2. PICK v \in V, a \in Nat : TitleAt(s, a, Titles[v]) /\ Within(i, a, Titles[v])
  BY <1>1 DEF Told
<1> DEFINE t == Titles[v]
<1>3. Len(t) \in Nat
  BY TitleType
<1>4. /\ a >= 4 /\ a <= Len(u)
      /\ s[a - 3].k = "so" /\ s[a - 2].k = "ng=" /\ s[a - 1].k = "quote"
  BY <1>2, <1>3 DEF TitleAt, Within
<1>5. u[a - 3].k = "so" /\ u[a - 2].k = "ng=" /\ u[a - 1].k = "quote"
  <2>1. a - 3 \in 1..Len(u) /\ a - 2 \in 1..Len(u) /\ a - 1 \in 1..Len(u)
    BY <1>4
  <2> QED
    BY <1>4, <2>1
<1>6. ASSUME NEW j \in 1..Len(t), a - 1 + j <= Len(u)
      PROVE  u[a - 1 + j] = [k |-> Escaped(t[j]), at |-> 0]
  <2>1. a - 1 + j \in 1..Len(u) /\ a - 1 + j <= Len(s)
    BY <1>3, <1>4, <1>6
  <2> QED
    BY <1>2, <2>1 DEF TitleAt
<1>7. ASSUME a + Len(t) <= Len(u) PROVE u[a + Len(t)].k = "quote"
  <2>1. a + Len(t) \in 1..Len(u) /\ a + Len(t) <= Len(s)
    BY <1>3, <1>4, <1>7
  <2> QED
    BY <1>2, <2>1 DEF TitleAt
<1>8. TitleAt(u, a, t)
  BY <1>4, <1>5, <1>6, <1>7 DEF TitleAt
<1> QED
  BY <1>2, <1>8

(* What is written next does not disturb it.                               *)
LEMMA ToldJoined ==
    ASSUME NEW s, NEW p, NEW u, Joins(u, s, p), NEW V \in SUBSET (1..Len(Titles)),
           Told(s, V), Told(p, V), Whole(s)
    PROVE  Told(u, V)
<1>2. /\ Len(s) \in Nat /\ Len(p) \in Nat /\ Len(u) = Len(s) + Len(p)
      /\ \A i \in 1..Len(s) : u[i] = s[i]
      /\ \A i \in 1..Len(p) : u[Len(s) + i] = p[i]
      /\ \A i \in 1..Len(u) : i \in 1..Len(s) \/ \E j \in 1..Len(p) : i = Len(s) + j
  BY DEF Joins
<1> DEFINE l == Len(s)
           m == Len(p)
<1>a. l \in Nat /\ m \in Nat /\ Len(u) = l + m
  BY <1>2
<1>3. ASSUME NEW i \in 1..Len(s), u[i].at = 0
      PROVE  \E v \in V, a \in Nat : TitleAt(u, a, Titles[v]) /\ Within(i, a, Titles[v])
  <2>1. PICK v \in V, a \in Nat : TitleAt(s, a, Titles[v]) /\ Within(i, a, Titles[v])
    BY <1>2, <1>3 DEF Told
  <2> DEFINE t == Titles[v]
  <2>2. Len(t) \in Nat \ {0}
    <3>1. Len(t) \in Nat
      BY TitleType
    <3> QED
      BY <2>1, <3>1 DEF Within
  <2>3. a + Len(t) <= Len(s)
    <3> SUFFICES ASSUME a + Len(t) > Len(s) PROVE FALSE
      BY <1>2, <2>2
    <3>1. Len(s) \in 1..Len(s) /\ Within(Len(s), a, t)
      BY <1>2, <2>1, <2>2 DEF Within
    <3>2. s[Len(s)].at = 0
      BY <1>2, <2>1, <3>1, TitleUnit
    <3> QED
      BY <1>2, <3>1, <3>2 DEF Whole
  <2>4. /\ a >= 4 /\ s[a - 3].k = "so" /\ s[a - 2].k = "ng=" /\ s[a - 1].k = "quote"
        /\ s[a + Len(t)].k = "quote"
        /\ \A j \in 1..Len(t) : a - 1 + j <= Len(s) => s[a - 1 + j] = [k |-> Escaped(t[j]), at |-> 0]
    BY <2>1, <2>3 DEF TitleAt
  <2>5. /\ a - 3 \in 1..Len(s) /\ a - 2 \in 1..Len(s) /\ a - 1 \in 1..Len(s)
        /\ a + Len(t) \in 1..Len(s)
    BY <1>2, <2>2, <2>3, <2>4
  <2>6. ASSUME NEW j \in 1..Len(t) PROVE u[a - 1 + j] = [k |-> Escaped(t[j]), at |-> 0]
    <3>1. a - 1 + j \in 1..Len(s) /\ a - 1 + j <= Len(s)
      BY <1>2, <2>2, <2>3, <2>4
    <3> QED
      BY <1>2, <2>4, <3>1
  <2>7. TitleAt(u, a, t)
    BY <1>2, <2>4, <2>5, <2>6 DEF TitleAt
  <2> QED
    BY <2>1, <2>7
<1>4. ASSUME NEW i \in 1..Len(p), u[Len(s) + i].at = 0
      PROVE  \E v \in V, a \in Nat : TitleAt(u, a, Titles[v]) /\ Within(Len(s) + i, a, Titles[v])
  <2>1. PICK v \in V, a \in Nat : TitleAt(p, a, Titles[v]) /\ Within(i, a, Titles[v])
    BY <1>2, <1>4 DEF Told
  <2> DEFINE t == Titles[v]
  <2>2. Len(t) \in Nat
    BY TitleType
  <2>3. PICK b \in Nat : b = Len(s) + a
    BY <1>2
  <2>4. /\ a >= 4 /\ p[a - 3].k = "so" /\ p[a - 2].k = "ng=" /\ p[a - 1].k = "quote"
        /\ a <= Len(p)
    BY <1>2, <2>1 DEF TitleAt, Within
  <2>n. PICK n \in Nat : n = Len(t)
    BY <2>2
  <2>5. u[b - 3].k = "so" /\ u[b - 2].k = "ng=" /\ u[b - 1].k = "quote" /\ b >= 4
    <3>1. /\ a - 3 \in 1..Len(p) /\ a - 2 \in 1..Len(p) /\ a - 1 \in 1..Len(p)
          /\ b - 3 = Len(s) + (a - 3) /\ b - 2 = Len(s) + (a - 2) /\ b - 1 = Len(s) + (a - 1)
          /\ b >= 4
      <4>1. a >= 4 /\ a <= m /\ b = l + a
        BY <2>3, <2>4
      <4> HIDE DEF l, m
      <4>2. /\ a - 3 \in 1..m /\ a - 2 \in 1..m /\ a - 1 \in 1..m
            /\ b - 3 = l + (a - 3) /\ b - 2 = l + (a - 2) /\ b - 1 = l + (a - 1) /\ b >= 4
        BY <1>a, <4>1
      <4> QED
        BY <4>2 DEF l, m
    <3>2. /\ u[b - 3] = p[a - 3] /\ u[b - 2] = p[a - 2] /\ u[b - 1] = p[a - 1]
      BY <1>2, <3>1
    <3> QED
      BY <2>4, <3>1, <3>2
  <2>6. ASSUME NEW j \in 1..Len(t), b - 1 + j <= Len(u)
        PROVE  u[b - 1 + j] = [k |-> Escaped(t[j]), at |-> 0]
    <3>1. /\ a - 1 + j \in 1..Len(p) /\ b - 1 + j = Len(s) + (a - 1 + j) /\ a - 1 + j <= Len(p)
      <4>1. a >= 4 /\ b = l + a /\ b - 1 + j <= l + m /\ j \in Nat \ {0}
        BY <1>a, <2>2, <2>3, <2>4, <2>6
      <4> HIDE DEF l, m
      <4>2. a - 1 + j \in 1..m /\ b - 1 + j = l + (a - 1 + j) /\ a - 1 + j <= m
        BY <1>a, <4>1
      <4> QED
        BY <4>2 DEF l, m
    <3>2. u[b - 1 + j] = p[a - 1 + j]
      BY <1>2, <3>1
    <3> QED
      BY <2>1, <3>1, <3>2 DEF TitleAt
  <2>7. ASSUME b + Len(t) <= Len(u) PROVE u[b + Len(t)].k = "quote"
    <3>1. a + Len(t) \in 1..Len(p) /\ b + Len(t) = Len(s) + (a + Len(t)) /\ a + Len(t) <= Len(p)
      <4>1. a >= 4 /\ b = l + a /\ b + n <= l + m
        BY <1>a, <2>3, <2>4, <2>7, <2>n
      <4> HIDE DEF l, m
      <4>2. a + n \in 1..m /\ b + n = l + (a + n) /\ a + n <= m
        BY <1>a, <4>1
      <4> QED
        BY <4>2, <2>n DEF l, m
    <3>2. u[b + Len(t)] = p[a + Len(t)]
      BY <1>2, <3>1
    <3> QED
      BY <2>1, <3>1, <3>2 DEF TitleAt
  <2>8. TitleAt(u, b, t)
    BY <2>5, <2>6, <2>7 DEF TitleAt
  <2>9. Within(Len(s) + i, b, t)
    BY <1>2, <2>1, <2>2, <2>3 DEF Within
  <2> QED
    BY <2>8, <2>9
<1>5. ASSUME NEW i \in 1..Len(u), u[i].at = 0
      PROVE  \E v \in V, a \in Nat : TitleAt(u, a, Titles[v]) /\ Within(i, a, Titles[v])
  <2>1. CASE i \in 1..Len(s)
    BY <1>3, <1>5, <2>1
  <2>2. CASE \E j \in 1..Len(p) : i = Len(s) + j
    <3>1. PICK j \in 1..Len(p) : i = Len(s) + j
      BY <2>2
    <3> QED
      BY <1>4, <1>5, <3>1
  <2> QED
    BY <1>2, <2>1, <2>2
<1> QED
  BY <1>5 DEF Told

-----------------------------------------------------------------------------
(* HQPlayer's units in s are units m + 1 to n of the stream, in its order, *)
Relays(s, m, n) ==
    /\ \A i \in 1..Len(s) : s[i].at # 0 => s[i].at \in (m + 1)..n /\ s[i] = Stream[s[i].at]
    /\ \A i, j \in 1..Len(s) : i < j /\ s[i].at # 0 /\ s[j].at # 0 => s[i].at < s[j].at

(* and all of these but those of songs.                                    *)
Complete(s, m, n) ==
    \A r \in (m + 1)..n : InSong(r) \/ \E i \in 1..Len(s) : s[i].at = r

LEMMA RelaysPrefix ==
    ASSUME NEW s, NEW m, NEW n, Relays(s, m, n), Len(s) \in Nat,
           NEW u, Len(u) \in Nat, Len(u) <= Len(s), \A i \in 1..Len(u) : u[i] = s[i]
    PROVE  Relays(u, m, n)
<1>1. \A i \in 1..Len(u) : i \in 1..Len(s) /\ u[i] = s[i]
  OBVIOUS
<1> QED
  BY <1>1 DEF Relays

LEMMA RelaysJoined ==
    ASSUME NEW s, NEW p, NEW u, Joins(u, s, p), NEW m \in Nat, NEW n \in Nat, m <= n,
           Relays(s, 0, m), Relays(p, m, n)
    PROVE  /\ Relays(u, 0, n)
           /\ Complete(s, 0, m) /\ Complete(p, m, n) => Complete(u, 0, n)
<1>2. /\ Len(s) \in Nat /\ Len(p) \in Nat /\ Len(u) = Len(s) + Len(p)
      /\ \A i \in 1..Len(s) : u[i] = s[i]
      /\ \A i \in 1..Len(p) : u[Len(s) + i] = p[i]
      /\ \A i \in 1..Len(u) : i \in 1..Len(s) \/ \E j \in 1..Len(p) : i = Len(s) + j
  BY DEF Joins
<1>3. /\ \A i \in 1..Len(s) : s[i].at # 0 => s[i].at \in 1..m /\ s[i] = Stream[s[i].at]
      /\ \A i \in 1..Len(p) : p[i].at # 0 => p[i].at \in (m + 1)..n /\ p[i] = Stream[p[i].at]
  BY DEF Relays
<1>4. ASSUME NEW i \in 1..Len(u), u[i].at # 0
      PROVE  u[i].at \in (0 + 1)..n /\ u[i] = Stream[u[i].at]
  <2>1. CASE i \in 1..Len(s)
    BY <1>2, <1>3, <1>4, <2>1
  <2>2. ASSUME NEW j \in 1..Len(p), i = Len(s) + j PROVE u[i].at \in 1..n /\ u[i] = Stream[u[i].at]
    BY <1>2, <1>3, <1>4, <2>2
  <2> QED
    BY <1>2, <2>1, <2>2
<1>5. ASSUME NEW i \in 1..Len(u), NEW j \in 1..Len(u), i < j, u[i].at # 0, u[j].at # 0
      PROVE  u[i].at < u[j].at
  <2>1. CASE j \in 1..Len(s)
    <3>1. i \in 1..Len(s)
      BY <1>2, <1>5, <2>1
    <3> QED
      BY <1>2, <1>5, <2>1, <3>1 DEF Relays
  <2>2. ASSUME NEW c \in 1..Len(p), j = Len(s) + c PROVE u[i].at < u[j].at
    <3>1. u[j] = p[c] /\ u[j].at \in (m + 1)..n
      BY <1>2, <1>3, <1>5, <2>2
    <3>2. CASE i \in 1..Len(s)
      <4>1. u[i].at \in 1..m
        BY <1>2, <1>3, <1>5, <3>2
      <4> QED
        BY <3>1, <4>1
    <3>3. ASSUME NEW b \in 1..Len(p), i = Len(s) + b PROVE u[i].at < u[j].at
      <4>1. b < c
        BY <1>2, <1>5, <2>2, <3>3
      <4>2. u[i] = p[b]
        BY <1>2, <3>3
      <4> QED
        BY <1>5, <3>1, <4>1, <4>2 DEF Relays
    <3> QED
      BY <1>2, <3>2, <3>3
  <2> QED
    BY <1>2, <2>1, <2>2
<1>6. ASSUME Complete(s, 0, m), Complete(p, m, n), NEW r \in (0 + 1)..n
      PROVE  InSong(r) \/ \E i \in 1..Len(u) : u[i].at = r
  <2>1. ASSUME NEW i \in 1..Len(s), s[i].at = r PROVE \E j \in 1..Len(u) : u[j].at = r
    <3>1. i \in 1..Len(u)
      BY <1>2
    <3> QED
      BY <1>2, <2>1, <3>1
  <2>2. ASSUME NEW i \in 1..Len(p), p[i].at = r PROVE \E j \in 1..Len(u) : u[j].at = r
    <3>1. Len(s) + i \in 1..Len(u)
      BY <1>2
    <3> QED
      BY <1>2, <2>2, <3>1
  <2>3. r \in (0 + 1)..m \/ r \in (m + 1)..n
    OBVIOUS
  <2> QED
    BY <1>6, <2>1, <2>2, <2>3 DEF Complete
<1>7. Relays(u, 0, n)
  BY <1>4, <1>5 DEF Relays
<1>8. Complete(s, 0, m) /\ Complete(p, m, n) => Complete(u, 0, n)
  BY <1>6 DEF Complete
<1> QED
  BY <1>7, <1>8

(* What is read: n units after the first m.                                *)
IsRead(data, m, n) ==
    /\ data \in Seq(Unit) /\ Len(data) = n
    /\ \A i \in 1..n : /\ data[i] = Stream[m + i] /\ data[i].at = m + i
                       /\ m + i \in (m + 1)..(m + n)

LEMMA DataIs ==
    ASSUME NEW m \in Nat, NEW n \in Nat \ {0}, m + n <= Len(Stream)
    PROVE  IsRead(SubSeq(Stream, m + 1, m + n), m, n)
<1> DEFINE c == SubSeq(Stream, m + 1, m + n)
<1>1. /\ m + 1 \in Nat \ {0} /\ m + n \in Nat /\ m + 1 <= m + n + 1 /\ m + n - (m + 1) + 1 = n
      /\ \A i \in 1..n : m + 1 + i - 1 = m + i /\ m + i \in 1..Len(Stream)
                           /\ m + i \in (m + 1)..(m + n)
  BY StreamUnits
<1>2. /\ c \in Seq(Unit) /\ Len(c) = m + n - (m + 1) + 1
      /\ \A i \in 1..(m + n - (m + 1) + 1) : c[i] = Stream[m + 1 + i - 1]
  <2>1. PICK x \in Nat \ {0}, y \in Nat : x = m + 1 /\ y = m + n
    BY <1>1
  <2>2. x <= y + 1 /\ y <= Len(Stream) /\ Stream \in Seq(Unit) /\ x # 0 /\ x \in Nat
    BY <1>1, <2>1, StreamUnits
  <2>3. /\ SubSeq(Stream, x, y) \in Seq(Unit) /\ Len(SubSeq(Stream, x, y)) = y - x + 1
        /\ \A i \in 1..(y - x + 1) : SubSeq(Stream, x, y)[i] = Stream[x + i - 1]
    BY <2>1, <2>2, PartIs
  <2> QED
    BY <2>1, <2>3
<1> HIDE DEF c
<1>3. c \in Seq(Unit) /\ Len(c) = n /\ \A i \in 1..n : c[i] = Stream[m + i]
  BY <1>1, <1>2
<1>4. IsRead(c, m, n)
  BY <1>1, <1>3, StreamUnits DEF IsRead
<1> QED
  BY <1>4 DEF c

LEMMA PlainRead ==
    ASSUME NEW m \in Nat, NEW n \in Nat \ {0}, NEW data, IsRead(data, m, n), NEW V
    PROVE  /\ data \in Seq(Unit) /\ Len(data) > 0 /\ Whole(data) /\ Told(data, V)
           /\ Relays(data, m, m + n) /\ Complete(data, m, m + n)
<1>1. /\ data \in Seq(Unit) /\ Len(data) = n
      /\ \A i \in 1..n : /\ data[i] = Stream[m + i] /\ data[i].at = m + i
                         /\ m + i \in (m + 1)..(m + n)
  BY DEF IsRead
<1>2. \A i \in 1..n : data[i].at # 0
  BY <1>1
<1>3. Whole(data) /\ Told(data, V)
  BY <1>1, <1>2 DEF Whole, Told
<1>4. Relays(data, m, m + n)
  <2>1. \A i, j \in 1..n : i < j => data[i].at < data[j].at
    BY <1>1
  <2> QED
    BY <1>1, <2>1 DEF Relays
<1>5. Complete(data, m, m + n)
  <2> SUFFICES ASSUME NEW r \in (m + 1)..(m + n) PROVE \E i \in 1..Len(data) : data[i].at = r
    BY DEF Complete
  <2>1. r - m \in 1..n /\ m + (r - m) = r
    OBVIOUS
  <2> QED
    BY <1>1, <2>1
<1> QED
  BY <1>1, <1>3, <1>4, <1>5

LEMMA RewrittenRead ==
    ASSUME NEW m \in Nat, NEW n \in Nat \ {0}, m + n <= Len(Stream),
           NEW data, IsRead(data, m, n), NEW v \in 1..Len(Titles),
           ValStart(data) # 0, ValEnd(data) # 0
    PROVE  LET p == rewrite_status_song(data, Titles[v]) IN
           /\ p \in Seq(Unit) /\ Len(p) > 0 /\ Whole(p) /\ Told(p, {v})
           /\ Relays(p, m, m + n) /\ Complete(p, m, m + n)
<1>1. /\ data \in Seq(Unit) /\ Len(data) = n
      /\ \A i \in 1..n : /\ data[i] = Stream[m + i] /\ data[i].at = m + i
                         /\ m + i \in (m + 1)..(m + n)
  BY DEF IsRead
<1> DEFINE p == rewrite_status_song(data, Titles[v])
<1>2. PICK t \in Seq(Character) : t = Titles[v]
  BY TitleType
<1>3. PICK c \in Nat : c = Len(t)
  BY <1>2, TitleType
<1>4. PICK a \in Nat, e \in Nat :
        /\ a = ValStart(data) /\ e = ValEnd(data)
        /\ a \in Starts(data) /\ a >= 4 /\ e \in a..n /\ data[e].k = "quote"
        /\ \A j \in a..(e - 1) : data[j].k # "quote"
  <2>1. /\ ValStart(data) \in Starts(data)
        /\ \A i \in Starts(data) : i \in Nat \ {0} /\ i >= 4
        /\ ValEnd(data) \in ValStart(data)..Len(data) /\ data[ValEnd(data)].k = "quote"
        /\ \A j \in ValStart(data)..(ValEnd(data) - 1) : data[j].k # "quote"
    BY <1>1, ValIs
  <2>2. ValEnd(data) \in Nat
    BY <2>1
  <2> QED
    BY <1>1, <2>1, <2>2
<1>5. /\ a \in 4..n /\ data[a - 3].k = "so" /\ data[a - 2].k = "ng=" /\ data[a - 1].k = "quote"
  BY <1>1, <1>4 DEF Starts
<1>6. PICK b \in Nat : b + 1 = a
  <2>1. a - 1 \in Nat /\ a - 1 + 1 = a
    BY <1>4
  <2> QED
    BY <2>1
<1>7. PICK d \in Nat \ {0} : d = n - e + 1
  <2>1. n - e + 1 \in Nat \ {0}
    BY <1>4
  <2> QED
    BY <2>1
<1>8. /\ p \in Seq(Unit) /\ Len(p) = b + c + d
      /\ \A i \in 1..b : p[i] = data[i]
      /\ \A i \in 1..c : p[b + i] = [k |-> Escaped(t[i]), at |-> 0]
      /\ \A i \in 1..d : p[b + c + i] = data[e - 1 + i]
  <2>1. b < e /\ e <= Len(data) /\ d = Len(data) - e + 1
    BY <1>1, <1>4, <1>6, <1>7
  <2>2. Around(data, b, e, d)
    BY <1>1, <1>4, <1>6, <2>1 DEF Around
  <2>3. p = rewrite_status_song(data, t)
    BY <1>2
  <2> HIDE DEF p
  <2>4. Rewritten(p, data, t, b, e, d)
    BY <2>2, <2>3, RewriteIs
  <2> QED
    BY <1>3, <2>4 DEF Rewritten
<1> HIDE DEF p
(* HQPlayer's units before the title, the title, HQPlayer's after it.      *)
<1>9. ASSUME NEW i \in 1..(b + c + d)
      PROVE  \/ i \in 1..b
             \/ \E j \in 1..c : i = b + j
             \/ \E j \in 1..d : i = b + c + j
  <2>1. CASE i <= b
    BY <2>1
  <2>2. CASE b < i /\ i <= b + c
    <3>1. i - b \in 1..c /\ i = b + (i - b)
      BY <2>2
    <3> QED
      BY <3>1
  <2>3. CASE b + c < i
    <3>1. i - (b + c) \in 1..d /\ i = b + c + (i - (b + c))
      BY <2>3
    <3> QED
      BY <3>1
  <2> QED
    BY <2>1, <2>2, <2>3
<1>10. ASSUME NEW i \in 1..b
       PROVE  /\ p[i] = Stream[m + i] /\ p[i].at = m + i /\ m + i \in (m + 1)..(m + n)
              /\ p[i].at # 0
  <2>1. i \in 1..n /\ m + i # 0
    BY <1>4, <1>6
  <2>2. p[i] = data[i]
    BY <1>8
  <2>3. data[i] = Stream[m + i] /\ data[i].at = m + i /\ m + i \in (m + 1)..(m + n)
    BY <1>1, <2>1
  <2> QED
    BY <2>1, <2>2, <2>3
<1>11. ASSUME NEW i \in 1..c
       PROVE  p[b + i].at = 0
  <2>1. p[b + i] = [k |-> Escaped(t[i]), at |-> 0]
    BY <1>8
  <2> QED
    BY <2>1
<1>12. ASSUME NEW i \in 1..d
       PROVE  /\ p[b + c + i] = Stream[m + (e - 1 + i)] /\ p[b + c + i].at = m + (e - 1 + i)
              /\ m + (e - 1 + i) \in (m + 1)..(m + n) /\ p[b + c + i].at # 0
  <2>1. PICK j \in 1..n : j = e - 1 + i
    BY <1>4, <1>7
  <2>2. p[b + c + i] = data[j]
    BY <1>8, <2>1
  <2>3. data[j] = Stream[m + j] /\ data[j].at = m + j /\ m + j \in (m + 1)..(m + n) /\ m + j # 0
    BY <1>1
  <2> QED
    BY <2>1, <2>2, <2>3
<1>13. Whole(p)
  <2>1. d \in 1..d
    OBVIOUS
  <2> QED
    BY <1>8, <1>12, <2>1 DEF Whole
<1>14. Told(p, {v})
  <2>1. TitleAt(p, a, t)
    <3>1. p[a - 3].k = "so" /\ p[a - 2].k = "ng=" /\ p[a - 1].k = "quote"
      <4>1. a - 3 \in 1..b /\ a - 2 \in 1..b /\ a - 1 \in 1..b
        BY <1>4, <1>6
      <4> QED
        BY <1>5, <1>8, <4>1
    <3>2. \A j \in 1..Len(t) : p[a - 1 + j] = [k |-> Escaped(t[j]), at |-> 0]
      <4>1. a - 1 = b
        BY <1>6
      <4> QED
        BY <1>3, <1>8, <4>1
    <3>3. p[a + Len(t)].k = "quote"
      <4>1. 1 \in 1..d /\ a + c = b + c + 1 /\ e - 1 + 1 = e
        <5>1. e \in Nat
          OBVIOUS
        <5> QED
          BY <1>6, <5>1
      <4>2. p[b + c + 1] = data[e]
        BY <1>8, <4>1
      <4> QED
        BY <1>3, <1>4, <4>1, <4>2
    <3> QED
      BY <1>4, <3>1, <3>2, <3>3 DEF TitleAt
  <2>2. ASSUME NEW i \in 1..Len(p), p[i].at = 0 PROVE Within(i, a, t)
    <3>1. ~(i \in 1..b) /\ \A j \in 1..d : i # b + c + j
      BY <1>10, <1>12, <2>2
    <3>2. i \in 1..(b + c + d)
      BY <1>8
    <3>3. PICK j \in 1..c : i = b + j
      BY <1>9, <3>1, <3>2
    <3> QED
      BY <1>3, <1>6, <3>3 DEF Within
  <2> QED
    BY <1>2, <2>1, <2>2 DEF Told
<1>15. Relays(p, m, m + n)
  <2>1. ASSUME NEW i \in 1..Len(p), p[i].at # 0
        PROVE  p[i].at \in (m + 1)..(m + n) /\ p[i] = Stream[p[i].at]
    <3>1. CASE i \in 1..b
      BY <1>10, <3>1
    <3>2. ASSUME NEW j \in 1..d, i = b + c + j
          PROVE  p[i].at \in (m + 1)..(m + n) /\ p[i] = Stream[p[i].at]
      BY <1>12, <3>2
    <3>3. i \in 1..(b + c + d)
      BY <1>8
    <3> QED
      BY <1>9, <1>11, <2>1, <3>1, <3>2, <3>3
  <2>2. ASSUME NEW i \in 1..Len(p), NEW j \in 1..Len(p), i < j, p[i].at # 0, p[j].at # 0
        PROVE  p[i].at < p[j].at
    <3>1. CASE j \in 1..b
      <4>1. i \in 1..b
        BY <1>8, <2>2, <3>1
      <4> QED
        BY <1>10, <2>2, <3>1, <4>1
    <3>2. ASSUME NEW y \in 1..d, j = b + c + y PROVE p[i].at < p[j].at
      <4>1. p[j].at = m + (e - 1 + y)
        BY <1>12, <3>2
      <4>2. CASE i \in 1..b
        <5>1. p[i].at = m + i /\ i < e - 1 + y
          BY <1>4, <1>6, <1>10, <4>2
        <5> QED
          BY <4>1, <5>1, <1>4
      <4>3. ASSUME NEW x \in 1..d, i = b + c + x PROVE p[i].at < p[j].at
        <5>1. p[i].at = m + (e - 1 + x)
          BY <1>12, <4>3
        <5>2. x < y
          BY <2>2, <3>2, <4>3
        <5>3. m + (e - 1 + x) < m + (e - 1 + y)
          BY <5>2
        <5> QED
          BY <4>1, <5>1, <5>3
      <4> QED
        BY <1>8, <1>9, <1>11, <2>2, <4>2, <4>3
    <3> QED
      BY <1>8, <1>9, <1>11, <2>2, <3>1, <3>2
  <2> QED
    BY <2>1, <2>2 DEF Relays
<1>16. Complete(p, m, m + n)
  <2> SUFFICES ASSUME NEW r \in (m + 1)..(m + n)
               PROVE  InSong(r) \/ \E i \in 1..Len(p) : p[i].at = r
    BY DEF Complete
  <2>1. PICK j \in 1..n : r = m + j
    <3>1. r - m \in 1..n /\ r = m + (r - m)
      OBVIOUS
    <3> QED
      BY <3>1
  <2>2. CASE j \in 1..b
    <3>1. j \in 1..Len(p)
      BY <1>8, <2>2
    <3> QED
      BY <1>10, <2>1, <2>2, <3>1
  <2>3. CASE j \in e..n
    <3>1. PICK x \in 1..d : j = e - 1 + x
      <4>1. j - e + 1 \in 1..d /\ j = e - 1 + (j - e + 1)
        BY <1>4, <1>7, <2>3
      <4> QED
        BY <4>1
    <3>2. b + c + x \in 1..Len(p)
      BY <1>8
    <3> QED
      BY <1>12, <2>1, <3>1, <3>2
  <2>4. CASE j \in a..(e - 1)
    <3>1. /\ m + a \in 4..Len(Stream) /\ m + e \in (m + a)..Len(Stream) /\ Len(Stream) \in Nat
          /\ m + a - 3 = m + (a - 3) /\ m + a - 2 = m + (a - 2) /\ m + a - 1 = m + (a - 1)
          /\ a - 3 \in 1..n /\ a - 2 \in 1..n /\ a - 1 \in 1..n /\ e \in 1..n
          /\ m + a \in Nat \ {0}
      BY <1>4, <1>5, StreamUnits
    <3>2. m + a \in Starts(Stream)
      <4>1. /\ Stream[m + (a - 3)] = data[a - 3] /\ Stream[m + (a - 2)] = data[a - 2]
            /\ Stream[m + (a - 1)] = data[a - 1]
        BY <1>1, <3>1
      <4>2. PICK x \in 4..Len(Stream) : x = m + a
        BY <3>1
      <4>3. x - 3 = m + (a - 3) /\ x - 2 = m + (a - 2) /\ x - 1 = m + (a - 1)
        BY <3>1, <4>2
      <4>4. Stream[x - 3].k = "so" /\ Stream[x - 2].k = "ng=" /\ Stream[x - 1].k = "quote"
        BY <1>5, <4>1, <4>3
      <4> QED
        BY <4>2, <4>4 DEF Starts
    <3>3. ASSUME NEW i \in (m + a)..(m + e - 1) PROVE Stream[i].k # "quote"
      <4>1. i - m \in a..(e - 1) /\ i - m \in 1..n /\ m + (i - m) = i
        BY <1>4
      <4> QED
        BY <1>1, <1>4, <4>1
    <3>4. Stream[m + e].k = "quote"
      BY <1>1, <1>4, <3>1
    <3>5. Quote(Stream, m + a) = m + e
      BY <3>1, <3>3, <3>4, FirstQuote
    <3>6. m + a <= r /\ r < m + e
      BY <1>4, <2>1, <2>4
    <3> QED
      BY <3>2, <3>5, <3>6 DEF InSong
  <2> QED
    BY <1>4, <1>6, <2>1, <2>2, <2>3, <2>4
<1> QED
  BY <1>8, <1>13, <1>14, <1>15, <1>16 DEF p

-----------------------------------------------------------------------------
(* The inductive invariant: what has been written and is about to be.      *)
Sent == out \o pend

Kept ==
    /\ Relays(Sent, 0, at)
    /\ Told(Sent, 1..shared)
    /\ pc # "ended" => Complete(Sent, 0, at) /\ Whole(Sent)

IInv == TypeOK /\ Kept

(* The title a read is rewritten with.                                     *)
Now == {v \in {shared} : v # 0}

LEMMA NowIs ==
    ASSUME TypeOK
    PROVE  /\ Now \in SUBSET (1..Len(Titles)) /\ Now \subseteq 1..shared
           /\ Title # <<>> => shared \in 1..Len(Titles) /\ Title = Titles[shared] /\ Now = {shared}
<1>1. Len(Titles) \in Nat
  BY StatusAssumption, LenProperties DEF StatusAssumption
<1>2. shared \in 0..Len(Titles)
  BY DEF TypeOK
<1>3. CASE shared = 0
  BY <1>3 DEF Now, Title
<1>4. CASE shared # 0
  BY <1>1, <1>2, <1>4 DEF Now, Title
<1> QED
  BY <1>3, <1>4

LEMMA ReadIs ==
    ASSUME TypeOK, Read
    PROVE  /\ pend = <<>> /\ at \in Nat /\ at' \in Nat /\ at <= at' /\ at' \in 0..Len(Stream)
           /\ pend' \in Seq(Unit) /\ pend' # <<>> /\ Whole(pend') /\ Told(pend', Now)
           /\ Relays(pend', at, at') /\ Complete(pend', at, at')
<1>1. /\ at \in 0..Len(Stream) /\ Len(Stream) \in Nat /\ pend = <<>> /\ MaxRead \in Nat
  BY StreamUnits, StatusAssumption DEF TypeOK, Read, StatusAssumption
<1>2. PICK n \in 1..MaxRead :
        LET data == SubSeq(Stream, at + 1, at + n)
        IN  /\ at + n <= Len(Stream) /\ at' = at + n
            /\ pend' = IF Rewrites(data) THEN rewrite_status_song(data, Title) ELSE data
  BY DEF Read
<1>3. PICK m \in Nat : m = at
  BY <1>1
<1>4. PICK data : data = SubSeq(Stream, m + 1, m + n)
  OBVIOUS
<1>5. PICK p : p = pend'
  OBVIOUS
<1>6. n \in Nat \ {0} /\ m + n <= Len(Stream) /\ at' = m + n
  BY <1>1, <1>2, <1>3
<1>7. p = IF Rewrites(data) THEN rewrite_status_song(data, Title) ELSE data
  BY <1>2, <1>3, <1>4, <1>5
<1>8. IsRead(data, m, n)
  BY <1>4, <1>6, DataIs
<1>9. /\ p \in Seq(Unit) /\ Len(p) > 0 /\ Whole(p) /\ Told(p, Now)
      /\ Relays(p, m, m + n) /\ Complete(p, m, m + n)
  <2>1. CASE Rewrites(data)
    <3>1. PICK v \in 1..Len(Titles) : Title = Titles[v] /\ Now = {v}
      BY <2>1, NowIs DEF Rewrites
    <3>2. ValStart(data) # 0 /\ ValEnd(data) # 0
      BY <2>1 DEF Rewrites
    <3>3. p = rewrite_status_song(data, Titles[v])
      BY <1>7, <2>1, <3>1
    <3>4. /\ p \in Seq(Unit) /\ Len(p) > 0 /\ Whole(p) /\ Told(p, {v})
          /\ Relays(p, m, m + n) /\ Complete(p, m, m + n)
      BY <1>6, <1>8, <3>2, <3>3, RewrittenRead
    <3> QED
      BY <3>1, <3>4
  <2>2. CASE ~Rewrites(data)
    <3>1. p = data
      BY <1>7, <2>2
    <3> QED
      BY <1>6, <1>8, <3>1, PlainRead
  <2> QED
    BY <2>1, <2>2
<1>10. p # <<>>
  BY <1>9, EmptySeq
<1>11. at' \in 0..Len(Stream) /\ at' \in Nat /\ at <= at'
  BY <1>1, <1>3, <1>6
<1> QED
  BY <1>1, <1>3, <1>5, <1>6, <1>9, <1>10, <1>11

LEMMA SentRead ==
    ASSUME TypeOK, pend = <<>>
    PROVE  Sent = out
BY ConcatEmptySeq DEF TypeOK, Sent

LEMMA TypeStep ==
    ASSUME TypeOK, [Next]_vars
    PROVE  TypeOK'
<1>0. Len(Titles) \in Nat /\ Len(Stream) \in Nat
  BY StatusAssumption, StreamUnits, LenProperties DEF StatusAssumption
<1>1. CASE Plays
  BY <1>0, <1>1 DEF Plays, TypeOK
<1>2. CASE Read
  <2>1. /\ at \in Nat /\ at' \in Nat /\ at <= at' /\ at' \in 0..Len(Stream)
        /\ pend' \in Seq(Unit) /\ pend' # <<>>
    BY <1>2, ReadIs
  <2>2. shared' = shared /\ untold' \in {untold, at'} /\ out' = out /\ pc' = "write"
    BY <1>2 DEF Read
  <2>3. shared \in 0..Len(Titles) /\ untold \in 0..at /\ out \in Seq(Unit)
    BY DEF TypeOK
  <2>4. untold' \in 0..at'
    BY <2>1, <2>2, <2>3
  <2> QED
    BY <2>1, <2>2, <2>3, <2>4 DEF TypeOK
<1>3. CASE WriteAll
  <2>1. out' \in Seq(Unit) /\ pend' = <<>> /\ pend' \in Seq(Unit)
    BY <1>3, ConcatProperties, EmptySeq DEF WriteAll, TypeOK
  <2> QED
    BY <1>3, <2>1 DEF WriteAll, TypeOK
<1>4. CASE Ends
  <2>1. PICK n \in 0..Len(pend) : out' = out \o SubSeq(pend, 1, n)
    BY <1>4 DEF Ends
  <2>2. SubSeq(pend, 1, n) \in Seq(Unit)
    <3>1. pend \in Seq(Unit) /\ Len(pend) \in Nat
      BY LenProperties DEF TypeOK
    <3>2. 1 \in Nat \ {0} /\ n \in Nat /\ n <= Len(pend) /\ 1 <= n + 1
      BY <3>1
    <3> QED
      BY <3>1, <3>2, PartIs
  <2>3. out' \in Seq(Unit) /\ pend' = <<>> /\ pend' \in Seq(Unit)
    BY <1>4, <2>1, <2>2, ConcatProperties, EmptySeq DEF Ends, TypeOK
  <2> QED
    BY <1>4, <2>3 DEF Ends, TypeOK
<1>5. CASE UNCHANGED vars
  BY <1>5 DEF vars, TypeOK
<1> QED
  BY <1>1, <1>2, <1>3, <1>4, <1>5 DEF Next

LEMMA InitHolds ==
    ASSUME Init
    PROVE  IInv
<1>1. TypeOK
  <2>1. Len(Titles) \in Nat /\ Len(Stream) \in Nat
    BY StatusAssumption, StreamUnits, LenProperties DEF StatusAssumption
  <2> QED
    BY <2>1, EmptySeq DEF Init, TypeOK
<1>2. PICK s \in Seq(Unit) : s = Sent /\ Len(s) = 0
  <2>1. <<>> \in Seq(Unit) /\ Len(<<>>) = 0
    BY EmptySeq
  <2>2. Sent = <<>>
    <3>1. Sent = out
      BY <1>1, SentRead DEF Init
    <3> QED
      BY <3>1 DEF Init
  <2> QED
    BY <2>1, <2>2
<1>3. Relays(s, 0, 0) /\ Told(s, 1..0) /\ Complete(s, 0, 0) /\ Whole(s)
  BY <1>2 DEF Relays, Told, Complete, Whole
<1>4. at = 0 /\ shared = 0
  BY DEF Init
<1> QED
  BY <1>1, <1>2, <1>3, <1>4 DEF IInv, Kept

LEMMA PlaysKeeps ==
    ASSUME IInv, Plays
    PROVE  Kept'
<1>1. /\ Sent' = Sent /\ at' = at /\ pc' = pc /\ shared' = shared + 1 /\ shared \in Nat
  BY DEF Plays, Sent, IInv, TypeOK
<1>2. PICK s : s = Sent
  OBVIOUS
<1>3. Told(s, 1..shared')
  <2>1. 1..shared \subseteq 1..shared'
    BY <1>1
  <2>2. Told(s, 1..shared)
    BY <1>2 DEF IInv, Kept
  <2>3. PICK V, W : V = 1..shared /\ W = 1..shared'
    OBVIOUS
  <2> QED
    BY <2>1, <2>2, <2>3, ToldMore
<1>4. Relays(Sent, 0, at) /\ (pc # "ended" => Complete(Sent, 0, at) /\ Whole(Sent))
  BY DEF IInv, Kept
<1>5. Relays(Sent', 0, at') /\ (pc' # "ended" => Complete(Sent', 0, at') /\ Whole(Sent'))
  BY <1>1, <1>4
<1> QED
  BY <1>1, <1>2, <1>3, <1>5 DEF Kept

LEMMA ReadKeeps ==
    ASSUME IInv, Read
    PROVE  Kept'
<1>1. /\ pend = <<>> /\ at \in Nat /\ at' \in Nat /\ at <= at'
      /\ pend' \in Seq(Unit) /\ pend' # <<>> /\ Whole(pend') /\ Told(pend', Now)
      /\ Relays(pend', at, at') /\ Complete(pend', at, at')
  BY ReadIs DEF IInv
<1>2. /\ out \in Seq(Unit) /\ Sent = out /\ Now \subseteq 1..shared
      /\ shared \in 0..Len(Titles) /\ Len(Titles) \in Nat
  <2>1. Len(Titles) \in Nat
    BY StatusAssumption, LenProperties DEF StatusAssumption
  <2> QED
    BY <1>1, <2>1, SentRead, NowIs DEF IInv, TypeOK
<1>0. PICK s \in Seq(Unit), p \in Seq(Unit) : s = out /\ p = pend'
  BY <1>1, <1>2
<1>3. PICK u : s = out /\ p = pend' /\ u = s \o p
  BY <1>0
<1>4. PICK m \in Nat, n \in Nat : m = at /\ n = at'
  BY <1>1
<1>5. PICK V \in SUBSET (1..Len(Titles)) : V = 1..shared
  BY <1>2
<1>6. /\ Relays(s, 0, m) /\ Told(s, V) /\ Complete(s, 0, m) /\ Whole(s)
  <2>1. pc # "ended"
    BY DEF Read
  <2> QED
    BY <1>2, <1>3, <1>4, <1>5, <2>1 DEF IInv, Kept
<1>7. m <= n /\ Relays(p, m, n) /\ Complete(p, m, n) /\ Whole(p) /\ p # <<>>
  BY <1>1, <1>3, <1>4
<1>8. Told(p, V)
  <2>1. Told(p, Now) /\ Now \subseteq V
    BY <1>1, <1>2, <1>3, <1>5
  <2>2. PICK W : W = Now
    OBVIOUS
  <2> QED
    BY <2>1, <2>2, ToldMore
<1>9. u \in Seq(Unit) /\ Joins(u, s, p)
  BY <1>3, Joined
<1>10. Relays(u, 0, n) /\ Complete(u, 0, n)
  BY <1>6, <1>7, <1>9, RelaysJoined
<1>11. Told(u, V)
  BY <1>6, <1>8, <1>9, ToldJoined
<1>12. Whole(u)
  <2>1. Len(p) \in 1..Len(p) /\ Len(p) > 0
    BY <1>7, EmptySeq
  <2>2. Len(u) = Len(s) + Len(p) /\ u[Len(s) + Len(p)] = p[Len(p)]
    BY <1>9, <2>1 DEF Joins
  <2> QED
    BY <1>7, <2>1, <2>2 DEF Whole
<1>13. Sent' = u /\ shared' = shared
  BY <1>3 DEF Sent, Read
<1> QED
  BY <1>4, <1>5, <1>10, <1>11, <1>12, <1>13 DEF Kept

LEMMA WriteAllKeeps ==
    ASSUME IInv, WriteAll
    PROVE  Kept'
<1>1. Sent' = Sent
  <2>1. Sent \in Seq(Unit)
    BY ConcatProperties DEF IInv, TypeOK, Sent
  <2>2. Sent' = Sent \o <<>>
    BY DEF WriteAll, Sent
  <2> QED
    BY <2>1, <2>2, ConcatEmptySeq
<1>2. at' = at /\ shared' = shared /\ pc # "ended"
  BY DEF WriteAll
<1> QED
  BY <1>1, <1>2 DEF IInv, Kept

(* What a failing write leaves is a first part of what was to be sent.     *)
LEMMA EndsKeeps ==
    ASSUME IInv, Ends
    PROVE  Kept'
<1>1. out \in Seq(Unit) /\ pend \in Seq(Unit) /\ Len(pend) \in Nat /\ Len(out) \in Nat
  BY LenProperties DEF IInv, TypeOK
<1>2. PICK n \in 0..Len(pend) : out' = out \o SubSeq(pend, 1, n)
  BY DEF Ends
<1>3. PICK c \in Seq(Unit) : /\ c = SubSeq(pend, 1, n) /\ Len(c) = n
                             /\ \A i \in 1..n : c[i] = pend[i]
  <2>1. /\ 1 \in Nat \ {0} /\ n \in Nat /\ n <= Len(pend) /\ 1 <= n + 1 /\ n - 1 + 1 = n
        /\ \A i \in 1..n : 1 + i - 1 = i
    BY <1>1
  <2>2. PICK d : d = SubSeq(pend, 1, n)
    OBVIOUS
  <2>3. d \in Seq(Unit) /\ Len(d) = n - 1 + 1 /\ \A i \in 1..(n - 1 + 1) : d[i] = pend[1 + i - 1]
    BY <1>1, <2>1, <2>2, PartIs
  <2> QED
    BY <2>1, <2>2, <2>3
<1>4. PICK u, s : u = out' /\ s = Sent /\ u = out \o c
  BY <1>2, <1>3
<1>5. u \in Seq(Unit) /\ Joins(u, out, c)
  BY <1>1, <1>4, Joined
<1>6. s \in Seq(Unit) /\ Joins(s, out, pend)
  BY <1>1, <1>4, Joined DEF Sent
<1>7. Len(u) \in Nat /\ Len(s) \in Nat /\ Len(u) <= Len(s)
  BY <1>1, <1>3, <1>5, <1>6 DEF Joins
<1>8. ASSUME NEW i \in 1..Len(u) PROVE u[i] = s[i]
  <2>1. CASE i \in 1..Len(out)
    BY <1>5, <1>6, <2>1 DEF Joins
  <2>2. ASSUME NEW j \in 1..Len(c), i = Len(out) + j PROVE u[i] = s[i]
    <3>1. j \in 1..n /\ j \in 1..Len(pend)
      BY <1>1, <1>3
    <3>2. u[i] = c[j] /\ s[i] = pend[j]
      BY <1>5, <1>6, <2>2, <3>1 DEF Joins
    <3> QED
      BY <1>3, <3>1, <3>2
  <2> QED
    BY <1>5, <2>1, <2>2 DEF Joins
<1>9. PICK V \in SUBSET (1..Len(Titles)) : V = 1..shared
  <2>1. Len(Titles) \in Nat /\ shared \in 0..Len(Titles)
    BY StatusAssumption, LenProperties DEF StatusAssumption, IInv, TypeOK
  <2> QED
    BY <2>1
<1>10. PICK m : m = at /\ Relays(s, 0, m) /\ Told(s, V)
  BY <1>4, <1>9 DEF IInv, Kept
<1>11. Relays(u, 0, m) /\ Told(u, V)
  BY <1>7, <1>8, <1>10, RelaysPrefix, ToldPrefix
<1>12. Sent' = u
  <2>1. Sent' = u \o <<>>
    BY <1>4 DEF Ends, Sent
  <2> QED
    BY <1>5, <2>1, ConcatEmptySeq
<1>13. at' = at /\ shared' = shared /\ pc' = "ended"
  BY DEF Ends
<1> QED
  BY <1>9, <1>10, <1>11, <1>12, <1>13 DEF Kept

LEMMA KeptStep ==
    ASSUME IInv, [Next]_vars
    PROVE  IInv'
<1>1. TypeOK'
  BY TypeStep DEF IInv
<1>2. CASE UNCHANGED vars
  BY <1>2 DEF vars, IInv, Kept, Sent, TypeOK
<1>3. CASE Plays
  BY <1>1, <1>3, PlaysKeeps DEF IInv
<1>4. CASE Read
  BY <1>1, <1>4, ReadKeeps DEF IInv
<1>5. CASE WriteAll
  BY <1>1, <1>5, WriteAllKeeps DEF IInv
<1>6. CASE Ends
  BY <1>1, <1>6, EndsKeeps DEF IInv
<1> QED
  BY <1>2, <1>3, <1>4, <1>5, <1>6 DEF Next

THEOREM StreamKept == Spec => []IInv
<1>1. Init => IInv
  BY InitHolds
<1>2. IInv /\ [Next]_vars => IInv'
  BY KeptStep
<1> QED
  BY <1>1, <1>2, PTL DEF Spec

-----------------------------------------------------------------------------
(* The types of the state, for every stream and every list of titles.      *)
THEOREM StatusTypeCorrect == Spec => []TypeOK
<1>1. IInv => TypeOK
  BY DEF IInv
<1> QED
  BY <1>1, StreamKept, PTL

(* On its way to the NAA nothing of HQPlayer's stream is changed, lost,    *)
(* repeated or out of order but the values of song attributes.             *)
THEOREM SongsOnly == Spec => []OnlySongsTouched
<1>1. ASSUME IInv PROVE OnlySongsTouched
  <2>1. PICK s \in Seq(Unit) : s = out \o pend
    BY <1>1, ConcatProperties DEF IInv, TypeOK
  <2>2. DOMAIN s = 1..Len(s)
    BY LenProperties
  <2>3. /\ \A i \in 1..Len(s) : s[i].at # 0 => s[i] = Stream[s[i].at]
        /\ \A i, j \in 1..Len(s) : i < j /\ s[i].at # 0 /\ s[j].at # 0 => s[i].at < s[j].at
    BY <1>1, <2>1 DEF IInv, Kept, Relays, Sent
  <2>4. ASSUME pc # "ended", NEW i \in 1..at
        PROVE  InSong(i) \/ \E j \in 1..Len(s) : s[j].at = i
    <3>1. Complete(s, 0, at)
      BY <1>1, <2>1, <2>4 DEF IInv, Kept, Sent
    <3>2. i \in (0 + 1)..at
      OBVIOUS
    <3> QED
      BY <3>1, <3>2 DEF Complete
  <2> QED
    BY <2>1, <2>2, <2>3, <2>4 DEF OnlySongsTouched
<1> QED
  BY <1>1, StreamKept, PTL

(* Whatever characters the titles have, what the NAA displays as the song  *)
(* is HQPlayer's own or exactly a title Roon has played: xml_escape_attr   *)
(* and the NAA's parser undo each other, and a write that fails half way   *)
(* leaves no song it could display.                                        *)
THEOREM TitlesShown == Spec => []ShowsATitle
<1>1. ASSUME IInv PROVE ShowsATitle
  <2>1. out \in Seq(Unit) /\ pend \in Seq(Unit) /\ Len(out) \in Nat
    BY <1>1, LenProperties DEF IInv, TypeOK
  <2>2. PICK V \in SUBSET (1..Len(Titles)) : V = 1..shared
    <3>1. Len(Titles) \in Nat /\ shared \in 0..Len(Titles)
      BY <1>1, StatusAssumption, LenProperties DEF StatusAssumption, IInv, TypeOK
    <3> QED
      BY <3>1
  <2>3. PICK s : s = out \o pend
    OBVIOUS
  <2>4. Joins(s, out, pend)
    BY <2>1, <2>3, Joined
  <2>5. /\ Len(s) \in Nat /\ Len(out) <= Len(s) /\ \A i \in 1..Len(out) : out[i] = s[i]
    BY <2>4 DEF Joins
  <2>6. Told(s, V)
    BY <1>1, <2>2, <2>3 DEF IInv, Kept, Sent
  <2>7. Told(out, V)
    BY <2>1, <2>5, <2>6, ToldPrefix
  <2> QED
    BY <2>1, <2>2, <2>7, ToldShows DEF ShowsATitle
<1> QED
  BY <1>1, StreamKept, PTL

(* None of the titles displayed comes after a later one: what is read is   *)
(* rewritten with the title of the track now playing.                      *)
THEOREM TitlesInOrder == Spec => TitlesFollow
<1>1. ASSUME IInv, [Next]_vars, pc = "read", pc' = "write", NEW i \in Songs(pend'),
             ~Untouched(pend', i)
      PROVE  Shown(pend', i) = Titles[shared]
  <2>1. Read
    BY <1>1 DEF Next, Plays, WriteAll, Ends, vars
  <2>2. pend' \in Seq(Unit) /\ Told(pend', Now)
    BY <1>1, <2>1, ReadIs DEF IInv
  <2>3. Now \in SUBSET (1..Len(Titles))
    BY <1>1, NowIs DEF IInv
  <2>4. PICK p \in Seq(Unit), V \in SUBSET (1..Len(Titles)) : p = pend' /\ V = Now
    BY <2>2, <2>3
  <2>5. Told(p, V) /\ i \in Songs(p) /\ ~Untouched(p, i)
    BY <1>1, <2>2, <2>4
  <2>6. \E v \in V : Shown(p, i) = Titles[v]
    BY <2>5, ToldShows
  <2> QED
    BY <2>4, <2>6 DEF Now
<1>2. IInv /\ [Next]_vars
        => (pc = "read" /\ pc' = "write" =>
              \A i \in Songs(pend') : Untouched(pend', i) \/ Shown(pend', i) = Titles[shared])
  BY <1>1
<1>3. Spec => []IInv
  BY StreamKept
<1> QED
  BY <1>2, <1>3, PTL DEF Spec, TitlesFollow
=============================================================================
