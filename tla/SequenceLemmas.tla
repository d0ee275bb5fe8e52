--------------------------- MODULE SequenceLemmas ---------------------------
(***************************************************************************)
(* Lemmas about sequences that several proofs need: parts, concatenations, *)
(* and the latest of the elements that belong to a set M, which decides    *)
(* what a reader knows who lets each such element replace the one before.  *)
(* No induction: each fact is about positions.                             *)
(***************************************************************************)
EXTENDS Integers, Sequences, FiniteSetsExt, SequenceTheorems, WellFoundedInduction, TLAPS

LEMMA MinOfNaturals ==
    ASSUME NEW S, S \subseteq Nat, S # {}
    PROVE  Min(S) \in S /\ \A y \in S : Min(S) <= y
<1> DEFINE less == {ss \in Nat \X Nat : ss[1] < ss[2]}
<1>1. less = OpToRel(<, Nat)
  BY DEF OpToRel
<1>2. IsWellFoundedOn(less, Nat)
  BY <1>1, NatLessThanWellFounded
<1>3. \E x \in S : \A y \in S : ~ (<<y, x>> \in less)
  <2> HIDE DEF less
  <2> QED
    BY <1>2, WFMin
<1>4. PICK x \in S : \A y \in S : <<y, x>> \notin less
  BY <1>3
<1>5. ASSUME NEW y \in S
      PROVE  x <= y
  <2>1. <<y, x>> \in less <=> y < x
    OBVIOUS
  <2> QED
    BY <2>1, <1>4
<1> QED
  BY <1>4, <1>5 DEF Min

-----------------------------------------------------------------------------
(* Places.                                                                 *)
LEMMA PartIs ==
    ASSUME NEW S, NEW s \in Seq(S), NEW m \in Nat \ {0}, NEW n \in Nat, n <= Len(s), m <= n + 1
    PROVE  LET c == SubSeq(s, m, n)
           IN  /\ c \in Seq(S) /\ Len(c) = n - m + 1
               /\ \A i \in 1..(n - m + 1) : c[i] = s[m + i - 1]
<1>1. \A i \in m..n : s[i] \in S
  <2>1. \A i \in m..n : i \in 1..Len(s)
    BY LenProperties
  <2> QED
    BY <2>1, ElementOfSeq
<1>2. n - m + 1 = IF m <= n THEN n - m + 1 ELSE 0
  OBVIOUS
<1>3. /\ SubSeq(s, m, n) \in Seq(S)
      /\ Len(SubSeq(s, m, n)) = IF m <= n THEN n - m + 1 ELSE 0
      /\ \A i \in 1..(n - m + 1) : SubSeq(s, m, n)[i] = s[m + i - 1]
  BY <1>1, SubSeqProperties
<1> QED
  BY <1>2, <1>3

LEMMA AppendPlaces ==
    ASSUME NEW S, NEW q \in Seq(S), NEW m \in S
    PROVE  /\ \A i \in DOMAIN q : i \in DOMAIN Append(q, m) /\ Append(q, m)[i] = q[i]
           /\ Len(q) + 1 \in DOMAIN Append(q, m) /\ Append(q, m)[Len(q) + 1] = m
           /\ \A i \in DOMAIN Append(q, m) : i \in DOMAIN q \/ i = Len(q) + 1
           /\ \A i \in DOMAIN q : Len(q) + 1 > i
BY AppendProperties

LEMMA TailPlaces ==
    ASSUME NEW S, NEW q \in Seq(S), q # <<>>
    PROVE  /\ 1 \in DOMAIN q /\ q[1] = Head(q) /\ Head(q) \in S /\ Tail(q) \in Seq(S)
           /\ \A i \in DOMAIN Tail(q) : i \in Nat /\ i + 1 \in DOMAIN q /\ Tail(q)[i] = q[i + 1]
           /\ \A i \in DOMAIN q : i \in Nat /\ (i # 1 => i - 1 \in DOMAIN Tail(q)
                                                         /\ Tail(q)[i - 1] = q[i])
<1>1. /\ Head(q) \in S /\ Tail(q) \in Seq(S) /\ Len(Tail(q)) = Len(q) - 1
      /\ \A i \in 1..Len(Tail(q)) : Tail(q)[i] = q[i + 1]
      /\ Len(q) \in Nat /\ Len(q) # 0 /\ DOMAIN q = 1..Len(q)
      /\ DOMAIN Tail(q) = 1..Len(Tail(q)) /\ q[1] = Head(q)
  BY HeadTailProperties, EmptySeq, LenProperties
<1> QED
  BY <1>1

LEMMA ConcatPlaces ==
    ASSUME NEW S, NEW s \in Seq(S), NEW t \in Seq(S)
    PROVE  /\ Len(s) \in Nat /\ s \o t \in Seq(S)
           /\ \A i \in DOMAIN s : i \in 1..Len(s) /\ i \in DOMAIN (s \o t) /\ (s \o t)[i] = s[i]
           /\ \A i \in DOMAIN t : /\ i \in Nat \ {0} /\ Len(s) + i \in DOMAIN (s \o t)
                                  /\ (s \o t)[Len(s) + i] = t[i]
           /\ \A i \in DOMAIN (s \o t) : /\ i \in Nat
                                         /\ i \in DOMAIN s \/ (i > Len(s) /\ i - Len(s) \in DOMAIN t)
<1> DEFINE u == s \o t
<1>1. /\ Len(s) \in Nat /\ Len(t) \in Nat /\ DOMAIN s = 1..Len(s) /\ DOMAIN t = 1..Len(t)
      /\ u \in Seq(S) /\ Len(u) = Len(s) + Len(t) /\ DOMAIN u = 1..Len(u)
      /\ \A i \in 1..(Len(s) + Len(t)) : u[i] = IF i <= Len(s) THEN s[i] ELSE t[i - Len(s)]
  BY ConcatProperties, LenProperties
<1> HIDE DEF u
<1>2. \A i \in DOMAIN s : i \in 1..Len(s) /\ i \in DOMAIN u /\ u[i] = s[i]
  BY <1>1
<1>3. ASSUME NEW i \in DOMAIN t
      PROVE  i \in Nat \ {0} /\ Len(s) + i \in DOMAIN u /\ u[Len(s) + i] = t[i]
  <2>1. /\ i \in 1..Len(t) /\ Len(s) + i \in 1..(Len(s) + Len(t))
        /\ ~(Len(s) + i <= Len(s)) /\ Len(s) + i - Len(s) = i
    BY <1>1
  <2> QED
    BY <1>1, <2>1
<1>4. \A i \in DOMAIN u : i \in Nat /\ (i \in DOMAIN s \/ (i > Len(s) /\ i - Len(s) \in DOMAIN t))
  BY <1>1
<1> QED
  BY <1>1, <1>2, <1>3, <1>4 DEF u

LEMMA ConcatThree ==
    ASSUME NEW S, NEW x \in Seq(S), NEW w \in Seq(S), NEW y \in Seq(S), NEW p, p = x \o w \o y
    PROVE  /\ p \in Seq(S) /\ Len(p) = Len(x) + Len(w) + Len(y)
           /\ \A i \in 1..Len(x) : p[i] = x[i]
           /\ \A i \in 1..Len(w) : p[Len(x) + i] = w[i]
           /\ \A i \in 1..Len(y) : p[Len(x) + Len(w) + i] = y[i]
<1> DEFINE u == x \o w
<1>0. p = u \o y
  OBVIOUS
<1>1. /\ Len(x) \in Nat /\ Len(w) \in Nat /\ DOMAIN x = 1..Len(x) /\ DOMAIN w = 1..Len(w)
      /\ Len(y) \in Nat /\ DOMAIN y = 1..Len(y)
  BY LenProperties
<1>2. /\ u \in Seq(S) /\ Len(u) = Len(x) + Len(w)
      /\ \A i \in DOMAIN x : i \in DOMAIN u /\ u[i] = x[i]
      /\ \A i \in DOMAIN w : Len(x) + i \in DOMAIN u /\ u[Len(x) + i] = w[i]
  BY ConcatPlaces, ConcatProperties
<1> HIDE DEF u
<1>3. p \in Seq(S) /\ Len(p) = Len(u) + Len(y)
  BY <1>0, <1>2, ConcatProperties
<1>4. /\ \A i \in DOMAIN u : p[i] = u[i]
      /\ \A i \in DOMAIN y : p[Len(u) + i] = y[i]
  <2>1. u \in Seq(S)
    BY <1>2
  <2>2. /\ \A i \in DOMAIN u : (u \o y)[i] = u[i]
        /\ \A i \in DOMAIN y : (u \o y)[Len(u) + i] = y[i]
    BY <2>1, ConcatPlaces
  <2> QED
    BY <1>0, <2>2
<1> QED
  BY <1>1, <1>2, <1>3, <1>4

(* u is s and then p.                                                      *)
Joins(u, s, p) ==
    /\ Len(s) \in Nat /\ Len(p) \in Nat /\ Len(u) = Len(s) + Len(p)
    /\ \A i \in 1..Len(s) : u[i] = s[i]
    /\ \A i \in 1..Len(p) : u[Len(s) + i] = p[i]
    /\ \A i \in 1..Len(u) : i \in 1..Len(s) \/ \E j \in 1..Len(p) : i = Len(s) + j

LEMMA Joined ==
    ASSUME NEW S, NEW s \in Seq(S), NEW p \in Seq(S), NEW u, u = s \o p
    PROVE  u \in Seq(S) /\ Joins(u, s, p)
<1>1. Len(s) \in Nat /\ Len(p) \in Nat /\ DOMAIN s = 1..Len(s) /\ DOMAIN p = 1..Len(p)
  BY LenProperties
<1>2. u \in Seq(S) /\ Len(u) = Len(s) + Len(p)
  BY ConcatProperties
<1>3. \A i \in 1..Len(s) : u[i] = s[i]
  BY <1>1, ConcatPlaces
<1>4. \A i \in 1..Len(p) : u[Len(s) + i] = p[i]
  BY <1>1, ConcatPlaces
<1>5. ASSUME NEW i \in 1..Len(u), i \notin 1..Len(s) PROVE \E j \in 1..Len(p) : i = Len(s) + j
  <2>1. i - Len(s) \in 1..Len(p) /\ i = Len(s) + (i - Len(s))
    BY <1>1, <1>2, <1>5
  <2> QED
    BY <2>1
<1> QED
  BY <1>1, <1>2, <1>3, <1>4, <1>5 DEF Joins

-----------------------------------------------------------------------------
(* The latest element of a set M.                                          *)
NoneOf(q, M) == \A i \in DOMAIN q : q[i] \notin M

(* The latest element of M, if there is one, is in G.                      *)
LatestIn(q, M, G) ==
    \A i \in DOMAIN q :
        q[i] \in M /\ (\A j \in DOMAIN q : j > i => q[j] \notin M) => q[i] \in G

(* Who knows "now" knows something Good after q: its latest element of M   *)
(* is in G, or there is none and what is known now will do.                *)
Due(q, M, G, now, Good) == LatestIn(q, M, G) /\ (NoneOf(q, M) => now \in Good)

Elements(q) == {q[i] : i \in DOMAIN q}

LEMMA ElementsConcat ==
    ASSUME NEW S, NEW s \in Seq(S), NEW t \in Seq(S)
    PROVE  Elements(s \o t) = Elements(s) \cup Elements(t)
<1> DEFINE u == s \o t
<1>1. /\ \A i \in DOMAIN s : i \in DOMAIN u /\ u[i] = s[i]
      /\ \A i \in DOMAIN t : Len(s) + i \in DOMAIN u /\ u[Len(s) + i] = t[i]
      /\ \A i \in DOMAIN u : i \in DOMAIN s \/ (i - Len(s) \in DOMAIN t /\ Len(s) + (i - Len(s)) = i)
  BY ConcatPlaces
<1> HIDE DEF u
<1>2. Elements(u) \subseteq Elements(s) \cup Elements(t)
  <2> SUFFICES ASSUME NEW i \in DOMAIN u PROVE u[i] \in Elements(s) \cup Elements(t)
    BY DEF Elements
  <2> QED
    BY <1>1 DEF Elements
<1>3. Elements(s) \subseteq Elements(u) /\ Elements(t) \subseteq Elements(u)
  BY <1>1 DEF Elements
<1> QED
  BY <1>2, <1>3 DEF u

-----------------------------------------------------------------------------
(* Something is appended.                                                  *)
LEMMA AppendDue ==
    ASSUME NEW S, NEW q \in Seq(S), NEW m \in S, NEW M, NEW G, NEW now, NEW Good,
           m \in M \cap G \/ (m \notin M /\ Due(q, M, G, now, Good))
    PROVE  Due(Append(q, m), M, G, now, Good)
<1> DEFINE r == Append(q, m)
<1>1. /\ \A i \in DOMAIN q : i \in DOMAIN r /\ r[i] = q[i] /\ Len(q) + 1 > i
      /\ Len(q) + 1 \in DOMAIN r /\ r[Len(q) + 1] = m
      /\ \A i \in DOMAIN r : i \in DOMAIN q \/ i = Len(q) + 1
  BY AppendPlaces
<1> HIDE DEF r
<1>2. ASSUME NEW i \in DOMAIN r, r[i] \in M, \A j \in DOMAIN r : j > i => r[j] \notin M
      PROVE  r[i] \in G
  <2>1. CASE i = Len(q) + 1
    BY <1>1, <1>2, <2>1
  <2>2. CASE i \in DOMAIN q
    <3>1. m \notin M
      BY <1>1, <1>2, <2>2
    <3>2. q[i] \in M /\ \A j \in DOMAIN q : j > i => q[j] \notin M
      BY <1>1, <1>2, <2>2
    <3> QED
      BY <1>1, <2>2, <3>1, <3>2 DEF Due, LatestIn
  <2> QED
    BY <1>1, <2>1, <2>2
<1>3. ASSUME \A i \in DOMAIN r : r[i] \notin M
      PROVE  now \in Good
  <2>1. m \notin M /\ \A i \in DOMAIN q : q[i] \notin M
    BY <1>1, <1>3
  <2> QED
    BY <2>1 DEF Due, NoneOf
<1> QED
  BY <1>2, <1>3 DEF Due, LatestIn, NoneOf, r

(* The first element is taken, and known from then on.                     *)
LEMMA TailDue ==
    ASSUME NEW S, NEW q \in Seq(S), q # <<>>, NEW M, NEW G, NEW now, NEW later, NEW Good,
           Due(q, M, G, now, Good),
           Head(q) \in M \cap G => later \in Good,
           Head(q) \notin M /\ now \in Good => later \in Good
    PROVE  Due(Tail(q), M, G, later, Good)
<1> DEFINE r == Tail(q)
<1>1. /\ 1 \in DOMAIN q /\ q[1] = Head(q)
      /\ \A i \in DOMAIN r : i \in Nat /\ i + 1 \in DOMAIN q /\ r[i] = q[i + 1]
      /\ \A i \in DOMAIN q : i \in Nat /\ (i # 1 => i - 1 \in DOMAIN r /\ r[i - 1] = q[i])
  BY TailPlaces
<1> HIDE DEF r
<1>2. ASSUME NEW i \in DOMAIN r, r[i] \in M, \A j \in DOMAIN r : j > i => r[j] \notin M
      PROVE  r[i] \in G
  <2>1. i + 1 \in DOMAIN q /\ q[i + 1] \in M /\ r[i] = q[i + 1] /\ i \in Nat
    BY <1>1, <1>2
  <2>2. ASSUME NEW j \in DOMAIN q, j > i + 1 PROVE q[j] \notin M
    <3>1. j # 1 /\ j - 1 > i /\ j - 1 \in DOMAIN r /\ r[j - 1] = q[j]
      BY <1>1, <2>1, <2>2
    <3> QED
      BY <1>2, <3>1
  <2> QED
    BY <2>1, <2>2 DEF Due, LatestIn
<1>3. ASSUME \A i \in DOMAIN r : r[i] \notin M
      PROVE  later \in Good
  <2>1. \A j \in DOMAIN q : j > 1 => q[j] \notin M
    BY <1>1, <1>3
  <2>2. CASE Head(q) \in M
    BY <1>1, <2>1, <2>2 DEF Due, LatestIn
  <2>3. CASE Head(q) \notin M
    <3>1. \A i \in DOMAIN q : q[i] \notin M
      BY <1>1, <1>3, <2>3
    <3> QED
      BY <2>3, <3>1 DEF Due, NoneOf
  <2> QED
    BY <2>2, <2>3
<1> QED
  BY <1>2, <1>3 DEF Due, LatestIn, NoneOf, r

(* The latest of two sequences is the latest of the second, if it has one. *)
LEMMA ConcatDue ==
    ASSUME NEW S, NEW s \in Seq(S), NEW t \in Seq(S), NEW M, NEW G, NEW now, NEW Good
    PROVE  Due(s \o t, M, G, now, Good) <=>
             LatestIn(t, M, G) /\ (NoneOf(t, M) => Due(s, M, G, now, Good))
<1> DEFINE u == s \o t
           n == Len(s)
<1>1. /\ n \in Nat
      /\ \A i \in DOMAIN s : i \in 1..n /\ i \in DOMAIN u /\ u[i] = s[i]
      /\ \A i \in DOMAIN t : i \in Nat \ {0} /\ n + i \in DOMAIN u /\ u[n + i] = t[i]
      /\ \A i \in DOMAIN u : i \in Nat /\ (i \in DOMAIN s \/ (i > n /\ i - n \in DOMAIN t))
  BY ConcatPlaces
<1> HIDE DEF u, n
<1>2. \A i \in DOMAIN u : i > n => i - n \in DOMAIN t /\ n + (i - n) = i /\ u[i] = t[i - n]
  <2> TAKE i \in DOMAIN u
  <2> HAVE i > n
  <2>1. i - n \in DOMAIN t /\ n + (i - n) = i
    BY <1>1
  <2> QED
    BY <1>1, <2>1
<1>3. ASSUME Due(u, M, G, now, Good)
      PROVE  LatestIn(t, M, G) /\ (NoneOf(t, M) => Due(s, M, G, now, Good))
  <2>1. ASSUME NEW i \in DOMAIN t, t[i] \in M, \A j \in DOMAIN t : j > i => t[j] \notin M
        PROVE  t[i] \in G
    <3>1. ASSUME NEW j \in DOMAIN u, j > n + i PROVE u[j] \notin M
      <4>1. j > n /\ j - n > i
        BY <1>1, <3>1
      <4> QED
        BY <1>2, <2>1, <4>1
    <3> QED
      BY <1>1, <1>3, <2>1, <3>1 DEF Due, LatestIn
  <2>2. ASSUME NoneOf(t, M) PROVE Due(s, M, G, now, Good)
    <3>1. \A j \in DOMAIN u : j > n => u[j] \notin M
      BY <1>2, <2>2 DEF NoneOf
    <3>2. ASSUME NEW i \in DOMAIN s, s[i] \in M, \A j \in DOMAIN s : j > i => s[j] \notin M
          PROVE  s[i] \in G
      <4>1. \A j \in DOMAIN u : j > i => u[j] \notin M
        BY <1>1, <3>1, <3>2
      <4> QED
        BY <1>1, <1>3, <3>2, <4>1 DEF Due, LatestIn
    <3>3. NoneOf(s, M) => NoneOf(u, M)
      BY <1>1, <3>1 DEF NoneOf
    <3> QED
      BY <1>3, <3>2, <3>3 DEF Due, LatestIn
  <2> QED
    BY <2>1, <2>2 DEF LatestIn
<1>4. ASSUME LatestIn(t, M, G), NoneOf(t, M) => Due(s, M, G, now, Good)
      PROVE  Due(u, M, G, now, Good)
  <2>1. ASSUME NEW i \in DOMAIN u, u[i] \in M, \A j \in DOMAIN u : j > i => u[j] \notin M
        PROVE  u[i] \in G
    <3>1. CASE i > n
      <4>1. i - n \in DOMAIN t /\ n + (i - n) = i /\ u[i] = t[i - n]
        BY <1>2, <3>1
      <4>2. ASSUME NEW j \in DOMAIN t, j > i - n PROVE t[j] \notin M
        <5>1. n + j > i /\ n + j \in DOMAIN u /\ u[n + j] = t[j]
          BY <1>1, <4>1, <4>2
        <5> QED
          BY <2>1, <5>1
      <4> QED
        BY <1>4, <2>1, <4>1, <4>2 DEF LatestIn
    <3>2. CASE i \in DOMAIN s
      <4>1. NoneOf(t, M)
        <5> SUFFICES ASSUME NEW j \in DOMAIN t PROVE t[j] \notin M
          BY DEF NoneOf
        <5>1. n + j > i /\ n + j \in DOMAIN u /\ u[n + j] = t[j]
          BY <1>1, <3>2
        <5> QED
          BY <2>1, <5>1
      <4>2. s[i] \in M /\ \A j \in DOMAIN s : j > i => s[j] \notin M
        BY <1>1, <2>1, <3>2
      <4> QED
        BY <1>1, <1>4, <3>2, <4>1, <4>2 DEF Due, LatestIn
    <3> QED
      BY <1>1, <3>1, <3>2
  <2>2. NoneOf(u, M) => NoneOf(t, M) /\ NoneOf(s, M)
    BY <1>1 DEF NoneOf
  <2> QED
    BY <1>4, <2>1, <2>2 DEF Due, LatestIn
<1> QED
  BY <1>3, <1>4 DEF u

(* What is said between the two, and of the second its first element, may  *)
(* be taken or added as long as it is not in M.                            *)
LEMMA SilentDue ==
    ASSUME NEW S, NEW s \in Seq(S), NEW x \in Seq(S), NEW t \in Seq(S), NEW r \in Seq(S),
           NEW M, NEW G, NEW now, NEW Good,
           NoneOf(x, M),
           r = t \/ (t # <<>> /\ Head(t) \notin M /\ r = Tail(t)),
           Due(s \o t, M, G, now, Good)
    PROVE  Due((s \o x) \o r, M, G, now, Good)
<1>1. LatestIn(t, M, G) /\ (NoneOf(t, M) => Due(s, M, G, now, Good))
  BY ConcatDue
<1>2. LatestIn(r, M, G) /\ (NoneOf(r, M) => NoneOf(t, M))
  <2>1. CASE r = t
    BY <1>1, <2>1
  <2>2. CASE t # <<>> /\ Head(t) \notin M /\ r = Tail(t)
    <3>1. /\ 1 \in DOMAIN t /\ t[1] \notin M
          /\ \A i \in DOMAIN r : i \in Nat /\ i + 1 \in DOMAIN t /\ r[i] = t[i + 1]
          /\ \A i \in DOMAIN t : i \in Nat /\ (i # 1 => i - 1 \in DOMAIN r /\ r[i - 1] = t[i])
      BY <2>2, TailPlaces
    <3>2. ASSUME NEW i \in DOMAIN r, r[i] \in M, \A j \in DOMAIN r : j > i => r[j] \notin M
          PROVE  r[i] \in G
      <4>1. i + 1 \in DOMAIN t /\ t[i + 1] \in M /\ r[i] = t[i + 1] /\ i \in Nat
        BY <3>1, <3>2
      <4>2. ASSUME NEW j \in DOMAIN t, j > i + 1 PROVE t[j] \notin M
        <5>1. j \in Nat /\ j # 1
          BY <3>1, <4>1, <4>2
        <5>2. j - 1 \in DOMAIN r /\ r[j - 1] = t[j]
          BY <3>1, <4>2, <5>1
        <5>3. j - 1 > i
          BY <4>1, <4>2, <5>1
        <5> QED
          BY <3>2, <5>2, <5>3
      <4> QED
        BY <1>1, <4>1, <4>2 DEF LatestIn
    <3>3. ASSUME NoneOf(r, M), NEW i \in DOMAIN t PROVE t[i] \notin M
      BY <3>1, <3>3 DEF NoneOf
    <3> QED
      BY <3>2, <3>3 DEF LatestIn, NoneOf
  <2> QED
    BY <2>1, <2>2
<1>3. NoneOf(r, M) => Due(s \o x, M, G, now, Good)
  <2>1. LatestIn(x, M, G)
    BY DEF LatestIn, NoneOf
  <2>2. NoneOf(t, M) => Due(s \o x, M, G, now, Good)
    BY <1>1, <2>1, ConcatDue
  <2> QED
    BY <1>2, <2>2
<1>4. s \o x \in Seq(S)
  BY ConcatProperties
<1> QED
  BY <1>2, <1>3, <1>4, ConcatDue
=============================================================================
