--------------------------- MODULE ExchangeProofs ---------------------------
(***************************************************************************)
(* What is proved of Exchanges, for any exchanges that meet JobsAssumption.*)
(***************************************************************************)
EXTENDS Exchanges, WellFoundedInduction, SequenceTheorems, TLAPS

(* Induction *)

\* A set of numbers that is not empty has a least one.
LEMMA Least == ASSUME NEW S \in SUBSET Nat, S # {} PROVE \E m \in S : \A k \in S : m <= k
<1>1. PICK R : R = OpToRel(<, Nat)
  OBVIOUS
<1>2. IsWellFoundedOn(R, Nat)
  BY <1>1, NatLessThanWellFounded
<1>3. PICK x \in S : \A y \in S : ~ (<<y, x>> \in R)
  BY <1>2, WFMin
<1>4. \A u, v \in Nat : u < v => <<u, v>> \in R
  BY <1>1 DEF OpToRel
<1>5. \A k \in S : ~ (k < x)
  BY <1>3, <1>4
<1> QED BY <1>5

\* A set of numbers with 0, and with n + 1 for every n below a bound, has all numbers to the bound.
LEMMA UpTo ==
    ASSUME NEW N \in Nat, NEW T, 0 \in T, \A n \in 0..N - 1 : n \in T => n + 1 \in T
    PROVE  \A n \in 0..N : n \in T
<1> SUFFICES ASSUME NEW n \in 0..N, n \notin T PROVE FALSE
  OBVIOUS
<1> DEFINE S == {k \in 0..N : k \notin T}
<1>5. S \in SUBSET Nat /\ S # {}
  OBVIOUS
<1>6. \E m \in S : \A k \in S : m <= k
  <2> HIDE DEF S
  <2> QED BY <1>5, Least
<1>1. PICK m \in S : \A k \in S : m <= k
  BY <1>6
<1>2. m # 0
  BY <1>1
<1>3. m - 1 \in 0..N - 1 /\ m - 1 \in T
  BY <1>1, <1>2
<1>4. (m - 1) + 1 = m
  BY <1>1
<1> QED BY <1>1, <1>3, <1>4

-----------------------------------------------------------------------------
(* Texts and their tokens *)

\* What was read after each atom of a text.
ReadsFrom(r, text) ==
    CHOOSE read : read = [i \in 0..Len(text) |-> IF i = 0 THEN r ELSE ReadAtom(read[i - 1], text[i])]

\* Reads is what was read after the last atom.
LEMMA ReadsIs == ASSUME NEW r, NEW text PROVE Reads(r, text) = ReadsFrom(r, text)[Len(text)]
BY DEF Reads, ReadsFrom

\* The function that Reads is defined by exists: one atom is read after the other, from r.
LEMMA ReadsFromIs ==
    ASSUME NEW A, NEW r, NEW text \in Seq(A)
    PROVE  /\ ReadsFrom(r, text)[0] = r
           /\ \A i \in 1..Len(text) :
                 ReadsFrom(r, text)[i] = ReadAtom(ReadsFrom(r, text)[i - 1], text[i])
<1> DEFINE Is(g, n) == g = [i \in 0..n |-> IF i = 0 THEN r ELSE ReadAtom(g[i - 1], text[i])]
           T == {n \in 0..Len(text) : \E g : Is(g, n)}
<1>1. Is([i \in 0..0 |-> r], 0)
  OBVIOUS
<1>2. ASSUME NEW n \in 0..Len(text) - 1, NEW g, Is(g, n) PROVE \E h : Is(h, n + 1)
  <2> DEFINE h == [i \in 0..n + 1 |-> IF i <= n THEN g[i] ELSE ReadAtom(g[n], text[n + 1])]
  <2>1. \A i \in 0..n + 1 : h[i] = IF i = 0 THEN r ELSE ReadAtom(h[i - 1], text[i])
    BY <1>2
  <2>2. Is(h, n + 1)
    BY <2>1
  <2> HIDE DEF h, Is
  <2> QED BY <2>2
<1> HIDE DEF Is
<1>3. Len(text) \in Nat /\ 0 \in 0..Len(text) /\ \A n \in 0..Len(text) - 1 : n + 1 \in 0..Len(text) /\ n \in 0..Len(text)
  BY LenProperties
<1>4. 0 \in T
  BY <1>1, <1>3
<1>5. \A n \in 0..Len(text) - 1 : n \in T => n + 1 \in T
  BY <1>2, <1>3
<1>6. \A n \in 0..Len(text) : n \in T
  <2> HIDE DEF T
  <2> QED BY <1>3, <1>4, <1>5, UpTo
<1>7. Len(text) \in 0..Len(text)
  BY <1>3
<1>8. \E g : Is(g, Len(text))
  BY <1>6, <1>7
<1>9. Is(ReadsFrom(r, text), Len(text))
  BY <1>8 DEF ReadsFrom, Is
<1> QED BY <1>3, <1>9 DEF Is

\* A text is read in two parts.
LEMMA ReadsConcat ==
    ASSUME NEW A, NEW r, NEW s \in Seq(A), NEW t \in Seq(A)
    PROVE  Reads(r, s \o t) = Reads(Reads(r, s), t)
<1>1. PICK f : f = ReadsFrom(r, s)
  OBVIOUS
<1>2. PICK g : g = ReadsFrom(f[Len(s)], t)
  OBVIOUS
<1>4. PICK st : st = s \o t
  OBVIOUS
<1>3. PICK h : h = ReadsFrom(r, st)
  OBVIOUS
<1>5. /\ Len(s) \in Nat /\ Len(t) \in Nat /\ st \in Seq(A) /\ Len(st) = Len(s) + Len(t)
      /\ \A i \in 1..Len(s) : st[i] = s[i]
      /\ \A i \in 1..Len(t) : st[Len(s) + i] = t[i]
  BY <1>4, ConcatProperties
<1>6. f[0] = r /\ \A i \in 1..Len(s) : f[i] = ReadAtom(f[i - 1], s[i])
  BY <1>1, ReadsFromIs
<1>7. g[0] = f[Len(s)] /\ \A i \in 1..Len(t) : g[i] = ReadAtom(g[i - 1], t[i])
  BY <1>2, ReadsFromIs
<1>8. h[0] = r /\ \A i \in 1..Len(st) : h[i] = ReadAtom(h[i - 1], st[i])
  BY <1>3, <1>5, ReadsFromIs
<1>9. h[Len(s)] = f[Len(s)]
  <2> DEFINE T == {i \in 0..Len(s) : h[i] = f[i]}
  <2>1. 0 \in T
    BY <1>5, <1>6, <1>8
  <2>2. \A n \in 0..Len(s) - 1 : n \in T => n + 1 \in T
    <3> SUFFICES ASSUME NEW n \in 0..Len(s) - 1, n \in T PROVE n + 1 \in T
      OBVIOUS
    <3>1. /\ h[n + 1] = ReadAtom(h[n], st[n + 1]) /\ f[n + 1] = ReadAtom(f[n], s[n + 1])
          /\ st[n + 1] = s[n + 1] /\ h[n] = f[n]
      BY <1>5, <1>6, <1>8
    <3> QED BY <3>1, <1>5
  <2>3. \A n \in 0..Len(s) : n \in T
    <3> HIDE DEF T
    <3> QED BY <1>5, <2>1, <2>2, UpTo
  <2> QED BY <2>3, <1>5
<1>10. h[Len(st)] = g[Len(t)]
  <2> DEFINE T == {i \in 0..Len(t) : h[Len(s) + i] = g[i]}
  <2>1. 0 \in T
    BY <1>5, <1>7, <1>9
  <2>2. \A n \in 0..Len(t) - 1 : n \in T => n + 1 \in T
    <3> SUFFICES ASSUME NEW n \in 0..Len(t) - 1, n \in T PROVE n + 1 \in T
      OBVIOUS
    <3>1. /\ Len(s) + (n + 1) \in 1..Len(st)
          /\ (Len(s) + (n + 1)) - 1 = Len(s) + n /\ n + 1 \in 1..Len(t) /\ (n + 1) - 1 = n
      BY <1>5
    <3>2. /\ h[Len(s) + (n + 1)] = ReadAtom(h[Len(s) + n], st[Len(s) + (n + 1)])
          /\ g[n + 1] = ReadAtom(g[n], t[n + 1])
          /\ st[Len(s) + (n + 1)] = t[n + 1] /\ h[Len(s) + n] = g[n]
      BY <1>5, <1>7, <1>8, <3>1
    <3> QED BY <3>2, <1>5
  <2>3. \A n \in 0..Len(t) : n \in T
    <3> HIDE DEF T
    <3> QED BY <1>5, <2>1, <2>2, UpTo
  <2> QED BY <2>3, <1>5
<1> QED BY <1>1, <1>2, <1>3, <1>4, <1>10, ReadsIs

\* One atom is read.
LEMMA ReadsOne ==
    ASSUME NEW A, NEW r, NEW c \in A PROVE Reads(r, <<c>>) = ReadAtom(r, c)
<1>1. <<c>> \in Seq(A) /\ Len(<<c>>) = 1 /\ <<c>>[1] = c
  OBVIOUS
<1>2. PICK s : s = <<c>>
  OBVIOUS
<1>3. ReadsFrom(r, s)[0] = r /\ ReadsFrom(r, s)[1] = ReadAtom(ReadsFrom(r, s)[0], c)
  <2>1. s \in Seq(A) /\ Len(s) = 1 /\ s[1] = c /\ 1 \in 1..1 /\ 1 - 1 = 0
    BY <1>1, <1>2
  <2>2. \A i \in 1..Len(s) : ReadsFrom(r, s)[i] = ReadAtom(ReadsFrom(r, s)[i - 1], s[i])
    BY <2>1, ReadsFromIs
  <2>3. ReadsFrom(r, s)[0] = r
    BY <2>1, ReadsFromIs
  <2> QED BY <2>1, <2>2, <2>3
<1> QED BY <1>1, <1>2, <1>3, ReadsIs

\* Nothing is read of an empty text.
LEMMA ReadsNone == ASSUME NEW r PROVE Reads(r, <<>>) = r
<1>1. PICK s : s = <<>>
  OBVIOUS
<1>2. s \in Seq(Atoms) /\ Len(s) = 0
  BY <1>1
<1>3. ReadsFrom(r, s)[0] = r
  BY <1>2, ReadsFromIs
<1> QED BY <1>1, <1>2, <1>3, ReadsIs

\* What an atom does to what was read before it.
LEMMA AtomsAre ==
    ASSUME NEW w, NEW ts, NEW c
    PROVE  /\ ReadAtom(Reading("between", w, ts), Blank) = Reading("between", <<>>, ts)
           /\ ReadAtom(Reading("between", w, ts), Quote) = Reading("string", <<>>, ts)
           /\ ReadAtom(Reading("between", w, ts), "=") =
                 Reading("between", <<>>, Append(ts, Token("equals", "=")))
           /\ c \notin Marks => ReadAtom(Reading("between", w, ts), c) =
                 Reading("between", <<>>, Append(ts, Token("word", c)))
           /\ c # Quote => ReadAtom(Reading("string", w, ts), c) = Reading("string", Append(w, c), ts)
           /\ ReadAtom(Reading("string", w, ts), Quote) = Reading("ended", w, ts)
           /\ ReadAtom(Reading("ended", w, ts), Quote) = Reading("string", Append(w, Quote), ts)
           /\ ReadAtom(Reading("ended", w, ts), Blank) =
                 Reading("between", <<>>, Append(ts, Token("string", w)))
<1> USE DEF ReadAtom, Reading, Begin, Token, Marks, Blank, Quote, DQuote, Escape
<1>1. ReadAtom(Reading("between", w, ts), Blank) = Reading("between", <<>>, ts)
  OBVIOUS
<1>2. ReadAtom(Reading("between", w, ts), Quote) = Reading("string", <<>>, ts)
  OBVIOUS
<1>3. ReadAtom(Reading("between", w, ts), "=") =
          Reading("between", <<>>, Append(ts, Token("equals", "=")))
  OBVIOUS
<1>4. ASSUME c \notin Marks
      PROVE  ReadAtom(Reading("between", w, ts), c) =
                 Reading("between", <<>>, Append(ts, Token("word", c)))
  BY <1>4
<1>5. ASSUME c # Quote
      PROVE  ReadAtom(Reading("string", w, ts), c) = Reading("string", Append(w, c), ts)
  BY <1>5
<1>6. ReadAtom(Reading("string", w, ts), Quote) = Reading("ended", w, ts)
  OBVIOUS
<1>7. ReadAtom(Reading("ended", w, ts), Quote) = Reading("string", Append(w, Quote), ts)
  OBVIOUS
<1>8. ReadAtom(Reading("ended", w, ts), Blank) =
          Reading("between", <<>>, Append(ts, Token("string", w)))
  OBVIOUS
<1> QED BY ONLY <1>1, <1>2, <1>3, <1>4, <1>5, <1>6, <1>7, <1>8

\* The concatenations that FlattenSeq makes on its way.
FlatsOf(seqs) ==
    CHOOSE flatten : flatten = [i \in 1..Len(seqs) |->
                                   IF i = 1 THEN seqs[i] ELSE flatten[i - 1] \o seqs[i]]

\* FlattenSeq is the last of them.
LEMMA FlattenSeqIs == ASSUME NEW s, Len(s) # 0 PROVE FlattenSeq(s) = FlatsOf(s)[Len(s)]
BY DEF FlattenSeq, FlatsOf

\* FlattenSeq is the concatenation of all texts, made from the front.
LEMMA FlattenIs ==
    ASSUME NEW A, NEW s \in Seq(Seq(A))
    PROVE  \E d : /\ d[0] = <<>> /\ FlattenSeq(s) = d[Len(s)]
                  /\ \A i \in 1..Len(s) : d[i] = d[i - 1] \o s[i]
                  /\ \A i \in 0..Len(s) : d[i] \in Seq(A)
<1>1. CASE Len(s) = 0
  <2>1. s = <<>> /\ FlattenSeq(s) = s
    BY <1>1 DEF FlattenSeq
  <2> DEFINE d == [i \in 0..0 |-> <<>>]
  <2>2. /\ d[0] = <<>> /\ FlattenSeq(s) = d[Len(s)]
        /\ \A i \in 1..Len(s) : d[i] = d[i - 1] \o s[i]
        /\ \A i \in 0..Len(s) : d[i] \in Seq(A)
    BY <1>1, <2>1
  <2> HIDE DEF d
  <2> QED BY <2>2
<1>2. CASE Len(s) # 0
  <2> DEFINE N == Len(s)
             Is(g, n) == g = [i \in 1..n |-> IF i = 1 THEN s[i] ELSE g[i - 1] \o s[i]]
             Goes(g, n) == /\ \A i \in 1..n : g[i] \in Seq(A)
                           /\ n > 0 => g[1] = s[1]
                           /\ \A i \in 2..n : g[i] = g[i - 1] \o s[i]
             T == {n \in 0..N : \E g : Is(g, n)}
  <2>0. N \in Nat /\ N > 0 /\ \A i \in 1..N : s[i] \in Seq(A)
    BY <1>2, LenProperties, ElementOfSeq
  <2> HIDE DEF N
  <2>1. Is(<<>>, 0)
    OBVIOUS
  <2>2. ASSUME NEW n \in 0..N - 1, NEW g, Is(g, n) PROVE \E h : Is(h, n + 1)
    <3> DEFINE h == [i \in 1..n + 1 |-> IF i <= n THEN g[i] ELSE IF i = 1 THEN s[1] ELSE g[n] \o s[n + 1]]
    <3>1. ASSUME NEW i \in 1..n + 1 PROVE h[i] = IF i = 1 THEN s[i] ELSE h[i - 1] \o s[i]
      <4>1. CASE i <= n
        <5>3. i \in 1..n
          BY <4>1
        <5>4. \A k \in 1..n : g[k] = IF k = 1 THEN s[k] ELSE g[k - 1] \o s[k]
          BY <2>2
        <5>1. g[i] = IF i = 1 THEN s[i] ELSE g[i - 1] \o s[i]
          BY <5>3, <5>4
        <5>2. h[i] = g[i] /\ (i # 1 => h[i - 1] = g[i - 1])
          BY <4>1
        <5> QED BY <5>1, <5>2
      <4>2. CASE i = n + 1
        <5>1. i # 1 => i - 1 = n /\ n \in 1..n
          BY <4>2
        <5>2. h[i] = IF i = 1 THEN s[1] ELSE g[n] \o s[n + 1]
          BY <4>2
        <5>3. i # 1 => h[i - 1] = g[n]
          BY <5>1, <4>2
        <5> QED BY <4>2, <5>1, <5>2, <5>3
      <4> QED BY <4>1, <4>2
    <3>2. Is(h, n + 1)
      BY <3>1
    <3> HIDE DEF h, Is
    <3> QED BY <3>2
  <2> HIDE DEF Is
  <2>3. 0 \in T
    BY <2>0, <2>1
  <2>4. \A n \in 0..N - 1 : n \in T => n + 1 \in T
    BY <2>0, <2>2
  <2>5. \A n \in 0..N : n \in T
    <3> HIDE DEF T
    <3> QED BY <2>0, <2>3, <2>4, UpTo
  <2>6. \E g : Is(g, N)
    BY <2>0, <2>5
  <2>7. PICK f : f = FlatsOf(s)
    OBVIOUS
  <2>8. Is(f, N)
    BY <2>6, <2>7 DEF FlatsOf, Is, N
  <2>9. f[1] = s[1] /\ \A i \in 2..N : f[i] = f[i - 1] \o s[i]
    <3>1. \A i \in 1..N : f[i] = IF i = 1 THEN s[i] ELSE f[i - 1] \o s[i]
      BY <2>8 DEF Is
    <3>2. 1 \in 1..N /\ \A i \in 2..N : i \in 1..N /\ i # 1
      BY <2>0
    <3> QED BY <3>1, <3>2
  <2>10. \A i \in 1..N : f[i] \in Seq(A)
    <3> DEFINE U == {i \in 0..N : i # 0 => f[i] \in Seq(A)}
    <3>1. 0 \in U
      BY <2>0
    <3>2. \A n \in 0..N - 1 : n \in U => n + 1 \in U
      <4> SUFFICES ASSUME NEW n \in 0..N - 1, n \in U PROVE n + 1 \in U
        OBVIOUS
      <4>1. CASE n = 0
        <5>1. n + 1 = 1 /\ 1 \in 0..N /\ 1 \in 1..N
          BY <2>0, <4>1
        <5>2. f[1] \in Seq(A)
          BY <2>0, <2>9, <5>1
        <5> QED BY <5>1, <5>2
      <4>2. CASE n # 0
        <5>1. n + 1 \in 2..N /\ (n + 1) - 1 = n /\ f[n] \in Seq(A) /\ s[n + 1] \in Seq(A)
          BY <2>0, <4>2
        <5>2. f[n + 1] = f[n] \o s[n + 1]
          BY <2>9, <5>1
        <5>3. f[n] \o s[n + 1] \in Seq(A)
          BY <5>1, ConcatProperties
        <5>4. n + 1 \in 0..N /\ f[n + 1] \in Seq(A)
          BY <2>0, <5>2, <5>3
        <5> QED BY <5>4
      <4> QED BY <4>1, <4>2
    <3>3. \A n \in 0..N : n \in U
      <4> HIDE DEF U
      <4> QED BY <2>0, <3>1, <3>2, UpTo
    <3> QED BY <3>3
  <2> DEFINE d == [i \in 0..N |-> IF i = 0 THEN <<>> ELSE f[i]]
  <2>11. d[0] = <<>> /\ \A i \in 1..N : d[i] = f[i]
    BY <2>0
  <2>12. \A i \in 0..N : d[i] \in Seq(A)
    BY <2>0, <2>10, <2>11
  <2> HIDE DEF d
  <2>13. \A i \in 1..N : d[i] = d[i - 1] \o s[i]
    <3> SUFFICES ASSUME NEW i \in 1..N PROVE d[i] = d[i - 1] \o s[i]
      OBVIOUS
    <3>1. CASE i = 1
      <4>1. d[1] = s[1] /\ d[0] = <<>> /\ s[1] \in Seq(A)
        BY <2>0, <2>9, <2>11
      <4>2. <<>> \o s[1] = s[1]
        BY <4>1, ConcatEmptySeq
      <4>3. d[1] = d[0] \o s[1]
        BY <4>1, <4>2
      <4>4. i - 1 = 0
        BY <3>1
      <4> QED BY <3>1, <4>3, <4>4
    <3>2. CASE i # 1
      <4>1. i \in 2..N /\ i - 1 \in 1..N
        BY <2>0, <3>2
      <4>2. f[i] = f[i - 1] \o s[i]
        BY <2>9, <4>1
      <4>3. d[i] = f[i] /\ d[i - 1] = f[i - 1]
        BY <2>11, <4>1
      <4> QED BY <4>2, <4>3
    <3> QED BY <3>1, <3>2
  <2>14. FlattenSeq(s) = d[N]
    BY <1>2, <2>0, <2>7, <2>11, FlattenSeqIs DEF N
  <2> QED BY <2>11, <2>12, <2>13, <2>14 DEF N
<1> QED BY <1>1, <1>2

\* A text grows by one.
LEMMA SubSeqGrows ==
    ASSUME NEW A, NEW v \in Seq(A), NEW n \in 0..Len(v) - 1
    PROVE  SubSeq(v, 1, n + 1) = Append(SubSeq(v, 1, n), v[n + 1])
<1>1. Len(v) \in Nat /\ \A i \in 1..Len(v) : v[i] \in A
  BY ElementOfSeq, LenProperties
<1>2. /\ SubSeq(v, 1, n) \in Seq(A) /\ Len(SubSeq(v, 1, n)) = n
      /\ \A i \in 1..n : SubSeq(v, 1, n)[i] = v[i]
  BY <1>1
<1>3. /\ SubSeq(v, 1, n + 1) \in Seq(A) /\ Len(SubSeq(v, 1, n + 1)) = n + 1
      /\ \A i \in 1..n + 1 : SubSeq(v, 1, n + 1)[i] = v[i]
  BY <1>1
<1>4. v[n + 1] \in A
  BY <1>1
<1> QED BY <1>2, <1>3, <1>4, AppendProperties, SeqEqual

\* What quote writes, _tokens reads: a literal has the value that was written, to any length and
\* with any quotes in it, and is over at its end.
LEMMA ReadsQuoted ==
    ASSUME NEW A, Quote \in A, NEW v \in Seq(A), NEW w, NEW ts
    PROVE  /\ Quoted(v) \in Seq(A)
           /\ Reads(Reading("between", w, ts), Quoted(v)) = Reading("ended", v, ts)
<1> DEFINE R(x) == Reading("string", x, ts)
<1>1. PICK s : s = [i \in DOMAIN v |-> IF v[i] = Quote THEN <<Quote, Quote>> ELSE <<v[i]>>]
  OBVIOUS
<1>2. /\ Len(v) \in Nat /\ DOMAIN v = 1..Len(v) /\ \A i \in 1..Len(v) : v[i] \in A
  BY LenProperties, ElementOfSeq
<1>3. /\ s \in Seq(Seq(A)) /\ Len(s) = Len(v)
      /\ \A i \in 1..Len(v) : s[i] = IF v[i] = Quote THEN <<Quote, Quote>> ELSE <<v[i]>>
  BY <1>1, <1>2
<1>4. PICK d : /\ d[0] = <<>> /\ FlattenSeq(s) = d[Len(s)]
               /\ \A i \in 1..Len(s) : d[i] = d[i - 1] \o s[i]
               /\ \A i \in 0..Len(s) : d[i] \in Seq(A)
  BY <1>3, FlattenIs
<1>5. PICK x : x = [i \in 0..Len(v) |-> SubSeq(v, 1, i)]
  OBVIOUS
<1>6. x[0] = <<>> /\ x[Len(v)] = v
  BY <1>2, <1>5
<1>7. \A n \in 0..Len(v) - 1 : x[n + 1] = Append(x[n], v[n + 1])
  <2> SUFFICES ASSUME NEW n \in 0..Len(v) - 1 PROVE x[n + 1] = Append(x[n], v[n + 1])
    OBVIOUS
  <2>1. n + 1 \in 0..Len(v) /\ n \in 0..Len(v)
    BY <1>2
  <2>2. \A i \in 0..Len(v) : x[i] = SubSeq(v, 1, i)
    BY <1>5
  <2>3. x[n + 1] = SubSeq(v, 1, n + 1) /\ x[n] = SubSeq(v, 1, n)
    BY <2>1, <2>2
  <2> QED BY <2>3, SubSeqGrows
<1>18. PICK q : q = <<Quote>>
  OBVIOUS
<1>19. q \in Seq(A) /\ \A r : Reads(r, q) = ReadAtom(r, Quote)
  BY <1>18, ReadsOne
<1> DEFINE T == {i \in 0..Len(v) : Reads(R(<<>>), d[i]) = R(x[i])}
<1>8. 0 \in T
  BY <1>2, <1>4, <1>6, ReadsNone
<1>9. \A n \in 0..Len(v) - 1 : n \in T => n + 1 \in T
  <2> SUFFICES ASSUME NEW n \in 0..Len(v) - 1, n \in T PROVE n + 1 \in T
    OBVIOUS
  <2>1. /\ n + 1 \in 1..Len(v) /\ n + 1 \in 0..Len(v) /\ (n + 1) - 1 = n /\ n \in 0..Len(s)
        /\ v[n + 1] \in A
    BY <1>2, <1>3
  <2>2. d[n + 1] = d[n] \o s[n + 1] /\ d[n] \in Seq(A) /\ s[n + 1] \in Seq(A)
    BY <1>3, <1>4, <2>1, ElementOfSeq
  <2>3. Reads(R(<<>>), d[n + 1]) = Reads(R(x[n]), s[n + 1])
    BY <2>2, ReadsConcat
  <2>4. Reads(R(x[n]), s[n + 1]) = R(x[n + 1])
    <3>1. CASE v[n + 1] = Quote
      <4>1. s[n + 1] = q \o q
        BY <1>3, <1>18, <2>1, <3>1
      <4>2. Reads(R(x[n]), q \o q) = Reads(Reads(R(x[n]), q), q)
        BY <1>19, ReadsConcat
      <4>3. Reads(R(x[n]), q) = Reading("ended", x[n], ts)
        BY <1>19, AtomsAre
      <4>4. Reads(Reading("ended", x[n], ts), q) = R(Append(x[n], Quote))
        BY <1>19, AtomsAre
      <4> QED BY <1>7, <3>1, <4>1, <4>2, <4>3, <4>4
    <3>2. CASE v[n + 1] # Quote
      <4>1. s[n + 1] = <<v[n + 1]>>
        BY <1>3, <2>1, <3>2
      <4>2. Reads(R(x[n]), <<v[n + 1]>>) = R(Append(x[n], v[n + 1]))
        BY <2>1, <3>2, ReadsOne, AtomsAre
      <4> QED BY <1>7, <4>1, <4>2
    <3> QED BY <3>1, <3>2
  <2> QED BY <2>1, <2>3, <2>4
<1>10. \A n \in 0..Len(v) : n \in T
  <2> HIDE DEF T
  <2> QED BY <1>2, <1>8, <1>9, UpTo
<1>11. PICK f : f = FlattenSeq(s)
  OBVIOUS
<1>12. Reads(R(<<>>), f) = R(v) /\ f \in Seq(A)
  BY <1>2, <1>3, <1>4, <1>6, <1>10, <1>11
<1>13. q \o f \in Seq(A) /\ (q \o f) \o q \in Seq(A)
  BY <1>12, <1>19, ConcatProperties
<1>14. Quoted(v) = (q \o f) \o q
  BY <1>1, <1>11, <1>18 DEF Quoted
<1>15. Reads(Reading("between", w, ts), q) = R(<<>>)
  BY <1>19, AtomsAre
<1>16. Reads(Reading("between", w, ts), q \o f) = R(v)
  BY <1>12, <1>15, <1>19, ReadsConcat
<1>17. Reads(R(v), q) = Reading("ended", v, ts)
  BY <1>19, AtomsAre
<1>21. PICK r : r = Reading("between", w, ts)
  OBVIOUS
<1>22. PICK qf : qf = q \o f
  OBVIOUS
<1>24. qf \in Seq(A)
  BY <1>13, <1>22
<1>23. Reads(r, qf \o q) = Reads(Reads(r, qf), q)
  BY <1>19, <1>24, ReadsConcat
<1>20. Reads(Reading("between", w, ts), (q \o f) \o q) = Reading("ended", v, ts)
  BY <1>16, <1>17, <1>21, <1>22, <1>23
<1> QED BY <1>13, <1>14, <1>20

\* Short texts, atom by atom.
LEMMA ReadsThree ==
    ASSUME NEW A, NEW r, NEW a \in A, NEW b \in A, NEW c \in A
    PROVE  Reads(r, <<a, b, c>>) = ReadAtom(ReadAtom(ReadAtom(r, a), b), c)
<1>1. PICK s : s = <<a, b, c>>
  OBVIOUS
<1>2. /\ s \in Seq(A) /\ Len(s) = 3 /\ s[1] = a /\ s[2] = b /\ s[3] = c
      /\ {1, 2, 3} \subseteq 1..3 /\ 1 - 1 = 0 /\ 2 - 1 = 1 /\ 3 - 1 = 2
  BY <1>1
<1>3. PICK f : f = ReadsFrom(r, s)
  OBVIOUS
<1>4. f[0] = r /\ \A i \in 1..3 : f[i] = ReadAtom(f[i - 1], s[i])
  <2>0. s \in Seq(A)
    BY <1>2
  <2>1. f[0] = r /\ \A i \in 1..Len(s) : f[i] = ReadAtom(f[i - 1], s[i])
    BY ONLY <2>0, <1>3, ReadsFromIs
  <2> QED BY <1>2, <2>1
<1>5. f[1] = ReadAtom(f[0], a) /\ f[2] = ReadAtom(f[1], b) /\ f[3] = ReadAtom(f[2], c)
  BY <1>2, <1>4
<1> QED BY <1>1, <1>2, <1>3, <1>4, <1>5, ReadsIs

\* The same for four atoms.
LEMMA ReadsFour ==
    ASSUME NEW A, NEW r, NEW a \in A, NEW b \in A, NEW c \in A, NEW e \in A
    PROVE  Reads(r, <<a, b, c, e>>) = ReadAtom(ReadAtom(ReadAtom(ReadAtom(r, a), b), c), e)
<1>1. PICK s : s = <<a, b, c, e>>
  OBVIOUS
<1>2. /\ s \in Seq(A) /\ Len(s) = 4 /\ s[1] = a /\ s[2] = b /\ s[3] = c /\ s[4] = e
      /\ {1, 2, 3, 4} \subseteq 1..4 /\ 1 - 1 = 0 /\ 2 - 1 = 1 /\ 3 - 1 = 2 /\ 4 - 1 = 3
  BY <1>1
<1>3. PICK f : f = ReadsFrom(r, s)
  OBVIOUS
<1>4. f[0] = r /\ \A i \in 1..4 : f[i] = ReadAtom(f[i - 1], s[i])
  <2>0. s \in Seq(A)
    BY <1>2
  <2>1. f[0] = r /\ \A i \in 1..Len(s) : f[i] = ReadAtom(f[i - 1], s[i])
    BY ONLY <2>0, <1>3, ReadsFromIs
  <2> QED BY <1>2, <2>1
<1>5. /\ f[1] = ReadAtom(f[0], a) /\ f[2] = ReadAtom(f[1], b) /\ f[3] = ReadAtom(f[2], c)
      /\ f[4] = ReadAtom(f[3], e)
  BY <1>2, <1>4
<1> QED BY <1>1, <1>2, <1>3, <1>4, <1>5, ReadsIs

\* The tokens a written comparison begins with.
WordOf(c) == Token("word", c.property)
OperatorOf(c) == IF c.operator = "=" THEN Token("equals", "=") ELSE Token("word", "LIKE")
StringOf(c) == Token("string", c.value)
AndToken == Token("word", "AND")

\* What Comparison.__str__ writes is read as its property, its operator and its literal.
LEMMA ReadsComparison ==
    ASSUME NEW c, NEW allowed, Writable(c, allowed), NEW w, NEW ts
    PROVE  /\ ComparisonText(c) \in Seq(Atoms)
           /\ Reads(Reading("between", w, ts), ComparisonText(c)) =
                 Reading("ended", c.value, Append(Append(ts, WordOf(c)), OperatorOf(c)))
<1>1. /\ c.property \in Atoms /\ c.property \notin Marks /\ c.operator \in {"=", "LIKE"}
      /\ c.value \in Seq(Atoms)
  BY DEF Writable
<1>2. Blank \in Atoms /\ Quote \in Atoms /\ c.operator \in Atoms
  BY <1>1, AtomsAssumption DEF Marks, KEYWORDS
<1>3. PICK s : s = <<c.property, Blank, c.operator, Blank>>
  OBVIOUS
<1>4. PICK q : q = Quoted(c.value)
  OBVIOUS
<1>5. s \in Seq(Atoms)
  <2>1. ASSUME NEW A, Blank \in A, c.property \in A, c.operator \in A PROVE s \in Seq(A)
    BY <1>3, <2>1
  <2> QED BY <1>1, <1>2, <2>1
<1>6. \A x, y : /\ q \in Seq(Atoms)
                /\ Reads(Reading("between", x, y), q) = Reading("ended", c.value, y)
  BY <1>1, <1>2, <1>4, ReadsQuoted
<1>7. Reads(Reading("between", w, ts), s) =
          Reading("between", <<>>, Append(Append(ts, WordOf(c)), OperatorOf(c)))
  <2>1. PICK r1 : r1 = Reading("between", <<>>, Append(ts, WordOf(c)))
    OBVIOUS
  <2>2. PICK r2 : r2 = Reading("between", <<>>, Append(Append(ts, WordOf(c)), OperatorOf(c)))
    OBVIOUS
  <2>3. ReadAtom(Reading("between", w, ts), c.property) = r1
    BY <1>1, <2>1, AtomsAre DEF WordOf
  <2>4. ReadAtom(r1, Blank) = r1
    BY <2>1, AtomsAre
  <2>5. ReadAtom(r1, c.operator) = r2
    <3>1. CASE c.operator = "="
      BY <2>1, <2>2, <3>1, AtomsAre DEF OperatorOf
    <3>2. CASE c.operator = "LIKE"
      <4>1. "LIKE" \notin Marks
        BY DEF Marks, Blank, Quote, DQuote, Escape
      <4> QED BY <2>1, <2>2, <3>2, <4>1, AtomsAre DEF OperatorOf
    <3> QED BY <1>1, <3>1, <3>2
  <2>6. ReadAtom(r2, Blank) = r2
    BY <2>2, AtomsAre
  <2>7. PICK r0 : r0 = Reading("between", w, ts)
    OBVIOUS
  <2>8. Reads(r0, s) = ReadAtom(ReadAtom(ReadAtom(ReadAtom(r0, c.property), Blank), c.operator), Blank)
    BY <1>1, <1>2, <1>3, ReadsFour
  <2> QED BY <2>2, <2>3, <2>4, <2>5, <2>6, <2>7, <2>8
<1>8. PICK r0 : r0 = Reading("between", w, ts)
  OBVIOUS
<1>9. s \o q \in Seq(Atoms) /\ Reads(r0, s \o q) = Reads(Reads(r0, s), q)
  BY <1>5, <1>6, ConcatProperties, ReadsConcat
<1>10. ComparisonText(c) = s \o q
  BY <1>3, <1>4 DEF ComparisonText
<1> QED BY <1>6, <1>7, <1>8, <1>9, <1>10

\* The AND of a written condition.
LEMMA ReadsAnd ==
    ASSUME NEW w, NEW ts
    PROVE  Reads(Reading("ended", w, ts), <<Blank, "AND", Blank>>) =
               Reading("between", <<>>, Append(Append(ts, Token("string", w)), AndToken))
<1>1. PICK r0 : r0 = Reading("ended", w, ts)
  OBVIOUS
<1>2. PICK r1 : r1 = Reading("between", <<>>, Append(ts, Token("string", w)))
  OBVIOUS
<1>3. PICK r2 : r2 = Reading("between", <<>>, Append(Append(ts, Token("string", w)), AndToken))
  OBVIOUS
<1>4. ReadAtom(r0, Blank) = r1
  BY <1>1, <1>2, AtomsAre
<1>5. "AND" \notin Marks
  BY DEF Marks, Blank, Quote, DQuote, Escape
<1>6. ReadAtom(r1, "AND") = r2
  BY <1>2, <1>3, <1>5, AtomsAre DEF AndToken
<1>7. ReadAtom(r2, Blank) = r2
  BY <1>3, AtomsAre
<1>8. Reads(r0, <<Blank, "AND", Blank>>) = ReadAtom(ReadAtom(ReadAtom(r0, Blank), "AND"), Blank)
  <2>1. PICK A : A = {Blank, "AND"}
    OBVIOUS
  <2>2. Blank \in A /\ "AND" \in A
    BY <2>1
  <2> QED BY <2>2, ReadsThree
<1> QED BY <1>1, <1>3, <1>4, <1>6, <1>7, <1>8

-----------------------------------------------------------------------------
(* A written condition *)

\* The tokens of the first i comparisons of a condition, but for the last literal.
Has(ts, condition, i) ==
    /\ Len(ts) = 4 * i - 2
    /\ \A k \in 1..i : ts[4 * k - 3] = WordOf(condition[k]) /\ ts[4 * k - 2] = OperatorOf(condition[k])
    /\ \A k \in 1..i - 1 : ts[4 * k - 1] = StringOf(condition[k]) /\ ts[4 * k] = AndToken

\* One more comparison.
LEMMA HasMore ==
    ASSUME NEW Tok, NEW ts \in Seq(Tok), NEW condition, NEW i \in Nat \ {0}, Has(ts, condition, i),
           NEW a \in Tok, NEW b \in Tok, NEW c \in Tok, NEW e \in Tok,
           a = StringOf(condition[i]), b = AndToken,
           c = WordOf(condition[i + 1]), e = OperatorOf(condition[i + 1])
    PROVE  /\ Append(Append(Append(Append(ts, a), b), c), e) \in Seq(Tok)
           /\ Has(Append(Append(Append(Append(ts, a), b), c), e), condition, i + 1)
<1>1. PICK t : t = Append(Append(Append(Append(ts, a), b), c), e)
  OBVIOUS
<1>2. Len(ts) = 4 * i - 2 /\ Len(ts) \in Nat
  BY DEF Has
<1>3. /\ t \in Seq(Tok) /\ Len(t) = Len(ts) + 4
      /\ \A n \in 1..Len(ts) : t[n] = ts[n]
      /\ t[Len(ts) + 1] = a /\ t[Len(ts) + 2] = b /\ t[Len(ts) + 3] = c /\ t[Len(ts) + 4] = e
  <2>1. PICK t1 : t1 = Append(ts, a)
    OBVIOUS
  <2>2. PICK t2 : t2 = Append(t1, b)
    OBVIOUS
  <2>3. PICK t3 : t3 = Append(t2, c)
    OBVIOUS
  <2>4. t1 \in Seq(Tok) /\ Len(t1) = Len(ts) + 1 /\ t1[Len(ts) + 1] = a /\ \A n \in 1..Len(ts) : t1[n] = ts[n]
    BY <2>1, AppendProperties
  <2>5. t2 \in Seq(Tok) /\ Len(t2) = Len(t1) + 1 /\ t2[Len(t1) + 1] = b /\ \A n \in 1..Len(t1) : t2[n] = t1[n]
    BY <2>2, <2>4, AppendProperties
  <2>6. t3 \in Seq(Tok) /\ Len(t3) = Len(t2) + 1 /\ t3[Len(t2) + 1] = c /\ \A n \in 1..Len(t2) : t3[n] = t2[n]
    BY <2>3, <2>5, AppendProperties
  <2>7. t = Append(t3, e)
    BY <1>1, <2>1, <2>2, <2>3
  <2>8. t \in Seq(Tok) /\ Len(t) = Len(t3) + 1 /\ t[Len(t3) + 1] = e /\ \A n \in 1..Len(t3) : t[n] = t3[n]
    BY <2>6, <2>7, AppendProperties
  <2> QED BY <1>2, <2>4, <2>5, <2>6, <2>8
<1>4. Len(t) = 4 * (i + 1) - 2
  BY <1>2, <1>3
<1>5. ASSUME NEW k \in 1..i + 1
      PROVE  t[4 * k - 3] = WordOf(condition[k]) /\ t[4 * k - 2] = OperatorOf(condition[k])
  <2>1. CASE k <= i
    <3>1. k \in 1..i /\ 4 * k - 3 \in 1..Len(ts) /\ 4 * k - 2 \in 1..Len(ts)
      BY <1>2, <2>1
    <3>2. ts[4 * k - 3] = WordOf(condition[k]) /\ ts[4 * k - 2] = OperatorOf(condition[k])
      BY <3>1 DEF Has
    <3> QED BY <1>3, <3>1, <3>2
  <2>2. CASE k = i + 1
    <3>1. 4 * k - 3 = Len(ts) + 3 /\ 4 * k - 2 = Len(ts) + 4
      BY <1>2, <2>2
    <3> QED BY <1>3, <2>2, <3>1
  <2> QED BY <2>1, <2>2
<1>6. ASSUME NEW k \in 1..i
      PROVE  t[4 * k - 1] = StringOf(condition[k]) /\ t[4 * k] = AndToken
  <2>1. CASE k < i
    <3>1. k \in 1..i - 1 /\ 4 * k - 1 \in 1..Len(ts) /\ 4 * k \in 1..Len(ts)
      BY <1>2, <2>1
    <3>2. ts[4 * k - 1] = StringOf(condition[k]) /\ ts[4 * k] = AndToken
      BY <3>1 DEF Has
    <3> QED BY <1>3, <3>1, <3>2
  <2>2. CASE k = i
    <3>1. 4 * k - 1 = Len(ts) + 1 /\ 4 * k = Len(ts) + 2
      BY <1>2, <2>2
    <3> QED BY <1>3, <2>2, <3>1
  <2> QED BY <2>1, <2>2
<1>7. (i + 1) - 1 = i
  OBVIOUS
<1>8. Has(t, condition, i + 1)
  BY <1>4, <1>5, <1>6, <1>7 DEF Has
<1> QED BY <1>1, <1>3, <1>8

\* Nothing is read yet.
Start == Reading("between", <<>>, <<>>)

\* What Condition.__str__ writes is read as the tokens of its comparisons.
LEMMA ReadsCondition ==
    ASSUME NEW condition, NEW allowed, condition \in Seq({condition[i] : i \in DOMAIN condition}),
           \A i \in DOMAIN condition : Writable(condition[i], allowed),
           Len(condition) > 0
    PROVE  \E Tok : \E ts \in Seq(Tok) :
               /\ Has(ts, condition, Len(condition))
               /\ StringOf(condition[Len(condition)]) \in Tok
               /\ Reads(Start, ConditionText(condition)) =
                     Reading("ended", condition[Len(condition)].value, ts)
<1>1. PICK N : N = Len(condition)
  OBVIOUS
<1>2. N \in Nat /\ N > 0 /\ DOMAIN condition = 1..N
  BY <1>1, LenProperties
<1>3. PICK g : g = [i \in 1..N |-> ComparisonText(condition[i])]
  OBVIOUS
<1>4. \A i \in 1..N : Writable(condition[i], allowed)
  BY <1>2
<1>5. \A i \in 1..N : /\ g[i] \in Seq(Atoms)
                      /\ \A w, ts : Reads(Reading("between", w, ts), g[i]) =
                            Reading("ended", condition[i].value,
                                    Append(Append(ts, WordOf(condition[i])), OperatorOf(condition[i])))
  BY <1>3, <1>4, ReadsComparison
<1>6. PICK q : q = <<Blank, "AND", Blank>>
  OBVIOUS
<1>7. q \in Seq(Atoms)
  <2>1. Blank \in Atoms /\ "AND" \in Atoms
    BY AtomsAssumption DEF Marks, KEYWORDS
  <2> QED BY <1>6, <2>1
<1>8. PICK s : s = [i \in 1..N |-> IF i = 1 THEN g[i] ELSE q \o g[i]]
  OBVIOUS
<1>9. /\ s \in Seq(Seq(Atoms)) /\ Len(s) = N /\ s[1] = g[1]
      /\ \A i \in 2..N : s[i] = q \o g[i]
  <2>1. ASSUME NEW i \in 1..N PROVE q \o g[i] \in Seq(Atoms)
    BY <1>5, <1>7, ConcatProperties
  <2>2. \A i \in 1..N : s[i] = IF i = 1 THEN g[i] ELSE q \o g[i]
    BY <1>8
  <2>3. 1 \in 1..N /\ \A i \in 2..N : i \in 1..N /\ i # 1
    BY <1>2
  <2>4. s[1] = g[1] /\ \A i \in 2..N : s[i] = q \o g[i]
    BY <2>2, <2>3
  <2>5. \A i \in 1..N : s[i] \in Seq(Atoms)
    <3> SUFFICES ASSUME NEW i \in 1..N PROVE s[i] \in Seq(Atoms)
      OBVIOUS
    <3>1. CASE i = 1
      BY <1>5, <2>4, <3>1
    <3>2. CASE i # 1
      <4>1. s[i] = q \o g[i]
        BY <2>2, <3>2
      <4> QED BY <2>1, <4>1
    <3> QED BY <3>1, <3>2
  <2>6. s \in [1..N -> Seq(Atoms)]
    BY <1>8, <2>5
  <2>7. s \in Seq(Seq(Atoms)) /\ Len(s) = N
    BY <1>2, <2>6
  <2> QED BY <2>4, <2>7
<1>10. ConditionText(condition) = FlattenSeq(s)
  <2>1. DOMAIN g = 1..N
    BY <1>3
  <2>2. ConditionText(condition) = Joined(g)
    BY <1>2, <1>3 DEF ConditionText
  <2> QED BY <1>6, <1>8, <2>1, <2>2 DEF Joined
<1>11. PICK d : /\ d[0] = <<>> /\ FlattenSeq(s) = d[Len(s)]
                /\ \A i \in 1..Len(s) : d[i] = d[i - 1] \o s[i]
                /\ \A i \in 0..Len(s) : d[i] \in Seq(Atoms)
  BY <1>9, FlattenIs
<1>12. PICK Tok : Tok = {WordOf(condition[i]) : i \in 1..N} \cup {OperatorOf(condition[i]) : i \in 1..N}
                        \cup {StringOf(condition[i]) : i \in 1..N} \cup {AndToken}
  OBVIOUS
<1>13. AndToken \in Tok /\ \A i \in 1..N : /\ WordOf(condition[i]) \in Tok
                                          /\ OperatorOf(condition[i]) \in Tok
                                          /\ StringOf(condition[i]) \in Tok
  BY <1>12
<1> DEFINE Claim(i) == \E ts \in Seq(Tok) : /\ Has(ts, condition, i)
                                           /\ Reads(Start, d[i]) = Reading("ended", condition[i].value, ts)
           T == {i \in 0..N : i # 0 => Claim(i)}
<1>14. Claim(1)
  <2>1. PICK ts : ts = Append(Append(<<>>, WordOf(condition[1])), OperatorOf(condition[1]))
    OBVIOUS
  <2>2. /\ ts \in Seq(Tok) /\ Len(ts) = 2 /\ ts[1] = WordOf(condition[1])
        /\ ts[2] = OperatorOf(condition[1])
    BY <1>2, <1>13, <2>1
  <2>3. Has(ts, condition, 1)
    BY <2>2 DEF Has
  <2>4. d[1] = g[1]
    <3>1. 1 \in 1..N /\ 1 - 1 = 0
      BY <1>2
    <3>2. d[1] = <<>> \o g[1] /\ g[1] \in Seq(Atoms)
      BY <1>5, <1>9, <1>11, <3>1
    <3> QED BY <3>2, ConcatEmptySeq
  <2>5. Reads(Start, d[1]) = Reading("ended", condition[1].value, ts)
    <3>1. 1 \in 1..N
      BY <1>2
    <3>2. Reads(Reading("between", <<>>, <<>>), g[1]) =
              Reading("ended", condition[1].value,
                      Append(Append(<<>>, WordOf(condition[1])), OperatorOf(condition[1])))
      BY <1>5, <3>1
    <3> QED BY <2>1, <2>4, <3>2 DEF Start
  <2> QED BY <2>2, <2>3, <2>5
<1>15. ASSUME NEW n \in 1..N - 1, Claim(n) PROVE Claim(n + 1)
  <2>1. PICK ts \in Seq(Tok) : /\ Has(ts, condition, n)
                               /\ Reads(Start, d[n]) = Reading("ended", condition[n].value, ts)
    BY <1>15
  <2>2. /\ n + 1 \in 2..N /\ n + 1 \in 1..N /\ (n + 1) - 1 = n /\ n \in 0..N /\ n \in 1..N
        /\ n \in Nat \ {0}
    BY <1>2
  <2>3. PICK a, b, c, e : /\ a = StringOf(condition[n]) /\ b = AndToken
                          /\ c = WordOf(condition[n + 1]) /\ e = OperatorOf(condition[n + 1])
    OBVIOUS
  <2>4. PICK t : t = Append(Append(Append(Append(ts, a), b), c), e)
    OBVIOUS
  <2>5. t \in Seq(Tok) /\ Has(t, condition, n + 1)
    <3>1. a \in Tok /\ b \in Tok /\ c \in Tok /\ e \in Tok
      BY <1>13, <2>2, <2>3
    <3> QED BY <2>1, <2>2, <2>3, <2>4, <3>1, HasMore
  <2>6. /\ d[n + 1] = d[n] \o (q \o g[n + 1]) /\ d[n] \in Seq(Atoms)
        /\ g[n + 1] \in Seq(Atoms) /\ q \o g[n + 1] \in Seq(Atoms)
    <3>1. d[n + 1] = d[n] \o s[n + 1] /\ s[n + 1] = q \o g[n + 1] /\ d[n] \in Seq(Atoms)
      BY <1>9, <1>11, <2>2
    <3>2. g[n + 1] \in Seq(Atoms)
      BY <1>5, <2>2
    <3> QED BY <1>7, <3>1, <3>2, ConcatProperties
  <2>7. PICK r1 : r1 = Reading("ended", condition[n].value, ts)
    OBVIOUS
  <2>8. Reads(Start, d[n + 1]) = Reads(r1, q \o g[n + 1])
    <3>1. PICK x, y : x = d[n] /\ y = q \o g[n + 1]
      OBVIOUS
    <3>2. x \in Seq(Atoms) /\ y \in Seq(Atoms)
      BY <2>6, <3>1
    <3>3. Reads(Start, x \o y) = Reads(Reads(Start, x), y)
      BY <3>2, ReadsConcat
    <3> QED BY <2>1, <2>6, <2>7, <3>1, <3>3
  <2>9. Reads(r1, q \o g[n + 1]) = Reads(Reads(r1, q), g[n + 1])
    <3>1. PICK y : y = g[n + 1]
      OBVIOUS
    <3>2. y \in Seq(Atoms)
      BY <2>6, <3>1
    <3>3. Reads(r1, q \o y) = Reads(Reads(r1, q), y)
      BY <1>7, <3>2, ReadsConcat
    <3> QED BY <3>1, <3>3
  <2>10. Reads(r1, q) = Reading("between", <<>>, Append(Append(ts, a), b))
    BY <1>6, <2>3, <2>7, ReadsAnd DEF StringOf
  <2>11. Reads(Reads(r1, q), g[n + 1]) = Reading("ended", condition[n + 1].value, t)
    BY <1>5, <2>2, <2>3, <2>4, <2>10
  <2> QED BY <2>5, <2>8, <2>9, <2>11
<1> HIDE DEF Claim
<1>16. 0 \in T
  BY <1>2
<1>17. \A n \in 0..N - 1 : n \in T => n + 1 \in T
  <2> SUFFICES ASSUME NEW n \in 0..N - 1, n \in T PROVE n + 1 \in T
    OBVIOUS
  <2>1. n + 1 \in 0..N
    BY <1>2
  <2>2. CASE n = 0
    BY <1>14, <2>1, <2>2
  <2>3. CASE n # 0
    <3>1. n \in 1..N - 1 /\ Claim(n)
      BY <1>2, <2>3
    <3>2. Claim(n + 1)
      BY <1>15, <3>1
    <3> QED BY <2>1, <3>2
  <2> QED BY <2>2, <2>3
<1>18. \A n \in 0..N : n \in T
  <2> HIDE DEF T
  <2> QED BY <1>2, <1>16, <1>17, UpTo
<1>19. Claim(N)
  BY <1>2, <1>18
<1>20. PICK ts \in Seq(Tok) : /\ Has(ts, condition, N)
                              /\ Reads(Start, d[N]) = Reading("ended", condition[N].value, ts)
  BY <1>19 DEF Claim
<1>21. ConditionText(condition) = d[N]
  BY <1>9, <1>10, <1>11
<1>22. StringOf(condition[N]) \in Tok
  BY <1>2, <1>13
<1> QED BY <1>1, <1>20, <1>21, <1>22

\* A condition that compares nothing is written as nothing.
LEMMA EmptyIsRead ==
    ASSUME NEW allowed PROVE ConditionText(<<>>) = <<>> /\ Parse(<<>>, allowed) = {<<>>}
<1>1. ConditionText(<<>>) = <<>>
  <2>1. PICK g : g = [i \in DOMAIN <<>> |-> ComparisonText(<<>>[i])]
    OBVIOUS
  <2>2. g = <<>>
    BY <2>1
  <2>3. Joined(<<>>) = <<>>
    <3>1. [i \in DOMAIN <<>> |-> IF i = 1 THEN <<>>[i] ELSE <<Blank, "AND", Blank>> \o <<>>[i]] = <<>>
      OBVIOUS
    <3>2. FlattenSeq(<<>>) = <<>>
      BY DEF FlattenSeq
    <3> QED BY <3>1, <3>2 DEF Joined
  <2> QED BY <2>1, <2>2, <2>3 DEF ConditionText
<1>2. Tokens(<<>>) = {<<>>}
  <2>1. Reads(Reading("between", <<>>, <<>>), <<>>) = Reading("between", <<>>, <<>>)
    BY ReadsNone
  <2> QED BY <2>1 DEF Tokens, Reading
<1>3. IsCondition(<<>>, allowed)
  BY DEF IsCondition
<1>4. [k \in 1..(Len(<<>>) + 1) \div 4 |-> ComparisonOf(<<>>[4 * k - 3], <<>>[4 * k - 2], <<>>[4 * k - 1])]
          = <<>>
  OBVIOUS
<1>5. Parse(<<>>, allowed) = {<<>>}
  BY <1>2, <1>3, <1>4 DEF Parse
<1> QED BY <1>1, <1>5

\* A condition that is written is parsed as itself, and as an empty filter only when it compares
\* nothing.
LEMMA WrittenIsRead ==
    ASSUME NEW condition, NEW allowed, condition \in Seq({condition[i] : i \in DOMAIN condition}),
           \A i \in DOMAIN condition : Writable(condition[i], allowed)
    PROVE  /\ Parse(ConditionText(condition), allowed) = {condition}
           /\ Parse(ConditionText(condition), {}) # {} <=> condition = <<>>
<1>1. PICK N : N = Len(condition)
  OBVIOUS
<1>2. N \in Nat /\ DOMAIN condition = 1..N
  BY <1>1, LenProperties
<1>3. CASE N = 0
  <2>1. condition = <<>>
    BY <1>1, <1>3, EmptySeq
  <2> QED BY <2>1, EmptyIsRead
<1>4. CASE N # 0
  <2>1. N > 0 /\ \A i \in 1..N : Writable(condition[i], allowed)
    BY <1>2, <1>4
  <2>2. PICK Tok : \E ts \in Seq(Tok) :
            /\ Has(ts, condition, N) /\ StringOf(condition[N]) \in Tok
            /\ Reads(Start, ConditionText(condition)) = Reading("ended", condition[N].value, ts)
    BY <1>1, <2>1, ReadsCondition
  <2>3. PICK ts \in Seq(Tok) :
            /\ Has(ts, condition, N) /\ StringOf(condition[N]) \in Tok
            /\ Reads(Start, ConditionText(condition)) = Reading("ended", condition[N].value, ts)
    BY <2>2
  <2>4. PICK t : t = Append(ts, StringOf(condition[N]))
    OBVIOUS
  <2>5. Tokens(ConditionText(condition)) = {t}
    <3>1. PICK r : r = Reading("ended", condition[N].value, ts)
      OBVIOUS
    <3>2. r.mode = "ended" /\ r.value = condition[N].value /\ r.tokens = ts
      BY <3>1 DEF Reading
    <3>3. Reads(Reading("between", <<>>, <<>>), ConditionText(condition)) = r
      BY <2>3, <3>1 DEF Start
    <3> QED BY <2>4, <3>2, <3>3 DEF Tokens, StringOf
  <2>6. /\ Len(ts) = 4 * N - 2 /\ Len(t) = 4 * N - 1
        /\ t[4 * N - 1] = StringOf(condition[N]) /\ \A n \in 1..4 * N - 2 : t[n] = ts[n]
    <3>1. Len(ts) = 4 * N - 2
      BY <2>3 DEF Has
    <3>2. Len(t) = Len(ts) + 1 /\ t[Len(ts) + 1] = StringOf(condition[N]) /\ \A n \in 1..Len(ts) : t[n] = ts[n]
      BY <2>3, <2>4, AppendProperties
    <3> QED BY <1>2, <3>1, <3>2
  <2>7. \A k \in 1..N : /\ t[4 * k - 3] = WordOf(condition[k]) /\ t[4 * k - 2] = OperatorOf(condition[k])
                        /\ t[4 * k - 1] = StringOf(condition[k])
    <3> SUFFICES ASSUME NEW k \in 1..N
                 PROVE  /\ t[4 * k - 3] = WordOf(condition[k]) /\ t[4 * k - 2] = OperatorOf(condition[k])
                        /\ t[4 * k - 1] = StringOf(condition[k])
      OBVIOUS
    <3>1. 4 * k - 3 \in 1..4 * N - 2 /\ 4 * k - 2 \in 1..4 * N - 2
      BY <1>2
    <3>2. t[4 * k - 3] = WordOf(condition[k]) /\ t[4 * k - 2] = OperatorOf(condition[k])
      BY <2>3, <2>6, <3>1 DEF Has
    <3>3. t[4 * k - 1] = StringOf(condition[k])
      <4>1. CASE k = N
        BY <2>6, <4>1
      <4>2. CASE k # N
        <5>1. k \in 1..N - 1 /\ 4 * k - 1 \in 1..4 * N - 2
          BY <1>2, <4>2
        <5> QED BY <2>3, <2>6, <5>1 DEF Has
      <4> QED BY <4>1, <4>2
    <3> QED BY <3>2, <3>3
  <2>8. \A k \in 1..N - 1 : t[4 * k] = AndToken
    <3> SUFFICES ASSUME NEW k \in 1..N - 1 PROVE t[4 * k] = AndToken
      OBVIOUS
    <3>1. 4 * k \in 1..4 * N - 2
      BY <1>2
    <3> QED BY <2>3, <2>6, <3>1 DEF Has
  <2>9. (Len(t) + 1) \div 4 = N /\ Len(t) + 1 = 4 * N
    BY <1>2, <2>6
  <2>10. ASSUME NEW k \in 1..N
         PROVE  /\ ComparisonOf(t[4 * k - 3], t[4 * k - 2], t[4 * k - 1]) = condition[k]
                /\ IsComparison(t[4 * k - 3], t[4 * k - 2], t[4 * k - 1], allowed)
    <3>1. PICK c : c = condition[k]
      OBVIOUS
    <3>2. /\ c = Comparison(c.property, c.operator, c.value)
          /\ c.property \in allowed /\ Upper(c.property) \notin KEYWORDS
          /\ c.operator \in {"=", "LIKE"} /\ (c.operator = "LIKE" => WellFormed(c.value))
      BY <2>1, <3>1 DEF Writable
    <3>3. ComparisonOf(WordOf(c), OperatorOf(c), StringOf(c)) = c
      <4>1. CASE c.operator = "="
        <5>1. ComparisonOf(WordOf(c), OperatorOf(c), StringOf(c)) = Comparison(c.property, c.operator, c.value)
          BY <4>1 DEF ComparisonOf, WordOf, OperatorOf, StringOf, Token
        <5> QED BY <3>2, <5>1
      <4>2. CASE c.operator = "LIKE"
        <5>1. ComparisonOf(WordOf(c), OperatorOf(c), StringOf(c)) = Comparison(c.property, c.operator, c.value)
          BY <4>2 DEF ComparisonOf, WordOf, OperatorOf, StringOf, Token
        <5> QED BY <3>2, <5>1
      <4> QED BY <3>2, <4>1, <4>2
    <3>4. IsComparison(WordOf(c), OperatorOf(c), StringOf(c), allowed)
      <4>1. Upper("LIKE") = "LIKE"
        BY DEF Upper
      <4>2. CASE c.operator = "="
        BY <3>2, <4>2 DEF IsComparison, WordOf, OperatorOf, StringOf, Token
      <4>3. CASE c.operator = "LIKE"
        BY <3>2, <4>1, <4>3 DEF IsComparison, WordOf, OperatorOf, StringOf, Token
      <4> QED BY <3>2, <4>2, <4>3
    <3> QED BY <2>7, <3>1, <3>3, <3>4
  <2>11. IsCondition(t, allowed)
    <3>1. Upper("AND") = "AND"
      BY DEF Upper
    <3>2. \A k \in 1..N - 1 : t[4 * k].kind = "word" /\ Upper(t[4 * k].text) = "AND"
      BY <2>8, <3>1 DEF AndToken, Token
    <3> QED BY <2>9, <2>10, <3>2 DEF IsCondition
  <2>12. [k \in 1..(Len(t) + 1) \div 4 |-> ComparisonOf(t[4 * k - 3], t[4 * k - 2], t[4 * k - 1])] = condition
    <3>1. condition = [k \in 1..N |-> condition[k]]
      BY <1>2
    <3> QED BY <2>9, <2>10, <3>1
  <2>13. Parse(ConditionText(condition), allowed) = {condition}
    BY <2>5, <2>11, <2>12 DEF Parse
  <2>14. ~IsCondition(t, {})
    <3>1. 1 \in 1..N
      BY <1>2, <2>1
    <3>2. ~IsComparison(t[4 * 1 - 3], t[4 * 1 - 2], t[4 * 1 - 1], {})
      BY DEF IsComparison
    <3> QED BY <2>9, <3>1, <3>2 DEF IsCondition
  <2>15. Parse(ConditionText(condition), {}) = {}
    BY <2>5, <2>14 DEF Parse
  <2>16. condition # <<>>
    BY <1>1, <1>4
  <2> QED BY <2>13, <2>15, <2>16
<1> QED BY <1>3, <1>4
-----------------------------------------------------------------------------
(* LIKE patterns *)

\* What was read of a pattern.
LikeRead(parts, escaped) == [parts |-> parts, escaped |-> escaped]

\* What was read after each atom of a pattern.
RegexFrom(pattern) ==
    CHOOSE read : read = [i \in 0..Len(pattern) |->
                             IF i = 0 THEN [parts |-> <<>>, escaped |-> FALSE]
                             ELSE LikeAtom(read[i - 1], pattern[i])]

\* LikeRegex is what was read after the last atom.
LEMMA LikeRegexIs == ASSUME NEW p PROVE LikeRegex(p) = RegexFrom(p)[Len(p)]
BY DEF LikeRegex, RegexFrom

\* The function that LikeRegex is defined by exists.
LEMMA RegexFromIs ==
    ASSUME NEW A, NEW text \in Seq(A)
    PROVE  /\ RegexFrom(text)[0] = LikeRead(<<>>, FALSE)
           /\ \A i \in 1..Len(text) : RegexFrom(text)[i] = LikeAtom(RegexFrom(text)[i - 1], text[i])
<1>0. PICK r : r = [parts |-> <<>>, escaped |-> FALSE]
  OBVIOUS
<1> DEFINE Is(g, n) == g = [i \in 0..n |-> IF i = 0 THEN r ELSE LikeAtom(g[i - 1], text[i])]
           T == {n \in 0..Len(text) : \E g : Is(g, n)}
<1>1. Is([i \in 0..0 |-> r], 0)
  OBVIOUS
<1>2. ASSUME NEW n \in 0..Len(text) - 1, NEW g, Is(g, n) PROVE \E h : Is(h, n + 1)
  <2> DEFINE h == [i \in 0..n + 1 |-> IF i <= n THEN g[i] ELSE LikeAtom(g[n], text[n + 1])]
  <2>1. \A i \in 0..n + 1 : h[i] = IF i = 0 THEN r ELSE LikeAtom(h[i - 1], text[i])
    BY <1>2
  <2>2. Is(h, n + 1)
    BY <2>1
  <2> HIDE DEF h, Is
  <2> QED BY <2>2
<1> HIDE DEF Is
<1>3. Len(text) \in Nat /\ 0 \in 0..Len(text) /\ \A n \in 0..Len(text) - 1 : n + 1 \in 0..Len(text) /\ n \in 0..Len(text)
  BY LenProperties
<1>4. 0 \in T
  BY <1>1, <1>3
<1>5. \A n \in 0..Len(text) - 1 : n \in T => n + 1 \in T
  BY <1>2, <1>3
<1>6. \A n \in 0..Len(text) : n \in T
  <2> HIDE DEF T
  <2> QED BY <1>3, <1>4, <1>5, UpTo
<1>7. Len(text) \in 0..Len(text)
  BY <1>3
<1>8. \E g : Is(g, Len(text))
  BY <1>6, <1>7
<1>9. Is(RegexFrom(text), Len(text))
  BY <1>0, <1>8 DEF RegexFrom, Is
<1>10. PICK f : f = RegexFrom(text)
  OBVIOUS
<1>11. \A i \in 0..Len(text) : f[i] = IF i = 0 THEN r ELSE LikeAtom(f[i - 1], text[i])
  BY <1>9, <1>10 DEF Is
<1>12. \A i \in 1..Len(text) : f[i] = LikeAtom(f[i - 1], text[i])
  <2>1. \A i \in 1..Len(text) : i \in 0..Len(text) /\ i # 0
    BY <1>3
  <2> QED BY <1>11, <2>1
<1>13. f[0] = r
  BY <1>3, <1>11
<1>14. r = LikeRead(<<>>, FALSE)
  BY <1>0 DEF LikeRead
<1> QED BY <1>10, <1>12, <1>13, <1>14

\* A pattern is read one atom further.
LEMMA LikeGrows ==
    ASSUME NEW A, NEW p \in Seq(A), NEW c \in A
    PROVE  /\ LikeRegex(<<>>) = LikeRead(<<>>, FALSE)
           /\ LikeRegex(Append(p, c)) = LikeAtom(LikeRegex(p), c)
<1>1. PICK q, e : q = Append(p, c) /\ e = <<>>
  OBVIOUS
<1>2. /\ Len(p) \in Nat /\ q \in Seq(A) /\ Len(q) = Len(p) + 1 /\ q[Len(q)] = c
      /\ \A i \in 1..Len(p) : q[i] = p[i]
  BY <1>1, AppendProperties
<1>3. e \in Seq(A) /\ Len(e) = 0
  BY <1>1
<1>4. LikeRegex(e) = LikeRead(<<>>, FALSE)
  BY <1>3, LikeRegexIs, RegexFromIs
<1>5. PICK f, g : f = RegexFrom(p) /\ g = RegexFrom(q)
  OBVIOUS
<1>6. f[0] = LikeRead(<<>>, FALSE) /\ \A i \in 1..Len(p) : f[i] = LikeAtom(f[i - 1], p[i])
  BY <1>5, RegexFromIs
<1>7. g[0] = LikeRead(<<>>, FALSE) /\ \A i \in 1..Len(q) : g[i] = LikeAtom(g[i - 1], q[i])
  BY <1>2, <1>5, RegexFromIs
<1> DEFINE T == {i \in 0..Len(p) : g[i] = f[i]}
<1>8. 0 \in T
  <2>1. 0 \in 0..Len(p) /\ g[0] = f[0]
    BY <1>2, <1>6, <1>7
  <2> QED BY <2>1
<1>9. \A n \in 0..Len(p) - 1 : n \in T => n + 1 \in T
  <2> SUFFICES ASSUME NEW n \in 0..Len(p) - 1, n \in T PROVE n + 1 \in T
    OBVIOUS
  <2>1. n + 1 \in 1..Len(p) /\ n + 1 \in 1..Len(q) /\ (n + 1) - 1 = n /\ n + 1 \in 0..Len(p)
    BY <1>2
  <2>2. /\ g[n + 1] = LikeAtom(g[n], q[n + 1]) /\ f[n + 1] = LikeAtom(f[n], p[n + 1])
        /\ q[n + 1] = p[n + 1] /\ g[n] = f[n]
    BY <1>2, <1>6, <1>7, <2>1
  <2> QED BY <2>1, <2>2
<1>10. \A n \in 0..Len(p) : n \in T
  <2> HIDE DEF T
  <2> QED BY <1>2, <1>8, <1>9, UpTo
<1>11. Len(q) \in 1..Len(q) /\ Len(q) - 1 = Len(p) /\ Len(p) \in 0..Len(p)
  BY <1>2
<1>12. g[Len(q)] = LikeAtom(g[Len(p)], q[Len(q)]) /\ g[Len(p)] = f[Len(p)]
  BY <1>7, <1>10, <1>11
<1> QED BY <1>1, <1>2, <1>4, <1>5, <1>12, LikeRegexIs

\* What an atom is in a pattern.
LEMMA LikeAtomsAre ==
    ASSUME NEW parts, NEW c
    PROVE  /\ LikeAtom(LikeRead(parts, FALSE), "%") = LikeRead(Append(parts, Part("any", "%")), FALSE)
           /\ LikeAtom(LikeRead(parts, FALSE), Escape) = LikeRead(parts, TRUE)
           /\ LikeAtom(LikeRead(parts, TRUE), c) = LikeRead(Append(parts, Part("char", c)), FALSE)
           /\ c \notin {"%", "_", Escape} =>
                 LikeAtom(LikeRead(parts, FALSE), c) = LikeRead(Append(parts, Part("char", c)), FALSE)
<1> USE DEF LikeAtom, LikeRead, Part, Escape
<1>1. LikeAtom(LikeRead(parts, FALSE), "%") = LikeRead(Append(parts, Part("any", "%")), FALSE)
  OBVIOUS
<1>2. LikeAtom(LikeRead(parts, FALSE), Escape) = LikeRead(parts, TRUE)
  OBVIOUS
<1>3. LikeAtom(LikeRead(parts, TRUE), c) = LikeRead(Append(parts, Part("char", c)), FALSE)
  OBVIOUS
<1>4. ASSUME c \notin {"%", "_", Escape}
      PROVE  LikeAtom(LikeRead(parts, FALSE), c) = LikeRead(Append(parts, Part("char", c)), FALSE)
  BY <1>4
<1> QED BY ONLY <1>1, <1>2, <1>3, <1>4

\* The characters of a text, as parts.
IsChars(parts, n, v, m) == \A k \in 1..m : parts[n + k] = Part("char", v[k])

\* An escaped text is read as its characters, after what was read before it.
LEMMA LikeEscaped ==
    ASSUME NEW v \in Seq(Atoms), NEW p \in Seq(Atoms), NEW P, NEW ps \in Seq(P),
           \A k \in 1..Len(v) : Part("char", v[k]) \in P,
           LikeRegex(p) = LikeRead(ps, FALSE)
    PROVE  /\ Escaped(v) \in Seq(Atoms)
           /\ \E q \in Seq(P) :
                 /\ LikeRegex(p \o Escaped(v)) = LikeRead(q, FALSE)
                 /\ Len(q) = Len(ps) + Len(v)
                 /\ \A k \in 1..Len(ps) : q[k] = ps[k]
                 /\ IsChars(q, Len(ps), v, Len(v))
<1>1. PICK s : s = [i \in DOMAIN v |-> IF v[i] \in {"%", "_", Escape} THEN <<Escape, v[i]>> ELSE <<v[i]>>]
  OBVIOUS
<1>2. /\ Len(v) \in Nat /\ Len(ps) \in Nat /\ DOMAIN v = 1..Len(v) /\ \A i \in 1..Len(v) : v[i] \in Atoms
  BY LenProperties, ElementOfSeq
<1>3. Escape \in Atoms
  BY AtomsAssumption DEF Marks
<1>4. /\ s \in Seq(Seq(Atoms)) /\ Len(s) = Len(v)
      /\ \A i \in 1..Len(v) : /\ v[i] \in {"%", "_", Escape} => s[i] = <<Escape, v[i]>>
                              /\ v[i] \notin {"%", "_", Escape} => s[i] = <<v[i]>>
  <2>1. \A i \in 1..Len(v) : <<Escape, v[i]>> \in Seq(Atoms) /\ <<v[i]>> \in Seq(Atoms)
    BY <1>2, <1>3
  <2>2. \A i \in 1..Len(v) : s[i] = IF v[i] \in {"%", "_", Escape} THEN <<Escape, v[i]>> ELSE <<v[i]>>
    BY <1>1, <1>2
  <2>3. \A i \in 1..Len(v) : s[i] \in Seq(Atoms)
    BY <2>1, <2>2
  <2>4. s \in [1..Len(v) -> Seq(Atoms)]
    BY <1>1, <1>2, <2>3
  <2>5. s \in Seq(Seq(Atoms)) /\ Len(s) = Len(v)
    BY <1>2, <2>4
  <2> QED BY <2>2, <2>5
<1>13. Len(s) = Len(v)
  BY <1>4
<1>5. PICK d : /\ d[0] = <<>> /\ FlattenSeq(s) = d[Len(s)]
               /\ \A i \in 1..Len(s) : d[i] = d[i - 1] \o s[i]
               /\ \A i \in 0..Len(s) : d[i] \in Seq(Atoms)
  BY <1>4, FlattenIs
<1>6. Escaped(v) = d[Len(v)] /\ Escaped(v) \in Seq(Atoms)
  <2>1. Escaped(v) = FlattenSeq(s)
    BY <1>1 DEF Escaped
  <2>2. Len(s) \in 0..Len(s)
    BY <1>2, <1>13
  <2>3. d[Len(s)] \in Seq(Atoms) /\ FlattenSeq(s) = d[Len(s)]
    BY <1>5, <2>2
  <2> QED BY <1>13, <2>1, <2>3
<1> DEFINE Claim(n) == \E q \in Seq(P) : /\ LikeRegex(p \o d[n]) = LikeRead(q, FALSE)
                                         /\ Len(q) = Len(ps) + n
                                         /\ \A k \in 1..Len(ps) : q[k] = ps[k]
                                         /\ IsChars(q, Len(ps), v, n)
           T == {n \in 0..Len(v) : Claim(n)}
<1>7. Claim(0)
  <2>1. p \o d[0] = p
    BY <1>5, ConcatEmptySeq
  <2>2. IsChars(ps, Len(ps), v, 0)
    BY DEF IsChars
  <2>3. LikeRegex(p \o d[0]) = LikeRead(ps, FALSE)
    BY <2>1
  <2>4. Len(ps) = Len(ps) + 0 /\ \A k \in 1..Len(ps) : ps[k] = ps[k]
    BY <1>2
  <2> QED BY <2>2, <2>3, <2>4
<1>8. ASSUME NEW n \in 0..Len(v) - 1, Claim(n) PROVE Claim(n + 1)
  <2>1. PICK q \in Seq(P) : /\ LikeRegex(p \o d[n]) = LikeRead(q, FALSE)
                            /\ Len(q) = Len(ps) + n
                            /\ \A k \in 1..Len(ps) : q[k] = ps[k]
                            /\ IsChars(q, Len(ps), v, n)
    BY <1>8
  <2>2. n + 1 \in 1..Len(v) /\ (n + 1) - 1 = n /\ n \in 0..Len(s) /\ n + 1 \in 1..Len(s)
    BY <1>2, <1>13
  <2>3. PICK c, x : c = v[n + 1] /\ x = p \o d[n]
    OBVIOUS
  <2>4. c \in Atoms /\ d[n] \in Seq(Atoms) /\ x \in Seq(Atoms)
    BY <1>2, <1>5, <2>2, <2>3, ConcatProperties
  <2>5. d[n + 1] = d[n] \o s[n + 1]
    BY <1>5, <2>2
  <2>6. s[n + 1] \in Seq(Atoms)
    BY <1>4, <2>2, ElementOfSeq
  <2>7. p \o d[n + 1] = x \o s[n + 1]
    <3>1. PICK a, b : a = d[n] /\ b = s[n + 1]
      OBVIOUS
    <3>2. (p \o a) \o b = p \o (a \o b)
      <4>1. a \in Seq(Atoms) /\ b \in Seq(Atoms)
        BY <2>4, <2>6, <3>1
      <4> QED BY <4>1, ConcatAssociative
    <3> QED BY <2>3, <2>5, <3>1, <3>2
  <2>8. PICK pc : pc = Part("char", c)
    OBVIOUS
  <2>9. LikeRegex(p \o d[n + 1]) = LikeRead(Append(q, pc), FALSE)
    <3>0. LikeRegex(x) = LikeRead(q, FALSE)
      BY <2>1, <2>3
    <3>1. CASE c \in {"%", "_", Escape}
      <4>1. s[n + 1] = <<Escape, c>>
        BY <1>4, <2>2, <2>3, <3>1
      <4>2. PICK e : e = Escape
        OBVIOUS
      <4>3. PICK y : y = Append(x, e)
        OBVIOUS
      <4>4. e \in Atoms /\ y \in Seq(Atoms)
        BY <1>3, <2>4, <4>2, <4>3, AppendProperties
      <4>5. x \o <<e, c>> = Append(y, c)
        BY <2>4, <4>3, <4>4
      <4>6. LikeRegex(y) = LikeAtom(LikeRegex(x), e)
        BY <2>4, <4>3, <4>4, LikeGrows
      <4>7. LikeRegex(y) = LikeRead(q, TRUE)
        BY <3>0, <4>2, <4>6, LikeAtomsAre
      <4>8. LikeRegex(Append(y, c)) = LikeAtom(LikeRegex(y), c)
        BY <2>4, <4>4, LikeGrows
      <4>9. LikeAtom(LikeRead(q, TRUE), c) = LikeRead(Append(q, pc), FALSE)
        BY <2>8, LikeAtomsAre
      <4> QED BY <2>7, <4>1, <4>2, <4>5, <4>7, <4>8, <4>9
    <3>2. CASE c \notin {"%", "_", Escape}
      <4>1. s[n + 1] = <<c>>
        BY <1>4, <2>2, <2>3, <3>2
      <4>2. x \o <<c>> = Append(x, c)
        BY <2>4
      <4>3. LikeRegex(Append(x, c)) = LikeAtom(LikeRegex(x), c)
        BY <2>4, LikeGrows
      <4>4. LikeAtom(LikeRead(q, FALSE), c) = LikeRead(Append(q, pc), FALSE)
        BY <2>8, <3>2, LikeAtomsAre
      <4> QED BY <2>7, <3>0, <4>1, <4>2, <4>3, <4>4
    <3> QED BY <3>1, <3>2
  <2>10. PICK t : t = Append(q, pc)
    OBVIOUS
  <2>11. pc \in P
    BY <2>2, <2>3, <2>8
  <2>12. /\ t \in Seq(P) /\ Len(t) = Len(ps) + (n + 1) /\ t[Len(ps) + (n + 1)] = pc
         /\ \A k \in 1..Len(ps) + n : t[k] = q[k]
    <3>1. /\ t \in Seq(P) /\ Len(t) = Len(q) + 1 /\ t[Len(q) + 1] = pc
          /\ \A k \in 1..Len(q) : t[k] = q[k]
      BY <2>10, <2>11, AppendProperties
    <3>2. Len(q) + 1 = Len(ps) + (n + 1)
      BY <1>2, <2>1
    <3> QED BY <2>1, <3>1, <3>2
  <2>13. \A k \in 1..Len(ps) : t[k] = ps[k]
    <3>1. \A k \in 1..Len(ps) : k \in 1..Len(ps) + n
      BY <1>2
    <3> QED BY <2>1, <2>12, <3>1
  <2>14. IsChars(t, Len(ps), v, n + 1)
    <3> SUFFICES ASSUME NEW k \in 1..n + 1 PROVE t[Len(ps) + k] = Part("char", v[k])
      BY DEF IsChars
    <3>1. CASE k = n + 1
      BY <2>3, <2>8, <2>12, <3>1
    <3>2. CASE k # n + 1
      <4>1. k \in 1..n /\ Len(ps) + k \in 1..Len(ps) + n
        BY <1>2, <3>2
      <4> QED BY <2>1, <2>12, <4>1 DEF IsChars
    <3> QED BY <3>1, <3>2
  <2> QED BY <2>9, <2>10, <2>12, <2>13, <2>14
<1> HIDE DEF Claim
<1>9. 0 \in T
  BY <1>2, <1>7
<1>10. \A n \in 0..Len(v) - 1 : n \in T => n + 1 \in T
  <2>1. \A n \in 0..Len(v) - 1 : n + 1 \in 0..Len(v)
    BY <1>2
  <2> QED BY <1>8, <2>1
<1>11. \A n \in 0..Len(v) : n \in T
  <2> HIDE DEF T
  <2> QED BY <1>2, <1>9, <1>10, UpTo
<1>12. Claim(Len(v))
  <2>1. Len(v) \in 0..Len(v)
    BY <1>2
  <2> QED BY <1>11, <2>1
<1> QED BY <1>6, <1>12 DEF Claim

-----------------------------------------------------------------------------
(* Matching *)

\* How far a match has come after each part.
ReachedFrom(parts, text) ==
    CHOOSE reached : reached = [i \in 0..Len(parts) |->
                                   IF i = 0 THEN {0} ELSE Reach(parts[i], text, reached[i - 1])]

\* A match is full when it has come to the end of the text after the last part.
LEMMA FullMatchIs ==
    ASSUME NEW parts, NEW text
    PROVE  FullMatch(parts, text) <=> Len(text) \in ReachedFrom(parts, text)[Len(parts)]
BY DEF FullMatch, ReachedFrom

\* The function that FullMatch is defined by exists.
LEMMA ReachedFromIs ==
    ASSUME NEW A, NEW parts \in Seq(A), NEW text
    PROVE  /\ ReachedFrom(parts, text)[0] = {0}
           /\ \A i \in 1..Len(parts) :
                 ReachedFrom(parts, text)[i] = Reach(parts[i], text, ReachedFrom(parts, text)[i - 1])
<1>0. PICK r : r = {0}
  OBVIOUS
<1> DEFINE Is(g, n) == g = [i \in 0..n |-> IF i = 0 THEN r ELSE Reach(parts[i], text, g[i - 1])]
           T == {n \in 0..Len(parts) : \E g : Is(g, n)}
<1>1. Is([i \in 0..0 |-> r], 0)
  OBVIOUS
<1>2. ASSUME NEW n \in 0..Len(parts) - 1, NEW g, Is(g, n) PROVE \E h : Is(h, n + 1)
  <2> DEFINE h == [i \in 0..n + 1 |-> IF i <= n THEN g[i] ELSE Reach(parts[n + 1], text, g[n])]
  <2>1. \A i \in 0..n + 1 : h[i] = IF i = 0 THEN r ELSE Reach(parts[i], text, h[i - 1])
    BY <1>2
  <2>2. Is(h, n + 1)
    BY <2>1
  <2> HIDE DEF h, Is
  <2> QED BY <2>2
<1> HIDE DEF Is
<1>3. /\ Len(parts) \in Nat /\ 0 \in 0..Len(parts) /\ Len(parts) \in 0..Len(parts)
      /\ \A n \in 0..Len(parts) - 1 : n + 1 \in 0..Len(parts) /\ n \in 0..Len(parts)
  BY LenProperties
<1>4. 0 \in T
  BY <1>1, <1>3
<1>5. \A n \in 0..Len(parts) - 1 : n \in T => n + 1 \in T
  BY <1>2, <1>3
<1>6. \A n \in 0..Len(parts) : n \in T
  <2> HIDE DEF T
  <2> QED BY <1>3, <1>4, <1>5, UpTo
<1>8. \E g : Is(g, Len(parts))
  BY <1>3, <1>6
<1>9. Is(ReachedFrom(parts, text), Len(parts))
  BY <1>0, <1>8 DEF ReachedFrom, Is
<1>10. PICK f : f = ReachedFrom(parts, text)
  OBVIOUS
<1>11. \A i \in 0..Len(parts) : f[i] = IF i = 0 THEN r ELSE Reach(parts[i], text, f[i - 1])
  BY <1>9, <1>10 DEF Is
<1>12. \A i \in 1..Len(parts) : f[i] = Reach(parts[i], text, f[i - 1])
  <2>1. \A i \in 1..Len(parts) : i \in 0..Len(parts) /\ i # 0
    BY <1>3
  <2> QED BY <1>11, <2>1
<1>13. f[0] = r
  BY <1>3, <1>11
<1> QED BY <1>0, <1>10, <1>12, <1>13

\* Where the first n characters of v end in the text, having begun after a place in from.
Ends(from, v, text, n) ==
    {m \in n..Len(text) : m - n \in from /\ \A k \in 1..n : text[(m - n) + k] = v[k]}

\* The characters of a text match where they stand.
LEMMA CharsReach ==
    ASSUME NEW v \in Seq(Atoms), NEW text \in Seq(Atoms), NEW P, NEW parts \in Seq(P), NEW o \in Nat,
           o + Len(v) <= Len(parts), IsChars(parts, o, v, Len(v)),
           NEW f, \A i \in 1..Len(parts) : f[i] = Reach(parts[i], text, f[i - 1]),
           f[o] \subseteq 0..Len(text)
    PROVE  f[o + Len(v)] = Ends(f[o], v, text, Len(v))
<1>1. Len(v) \in Nat /\ Len(text) \in Nat /\ Len(parts) \in Nat
  BY LenProperties
<1> DEFINE T == {n \in 0..Len(v) : f[o + n] = Ends(f[o], v, text, n)}
<1>2. 0 \in T
  <2>1. o + 0 = o /\ \A m \in 0..Len(text) : m - 0 = m
    OBVIOUS
  <2>2. f[o] = Ends(f[o], v, text, 0)
    BY <1>1, <2>1 DEF Ends
  <2> QED BY <1>1, <2>1, <2>2
<1>3. ASSUME NEW n \in 0..Len(v) - 1, f[o + n] = Ends(f[o], v, text, n)
      PROVE  f[o + (n + 1)] = Ends(f[o], v, text, n + 1)
  <2>1. /\ n + 1 \in 1..Len(v) /\ o + (n + 1) \in 1..Len(parts) /\ (o + (n + 1)) - 1 = o + n
    BY <1>1
  <2>2. PICK b, c : b = f[o + n] /\ c = v[n + 1]
    OBVIOUS
  <2>3. parts[o + (n + 1)] = Part("char", c)
    BY <2>1, <2>2 DEF IsChars
  <2>4. f[o + (n + 1)] = Reach(Part("char", c), text, b)
    BY <2>1, <2>2, <2>3
  <2>5. Reach(Part("char", c), text, b) = {k \in 1..Len(text) : k - 1 \in b /\ c = text[k]}
    BY DEF Reach, Part
  <2>6. ASSUME NEW m \in 1..Len(text)
        PROVE  m - 1 \in b /\ c = text[m] <=> m \in Ends(f[o], v, text, n + 1)
    <3>1. PICK a : a = m - (n + 1)
      OBVIOUS
    <3>2. a = (m - 1) - n /\ a + (n + 1) = m /\ a \in Int
      BY <3>1
    <3>3. m - 1 \in b <=> m - 1 \in n..Len(text) /\ a \in f[o] /\ \A k \in 1..n : text[a + k] = v[k]
      BY <1>3, <2>2, <3>2 DEF Ends
    <3>4. m \in Ends(f[o], v, text, n + 1) <=>
              m \in n + 1..Len(text) /\ a \in f[o] /\ \A k \in 1..n + 1 : text[a + k] = v[k]
      BY <3>1 DEF Ends
    <3>5. m - 1 \in n..Len(text) <=> m \in n + 1..Len(text)
      BY <1>1
    <3>6. (\A k \in 1..n + 1 : text[a + k] = v[k]) <=> (\A k \in 1..n : text[a + k] = v[k]) /\ text[m] = c
      <4>1. \A k \in 1..n + 1 : k \in 1..n \/ k = n + 1
        OBVIOUS
      <4>2. 1..n \subseteq 1..n + 1 /\ n + 1 \in 1..n + 1
        OBVIOUS
      <4> QED BY <2>2, <3>2, <4>1, <4>2
    <3> QED BY <3>3, <3>4, <3>5, <3>6
  <2>7. Ends(f[o], v, text, n + 1) \subseteq 1..Len(text)
    BY <1>1 DEF Ends
  <2> QED BY <2>4, <2>5, <2>6, <2>7
<1>4. \A n \in 0..Len(v) - 1 : n \in T => n + 1 \in T
  <2>1. \A n \in 0..Len(v) - 1 : n + 1 \in 0..Len(v)
    BY <1>1
  <2> QED BY <1>3, <2>1
<1>5. \A n \in 0..Len(v) : n \in T
  <2> HIDE DEF T
  <2> QED BY <1>1, <1>2, <1>4, UpTo
<1>6. Len(v) \in 0..Len(v)
  BY <1>1
<1> QED BY <1>5, <1>6

\* The parts of a literal pattern.
IsLiteral(parts, v, around) ==
    IF around
    THEN /\ Len(parts) = Len(v) + 2 /\ parts[1] = Part("any", "%") /\ parts[Len(v) + 2] = Part("any", "%")
         /\ IsChars(parts, 1, v, Len(v))
    ELSE Len(parts) = Len(v) /\ IsChars(parts, 0, v, Len(v))

\* The pattern of a text is read as its characters, with anything around them if asked.
LEMMA PatternIsLiteral ==
    ASSUME NEW v \in Seq(Atoms), NEW around \in BOOLEAN
    PROVE  /\ Pattern(v, around) \in Seq(Atoms)
           /\ \E P : \E parts \in Seq(P) : /\ LikeRegex(Pattern(v, around)) = LikeRead(parts, FALSE)
                                          /\ IsLiteral(parts, v, around)
<1>1. PICK P : P = {Part("char", v[k]) : k \in 1..Len(v)} \cup {Part("any", "%")}
  OBVIOUS
<1>2. Len(v) \in Nat /\ \A k \in 1..Len(v) : Part("char", v[k]) \in P
  BY <1>1, LenProperties
<1>3. PICK e, a, pct : e = <<>> /\ a = Part("any", "%") /\ pct = "%"
  OBVIOUS
<1>4. e \in Seq(Atoms) /\ e \in Seq(P) /\ Len(e) = 0 /\ a \in P /\ pct \in Atoms
  BY <1>1, <1>3, AtomsAssumption DEF Marks
<1>5. LikeRegex(e) = LikeRead(e, FALSE)
  BY <1>3, <1>4, LikeGrows
<1>6. CASE ~around
  <2>1. PICK q \in Seq(P) : /\ LikeRegex(e \o Escaped(v)) = LikeRead(q, FALSE)
                            /\ Len(q) = Len(e) + Len(v)
                            /\ \A k \in 1..Len(e) : q[k] = e[k]
                            /\ IsChars(q, Len(e), v, Len(v))
    BY <1>2, <1>4, <1>5, LikeEscaped
  <2>2. Escaped(v) \in Seq(Atoms)
    BY <1>2, <1>4, <1>5, LikeEscaped
  <2>3. e \o Escaped(v) = Escaped(v)
    BY <1>3, <2>2, ConcatEmptySeq
  <2>4. Pattern(v, around) = Escaped(v)
    BY <1>6 DEF Pattern
  <2>5. IsLiteral(q, v, around)
    BY <1>2, <1>4, <1>6, <2>1 DEF IsLiteral
  <2> QED BY <2>1, <2>2, <2>3, <2>4, <2>5
<1>7. CASE around
  <2>1. PICK p, ps : p = Append(e, pct) /\ ps = Append(e, a)
    OBVIOUS
  <2>2. /\ p \in Seq(Atoms) /\ ps \in Seq(P) /\ Len(ps) = 1 /\ ps[1] = a /\ p = <<"%">>
    BY <1>3, <1>4, <2>1
  <2>3. LikeRegex(p) = LikeRead(ps, FALSE)
    <3>1. LikeRegex(p) = LikeAtom(LikeRegex(e), pct)
      BY <1>4, <2>1, LikeGrows
    <3>2. LikeAtom(LikeRead(e, FALSE), pct) = LikeRead(Append(e, a), FALSE)
      BY <1>3, LikeAtomsAre
    <3> QED BY <1>5, <2>1, <3>1, <3>2
  <2>4. PICK q \in Seq(P) : /\ LikeRegex(p \o Escaped(v)) = LikeRead(q, FALSE)
                            /\ Len(q) = Len(ps) + Len(v)
                            /\ \A k \in 1..Len(ps) : q[k] = ps[k]
                            /\ IsChars(q, Len(ps), v, Len(v))
    BY <1>2, <2>2, <2>3, LikeEscaped
  <2>5. PICK x : x = p \o Escaped(v)
    OBVIOUS
  <2>6. x \in Seq(Atoms)
    <3>1. Escaped(v) \in Seq(Atoms)
      BY <1>2, <1>4, <1>5, LikeEscaped
    <3> QED BY <2>2, <2>5, <3>1, ConcatProperties
  <2>7. PICK y, t : y = Append(x, pct) /\ t = Append(q, a)
    OBVIOUS
  <2>8. LikeRegex(y) = LikeRead(t, FALSE)
    <3>1. LikeRegex(y) = LikeAtom(LikeRegex(x), pct)
      BY <1>4, <2>6, <2>7, LikeGrows
    <3>2. LikeAtom(LikeRead(q, FALSE), pct) = LikeRead(Append(q, a), FALSE)
      BY <1>3, LikeAtomsAre
    <3> QED BY <2>4, <2>5, <2>7, <3>1, <3>2
  <2>9. Pattern(v, around) = y /\ y \in Seq(Atoms)
    <3>1. y = x \o <<"%">> /\ y \in Seq(Atoms)
      BY <1>3, <1>4, <2>6, <2>7
    <3>2. Pattern(v, around) = <<"%">> \o Escaped(v) \o <<"%">>
      BY <1>7 DEF Pattern
    <3> QED BY <2>2, <2>5, <3>1, <3>2
  <2>10. /\ t \in Seq(P) /\ Len(t) = Len(q) + 1 /\ t[Len(q) + 1] = a /\ \A k \in 1..Len(q) : t[k] = q[k]
    BY <1>4, <2>7, AppendProperties
  <2>11. IsLiteral(t, v, around)
    <3>1. Len(q) = Len(v) + 1 /\ Len(t) = Len(v) + 2 /\ t[Len(v) + 2] = a
      BY <1>2, <2>2, <2>4, <2>10
    <3>2. t[1] = a
      BY <1>2, <2>2, <2>4, <2>10, <3>1
    <3>3. IsChars(t, 1, v, Len(v))
      <4> SUFFICES ASSUME NEW k \in 1..Len(v) PROVE t[1 + k] = Part("char", v[k])
        BY DEF IsChars
      <4>1. 1 + k \in 1..Len(q)
        BY <1>2, <3>1
      <4> QED BY <2>2, <2>4, <2>10, <4>1 DEF IsChars
    <3> QED BY <1>3, <1>7, <3>1, <3>2, <3>3 DEF IsLiteral
  <2> QED BY <2>8, <2>9, <2>10, <2>11
<1> QED BY <1>6, <1>7

\* A literal pattern matches one text, or the texts that hold it.
LEMMA LiteralMatches ==
    ASSUME NEW v \in Seq(Atoms), NEW text \in Seq(Atoms), NEW around \in BOOLEAN,
           NEW P, NEW parts \in Seq(P), IsLiteral(parts, v, around)
    PROVE  FullMatch(parts, text) = IF around THEN Infix(v, text) ELSE v = text
<1>1. PICK f : f = ReachedFrom(parts, text)
  OBVIOUS
<1>2. PICK N, L : N = Len(v) /\ L = Len(text)
  OBVIOUS
<1>3. /\ N \in Nat /\ L \in Nat /\ Len(parts) \in Nat
  BY <1>2, LenProperties
<1>4. f[0] = {0} /\ \A i \in 1..Len(parts) : f[i] = Reach(parts[i], text, f[i - 1])
  BY <1>1, ReachedFromIs
<1>5. FullMatch(parts, text) <=> L \in f[Len(parts)]
  BY <1>1, <1>2, FullMatchIs
<1>6. FullMatch(parts, text) \in BOOLEAN /\ Infix(v, text) \in BOOLEAN
  BY DEF FullMatch, Infix
<1>7. CASE ~around
  <2>1. Len(parts) = N /\ IsChars(parts, 0, v, N)
    BY <1>2, <1>7 DEF IsLiteral
  <2>2. f[0] \subseteq 0..L
    BY <1>3, <1>4
  <2>3. f[N] = Ends(f[0], v, text, N)
    <3>1. PICK o : o = 0
      OBVIOUS
    <3>2. o \in Nat /\ o + Len(v) <= Len(parts) /\ o + Len(v) = N
      BY <1>2, <1>3, <2>1, <3>1
    <3>3. f[o + Len(v)] = Ends(f[o], v, text, Len(v))
      BY <1>2, <1>4, <2>1, <2>2, <3>1, <3>2, CharsReach
    <3> QED BY <1>2, <3>1, <3>2, <3>3
  <2>4. L \in f[N] <=> L \in N..L /\ L - N = 0 /\ \A k \in 1..N : text[(L - N) + k] = v[k]
    BY <1>2, <1>4, <2>3 DEF Ends
  <2>5. L \in f[N] <=> L = N /\ \A k \in 1..N : text[k] = v[k]
    <3>1. L - N = 0 <=> L = N
      BY <1>3
    <3>2. L = N => \A k \in 1..N : (L - N) + k = k
      BY <1>3
    <3>3. L = N => L \in N..L
      BY <1>3
    <3> QED BY <2>4, <3>1, <3>2, <3>3
  <2>6. L = N /\ (\A k \in 1..N : text[k] = v[k]) <=> v = text
    BY <1>2, SeqEqual
  <2> QED BY <1>5, <1>6, <1>7, <2>1, <2>5, <2>6
<1>8. CASE around
  <2>1. /\ Len(parts) = N + 2 /\ parts[1] = Part("any", "%") /\ parts[N + 2] = Part("any", "%")
        /\ IsChars(parts, 1, v, N)
    BY <1>2, <1>8 DEF IsLiteral
  <2>2. f[1] = 0..L
    <3>1. f[1] = Reach(parts[1], text, f[0])
      <4>1. 1 \in 1..Len(parts) /\ 1 - 1 = 0
        BY <1>3, <2>1
      <4> QED BY <1>4, <4>1
    <3>2. f[1] = {k \in 0..Len(text) : \E j \in {0} : j <= k}
      BY <1>4, <2>1, <3>1 DEF Reach, Part
    <3> QED BY <1>2, <1>3, <3>2
  <2>3. f[N + 1] = Ends(f[1], v, text, N)
    <3>1. PICK o : o = 1
      OBVIOUS
    <3>2. o \in Nat /\ o + Len(v) <= Len(parts) /\ o + Len(v) = N + 1
      BY <1>2, <1>3, <2>1, <3>1
    <3>3. f[o] \subseteq 0..Len(text)
      BY <1>2, <2>2, <3>1
    <3>4. f[o + Len(v)] = Ends(f[o], v, text, Len(v))
      <4>1. IsChars(parts, o, v, Len(v))
        BY <1>2, <2>1, <3>1
      <4>2. \A i \in 1..Len(parts) : f[i] = Reach(parts[i], text, f[i - 1])
        BY <1>4
      <4> QED BY <3>2, <3>3, <4>1, <4>2, CharsReach
    <3> QED BY <1>2, <3>1, <3>2, <3>4
  <2>4. L \in f[N + 2] <=> \E j \in f[N + 1] : j <= L
    <3>1. N + 2 \in 1..Len(parts) /\ (N + 2) - 1 = N + 1
      BY <1>3, <2>1
    <3>2. f[N + 2] = Reach(parts[N + 2], text, f[N + 1])
      BY <1>4, <3>1
    <3>3. f[N + 2] = {k \in 0..Len(text) : \E j \in f[N + 1] : j <= k}
      BY <2>1, <3>2 DEF Reach, Part
    <3> QED BY <1>2, <1>3, <3>3
  <2>5. (\E j \in f[N + 1] : j <= L) => Infix(v, text)
    <3> SUFFICES ASSUME NEW j \in f[N + 1] PROVE Infix(v, text)
      OBVIOUS
    <3>1. j \in N..L /\ \A k \in 1..N : text[(j - N) + k] = v[k]
      BY <1>2, <2>3 DEF Ends
    <3>2. PICK i : i = j - N
      OBVIOUS
    <3>3. i \in 0..L - N /\ \A k \in 1..N : text[i + k] = v[k]
      BY <1>3, <3>1, <3>2
    <3> QED BY <1>2, <3>3 DEF Infix
  <2>6. Infix(v, text) => \E j \in f[N + 1] : j <= L
    <3> SUFFICES ASSUME Infix(v, text) PROVE \E j \in f[N + 1] : j <= L
      OBVIOUS
    <3>1. PICK i \in 0..L - N : \A k \in 1..N : text[i + k] = v[k]
      BY <1>2 DEF Infix
    <3>2. PICK j : j = i + N
      OBVIOUS
    <3>3. j \in N..L /\ j - N = i /\ i \in 0..L /\ j <= L
      BY <1>3, <3>2
    <3>4. j \in f[N + 1]
      BY <1>2, <2>2, <2>3, <3>1, <3>3 DEF Ends
    <3> QED BY <3>3, <3>4
  <2> QED BY <1>5, <1>6, <1>8, <2>1, <2>4, <2>5, <2>6
<1> QED BY <1>7, <1>8
-----------------------------------------------------------------------------
(* LIKE over the full way of a condition *)

\* The comparison that a LIKE job writes, and what it is evaluated over.
Likened(j) == Comparison(COMPONENT_REF, "LIKE", Pattern(j.literal, j.around))
Properties(j) == [p \in {COMPONENT_REF} |-> j.text]

\* What a LIKE job writes is read as that comparison, which matches as LikeIsLiteral says.
LEMMA LikeIsRead ==
    ASSUME NEW j, j.literal \in Seq(Atoms), j.text \in Seq(Atoms), j.around \in BOOLEAN
    PROVE  /\ Parse(ConditionText(<<Likened(j)>>), SELECTION_PROPERTIES) = {<<Likened(j)>>}
           /\ Matches(<<Likened(j)>>, Properties(j)) =
                 IF j.around THEN Infix(j.literal, j.text) ELSE j.literal = j.text
<1>1. PICK v, x, around : v = j.literal /\ x = j.text /\ around = j.around
  OBVIOUS
<1>2. v \in Seq(Atoms) /\ x \in Seq(Atoms) /\ around \in BOOLEAN
  BY <1>1
<1>3. PICK p, c : p = Pattern(v, around) /\ c = Comparison(COMPONENT_REF, "LIKE", p)
  OBVIOUS
<1>4. c = Likened(j)
  BY <1>1, <1>3 DEF Likened
<1>5. p \in Seq(Atoms)
  BY <1>2, <1>3, PatternIsLiteral
<1>6. PICK P : \E parts \in Seq(P) : LikeRegex(p) = LikeRead(parts, FALSE) /\ IsLiteral(parts, v, around)
  BY <1>2, <1>3, PatternIsLiteral
<1>7. PICK parts \in Seq(P) : LikeRegex(p) = LikeRead(parts, FALSE) /\ IsLiteral(parts, v, around)
  BY <1>6
<1>8. WellFormed(p) /\ LikeRegex(p).parts = parts
  BY <1>7 DEF WellFormed, LikeRead
<1>9. /\ c.property = COMPONENT_REF /\ c.operator = "LIKE" /\ c.value = p
      /\ c = Comparison(c.property, c.operator, c.value)
  BY <1>3 DEF Comparison
<1>10. Writable(c, SELECTION_PROPERTIES)
  <2>1. COMPONENT_REF \in SELECTION_PROPERTIES \cap (Atoms \ Marks)
    BY AtomsAssumption DEF SELECTION_PROPERTIES, COMPONENT_REF, Marks, Blank, Quote, DQuote, Escape
  <2>2. Upper(COMPONENT_REF) \notin KEYWORDS
    BY DEF COMPONENT_REF, Upper, KEYWORDS
  <2> QED BY <1>5, <1>8, <1>9, <2>1, <2>2 DEF Writable
<1>11. PICK condition : condition = <<c>>
  OBVIOUS
<1>12. /\ condition \in Seq({condition[i] : i \in DOMAIN condition}) /\ DOMAIN condition = {1}
       /\ condition[1] = c
  BY <1>11
<1>13. Parse(ConditionText(condition), SELECTION_PROPERTIES) = {condition}
  <2>1. \A i \in DOMAIN condition : Writable(condition[i], SELECTION_PROPERTIES)
    BY <1>10, <1>12
  <2>2. PICK allowed : allowed = SELECTION_PROPERTIES
    OBVIOUS
  <2>3. Parse(ConditionText(condition), allowed) = {condition}
    BY <1>12, <2>1, <2>2, WrittenIsRead
  <2> QED BY <2>2, <2>3
<1>14. PICK properties : properties = Properties(j)
  OBVIOUS
<1>15. DOMAIN properties = {COMPONENT_REF} /\ properties[COMPONENT_REF] = x
  BY <1>1, <1>14 DEF Properties
<1>16. ComparisonMatches(c, properties) = FullMatch(parts, x)
  <2>1. FullMatch(parts, x) \in BOOLEAN
    BY DEF FullMatch
  <2>2. PICK full : full = FullMatch(parts, x)
    OBVIOUS
  <2>3. FullMatch(LikeRegex(c.value).parts, properties[c.property]) = full
    BY <1>8, <1>9, <1>15, <2>2
  <2>4. c.property \in DOMAIN properties /\ c.operator # "="
    BY <1>9, <1>15
  <2>5. ComparisonMatches(c, properties) <=> full
    BY <2>1, <2>2, <2>3, <2>4 DEF ComparisonMatches
  <2>6. ComparisonMatches(c, properties) \in BOOLEAN
    BY <2>1, <2>2, <2>3, <2>4 DEF ComparisonMatches
  <2> QED BY <2>1, <2>2, <2>5, <2>6
<1>17. Matches(condition, properties) = ComparisonMatches(c, properties)
  BY <1>12 DEF Matches, ComparisonMatches
<1>18. FullMatch(parts, x) = IF around THEN Infix(v, x) ELSE v = x
  BY <1>2, <1>7, LiteralMatches
<1> QED BY <1>1, <1>4, <1>11, <1>13, <1>14, <1>16, <1>17, <1>18

-----------------------------------------------------------------------------
(* Settings *)

\* A level that was lowered stays as it is.
LEMMA LowerAgain == ASSUME NEW v PROVE Lower(Lower(v)) = Lower(v)
BY DEF Lower

\* What StrongestSource says of one run.
RunIsStrongest(run) ==
    /\ \A n \in job.model.required : FromFlags(n) \/ FromEnviron(n) \/ FromFile(n)
    /\ DOMAIN run = {n \in job.model.names \cup DOMAIN job.model.defaults :
                        \/ FromFlags(n) \/ FromEnviron(n) \/ FromFile(n)
                        \/ n \in DOMAIN job.model.defaults}
    /\ \A n \in DOMAIN run :
          run[n] = IF n = "log_level" THEN Lower(Strongest(n)) ELSE Strongest(n)

\* The settings that a job with a model, an environment, files and flags is given.
Settings(j) == UNION {LoadConfig(j.model, j.environ, j.files, f) : f \in ParsedFlags(j.model, j.flags)}

\* Every run of load_config has its settings from the strongest source.
LEMMA SettingsAreStrongest ==
    ASSUME job \in Jobs, job.op \in {"settings", "adapter"}, NEW run \in Settings(job)
    PROVE  RunIsStrongest(run)
<1>1. PICK f \in ParsedFlags(job.model, job.flags) :
          run \in LoadConfig(job.model, job.environ, job.files, f)
  BY DEF Settings
<1>2. /\ DOMAIN f = DOMAIN job.flags
      /\ \A n \in DOMAIN f : f[n] = IF n = "log_level" THEN Lower(job.flags[n]) ELSE job.flags[n]
  BY DEF ParsedFlags
<1>3. FileName(job.environ, f) = SettingsFile /\ SettingsFile = FileName(job.environ, job.flags)
  BY <1>2 DEF FileName, SettingsFile, CONFIG
<1>15. PICK outside : outside = Restrict(job.environ, DOMAIN job.environ \cap job.model.fromOutside)
  OBVIOUS
<1>16. PICK given : given = Restrict(f, DOMAIN f \ {CONFIG})
  OBVIOUS
<1>4. PICK content \in IF SettingsFile = "" THEN {<<>>} ELSE ReadFile(job.files[SettingsFile]) :
          run \in Validated(job.model, Overridden(content, outside, given))
  BY <1>1, <1>3, <1>15, <1>16 DEF LoadConfig
<1>5. content = Holds
  BY <1>4 DEF Holds, ReadFile
<1>17. PICK values : values = Overridden(content, outside, given)
  OBVIOUS
<1>6. /\ DOMAIN outside = DOMAIN job.environ \cap job.model.fromOutside
      /\ \A n \in DOMAIN outside : outside[n] = job.environ[n]
      /\ DOMAIN given = DOMAIN f \ {CONFIG}
      /\ \A n \in DOMAIN given : given[n] = f[n]
  BY <1>15, <1>16 DEF Restrict
<1>7. /\ DOMAIN values = DOMAIN given \cup DOMAIN outside \cup DOMAIN content
      /\ \A n \in DOMAIN values :
            values[n] = IF n \in DOMAIN given THEN given[n]
                        ELSE IF n \in DOMAIN outside THEN outside[n] ELSE content[n]
  BY <1>17 DEF Overridden, Under
<1>8. CONFIG \notin job.model.names \cup DOMAIN job.model.defaults
  BY Zenon, JobsAssumption
<1>9. /\ DOMAIN values \subseteq job.model.names /\ job.model.required \subseteq DOMAIN values
      /\ DOMAIN run = DOMAIN values \cup DOMAIN job.model.defaults
      /\ \A n \in DOMAIN run :
            /\ n = "log_level" =>
                  run[n] = Lower(IF n \in DOMAIN values THEN values[n] ELSE job.model.defaults[n])
            /\ n # "log_level" =>
                  run[n] = IF n \in DOMAIN values THEN values[n] ELSE job.model.defaults[n]
  <2>1. run \in Validated(job.model, values)
    BY <1>4, <1>17
  <2> QED BY <2>1 DEF Validated, Under
<1>10. \A n \in job.model.names \cup DOMAIN job.model.defaults :
           n \in DOMAIN values <=> FromFlags(n) \/ FromEnviron(n) \/ FromFile(n)
  BY <1>2, <1>5, <1>6, <1>7, <1>8, <1>9 DEF FromFlags, FromEnviron, FromFile
<1>11. \A n \in DOMAIN values :
          values[n] = IF n = "log_level" /\ FromFlags(n) THEN Lower(Strongest(n)) ELSE Strongest(n)
  <2> SUFFICES ASSUME NEW n \in DOMAIN values
               PROVE  values[n] = IF n = "log_level" /\ FromFlags(n) THEN Lower(Strongest(n))
                                  ELSE Strongest(n)
    OBVIOUS
  <2>1. n # CONFIG
    BY <1>8, <1>9
  <2>2. CASE FromFlags(n)
    BY <1>2, <1>6, <1>7, <2>1, <2>2 DEF Strongest, FromFlags
  <2>3. CASE ~FromFlags(n) /\ FromEnviron(n)
    BY <1>2, <1>6, <1>7, <2>3 DEF Strongest, FromFlags, FromEnviron
  <2>4. CASE ~FromFlags(n) /\ ~FromEnviron(n)
    <3>1. FromFile(n) /\ values[n] = Holds[n]
      BY <1>2, <1>5, <1>6, <1>7, <2>4 DEF FromFlags, FromEnviron, FromFile
    <3> QED BY <2>4, <3>1 DEF Strongest
  <2> QED BY <2>2, <2>3, <2>4
<1>12. ASSUME NEW n \in DOMAIN run
       PROVE  run[n] = IF n = "log_level" THEN Lower(Strongest(n)) ELSE Strongest(n)
  <2>1. CASE n \in DOMAIN values
    BY <1>9, <1>11, <2>1, LowerAgain
  <2>2. CASE n \notin DOMAIN values
    <3>1. ~FromFlags(n) /\ ~FromEnviron(n) /\ ~FromFile(n)
      BY <1>9, <1>10, <2>2
    <3> QED BY <1>9, <2>2, <3>1 DEF Strongest
  <2> QED BY <2>1, <2>2
<1>13. DOMAIN run = {n \in job.model.names \cup DOMAIN job.model.defaults :
                        \/ FromFlags(n) \/ FromEnviron(n) \/ FromFile(n)
                        \/ n \in DOMAIN job.model.defaults}
  BY <1>9, <1>10
<1>14. \A n \in job.model.required : FromFlags(n) \/ FromEnviron(n) \/ FromFile(n)
  BY <1>9, <1>10
<1> QED BY <1>12, <1>13, <1>14 DEF RunIsStrongest

-----------------------------------------------------------------------------
(* Values *)

\* What a scalar of a type is read back as.
ScalarMeant(base, x) ==
    IF x.is = "int" /\ base = "float" THEN Float(x.n)
    ELSE IF x.is = "datetime" THEN Str(x.t) ELSE x

\* A scalar that was written is read back as what it meant, in an array and as a text.
LEMMA ScalarReturns ==
    ASSUME NEW base \in CHECKED \cup TEXTTYPES, NEW x, IsNode(x), NEW y \in ScalarToJson(base, x)
    PROVE  /\ ScalarToJson(base, x) = {y}
           /\ ScalarFromJson(base, y) = {ScalarMeant(base, x)}
           /\ Scalar(base, ScalarText(y)) = {ScalarMeant(base, x)}
<1> USE DEF ScalarToJson, ScalarFromJson, Scalar, ScalarText, ScalarMeant, CHECKED, TEXTTYPES, When
<1>1. CASE x = LIST
  BY <1>1 DEF LIST
<1>2. ASSUME NEW n \in DOMAIN IntWritten, x = Whole(n)
      PROVE  /\ ScalarToJson(base, x) = {y}
             /\ ScalarFromJson(base, y) = {ScalarMeant(base, x)}
             /\ Scalar(base, ScalarText(y)) = {ScalarMeant(base, x)}
  <2>1. x.is = "int" /\ x.n = n
    BY <1>2 DEF Whole
  <2>2. base = "int" \/ base = "float"
    BY <2>1
  <2>3. CASE base = "int"
    <3>1. y = x /\ IntTexts[IntWritten[n]] = n /\ IntWritten[n] \in DOMAIN IntTexts
      BY <2>1, <2>3, NumbersAssumption
    <3> QED BY <1>2, <2>1, <2>3, <3>1 DEF Whole
  <2>4. CASE base = "float"
    <3>1. y = Float(n) /\ Double(n) = n
      BY <2>1, <2>4
    <3>2. FloatTexts[FloatWritten[n]] = n /\ FloatWritten[n] \in DOMAIN FloatTexts
      BY <3>1, NumbersAssumption
    <3>3. y.is = "float" /\ y.n = n
      BY <3>1 DEF Float
    <3> QED BY <2>1, <2>4, <3>1, <3>2, <3>3
  <2> QED BY <2>2, <2>3, <2>4
<1>3. ASSUME NEW n \in DOMAIN FloatWritten, x = Float(n)
      PROVE  /\ ScalarToJson(base, x) = {y}
             /\ ScalarFromJson(base, y) = {ScalarMeant(base, x)}
             /\ Scalar(base, ScalarText(y)) = {ScalarMeant(base, x)}
  <2>1. x.is = "float" /\ x.n = n
    BY <1>3 DEF Float
  <2>2. base = "float" /\ y = x
    BY <2>1
  <2>3. /\ FloatTexts[FloatWritten[n]] = n /\ FloatWritten[n] \in DOMAIN FloatTexts
        /\ Double(n) = n
    BY NumbersAssumption
  <2> QED BY <1>3, <2>1, <2>2, <2>3
<1>4. ASSUME NEW b \in BOOLEAN, x = Bool(b)
      PROVE  /\ ScalarToJson(base, x) = {y}
             /\ ScalarFromJson(base, y) = {ScalarMeant(base, x)}
             /\ Scalar(base, ScalarText(y)) = {ScalarMeant(base, x)}
  <2>1. x.is = "bool" /\ x.b = b
    BY <1>4 DEF Bool
  <2>2. base = "bool" /\ y = x
    BY <2>1
  <2>3. CASE b = TRUE
    <3>1. ScalarText(y) = "true"
      BY <2>1, <2>2, <2>3
    <3>2. Bool("true" = "true") = Bool(TRUE)
      BY DEF Bool
    <3> QED BY <1>4, <2>1, <2>2, <2>3, <3>1, <3>2
  <2>4. CASE b = FALSE
    <3>1. ScalarText(y) = "false"
      BY <2>1, <2>2, <2>4
    <3>2. Bool("false" = "true") = Bool(FALSE)
      BY DEF Bool
    <3> QED BY <1>4, <2>1, <2>2, <2>4, <3>1, <3>2
  <2> QED BY <2>3, <2>4
<1>5. CASE x = Str(x.t)
  <2>1. x.is = "str"
    BY <1>5 DEF Str
  <2>2. y = x /\ ((base = "status" /\ x.t \in STATUSES) \/ base \in TEXTTYPES)
    BY <2>1
  <2>3. y = x
    BY <2>1, <2>2
  <2> QED BY <1>5, <2>1, <2>2, <2>3
<1>6. CASE x = DateTime(x.t)
  <2>1. x.is = "datetime"
    BY <1>6 DEF DateTime
  <2>2. base \in TEXTTYPES /\ y = Str(x.t)
    BY <2>1
  <2>3. y.is = "str" /\ y.t = x.t
    BY <2>2 DEF Str
  <2> QED BY <2>1, <2>2, <2>3
<1> QED BY <1>1, <1>2, <1>3, <1>4, <1>5, <1>6 DEF IsNode

\* What a tree of sets with one member each has for members.
LEMMA AllOrNoneIs ==
    ASSUME NEW sets, NEW tree \in AllOrNone(sets)
    PROVE  /\ AllOrNone(sets) = {tree} /\ tree = [i \in DOMAIN sets |-> CHOOSE x \in sets[i] : TRUE]
           /\ \A i \in DOMAIN sets : tree[i] \in sets[i]
BY DEF AllOrNone

\* Sets with one member each have their members for the members of AllOrNone.
LEMMA AllOrNoneOf ==
    ASSUME NEW sets, NEW tree, tree = [i \in DOMAIN sets |-> tree[i]],
           \A i \in DOMAIN sets : sets[i] = {tree[i]}
    PROVE  AllOrNone(sets) = {tree}
<1>1. [i \in DOMAIN sets |-> CHOOSE x \in sets[i] : TRUE] = tree
  <2>1. \A i \in DOMAIN sets : (CHOOSE x \in sets[i] : TRUE) = tree[i]
    OBVIOUS
  <2> QED BY <2>1
<1> QED BY <1>1 DEF AllOrNone

\* A value that was written as JSON is read back as what it meant, whatever the depth of its type
\* and of the value.
LEMMA TreeReturns ==
    ASSUME NEW type, type.depth \in Nat, type.base \in CHECKED \cup TEXTTYPES,
           NEW value, IsValue(value), NEW tree \in ToJson(type, value)
    PROVE  /\ ToJson(type, value) = {tree}
           /\ FromJson(type, tree) = {Meant(type, value)}
<1>1. PICK paths, base, depth : paths = DOMAIN value /\ base = type.base /\ depth = type.depth
  OBVIOUS
<1>2. PICK sets : sets = [path \in paths |->
        IF Len(path) < depth THEN When(value[path].is = "list", LIST)
        ELSE IF Len(path) = depth THEN ScalarToJson(base, value[path]) ELSE {value[path]}]
  OBVIOUS
<1>3. ToJson(type, value) = AllOrNone(sets) /\ DOMAIN sets = paths
  BY <1>1, <1>2 DEF ToJson
<1>4. /\ AllOrNone(sets) = {tree} /\ tree = [i \in DOMAIN sets |-> CHOOSE x \in sets[i] : TRUE]
      /\ \A i \in DOMAIN sets : tree[i] \in sets[i]
  BY <1>3, AllOrNoneIs
<1>5. DOMAIN tree = paths
  BY <1>3, <1>4
<1>6. PICK reads : reads = [path \in paths |->
        IF Len(path) < depth THEN When(tree[path].is = "list", LIST)
        ELSE IF Len(path) = depth THEN ScalarFromJson(base, tree[path]) ELSE {tree[path]}]
  OBVIOUS
<1>7. FromJson(type, tree) = AllOrNone(reads) /\ DOMAIN reads = paths
  BY <1>1, <1>5, <1>6 DEF FromJson
<1>8. PICK meant : meant = Meant(type, value)
  OBVIOUS
<1>9. /\ meant = [path \in paths |-> meant[path]]
      /\ \A path \in paths : meant[path] =
            IF Len(path) = depth THEN ScalarMeant(base, value[path]) ELSE value[path]
  BY <1>1, <1>8 DEF Meant, ScalarMeant
<1>10. ASSUME NEW path \in paths PROVE reads[path] = {meant[path]}
  <2>1. Len(path) \in Nat /\ IsNode(value[path]) /\ tree[path] \in sets[path]
    BY <1>1, <1>3, <1>4 DEF IsValue
  <2>2. CASE Len(path) < depth
    <3>1. value[path].is = "list" /\ tree[path] = LIST
      BY <1>2, <2>1, <2>2 DEF When
    <3>2. value[path] = LIST
      <4>1. PICK x : x = value[path]
        OBVIOUS
      <4>2. IsNode(x) /\ x.is = "list"
        BY <2>1, <3>1, <4>1
      <4>3. \A n : Whole(n).is = "int" /\ Float(n).is = "float"
        BY DEF Whole, Float
      <4>4. \A n : Bool(n).is = "bool" /\ Str(n).is = "str" /\ DateTime(n).is = "datetime"
        BY DEF Bool, Str, DateTime
      <4>5. x = LIST
        BY <4>2, <4>3, <4>4 DEF IsNode
      <4> QED BY <4>1, <4>5
    <3>3. LIST.is = "list"
      BY DEF LIST
    <3> QED BY <1>1, <1>6, <1>9, <2>2, <3>1, <3>2, <3>3 DEF When
  <2>3. CASE Len(path) = depth
    <3>1. PICK x, y : x = value[path] /\ y = tree[path]
      OBVIOUS
    <3>2. y \in ScalarToJson(base, x) /\ IsNode(x) /\ base \in CHECKED \cup TEXTTYPES
      BY <1>1, <1>2, <2>1, <2>3, <3>1
    <3>3. ScalarFromJson(base, y) = {ScalarMeant(base, x)}
      BY <3>2, ScalarReturns
    <3> QED BY <1>1, <1>6, <1>9, <2>3, <3>1, <3>3
  <2>4. CASE Len(path) > depth
    <3>1. tree[path] = value[path]
      BY <1>1, <1>2, <2>1, <2>4
    <3> QED BY <1>1, <1>6, <1>9, <2>1, <2>4, <3>1
  <2> QED BY <1>1, <2>1, <2>2, <2>3, <2>4
<1>11. AllOrNone(reads) = {meant}
  BY <1>7, <1>9, <1>10, AllOrNoneOf
<1> QED BY <1>3, <1>4, <1>7, <1>8, <1>11

\* A value that was encoded and is no text is decoded as what it meant.
LEMMA ValueReturns ==
    ASSUME NEW type, type.depth \in Nat, type.base \in CHECKED \cup TEXTTYPES,
           NEW value, IsValue(value), value[<<>>].is # "str", NEW t \in Encode(type, value)
    PROVE  Encode(type, value) = {t} /\ Decode(type, t) = {Meant(type, value)}
<1>1. CASE type.depth > 0
  <2>1. Encode(type, value) = {Array(tree) : tree \in ToJson(type, value)}
    BY <1>1 DEF Encode
  <2>2. PICK tree \in ToJson(type, value) : t = Array(tree)
    BY <2>1
  <2>3. ToJson(type, value) = {tree} /\ FromJson(type, tree) = {Meant(type, value)}
    BY TreeReturns
  <2>4. t.is = "array" /\ t.tree = tree
    BY <2>2 DEF Array
  <2>5. Decode(type, t) = {Meant(type, value)}
    <3>1. Decode(type, t) = FromJson(type, t.tree)
      <4>1. type.depth # 0 /\ t.is # "text"
        BY <1>1, <2>4
      <4> QED BY <4>1, Zenon DEF Decode
    <3> QED BY <2>3, <2>4, <3>1
  <2>6. Encode(type, value) = {t}
    BY <2>1, <2>2, <2>3
  <2> QED BY <2>5, <2>6
<1>2. CASE type.depth = 0
  <2>1. Encode(type, value) = {Text(ScalarText(tree[<<>>])) : tree \in ToJson(type, value)}
    BY <1>2 DEF Encode
  <2>2. PICK tree \in ToJson(type, value) : t = Text(ScalarText(tree[<<>>]))
    BY <2>1
  <2>3. ToJson(type, value) = {tree}
    BY TreeReturns
  <2>4. PICK root, x, y, base : root = <<>> /\ x = value[root] /\ y = tree[root] /\ base = type.base
    OBVIOUS
  <2>5. root \in DOMAIN value /\ Len(root) = 0 /\ IsNode(x) /\ base \in CHECKED \cup TEXTTYPES
    BY <2>4 DEF IsValue
  <2>6. y \in ScalarToJson(base, x)
    <3>1. PICK sets : sets = [path \in DOMAIN value |->
            IF Len(path) < type.depth THEN When(value[path].is = "list", LIST)
            ELSE IF Len(path) = type.depth THEN ScalarToJson(type.base, value[path]) ELSE {value[path]}]
      OBVIOUS
    <3>2. tree \in AllOrNone(sets)
      BY <3>1 DEF ToJson
    <3>3. \A i \in DOMAIN sets : tree[i] \in sets[i]
      BY <3>2, AllOrNoneIs
    <3>4. root \in DOMAIN sets /\ sets[root] = ScalarToJson(base, x)
      BY <1>2, <2>4, <2>5, <3>1
    <3> QED BY <2>4, <3>3, <3>4
  <2>7. Scalar(base, ScalarText(y)) = {ScalarMeant(base, x)}
    BY <2>5, <2>6, ScalarReturns
  <2>8. x # LIST
    BY <2>5, <2>6 DEF LIST, ScalarToJson, When, CHECKED, TEXTTYPES
  <2>9. DOMAIN value = {root}
    BY <2>4, <2>5, <2>8 DEF IsValue
  <2>10. Meant(type, value) = Just(ScalarMeant(base, x))
    BY <1>2, <2>4, <2>5, <2>9 DEF Meant, Just, ScalarMeant
  <2>11. t.is = "text" /\ t.t = ScalarText(y)
    BY <2>2, <2>4 DEF Text
  <2>12. Decode(type, t) = {Just(s) : s \in {ScalarMeant(base, x)}}
    BY <1>2, <2>4, <2>7, <2>11 DEF Decode
  <2> QED BY <2>1, <2>2, <2>3, <2>10, <2>12
<1> QED BY <1>1, <1>2
-----------------------------------------------------------------------------
(* What a condition is parsed as *)

\* The tokens of texts, and what is read of them on the way.
TextTokens ==
    {Token("string", x) : x \in Seq(Atoms)}
    \cup {Token(kind, x) : kind \in {"word", "equals", "quoted"}, x \in Atoms}
Modes == {"between", "string", "ended", "name", "refused"}
Readings == {Reading(mode, value, tokens) :
                mode \in Modes, value \in Seq(Atoms), tokens \in Seq(TextTokens)}

\* An atom leaves the reading of a text one.
LEMMA AtomIsRead ==
    ASSUME NEW r \in Readings, NEW c \in Atoms PROVE ReadAtom(r, c) \in Readings
<1> DEFINE A == Atoms  S == TextTokens
<1>1. PICK mode \in Modes, value \in Seq(A), tokens \in Seq(S) : r = Reading(mode, value, tokens)
  BY DEF Readings
<1>2. r.mode = mode /\ r.value = value /\ r.tokens = tokens
  BY <1>1 DEF Reading
<1>3. ASSUME NEW m \in Modes, NEW v \in Seq(A), NEW t \in Seq(S) PROVE Reading(m, v, t) \in Readings
  BY DEF Readings
<1>4. <<>> \in Seq(A) /\ <<c>> \in Seq(A) /\ <<>> \in Seq(S)
  OBVIOUS
<1>5. Append(value, c) \in Seq(A)
  OBVIOUS
<1>6. \A k \in {"word", "equals", "quoted"}, x \in Atoms : Token(k, x) \in S
  BY DEF TextTokens
<1>7. \A x \in Seq(Atoms) : Token("string", x) \in S
  BY DEF TextTokens
<1> HIDE DEF A, S
<1>8. \A t \in Seq(S), x \in S : Append(t, x) \in Seq(S)
  BY AppendProperties
<1>9. Refused \in Readings
  BY <1>3, <1>4 DEF Refused, Modes
<1>10. ASSUME NEW t \in Seq(S) PROVE Begin(t, c) \in Readings
  <2>1. CASE c = Blank
    <3>1. Begin(t, c) = Reading("between", <<>>, t)
      BY <2>1 DEF Begin, Marks, Blank, Quote, DQuote, Escape
    <3> QED BY <1>3, <1>4, <3>1 DEF Modes
  <2>2. CASE c = Quote
    <3>1. Begin(t, c) = Reading("string", <<>>, t)
      BY <2>2 DEF Begin, Marks, Blank, Quote, DQuote, Escape
    <3> QED BY <1>3, <1>4, <3>1 DEF Modes
  <2>3. CASE c = DQuote
    <3>1. Begin(t, c) = Reading("name", <<>>, t)
      BY <2>3 DEF Begin, Marks, Blank, Quote, DQuote, Escape
    <3> QED BY <1>3, <1>4, <3>1 DEF Modes
  <2>4. CASE c = "="
    <3>1. PICK u : u = Append(t, Token("equals", c))
      OBVIOUS
    <3>2. u \in Seq(S)
      BY <1>6, <1>8, <3>1
    <3>3. Begin(t, c) = Reading("between", <<>>, u)
      BY <2>4, <3>1 DEF Begin, Marks, Blank, Quote, DQuote, Escape
    <3> QED BY <1>3, <1>4, <3>2, <3>3 DEF Modes
  <2>5. CASE c \notin Marks
    <3>1. PICK u : u = Append(t, Token("word", c))
      OBVIOUS
    <3>2. u \in Seq(S)
      BY <1>6, <1>8, <3>1
    <3>3. Begin(t, c) = Reading("between", <<>>, u)
      BY <2>5, <3>1 DEF Begin, Marks
    <3> QED BY <1>3, <1>4, <3>2, <3>3 DEF Modes
  <2>6. CASE c \in {Escape, "%", "("}
    <3>1. Begin(t, c) = Refused
      BY <2>6 DEF Begin, Marks, Blank, Quote, DQuote, Escape
    <3> QED BY <1>9, <3>1
  <2> QED BY <2>1, <2>2, <2>3, <2>4, <2>5, <2>6 DEF Marks
<1>11. CASE mode = "between"
  BY <1>2, <1>10, <1>11 DEF ReadAtom
<1>12. CASE mode = "string"
  <2>1. ReadAtom(r, c) = IF c = Quote THEN Reading("ended", value, tokens)
                         ELSE Reading("string", Append(value, c), tokens)
    BY <1>2, <1>12 DEF ReadAtom
  <2> QED BY <1>3, <1>5, <2>1 DEF Modes, A, S
<1>13. CASE mode = "ended"
  <2>1. PICK u : u = Append(tokens, Token("string", value))
    OBVIOUS
  <2>2. u \in Seq(S)
    BY <1>7, <1>8, <2>1 DEF A
  <2>3. ReadAtom(r, c) = IF c = Quote THEN Reading("string", Append(value, c), tokens) ELSE Begin(u, c)
    BY <1>2, <1>13, <2>1 DEF ReadAtom
  <2> QED BY <1>3, <1>5, <1>10, <2>2, <2>3 DEF Modes
<1>14. CASE mode = "name"
  <2>1. CASE c \notin Marks /\ value = <<>>
    <3>1. ReadAtom(r, c) = Reading("name", <<c>>, tokens)
      BY <1>2, <1>14, <2>1 DEF ReadAtom
    <3> QED BY <1>3, <1>4, <3>1 DEF Modes
  <2>2. CASE c = DQuote /\ value # <<>>
    <3>1. PICK u : u = Append(tokens, Token("quoted", value[1]))
      OBVIOUS
    <3>2. value[1] \in Atoms
      BY <2>2 DEF A
    <3>3. u \in Seq(S)
      BY <1>6, <1>8, <3>1, <3>2
    <3>4. ReadAtom(r, c) = Reading("between", <<>>, u)
      BY <1>2, <1>14, <2>2, <3>1 DEF ReadAtom, Marks
    <3> QED BY <1>3, <1>4, <3>3, <3>4 DEF Modes
  <2>3. CASE ~(c \notin Marks /\ value = <<>>) /\ ~(c = DQuote /\ value # <<>>)
    <3>1. ReadAtom(r, c) = Refused
      BY <1>2, <1>14, <2>3 DEF ReadAtom
    <3> QED BY <1>9, <3>1
  <2> QED BY <2>1, <2>2, <2>3
<1>15. CASE mode = "refused"
  BY <1>2, <1>15 DEF ReadAtom
<1> QED BY <1>11, <1>12, <1>13, <1>14, <1>15 DEF Modes

\* The tokens of a text are tokens of texts.
LEMMA TokensAre == ASSUME NEW text \in Seq(Atoms) PROVE Tokens(text) \subseteq Seq(TextTokens)
<1>1. PICK r : r = Reading("between", <<>>, <<>>)
  OBVIOUS
<1>2. r \in Readings
  <2>1. ASSUME NEW m \in Modes, NEW v \in Seq(Atoms), NEW t \in Seq(TextTokens)
        PROVE  Reading(m, v, t) \in Readings
    BY DEF Readings
  <2>2. <<>> \in Seq(Atoms) /\ <<>> \in Seq(TextTokens) /\ "between" \in Modes
    BY DEF Modes
  <2> QED BY <1>1, <2>1, <2>2
<1>3. PICK f : f = ReadsFrom(r, text)
  OBVIOUS
<1>4. f[0] = r /\ \A i \in 1..Len(text) : f[i] = ReadAtom(f[i - 1], text[i])
  BY <1>3, ReadsFromIs
<1>5. Len(text) \in Nat /\ \A i \in 1..Len(text) : text[i] \in Atoms
  BY LenProperties, ElementOfSeq
<1> DEFINE T == {i \in 0..Len(text) : f[i] \in Readings}
<1>6. 0 \in T
  BY <1>2, <1>4, <1>5
<1>7. \A n \in 0..Len(text) - 1 : n \in T => n + 1 \in T
  <2> SUFFICES ASSUME NEW n \in 0..Len(text) - 1, n \in T PROVE n + 1 \in T
    OBVIOUS
  <2>1. n + 1 \in 1..Len(text) /\ (n + 1) - 1 = n /\ n + 1 \in 0..Len(text)
    BY <1>5
  <2>2. f[n + 1] = ReadAtom(f[n], text[n + 1]) /\ text[n + 1] \in Atoms
    BY <1>4, <1>5, <2>1
  <2>3. f[n + 1] \in Readings
    BY <2>2, AtomIsRead
  <2> QED BY <2>1, <2>3
<1>8. \A n \in 0..Len(text) : n \in T
  <2> HIDE DEF T
  <2> QED BY <1>5, <1>6, <1>7, UpTo
<1>9. PICK s : s = Reads(r, text)
  OBVIOUS
<1>10. s \in Readings
  BY <1>3, <1>5, <1>8, <1>9, ReadsIs
<1>11. PICK mode \in Modes, value \in Seq(Atoms), tokens \in Seq(TextTokens) :
           s = Reading(mode, value, tokens)
  BY <1>10 DEF Readings
<1>12. s.mode = mode /\ s.value = value /\ s.tokens = tokens
  BY <1>11 DEF Reading
<1>13. Append(tokens, Token("string", value)) \in Seq(TextTokens)
  <2>1. Token("string", value) \in TextTokens
    BY DEF TextTokens
  <2> QED BY <2>1, AppendProperties
<1>14. CASE mode = "between"
  <2>1. Tokens(text) = {tokens}
    BY <1>1, <1>9, <1>12, <1>14 DEF Tokens
  <2> QED BY <2>1
<1>15. CASE mode = "ended"
  <2>1. Tokens(text) = {Append(tokens, Token("string", value))}
    BY <1>1, <1>9, <1>12, <1>15 DEF Tokens
  <2> QED BY <1>13, <2>1
<1>16. CASE mode \in {"string", "name", "refused"}
  <2>1. Tokens(text) = {}
    BY <1>1, <1>9, <1>12, <1>16 DEF Tokens
  <2> QED BY <2>1
<1> QED BY <1>14, <1>15, <1>16 DEF Modes

\* What a text is parsed as compares properties it may compare with texts.
IsParsed(condition, allowed) ==
    /\ Len(condition) \in Nat /\ DOMAIN condition = 1..Len(condition)
    /\ \A i \in DOMAIN condition :
          /\ condition[i].property \in allowed /\ condition[i].value \in Seq(Atoms)
          /\ condition[i].operator \in {"=", "LIKE"}

\* A text of atoms is parsed as such a condition.
LEMMA ParsedIs ==
    ASSUME NEW text \in Seq(Atoms), NEW allowed, NEW condition \in Parse(text, allowed)
    PROVE  IsParsed(condition, allowed)
<1>1. PICK t \in Tokens(text) :
        /\ IsCondition(t, allowed)
        /\ condition = [k \in 1..(Len(t) + 1) \div 4 |->
                          ComparisonOf(t[4 * k - 3], t[4 * k - 2], t[4 * k - 1])]
  BY DEF Parse
<1>2. PICK n : n = (Len(t) + 1) \div 4
  OBVIOUS
<1>3. t \in Seq(TextTokens) /\ Len(t) \in Nat
  BY TokensAre, LenProperties
<1>4. n \in Nat /\ (t = <<>> => n = 0)
  BY <1>2, <1>3
<1>5. DOMAIN condition = 1..n /\ Len(condition) = n
  BY <1>1, <1>2, <1>4
<1>6. ASSUME NEW k \in 1..n
      PROVE  /\ condition[k].property \in allowed /\ condition[k].value \in Seq(Atoms)
             /\ condition[k].operator \in {"=", "LIKE"}
  <2>1. PICK p, o, l : p = t[4 * k - 3] /\ o = t[4 * k - 2] /\ l = t[4 * k - 1]
    OBVIOUS
  <2>2. IsComparison(p, o, l, allowed) /\ condition[k] = ComparisonOf(p, o, l)
    BY <1>1, <1>2, <2>1 DEF IsCondition
  <2>3. l.kind = "string" /\ p.text \in allowed
    BY <2>2 DEF IsComparison
  <2>4. Len(t) + 1 = 4 * n
    BY <1>1, <1>2, <1>4 DEF IsCondition
  <2>5. 4 * k - 1 \in 1..Len(t)
    BY <1>3, <1>4, <2>4
  <2>6. l \in TextTokens
    BY <1>3, <2>1, <2>5, ElementOfSeq
  <2>7. l.text \in Seq(Atoms)
    <3>1. \A x, kind : Token(kind, x).kind = kind /\ Token(kind, x).text = x
      BY DEF Token
    <3>2. CASE l \in {Token("string", x) : x \in Seq(Atoms)}
      BY <3>1, <3>2
    <3>3. CASE l \in {Token(kind, x) : kind \in {"word", "equals", "quoted"}, x \in Atoms}
      BY <2>3, <3>1, <3>3
    <3> QED BY <2>6, <3>2, <3>3 DEF TextTokens
  <2> QED BY <2>2, <2>3, <2>7 DEF ComparisonOf, Comparison
<1> QED BY <1>4, <1>5, <1>6 DEF IsParsed
-----------------------------------------------------------------------------
(* The arguments of a condition *)

\* The arguments that are known after one more comparison.
Argument(c) == [name |-> c.property, value |-> c.value]
Learnt(known, c) ==
    IF c.property \in SELECTION_PROPERTIES \/ Known(known, c.property) THEN known
    ELSE Append(known, Argument(c))
KnownFrom(condition) ==
    CHOOSE known : known = [i \in 0..Len(condition) |->
        IF i = 0 THEN <<>>
        ELSE IF \/ condition[i].property \in SELECTION_PROPERTIES
                \/ Known(known[i - 1], condition[i].property)
        THEN known[i - 1]
        ELSE Append(known[i - 1], [name |-> condition[i].property, value |-> condition[i].value])]

\* Arguments is what is known after the last comparison.
LEMMA ArgumentsIs == ASSUME NEW c PROVE Arguments(c) = KnownFrom(c)[Len(c)]
BY DEF Arguments, KnownFrom

\* The function that Arguments is defined by exists.
LEMMA KnownFromIs ==
    ASSUME NEW condition, Len(condition) \in Nat
    PROVE  /\ KnownFrom(condition)[0] = <<>>
           /\ \A i \in 1..Len(condition) :
                 KnownFrom(condition)[i] = Learnt(KnownFrom(condition)[i - 1], condition[i])
<1>0. PICK N \in Nat : N = Len(condition)
  OBVIOUS
<1> DEFINE Is(g, n) == g = [i \in 0..n |-> IF i = 0 THEN <<>> ELSE Learnt(g[i - 1], condition[i])]
           T == {n \in 0..N : \E g : Is(g, n)}
<1>1. Is([i \in 0..0 |-> <<>>], 0)
  OBVIOUS
<1>2. ASSUME NEW n \in 0..N - 1, NEW g, Is(g, n) PROVE \E h : Is(h, n + 1)
  <2> DEFINE h == [i \in 0..n + 1 |-> IF i <= n THEN g[i] ELSE Learnt(g[n], condition[n + 1])]
  <2>1. \A i \in 0..n + 1 : h[i] = IF i = 0 THEN <<>> ELSE Learnt(h[i - 1], condition[i])
    BY <1>2
  <2>2. Is(h, n + 1)
    BY <2>1
  <2> HIDE DEF h, Is
  <2> QED BY <2>2
<1> HIDE DEF Is
<1>3. 0 \in 0..N /\ N \in 0..N /\ \A n \in 0..N - 1 : n + 1 \in 0..N /\ n \in 0..N
  BY <1>0
<1>4. 0 \in T
  BY <1>1, <1>3
<1>5. \A n \in 0..N - 1 : n \in T => n + 1 \in T
  BY <1>2, <1>3
<1>6. \A n \in 0..N : n \in T
  <2> HIDE DEF T
  <2> QED BY <1>0, <1>4, <1>5, UpTo
<1>7. \E g : Is(g, N)
  BY <1>3, <1>6
<1>8. PICK k : k = KnownFrom(condition)
  OBVIOUS
<1>9. k = CHOOSE g : Is(g, N)
  <2>1. \A g : Is(g, N) <=> g = [i \in 0..Len(condition) |->
          IF i = 0 THEN <<>>
          ELSE IF \/ condition[i].property \in SELECTION_PROPERTIES
                  \/ Known(g[i - 1], condition[i].property)
          THEN g[i - 1]
          ELSE Append(g[i - 1], [name |-> condition[i].property, value |-> condition[i].value])]
    BY <1>0 DEF Is, Learnt, Argument
  <2> QED BY <1>8, <2>1, Zenon DEF KnownFrom
<1>10. Is(k, N)
  BY <1>7, <1>9
<1>11. \A i \in 0..N : k[i] = IF i = 0 THEN <<>> ELSE Learnt(k[i - 1], condition[i])
  BY <1>10 DEF Is
<1>12. \A i \in 1..N : i \in 0..N /\ i # 0
  BY <1>0
<1> QED BY <1>0, <1>3, <1>8, <1>11, <1>12

\* The arguments of a condition, among the first n of its comparisons.
AreArguments(given, condition, n) ==
    /\ Len(given) \in Nat /\ DOMAIN given = 1..Len(given)
    /\ \A k \in 1..Len(given) : \E i \in 1..n :
          /\ condition[i].property \notin SELECTION_PROPERTIES
          /\ given[k] = Argument(condition[i])
    /\ \A k, l \in 1..Len(given) : given[k].name = given[l].name => k = l
    /\ \A i \in 1..n : condition[i].property \notin SELECTION_PROPERTIES =>
          \E k \in 1..Len(given) : given[k].name = condition[i].property

\* One comparison more, for arguments in a set of them.
LEMMA ArgumentsGrow ==
    ASSUME NEW S, NEW given \in Seq(S), NEW condition, NEW n \in Nat,
           AreArguments(given, condition, n), Argument(condition[n + 1]) \in S
    PROVE  /\ Learnt(given, condition[n + 1]) \in Seq(S)
           /\ AreArguments(Learnt(given, condition[n + 1]), condition, n + 1)
<1>1. PICK c, m : c = condition[n + 1] /\ m = n + 1
  OBVIOUS
<1>2. 1..m = 1..n \cup {m} /\ condition[m] = c /\ m \in 1..m
  BY <1>1
<1>3. DOMAIN given = 1..Len(given) /\ Len(given) \in Nat
  BY LenProperties
<1>4. Argument(c).name = c.property
  BY DEF Argument
<1>5. CASE c.property \in SELECTION_PROPERTIES
  <2>1. Learnt(given, c) = given
    BY <1>5 DEF Learnt
  <2>2. AreArguments(given, condition, m)
    BY <1>2, <1>5 DEF AreArguments
  <2> QED BY <1>1, <2>1, <2>2
<1>6. CASE c.property \notin SELECTION_PROPERTIES /\ Known(given, c.property)
  <2>1. Learnt(given, c) = given
    BY <1>6 DEF Learnt
  <2>2. \E k \in 1..Len(given) : given[k].name = c.property
    BY <1>3, <1>6 DEF Known
  <2>3. AreArguments(given, condition, m)
    BY <1>2, <2>2 DEF AreArguments
  <2> QED BY <1>1, <2>1, <2>3
<1>7. CASE c.property \notin SELECTION_PROPERTIES /\ ~Known(given, c.property)
  <2>1. PICK a : a = Argument(c)
    OBVIOUS
  <2>2. PICK more : more = Append(given, a)
    OBVIOUS
  <2>3. Learnt(given, c) = more
    BY <1>7, <2>1, <2>2 DEF Learnt
  <2>4. /\ more \in Seq(S) /\ Len(more) = Len(given) + 1 /\ more[Len(given) + 1] = a
        /\ \A k \in 1..Len(given) : more[k] = given[k]
    BY <1>1, <2>1, <2>2, AppendProperties
  <2>5. /\ 1..Len(more) = 1..Len(given) \cup {Len(given) + 1} /\ Len(given) + 1 \notin 1..Len(given)
        /\ Len(more) \in Nat /\ DOMAIN more = 1..Len(more)
    BY <1>3, <2>4, LenProperties
  <2>6. PICK last : last = Len(given) + 1
    OBVIOUS
  <2>7. \A k \in 1..Len(given) : given[k].name # c.property
    BY <1>3, <1>7 DEF Known
  <2>8. a.name = c.property
    BY <1>4, <2>1
  <2>9. \A k \in 1..Len(more) : \E i \in 1..m :
          condition[i].property \notin SELECTION_PROPERTIES /\ more[k] = Argument(condition[i])
    <3> SUFFICES ASSUME NEW k \in 1..Len(more)
                 PROVE  \E i \in 1..m : condition[i].property \notin SELECTION_PROPERTIES
                                         /\ more[k] = Argument(condition[i])
      OBVIOUS
    <3>1. CASE k = last
      <4>1. more[k] = Argument(condition[m])
        BY <1>2, <2>1, <2>4, <2>6, <3>1
      <4>2. m \in 1..m /\ condition[m].property \notin SELECTION_PROPERTIES
        BY <1>2, <1>7
      <4> QED BY <4>1, <4>2
    <3>2. CASE k \in 1..Len(given)
      <4>1. PICK i \in 1..n : /\ condition[i].property \notin SELECTION_PROPERTIES
                              /\ given[k] = Argument(condition[i])
        BY <3>2 DEF AreArguments
      <4>2. i \in 1..m /\ more[k] = given[k]
        BY <1>2, <2>4, <3>2
      <4> QED BY <4>1, <4>2
    <3> QED BY <2>5, <2>6, <3>1, <3>2
  <2>10. \A k, l \in 1..Len(more) : more[k].name = more[l].name => k = l
    <3> SUFFICES ASSUME NEW k \in 1..Len(more), NEW l \in 1..Len(more), more[k].name = more[l].name
                 PROVE  k = l
      OBVIOUS
    <3>1. CASE k \in 1..Len(given) /\ l \in 1..Len(given)
      BY <2>4, <3>1 DEF AreArguments
    <3>2. CASE k = last /\ l \in 1..Len(given)
      BY <2>4, <2>6, <2>7, <2>8, <3>2
    <3>3. CASE k \in 1..Len(given) /\ l = last
      BY <2>4, <2>6, <2>7, <2>8, <3>3
    <3> QED BY <2>5, <2>6, <3>1, <3>2, <3>3
  <2>11. \A i \in 1..m : condition[i].property \notin SELECTION_PROPERTIES =>
            \E k \in 1..Len(more) : more[k].name = condition[i].property
    <3> SUFFICES ASSUME NEW i \in 1..m, condition[i].property \notin SELECTION_PROPERTIES
                 PROVE  \E k \in 1..Len(more) : more[k].name = condition[i].property
      OBVIOUS
    <3>1. CASE i = m
      BY <1>2, <2>4, <2>5, <2>8, <3>1
    <3>2. CASE i \in 1..n
      <4>1. PICK k \in 1..Len(given) : given[k].name = condition[i].property
        BY <3>2 DEF AreArguments
      <4> QED BY <2>4, <2>5, <4>1
    <3> QED BY <1>2, <3>1, <3>2
  <2>12. AreArguments(more, condition, m)
    BY <2>5, <2>9, <2>10, <2>11 DEF AreArguments
  <2> QED BY <1>1, <2>3, <2>4, <2>12
<1> QED BY <1>5, <1>6, <1>7

\* The arguments of a condition are what its comparisons that do not select give, each name once.
LEMMA ArgumentsAre ==
    ASSUME NEW condition, Len(condition) \in Nat
    PROVE  /\ Arguments(condition) \in Seq({Argument(condition[i]) : i \in 1..Len(condition)})
           /\ AreArguments(Arguments(condition), condition, Len(condition))
<1>1. PICK N \in Nat : N = Len(condition)
  OBVIOUS
<1>2. PICK k : k = KnownFrom(condition)
  OBVIOUS
<1>3. k[0] = <<>> /\ \A i \in 1..N : k[i] = Learnt(k[i - 1], condition[i])
  BY <1>1, <1>2, KnownFromIs
<1>4. PICK S : S = {Argument(condition[i]) : i \in 1..N}
  OBVIOUS
<1> DEFINE T == {n \in 0..N : k[n] \in Seq(S) /\ AreArguments(k[n], condition, n)}
<1>5. 0 \in T
  <2>1. <<>> \in Seq(S) /\ Len(<<>>) = 0 /\ DOMAIN <<>> = 1..0 /\ 1..0 = {} /\ 0 \in Nat
    OBVIOUS
  <2>2. PICK e : e = <<>>
    OBVIOUS
  <2>3. AreArguments(e, condition, 0)
    BY <2>1, <2>2 DEF AreArguments
  <2>4. k[0] = e /\ e \in Seq(S) /\ 0 \in 0..N
    BY <1>3, <2>1, <2>2
  <2> QED BY <2>3, <2>4
<1>6. \A n \in 0..N - 1 : n \in T => n + 1 \in T
  <2> SUFFICES ASSUME NEW n \in 0..N - 1, n \in T PROVE n + 1 \in T
    OBVIOUS
  <2>1. n \in Nat /\ n + 1 \in 1..N /\ (n + 1) - 1 = n /\ n + 1 \in 0..N
    BY <1>1
  <2>2. k[n + 1] = Learnt(k[n], condition[n + 1]) /\ Argument(condition[n + 1]) \in S
    BY <1>3, <1>4, <2>1
  <2>3. PICK given : given = k[n]
    OBVIOUS
  <2>4. given \in Seq(S) /\ AreArguments(given, condition, n)
    BY <2>3
  <2>5. /\ Learnt(given, condition[n + 1]) \in Seq(S)
        /\ AreArguments(Learnt(given, condition[n + 1]), condition, n + 1)
    BY <2>1, <2>2, <2>4, ArgumentsGrow
  <2> QED BY <2>1, <2>2, <2>3, <2>5
<1>7. \A n \in 0..N : n \in T
  <2> HIDE DEF T
  <2> QED BY <1>1, <1>5, <1>6, UpTo
<1>8. N \in 0..N
  OBVIOUS
<1> QED BY <1>1, <1>2, <1>4, <1>7, <1>8, ArgumentsIs
-----------------------------------------------------------------------------
(* The condition that is passed on *)

\* The texts that all_of joins, on its way.
Keep(kept, text) == IF IsBlank(text) THEN kept ELSE Append(kept, text)

\* Texts that are not blank are joined, all of them.
LEMMA AllOfIs ==
    ASSUME NEW S, NEW texts \in Seq(S), \A i \in 1..Len(texts) : ~IsBlank(texts[i])
    PROVE  AllOf(texts) = Joined(texts)
<1>1. PICK N \in Nat : N = Len(texts)
  BY LenProperties
<1> DEFINE Is(g) == g = [i \in 0..N |-> IF i = 0 THEN <<>> ELSE Keep(g[i - 1], texts[i])]
<1>2. PICK prefix : prefix = [n \in 0..N |-> SubSeq(texts, 1, n)]
  OBVIOUS
<1>3. prefix[0] = <<>> /\ prefix[N] = texts
  BY <1>1, <1>2
<1>4. ASSUME NEW n \in 1..N PROVE Keep(prefix[n - 1], texts[n]) = prefix[n]
  <2>1. n - 1 \in 0..N - 1 /\ (n - 1) + 1 = n /\ n - 1 \in 0..N /\ n \in 0..N
    BY <1>1
  <2>2. PICK m : m = n - 1
    OBVIOUS
  <2>3. SubSeq(texts, 1, m + 1) = Append(SubSeq(texts, 1, m), texts[m + 1])
    BY <1>1, <2>1, <2>2, SubSeqGrows
  <2>4. ~IsBlank(texts[n])
    BY <1>1
  <2> QED BY <1>2, <2>1, <2>2, <2>3, <2>4 DEF Keep
<1>5. \E g : Is(g)
  <2>1. \A n \in 0..N : prefix[n] = IF n = 0 THEN <<>> ELSE Keep(prefix[n - 1], texts[n])
    <3> SUFFICES ASSUME NEW n \in 0..N
                 PROVE  prefix[n] = IF n = 0 THEN <<>> ELSE Keep(prefix[n - 1], texts[n])
      OBVIOUS
    <3>1. n = 0 \/ n \in 1..N
      OBVIOUS
    <3> QED BY <1>3, <1>4, <3>1
  <2>2. Is(prefix)
    BY <1>2, <2>1
  <2> HIDE DEF Is
  <2> QED BY <2>2
<1>6. PICK k : k = CHOOSE g : Is(g)
  OBVIOUS
<1>7. Is(k)
  BY <1>5, <1>6
<1>8. AllOf(texts) = Joined(k[N])
  <2>1. \A g : Is(g) <=> g = [i \in 0..Len(texts) |->
          IF i = 0 THEN <<>>
          ELSE IF IsBlank(texts[i]) THEN g[i - 1] ELSE Append(g[i - 1], texts[i])]
    BY <1>1 DEF Keep
  <2> HIDE DEF Is
  <2> QED BY <1>1, <1>6, <2>1, Zenon DEF AllOf
<1>9. k[0] = <<>> /\ \A i \in 1..N : k[i] = Keep(k[i - 1], texts[i])
  <2>1. \A i \in 0..N : k[i] = IF i = 0 THEN <<>> ELSE Keep(k[i - 1], texts[i])
    BY <1>7
  <2>2. 0 \in 0..N /\ \A i \in 1..N : i \in 0..N /\ i # 0
    OBVIOUS
  <2> QED BY <2>1, <2>2
<1> DEFINE T == {n \in 0..N : k[n] = prefix[n]}
<1>10. 0 \in T
  BY <1>3, <1>9
<1>11. \A n \in 0..N - 1 : n \in T => n + 1 \in T
  <2> SUFFICES ASSUME NEW n \in 0..N - 1, n \in T PROVE n + 1 \in T
    OBVIOUS
  <2>1. n + 1 \in 1..N /\ (n + 1) - 1 = n /\ n + 1 \in 0..N
    OBVIOUS
  <2> QED BY <1>4, <1>9, <2>1
<1>12. \A n \in 0..N : n \in T
  <2> HIDE DEF T
  <2> QED BY <1>10, <1>11, UpTo
<1>13. N \in 0..N
  OBVIOUS
<1> QED BY <1>3, <1>8, <1>12, <1>13

\* What is written for a comparison begins with its property.
LEMMA ComparisonNotBlank ==
    ASSUME NEW c, NEW allowed, Writable(c, allowed) PROVE ~IsBlank(ComparisonText(c))
<1>1. c.property # Blank
  BY DEF Writable, Marks
<1>2. PICK A : /\ A = Atoms /\ c.property \in A /\ c.operator \in A /\ Blank \in A
  BY AtomsAssumption DEF Writable, Marks, KEYWORDS
<1>3. PICK s, q : s = <<c.property, Blank, c.operator, Blank>> /\ q = Quoted(c.value)
  OBVIOUS
<1>4. s \in Seq(A) /\ Len(s) = 4 /\ s[1] = c.property
  BY <1>2, <1>3
<1>5. q \in Seq(A)
  BY <1>2, <1>3, ReadsQuoted, AtomsAssumption DEF Writable, Marks
<1>6. PICK t : t = s \o q
  OBVIOUS
<1>7. t \in Seq(A) /\ Len(t) = Len(s) + Len(q) /\ t[1] = c.property
  <2>1. /\ t \in Seq(A) /\ Len(t) = Len(s) + Len(q)
        /\ \A i \in 1..Len(s) : t[i] = s[i]
    <3>1. s \in Seq(A) /\ q \in Seq(A)
      BY <1>4, <1>5
    <3>2. /\ s \o q \in Seq(A) /\ Len(s \o q) = Len(s) + Len(q)
          /\ \A i \in 1..Len(s) : (s \o q)[i] = s[i]
      BY <3>1, ConcatProperties
    <3> QED BY <1>6, <3>2
  <2>2. 1 \in 1..Len(s)
    BY <1>4
  <2> QED BY <1>4, <2>1, <2>2
<1>8. 1 \in DOMAIN t
  BY <1>4, <1>5, <1>7, LenProperties
<1> QED BY <1>1, <1>3, <1>6, <1>7, <1>8 DEF ComparisonText, IsBlank

\* The condition that a child engine gets for a picked component.
Forwarding(ref, arguments) ==
    [i \in 1..Len(arguments) + 1 |->
        IF i = 1 THEN Comparison(COMPONENT_REF, "=", ref)
        ELSE Comparison(arguments[i - 1].name, "=", arguments[i - 1].value)]

\* Arguments that eq can write.
CanBeGiven(arguments) ==
    /\ Len(arguments) \in Nat /\ DOMAIN arguments = 1..Len(arguments)
    /\ arguments = [k \in 1..Len(arguments) |-> arguments[k]]
    /\ \A k \in 1..Len(arguments) :
          /\ Named(arguments[k].name) /\ arguments[k].value \in Seq(Atoms)
          /\ arguments[k].name \notin SELECTION_PROPERTIES
          /\ arguments[k] = Argument([property |-> arguments[k].name, value |-> arguments[k].value])
    /\ \A k, l \in 1..Len(arguments) : arguments[k].name = arguments[l].name => k = l

\* It is a sequence of comparisons the language has a form for.
LEMMA ForwardingIs ==
    ASSUME NEW ref \in Seq(Atoms), NEW arguments, CanBeGiven(arguments), NEW allowed,
           SELECTION_PROPERTIES \subseteq allowed,
           \A k \in 1..Len(arguments) : arguments[k].name \in allowed
    PROVE  /\ Forwarding(ref, arguments) \in
                 Seq({Forwarding(ref, arguments)[i] : i \in DOMAIN Forwarding(ref, arguments)})
           /\ \A i \in DOMAIN Forwarding(ref, arguments) : Writable(Forwarding(ref, arguments)[i], allowed)
<1>0. PICK n \in Nat : n = Len(arguments)
  BY DEF CanBeGiven
<1>1. PICK d : n = Len(arguments) /\ d = Forwarding(ref, arguments)
  BY <1>0
<1>2. DOMAIN d = 1..n + 1 /\ n + 1 \in Nat /\ d = [i \in 1..n + 1 |-> d[i]]
  BY <1>1 DEF Forwarding
<1>3. d \in Seq({d[i] : i \in DOMAIN d})
  BY <1>2
<1>4. ASSUME NEW i \in 1..n + 1 PROVE Writable(d[i], allowed)
  <2>1. CASE i = 1
    <3>1. d[i] = Comparison(COMPONENT_REF, "=", ref)
      BY <1>1, <2>1 DEF Forwarding
    <3>2. /\ d[i].property = COMPONENT_REF /\ d[i].operator = "=" /\ d[i].value = ref
          /\ d[i] = Comparison(d[i].property, d[i].operator, d[i].value)
      BY <3>1 DEF Comparison
    <3>3. COMPONENT_REF \in allowed \cap (Atoms \ Marks)
      BY AtomsAssumption DEF SELECTION_PROPERTIES, COMPONENT_REF, Marks, Blank, Quote, DQuote, Escape
    <3>4. Upper(COMPONENT_REF) \notin KEYWORDS
      BY DEF COMPONENT_REF, Upper, KEYWORDS
    <3> QED BY <3>2, <3>3, <3>4 DEF Writable
  <2>2. CASE i # 1
    <3>1. PICK k \in 1..n : k = i - 1
      BY <2>2
    <3>2. d[i] = Comparison(arguments[k].name, "=", arguments[k].value)
      BY <1>1, <2>2, <3>1 DEF Forwarding
    <3>3. /\ d[i].property = arguments[k].name /\ d[i].operator = "="
          /\ d[i].value = arguments[k].value
          /\ d[i] = Comparison(d[i].property, d[i].operator, d[i].value)
      BY <3>2 DEF Comparison
    <3>4. Named(arguments[k].name) /\ arguments[k].value \in Seq(Atoms) /\ arguments[k].name \in allowed
      BY <1>1 DEF CanBeGiven
    <3> QED BY <3>3, <3>4 DEF Writable, Named
  <2> QED BY <2>1, <2>2
<1> QED BY <1>1, <1>2, <1>3, <1>4

\* child.py writes this condition.
LEMMA ForwardedIs ==
    ASSUME NEW ref \in Seq(Atoms), NEW arguments, CanBeGiven(arguments)
    PROVE  Forwarded(ref, arguments) = ConditionText(Forwarding(ref, arguments))
<1>0. PICK n \in Nat : n = Len(arguments)
  BY DEF CanBeGiven
<1>1. PICK d : n = Len(arguments) /\ d = Forwarding(ref, arguments)
  BY <1>0
<1>2. PICK allowed : allowed = SELECTION_PROPERTIES \cup {arguments[k].name : k \in 1..n}
  OBVIOUS
<1>3. DOMAIN d = 1..n + 1 /\ \A i \in 1..n + 1 : Writable(d[i], allowed)
  <2>1. SELECTION_PROPERTIES \subseteq allowed /\ \A k \in 1..Len(arguments) : arguments[k].name \in allowed
    BY <1>1, <1>2
  <2>2. \A i \in DOMAIN d : Writable(d[i], allowed)
    BY <1>1, <2>1, ForwardingIs
  <2>3. DOMAIN d = 1..n + 1
    BY <1>1 DEF Forwarding
  <2> QED BY <2>2, <2>3
<1>4. PICK texts : texts = [i \in DOMAIN d |-> ComparisonText(d[i])]
  OBVIOUS
<1>5. /\ texts \in Seq(Seq(Atoms)) /\ Len(texts) = n + 1
      /\ \A i \in 1..Len(texts) : ~IsBlank(texts[i])
  <2>1. \A i \in 1..n + 1 : ComparisonText(d[i]) \in Seq(Atoms)
    BY <1>3, ReadsComparison
  <2>2. PICK S : S = Seq(Atoms)
    OBVIOUS
  <2>3. texts \in [1..n + 1 -> S]
    BY <1>3, <1>4, <2>1, <2>2
  <2>4. texts \in Seq(S) /\ Len(texts) = n + 1
    BY <2>3
  <2>5. \A i \in 1..n + 1 : ~IsBlank(ComparisonText(d[i]))
    BY <1>3, ComparisonNotBlank
  <2> QED BY <1>3, <1>4, <2>2, <2>4, <2>5
<1>6. PICK head, tail : head = <<Eq(COMPONENT_REF, ref)>>
                        /\ tail = [i \in DOMAIN arguments |-> Eq(arguments[i].name, arguments[i].value)]
  OBVIOUS
<1>7. PICK e : e = Eq(COMPONENT_REF, ref)
  OBVIOUS
<1>8. head = <<e>> /\ e = texts[1]
  <2>1. d[1] = Comparison(COMPONENT_REF, "=", ref) /\ 1 \in DOMAIN d
    BY <1>1, <1>3 DEF Forwarding
  <2> QED BY <1>4, <1>6, <1>7, <2>1 DEF Eq
<1>9. \A k \in 1..n : k + 1 \in 1..n + 1 /\ tail[k] = texts[k + 1]
  <2> SUFFICES ASSUME NEW k \in 1..n PROVE k + 1 \in 1..n + 1 /\ tail[k] = texts[k + 1]
    OBVIOUS
  <2>1. k + 1 \in 1..n + 1 /\ k + 1 # 1 /\ (k + 1) - 1 = k
    OBVIOUS
  <2>2. d[k + 1] = Comparison(arguments[k].name, "=", arguments[k].value)
    BY <1>1, <2>1 DEF Forwarding
  <2>3. k \in DOMAIN arguments
    BY <1>1 DEF CanBeGiven
  <2> QED BY <1>3, <1>4, <1>6, <2>1, <2>2, <2>3 DEF Eq
<1>10. PICK S : S = Seq(Atoms)
  OBVIOUS
<1>11. texts \in Seq(S) /\ \A i \in 1..n + 1 : texts[i] \in S
  BY <1>5, <1>10, ElementOfSeq
<1>12. head \in Seq(S) /\ Len(head) = 1 /\ head[1] = texts[1]
  <2>1. 1 \in 1..n + 1
    OBVIOUS
  <2> QED BY <1>8, <1>11, <2>1
<1>13. tail \in Seq(S) /\ Len(tail) = n
  <2>1. DOMAIN tail = 1..n
    BY <1>1, <1>6 DEF CanBeGiven
  <2>2. tail \in [1..n -> S]
    BY <1>6, <1>9, <1>11, <2>1
  <2> QED BY <2>2
<1>14. PICK all : all = head \o tail
  OBVIOUS
<1>15. all \in Seq(S) /\ Len(all) = n + 1 /\ all[1] = texts[1] /\ \A k \in 1..n : all[k + 1] = texts[k + 1]
  <2>1. /\ all \in Seq(S) /\ Len(all) = Len(head) + Len(tail)
        /\ \A i \in 1..Len(head) : all[i] = head[i]
        /\ \A k \in 1..Len(tail) : all[Len(head) + k] = tail[k]
    <3>1. head \in Seq(S) /\ tail \in Seq(S)
      BY <1>12, <1>13
    <3>2. /\ head \o tail \in Seq(S) /\ Len(head \o tail) = Len(head) + Len(tail)
          /\ \A i \in 1..Len(head) : (head \o tail)[i] = head[i]
          /\ \A k \in 1..Len(tail) : (head \o tail)[Len(head) + k] = tail[k]
      BY <3>1, ConcatProperties
    <3> QED BY <1>14, <3>2
  <2>2. 1 \in 1..Len(head) /\ Len(all) = n + 1
    BY <1>1, <1>12, <1>13, <2>1
  <2>3. ASSUME NEW k \in 1..n PROVE all[k + 1] = texts[k + 1]
    <3>1. Len(head) + k = k + 1 /\ k \in 1..Len(tail)
      BY <1>12, <1>13
    <3>2. all[Len(head) + k] = tail[k]
      BY <2>1, <3>1
    <3> QED BY <1>9, <3>1, <3>2
  <2> QED BY <1>12, <2>1, <2>2, <2>3
<1>16. all = texts
  <2>1. \A i \in 1..n + 1 : all[i] = texts[i]
    <3> SUFFICES ASSUME NEW i \in 1..n + 1 PROVE all[i] = texts[i]
      OBVIOUS
    <3>1. CASE i = 1
      BY <1>15, <3>1
    <3>2. CASE i # 1
      <4>1. i - 1 \in 1..n /\ (i - 1) + 1 = i
        BY <3>2
      <4> QED BY <1>15, <4>1
    <3> QED BY <3>1, <3>2
  <2> QED BY <1>5, <1>11, <1>15, <2>1, SeqEqual
<1>17. AllOf(texts) = Joined(texts)
  BY <1>5, <1>11, AllOfIs
<1> QED BY <1>1, <1>4, <1>6, <1>14, <1>16, <1>17 DEF Forwarded, ConditionText
-----------------------------------------------------------------------------
(* Picking *)

\* The first source of a ref wins.
LEMMA ComponentsAre ==
    ASSUME NEW sources, DOMAIN sources \subseteq Nat, NEW ref \in DOMAIN Components(sources)
    PROVE  /\ Components(sources)[ref].source \in DOMAIN sources
           /\ ref \in DOMAIN sources[Components(sources)[ref].source]
           /\ Components(sources)[ref].profile = sources[Components(sources)[ref].source][ref]
<1>1. PICK S : S = {i \in DOMAIN sources : ref \in DOMAIN sources[i]}
  OBVIOUS
<1>2. ref \in UNION {DOMAIN sources[i] : i \in DOMAIN sources}
  BY DEF Components
<1>3. S \in SUBSET Nat /\ S # {}
  BY <1>1, <1>2
<1>4. \E m \in S : \A k \in S : m <= k
  BY <1>3, Least
<1>5. PICK first : first = CHOOSE i \in DOMAIN sources :
                         /\ ref \in DOMAIN sources[i]
                         /\ \A j \in DOMAIN sources : ref \in DOMAIN sources[j] => i <= j
  OBVIOUS
<1>6. first \in DOMAIN sources /\ ref \in DOMAIN sources[first]
  <2>1. \E i \in DOMAIN sources :
            /\ ref \in DOMAIN sources[i]
            /\ \A j \in DOMAIN sources : ref \in DOMAIN sources[j] => i <= j
    BY <1>1, <1>4
  <2> QED BY <1>5, <2>1
<1>7. Components(sources)[ref] = [profile |-> sources[first][ref], source |-> first]
  BY <1>2, <1>5 DEF Components
<1> QED BY <1>6, <1>7

\* The components of a source of its own.
LEMMA ComponentsOfOne ==
    ASSUME NEW source
    PROVE  /\ DOMAIN Components(<<source>>) = DOMAIN source
           /\ \A ref \in DOMAIN source : Components(<<source>>)[ref].profile = source[ref]
<1>1. PICK sources : sources = <<source>>
  OBVIOUS
<1>2. DOMAIN sources = {1} /\ sources[1] = source
  BY <1>1
<1>3. DOMAIN Components(sources) = DOMAIN source
  BY <1>2 DEF Components
<1>4. ASSUME NEW ref \in DOMAIN source PROVE Components(sources)[ref].profile = source[ref]
  <2>1. DOMAIN sources \subseteq Nat /\ ref \in DOMAIN Components(sources)
    BY <1>2, <1>3
  <2>2. PICK c : c = Components(sources)[ref]
    OBVIOUS
  <2>3. c.source \in DOMAIN sources /\ c.profile = sources[c.source][ref]
    BY <2>1, <2>2, ComponentsAre
  <2> QED BY <1>2, <2>2, <2>3
<1> QED BY <1>1, <1>3, <1>4

\* The pick of a component for a condition.
IsPick(components, message, condition, pick) ==
    /\ Matching(components, Selecting(condition)) \cap Offering(components, message) = {pick.ref}
    /\ Accepted(Giving(condition), components[pick.ref].profile.messages[message])
    /\ pick.source = components[pick.ref].source /\ pick.arguments = Arguments(condition)

\* What picking gives for a text: the one component of a condition the text stands for.
LEMMA PickedIs ==
    ASSUME NEW components, NEW text, NEW message, NEW allowed,
           allowed = SELECTION_PROPERTIES \cup ArgumentNames(components, message),
           NEW pick, pick = Pick(components, text, message), pick.code = "OK"
    PROVE  \E condition \in Parse(text, allowed) : IsPick(components, message, condition, pick)
<1>1. PICK parsed : parsed = Parse(text, SELECTION_PROPERTIES \cup ArgumentNames(components, message))
  OBVIOUS
<1>2. PICK c : c = CHOOSE x \in parsed : TRUE
  OBVIOUS
<1>3. \A code : Failed(code).code = code
  BY DEF Failed
<1>4. pick = IF parsed = {} THEN Failed("BAD_PARAMETER") ELSE PickOne(components, c, message)
  BY <1>1, <1>2 DEF Pick
<1>5. parsed # {} /\ pick = PickOne(components, c, message)
  BY <1>3, <1>4
<1>6. c \in parsed
  BY <1>2, <1>5
<1>7. PICK candidates : candidates = Matching(components, Selecting(c)) \cap Offering(components, message)
  OBVIOUS
<1>8. PICK ref : ref = CHOOSE r \in candidates : TRUE
  OBVIOUS
<1>9. PICK accepted \in BOOLEAN :
          accepted = Accepted(Giving(c), components[ref].profile.messages[message])
  BY DEF Accepted
<1>10. pick = IF candidates = {} THEN Failed("UNSUPPORTED")
              ELSE IF candidates # {ref} THEN Failed("BAD_PARAMETER")
              ELSE IF ~accepted THEN Failed("BAD_PARAMETER")
              ELSE [code |-> "OK", ref |-> ref, source |-> components[ref].source,
                    arguments |-> Arguments(c), key |-> ConditionText(c)]
  BY <1>5, <1>7, <1>8, <1>9, Zenon DEF PickOne
<1>11. /\ candidates = {ref} /\ accepted
       /\ pick = [code |-> "OK", ref |-> ref, source |-> components[ref].source,
                  arguments |-> Arguments(c), key |-> ConditionText(c)]
  BY <1>3, <1>10
<1>12. pick.ref = ref /\ pick.source = components[ref].source /\ pick.arguments = Arguments(c)
  BY <1>11
<1>13. IsPick(components, message, c, pick)
  BY <1>7, <1>9, <1>11, <1>12 DEF IsPick
<1> QED BY <1>1, <1>6, <1>13

\* The arguments of the condition that is passed on are those it was made of.
LEMMA ArgumentsReturn ==
    ASSUME NEW ref, NEW arguments, CanBeGiven(arguments)
    PROVE  Arguments(Forwarding(ref, arguments)) = arguments
<1>0. PICK n \in Nat : n = Len(arguments)
  BY DEF CanBeGiven
<1>1. PICK d : d = Forwarding(ref, arguments)
  OBVIOUS
<1>2. Len(d) = n + 1 /\ n + 1 \in Nat
  BY <1>0, <1>1 DEF Forwarding
<1>3. PICK k : k = KnownFrom(d)
  OBVIOUS
<1>4. k[0] = <<>> /\ \A i \in 1..n + 1 : k[i] = Learnt(k[i - 1], d[i])
  BY <1>2, <1>3, KnownFromIs
<1>5. PICK S : S = {arguments[i] : i \in 1..n}
  OBVIOUS
<1>6. arguments \in Seq(S) /\ DOMAIN arguments = 1..n
  BY <1>0, <1>5 DEF CanBeGiven
<1>7. k[1] = <<>>
  <2>1. d[1].property = COMPONENT_REF
    BY <1>0, <1>1 DEF Forwarding, Comparison
  <2>2. 1 \in 1..n + 1 /\ 1 - 1 = 0
    OBVIOUS
  <2> QED BY <1>4, <2>1, <2>2 DEF Learnt, SELECTION_PROPERTIES
<1>8. PICK prefix : prefix = [m \in 0..n |-> SubSeq(arguments, 1, m)]
  OBVIOUS
<1>9. prefix[0] = <<>> /\ prefix[n] = arguments
  BY <1>0, <1>6, <1>8
<1>10. ASSUME NEW m \in 0..n - 1 PROVE Learnt(prefix[m], d[m + 2]) = prefix[m + 1]
  <2>1. m \in 0..n /\ m + 1 \in 0..n /\ m + 1 \in 1..n /\ m + 2 \in 1..n + 1 /\ (m + 2) - 1 = m + 1 /\ m + 2 # 1
    OBVIOUS
  <2>2. PICK a : a = arguments[m + 1]
    OBVIOUS
  <2>3. d[m + 2] = Comparison(a.name, "=", a.value)
    BY <1>0, <1>1, <2>1, <2>2 DEF Forwarding
  <2>4. /\ a.name \notin SELECTION_PROPERTIES
        /\ a = Argument([property |-> a.name, value |-> a.value])
    BY <1>0, <2>1, <2>2 DEF CanBeGiven
  <2>5. d[m + 2].property = a.name /\ Argument(d[m + 2]) = a
    BY <2>3, <2>4 DEF Comparison, Argument
  <2>6. PICK p : p = SubSeq(arguments, 1, m)
    OBVIOUS
  <2>7. DOMAIN p = 1..m /\ \A i \in 1..m : p[i] = arguments[i]
    BY <1>0, <1>6, <2>1, <2>6
  <2>8. ~Known(p, a.name)
    <3> SUFFICES ASSUME NEW i \in 1..m, p[i].name = a.name PROVE FALSE
      BY <2>7 DEF Known
    <3>1. i \in 1..n /\ i # m + 1 /\ arguments[i].name = arguments[m + 1].name
      BY <2>1, <2>2, <2>7
    <3> QED BY <1>0, <2>1, <3>1 DEF CanBeGiven
  <2>9. Learnt(p, d[m + 2]) = Append(p, a)
    BY <2>4, <2>5, <2>8 DEF Learnt
  <2>10. SubSeq(arguments, 1, m + 1) = Append(SubSeq(arguments, 1, m), arguments[m + 1])
    BY <1>0, <1>6, SubSeqGrows
  <2> QED BY <1>8, <2>1, <2>2, <2>6, <2>9, <2>10
<1> DEFINE T == {m \in 0..n : k[m + 1] = prefix[m]}
<1>11. 0 \in T
  BY <1>7, <1>9
<1>12. \A m \in 0..n - 1 : m \in T => m + 1 \in T
  <2> SUFFICES ASSUME NEW m \in 0..n - 1, m \in T PROVE m + 1 \in T
    OBVIOUS
  <2>1. m + 2 \in 1..n + 1 /\ (m + 2) - 1 = m + 1 /\ m + 1 \in 0..n /\ (m + 1) + 1 = m + 2
    OBVIOUS
  <2>2. k[m + 2] = Learnt(k[m + 1], d[m + 2])
    BY <1>4, <2>1
  <2> QED BY <1>10, <2>1, <2>2
<1>13. \A m \in 0..n : m \in T
  <2> HIDE DEF T
  <2> QED BY <1>11, <1>12, UpTo
<1>14. n \in 0..n
  OBVIOUS
<1> QED BY <1>1, <1>2, <1>3, <1>9, <1>13, <1>14, ArgumentsIs

\* What a condition gives, for a condition with a domain.
LEMMA GivingIs ==
    ASSUME NEW condition
    PROVE  /\ DOMAIN Giving(condition) =
                 {i \in DOMAIN condition : condition[i].property \notin SELECTION_PROPERTIES}
           /\ \A i \in DOMAIN Giving(condition) : Giving(condition)[i] = condition[i]
BY DEF Giving, Restrict

\* A component is selected by its ref alone.
LEMMA RefSelects ==
    ASSUME NEW components, NEW ref, ref \in DOMAIN components, NEW condition, 1 \in DOMAIN condition,
           condition[1] = Comparison(COMPONENT_REF, "=", ref),
           \A i \in DOMAIN condition : i # 1 => condition[i].property \notin SELECTION_PROPERTIES
    PROVE  Matching(components, Selecting(condition)) = {ref}
<1>1. PICK s : s = Selecting(condition)
  OBVIOUS
<1>2. condition[1].property = COMPONENT_REF /\ condition[1].operator = "=" /\ condition[1].value = ref
  BY DEF Comparison
<1>3. {i \in DOMAIN condition : condition[i].property \in SELECTION_PROPERTIES} = {1}
  BY <1>2 DEF SELECTION_PROPERTIES
<1>4. DOMAIN s = {1} /\ s[1] = condition[1]
  BY <1>1, <1>3 DEF Selecting, Restrict
<1>5. ASSUME NEW r \in DOMAIN components
      PROVE  Matches(s, [p \in SELECTION_PROPERTIES |->
                 IF p = COMPONENT_REF THEN r ELSE components[r].profile.urn]) <=> r = ref
  <2>1. PICK properties : properties = [p \in SELECTION_PROPERTIES |->
                 IF p = COMPONENT_REF THEN r ELSE components[r].profile.urn]
    OBVIOUS
  <2>2. COMPONENT_REF \in DOMAIN properties /\ properties[COMPONENT_REF] = r
    BY <2>1 DEF SELECTION_PROPERTIES
  <2>3. ComparisonMatches(s[1], properties) <=> r = ref
    BY <1>2, <1>4, <2>2 DEF ComparisonMatches
  <2>4. Matches(s, properties) <=> ComparisonMatches(s[1], properties)
    BY <1>4 DEF Matches
  <2> QED BY <2>1, <2>3, <2>4
<1>6. Matching(components, s) = {r \in DOMAIN components :
          Matches(s, [p \in SELECTION_PROPERTIES |->
                 IF p = COMPONENT_REF THEN r ELSE components[r].profile.urn])}
  BY DEF Matching
<1> QED BY <1>1, <1>5, <1>6

\* A child engine picks the component and the arguments it is passed.
LEMMA PickedBelow ==
    ASSUME NEW source, NEW ref \in Seq(Atoms), ref \in DOMAIN source, NEW message,
           message \in DOMAIN source[ref].messages, NEW arguments, CanBeGiven(arguments),
           \A k \in 1..Len(arguments) :
               /\ arguments[k].name \in DOMAIN source[ref].messages[message]
               /\ Fits(source[ref].messages[message][arguments[k].name], arguments[k].value)
    PROVE  /\ Pick(Components(<<source>>), Forwarded(ref, arguments), message).code = "OK"
           /\ Pick(Components(<<source>>), Forwarded(ref, arguments), message).ref = ref
           /\ Pick(Components(<<source>>), Forwarded(ref, arguments), message).arguments = arguments
<1>0. PICK n \in Nat : n = Len(arguments)
  BY DEF CanBeGiven
<1>1. PICK components : components = Components(<<source>>)
  OBVIOUS
<1>2. /\ DOMAIN components = DOMAIN source
      /\ \A r \in DOMAIN source : components[r].profile = source[r]
  BY <1>1, ComponentsOfOne
<1>3. ref \in Offering(components, message)
  BY <1>2 DEF Offering
<1>4. PICK types : types = components[ref].profile.messages[message]
  OBVIOUS
<1>5. types = source[ref].messages[message]
  BY <1>2, <1>4
<1>6. PICK allowed : allowed = SELECTION_PROPERTIES \cup ArgumentNames(components, message)
  OBVIOUS
<1>7. DOMAIN types \subseteq allowed
  BY <1>3, <1>4, <1>6 DEF ArgumentNames
<1>8. \A k \in 1..Len(arguments) : arguments[k].name \in allowed
  BY <1>5, <1>7
<1>9. PICK d : d = Forwarding(ref, arguments)
  OBVIOUS
<1>10. /\ d \in Seq({d[i] : i \in DOMAIN d}) /\ \A i \in DOMAIN d : Writable(d[i], allowed)
  <2>1. SELECTION_PROPERTIES \subseteq allowed
    BY <1>6
  <2> QED BY <1>8, <1>9, <2>1, ForwardingIs
<1>11. Parse(ConditionText(d), allowed) = {d}
  BY <1>10, WrittenIsRead
<1>12. Forwarded(ref, arguments) = ConditionText(d)
  BY <1>9, ForwardedIs
<1>13. PICK text : text = ConditionText(d)
  OBVIOUS
<1>14. Pick(components, text, message) = PickOne(components, d, message)
  <2>1. PICK parsed : parsed = Parse(text, allowed)
    OBVIOUS
  <2>2. parsed = {d}
    BY <1>11, <1>13, <2>1
  <2>3. (CHOOSE c \in parsed : TRUE) = d /\ parsed # {}
    BY <2>2
  <2> QED BY <1>6, <2>1, <2>3, Zenon DEF Pick
<1>15. /\ DOMAIN d = 1..n + 1 /\ d[1] = Comparison(COMPONENT_REF, "=", ref)
       /\ \A i \in DOMAIN d : i # 1 =>
             /\ i - 1 \in 1..n /\ d[i].property = arguments[i - 1].name
             /\ d[i].operator = "=" /\ d[i].value = arguments[i - 1].value
  BY <1>0, <1>9 DEF Forwarding, Comparison
<1>16. \A i \in DOMAIN d : i # 1 => d[i].property \notin SELECTION_PROPERTIES
  BY <1>0, <1>15 DEF CanBeGiven
<1>17. PICK candidates : candidates = Matching(components, Selecting(d)) \cap Offering(components, message)
  OBVIOUS
<1>18. candidates = {ref}
  <2>1. 1 \in DOMAIN d /\ ref \in DOMAIN components
    BY <1>2, <1>15
  <2>2. Matching(components, Selecting(d)) = {ref}
    BY <1>15, <1>16, <2>1, RefSelects
  <2> QED BY <1>3, <1>17, <2>2
<1>19. Accepted(Giving(d), types)
  <2>1. PICK g : g = Giving(d)
    OBVIOUS
  <2>2. d[1].property \in SELECTION_PROPERTIES
    BY <1>15 DEF Comparison, SELECTION_PROPERTIES
  <2>3. /\ \A i \in DOMAIN g : i \in DOMAIN d /\ i # 1 /\ g[i] = d[i]
    BY <2>1, <2>2, GivingIs
  <2>4. \A i \in DOMAIN g : /\ i - 1 \in 1..n /\ i \in 1..n + 1 /\ g[i].property = arguments[i - 1].name
                            /\ g[i].operator = "=" /\ g[i].value = arguments[i - 1].value
    BY <1>15, <2>3
  <2>5. ASSUME NEW i \in DOMAIN g
        PROVE  /\ g[i].property \in DOMAIN types /\ g[i].operator = "="
               /\ Fits(types[g[i].property], g[i].value)
    BY <1>0, <1>5, <2>4
  <2>6. Agree(g)
    <3> SUFFICES ASSUME NEW i \in DOMAIN g, NEW j \in DOMAIN g, g[i].property = g[j].property
                 PROVE  g[i].value = g[j].value
      BY DEF Agree
    <3>1. i - 1 \in 1..n /\ j - 1 \in 1..n /\ arguments[i - 1].name = arguments[j - 1].name
      BY <2>4
    <3>2. i - 1 = j - 1
      BY <1>0, <3>1 DEF CanBeGiven
    <3> QED BY <2>4, <3>2
  <2> QED BY <2>1, <2>5, <2>6 DEF Accepted
<1>20. Arguments(d) = arguments
  BY <1>9, ArgumentsReturn
<1>21. PickOne(components, d, message) =
          [code |-> "OK", ref |-> ref, source |-> components[ref].source,
           arguments |-> Arguments(d), key |-> ConditionText(d)]
  <2>1. PICK accepted : accepted = Accepted(Giving(d), types)
    OBVIOUS
  <2>2. (CHOOSE r \in candidates : TRUE) = ref
    BY <1>18
  <2>3. candidates # {} /\ Accepted(Giving(d), components[ref].profile.messages[message])
    BY <1>4, <1>18, <1>19
  <2> QED BY <1>17, <1>18, <2>2, <2>3, Zenon DEF PickOne
<1> QED BY <1>1, <1>12, <1>13, <1>14, <1>20, <1>21

\* Arguments have the value of every comparison of a condition that gives one.
Gives(condition, arguments) ==
    \A i \in DOMAIN condition : condition[i].property \notin SELECTION_PROPERTIES =>
        /\ \E k \in DOMAIN arguments : arguments[k].name = condition[i].property
        /\ \A k \in DOMAIN arguments :
               arguments[k].name = condition[i].property => arguments[k].value = condition[i].value

\* The arguments that are picked are arguments a condition can give.
LEMMA PickedArguments ==
    ASSUME NEW condition, NEW allowed, IsParsed(condition, allowed), NEW types,
           Accepted(Giving(condition), types), \A name \in DOMAIN types : Named(name)
    PROVE  /\ CanBeGiven(Arguments(condition))
           /\ \A k \in 1..Len(Arguments(condition)) :
                 /\ Arguments(condition)[k].name \in DOMAIN types
                 /\ Fits(types[Arguments(condition)[k].name], Arguments(condition)[k].value)
           /\ Gives(condition, Arguments(condition))
<1>1. PICK n \in Nat : n = Len(condition) /\ DOMAIN condition = 1..n
  BY DEF IsParsed
<1>2. PICK a : a = Arguments(condition)
  OBVIOUS
<1>3. PICK S : S = {Argument(condition[i]) : i \in 1..Len(condition)}
  OBVIOUS
<1>4. a \in Seq(S) /\ AreArguments(a, condition, n)
  BY <1>1, <1>2, <1>3, ArgumentsAre
<1>5. PICK g : g = Giving(condition)
  OBVIOUS
<1>6. \A i \in 1..n : condition[i].property \notin SELECTION_PROPERTIES => i \in DOMAIN g /\ g[i] = condition[i]
  BY <1>1, <1>5, GivingIs
<1>7. ASSUME NEW k \in 1..Len(a)
      PROVE  \E i \in 1..n : /\ condition[i].property \notin SELECTION_PROPERTIES
                             /\ a[k] = Argument(condition[i])
                             /\ a[k].name = condition[i].property /\ a[k].value = condition[i].value
  <2>1. PICK i \in 1..n : condition[i].property \notin SELECTION_PROPERTIES /\ a[k] = Argument(condition[i])
    BY <1>4 DEF AreArguments
  <2> QED BY <2>1 DEF Argument
<1>8. ASSUME NEW k \in 1..Len(a)
      PROVE  /\ a[k].name \in DOMAIN types /\ Fits(types[a[k].name], a[k].value)
             /\ a[k].name \notin SELECTION_PROPERTIES /\ a[k].value \in Seq(Atoms)
             /\ a[k] = Argument([property |-> a[k].name, value |-> a[k].value])
  <2>1. PICK i \in 1..n : /\ condition[i].property \notin SELECTION_PROPERTIES
                          /\ a[k] = Argument(condition[i])
                          /\ a[k].name = condition[i].property /\ a[k].value = condition[i].value
    BY <1>7
  <2>2. i \in DOMAIN g /\ g[i] = condition[i]
    BY <1>6, <2>1
  <2>3. g[i].property \in DOMAIN types /\ Fits(types[g[i].property], g[i].value)
    BY <1>5, <2>2 DEF Accepted
  <2>4. condition[i].value \in Seq(Atoms)
    BY <1>1 DEF IsParsed
  <2>5. a[k] = Argument([property |-> a[k].name, value |-> a[k].value])
    BY <2>1 DEF Argument
  <2> QED BY <2>1, <2>2, <2>3, <2>4, <2>5
<1>9. Len(a) \in Nat /\ DOMAIN a = 1..Len(a) /\ a = [k \in 1..Len(a) |-> a[k]]
  BY <1>4, LenProperties
<1>10. CanBeGiven(a)
  <2>1. \A k, l \in 1..Len(a) : a[k].name = a[l].name => k = l
    BY <1>4 DEF AreArguments
  <2> QED BY <1>8, <1>9, <2>1 DEF CanBeGiven
<1>11. ASSUME NEW i \in DOMAIN condition, condition[i].property \notin SELECTION_PROPERTIES
       PROVE  /\ \E k \in DOMAIN a : a[k].name = condition[i].property
              /\ \A k \in DOMAIN a : a[k].name = condition[i].property => a[k].value = condition[i].value
  <2>1. \E k \in DOMAIN a : a[k].name = condition[i].property
    BY <1>1, <1>4, <1>9, <1>11 DEF AreArguments
  <2>2. ASSUME NEW k \in DOMAIN a, a[k].name = condition[i].property
        PROVE  a[k].value = condition[i].value
    <3>1. PICK j \in 1..n : /\ condition[j].property \notin SELECTION_PROPERTIES
                            /\ a[k].name = condition[j].property /\ a[k].value = condition[j].value
      BY <1>7, <1>9
    <3>2. i \in DOMAIN g /\ j \in DOMAIN g /\ g[i] = condition[i] /\ g[j] = condition[j]
      BY <1>1, <1>6, <1>11, <3>1
    <3>3. Agree(g)
      BY <1>5 DEF Accepted
    <3>4. g[i].property = g[j].property
      BY <2>2, <3>1, <3>2
    <3>5. g[i].value = g[j].value
      BY <3>2, <3>3, <3>4 DEF Agree
    <3> QED BY <3>1, <3>2, <3>5
  <2> QED BY <2>1, <2>2
<1>12. Gives(condition, a)
  BY <1>11 DEF Gives
<1> QED BY <1>2, <1>8, <1>10, <1>12

\* The source that an id leads back to.
LEMMA OwnerIs ==
    ASSUME NEW owners, DOMAIN owners \subseteq Nat, NEW s \in DOMAIN owners,
           \A i, k \in DOMAIN owners : i # k => owners[i] \cap owners[k] = {},
           NEW ref, Len(ref) \in Nat, Len(ref) >= 2, ref[2] = "/", ref[1] \in owners[s]
    PROVE  OwnerOf(owners, ref) = {s}
<1>1. PICK mine : mine = {i \in DOMAIN owners : ref[1] \in owners[i]}
  OBVIOUS
<1>2. mine = {s} /\ s \in Nat
  BY <1>1
<1>3. {i \in mine : \A j \in mine : i <= j} = {s}
  BY <1>2
<1>4. ~(Len(ref) < 2 \/ ref[2] # "/")
  OBVIOUS
<1> QED BY <1>1, <1>3, <1>4 DEF OwnerOf

\* What a job picks.
LEMMA PickIs ==
    ASSUME NEW j \in Jobs, j.op = "pick", NEW pick,
           pick = Pick(Components(j.sources), j.text, j.message), pick.code = "OK",
           NEW all, all = Components(j.sources)
    PROVE  /\ pick.source \in DOMAIN j.sources /\ pick.ref \in DOMAIN j.sources[pick.source]
           /\ pick.ref \in Seq(Atoms) /\ OwnerOf(j.owners, pick.ref) = {pick.source}
           /\ j.message \in DOMAIN j.sources[pick.source][pick.ref].messages
           /\ CanBeGiven(pick.arguments)
           /\ \A k \in 1..Len(pick.arguments) :
                 LET types == j.sources[pick.source][pick.ref].messages[j.message]
                 IN  /\ pick.arguments[k].name \in DOMAIN types
                     /\ Fits(types[pick.arguments[k].name], pick.arguments[k].value)
           /\ \E condition \in Parse(j.text, SELECTION_PROPERTIES \cup ArgumentNames(all, j.message)) :
                 /\ Matching(all, Selecting(condition)) \cap Offering(all, j.message) = {pick.ref}
                 /\ Gives(condition, pick.arguments)
<1>1. PICK text, message, sources, owners :
          text = j.text /\ message = j.message /\ sources = j.sources /\ owners = j.owners
  OBVIOUS
<1>2. /\ text \in Seq(Atoms) /\ DOMAIN sources \subseteq Nat /\ DOMAIN owners = DOMAIN sources
      /\ \A i, k \in DOMAIN owners : i # k => owners[i] \cap owners[k] = {}
      /\ \A i \in DOMAIN sources : \A ref \in DOMAIN sources[i] :
            /\ ref \in Seq(Atoms) /\ Len(ref) >= 2 /\ ref[1] \in owners[i] /\ ref[2] = "/"
            /\ message \in DOMAIN sources[i][ref].messages =>
                  \A name \in DOMAIN sources[i][ref].messages[message] : Named(name)
  BY <1>1, JobsAssumption
<1>3. PICK allowed : allowed = SELECTION_PROPERTIES \cup ArgumentNames(all, message)
  OBVIOUS
<1>4. PICK condition \in Parse(text, allowed) :
          /\ Matching(all, Selecting(condition)) \cap Offering(all, message) = {pick.ref}
          /\ Accepted(Giving(condition), all[pick.ref].profile.messages[message])
          /\ pick.source = all[pick.ref].source /\ pick.arguments = Arguments(condition)
  <2>1. pick = Pick(all, text, message)
    BY <1>1
  <2>2. \E c \in Parse(text, allowed) : IsPick(all, message, c, pick)
    BY <1>3, <2>1, PickedIs
  <2> QED BY <2>2 DEF IsPick
<1>5. PICK ref, s : ref = pick.ref /\ s = pick.source
  OBVIOUS
<1>6. ref \in DOMAIN all /\ message \in DOMAIN all[ref].profile.messages
  BY <1>4, <1>5 DEF Offering
<1>7. s \in DOMAIN sources /\ ref \in DOMAIN sources[s] /\ all[ref].profile = sources[s][ref]
  <2>1. ref \in DOMAIN Components(sources)
    BY <1>1, <1>6
  <2>2. /\ Components(sources)[ref].source \in DOMAIN sources
        /\ ref \in DOMAIN sources[Components(sources)[ref].source]
        /\ Components(sources)[ref].profile = sources[Components(sources)[ref].source][ref]
    BY <1>2, <2>1, ComponentsAre
  <2>3. s = Components(sources)[ref].source /\ all = Components(sources)
    BY <1>1, <1>4, <1>5
  <2> QED BY <2>2, <2>3
<1>8. PICK types : types = sources[s][ref].messages[message]
  OBVIOUS
<1>9. /\ message \in DOMAIN sources[s][ref].messages /\ types = all[ref].profile.messages[message]
      /\ ref \in Seq(Atoms) /\ \A name \in DOMAIN types : Named(name)
  BY <1>2, <1>6, <1>7, <1>8
<1>10. OwnerOf(owners, ref) = {s}
  <2>1. s \in DOMAIN owners /\ Len(ref) \in Nat /\ Len(ref) >= 2 /\ ref[2] = "/" /\ ref[1] \in owners[s]
    BY <1>2, <1>7, LenProperties
  <2> QED BY <1>2, <2>1, OwnerIs
<1>11. IsParsed(condition, allowed)
  BY <1>2, <1>4, ParsedIs
<1>12. PICK arguments : arguments = Arguments(condition)
  OBVIOUS
<1>13. /\ CanBeGiven(arguments)
       /\ \A k \in 1..Len(arguments) :
             arguments[k].name \in DOMAIN types /\ Fits(types[arguments[k].name], arguments[k].value)
       /\ Gives(condition, arguments)
  <2>1. Accepted(Giving(condition), types)
    BY <1>4, <1>5, <1>9
  <2> QED BY <1>9, <1>11, <1>12, <2>1, PickedArguments
<1>14. pick.arguments = arguments
  BY <1>4, <1>12
<1>15. \E c \in Parse(text, allowed) :
          /\ Matching(all, Selecting(c)) \cap Offering(all, message) = {ref}
          /\ Gives(c, arguments)
  BY <1>4, <1>5, <1>13
<1>16. /\ pick.source \in DOMAIN j.sources /\ pick.ref \in DOMAIN j.sources[pick.source]
       /\ pick.ref \in Seq(Atoms) /\ OwnerOf(j.owners, pick.ref) = {pick.source}
       /\ j.message \in DOMAIN j.sources[pick.source][pick.ref].messages
  BY <1>1, <1>5, <1>7, <1>9, <1>10
<1>17. types = j.sources[pick.source][pick.ref].messages[j.message]
  BY <1>1, <1>5, <1>8
<1>18. /\ CanBeGiven(pick.arguments)
       /\ \A k \in 1..Len(pick.arguments) :
             /\ pick.arguments[k].name \in DOMAIN types
             /\ Fits(types[pick.arguments[k].name], pick.arguments[k].value)
  BY <1>13, <1>14
<1>19. \E c \in Parse(j.text, SELECTION_PROPERTIES \cup ArgumentNames(all, j.message)) :
          /\ Matching(all, Selecting(c)) \cap Offering(all, j.message) = {pick.ref}
          /\ Gives(c, pick.arguments)
  BY <1>1, <1>3, <1>5, <1>14, <1>15
<1> QED BY <1>16, <1>17, <1>18, <1>19
-----------------------------------------------------------------------------
(* The exchanges *)

\* What the first side makes, and what the other gets from it, once they have.
Makes(result) == made # None => made = result
Gets(result) == back # None => made # None /\ back = result

\* The pick of the child engine for what an engine picked.
Below(j, pick) ==
    IF pick.code # "OK" \/ pick.source = 1 THEN pick
    ELSE Pick(Components(<<j.sources[pick.source]>>), Forwarded(pick.ref, pick.arguments), j.message)

\* An invariant of every exchange.
ExchangeInv ==
    /\ job \in Jobs
    /\ job.op = "condition" => Makes(ConditionText(job.condition)) /\ Gets(Parse(made, job.allowed))
    /\ job.op = "like" =>
          /\ Makes(ConditionText(<<Likened(job)>>))
          /\ Gets({Matches(c, Properties(job)) : c \in Parse(made, SELECTION_PROPERTIES)})
    /\ job.op = "pick" =>
          Makes(Pick(Components(job.sources), job.text, job.message)) /\ Gets(Below(job, made))
    /\ job.op = "value" =>
          Makes(Encode(job.type, job.value)) /\ Gets(UNION {Decode(job.type, t) : t \in made})
    /\ job.op = "spell" =>
          /\ Makes(Decode(job.type, Array(job.tree)))
          /\ Gets(Decode(job.type, Array(AsDoubles(job.tree))))
    /\ job.op = "emit" =>
          /\ Makes(Encode(job.type, job.value))
          /\ Gets({Concerns([arg |-> Text(job.text)], [arg |-> t]) : t \in made})
    /\ job.op \in {"settings", "adapter"} /\ made # None => made.ran \subseteq Settings(job)

\* It holds in every state.
LEMMA ExchangeInvHolds == ExchangeSpec => []ExchangeInv
<1>1. Init => ExchangeInv
  BY DEF Init, ExchangeInv, Makes, Gets
<1>2. ExchangeInv /\ [ExchangeSteps \/ OtherSteps]_vars => ExchangeInv'
  <2> SUFFICES ASSUME ExchangeInv, [ExchangeSteps \/ OtherSteps]_vars
               PROVE  ExchangeInv'
    OBVIOUS
  <2> USE DEF ExchangeInv, Makes, Gets
  <2>1. CASE WriteCondition
    BY <2>1 DEF WriteCondition, Make
  <2>2. CASE ParseCondition
    BY <2>2 DEF ParseCondition, Get, Likened, Properties, Below, Settings
  <2>3. CASE WriteLike
    BY <2>3 DEF WriteLike, Make, Likened
  <2>4. CASE EvaluateLike
    BY <2>4 DEF EvaluateLike, Get, Likened, Properties, Below, Settings
  <2>5. CASE PickHere
    BY <2>5 DEF PickHere, Make
  <2>6. CASE PickBelow
    BY <2>6 DEF PickBelow, Get, Likened, Properties, Below, Settings
  <2>7. CASE EncodeValue
    BY <2>7 DEF EncodeValue, Make
  <2>8. CASE DecodeValue
    BY <2>8 DEF DecodeValue, Get, Likened, Properties, Below, Settings
  <2>9. CASE ReadNumbers
    BY <2>9 DEF ReadNumbers, Make
  <2>10. CASE ReadDoubles
    BY <2>10 DEF ReadDoubles, Get, Likened, Properties, Below, Settings
  <2>11. CASE EmitEvent
    BY <2>11 DEF EmitEvent, Make
  <2>12. CASE DeliverEvent
    BY <2>12 DEF DeliverEvent, Get, Likened, Properties, Below, Settings
  <2>13. CASE RunGateway
    <3>1. Main(job.model, job.environ, job.files, job.flags, job.taken).ran \subseteq Settings(job)
      BY DEF Main, Settings
    <3> QED BY <2>13, <3>1 DEF RunGateway, Make, Settings
  <2>14. CASE RunAdapter
    <3>1. LoadAdapterConfig(job.model, job.environ, job.files, job.flags) = Settings(job)
      BY DEF LoadAdapterConfig, Settings
    <3> QED BY <2>14, <3>1 DEF RunAdapter, Make, Settings
  <2>15. CASE OtherSteps
    BY <2>15 DEF OtherSteps, Ops
  <2>16. CASE UNCHANGED vars
    BY <2>16 DEF vars, Likened, Properties, Below, Settings
  <2> QED BY <2>1, <2>2, <2>3, <2>4, <2>5, <2>6, <2>7, <2>8, <2>9, <2>10, <2>11, <2>12, <2>13, <2>14,
             <2>15, <2>16 DEF ExchangeSteps
<1> QED BY <1>1, <1>2, PTL DEF ExchangeSpec

\* A condition that Condition.__str__ writes is parsed as itself, for any number of comparisons of
\* any values, quotes in them included, and is an empty filter only when it compares nothing; a
\* pattern with its wildcards and escapes escaped matches one text alone, and with % around it the
\* texts that hold that text, for any two texts.
THEOREM ConditionsAlwaysAgree == ExchangeSpec => []ConditionsAgree
<1>1. ExchangeInv => ConditionsReturn
  <2> SUFFICES ASSUME ExchangeInv, Done("condition")
               PROVE  back = {job.condition} /\ (EmptyFilter(made) <=> job.condition = <<>>)
    BY DEF ConditionsReturn
  <2>1. made = ConditionText(job.condition) /\ back = Parse(made, job.allowed)
    BY DEF ExchangeInv, Makes, Gets, Done
  <2>2. PICK condition, allowed : condition = job.condition /\ allowed = job.allowed
    OBVIOUS
  <2>3. /\ condition \in Seq({condition[i] : i \in DOMAIN condition})
        /\ \A i \in DOMAIN condition : Writable(condition[i], allowed)
    BY JobsAssumption, <2>2 DEF ExchangeInv, Makes, Gets, Done
  <2>4. /\ Parse(ConditionText(condition), allowed) = {condition}
        /\ Parse(ConditionText(condition), {}) # {} <=> condition = <<>>
    BY <2>3, WrittenIsRead
  <2> QED BY <2>1, <2>2, <2>4 DEF EmptyFilter
<1>2. ExchangeInv => LikeIsLiteral
  <2> SUFFICES ASSUME ExchangeInv, Done("like")
               PROVE  back = {IF job.around THEN Infix(job.literal, job.text) ELSE job.literal = job.text}
    BY DEF LikeIsLiteral
  <2>1. PICK j : j = job
    OBVIOUS
  <2>2. /\ back = {Matches(c, Properties(j)) : c \in Parse(made, SELECTION_PROPERTIES)}
        /\ made = ConditionText(<<Likened(j)>>)
    BY <2>1 DEF ExchangeInv, Makes, Gets, Done
  <2>3. j.literal \in Seq(Atoms) /\ j.text \in Seq(Atoms) /\ j.around \in BOOLEAN
    BY JobsAssumption, <2>1 DEF ExchangeInv, Makes, Gets, Done
  <2>4. Parse(ConditionText(<<Likened(j)>>), SELECTION_PROPERTIES) = {<<Likened(j)>>}
    BY <2>3, LikeIsRead
  <2>5. Matches(<<Likened(j)>>, Properties(j)) =
            IF j.around THEN Infix(j.literal, j.text) ELSE j.literal = j.text
    BY <2>3, LikeIsRead
  <2>6. back = {Matches(<<Likened(j)>>, Properties(j))}
    BY <2>2, <2>4
  <2> QED BY <2>1, <2>5, <2>6
<1> QED BY <1>1, <1>2, ExchangeInvHolds, PTL DEF ConditionsAgree
\* A gateway or an adapter runs with every setting from its strongest source, the file that a flag
\* names before the one that the environment names, and not without a setting that has no default
\* (load_config, load_adapter_config and main of the gateway), whatever the sources hold.
THEOREM SettingsFromStrongestSource == ExchangeSpec => []StrongestSource
<1>1. ExchangeInv => StrongestSource
  <2> SUFFICES ASSUME ExchangeInv, job.op \in {"settings", "adapter"}, made # None,
                      NEW run \in made.ran
               PROVE  RunIsStrongest(run)
    BY DEF StrongestSource, RunIsStrongest
  <2> QED BY SettingsAreStrongest DEF ExchangeInv
<1> QED BY <1>1, ExchangeInvHolds, PTL
\* A value that was encoded, of any type and depth, is decoded as the value that was meant, and the
\* numbers of an array are read as the same doubles however they are spelled (encode_value and
\* decode_value), whatever a number is written as that int() and float() read back.
THEOREM ValuesAlwaysAgree == ExchangeSpec => []ValuesAgree
<1>1. ExchangeInv => ValuesReturn
  <2> SUFFICES ASSUME ExchangeInv, Done("value"), made # {}
               PROVE  IF job.value[<<>>].is = "str" THEN back # {} ELSE back = {Meant(job.type, job.value)}
    BY DEF ValuesReturn
  <2>1. PICK type, value : type = job.type /\ value = job.value
    OBVIOUS
  <2>2. made = Encode(type, value) /\ back = UNION {Decode(type, t) : t \in made}
    BY <2>1 DEF ExchangeInv, Makes, Gets, Done
  <2>3. /\ IsValue(value) /\ type.depth \in Nat
        /\ value[<<>>].is # "str" => type.base \in CHECKED \cup TEXTTYPES
    BY <2>1, JobsAssumption DEF ExchangeInv, Done
  <2>4. PICK t : t \in made
    OBVIOUS
  <2>5. CASE value[<<>>].is = "str"
    <3>1. t = Text(value[<<>>].t) /\ Decode(type, t) # {}
      BY <2>2, <2>4, <2>5 DEF Encode
    <3> QED BY <2>1, <2>2, <2>4, <2>5, <3>1
  <2>6. CASE value[<<>>].is # "str"
    <3>1. made = {t} /\ Decode(type, t) = {Meant(type, value)}
      BY <2>2, <2>3, <2>4, <2>6, ValueReturns
    <3> QED BY <2>1, <2>2, <2>6, <3>1
  <2> QED BY <2>5, <2>6
<1>2. ExchangeInv => SpellingForgotten
  <2> SUFFICES ASSUME ExchangeInv, Done("spell") PROVE made = back
    BY DEF SpellingForgotten
  <2>1. PICK type, tree : type = job.type /\ tree = job.tree
    OBVIOUS
  <2>2. PICK doubles : doubles = AsDoubles(tree)
    OBVIOUS
  <2>3. made = Decode(type, Array(tree)) /\ back = Decode(type, Array(doubles))
    BY <2>1, <2>2 DEF ExchangeInv, Makes, Gets, Done
  <2>4. /\ type.base = "float" /\ type.depth = 1
        /\ \A path \in DOMAIN tree :
              \/ path = <<>> /\ tree[path] = LIST
              \/ path \in Seq(Nat) /\ Len(path) = 1 /\ tree[path].n \in Int
                 /\ tree[path] = Whole(tree[path].n)
    <3>1. type = [base |-> "float", depth |-> 1]
      BY <2>1, JobsAssumption DEF ExchangeInv, Done
    <3>2. \A path \in DOMAIN tree :
              \/ path = <<>> /\ tree[path] = LIST
              \/ path \in Seq(Nat) /\ Len(path) = 1 /\ tree[path].n \in Int
                 /\ tree[path] = Whole(tree[path].n)
      BY <2>1, JobsAssumption DEF ExchangeInv, Done
    <3> QED BY <3>1, <3>2
  <2>5. DOMAIN doubles = DOMAIN tree
    BY <2>2 DEF AsDoubles
  <2>6. made = FromJson(type, tree) /\ back = FromJson(type, doubles)
    <3>1. \A x : Array(x).is = "array" /\ Array(x).tree = x
      BY DEF Array
    <3> QED BY <2>3, <2>4, <3>1 DEF Decode
  <2>7. PICK f : f = [path \in DOMAIN tree |->
          IF Len(path) < 1 THEN When(tree[path].is = "list", LIST)
          ELSE IF Len(path) = 1 THEN ScalarFromJson("float", tree[path]) ELSE {tree[path]}]
    OBVIOUS
  <2>8. PICK g : g = [path \in DOMAIN tree |->
          IF Len(path) < 1 THEN When(doubles[path].is = "list", LIST)
          ELSE IF Len(path) = 1 THEN ScalarFromJson("float", doubles[path]) ELSE {doubles[path]}]
    OBVIOUS
  <2>9. made = AllOrNone(f) /\ back = AllOrNone(g)
    BY <2>4, <2>5, <2>6, <2>7, <2>8 DEF FromJson
  <2>10. ASSUME NEW path \in DOMAIN tree PROVE f[path] = g[path]
    <3>1. CASE path = <<>> /\ tree[path] = LIST
      <4>1. doubles[path] = LIST
        BY <2>2, <3>1 DEF AsDoubles, LIST
      <4> QED BY <2>7, <2>8, <3>1, <4>1
    <3>2. CASE path \in Seq(Nat) /\ Len(path) = 1 /\ tree[path].n \in Int
               /\ tree[path] = Whole(tree[path].n)
      <4>1. PICK n \in Int : n = tree[path].n
        BY <3>2
      <4>2. tree[path].is = "int"
        BY <3>2 DEF Whole
      <4>3. PICK d : d = IF n > MAXDOUBLE THEN INF ELSE IF n < -MAXDOUBLE THEN -INF ELSE n
        OBVIOUS
      <4>4. doubles[path] = Float(d)
        BY <2>2, <4>1, <4>2, <4>3 DEF AsDoubles
      <4>5. doubles[path].is = "float" /\ doubles[path].n = d
        BY <4>4 DEF Float
      <4>6. Double(d) = Double(n)
        <5>1. MAXDOUBLE \in Nat /\ INF \in Nat /\ INF > MAXDOUBLE
          BY NumbersAssumption
        <5>2. CASE n > MAXDOUBLE
          BY <4>3, <5>1, <5>2 DEF Double
        <5>3. CASE n < -MAXDOUBLE
          BY <4>3, <5>1, <5>3 DEF Double
        <5>4. CASE ~(n > MAXDOUBLE) /\ ~(n < -MAXDOUBLE)
          <6>1. d = n
            BY <4>3, <5>4
          <6> QED BY <6>1
        <5> QED BY <5>2, <5>3, <5>4
      <4>7. ScalarFromJson("float", tree[path]) = {Float(Double(n))}
        BY <4>1, <4>2 DEF ScalarFromJson
      <4>8. ScalarFromJson("float", doubles[path]) = {Float(Double(d))}
        BY <4>5 DEF ScalarFromJson
      <4>9. f[path] = ScalarFromJson("float", tree[path])
        <5>1. ~(Len(path) < 1)
          BY <3>2
        <5> QED BY <2>7, <3>2, <5>1
      <4>10. g[path] = ScalarFromJson("float", doubles[path])
        <5>1. ~(Len(path) < 1)
          BY <3>2
        <5> QED BY <2>8, <3>2, <5>1
      <4> QED BY <4>6, <4>7, <4>8, <4>9, <4>10
    <3> QED BY <2>4, <3>1, <3>2
  <2>11. f = g
    BY <2>7, <2>8, <2>10
  <2> QED BY <2>9, <2>11
<1> QED BY <1>1, <1>2, ExchangeInvHolds, PTL DEF ValuesAgree

\* An engine picks the one component that satisfies a condition and gives it every argument the
\* condition gives, the child engine it is passed on to picks the same, with the same arguments,
\* and an event that concerns a value reaches no subscription to another (_pick, _condition of
\* child.py, _owner_of and _concerns), for any sources, refs, conditions and texts.
THEOREM SelectionAlwaysAgrees == ExchangeSpec => []SelectionAgrees
<1>1. ExchangeInv => PickForwarded
  <2> SUFFICES ASSUME ExchangeInv, Done("pick"), made.code = "OK"
               PROVE  back.code = "OK" /\ back.ref = made.ref /\ back.arguments = made.arguments
    BY DEF PickForwarded
  <2>1. PICK j, pick, all : j = job /\ pick = made /\ all = Components(j.sources)
    OBVIOUS
  <2>2. /\ j \in Jobs /\ j.op = "pick" /\ pick.code = "OK" /\ back = Below(j, pick)
        /\ pick = Pick(Components(j.sources), j.text, j.message)
    BY <2>1 DEF ExchangeInv, Makes, Gets, Done
  <2>3. PICK ref, s, arguments : ref = pick.ref /\ s = pick.source /\ arguments = pick.arguments
    OBVIOUS
  <2>4. PICK source, message : source = j.sources[s] /\ message = j.message
    OBVIOUS
  <2>5. /\ ref \in Seq(Atoms) /\ ref \in DOMAIN source /\ message \in DOMAIN source[ref].messages
        /\ CanBeGiven(arguments)
        /\ \A k \in 1..Len(arguments) :
               /\ arguments[k].name \in DOMAIN source[ref].messages[message]
               /\ Fits(source[ref].messages[message][arguments[k].name], arguments[k].value)
    BY <2>1, <2>2, <2>3, <2>4, PickIs
  <2>6. CASE s = 1
    BY <2>1, <2>2, <2>3, <2>6 DEF Below
  <2>7. CASE s # 1
    <3>1. back = Pick(Components(<<source>>), Forwarded(ref, arguments), message)
      BY <2>2, <2>3, <2>4, <2>7 DEF Below
    <3> QED BY <2>1, <2>3, <2>5, <3>1, PickedBelow
  <2> QED BY <2>6, <2>7
<1>2. ExchangeInv => PickSatisfies
  <2> SUFFICES ASSUME ExchangeInv, job.op = "pick", made # None, made.code = "OK"
               PROVE  \E condition \in Parse(job.text, SELECTION_PROPERTIES
                                                 \cup ArgumentNames(Components(job.sources), job.message)) :
                /\ \A ref \in DOMAIN Components(job.sources) :
                       ref = made.ref <=>
                           ref \in Offering(Components(job.sources), job.message)
                                     \cap Matching(Components(job.sources), Selecting(condition))
                /\ \A i \in DOMAIN condition : condition[i].property \notin SELECTION_PROPERTIES =>
                       /\ \E k \in DOMAIN made.arguments :
                              made.arguments[k].name = condition[i].property
                       /\ \A k \in DOMAIN made.arguments :
                              made.arguments[k].name = condition[i].property =>
                                  made.arguments[k].value = condition[i].value
                /\ OwnerOf(job.owners, made.ref) = {made.source}
    BY Zenon DEF PickSatisfies
  <2>1. PICK j, pick, all : j = job /\ pick = made /\ all = Components(j.sources)
    OBVIOUS
  <2>2. j \in Jobs /\ j.op = "pick" /\ pick.code = "OK"
        /\ pick = Pick(Components(j.sources), j.text, j.message)
    BY <2>1 DEF ExchangeInv, Makes
  <2>3. OwnerOf(j.owners, pick.ref) = {pick.source}
    BY <2>1, <2>2, PickIs
  <2>4. PICK condition \in Parse(j.text, SELECTION_PROPERTIES \cup ArgumentNames(all, j.message)) :
            /\ Matching(all, Selecting(condition)) \cap Offering(all, j.message) = {pick.ref}
            /\ Gives(condition, pick.arguments)
    BY <2>1, <2>2, PickIs
  <2>5. \A ref \in DOMAIN all :
            ref = pick.ref <=> ref \in Offering(all, j.message) \cap Matching(all, Selecting(condition))
    BY <2>4
  <2> QED BY <2>1, <2>3, <2>4, <2>5 DEF Gives
<1>3. ExchangeInv => EventsKeptApart
  <2> SUFFICES ASSUME ExchangeInv, Done("emit"), back = {TRUE}
               PROVE  Decode(job.type, Text(job.text)) = {Meant(job.type, job.value)}
    BY DEF EventsKeptApart
  <2>1. PICK type, value, given : type = job.type /\ value = job.value /\ given = Text(job.text)
    OBVIOUS
  <2>2. /\ made = Encode(type, value)
        /\ back = {Concerns([arg |-> given], [arg |-> t]) : t \in made}
    <3>1. job.op = "emit" /\ made # None /\ back # None
      BY DEF ExchangeInv, Gets, Done
    <3>2. made = Encode(job.type, job.value)
      BY <3>1 DEF ExchangeInv, Makes
    <3>3. back = {Concerns([arg |-> Text(job.text)], [arg |-> t]) : t \in made}
      BY <3>1, Zenon DEF ExchangeInv, Gets
    <3> QED BY <2>1, <3>2, <3>3
  <2>3. /\ IsValue(value) /\ type.depth \in Nat /\ type.depth = 0
        /\ value[<<>>].is # "str" => type.base \in CHECKED \cup TEXTTYPES
        /\ value[<<>>].is = "str" => type.base \in TEXTTYPES
    BY <2>1, JobsAssumption DEF ExchangeInv, Done
  <2>4. PICK t \in made : Concerns([arg |-> given], [arg |-> t])
    <3>1. PICK t \in made : TRUE = Concerns([arg |-> given], [arg |-> t])
      BY <2>2
    <3> QED BY <3>1
  <2>5. given = t
    BY <2>4 DEF Concerns
  <2>6. CASE value[<<>>].is # "str"
    <3>1. Decode(type, t) = {Meant(type, value)}
      BY <2>2, <2>3, <2>6, ValueReturns
    <3> QED BY <2>1, <2>5, <3>1
  <2>7. CASE value[<<>>].is = "str"
    <3>1. PICK root, x : root = <<>> /\ x = value[root]
      OBVIOUS
    <3>2. IsNode(x) /\ x.is = "str" /\ root \in DOMAIN value /\ Len(root) = 0
      BY <2>3, <2>7, <3>1 DEF IsValue
    <3>3. x = Str(x.t)
      <4>1. \A n : Whole(n).is = "int" /\ Float(n).is = "float" /\ LIST.is = "list"
        BY DEF Whole, Float, LIST
      <4>2. \A n : Bool(n).is = "bool" /\ DateTime(n).is = "datetime"
        BY DEF Bool, DateTime
      <4> QED BY <3>2, <4>1, <4>2 DEF IsNode
    <3>4. t = Text(x.t)
      BY <2>2, <2>4, <3>1, <3>2 DEF Encode
    <3>5. Decode(type, t) = {Just(Str(x.t))}
      <4>1. t.is = "text" /\ t.t = x.t
        BY <3>4 DEF Text
      <4>2. Scalar(type.base, x.t) = {Str(x.t)}
        BY <2>3, <2>7 DEF Scalar, TEXTTYPES
      <4>3. Decode(type, t) = {Just(s) : s \in Scalar(type.base, t.t)}
        BY <2>3, <4>1 DEF Decode
      <4> QED BY <4>1, <4>2, <4>3
    <3>6. DOMAIN value = {root}
      <4>1. x # LIST
        BY <3>2 DEF LIST
      <4> QED BY <2>3, <3>1, <3>2, <4>1 DEF IsValue
    <3>7. Meant(type, value) = Just(x)
      BY <2>3, <3>1, <3>2, <3>6 DEF Meant, Just
    <3> QED BY <2>1, <2>5, <3>3, <3>5, <3>7
  <2> QED BY <2>6, <2>7
<1> QED BY <1>1, <1>2, <1>3, ExchangeInvHolds, PTL DEF SelectionAgrees
=============================================================================
