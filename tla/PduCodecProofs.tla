---------------------------- MODULE PduCodecProofs --------------------------
(***************************************************************************)
(* What the encoder makes of a text, for every text: its pieces are the    *)
(* text and keep their limit, a PDU has its fields where they belong, and  *)
(* the parser reads from it what the encoder wrote.                        *)
(*                                                                         *)
(* What FlattenSeq, Split and the decoders fold is unrolled by an          *)
(* induction over sets, as the theorem of the library takes an operator    *)
(* for a parameter.                                                        *)
(***************************************************************************)
EXTENDS PduCodec, WellFoundedInduction, SequenceTheorems, TLAPS

\* The values of septets, octets and UTF-16 units.
Septet == 0 .. 127
Byte == 0 .. 255
Unit == {u \in Nat : u < 65536}

(***************************************************************************)
(* Induction and recursive functions, in a form without operators as       *)
(* parameters.                                                             *)
(***************************************************************************)
\* A set that has 0 and with a number the next one has all.
LEMMA Induction ==
  ASSUME NEW S, 0 \in S, \A n \in Nat : n \in S => n + 1 \in S
  PROVE  Nat \subseteq S
  <1>. DEFINE T == Nat \ S
  <1>1. SUFFICES ASSUME T # {} PROVE FALSE
    OBVIOUS
  <1>2. PICK x \in T : \A y \in T : ~ (<<y, x>> \in OpToRel(<, Nat))
    <2>1. T \subseteq Nat
      OBVIOUS
    <2>. HIDE DEF T
    <2>. QED
      BY <1>1, <2>1, WFMin, NatLessThanWellFounded
  <1>3. x # 0 /\ x - 1 \in Nat /\ x - 1 < x
    OBVIOUS
  <1>4. x - 1 \notin T
    BY <1>2, <1>3 DEF OpToRel
  <1>. QED
    BY <1>3, <1>4

\* A function on lo .. N given by its first value and a step exists, and is the only one.
Unfolds(f, a, lo, N, step) ==
  f = [n \in lo .. N |-> IF n = lo THEN a ELSE step[n][f[n - 1]]]

Recursive(D, a, lo, N, step) ==
  a \in D /\ lo \in Nat /\ N \in Nat /\ lo <= N /\ step \in [lo .. N -> [D -> D]]

Solution(g, D, a, lo, N, step) ==
  /\ g \in [lo .. N -> D]
  /\ g[lo] = a
  /\ \A n \in lo .. N : n # lo => g[n] = step[n][g[n - 1]]
  /\ \A f : Unfolds(f, a, lo, N, step) <=> f = g

\* Whatever the first value and the steps are.
LEMMA Recursion ==
  ASSUME NEW D, NEW a, NEW lo, NEW N, NEW step, Recursive(D, a, lo, N, step)
  PROVE  \E g : Solution(g, D, a, lo, N, step)
  <1>. USE DEF Recursive
  <1>. DEFINE Solves(g, n) ==
                /\ g \in [lo .. n -> D]
                /\ g[lo] = a /\ \A i \in lo .. n : i # lo => g[i] = step[i][g[i - 1]]
              S == {n \in Nat : lo <= n /\ n <= N => \E g : Solves(g, n)}
  <1>1. Nat \subseteq S
    <2>1. 0 \in S
      <3>1. lo = 0 => Solves([i \in lo .. 0 |-> a], 0)
        OBVIOUS
      <3>. QED
        BY <3>1
    <2>2. ASSUME NEW n \in Nat, n \in S PROVE n + 1 \in S
      <3>. SUFFICES ASSUME lo <= n + 1, n + 1 <= N PROVE \E g : Solves(g, n + 1)
        OBVIOUS
      <3>1. CASE lo = n + 1
        <4>1. Solves([i \in lo .. n + 1 |-> a], n + 1)
          BY <3>1
        <4>. QED
          BY <4>1
      <3>2. CASE lo <= n
        <4>1. PICK g : Solves(g, n)
          BY <2>2, <3>2
        <4>. DEFINE h == [i \in lo .. n + 1 |-> IF i = n + 1 THEN step[n + 1][g[n]] ELSE g[i]]
        <4>2. step[n + 1] \in [D -> D] /\ g[n] \in D
          BY <3>2, <4>1
        <4>3. h \in [lo .. n + 1 -> D]
          BY <3>2, <4>1, <4>2
        <4>4. h[lo] = a
          BY <3>2, <4>1
        <4>5. ASSUME NEW i \in lo .. n + 1, i # lo PROVE h[i] = step[i][h[i - 1]]
          <5>1. CASE i = n + 1
            BY <3>2, <5>1
          <5>2. CASE i # n + 1
            <6>1. i \in lo .. n /\ i - 1 \in lo .. n /\ i - 1 # n + 1
              BY <4>5, <5>2
            <6>. QED
              BY <4>1, <4>5, <5>2, <6>1
          <5>. QED
            BY <5>1, <5>2
        <4>. QED
          BY <4>3, <4>4, <4>5
      <3>. QED
        BY <3>1, <3>2
    <2>. HIDE DEF S
    <2>. QED
      BY <2>1, <2>2, Induction
  <1>2. PICK g : Solves(g, N)
    BY <1>1
  <1>3. g = [n \in lo .. N |-> IF n = lo THEN a ELSE step[n][g[n - 1]]]
    BY <1>2
  <1>4. ASSUME NEW f, Unfolds(f, a, lo, N, step)
        PROVE  f = g
    <2>. DEFINE Same == {n \in Nat : n \in lo .. N => f[n] = g[n]}
    <2>1. \A n \in lo .. N : f[n] = IF n = lo THEN a ELSE step[n][f[n - 1]]
      BY <1>4, Zenon DEF Unfolds
    <2>2. 0 \in Same
      BY <1>2, <2>1
    <2>3. ASSUME NEW n \in Nat, n \in Same PROVE n + 1 \in Same
      BY <1>2, <2>1, <2>3
    <2>4. Nat \subseteq Same
      <3>. HIDE DEF Same
      <3>. QED
        BY <2>2, <2>3, Induction
    <2>5. \A n \in lo .. N : f[n] = g[n]
      BY <2>4
    <2>6. f = [n \in lo .. N |-> f[n]]
      BY <1>4, Zenon DEF Unfolds
    <2>7. g = [n \in lo .. N |-> g[n]]
      BY <1>2
    <2>. QED
      BY <2>5, <2>6, <2>7
  <1>5. ASSUME NEW f, f = g
        PROVE  Unfolds(f, a, lo, N, step)
    BY <1>3, <1>5, Zenon DEF Unfolds
  <1>. QED
    BY <1>2, <1>4, <1>5 DEF Solution

(***************************************************************************)
(* Sequences put together.                                                 *)
(***************************************************************************)
\* The length and the elements of two sequences joined.
LEMMA Joining ==
  ASSUME NEW E, NEW s \in Seq(E), NEW t \in Seq(E)
  PROVE  /\ s \o t \in Seq(E) /\ Len(s \o t) = Len(s) + Len(t)
         /\ <<>> \o t = t
         /\ \A i \in 1 .. Len(s) : (s \o t)[i] = s[i]
         /\ \A i \in 1 .. Len(t) : (s \o t)[Len(s) + i] = t[i]
  OBVIOUS

\* What FlattenSeq computes: the partial joins.
PartialJoins(g, E, s, n) ==
  /\ g \in [1 .. n -> Seq(E)]
  /\ FlattenSeq(s) = g[n]
  /\ g[1] = s[1]
  /\ \A i \in 1 .. n : i # 1 => g[i] = g[i - 1] \o s[i]

\* They exist for every sequence of sequences.
LEMMA FlattenSteps ==
  ASSUME NEW E, NEW s \in Seq(Seq(E)), NEW n \in Nat, n = Len(s), n # 0
  PROVE  \E g : PartialJoins(g, E, s, n)
  <1>1. 1 <= n /\ s[1] \in Seq(E) /\ \A i \in 1 .. n : s[i] \in Seq(E)
    OBVIOUS
  <1>2. PICK step : step = [i \in 1 .. n |-> [x \in Seq(E) |-> x \o s[i]]]
    OBVIOUS
  <1>3. \A i \in 1 .. n, x \in Seq(E) : step[i][x] = x \o s[i]
    BY <1>2
  <1>4. step \in [1 .. n -> [Seq(E) -> Seq(E)]]
    BY <1>1, <1>2
  <1>5. PICK g \in [1 .. n -> Seq(E)] :
          /\ g[1] = s[1]
          /\ \A i \in 1 .. n : i # 1 => g[i] = step[i][g[i - 1]]
          /\ \A f : Unfolds(f, s[1], 1, n, step) <=> f = g
    <2>1. Recursive(Seq(E), s[1], 1, n, step)
      BY <1>1, <1>4 DEF Recursive
    <2>2. PICK g : Solution(g, Seq(E), s[1], 1, n, step)
      BY <2>1, Recursion
    <2>. QED
      BY <2>2, Zenon DEF Solution
  <1>6. ASSUME NEW i \in 1 .. n, i # 1 PROVE g[i] = g[i - 1] \o s[i]
    <2>1. i - 1 \in 1 .. n
      BY <1>6
    <2>. QED
      BY <1>3, <1>5, <1>6, <2>1
  <1>7. ASSUME NEW f PROVE f = [i \in 1 .. n |-> IF i = 1 THEN s[i] ELSE f[i - 1] \o s[i]] <=> f = g
    <2>1. ASSUME f = g PROVE f = [i \in 1 .. n |-> IF i = 1 THEN s[i] ELSE f[i - 1] \o s[i]]
      BY <1>5, <1>6, <2>1
    <2>2. ASSUME f = [i \in 1 .. n |-> IF i = 1 THEN s[i] ELSE f[i - 1] \o s[i]] PROVE f = g
      <3>1. \A i \in 1 .. n : f[i] = IF i = 1 THEN s[i] ELSE f[i - 1] \o s[i]
        BY <2>2, Zenon
      <3>. DEFINE Same == {i \in Nat : i \in 1 .. n => f[i] = g[i]}
      <3>2. 0 \in Same
        OBVIOUS
      <3>3. ASSUME NEW i \in Nat, i \in Same PROVE i + 1 \in Same
        <4>1. CASE i = 0
          BY <1>1, <1>5, <3>1, <4>1
        <4>2. CASE i # 0 /\ i + 1 \in 1 .. n
          <5>1. i \in 1 .. n /\ i + 1 # 1 /\ (i + 1) - 1 = i
            BY <4>2
          <5>2. f[i + 1] = f[i] \o s[i + 1]
            BY <3>1, <4>2, <5>1
          <5>3. g[i + 1] = g[i] \o s[i + 1]
            BY <1>6, <4>2, <5>1
          <5>4. f[i] = g[i]
            BY <3>3, <5>1
          <5>5. f[i + 1] = g[i + 1]
            BY <5>2, <5>3, <5>4, Zenon
          <5>. QED
            BY <5>5
        <4>. QED
          BY <4>1, <4>2
      <3>4. Nat \subseteq Same
        <4>. HIDE DEF Same
        <4>. QED
          BY <3>2, <3>3, Induction
      <3>5. \A i \in 1 .. n : f[i] = g[i]
        BY <3>4
      <3>6. f = [i \in 1 .. n |-> f[i]]
        BY <2>2, Zenon
      <3>7. g = [i \in 1 .. n |-> g[i]]
        OBVIOUS
      <3>. QED
        BY <3>5, <3>6, <3>7
    <2>. QED
      BY <2>1, <2>2
  <1>8. (CHOOSE f : f = [i \in 1 .. Len(s) |-> IF i = 1 THEN s[i] ELSE f[i - 1] \o s[i]]) = g
    BY <1>7, Zenon
  <1>9. FlattenSeq(s) = g[n]
    BY <1>8, Zenon DEF FlattenSeq
  <1>. QED
    BY <1>5, <1>6, <1>9 DEF PartialJoins

\* One more sequence comes at the end.
LEMMA FlattenAppend ==
  ASSUME NEW E, NEW s \in Seq(Seq(E)), NEW x \in Seq(E)
  PROVE  /\ FlattenSeq(s) \in Seq(E)
         /\ FlattenSeq(Append(s, x)) = FlattenSeq(s) \o x
         /\ FlattenSeq(<<>>) = <<>>
  <1>1. FlattenSeq(<<>>) = <<>> /\ <<>> \in Seq(E)
    BY DEF FlattenSeq
  <1>2. PICK n \in Nat : n = Len(s)
    OBVIOUS
  <1>3. PICK t \in Seq(Seq(E)) :
          /\ t = Append(s, x) /\ n + 1 = Len(t) /\ n + 1 \in Nat /\ n + 1 # 0
          /\ \A i \in 1 .. n : t[i] = s[i]
          /\ t[n + 1] = x
    <2>1. Append(s, x) \in Seq(Seq(E)) /\ Len(Append(s, x)) = n + 1
      BY <1>2
    <2>2. \A i \in 1 .. n : Append(s, x)[i] = s[i]
      BY <1>2
    <2>3. Append(s, x)[n + 1] = x
      BY <1>2
    <2>4. n + 1 \in Nat /\ n + 1 # 0
      OBVIOUS
    <2>. QED
      BY <2>1, <2>2, <2>3, <2>4, Zenon
  <1>4. PICK h : PartialJoins(h, E, t, n + 1)
    BY <1>3, FlattenSteps
  <1>5. CASE n = 0
    <2>1. s = <<>> /\ FlattenSeq(t) = x
      BY <1>2, <1>3, <1>4, <1>5 DEF PartialJoins
    <2>2. <<>> \o x = x
      BY Joining
    <2>. QED
      BY <1>1, <1>3, <2>1, <2>2
  <1>6. CASE n # 0
    <2>1. PICK g : PartialJoins(g, E, s, n)
      BY <1>2, <1>6, FlattenSteps
    <2>. USE DEF PartialJoins
    <2>. DEFINE Same == {i \in Nat : i \in 1 .. n => h[i] = g[i]}
    <2>2. 0 \in Same
      OBVIOUS
    <2>3. ASSUME NEW i \in Nat, i \in Same PROVE i + 1 \in Same
      <3>1. CASE i = 0
        BY <1>3, <1>4, <1>6, <2>1, <3>1
      <3>2. CASE i # 0 /\ i + 1 \in 1 .. n
        <4>1. i \in 1 .. n /\ i + 1 # 1 /\ (i + 1) - 1 = i /\ i + 1 \in 1 .. n + 1
          BY <3>2
        <4>2. h[i + 1] = h[i] \o t[i + 1]
          BY <1>4, <4>1
        <4>3. g[i + 1] = g[i] \o s[i + 1]
          BY <2>1, <3>2, <4>1
        <4>4. h[i] = g[i] /\ t[i + 1] = s[i + 1]
          BY <1>3, <2>3, <3>2, <4>1
        <4>5. h[i + 1] = g[i + 1]
          BY <4>2, <4>3, <4>4, Zenon
        <4>. QED
          BY <4>5
      <3>. QED
        BY <3>1, <3>2
    <2>4. Nat \subseteq Same
      <3>. HIDE DEF Same
      <3>. QED
        BY <2>2, <2>3, Induction
    <2>5. n \in 1 .. n /\ n + 1 \in 1 .. n + 1 /\ n + 1 # 1 /\ (n + 1) - 1 = n
      BY <1>6
    <2>6. h[n] = g[n] /\ g[n] \in Seq(E)
      BY <2>1, <2>4, <2>5
    <2>7. h[n + 1] = h[n] \o x
      BY <1>3, <1>4, <2>5
    <2>. QED
      BY <1>1, <1>3, <1>4, <2>1, <2>6, <2>7
  <1>. QED
    BY <1>5, <1>6

\* Two appended one after the other.
LEMMA AppendOne ==
  ASSUME NEW S, NEW x \in S, NEW y \in S
  PROVE  Append(<<x>>, y) = <<x, y>>
  <1>1. <<x>> \in Seq(S) /\ <<x, y>> \in Seq(S)
    OBVIOUS
  <1>2. PICK s \in Seq(S) : s = <<x>>
    BY <1>1, Zenon
  <1>3. Append(s, y) = <<x, y>>
    <2>1. PICK t \in Seq(S) : t = <<x, y>>
      BY <1>1, Zenon
    <2>2. Append(s, y) \in Seq(S) /\ Len(Append(s, y)) = Len(t)
      BY <1>2, <2>1
    <2>3. \A i \in 1 .. Len(t) : Append(s, y)[i] = t[i]
      BY <1>2, <2>1
    <2>4. Append(s, y) = t
      BY <2>2, <2>3
    <2>. QED
      BY <2>1, <2>4, Zenon
  <1>. QED
    BY <1>2, <1>3, Zenon

\* One or two sequences joined.
LEMMA FlattenShort ==
  ASSUME NEW E, NEW x \in Seq(E), NEW y \in Seq(E)
  PROVE  FlattenSeq(<<x>>) = x /\ FlattenSeq(<<x, y>>) = x \o y
  <1>1. <<>> \in Seq(Seq(E)) /\ <<x>> \in Seq(Seq(E))
    OBVIOUS
  <1>2. Append(<<>>, x) = <<x>>
    OBVIOUS
  <1>3. Append(<<x>>, y) = <<x, y>>
    BY AppendOne
  <1>4. FlattenSeq(Append(<<>>, x)) = FlattenSeq(<<>>) \o x /\ FlattenSeq(<<>>) = <<>>
    BY <1>1, FlattenAppend
  <1>5. <<>> \o x = x
    BY Joining
  <1>6. FlattenSeq(<<x>>) = x
    BY <1>2, <1>4, <1>5, Zenon
  <1>7. FlattenSeq(Append(<<x>>, y)) = FlattenSeq(<<x>>) \o y
    BY <1>1, FlattenAppend
  <1>. QED
    BY <1>3, <1>6, <1>7, Zenon

\* Sequences of one element and of two.
LEMMA ShortSequences == ASSUME NEW E, NEW x \in E, NEW y \in E
  PROVE /\ <<x>> \in Seq(E) /\ Len(<<x>>) = 1
        /\ <<x, y>> \in Seq(E) /\ Len(<<x, y>>) = 2
  OBVIOUS

\* What was put behind a sequence comes out whole when the front is dropped.
LEMMA DropFront ==
  ASSUME NEW E, NEW s \in Seq(E), NEW t \in Seq(E)
  PROVE  Drop(s \o t, Len(s)) = t
  <1>1. PICK n \in Nat : n = Len(s) + Len(t) /\ n = Len(s \o t)
    <2>1. Len(s \o t) = Len(s) + Len(t)
      BY Joining
    <2>. QED
      BY <2>1
  <1>2. CASE t = <<>>
    <2>1. Len(s) + 1 \in Int /\ n < Len(s) + 1
      BY <1>1, <1>2
    <2>2. SubSeq(s \o t, Len(s) + 1, n) = <<>>
      BY <2>1, SubSeqEmpty
    <2>. QED
      BY <1>1, <1>2, <2>2, Zenon DEF Drop
  <1>3. CASE t # <<>>
    <2>1. /\ Len(s) + 1 \in Len(s) + 1 .. Len(s) + Len(t) /\ n \in Len(s) + 1 .. Len(s) + Len(t)
          /\ (Len(s) + 1) - Len(s) = 1 /\ n - Len(s) = Len(t)
      BY <1>1, <1>3
    <2>2. SubSeq(s \o t, Len(s) + 1, n) = SubSeq(t, (Len(s) + 1) - Len(s), n - Len(s))
      BY <2>1, SubSeqOfConcat2
    <2>3. SubSeq(t, 1, Len(t)) = t
      BY SubSeqFull
    <2>. QED
      BY <1>1, <2>1, <2>2, <2>3, Zenon DEF Drop
  <1>. QED
    BY <1>2, <1>3

\* u is s followed by t.
IsJoin(u, s, t) ==
  /\ u = s \o t /\ Len(u) = Len(s) + Len(t)
  /\ \A i \in 1 .. Len(s) : u[i] = s[i]
  /\ \A i \in 1 .. Len(t) : u[Len(s) + i] = t[i]
  /\ Drop(u, Len(s)) = t

\* Two sequences have a join.
LEMMA JoinOf ==
  ASSUME NEW E, NEW s \in Seq(E), NEW t \in Seq(E)
  PROVE  \E u \in Seq(E) : IsJoin(u, s, t)
  <1>1. s \o t \in Seq(E) /\ IsJoin(s \o t, s, t)
    <2>1. /\ s \o t \in Seq(E) /\ Len(s \o t) = Len(s) + Len(t)
          /\ \A i \in 1 .. Len(s) : (s \o t)[i] = s[i]
          /\ \A i \in 1 .. Len(t) : (s \o t)[Len(s) + i] = t[i]
      BY Joining
    <2>2. Drop(s \o t, Len(s)) = t
      BY DropFront
    <2>. QED
      BY <2>1, <2>2, Zenon DEF IsJoin
  <1>. QED
    BY <1>1, Zenon

(***************************************************************************)
(* A text coded character by character, and its split.                     *)
(***************************************************************************)
Coded(text, code) == FlattenSeq([i \in DOMAIN text |-> code[text[i]]])

Codes(C, E) == [C -> Seq(E)]

CodedInTurn(text, c, code, E) ==
  /\ Coded(text, code) \in Seq(E)
  /\ Coded(Append(text, c), code) = Coded(text, code) \o code[c]
  /\ Coded(<<c>>, code) = code[c]

\* A character more is its code more.
LEMMA CodedAppend ==
  ASSUME NEW C, NEW E, NEW code \in Codes(C, E), NEW text \in Seq(C), NEW c \in C
  PROVE  CodedInTurn(text, c, code, E)
  <1>. USE DEF Codes
  <1>1. PICK s : s = [i \in DOMAIN text |-> code[text[i]]]
    OBVIOUS
  <1>2. s \in Seq(Seq(E)) /\ code[c] \in Seq(E) /\ <<>> \in Seq(Seq(E))
    BY <1>1
  <1>3. [i \in DOMAIN Append(text, c) |-> code[Append(text, c)[i]]] = Append(s, code[c])
    BY <1>1, <1>2
  <1>4. [i \in DOMAIN <<c>> |-> code[<<c>>[i]]] = Append(<<>>, code[c])
    BY <1>2
  <1>5. /\ FlattenSeq(s) \in Seq(E) /\ FlattenSeq(Append(s, code[c])) = FlattenSeq(s) \o code[c]
        /\ FlattenSeq(<<>>) = <<>>
    BY <1>2, FlattenAppend
  <1>6. FlattenSeq(Append(<<>>, code[c])) = code[c]
    <2>1. FlattenSeq(Append(<<>>, code[c])) = <<>> \o code[c]
      BY <1>2, <1>5, FlattenAppend
    <2>. QED
      BY <1>2, <2>1, Joining
  <1>. QED
    BY <1>1, <1>3, <1>4, <1>5, <1>6, Zenon DEF Coded, CodedInTurn

\* What Split computes: the pieces of each prefix of the text.
Fillings(C) == [done : Seq(Seq(C)), last : Seq(C), used : Nat]
Empty == [done |-> <<>>, last |-> <<>>, used |-> 0]
PrefixPieces(g, C, text, size, cap) ==
  /\ g \in [0 .. Len(text) -> Fillings(C)]
  /\ g[0] = Empty
  /\ \A n \in 1 .. Len(text) : g[n] = NextCharacter(g[n - 1], text[n], size, cap)
  /\ Split(text, size, cap) = Append(g[Len(text)].done, g[Len(text)].last)

\* A character leaves pieces of characters.
LEMMA NextCharacterType ==
  ASSUME NEW C, NEW size, NEW cap, NEW c \in C, size[c] \in Nat, NEW p \in Fillings(C)
  PROVE  NextCharacter(p, c, size, cap) \in Fillings(C)
  <1>1. p.done \in Seq(Seq(C)) /\ p.last \in Seq(C) /\ p.used \in Nat
    BY DEF Fillings
  <1>2. Append(p.done, p.last) \in Seq(Seq(C)) /\ Append(p.last, c) \in Seq(C) /\ <<c>> \in Seq(C)
    BY <1>1
  <1>3. [done |-> Append(p.done, p.last), last |-> <<c>>, used |-> size[c]] \in Fillings(C)
    BY <1>2 DEF Fillings
  <1>4. [done |-> p.done, last |-> Append(p.last, c), used |-> p.used + size[c]] \in Fillings(C)
    BY <1>1, <1>2 DEF Fillings
  <1>. QED
    BY <1>3, <1>4, Zenon DEF NextCharacter

\* What is appended to the second of two sequences is appended to both.
LEMMA AppendConcat ==
  ASSUME NEW C, NEW q \in Seq(C), NEW s \in Seq(C), NEW c \in C
  PROVE  q \o Append(s, c) = Append(q \o s, c)
  OBVIOUS

\* Split goes through the prefixes, one character at a time.
LEMMA SplitSteps ==
  ASSUME NEW C, NEW text \in Seq(C), NEW size, \A c \in C : size[c] \in Nat, NEW cap
  PROVE  \E g : PrefixPieces(g, C, text, size, cap)
  <1>1. PICK N \in Nat : N = Len(text)
    OBVIOUS
  <1>2. PICK D : D = Fillings(C)
    OBVIOUS
  <1>3. \A i \in 1 .. N : text[i] \in C
    BY <1>1
  <1>4. Empty \in D
    BY <1>2 DEF Empty, Fillings
  <1>5. PICK step : step = [i \in 0 .. N |-> [p \in D |->
                              IF i = 0 THEN p ELSE NextCharacter(p, text[i], size, cap)]]
    OBVIOUS
  <1>6. \A i \in 1 .. N, p \in D : step[i][p] = NextCharacter(p, text[i], size, cap)
    BY <1>5
  <1>7. step \in [0 .. N -> [D -> D]]
    <2>1. ASSUME NEW i \in 0 .. N, NEW p \in D, i # 0 PROVE NextCharacter(p, text[i], size, cap) \in D
      BY <1>2, <1>3, <2>1, NextCharacterType
    <2>. QED
      BY <1>5, <2>1
  <1>8. PICK g : Solution(g, D, Empty, 0, N, step)
    <2>1. Recursive(D, Empty, 0, N, step)
      BY <1>4, <1>7 DEF Recursive
    <2>. QED
      BY <2>1, Recursion
  <1>9. g \in [0 .. N -> D] /\ g[0] = Empty
    BY <1>8 DEF Solution
  <1>10. ASSUME NEW i \in 1 .. N PROVE g[i] = NextCharacter(g[i - 1], text[i], size, cap)
    <2>1. g[i] = step[i][g[i - 1]] /\ i - 1 \in 0 .. N
      BY <1>8 DEF Solution
    <2>2. g[i - 1] \in D
      BY <1>9, <2>1
    <2>. QED
      BY <1>6, <2>1, <2>2
  <1>. DEFINE Eqn(f) == f = [n \in 0 .. N |->
                IF n = 0 THEN Empty ELSE NextCharacter(f[n - 1], text[n], size, cap)]
  <1>11. Eqn(g)
    BY <1>9, <1>10
  <1>12. ASSUME NEW f, Eqn(f) PROVE f = g
    <2>1. \A n \in 0 .. N : f[n] = IF n = 0 THEN Empty ELSE NextCharacter(f[n - 1], text[n], size, cap)
      BY <1>12, Zenon
    <2>. DEFINE Same == {i \in Nat : i \in 0 .. N => f[i] = g[i]}
    <2>2. 0 \in Same
      BY <1>9, <2>1
    <2>3. ASSUME NEW i \in Nat, i \in Same PROVE i + 1 \in Same
      <3>. SUFFICES ASSUME i + 1 \in 0 .. N PROVE f[i + 1] = g[i + 1]
        OBVIOUS
      <3>1. i \in 0 .. N /\ i + 1 \in 1 .. N /\ i + 1 # 0 /\ (i + 1) - 1 = i
        OBVIOUS
      <3>2. f[i + 1] = NextCharacter(f[i], text[i + 1], size, cap)
        BY <2>1, <3>1
      <3>3. g[i + 1] = NextCharacter(g[i], text[i + 1], size, cap)
        BY <1>10, <3>1
      <3>4. f[i] = g[i]
        BY <2>3, <3>1
      <3>. QED
        BY <3>2, <3>3, <3>4, Zenon
    <2>4. Nat \subseteq Same
      <3>. HIDE DEF Same
      <3>. QED
        BY <2>2, <2>3, Induction
    <2>5. \A n \in 0 .. N : f[n] = g[n]
      BY <2>4
    <2>6. f = [n \in 0 .. N |-> f[n]]
      BY <1>12, Zenon
    <2>7. g = [n \in 0 .. N |-> g[n]]
      BY <1>9
    <2>. QED
      BY <2>5, <2>6, <2>7
  <1>13. (CHOOSE f : Eqn(f)) = g
    <2>. HIDE DEF Eqn
    <2>. QED
      BY <1>11, <1>12, Zenon
  <1>14. Split(text, size, cap) = Append(g[N].done, g[N].last)
    BY <1>1, <1>13, Zenon DEF Split, Empty
  <1>. QED
    BY <1>1, <1>2, <1>9, <1>10, <1>14 DEF PrefixPieces

\* A code whose characters take w times size[c] elements each, one or two.
Sized(C, E, code, size, w) ==
  /\ code \in Codes(C, E) /\ w \in 1 .. 2
  /\ \A c \in C : size[c] \in 1 .. 2 /\ Len(code[c]) = w * size[c]

\* Pieces of a text, each of at most so many elements of its code.
Pieces(pieces, text, C, code, limit) ==
  /\ pieces \in Seq(Seq(C)) /\ pieces # <<>>
  /\ FlattenSeq(pieces) = text
  /\ \A k \in DOMAIN pieces : Len(Coded(pieces[k], code)) <= limit

\* The split of a text by sizes has pieces within the limit, and joined they are the text: no
\* character is lost where a piece is closed, none is taken twice, no piece is overfull.
LEMMA SplitFits ==
  ASSUME NEW C, NEW E, NEW code, NEW size, NEW w, Sized(C, E, code, size, w),
         NEW text \in Seq(C), NEW cap \in Nat \ {0, 1}
  PROVE  Pieces(Split(text, size, cap), text, C, code, w * cap)
  <1>1. PICK N \in Nat : N = Len(text)
    OBVIOUS
  <1>2. PICK g : PrefixPieces(g, C, text, size, cap)
    <2>1. \A c \in C : size[c] \in Nat
      BY DEF Sized
    <2>. QED
      BY <2>1, SplitSteps
  <1>3. /\ g \in [0 .. N -> Fillings(C)] /\ g[0] = Empty
        /\ \A n \in 1 .. N : g[n] = NextCharacter(g[n - 1], text[n], size, cap)
        /\ Split(text, size, cap) = Append(g[N].done, g[N].last)
    BY <1>1, <1>2 DEF PrefixPieces
  <1>. DEFINE Fit(p, n) ==
                /\ \A k \in DOMAIN p.done : Len(Coded(p.done[k], code)) <= w * cap
                /\ Len(Coded(p.last, code)) = w * p.used /\ p.used <= cap
                /\ FlattenSeq(Append(p.done, p.last)) = SubSeq(text, 1, n)
              Kept == {n \in Nat : n <= N => Fit(g[n], n)}
  <1>4. 0 \in Kept
    <2>1. FlattenSeq(Append(<<>>, <<>>)) = <<>>
      <3>1. <<>> \in Seq(Seq(C)) /\ <<>> \in Seq(C)
        OBVIOUS
      <3>2. FlattenSeq(Append(<<>>, <<>>)) = FlattenSeq(<<>>) \o <<>> /\ FlattenSeq(<<>>) = <<>>
        BY <3>1, FlattenAppend
      <3>. QED
        BY <3>2
    <2>2. Coded(<<>>, code) = <<>>
      <3>1. [i \in DOMAIN <<>> |-> code[<<>>[i]]] = <<>>
        OBVIOUS
      <3>2. FlattenSeq(<<>>) = <<>>
        BY DEF FlattenSeq
      <3>. QED
        BY <3>1, <3>2, Zenon DEF Coded
    <2>3. SubSeq(text, 1, 0) = <<>>
      OBVIOUS
    <2>4. w * 0 = 0 /\ Len(<<>>) = 0 /\ DOMAIN <<>> = {}
      BY DEF Sized
    <2>5. Empty.done = <<>> /\ Empty.last = <<>> /\ Empty.used = 0
      BY DEF Empty
    <2>6. DOMAIN Empty.done = {} /\ Len(Coded(Empty.last, code)) = w * Empty.used
      BY <2>2, <2>4, <2>5, Zenon
    <2>7. FlattenSeq(Append(Empty.done, Empty.last)) = SubSeq(text, 1, 0)
      BY <2>1, <2>3, <2>5, Zenon
    <2>8. Fit(Empty, 0)
      BY <2>5, <2>6, <2>7
    <2>. HIDE DEF Fit
    <2>. QED
      BY <1>3, <2>8
  <1>5. ASSUME NEW n \in Nat, n \in Kept PROVE n + 1 \in Kept
    <2>. SUFFICES ASSUME n + 1 <= N PROVE Fit(g[n + 1], n + 1)
      OBVIOUS
    <2>1. PICK c \in C : c = text[n + 1]
      BY <1>1
    <2>2. PICK p \in Fillings(C) : p = g[n]
      BY <1>3
    <2>3. p.done \in Seq(Seq(C)) /\ p.last \in Seq(C) /\ p.used \in Nat
      BY DEF Fillings
    <2>4. Fit(p, n)
      BY <1>5, <2>2
    <2>5. g[n + 1] = NextCharacter(p, c, size, cap)
      <3>1. n + 1 \in 1 .. N /\ (n + 1) - 1 = n
        BY <1>1
      <3>. QED
        BY <1>3, <2>1, <2>2, <3>1
    <2>6. /\ Len(Coded(p.last, code)) <= w * cap
          /\ size[c] \in 1 .. 2 /\ Len(code[c]) = w * size[c] /\ w \in 1 .. 2 /\ code[c] \in Seq(E)
          /\ code \in Codes(C, E)
      BY <2>3, <2>4 DEF Sized, Codes
    <2>7. /\ Coded(p.last, code) \in Seq(E)
          /\ Coded(Append(p.last, c), code) = Coded(p.last, code) \o code[c]
          /\ Coded(<<c>>, code) = code[c]
      <3>1. code \in Codes(C, E)
        BY <2>6
      <3>2. PICK q \in Seq(C) : q = p.last
        BY <2>3
      <3>3. CodedInTurn(q, c, code, E)
        BY <3>1, CodedAppend
      <3>. QED
        BY <3>2, <3>3, Zenon DEF CodedInTurn
    <2>8. SubSeq(text, 1, n + 1) = Append(SubSeq(text, 1, n), c)
      BY <1>1, <2>1
    <2>9. CASE g[n + 1] = [done |-> Append(p.done, p.last), last |-> <<c>>, used |-> size[c]]
      <3>. DEFINE done2 == Append(p.done, p.last)
      <3>1. g[n + 1].done = done2 /\ g[n + 1].last = <<c>> /\ g[n + 1].used = size[c]
        BY <2>9
      <3>2. \A k \in DOMAIN done2 : Len(Coded(done2[k], code)) <= w * cap
        <4>1. ASSUME NEW k \in DOMAIN done2 PROVE Len(Coded(done2[k], code)) <= w * cap
          <5>1. (k \in DOMAIN p.done /\ done2[k] = p.done[k]) \/ done2[k] = p.last
            BY <2>3, <4>1
          <5>. QED
            BY <2>4, <2>6, <5>1
        <4>. QED
          BY <4>1
      <3>3. FlattenSeq(Append(done2, <<c>>)) = SubSeq(text, 1, n + 1)
        <4>1. done2 \in Seq(Seq(C)) /\ <<c>> \in Seq(C)
          BY <2>3
        <4>2. FlattenSeq(Append(done2, <<c>>)) = FlattenSeq(done2) \o <<c>>
          BY <4>1, FlattenAppend
        <4>3. FlattenSeq(done2) = SubSeq(text, 1, n)
          BY <2>4
        <4>4. SubSeq(text, 1, n) \o <<c>> = Append(SubSeq(text, 1, n), c)
          BY <1>1
        <4>. QED
          BY <2>8, <4>2, <4>3, <4>4, Zenon
      <3>4. Len(Coded(<<c>>, code)) = w * size[c] /\ size[c] <= cap
        <4>1. Len(Coded(<<c>>, code)) = w * size[c]
          BY <2>6, <2>7, Zenon
        <4>. QED
          BY <2>6, <4>1
      <3>. HIDE DEF done2
      <3>. QED
        BY <3>1, <3>2, <3>3, <3>4
    <2>10. CASE /\ ~(p.used > 0 /\ p.used + size[c] > cap)
                /\ g[n + 1] = [done |-> p.done, last |-> Append(p.last, c), used |-> p.used + size[c]]
      <3>1. /\ g[n + 1].done = p.done /\ g[n + 1].last = Append(p.last, c)
            /\ g[n + 1].used = p.used + size[c]
        BY <2>10
      <3>2. FlattenSeq(Append(p.done, Append(p.last, c))) = SubSeq(text, 1, n + 1)
        <4>1. Append(p.last, c) \in Seq(C)
          BY <2>3
        <4>2. /\ FlattenSeq(Append(p.done, Append(p.last, c))) = FlattenSeq(p.done) \o Append(p.last, c)
              /\ FlattenSeq(Append(p.done, p.last)) = FlattenSeq(p.done) \o p.last
              /\ FlattenSeq(p.done) \in Seq(C)
          BY <2>3, <4>1, FlattenAppend
        <4>3. PICK q \in Seq(C) : q = FlattenSeq(p.done)
          BY <4>2
        <4>4. q \o Append(p.last, c) = Append(q \o p.last, c)
          <5>1. p.last \in Seq(C)
            BY <2>3
          <5>. QED
            BY <5>1, AppendConcat
        <4>5. q \o p.last = SubSeq(text, 1, n)
          BY <2>4, <4>2, <4>3
        <4>. QED
          BY <2>8, <4>2, <4>3, <4>4, <4>5, Zenon
      <3>3. Len(Coded(Append(p.last, c), code)) = w * (p.used + size[c])
        <4>1. Len(Coded(Append(p.last, c), code)) = w * p.used + w * size[c]
          <5>1. Len(Coded(p.last, code) \o code[c]) = Len(Coded(p.last, code)) + Len(code[c])
            <6>1. PICK a \in Seq(E), b \in Seq(E) : a = Coded(p.last, code) /\ b = code[c]
              BY <2>6, <2>7, Zenon
            <6>2. Len(a \o b) = Len(a) + Len(b)
              OBVIOUS
            <6>. QED
              BY <6>1, <6>2, Zenon
          <5>. QED
            BY <2>4, <2>6, <2>7, <5>1, Zenon
        <4>2. w = 1 \/ w = 2
          BY <2>6
        <4>. QED
          BY <2>3, <2>6, <4>1, <4>2
      <3>4. p.used + size[c] <= cap
        BY <2>3, <2>6, <2>10
      <3>. QED
        BY <2>4, <3>1, <3>2, <3>3, <3>4
    <2>. QED
      BY <2>5, <2>9, <2>10, Zenon DEF NextCharacter
  <1>6. Nat \subseteq Kept
    <2>. HIDE DEF Kept
    <2>. QED
      BY <1>4, <1>5, Induction
  <1>7. Fit(g[N], N)
    BY <1>6
  <1>8. PICK p \in Fillings(C) : p = g[N]
    BY <1>3
  <1>9. p.done \in Seq(Seq(C)) /\ p.last \in Seq(C) /\ p.used \in Nat
    BY DEF Fillings
  <1>10. SubSeq(text, 1, N) = text
    BY <1>1
  <1>11. Len(Coded(p.last, code)) <= w * cap
    BY <1>7, <1>8, <1>9 DEF Sized
  <1>12. \A k \in DOMAIN Append(p.done, p.last) : Len(Coded(Append(p.done, p.last)[k], code)) <= w * cap
    <2>1. ASSUME NEW k \in DOMAIN Append(p.done, p.last)
          PROVE  Len(Coded(Append(p.done, p.last)[k], code)) <= w * cap
      <3>1. \/ k \in DOMAIN p.done /\ Append(p.done, p.last)[k] = p.done[k]
            \/ Append(p.done, p.last)[k] = p.last
        BY <1>9, <2>1
      <3>. QED
        BY <1>7, <1>8, <1>11, <3>1
    <2>. QED
      BY <2>1
  <1>13. Append(p.done, p.last) \in Seq(Seq(C)) /\ Append(p.done, p.last) # <<>>
    BY <1>9
  <1>14. FlattenSeq(Append(p.done, p.last)) = text
    BY <1>7, <1>8, <1>10
  <1>15. Split(text, size, cap) = Append(p.done, p.last)
    BY <1>3, <1>8, Zenon
  <1>. QED
    BY <1>12, <1>13, <1>14, <1>15, Zenon DEF Pieces

(***************************************************************************)
(* The two alphabets.                                                      *)
(***************************************************************************)

\* The characters GSM-7 has, and what each becomes.
GsmChars == DOMAIN Basic \cup DOMAIN Extension
GsmCode == [c \in GsmChars |-> SeptetsOf(c)]
Ucs2Code == [c \in Characters |-> OctetsOf(c)]

\* The codes of the basic table are septets.
LEMMA BasicCodes ==
  /\ DOMAIN Basic = {"at", "paren", "a", "eacute", "escape"}
  /\ \A c \in DOMAIN Basic : Basic[c] \in Septet
  <1>1. DOMAIN Basic = {"at", "paren", "a", "eacute", "escape"}
    BY Zenon DEF Basic
  <1>2. /\ Basic["at"] = 0 /\ Basic["paren"] = 40 /\ Basic["a"] = 97 /\ Basic["eacute"] = 30
        /\ Basic["escape"] = 27
    BY DEF Basic, Esc
  <1>3. {0, 27, 30, 40, 97} \subseteq Septet
    BY DEF Septet
  <1>. QED
    BY <1>1, <1>2, <1>3

\* Those of the extension table, behind an escape, too.
LEMMA ExtensionCodes ==
  /\ DOMAIN Extension = {"brace", "bracket"}
  /\ \A c \in DOMAIN Extension : Extension[c] \in Septet
  <1>1. DOMAIN Extension = {"brace", "bracket"}
    BY Zenon DEF Extension
  <1>2. Extension["brace"] = 40 /\ Extension["bracket"] = 60
    BY DEF Extension
  <1>3. 40 \in Septet /\ 60 \in Septet
    BY DEF Septet
  <1>. QED
    BY <1>1, <1>2, <1>3, Zenon

\* What GSM-7 has, UTF-16 has.
LEMMA GsmCharacters == GsmChars \subseteq Characters
  <1>1. DOMAIN Bmp = {"at", "paren", "a", "eacute", "escape", "brace", "bracket", "han"}
    BY SMT DEF Bmp
  <1>. QED
    BY <1>1, BasicCodes, ExtensionCodes DEF GsmChars, Characters

\* A character of GSM-7 is as many septets as split_gsm7 counts for it.
LEMMA SeptetsOfType ==
  ASSUME NEW c \in GsmChars
        PROVE  SeptetsOf(c) \in Seq(Septet) /\ Septets[c] \in 1 .. 2 /\ Len(SeptetsOf(c)) = Septets[c]
    <2>1. c \in Characters
      BY GsmCharacters
    <2>2. Septets[c] = IF c \in DOMAIN Basic THEN 1 ELSE 2
      BY <2>1, Zenon DEF Septets
    <2>3. CASE c \in DOMAIN Basic
      <3>1. SeptetsOf(c) = <<Basic[c]>> /\ Septets[c] = 1
        BY <2>2, <2>3, Zenon DEF SeptetsOf
      <3>2. PICK x \in Septet : x = Basic[c]
        BY <2>3, BasicCodes
      <3>3. <<x>> \in Seq(Septet) /\ Len(<<x>>) = 1
        OBVIOUS
      <3>. QED
        BY <3>1, <3>2, <3>3
    <2>4. CASE c \notin DOMAIN Basic
      <3>1. c \in DOMAIN Extension
        BY <2>4 DEF GsmChars
      <3>2. SeptetsOf(c) = <<Esc, Extension[c]>> /\ Septets[c] = 2
        BY <2>2, <2>4, Zenon DEF SeptetsOf
      <3>3. PICK x \in Septet : x = Extension[c]
        BY <3>1, ExtensionCodes
      <3>4. <<Esc, x>> \in Seq(Septet) /\ Len(<<Esc, x>>) = 2
        BY DEF Esc, Septet
      <3>. QED
        BY <3>2, <3>3, <3>4
    <2>. QED
      BY <2>3, <2>4

\* The octets of a unit, the high one first.
UnitOctets(u) == <<u \div 256, u % 256>>

\* They are two octets.
LEMMA UnitOctetsType ==
  ASSUME NEW u \in Unit
  PROVE  UnitOctets(u) \in Seq(Byte) /\ Len(UnitOctets(u)) = 2
  <1>1. u \in Int /\ 0 <= u /\ u < 65536
    BY DEF Unit
  <1>2. u \div 256 \in Byte
    BY <1>1 DEF Byte
  <1>3. u % 256 \in Byte
    BY <1>1 DEF Byte
  <1>4. PICK a \in Byte, b \in Byte : a = u \div 256 /\ b = u % 256
    BY <1>2, <1>3, Zenon
  <1>5. UnitOctets(u) = <<a, b>>
    BY <1>4, Zenon DEF UnitOctets
  <1>6. <<a, b>> \in Seq(Byte) /\ Len(<<a, b>>) = 2
    OBVIOUS
  <1>. QED
    BY <1>5, <1>6, Zenon

\* A character of the basic plane is one unit.
LEMMA BmpUnits ==
  /\ DOMAIN Bmp = {"at", "paren", "a", "eacute", "escape", "brace", "bracket", "han"}
  /\ \A c \in DOMAIN Bmp : Bmp[c] \in Unit
  <1>1. DOMAIN Bmp = {"at", "paren", "a", "eacute", "escape", "brace", "bracket", "han"}
    BY SMT DEF Bmp
  <1>2. Bmp["at"] = 64 /\ Bmp["paren"] = 40 /\ Bmp["a"] = 97 /\ Bmp["eacute"] = 233
    BY DEF Bmp
  <1>3. Bmp["escape"] = 27 /\ Bmp["brace"] = 123 /\ Bmp["bracket"] = 91 /\ Bmp["han"] = 28450
    BY DEF Bmp
  <1>4. {64, 40, 97, 233, 27, 123, 91, 28450} \subseteq Unit
    BY DEF Unit
  <1>5. Bmp["at"] \in Unit /\ Bmp["paren"] \in Unit /\ Bmp["a"] \in Unit /\ Bmp["eacute"] \in Unit
    BY <1>2, <1>4
  <1>6. Bmp["escape"] \in Unit /\ Bmp["brace"] \in Unit /\ Bmp["bracket"] \in Unit /\ Bmp["han"] \in Unit
    BY <1>3, <1>4
  <1>. QED
    BY <1>1, <1>5, <1>6, Zenon

\* A character is one unit or two.
LEMMA UnitsOf == \A c \in Characters : Units[c] \in Seq(Unit) /\ Len(Units[c]) \in 1 .. 2
  <1>. SUFFICES ASSUME NEW c \in Characters PROVE Units[c] \in Seq(Unit) /\ Len(Units[c]) \in 1 .. 2
    OBVIOUS
  <1>1. CASE c \in DOMAIN Bmp
    <2>1. PICK u \in Unit : u = Bmp[c]
      BY <1>1, BmpUnits
    <2>2. Units[c] = <<u>>
      BY <1>1, <2>1, Zenon DEF Units
    <2>3. <<u>> \in Seq(Unit) /\ Len(<<u>>) \in 1 .. 2
      BY ShortSequences
    <2>. QED
      BY <2>2, <2>3, Zenon
  <1>2. CASE c \notin DOMAIN Bmp
    <2>1. 55357 \in Unit /\ 56832 \in Unit
      BY DEF Unit
    <2>2. Emoji \in Seq(Unit) /\ Len(Emoji) \in 1 .. 2
      BY <2>1 DEF Emoji
    <2>3. Units[c] = Emoji
      BY <1>2, Zenon DEF Units
    <2>. QED
      BY <2>2, <2>3, Zenon
  <1>. QED
    BY <1>1, <1>2

\* And two octets for each.
LEMMA OctetsOfUnits ==
  \A c \in Characters : OctetsOf(c) \in Seq(Byte) /\ Len(OctetsOf(c)) = 2 * Len(Units[c])
  <1>. SUFFICES ASSUME NEW c \in Characters
               PROVE  OctetsOf(c) \in Seq(Byte) /\ Len(OctetsOf(c)) = 2 * Len(Units[c])
    OBVIOUS
  <1>1. PICK s \in Seq(Unit) : s = Units[c] /\ Len(s) \in 1 .. 2
    BY UnitsOf, Zenon
  <1>2. PICK t : t = [k \in DOMAIN s |-> UnitOctets(s[k])]
    OBVIOUS
  <1>3. OctetsOf(c) = FlattenSeq(t)
    BY <1>1, <1>2, Zenon DEF OctetsOf, UnitOctets
  <1>4. CASE Len(s) = 1
    <2>1. s[1] \in Unit
      BY <1>1, <1>4
    <2>2. PICK u \in Unit : u = s[1]
      BY <2>1, Zenon
    <2>3. PICK x \in Seq(Byte) : x = UnitOctets(u) /\ Len(x) = 2
      BY UnitOctetsType, Zenon
    <2>4. t = <<x>>
      BY <1>2, <1>4, <2>2, <2>3
    <2>5. FlattenSeq(<<x>>) = x
      BY FlattenShort, Zenon
    <2>6. OctetsOf(c) = x
      BY <1>3, <2>4, <2>5, Zenon
    <2>7. 2 * Len(Units[c]) = 2
      BY <1>1, <1>4
    <2>. QED
      BY <2>3, <2>6, <2>7, Zenon
  <1>5. CASE Len(s) = 2
    <2>1. s[1] \in Unit /\ s[2] \in Unit
      BY <1>1, <1>5
    <2>2. PICK u \in Unit, v \in Unit : u = s[1] /\ v = s[2]
      BY <2>1, Zenon
    <2>3. PICK x \in Seq(Byte), y \in Seq(Byte) :
            x = UnitOctets(u) /\ Len(x) = 2 /\ y = UnitOctets(v) /\ Len(y) = 2
      BY UnitOctetsType, Zenon
    <2>4. t = <<x, y>>
      BY <1>2, <1>5, <2>2, <2>3
    <2>5. FlattenSeq(<<x, y>>) = x \o y
      BY FlattenShort, Zenon
    <2>6. OctetsOf(c) = x \o y
      BY <1>3, <2>4, <2>5, Zenon
    <2>7. 2 * Len(Units[c]) = 4
      BY <1>1, <1>5
    <2>8. x \o y \in Seq(Byte) /\ Len(x \o y) = 4
      <3>1. x \o y \in Seq(Byte) /\ Len(x \o y) = Len(x) + Len(y)
        BY Joining
      <3>. QED
        BY <2>3, <3>1
    <2>. QED
      BY <2>6, <2>7, <2>8, Zenon
  <1>. QED
    BY <1>1, <1>4, <1>5

\* GSM-7 as a code for SplitFits: its limit is counted in septets.
LEMMA GsmSized ==
  /\ Sized(GsmChars, Septet, GsmCode, Septets, 1)
  /\ \A text \in Seq(GsmChars) : Gsm7Septets(text) = Coded(text, GsmCode)
  <1>1. GsmCode \in Codes(GsmChars, Septet)
    <2>1. \A c \in GsmChars : SeptetsOf(c) \in Seq(Septet)
      BY SeptetsOfType
    <2>. QED
      BY <2>1, Zenon DEF GsmCode, Codes
  <1>2. ASSUME NEW c \in GsmChars PROVE Septets[c] \in 1 .. 2 /\ Len(GsmCode[c]) = 1 * Septets[c]
    <2>1. GsmCode[c] = SeptetsOf(c)
      BY Zenon DEF GsmCode
    <2>2. Septets[c] \in 1 .. 2 /\ Len(SeptetsOf(c)) = Septets[c]
      BY SeptetsOfType
    <2>3. 1 * Septets[c] = Septets[c]
      BY <2>2
    <2>. QED
      BY <2>1, <2>2, <2>3, Zenon
  <1>3. Sized(GsmChars, Septet, GsmCode, Septets, 1)
    BY <1>1, <1>2 DEF Sized
  <1>4. ASSUME NEW text \in Seq(GsmChars) PROVE Gsm7Septets(text) = Coded(text, GsmCode)
    <2>1. \A i \in DOMAIN text : GsmCode[text[i]] = SeptetsOf(text[i])
      <3>1. \A i \in DOMAIN text : text[i] \in GsmChars
        OBVIOUS
      <3>. QED
        BY <3>1, Zenon DEF GsmCode
    <2>2. [i \in DOMAIN text |-> SeptetsOf(text[i])] = [i \in DOMAIN text |-> GsmCode[text[i]]]
      BY <2>1, Zenon
    <2>. QED
      BY <2>2, Zenon DEF Gsm7Septets, Coded
  <1>. QED
    BY <1>3, <1>4

\* UTF-16 as a code for SplitFits: its limit is counted in units of two octets.
LEMMA Ucs2Sized ==
  /\ Sized(Characters, Byte, Ucs2Code, UnitCount, 2)
  /\ \A text \in Seq(Characters) : Utf16Octets(text) = Coded(text, Ucs2Code)
  <1>1. Ucs2Code \in Codes(Characters, Byte)
    BY OctetsOfUnits, Zenon DEF Ucs2Code, Codes
  <1>2. ASSUME NEW c \in Characters PROVE UnitCount[c] \in 1 .. 2 /\ Len(Ucs2Code[c]) = 2 * UnitCount[c]
    <2>1. Ucs2Code[c] = OctetsOf(c) /\ UnitCount[c] = Len(Units[c])
      BY Zenon DEF Ucs2Code, UnitCount
    <2>. QED
      BY <2>1, OctetsOfUnits, UnitsOf, Zenon
  <1>3. Sized(Characters, Byte, Ucs2Code, UnitCount, 2)
    BY <1>1, <1>2 DEF Sized
  <1>4. ASSUME NEW text \in Seq(Characters) PROVE Utf16Octets(text) = Coded(text, Ucs2Code)
    <2>1. \A i \in DOMAIN text : Ucs2Code[text[i]] = OctetsOf(text[i])
      <3>1. \A i \in DOMAIN text : text[i] \in Characters
        OBVIOUS
      <3>. QED
        BY <3>1, Zenon DEF Ucs2Code
    <2>2. [i \in DOMAIN text |-> OctetsOf(text[i])] = [i \in DOMAIN text |-> Ucs2Code[text[i]]]
      BY <2>1, Zenon
    <2>. QED
      BY <2>2, Zenon DEF Utf16Octets, Coded
  <1>. QED
    BY <1>3, <1>4

\* The coding of a text has the type of its code.
LEMMA CodedType ==
  ASSUME NEW C, NEW E, NEW code \in Codes(C, E), NEW c \in C, NEW text \in Seq(C)
  PROVE  Coded(text, code) \in Seq(E)
  <1>1. CodedInTurn(text, c, code, E)
    BY CodedAppend
  <1>. QED
    BY <1>1 DEF CodedInTurn

\* A text becomes septets ...
LEMMA GsmType == \A text \in Seq(GsmChars) : Gsm7Septets(text) \in Seq(Septet)
  <1>. TAKE text \in Seq(GsmChars)
  <1>1. "a" \in GsmChars
    BY BasicCodes DEF GsmChars
  <1>2. GsmCode \in Codes(GsmChars, Septet) /\ Gsm7Septets(text) = Coded(text, GsmCode)
    BY GsmSized DEF Sized
  <1>. QED
    BY <1>1, <1>2, CodedType

\* ... or octets.
LEMMA Ucs2Type == \A text \in Seq(Characters) : Utf16Octets(text) \in Seq(Byte)
  <1>. TAKE text \in Seq(Characters)
  <1>1. "emoji" \in Characters
    BY DEF Characters
  <1>2. Ucs2Code \in Codes(Characters, Byte) /\ Utf16Octets(text) = Coded(text, Ucs2Code)
    BY Ucs2Sized DEF Sized
  <1>. QED
    BY <1>1, <1>2, CodedType

\* split_gsm7: the pieces of a text, joined, are the text, none is longer than the
\* limit in septets, and there is at least one.  An escape and the code behind it stay
\* together, as a piece is a text of whole characters.
THEOREM SplitGsm7Fits ==
  ASSUME NEW text \in Seq(GsmChars), NEW cap \in Nat \ {0, 1}
  PROVE  /\ SplitGsm7(text, cap) \in Seq(Seq(GsmChars)) /\ SplitGsm7(text, cap) # <<>>
         /\ FlattenSeq(SplitGsm7(text, cap)) = text
         /\ \A k \in DOMAIN SplitGsm7(text, cap) : Len(Gsm7Septets(SplitGsm7(text, cap)[k])) <= cap
  <1>1. PICK pieces : pieces = SplitGsm7(text, cap)
    OBVIOUS
  <1>2. Pieces(pieces, text, GsmChars, GsmCode, 1 * cap)
    <2>1. Pieces(Split(text, Septets, cap), text, GsmChars, GsmCode, 1 * cap)
      BY GsmSized, SplitFits
    <2>. QED
      BY <1>1, <2>1, Zenon DEF SplitGsm7
  <1>. USE <1>2 DEF Pieces
  <1>3. ASSUME NEW k \in DOMAIN pieces PROVE Len(Gsm7Septets(pieces[k])) <= cap
    <2>1. pieces[k] \in Seq(GsmChars)
      OBVIOUS
    <2>2. Gsm7Septets(pieces[k]) = Coded(pieces[k], GsmCode)
      BY <2>1, GsmSized, Zenon
    <2>3. Len(Coded(pieces[k], GsmCode)) <= cap
      BY cap \in Nat
    <2>. QED
      BY <2>2, <2>3, Zenon
  <1>. QED
    BY <1>1, <1>3, Zenon

\* split_ucs2: the same of UTF-16 units, no surrogate pair cut in two.
THEOREM SplitUcs2Fits ==
  ASSUME NEW text \in Seq(Characters), NEW cap \in Nat \ {0, 1}
  PROVE  /\ SplitUcs2(text, cap) \in Seq(Seq(Characters)) /\ SplitUcs2(text, cap) # <<>>
         /\ FlattenSeq(SplitUcs2(text, cap)) = text
         /\ \A k \in DOMAIN SplitUcs2(text, cap) : Len(Utf16Octets(SplitUcs2(text, cap)[k])) <= 2 * cap
  <1>1. PICK pieces : pieces = SplitUcs2(text, cap)
    OBVIOUS
  <1>2. Pieces(pieces, text, Characters, Ucs2Code, 2 * cap)
    <2>1. Pieces(Split(text, UnitCount, cap), text, Characters, Ucs2Code, 2 * cap)
      BY Ucs2Sized, SplitFits
    <2>. QED
      BY <1>1, <2>1, Zenon DEF SplitUcs2
  <1>. USE <1>2 DEF Pieces
  <1>3. ASSUME NEW k \in DOMAIN pieces PROVE Len(Utf16Octets(pieces[k])) <= 2 * cap
    <2>1. pieces[k] \in Seq(Characters)
      OBVIOUS
    <2>2. Utf16Octets(pieces[k]) = Coded(pieces[k], Ucs2Code)
      BY <2>1, Ucs2Sized, Zenon
    <2>. QED
      BY <2>2, Zenon
  <1>. QED
    BY <1>1, <1>3, Zenon

(***************************************************************************)
(* Septets in octets.                                                      *)
(***************************************************************************)

\* The numbers that can be divided by.
Positive == Nat \ {0}

\* The shifts of Regroup are by positive powers.
LEMMA Powers == \A k \in 0 .. 7 : 2 ^ k \in Positive
  <1>1. 2 ^ 0 \in Positive /\ 2 ^ 1 \in Positive /\ 2 ^ 2 \in Positive /\ 2 ^ 3 \in Positive
    BY DEF Positive
  <1>2. 2 ^ 4 \in Positive /\ 2 ^ 5 \in Positive /\ 2 ^ 6 \in Positive /\ 2 ^ 7 \in Positive
    BY DEF Positive
  <1>3. ASSUME NEW k \in 0 .. 7 PROVE 2 ^ k \in Positive
    <2>1. k = 0 \/ k = 1 \/ k = 2 \/ k = 3 \/ k = 4 \/ k = 5 \/ k = 6 \/ k = 7
      OBVIOUS
    <2>. QED
      BY <1>1, <1>2, <2>1, Zenon
  <1>. QED
    BY <1>3

\* What is left of a shifted number is a septet, or an octet.
LEMMA Residues ==
  ASSUME NEW a \in Nat, NEW p \in Positive
  PROVE  (a \div p) % 128 \in Septet /\ (a \div p) % 256 \in Byte
  <1>1. PICK q \in Int : q = a \div p
    BY DEF Positive
  <1>2. q % 128 \in Septet
    BY DEF Septet
  <1>3. q % 256 \in Byte
    BY DEF Byte
  <1>. QED
    BY <1>1, <1>2, <1>3, Zenon

\* The place of a bit in octets and in septets.
LEMMA Quotients ==
  /\ \A a \in Nat : a \div 7 \in Nat /\ a \div 8 \in Nat
  /\ \A a \in Nat : a % 7 \in 0 .. 7 /\ a % 8 \in 0 .. 7
  OBVIOUS

\* One value out of two neighbours.
LEMMA RegroupElement ==
  ASSUME NEW a \in Nat, NEW b \in Nat, NEW k \in 0 .. 7
  PROVE  /\ ((a + 2 ^ 8 * b) \div 2 ^ k) % 2 ^ 7 \in Septet
         /\ ((a + 2 ^ 7 * b) \div 2 ^ k) % 2 ^ 8 \in Byte
  <1>1. 2 ^ k \in Positive
    BY Powers
  <1>2. PICK p \in Positive : p = 2 ^ k
    BY <1>1, Zenon
  <1>3. a + 2 ^ 8 * b \in Nat /\ a + 2 ^ 7 * b \in Nat
    <2>1. a + 256 * b \in Nat /\ a + 128 * b \in Nat
      OBVIOUS
    <2>2. 2 ^ 8 = 256 /\ 2 ^ 7 = 128
      OBVIOUS
    <2>. QED
      BY <2>1, <2>2
  <1>4. PICK c \in Nat, d \in Nat : c = a + 2 ^ 8 * b /\ d = a + 2 ^ 7 * b
    BY <1>3, Zenon
  <1>5. (c \div p) % 2 ^ 7 \in Septet /\ (d \div p) % 2 ^ 8 \in Byte
    <2>1. (c \div p) % 128 \in Septet /\ (d \div p) % 256 \in Byte
      BY Residues
    <2>2. 2 ^ 8 = 256 /\ 2 ^ 7 = 128
      OBVIOUS
    <2>3. PICK x, y : x = c \div p /\ y = d \div p
      OBVIOUS
    <2>4. x % 128 \in Septet /\ y % 256 \in Byte
      BY <2>1, <2>3
    <2>5. x % 2 ^ 7 \in Septet /\ y % 2 ^ 8 \in Byte
      BY <2>2, <2>4
    <2>. QED
      BY <2>3, <2>5, Zenon
  <1>. QED
    BY <1>2, <1>4, <1>5, Zenon

\* A value, or 0 behind the end.
ValueAt(values, k) == IF k <= Len(values) THEN values[k] ELSE 0

\* It is a number.
LEMMA ValueType ==
  ASSUME NEW E, E \subseteq Nat, NEW s \in Seq(E), NEW a \in Nat
  PROVE  ValueAt(s, a + 1) \in Nat /\ ValueAt(s, a + 2) \in Nat
  <1>1. ASSUME NEW k \in Nat, k # 0 PROVE ValueAt(s, k) \in Nat
    <2>1. CASE k <= Len(s)
      <3>1. s[k] \in E
        BY <1>1, <2>1
      <3>. QED
        BY <2>1, <3>1, Zenon DEF ValueAt
    <2>2. CASE ~(k <= Len(s))
      BY <2>2 DEF ValueAt
    <2>. QED
      BY <2>1, <2>2
  <1>2. a + 1 \in Nat /\ a + 1 # 0 /\ a + 2 \in Nat /\ a + 2 # 0
    OBVIOUS
  <1>. QED
    BY <1>1, <1>2, Zenon

\* unpack_septets returns as many septets as it is asked for.
LEMMA UnpackType ==
  ASSUME NEW octets \in Seq(Byte), NEW n \in Nat
  PROVE  Unpack(octets, n) \in Seq(Septet) /\ Len(Unpack(octets, n)) = n
  <1>. DEFINE at(j) == 7 * (j - 1)
              f(j) == ((ValueAt(octets, at(j) \div 8 + 1) + 2 ^ 8 * ValueAt(octets, at(j) \div 8 + 2))
                         \div 2 ^ (at(j) % 8)) % 2 ^ 7
  <1>1. Unpack(octets, n) = [j \in 1 .. n |-> f(j)]
    BY Zenon DEF Unpack, Regroup, ValueAt
  <1>2. ASSUME NEW j \in 1 .. n PROVE f(j) \in Septet
    <2>1. PICK a \in Nat : a = at(j)
      OBVIOUS
    <2>2. PICK q \in Nat, k \in 0 .. 7 : q = a \div 8 /\ k = a % 8
      BY Quotients, Zenon
    <2>3. Byte \subseteq Nat
      BY DEF Byte
    <2>4. ValueAt(octets, q + 1) \in Nat /\ ValueAt(octets, q + 2) \in Nat
      BY <2>3, ValueType
    <2>5. ((ValueAt(octets, q + 1) + 2 ^ 8 * ValueAt(octets, q + 2)) \div 2 ^ k) % 2 ^ 7 \in Septet
      BY <2>4, RegroupElement, Zenon
    <2>. QED
      BY <2>1, <2>2, <2>5, Zenon
  <1>. HIDE DEF f
  <1>3. [j \in 1 .. n |-> f(j)] \in Seq(Septet) /\ Len([j \in 1 .. n |-> f(j)]) = n
    BY <1>2
  <1>. QED
    BY <1>1, <1>3, Zenon

\* The way back gives octets, whatever the numbers are.
LEMMA RepackType ==
  ASSUME NEW septets \in Seq(Nat), NEW n \in Nat
  PROVE  Regroup(septets, 7, 8, n) \in Seq(Byte) /\ Len(Regroup(septets, 7, 8, n)) = n
  <1>. DEFINE at(j) == 8 * (j - 1)
              f(j) == ((ValueAt(septets, at(j) \div 7 + 1) + 2 ^ 7 * ValueAt(septets, at(j) \div 7 + 2))
                         \div 2 ^ (at(j) % 7)) % 2 ^ 8
  <1>1. Regroup(septets, 7, 8, n) = [j \in 1 .. n |-> f(j)]
    BY Zenon DEF Regroup, ValueAt
  <1>2. ASSUME NEW j \in 1 .. n PROVE f(j) \in Byte
    <2>1. PICK a \in Nat : a = at(j)
      OBVIOUS
    <2>2. PICK q \in Nat, k \in 0 .. 7 : q = a \div 7 /\ k = a % 7
      BY Quotients, Zenon
    <2>3. ValueAt(septets, q + 1) \in Nat /\ ValueAt(septets, q + 2) \in Nat
      BY ValueType
    <2>4. ((ValueAt(septets, q + 1) + 2 ^ 7 * ValueAt(septets, q + 2)) \div 2 ^ k) % 2 ^ 8 \in Byte
      BY <2>3, RegroupElement, Zenon
    <2>. QED
      BY <2>1, <2>2, <2>4, Zenon
  <1>. HIDE DEF f
  <1>3. [j \in 1 .. n |-> f(j)] \in Seq(Byte) /\ Len([j \in 1 .. n |-> f(j)]) = n
    BY <1>2
  <1>. QED
    BY <1>1, <1>3, Zenon

\* The numbers of octets and septets computed are natural.
LEMMA CeilDivType ==
  \A a \in Nat : CeilDiv(7 * a, 8) \in Nat /\ CeilDiv(a, 2) \in Nat /\ HeaderSeptets(a) \in Nat
  BY DEF CeilDiv, HeaderSeptets

\* pack_septets_with_header: the octets the septets and the header take, the last one
\* filled up.
LEMMA PackType ==
  ASSUME NEW header \in Seq(Byte), NEW septets \in Seq(Nat)
  PROVE  /\ Pack(header, septets) \in Seq(Byte)
         /\ Len(Pack(header, septets)) = CeilDiv(7 * (HeaderSeptets(Len(header)) + Len(septets)), 8)
  <1>1. PICK h \in Nat : h = HeaderSeptets(Len(header))
    BY CeilDivType
  <1>2. PICK front \in Seq(Nat) : front = Unpack(header, h) /\ Len(front) = h
    <2>1. Unpack(header, h) \in Seq(Septet) /\ Len(Unpack(header, h)) = h
      BY UnpackType
    <2>2. \A s \in Seq(Septet) : s \in Seq(Nat)
      <3>1. Septet \subseteq Nat
        BY DEF Septet
      <3>. QED
        BY <3>1, SeqMonotonic, Zenon
    <2>. QED
      BY <2>1, <2>2, Zenon
  <1>3. PICK all \in Seq(Nat) : all = front \o septets /\ Len(all) = h + Len(septets)
    <2>1. front \o septets \in Seq(Nat) /\ Len(front \o septets) = Len(front) + Len(septets)
      BY Joining
    <2>. QED
      BY <1>2, <2>1, Zenon
  <1>4. PICK n \in Nat : n = CeilDiv(7 * Len(all), 8)
    BY CeilDivType
  <1>5. Pack(header, septets) = Regroup(all, 7, 8, n)
    <2>1. Unpack(header, HeaderSeptets(Len(header))) \o septets = all
      BY <1>1, <1>2, <1>3, Zenon
    <2>. QED
      BY <1>4, <2>1, Zenon DEF Pack
  <1>. QED
    <2>1. /\ Regroup(all, 7, 8, n) \in Seq(Byte)
          /\ Len(Regroup(all, 7, 8, n)) = n
      BY RepackType, Zenon
    <2>2. n = CeilDiv(7 * (HeaderSeptets(Len(header)) + Len(septets)), 8)
      BY <1>1, <1>3, <1>4, Zenon
    <2>. QED
      BY <1>5, <2>1, <2>2, Zenon

(***************************************************************************)
(* The fields of a PDU.                                                    *)
(***************************************************************************)

\* The numbers a message is sent to; SendIn takes 40 characters at most.
Number == {n \in [plus : BOOLEAN, digits : Seq(0 .. 9)] : Len(n.digits) <= 255}

\* A number up to 255 is an octet.
LEMMA ByteOf == \A n \in Nat : n <= 255 => n \in Byte
  BY DEF Byte

\* Two digits to an octet.
LEMMA SemiOctetsType ==
  ASSUME NEW digits \in Seq(0 .. 9)
  PROVE  SemiOctets(digits) \in Seq(Byte) /\ Len(SemiOctets(digits)) = CeilDiv(Len(digits), 2)
  <1>1. PICK m \in Nat : m = CeilDiv(Len(digits), 2)
    BY CeilDivType
  <1>. DEFINE f(i) == digits[2 * i - 1] + 16 * (IF 2 * i <= Len(digits) THEN digits[2 * i] ELSE 15)
  <1>2. SemiOctets(digits) = [i \in 1 .. m |-> f(i)]
    BY <1>1, Zenon DEF SemiOctets
  <1>3. ASSUME NEW i \in 1 .. m PROVE f(i) \in Byte
    <2>1. 2 * i - 1 \in 1 .. Len(digits)
      BY <1>1 DEF CeilDiv
    <2>2. PICK a \in 0 .. 9 : a = digits[2 * i - 1]
      BY <2>1
    <2>3. CASE 2 * i <= Len(digits)
      <3>1. PICK b \in 0 .. 9 : b = digits[2 * i]
        BY <2>3
      <3>2. f(i) = a + 16 * b
        BY <2>2, <2>3, <3>1, Zenon
      <3>3. a + 16 * b \in Byte
        BY DEF Byte
      <3>. QED
        BY <3>2, <3>3, Zenon
    <2>4. CASE ~(2 * i <= Len(digits))
      <3>1. f(i) = a + 16 * 15
        BY <2>2, <2>4, Zenon
      <3>2. a + 16 * 15 \in Byte
        BY DEF Byte
      <3>. QED
        BY <3>1, <3>2, Zenon
    <2>. QED
      BY <2>3, <2>4
  <1>. HIDE DEF f
  <1>4. [i \in 1 .. m |-> f(i)] \in Seq(Byte) /\ Len([i \in 1 .. m |-> f(i)]) = m
    BY <1>3
  <1>. QED
    BY <1>1, <1>2, <1>4, Zenon

\* s is made of two octets, or of four.
IsPair(s, a, b) == s = <<a, b>> /\ Len(s) = 2 /\ s[1] = a /\ s[2] = b
IsQuadruple(s, a, b, c, d) == s = <<a, b, c, d>> /\ Len(s) = 4 /\ s[2] = b /\ s[4] = d

\* Two octets in a sequence.
LEMMA PairOf ==
  ASSUME NEW E, NEW a \in E, NEW b \in E
  PROVE  \E s \in Seq(E) : IsPair(s, a, b)
  <1>1. <<a, b>> \in Seq(E) /\ Len(<<a, b>>) = 2 /\ <<a, b>>[1] = a /\ <<a, b>>[2] = b
    OBVIOUS
  <1>. QED
    BY <1>1, Zenon DEF IsPair

\* Four octets in a sequence.
LEMMA QuadrupleOf ==
  ASSUME NEW E, NEW a \in E, NEW b \in E, NEW c \in E, NEW d \in E
  PROVE  \E s \in Seq(E) : IsQuadruple(s, a, b, c, d)
  <1>1. <<a, b, c, d>> \in Seq(E) /\ Len(<<a, b, c, d>>) = 4
        /\ <<a, b, c, d>>[2] = b /\ <<a, b, c, d>>[4] = d
    OBVIOUS
  <1>. QED
    BY <1>1, Zenon DEF IsQuadruple

\* Where the fields of an SMS-SUBMIT are, which depends on the digits of the address.
Layout(pdu, digits, dcs, udl, ud) ==
  /\ pdu \in Seq(Byte) /\ 8 + CeilDiv(digits, 2) <= Len(pdu)
  /\ pdu[3] = digits
  /\ pdu[6 + CeilDiv(digits, 2)] = dcs
  /\ pdu[8 + CeilDiv(digits, 2)] = udl
  /\ Drop(pdu, 8 + CeilDiv(digits, 2)) = ud

\* s stands in b behind its k-th element.
Holds(b, k, s) == k + Len(s) <= Len(b) /\ \A i \in 1 .. Len(s) : b[k + i] = s[i]

\* What an SMS-SUBMIT begins with.
Addressed(pdu, flag, digits) == pdu[1] = flag /\ Holds(pdu, 4, SemiOctets(digits))

\* ucs2_pdu and gsm7_pdu put the fields where the length of the number says.
LEMMA LayoutOf ==
  ASSUME NEW flag \in Byte, NEW number \in Number, NEW dcs \in Byte, NEW udl \in Byte,
         NEW ud \in Seq(Byte)
  PROVE  /\ Layout(<<flag, 0>> \o PduAddress(number) \o <<0, dcs, 167, udl>> \o ud,
                   Len(number.digits), dcs, udl, ud)
         /\ Addressed(<<flag, 0>> \o PduAddress(number) \o <<0, dcs, 167, udl>> \o ud,
                      flag, number.digits)
  <1>1. number.digits \in Seq(0 .. 9) /\ Len(number.digits) \in Byte
    <2>1. number.digits \in Seq(0 .. 9) /\ Len(number.digits) <= 255
      BY DEF Number
    <2>2. Len(number.digits) \in Nat
      BY <2>1, LenProperties
    <2>3. PICK l \in Nat : l = Len(number.digits) /\ l <= 255
      BY <2>1, <2>2, Zenon
    <2>4. l \in Byte
      BY <2>3, ByteOf
    <2>. QED
      BY <2>1, <2>3, <2>4, Zenon
  <1>2. PICK semi \in Seq(Byte), m \in Nat :
          semi = SemiOctets(number.digits) /\ Len(semi) = m /\ m = CeilDiv(Len(number.digits), 2)
    <2>1. SemiOctets(number.digits) \in Seq(Byte)
          /\ Len(SemiOctets(number.digits)) = CeilDiv(Len(number.digits), 2)
      BY <1>1, SemiOctetsType
    <2>2. CeilDiv(Len(number.digits), 2) \in Nat
      <3>1. Byte \subseteq Nat
        BY DEF Byte
      <3>. QED
        BY <1>1, <3>1, CeilDivType, Zenon
    <2>. QED
      BY <2>1, <2>2, Zenon
  <1>3. PICK n \in Byte : n = Len(number.digits)
    BY <1>1, Zenon
  <1>4. PICK type \in Byte, zero \in Byte, days \in Byte :
          type = (IF number.plus THEN 145 ELSE 129) /\ zero = 0 /\ days = 167
    <2>1. 0 \in Byte /\ 167 \in Byte /\ 129 \in Byte /\ 145 \in Byte
      BY DEF Byte
    <2>2. (IF number.plus THEN 145 ELSE 129) \in Byte
      BY <2>1
    <2>. QED
      BY <2>1, <2>2, Zenon
  <1>5. PICK a \in Seq(Byte) : IsPair(a, flag, zero)
    BY PairOf
  <1>6. PICK h \in Seq(Byte) : IsPair(h, n, type)
    BY PairOf
  <1>7. PICK c \in Seq(Byte) : IsQuadruple(c, zero, dcs, days, udl)
    BY QuadrupleOf
  <1>8. PICK address \in Seq(Byte) : IsJoin(address, h, semi)
    BY JoinOf
  <1>9. PICK b \in Seq(Byte) : IsJoin(b, a, address)
    BY JoinOf
  <1>10. PICK front \in Seq(Byte) : IsJoin(front, b, c)
    BY JoinOf
  <1>11. PICK pdu \in Seq(Byte) : IsJoin(pdu, front, ud)
    BY JoinOf
  <1>12. Len(address) = 2 + m /\ address[1] = n
    <2>1. Len(address) = Len(h) + Len(semi) /\ \A i \in 1 .. Len(h) : address[i] = h[i]
      BY <1>8, Zenon DEF IsJoin
    <2>. QED
      BY <1>2, <1>6, <2>1 DEF IsPair
  <1>13. Len(b) = 4 + m /\ b[3] = n
    <2>1. Len(b) = Len(a) + Len(address) /\ \A i \in 1 .. Len(address) : b[Len(a) + i] = address[i]
      BY <1>9, Zenon DEF IsJoin
    <2>. QED
      BY <1>5, <1>12, <2>1 DEF IsPair
  <1>14. Len(front) = 8 + m /\ front[3] = n /\ front[6 + m] = dcs /\ front[8 + m] = udl
    <2>1. Len(front) = Len(b) + Len(c) /\ \A i \in 1 .. Len(c) : front[Len(b) + i] = c[i]
      BY <1>10, Zenon DEF IsJoin
    <2>2. \A i \in 1 .. Len(b) : front[i] = b[i]
      BY <1>10, Zenon DEF IsJoin
    <2>3. Len(front) = 8 + m
      BY <1>7, <1>13, <2>1 DEF IsQuadruple
    <2>4. front[3] = n
      BY <1>13, <2>2
    <2>5. \A i \in 1 .. 4 : front[(4 + m) + i] = c[i]
      BY <1>7, <1>13, <2>1 DEF IsQuadruple
    <2>6. (4 + m) + 2 = 6 + m /\ (4 + m) + 4 = 8 + m /\ 2 \in 1 .. 4 /\ 4 \in 1 .. 4
      OBVIOUS
    <2>7. front[6 + m] = dcs /\ front[8 + m] = udl
      BY <1>7, <2>5, <2>6, Zenon DEF IsQuadruple
    <2>. QED
      BY <2>3, <2>4, <2>7
  <1>15. /\ Len(pdu) >= 8 + m /\ pdu[3] = n /\ pdu[6 + m] = dcs /\ pdu[8 + m] = udl
         /\ Drop(pdu, 8 + m) = ud
    <2>1. Len(pdu) = Len(front) + Len(ud) /\ Drop(pdu, Len(front)) = ud
      BY <1>11, Zenon DEF IsJoin
    <2>2. \A i \in 1 .. Len(front) : pdu[i] = front[i]
      BY <1>11, Zenon DEF IsJoin
    <2>3. \A i \in 1 .. 8 + m : pdu[i] = front[i]
      BY <1>14, <2>2
    <2>4. 3 \in 1 .. 8 + m /\ 6 + m \in 1 .. 8 + m /\ 8 + m \in 1 .. 8 + m
      OBVIOUS
    <2>5. Len(pdu) >= 8 + m
      BY <1>14, <2>1
    <2>6. pdu[3] = n /\ pdu[6 + m] = dcs /\ pdu[8 + m] = udl
      BY <1>14, <2>3, <2>4, Zenon
    <2>7. Drop(pdu, 8 + m) = ud
      BY <1>14, <2>1, Zenon
    <2>. QED
      BY <2>5, <2>6, <2>7
  <1>16. pdu = <<flag, 0>> \o PduAddress(number) \o <<0, dcs, 167, udl>> \o ud
    <2>1. PduAddress(number) = <<n, IF number.plus THEN 145 ELSE 129>> \o semi
      BY <1>2, <1>3 DEF PduAddress
    <2>2. PduAddress(number) = address
      BY <1>4, <1>6, <1>8, <2>1, Zenon DEF IsJoin, IsPair
    <2>3. pdu = ((a \o PduAddress(number)) \o c) \o ud
      BY <1>9, <1>10, <1>11, <2>2, Zenon DEF IsJoin
    <2>4. a = <<flag, 0>> /\ c = <<0, dcs, 167, udl>>
      BY <1>4, <1>5, <1>7, Zenon DEF IsPair, IsQuadruple
    <2>. QED
      BY <2>3, <2>4, Zenon
  <1>17. Layout(pdu, n, dcs, udl, ud)
    BY <1>2, <1>3, <1>15 DEF Layout
  <1>18. Addressed(pdu, flag, number.digits)
    <2>1. /\ Len(address) = 2 + m /\ \A i \in 1 .. m : address[2 + i] = semi[i]
      <3>1. \A i \in 1 .. Len(semi) : address[Len(h) + i] = semi[i]
        BY <1>8, Zenon DEF IsJoin
      <3>. QED
        BY <1>2, <1>6, <1>12, <3>1, Zenon DEF IsPair
    <2>2. /\ b[1] = flag /\ \A i \in 1 .. 2 + m : b[2 + i] = address[i]
      <3>1. /\ \A i \in 1 .. Len(a) : b[i] = a[i]
            /\ \A i \in 1 .. Len(address) : b[Len(a) + i] = address[i]
        BY <1>9, Zenon DEF IsJoin
      <3>2. Len(a) = 2 /\ a[1] = flag
        BY <1>5, Zenon DEF IsPair
      <3>3. 1 \in 1 .. 2
        OBVIOUS
      <3>. QED
        BY <2>1, <3>1, <3>2, <3>3, Zenon
    <2>3. \A i \in 1 .. 4 + m : pdu[i] = b[i]
      <3>1. \A i \in 1 .. Len(b) : front[i] = b[i]
        BY <1>10, Zenon DEF IsJoin
      <3>2. \A i \in 1 .. Len(front) : pdu[i] = front[i]
        BY <1>11, Zenon DEF IsJoin
      <3>3. \A i \in 1 .. 8 + m : pdu[i] = front[i]
        BY <1>14, <3>2
      <3>4. \A i \in 1 .. 4 + m : i \in 1 .. 8 + m
        OBVIOUS
      <3>. QED
        BY <1>13, <3>1, <3>3, <3>4, Zenon
    <2>4. ASSUME NEW i \in 1 .. m PROVE pdu[4 + i] = semi[i]
      <3>1. 4 + i \in 1 .. 4 + m /\ 2 + i \in 1 .. 2 + m /\ 2 + (2 + i) = 4 + i
        OBVIOUS
      <3>. QED
        BY <2>1, <2>2, <2>3, <3>1, Zenon
    <2>5. pdu[1] = flag
      <3>1. 1 \in 1 .. 4 + m
        OBVIOUS
      <3>. QED
        BY <2>2, <2>3, <3>1, Zenon
    <2>6. 4 + m <= Len(pdu)
      BY <1>15
    <2>. QED
      BY <1>2, <2>4, <2>5, <2>6, Zenon DEF Addressed, Holds
  <1>. QED
    BY <1>3, <1>16, <1>17, <1>18, Zenon

\* The first octet can be any.
LEMMA LayoutFlag ==
  ASSUME NEW pdu, NEW digits \in Byte, NEW dcs, NEW udl, NEW ud, NEW flag \in Byte,
         Layout(pdu, digits, dcs, udl, ud)
  PROVE  /\ Layout([pdu EXCEPT ![1] = flag], digits, dcs, udl, ud)
         /\ \A f, d : Len(d) = digits /\ d \in Seq(0 .. 9) /\ Addressed(pdu, f, d)
              => Addressed([pdu EXCEPT ![1] = flag], flag, d)
  <1>1. PICK m \in Nat : m = CeilDiv(digits, 2)
    <2>1. Byte \subseteq Nat
      BY DEF Byte
    <2>. QED
      BY <2>1, CeilDivType, Zenon
  <1>2. /\ pdu \in Seq(Byte) /\ 8 + m <= Len(pdu)
        /\ pdu[3] = digits /\ pdu[6 + m] = dcs /\ pdu[8 + m] = udl /\ Drop(pdu, 8 + m) = ud
    BY <1>1, Zenon DEF Layout
  <1>3. PICK n \in Nat : n = Len(pdu) /\ 8 + m <= n
    <2>1. Len(pdu) \in Nat
      BY <1>2, LenProperties
    <2>. QED
      BY <1>2, <2>1, Zenon
  <1>4. PICK q \in Seq(Byte) :
          /\ q = [pdu EXCEPT ![1] = flag] /\ Len(q) = n /\ q[1] = flag
          /\ \A i \in 2 .. n : q[i] = pdu[i]
    <2>1. 1 \in 1 .. Len(pdu)
      BY <1>3
    <2>2. /\ [pdu EXCEPT ![1] = flag] \in Seq(Byte)
          /\ Len([pdu EXCEPT ![1] = flag]) = Len(pdu)
          /\ \A j \in 1 .. Len(pdu) : [pdu EXCEPT ![1] = flag][j] = IF j = 1 THEN flag ELSE pdu[j]
      BY <1>2, <2>1, ExceptSeq
    <2>3. \A i \in 2 .. n : i \in 1 .. n /\ i # 1
      OBVIOUS
    <2>4. \A i \in 2 .. n : [pdu EXCEPT ![1] = flag][i] = pdu[i]
      BY <1>3, <2>2, <2>3, Zenon
    <2>5. [pdu EXCEPT ![1] = flag][1] = flag
      BY <2>1, <2>2
    <2>. QED
      BY <1>3, <2>2, <2>4, <2>5, Zenon
  <1>5. 3 \in 2 .. n /\ 6 + m \in 2 .. n /\ 8 + m \in 2 .. n
    BY <1>3
  <1>6. q[3] = digits /\ q[6 + m] = dcs /\ q[8 + m] = udl
    BY <1>2, <1>4, <1>5, Zenon
  <1>7. Drop(q, 8 + m) = Drop(pdu, 8 + m)
    <2>1. PICK k \in Nat : k = (8 + m) + 1 /\ 2 <= k
      OBVIOUS
    <2>2. \A i \in k .. n : pdu[i] \in Byte /\ q[i] \in Byte /\ q[i] = pdu[i]
      <3>1. ASSUME NEW i \in k .. n PROVE i \in 1 .. n /\ i \in 2 .. n
        BY <2>1
      <3>2. ASSUME NEW i \in 1 .. n PROVE pdu[i] \in Byte /\ q[i] \in Byte
        BY <1>2, <1>3, <1>4, ElementOfSeq
      <3>. QED
        BY <1>4, <3>1, <3>2
    <2>3. /\ SubSeq(pdu, k, n) \in Seq(Byte) /\ Len(SubSeq(pdu, k, n)) = IF k <= n THEN n - k + 1 ELSE 0
          /\ \A i \in 1 .. n - k + 1 : SubSeq(pdu, k, n)[i] = pdu[k + i - 1]
      BY <2>2, SubSeqProperties
    <2>4. /\ SubSeq(q, k, n) \in Seq(Byte) /\ Len(SubSeq(q, k, n)) = IF k <= n THEN n - k + 1 ELSE 0
          /\ \A i \in 1 .. n - k + 1 : SubSeq(q, k, n)[i] = q[k + i - 1]
      BY <2>2, SubSeqProperties
    <2>5. PICK s \in Seq(Byte), t \in Seq(Byte) : s = SubSeq(pdu, k, n) /\ t = SubSeq(q, k, n)
      BY <2>3, <2>4, Zenon
    <2>6. Len(s) = Len(t) /\ Len(s) = IF k <= n THEN n - k + 1 ELSE 0
      BY <2>3, <2>4, <2>5, Zenon
    <2>7. ASSUME NEW i \in 1 .. Len(s) PROVE s[i] = t[i]
      <3>1. i \in 1 .. n - k + 1 /\ k + i - 1 \in k .. n
        BY <2>1, <2>6, <2>7
      <3>2. s[i] = pdu[k + i - 1] /\ t[i] = q[k + i - 1]
        BY <2>3, <2>4, <2>5, <3>1, Zenon
      <3>. QED
        BY <2>2, <3>1, <3>2, Zenon
    <2>8. s = t
      BY <2>6, <2>7, SeqEqual
    <2>. QED
      BY <1>3, <1>4, <2>1, <2>5, <2>8, Zenon DEF Drop
  <1>8. Layout(q, digits, dcs, udl, ud)
    BY <1>1, <1>2, <1>3, <1>4, <1>6, <1>7, Zenon DEF Layout
  <1>9. ASSUME NEW f, NEW d, Len(d) = digits, d \in Seq(0 .. 9), Addressed(pdu, f, d)
        PROVE  Addressed(q, flag, d)
    <2>1. PICK semi \in Seq(Byte) : semi = SemiOctets(d) /\ Len(semi) = m
      BY <1>1, <1>9, SemiOctetsType, Zenon
    <2>2. \A i \in 1 .. m : pdu[4 + i] = semi[i]
      BY <1>9, <2>1, Zenon DEF Addressed, Holds
    <2>3. \A i \in 1 .. m : q[4 + i] = semi[i]
      <3>1. \A i \in 1 .. m : 4 + i \in 2 .. n
        BY <1>3
      <3>. QED
        BY <1>4, <2>2, <3>1, Zenon
    <2>4. 4 + m <= Len(q)
      BY <1>3, <1>4
    <2>. QED
      BY <1>4, <2>1, <2>3, <2>4, Zenon DEF Addressed, Holds
  <1>. QED
    BY <1>4, <1>8, <1>9, Zenon

\* The header of a segment is six octets.
LEMMA HeaderType ==
  ASSUME NEW r \in Nat, NEW total \in Byte, NEW seq \in Byte
  PROVE  ConcatUdh(r, total, seq) \in Seq(Byte) /\ Len(ConcatUdh(r, total, seq)) = 6
  <1>1. PICK a \in Byte, b \in Byte, c \in Byte, d \in Byte : a = 5 /\ b = 0 /\ c = 3 /\ d = r % 256
    <2>1. 5 \in Byte /\ 0 \in Byte /\ 3 \in Byte /\ r % 256 \in Byte
      BY DEF Byte
    <2>. QED
      BY <2>1
  <1>2. <<a, b, c, d, total, seq>> \in Seq(Byte) /\ Len(<<a, b, c, d, total, seq>>) = 6
    OBVIOUS
  <1>3. ConcatUdh(r, total, seq) = <<a, b, c, d, total, seq>>
    BY <1>1 DEF ConcatUdh
  <1>. QED
    BY <1>2, <1>3, Zenon

(***************************************************************************)
(* Unpacking what was packed, and packing what was unpacked.               *)
(***************************************************************************)
\* q and r are what a divided by d leaves.
Divided(a, d, q, r) == a = d * q + r /\ a \div d = q /\ a % d = r

\* They are when they are small enough.
LEMMA Euclid ==
  ASSUME NEW d \in Positive, NEW q \in Nat, NEW r \in 0 .. d - 1, NEW a, a = d * q + r
  PROVE  Divided(a, d, q, r)
  <1>1. (d * q + r) \div d = q /\ (d * q + r) % d = r
    BY SMTT(60) DEF Positive
  <1>. QED
    BY <1>1, Zenon DEF Divided

\* There is a quotient and a remainder for every number.
LEMMA Division ==
  ASSUME NEW d \in Positive, NEW a \in Nat
  PROVE  \E q \in Nat, r \in 0 .. d - 1 : Divided(a, d, q, r)
  <1>. DEFINE S == {n \in Nat : \E q \in Nat, r \in 0 .. d - 1 : n = d * q + r}
  <1>1. 0 \in S
    <2>1. 0 = d * 0 + 0 /\ 0 \in 0 .. d - 1
      BY DEF Positive
    <2>. QED
      BY <2>1
  <1>2. ASSUME NEW n \in Nat, n \in S PROVE n + 1 \in S
    <2>1. PICK q \in Nat, r \in 0 .. d - 1 : n = d * q + r
      BY <1>2
    <2>2. CASE r + 1 < d
      <3>1. n + 1 = d * q + (r + 1) /\ r + 1 \in 0 .. d - 1
        BY <2>1, <2>2 DEF Positive
      <3>. QED
        BY <3>1
    <2>3. CASE r + 1 = d
      <3>1. n + 1 = d * (q + 1) + 0 /\ 0 \in 0 .. d - 1
        BY <2>1, <2>3 DEF Positive
      <3>. QED
        BY <3>1
    <2>. QED
      BY <2>2, <2>3 DEF Positive
  <1>3. a \in S
    <2>. HIDE DEF S
    <2>. QED
      BY <1>1, <1>2, Induction
  <1>4. PICK q \in Nat, r \in 0 .. d - 1 : a = d * q + r
    BY <1>3
  <1>. QED
    BY <1>4, Euclid

\* A septet that begins m bits behind an octet's limit leaves p.
Shifts(p, m) == p \in {1, 2, 4, 8, 16, 32, 64} /\ m \in Positive /\ p * m = 128

\* The rest of septet b fills octet x up; its beginning stands first in octet y.
FilledWith(x, b, p, m) == \E k \in 0 .. m - 1 : x = k + m * (b % (2 * p))
StartsWith(y, b, p) == \E h \in Positive, z \in Nat : p * h = 64 /\ y = b \div (2 * p) + h * z
IsRead(b, x, y, m) == ((x + 256 * y) \div m) % 128 = b

\* An octet made of two septets has the rest of the first one in its lower bits.
LEMMA OctetOf ==
  ASSUME NEW p, NEW m, Shifts(p, m), NEW a \in Septet, NEW b \in Septet
  PROVE  FilledWith(((a + 128 * b) \div p) % 256, b, p, m)
  <1>1. 2 * p \in Positive /\ p \in Positive /\ a \in Nat /\ b \in Nat /\ 256 \in Positive
    BY DEF Septet, Shifts, Positive
  <1>2. PICK k \in Nat, j \in 0 .. p - 1 : Divided(a, p, k, j)
    BY <1>1, Division
  <1>3. PICK g \in Nat, l \in 0 .. 2 * p - 1 : Divided(b, 2 * p, g, l)
    BY <1>1, Division
  <1>4. k \in 0 .. m - 1
    BY <1>2 DEF Divided, Shifts, Septet, Positive
  <1>5. a + 128 * b = p * (k + m * b) + j
    BY <1>2 DEF Divided, Shifts, Septet, Positive
  <1>6. k + m * b = 256 * g + (k + m * l)
    BY <1>3 DEF Divided, Shifts, Septet, Positive
  <1>7. PICK u \in Nat, v \in 0 .. 256 - 1 : u = k + m * b /\ v = k + m * l
    <2>1. k + m * b \in Nat /\ k + m * l \in 0 .. 256 - 1
      BY <1>3, <1>4 DEF Divided, Shifts, Septet, Positive
    <2>. QED
      BY <2>1, Zenon
  <1>8. Divided(a + 128 * b, p, u, j)
    BY <1>1, <1>5, <1>7, Euclid, Zenon
  <1>9. Divided(u, 256, g, v)
    BY <1>1, <1>6, <1>7, Euclid, Zenon
  <1>10. ((a + 128 * b) \div p) % 256 = v
    BY <1>8, <1>9, Zenon DEF Divided
  <1>11. v = k + m * (b % (2 * p))
    BY <1>3, <1>7, Zenon DEF Divided
  <1>. QED
    BY <1>4, <1>10, <1>11, Zenon DEF FilledWith

\* The octet behind it starts with the beginning of the second one.
LEMMA NextOctet ==
  ASSUME NEW p, NEW m, Shifts(p, m), p # 64, NEW b \in Septet, NEW c \in Septet
  PROVE  StartsWith(((b + 128 * c) \div (2 * p)) % 256, b, p)
  <1>1. 2 * p \in Positive /\ 4 * p \in Positive /\ b \in Nat /\ c \in Nat /\ 256 \in Positive
    BY DEF Septet, Shifts, Positive
  <1>2. PICK h \in Positive : p * h = 64
    BY DEF Septet, Shifts, Positive
  <1>3. PICK g \in Nat, l \in 0 .. 2 * p - 1 : Divided(b, 2 * p, g, l)
    BY <1>1, Division
  <1>4. PICK w \in Nat, z \in 0 .. 4 * p - 1 : Divided(c, 4 * p, w, z)
    BY <1>1, Division
  <1>5. b + 128 * c = (2 * p) * (g + h * c) + l
    BY <1>2, <1>3 DEF Divided, Shifts, Septet, Positive
  <1>6. g + h * c = 256 * w + (g + h * z)
    BY <1>2, <1>4 DEF Divided, Shifts, Septet, Positive
  <1>7. PICK u \in Nat, v \in 0 .. 256 - 1 : u = g + h * c /\ v = g + h * z
    <2>1. g + h * c \in Nat /\ g + h * z \in 0 .. 256 - 1
      BY <1>2, <1>3, <1>4 DEF Divided, Shifts, Septet, Positive
    <2>. QED
      BY <2>1, Zenon
  <1>8. Divided(b + 128 * c, 2 * p, u, l)
    BY <1>1, <1>5, <1>7, Euclid, Zenon
  <1>9. Divided(u, 256, w, v)
    BY <1>1, <1>6, <1>7, Euclid, Zenon
  <1>10. z \in Nat
    BY <1>4, <1>1
  <1>11. ((b + 128 * c) \div (2 * p)) % 256 = v
    BY <1>8, <1>9, Zenon DEF Divided
  <1>12. v = b \div (2 * p) + h * z
    BY <1>3, <1>7, Zenon DEF Divided
  <1>. QED
    BY <1>2, <1>10, <1>11, <1>12, Zenon DEF StartsWith

\* Two such octets give the septet they share.
LEMMA SeptetBack ==
  ASSUME NEW p, NEW m, Shifts(p, m), NEW b \in Septet,
         NEW x, FilledWith(x, b, p, m), NEW y, StartsWith(y, b, p)
  PROVE  IsRead(b, x, y, m)
  <1>1. PICK k \in 0 .. m - 1, h \in Positive, z \in Nat :
          x = k + m * (b % (2 * p)) /\ p * h = 64 /\ y = b \div (2 * p) + h * z
    BY Zenon DEF FilledWith, StartsWith
  <1>2. 2 * p \in Positive /\ m \in Positive /\ b \in Nat /\ 128 \in Positive
    BY DEF Septet, Shifts, Positive
  <1>3. PICK g \in Nat, l \in 0 .. 2 * p - 1 : Divided(b, 2 * p, g, l)
    BY <1>2, Division
  <1>4. y = g + h * z
    BY <1>1, <1>3, Zenon DEF Divided
  <1>5. PICK u \in Nat : u = b + 128 * z
    BY <1>2
  <1>6. (k + m * l) + 256 * y = m * u + k
    <2>1. b = (2 * p) * g + l
      BY <1>3 DEF Divided
    <2>2. 256 * y = m * ((2 * p) * g) + m * (128 * z)
      BY <1>1, <1>4 DEF Shifts, Positive
    <2>3. m * u = m * b + m * (128 * z)
      BY <1>2, <1>5 DEF Positive
    <2>4. m * b = m * ((2 * p) * g) + m * l
      BY <2>1 DEF Shifts, Positive
    <2>5. PICK aa, yy, w, zz, v \in Int :
            /\ aa = m * ((2 * p) * g) /\ yy = 256 * y /\ w = m * (128 * z) /\ zz = m * l /\ v = m * b
      BY <1>4, <1>2 DEF Shifts, Positive
    <2>. QED
      BY <2>2, <2>3, <2>4, <2>5
  <1>7. Divided((k + m * l) + 256 * y, m, u, k)
    BY <1>2, <1>5, <1>6, Euclid, Zenon
  <1>8. u % 128 = b
    BY <1>5 DEF Septet
  <1>. QED
    BY <1>1, <1>3, <1>7, <1>8, Zenon DEF Divided, IsRead

\* The values are those of the sequence, and zeros behind it.
LEMMA ValuesOf ==
  ASSUME NEW s \in Seq(Septet), NEW k \in Nat \ {0}
  PROVE  /\ ValueAt(s, k) \in Septet
         /\ k <= Len(s) => ValueAt(s, k) = s[k]
         /\ k > Len(s) => ValueAt(s, k) = 0
  <1>1. CASE k <= Len(s)
    <2>1. s[k] \in Septet
      BY <1>1
    <2>. QED
      BY <1>1, <2>1 DEF ValueAt
  <1>2. CASE ~(k <= Len(s))
    BY <1>2 DEF ValueAt, Septet
  <1>. QED
    BY <1>1, <1>2

\* The octet that the septets 8q + e + 1 and the next one are put in.
PackedAt(o, s, q, e) ==
  ValueAt(o, 7 * q + e + 1)
    = ((ValueAt(s, 8 * q + e + 1) + 128 * ValueAt(s, 8 * q + e + 2)) \div 2 ^ e) % 256

\* pack_septets: which septets an octet is made of.
LEMMA OctetAt ==
  ASSUME NEW s \in Seq(Septet), NEW o, o = Regroup(s, 7, 8, CeilDiv(7 * Len(s), 8)),
         NEW q \in Nat, NEW e \in 0 .. 6
  PROVE  PackedAt(o, s, q, e)
  <1>. DEFINE at(j) == 8 * (j - 1)
              f(j) == ((ValueAt(s, at(j) \div 7 + 1) + 2 ^ 7 * ValueAt(s, at(j) \div 7 + 2))
                         \div 2 ^ (at(j) % 7)) % 2 ^ 8
  <1>1. PICK n \in Nat : n = CeilDiv(7 * Len(s), 8)
    <2>1. Len(s) \in Nat
      OBVIOUS
    <2>. QED
      BY <2>1, CeilDivType
  <1>2. Regroup(s, 7, 8, n) = [j \in 1 .. n |-> f(j)]
    BY Zenon DEF Regroup, ValueAt
  <1>3. PICK k \in Nat \ {0} : k = 7 * q + e + 1
    OBVIOUS
  <1>4. PICK x \in Nat \ {0}, y \in Nat \ {0} : x = 8 * q + e + 1 /\ y = 8 * q + e + 2
    OBVIOUS
  <1>5. o = Regroup(s, 7, 8, n) /\ Len(o) = n
    <2>1. s \in Seq(Nat)
      <3>1. Septet \subseteq Nat
        BY DEF Septet
      <3>. QED
        BY <3>1, SeqMonotonic, Zenon
    <2>. QED
      BY <1>1, <2>1, RepackType, Zenon
  <1>6. CASE k <= n
    <2>1. o[k] = f(k)
      BY <1>2, <1>5, <1>6
    <2>2. at(k) \div 7 + 1 = x /\ at(k) \div 7 + 2 = y /\ at(k) % 7 = e
      BY <1>3, <1>4
    <2>3. f(k) = ((ValueAt(s, x) + 2 ^ 7 * ValueAt(s, y)) \div 2 ^ e) % 2 ^ 8
      BY <2>2, Zenon
    <2>4. 2 ^ 7 = 128 /\ 2 ^ 8 = 256
      OBVIOUS
    <2>5. ValueAt(o, k) = o[k]
      BY <1>5, <1>6, Zenon DEF ValueAt
    <2>6. f(k) = ((ValueAt(s, x) + 128 * ValueAt(s, y)) \div 2 ^ e) % 256
      BY <2>3, <2>4
    <2>. QED
      BY <1>1, <1>3, <1>4, <1>5, <2>1, <2>5, <2>6, Zenon DEF PackedAt
  <1>7. CASE ~(k <= n)
    <2>1. ValueAt(o, k) = 0
      BY <1>5, <1>7, Zenon DEF ValueAt
    <2>2. x > Len(s) /\ y > Len(s)
      BY <1>1, <1>3, <1>4, <1>7 DEF CeilDiv
    <2>3. ValueAt(s, x) = 0 /\ ValueAt(s, y) = 0
      BY <2>2, ValuesOf
    <2>4. PICK p \in Positive : p = 2 ^ e
      <3>1. e \in 0 .. 7
        OBVIOUS
      <3>. QED
        BY <3>1, Powers
    <2>5. ((0 + 128 * 0) \div p) % 256 = 0
      <3>1. Divided(0, p, 0, 0)
        <4>1. 0 = p * 0 + 0 /\ 0 \in 0 .. p - 1
          BY DEF Positive
        <4>. QED
          BY <4>1, Euclid
      <3>2. 0 \div p = 0
        BY <3>1 DEF Divided
      <3>. QED
        BY <3>2
    <2>. QED
      BY <1>1, <1>3, <1>4, <1>5, <2>1, <2>3, <2>4, <2>5, Zenon DEF PackedAt
  <1>. QED
    BY <1>6, <1>7

\* The octets that septet 8q + f + 1 is read from.
UnpackedAt(x, o, q, f) ==
  x = IF f = 0 THEN (ValueAt(o, 7 * q + 1) + 256 * ValueAt(o, 7 * q + 2)) % 128
      ELSE ((ValueAt(o, 7 * q + f) + 256 * ValueAt(o, 7 * q + f + 1)) \div 2 ^ (8 - f)) % 128

\* unpack_septets: which octets a septet is read from.
LEMMA SeptetAt ==
  ASSUME NEW o \in Seq(Byte), NEW n \in Nat, NEW q \in Nat, NEW f \in 0 .. 7, NEW k \in 1 .. n,
         k = 8 * q + f + 1
  PROVE  UnpackedAt(Unpack(o, n)[k], o, q, f)
  <1>. DEFINE at(j) == 7 * (j - 1)
              g(j) == ((ValueAt(o, at(j) \div 8 + 1) + 2 ^ 8 * ValueAt(o, at(j) \div 8 + 2))
                         \div 2 ^ (at(j) % 8)) % 2 ^ 7
  <1>1. Unpack(o, n) = [j \in 1 .. n |-> g(j)]
    BY Zenon DEF Unpack, Regroup, ValueAt
  <1>2. Unpack(o, n)[k] = g(k)
    BY <1>1
  <1>3. 2 ^ 7 = 128 /\ 2 ^ 8 = 256 /\ 2 ^ 0 = 1
    OBVIOUS
  <1>4. CASE f = 0
    <2>1. at(k) \div 8 + 1 = 7 * q + 1 /\ at(k) \div 8 + 2 = 7 * q + 2 /\ at(k) % 8 = 0
      BY <1>4
    <2>2. g(k) = ((ValueAt(o, 7 * q + 1) + 256 * ValueAt(o, 7 * q + 2)) \div 1) % 128
      <3>1. g(k) = ((ValueAt(o, 7 * q + 1) + 2 ^ 8 * ValueAt(o, 7 * q + 2)) \div 2 ^ 0) % 2 ^ 7
        BY <2>1, Zenon
      <3>. QED
        BY <3>1, <1>3
    <2>3. PICK a \in Nat, b \in Nat : a = ValueAt(o, 7 * q + 1) /\ b = ValueAt(o, 7 * q + 2)
      <3>1. Byte \subseteq Nat /\ 7 * q \in Nat
        BY DEF Byte
      <3>. QED
        BY <3>1, ValueType, Zenon
    <2>4. (a + 256 * b) \div 1 = a + 256 * b
      OBVIOUS
    <2>5. g(k) = (a + 256 * b) % 128
      BY <2>2, <2>3, <2>4, Zenon
    <2>. QED
      BY <1>2, <1>4, <2>3, <2>5, Zenon DEF UnpackedAt
  <1>5. CASE f # 0
    <2>1. at(k) \div 8 + 1 = 7 * q + f /\ at(k) \div 8 + 2 = 7 * q + f + 1 /\ at(k) % 8 = 8 - f
      BY <1>5
    <2>2. g(k) = ((ValueAt(o, 7 * q + f) + 256 * ValueAt(o, 7 * q + f + 1)) \div 2 ^ (8 - f)) % 128
      <3>1. g(k) = ((ValueAt(o, 7 * q + f) + 2 ^ 8 * ValueAt(o, 7 * q + f + 1)) \div 2 ^ (8 - f)) % 2 ^ 7
        BY <2>1, Zenon
      <3>. QED
        BY <3>1, <1>3
    <2>. QED
      BY <1>2, <1>5, <2>2, Zenon DEF UnpackedAt
  <1>. QED
    BY <1>4, <1>5

\* The powers that shift a septet in its octet.
LEMMA ShiftOf ==
  \A f \in 1 .. 7 : /\ Shifts(2 ^ (f - 1), 2 ^ (8 - f)) /\ 2 * 2 ^ (f - 1) = 2 ^ f
                    /\ 2 ^ (f - 1) = 64 <=> f = 7
  <1>1. /\ 2 ^ 0 = 1 /\ 2 ^ 1 = 2 /\ 2 ^ 2 = 4 /\ 2 ^ 3 = 8
        /\ 2 ^ 4 = 16 /\ 2 ^ 5 = 32 /\ 2 ^ 6 = 64 /\ 2 ^ 7 = 128
    OBVIOUS
  <1>2. /\ Shifts(2 ^ 0, 2 ^ 7) /\ Shifts(2 ^ 1, 2 ^ 6) /\ Shifts(2 ^ 2, 2 ^ 5) /\ Shifts(2 ^ 3, 2 ^ 4)
        /\ Shifts(2 ^ 4, 2 ^ 3) /\ Shifts(2 ^ 5, 2 ^ 2) /\ Shifts(2 ^ 6, 2 ^ 1)
    BY <1>1 DEF Shifts, Positive
  <1>3. /\ 2 * 2 ^ 0 = 2 ^ 1 /\ 2 * 2 ^ 1 = 2 ^ 2 /\ 2 * 2 ^ 2 = 2 ^ 3 /\ 2 * 2 ^ 3 = 2 ^ 4
        /\ 2 * 2 ^ 4 = 2 ^ 5 /\ 2 * 2 ^ 5 = 2 ^ 6 /\ 2 * 2 ^ 6 = 2 ^ 7
    BY <1>1
  <1>4. 2 ^ 0 # 64 /\ 2 ^ 1 # 64 /\ 2 ^ 2 # 64 /\ 2 ^ 3 # 64 /\ 2 ^ 4 # 64 /\ 2 ^ 5 # 64
    BY <1>1
  <1>. TAKE f \in 1 .. 7
  <1>5. \/ f = 1 /\ f - 1 = 0 /\ 8 - f = 7 /\ f # 7
        \/ f = 2 /\ f - 1 = 1 /\ 8 - f = 6 /\ f # 7
        \/ f = 3 /\ f - 1 = 2 /\ 8 - f = 5 /\ f # 7
        \/ f = 4 /\ f - 1 = 3 /\ 8 - f = 4 /\ f # 7
        \/ f = 5 /\ f - 1 = 4 /\ 8 - f = 3 /\ f # 7
        \/ f = 6 /\ f - 1 = 5 /\ 8 - f = 2 /\ f # 7
        \/ f = 7 /\ f - 1 = 6 /\ 8 - f = 1
    OBVIOUS
  <1>6. Shifts(2 ^ (f - 1), 2 ^ (8 - f))
    BY <1>2, <1>5, Zenon
  <1>7. 2 * 2 ^ (f - 1) = 2 ^ f
    BY <1>3, <1>5, Zenon
  <1>8. 2 ^ (f - 1) = 64 <=> f = 7
    <2>1. f = 7 => 2 ^ (f - 1) = 64
      BY <1>1, <1>5, Zenon
    <2>2. f # 7 => 2 ^ (f - 1) # 64
      BY <1>4, <1>5, Zenon
    <2>. QED
      BY <2>1, <2>2
  <1>. QED
    BY <1>6, <1>7, <1>8

\* unpack_septets undoes pack_septets: of any sequence of septets, whatever its
\* length, all of them and in their order.
THEOREM PackedIsUnpacked ==
  ASSUME NEW s \in Seq(Septet)
  PROVE  Unpack(Regroup(s, 7, 8, CeilDiv(7 * Len(s), 8)), Len(s)) = s
  <1>1. PICK n \in Nat, o \in Seq(Byte) : n = Len(s) /\ o = Regroup(s, 7, 8, CeilDiv(7 * Len(s), 8))
    <2>1. PICK n \in Nat : n = Len(s)
      OBVIOUS
    <2>2. CeilDiv(7 * n, 8) \in Nat
      BY CeilDivType
    <2>3. s \in Seq(Nat)
      <3>1. Septet \subseteq Nat
        BY DEF Septet
      <3>. QED
        BY <3>1, SeqMonotonic, Zenon
    <2>. QED
      BY <2>1, <2>2, <2>3, RepackType, Zenon
  <1>2. PICK u \in Seq(Septet) : u = Unpack(o, n) /\ Len(u) = n
    BY UnpackType, Zenon
  <1>3. ASSUME NEW k \in 1 .. n PROVE u[k] = s[k]
    <2>1. PICK q \in Nat, f \in 0 .. 7 : k = 8 * q + f + 1
      <3>1. k - 1 \in Nat /\ 8 \in Positive
        BY DEF Positive
      <3>2. PICK q \in Nat, f \in 0 .. 8 - 1 : Divided(k - 1, 8, q, f)
        BY <3>1, Division
      <3>3. k = 8 * q + f + 1 /\ f \in 0 .. 7
        BY <3>2 DEF Divided
      <3>. QED
        BY <3>3
    <2>2. CASE f = 0
      <3>1. PICK a \in Septet, b \in Septet : a = s[k] /\ a = ValueAt(s, k) /\ b = ValueAt(s, k + 1)
        BY <1>1, <1>3, ValuesOf
      <3>2. PackedAt(o, s, q, 0)
        BY <1>1, OctetAt
      <3>3. ValueAt(o, 7 * q + 1) = (a + 128 * b) % 256
        BY <2>1, <2>2, <3>1, <3>2 DEF Septet, PackedAt
      <3>4. PICK y \in Nat : y = ValueAt(o, 7 * q + 2)
        <4>1. Byte \subseteq Nat /\ 7 * q \in Nat
          BY DEF Byte
        <4>. QED
          BY <4>1, ValueType, Zenon
      <3>5. u[k] = (ValueAt(o, 7 * q + 1) + 256 * ValueAt(o, 7 * q + 2)) % 128
        <4>1. UnpackedAt(u[k], o, q, f)
          BY <1>2, <2>1, SeptetAt, Zenon
        <4>. QED
          BY <2>2, <4>1, Zenon DEF UnpackedAt
      <3>6. (((a + 128 * b) % 256) + 256 * y) % 128 = a
        <4>1. 2 \in Positive /\ 256 \in Positive /\ b \in Nat
          BY DEF Septet, Positive
        <4>2. PICK g \in Nat, l \in 0 .. 2 - 1 : Divided(b, 2, g, l)
          BY <4>1, Division
        <4>3. PICK w \in 0 .. 256 - 1 : w = a + 128 * l /\ w % 128 = a /\ a + 128 * b = 256 * g + w
          BY <4>2 DEF Septet, Divided
        <4>4. Divided(a + 128 * b, 256, g, w)
          BY <4>1, <4>3, Euclid, Zenon
        <4>5. (a + 128 * b) % 256 = w
          BY <4>4, Zenon DEF Divided
        <4>6. (w + 256 * y) % 128 = w % 128
          OBVIOUS
        <4>. QED
          BY <4>3, <4>5, <4>6, Zenon
      <3>. QED
        BY <3>1, <3>3, <3>4, <3>5, <3>6, Zenon
    <2>3. CASE f # 0
      <3>1. f \in 1 .. 7
        BY <2>3
      <3>2. PICK p, m : /\ p = 2 ^ (f - 1) /\ m = 2 ^ (8 - f) /\ 2 * p = 2 ^ f
                         /\ Shifts(p, m) /\ (p = 64 <=> f = 7)
        BY <3>1, ShiftOf, Zenon
      <3>3. Shifts(p, m)
        BY <3>2
      <3>4. PICK a \in Septet, b \in Septet, c \in Septet :
              a = ValueAt(s, 8 * q + f) /\ b = ValueAt(s, 8 * q + f + 1) /\ c = ValueAt(s, 8 * q + f + 2)
        <4>1. 8 * q + f \in Nat \ {0} /\ 8 * q + f + 1 \in Nat \ {0} /\ 8 * q + f + 2 \in Nat \ {0}
          BY <2>3
        <4>. QED
          BY <4>1, ValuesOf, Zenon
      <3>5. b = s[k]
        BY <1>1, <2>1, <3>4, ValuesOf
      <3>6. ValueAt(o, 7 * q + f) = ((a + 128 * b) \div p) % 256
        <4>1. PICK e \in 0 .. 6 : e = f - 1 /\ 7 * q + e + 1 = 7 * q + f /\ 8 * q + e + 1 = 8 * q + f
                                  /\ 8 * q + e + 2 = 8 * q + f + 1
          BY <3>1
        <4>2. PackedAt(o, s, q, e)
          BY <1>1, OctetAt, Zenon
        <4>. QED
          BY <3>2, <3>4, <4>1, <4>2, Zenon DEF PackedAt
      <3>7. FilledWith(ValueAt(o, 7 * q + f), b, p, m)
        <4>1. FilledWith(((a + 128 * b) \div p) % 256, b, p, m)
          BY <3>3, OctetOf, Zenon
        <4>. QED
          BY <3>6, <4>1, Zenon
      <3>8. StartsWith(ValueAt(o, 7 * q + f + 1), b, p)
        <4>1. CASE f = 7
          <5>1. p = 64 /\ b \div 128 = 0 /\ 1 \in Positive
            BY <3>2, <4>1 DEF Septet, Positive
          <5>2. PICK y \in Nat : y = ValueAt(o, 7 * q + f + 1)
            <6>1. Byte \subseteq Nat /\ 7 * q + f \in Nat
              BY DEF Byte
            <6>. QED
              BY <6>1, ValueType, Zenon
          <5>3. p * 1 = 64 /\ y = b \div (2 * p) + 1 * y
            BY <5>1
          <5>. QED
            BY <5>1, <5>2, <5>3, Zenon DEF StartsWith
        <4>2. CASE f # 7
          <5>1. p # 64
            BY <3>2, <4>2
          <5>2. ValueAt(o, 7 * q + f + 1) = ((b + 128 * c) \div (2 * p)) % 256
            <6>1. f \in 0 .. 6
              BY <4>2
            <6>2. PackedAt(o, s, q, f)
              BY <1>1, <6>1, OctetAt, Zenon
            <6>. QED
              BY <3>2, <3>4, <6>2, Zenon DEF PackedAt
          <5>3. StartsWith(((b + 128 * c) \div (2 * p)) % 256, b, p)
            BY <3>3, <5>1, NextOctet, Zenon
          <5>. QED
            BY <5>2, <5>3, Zenon
        <4>. QED
          BY <4>1, <4>2
      <3>9. u[k] = ((ValueAt(o, 7 * q + f) + 256 * ValueAt(o, 7 * q + f + 1)) \div m) % 128
        <4>1. UnpackedAt(u[k], o, q, f)
          BY <1>2, <2>1, SeptetAt, Zenon
        <4>. QED
          BY <2>3, <3>2, <4>1, Zenon DEF UnpackedAt
      <3>10. IsRead(b, ValueAt(o, 7 * q + f), ValueAt(o, 7 * q + f + 1), m)
        BY <3>7, <3>8, <3>3, SeptetBack, Zenon
      <3>. QED
        BY <3>5, <3>9, <3>10, Zenon DEF IsRead
    <2>. QED
      BY <2>2, <2>3
  <1>4. u = s
    BY <1>1, <1>2, <1>3, SeqEqual
  <1>. QED
    BY <1>1, <1>2, <1>4, Zenon

\* Octet x gives its rest to the septet s behind its first ones, and its beginning to t.
GivesRest(s, x, d, w) == \E i \in 0 .. d - 1 : s = i + d * (x % w)
GivesFirst(t, x, d, w) == \E z \in Nat : t = x \div w + (2 * d) * z
IsKept(x, s, t, d) == ((s + 128 * t) \div d) % 256 = x

\* An octet that gives w values to the septet behind d of another.
Widths(d, w) == d \in {1, 2, 4, 8, 16, 32} /\ w \in Positive /\ d * w = 128

\* The septet made of two octets has the rest of the second one in its upper bits.
LEMMA RestOf ==
  ASSUME NEW d, NEW w, Widths(d, w), NEW a \in Byte, NEW x \in Byte
  PROVE  GivesRest(((a + 256 * x) \div (2 * w)) % 128, x, d, w)
  <1>1. 2 * w \in Positive /\ w \in Positive /\ a \in Nat /\ x \in Nat /\ 128 \in Positive
    BY DEF Byte, Widths, Positive
  <1>2. PICK i \in Nat, j \in 0 .. 2 * w - 1 : Divided(a, 2 * w, i, j)
    BY <1>1, Division
  <1>3. PICK g \in Nat, l \in 0 .. w - 1 : Divided(x, w, g, l)
    BY <1>1, Division
  <1>4. i \in 0 .. d - 1
    BY <1>2 DEF Divided, Widths, Byte, Positive
  <1>5. a + 256 * x = (2 * w) * (i + d * x) + j
    BY <1>2 DEF Divided, Widths, Byte, Positive
  <1>6. i + d * x = 128 * g + (i + d * l)
    BY <1>3 DEF Divided, Widths, Byte, Positive
  <1>7. PICK u \in Nat, v \in 0 .. 128 - 1 : u = i + d * x /\ v = i + d * l
    <2>1. i + d * x \in Nat /\ i + d * l \in 0 .. 128 - 1
      BY <1>3, <1>4 DEF Divided, Widths, Byte, Positive
    <2>. QED
      BY <2>1, Zenon
  <1>8. Divided(a + 256 * x, 2 * w, u, j)
    BY <1>1, <1>5, <1>7, Euclid, Zenon
  <1>9. Divided(u, 128, g, v)
    BY <1>1, <1>6, <1>7, Euclid, Zenon
  <1>10. ((a + 256 * x) \div (2 * w)) % 128 = v
    BY <1>8, <1>9, Zenon DEF Divided
  <1>11. v = i + d * (x % w)
    BY <1>3, <1>7, Zenon DEF Divided
  <1>. QED
    BY <1>4, <1>10, <1>11, Zenon DEF GivesRest

\* The septet behind it starts with the beginning of the second one.
LEMMA FirstOf ==
  ASSUME NEW d, NEW w, Widths(d, w), NEW x \in Byte, NEW y \in Byte
  PROVE  GivesFirst(((x + 256 * y) \div w) % 128, x, d, w)
  <1>1. w \in Positive /\ x \in Nat /\ y \in Nat /\ 128 \in Positive
    BY DEF Byte, Widths, Positive
  <1>2. PICK h \in Positive : 2 * h = w
    BY DEF Byte, Widths, Positive
  <1>3. PICK g \in Nat, l \in 0 .. w - 1 : Divided(x, w, g, l)
    BY <1>1, Division
  <1>4. PICK k \in Nat, z \in 0 .. h - 1 : Divided(y, h, k, z)
    BY <1>1, Division
  <1>5. x + 256 * y = w * (g + (2 * d) * y) + l
    BY <1>3 DEF Divided, Widths, Byte, Positive
  <1>6. g + (2 * d) * y = 128 * k + (g + (2 * d) * z)
    BY <1>2, <1>4 DEF Divided, Widths, Byte, Positive
  <1>7. PICK u \in Nat, v \in 0 .. 128 - 1 : u = g + (2 * d) * y /\ v = g + (2 * d) * z
    <2>1. g < 2 * d
      BY <1>3 DEF Divided, Widths, Byte, Positive
    <2>2. g + (2 * d) * y \in Nat /\ g + (2 * d) * z \in 0 .. 128 - 1
      BY <1>2, <1>4, <2>1 DEF Divided, Widths, Byte, Positive
    <2>. QED
      BY <2>2, Zenon
  <1>8. Divided(x + 256 * y, w, u, l)
    BY <1>1, <1>5, <1>7, Euclid, Zenon
  <1>9. Divided(u, 128, k, v)
    BY <1>1, <1>6, <1>7, Euclid, Zenon
  <1>10. ((x + 256 * y) \div w) % 128 = v
    BY <1>8, <1>9, Zenon DEF Divided
  <1>11. v = x \div w + (2 * d) * z /\ z \in Nat
    BY <1>3, <1>4, <1>7 DEF Divided
  <1>. QED
    BY <1>10, <1>11, Zenon DEF GivesFirst

\* Two such septets give the octet they share.
LEMMA OctetBack ==
  ASSUME NEW d, NEW w, Widths(d, w), NEW x \in Byte,
         NEW s, GivesRest(s, x, d, w), NEW t, GivesFirst(t, x, d, w)
  PROVE  IsKept(x, s, t, d)
  <1>1. d \in Positive /\ w \in Positive /\ x \in Nat /\ 256 \in Positive
    BY DEF Byte, Widths, Positive
  <1>2. PICK i \in 0 .. d - 1, z \in Nat : s = i + d * (x % w) /\ t = x \div w + (2 * d) * z
    BY Zenon DEF GivesRest, GivesFirst
  <1>3. PICK g \in Nat, l \in 0 .. w - 1 : Divided(x, w, g, l)
    BY <1>1, Division
  <1>4. s = i + d * l /\ t = g + (2 * d) * z
    BY <1>2, <1>3, Zenon DEF Divided
  <1>5. PICK u \in Nat : u = x + 256 * z
    BY <1>1
  <1>6. s + 128 * t = d * u + i
    <2>1. x = w * g + l
      BY <1>3 DEF Divided
    <2>. QED
      BY <1>4, <1>5, <2>1 DEF Widths, Positive
  <1>7. Divided(s + 128 * t, d, u, i)
    BY <1>1, <1>5, <1>6, Euclid, Zenon
  <1>8. u % 256 = x
    BY <1>5 DEF Byte
  <1>. QED
    BY <1>7, <1>8, Zenon DEF Divided, IsKept

\* The same of octets.
LEMMA OctetValues ==
  ASSUME NEW s \in Seq(Byte), NEW k \in Nat \ {0}
  PROVE  ValueAt(s, k) \in Byte /\ (k <= Len(s) => ValueAt(s, k) = s[k])
  <1>1. CASE k <= Len(s)
    <2>1. s[k] \in Byte
      BY <1>1
    <2>. QED
      BY <1>1, <2>1 DEF ValueAt
  <1>2. CASE ~(k <= Len(s))
    BY <1>2 DEF ValueAt, Byte
  <1>. QED
    BY <1>1, <1>2

\* The powers that shift an octet in its septets.
LEMMA WidthOf ==
  \A e \in 0 .. 5 : Widths(2 ^ e, 2 ^ (7 - e)) /\ 2 * 2 ^ (7 - e) = 2 ^ (8 - e)
  <1>1. /\ 2 ^ 0 = 1 /\ 2 ^ 1 = 2 /\ 2 ^ 2 = 4 /\ 2 ^ 3 = 8
        /\ 2 ^ 4 = 16 /\ 2 ^ 5 = 32 /\ 2 ^ 6 = 64 /\ 2 ^ 7 = 128 /\ 2 ^ 8 = 256
    OBVIOUS
  <1>2. /\ Widths(2 ^ 0, 2 ^ 7) /\ Widths(2 ^ 1, 2 ^ 6) /\ Widths(2 ^ 2, 2 ^ 5)
        /\ Widths(2 ^ 3, 2 ^ 4) /\ Widths(2 ^ 4, 2 ^ 3) /\ Widths(2 ^ 5, 2 ^ 2)
    BY <1>1 DEF Widths, Positive
  <1>3. /\ 2 * 2 ^ 7 = 2 ^ 8 /\ 2 * 2 ^ 6 = 2 ^ 7 /\ 2 * 2 ^ 5 = 2 ^ 6
        /\ 2 * 2 ^ 4 = 2 ^ 5 /\ 2 * 2 ^ 3 = 2 ^ 4 /\ 2 * 2 ^ 2 = 2 ^ 3
    BY <1>1
  <1>. TAKE e \in 0 .. 5
  <1>4. \/ e = 0 /\ 7 - e = 7 /\ 8 - e = 8
        \/ e = 1 /\ 7 - e = 6 /\ 8 - e = 7
        \/ e = 2 /\ 7 - e = 5 /\ 8 - e = 6
        \/ e = 3 /\ 7 - e = 4 /\ 8 - e = 5
        \/ e = 4 /\ 7 - e = 3 /\ 8 - e = 4
        \/ e = 5 /\ 7 - e = 2 /\ 8 - e = 3
    OBVIOUS
  <1>. QED
    BY <1>2, <1>3, <1>4, Zenon

\* pack_septets_with_header: the header stands in the octets as it is ...
LEMMA HeaderKept ==
  ASSUME NEW h \in Seq(Byte), Len(h) = 6, NEW s \in Seq(Septet),
         NEW o \in Seq(Byte), o = Pack(h, s)
  PROVE  Len(o) >= 6 /\ \A j \in 1 .. 6 : o[j] = h[j]
  <1>1. HeaderSeptets(6) = 7
    BY DEF HeaderSeptets
  <1>2. PICK u \in Seq(Septet) : u = Unpack(h, 7) /\ Len(u) = 7
    <2>1. 7 \in Nat
      OBVIOUS
    <2>. QED
      BY <2>1, UnpackType, Zenon
  <1>3. PICK all \in Seq(Septet) : IsJoin(all, u, s)
    BY JoinOf
  <1>4. o = Regroup(all, 7, 8, CeilDiv(7 * Len(all), 8))
    BY <1>1, <1>2, <1>3, Zenon DEF Pack, IsJoin
  <1>5. Len(o) >= 6
    <2>1. PICK n \in Nat : n = Len(s)
      OBVIOUS
    <2>2. Len(all) = 7 + n
      BY <1>2, <1>3, <2>1, Zenon DEF IsJoin
    <2>3. CeilDiv(7 * (7 + n), 8) \in Nat /\ CeilDiv(7 * (7 + n), 8) >= 6
      BY DEF CeilDiv
    <2>4. all \in Seq(Nat)
      <3>1. Septet \subseteq Nat
        BY DEF Septet
      <3>. QED
        BY <3>1, SeqMonotonic, Zenon
    <2>5. Len(o) = CeilDiv(7 * (7 + n), 8)
      BY <1>4, <2>2, <2>3, <2>4, RepackType, Zenon
    <2>. QED
      BY <2>3, <2>5, Zenon
  <1>6. ASSUME NEW k \in 1 .. 7 PROVE ValueAt(all, k) = u[k]
    <2>1. Len(all) = 7 + Len(s) /\ \A i \in 1 .. 7 : all[i] = u[i]
      BY <1>2, <1>3, Zenon DEF IsJoin
    <2>2. k <= Len(all)
      <3>1. PICK i \in Nat : i = Len(s)
        OBVIOUS
      <3>2. Len(all) = 7 + i
        BY <2>1, <3>1, Zenon
      <3>. QED
        BY <3>2
    <2>. QED
      BY <2>1, <2>2, Zenon DEF ValueAt
  <1>7. ASSUME NEW f \in 0 .. 6 PROVE UnpackedAt(ValueAt(all, f + 1), h, 0, f)
    <2>1. PICK k \in 1 .. 7 : k = f + 1 /\ k = 8 * 0 + f + 1
      OBVIOUS
    <2>2. f \in 0 .. 7 /\ 7 \in Nat /\ 0 \in Nat
      OBVIOUS
    <2>3. UnpackedAt(Unpack(h, 7)[k], h, 0, f)
      BY <2>1, <2>2, SeptetAt, Zenon
    <2>. QED
      BY <1>2, <1>6, <2>1, <2>3, Zenon
  <1>8. ASSUME NEW j \in 1 .. 6 PROVE o[j] = h[j]
    <2>1. PICK e \in 0 .. 5 : e + 1 = j
      <3>1. j - 1 \in 0 .. 5 /\ (j - 1) + 1 = j
        OBVIOUS
      <3>. QED
        BY <3>1
    <2>2. PICK d, w : d = 2 ^ e /\ w = 2 ^ (7 - e) /\ 2 * w = 2 ^ (8 - e) /\ Widths(d, w)
      BY WidthOf, Zenon
    <2>3. Widths(d, w)
      BY <2>2
    <2>4. PICK x \in Byte, y \in Byte : x = h[j] /\ x = ValueAt(h, e + 1) /\ y = ValueAt(h, e + 2)
      <3>1. e + 1 \in Nat \ {0} /\ e + 2 \in Nat \ {0} /\ e + 1 <= Len(h)
        OBVIOUS
      <3>2. ValueAt(h, e + 1) \in Byte /\ ValueAt(h, e + 1) = h[e + 1] /\ ValueAt(h, e + 2) \in Byte
        BY <3>1, OctetValues, Zenon
      <3>. QED
        BY <2>1, <3>2, Zenon
    <2>5. GivesRest(ValueAt(all, e + 1), x, d, w)
      <3>1. CASE e = 0
        <4>1. d = 1 /\ w = 128
          BY <2>2, <3>1
        <4>2. UnpackedAt(ValueAt(all, 0 + 1), h, 0, 0)
          BY <1>7
        <4>3. ValueAt(all, 1) = (x + 256 * y) % 128
          BY <2>4, <3>1, <4>2 DEF UnpackedAt
        <4>4. (x + 256 * y) % 128 = 0 + 1 * (x % 128) /\ 0 \in 0 .. 1 - 1
          BY DEF Byte
        <4>5. ValueAt(all, e + 1) = 0 + d * (x % w) /\ 0 \in 0 .. d - 1
          BY <3>1, <4>1, <4>3, <4>4
        <4>. QED
          BY <4>5, Zenon DEF GivesRest
      <3>2. CASE e # 0
        <4>1. UnpackedAt(ValueAt(all, e + 1), h, 0, e)
          BY <1>7
        <4>2. 7 * 0 + e = e /\ 7 * 0 + e + 1 = e + 1
          OBVIOUS
        <4>3. PICK a \in Byte : a = ValueAt(h, e)
          BY <3>2, OctetValues
        <4>4. ValueAt(all, e + 1) = ((a + 256 * x) \div (2 * w)) % 128
          BY <2>2, <2>4, <3>2, <4>1, <4>2, <4>3, Zenon DEF UnpackedAt
        <4>5. GivesRest(((a + 256 * x) \div (2 * w)) % 128, x, d, w)
          BY <2>3, RestOf, Zenon
        <4>. QED
          BY <4>4, <4>5, Zenon
      <3>. QED
        BY <3>1, <3>2
    <2>6. GivesFirst(ValueAt(all, e + 2), x, d, w)
      <3>1. PICK f \in 0 .. 6 : f = e + 1 /\ f # 0 /\ f + 1 = e + 2 /\ 8 - f = 7 - e
                                /\ 7 * 0 + f = e + 1 /\ 7 * 0 + f + 1 = e + 2
        OBVIOUS
      <3>2. UnpackedAt(ValueAt(all, f + 1), h, 0, f)
        BY <1>7
      <3>3. ValueAt(all, e + 2) = ((x + 256 * y) \div w) % 128
        <4>1. ValueAt(all, f + 1)
                = ((ValueAt(h, 7 * 0 + f) + 256 * ValueAt(h, 7 * 0 + f + 1)) \div 2 ^ (8 - f)) % 128
          BY <3>1, <3>2, Zenon DEF UnpackedAt
        <4>. QED
          BY <2>2, <2>4, <3>1, <4>1, Zenon
      <3>4. GivesFirst(((x + 256 * y) \div w) % 128, x, d, w)
        BY <2>3, FirstOf, Zenon
      <3>. QED
        BY <3>3, <3>4, Zenon
    <2>7. IsKept(x, ValueAt(all, e + 1), ValueAt(all, e + 2), d)
      BY <2>3, <2>5, <2>6, OctetBack, Zenon
    <2>8. PackedAt(o, all, 0, e)
      <3>1. e \in 0 .. 6 /\ 0 \in Nat
        OBVIOUS
      <3>. QED
        BY <1>4, <3>1, OctetAt, Zenon
    <2>9. 7 * 0 + e + 1 = j /\ 8 * 0 + e + 1 = e + 1 /\ 8 * 0 + e + 2 = e + 2
      BY <2>1
    <2>10. ValueAt(o, j) = x
      BY <2>2, <2>7, <2>8, <2>9, Zenon DEF PackedAt, IsKept
    <2>11. ValueAt(o, j) = o[j]
      BY <1>5 DEF ValueAt
    <2>. QED
      BY <2>4, <2>10, <2>11, Zenon
  <1>. QED
    BY <1>5, <1>8

\* ... and the text comes out of them behind the septets the header takes.
LEMMA TextKept ==
  ASSUME NEW h \in Seq(Byte), NEW s \in Seq(Septet), NEW n \in Nat, n = HeaderSeptets(Len(h)) + Len(s)
  PROVE  /\ Drop(Unpack(Pack(h, s), n), HeaderSeptets(Len(h))) = s
         /\ h = <<>> => Unpack(Pack(h, s), n) = s
  <1>1. PICK m \in Nat : m = HeaderSeptets(Len(h))
    <2>1. Len(h) \in Nat
      OBVIOUS
    <2>. QED
      BY <2>1, CeilDivType, Zenon
  <1>2. PICK u \in Seq(Septet) : u = Unpack(h, m) /\ Len(u) = m
    BY UnpackType, Zenon
  <1>3. PICK all \in Seq(Septet) : IsJoin(all, u, s)
    BY JoinOf
  <1>4. Pack(h, s) = Regroup(all, 7, 8, CeilDiv(7 * Len(all), 8)) /\ n = Len(all)
    BY <1>1, <1>2, <1>3, Zenon DEF Pack, IsJoin
  <1>5. Unpack(Pack(h, s), n) = all
    BY <1>4, PackedIsUnpacked, Zenon
  <1>6. Drop(all, m) = s
    BY <1>2, <1>3, Zenon DEF IsJoin
  <1>7. ASSUME h = <<>> PROVE all = s
    <2>1. m = 0
      BY <1>1, <1>7 DEF HeaderSeptets
    <2>2. u = <<>>
      BY <1>2, <2>1
    <2>3. u \o s = s
      BY <2>2, Joining
    <2>. QED
      BY <1>3, <2>3, Zenon DEF IsJoin
  <1>. QED
    BY <1>1, <1>5, <1>6, <1>7, Zenon

\* In x, the code of the k-th character of a text stands behind p[k - 1].
Places(p, x, text, code) ==
  /\ p \in [0 .. Len(text) -> Nat] /\ p[0] = 0 /\ p[Len(text)] = Len(x)
  /\ \A k \in 1 .. Len(text) :
       /\ p[k] = p[k - 1] + Len(code[text[k]]) /\ p[k] <= Len(x)
       /\ \A i \in 1 .. Len(code[text[k]]) : x[p[k - 1] + i] = code[text[k]][i]

\* In the coding of a text the codes stand one behind the other.
LEMMA CodedPlaces ==
  ASSUME NEW C, NEW E, NEW code \in Codes(C, E), NEW text \in Seq(C)
  PROVE  \E p : Places(p, Coded(text, code), text, code)
  <1>. DEFINE S == {n \in Nat : \A t \in Seq(C) : Len(t) = n => \E p : Places(p, Coded(t, code), t, code)}
  <1>1. 0 \in S
    <2>. SUFFICES ASSUME NEW t \in Seq(C), Len(t) = 0 PROVE \E p : Places(p, Coded(t, code), t, code)
      OBVIOUS
    <2>1. Coded(t, code) = <<>>
      <3>1. [i \in DOMAIN t |-> code[t[i]]] = <<>>
        OBVIOUS
      <3>. QED
        BY <3>1 DEF Coded, FlattenSeq
    <2>2. Places([i \in 0 .. 0 |-> 0], <<>>, t, code)
      BY DEF Places
    <2>. QED
      BY <2>1, <2>2
  <1>2. ASSUME NEW n \in Nat, n \in S PROVE n + 1 \in S
    <2>. SUFFICES ASSUME NEW t \in Seq(C), Len(t) = n + 1 PROVE \E p : Places(p, Coded(t, code), t, code)
      OBVIOUS
    <2>1. PICK u \in Seq(C), c \in C : t = Append(u, c)
      <3>1. t # <<>>
        OBVIOUS
      <3>. QED
        BY <3>1, SequenceEmptyOrAppend, Zenon
    <2>2. Len(u) = n /\ (\A i \in 1 .. n : t[i] = u[i]) /\ t[n + 1] = c
      BY <2>1
    <2>3. PICK s \in Seq(E) : s = code[c]
      BY DEF Codes
    <2>4. PICK y \in Seq(E), x \in Seq(E) : y = Coded(u, code) /\ x = Coded(t, code) /\ IsJoin(x, y, s)
      <3>1. CodedInTurn(u, c, code, E)
        BY CodedAppend
      <3>2. Coded(u, code) \in Seq(E) /\ Coded(t, code) = Coded(u, code) \o s
        BY <2>1, <2>3, <3>1, Zenon DEF CodedInTurn
      <3>3. PICK x \in Seq(E) : IsJoin(x, Coded(u, code), s)
        BY <3>2, JoinOf, Zenon
      <3>. QED
        BY <3>2, <3>3, Zenon DEF IsJoin
    <2>5. PICK q : Places(q, y, u, code)
      BY <1>2, <2>2, <2>4
    <2>6. PICK l \in Nat, m \in Nat : l = Len(y) /\ m = Len(s) /\ Len(x) = l + m
      <3>1. Len(y) \in Nat /\ Len(s) \in Nat /\ Len(x) = Len(y) + Len(s)
        BY <2>4 DEF IsJoin
      <3>. QED
        BY <3>1, Zenon
    <2>. DEFINE p == [k \in 0 .. n + 1 |-> IF k = n + 1 THEN l + m ELSE q[k]]
    <2>7. q \in [0 .. n -> Nat] /\ q[0] = 0 /\ q[n] = l
      BY <2>2, <2>5, <2>6 DEF Places
    <2>8. p \in [0 .. n + 1 -> Nat] /\ p[0] = 0 /\ p[n + 1] = l + m /\ \A k \in 0 .. n : p[k] = q[k]
      BY <2>7
    <2>. HIDE DEF p
    <2>9. ASSUME NEW k \in 1 .. n + 1
          PROVE  /\ p[k] = p[k - 1] + Len(code[t[k]]) /\ p[k] <= l + m
                 /\ \A i \in 1 .. Len(code[t[k]]) : x[p[k - 1] + i] = code[t[k]][i]
      <3>1. CASE k = n + 1
        <4>1. p[k] = l + m /\ p[k - 1] = l /\ code[t[k]] = s
          BY <2>2, <2>3, <2>7, <2>8, <3>1
        <4>2. \A i \in 1 .. m : x[l + i] = s[i]
          BY <2>4, <2>6, Zenon DEF IsJoin
        <4>. QED
          BY <2>6, <4>1, <4>2
      <3>2. CASE k # n + 1
        <4>1. k \in 1 .. n /\ k - 1 \in 0 .. n /\ k \in 0 .. n /\ k \in 1 .. Len(u) /\ t[k] = u[k]
          BY <2>2, <3>2
        <4>2. p[k] = q[k] /\ p[k - 1] = q[k - 1] /\ q[k] \in Nat /\ q[k - 1] \in Nat
          BY <2>7, <2>8, <4>1
        <4>3. PICK z \in Seq(E) : z = code[u[k]]
          <5>1. u[k] \in C
            BY <2>1, <4>1
          <5>. QED
            BY <5>1 DEF Codes
        <4>4. /\ q[k] = q[k - 1] + Len(z) /\ q[k] <= l
              /\ \A i \in 1 .. Len(z) : y[q[k - 1] + i] = z[i]
          BY <2>5, <2>6, <4>1, <4>3, Zenon DEF Places
        <4>5. ASSUME NEW i \in 1 .. Len(z) PROVE x[q[k - 1] + i] = z[i]
          <5>1. q[k - 1] + i \in 1 .. l
            BY <4>2, <4>4
          <5>2. \A j \in 1 .. l : x[j] = y[j]
            BY <2>4, <2>6, Zenon DEF IsJoin
          <5>. QED
            BY <4>4, <5>1, <5>2
        <4>6. p[k] = p[k - 1] + Len(z) /\ p[k] <= l + m
          BY <4>2, <4>4
        <4>. QED
          BY <4>1, <4>2, <4>3, <4>5, <4>6
      <3>. QED
        BY <3>1, <3>2
    <2>10. Places(p, x, t, code)
      <3>1. p \in [0 .. Len(t) -> Nat] /\ p[0] = 0 /\ p[Len(t)] = Len(x)
        BY <2>6, <2>8
      <3>. QED
        BY <2>6, <2>9, <3>1, Zenon DEF Places
    <2>. QED
      BY <2>4, <2>10
  <1>3. Len(text) \in S
    <2>1. Len(text) \in Nat
      OBVIOUS
    <2>. HIDE DEF S
    <2>. QED
      BY <1>1, <1>2, <2>1, Induction
  <1>. QED
    BY <1>3

(***************************************************************************)
(* The decoders.                                                           *)
(***************************************************************************)
Decodings == [text : Seq(Characters \cup {Unknown}), skip : BOOLEAN]

\* d is what a decoder knows of a text after its k-th character.
Decoded(d, text, k) ==
  /\ d \in Decodings /\ ~d.skip /\ Len(d.text) = k
  /\ \A i \in 1 .. k : d.text[i] = text[i]

\* A decoder that takes the code of each character for that character decodes the text.
LEMMA DecodedInTurn ==
  ASSUME NEW text \in Seq(Characters), NEW n \in Nat, n = Len(text),
         NEW p \in [0 .. n -> Nat], p[0] = 0, NEW g, g[0] = Start,
         \A k \in 1 .. n : \A d \in Decodings : g[p[k - 1]] = d /\ ~d.skip
           => g[p[k]] = [text |-> Append(d.text, text[k]), skip |-> FALSE]
  PROVE  g[p[n]].text = text
  <1>. DEFINE S == {k \in Nat : k <= n => Decoded(g[p[k]], text, k)}
  <1>1. 0 \in S
    BY DEF Decoded, Start, Decodings
  <1>2. ASSUME NEW k \in Nat, k \in S PROVE k + 1 \in S
    <2>. SUFFICES ASSUME k + 1 <= n PROVE Decoded(g[p[k + 1]], text, k + 1)
      OBVIOUS
    <2>1. PICK d \in Decodings : d = g[p[k]] /\ ~d.skip /\ Len(d.text) = k /\ \A i \in 1 .. k : d.text[i] = text[i]
      BY <1>2 DEF Decoded
    <2>2. k + 1 \in 1 .. n /\ (k + 1) - 1 = k
      OBVIOUS
    <2>3. g[p[k + 1]] = [text |-> Append(d.text, text[k + 1]), skip |-> FALSE]
      BY <2>1, <2>2
    <2>4. PICK t \in Seq(Characters \cup {Unknown}), c \in Characters \cup {Unknown} : t = d.text /\ c = text[k + 1]
      BY <2>1, <2>2 DEF Decodings
    <2>5. /\ Append(t, c) \in Seq(Characters \cup {Unknown}) /\ Len(Append(t, c)) = k + 1
          /\ \A i \in 1 .. k + 1 : Append(t, c)[i] = text[i]
      BY <2>1, <2>4
    <2>. QED
      BY <2>3, <2>4, <2>5 DEF Decoded, Decodings
  <1>3. Decoded(g[p[n]], text, n)
    <2>1. n \in S
      <3>. HIDE DEF S
      <3>. QED
        BY <1>1, <1>2, Induction
    <2>. QED
      BY <2>1
  <1>4. PICK t \in Seq(Characters \cup {Unknown}) : t = g[p[n]].text /\ Len(t) = n /\ \A i \in 1 .. n : t[i] = text[i]
    BY <1>3 DEF Decoded, Decodings
  <1>5. text \in Seq(Characters \cup {Unknown})
    BY SeqMonotonic
  <1>6. t = text
    BY <1>4, <1>5, SeqEqual
  <1>. QED
    BY <1>4, <1>6

\* f has the first value and takes the steps.
Follows(f, D, a, lo, N, step) ==
  /\ f = [i \in lo .. N |-> f[i]] /\ f[lo] = a
  /\ \A i \in lo .. N : i # lo /\ f[i - 1] \in D => f[i] = step[i][f[i - 1]]

\* A function with the first value and the steps of a solution is that solution.
LEMMA OneSolution ==
  ASSUME NEW D, NEW a, NEW lo \in Nat, NEW N \in Nat, NEW step, NEW g, Solution(g, D, a, lo, N, step),
         NEW f, Follows(f, D, a, lo, N, step)
  PROVE  f = g
  <1>. USE DEF Solution, Follows
  <1>. DEFINE Same == {n \in Nat : n \in lo .. N => f[n] = g[n]}
  <1>1. 0 \in Same
    OBVIOUS
  <1>2. ASSUME NEW n \in Nat, n \in Same PROVE n + 1 \in Same
    <2>. SUFFICES ASSUME n + 1 \in lo .. N, n + 1 # lo PROVE f[n + 1] = g[n + 1]
      OBVIOUS
    <2>1. n \in lo .. N /\ (n + 1) - 1 = n
      OBVIOUS
    <2>2. f[n] = g[n] /\ g[n] \in D
      BY <1>2, <2>1
    <2>3. f[n + 1] = step[n + 1][f[n]]
      BY <2>1, <2>2
    <2>4. g[n + 1] = step[n + 1][g[n]]
      BY <2>1
    <2>. QED
      BY <2>2, <2>3, <2>4, Zenon
  <1>3. Nat \subseteq Same
    <2>. HIDE DEF Same
    <2>. QED
      BY <1>1, <1>2, Induction
  <1>4. \A i \in lo .. N : f[i] = g[i]
    BY <1>3
  <1>5. g = [i \in lo .. N |-> g[i]]
    OBVIOUS
  <1>. QED
    BY <1>4, <1>5, Zenon DEF Follows

\* What a table says of a code it has once, and of one it has not.
LEMMA CharOfCode ==
  ASSUME NEW table, NEW code
  PROVE  /\ CharOf(table, code) \in DOMAIN table \cup {Unknown}
         /\ \A c \in DOMAIN table :
              table[c] = code /\ (\A b \in DOMAIN table : table[b] = code => b = c) => CharOf(table, code) = c
         /\ (\A c \in DOMAIN table : table[c] # code) => CharOf(table, code) = Unknown
  BY Zenon DEF CharOf

\* gsm7_decode goes from one state to the next.
LEMMA NextSeptetType ==
  ASSUME NEW d \in Decodings, NEW septets, NEW i
  PROVE  NextSeptet(d, septets, i) \in Decodings
  <1>1. PICK t \in Seq(Characters \cup {Unknown}) : t = d.text
    BY DEF Decodings
  <1>2. DOMAIN Extension \subseteq Characters /\ DOMAIN Basic \subseteq Characters
    BY GsmCharacters DEF GsmChars
  <1>3. PICK escaped : escaped = (IF i < Len(septets) THEN CharOf(Extension, septets[i + 1]) ELSE Unknown)
    OBVIOUS
  <1>4. escaped \in Characters \cup {Unknown} /\ CharOf(Basic, septets[i]) \in Characters \cup {Unknown}
    BY <1>2, <1>3, CharOfCode, Zenon
  <1>5. PICK c \in Characters \cup {Unknown} : c = CharOf(Basic, septets[i])
    BY <1>4
  <1>6. /\ [text |-> t, skip |-> FALSE] \in Decodings /\ [text |-> t, skip |-> TRUE] \in Decodings
        /\ [text |-> Append(t, c), skip |-> FALSE] \in Decodings
        /\ [text |-> Append(t, escaped), skip |-> TRUE] \in Decodings
    BY <1>4 DEF Decodings
  <1>7. NextSeptet(d, septets, i)
          = IF d.skip THEN [text |-> t, skip |-> FALSE]
            ELSE IF septets[i] # Esc THEN [text |-> Append(t, c), skip |-> FALSE]
            ELSE [text |-> IF escaped = Unknown THEN t ELSE Append(t, escaped), skip |-> TRUE]
    BY <1>1, <1>3, <1>5, Zenon DEF NextSeptet
  <1>. QED
    BY <1>6, <1>7

\* g is what gsm7_decode computes.
GsmDecoder(g, septets) ==
  /\ g[0] = Start /\ Gsm7Decode(septets) = g[Len(septets)].text
  /\ \A i \in 1 .. Len(septets) : g[i - 1] \in Decodings /\ g[i] = NextSeptet(g[i - 1], septets, i)

\* There is such a function.
LEMMA GsmDecoderOf ==
  ASSUME NEW septets \in Seq(Septet)
  PROVE  \E g : GsmDecoder(g, septets)
  <1>1. PICK n \in Nat : n = Len(septets)
    OBVIOUS
  <1>2. PICK step : step = [i \in 0 .. n |-> [d \in Decodings |-> NextSeptet(d, septets, i)]]
    OBVIOUS
  <1>3. Start \in Decodings
    BY DEF Start, Decodings
  <1>4. Recursive(Decodings, Start, 0, n, step)
    <2>1. \A i \in 0 .. n, d \in Decodings : NextSeptet(d, septets, i) \in Decodings
      BY NextSeptetType
    <2>2. step \in [0 .. n -> [Decodings -> Decodings]]
      BY <1>2, <2>1, Zenon
    <2>. QED
      BY <1>3, <2>2 DEF Recursive
  <1>5. PICK g : Solution(g, Decodings, Start, 0, n, step)
    BY <1>4, Recursion, Zenon
  <1>6. \A i \in 0 .. n, d \in Decodings : step[i][d] = NextSeptet(d, septets, i)
    BY <1>2, Zenon
  <1>7. ASSUME NEW i \in 0 .. n, i # 0 PROVE g[i - 1] \in Decodings /\ g[i] = NextSeptet(g[i - 1], septets, i)
    <2>1. i - 1 \in 0 .. n
      BY <1>7
    <2>2. g[i - 1] \in Decodings /\ g[i] = step[i][g[i - 1]]
      BY <1>5, <1>7, <2>1, Zenon DEF Solution
    <2>. QED
      BY <1>6, <2>2, Zenon
  <1>8. ASSUME NEW f
        PROVE  f = [i \in 0 .. n |-> IF i = 0 THEN Start ELSE NextSeptet(f[i - 1], septets, i)] <=> f = g
    <2>1. ASSUME f = [i \in 0 .. n |-> IF i = 0 THEN Start ELSE NextSeptet(f[i - 1], septets, i)] PROVE f = g
      <3>1. \A i \in 0 .. n : f[i] = IF i = 0 THEN Start ELSE NextSeptet(f[i - 1], septets, i)
        BY <2>1, Zenon
      <3>2. f = [i \in 0 .. n |-> f[i]]
        BY <2>1, Zenon
      <3>3. 0 \in 0 .. n
        OBVIOUS
      <3>4. f[0] = Start /\ \A i \in 0 .. n : i # 0 /\ f[i - 1] \in Decodings => f[i] = step[i][f[i - 1]]
        BY <1>6, <3>1, <3>3, Zenon
      <3>5. 0 \in Nat
        OBVIOUS
      <3>6. Follows(f, Decodings, Start, 0, n, step)
        BY <3>2, <3>4, Zenon DEF Follows
      <3>. QED
        BY <1>5, <3>5, <3>6, OneSolution, Zenon
    <2>2. ASSUME f = g PROVE f = [i \in 0 .. n |-> IF i = 0 THEN Start ELSE NextSeptet(f[i - 1], septets, i)]
      <3>1. g = [i \in 0 .. n |-> g[i]] /\ g[0] = Start
        BY <1>5 DEF Solution
      <3>2. \A i \in 0 .. n : g[i] = IF i = 0 THEN Start ELSE NextSeptet(g[i - 1], septets, i)
        BY <1>7, <3>1, Zenon
      <3>. QED
        BY <2>2, <3>1, <3>2, Zenon
    <2>. QED
      BY <2>1, <2>2
  <1>9. Gsm7Decode(septets) = g[n].text
    <2>1. (CHOOSE f : f = [i \in 0 .. Len(septets) |-> IF i = 0 THEN Start ELSE NextSeptet(f[i - 1], septets, i)]) = g
      BY <1>1, <1>8, Zenon
    <2>. QED
      BY <1>1, <2>1, Zenon DEF Gsm7Decode
  <1>10. g[0] = Start
    BY <1>5, Zenon DEF Solution
  <1>11. ASSUME NEW i \in 1 .. n PROVE g[i - 1] \in Decodings /\ g[i] = NextSeptet(g[i - 1], septets, i)
    <2>1. i \in 0 .. n /\ i # 0
      OBVIOUS
    <2>. QED
      BY <1>7, <2>1
  <1>. QED
    BY <1>1, <1>9, <1>10, <1>11, Zenon DEF GsmDecoder

\* What GSM-7 has for a character to be sent: an escape by itself is none.
GsmText == GsmChars \ {"escape"}

\* gsm7_decode looks each code up where it belongs.
LEMMA GsmCodesApart ==
  /\ \A c \in DOMAIN Basic \ {"escape"} : Basic[c] # Esc /\ CharOf(Basic, Basic[c]) = c
  /\ \A c \in DOMAIN Extension : c # Unknown /\ CharOf(Extension, Extension[c]) = c
  <1>1. DOMAIN Basic = {"at", "paren", "a", "eacute", "escape"} /\ DOMAIN Extension = {"brace", "bracket"}
    BY BasicCodes, ExtensionCodes
  <1>2. /\ Basic["at"] = 0 /\ Basic["paren"] = 40 /\ Basic["a"] = 97 /\ Basic["eacute"] = 30
        /\ Basic["escape"] = 27
    BY DEF Basic, Esc
  <1>3. Extension["brace"] = 40 /\ Extension["bracket"] = 60
    BY DEF Extension
  <1>4. ASSUME NEW c \in DOMAIN Basic \ {"escape"} PROVE Basic[c] # Esc /\ CharOf(Basic, Basic[c]) = c
    <2>1. Basic[c] # Esc /\ \A b \in DOMAIN Basic : Basic[b] = Basic[c] => b = c
      BY <1>1, <1>2 DEF Esc
    <2>. QED
      BY <2>1, CharOfCode, Zenon
  <1>5. ASSUME NEW c \in DOMAIN Extension PROVE c # Unknown /\ CharOf(Extension, Extension[c]) = c
    <2>1. c # Unknown /\ \A b \in DOMAIN Extension : Extension[b] = Extension[c] => b = c
      BY <1>1, <1>3 DEF Unknown
    <2>. QED
      BY <2>1, CharOfCode, Zenon
  <1>. QED
    BY <1>4, <1>5

\* gsm7_decode: what gsm7_septets makes of a text without an escape of its own is
\* decoded to that text; a code of the extension table is never taken for one of the
\* basic table, wherever it stands.
THEOREM Gsm7IsDecoded ==
  ASSUME NEW text \in Seq(GsmText)
  PROVE  Gsm7Decode(Gsm7Septets(text)) = text
  <1>1. text \in Seq(GsmChars) /\ text \in Seq(Characters)
    <2>1. GsmText \subseteq GsmChars /\ GsmText \subseteq Characters
      BY GsmCharacters DEF GsmText
    <2>. QED
      BY <2>1, SeqMonotonic, Zenon
  <1>2. PICK x \in Seq(Septet) : x = Gsm7Septets(text) /\ x = Coded(text, GsmCode)
    BY <1>1, GsmType, GsmSized, Zenon
  <1>3. PICK p : Places(p, x, text, GsmCode)
    <2>1. GsmCode \in Codes(GsmChars, Septet)
      BY GsmSized, Zenon DEF Sized
    <2>. QED
      BY <1>1, <1>2, <2>1, CodedPlaces, Zenon
  <1>4. PICK g : GsmDecoder(g, x)
    BY GsmDecoderOf
  <1>5. PICK n \in Nat, l \in Nat : n = Len(text) /\ l = Len(x)
    OBVIOUS
  <1>6. p \in [0 .. n -> Nat] /\ p[0] = 0 /\ p[n] = l /\ g[0] = Start /\ Gsm7Decode(x) = g[l].text
    BY <1>3, <1>4, <1>5, Zenon DEF Places, GsmDecoder
  <1>7. ASSUME NEW k \in 1 .. n, NEW d \in Decodings, g[p[k - 1]] = d, ~d.skip
        PROVE  g[p[k]] = [text |-> Append(d.text, text[k]), skip |-> FALSE]
    <2>1. PICK c \in GsmText : c = text[k] /\ c \in GsmChars
      BY <1>5 DEF GsmText
    <2>2. PICK s : s = SeptetsOf(c) /\ s = GsmCode[c]
      BY <2>1, Zenon DEF GsmCode
    <2>3. PICK j \in Nat : j = p[k - 1]
      BY <1>6
    <2>4. p[k] = j + Len(s) /\ p[k] <= l /\ \A i \in 1 .. Len(s) : x[j + i] = s[i]
      <3>1. /\ p[k] = p[k - 1] + Len(GsmCode[text[k]]) /\ p[k] <= Len(x)
            /\ \A i \in 1 .. Len(GsmCode[text[k]]) : x[p[k - 1] + i] = GsmCode[text[k]][i]
        BY <1>3, <1>5, Zenon DEF Places
      <3>2. GsmCode[text[k]] = s
        BY <2>1, <2>2, Zenon
      <3>. QED
        BY <1>5, <2>3, <3>1, <3>2, Zenon
    <2>5. CASE c \in DOMAIN Basic
      <3>1. PICK v : v = Basic[c] /\ v # Esc /\ CharOf(Basic, v) = c
        BY <2>1, <2>5, GsmCodesApart DEF GsmText
      <3>2. s = <<v>>
        BY <2>2, <2>5, <3>1, Zenon DEF SeptetsOf
      <3>3. Len(s) = 1 /\ s[1] = v
        BY <3>2
      <3>4. p[k] = j + 1 /\ x[j + 1] = v /\ j + 1 \in 1 .. l /\ (j + 1) - 1 = j
        BY <2>4, <3>3
      <3>5. g[j + 1] = NextSeptet(d, x, j + 1)
        BY <1>4, <1>5, <1>7, <2>3, <3>4, Zenon DEF GsmDecoder
      <3>6. NextSeptet(d, x, j + 1) = [text |-> Append(d.text, c), skip |-> FALSE]
        BY <1>7, <3>1, <3>4, Zenon DEF NextSeptet
      <3>. QED
        BY <2>1, <3>4, <3>5, <3>6, Zenon
    <2>6. CASE c \notin DOMAIN Basic
      <3>1. c \in DOMAIN Extension
        BY <2>1, <2>6 DEF GsmChars
      <3>2. PICK v : v = Extension[c] /\ CharOf(Extension, v) = c /\ c # Unknown
        BY <3>1, GsmCodesApart
      <3>3. s = <<Esc, v>>
        BY <2>2, <2>6, <3>2, Zenon DEF SeptetsOf
      <3>4. Len(s) = 2 /\ s[1] = Esc /\ s[2] = v
        BY <3>3
      <3>5. p[k] = j + 2 /\ x[j + 1] = Esc /\ x[j + 2] = v
        BY <2>4, <3>4
      <3>6. /\ j + 1 \in 1 .. l /\ j + 2 \in 1 .. l /\ j + 1 < l
            /\ (j + 1) - 1 = j /\ (j + 2) - 1 = j + 1 /\ (j + 1) + 1 = j + 2
        BY <2>4, <3>5
      <3>7. g[j + 1] = NextSeptet(d, x, j + 1) /\ g[j + 2] = NextSeptet(g[j + 1], x, j + 2)
        BY <1>4, <1>5, <1>7, <2>3, <3>6, Zenon DEF GsmDecoder
      <3>8. NextSeptet(d, x, j + 1) = [text |-> Append(d.text, c), skip |-> TRUE]
        BY <1>5, <1>7, <3>2, <3>5, <3>6, Zenon DEF NextSeptet
      <3>9. NextSeptet([text |-> Append(d.text, c), skip |-> TRUE], x, j + 2)
              = [text |-> Append(d.text, c), skip |-> FALSE]
        BY DEF NextSeptet
      <3>. QED
        BY <2>1, <3>5, <3>7, <3>8, <3>9, Zenon
    <2>. QED
      BY <2>5, <2>6
  <1>8. g[p[n]].text = text
    BY <1>1, <1>5, <1>6, <1>7, DecodedInTurn, Zenon
  <1>. QED
    BY <1>2, <1>6, <1>8, Zenon

\* The units of a text.
UnitsIn(text) == Coded(text, Units)

\* The octets o are the units u, two for each.
AreUnits(o, u) ==
  /\ Len(o) = 2 * Len(u)
  /\ \A i \in 1 .. Len(u) : o[2 * i - 1] = u[i] \div 256 /\ o[2 * i] = u[i] % 256

\* Behind each other they stay that.
LEMMA UnitsJoined ==
  ASSUME NEW o \in Seq(Byte), NEW u \in Seq(Unit), AreUnits(o, u),
         NEW q \in Seq(Byte), NEW v \in Seq(Unit), AreUnits(q, v)
  PROVE  AreUnits(o \o q, u \o v)
  <1>1. PICK a \in Seq(Byte), b \in Seq(Unit) : a = o \o q /\ IsJoin(a, o, q) /\ b = u \o v /\ IsJoin(b, u, v)
    <2>1. (\E a \in Seq(Byte) : IsJoin(a, o, q)) /\ (\E b \in Seq(Unit) : IsJoin(b, u, v))
      BY JoinOf
    <2>. QED
      BY <2>1, Zenon DEF IsJoin
  <1>2. PICK l \in Nat, m \in Nat : l = Len(u) /\ m = Len(v) /\ Len(o) = 2 * l /\ Len(q) = 2 * m
    BY DEF AreUnits
  <1>3. /\ Len(b) = l + m /\ Len(a) = 2 * l + 2 * m
        /\ \A i \in 1 .. 2 * l : a[i] = o[i]
        /\ \A i \in 1 .. 2 * m : a[2 * l + i] = q[i]
        /\ \A i \in 1 .. l : b[i] = u[i]
        /\ \A i \in 1 .. m : b[l + i] = v[i]
    BY <1>1, <1>2, Zenon DEF IsJoin
  <1>4. /\ \A i \in 1 .. l : o[2 * i - 1] = u[i] \div 256 /\ o[2 * i] = u[i] % 256
        /\ \A i \in 1 .. m : q[2 * i - 1] = v[i] \div 256 /\ q[2 * i] = v[i] % 256
    BY <1>2, Zenon DEF AreUnits
  <1>5. ASSUME NEW i \in 1 .. l + m PROVE a[2 * i - 1] = b[i] \div 256 /\ a[2 * i] = b[i] % 256
    <2>1. CASE i <= l
      <3>1. i \in 1 .. l /\ 2 * i - 1 \in 1 .. 2 * l /\ 2 * i \in 1 .. 2 * l
        BY <2>1
      <3>2. a[2 * i - 1] = o[2 * i - 1] /\ a[2 * i] = o[2 * i] /\ b[i] = u[i]
        BY <1>3, <3>1, Zenon
      <3>3. o[2 * i - 1] = u[i] \div 256 /\ o[2 * i] = u[i] % 256
        BY <1>4, <3>1, Zenon
      <3>. QED
        BY <3>2, <3>3, Zenon
    <2>2. CASE ~(i <= l)
      <3>1. PICK j \in 1 .. m : i = l + j
        <4>1. i - l \in 1 .. m /\ i = l + (i - l)
          BY <2>2
        <4>. QED
          BY <4>1, Zenon
      <3>2. /\ 2 * j - 1 \in 1 .. 2 * m /\ 2 * j \in 1 .. 2 * m
            /\ 2 * i - 1 = 2 * l + (2 * j - 1) /\ 2 * i = 2 * l + 2 * j
        BY <3>1
      <3>3. a[2 * l + (2 * j - 1)] = q[2 * j - 1] /\ a[2 * l + 2 * j] = q[2 * j] /\ b[l + j] = v[j]
        BY <1>3, <3>2, Zenon
      <3>4. q[2 * j - 1] = v[j] \div 256 /\ q[2 * j] = v[j] % 256
        BY <1>4, Zenon
      <3>. QED
        BY <3>1, <3>2, <3>3, <3>4, Zenon
    <2>. QED
      BY <2>1, <2>2
  <1>6. Len(a) = 2 * Len(b)
    BY <1>3
  <1>. QED
    BY <1>1, <1>3, <1>5, <1>6, Zenon DEF AreUnits

\* The octets of a character are its units.
LEMMA OctetsAreUnits == \A c \in Characters : AreUnits(OctetsOf(c), Units[c])
  <1>. SUFFICES ASSUME NEW c \in Characters PROVE AreUnits(OctetsOf(c), Units[c])
    OBVIOUS
  <1>1. PICK s \in Seq(Unit) : s = Units[c] /\ Len(s) \in 1 .. 2
    BY UnitsOf, Zenon
  <1>2. PICK t : t = [k \in DOMAIN s |-> UnitOctets(s[k])]
    OBVIOUS
  <1>3. OctetsOf(c) = FlattenSeq(t)
    BY <1>1, <1>2, Zenon DEF OctetsOf, UnitOctets
  <1>4. ASSUME NEW u \in Unit PROVE AreUnits(UnitOctets(u), <<u>>)
    <2>1. PICK x \in Seq(Byte) : x = UnitOctets(u) /\ Len(x) = 2
      BY UnitOctetsType, Zenon
    <2>2. x = <<u \div 256, u % 256>>
      BY <2>1, Zenon DEF UnitOctets
    <2>3. x[1] = u \div 256 /\ x[2] = u % 256
      BY <2>2
    <2>4. PICK v \in Seq(Unit) : v = <<u>> /\ Len(v) = 1 /\ v[1] = u
      <3>1. <<u>> \in Seq(Unit) /\ Len(<<u>>) = 1 /\ <<u>>[1] = u
        OBVIOUS
      <3>. QED
        BY <3>1, Zenon
    <2>5. AreUnits(x, v)
      BY <2>1, <2>3, <2>4 DEF AreUnits
    <2>. QED
      BY <2>1, <2>4, <2>5, Zenon
  <1>5. CASE Len(s) = 1
    <2>1. s[1] \in Unit
      BY <1>1, <1>5
    <2>2. PICK u \in Unit : u = s[1]
      BY <2>1, Zenon
    <2>3. PICK x \in Seq(Byte) : x = UnitOctets(u)
      BY UnitOctetsType, Zenon
    <2>4. t = <<x>> /\ s = <<u>>
      BY <1>2, <1>5, <2>2, <2>3
    <2>5. FlattenSeq(<<x>>) = x
      BY FlattenShort, Zenon
    <2>. QED
      BY <1>1, <1>3, <1>4, <2>3, <2>4, <2>5, Zenon
  <1>6. CASE Len(s) = 2
    <2>1. s[1] \in Unit /\ s[2] \in Unit
      BY <1>1, <1>6
    <2>2. PICK u \in Unit, v \in Unit : u = s[1] /\ v = s[2]
      BY <2>1, Zenon
    <2>3. PICK x \in Seq(Byte), y \in Seq(Byte) : x = UnitOctets(u) /\ y = UnitOctets(v)
      BY UnitOctetsType, Zenon
    <2>4. t = <<x, y>> /\ s = <<u, v>>
      BY <1>2, <1>6, <2>2, <2>3
    <2>5. FlattenSeq(<<x, y>>) = x \o y
      BY FlattenShort, Zenon
    <2>6. PICK a \in Seq(Unit), b \in Seq(Unit) : a = <<u>> /\ b = <<v>>
      <3>1. <<u>> \in Seq(Unit) /\ <<v>> \in Seq(Unit)
        OBVIOUS
      <3>. QED
        BY <3>1, Zenon
    <2>7. a \o b = <<u, v>>
      <3>1. Append(<<u>>, v) = <<u, v>>
        BY AppendOne
      <3>2. Append(a, v) = a \o <<v>>
        BY AppendIsConcat, Zenon
      <3>. QED
        BY <2>6, <3>1, <3>2, Zenon
    <2>8. AreUnits(x \o y, a \o b)
      BY <1>4, <2>3, <2>6, UnitsJoined, Zenon
    <2>. QED
      BY <1>1, <1>3, <2>4, <2>5, <2>7, <2>8, Zenon
  <1>. QED
    BY <1>1, <1>5, <1>6

\* Those of a text are its.
LEMMA TextUnits ==
  ASSUME NEW text \in Seq(Characters)
  PROVE  UnitsIn(text) \in Seq(Unit) /\ AreUnits(Utf16Octets(text), UnitsIn(text))
  <1>. DEFINE Fine(t) == UnitsIn(t) \in Seq(Unit) /\ AreUnits(Coded(t, Ucs2Code), UnitsIn(t))
              S == {n \in Nat : \A t \in Seq(Characters) : Len(t) = n => Fine(t)}
  <1>1. Ucs2Code \in Codes(Characters, Byte) /\ Units \in Codes(Characters, Unit)
    <2>1. DOMAIN Units = Characters /\ Units = [c \in Characters |-> Units[c]]
      BY Zenon DEF Units
    <2>2. \A c \in Characters : Units[c] \in Seq(Unit)
      BY UnitsOf
    <2>3. Units \in [Characters -> Seq(Unit)]
      BY <2>1, <2>2
    <2>. QED
      BY <2>3, Ucs2Sized, Zenon DEF Sized, Codes
  <1>2. 0 \in S
    <2>. SUFFICES ASSUME NEW t \in Seq(Characters), Len(t) = 0 PROVE Fine(t)
      OBVIOUS
    <2>1. Coded(t, Ucs2Code) = <<>> /\ UnitsIn(t) = <<>>
      <3>1. [i \in DOMAIN t |-> Ucs2Code[t[i]]] = <<>> /\ [i \in DOMAIN t |-> Units[t[i]]] = <<>>
        OBVIOUS
      <3>. QED
        BY <3>1 DEF Coded, UnitsIn, FlattenSeq
    <2>2. <<>> \in Seq(Unit) /\ AreUnits(<<>>, <<>>)
      BY DEF AreUnits
    <2>. QED
      BY <2>1, <2>2, Zenon
  <1>3. ASSUME NEW n \in Nat, n \in S PROVE n + 1 \in S
    <2>. SUFFICES ASSUME NEW t \in Seq(Characters), Len(t) = n + 1 PROVE Fine(t)
      OBVIOUS
    <2>1. PICK u \in Seq(Characters), c \in Characters : t = Append(u, c)
      <3>1. t # <<>>
        OBVIOUS
      <3>. QED
        BY <3>1, SequenceEmptyOrAppend, Zenon
    <2>2. Fine(u)
      <3>1. Len(u) = n
        BY <2>1
      <3>. QED
        BY <1>3, <3>1
    <2>3. /\ Coded(u, Ucs2Code) \in Seq(Byte) /\ Coded(t, Ucs2Code) = Coded(u, Ucs2Code) \o Ucs2Code[c]
          /\ UnitsIn(t) = UnitsIn(u) \o Units[c]
      <3>1. CodedInTurn(u, c, Ucs2Code, Byte) /\ CodedInTurn(u, c, Units, Unit)
        BY <1>1, CodedAppend, Zenon
      <3>. QED
        BY <2>1, <3>1, Zenon DEF CodedInTurn, UnitsIn
    <2>4. PICK o \in Seq(Byte), v \in Seq(Unit) : o = Ucs2Code[c] /\ v = Units[c] /\ AreUnits(o, v)
      <3>1. Ucs2Code[c] = OctetsOf(c)
        BY Zenon DEF Ucs2Code
      <3>. QED
        BY <3>1, OctetsAreUnits, OctetsOfUnits, UnitsOf, Zenon
    <2>5. AreUnits(Coded(u, Ucs2Code) \o o, UnitsIn(u) \o v)
      BY <2>2, <2>3, <2>4, UnitsJoined, Zenon
    <2>6. UnitsIn(u) \o v \in Seq(Unit)
      BY <2>2, <2>4, Joining, Zenon
    <2>. QED
      BY <2>3, <2>4, <2>5, <2>6, Zenon
  <1>4. Fine(text)
    <2>1. Len(text) \in Nat
      OBVIOUS
    <2>2. Len(text) \in S
      <3>. HIDE DEF S
      <3>. QED
        BY <1>2, <1>3, <2>1, Induction
    <2>. QED
      BY <2>2
  <1>5. Utf16Octets(text) = Coded(text, Ucs2Code)
    BY Ucs2Sized, Zenon
  <1>. QED
    BY <1>4, <1>5, Zenon

\* utf-16-be decoding goes from one state to the next.
LEMMA NextUnitType ==
  ASSUME NEW d \in Decodings, NEW units, NEW i
  PROVE  NextUnit(d, units, i) \in Decodings
  <1>1. PICK t \in Seq(Characters \cup {Unknown}) : t = d.text
    BY DEF Decodings
  <1>2. DOMAIN Units = Characters
    BY Zenon DEF Units
  <1>3. PICK pair : pair = (IF i < Len(units) THEN CharOf(Units, <<units[i], units[i + 1]>>) ELSE Unknown)
    OBVIOUS
  <1>4. pair \in Characters \cup {Unknown} /\ CharOf(Units, <<units[i]>>) \in Characters \cup {Unknown}
    BY <1>2, <1>3, CharOfCode, Zenon
  <1>5. PICK c \in Characters \cup {Unknown} : c = CharOf(Units, <<units[i]>>)
    BY <1>4, Zenon
  <1>6. /\ [text |-> t, skip |-> FALSE] \in Decodings
        /\ [text |-> Append(t, c), skip |-> FALSE] \in Decodings
        /\ [text |-> Append(t, pair), skip |-> TRUE] \in Decodings
    BY <1>4 DEF Decodings
  <1>7. NextUnit(d, units, i)
          = IF d.skip THEN [text |-> t, skip |-> FALSE]
            ELSE IF pair # Unknown THEN [text |-> Append(t, pair), skip |-> TRUE]
            ELSE [text |-> Append(t, c), skip |-> FALSE]
    BY <1>1, <1>3, <1>5, Zenon DEF NextUnit
  <1>. QED
    BY <1>6, <1>7

\* What Utf16Decode reads, and g, what it computes.
UnitsRead(octets) == [i \in 1 .. Len(octets) \div 2 |-> 256 * octets[2 * i - 1] + octets[2 * i]]

UnitDecoder(g, octets, units) ==
  /\ g[0] = Start /\ Utf16Decode(octets) = g[Len(units)].text
  /\ \A i \in 1 .. Len(units) : g[i - 1] \in Decodings /\ g[i] = NextUnit(g[i - 1], units, i)

\* There is such a function.
LEMMA UnitDecoderOf ==
  ASSUME NEW octets, NEW units \in Seq(Unit), units = UnitsRead(octets)
  PROVE  \E g : UnitDecoder(g, octets, units)
  <1>1. PICK n \in Nat : n = Len(units)
    OBVIOUS
  <1>2. PICK step : step = [i \in 0 .. n |-> [d \in Decodings |-> NextUnit(d, units, i)]]
    OBVIOUS
  <1>3. Start \in Decodings
    BY DEF Start, Decodings
  <1>4. Recursive(Decodings, Start, 0, n, step)
    <2>1. \A i \in 0 .. n, d \in Decodings : NextUnit(d, units, i) \in Decodings
      BY NextUnitType
    <2>2. step \in [0 .. n -> [Decodings -> Decodings]]
      BY <1>2, <2>1, Zenon
    <2>. QED
      BY <1>3, <2>2 DEF Recursive
  <1>5. PICK g : Solution(g, Decodings, Start, 0, n, step)
    BY <1>4, Recursion, Zenon
  <1>6. \A i \in 0 .. n, d \in Decodings : step[i][d] = NextUnit(d, units, i)
    BY <1>2, Zenon
  <1>7. ASSUME NEW i \in 0 .. n, i # 0 PROVE g[i - 1] \in Decodings /\ g[i] = NextUnit(g[i - 1], units, i)
    <2>1. i - 1 \in 0 .. n
      BY <1>7
    <2>2. g[i - 1] \in Decodings /\ g[i] = step[i][g[i - 1]]
      BY <1>5, <1>7, <2>1, Zenon DEF Solution
    <2>. QED
      BY <1>6, <2>2, Zenon
  <1>8. ASSUME NEW f
        PROVE  f = [i \in 0 .. n |-> IF i = 0 THEN Start ELSE NextUnit(f[i - 1], units, i)] <=> f = g
    <2>1. ASSUME f = [i \in 0 .. n |-> IF i = 0 THEN Start ELSE NextUnit(f[i - 1], units, i)] PROVE f = g
      <3>1. \A i \in 0 .. n : f[i] = IF i = 0 THEN Start ELSE NextUnit(f[i - 1], units, i)
        BY <2>1, Zenon
      <3>2. f = [i \in 0 .. n |-> f[i]]
        BY <2>1, Zenon
      <3>3. 0 \in 0 .. n
        OBVIOUS
      <3>4. f[0] = Start /\ \A i \in 0 .. n : i # 0 /\ f[i - 1] \in Decodings => f[i] = step[i][f[i - 1]]
        BY <1>6, <3>1, <3>3, Zenon
      <3>5. 0 \in Nat
        OBVIOUS
      <3>6. Follows(f, Decodings, Start, 0, n, step)
        BY <3>2, <3>4, Zenon DEF Follows
      <3>. QED
        BY <1>5, <3>5, <3>6, OneSolution, Zenon
    <2>2. ASSUME f = g PROVE f = [i \in 0 .. n |-> IF i = 0 THEN Start ELSE NextUnit(f[i - 1], units, i)]
      <3>1. g = [i \in 0 .. n |-> g[i]] /\ g[0] = Start
        BY <1>5 DEF Solution
      <3>2. \A i \in 0 .. n : g[i] = IF i = 0 THEN Start ELSE NextUnit(g[i - 1], units, i)
        BY <1>7, <3>1, Zenon
      <3>. QED
        BY <2>2, <3>1, <3>2, Zenon
    <2>. QED
      BY <2>1, <2>2
  <1>9. Utf16Decode(octets) = g[n].text
    <2>1. (CHOOSE f : f = [i \in 0 .. Len(units) |-> IF i = 0 THEN Start ELSE NextUnit(f[i - 1], units, i)]) = g
      BY <1>1, <1>8, Zenon
    <2>. QED
      BY <1>1, <2>1, Zenon DEF Utf16Decode, UnitsRead
  <1>10. g[0] = Start
    BY <1>5, Zenon DEF Solution
  <1>11. ASSUME NEW i \in 1 .. n PROVE g[i - 1] \in Decodings /\ g[i] = NextUnit(g[i - 1], units, i)
    <2>1. i \in 0 .. n /\ i # 0
      OBVIOUS
    <2>. QED
      BY <1>7, <2>1
  <1>. QED
    BY <1>1, <1>9, <1>10, <1>11, Zenon DEF UnitDecoder

\* Two units are a character only when they are the pair of one.
LEMMA UnitsApart ==
  /\ \A c \in DOMAIN Bmp : /\ Units[c] = <<Bmp[c]>> /\ CharOf(Units, <<Bmp[c]>>) = c
                           /\ \A v : CharOf(Units, <<Bmp[c], v>>) = Unknown
  /\ \A c \in Characters \ DOMAIN Bmp : Units[c] = Emoji /\ CharOf(Units, Emoji) = c /\ c # Unknown
  <1>1. DOMAIN Bmp = {"at", "paren", "a", "eacute", "escape", "brace", "bracket", "han"}
    BY BmpUnits
  <1>2. /\ Bmp["at"] = 64 /\ Bmp["paren"] = 40 /\ Bmp["a"] = 97 /\ Bmp["eacute"] = 233
        /\ Bmp["escape"] = 27 /\ Bmp["brace"] = 123 /\ Bmp["bracket"] = 91 /\ Bmp["han"] = 28450
    BY DEF Bmp
  <1>3. /\ \A b, c \in DOMAIN Bmp : Bmp[b] = Bmp[c] => b = c
        /\ \A c \in DOMAIN Bmp : Bmp[c] # Emoji[1]
    BY <1>1, <1>2 DEF Emoji
  <1>4. DOMAIN Units = Characters
    BY Zenon DEF Units
  <1>5. \A c \in Characters : IF c \in DOMAIN Bmp THEN Units[c] = <<Bmp[c]>> ELSE Units[c] = Emoji
    BY Zenon DEF Units
  <1>6. DOMAIN Bmp \subseteq Characters /\ \A c \in Characters \ DOMAIN Bmp : c = "emoji"
    BY DEF Characters
  <1>7. ASSUME NEW b \in DOMAIN Bmp, NEW c \in DOMAIN Bmp, NEW v
        PROVE  /\ <<Bmp[b]>> = <<Bmp[c]>> => b = c
               /\ <<Bmp[b]>> # <<Bmp[c], v>> /\ Emoji # <<Bmp[c], v>> /\ <<Bmp[b]>> # Emoji
    <2>1. PICK x \in Nat, y \in Nat : x = Bmp[b] /\ y = Bmp[c]
      <3>1. Bmp[b] \in Nat /\ Bmp[c] \in Nat
        BY <1>1, <1>2
      <3>. QED
        BY <3>1, Zenon
    <2>2. x # Emoji[1] /\ y # Emoji[1]
      BY <1>3, <2>1, Zenon
    <2>3. (<<x>> = <<y>> => x = y) /\ <<x>> # <<y, v>> /\ Emoji # <<y, v>> /\ <<x>> # Emoji
      BY <2>2 DEF Emoji
    <2>4. x = y => b = c
      BY <1>3, <2>1, Zenon
    <2>5. <<Bmp[b]>> = <<x>> /\ <<Bmp[c]>> = <<y>> /\ <<Bmp[c], v>> = <<y, v>>
      BY <2>1, Zenon
    <2>. QED
      BY <2>3, <2>4, <2>5, Zenon
  <1>8. ASSUME NEW c \in DOMAIN Bmp PROVE CharOf(Units, <<Bmp[c]>>) = c
    <2>1. c \in DOMAIN Units /\ Units[c] = <<Bmp[c]>>
      BY <1>4, <1>5, <1>6
    <2>2. ASSUME NEW b \in DOMAIN Units, Units[b] = <<Bmp[c]>> PROVE b = c
      <3>1. b \in DOMAIN Bmp
        <4>1. Emoji # <<Bmp[c]>>
          BY <1>7
        <4>. QED
          BY <1>4, <1>5, <2>2, <4>1
      <3>2. <<Bmp[b]>> = <<Bmp[c]>>
        BY <1>5, <1>6, <2>2, <3>1, Zenon
      <3>. QED
        BY <1>7, <3>1, <3>2, Zenon
    <2>. QED
      BY <2>1, <2>2, CharOfCode, Zenon
  <1>9. ASSUME NEW c \in DOMAIN Bmp, NEW v PROVE CharOf(Units, <<Bmp[c], v>>) = Unknown
    <2>1. ASSUME NEW b \in DOMAIN Units PROVE Units[b] # <<Bmp[c], v>>
      <3>1. CASE b \in DOMAIN Bmp
        <4>1. <<Bmp[b]>> # <<Bmp[c], v>>
          BY <1>7, <3>1, Zenon
        <4>. QED
          BY <1>4, <1>5, <3>1, <4>1, Zenon
      <3>2. CASE b \notin DOMAIN Bmp
        <4>1. Emoji # <<Bmp[c], v>>
          BY <1>7, Zenon
        <4>. QED
          BY <1>4, <1>5, <3>2, <4>1, Zenon
      <3>. QED
        BY <3>1, <3>2
    <2>. QED
      BY <2>1, CharOfCode, Zenon
  <1>10. ASSUME NEW c \in Characters \ DOMAIN Bmp
         PROVE  Units[c] = Emoji /\ CharOf(Units, Emoji) = c /\ c # Unknown
    <2>1. c = "emoji" /\ Units[c] = Emoji
      BY <1>5, <1>6, Zenon
    <2>2. ASSUME NEW b \in DOMAIN Units, Units[b] = Emoji PROVE b = c
      <3>1. ASSUME b \in DOMAIN Bmp PROVE FALSE
        <4>1. <<Bmp[b]>> # Emoji
          BY <1>7, <3>1, Zenon
        <4>. QED
          BY <1>5, <1>6, <2>2, <3>1, <4>1, Zenon
      <3>. QED
        BY <1>4, <1>6, <2>1, <3>1
    <2>3. CharOf(Units, Emoji) = c
      BY <1>4, <2>1, <2>2, CharOfCode, Zenon
    <2>. QED
      BY <2>1, <2>3 DEF Unknown
  <1>. QED
    BY <1>5, <1>6, <1>8, <1>9, <1>10, Zenon

\* The octets of ucs2_pdu decoded as UTF-16: every text comes back, with the
\* characters of two units in one piece.
THEOREM Utf16IsDecoded ==
  ASSUME NEW text \in Seq(Characters)
  PROVE  Utf16Decode(Utf16Octets(text)) = text
  <1>1. PICK x \in Seq(Unit), o \in Seq(Byte) : x = UnitsIn(text) /\ o = Utf16Octets(text) /\ AreUnits(o, x)
    BY TextUnits, Ucs2Type, Zenon
  <1>2. PICK n \in Nat, l \in Nat : n = Len(text) /\ l = Len(x)
    OBVIOUS
  <1>3. x = UnitsRead(o)
    <2>1. Len(o) = 2 * l /\ \A i \in 1 .. l : o[2 * i - 1] = x[i] \div 256 /\ o[2 * i] = x[i] % 256
      BY <1>1, <1>2, Zenon DEF AreUnits
    <2>2. (2 * l) \div 2 = l
      OBVIOUS
    <2>3. ASSUME NEW i \in 1 .. l PROVE x[i] = 256 * o[2 * i - 1] + o[2 * i]
      <3>1. x[i] \in Unit
        BY <1>2
      <3>2. x[i] \in Nat /\ 256 \in Positive
        BY <3>1 DEF Unit, Positive
      <3>3. PICK q \in Nat, r \in 0 .. 256 - 1 : Divided(x[i], 256, q, r)
        BY <3>2, Division, Zenon
      <3>4. o[2 * i - 1] = q /\ o[2 * i] = r /\ x[i] = 256 * q + r
        BY <2>1, <3>3, Zenon DEF Divided
      <3>. QED
        BY <3>4, Zenon
    <2>4. x = [i \in 1 .. l |-> x[i]]
      BY <1>2
    <2>. QED
      BY <2>1, <2>2, <2>3, <2>4, Zenon DEF UnitsRead
  <1>4. PICK p : Places(p, x, text, Units)
    <2>1. Units \in Codes(Characters, Unit)
      <3>1. Units = [c \in Characters |-> Units[c]] /\ \A c \in Characters : Units[c] \in Seq(Unit)
        BY UnitsOf, Zenon DEF Units
      <3>. QED
        BY <3>1 DEF Codes
    <2>. QED
      BY <1>1, <2>1, CodedPlaces, Zenon DEF UnitsIn
  <1>5. PICK g : UnitDecoder(g, o, x)
    BY <1>3, UnitDecoderOf, Zenon
  <1>6. p \in [0 .. n -> Nat] /\ p[0] = 0 /\ p[n] = l /\ g[0] = Start /\ Utf16Decode(o) = g[l].text
    BY <1>4, <1>5, <1>2, Zenon DEF Places, UnitDecoder
  <1>7. ASSUME NEW k \in 1 .. n, NEW d \in Decodings, g[p[k - 1]] = d, ~d.skip
        PROVE  g[p[k]] = [text |-> Append(d.text, text[k]), skip |-> FALSE]
    <2>1. PICK c \in Characters : c = text[k]
      BY <1>2
    <2>2. PICK s : s = Units[c]
      OBVIOUS
    <2>3. PICK j \in Nat : j = p[k - 1]
      BY <1>6
    <2>4. p[k] = j + Len(s) /\ p[k] <= l /\ \A i \in 1 .. Len(s) : x[j + i] = s[i]
      <3>1. /\ p[k] = p[k - 1] + Len(Units[text[k]]) /\ p[k] <= Len(x)
            /\ \A i \in 1 .. Len(Units[text[k]]) : x[p[k - 1] + i] = Units[text[k]][i]
        BY <1>4, <1>2, Zenon DEF Places
      <3>. QED
        BY <1>2, <2>1, <2>2, <2>3, <3>1, Zenon
    <2>5. CASE c \in DOMAIN Bmp
      <3>1. PICK v : v = Bmp[c]
        OBVIOUS
      <3>2. s = <<v>> /\ CharOf(Units, <<v>>) = c /\ \A w : CharOf(Units, <<v, w>>) = Unknown
        BY <2>2, <2>5, <3>1, UnitsApart, Zenon
      <3>3. Len(s) = 1 /\ s[1] = v
        BY <3>2
      <3>4. p[k] = j + 1 /\ x[j + 1] = v /\ j + 1 \in 1 .. l /\ (j + 1) - 1 = j
        BY <2>4, <3>3
      <3>5. g[j + 1] = NextUnit(d, x, j + 1)
        BY <1>5, <1>2, <1>7, <2>3, <3>4, Zenon DEF UnitDecoder
      <3>6. NextUnit(d, x, j + 1) = [text |-> Append(d.text, c), skip |-> FALSE]
        BY <1>7, <3>2, <3>4, Zenon DEF NextUnit
      <3>. QED
        BY <2>1, <3>4, <3>5, <3>6, Zenon
    <2>6. CASE c \notin DOMAIN Bmp
      <3>1. s = Emoji /\ CharOf(Units, Emoji) = c /\ c # Unknown
        BY <2>1, <2>2, <2>6, UnitsApart, Zenon
      <3>2. Len(Emoji) = 2 /\ Emoji = <<Emoji[1], Emoji[2]>>
        BY DEF Emoji
      <3>3. p[k] = j + 2 /\ x[j + 1] = Emoji[1] /\ x[j + 2] = Emoji[2]
        BY <2>4, <3>1, <3>2
      <3>4. /\ j + 1 \in 1 .. l /\ j + 2 \in 1 .. l /\ j + 1 < l
            /\ (j + 1) - 1 = j /\ (j + 2) - 1 = j + 1 /\ (j + 1) + 1 = j + 2
        BY <2>4, <3>1, <3>2
      <3>5. g[j + 1] = NextUnit(d, x, j + 1) /\ g[j + 2] = NextUnit(g[j + 1], x, j + 2)
        BY <1>5, <1>2, <1>7, <2>3, <3>4, Zenon DEF UnitDecoder
      <3>6. NextUnit(d, x, j + 1) = [text |-> Append(d.text, c), skip |-> TRUE]
        <4>1. <<x[j + 1], x[(j + 1) + 1]>> = Emoji
          BY <3>2, <3>3, <3>4, Zenon
        <4>2. CharOf(Units, <<x[j + 1], x[(j + 1) + 1]>>) = c /\ c # Unknown /\ j + 1 < Len(x)
          BY <1>2, <3>1, <3>4, <4>1, Zenon
        <4>. QED
          BY <1>7, <4>2, Zenon DEF NextUnit
      <3>7. NextUnit([text |-> Append(d.text, c), skip |-> TRUE], x, j + 2)
              = [text |-> Append(d.text, c), skip |-> FALSE]
        BY Zenon DEF NextUnit
      <3>8. g[j + 2] = [text |-> Append(d.text, c), skip |-> FALSE]
        BY <3>5, <3>6, <3>7, Zenon
      <3>. QED
        BY <2>1, <3>3, <3>8, Zenon
    <2>. QED
      BY <2>5, <2>6
  <1>8. g[p[n]].text = text
    BY <1>2, <1>6, <1>7, DecodedInTurn, Zenon
  <1>. QED
    BY <1>1, <1>6, <1>8, Zenon

(***************************************************************************)
(* The fields of a PDU read back.                                          *)
(***************************************************************************)
\* s is what b has behind its k-th element, up to the l-th.
IsBetween(s, b, k, l) == SubSeq(b, k + 1, l) = s

\* What stands in a sequence is a slice of it.
LEMMA SliceOf ==
  ASSUME NEW E, NEW b \in Seq(E), NEW s \in Seq(E), NEW k \in Nat, NEW l, l = k + Len(s), Holds(b, k, s)
  PROVE  IsBetween(s, b, k, l)
  <1>1. PICK n \in Nat, m \in Nat : n = Len(b) /\ m = Len(s) /\ k + m <= n /\ l = k + m
    BY DEF Holds
  <1>2. \A i \in k + 1 .. l : b[i] \in E
    BY <1>1
  <1>3. /\ SubSeq(b, k + 1, l) \in Seq(E)
        /\ Len(SubSeq(b, k + 1, l)) = IF k + 1 <= l THEN l - (k + 1) + 1 ELSE 0
        /\ \A i \in 1 .. l - (k + 1) + 1 : SubSeq(b, k + 1, l)[i] = b[k + 1 + i - 1]
    BY <1>1, <1>2, SubSeqProperties
  <1>4. PICK t \in Seq(E) : t = SubSeq(b, k + 1, l)
    BY <1>3
  <1>5. Len(t) = m
    <2>1. Len(t) = IF k + 1 <= l THEN l - (k + 1) + 1 ELSE 0
      BY <1>3, <1>4, Zenon
    <2>. QED
      BY <1>1, <2>1
  <1>6. ASSUME NEW i \in 1 .. m PROVE t[i] = s[i]
    <2>1. i \in 1 .. l - (k + 1) + 1 /\ k + 1 + i - 1 = k + i
      BY <1>1
    <2>2. t[i] = b[k + i]
      BY <1>3, <1>4, <2>1, Zenon
    <2>. QED
      BY <1>1, <2>2 DEF Holds
  <1>7. t = s
    BY <1>1, <1>5, <1>6, SeqEqual
  <1>. QED
    BY <1>4, <1>7, Zenon DEF IsBetween

\* The digits an octet stands for.
DigitsIn(octet) == IF octet \div 16 = 15 THEN <<octet % 16>> ELSE <<octet % 16, octet \div 16>>

\* One digit, with the pad, and two.
LEMMA DigitsBack ==
  ASSUME NEW a \in 0 .. 9, NEW b \in 0 .. 9
  PROVE  DigitsIn(a + 16 * b) = <<a, b>> /\ DigitsIn(a + 16 * 15) = <<a>>
  <1>1. (a + 16 * b) \div 16 = b /\ (a + 16 * b) % 16 = a /\ b # 15
    OBVIOUS
  <1>2. (a + 16 * 15) \div 16 = 15 /\ (a + 16 * 15) % 16 = a
    OBVIOUS
  <1>. QED
    BY <1>1, <1>2, Zenon DEF DigitsIn

\* The first k digits, or all.
FirstDigits(digits, k) == SubSeq(digits, 1, IF k <= Len(digits) THEN k ELSE Len(digits))

\* Two more digits, or the last one.
LEMMA NextDigits ==
  ASSUME NEW digits \in Seq(0 .. 9), NEW i \in Nat \ {0}, i <= CeilDiv(Len(digits), 2), NEW two,
         two = DigitsIn(digits[2 * i - 1] + 16 * (IF 2 * i <= Len(digits) THEN digits[2 * i] ELSE 15))
  PROVE  /\ FirstDigits(digits, 2 * i) = FirstDigits(digits, 2 * (i - 1)) \o two
         /\ two \in Seq(0 .. 9)
  <1>1. PICK n \in Nat : n = Len(digits)
    OBVIOUS
  <1>2. 2 * i <= n + 1 /\ 2 * (i - 1) <= n /\ 2 * i - 1 \in 1 .. n
    BY <1>1 DEF CeilDiv
  <1>3. PICK s \in Seq(0 .. 9), k \in Nat :
          k = 2 * (i - 1) /\ s = FirstDigits(digits, k) /\ Len(s) = k /\ \A j \in 1 .. k : s[j] = digits[j]
    <2>1. PICK k \in Nat : k = 2 * (i - 1) /\ k <= n
      BY <1>2
    <2>2. /\ SubSeq(digits, 1, k) \in Seq(0 .. 9) /\ Len(SubSeq(digits, 1, k)) = k
          /\ \A j \in 1 .. k : SubSeq(digits, 1, k)[j] = digits[j]
      BY <1>1, <2>1
    <2>. QED
      BY <1>1, <2>1, <2>2, Zenon DEF FirstDigits
  <1>4. PICK a \in 0 .. 9 : a = digits[2 * i - 1]
    BY <1>1, <1>2
  <1>5. CASE 2 * i <= n
    <2>1. PICK b \in 0 .. 9 : b = digits[2 * i]
      BY <1>1, <1>5
    <2>2. two = <<a, b>>
      BY <1>1, <1>4, <1>5, <2>1, DigitsBack, Zenon
    <2>3. PICK t \in Seq(0 .. 9) : t = <<a, b>> /\ Len(t) = 2 /\ t[1] = a /\ t[2] = b
      <3>1. <<a, b>> \in Seq(0 .. 9) /\ Len(<<a, b>>) = 2 /\ <<a, b>>[1] = a /\ <<a, b>>[2] = b
        OBVIOUS
      <3>. QED
        BY <3>1, Zenon
    <2>4. PICK u \in Seq(0 .. 9) : IsJoin(u, s, t)
      BY JoinOf
    <2>5. /\ Len(u) = k + 2 /\ \A j \in 1 .. k : u[j] = s[j]
          /\ \A j \in 1 .. 2 : u[k + j] = t[j]
      BY <1>3, <2>3, <2>4, Zenon DEF IsJoin
    <2>6. Holds(digits, 0, u)
      <3>1. ASSUME NEW j \in 1 .. Len(u) PROVE digits[0 + j] = u[j]
        <4>1. CASE j <= k
          BY <1>3, <2>5, <4>1
        <4>2. CASE j = k + 1
          BY <1>3, <1>4, <2>3, <2>5, <4>2
        <4>3. CASE j = k + 2
          BY <1>3, <2>1, <2>3, <2>5, <4>3
        <4>. QED
          BY <2>5, <4>1, <4>2, <4>3
      <3>2. 0 + Len(u) <= Len(digits)
        BY <1>1, <1>3, <1>5, <2>5
      <3>. QED
        BY <3>1, <3>2 DEF Holds
    <2>7. SubSeq(digits, 0 + 1, 2 * i) = u
      <3>1. 2 * i = 0 + Len(u) /\ 0 \in Nat
        BY <1>3, <2>5
      <3>. QED
        BY <2>6, <3>1, SliceOf, Zenon DEF IsBetween
    <2>8. FirstDigits(digits, 2 * i) = u
      BY <1>1, <1>5, <2>7 DEF FirstDigits
    <2>. QED
      BY <1>3, <2>2, <2>3, <2>4, <2>8, Zenon DEF IsJoin
  <1>6. CASE ~(2 * i <= n)
    <2>1. 2 * i = n + 1
      BY <1>2, <1>6
    <2>2. two = <<a>>
      BY <1>1, <1>4, <1>6, DigitsBack, Zenon
    <2>3. PICK t \in Seq(0 .. 9) : t = <<a>> /\ Len(t) = 1 /\ t[1] = a
      <3>1. <<a>> \in Seq(0 .. 9) /\ Len(<<a>>) = 1 /\ <<a>>[1] = a
        OBVIOUS
      <3>. QED
        BY <3>1, Zenon
    <2>4. PICK u \in Seq(0 .. 9) : IsJoin(u, s, t)
      BY JoinOf
    <2>5. /\ Len(u) = k + 1 /\ \A j \in 1 .. k : u[j] = s[j]
          /\ \A j \in 1 .. 1 : u[k + j] = t[j]
      BY <1>3, <2>3, <2>4, Zenon DEF IsJoin
    <2>6. \A j \in 1 .. n : u[j] = digits[j]
      <3>1. ASSUME NEW j \in 1 .. n PROVE u[j] = digits[j]
        <4>1. CASE j <= k
          BY <1>3, <2>5, <4>1
        <4>2. CASE j = k + 1
          BY <1>3, <1>4, <2>3, <2>5, <4>2
        <4>. QED
          BY <1>3, <2>1, <4>1, <4>2
      <3>. QED
        BY <3>1
    <2>7. u = digits
      <3>1. Len(u) = n
        BY <1>3, <2>1, <2>5
      <3>. QED
        BY <1>1, <2>6, <3>1, SeqEqual
    <2>8. FirstDigits(digits, 2 * i) = u
      <3>1. SubSeq(digits, 1, Len(digits)) = digits
        BY SubSeqFull
      <3>. QED
        BY <1>1, <1>6, <2>7, <3>1, Zenon DEF FirstDigits
    <2>. QED
      BY <1>3, <2>2, <2>3, <2>4, <2>8, Zenon DEF IsJoin
  <1>. QED
    BY <1>5, <1>6

\* pdu_address and _decode_semi_octet: the digits of a number come back, the pad of an odd
\* one does not.
THEOREM DigitsReadBack ==
  ASSUME NEW digits \in Seq(0 .. 9)
  PROVE  Digits(SemiOctets(digits)) = digits
  <1>1. PICK m \in Nat : m = CeilDiv(Len(digits), 2)
    BY CeilDivType
  <1>. DEFINE f(i) == digits[2 * i - 1] + 16 * (IF 2 * i <= Len(digits) THEN digits[2 * i] ELSE 15)
  <1>2. PICK two : two = [i \in 1 .. m |-> DigitsIn(f(i))]
    OBVIOUS
  <1>3. Digits(SemiOctets(digits)) = FlattenSeq(two)
    <2>1. SemiOctets(digits) = [i \in 1 .. m |-> f(i)]
      BY <1>1, Zenon DEF SemiOctets
    <2>2. [i \in DOMAIN SemiOctets(digits) |-> DigitsIn(SemiOctets(digits)[i])] = two
      <3>. HIDE DEF f
      <3>. QED
        BY <1>2, <2>1
    <2>3. Digits(SemiOctets(digits))
            = FlattenSeq([i \in DOMAIN SemiOctets(digits) |-> DigitsIn(SemiOctets(digits)[i])])
      BY Zenon DEF Digits, DigitsIn
    <2>. QED
      BY <2>2, <2>3, Zenon
  <1>4. ASSUME NEW i \in 1 .. m
        PROVE  /\ FirstDigits(digits, 2 * i) = FirstDigits(digits, 2 * (i - 1)) \o two[i]
               /\ two[i] \in Seq(0 .. 9)
    <2>1. two[i] = DigitsIn(f(i))
      BY <1>2
    <2>2. i \in Nat \ {0} /\ i <= CeilDiv(Len(digits), 2)
      BY <1>1
    <2>. QED
      BY <2>1, <2>2, NextDigits
  <1>5. two \in Seq(Seq(0 .. 9)) /\ Len(two) = m
    BY <1>2, <1>4
  <1>6. FirstDigits(digits, 0) = <<>>
    <2>1. 0 <= Len(digits)
      OBVIOUS
    <2>. QED
      BY <2>1 DEF FirstDigits
  <1>7. CASE m = 0
    <2>1. two = <<>> /\ digits = <<>>
      <3>1. Len(digits) = 0
        <4>1. PICK n \in Nat : n = Len(digits)
          OBVIOUS
        <4>. QED
          BY <1>1, <1>7, <4>1 DEF CeilDiv
      <3>. QED
        BY <1>5, <1>7, <3>1
    <2>2. FlattenSeq(<<>>) = <<>>
      BY DEF FlattenSeq
    <2>. QED
      BY <1>3, <2>1, <2>2, Zenon
  <1>8. CASE m # 0
    <2>1. PICK g : PartialJoins(g, 0 .. 9, two, m)
      BY <1>5, <1>8, FlattenSteps
    <2>. DEFINE S == {i \in Nat : i \in 1 .. m => g[i] = FirstDigits(digits, 2 * i)}
    <2>2. 0 \in S
      OBVIOUS
    <2>3. ASSUME NEW i \in Nat, i \in S PROVE i + 1 \in S
      <3>. SUFFICES ASSUME i + 1 \in 1 .. m PROVE g[i + 1] = FirstDigits(digits, 2 * (i + 1))
        OBVIOUS
      <3>1. FirstDigits(digits, 2 * (i + 1)) = FirstDigits(digits, 2 * i) \o two[i + 1]
            /\ two[i + 1] \in Seq(0 .. 9)
        <4>1. (i + 1) - 1 = i
          OBVIOUS
        <4>. QED
          BY <1>4, <4>1, Zenon
      <3>2. CASE i = 0
        <4>1. g[1] = two[1]
          BY <2>1, Zenon DEF PartialJoins
        <4>2. 2 * 0 = 0 /\ 0 + 1 = 1
          OBVIOUS
        <4>3. FirstDigits(digits, 2 * (i + 1)) = <<>> \o two[1]
          BY <1>6, <3>1, <3>2, <4>2, Zenon
        <4>4. <<>> \o two[1] = two[1]
          BY <3>1, <3>2
        <4>. QED
          BY <3>2, <4>1, <4>2, <4>3, <4>4, Zenon
      <3>3. CASE i # 0
        <4>1. i \in 1 .. m /\ i + 1 # 1 /\ (i + 1) - 1 = i
          BY <3>3
        <4>2. g[i + 1] = g[i] \o two[i + 1]
          BY <2>1, <4>1, Zenon DEF PartialJoins
        <4>3. g[i] = FirstDigits(digits, 2 * i)
          BY <2>3, <4>1
        <4>. QED
          BY <3>1, <4>2, <4>3, Zenon
      <3>. QED
        BY <3>2, <3>3
    <2>4. g[m] = FirstDigits(digits, 2 * m)
      <3>1. m \in S
        <4>. HIDE DEF S
        <4>. QED
          BY <2>2, <2>3, Induction
      <3>2. m \in 1 .. m
        BY <1>8
      <3>. QED
        BY <3>1, <3>2
    <2>5. FirstDigits(digits, 2 * m) = digits
      <3>1. PICK n \in Nat : n = Len(digits)
        OBVIOUS
      <3>2. 2 * m <= n => 2 * m = n
        BY <1>1, <3>1 DEF CeilDiv
      <3>3. FirstDigits(digits, 2 * m) = SubSeq(digits, 1, n)
        BY <3>1, <3>2, Zenon DEF FirstDigits
      <3>4. SubSeq(digits, 1, Len(digits)) = digits
        BY SubSeqFull
      <3>. QED
        BY <3>1, <3>3, <3>4, Zenon
    <2>. QED
      BY <1>3, <2>1, <2>4, <2>5, Zenon DEF PartialJoins
  <1>. QED
    BY <1>7, <1>8

\* t is what follows the k-th element of s.
IsRest(t, s, k) ==
  /\ t = Drop(s, k) /\ Len(t) = Len(s) - k
  /\ \A i \in 1 .. Len(s) - k : t[i] = s[k + i]

\* There is one.
LEMMA RestBehind ==
  ASSUME NEW E, NEW s \in Seq(E), NEW k \in Nat, k <= Len(s)
  PROVE  \E t \in Seq(E) : IsRest(t, s, k)
  <1>1. PICK n \in Nat : n = Len(s)
    OBVIOUS
  <1>2. \A i \in k + 1 .. n : s[i] \in E
    BY <1>1
  <1>3. /\ SubSeq(s, k + 1, n) \in Seq(E)
        /\ Len(SubSeq(s, k + 1, n)) = IF k + 1 <= n THEN n - (k + 1) + 1 ELSE 0
        /\ \A i \in 1 .. n - (k + 1) + 1 : SubSeq(s, k + 1, n)[i] = s[k + 1 + i - 1]
    BY <1>1, <1>2, SubSeqProperties
  <1>4. (IF k + 1 <= n THEN n - (k + 1) + 1 ELSE 0) = n - k /\ n - (k + 1) + 1 = n - k
    BY <1>1
  <1>5. \A i \in 1 .. n - k : k + 1 + i - 1 = k + i
    OBVIOUS
  <1>. QED
    BY <1>1, <1>3, <1>4, <1>5, Zenon DEF Drop, IsRest

\* Dropped in two steps.
LEMMA DropTwice ==
  ASSUME NEW E, NEW s \in Seq(E), NEW k \in Nat, k + 1 <= Len(s)
  PROVE  Drop(Drop(s, k), 1) = Drop(s, k + 1)
  <1>1. PICK n \in Nat : n = Len(s) /\ k + 1 <= n
    OBVIOUS
  <1>2. PICK t \in Seq(E) : IsRest(t, s, k)
    <2>1. k <= Len(s)
      BY <1>1
    <2>. QED
      BY <2>1, RestBehind, Zenon
  <1>3. t = Drop(s, k) /\ Len(t) = n - k /\ \A i \in 1 .. n - k : t[i] = s[k + i]
    BY <1>1, <1>2, Zenon DEF IsRest
  <1>4. PICK u \in Seq(E) : IsRest(u, t, 1)
    <2>1. 1 \in Nat /\ 1 <= Len(t)
      BY <1>1, <1>3
    <2>. QED
      BY <2>1, RestBehind, Zenon
  <1>5. u = Drop(t, 1) /\ Len(u) = (n - k) - 1 /\ \A i \in 1 .. (n - k) - 1 : u[i] = t[1 + i]
    BY <1>3, <1>4, Zenon DEF IsRest
  <1>6. PICK v \in Seq(E) : IsRest(v, s, k + 1)
    <2>1. k + 1 \in Nat /\ k + 1 <= Len(s)
      BY <1>1
    <2>. QED
      BY <2>1, RestBehind, Zenon
  <1>7. v = Drop(s, k + 1) /\ Len(v) = n - (k + 1) /\ \A i \in 1 .. n - (k + 1) : v[i] = s[k + 1 + i]
    BY <1>1, <1>6, Zenon DEF IsRest
  <1>8. Len(u) = Len(v)
    BY <1>1, <1>5, <1>7
  <1>9. ASSUME NEW i \in 1 .. Len(u) PROVE u[i] = v[i]
    <2>1. i \in 1 .. (n - k) - 1 /\ 1 + i \in 1 .. n - k /\ i \in 1 .. n - (k + 1) /\ k + (1 + i) = k + 1 + i
      BY <1>1, <1>5
    <2>. QED
      BY <1>3, <1>5, <1>7, <2>1, Zenon
  <1>10. u = v
    BY <1>8, <1>9, SeqEqual
  <1>. QED
    BY <1>3, <1>5, <1>7, <1>10, Zenon

\* b is an SMS-DELIVER.
IsDeliver(b, flag, digits, dcs, scts, udl, ud) ==
  LET m == CeilDiv(Len(digits), 2) IN
  /\ b \in Seq(Byte) /\ 13 + m <= Len(b)
  /\ b[1] = flag /\ b[2] = Len(digits) /\ b[5 + m] = dcs /\ b[13 + m] = udl
  /\ SubSeq(b, 4, 3 + m) = SemiOctets(digits)
  /\ SubSeq(b, 6 + m, 12 + m) = scts
  /\ Drop(b, 13 + m) = ud

\* What the parser makes of its user data, and of the whole.
BodyOf(ud, udl, dcs, udhi) == IF dcs = 8 THEN Ucs2Body(ud, udhi) ELSE GsmBody(ud, udl, udhi)
Reading(digits, scts, body) ==
  [sender |-> digits, scts |-> scts, part |-> body.part, text |-> body.text]

\* _parse_sms_pdu_core finds the fields where they are.
LEMMA DeliverParsed ==
  ASSUME NEW b, NEW flag \in {0, 64}, NEW digits \in Seq(0 .. 9), NEW dcs \in {0, 8}, NEW scts,
         NEW udl, NEW ud, Take(ud, udl) = ud, IsDeliver(b, flag, digits, dcs, scts, udl, ud)
  PROVE  ParseCore(b) = Reading(digits, scts, BodyOf(ud, udl, dcs, flag = 64))
  <1>1. PICK m \in Nat : m = CeilDiv(Len(digits), 2)
    BY CeilDivType
  <1>2. /\ b \in Seq(Byte) /\ 13 + m <= Len(b)
        /\ b[1] = flag /\ b[2] = Len(digits) /\ b[5 + m] = dcs /\ b[13 + m] = udl
        /\ SubSeq(b, 4, 3 + m) = SemiOctets(digits)
        /\ SubSeq(b, 6 + m, 12 + m) = scts
        /\ Drop(b, 13 + m) = ud
    BY <1>1, Zenon DEF IsDeliver
  <1>3. b[1] % 4 = 0 /\ ((b[1] \div 64) % 2 = 1) = (flag = 64)
    <2>1. CASE flag = 0
      <3>1. 0 % 4 = 0 /\ (0 \div 64) % 2 = 0 /\ 0 # 64 /\ 0 # 1
        OBVIOUS
      <3>. QED
        BY <1>2, <2>1, <3>1, Zenon
    <2>2. CASE flag = 64
      <3>1. 64 % 4 = 0 /\ (64 \div 64) % 2 = 1
        OBVIOUS
      <3>. QED
        BY <1>2, <2>2, <3>1, Zenon
    <2>. QED
      BY <2>1, <2>2
  <1>. DEFINE type == b[1] % 4
              at == 2 + type
              pid == at + 2 + CeilDiv(b[at], 2)
              udlAt == pid + 2 + (IF type = 0 THEN 7 ELSE IF (b[1] \div 16) % 2 = 1 THEN 1 ELSE 0)
              data == Take(Drop(b, udlAt), b[udlAt])
              udhi == (b[1] \div 64) % 2 = 1
              body == CASE b[pid + 1] % 16 = 8 -> Ucs2Body(data, udhi)
                        [] b[pid + 1] % 16 = 0 -> GsmBody(data, b[udlAt], udhi)
                        [] OTHER -> [part |-> NoHeader, text |-> <<>>]
  <1>4. type = 0 /\ at = 2
    BY <1>3
  <1>5. b[at] = Len(digits)
    BY <1>2, <1>4
  <1>6. pid = 4 + m
    BY <1>1, <1>4, <1>5
  <1>7. udlAt = 13 + m
    BY <1>4, <1>6
  <1>8. /\ pid + 1 = 5 + m /\ pid + 2 = 6 + m /\ pid + 8 = 12 + m /\ at + 2 = 4 /\ pid - 1 = 3 + m
    BY <1>4, <1>6
  <1>9. ParseCore(b) =
          IF Len(b) < 5 \/ type > 1 THEN Malformed
          ELSE IF udlAt > Len(b) THEN Malformed
          ELSE [sender |-> Digits(SubSeq(b, at + 2, pid - 1)),
                scts |-> IF type = 0 THEN SubSeq(b, pid + 2, pid + 8) ELSE <<>>,
                part |-> body.part, text |-> body.text]
    BY Zenon DEF ParseCore
  <1>10. body = BodyOf(ud, udl, dcs, flag = 64)
    <2>1. data = ud /\ b[udlAt] = udl
      BY <1>2, <1>7, Zenon
    <2>2. b[pid + 1] = dcs
      BY <1>2, <1>8, Zenon
    <2>3. udhi = (flag = 64)
      BY <1>3, Zenon
    <2>4. CASE dcs = 8
      <3>1. b[pid + 1] % 16 = 8 /\ b[pid + 1] % 16 # 0
        BY <2>2, <2>4
      <3>2. BodyOf(ud, udl, dcs, flag = 64) = Ucs2Body(ud, flag = 64)
        BY <2>4, Zenon DEF BodyOf
      <3>3. body = Ucs2Body(data, udhi)
        <4>. HIDE DEF pid, udlAt, data, udhi
        <4>. QED
          BY <3>1
      <3>4. Ucs2Body(data, udhi) = Ucs2Body(ud, flag = 64)
        BY <2>1, <2>3, Zenon
      <3>. QED
        BY <3>2, <3>3, <3>4, Zenon
    <2>5. CASE dcs = 0
      <3>1. b[pid + 1] % 16 = 0 /\ b[pid + 1] % 16 # 8 /\ dcs # 8
        BY <2>2, <2>5
      <3>. HIDE DEF pid, udlAt
      <3>. QED
        BY <2>1, <2>3, <2>5, <3>1, Zenon DEF BodyOf
    <2>. QED
      BY <2>4, <2>5
  <1>11. ~(Len(b) < 5 \/ type > 1) /\ ~(udlAt > Len(b))
    <2>1. Len(b) \in Nat
      BY <1>2, LenProperties
    <2>. QED
      BY <1>2, <1>4, <1>7, <2>1
  <1>12. Digits(SubSeq(b, at + 2, pid - 1)) = digits
    BY <1>2, <1>8, DigitsReadBack, Zenon
  <1>13. (IF type = 0 THEN SubSeq(b, pid + 2, pid + 8) ELSE <<>>) = scts
    BY <1>2, <1>4, <1>8, Zenon
  <1>. HIDE DEF type, at, pid, udlAt, body
  <1>. QED
    BY <1>9, <1>10, <1>11, <1>12, <1>13, Zenon DEF Reading

\* s has these three elements.
IsTriple(s, a, b, c) == s = <<a, b, c>> /\ Len(s) = 3 /\ s[1] = a /\ s[2] = b /\ s[3] = c

\* Three numbers in a sequence.
LEMMA TripleOf ==
  ASSUME NEW E, NEW a \in E, NEW b \in E, NEW c \in E
  PROVE  \E s \in Seq(E) : IsTriple(s, a, b, c)
  <1>1. <<a, b, c>> \in Seq(E) /\ Len(<<a, b, c>>) = 3
        /\ <<a, b, c>>[1] = a /\ <<a, b, c>>[2] = b /\ <<a, b, c>>[3] = c
    OBVIOUS
  <1>. QED
    BY <1>1, Zenon DEF IsTriple

\* They are a slice of what holds them.
LEMMA TripleIn ==
  ASSUME NEW E, NEW h \in Seq(E), NEW k \in Nat, k + 3 <= Len(h),
         NEW a \in E, NEW b \in E, NEW c \in E, h[k + 1] = a, h[k + 2] = b, h[k + 3] = c
  PROVE  IsTriple(SubSeq(h, k + 1, k + 3), a, b, c)
  <1>1. PICK s \in Seq(E) : IsTriple(s, a, b, c)
    BY TripleOf, Zenon
  <1>2. s = <<a, b, c>> /\ Len(s) = 3 /\ s[1] = a /\ s[2] = b /\ s[3] = c
    BY <1>1, Zenon DEF IsTriple
  <1>3. ASSUME NEW i \in 1 .. 3 PROVE h[k + i] = s[i]
    <2>1. i = 1 \/ i = 2 \/ i = 3
      OBVIOUS
    <2>. QED
      BY <1>2, <2>1, Zenon
  <1>4. Holds(h, k, s)
    BY <1>2, <1>3, Zenon DEF Holds
  <1>5. k + 3 = k + Len(s)
    BY <1>2
  <1>6. SubSeq(h, k + 1, k + 3) = s
    BY <1>4, <1>5, SliceOf, Zenon DEF IsBetween
  <1>. QED
    BY <1>1, <1>6, Zenon

\* The first six octets.
LEMMA TakeSix ==
  ASSUME NEW E, NEW ud \in Seq(E), NEW h \in Seq(E), Len(h) = 6, Len(ud) >= 6,
         \A j \in 1 .. 6 : ud[j] = h[j]
  PROVE  Take(ud, 6) = h
  <1>1. PICK n \in Nat : n = Len(ud) /\ 6 <= n
    <2>1. Len(ud) \in Nat
      OBVIOUS
    <2>. QED
      BY <2>1
  <1>2. Holds(ud, 0, h)
    <2>1. 0 + Len(h) <= Len(ud) /\ \A j \in 1 .. Len(h) : ud[0 + j] = h[j]
      BY <1>1
    <2>. QED
      BY <2>1, Zenon DEF Holds
  <1>3. SubSeq(ud, 0 + 1, 6) = h
    <2>1. 6 = 0 + Len(h) /\ 0 \in Nat
      OBVIOUS
    <2>. QED
      BY <1>2, <2>1, SliceOf, Zenon DEF IsBetween
  <1>4. 0 + 1 = 1 /\ (IF 6 < n THEN 6 ELSE n) = 6
    BY <1>1
  <1>. QED
    BY <1>1, <1>3, <1>4, Zenon DEF Take

\* h is the header of a segment.
IsHeader(h, x, total, seq) ==
  /\ Len(h) = 6 /\ h[1] = 5 /\ h[2] = 0 /\ h[3] = 3
  /\ h[4] = x /\ h[5] = total /\ h[6] = seq

\* _parse_pdu_udh takes it for what it is ...
LEMMA HeaderRead ==
  ASSUME NEW h \in Seq(Nat), NEW x \in Nat, NEW total \in Nat, NEW seq \in Nat,
         IsHeader(h, x, total, seq)
  PROVE  ParseUdh(h) = <<x, total, seq>> /\ ParseUdh(h) # NoHeader /\ Take(h, 6) = h
  <1>1. Len(h) = 6 /\ h[1] = 5 /\ h[2] = 0 /\ h[3] = 3 /\ h[4] = x /\ h[5] = total /\ h[6] = seq
    BY Zenon DEF IsHeader
  <1>2. Take(h, 3) = SubSeq(h, 1, 3)
    BY <1>1 DEF Take
  <1>3. SubSeq(h, 1, 3) = <<5, 0, 3>>
    <2>1. PICK k \in Nat, a \in Nat, b \in Nat, c \in Nat :
            /\ k = 0 /\ a = 5 /\ b = 0 /\ c = 3
            /\ k + 3 <= Len(h) /\ h[k + 1] = a /\ h[k + 2] = b /\ h[k + 3] = c
      BY <1>1
    <2>2. IsTriple(SubSeq(h, k + 1, k + 3), a, b, c)
      BY <2>1, TripleIn, Zenon
    <2>. QED
      BY <2>1, <2>2 DEF IsTriple
  <1>4. SubSeq(h, 4, 6) = <<x, total, seq>>
    <2>1. PICK k \in Nat, a \in Nat, b \in Nat, c \in Nat :
            /\ k = 3 /\ a = x /\ b = total /\ c = seq
            /\ k + 3 <= Len(h) /\ h[k + 1] = a /\ h[k + 2] = b /\ h[k + 3] = c
      BY <1>1
    <2>2. IsTriple(SubSeq(h, k + 1, k + 3), a, b, c)
      BY <2>1, TripleIn, Zenon
    <2>. QED
      BY <2>1, <2>2 DEF IsTriple
  <1>5. <<x, total, seq>> # <<>>
    OBVIOUS
  <1>6. Take(h, 6) = h
    <2>1. SubSeq(h, 1, Len(h)) = h
      BY SubSeqFull
    <2>2. ~(6 < 6)
      OBVIOUS
    <2>. QED
      BY <1>1, <2>1, <2>2, Zenon DEF Take
  <1>7. Len(h) >= 6
    BY <1>1
  <1>. QED
    BY <1>2, <1>3, <1>4, <1>5, <1>6, <1>7, Zenon DEF ParseUdh, NoHeader

\* ... and what has another second octet for none.
LEMMA NoneRead ==
  ASSUME NEW h \in Seq(Nat), Len(h) = 6, h[2] # 0
  PROVE  ParseUdh(h) = NoHeader
  <1>1. Take(h, 3) = SubSeq(h, 1, 3) /\ SubSeq(h, 1, 3)[2] = h[2]
    BY DEF Take
  <1>2. <<5, 0, 3>>[2] = 0
    OBVIOUS
  <1>3. Take(h, 3) # <<5, 0, 3>>
    BY <1>1, <1>2, Zenon
  <1>. QED
    BY <1>3, Zenon DEF ParseUdh

\* Octets and septets are numbers.
LEMMA NumberSequences == Seq(Byte) \subseteq Seq(Nat) /\ Seq(Septet) \subseteq Seq(Nat)
  <1>1. Byte \subseteq Nat /\ Septet \subseteq Nat
    BY DEF Byte, Septet
  <1>. QED
    BY <1>1, SeqMonotonic

\* What a segment with a header, or a whole message, says.
Read(part, text) == [part |-> part, text |-> text]
IsSegment(body, x, total, seq, text) == body = Read(<<x, total, seq>>, text)

\* A text of GSM-7 by itself.
LEMMA GsmWhole ==
  ASSUME NEW text \in Seq(GsmText), NEW s \in Seq(Septet), s = Gsm7Septets(text)
  PROVE  GsmBody(Pack(NoHeader, s), Len(s), FALSE) = Read(NoHeader, text)
  <1>1. PICK n \in Nat, h \in Seq(Byte) : n = Len(s) /\ h = NoHeader /\ Len(h) = 0 /\ h = <<>>
    <2>1. <<>> \in Seq(Byte) /\ Len(<<>>) = 0 /\ Len(s) \in Nat
      OBVIOUS
    <2>. QED
      BY <2>1, Zenon DEF NoHeader
  <1>2. n = HeaderSeptets(Len(h)) + Len(s)
    BY <1>1 DEF HeaderSeptets
  <1>3. Unpack(Pack(h, s), n) = s
    BY <1>1, <1>2, TextKept, Zenon
  <1>4. Gsm7Decode(s) = text
    BY Gsm7IsDecoded, Zenon
  <1>. QED
    BY <1>1, <1>3, <1>4, Zenon DEF GsmBody, Read

\* One behind its header.
LEMMA GsmSegment ==
  ASSUME NEW text \in Seq(GsmText), NEW s \in Seq(Septet), s = Gsm7Septets(text),
         NEW h \in Seq(Byte), NEW x \in Nat, NEW total \in Nat, NEW seq \in Nat,
         IsHeader(h, x, total, seq)
  PROVE  IsSegment(GsmBody(Pack(h, s), HeaderSeptets(6) + Len(s), TRUE), x, total, seq, text)
  <1>1. PICK n \in Nat : n = HeaderSeptets(Len(h)) + Len(s) /\ n = HeaderSeptets(6) + Len(s)
    <2>1. Len(h) = 6
      BY Zenon DEF IsHeader
    <2>2. HeaderSeptets(6) = 7 /\ Len(s) \in Nat
      BY DEF HeaderSeptets
    <2>3. HeaderSeptets(6) + Len(s) \in Nat
      BY <2>2
    <2>. QED
      BY <2>1, <2>3, Zenon
  <1>2. PICK ud \in Seq(Byte) : ud = Pack(h, s)
    <2>1. s \in Seq(Nat)
      BY NumberSequences
    <2>. QED
      BY <2>1, PackType, Zenon
  <1>3. Len(h) = 6 /\ h[1] = 5
    BY Zenon DEF IsHeader
  <1>4. Len(ud) >= 6 /\ \A j \in 1 .. 6 : ud[j] = h[j]
    BY <1>2, <1>3, HeaderKept, Zenon
  <1>5. Take(ud, 6) = h
    BY <1>3, <1>4, TakeSix, Zenon
  <1>6. ud[1] + 1 = 6 /\ ud # <<>> /\ 6 <= Len(ud)
    BY <1>3, <1>4
  <1>7. ParseUdh(h) = <<x, total, seq>> /\ ParseUdh(h) # NoHeader
    <2>1. h \in Seq(Nat)
      BY NumberSequences
    <2>. QED
      BY <2>1, HeaderRead, Zenon
  <1>8. Drop(Unpack(ud, n), HeaderSeptets(6)) = s
    <2>1. Drop(Unpack(Pack(h, s), n), HeaderSeptets(Len(h))) = s
      BY <1>1, TextKept, Zenon
    <2>. QED
      BY <1>2, <1>3, <2>1, Zenon
  <1>9. Gsm7Decode(s) = text
    BY Gsm7IsDecoded, Zenon
  <1>. QED
    BY <1>1, <1>2, <1>5, <1>6, <1>7, <1>8, <1>9, Zenon DEF GsmBody, Read, IsSegment

\* A text of UTF-16 by itself.
LEMMA Ucs2Whole ==
  ASSUME NEW text \in Seq(Characters)
  PROVE  Ucs2Body(Utf16Octets(text), FALSE) = Read(NoHeader, text)
  BY Utf16IsDecoded, Zenon DEF Ucs2Body, Read

\* Behind its header.
LEMMA Ucs2Segment ==
  ASSUME NEW text \in Seq(Characters), NEW h \in Seq(Byte),
         NEW x \in Nat, NEW total \in Nat, NEW seq \in Nat, IsHeader(h, x, total, seq)
  PROVE  IsSegment(Ucs2Body(h \o Utf16Octets(text), TRUE), x, total, seq, text)
  <1>1. PICK o \in Seq(Byte) : o = Utf16Octets(text)
    BY Ucs2Type, Zenon
  <1>2. PICK ud \in Seq(Byte) : IsJoin(ud, h, o)
    BY JoinOf
  <1>3. Len(h) = 6
    BY Zenon DEF IsHeader
  <1>4. ud = h \o o /\ Len(ud) = 6 + Len(o) /\ (\A j \in 1 .. 6 : ud[j] = h[j]) /\ Drop(ud, 6) = o
    BY <1>2, <1>3, Zenon DEF IsJoin
  <1>5. Len(ud) >= 6
    BY <1>4
  <1>6. Take(ud, 6) = h
    BY <1>3, <1>4, <1>5, TakeSix, Zenon
  <1>7. ParseUdh(h) = <<x, total, seq>>
    <2>1. h \in Seq(Nat)
      BY NumberSequences
    <2>. QED
      BY <2>1, HeaderRead, Zenon
  <1>8. Utf16Decode(o) = text
    BY <1>1, Utf16IsDecoded, Zenon
  <1>. QED
    BY <1>1, <1>4, <1>5, <1>6, <1>7, <1>8, Zenon DEF Ucs2Body, Read, IsSegment

\* pack_septets, without a header.
LEMMA PackedPlain ==
  ASSUME NEW s \in Seq(Septet)
  PROVE  /\ Pack(NoHeader, s) = Regroup(s, 7, 8, CeilDiv(7 * Len(s), 8))
         /\ Unpack(Pack(NoHeader, s), Len(s)) = s
  <1>1. HeaderSeptets(Len(NoHeader)) = 0 /\ NoHeader \in Seq(Byte) /\ 0 \in Nat
    BY DEF HeaderSeptets, NoHeader
  <1>2. PICK u \in Seq(Septet) : u = Unpack(NoHeader, 0) /\ Len(u) = 0
    BY <1>1, UnpackType, Zenon
  <1>3. u = <<>>
    BY <1>2
  <1>4. u \o s = s
    BY <1>3, Joining
  <1>5. Pack(NoHeader, s) = Regroup(s, 7, 8, CeilDiv(7 * Len(s), 8))
    BY <1>1, <1>2, <1>4, Zenon DEF Pack
  <1>6. Unpack(Regroup(s, 7, 8, CeilDiv(7 * Len(s), 8)), Len(s)) = s
    BY PackedIsUnpacked, Zenon
  <1>. QED
    BY <1>5, <1>6, Zenon

\* The first six septets are read from the first six octets.
LEMMA SixSeptets ==
  ASSUME NEW ud \in Seq(Byte), NEW v \in Seq(Byte), Len(ud) >= 6, Len(v) = 6,
         \A j \in 1 .. 6 : v[j] = ud[j], NEW n \in Nat, n >= 6, NEW k \in 1 .. 6
  PROVE  Unpack(v, 6)[k] = Unpack(ud, n)[k]
  <1>1. \A j \in 1 .. 6 : ValueAt(v, j) = ValueAt(ud, j)
    <2>. TAKE j \in 1 .. 6
    <2>1. j <= Len(v) /\ j <= Len(ud)
      OBVIOUS
    <2>. QED
      BY <2>1, Zenon DEF ValueAt
  <1>2. PICK f \in 0 .. 7 : k = 8 * 0 + f + 1 /\ f \in 0 .. 5
    <2>1. k - 1 \in 0 .. 5 /\ k = 8 * 0 + (k - 1) + 1
      OBVIOUS
    <2>. QED
      BY <2>1
  <1>3. k \in 1 .. n /\ 6 \in Nat /\ 0 \in Nat
    OBVIOUS
  <1>4. UnpackedAt(Unpack(v, 6)[k], v, 0, f)
    BY <1>2, <1>3, SeptetAt, Zenon
  <1>5. UnpackedAt(Unpack(ud, n)[k], ud, 0, f)
    BY <1>2, <1>3, SeptetAt, Zenon
  <1>6. CASE f = 0
    <2>1. 7 * 0 + 1 \in 1 .. 6 /\ 7 * 0 + 2 \in 1 .. 6
      OBVIOUS
    <2>. QED
      BY <1>1, <1>4, <1>5, <1>6, <2>1, Zenon DEF UnpackedAt
  <1>7. CASE f # 0
    <2>1. 7 * 0 + f \in 1 .. 6 /\ 7 * 0 + f + 1 \in 1 .. 6
      BY <1>2, <1>7
    <2>. QED
      BY <1>1, <1>4, <1>5, <1>7, <2>1, Zenon DEF UnpackedAt
  <1>. QED
    BY <1>6, <1>7

\* v is the first six elements of s.
IsSix(v, s) == v = Take(s, 6) /\ Len(v) = 6 /\ \A j \in 1 .. 6 : v[j] = s[j]

\* There are six.
LEMMA SixOf ==
  ASSUME NEW E, NEW s \in Seq(E), Len(s) >= 6
  PROVE  \E v \in Seq(E) : IsSix(v, s)
  <1>1. PICK k \in Nat : k = Len(s) /\ 6 <= k
    OBVIOUS
  <1>2. /\ SubSeq(s, 1, 6) \in Seq(E) /\ Len(SubSeq(s, 1, 6)) = 6
        /\ \A j \in 1 .. 6 : SubSeq(s, 1, 6)[j] = s[j]
    BY <1>1
  <1>3. (IF 6 < k THEN 6 ELSE k) = 6
    BY <1>1
  <1>. QED
    BY <1>1, <1>2, <1>3, Zenon DEF Take, IsSix

\* A header in the stream of septets does not look like one in octets.
LEMMA StreamOctets ==
  ASSUME NEW s \in Seq(Septet), NEW ud \in Seq(Byte), ud = Pack(NoHeader, s),
         Len(s) >= 6, s[1] = 5, s[2] = 0, s[3] = 3
  PROVE  Len(ud) >= 6 /\ ud[1] = 5 /\ ud[2] # 0
  <1>1. ud = Regroup(s, 7, 8, CeilDiv(7 * Len(s), 8))
    BY PackedPlain, Zenon
  <1>2. PICK n \in Nat : n = Len(s) /\ n >= 6
    OBVIOUS
  <1>3. Len(ud) >= 6
    <2>1. CeilDiv(7 * n, 8) \in Nat /\ CeilDiv(7 * n, 8) >= 6
      BY <1>2 DEF CeilDiv
    <2>2. s \in Seq(Nat)
      BY NumberSequences
    <2>3. Len(ud) = CeilDiv(7 * n, 8)
      BY <1>1, <1>2, <2>1, <2>2, RepackType, Zenon
    <2>. QED
      BY <2>1, <2>3, Zenon
  <1>4. ValueAt(s, 1) = 5 /\ ValueAt(s, 2) = 0 /\ ValueAt(s, 3) = 3
    <2>1. 1 <= Len(s) /\ 2 <= Len(s) /\ 3 <= Len(s)
      BY <1>2
    <2>. QED
      BY <2>1, Zenon DEF ValueAt
  <1>5. ValueAt(ud, 1) = ud[1] /\ ValueAt(ud, 2) = ud[2]
    <2>1. 1 <= Len(ud) /\ 2 <= Len(ud)
      BY <1>3
    <2>. QED
      BY <2>1, Zenon DEF ValueAt
  <1>6. PackedAt(ud, s, 0, 0) /\ PackedAt(ud, s, 0, 1)
    <2>1. 0 \in Nat /\ 0 \in 0 .. 6 /\ 1 \in 0 .. 6
      OBVIOUS
    <2>. QED
      BY <1>1, <2>1, OctetAt, Zenon
  <1>7. 2 ^ 0 = 1 /\ 2 ^ 1 = 2
    OBVIOUS
  <1>8. ud[1] = 5
    BY <1>4, <1>5, <1>6, <1>7 DEF PackedAt
  <1>9. ud[2] # 0
    BY <1>4, <1>5, <1>6, <1>7 DEF PackedAt
  <1>. QED
    BY <1>3, <1>8, <1>9

\* _parse_sms_pdu_core, its branch for those: a text behind a header that older builds packed with it.
LEMMA OldSegment ==
  ASSUME NEW text \in Seq(GsmText), NEW t \in Seq(Septet), t = Gsm7Septets(text),
         NEW h \in Seq(Septet), NEW x \in Nat, NEW total \in Nat, NEW seq \in Nat,
         IsHeader(h, x, total, seq), NEW s \in Seq(Septet), IsJoin(s, h, t)
  PROVE  IsSegment(GsmBody(Pack(NoHeader, s), Len(s), TRUE), x, total, seq, text)
  <1>1. Len(h) = 6 /\ h[1] = 5 /\ h[2] = 0 /\ h[3] = 3
    BY Zenon DEF IsHeader
  <1>2. /\ Len(s) = 6 + Len(t) /\ (\A i \in 1 .. 6 : s[i] = h[i]) /\ Drop(s, 6) = t
    BY <1>1, Zenon DEF IsJoin
  <1>3. PICK n \in Nat : n = Len(s) /\ n >= 6
    <2>1. Len(t) \in Nat /\ Len(s) \in Nat
      OBVIOUS
    <2>. QED
      BY <1>2, <2>1
  <1>4. PICK ud \in Seq(Byte) : ud = Pack(NoHeader, s)
    <2>1. s \in Seq(Nat) /\ NoHeader \in Seq(Byte)
      BY NumberSequences DEF NoHeader
    <2>. QED
      BY <2>1, PackType, Zenon
  <1>5. Len(ud) >= 6 /\ ud[1] = 5 /\ ud[2] # 0
    <2>1. s[1] = 5 /\ s[2] = 0 /\ s[3] = 3 /\ Len(s) >= 6
      BY <1>1, <1>2, <1>3
    <2>. QED
      BY <1>4, <2>1, StreamOctets
  <1>6. PICK v \in Seq(Byte) : v = Take(ud, 6) /\ Len(v) = 6 /\ \A j \in 1 .. 6 : v[j] = ud[j]
    <2>1. PICK v \in Seq(Byte) : IsSix(v, ud)
      BY <1>5, SixOf, Zenon
    <2>. QED
      BY <2>1, Zenon DEF IsSix
  <1>7. ParseUdh(v) = NoHeader
    <2>1. v[2] # 0
      <3>1. 2 \in 1 .. 6
        OBVIOUS
      <3>. QED
        BY <1>5, <1>6, <3>1, Zenon
    <2>2. v \in Seq(Nat)
      BY NumberSequences
    <2>. QED
      BY <1>6, <2>1, <2>2, NoneRead, Zenon
  <1>8. Unpack(ud, n) = s
    BY <1>3, <1>4, PackedPlain, Zenon
  <1>9. Unpack(v, 6) = h
    <2>1. PICK u \in Seq(Septet) : u = Unpack(v, 6) /\ Len(u) = 6
      <3>1. 6 \in Nat
        OBVIOUS
      <3>. QED
        BY <3>1, UnpackType, Zenon
    <2>2. ASSUME NEW k \in 1 .. 6 PROVE u[k] = h[k]
      <3>1. Unpack(v, 6)[k] = Unpack(ud, n)[k]
        BY <1>3, <1>5, <1>6, SixSeptets, Zenon
      <3>. QED
        BY <1>2, <1>8, <2>1, <3>1, Zenon
    <2>3. u = h
      BY <1>1, <2>1, <2>2, SeqEqual
    <2>. QED
      BY <2>1, <2>3
  <1>10. ParseUdh(Take(h, 6)) = <<x, total, seq>> /\ ParseUdh(Take(h, 6)) # NoHeader
    <2>1. h \in Seq(Nat)
      BY NumberSequences
    <2>. QED
      BY <2>1, HeaderRead, Zenon
  <1>11. ud[1] + 1 = 6 /\ ud # <<>> /\ 6 <= Len(ud)
    BY <1>5
  <1>12. Gsm7Decode(t) = text
    BY Gsm7IsDecoded, Zenon
  <1>. QED
    BY <1>2, <1>3, <1>4, <1>6, <1>7, <1>8, <1>9, <1>10, <1>11, <1>12, Zenon DEF GsmBody, Read, IsSegment
===============================================================================
