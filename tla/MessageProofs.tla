--------------------------- MODULE MessageProofs ----------------------------
(***************************************************************************)
(* What Encode writes Decode reads, for messages of any size, and what the *)
(* setters and getters make of the header of a request and of the responses *)
(* to it.                                                                  *)
(***************************************************************************)
EXTENDS ExchangeInv, FiniteSetTheorems, WellFoundedInduction, TLAPS

-----------------------------------------------------------------------------
(* Induction, and what Flatten computes. *)

\* A nonempty set of natural numbers has a least element.
LEMMA LeastElement ==
  ASSUME NEW T, T \subseteq Nat, T # {}
  PROVE  \E x \in T : \A y \in T : x <= y
<1>1. PICK x \in T : \A y \in T : ~(<<y, x>> \in OpToRel(<, Nat))
  BY NatLessThanWellFounded, WFMin, Zenon
<1>2. ASSUME NEW y \in T PROVE x <= y
  <2>1. x \in Nat /\ y \in Nat
    OBVIOUS
  <2>2. y < x => <<y, x>> \in OpToRel(<, Nat)
    BY <2>1 DEF OpToRel
  <2>3. ~(y < x)
    BY <1>1, <2>2, Zenon
  <2> QED BY <2>1, <2>3
<1> QED BY <1>2

\* Induction up to m, for a set instead of a predicate.
LEMMA SetInduction ==
  ASSUME NEW m \in Nat, NEW T, 0 \in T,
         \A n \in 0 .. m - 1 : n \in T => n + 1 \in T
  PROVE  \A n \in 0 .. m : n \in T
<1> DEFINE Bad == {n \in 0 .. m : n \notin T}
<1>1. SUFFICES ASSUME Bad # {} PROVE FALSE
  OBVIOUS
<1>2. PICK x \in Bad : \A y \in Bad : x <= y
  <2>1. Bad \subseteq Nat
    OBVIOUS
  <2> QED BY <1>1, <2>1, LeastElement, Zenon
<1>3. x \in 1 .. m /\ x - 1 \in 0 .. m - 1 /\ ~(x <= x - 1)
  OBVIOUS
<1>4. x - 1 \in T
  BY <1>2, <1>3
<1>5. (x - 1) + 1 \in T
  BY <1>3, <1>4
<1> QED BY <1>3, <1>5

\* g[n] is the concatenation of the first n texts of q.
Flattens(q, g) ==
    /\ g \in [0 .. Len(q) -> Texts]
    /\ g[0] = <<>>
    /\ \A n \in 1 .. Len(q) : g[n] = g[n - 1] \o q[n]

\* Flatten is the last of these concatenations.
LEMMA FlattenExists ==
  ASSUME NEW q \in Seq(Texts)
  PROVE  \E g : Flattens(q, g) /\ Flatten(q) = g[Len(q)]
<1>0. Len(q) \in Nat /\ \A n \in 1 .. Len(q) : q[n] \in Texts
  OBVIOUS
<1> DEFINE Good(f, m) == f = [n \in 0 .. m |-> IF n = 0 THEN <<>>
                                               ELSE f[n - 1] \o q[n]]
           Fine == {m \in 0 .. Len(q) : \E f : Good(f, m)}
<1>1. \A n \in 0 .. Len(q) : n \in Fine
  <2>1. 0 \in Fine
    <3>1. Good([n \in 0 .. 0 |-> <<>>], 0) /\ 0 \in 0 .. Len(q)
      OBVIOUS
    <3>2. \E f : Good(f, 0)
      BY <3>1, Zenon
    <3> HIDE DEF Good
    <3> QED BY <3>1, <3>2
  <2>2. ASSUME NEW m \in 0 .. Len(q) - 1, m \in Fine PROVE m + 1 \in Fine
    <3>1. PICK f : Good(f, m)
      BY <2>2, Zenon
    <3> DEFINE h == [n \in 0 .. m + 1 |-> IF n = m + 1 THEN f[m] \o q[n] ELSE f[n]]
    <3>2. ASSUME NEW n \in 0 .. m + 1
          PROVE  h[n] = IF n = 0 THEN <<>> ELSE h[n - 1] \o q[n]
      <4>1. CASE n = m + 1
        <5>1. h[n] = f[m] \o q[n]
          BY <4>1, Zenon
        <5>2. h[m] = f[m]
          BY <4>1
        <5> HIDE DEF h
        <5>3. n # 0 /\ n - 1 = m
          BY <4>1
        <5> QED BY <5>1, <5>2, <5>3, Zenon
      <4>2. CASE n # m + 1
        <5>1. n \in 0 .. m /\ h[n] = f[n] /\ (n # 0 => h[n - 1] = f[n - 1])
          BY <1>0, <4>2
        <5>2. f[n] = IF n = 0 THEN <<>> ELSE f[n - 1] \o q[n]
          BY <3>1, <5>1, Zenon
        <5> QED BY <5>1, <5>2
      <4> QED BY <4>1, <4>2
    <3>3. Good(h, m + 1)
      BY <3>2, Zenon
    <3>4. m + 1 \in 0 .. Len(q)
      BY <1>0
    <3> QED BY <3>3, <3>4, Zenon
  <2> HIDE DEF Fine
  <2> QED BY <1>0, <2>1, <2>2, SetInduction, Zenon
<1>2. \E f : Good(f, Len(q))
  <2>1. Len(q) \in 0 .. Len(q)
    BY <1>0
  <2> QED BY <1>1, <2>1, Zenon
<1> DEFINE g == CHOOSE f : Good(f, Len(q))
<1>3. Good(g, Len(q))
  BY <1>2, Zenon
<1>4. Flatten(q) = g[Len(q)]
  BY Zenon DEF Flatten
<1> HIDE DEF g
<1>5. ASSUME NEW n \in 0 .. Len(q)
      PROVE  g[n] = IF n = 0 THEN <<>> ELSE g[n - 1] \o q[n]
  BY <1>3, Zenon
<1>6. g[0] = <<>>
  BY <1>0, <1>5
<1>7. ASSUME NEW n \in 1 .. Len(q) PROVE g[n] = g[n - 1] \o q[n]
  <2>1. n \in 0 .. Len(q) /\ n # 0
    OBVIOUS
  <2> QED BY <1>5, <2>1, Zenon
<1> DEFINE Typed == {n \in 0 .. Len(q) : g[n] \in Texts}
<1>8. \A n \in 0 .. Len(q) : n \in Typed
  <2>1. 0 \in Typed
    <3>1. <<>> \in Texts
      BY DEF Texts
    <3> QED BY <1>0, <1>6, <3>1
  <2>2. ASSUME NEW n \in 0 .. Len(q) - 1, n \in Typed PROVE n + 1 \in Typed
    <3>1. n + 1 \in 1 .. Len(q) /\ n + 1 \in 0 .. Len(q) /\ (n + 1) - 1 = n
      BY <1>0
    <3>2. g[n] \in Texts /\ q[n + 1] \in Texts /\ g[n + 1] = g[n] \o q[n + 1]
      BY <1>0, <1>7, <2>2, <3>1, Zenon
    <3>3. g[n + 1] \in Texts
      BY <3>2 DEF Texts
    <3> QED BY <3>1, <3>3
  <2> HIDE DEF Typed
  <2> QED BY <1>0, <2>1, <2>2, SetInduction, Zenon
<1>9. g \in [0 .. Len(q) -> Texts]
  <2>1. g = [n \in 0 .. Len(q) |-> g[n]]
    BY <1>3, <1>5, Zenon
  <2>2. \A n \in 0 .. Len(q) : g[n] \in Texts
    BY <1>8
  <2> QED BY <2>1, <2>2, Zenon
<1>10. Flattens(q, g)
  BY <1>6, <1>7, <1>9, Zenon DEF Flattens
<1> QED BY <1>4, <1>10, Zenon

\* Concatenation of texts.
LEMMA TextFacts ==
  /\ <<>> \in Texts
  /\ \A s \in Texts : s \o <<>> = s /\ <<>> \o s = s
  /\ \A s, t \in Texts : s \o t \in Texts /\ Len(s \o t) = Len(s) + Len(t)
  /\ \A s, t, u \in Texts : (s \o t) \o u = s \o (t \o u)
BY SMT DEF Texts

\* The concatenations grow by one text at a time.
LEMMA FlattenStep ==
  ASSUME NEW q \in Seq(Texts), NEW g, Flattens(q, g)
  PROVE  /\ g[0] = <<>>
         /\ \A n \in 0 .. Len(q) : g[n] \in Texts
         /\ \A n \in 0 .. Len(q) - 1 : g[n + 1] = g[n] \o q[n + 1]
<1>1. Len(q) \in Nat
  OBVIOUS
<1>2. ASSUME NEW n \in 0 .. Len(q) - 1 PROVE g[n + 1] = g[n] \o q[n + 1]
  <2>1. n + 1 \in 1 .. Len(q) /\ (n + 1) - 1 = n
    BY <1>1
  <2>2. g[n + 1] = g[(n + 1) - 1] \o q[n + 1]
    BY <2>1, Zenon DEF Flattens
  <2> QED BY <2>1, <2>2, Zenon
<1> QED BY <1>2 DEF Flattens

\* Two sequences that begin alike have the same concatenations that far.
LEMMA FlattenSame ==
  ASSUME NEW q \in Seq(Texts), NEW r \in Seq(Texts), NEW g, NEW h,
         Flattens(q, g), Flattens(r, h), NEW m \in Nat,
         m <= Len(q), m <= Len(r), \A n \in 1 .. m : q[n] = r[n]
  PROVE  g[m] = h[m]
<1> DEFINE Same == {n \in 0 .. m : g[n] = h[n]}
<1>1. 0 \in Same
  BY DEF Flattens
<1>2. ASSUME NEW n \in 0 .. m - 1, n \in Same PROVE n + 1 \in Same
  <2>1. n + 1 \in 1 .. m /\ n + 1 \in 0 .. m /\ (n + 1) - 1 = n
    OBVIOUS
  <2>2. g[n + 1] = g[n] \o q[n + 1] /\ h[n + 1] = h[n] \o r[n + 1]
    <3>1. n \in 0 .. Len(q) - 1 /\ n \in 0 .. Len(r) - 1
      OBVIOUS
    <3> QED BY <3>1, FlattenStep, Zenon
  <2> QED BY <1>2, <2>1, <2>2, Zenon
<1> HIDE DEF Same
<1>3. \A n \in 0 .. m : n \in Same
  BY <1>1, <1>2, SetInduction, Zenon
<1>4. m \in Same
  BY <1>3
<1> QED BY <1>4 DEF Same

\* Any such concatenations end with Flatten.
LEMMA FlattenIs ==
  ASSUME NEW q \in Seq(Texts), NEW g, Flattens(q, g)
  PROVE  Flatten(q) = g[Len(q)]
<1>1. PICK h : Flattens(q, h) /\ Flatten(q) = h[Len(q)]
  BY FlattenExists
<1>2. Len(q) \in Nat /\ Len(q) <= Len(q)
  OBVIOUS
<1>3. \A n \in 1 .. Len(q) : q[n] = q[n]
  OBVIOUS
<1>4. g[Len(q)] = h[Len(q)]
  BY <1>1, <1>2, <1>3, FlattenSame
<1> QED BY <1>1, <1>4

\* Flatten gives a text, and the empty one for no texts.
LEMMA FlattenType ==
  /\ Flatten(<<>>) = <<>>
  /\ \A q \in Seq(Texts) : Flatten(q) \in Texts
<1>1. Flatten(<<>>) = <<>>
  <2>1. <<>> \in Seq(Texts) /\ Len(<<>>) = 0
    OBVIOUS
  <2>2. PICK g : Flattens(<<>>, g) /\ Flatten(<<>>) = g[Len(<<>>)]
    BY <2>1, FlattenExists, Zenon
  <2> QED BY <2>1, <2>2, Zenon DEF Flattens
<1>2. ASSUME NEW q \in Seq(Texts) PROVE Flatten(q) \in Texts
  <2>1. PICK g : Flattens(q, g) /\ Flatten(q) = g[Len(q)]
    BY FlattenExists
  <2> QED BY <2>1 DEF Flattens
<1> QED BY <1>1, <1>2

\* What is written last comes last.
LEMMA FlattenAppend ==
  ASSUME NEW q \in Seq(Texts), NEW x \in Texts
  PROVE  Flatten(Append(q, x)) = Flatten(q) \o x
<1>1. PICK g : Flattens(q, g) /\ Flatten(q) = g[Len(q)]
  BY FlattenExists
<1> DEFINE r == Append(q, x)
           h == [n \in 0 .. Len(q) + 1 |-> IF n = Len(q) + 1 THEN g[Len(q)] \o x
                                                             ELSE g[n]]
<1>2. /\ r \in Seq(Texts) /\ Len(r) = Len(q) + 1 /\ r[Len(q) + 1] = x
      /\ \A n \in 1 .. Len(q) : r[n] = q[n]
  OBVIOUS
<1>3. /\ Len(q) \in Nat /\ g \in [0 .. Len(q) -> Texts] /\ g[0] = <<>>
      /\ \A n \in 1 .. Len(q) : g[n] = g[n - 1] \o q[n]
  BY <1>1 DEF Flattens
<1> HIDE DEF r
<1>4. g[Len(q)] \o x \in Texts
  <2>1. g[Len(q)] \in Texts
    BY ONLY <1>3, SMT
  <2> QED BY ONLY <2>1, x \in Texts, TextFacts, Zenon
<1>5. h \in [0 .. Len(r) -> Texts] /\ h[0] = <<>>
  BY <1>2, <1>3, <1>4
<1>6. ASSUME NEW n \in 1 .. Len(r) PROVE h[n] = h[n - 1] \o r[n]
  <2>1. CASE n = Len(q) + 1
    <3>1. h[n] = g[Len(q)] \o x /\ h[n - 1] = g[Len(q)] /\ r[n] = x
      BY <1>2, <1>3, <2>1
    <3> HIDE DEF h
    <3> QED BY <3>1
  <2>2. CASE n # Len(q) + 1
    <3>1. n \in 1 .. Len(q) /\ h[n] = g[n] /\ h[n - 1] = g[n - 1]
      BY <1>2, <1>3, <2>2
    <3> HIDE DEF h
    <3> QED BY <1>2, <1>3, <3>1, Zenon
  <2> QED BY <2>1, <2>2, Zenon
<1>7. Flattens(r, h)
  BY <1>5, <1>6, Zenon DEF Flattens
<1>8. Flatten(r) = h[Len(r)]
  BY <1>2, <1>7, FlattenIs, Zenon
<1>9. h[Len(r)] = g[Len(q)] \o x
  BY <1>2, <1>3
<1> QED BY <1>1, <1>8, <1>9 DEF r

\* What was written first comes first, and the rest follows it.
LEMMA FlattenTail ==
  ASSUME NEW q \in Seq(Texts), q # <<>>
  PROVE  Flatten(q) = q[1] \o Flatten(Tail(q))
<1>1. PICK g : Flattens(q, g) /\ Flatten(q) = g[Len(q)]
  BY FlattenExists
<1> DEFINE r == Tail(q)
<1>2. /\ r \in Seq(Texts) /\ Len(r) = Len(q) - 1 /\ Len(q) \in Nat /\ Len(q) > 0
      /\ \A n \in 1 .. Len(r) : r[n] = q[n + 1]
      /\ \A n \in 1 .. Len(q) : q[n] \in Texts
  OBVIOUS
<1>3. PICK h : Flattens(r, h) /\ Flatten(r) = h[Len(r)]
  BY <1>2, FlattenExists, Zenon
<1> HIDE DEF r
<1> DEFINE Moved == {n \in 0 .. Len(r) : g[n + 1] = q[1] \o h[n]}
<1>4. q[1] \in Texts /\ q[1] \o <<>> = q[1] /\ <<>> \o q[1] = q[1]
  BY <1>2 DEF Texts
<1>5. 0 \in Moved
  <2>1. g[1] = g[1 - 1] \o q[1] /\ g[0] = <<>> /\ h[0] = <<>>
    <3>1. 1 \in 1 .. Len(q)
      BY <1>2
    <3> QED BY <1>1, <1>3, <3>1, Zenon DEF Flattens
  <2>2. g[0 + 1] = q[1] \o h[0]
    <3>1. 1 - 1 = 0 /\ 0 + 1 = 1
      OBVIOUS
    <3> QED BY <1>4, <2>1, <3>1, Zenon
  <2>3. 0 \in 0 .. Len(r)
    BY <1>2
  <2> QED BY <2>2, <2>3, Zenon
<1>6. ASSUME NEW n \in 0 .. Len(r) - 1, n \in Moved PROVE n + 1 \in Moved
  <2>1. /\ n + 1 \in 0 .. Len(r) /\ n + 1 \in 1 .. Len(r) /\ (n + 1) - 1 = n
        /\ (n + 1) + 1 \in 1 .. Len(q) /\ ((n + 1) + 1) - 1 = n + 1
    BY <1>2
  <2>2. g[(n + 1) + 1] = g[n + 1] \o q[(n + 1) + 1]
    BY <1>1, <2>1 DEF Flattens
  <2>3. h[n + 1] = h[n] \o r[n + 1] /\ r[n + 1] = q[(n + 1) + 1]
    BY <1>2, <1>3, <2>1, Zenon DEF Flattens
  <2>4. h[n] \in Texts /\ q[(n + 1) + 1] \in Texts
    BY SMTT(30), <1>2, <1>3, <2>1 DEF Flattens
  <2>5. (q[1] \o h[n]) \o q[(n + 1) + 1] = q[1] \o (h[n] \o q[(n + 1) + 1])
    BY <1>4, <2>4, TextFacts, Zenon
  <2> QED BY <1>6, <2>1, <2>2, <2>3, <2>5, Zenon
<1> HIDE DEF Moved
<1>7. \A n \in 0 .. Len(r) : n \in Moved
  <2>1. Len(r) \in Nat
    BY <1>2
  <2> QED BY <1>5, <1>6, <2>1, SetInduction, Zenon
<1>8. Len(r) \in Moved /\ Len(r) + 1 = Len(q)
  BY <1>2, <1>7
<1> QED BY <1>1, <1>3, <1>8, Zenon DEF Moved, r

\* The concatenation of more texts begins with that of the first ones.
LEMMA FlattenSplit ==
  ASSUME NEW q \in Seq(Texts), NEW g, Flattens(q, g), NEW j \in 0 .. Len(q)
  PROVE  \E t \in Texts : Flatten(q) = g[j] \o t
<1>1. Len(q) \in Nat /\ Flatten(q) = g[Len(q)]
  BY FlattenIs
<1> DEFINE Longer == {n \in 0 .. Len(q) - j : \E t \in Texts : g[j + n] = g[j] \o t}
<1>2. ASSUME NEW n \in 0 .. Len(q) PROVE g[n] \in Texts
  BY DEF Flattens
<1>3. 0 \in Longer
  <2>0. g[j] \in Texts /\ j + 0 = j
    BY <1>1, <1>2
  <2>1. <<>> \in Texts /\ g[j + 0] = g[j] \o <<>>
    BY <2>0, TextFacts, Zenon
  <2>2. 0 \in 0 .. Len(q) - j
    BY <1>1
  <2> QED BY <2>1, <2>2, Zenon
<1>4. ASSUME NEW n \in 0 .. (Len(q) - j) - 1, n \in Longer PROVE n + 1 \in Longer
  <2>1. PICK t \in Texts : g[j + n] = g[j] \o t
    BY <1>4
  <2>2. /\ j + (n + 1) \in 1 .. Len(q) /\ (j + (n + 1)) - 1 = j + n
        /\ n + 1 \in 0 .. Len(q) - j
    BY <1>1
  <2>3. g[j + (n + 1)] = g[j + n] \o q[j + (n + 1)]
    BY <2>2 DEF Flattens
  <2>4. q[j + (n + 1)] \in Texts /\ g[j] \in Texts
    BY <1>2, <2>2
  <2>5. g[j + (n + 1)] = g[j] \o (t \o q[j + (n + 1)])
    <3>1. (g[j] \o t) \o q[j + (n + 1)] = g[j] \o (t \o q[j + (n + 1)])
      BY <2>4, TextFacts, Zenon
    <3> QED BY <2>1, <2>3, <3>1, Zenon
  <2>6. t \o q[j + (n + 1)] \in Texts
    BY <2>4 DEF Texts
  <2> QED BY <2>2, <2>5, <2>6, Zenon
<1> HIDE DEF Longer
<1>5. \A n \in 0 .. Len(q) - j : n \in Longer
  <2>1. Len(q) - j \in Nat
    BY <1>1
  <2> QED BY <1>3, <1>4, <2>1, SetInduction, Zenon
<1>6. Len(q) - j \in Longer
  BY <1>1, <1>5
<1>7. PICK t \in Texts : g[j + (Len(q) - j)] = g[j] \o t
  BY <1>6 DEF Longer
<1>8. j + (Len(q) - j) = Len(q)
  BY <1>1
<1> QED BY <1>1, <1>7, <1>8

-----------------------------------------------------------------------------
(* Lengths and fields. *)

\* The digits of a number in base 256.
LEMMA Digits ==
  ASSUME NEW n \in Nat
  PROVE  \E q \in Nat, r \in Bytes : /\ q = n \div 256 /\ r = n % 256
                                     /\ n = q * 256 + r
<1>1. PICK q \in Int, r \in Int : q = n \div 256 /\ r = n % 256
  OBVIOUS
<1>2. n = 256 * q + r /\ q >= 0 /\ r \in Bytes
  BY <1>1 DEF Bytes
<1> QED BY <1>1, <1>2

\* A length takes four bytes.
LEMMA Uint32Type ==
  ASSUME NEW n \in Nat
  PROVE  Uint32Bytes(n) \in Texts /\ Len(Uint32Bytes(n)) = 4
<1>1. /\ (n \div (256 * 256 * 256)) % 256 \in Bytes
      /\ (n \div (256 * 256)) % 256 \in Bytes
      /\ (n \div 256) % 256 \in Bytes /\ n % 256 \in Bytes
  BY DEF Bytes
<1> QED BY <1>1 DEF Uint32Bytes, Texts

\* Four bytes hold a number below 2^32.
LEMMA Uint32Facts ==
  ASSUME NEW n \in Nat, n < 256 * 256 * 256 * 256
  PROVE  Uint32(Uint32Bytes(n)) = n
<1>1. PICK q1 \in Nat, r1 \in Bytes : /\ q1 = n \div 256 /\ r1 = n % 256
                                      /\ n = q1 * 256 + r1
  BY Digits
<1>2. PICK q2 \in Nat, r2 \in Bytes : /\ q2 = q1 \div 256 /\ r2 = q1 % 256
                                      /\ q1 = q2 * 256 + r2
  BY Digits
<1>3. PICK q3 \in Nat, r3 \in Bytes : /\ q3 = q2 \div 256 /\ r3 = q2 % 256
                                      /\ q2 = q3 * 256 + r3
  BY Digits
<1>4. q3 < 256
  BY <1>1, <1>2, <1>3 DEF Bytes
<1>5. n \div (256 * 256) = q2
  BY <1>1, <1>2 DEF Bytes
<1>6. n \div (256 * 256 * 256) = q3
  BY <1>1, <1>2, <1>3 DEF Bytes
<1>7. q3 % 256 = q3 /\ q3 \in Bytes
  BY <1>4 DEF Bytes
<1>8. Uint32Bytes(n) = <<q3, r3, r2, r1>>
  BY <1>1, <1>2, <1>3, <1>5, <1>6, <1>7 DEF Uint32Bytes
<1>9. Uint32(<<q3, r3, r2, r1>>) = n
  BY <1>1, <1>2, <1>3 DEF Uint32, Bytes
<1> QED BY <1>8, <1>9

\* A text whose length fits into its length field.
Fits(f) == f \in Texts /\ Len(f) < 256 * 256 * 256 * 256

\* A text with its length before it.
LEMMA WithLengthFacts ==
  ASSUME NEW f \in Texts
  PROVE  WithLength(f) \in Texts /\ Len(WithLength(f)) = 4 + Len(f)
<1>1. Len(f) \in Nat
  BY DEF Texts
<1>2. Uint32Bytes(Len(f)) \in Texts /\ Len(Uint32Bytes(Len(f))) = 4
  BY <1>1, Uint32Type, Zenon
<1>3. PICK l \in Texts : l = Uint32Bytes(Len(f)) /\ Len(l) = 4
  BY <1>2
<1>4. WithLength(f) = l \o f
  BY <1>3 DEF WithLength
<1>5. l \o f \in Texts /\ Len(l \o f) = Len(l) + Len(f)
  BY TextFacts, Zenon
<1> QED BY <1>3, <1>4, <1>5

\* A part of the second text, and the first one.
LEMMA SubSeqRight ==
  ASSUME NEW s \in Texts, NEW t \in Texts,
         NEW a \in 1 .. Len(t) + 1, NEW b \in 0 .. Len(t)
  PROVE  SubSeq(s \o t, Len(s) + a, Len(s) + b) = SubSeq(t, a, b)
BY SMTT(30) DEF Texts

\* The front of two texts is the first of them.
LEMMA SubSeqLeft ==
  ASSUME NEW s \in Texts, NEW t \in Texts
  PROVE  SubSeq(s \o t, 1, Len(s)) = s
BY SMT DEF Texts

\* It does not matter in which order texts are put together.
LEMMA TextAssociative ==
  ASSUME NEW s \in Texts, NEW t \in Texts, NEW u \in Texts
  PROVE  (s \o t) \o u = s \o (t \o u)
BY TextFacts, Zenon

\* The parts of a text.
LEMMA Parts ==
  ASSUME NEW p \in Texts, NEW l \in Texts, NEW f \in Texts, NEW r \in Texts,
         Len(l) = 4
  PROVE  /\ SubSeq(p \o ((l \o f) \o r), Len(p) + 1, Len(p) + 4) = l
         /\ SubSeq(p \o ((l \o f) \o r), Len(p) + 5, Len(p) + (4 + Len(f))) = f
<1>0. (l \o f) \o r = l \o (f \o r)
  BY TextAssociative, Zenon
<1>1. f \o r \in Texts /\ Len(f \o r) = Len(f) + Len(r)
  BY TextFacts
<1>2. PICK u \in Texts : u = f \o r
  BY <1>1, Zenon
<1>3. l \o u \in Texts /\ Len(l \o u) = Len(l) + Len(u)
  BY TextFacts, Zenon
<1>4. PICK t \in Texts : t = l \o u
  BY <1>3, Zenon
<1>5. p \o ((l \o f) \o r) = p \o t
  BY <1>0, <1>2, <1>4, Zenon
<1>6. Len(f) \in Nat /\ Len(r) \in Nat
  BY DEF Texts
<1>7. Len(u) \in Nat /\ Len(t) = 4 + Len(u) /\ Len(u) >= Len(f)
  BY <1>1, <1>2, <1>3, <1>4, <1>6
<1>8. SubSeq(p \o t, Len(p) + 1, Len(p) + 4) = SubSeq(t, 1, 4)
  <2>1. 1 \in 1 .. Len(t) + 1 /\ 4 \in 0 .. Len(t)
    BY <1>7
  <2> QED BY ZenonT(40), <2>1, SubSeqRight
<1>9. SubSeq(t, 1, 4) = l
  <2>1. SubSeq(l \o u, 1, Len(l)) = l
    BY SubSeqLeft, Zenon
  <2> QED BY <1>4, <2>1, Zenon
<1>10. SubSeq(p \o t, Len(p) + 5, Len(p) + (4 + Len(f))) = SubSeq(t, 5, 4 + Len(f))
  <2>1. 5 \in 1 .. Len(t) + 1 /\ 4 + Len(f) \in 0 .. Len(t)
    BY <1>6, <1>7
  <2> QED BY <2>1, SubSeqRight, Zenon
<1>11. SubSeq(t, 4 + 1, 4 + Len(f)) = SubSeq(u, 1, Len(f))
  <2>1. 1 \in 1 .. Len(u) + 1 /\ Len(f) \in 0 .. Len(u)
    BY <1>6, <1>7
  <2>2. SubSeq(l \o u, Len(l) + 1, Len(l) + Len(f)) = SubSeq(u, 1, Len(f))
    BY <2>1, SubSeqRight, Zenon
  <2> QED BY <1>4, <2>2, Zenon
<1>12. SubSeq(u, 1, Len(f)) = f
  <2>1. SubSeq(f \o r, 1, Len(f)) = f
    BY SubSeqLeft, Zenon
  <2> QED BY <1>2, <2>1
<1>13. 4 + 1 = 5
  OBVIOUS
<1> QED BY <1>5, <1>8, <1>9, <1>10, <1>11, <1>12, <1>13, Zenon

\* What is written behind its length can be read where it begins.
LEMMA FieldAt ==
  ASSUME NEW p \in Texts, NEW f, Fits(f), NEW r \in Texts
  PROVE  /\ FieldLen(p \o (WithLength(f) \o r), Len(p)) = Len(f)
         /\ Field(p \o (WithLength(f) \o r), Len(p)) = f
         /\ After(p \o (WithLength(f) \o r), Len(p)) = Len(p) + 4 + Len(f)
<1>0. PICK data, n : data = p \o (WithLength(f) \o r) /\ n = Len(p)
  BY Zenon
<1>1. Len(f) \in Nat /\ f \in Texts /\ n \in Nat
  BY <1>0 DEF Fits, Texts
<1>2. PICK l \in Texts : l = Uint32Bytes(Len(f)) /\ Len(l) = 4 /\ Uint32(l) = Len(f)
  BY <1>1, Uint32Facts, Uint32Type DEF Fits
<1>3. data = p \o ((l \o f) \o r)
  BY <1>0, <1>2 DEF WithLength
<1>4. SubSeq(data, n + 1, n + 4) = l /\ SubSeq(data, n + 5, n + 4 + Len(f)) = f
  <2>1. /\ SubSeq(data, Len(p) + 1, Len(p) + 4) = l
        /\ SubSeq(data, Len(p) + 5, Len(p) + (4 + Len(f))) = f
    <3>0. Len(l) = 4 /\ f \in Texts
      BY <1>1, <1>2
    <3>1. /\ SubSeq(p \o ((l \o f) \o r), Len(p) + 1, Len(p) + 4) = l
          /\ SubSeq(p \o ((l \o f) \o r), Len(p) + 5, Len(p) + (4 + Len(f))) = f
      BY <3>0, Parts, Zenon
    <3> QED BY <1>3, <3>1, Zenon
  <2>2. Len(p) + (4 + Len(f)) = n + 4 + Len(f)
    BY <1>0, <1>1
  <2> QED BY <1>0, <2>1, <2>2, Zenon
<1>5. FieldLen(data, n) = Len(f)
  BY <1>2, <1>4, Zenon DEF FieldLen
<1>6. Field(data, n) = f /\ After(data, n) = n + 4 + Len(f)
  BY <1>4, <1>5 DEF Field, After
<1> QED BY <1>0, <1>5, <1>6, Zenon

-----------------------------------------------------------------------------
(* Metadata. *)

\* Order lists a finite set.
LEMMA OrderFacts ==
  ASSUME NEW S, IsFiniteSet(S)
  PROVE  /\ Cardinality(S) \in Nat
         /\ \A i \in 1 .. Cardinality(S) : Order(S)[i] \in S
         /\ \A x \in S : \E i \in 1 .. Cardinality(S) : Order(S)[i] = x
<1>1. Cardinality(S) \in Nat /\ ExistsBijection(1 .. Cardinality(S), S)
  BY FS_CardinalityType
<1>2. \E f \in [1 .. Cardinality(S) -> S] : IsInjective(f)
  BY <1>1 DEF ExistsBijection, Bijection, Injection
<1> DEFINE f == Order(S)
<1>3. f \in [1 .. Cardinality(S) -> S] /\ IsInjective(f)
  BY <1>2 DEF Order
<1> HIDE DEF f
<1>4. f \in Injection(1 .. Cardinality(S), S)
  BY <1>3 DEF Injection
<1>5. Cardinality(1 .. Cardinality(S)) = Cardinality(S)
  BY <1>1, FS_Interval
<1>6. f \in Surjection(1 .. Cardinality(S), S)
  BY <1>4, <1>5, FS_Injection, Zenon
<1>7. \A x \in S : \E i \in 1 .. Cardinality(S) : f[i] = x
  BY <1>6 DEF Surjection
<1> QED BY <1>1, <1>3, <1>7 DEF f

\* A key and its value, as encodeMetadata writes them.
Pair(kv) == WithLength(kv[1]) \o WithLength(kv[2])

\* The length of a key with its value.
LEMMA PairFacts ==
  ASSUME NEW kv \in Texts \X Texts
  PROVE  /\ kv[1] \in Texts /\ kv[2] \in Texts /\ kv = <<kv[1], kv[2]>>
         /\ Len(kv[1]) \in Nat /\ Len(kv[2]) \in Nat
         /\ Pair(kv) \in Texts
         /\ Len(Pair(kv)) = 8 + Len(kv[1]) + Len(kv[2])
<1>1. kv[1] \in Texts /\ kv[2] \in Texts /\ kv = <<kv[1], kv[2]>>
  OBVIOUS
<1>2. PICK k \in Texts : k = WithLength(kv[1]) /\ Len(k) = 4 + Len(kv[1])
  BY <1>1, WithLengthFacts
<1>3. PICK v \in Texts : v = WithLength(kv[2]) /\ Len(v) = 4 + Len(kv[2])
  BY <1>1, WithLengthFacts
<1>4. k \o v \in Texts /\ Len(k \o v) = Len(k) + Len(v)
  BY TextFacts
<1>5. Len(kv[1]) \in Nat /\ Len(kv[2]) \in Nat
  BY <1>1 DEF Texts
<1>6. Pair(kv) = k \o v
  BY <1>2, <1>3 DEF Pair
<1> QED BY <1>1, <1>2, <1>3, <1>4, <1>5, <1>6

\* Two texts behind their lengths, a and b, can be read where the first begins,
\* which is after p.
ReadsTwo(p, a, b, r) ==
    \A data : data = p \o ((WithLength(a) \o WithLength(b)) \o r) =>
        /\ Field(data, Len(p)) = a
        /\ After(data, Len(p)) = Len(p) + 4 + Len(a)
        /\ Field(data, After(data, Len(p))) = b
        /\ After(data, After(data, Len(p))) = Len(p) + (8 + Len(a) + Len(b))

\* encodeMetadata writes two texts this way, and decodeMetadata reads them.
LEMMA TwoFields ==
  ASSUME NEW a, NEW b, Fits(a), Fits(b), NEW p \in Texts, NEW r \in Texts
  PROVE  ReadsTwo(p, a, b, r)
<1> SUFFICES ASSUME NEW data, data = p \o ((WithLength(a) \o WithLength(b)) \o r),
                    NEW n, n = Len(p)
             PROVE  /\ Field(data, n) = a
                    /\ After(data, n) = n + 4 + Len(a)
                    /\ Field(data, After(data, n)) = b
                    /\ After(data, After(data, n)) = n + (8 + Len(a) + Len(b))
  BY Zenon DEF ReadsTwo
<1>0. a \in Texts /\ b \in Texts /\ Len(a) \in Nat /\ Len(b) \in Nat /\ n \in Nat
  BY DEF Fits, Texts
<1>1. PICK k \in Texts : k = WithLength(a) /\ Len(k) = 4 + Len(a)
  BY <1>0, WithLengthFacts
<1>2. PICK v \in Texts : v = WithLength(b)
  BY <1>0, WithLengthFacts
<1>3. /\ p \o ((k \o v) \o r) = p \o (k \o (v \o r))
      /\ p \o ((k \o v) \o r) = (p \o k) \o (v \o r)
  <2>1. (k \o v) \o r = k \o (v \o r)
    BY TextAssociative, Zenon
  <2>2. p \o (k \o (v \o r)) = (p \o k) \o (v \o r)
    <3>1. v \o r \in Texts
      BY TextFacts, Zenon
    <3>2. PICK t \in Texts : t = v \o r
      BY <3>1, Zenon
    <3>3. (p \o k) \o t = p \o (k \o t)
      BY SMTT(30), TextAssociative
    <3> QED BY <3>2, <3>3, Zenon
  <2> QED BY <2>1, <2>2, Zenon
<1>4. /\ p \o k \in Texts /\ Len(p \o k) = Len(p) + Len(k)
      /\ v \o r \in Texts
  BY TextFacts, Zenon
<1>5. PICK o \in Texts : o = p \o k
  BY <1>4, Zenon
<1> PICK t \in Texts : t = v \o r
  BY <1>4, Zenon
<1>6. data = p \o ((k \o v) \o r)
  BY <1>1, <1>2, Zenon
<1>7. data = p \o (k \o t) /\ data = o \o (v \o r)
  BY <1>3, <1>5, <1>6, Zenon
<1>8. Field(data, n) = a /\ After(data, n) = n + 4 + Len(a)
  <2>1. data = p \o (WithLength(a) \o t)
    BY <1>1, <1>7, Zenon
  <2>2. /\ Field(p \o (WithLength(a) \o t), Len(p)) = a
        /\ After(p \o (WithLength(a) \o t), Len(p)) = Len(p) + 4 + Len(a)
    BY ONLY p \in Texts, t \in Texts, Fits(a), FieldAt, Zenon
  <2> QED BY <2>1, <2>2, Zenon
<1>9. Field(data, Len(o)) = b /\ After(data, Len(o)) = Len(o) + 4 + Len(b)
  <2>1. data = o \o (WithLength(b) \o r)
    BY <1>2, <1>7, Zenon
  <2>2. /\ Field(o \o (WithLength(b) \o r), Len(o)) = b
        /\ After(o \o (WithLength(b) \o r), Len(o)) = Len(o) + 4 + Len(b)
    BY ONLY o \in Texts, r \in Texts, Fits(b), FieldAt, Zenon
  <2> QED BY <2>1, <2>2, Zenon
<1>10. Len(o) = n + 4 + Len(a)
  BY <1>0, <1>1, <1>4, <1>5
<1>11. Len(o) + 4 + Len(b) = n + (8 + Len(a) + Len(b))
  BY <1>0, <1>10
<1> QED BY <1>8, <1>9, <1>10, <1>11, Zenon

\* The offsets of decodeMetadata, one after the other.
LEMMA StartsDef ==
  ASSUME NEW data \in Texts
  PROVE  /\ Starts(data)[0] = 0
         /\ \A i \in 0 .. Len(data) - 1 :
               Starts(data)[i + 1] =
                  IF Starts(data)[i] < Len(data)
                    THEN After(data, After(data, Starts(data)[i]))
                    ELSE Starts(data)[i]
<1>0. Len(data) \in Nat
  BY DEF Texts
<1> DEFINE Step(n) == IF n < Len(data) THEN After(data, After(data, n)) ELSE n
           Good(f, m) == f = [i \in 0 .. m |-> IF i = 0 THEN 0 ELSE Step(f[i - 1])]
           Fine == {m \in 0 .. Len(data) : \E f : Good(f, m)}
<1>1. 0 \in Fine
  <2>1. Good([i \in 0 .. 0 |-> 0], 0)
    <3>1. \A i \in 0 .. 0 : i = 0
      OBVIOUS
    <3> HIDE DEF Step
    <3> QED BY <3>1
  <2>2. \E f : Good(f, 0)
    BY <2>1, Zenon
  <2> HIDE DEF Good
  <2> QED BY <1>0, <2>2
<1>2. ASSUME NEW m \in 0 .. Len(data) - 1, m \in Fine PROVE m + 1 \in Fine
  <2>1. PICK f : Good(f, m)
    BY <1>2, Zenon
  <2> DEFINE h == [i \in 0 .. m + 1 |-> IF i = m + 1 THEN Step(f[m]) ELSE f[i]]
  <2>2. ASSUME NEW i \in 0 .. m + 1
        PROVE  h[i] = IF i = 0 THEN 0 ELSE Step(h[i - 1])
    <3> HIDE DEF Step
    <3>1. CASE i = m + 1
      BY <3>1
    <3>2. CASE i # m + 1
      <4>1. i \in 0 .. m /\ h[i] = f[i] /\ (i # 0 => h[i - 1] = f[i - 1])
        BY <3>2
      <4>2. f[i] = IF i = 0 THEN 0 ELSE Step(f[i - 1])
        BY <2>1, <4>1, Zenon
      <4> HIDE DEF h
      <4> QED BY <4>1, <4>2
    <3> QED BY <3>1, <3>2
  <2>3. Good(h, m + 1)
    BY <2>2, Zenon
  <2>4. m + 1 \in 0 .. Len(data)
    BY <1>0
  <2> QED BY <2>3, <2>4, Zenon
<1>3. PICK f : Good(f, Len(data))
  <2>1. \A m \in 0 .. Len(data) : m \in Fine
    <3> HIDE DEF Fine
    <3> QED BY <1>0, <1>1, <1>2, SetInduction, Zenon
  <2>2. Len(data) \in 0 .. Len(data)
    BY <1>0
  <2> QED BY <2>1, <2>2, Zenon
<1>4. Starts(data) = CHOOSE g : Good(g, Len(data))
  BY DEF Starts
<1>5. Good(Starts(data), Len(data))
  <2> HIDE DEF Good
  <2> QED BY <1>3, <1>4, Zenon
<1> DEFINE st == Starts(data)
<1> HIDE DEF st
<1>6. Good(st, Len(data))
  BY <1>5 DEF st
<1>7. ASSUME NEW i \in 0 .. Len(data)
      PROVE  st[i] = IF i = 0 THEN 0 ELSE Step(st[i - 1])
  BY <1>6, Zenon
<1> HIDE DEF Step
<1>8. st[0] = 0
  BY <1>0, <1>7
<1>9. ASSUME NEW i \in 0 .. Len(data) - 1 PROVE st[i + 1] = Step(st[i])
  <2>1. i + 1 \in 0 .. Len(data) /\ i + 1 # 0 /\ (i + 1) - 1 = i
    BY <1>0
  <2> QED BY <1>7, <2>1
<1> QED BY <1>8, <1>9 DEF st, Step

\* The pairs of some metadata, in the order of encodeMetadata.
Pairs(meta) == [i \in 1 .. Cardinality(meta) |-> Pair(Order(meta)[i])]

\* encodeMetadata writes them one after the other.
LEMMA PairsFacts ==
  ASSUME NEW meta \in Metadata, IsFiniteSet(meta)
  PROVE  /\ Pairs(meta) \in Seq(Texts)
         /\ Len(Pairs(meta)) = Cardinality(meta)
         /\ \A i \in 1 .. Cardinality(meta) :
               Pairs(meta)[i] = Pair(Order(meta)[i])
         /\ encodeMetadata(meta) = Flatten(Pairs(meta))
         /\ encodeMetadata(meta) \in Texts
<1>1. Cardinality(meta) \in Nat
  BY OrderFacts
<1>2. ASSUME NEW i \in 1 .. Cardinality(meta)
      PROVE  Pair(Order(meta)[i]) \in Texts
  <2>1. Order(meta)[i] \in Texts \X Texts
    BY OrderFacts DEF Metadata
  <2> QED BY <2>1, PairFacts, Zenon
<1>3. Pairs(meta) \in [1 .. Cardinality(meta) -> Texts]
  BY <1>2 DEF Pairs
<1>4. Pairs(meta) \in Seq(Texts) /\ Len(Pairs(meta)) = Cardinality(meta)
  BY <1>1, <1>3
<1>5. encodeMetadata(meta) = Flatten(Pairs(meta))
  BY Zenon DEF encodeMetadata, Pairs, Pair
<1>6. Flatten(Pairs(meta)) \in Texts
  BY <1>4, FlattenType, Zenon
<1> QED BY <1>4, <1>5, <1>6, Zenon DEF Pairs

\* Where the pairs begin: g[i] is what is written before pair i + 1.
LEMMA PairsPlaces ==
  ASSUME NEW meta \in Metadata, IsFiniteSet(meta), NEW g, Flattens(Pairs(meta), g),
         NEW i \in 0 .. Cardinality(meta) - 1
  PROVE  /\ g[i] \in Texts /\ g[i + 1] \in Texts
         /\ Order(meta)[i + 1] \in Texts \X Texts
         /\ Len(g[i + 1]) = Len(g[i]) + Len(Pair(Order(meta)[i + 1]))
         /\ Len(g[i + 1]) <= Len(encodeMetadata(meta))
         /\ \E t \in Texts :
               encodeMetadata(meta) = g[i] \o (Pair(Order(meta)[i + 1]) \o t)
<1> DEFINE kv == Order(meta)[i + 1]
<1>1. Cardinality(meta) \in Nat /\ Len(Pairs(meta)) = Cardinality(meta)
  BY PairsFacts, OrderFacts
<1>2. /\ i + 1 \in 1 .. Cardinality(meta) /\ i \in 0 .. Len(Pairs(meta)) - 1
      /\ i \in 0 .. Len(Pairs(meta)) /\ i + 1 \in 0 .. Len(Pairs(meta))
  BY <1>1
<1>3. kv \in Texts \X Texts
  BY <1>2, OrderFacts DEF Metadata
<1>4. Pairs(meta)[i + 1] = Pair(kv) /\ Pair(kv) \in Texts
  BY <1>2, <1>3, PairsFacts, PairFacts
<1>5. g[i] \in Texts /\ g[i + 1] \in Texts /\ g[i + 1] = g[i] \o Pair(kv)
  <2>1. Pairs(meta) \in Seq(Texts)
    BY PairsFacts
  <2>2. /\ \A n \in 0 .. Len(Pairs(meta)) : g[n] \in Texts
        /\ \A n \in 0 .. Len(Pairs(meta)) - 1 : g[n + 1] = g[n] \o Pairs(meta)[n + 1]
    BY <2>1, FlattenStep, Zenon
  <2> QED BY <1>2, <1>4, <2>2, Zenon
<1>6. PICK t \in Texts : encodeMetadata(meta) = g[i + 1] \o t
  <2>1. Pairs(meta) \in Seq(Texts)
    BY PairsFacts
  <2>2. \E t \in Texts : Flatten(Pairs(meta)) = g[i + 1] \o t
    BY <1>2, <2>1, FlattenSplit, Zenon
  <2> QED BY <2>2, PairsFacts, Zenon
<1> HIDE DEF kv
<1>7. PICK a \in Texts, b \in Texts, c \in Texts :
          /\ a = g[i] /\ b = Pair(kv) /\ c = g[i + 1] /\ c = a \o b
          /\ encodeMetadata(meta) = c \o t
  BY <1>4, <1>5, <1>6, Zenon
<1>8. (a \o b) \o t = a \o (b \o t)
  BY SMTT(30), TextAssociative
<1>9. Len(a \o b) = Len(a) + Len(b) /\ Len(c \o t) = Len(c) + Len(t)
  BY TextFacts, Zenon
<1>10. Len(t) \in Nat /\ Len(c) \in Nat
  BY DEF Texts
<1>11. Len(c) <= Len(encodeMetadata(meta)) /\ Len(c) = Len(a) + Len(b)
  BY <1>7, <1>9, <1>10
<1>12. encodeMetadata(meta) = a \o (b \o t)
  BY <1>7, <1>8, Zenon
<1> QED BY <1>3, <1>5, <1>7, <1>11, <1>12, Zenon DEF kv

\* The offset of pair i + 1, which is not less than i, and what is there.
LEMMA PairsRead ==
  ASSUME NEW meta \in Metadata, IsFiniteSet(meta), NEW g, Flattens(Pairs(meta), g),
         Fits(encodeMetadata(meta)),
         NEW i \in 0 .. Cardinality(meta) - 1
  PROVE  /\ Len(g[i]) \in Nat /\ Len(g[i]) < Len(g[i + 1])
         /\ Len(g[i + 1]) <= Len(encodeMetadata(meta))
         /\ <<Field(encodeMetadata(meta), Len(g[i])),
              Field(encodeMetadata(meta), After(encodeMetadata(meta), Len(g[i])))>>
               = Order(meta)[i + 1]
         /\ After(encodeMetadata(meta), After(encodeMetadata(meta), Len(g[i])))
               = Len(g[i + 1])
<1> DEFINE kv == Order(meta)[i + 1]
           data == encodeMetadata(meta)
<1>0. \E t \in Texts : data = g[i] \o (Pair(kv) \o t)
  BY PairsPlaces, Zenon
<1>1. /\ g[i] \in Texts /\ g[i + 1] \in Texts /\ kv \in Texts \X Texts
      /\ Len(g[i + 1]) = Len(g[i]) + Len(Pair(kv)) /\ Len(g[i + 1]) <= Len(data)
  BY PairsPlaces, Zenon
<1>2. Len(data) \in Nat
  BY PairsFacts DEF Texts
<1> HIDE DEF kv, data
<1>3. /\ kv[1] \in Texts /\ kv[2] \in Texts /\ kv = <<kv[1], kv[2]>>
      /\ Len(kv[1]) \in Nat /\ Len(kv[2]) \in Nat
      /\ Len(Pair(kv)) = 8 + Len(kv[1]) + Len(kv[2])
  BY <1>1, PairFacts, Zenon
<1>4. Len(g[i]) \in Nat /\ Len(g[i + 1]) \in Nat
  BY <1>1 DEF Texts
<1>5. PICK x \in Nat, y \in Nat, l \in Nat, m \in Nat, o \in Nat :
          /\ x = Len(kv[1]) /\ y = Len(kv[2]) /\ l = Len(g[i]) /\ m = Len(g[i + 1])
          /\ o = Len(data)
  BY <1>2, <1>3, <1>4, Zenon
<1>6. l + (8 + x + y) = m /\ m <= o
  BY <1>1, <1>3, <1>5, Zenon
<1>7. x <= o /\ y <= o /\ l < m
  BY <1>6
<1>8. Fits(kv[1]) /\ Fits(kv[2])
  <2>1. o < 256 * 256 * 256 * 256
    BY <1>5, SMT DEF Fits, data
  <2>2. x < 256 * 256 * 256 * 256 /\ y < 256 * 256 * 256 * 256
    BY <1>7, <2>1, SMT
  <2> QED BY <1>3, <1>5, <2>2, SMT DEF Fits
<1>9. /\ Field(data, l) = kv[1]
      /\ Field(data, After(data, l)) = kv[2]
      /\ After(data, After(data, l)) = l + (8 + x + y)
  <2>1. PICK t \in Texts : data = g[i] \o (Pair(kv) \o t)
    BY <1>0, Zenon
  <2>2. PICK a \in Texts, b \in Texts, p \in Texts : a = kv[1] /\ b = kv[2] /\ p = g[i]
    BY <1>1, <1>3, Zenon
  <2>3. Fits(a) /\ Fits(b)
    BY <1>8, <2>2, Zenon
  <2>4. data = p \o ((WithLength(a) \o WithLength(b)) \o t)
    BY <2>1, <2>2, Zenon DEF Pair
  <2>5. /\ Field(data, Len(p)) = a
        /\ Field(data, After(data, Len(p))) = b
        /\ After(data, After(data, Len(p))) = Len(p) + (8 + Len(a) + Len(b))
    <3>1. ReadsTwo(p, a, b, t)
      BY <2>3, TwoFields, Zenon
    <3> QED BY <2>4, <3>1, Zenon DEF ReadsTwo
  <2> QED BY <1>5, <2>2, <2>5, Zenon
<1>10. <<Field(data, l), Field(data, After(data, l))>> = kv
  BY <1>3, <1>9, Zenon
<1> QED BY <1>5, <1>6, <1>7, <1>9, <1>10, Zenon DEF kv, data

\* decodeMetadata begins at the offsets of the pairs.
LEMMA StartsAtPairs ==
  ASSUME NEW meta \in Metadata, IsFiniteSet(meta), Fits(encodeMetadata(meta)),
         NEW g, Flattens(Pairs(meta), g)
  PROVE  /\ Len(g[Cardinality(meta)]) = Len(encodeMetadata(meta))
         /\ \A i \in 0 .. Cardinality(meta) :
               /\ i \in 0 .. Len(encodeMetadata(meta))
               /\ Starts(encodeMetadata(meta))[i] = Len(g[i])
         /\ \A i \in Cardinality(meta) .. Len(encodeMetadata(meta)) :
               Starts(encodeMetadata(meta))[i] = Len(encodeMetadata(meta))
<1> DEFINE data == encodeMetadata(meta)
           K == Cardinality(meta)
           st == Starts(data)
           L == Len(data)
           l == [i \in 0 .. K |-> Len(g[i])]
<1>1. K \in Nat /\ L \in Nat /\ data \in Texts /\ Pairs(meta) \in Seq(Texts)
      /\ Len(Pairs(meta)) = K
  BY PairsFacts, OrderFacts DEF Texts
<1>2. data = g[K]
  BY <1>1, PairsFacts, FlattenIs
<1>3. l[K] = L /\ l[0] = 0
  BY <1>1, <1>2, FlattenStep
<1>4. ASSUME NEW i \in 0 .. K - 1
      PROVE  /\ l[i] \in Nat /\ l[i] < l[i + 1] /\ l[i + 1] <= L
             /\ After(data, After(data, l[i])) = l[i + 1]
  <2>1. i \in 0 .. K /\ i + 1 \in 0 .. K
    BY <1>1
  <2>2. l[i] = Len(g[i]) /\ l[i + 1] = Len(g[i + 1])
    BY <2>1, Zenon
  <2> HIDE DEF l
  <2> QED BY <2>2, PairsRead
<1>5. \A i \in 0 .. K : l[i] = Len(g[i])
  BY Zenon
<1>6. /\ st[0] = 0
      /\ \A i \in 0 .. L - 1 :
            st[i + 1] = IF st[i] < L THEN After(data, After(data, st[i])) ELSE st[i]
  BY <1>1, StartsDef
<1> HIDE DEF l, st, data, L, K
<1> DEFINE BegunAt == {i \in 0 .. K : i <= l[i] /\ l[i] \in 0 .. L /\ st[i] = l[i]}
<1>7. \A i \in 0 .. K : i \in BegunAt
  <2>1. 0 \in BegunAt
    BY <1>1, <1>3, <1>6
  <2>2. ASSUME NEW i \in 0 .. K - 1, i \in BegunAt PROVE i + 1 \in BegunAt
    <3>1. i + 1 \in 0 .. K
      BY <1>1
    <3>2. i <= l[i] /\ st[i] = l[i]
      BY <2>2
    <3>3. l[i] < L /\ i + 1 <= l[i + 1] /\ l[i + 1] \in 0 .. L /\ i \in 0 .. L - 1
      <4>1. PICK x, y : x = l[i] /\ y = l[i + 1]
        OBVIOUS
      <4>2. x \in Nat /\ x < y /\ y <= L /\ i <= x
        BY <1>4, <3>2, <4>1, Zenon
      <4>3. y \in Int
        <5>1. CASE i + 1 = K
          BY <1>1, <1>3, <4>1, <5>1
        <5>2. CASE i + 1 # K
          <6>1. i + 1 \in 0 .. K - 1
            BY <1>1, <5>2
          <6>2. l[i + 1] \in Nat
            BY <1>4, <6>1, Zenon
          <6> QED BY <4>1, <6>2
        <5> QED BY <5>1, <5>2
      <4>4. x < L /\ i + 1 <= y /\ y \in 0 .. L /\ i \in 0 .. L - 1
        BY <1>1, <4>2, <4>3
      <4> QED BY <4>1, <4>4, Zenon
    <3>4. st[i + 1] = After(data, After(data, l[i]))
      BY <1>6, <3>2, <3>3
    <3>5. st[i + 1] = l[i + 1]
      BY <1>4, <3>4
    <3> QED BY <3>1, <3>3, <3>5
  <2> HIDE DEF BegunAt
  <2> QED BY <1>1, <2>1, <2>2, SetInduction, Zenon
<1>8. ASSUME NEW i \in 0 .. K PROVE i \in 0 .. L /\ st[i] = l[i]
  <2>1. i <= l[i] /\ l[i] \in 0 .. L /\ st[i] = l[i]
    BY <1>7, Zenon
  <2> QED BY <1>1, <2>1
<1> DEFINE Ended == {i \in 0 .. L : i >= K => st[i] = L}
<1>9. \A i \in 0 .. L : i \in Ended
  <2>1. 0 \in Ended
    BY <1>1, <1>3, <1>6
  <2>2. ASSUME NEW i \in 0 .. L - 1, i \in Ended PROVE i + 1 \in Ended
    <3>1. i + 1 \in 0 .. L
      BY <1>1
    <3>2. CASE i >= K
      <4>1. st[i] = L
        BY <2>2, <3>2
      <4>2. st[i + 1] = L
        BY <1>1, <1>6, <4>1
      <4> QED BY <3>1, <4>2
    <3>3. CASE i + 1 = K
      <4>1. K \in 0 .. K
        BY <1>1
      <4>2. st[K] = L
        BY <1>3, <1>8, <4>1
      <4> QED BY <3>1, <3>3, <4>2
    <3>4. CASE ~(i >= K) /\ i + 1 # K
      BY <1>1, <3>1, <3>4
    <3> QED BY <3>2, <3>3, <3>4
  <2> HIDE DEF Ended
  <2> QED BY <1>1, <2>1, <2>2, SetInduction, Zenon
<1>10. ASSUME NEW i \in K .. L PROVE st[i] = L
  <2>1. i \in 0 .. L /\ i >= K
    BY <1>1
  <2> QED BY <1>9, <2>1
<1>11. Len(g[K]) = L
  BY <1>2 DEF L
<1> QED BY <1>5, <1>8, <1>10, <1>11, Zenon DEF st, data, L, K

\* Metadata is read as it was written.
LEMMA MetadataRead ==
  ASSUME NEW meta \in Metadata, IsFiniteSet(meta), Fits(encodeMetadata(meta))
  PROVE  decodeMetadata(encodeMetadata(meta)) = meta
<1> DEFINE data == encodeMetadata(meta)
           K == Cardinality(meta)
           st == Starts(data)
           L == Len(data)
           At(n) == <<Field(data, n), Field(data, After(data, n))>>
<1>1. PICK g : Flattens(Pairs(meta), g)
  BY PairsFacts, FlattenExists
<1>2. /\ Len(g[K]) = L
      /\ \A i \in 0 .. K : i \in 0 .. L /\ st[i] = Len(g[i])
      /\ \A i \in K .. L : st[i] = L
  BY <1>1, StartsAtPairs
<1>3. K \in Nat /\ L \in Nat
  BY PairsFacts, OrderFacts DEF Texts
<1>4. ASSUME NEW i \in 0 .. K - 1
      PROVE  st[i] # L /\ At(st[i]) = Order(meta)[i + 1]
  <2>1. i \in 0 .. K
    BY <1>3
  <2>2. st[i] = Len(g[i])
    BY <1>2, <2>1, Zenon
  <2>3. /\ Len(g[i]) \in Nat /\ Len(g[i]) < Len(g[i + 1]) /\ Len(g[i + 1]) <= L
        /\ At(Len(g[i])) = Order(meta)[i + 1]
    BY <1>1, PairsRead, Zenon
  <2>4. Len(g[i + 1]) \in Nat
    BY <1>1, PairsPlaces DEF Texts
  <2>5. Len(g[i]) # L
    <3>1. PICK x \in Nat, y \in Nat : x = Len(g[i]) /\ y = Len(g[i + 1])
      BY <2>3, <2>4, Zenon
    <3>2. x < y /\ y <= L
      BY <2>3, <3>1, Zenon
    <3>3. x # L
      BY <1>3, <3>2
    <3> QED BY <3>1, <3>3
  <2> QED BY <2>2, <2>3, <2>5, Zenon
<1>5. decodeMetadata(data) = {At(n) : n \in {st[i] : i \in 0 .. L} \ {L}}
  BY Zenon DEF decodeMetadata
<1> HIDE DEF At, data, K, st, L
<1>6. ASSUME NEW kv \in meta PROVE kv \in decodeMetadata(data)
  <2>1. PICK j \in 1 .. K : Order(meta)[j] = kv
    BY OrderFacts DEF K
  <2>2. j - 1 \in 0 .. K - 1 /\ (j - 1) + 1 = j /\ j - 1 \in 0 .. K
    BY <1>3
  <2>3. st[j - 1] # L /\ At(st[j - 1]) = kv
    BY <1>4, <2>1, <2>2
  <2>4. j - 1 \in 0 .. L
    BY <1>2, <2>2, Zenon
  <2> QED BY <1>5, <2>3, <2>4
<1>7. ASSUME NEW kv \in decodeMetadata(data) PROVE kv \in meta
  <2>1. PICK i \in 0 .. L : st[i] # L /\ kv = At(st[i])
    BY <1>5, Zenon
  <2>2. i \in 0 .. K - 1
    <3>1. i \notin K .. L
      BY <1>2, <2>1
    <3> QED BY <1>3, <3>1
  <2>3. kv = Order(meta)[i + 1]
    BY <1>4, <2>1, <2>2
  <2>4. i + 1 \in 1 .. K
    BY <1>3, <2>2
  <2> QED BY <2>3, <2>4, OrderFacts DEF K
<1> QED BY <1>6, <1>7 DEF data

\* Only empty metadata takes no bytes.
LEMMA MetadataEmpty ==
  /\ encodeMetadata({}) = <<>>
  /\ \A meta \in Metadata : IsFiniteSet(meta) /\ meta # {} =>
        Len(encodeMetadata(meta)) > 0
<1>1. Cardinality({}) = 0 /\ IsFiniteSet({}) /\ {} \in Metadata
  BY FS_EmptySet DEF Metadata
<1>2. Pairs({}) = <<>>
  BY <1>1, PairsFacts
<1>3. encodeMetadata({}) = <<>>
  BY <1>1, <1>2, PairsFacts, FlattenType
<1>4. ASSUME NEW meta \in Metadata, IsFiniteSet(meta), meta # {}
      PROVE  Len(encodeMetadata(meta)) > 0
  <2>1. Cardinality(meta) \in Nat /\ Cardinality(meta) # 0
    BY <1>4, FS_EmptySet, OrderFacts
  <2>2. PICK g : Flattens(Pairs(meta), g)
    BY <1>4, PairsFacts, FlattenExists
  <2>3. 0 \in 0 .. Cardinality(meta) - 1
    BY <2>1
  <2>4. /\ g[0] \in Texts /\ Order(meta)[0 + 1] \in Texts \X Texts
        /\ Len(g[0 + 1]) = Len(g[0]) + Len(Pair(Order(meta)[0 + 1]))
        /\ Len(g[0 + 1]) <= Len(encodeMetadata(meta))
    BY <1>4, <2>2, <2>3, PairsPlaces, Zenon
  <2>5. PICK kv \in Texts \X Texts : kv = Order(meta)[0 + 1]
    BY <2>4, Zenon
  <2>6. Len(g[0]) \in Nat /\ Len(encodeMetadata(meta)) \in Nat
    BY <1>4, <2>4, PairsFacts DEF Texts
  <2>7. PICK a \in Nat, x \in Nat, y \in Nat, b \in Nat :
           /\ a = Len(g[0]) /\ x = Len(kv[1]) /\ y = Len(kv[2])
           /\ b = Len(encodeMetadata(meta))
    BY <2>6, PairFacts, Zenon
  <2>8. a + (8 + x + y) <= b
    BY <2>4, <2>5, <2>7, PairFacts, Zenon
  <2>9. b > 0
    BY <2>8
  <2> QED BY <2>7, <2>9
<1> QED BY <1>3, <1>4

-----------------------------------------------------------------------------
(* Messages. *)

\* The field f is at offset n of data.
Reads(data, n, f) ==
    FieldLen(data, n) = Len(f) /\ Field(data, n) = f /\ After(data, n) = n + 4 + Len(f)

\* What is written behind its length is a field.
LEMMA FieldReads ==
  ASSUME NEW p \in Texts, NEW f, Fits(f), NEW r \in Texts
  PROVE  Reads(p \o (WithLength(f) \o r), Len(p), f)
BY FieldAt, Zenon DEF Reads

\* A message that Encode writes, with its metadata encoded.
Body(x) == WithLength(x.path) \o WithLength(x.method)
           \o WithLength(encodeMetadata(x.meta)) \o WithLength(x.payload)

\* Concatenation is associative.
Regroup(s, t, u) == (s \o t) \o u = s \o (t \o u)

\* The same as TextAssociative, to be used among many texts.
LEMMA Regrouped ==
  ASSUME NEW s \in Texts, NEW t \in Texts, NEW u \in Texts
  PROVE  Regroup(s, t, u)
BY TextAssociative, Zenon DEF Regroup

\* Four texts, each with what comes before it and after it.
LEMMA FourTexts ==
  ASSUME NEW a \in Texts, NEW b \in Texts, NEW c \in Texts, NEW d \in Texts
  PROVE  \E s \in Texts, t \in Texts, u \in Texts, v \in Texts :
            /\ ((a \o b) \o c) \o d = <<>> \o (a \o s)
            /\ ((a \o b) \o c) \o d = a \o (b \o t)
            /\ ((a \o b) \o c) \o d = u \o (c \o d)
            /\ ((a \o b) \o c) \o d = v \o (d \o <<>>)
            /\ Len(u) = Len(a) + Len(b)
            /\ Len(v) = Len(u) + Len(c)
            /\ Len(((a \o b) \o c) \o d) = Len(v) + Len(d)
            /\ ((a \o b) \o c) \o d \in Texts
<1>1. PICK u \in Texts : u = a \o b /\ Len(u) = Len(a) + Len(b)
  BY TextFacts, Zenon
<1>2. PICK v \in Texts : v = u \o c /\ Len(v) = Len(u) + Len(c)
  BY TextFacts, Zenon
<1>3. PICK w \in Texts : w = v \o d /\ Len(w) = Len(v) + Len(d)
  BY TextFacts, Zenon
<1>4. PICK t \in Texts : t = c \o d
  BY TextFacts, Zenon
<1>5. PICK s \in Texts : s = b \o t
  BY TextFacts, Zenon
<1>6. w = u \o t
  <2>0. Regroup(u, c, d)
    BY Regrouped, Zenon
  <2>1. (u \o c) \o d = u \o (c \o d)
    BY <2>0, Zenon DEF Regroup
  <2> QED BY <1>2, <1>3, <1>4, <2>1, Zenon
<1>7. w = a \o s
  <2>0. Regroup(a, b, t)
    BY Regrouped, Zenon
  <2>1. (a \o b) \o t = a \o (b \o t)
    BY <2>0, Zenon DEF Regroup
  <2> QED BY <1>1, <1>5, <1>6, <2>1, Zenon
<1>8. <<>> \o (a \o s) = a \o s
  <2>1. PICK x \in Texts : x = a \o s
    BY TextFacts, Zenon
  <2>2. <<>> \o x = x
    BY TextFacts, Zenon
  <2> QED BY <2>1, <2>2, Zenon
<1>9. d \o <<>> = d
  BY TextFacts, Zenon
<1>10. w = ((a \o b) \o c) \o d
  BY <1>1, <1>2, <1>3, Zenon
<1>11. /\ w = <<>> \o (a \o s) /\ w = a \o (b \o t) /\ w = u \o (c \o d)
       /\ w = v \o (d \o <<>>)
  BY <1>3, <1>4, <1>5, <1>6, <1>7, <1>8, <1>9, Zenon
<1>12. Len(((a \o b) \o c) \o d) = Len(v) + Len(d) /\ ((a \o b) \o c) \o d \in Texts
  BY <1>3, <1>10, Zenon
<1> WITNESS s \in Texts, t \in Texts, u \in Texts, v \in Texts
<1> QED BY <1>1, <1>2, <1>10, <1>11, <1>12, Zenon

\* Four texts behind their lengths are read where the others end.
ReadsFour(data, a, b, c, d) ==
    /\ data \in Texts
    /\ Len(data) = 16 + Len(a) + Len(b) + Len(c) + Len(d)
    /\ Reads(data, 0, a)
    /\ Reads(data, 4 + Len(a), b)
    /\ Reads(data, 8 + Len(a) + Len(b), c)
    /\ SubSeq(data, 17 + Len(a) + Len(b) + Len(c), Len(data)) = d

\* The body of a message is read field by field.
LEMMA FourFields ==
  ASSUME NEW a, NEW b, NEW c, NEW d, Fits(a), Fits(b), Fits(c), Fits(d),
         NEW data, data = WithLength(a) \o WithLength(b) \o WithLength(c)
                          \o WithLength(d)
  PROVE  ReadsFour(data, a, b, c, d)
<1>1. /\ a \in Texts /\ b \in Texts /\ c \in Texts /\ d \in Texts
      /\ Len(a) \in Nat /\ Len(b) \in Nat /\ Len(c) \in Nat /\ Len(d) \in Nat
  BY SMT DEF Fits, Texts
<1>2. PICK al \in Nat, bl \in Nat, cl \in Nat, dl \in Nat :
          al = Len(a) /\ bl = Len(b) /\ cl = Len(c) /\ dl = Len(d)
  BY <1>1, Zenon
<1>3. PICK wa \in Texts : wa = WithLength(a) /\ Len(wa) = 4 + al
  BY <1>1, <1>2, WithLengthFacts, Zenon
<1>4. PICK wb \in Texts : wb = WithLength(b) /\ Len(wb) = 4 + bl
  BY <1>1, <1>2, WithLengthFacts, Zenon
<1>5. PICK wc \in Texts : wc = WithLength(c) /\ Len(wc) = 4 + cl
  BY <1>1, <1>2, WithLengthFacts, Zenon
<1>6. PICK wd \in Texts : wd = WithLength(d) /\ Len(wd) = 4 + dl
  BY <1>1, <1>2, WithLengthFacts, Zenon
<1>7. data = ((wa \o wb) \o wc) \o wd
  BY <1>3, <1>4, <1>5, <1>6, Zenon
<1>8. PICK s \in Texts, t \in Texts, u \in Texts, v \in Texts :
            /\ data = <<>> \o (wa \o s)
            /\ data = wa \o (wb \o t)
            /\ data = u \o (wc \o wd)
            /\ data = v \o (wd \o <<>>)
            /\ Len(u) = Len(wa) + Len(wb)
            /\ Len(v) = Len(u) + Len(wc)
            /\ Len(data) = Len(v) + Len(wd)
            /\ data \in Texts
  <2>1. \E s \in Texts, t \in Texts, u \in Texts, v \in Texts :
            /\ ((wa \o wb) \o wc) \o wd = <<>> \o (wa \o s)
            /\ ((wa \o wb) \o wc) \o wd = wa \o (wb \o t)
            /\ ((wa \o wb) \o wc) \o wd = u \o (wc \o wd)
            /\ ((wa \o wb) \o wc) \o wd = v \o (wd \o <<>>)
            /\ Len(u) = Len(wa) + Len(wb)
            /\ Len(v) = Len(u) + Len(wc)
            /\ Len(((wa \o wb) \o wc) \o wd) = Len(v) + Len(wd)
            /\ ((wa \o wb) \o wc) \o wd \in Texts
    BY FourTexts, Zenon
  <2> QED BY ZenonT(40), <1>7, <2>1
<1>9. Len(u) = 8 + al + bl /\ Len(v) = 12 + al + bl + cl
      /\ Len(data) = 16 + al + bl + cl + dl
  BY <1>3, <1>4, <1>5, <1>6, <1>8
<1>10. Reads(data, 0, a)
  <2>1. Reads(<<>> \o (WithLength(a) \o s), Len(<<>>), a)
    BY FieldReads, TextFacts, Zenon
  <2>2. Len(<<>>) = 0
    OBVIOUS
  <2> QED BY <1>3, <1>8, <2>1, <2>2, Zenon
<1>11. Reads(data, 4 + al, b)
  <2>1. Reads(wa \o (WithLength(b) \o t), Len(wa), b)
    BY FieldReads, Zenon
  <2> QED BY <1>3, <1>4, <1>8, <2>1, Zenon
<1>12. Reads(data, 8 + al + bl, c)
  <2>1. Reads(u \o (WithLength(c) \o wd), Len(u), c)
    BY FieldReads, Zenon
  <2> QED BY <1>5, <1>8, <1>9, <2>1, Zenon
<1>13. SubSeq(data, 17 + al + bl + cl, Len(data)) = d
  <2>1. Reads(v \o (WithLength(d) \o <<>>), Len(v), d)
    BY FieldReads, TextFacts, Zenon
  <2>2. Reads(data, 12 + al + bl + cl, d)
    BY <1>6, <1>8, <1>9, <2>1, Zenon
  <2>3. SubSeq(data, (12 + al + bl + cl) + 5, (12 + al + bl + cl) + 4 + dl) = d
    BY <1>2, <2>2, Zenon DEF Reads, Field
  <2>4. /\ (12 + al + bl + cl) + 5 = 17 + al + bl + cl
        /\ (12 + al + bl + cl) + 4 + dl = 16 + al + bl + cl + dl
    OBVIOUS
  <2> QED BY <1>9, <2>3, <2>4, Zenon
<1> QED BY <1>2, <1>8, <1>9, <1>10, <1>11, <1>12, <1>13, Zenon DEF ReadsFour

\* Four short texts fit together into one field.
LEMMA ShortFits ==
  ASSUME NEW a \in Texts, NEW b \in Texts, NEW c \in Texts, NEW d \in Texts,
         Short(a), Short(b), Short(c), Short(d),
         NEW data, ReadsFour(data, a, b, c, d)
  PROVE  Fits(data)
<1>1. PICK al \in Nat, bl \in Nat, cl \in Nat, dl \in Nat :
          /\ al = Len(a) /\ bl = Len(b) /\ cl = Len(c) /\ dl = Len(d)
          /\ al < 32 * 256 * 256 * 256 /\ bl < 32 * 256 * 256 * 256
          /\ cl < 32 * 256 * 256 * 256 /\ dl < 32 * 256 * 256 * 256
  BY SMT DEF Short, Texts
<1>2. 16 + al + bl + cl + dl < 256 * 256 * 256 * 256
  BY <1>1, SMT
<1> QED BY <1>1, <1>2, SMT DEF ReadsFour, Fits

\* A text that is short fits into a field.
LEMMA ShortFits1 ==
  ASSUME NEW a \in Texts, Short(a)
  PROVE  Fits(a)
<1>1. PICK al \in Nat : al = Len(a) /\ al < 32 * 256 * 256 * 256
  BY SMT DEF Short, Texts
<1>2. al < 256 * 256 * 256 * 256
  BY <1>1, SMT
<1> QED BY <1>1, <1>2, SMT DEF Fits

\* The body of a message.
LEMMA BodyFacts ==
  ASSUME NEW x, Sendable(x)
  PROVE  /\ ReadsFour(Body(x), x.path, x.method, encodeMetadata(x.meta), x.payload)
         /\ Fits(Body(x))
         /\ Fits(encodeMetadata(x.meta))
<1>1. /\ x.path \in Texts /\ x.method \in Texts /\ x.payload \in Texts
      /\ x.meta \in Metadata /\ IsFiniteSet(x.meta)
  BY DEF Sendable, Messages
<1>2. encodeMetadata(x.meta) \in Texts
  BY <1>1, PairsFacts
<1>3. /\ Short(x.path) /\ Short(x.method) /\ Short(encodeMetadata(x.meta))
      /\ Short(x.payload)
  BY DEF Sendable
<1>4. PICK a \in Texts, b \in Texts, c \in Texts, d \in Texts :
          a = x.path /\ b = x.method /\ c = encodeMetadata(x.meta) /\ d = x.payload
  BY <1>1, <1>2, Zenon
<1>5. Short(a) /\ Short(b) /\ Short(c) /\ Short(d)
  BY <1>3, <1>4, Zenon
<1>6. Fits(a) /\ Fits(b) /\ Fits(c) /\ Fits(d)
  BY <1>5, ShortFits1, Zenon
<1>7. PICK data : data = WithLength(a) \o WithLength(b) \o WithLength(c)
                         \o WithLength(d)
  BY Zenon
<1>8. ReadsFour(data, a, b, c, d)
  BY <1>6, <1>7, FourFields, Zenon
<1>9. Fits(data)
  BY <1>5, <1>8, ShortFits, Zenon
<1>10. data = Body(x)
  BY <1>4, <1>7, Zenon DEF Body
<1> QED BY <1>4, <1>6, <1>8, <1>9, <1>10, Zenon

\* The server, or the client, decodes what the other has encoded, and finds
\* the next message behind it.
THEOREM RoundTrip == RoundTrips
<1> SUFFICES ASSUME NEW x, Sendable(x), NEW rest \in Texts
             PROVE  /\ Encode(x) \in Texts /\ Encode(x) # <<>>
                    /\ Carries(Encode(x) \o rest, x, rest)
  BY Zenon DEF RoundTrips
<1>1. x.header \in Texts /\ Len(x.header) = 12
  BY DEF Sendable, Messages
<1>0. PICK body : body = Body(x)
  OBVIOUS
<1>2. PICK h \in Texts : h = x.header /\ Len(h) = 12 /\ body = Body(x)
  BY <1>0, <1>1
<1>3. Fits(body) /\ body \in Texts /\ Len(body) \in Nat
  BY <1>2, BodyFacts, SMT DEF Fits, Texts
<1>4. PICK w \in Texts : w = WithLength(body) /\ Len(w) = 4 + Len(body)
  BY <1>3, WithLengthFacts, Zenon
<1>5. Encode(x) = h \o w
  BY <1>2, <1>4, Zenon DEF Encode, Body
<1>6. PICK e \in Texts : e = h \o w /\ Len(e) = Len(h) + Len(w)
  BY TextFacts, Zenon
<1>7. PICK stream \in Texts : stream = e \o rest /\ Len(stream) = Len(e) + Len(rest)
  BY TextFacts, Zenon
<1>8. PICK l \in Nat, n \in Nat : l = Len(body) /\ n = Len(rest)
  BY <1>3 DEF Texts
<1>9. Len(e) = 16 + l /\ Len(stream) = 16 + l + n
  BY <1>2, <1>4, <1>6, <1>7, <1>8
<1>10. stream = h \o (WithLength(body) \o rest)
  <2>1. Regroup(h, w, rest)
    BY Regrouped, Zenon
  <2> QED BY <1>4, <1>6, <1>7, <2>1, Zenon DEF Regroup
<1>11. Reads(stream, 12, body)
  <2>1. Reads(h \o (WithLength(body) \o rest), Len(h), body)
    BY <1>3, FieldReads, Zenon
  <2> QED BY <1>2, <1>10, <2>1, Zenon
<1>12. FrameLen(stream) = 16 + l
  BY <1>8, <1>11, Zenon DEF FrameLen, Reads
<1>13. Complete(stream)
  BY <1>9, <1>12 DEF Complete
<1>14. SubSeq(stream, FrameLen(stream) + 1, Len(stream)) = rest
  <2>1. SubSeq(e \o rest, Len(e) + 1, Len(e) + Len(rest)) = SubSeq(rest, 1, Len(rest))
    <3>1. 1 \in 1 .. Len(rest) + 1 /\ Len(rest) \in 0 .. Len(rest)
      BY <1>8
    <3> QED BY <3>1, SubSeqRight, Zenon
  <2>2. SubSeq(rest, 1, Len(rest)) = rest
    BY DEF Texts
  <2> QED BY <1>7, <1>9, <1>12, <2>1, <2>2, Zenon
<1>15. SubSeq(stream, 17, FrameLen(stream)) = body
  <2>1. SubSeq(stream, 12 + 5, 12 + 4 + FieldLen(stream, 12)) = body
    BY <1>11, Zenon DEF Reads, Field
  <2>2. 12 + 5 = 17 /\ 12 + 4 = 16
    OBVIOUS
  <2> QED BY <2>1, <2>2, Zenon DEF FrameLen
<1>16. SubSeq(stream, 1, 12) = h
  <2>1. PICK t \in Texts : t = w \o rest
    BY TextFacts, Zenon
  <2>2. SubSeq(h \o t, 1, Len(h)) = h
    BY SubSeqLeft, Zenon
  <2> QED BY <1>2, <1>4, <1>10, <2>1, <2>2, Zenon
<1>17. ASSUME NEW m PROVE Decode(m, stream) = Received(x, m)
  <2>1. ReadsFour(body, x.path, x.method, encodeMetadata(x.meta), x.payload)
    BY <1>2, BodyFacts, Zenon
  <2>2. x.meta \in Metadata /\ IsFiniteSet(x.meta) /\ Fits(encodeMetadata(x.meta))
    BY BodyFacts DEF Sendable, Messages
  <2>3. PICK a \in Texts, b \in Texts, c \in Texts, d \in Texts :
          a = x.path /\ b = x.method /\ c = encodeMetadata(x.meta) /\ d = x.payload
    BY <2>2, PairsFacts DEF Sendable, Messages
  <2>4. PICK al \in Nat, bl \in Nat, cl \in Nat :
          al = Len(a) /\ bl = Len(b) /\ cl = Len(c)
    BY DEF Texts
  <2>5. ReadsFour(body, a, b, c, d)
    BY <2>1, <2>3, Zenon
  <2>6. /\ Field(body, 0) = a /\ After(body, 0) = 4 + al
    <3>1. Field(body, 0) = a /\ After(body, 0) = 0 + 4 + al
      BY <2>4, <2>5, Zenon DEF ReadsFour, Reads
    <3> QED BY <3>1
  <2>7. Field(body, 4 + al) = b /\ After(body, 4 + al) = 8 + al + bl
    <3>1. Field(body, 4 + al) = b /\ After(body, 4 + al) = (4 + al) + 4 + bl
      BY <2>4, <2>5, Zenon DEF ReadsFour, Reads
    <3> QED BY <3>1
  <2>8. /\ FieldLen(body, 8 + al + bl) = cl /\ Field(body, 8 + al + bl) = c
        /\ After(body, 8 + al + bl) = 12 + al + bl + cl
    <3>1. /\ FieldLen(body, 8 + al + bl) = cl /\ Field(body, 8 + al + bl) = c
          /\ After(body, 8 + al + bl) = (8 + al + bl) + 4 + cl
      BY <2>4, <2>5, Zenon DEF ReadsFour, Reads
    <3> QED BY <3>1
  <2>9. SubSeq(body, (12 + al + bl + cl) + 5, Len(body)) = d
    <3>1. SubSeq(body, 17 + al + bl + cl, Len(body)) = d
      BY <2>4, <2>5, Zenon DEF ReadsFour
    <3>2. (12 + al + bl + cl) + 5 = 17 + al + bl + cl
      OBVIOUS
    <3> QED BY <3>1, <3>2, Zenon
  <2>10. cl > 0 => x.meta # {} /\ decodeMetadata(c) = x.meta
    <3>1. decodeMetadata(c) = x.meta
      BY <2>2, <2>3, MetadataRead, Zenon
    <3>2. x.meta = {} => cl = 0
      BY <2>3, <2>4, MetadataEmpty
    <3> QED BY <3>1, <3>2
  <2>11. ~(cl > 0) => x.meta = {}
    BY <2>2, <2>3, <2>4, MetadataEmpty
  <2>12. Decode(m, stream) =
           [header |-> h, path |-> a, method |-> b,
            meta |-> IF cl > 0 THEN decodeMetadata(c) ELSE m.meta, payload |-> d]
    BY <1>15, <1>16, <2>6, <2>7, <2>8, <2>9, Zenon DEF Decode
  <2>13. (IF cl > 0 THEN decodeMetadata(c) ELSE m.meta) =
         IF x.meta = {} THEN m.meta ELSE x.meta
    BY <2>10, <2>11, Zenon
  <2>14. x = [header |-> h, path |-> a, method |-> b, meta |-> x.meta, payload |-> d]
    BY <1>2, <2>3 DEF Sendable, Messages
  <2>15. Received(x, m) = [header |-> h, path |-> a, method |-> b,
                           meta |-> IF x.meta = {} THEN m.meta ELSE x.meta,
                           payload |-> d]
    BY <2>14 DEF Received
  <2> QED BY <2>12, <2>13, <2>15
<1>18. Carries(stream, x, rest)
  BY <1>13, <1>14, <1>17, Zenon DEF Carries
<1>19. e # <<>>
  BY <1>9
<1> QED BY <1>5, <1>6, <1>7, <1>18, <1>19, Zenon

-----------------------------------------------------------------------------
(* The header. *)

\* The bits of the bytes that occur in a header, and of the masks.
LEMMA BitsFacts ==
  /\ Bits(0) = {} /\ Bits(1) = {1} /\ Bits(3) = {1, 2} /\ Bits(4) = {3}
  /\ Bits(16) = {5} /\ Bits(28) = {3, 4, 5} /\ Bits(32) = {6} /\ Bits(64) = {7}
  /\ Bits(128) = {8} /\ Bits(129) = {1, 8} /\ Bits(132) = {3, 8}
  /\ Bits(133) = {1, 3, 8} /\ Bits(192) = {7, 8} /\ Bits(240) = {5, 6, 7, 8}
<1>1. /\ Weight[1] = 1 /\ Weight[2] = 2 /\ Weight[3] = 4 /\ Weight[4] = 8
      /\ Weight[5] = 16 /\ Weight[6] = 32 /\ Weight[7] = 64 /\ Weight[8] = 128
  BY SMT DEF Weight
<1>2. \A i : i \in 1 .. 8 <=> i \in {1, 2, 3, 4, 5, 6, 7, 8}
  BY SMT
<1>3. ASSUME NEW b \in Nat
      PROVE  Bits(b) = {i \in {1, 2, 3, 4, 5, 6, 7, 8} : (b \div Weight[i]) % 2 = 1}
  BY <1>2, Zenon DEF Bits
<1>4. Bits(0) = {} /\ Bits(1) = {1} /\ Bits(3) = {1, 2} /\ Bits(4) = {3}
  BY <1>1, <1>3, SMT
<1>5. Bits(16) = {5} /\ Bits(28) = {3, 4, 5} /\ Bits(32) = {6} /\ Bits(64) = {7}
  BY <1>1, <1>3, SMT
<1>6. Bits(128) = {8} /\ Bits(129) = {1, 8} /\ Bits(132) = {3, 8}
  BY <1>1, <1>3, SMT
<1>7. Bits(133) = {1, 3, 8} /\ Bits(192) = {7, 8} /\ Bits(240) = {5, 6, 7, 8}
  BY <1>1, <1>3, SMT
<1> QED BY <1>4, <1>5, <1>6, <1>7

\* What the setters make of the bytes that occur.
LEMMA OrFacts ==
  /\ Or(0, 0) = 0 /\ Or(0, 4) = 4 /\ Or(0, 16) = 16 /\ Or(0, 32) = 32
  /\ Or(0, 64) = 64 /\ Or(0, 128) = 128 /\ Or(4, 128) = 132 /\ Or(64, 128) = 192
  /\ Or(128, 1) = 129 /\ Or(132, 1) = 133 /\ Or(0, 0) = 0
  /\ And(4, 28) = 4 /\ And(1, 3) = 1
<1>1. Or(0, 0) = 0 /\ Or(0, 4) = 4
  BY BitsFacts, SMT DEF Or, FromBits, Weight
<1>2. Or(0, 16) = 16 /\ Or(0, 32) = 32
  BY BitsFacts, SMT DEF Or, FromBits, Weight
<1>3. Or(0, 64) = 64 /\ Or(0, 128) = 128
  BY BitsFacts, SMT DEF Or, FromBits, Weight
<1>4. Or(4, 128) = 132 /\ Or(64, 128) = 192
  BY BitsFacts, SMT DEF Or, FromBits, Weight
<1>5. Or(128, 1) = 129 /\ Or(132, 1) = 133
  BY BitsFacts, SMT DEF Or, FromBits, Weight
<1>6. And(4, 28) = 4 /\ And(1, 3) = 1
  BY BitsFacts, SMT DEF And, FromBits, Weight
<1> QED BY <1>1, <1>2, <1>3, <1>4, <1>5, <1>6, Zenon

\* The third byte of a header: the flags.  The fourth one: the codec.
Flags == {0, 4, 64, 128, 132, 192, 129, 133}

\* What the getters find in them.
LEMMA AndFacts ==
  /\ \A b \in Flags : And(b, 64) = 64 <=> b \in {64, 192}
  /\ \A b \in Flags : And(b, 128) \div 128 = IF b \in {0, 4, 64} THEN 0 ELSE 1
  /\ \A b \in Flags : And(b, 28) \div 4 = IF b \in {4, 132, 133} THEN 1 ELSE 0
  /\ \A b \in Flags : And(b, 3) = IF b \in {129, 133} THEN 1 ELSE 0
  /\ And(0, 240) \div 16 = 0 /\ And(16, 240) \div 16 = 1 /\ And(32, 240) \div 16 = 2
<1>1. \A b \in Flags : And(b, 64) = 64 <=> b \in {64, 192}
  BY BitsFacts, SMT DEF And, FromBits, Weight, Flags
<1>2. \A b \in Flags : And(b, 128) = IF b \in {0, 4, 64} THEN 0 ELSE 128
  BY BitsFacts, SMT DEF And, FromBits, Weight, Flags
<1>3. \A b \in Flags : And(b, 28) = IF b \in {4, 132, 133} THEN 4 ELSE 0
  BY BitsFacts, SMT DEF And, FromBits, Weight, Flags
<1>4. \A b \in Flags : And(b, 3) = IF b \in {129, 133} THEN 1 ELSE 0
  BY BitsFacts, SMT DEF And, FromBits, Weight, Flags
<1>5. And(0, 240) = 0 /\ And(16, 240) = 16 /\ And(32, 240) = 32
  BY BitsFacts, SMT DEF And, FromBits, Weight
<1>6. 0 \div 128 = 0 /\ 128 \div 128 = 1 /\ 4 \div 4 = 1 /\ 0 \div 4 = 0
      /\ 0 \div 16 = 0 /\ 16 \div 16 = 1 /\ 32 \div 16 = 2
  BY SMT
<1>7. \A b \in Flags : And(b, 128) \div 128 = IF b \in {0, 4, 64} THEN 0 ELSE 1
  BY <1>2, <1>6, SMT
<1>8. \A b \in Flags : And(b, 28) \div 4 = IF b \in {4, 132, 133} THEN 1 ELSE 0
  BY <1>3, <1>6, SMT
<1> QED BY <1>1, <1>4, <1>5, <1>6, <1>7, <1>8, SMT

\* Texts are functions.
LEMMA TextsAreFunctions ==
  ASSUME NEW n \in Nat
  PROVE  \A q : q \in [1 .. n -> Bytes] <=> q \in Texts /\ Len(q) = n
BY DEF Texts

\* The header with the flags f, the codec byte c and the sequence number s.
Header(f, c, s) ==
    [i \in 1 .. 12 |-> IF i = 1 THEN 8
                       ELSE IF i = 3 THEN f
                       ELSE IF i = 4 THEN c
                       ELSE IF i <= 8 THEN 0 ELSE Uint32Bytes(s)[i - 8]]

\* What can be read from a header, and what can be set in it.
LEMMA HeaderFacts ==
  ASSUME NEW f \in Bytes, NEW c \in Bytes, NEW s \in Nat
  PROVE  /\ Header(f, c, s) \in Texts /\ Len(Header(f, c, s)) = 12
         /\ Header(f, c, s)[1] = 8 /\ Header(f, c, s)[3] = f /\ Header(f, c, s)[4] = c
<1>1. PICK b \in [1 .. 4 -> Bytes] : b = Uint32Bytes(s)
  BY Uint32Type, TextsAreFunctions, Zenon
<1>2. ASSUME NEW i \in 1 .. 12 PROVE Header(f, c, s)[i] \in Bytes
  <2>1. i > 8 => i - 8 \in 1 .. 4
    OBVIOUS
  <2>2. i > 8 => b[i - 8] \in Bytes
    BY <2>1
  <2>3. 0 \in Bytes /\ 8 \in Bytes
    BY DEF Bytes
  <2>4. Header(f, c, s)[i] = IF i = 1 THEN 8
                       ELSE IF i = 3 THEN f
                       ELSE IF i = 4 THEN c
                       ELSE IF i <= 8 THEN 0 ELSE b[i - 8]
    BY <1>1, Zenon DEF Header
  <2> QED BY <2>2, <2>3, <2>4
<1>3. Header(f, c, s) \in [1 .. 12 -> Bytes]
  BY <1>2, Zenon DEF Header
<1>4. Header(f, c, s) \in Texts /\ Len(Header(f, c, s)) = 12
  BY <1>3, TextsAreFunctions, Zenon
<1>5. Header(f, c, s)[1] = 8 /\ Header(f, c, s)[3] = f /\ Header(f, c, s)[4] = c
  BY DEF Header
<1> QED BY <1>4, <1>5

\* Setting a byte of it, or its sequence number.
SetByte(h, i, x) == [h EXCEPT ![i] = x]

\* Setting the flags.
LEMMA HeaderFlags ==
  ASSUME NEW f, NEW c, NEW s, NEW x
  PROVE  SetByte(Header(f, c, s), 3, x) = Header(x, c, s)
<1>1. [Header(f, c, s) EXCEPT ![3] = x]
         = [i \in 1 .. 12 |-> IF i = 3 THEN x ELSE Header(f, c, s)[i]]
  BY Zenon DEF Header
<1>2. ASSUME NEW i \in 1 .. 12
      PROVE  (IF i = 3 THEN x ELSE Header(f, c, s)[i]) = Header(x, c, s)[i]
  BY DEF Header
<1>3. Header(x, c, s) = [i \in 1 .. 12 |-> Header(x, c, s)[i]]
  BY Zenon DEF Header
<1> QED BY <1>1, <1>2, <1>3, Zenon DEF SetByte

\* The same for the codec byte.
LEMMA HeaderCodec ==
  ASSUME NEW f, NEW c, NEW s, NEW x
  PROVE  SetByte(Header(f, c, s), 4, x) = Header(f, x, s)
<1>1. [Header(f, c, s) EXCEPT ![4] = x]
         = [i \in 1 .. 12 |-> IF i = 4 THEN x ELSE Header(f, c, s)[i]]
  BY Zenon DEF Header
<1>2. ASSUME NEW i \in 1 .. 12
      PROVE  (IF i = 4 THEN x ELSE Header(f, c, s)[i]) = Header(f, x, s)[i]
  BY DEF Header
<1>3. Header(f, x, s) = [i \in 1 .. 12 |-> Header(f, x, s)[i]]
  BY Zenon DEF Header
<1> QED BY <1>1, <1>2, <1>3, Zenon DEF SetByte

\* The same for the sequence number.
LEMMA HeaderNumber ==
  ASSUME NEW f, NEW c, NEW s, NEW n
  PROVE  SetSeq(Header(f, c, s), n) = Header(f, c, n)
BY DEF Header, SetSeq

\* The sequence number is read as it was set.
LEMMA HeaderSeq ==
  ASSUME NEW f \in Bytes, NEW c \in Bytes, NEW s \in Nat,
         s < 256 * 256 * 256 * 256
  PROVE  Seq64(Header(f, c, s)) = s
<1>1. PICK b \in Texts : b = Uint32Bytes(s) /\ Len(b) = 4 /\ Uint32(b) = s
  BY Uint32Type, Uint32Facts, SMT
<1>2. /\ Header(f, c, s)[9] = b[1] /\ Header(f, c, s)[10] = b[2]
      /\ Header(f, c, s)[11] = b[3] /\ Header(f, c, s)[12] = b[4]
  BY <1>1, SMT DEF Header
<1>3. Uint32(<<b[1], b[2], b[3], b[4]>>) = Uint32(b)
  BY DEF Uint32
<1> QED BY <1>1, <1>2, <1>3, Zenon DEF Seq64

\* The getters on such a header.
LEMMA HeaderGets ==
  ASSUME NEW f \in Flags, NEW c \in {0, 16, 32}, NEW s \in Nat
  PROVE  /\ f \in Bytes /\ c \in Bytes
         /\ MessageType(Header(f, c, s)) = IF f \in {0, 4, 64} THEN Request ELSE Response
         /\ IsHeartbeat(Header(f, c, s)) <=> f \in {64, 192}
         /\ CompressType(Header(f, c, s)) = IF f \in {4, 132, 133} THEN Gzip ELSE None
         /\ MessageStatusType(Header(f, c, s)) =
               IF f \in {129, 133} THEN Error ELSE Normal
         /\ SerializeType(Header(f, c, s)) =
               IF c = 0 THEN 0 ELSE IF c = 16 THEN 1 ELSE 2
<1>1. f \in Bytes /\ c \in Bytes
  BY DEF Flags, Bytes
<1>2. Header(f, c, s)[3] = f /\ Header(f, c, s)[4] = c
  BY <1>1, HeaderFacts
<1>3. MessageType(Header(f, c, s)) = IF f \in {0, 4, 64} THEN Request ELSE Response
  BY <1>2, AndFacts DEF MessageType, Request, Response
<1>4. IsHeartbeat(Header(f, c, s)) <=> f \in {64, 192}
  BY <1>2, AndFacts DEF IsHeartbeat
<1>5. CompressType(Header(f, c, s)) = IF f \in {4, 132, 133} THEN Gzip ELSE None
  BY <1>2, AndFacts DEF CompressType, Gzip, None
<1>6. MessageStatusType(Header(f, c, s)) =
               IF f \in {129, 133} THEN Error ELSE Normal
  BY <1>2, AndFacts DEF MessageStatusType, Error, Normal
<1>7. SerializeType(Header(f, c, s)) =
               IF c = 0 THEN 0 ELSE IF c = 16 THEN 1 ELSE 2
  BY <1>2, AndFacts DEF SerializeType
<1> QED BY <1>1, <1>3, <1>4, <1>5, <1>6, <1>7

\* The setters of a byte, on such a header.
LEMMA HeaderOr ==
  ASSUME NEW f \in Bytes, NEW c \in Bytes, NEW s \in Nat, NEW x
  PROVE  /\ OrInto(Header(f, c, s), 3, x) = Header(Or(f, x % 256), c, s)
         /\ OrInto(Header(f, c, s), 4, x) = Header(f, Or(c, x % 256), s)
<1>1. Header(f, c, s)[3] = f /\ Header(f, c, s)[4] = c
  BY HeaderFacts
<1>2. PICK h : h = Header(f, c, s)
  OBVIOUS
<1>3. SetByte(h, 3, Or(h[3], x % 256)) = Header(Or(h[3], x % 256), c, s)
  BY <1>2, HeaderFlags
<1>4. SetByte(h, 4, Or(h[4], x % 256)) = Header(f, Or(h[4], x % 256), s)
  BY <1>2, HeaderCodec
<1> QED BY ZenonT(40), <1>1, <1>2, <1>3, <1>4 DEF OrInto, SetByte

\* The setters that send uses, on a header without flags.
LEMMA HeaderSets ==
  ASSUME NEW c \in {0, 16, 32}, NEW s \in Nat
  PROVE  /\ SetMessageType(Header(0, c, s), Request) = Header(0, c, s)
         /\ SetHeartbeat(Header(0, c, s), TRUE) = Header(64, c, s)
         /\ SetCompressType(Header(0, c, s), Gzip) = Header(4, c, s)
         /\ \A st \in Codecs :
               SetSerializeType(Header(0, 0, s), st) = Header(0, 16 * st, s)
<1>1. 0 \in Bytes /\ c \in Bytes
  BY SMT DEF Bytes
<1>2. \A x : /\ OrInto(Header(0, c, s), 3, x) = Header(Or(0, x % 256), c, s)
             /\ OrInto(Header(0, 0, s), 4, x) = Header(0, Or(0, x % 256), s)
  BY <1>1, HeaderOr
<1>3. /\ (0 * 128) % 256 = 0 /\ (1 * 4) % 256 = 4 /\ 4 % 256 = 4
      /\ (0 * 16) % 256 = 0 /\ (1 * 16) % 256 = 16 /\ (2 * 16) % 256 = 32
      /\ 16 * 0 = 0 /\ 16 * 1 = 16 /\ 16 * 2 = 32
  BY SMT
<1>4. SetMessageType(Header(0, c, s), Request) = Header(0, c, s)
  BY <1>2, <1>3, OrFacts DEF SetMessageType, Request
<1>5. SetHeartbeat(Header(0, c, s), TRUE) = Header(64, c, s)
  <2>1. Header(0, c, s)[3] = 0
    BY <1>1, HeaderFacts
  <2>2. PICK h : h = Header(0, c, s)
    OBVIOUS
  <2>3. SetHeartbeat(h, TRUE) = [h EXCEPT ![3] = Or(h[3], 64)]
    BY DEF SetHeartbeat
  <2>4. SetByte(h, 3, Or(h[3], 64)) = Header(Or(h[3], 64), c, s)
    BY <2>2, HeaderFlags
  <2> QED BY <2>1, <2>2, <2>3, <2>4, OrFacts, Zenon DEF SetByte
<1>6. SetCompressType(Header(0, c, s), Gzip) = Header(4, c, s)
  BY <1>2, <1>3, OrFacts DEF SetCompressType, Gzip
<1>7. ASSUME NEW st \in Codecs
      PROVE  SetSerializeType(Header(0, 0, s), st) = Header(0, 16 * st, s)
  BY <1>2, <1>3, OrFacts DEF SetSerializeType, Codecs
<1> QED BY <1>4, <1>5, <1>6, <1>7, Zenon

\* The setters of the server, on the header of a request and of a response.
LEMMA HeaderReply ==
  ASSUME NEW c \in {0, 16, 32}, NEW s \in Nat
  PROVE  /\ \A f \in {0, 4, 64} :
               SetMessageType(Header(f, c, s), Response) = Header(f + 128, c, s)
         /\ \A f \in {128, 132} :
               SetMessageStatusType(Header(f, c, s), Error) = Header(f + 1, c, s)
<1>1. \A f \in {0, 4, 64, 128, 132} : f \in Bytes
  BY SMT DEF Bytes
<1>2. c \in Bytes
  BY SMT DEF Bytes
<1>3. \A f \in {0, 4, 64, 128, 132} : \A x :
         OrInto(Header(f, c, s), 3, x) = Header(Or(f, x % 256), c, s)
  BY <1>1, <1>2, HeaderOr
<1>4. /\ (1 * 128) % 256 = 128 /\ 1 % 256 = 1
      /\ 0 + 128 = 128 /\ 4 + 128 = 132 /\ 64 + 128 = 192
      /\ 128 + 1 = 129 /\ 132 + 1 = 133
  BY SMT
<1>5. ASSUME NEW f \in {0, 4, 64}
      PROVE  SetMessageType(Header(f, c, s), Response) = Header(f + 128, c, s)
  BY <1>3, <1>4, OrFacts DEF SetMessageType, Response
<1>6. ASSUME NEW f \in {128, 132}
      PROVE  SetMessageStatusType(Header(f, c, s), Error) = Header(f + 1, c, s)
  BY SMTT(30), <1>3, <1>4, OrFacts DEF SetMessageStatusType, Error
<1> QED BY <1>5, <1>6
=============================================================================
