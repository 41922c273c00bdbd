----------------------------- MODULE TextLemmas -------------------------------
(***************************************************************************)
(* Texts as sequences of characters: what stands where when texts are put  *)
(* together (sprintf, memmove), and what a copy of a part of one holds.    *)
(***************************************************************************)
EXTENDS Integers, Sequences, SequenceTheorems, WellFoundedInduction, TLAPS

(* One text behind another. *)
LEMMA Concat ==
    ASSUME NEW S, NEW s \in Seq(S), NEW t \in Seq(S), NEW u, u = s \o t
    PROVE  /\ u \in Seq(S) /\ Len(u) = Len(s) + Len(t) /\ Len(s) \in Nat /\ Len(t) \in Nat
           /\ \A k \in 1..Len(s) : u[k] = s[k]
           /\ \A k \in 1..Len(t) : u[Len(s) + k] = t[k]
<1>1. Len(s) \in Nat /\ Len(t) \in Nat
    BY LenProperties
<1>2. /\ u \in Seq(S) /\ Len(u) = Len(s) + Len(t)
      /\ \A k \in 1..Len(s) + Len(t) : u[k] = IF k <= Len(s) THEN s[k] ELSE t[k - Len(s)]
    BY ConcatProperties
<1>3. \A k \in 1..Len(s) : u[k] = s[k]
    BY <1>1, <1>2
<1>4. ASSUME NEW k \in 1..Len(t) PROVE u[Len(s) + k] = t[k]
  <2>1. Len(s) + k \in 1..Len(s) + Len(t) /\ ~(Len(s) + k <= Len(s)) /\ Len(s) + k - Len(s) = k
      BY <1>1
  <2> QED
      BY <1>2, <2>1
<1> QED
    BY <1>1, <1>2, <1>3, <1>4

(* One character more. *)
LEMMA OneMore ==
    ASSUME NEW S, NEW s \in Seq(S), NEW x \in S, NEW u, u = s \o <<x>>
    PROVE  /\ u \in Seq(S) /\ Len(u) = Len(s) + 1 /\ Len(s) \in Nat
           /\ \A k \in 1..Len(s) : u[k] = s[k]
           /\ u[Len(s) + 1] = x
<1>1. PICK t \in Seq(S) : t = <<x>> /\ Len(t) = 1 /\ t[1] = x
  <2>1. <<x>> \in Seq(S) /\ Len(<<x>>) = 1 /\ <<x>>[1] = x
      OBVIOUS
  <2> QED
      BY <2>1
<1>2. s \in Seq(S) /\ t \in Seq(S) /\ u = s \o t
    BY <1>1
<1>3. /\ u \in Seq(S) /\ Len(u) = Len(s) + Len(t) /\ Len(s) \in Nat
      /\ \A k \in 1..Len(s) : u[k] = s[k]
      /\ \A k \in 1..Len(t) : u[Len(s) + k] = t[k]
    BY ONLY <1>2, Concat
<1> QED
    BY <1>1, <1>3

(* A text, a name, and the two characters of an end of line.               *)
LEMMA Joined ==
    ASSUME NEW S, NEW s \in Seq(S), NEW t \in Seq(S), NEW x \in S, NEW y \in S,
           NEW u, u = s \o t \o <<x, y>>
    PROVE  /\ u \in Seq(S) /\ Len(u) = Len(s) + Len(t) + 2
           /\ \A k \in 1..Len(s) : u[k] = s[k]
           /\ \A k \in 1..Len(t) : u[Len(s) + k] = t[k]
           /\ u[Len(s) + Len(t) + 1] = x /\ u[Len(s) + Len(t) + 2] = y
<1>1. Len(s) \in Nat /\ Len(t) \in Nat
    BY LenProperties
<1>2. /\ s \o t \in Seq(S) /\ Len(s \o t) = Len(s) + Len(t)
      /\ \A k \in 1..Len(s) + Len(t) : (s \o t)[k] = IF k <= Len(s) THEN s[k] ELSE t[k - Len(s)]
    BY ConcatProperties
<1>3. <<x, y>> \in Seq(S) /\ Len(<<x, y>>) = 2 /\ <<x, y>>[1] = x /\ <<x, y>>[2] = y
    OBVIOUS
<1>4. /\ u \in Seq(S) /\ Len(u) = Len(s \o t) + 2
      /\ \A k \in 1..Len(s \o t) + 2 :
            u[k] = IF k <= Len(s \o t) THEN (s \o t)[k] ELSE <<x, y>>[k - Len(s \o t)]
    BY <1>2, <1>3, ConcatProperties
<1>5. \A k \in 1..Len(s) : u[k] = s[k]
    BY <1>1, <1>2, <1>4
<1>6. ASSUME NEW k \in 1..Len(t) PROVE u[Len(s) + k] = t[k]
  <2>1. /\ Len(s) + k \in 1..Len(s \o t) + 2 /\ Len(s) + k <= Len(s \o t)
        /\ Len(s) + k \in 1..Len(s) + Len(t) /\ ~(Len(s) + k <= Len(s)) /\ Len(s) + k - Len(s) = k
      BY <1>1, <1>2
  <2> QED
      BY <2>1, <1>2, <1>4
<1>7. u[Len(s) + Len(t) + 1] = x /\ u[Len(s) + Len(t) + 2] = y
  <2>1. ASSUME NEW d \in {1, 2} PROVE u[Len(s) + Len(t) + d] = <<x, y>>[d]
    <3>1. /\ Len(s) + Len(t) + d \in 1..Len(s \o t) + 2
          /\ ~(Len(s) + Len(t) + d <= Len(s \o t)) /\ Len(s) + Len(t) + d - Len(s \o t) = d
        BY <1>1, <1>2
    <3> QED
        BY <3>1, <1>4
  <2> QED
      BY <2>1, <1>3
<1> QED
    BY <1>2, <1>4, <1>5, <1>6, <1>7

(* The first n characters. *)
LEMMA Prefix ==
    ASSUME NEW S, NEW s \in Seq(S), NEW n \in Nat, n <= Len(s)
    PROVE  /\ SubSeq(s, 1, n) \in Seq(S) /\ Len(SubSeq(s, 1, n)) = n
           /\ \A k \in 1..n : SubSeq(s, 1, n)[k] = s[k]
<1>1. Len(s) \in Nat
    BY LenProperties
<1>2. \A k \in 1..n : s[k] \in S
    BY <1>1, ElementOfSeq
<1> QED
    BY <1>2, SubSeqProperties

(* The characters behind the first a that are those of t.  *)
LEMMA Middle ==
    ASSUME NEW S, NEW s \in Seq(S), NEW t \in Seq(S), NEW a \in Nat, NEW e \in Nat,
           e = a + Len(t), e <= Len(s), \A i \in 1..Len(t) : s[a + i] = t[i]
    PROVE  SubSeq(s, a + 1, e) = t
<1>1. Len(s) \in Nat /\ Len(t) \in Nat
    BY LenProperties
<1>2. PICK lo \in Nat : lo = a + 1
    OBVIOUS
<1>3. \A i \in lo..e : s[i] \in S
  <2>1. \A i \in lo..e : i \in 1..Len(s)
      BY <1>1, <1>2
  <2> QED
      BY <2>1, ElementOfSeq
<1>4. /\ SubSeq(s, lo, e) \in Seq(S)
      /\ Len(SubSeq(s, lo, e)) = (IF lo <= e THEN e - lo + 1 ELSE 0)
      /\ \A i \in 1..e - lo + 1 : SubSeq(s, lo, e)[i] = s[lo + i - 1]
    BY ONLY <1>3, lo \in Nat, e \in Nat, SubSeqProperties
<1>5. Len(SubSeq(s, lo, e)) = Len(t)
    BY <1>1, <1>2, <1>4
<1>6. ASSUME NEW i \in 1..Len(t) PROVE SubSeq(s, lo, e)[i] = t[i]
  <2>1. i \in 1..e - lo + 1 /\ lo + i - 1 = a + i
      BY <1>1, <1>2
  <2> QED
      BY <1>4, <2>1
<1>7. SubSeq(s, lo, e) = t
    BY <1>4, <1>5, <1>6, SeqEqual
<1> QED
    BY <1>2, <1>7

(* A text that stands in another behind its first a characters. *)
Stands(s, a, t) == a + Len(t) <= Len(s) /\ \A i \in 1..Len(t) : s[a + i] = t[i]

(* A text that begins another. *)
Begins(c, s) == Len(c) <= Len(s) /\ \A i \in 1..Len(c) : s[i] = c[i]

(* A character that is nowhere in a text. *)
Lacks(s, c) == \A i \in 1..Len(s) : s[i] # c

(* The last part of a text that begins another. *)
LEMMA LastPart ==
    ASSUME NEW S, NEW c \in Seq(S), NEW h \in Seq(S), NEW u, u = c \o h, NEW s, Begins(u, s)
    PROVE  Begins(c, s) /\ Stands(s, Len(c), h)
<1>1. /\ Len(u) = Len(c) + Len(h) /\ Len(c) \in Nat /\ Len(h) \in Nat
      /\ \A k \in 1..Len(c) : u[k] = c[k]
      /\ \A k \in 1..Len(h) : u[Len(c) + k] = h[k]
    BY Concat
<1>2. Len(u) <= Len(s) /\ \A i \in 1..Len(u) : s[i] = u[i]
    BY DEF Begins
<1>3. \A i \in 1..Len(c) : i \in 1..Len(u)
    BY <1>1
<1>4. \A i \in 1..Len(h) : Len(c) + i \in 1..Len(u)
    BY <1>1
<1>5. \A i \in 1..Len(c) : s[i] = c[i]
    BY <1>1, <1>2, <1>3
<1>6. \A i \in 1..Len(h) : s[Len(c) + i] = h[i]
    BY <1>1, <1>2, <1>4
<1>7. Len(c) + Len(h) <= Len(s)
    BY <1>1, <1>2
<1> QED
    BY <1>1, <1>2, <1>5, <1>6, <1>7 DEF Begins, Stands

-----------------------------------------------------------------------------
(* A set of numbers has a least one: what proofs by induction are made of here. *)
LEMMA Least ==
    ASSUME NEW T, T \subseteq Nat, T # {}
    PROVE  \E n \in T : \A k \in Nat : k < n => k \notin T
<1> DEFINE R == OpToRel(<, Nat)
<1>1. IsWellFoundedOn(R, Nat)
    BY NatLessThanWellFounded
<1>2. \A k, n \in Nat : k < n => <<k, n>> \in R
    BY DEF OpToRel
<1> HIDE DEF R
<1>3. PICK n \in T : \A k \in T : ~(<<k, n>> \in R)
    BY <1>1, WFMin
<1> QED
    BY <1>2, <1>3

(* A function on numbers given by its values on a set B, and elsewhere by   *)
(* its value at a smaller argument.                                        *)
Recurrence(S, B, b, G, p) ==
    /\ B \subseteq Nat /\ b \in [Nat -> S] /\ G \in [Nat \X S -> S] /\ p \in [Nat -> Nat]
    /\ \A n \in Nat \ B : p[n] < n

Solves(f, S, B, b, G, p) ==
    /\ f \in [Nat -> S]
    /\ \A n \in Nat : f[n] = IF n \in B THEN b[n] ELSE G[<<n, f[p[n]]>>]

(* There is such a function. *)
LEMMA Recursion ==
    ASSUME NEW S, NEW B, NEW b, NEW G, NEW p, Recurrence(S, B, b, G, p)
    PROVE  \E f : Solves(f, S, B, b, G, p)
<1> USE DEF Recurrence
<1> DEFINE Step(n, f) == IF n \in B THEN b[n] ELSE G[<<n, f[p[n]]>>]
           Upto(m, f) == f \in [0..m -> S] /\ \A n \in 0..m : f[n] = Step(n, f)
<1>1. ASSUME NEW m \in Nat, NEW k \in Nat, NEW f, NEW g, Upto(m, f), Upto(k, g)
      PROVE  \A n \in 0..m : n \in 0..k => f[n] = g[n]
  <2> DEFINE T == {n \in Nat : n <= m /\ n <= k /\ f[n] # g[n]}
  <2>1. SUFFICES ASSUME T # {} PROVE FALSE
      OBVIOUS
  <2>2. PICK n \in T : \A i \in Nat : i < n => i \notin T
      BY <2>1, Least
  <2>3. n \in 0..m /\ n \in 0..k /\ n \in Nat
      BY <2>2
  <2>4. f[n] = Step(n, f) /\ g[n] = Step(n, g)
      BY <1>1, <2>3
  <2>5. CASE n \in B
      BY <2>2, <2>4, <2>5
  <2>6. CASE n \notin B
    <3>1. p[n] \in Nat /\ p[n] < n
        BY <2>3, <2>6
    <3>2. f[p[n]] = g[p[n]]
        BY <2>2, <2>3, <3>1
    <3> QED
        BY <2>2, <2>4, <2>6, <3>2
  <2> QED
      BY <2>5, <2>6
<1>2. \A m \in Nat : \E f : Upto(m, f)
  <2> DEFINE T == {m \in Nat : ~ \E f : Upto(m, f)}
  <2>1. SUFFICES ASSUME T # {} PROVE FALSE
      OBVIOUS
  <2>2. PICK m \in T : \A i \in Nat : i < m => i \notin T
      BY <2>1, Least
  <2>3. m \in Nat /\ \A n \in 0..m : b[n] \in S
      OBVIOUS
  <2>4. CASE m = 0
    <3>1. 0 \in B
        BY DEF Step
    <3> DEFINE f == [n \in 0..0 |-> b[0]]
    <3>2. Upto(0, f)
        BY <2>3, <3>1
    <3> QED
        BY <2>2, <2>4, <3>2
  <2>5. CASE m # 0
    <3>1. m - 1 \in Nat /\ m - 1 < m
        BY <2>3, <2>5
    <3>2. PICK g : Upto(m - 1, g)
        BY <2>2, <3>1
    <3>3. \A n \in 0..m : n \notin B => p[n] \in 0..m - 1
        BY <2>3
    <3> DEFINE f == [n \in 0..m |-> IF n = m THEN Step(m, g) ELSE g[n]]
    <3>4. Step(m, g) \in S
      <4>1. CASE m \in B
          BY <2>3, <4>1
      <4>2. CASE m \notin B
        <5>1. g[p[m]] \in S
            BY <2>3, <3>2, <3>3, <4>2
        <5> QED
            BY <2>3, <4>2, <5>1
      <4> QED
          BY <4>1, <4>2
    <3>5. f \in [0..m -> S]
        BY <2>3, <3>1, <3>2, <3>4
    <3>6. ASSUME NEW n \in 0..m, n \notin B PROVE f[p[n]] = g[p[n]]
      <4>1. p[n] \in 0..m /\ p[n] # m
          BY <2>3, <3>3, <3>6
      <4> QED
          BY <4>1
    <3>7. ASSUME NEW n \in 0..m PROVE f[n] = Step(n, f)
      <4>1. Step(n, f) = Step(n, g)
        <5> HIDE DEF f
        <5> QED
            BY <3>6
      <4>2. CASE n = m
          BY <2>3, <4>1, <4>2
      <4>3. CASE n # m
        <5>1. n \in 0..m - 1
            BY <2>3, <4>3
        <5> QED
            BY <3>2, <4>1, <4>3, <5>1
      <4> QED
          BY <4>2, <4>3
    <3>8. Upto(m, f)
        BY <3>5, <3>7
    <3> QED
        BY <2>2, <3>8
  <2> QED
      BY <2>4, <2>5
<1> DEFINE At(m) == CHOOSE f : Upto(m, f)
           h == [n \in Nat |-> At(n)[n]]
<1>3. \A m \in Nat : Upto(m, At(m))
    BY <1>2
<1> HIDE DEF At, Upto
<1>4. h \in [Nat -> S]
  <2>1. ASSUME NEW n \in Nat PROVE At(n)[n] \in S
    <3>1. n \in 0..n
        OBVIOUS
    <3> QED
        BY <1>3, <3>1 DEF Upto
  <2> QED
      BY <2>1
<1>5. ASSUME NEW n \in Nat PROVE h[n] = Step(n, h)
  <2>1. n \in 0..n
      OBVIOUS
  <2>2. At(n)[n] = Step(n, At(n))
      BY <1>3, <2>1 DEF Upto
  <2>3. CASE n \in B
      BY <2>2, <2>3
  <2>4. CASE n \notin B
    <3>1. p[n] \in Nat /\ p[n] < n
        BY <2>4
    <3>2. p[n] \in 0..n /\ p[n] \in 0..p[n]
        BY <3>1
    <3>3. At(n)[p[n]] = At(p[n])[p[n]]
        BY <1>1, <1>3, <3>1, <3>2
    <3>4. h[p[n]] = At(p[n])[p[n]]
        BY <3>1
    <3> QED
        BY <2>2, <2>4, <3>3, <3>4
  <2> QED
      BY <2>3, <2>4
<1> QED
    BY <1>4, <1>5 DEF Solves
==============================================================================
