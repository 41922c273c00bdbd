-------------------------- MODULE HttpResponseProofs --------------------------
(***************************************************************************)
(* Theorems about the answers of HttpMessage, for all data, lists and      *)
(* pages, however a datum is cut and whatever lies behind a copy that has  *)
(* no end: what the arrays hold, that no part of a datum is taken for the  *)
(* whole, and what the client takes of a datum and of a list.              *)
(*                                                                         *)
(* First what the functions of libc return, then where the lines of an     *)
(* answer stand and where parse_http_response finds them, in a whole       *)
(* answer, in its first piece and in what is left of it; the inductive     *)
(* invariant follows the buffer of the client from dc_read to the screen.  *)
(***************************************************************************)
EXTENDS HttpMessageProofs

(* strchr: the first position of a character from a position on, or 0. *)
Found(s, i, c, p) ==
    \/ p = 0 /\ \A k \in i..Len(s) : s[k] # c
    \/ p \in i..Len(s) /\ s[p] = c /\ \A k \in i..p - 1 : s[k] # c

LEMMA StrChrIs ==
    ASSUME NEW s, Len(s) \in Nat, NEW c, NEW i \in Nat
    PROVE  Found(s, i, c, StrChr(s, i, c))
<1> DEFINE I == {k \in i..Len(s) : s[k] = c}
<1>1. StrChr(s, i, c) = IF I # {} THEN CHOOSE x \in I : \A y \in I : x <= y ELSE 0
    BY DEF StrChr, SelectInSubSeq, Min
<1>2. CASE I = {}
    BY <1>1, <1>2 DEF Found
<1>3. CASE I # {}
  <2>1. I \subseteq Nat
      OBVIOUS
  <2>2. PICK p \in I : \A k \in Nat : k < p => k \notin I
    <3> HIDE DEF I
    <3> QED
        BY <1>3, <2>1, Least
  <2>3. \A y \in I : p <= y
      BY <2>1, <2>2
  <2>4. PICK r \in I : r = StrChr(s, i, c) /\ \A y \in I : r <= y
    <3> HIDE DEF I
    <3> QED
        BY <1>1, <1>3, <2>2, <2>3
  <2>5. r \in i..Len(s) /\ s[r] = c
      OBVIOUS
  <2>6. ASSUME NEW k \in i..r - 1 PROVE s[k] # c
    <3>1. k \in i..Len(s) /\ ~(r <= k)
        BY <2>5
    <3> QED
        BY <2>4, <3>1
  <2> HIDE DEF I
  <2> QED
      BY <2>4, <2>5, <2>6 DEF Found
<1> QED
    BY <1>2, <1>3

(* In a text that lacks a character strchr does not find it. *)
LEMMA StrChrLacks ==
    ASSUME NEW s, Len(s) \in Nat, NEW c, NEW i \in Nat, i # 0, Lacks(s, c)
    PROVE  StrChr(s, i, c) = 0
<1>1. Found(s, i, c, StrChr(s, i, c))
    BY StrChrIs
<1> QED
    BY <1>1 DEF Found, Lacks

(* What strchr finds in the beginning of a text is what it finds in the text.*)
LEMMA StrChrBegins ==
    ASSUME NEW p, Len(p) \in Nat, NEW s, Len(s) \in Nat, Begins(p, s), NEW c, NEW i \in Nat, i # 0,
           StrChr(p, i, c) # 0
    PROVE  StrChr(s, i, c) = StrChr(p, i, c) /\ StrChr(p, i, c) \in i..Len(p)
<1>1. Found(p, i, c, StrChr(p, i, c))
    BY StrChrIs
<1>2. PICK r \in i..Len(p) : r = StrChr(p, i, c) /\ p[r] = c /\ \A k \in i..r - 1 : p[k] # c
    BY <1>1 DEF Found
<1>3. r \in Nat /\ i <= r /\ r <= Len(s)
    BY DEF Begins
<1>4. s[r] = c /\ \A k \in i..r - 1 : s[k] # c
  <2>1. \A k \in i..r : k \in 1..Len(p)
      OBVIOUS
  <2>2. \A k \in i..r : s[k] = p[k]
      BY <2>1 DEF Begins
  <2> QED
      BY <1>2, <2>2
<1>5. StrChr(s, i, c) = r
    BY <1>3, <1>4, StrChrAt
<1> QED
    BY <1>2, <1>5

(* What strchr returns is inside of the text. *)
LEMMA StrChrRange ==
    ASSUME NEW s, Len(s) \in Nat, NEW c, NEW i \in Nat
    PROVE  StrChr(s, i, c) \in 0..Len(s)
<1>1. Found(s, i, c, StrChr(s, i, c))
    BY StrChrIs
<1> QED
    BY <1>1 DEF Found

(* The string in a buffer ends in front of the first zero byte. *)
LEMMA StringWithoutEnd ==
    ASSUME NEW s, Len(s) \in Nat, Lacks(s, NUL)
    PROVE  CString(s) = s
<1>1. 1 \in Nat /\ 1 # 0
    OBVIOUS
<1>2. StrChr(s, 1, NUL) = 0
    BY <1>1, StrChrLacks
<1> QED
    BY <1>2 DEF CString

LEMMA StringEnds ==
    ASSUME NEW s, Len(s) \in Nat, NEW n \in Nat, n < Len(s), s[n + 1] = NUL,
           \A i \in 1..n : s[i] # NUL
    PROVE  CString(s) = SubSeq(s, 1, n)
<1>1. PICK one \in Nat, p \in Nat : one = 1 /\ p = n + 1
    OBVIOUS
<1>2. one <= p /\ p <= Len(s) /\ s[p] = NUL /\ \A k \in one..p - 1 : s[k] # NUL
    BY <1>1
<1>3. StrChr(s, one, NUL) = p
    BY <1>2, StrChrAt
<1> QED
    BY <1>1, <1>3 DEF CString

-----------------------------------------------------------------------------

(* What sprintf prints of a number is a text of digits, as its definition says. *)
LEMMA Decimals ==
    /\ Decimal \in [Nat -> Seq(Range(Digit))]
    /\ \A n \in Nat : Decimal[n] =
          IF n < 10 THEN <<Digit[n + 1]>> ELSE Append(Decimal[n \div 10], Digit[(n % 10) + 1])
<1> DEFINE S == Seq(Range(Digit))
           B == {n \in Nat : n < 10}
           b == [n \in Nat |-> IF n < 10 THEN <<Digit[n + 1]>> ELSE <<>>]
           G == [x \in Nat \X S |-> Append(x[2], Digit[(x[1] % 10) + 1])]
           p == [n \in Nat |-> n \div 10]
<1>1. \A n \in 0..9 : Digit[n + 1] \in Range(Digit)
    BY DEF Digit, Range
<1>2. B \in SUBSET Nat
    OBVIOUS
<1>3. b \in [Nat -> S]
    BY <1>1
<1>4. G \in [Nat \X S -> S]
  <2>1. ASSUME NEW x \in Nat \X S PROVE Append(x[2], Digit[(x[1] % 10) + 1]) \in S
    <3>1. x[1] \in Nat /\ x[2] \in S /\ (x[1] % 10) \in 0..9
        BY <2>1
    <3> QED
        BY <1>1, <3>1
  <2> QED
      BY <2>1
<1>5. p \in [Nat -> Nat]
    OBVIOUS
<1>a. \A n \in Nat \ B : p[n] < n
    OBVIOUS
<1> HIDE DEF S, B, b, G, p
<1>6. PICK f : Solves(f, S, B, b, G, p)
  <2>1. Recurrence(S, B, b, G, p)
      BY <1>2, <1>3, <1>4, <1>5, <1>a DEF Recurrence
  <2> QED
      BY ONLY <2>1, Recursion
<1>7. ASSUME NEW n \in Nat
      PROVE  f[n] = IF n < 10 THEN <<Digit[n + 1]>> ELSE Append(f[n \div 10], Digit[(n % 10) + 1])
  <2>1. CASE n < 10
      BY <1>6, <2>1 DEF B, b, Solves
  <2>2. CASE ~(n < 10)
    <3>1. n \notin B /\ p[n] = n \div 10 /\ p[n] \in Nat
        BY <1>5, <2>2 DEF B, p
    <3>2. f[n] = G[<<n, f[n \div 10]>>] /\ f[n \div 10] \in S
        BY <1>6, <3>1 DEF Solves
    <3>3. G[<<n, f[n \div 10]>>] = Append(f[n \div 10], Digit[(n % 10) + 1])
        BY <3>2 DEF G
    <3> QED
        BY <2>2, <3>2, <3>3
  <2> QED
      BY <2>1, <2>2
<1>8. f = [n \in Nat |-> IF n < 10 THEN <<Digit[n + 1]>>
                                   ELSE Append(f[n \div 10], Digit[(n % 10) + 1])]
  <2>1. f = [n \in Nat |-> f[n]]
      BY <1>6 DEF Solves
  <2> QED
      BY ONLY <1>7, <2>1
<1>9. Decimal = [n \in Nat |-> IF n < 10 THEN <<Digit[n + 1]>>
                                   ELSE Append(Decimal[n \div 10], Digit[(n % 10) + 1])]
    BY <1>8, Zenon DEF Decimal
<1>b. PICK R : R = Range(Digit)
    OBVIOUS
<1>c. \A i \in 0..9 : Digit[i + 1] \in R
    BY <1>1, <1>b
<1>d. ASSUME NEW k \in Nat, k < 10 PROVE Decimal[k] = <<Digit[k + 1]>>
    BY ONLY <1>9, <1>d
<1>e. ASSUME NEW k \in Nat, ~(k < 10)
      PROVE Decimal[k] = Append(Decimal[k \div 10], Digit[(k % 10) + 1])
    BY ONLY <1>9, <1>e
<1>10. ASSUME NEW n \in Nat PROVE Decimal[n] \in Seq(R)
  <2> DEFINE T == {k \in Nat : Decimal[k] \notin Seq(R)}
  <2>1. SUFFICES ASSUME T # {} PROVE FALSE
      OBVIOUS
  <2>2. PICK k \in T : \A i \in Nat : i < k => i \notin T
      BY <2>1, Least
  <2>3. CASE k < 10
    <3>1. PICK c \in R : c = Digit[k + 1]
        BY <1>c, <2>2, <2>3
    <3>2. Decimal[k] = <<c>>
        BY <1>d, <2>2, <2>3, <3>1
    <3>3. Decimal[k] \in Seq(R)
      <4>1. <<c>> \in Seq(R)
          OBVIOUS
      <4> QED
          BY ONLY <3>2, <4>1
    <3> QED
        BY <2>2, <3>3
  <2>4. CASE ~(k < 10)
    <3>1. k \div 10 \in Nat /\ k \div 10 < k /\ (k % 10) \in 0..9
        BY <2>2, <2>4
    <3>2. PICK c \in R, t \in Seq(R) : c = Digit[(k % 10) + 1] /\ t = Decimal[k \div 10]
        BY <1>c, <2>2, <3>1
    <3>3. Decimal[k] = Append(t, c)
        BY <1>e, <2>2, <2>4, <3>2
    <3>4. Decimal[k] \in Seq(R)
      <4>1. Append(t, c) \in Seq(R)
          OBVIOUS
      <4> QED
          BY ONLY <3>3, <4>1
    <3> QED
        BY <2>2, <3>4
  <2> QED
      BY <2>3, <2>4
<1>11. DOMAIN Decimal = Nat
    BY ONLY <1>9
<1>12. Decimal = [n \in Nat |-> Decimal[n]]
    BY ONLY <1>9
<1> QED
    BY <1>b, <1>d, <1>e, <1>10, <1>12

Digits == Range(Digit)

(* Every digit has one value. *)
LEMMA DigitValues ==
    /\ \A n \in 0..9 : Digit[n + 1] \in Digits /\ DigitValue(Digit[n + 1]) = n
    /\ \A c \in Digits : DigitValue(c) \in 0..9
<1>1. /\ Digit[1] = "0" /\ Digit[2] = "1" /\ Digit[3] = "2" /\ Digit[4] = "3" /\ Digit[5] = "4"
      /\ Digit[6] = "5" /\ Digit[7] = "6" /\ Digit[8] = "7" /\ Digit[9] = "8" /\ Digit[10] = "9"
      /\ DOMAIN Digit = 1..10
    BY DEF Digit
<1>2. \A c \in Digits : \E n \in 0..9 : c = Digit[n + 1]
  <2>1. \A c \in Digits : \E k \in 1..10 : c = Digit[k]
      BY <1>1 DEF Digits, Range
  <2>2. \A k \in 1..10 : k - 1 \in 0..9 /\ (k - 1) + 1 = k
      OBVIOUS
  <2> QED
      BY <2>1, <2>2
<1>3. ASSUME NEW n \in 0..9, NEW m \in 0..9, Digit[n + 1] = Digit[m + 1] PROVE n = m
  <2>1. n \in {0, 1, 2, 3, 4, 5, 6, 7, 8, 9} /\ m \in {0, 1, 2, 3, 4, 5, 6, 7, 8, 9}
      OBVIOUS
  <2> QED
      BY <1>1, <1>3, <2>1
<1>4. ASSUME NEW n \in 0..9 PROVE Digit[n + 1] \in Digits /\ DigitValue(Digit[n + 1]) = n
  <2>1. n + 1 \in 1..10
      OBVIOUS
  <2>2. Digit[n + 1] \in Digits
      BY <1>1, <2>1 DEF Digits, Range
  <2>3. DigitValue(Digit[n + 1]) \in 0..9 /\ Digit[DigitValue(Digit[n + 1]) + 1] = Digit[n + 1]
      BY DEF DigitValue
  <2> QED
      BY <1>3, <2>2, <2>3
<1> QED
    BY <1>2, <1>4

(* The numbers strtol has read after each digit. *)
Reads(v, d) ==
    /\ v \in [0..Len(d) -> Nat] /\ v[0] = 0
    /\ \A k \in 1..Len(d) : v[k] = 10 * v[k - 1] + DigitValue(d[k])

(* strtol reads the digits in front, one after the other. *)
LEMMA StrToLReads ==
    ASSUME NEW s, NEW d, d = LeadingDigits(s), d \in Seq(Digits)
    PROVE  \E v : Reads(v, d) /\ StrToL(s) = v[Len(d)]
<1>1. PICK n \in Nat : n = Len(d)
    BY LenProperties
<1>2. \A k \in 1..n : DigitValue(d[k]) \in Nat
    BY <1>1, DigitValues, ElementOfSeq
<1> DEFINE b == [k \in Nat |-> 0]
           G == [x \in Nat \X Nat |->
                   10 * x[2] + (IF x[1] \in 1..n THEN DigitValue(d[x[1]]) ELSE 0)]
           p == [k \in Nat |-> IF k = 0 THEN 0 ELSE k - 1]
<1>3. Recurrence(Nat, {0}, b, G, p)
  <2>1. G \in [Nat \X Nat -> Nat]
    <3>1. ASSUME NEW x \in Nat \X Nat
          PROVE  10 * x[2] + (IF x[1] \in 1..n THEN DigitValue(d[x[1]]) ELSE 0) \in Nat
        BY <1>2
    <3> QED
        BY <3>1
  <2> HIDE DEF G
  <2> QED
      BY <2>1 DEF Recurrence
<1>4. \A k \in 1..n, i \in Nat : G[<<k, i>>] = 10 * i + DigitValue(d[k])
    BY <1>1
<1>5. \A k \in 1..n : k \in Nat /\ k \notin {0} /\ p[k] = k - 1 /\ k - 1 \in Nat
    BY <1>1
<1> HIDE DEF G, p
<1>6. PICK f : Solves(f, Nat, {0}, b, G, p)
    BY ONLY <1>3, Recursion
<1>7. f \in [Nat -> Nat] /\ f[0] = 0 /\ \A k \in 1..n : f[k] = G[<<k, f[p[k]]>>]
    BY <1>5, <1>6 DEF Solves
<1>8. \A k \in 1..n : f[k] = 10 * f[k - 1] + DigitValue(d[k])
    BY <1>4, <1>5, <1>7
<1> DEFINE g == [k \in 0..n |-> f[k]]
<1>9. /\ g = [k \in 0..n |-> g[k]] /\ \A k \in 0..n : g[k] = f[k]
      /\ \A k \in 0..n : k # 0 => k \in 1..n /\ k - 1 \in 0..n
    BY <1>1
<1> HIDE DEF g
<1>10. g = [k \in 0..n |-> IF k = 0 THEN 0 ELSE 10 * g[k - 1] + DigitValue(d[k])]
    BY <1>7, <1>8, <1>9
<1>11. PICK v : /\ v = [k \in 0..n |-> IF k = 0 THEN 0 ELSE 10 * v[k - 1] + DigitValue(d[k])]
                /\ StrToL(s) = v[n]
  <2>1. \E v : v = [k \in 0..Len(d) |-> IF k = 0 THEN 0 ELSE 10 * v[k - 1] + DigitValue(d[k])]
      BY <1>1, <1>10, Zenon
  <2>2. \E v : /\ v = [k \in 0..Len(d) |-> IF k = 0 THEN 0 ELSE 10 * v[k - 1] + DigitValue(d[k])]
               /\ StrToL(s) = v[Len(d)]
      BY <2>1, Zenon DEF StrToL
  <2> QED
      BY <1>1, <2>2
<1>12. DOMAIN v = 0..n /\ v[0] = 0 /\ \A k \in 1..n : v[k] = 10 * v[k - 1] + DigitValue(d[k])
    BY <1>1, <1>11
<1>13. \A k \in 0..n : v[k] \in Nat
  <2> DEFINE T == {k \in Nat : k <= n /\ v[k] \notin Nat}
  <2>1. SUFFICES ASSUME T # {} PROVE FALSE
      BY <1>1
  <2>2. PICK k \in T : \A i \in Nat : i < k => i \notin T
      BY <2>1, Least
  <2>3. k # 0 /\ k \in 1..n /\ k - 1 \in Nat /\ k - 1 < k
      BY <1>1, <1>12, <2>2
  <2>4. v[k - 1] \in Nat
      BY <2>2, <2>3
  <2>5. v[k] \in Nat
      BY <1>2, <1>12, <2>3, <2>4
  <2> QED
      BY <2>2, <2>5
<1>14. v \in [0..n -> Nat]
    BY <1>11, <1>12, <1>13
<1> QED
    BY <1>1, <1>11, <1>12, <1>14 DEF Reads

(* More digits never make it smaller. *)
LEMMA ReadsGrow ==
    ASSUME NEW d, NEW v, Len(d) \in Nat, \A k \in 1..Len(d) : DigitValue(d[k]) \in Nat, Reads(v, d),
           NEW a \in 0..Len(d)
    PROVE  v[a] <= v[Len(d)]
<1> DEFINE T == {k \in Nat : a <= k /\ k <= Len(d) /\ ~(v[a] <= v[k])}
<1>0. PICK n \in Nat : n = Len(d)
    OBVIOUS
<1>1. SUFFICES ASSUME T # {} PROVE FALSE
    BY <1>0
<1>2. PICK k \in T : \A i \in Nat : i < k => i \notin T
    BY <1>1, Least
<1>3. \A i \in 0..n : v[i] \in Nat
    BY <1>0 DEF Reads
<1>4. k # a /\ k \in 1..n /\ k - 1 \in 0..n /\ k - 1 \in Nat /\ k - 1 < k /\ a <= k - 1
    BY <1>0, <1>2, <1>3
<1>5. v[a] <= v[k - 1]
    BY <1>0, <1>2, <1>4
<1>6. v[k] = 10 * v[k - 1] + DigitValue(d[k]) /\ DigitValue(d[k]) \in Nat
    BY <1>0, <1>4 DEF Reads
<1>7. v[a] \in Nat /\ v[k - 1] \in Nat
    BY <1>0, <1>3, <1>4
<1>8. v[a] <= v[k]
    BY <1>5, <1>6, <1>7
<1> QED
    BY <1>2, <1>8

(* What sprintf prints for a number, strtol reads as that number. *)
PrintedIn(m, d) ==
    Len(Decimal[m]) <= Len(d) /\ \A i \in 1..Len(Decimal[m]) : d[i] = Decimal[m][i]

(* The digits that were printed of a number give that number. *)
LEMMA ReadsBack ==
    ASSUME NEW d, NEW v, Len(d) \in Nat, Reads(v, d)
    PROVE  \A m \in Nat : PrintedIn(m, d) => v[Len(Decimal[m])] = m
<1> DEFINE T == {m \in Nat : PrintedIn(m, d) /\ v[Len(Decimal[m])] # m}
<1>0. PICK n \in Nat : n = Len(d)
    OBVIOUS
<1>1. SUFFICES ASSUME T # {} PROVE FALSE
    OBVIOUS
<1>2. PICK m \in T : \A i \in Nat : i < m => i \notin T
    BY <1>1, Least
<1>3. m \in Nat /\ PrintedIn(m, d) /\ v[Len(Decimal[m])] # m
    BY <1>2
<1>4. \A k \in 1..n : v[k] = 10 * v[k - 1] + DigitValue(d[k])
    BY <1>0 DEF Reads
<1>5. CASE m < 10
  <2>1. PICK c : c = Digit[m + 1] /\ Decimal[m] = <<c>> /\ DigitValue(c) = m
    <3>1. m \in 0..9
        BY <1>3, <1>5
    <3> QED
        BY <1>3, <1>5, <3>1, Decimals, DigitValues
  <2>2. Len(Decimal[m]) = 1 /\ Decimal[m][1] = c
      BY <2>1
  <2>3. 1 <= n /\ d[1] = c
      BY <1>0, <1>3, <2>2 DEF PrintedIn
  <2>4. v[1] = 10 * v[0] + m /\ v[0] = 0
      BY <1>0, <1>4, <2>1, <2>3 DEF Reads
  <2> QED
      BY <1>3, <2>2, <2>4
<1>6. CASE ~(m < 10)
  <2>1. PICK q \in Nat, r \in 0..9 : q = m \div 10 /\ r = m % 10 /\ m = 10 * q + r /\ q < m
      BY <1>3, <1>6
  <2>2. PICK t, c : t = Decimal[q] /\ t \in Seq(Digits) /\ c = Digit[r + 1] /\ c \in Digits
                     /\ DigitValue(c) = r /\ Decimal[m] = Append(t, c)
      BY <1>3, <1>6, <2>1, Decimals, DigitValues DEF Digits
  <2>3. PICK l \in Nat : l = Len(t)
      BY <2>2, LenProperties
  <2>4. Len(Decimal[m]) = l + 1 /\ Decimal[m][l + 1] = c /\ \A i \in 1..l : Decimal[m][i] = t[i]
    <3>1. t \in Seq(Digits) /\ c \in Digits
        BY <2>2
    <3>2. /\ Len(Append(t, c)) = l + 1 /\ Append(t, c)[l + 1] = c
          /\ \A i \in 1..l : Append(t, c)[i] = t[i]
        BY ONLY <2>3, <3>1, AppendProperties
    <3> QED
        BY <2>2, <3>2
  <2>5. l + 1 <= n /\ d[l + 1] = c /\ \A i \in 1..l : d[i] = t[i]
      BY <1>0, <1>3, <2>4 DEF PrintedIn
  <2>6. PrintedIn(q, d)
      BY <1>0, <2>2, <2>3, <2>5 DEF PrintedIn
  <2>7. v[l] = q
      BY <1>2, <2>1, <2>2, <2>3, <2>6
  <2>8. v[l + 1] = 10 * q + r
    <3>1. l + 1 \in 1..n /\ (l + 1) - 1 = l
        BY <2>5
    <3> QED
        BY <1>4, <2>2, <2>5, <2>7, <3>1
  <2> QED
      BY <1>3, <2>1, <2>4, <2>8
<1> QED
    BY <1>5, <1>6

(* What strtol takes for the number. *)
LeadPart(d, s) ==
    /\ d \in Seq(Digits) /\ Len(d) \in 0..Len(s) /\ \A i \in 1..Len(d) : d[i] = s[i]
    /\ \A n \in 0..Len(s) : (\A i \in 1..n : s[i] \in Digits) => n <= Len(d)
    /\ (\A i \in 1..Len(s) : s[i] \in Digits) => d = s

(* The digits strtol stops behind. *)
LEMMA LeadingDigitsAre ==
    ASSUME NEW S, NEW s \in Seq(S)
    PROVE  LeadPart(LeadingDigits(s), s)
<1> USE DEF LeadPart
<1>d. PICK d : d = LeadingDigits(s)
    OBVIOUS
<1>0. PICK n \in Nat : n = Len(s)
    BY LenProperties
<1> DEFINE I == {i \in 1..n : s[i] \notin Digits}
           other == IF I # {} THEN CHOOSE x \in I : \A y \in I : x <= y ELSE 0
<1>1. d = IF other = 0 THEN s ELSE SubSeq(s, 1, other - 1)
    BY <1>d, <1>0 DEF LeadingDigits, SelectInSubSeq, Min, Digits
<1>2. CASE I = {}
  <2>1. d = s
      BY <1>1, <1>2
  <2>2. \A i \in 1..n : s[i] \in Digits
      BY <1>2
  <2>3. s \in Seq(Digits)
      BY <1>0, <2>2
  <2> QED
      BY <1>0, <1>d, <2>1, <2>3
<1>3. CASE I # {}
  <2>1. PICK x \in I : \A y \in I : x <= y
    <3>1. I \subseteq Nat
        BY <1>0
    <3>2. PICK x \in I : \A k \in Nat : k < x => k \notin I
        BY <1>3, <3>1, Least
    <3> QED
        BY <1>0, <3>2
  <2>2. other \in I /\ \A y \in I : other <= y
    <3> HIDE DEF I
    <3> QED
        BY <1>3, <2>1
  <2>3. PICK o \in Nat : o = other - 1 /\ o + 1 \in 1..n /\ s[o + 1] \notin Digits /\ other # 0
                         /\ \A i \in 1..o : s[i] \in Digits
    <3> HIDE DEF other
    <3>1. other \in 1..n /\ s[other] \notin Digits /\ \A i \in 1..other - 1 : i \notin I
        BY <1>0, <2>2
    <3>2. \A i \in 1..other - 1 : i \in 1..n
        BY <1>0, <3>1
    <3> QED
        BY <1>0, <3>1, <3>2
  <2>4. d = SubSeq(s, 1, o) /\ o <= n
      BY <1>0, <1>1, <2>3
  <2>5. /\ SubSeq(s, 1, o) \in Seq(S) /\ Len(SubSeq(s, 1, o)) = o
        /\ \A k \in 1..o : SubSeq(s, 1, o)[k] = s[k]
      BY ONLY <1>0, <2>4, s \in Seq(S), o \in Nat, Prefix
  <2>6. d \in Seq(S) /\ Len(d) = o /\ \A k \in 1..o : d[k] = s[k] /\ d[k] \in Digits
      BY <2>3, <2>4, <2>5
  <2>7. d \in Seq(Digits)
      BY <2>6
  <2>8. \A m \in 0..n : (\A i \in 1..m : s[i] \in Digits) => m <= o
      BY <1>0, <2>3
  <2>9. ~(\A i \in 1..n : s[i] \in Digits) /\ o \in 0..n
      BY <2>3, <2>4
  <2>10. LeadPart(d, s)
    <3> HIDE DEF I, other
    <3> QED
        BY ONLY <1>0, <2>6, <2>7, <2>8, <2>9 DEF LeadPart
  <2> QED
      BY <1>d, <2>10
<1> QED
    BY <1>d, <1>2, <1>3

(* What strtol reads of a printed number with anything behind it. *)
LEMMA PrintedIsRead ==
    ASSUME NEW S, Digits \subseteq S, NEW m \in Nat, NEW stray \in Seq(S),
           NEW s, s = Decimal[m] \o stray
    PROVE  /\ StrToL(s) \in Nat /\ m <= StrToL(s)
           /\ stray = <<>> => StrToL(s) = m
<1>1. PICK t : t = Decimal[m] /\ t \in Seq(Digits) /\ t \in Seq(S)
    BY Decimals, SeqMonotonic DEF Digits
<1>2. PICK l \in Nat : l = Len(t) /\ \A i \in 1..l : t[i] \in Digits
    BY <1>1, LenProperties, ElementOfSeq
<1>3. /\ s \in Seq(S) /\ Len(s) = l + Len(stray) /\ Len(stray) \in Nat
      /\ \A i \in 1..l : s[i] = t[i]
  <2>1. s = t \o stray /\ t \in Seq(S) /\ stray \in Seq(S)
      BY <1>1
  <2>2. /\ s \in Seq(S) /\ Len(s) = Len(t) + Len(stray) /\ Len(stray) \in Nat
        /\ \A k \in 1..Len(t) : s[k] = t[k]
      BY ONLY <2>1, Concat
  <2> QED
      BY <1>2, <2>2
<1>4. PICK d : d = LeadingDigits(s)
    OBVIOUS
<1>5. /\ d \in Seq(Digits) /\ Len(d) \in 0..Len(s) /\ \A i \in 1..Len(d) : d[i] = s[i]
      /\ \A n \in 0..Len(s) : (\A i \in 1..n : s[i] \in Digits) => n <= Len(d)
      /\ (\A i \in 1..Len(s) : s[i] \in Digits) => d = s
  <2>1. s \in Seq(S)
      BY <1>3
  <2>2. LeadPart(d, s)
      BY <1>4, <2>1, LeadingDigitsAre
  <2> QED
      BY ONLY <2>2 DEF LeadPart
<1>6. PICK n \in Nat : n = Len(d) /\ l <= n /\ \A i \in 1..l : d[i] = t[i]
  <2>1. l \in 0..Len(s) /\ \A i \in 1..l : s[i] \in Digits
      BY <1>2, <1>3
  <2>2. l <= Len(d) /\ Len(d) \in Nat
      BY <1>3, <1>5, <2>1
  <2>3. ASSUME NEW i \in 1..l PROVE d[i] = t[i]
    <3>1. i \in 1..Len(d)
        BY ONLY <1>3, <2>2, i \in 1..l, l \in Nat
    <3> QED
        BY <1>3, <1>5, <3>1
  <2> QED
      BY ONLY <2>2, <2>3
<1>7. PrintedIn(m, d)
    BY <1>1, <1>2, <1>6 DEF PrintedIn
<1>8. PICK v : Reads(v, d) /\ StrToL(s) = v[n]
    BY <1>4, <1>5, <1>6, StrToLReads
<1>9. v[l] = m
    BY <1>1, <1>2, <1>6, <1>7, <1>8, ReadsBack
<1>10. \A k \in 1..n : DigitValue(d[k]) \in Nat
    BY <1>5, <1>6, DigitValues, ElementOfSeq
<1>11. v[l] <= v[n]
  <2>1. Len(d) \in Nat /\ l \in 0..Len(d) /\ Reads(v, d)
      BY <1>6, <1>8
  <2>2. \A k \in 1..Len(d) : DigitValue(d[k]) \in Nat
      BY <1>6, <1>10
  <2> QED
      BY <1>6, <2>1, <2>2, ReadsGrow
<1>12. v[n] \in Nat
    BY <1>6, <1>8 DEF Reads
<1>13. ASSUME stray = <<>> PROVE StrToL(s) = m
  <2>1. Len(s) = l
      BY <1>3, <1>13
  <2>2. l = n
      BY <1>5, <1>6, <2>1
  <2> QED
      BY <1>8, <1>9, <2>2
<1> QED
    BY <1>8, <1>9, <1>11, <1>12, <1>13

(* strtol reads a number from any text. *)
LEMMA StrToLType ==
    ASSUME NEW S, NEW s \in Seq(S)
    PROVE  StrToL(s) \in Nat
<1>1. PICK d : d = LeadingDigits(s) /\ d \in Seq(Digits)
    BY LeadingDigitsAre DEF LeadPart
<1>2. PICK v : Reads(v, d) /\ StrToL(s) = v[Len(d)]
    BY <1>1, StrToLReads
<1>3. Len(d) \in 0..Len(d)
    BY <1>1, LenProperties
<1> QED
    BY <1>2, <1>3 DEF Reads

(* What the server prints with %d the client reads back with strtol, for every *)
(* number; and where the copy of a Content-Length has no end, what it reads is *)
(* never less, whatever lies behind it.                                    *)
THEOREM NeverReadsLess ==
    \A m \in Nat : \A stray \in Seq(Characters) :
        /\ StrToL(Decimal[m]) = m
        /\ m <= StrToL(Decimal[m] \o stray)
<1> SUFFICES ASSUME NEW m \in Nat, NEW stray \in Seq(Characters)
             PROVE  StrToL(Decimal[m]) = m /\ m <= StrToL(Decimal[m] \o stray)
    OBVIOUS
<1>1. Digits \subseteq Characters
    BY DEF Digits, Characters
<1>2. PICK s, t, none : s = Decimal[m] \o stray /\ t = Decimal[m] \o none /\ none = <<>>
    OBVIOUS
<1>3. m <= StrToL(s)
    BY <1>1, <1>2, PrintedIsRead
<1>4. StrToL(t) = m
  <2>1. none \in Seq(Characters)
      BY <1>2
  <2> QED
      BY <1>1, <1>2, <2>1, PrintedIsRead
<1>5. t = Decimal[m]
  <2>1. Decimal[m] \in Seq(Digits)
      BY Decimals DEF Digits
  <2> QED
      BY <1>2, <2>1, ConcatEmptySeq
<1> QED
    BY <1>2, <1>3, <1>4, <1>5

-----------------------------------------------------------------------------

(* Where the lines end, as the definition says. *)
LEMMA LineEndsAre ==
    ASSUME NEW s
    PROVE  LET end == LineEnds(s)
           IN  end[0] = StrChr(s, 1, LF) /\ \A i \in 1..5 : end[i] = LineEnd(s, end[i - 1])
<1> DEFINE a == StrChr(s, 1, LF)
           b == LineEnd(s, a)
           c == LineEnd(s, b)
           d == LineEnd(s, c)
           e == LineEnd(s, d)
           f == [i \in 0..5 |-> CASE i = 0 -> a [] i = 1 -> b [] i = 2 -> c
                                 [] i = 3 -> d [] i = 4 -> e [] OTHER -> LineEnd(s, e)]
<1>1. /\ f[0] = a /\ f[1] = b /\ f[2] = c /\ f[3] = d /\ f[4] = e /\ f[5] = LineEnd(s, e)
    OBVIOUS
<1>2. ASSUME NEW i \in 0..5 PROVE f[i] = IF i = 0 THEN StrChr(s, 1, LF) ELSE LineEnd(s, f[i - 1])
  <2> HIDE DEF f
  <2>1. i = 0 \/ (i = 1 /\ i - 1 = 0) \/ (i = 2 /\ i - 1 = 1) \/ (i = 3 /\ i - 1 = 2)
          \/ (i = 4 /\ i - 1 = 3) \/ (i = 5 /\ i - 1 = 4)
      OBVIOUS
  <2> QED
      BY <1>1, <2>1
<1>a. DOMAIN f = 0..5 /\ f = [i \in DOMAIN f |-> f[i]]
    OBVIOUS
<1>3. \E end : end = [i \in 0..5 |-> IF i = 0 THEN StrChr(s, 1, LF) ELSE LineEnd(s, end[i - 1])]
  <2> HIDE DEF f, a
  <2>1. f = [i \in 0..5 |-> IF i = 0 THEN StrChr(s, 1, LF) ELSE LineEnd(s, f[i - 1])]
      BY <1>2, <1>a
  <2> QED
      BY <2>1, Zenon
<1>4. PICK end : /\ end = LineEnds(s)
                 /\ end = [i \in 0..5 |-> IF i = 0 THEN StrChr(s, 1, LF)
                                          ELSE LineEnd(s, end[i - 1])]
    BY <1>3, Zenon DEF LineEnds
<1> QED
    BY <1>4

(* A header line. *)
LineIs(h, n, v, m) ==
    /\ h \in Seq(Characters) /\ Len(h) = n + m + 3
    /\ \A i \in 1..n : h[i] = "x"
    /\ h[n + 1] = SP
    /\ \A i \in 1..m : h[n + 1 + i] = v[i]
    /\ h[n + m + 2] = CR /\ h[n + m + 3] = LF

LEMMA HeaderLineIs ==
    ASSUME NEW n \in Nat, NEW v \in Seq(Characters), NEW m \in Nat, m = Len(v)
    PROVE  LineIs(HeaderLine(n, v), n, v, m)
<1>1. SP \in Characters /\ CR \in Characters /\ LF \in Characters
    BY DEF Characters
<1>2. PICK w \in Seq(Characters) : w = Word(n) /\ Len(w) = n /\ \A i \in 1..n : w[i] = "x"
  <2>1. Word(n) \in Seq(Characters) /\ Len(Word(n)) = n /\ \A i \in 1..n : Word(n)[i] = "x"
      BY DEF Word, Characters
  <2> QED
      BY <2>1
<1>3. PICK a : a = w \o <<SP>>
    OBVIOUS
<1>4. a \in Seq(Characters) /\ Len(a) = n + 1 /\ a[n + 1] = SP /\ \A i \in 1..n : a[i] = "x"
  <2>1. /\ a \in Seq(Characters) /\ Len(a) = Len(w) + 1
        /\ \A k \in 1..Len(w) : a[k] = w[k]
        /\ a[Len(w) + 1] = SP
      BY ONLY <1>1, <1>3, w \in Seq(Characters), OneMore
  <2> QED
      BY <1>2, <2>1
<1>5. PICK h : h = a \o v \o <<CR, LF>>
    OBVIOUS
<1>6. /\ h \in Seq(Characters) /\ Len(h) = n + m + 3
      /\ \A k \in 1..n + 1 : h[k] = a[k]
      /\ \A k \in 1..m : h[n + 1 + k] = v[k]
      /\ h[n + m + 2] = CR /\ h[n + m + 3] = LF
  <2>0. a \in Seq(Characters) /\ v \in Seq(Characters)
      BY <1>4
  <2>1. /\ h \in Seq(Characters) /\ Len(h) = Len(a) + Len(v) + 2
        /\ \A k \in 1..Len(a) : h[k] = a[k]
        /\ \A k \in 1..Len(v) : h[Len(a) + k] = v[k]
        /\ h[Len(a) + Len(v) + 1] = CR /\ h[Len(a) + Len(v) + 2] = LF
      BY ONLY <1>1, <1>5, <2>0, Joined
  <2>2. Len(a) = n + 1 /\ Len(a) + Len(v) + 1 = n + m + 2 /\ Len(a) + Len(v) + 2 = n + m + 3
      BY <1>4
  <2> QED
      BY <2>1, <2>2
<1>7. \A i \in 1..n : i \in 1..n + 1
    OBVIOUS
<1>8. LineIs(h, n, v, m)
    BY <1>4, <1>6, <1>7 DEF LineIs
<1>9. h = HeaderLine(n, v)
    BY <1>2, <1>3, <1>5 DEF HeaderLine, CRLF
<1> QED
    BY <1>8, <1>9

(* parse_response_line in front of a header line: it starts where the line   *)
(* before ends, before or behind its line feed.                            *)
LineFrom(s, e, a, n, v) ==
    /\ e \in Nat /\ e # 0 /\ a \in Nat /\ n \in Nat /\ Len(s) \in Nat
    /\ v \in Seq(Characters) /\ Lacks(v, CR)
    /\ Stands(s, a, HeaderLine(n, v))
    /\ e = a \/ (e + 1 = a /\ s[a] = LF)

LineRead(s, e, a, n, m) ==
    /\ StrChr(s, e + 1, SP) = a + n + 1
    /\ LineEnd(s, e) = a + n + m + 2
    /\ s[a + n + m + 2] = CR /\ s[a + n + m + 3] = LF

(* It finds the value and the end of that line. *)
LEMMA LineEndAt ==
    ASSUME NEW s, NEW e, NEW a, NEW n, NEW v, LineFrom(s, e, a, n, v), NEW m, m = Len(v)
    PROVE  LineRead(s, e, a, n, m)
<1> USE DEF LineFrom
<1>a. m \in Nat
    BY LenProperties
<1>1. PICK h : h = HeaderLine(n, v)
    OBVIOUS
<1>2. LineIs(h, n, v, m)
    BY <1>a, <1>1, HeaderLineIs
<1>3. a + n + m + 3 <= Len(s) /\ \A i \in 1..n + m + 3 : s[a + i] = h[i]
    BY <1>a, <1>1, <1>2 DEF Stands, LineIs
<1>4. "x" # SP /\ LF # SP
    BY DEF SP, LF
<1>5. PICK f \in Nat, q \in Nat, g \in Nat, r \in Nat :
          f = e + 1 /\ q = a + n + 1 /\ g = q + 1 /\ r = a + n + m + 2
  <2>1. e + 1 \in Nat /\ a + n + 1 \in Nat /\ a + n + 1 + 1 \in Nat /\ a + n + m + 2 \in Nat
      BY <1>a
  <2> QED
      BY <2>1
<1>6. s[q] = SP /\ s[r] = CR /\ s[a + n + m + 3] = LF
  <2>1. /\ n + 1 \in 1..n + m + 3 /\ n + m + 2 \in 1..n + m + 3 /\ n + m + 3 \in 1..n + m + 3
        /\ q = a + (n + 1) /\ r = a + (n + m + 2) /\ a + n + m + 3 = a + (n + m + 3)
      BY <1>a, <1>5
  <2>2. h[n + 1] = SP /\ h[n + m + 2] = CR /\ h[n + m + 3] = LF
      BY <1>2 DEF LineIs
  <2>3. /\ s[a + (n + 1)] = h[n + 1] /\ s[a + (n + m + 2)] = h[n + m + 2]
        /\ s[a + (n + m + 3)] = h[n + m + 3]
      BY <1>3, <2>1
  <2> QED
      BY <2>1, <2>2, <2>3
<1>7. ASSUME NEW k \in f..q - 1 PROVE s[k] # SP
  <2>1. CASE k = a
    <3>1. s[k] = LF
        BY <1>5, <2>1
    <3> QED
        BY <1>4, <3>1
  <2>2. CASE k # a
    <3>1. PICK i \in 1..n : k = a + i
      <4>1. k - a \in 1..n /\ k = a + (k - a)
          BY <1>a, <1>5, <2>2
      <4> QED
          BY <4>1
    <3>2. i \in 1..n + m + 3
        BY <1>a
    <3>3. s[k] = h[i] /\ h[i] = "x"
        BY <1>2, <1>3, <3>1, <3>2 DEF LineIs
    <3> QED
        BY <1>4, <3>3
  <2> QED
      BY <2>1, <2>2
<1>8. StrChr(s, f, SP) = q
  <2>1. f <= q /\ q <= Len(s)
      BY <1>a, <1>3, <1>5
  <2> QED
      BY <1>6, <1>7, <2>1, StrChrAt
<1>9. ASSUME NEW k \in g..r - 1 PROVE s[k] # CR
  <2>1. PICK i \in 1..m : k = a + (n + 1 + i)
    <3>1. k - (a + n + 1) \in 1..m /\ k = a + (n + 1 + (k - (a + n + 1)))
        BY <1>a, <1>5
    <3> QED
        BY <3>1
  <2>2. n + 1 + i \in 1..n + m + 3
      BY <1>a
  <2>3. s[k] = h[n + 1 + i] /\ h[n + 1 + i] = v[i]
      BY <1>2, <1>3, <2>1, <2>2 DEF LineIs
  <2> QED
      BY <2>3 DEF Lacks
<1>10. StrChr(s, g, CR) = r
  <2>1. g <= r /\ r <= Len(s)
      BY <1>a, <1>3, <1>5
  <2> QED
      BY <1>6, <1>9, <2>1, StrChrAt
<1>11. LineEnd(s, e) = r
  <2>1. e # 0 /\ StrChr(s, e + 1, SP) = q /\ q # 0 /\ StrChr(s, q + 1, CR) = r
      BY <1>5, <1>8, <1>10
  <2> QED
      BY ONLY <2>1 DEF LineEnd
<1> QED
    BY <1>5, <1>6, <1>8, <1>11 DEF LineRead

(* The end of a line is inside of the text, *)
LEMMA LineEndRange ==
    ASSUME NEW s, Len(s) \in Nat, NEW e \in Nat
    PROVE  LineEnd(s, e) \in 0..Len(s)
<1>1. PICK q : q = IF e = 0 THEN 0 ELSE StrChr(s, e + 1, SP)
    OBVIOUS
<1>2. q \in Nat
  <2>1. e + 1 \in Nat
      OBVIOUS
  <2> QED
      BY <1>1, <2>1, StrChrRange
<1>3. LineEnd(s, e) = IF q = 0 THEN 0 ELSE StrChr(s, q + 1, CR)
    BY <1>1 DEF LineEnd
<1>4. q + 1 \in Nat
    BY <1>2
<1> QED
    BY <1>3, <1>4, StrChrRange

(* and it stays where it is when more is put behind the text. *)
LEMMA LineEndBegins ==
    ASSUME NEW p, Len(p) \in Nat, NEW s, Len(s) \in Nat, Begins(p, s), NEW e \in Nat,
           LineEnd(p, e) # 0
    PROVE  e # 0 /\ LineEnd(s, e) = LineEnd(p, e)
<1>1. e # 0 /\ StrChr(p, e + 1, SP) # 0 /\ LineEnd(p, e) = StrChr(p, StrChr(p, e + 1, SP) + 1, CR)
    BY DEF LineEnd
<1>2. e + 1 \in Nat /\ e + 1 # 0
    OBVIOUS
<1>3. PICK q \in Nat : q = StrChr(p, e + 1, SP) /\ q = StrChr(s, e + 1, SP)
  <2>1. StrChr(s, e + 1, SP) = StrChr(p, e + 1, SP) /\ StrChr(p, e + 1, SP) \in (e + 1)..Len(p)
      BY <1>1, <1>2, StrChrBegins
  <2> QED
      BY <2>1
<1>4. q + 1 \in Nat /\ q + 1 # 0 /\ StrChr(p, q + 1, CR) # 0
    BY <1>1, <1>3
<1>5. StrChr(s, q + 1, CR) = StrChr(p, q + 1, CR)
    BY <1>4, StrChrBegins
<1> QED
    BY <1>1, <1>3, <1>5 DEF LineEnd

(* The five lines of a beginning that is parsed are those of the text. *)
LEMMA EndsBegin ==
    ASSUME NEW p, Len(p) \in Nat, NEW s, Len(s) \in Nat, Begins(p, s), LineEnds(p)[5] # 0
    PROVE  LineEnds(p)[5] = LineEnds(s)[5] /\ LineEnds(p)[5] \in 1..Len(p)
<1>1. PICK a, b, c, d, e, f :
          /\ a = StrChr(p, 1, LF) /\ b = LineEnd(p, a) /\ c = LineEnd(p, b) /\ d = LineEnd(p, c)
          /\ e = LineEnd(p, d) /\ f = LineEnd(p, e) /\ f = LineEnds(p)[5]
    BY LineEndsAre
<1>2. 1 \in Nat /\ 1 # 0
    OBVIOUS
<1>3. /\ a \in Nat /\ b \in Nat /\ c \in Nat /\ d \in Nat /\ e \in Nat /\ f \in 0..Len(p)
  <2>1. a \in 0..Len(p)
      BY <1>1, <1>2, StrChrRange
  <2>2. b \in 0..Len(p)
      BY <1>1, <2>1, LineEndRange
  <2>3. c \in 0..Len(p)
      BY <1>1, <2>2, LineEndRange
  <2>4. d \in 0..Len(p)
      BY <1>1, <2>3, LineEndRange
  <2>5. e \in 0..Len(p)
      BY <1>1, <2>4, LineEndRange
  <2>6. f \in 0..Len(p)
      BY <1>1, <2>5, LineEndRange
  <2> QED
      BY <2>1, <2>2, <2>3, <2>4, <2>5, <2>6
<1>4. e # 0 /\ f = LineEnd(s, e)
    BY <1>1, <1>3, LineEndBegins
<1>5. d # 0 /\ e = LineEnd(s, d)
    BY <1>1, <1>3, <1>4, LineEndBegins
<1>6. c # 0 /\ d = LineEnd(s, c)
    BY <1>1, <1>3, <1>5, LineEndBegins
<1>7. b # 0 /\ c = LineEnd(s, b)
    BY <1>1, <1>3, <1>6, LineEndBegins
<1>8. a # 0 /\ b = LineEnd(s, a)
    BY <1>1, <1>3, <1>7, LineEndBegins
<1>9. a = StrChr(s, 1, LF)
    BY <1>1, <1>2, <1>8, StrChrBegins
<1>10. LineEnds(s)[5] = f
  <2>1. PICK end : /\ end = LineEnds(s) /\ end[0] = StrChr(s, 1, LF)
                   /\ end[1] = LineEnd(s, end[0]) /\ end[2] = LineEnd(s, end[1])
                   /\ end[3] = LineEnd(s, end[2]) /\ end[4] = LineEnd(s, end[3])
                   /\ end[5] = LineEnd(s, end[4])
      BY LineEndsAre
  <2> QED
      BY <1>4, <1>5, <1>6, <1>7, <1>8, <1>9, <2>1
<1> QED
    BY <1>1, <1>3, <1>10

(* Where there is no space there is no header line. *)
LEMMA NoSpaceNoLines ==
    ASSUME NEW s, Len(s) \in Nat, Lacks(s, SP)
    PROVE  LineEnds(s)[5] = 0
<1>1. PICK end : /\ end = LineEnds(s) /\ end[0] = StrChr(s, 1, LF)
                 /\ end[1] = LineEnd(s, end[0]) /\ end[2] = LineEnd(s, end[1])
                 /\ end[3] = LineEnd(s, end[2]) /\ end[4] = LineEnd(s, end[3])
                 /\ end[5] = LineEnd(s, end[4])
    BY LineEndsAre
<1>2. end[0] \in Nat
  <2>1. 1 \in Nat
      OBVIOUS
  <2>2. end[0] \in 0..Len(s)
      BY <1>1, <2>1, StrChrRange
  <2> QED
      BY <2>2
<1>3. ASSUME NEW e \in Nat PROVE LineEnd(s, e) = 0
  <2>1. e + 1 \in Nat /\ e + 1 # 0
      OBVIOUS
  <2>2. StrChr(s, e + 1, SP) = 0
      BY <2>1, StrChrLacks
  <2> QED
      BY <2>2 DEF LineEnd
<1>4. end[1] = 0
    BY <1>1, <1>2, <1>3
<1>5. end[2] = 0 /\ end[3] = 0 /\ end[4] = 0 /\ end[5] = 0
    BY <1>1, <1>3, <1>4
<1> QED
    BY <1>1, <1>5

-----------------------------------------------------------------------------

(* A text of a length. *)
TextOf(s, n) == s \in Seq(Characters) /\ n \in Nat /\ Len(s) = n

(* Two texts, one behind the other. *)
LEMMA Longer ==
    ASSUME NEW s, NEW n, NEW t, NEW m, TextOf(s, n), TextOf(t, m)
    PROVE  TextOf(s \o t, n + m)
<1>1. s \in Seq(Characters) /\ t \in Seq(Characters)
    BY DEF TextOf
<1>2. s \o t \in Seq(Characters) /\ Len(s \o t) = Len(s) + Len(t)
    BY <1>1, ConcatProperties
<1> QED
    BY <1>2 DEF TextOf

(* The first line of a response. *)
StatusLine(b) == http_version \o <<SP>> \o response_code \o <<SP>> \o Status(b) \o CRLF

(* What can stand behind a head: the content, with its zero byte. *)
Bytes == Characters \cup {NUL}

(* The contents that send_response is given, and what it prints of their length. *)
LEMMA ContentTypes ==
    ASSUME NEW b \in Bodies
    PROVE  /\ Dsize(b) \in Nat
           /\ b.text \in Seq(Characters)
           /\ b.kind \in {"datum", "list", "page", "none"}
           /\ b.kind = "datum" => /\ b.text \in Seq(Chars \cup {"="}) /\ Len(b.text) < REQ_LINE_BUFF
                                  /\ Dsize(b) = Len(b.text) + 1
           /\ b.kind = "list" => Dsize(b) = Len(b.text)
           /\ b.kind = "page" => Dsize(b) = Len(b.text) + 1
           /\ b.kind = "none" => b.text = Word(6) /\ Dsize(b) = 0
<1>1. CASE b.kind = "datum"
  <2>1. b.text \in Data
      BY <1>1 DEF Bodies
  <2>2. b.text \in Seq(Chars \cup {"="}) /\ Len(b.text) < REQ_LINE_BUFF
      BY <2>1, TextAssumption DEF TextAssumption
  <2>3. Chars \cup {"="} \subseteq Characters
      BY DEF Characters
  <2>4. b.text \in Seq(Characters)
      BY <2>2, <2>3, SeqMonotonic
  <2>5. Len(b.text) \in Nat
      BY <2>2, LenProperties
  <2> QED
      BY <1>1, <2>2, <2>4, <2>5 DEF Dsize
<1>2. CASE b.kind = "list"
  <2>1. b.text \in Lists
      BY <1>2 DEF Bodies
  <2>2. b.text \in Seq(Characters)
      BY <2>1, TextAssumption DEF TextAssumption
  <2> QED
      BY <1>2, <2>2, LenProperties DEF Dsize
<1>3. CASE b.kind = "page"
  <2>1. b.text \in Pages
      BY <1>3 DEF Bodies
  <2>2. b.text \in Seq(Characters)
      BY <2>1, TextAssumption DEF TextAssumption
  <2>3. Len(b.text) \in Nat
      BY <2>2, LenProperties
  <2> QED
      BY <1>3, <2>2, <2>3 DEF Dsize
<1>4. CASE b.kind = "none"
  <2>1. b.text = Word(6)
      BY <1>4 DEF Bodies
  <2> QED
      BY <1>4, <2>1, Words DEF Dsize
<1> QED
    BY <1>1, <1>2, <1>3, <1>4 DEF Bodies

(* The status line: one end of line, at its end. *)
LEMMA StatusLineIs ==
    ASSUME NEW b \in Bodies
    PROVE  \E l :
               /\ l = StatusLine(b) /\ l \in Seq(Characters)
               /\ Len(l) = 15 + Len(Status(b)) /\ Len(Status(b)) \in Nat
               /\ l[Len(l)] = LF /\ \A i \in 1..Len(l) - 1 : l[i] # LF
               /\ b.kind # "page" => Len(l) = 17
<1>1. SP \in Characters /\ CR \in Characters /\ LF \in Characters
    BY DEF Characters
<1>2. PICK k \in Nat :
          /\ Status(b) \in Seq(Characters) /\ Len(Status(b)) = k
          /\ \A i \in 1..k : Status(b)[i] # LF
          /\ b.kind # "page" => k = 2
  <2>1. /\ status_okay \in Seq(Characters) /\ Len(status_okay) = 2
        /\ \A i \in 1..2 : status_okay[i] # LF
      BY DEF status_okay, Word, Characters, LF
  <2>2. /\ status_not_found \in Seq(Characters) /\ Len(status_not_found) = 14
        /\ \A i \in 1..14 : status_not_found[i] # LF
      BY DEF status_not_found, Word, Characters, LF, SP
  <2> QED
      BY <2>1, <2>2 DEF Status
<1>3. PICK c \in Seq(Characters), v \in Seq(Characters), u \in Seq(Characters) :
          /\ v = http_version /\ Len(v) = 8 /\ (\A i \in 1..8 : v[i] = "x")
          /\ c = response_code /\ Len(c) = 3 /\ (\A i \in 1..3 : c[i] = "x")
          /\ u = Status(b)
  <2>1. /\ response_code \in Seq(Characters) /\ Len(response_code) = 3
        /\ \A i \in 1..3 : response_code[i] = "x"
      BY DEF response_code, Word, Characters
  <2> QED
      BY <1>2, <2>1, Words
<1>4. PICK w : w = v \o <<SP>>
    OBVIOUS
<1>5. w \in Seq(Characters) /\ Len(w) = 9 /\ \A i \in 1..9 : w[i] # LF
  <2>1. /\ w \in Seq(Characters) /\ Len(w) = Len(v) + 1
        /\ \A i \in 1..Len(v) : w[i] = v[i]
        /\ w[Len(v) + 1] = SP
      BY ONLY <1>1, <1>4, v \in Seq(Characters), OneMore
  <2>2. \A i \in 1..9 : i \in 1..8 \/ i = 9
      OBVIOUS
  <2>3. "x" # LF /\ SP # LF
      BY DEF SP, LF
  <2> QED
      BY <1>3, <2>1, <2>2, <2>3
<1>6. PICK x : x = w \o c
    OBVIOUS
<1>7. x \in Seq(Characters) /\ Len(x) = 12 /\ \A i \in 1..12 : x[i] # LF
  <2>0. w \in Seq(Characters) /\ c \in Seq(Characters)
      BY <1>5
  <2>1. /\ x \in Seq(Characters) /\ Len(x) = Len(w) + Len(c)
        /\ \A i \in 1..Len(w) : x[i] = w[i]
        /\ \A i \in 1..Len(c) : x[Len(w) + i] = c[i]
      BY ONLY <1>6, <2>0, Concat
  <2>2. \A i \in 1..12 : i \in 1..9 \/ (i - 9 \in 1..3 /\ i = 9 + (i - 9))
      OBVIOUS
  <2>3. "x" # LF
      BY DEF LF
  <2> QED
      BY <1>3, <1>5, <2>1, <2>2, <2>3
<1>8. PICK y : y = x \o <<SP>>
    OBVIOUS
<1>9. y \in Seq(Characters) /\ Len(y) = 13 /\ \A i \in 1..13 : y[i] # LF
  <2>0. x \in Seq(Characters)
      BY <1>7
  <2>1. /\ y \in Seq(Characters) /\ Len(y) = Len(x) + 1
        /\ \A i \in 1..Len(x) : y[i] = x[i]
        /\ y[Len(x) + 1] = SP
      BY ONLY <1>1, <1>8, <2>0, OneMore
  <2>2. \A i \in 1..13 : i \in 1..12 \/ i = 13
      OBVIOUS
  <2>3. SP # LF
      BY DEF SP, LF
  <2> QED
      BY <1>7, <2>1, <2>2, <2>3
<1>10. PICK l : l = y \o u \o <<CR, LF>>
    OBVIOUS
<1>11. /\ l \in Seq(Characters) /\ Len(l) = 15 + k /\ l[15 + k] = LF
       /\ \A i \in 1..14 + k : l[i] # LF
  <2>0. y \in Seq(Characters) /\ u \in Seq(Characters)
      BY <1>9
  <2>c. CR \in Characters /\ LF \in Characters
      BY <1>1
  <2>1. /\ l \in Seq(Characters) /\ Len(l) = Len(y) + Len(u) + 2
        /\ \A i \in 1..Len(y) : l[i] = y[i]
        /\ \A i \in 1..Len(u) : l[Len(y) + i] = u[i]
        /\ l[Len(y) + Len(u) + 1] = CR /\ l[Len(y) + Len(u) + 2] = LF
      BY ONLY <1>10, <2>0, <2>c, Joined
  <2>2. Len(y) = 13 /\ Len(u) = k /\ Len(y) + Len(u) + 1 = 14 + k /\ Len(y) + Len(u) + 2 = 15 + k
      BY <1>2, <1>3, <1>9
  <2>3. \A i \in 1..14 + k : i \in 1..13 \/ (i - 13 \in 1..k /\ i = 13 + (i - 13)) \/ i = 14 + k
      OBVIOUS
  <2>4. CR # LF
      BY DEF CR, LF
  <2>5. l[14 + k] = CR /\ l[15 + k] = LF /\ Len(l) = 15 + k
      BY <2>1, <2>2
  <2>6. ASSUME NEW i \in 1..14 + k PROVE l[i] # LF
    <3>1. CASE i \in 1..13
        BY <1>9, <2>1, <2>2, <3>1
    <3>2. CASE i - 13 \in 1..k /\ i = 13 + (i - 13)
      <4>1. l[13 + (i - 13)] = u[i - 13] /\ u[i - 13] # LF
          BY <1>2, <1>3, <2>1, <2>2, <3>2
      <4> QED
          BY <3>2, <4>1
    <3>3. CASE i = 14 + k
        BY <2>4, <2>5, <3>3
    <3> QED
        BY <2>3, <3>1, <3>2, <3>3
  <2> QED
      BY <2>1, <2>5, <2>6
<1>12. l = StatusLine(b)
    BY <1>3, <1>4, <1>6, <1>8, <1>10 DEF StatusLine, CRLF
<1>13. /\ Len(l) = 15 + Len(Status(b)) /\ Len(Status(b)) \in Nat /\ l[Len(l)] = LF
       /\ Len(l) - 1 = 14 + k
       /\ b.kind # "page" => Len(l) = 17
    BY <1>2, <1>11
<1>14. \A i \in 1..Len(l) - 1 : l[i] # LF
    BY <1>11, <1>13
<1> QED
    BY <1>11, <1>12, <1>13, <1>14

(* The Content-Length of a body. *)
Printed(b) == Decimal[Dsize(b)]

(* Where the parts of an answer stand. *)
HeadParts(b, s, f, d) ==
    /\ Len(s) >= f + 109 + d
    /\ Stands(s, 0, StatusLine(b))
    /\ Stands(s, f, HeaderLine(5, http_date))
    /\ Stands(s, f + 15, HeaderLine(7, http_server))
    /\ Stands(s, f + 40, HeaderLine(14, http_last_modified))
    /\ Stands(s, f + 64, HeaderLine(15, Printed(b)))
    /\ Stands(s, f + 82 + d, HeaderLine(13, http_content_type))
    /\ Stands(s, f + 107 + d, CRLF)

(* The values of the header lines, and the end of a line. *)
LEMMA Values ==
    /\ http_date \in Seq(Characters) /\ Len(http_date) = 7 /\ Lacks(http_date, CR)
    /\ http_server \in Seq(Characters) /\ Len(http_server) = 15 /\ Lacks(http_server, CR)
    /\ http_last_modified \in Seq(Characters) /\ Len(http_last_modified) = 7
    /\ Lacks(http_last_modified, CR)
    /\ http_content_type \in Seq(Characters) /\ Len(http_content_type) = 9
    /\ Lacks(http_content_type, CR)
    /\ CRLF \in Seq(Characters) /\ Len(CRLF) = 2 /\ CRLF[1] = CR /\ CRLF[2] = LF
BY DEF http_date, http_server, http_last_modified, http_content_type, CRLF, Word, Characters,
       Lacks, CR, SP

LEMMA PrintedIs ==
    ASSUME NEW b \in Bodies
    PROVE  /\ Printed(b) \in Seq(Digits) /\ Printed(b) \in Seq(Characters)
           /\ Len(Printed(b)) \in Nat /\ Lacks(Printed(b), CR)
<1>1. Printed(b) \in Seq(Digits)
    BY ContentTypes, Decimals DEF Printed, Digits
<1>2. Digits \subseteq Characters
    BY DEF Digits, Characters
<1>3. CR \notin Digits
    BY DEF CR, Digits, Digit, Range
<1>4. \A i \in 1..Len(Printed(b)) : Printed(b)[i] \in Digits
    BY <1>1, ElementOfSeq
<1> QED
    BY <1>1, <1>2, <1>3, <1>4, SeqMonotonic, LenProperties DEF Lacks

(* The head of a response is as long as its lines, which stand at known places. *)
LEMMA HeadIs ==
    ASSUME NEW b \in Bodies, NEW f, f = Len(StatusLine(b)), NEW d, d = Len(Printed(b)),
           NEW h, h = ResponseHead(b)
    PROVE  /\ f \in Nat /\ d \in Nat
           /\ TextOf(h, f + 109 + d)
           /\ \A s : Begins(h, s) => HeadParts(b, s, f, d)
<1>1. f \in Nat /\ d \in Nat
    BY StatusLineIs, PrintedIs
<1>2. PICK c0, h1, h2, h3, h4, h5, e :
          /\ c0 = StatusLine(b)                    /\ h1 = HeaderLine(5, http_date)
          /\ h2 = HeaderLine(7, http_server)       /\ h3 = HeaderLine(14, http_last_modified)
          /\ h4 = HeaderLine(15, Printed(b))       /\ h5 = HeaderLine(13, http_content_type)
          /\ e = CRLF
    OBVIOUS
<1>3. c0 \in Seq(Characters) /\ Len(c0) = f
    BY <1>2, StatusLineIs
<1>4. /\ h1 \in Seq(Characters) /\ Len(h1) = 15
      /\ h2 \in Seq(Characters) /\ Len(h2) = 25
      /\ h3 \in Seq(Characters) /\ Len(h3) = 24
      /\ h4 \in Seq(Characters) /\ Len(h4) = 18 + d
      /\ h5 \in Seq(Characters) /\ Len(h5) = 25
      /\ e \in Seq(Characters) /\ Len(e) = 2
  <2>1. LineIs(h1, 5, http_date, 7) /\ LineIs(h2, 7, http_server, 15)
      BY <1>2, Values, HeaderLineIs
  <2>2. LineIs(h3, 14, http_last_modified, 7) /\ LineIs(h5, 13, http_content_type, 9)
      BY <1>2, Values, HeaderLineIs
  <2>3. LineIs(h4, 15, Printed(b), d)
      BY <1>1, <1>2, PrintedIs, HeaderLineIs
  <2>4. e \in Seq(Characters) /\ Len(e) = 2
      BY <1>2, Values
  <2> QED
      BY <1>1, <2>1, <2>2, <2>3, <2>4 DEF LineIs
<1>5. PICK c1, c2, c3, c4, c5, c6 :
          /\ c1 = c0 \o h1 /\ c2 = c1 \o h2 /\ c3 = c2 \o h3
          /\ c4 = c3 \o h4 /\ c5 = c4 \o h5 /\ c6 = c5 \o e
    OBVIOUS
<1>6. h = c6
    BY <1>2, <1>5 DEF ResponseHead, StatusLine, Printed
<1>7. TextOf(c1, f + 15) /\ TextOf(c0, f)
  <2>1. TextOf(c0, f) /\ TextOf(h1, 15)
      BY <1>1, <1>3, <1>4 DEF TextOf
  <2> QED
      BY ONLY <1>5, <2>1, Longer
<1>8. TextOf(c2, f + 40)
  <2>1. TextOf(h2, 25)
      BY <1>4 DEF TextOf
  <2>2. TextOf(c2, f + 15 + 25)
      BY ONLY <1>5, <1>7, <2>1, Longer
  <2> QED
      BY <1>1, <2>2 DEF TextOf
<1>9. TextOf(c3, f + 64)
  <2>1. TextOf(h3, 24)
      BY <1>4 DEF TextOf
  <2>2. TextOf(c3, f + 40 + 24)
      BY ONLY <1>5, <1>8, <2>1, Longer
  <2> QED
      BY <1>1, <2>2 DEF TextOf
<1>10. TextOf(c4, f + 82 + d)
  <2>1. TextOf(h4, 18 + d)
      BY <1>1, <1>4 DEF TextOf
  <2>2. TextOf(c4, f + 64 + (18 + d))
      BY ONLY <1>5, <1>9, <2>1, Longer
  <2> QED
      BY <1>1, <2>2 DEF TextOf
<1>11. TextOf(c5, f + 107 + d)
  <2>1. TextOf(h5, 25)
      BY <1>4 DEF TextOf
  <2>2. TextOf(c5, f + 82 + d + 25)
      BY ONLY <1>5, <1>10, <2>1, Longer
  <2> QED
      BY <1>1, <2>2 DEF TextOf
<1>12. TextOf(c6, f + 109 + d)
  <2>1. TextOf(e, 2)
      BY <1>4 DEF TextOf
  <2>2. TextOf(c6, f + 107 + d + 2)
      BY ONLY <1>5, <1>11, <2>1, Longer
  <2> QED
      BY <1>1, <2>2 DEF TextOf
<1>13. ASSUME NEW s, Begins(h, s) PROVE HeadParts(b, s, f, d)
  <2>0. Begins(c6, s)
      BY <1>6, <1>13
  <2>1. Begins(c5, s) /\ Stands(s, f + 107 + d, e)
    <3>1. c5 \in Seq(Characters) /\ Len(c5) = f + 107 + d /\ e \in Seq(Characters)
        BY <1>4, <1>11 DEF TextOf
    <3> QED
        BY ONLY <1>5, <3>1, <2>0, LastPart
  <2>2. Begins(c4, s) /\ Stands(s, f + 82 + d, h5)
    <3>1. c4 \in Seq(Characters) /\ Len(c4) = f + 82 + d /\ h5 \in Seq(Characters)
        BY <1>4, <1>10 DEF TextOf
    <3> QED
        BY ONLY <1>5, <3>1, <2>1, LastPart
  <2>3. Begins(c3, s) /\ Stands(s, f + 64, h4)
    <3>1. c3 \in Seq(Characters) /\ Len(c3) = f + 64 /\ h4 \in Seq(Characters)
        BY <1>4, <1>9 DEF TextOf
    <3> QED
        BY ONLY <1>5, <3>1, <2>2, LastPart
  <2>4. Begins(c2, s) /\ Stands(s, f + 40, h3)
    <3>1. c2 \in Seq(Characters) /\ Len(c2) = f + 40 /\ h3 \in Seq(Characters)
        BY <1>4, <1>8 DEF TextOf
    <3> QED
        BY ONLY <1>5, <3>1, <2>3, LastPart
  <2>5. Begins(c1, s) /\ Stands(s, f + 15, h2)
    <3>1. c1 \in Seq(Characters) /\ Len(c1) = f + 15 /\ h2 \in Seq(Characters)
        BY <1>4, <1>7 DEF TextOf
    <3> QED
        BY ONLY <1>5, <3>1, <2>4, LastPart
  <2>6. Begins(c0, s) /\ Stands(s, f, h1)
    <3>1. c0 \in Seq(Characters) /\ Len(c0) = f /\ h1 \in Seq(Characters)
        BY <1>4, <1>7 DEF TextOf
    <3> QED
        BY ONLY <1>5, <3>1, <2>5, LastPart
  <2>7. Stands(s, 0, c0)
      BY <1>1, <1>3, <2>6 DEF Begins, Stands
  <2>8. Len(s) >= f + 109 + d
      BY <1>1, <1>12, <2>0 DEF Begins, TextOf
  <2> QED
      BY <1>2, <2>1, <2>2, <2>3, <2>4, <2>5, <2>6, <2>7, <2>8 DEF HeadParts
<1> QED
    BY <1>1, <1>6, <1>12, <1>13 DEF TextOf

(* Where parse_response_line stops, and what Content-Length stands between. *)
HeadRead(b, s, f, d) ==
    /\ LineEnds(s)[5] = f + 106 + d
    /\ Between(s, StrChr(s, LineEnds(s)[3] + 1, SP), LineEnds(s)[4]) = Printed(b)
    /\ s[f + 106 + d] = CR /\ s[f + 107 + d] = LF
    /\ s[f + 108 + d] = CR /\ s[f + 109 + d] = LF

(* parse_response_line goes through all five lines of it. *)
LEMMA HeadIsRead ==
    ASSUME NEW b \in Bodies, NEW f, f = Len(StatusLine(b)), NEW d, d = Len(Printed(b)),
           NEW s \in Seq(Bytes), Begins(ResponseHead(b), s)
    PROVE  HeadRead(b, s, f, d)
<1>1. f \in Nat /\ d \in Nat /\ HeadParts(b, s, f, d) /\ Len(s) \in Nat
    BY HeadIs, LenProperties
<1>2. PICK l : /\ l = StatusLine(b) /\ Len(l) = f /\ f # 0
               /\ l[f] = LF /\ \A i \in 1..f - 1 : l[i] # LF
    BY StatusLineIs
<1>3. StrChr(s, 1, LF) = f
  <2>1. PICK one \in Nat : one = 1
      OBVIOUS
  <2>2. f <= Len(s) /\ \A i \in 1..f : s[i] = l[i]
      BY <1>1, <1>2 DEF HeadParts, Stands
  <2>3. one <= f /\ s[f] = LF /\ \A k \in one..f - 1 : s[k] # LF
      BY <1>1, <1>2, <2>1, <2>2
  <2>4. StrChr(s, one, LF) = f
      BY <1>1, <2>2, <2>3, StrChrAt
  <2> QED
      BY <2>1, <2>4
<1>p. f \in Nat /\ d \in Nat /\ Len(s) \in Nat /\ f # 0
    BY <1>1, <1>2
<1>h. /\ Stands(s, f, HeaderLine(5, http_date))
      /\ Stands(s, f + 15, HeaderLine(7, http_server))
      /\ Stands(s, f + 40, HeaderLine(14, http_last_modified))
      /\ Stands(s, f + 64, HeaderLine(15, Printed(b)))
      /\ Stands(s, f + 82 + d, HeaderLine(13, http_content_type))
    BY <1>1 DEF HeadParts
<1>v. /\ http_date \in Seq(Characters) /\ Lacks(http_date, CR)
      /\ http_server \in Seq(Characters) /\ Lacks(http_server, CR)
      /\ http_last_modified \in Seq(Characters) /\ Lacks(http_last_modified, CR)
      /\ Printed(b) \in Seq(Characters) /\ Lacks(Printed(b), CR)
      /\ http_content_type \in Seq(Characters) /\ Lacks(http_content_type, CR)
    BY Values, PrintedIs
<1>m. /\ 7 = Len(http_date) /\ 15 = Len(http_server) /\ 7 = Len(http_last_modified)
      /\ d = Len(Printed(b)) /\ 9 = Len(http_content_type)
    BY Values
<1>4. LineRead(s, f, f, 5, 7)
  <2>1. LineFrom(s, f, f, 5, http_date)
      BY ONLY <1>p, <1>h, <1>v DEF LineFrom
  <2> QED
      BY ONLY <1>m, <2>1, LineEndAt
<1>5. LineEnd(s, f) = f + 14 /\ s[f + 15] = LF
    BY <1>1, <1>4 DEF LineRead
<1>6. LineRead(s, f + 14, f + 15, 7, 15)
  <2>1. LineFrom(s, f + 14, f + 15, 7, http_server)
      BY ONLY <1>p, <1>h, <1>v, <1>5 DEF LineFrom
  <2> QED
      BY ONLY <1>m, <2>1, LineEndAt
<1>7. LineEnd(s, f + 14) = f + 39 /\ s[f + 40] = LF
    BY <1>1, <1>6 DEF LineRead
<1>8. LineRead(s, f + 39, f + 40, 14, 7)
  <2>1. LineFrom(s, f + 39, f + 40, 14, http_last_modified)
      BY ONLY <1>p, <1>h, <1>v, <1>7 DEF LineFrom
  <2> QED
      BY ONLY <1>m, <2>1, LineEndAt
<1>9. LineEnd(s, f + 39) = f + 63 /\ s[f + 64] = LF
    BY <1>1, <1>8 DEF LineRead
<1>10. LineRead(s, f + 63, f + 64, 15, d)
  <2>1. LineFrom(s, f + 63, f + 64, 15, Printed(b))
      BY ONLY <1>p, <1>h, <1>v, <1>9 DEF LineFrom
  <2> QED
      BY ONLY <1>m, <2>1, LineEndAt
<1>11. /\ LineEnd(s, f + 63) = f + 81 + d /\ s[f + 82 + d] = LF
       /\ StrChr(s, f + 63 + 1, SP) = f + 80
    BY <1>1, <1>10 DEF LineRead
<1>12. LineRead(s, f + 81 + d, f + 82 + d, 13, 9)
  <2>1. LineFrom(s, f + 81 + d, f + 82 + d, 13, http_content_type)
      BY ONLY <1>p, <1>h, <1>v, <1>11 DEF LineFrom
  <2> QED
      BY ONLY <1>m, <2>1, LineEndAt
<1>13. LineEnd(s, f + 81 + d) = f + 106 + d /\ s[f + 106 + d] = CR /\ s[f + 107 + d] = LF
    BY <1>1, <1>12 DEF LineRead
<1>14. s[f + 108 + d] = CR /\ s[f + 109 + d] = LF
  <2>1. \A i \in 1..2 : s[f + 107 + d + i] = CRLF[i]
      BY <1>1, Values DEF HeadParts, Stands
  <2>2. s[f + 107 + d + 1] = CR /\ s[f + 107 + d + 2] = LF
      BY <2>1, Values
  <2> QED
      BY <1>1, <2>2
<1>15. PICK end : /\ end = LineEnds(s)
                  /\ end[0] = f /\ end[1] = f + 14 /\ end[2] = f + 39 /\ end[3] = f + 63
                  /\ end[4] = f + 81 + d /\ end[5] = f + 106 + d
  <2>1. PICK end : /\ end = LineEnds(s) /\ end[0] = StrChr(s, 1, LF)
                   /\ end[1] = LineEnd(s, end[0]) /\ end[2] = LineEnd(s, end[1])
                   /\ end[3] = LineEnd(s, end[2]) /\ end[4] = LineEnd(s, end[3])
                   /\ end[5] = LineEnd(s, end[4])
      BY LineEndsAre
  <2> QED
      BY <1>3, <1>5, <1>7, <1>9, <1>11, <1>13, <2>1
<1>16. SubSeq(s, f + 80 + 1, f + 81 + d - 1) = Printed(b)
  <2>1. PICK a \in Nat, e \in Nat : a = f + 80 /\ e = f + 80 + d
    <3>1. f + 80 \in Nat /\ f + 80 + d \in Nat
        BY <1>1
    <3> QED
        BY <3>1
  <2>2. PICK t \in Seq(Bytes) : t = Printed(b)
      BY PrintedIs, SeqMonotonic DEF Bytes
  <2>3. e = a + Len(t) /\ e <= Len(s)
      BY <1>1, <2>1, <2>2 DEF HeadParts
  <2>4. \A i \in 1..Len(t) : s[a + i] = t[i]
    <3>1. PICK h : h = HeaderLine(15, t) /\ LineIs(h, 15, t, d)
        BY <1>1, <2>2, PrintedIs, HeaderLineIs
    <3>2. \A i \in 1..15 + d + 3 : s[f + 64 + i] = h[i]
        BY <1>1, <2>2, <3>1 DEF HeadParts, Stands, LineIs
    <3>3. ASSUME NEW i \in 1..d PROVE s[a + i] = t[i]
      <4>1. 16 + i \in 1..15 + d + 3 /\ a + i = f + 64 + (16 + i) /\ 16 + i = 15 + 1 + i
          BY <1>1, <2>1
      <4>2. h[15 + 1 + i] = t[i]
          BY <3>1 DEF LineIs
      <4> QED
          BY <3>2, <4>1, <4>2
    <3> QED
        BY <2>2, <3>3
  <2>5. SubSeq(s, a + 1, e) = t
      BY ONLY s \in Seq(Bytes), t \in Seq(Bytes), a \in Nat, e \in Nat, <2>3, <2>4, Middle
  <2>6. f + 81 + d - 1 = e
      BY <1>1, <2>1
  <2> QED
      BY <2>1, <2>2, <2>5, <2>6
<1>17. Between(s, StrChr(s, end[3] + 1, SP), end[4]) = Printed(b)
  <2>1. StrChr(s, end[3] + 1, SP) = f + 80 /\ end[4] = f + 81 + d
      BY <1>11, <1>15
  <2>2. Between(s, f + 80, f + 81 + d) = Printed(b)
      BY <1>16 DEF Between
  <2> QED
      BY ONLY <2>1, <2>2
<1> QED
    BY <1>13, <1>14, <1>15, <1>17 DEF HeadRead

(* parse_http_response takes out of an answer its Content-Length and its     *)
(* content, with the two ends of line in front of it.                      *)
LEMMA AnswerIsRead ==
    ASSUME NEW b \in Bodies, NEW t \in Seq(Bytes), NEW s, s = ResponseHead(b) \o t, NEW stray
    PROVE  /\ LineEnds(s)[5] # 0
           /\ ParseResponse(s, stray) = [length  |-> StrToL(Printed(b) \o stray),
                                         content |-> <<CR, LF, CR, LF>> \o t]
<1>1. PICK h, f, d : h = ResponseHead(b) /\ f = Len(StatusLine(b)) /\ d = Len(Printed(b))
    OBVIOUS
<1>2. f \in Nat /\ d \in Nat /\ h \in Seq(Characters) /\ Len(h) = f + 109 + d
  <2>1. f \in Nat /\ d \in Nat /\ TextOf(h, f + 109 + d)
      BY <1>1, HeadIs
  <2> QED
      BY <2>1 DEF TextOf
<1>3. h \in Seq(Bytes)
    BY <1>2, SeqMonotonic DEF Bytes
<1>4. PICK n \in Nat : n = Len(t)
    BY LenProperties
<1>5. /\ s \in Seq(Bytes) /\ Len(s) = f + 109 + d + n
      /\ \A i \in 1..f + 109 + d : s[i] = h[i]
      /\ \A i \in 1..n : s[f + 109 + d + i] = t[i]
  <2>1. /\ s \in Seq(Bytes) /\ Len(s) = Len(h) + Len(t)
        /\ \A i \in 1..Len(h) : s[i] = h[i]
        /\ \A i \in 1..Len(t) : s[Len(h) + i] = t[i]
      BY <1>1, <1>3, Concat
  <2> QED
      BY <1>2, <1>4, <2>1
<1>6. Begins(h, s)
    BY <1>2, <1>4, <1>5 DEF Begins
<1>7. HeadRead(b, s, f, d)
    BY <1>1, <1>5, <1>6, HeadIsRead
<1>8. PICK c \in Seq(Bytes) : c = <<CR, LF, CR, LF>> /\ Len(c) = 4
                              /\ c[1] = CR /\ c[2] = LF /\ c[3] = CR /\ c[4] = LF
  <2>1. CR \in Bytes /\ LF \in Bytes
      BY DEF Bytes, Characters
  <2>2. <<CR, LF, CR, LF>> \in Seq(Bytes)
      BY <2>1
  <2> QED
      BY <2>2
<1>a. c \in Seq(Bytes) /\ Len(c) = 4 /\ c[1] = CR /\ c[2] = LF /\ c[3] = CR /\ c[4] = LF
    BY <1>8
<1>9. PICK u : u = c \o t
    OBVIOUS
<1>10. /\ u \in Seq(Bytes) /\ Len(u) = 4 + n
       /\ \A i \in 1..4 : u[i] = c[i]
       /\ \A i \in 1..n : u[4 + i] = t[i]
  <2>1. /\ u \in Seq(Bytes) /\ Len(u) = Len(c) + Len(t)
        /\ \A i \in 1..Len(c) : u[i] = c[i]
        /\ \A i \in 1..Len(t) : u[Len(c) + i] = t[i]
      BY <1>9, Concat
  <2> QED
      BY <1>4, <1>a, <2>1
<1>11. PICK a \in Nat, e \in Nat : a = f + 105 + d /\ e = f + 109 + d + n
  <2>1. f + 105 + d \in Nat /\ f + 109 + d + n \in Nat
      BY <1>2
  <2> QED
      BY <2>1
<1>12. ASSUME NEW i \in 1..4 + n PROVE s[a + i] = u[i]
  <2>1. CASE i \in 1..4
    <3>1. /\ s[f + 106 + d] = CR /\ s[f + 107 + d] = LF
          /\ s[f + 108 + d] = CR /\ s[f + 109 + d] = LF
        BY <1>7 DEF HeadRead
    <3>2. /\ a + 1 = f + 106 + d /\ a + 2 = f + 107 + d /\ a + 3 = f + 108 + d
          /\ a + 4 = f + 109 + d
        BY <1>2, <1>11
    <3>3. s[a + 1] = u[1] /\ s[a + 2] = u[2] /\ s[a + 3] = u[3] /\ s[a + 4] = u[4]
      <4>1. u[1] = c[1] /\ u[2] = c[2] /\ u[3] = c[3] /\ u[4] = c[4]
          BY ONLY <1>10
      <4> QED
          BY ONLY <1>a, <3>1, <3>2, <4>1
    <3>4. i = 1 \/ i = 2 \/ i = 3 \/ i = 4
        BY <2>1
    <3> QED
        BY ONLY <3>3, <3>4
  <2>2. CASE i \notin 1..4
    <3>1. i - 4 \in 1..n /\ a + i = f + 109 + d + (i - 4) /\ i = 4 + (i - 4)
        BY <1>2, <1>11, <2>2
    <3>2. s[f + 109 + d + (i - 4)] = t[i - 4] /\ u[4 + (i - 4)] = t[i - 4]
        BY ONLY <1>5, <1>10, <3>1
    <3> QED
        BY ONLY <3>1, <3>2
  <2> QED
      BY <2>1, <2>2
<1>13. SubSeq(s, a + 1, e) = u
  <2>1. s \in Seq(Bytes) /\ u \in Seq(Bytes)
      BY <1>5, <1>10
  <2>2. e = a + Len(u) /\ e <= Len(s) /\ \A i \in 1..Len(u) : s[a + i] = u[i]
    <3>1. Len(u) = 4 + n /\ e = a + (4 + n) /\ Len(s) = e
        BY <1>2, <1>5, <1>10, <1>11
    <3> QED
        BY ONLY <1>12, <3>1, e \in Nat
  <2> QED
      BY ONLY <2>1, <2>2, a \in Nat, e \in Nat, Middle
<1>14. SubSeq(s, LineEnds(s)[5], Len(s)) = u
  <2>1. LineEnds(s)[5] = a + 1 /\ Len(s) = e
      BY <1>2, <1>5, <1>7, <1>11 DEF HeadRead
  <2> QED
      BY <1>13, <2>1
<1>15. Between(s, StrChr(s, LineEnds(s)[3] + 1, SP), LineEnds(s)[4]) = Printed(b)
    BY <1>7 DEF HeadRead
<1>16. LineEnds(s)[5] # 0
    BY <1>2, <1>7 DEF HeadRead
<1> QED
    BY <1>8, <1>9, <1>14, <1>15, <1>16 DEF ParseResponse

(* Zero bytes and spaces are told apart from what a datum may hold. *)
LEMMA Marks ==
    /\ NUL \notin Characters /\ NUL \notin Chars \cup {"="} /\ SP \notin Chars \cup {"="}
    /\ NUL # SP /\ CR # SP /\ LF # SP /\ NUL # CR /\ NUL # LF
    /\ NUL \in Bytes /\ Characters \subseteq Bytes
<1>1. NUL \notin Range(Digit)
    BY DEF NUL, Digit, Range
<1>2. NUL \notin Characters
    BY <1>1, TextAssumption DEF TextAssumption, Characters, NUL, SP, CR, LF
<1> QED
    BY <1>2, TextAssumption, QueryAssumption
       DEF TextAssumption, QueryAssumption, Bytes, NUL, SP, CR, LF

(* The string at the start of a text is a text. *)
LEMMA StringIsText ==
    ASSUME NEW s \in Seq(Bytes)
    PROVE  CString(s) \in Seq(Bytes)
<1>1. PICK n : n = StrChr(s, 1, NUL)
    OBVIOUS
<1>2. Len(s) \in Nat /\ n \in 0..Len(s)
  <2>1. Len(s) \in Nat /\ 1 \in Nat
      BY LenProperties
  <2> QED
      BY <1>1, <2>1, StrChrRange
<1>3. SubSeq(s, 1, n - 1) \in Seq(Bytes)
  <2>1. \A i \in 1..n - 1 : i \in 1..Len(s)
      BY <1>2
  <2>2. \A i \in 1..n - 1 : s[i] \in Bytes
      BY <2>1, ElementOfSeq
  <2>3. 1 \in Int /\ n - 1 \in Int
      BY <1>2
  <2> QED
      BY ONLY <2>2, <2>3, SubSeqProperties
<1> QED
    BY <1>1, <1>3 DEF CString

(* A piece that is parsed has a number for its Content-Length.              *)
LEMMA ParsedLength ==
    ASSUME NEW s \in Seq(Bytes), LineEnds(s)[5] # 0, NEW stray \in Seq(Bytes)
    PROVE  ParseResponse(s, stray).length \in Nat
<1>1. PICK end : /\ end = LineEnds(s) /\ end[0] = StrChr(s, 1, LF)
                 /\ end[1] = LineEnd(s, end[0]) /\ end[2] = LineEnd(s, end[1])
                 /\ end[3] = LineEnd(s, end[2]) /\ end[4] = LineEnd(s, end[3])
                 /\ end[5] = LineEnd(s, end[4])
    BY LineEndsAre
<1>2. PICK l \in Nat : l = Len(s)
    BY LenProperties
<1>3. end[3] \in Nat /\ end[4] \in 0..l
  <2>0. 1 \in Nat
      OBVIOUS
  <2>1. end[0] \in 0..l
      BY <1>1, <1>2, <2>0, StrChrRange
  <2>2. end[1] \in 0..l
      BY <1>1, <1>2, <2>1, LineEndRange
  <2>3. end[2] \in 0..l
      BY <1>1, <1>2, <2>2, LineEndRange
  <2>4. end[3] \in 0..l
      BY <1>1, <1>2, <2>3, LineEndRange
  <2>5. end[4] \in 0..l
      BY <1>1, <1>2, <2>4, LineEndRange
  <2> QED
      BY <2>4, <2>5
<1>4. end[4] # 0
    BY <1>1 DEF LineEnd
<1>5. PICK lo \in Nat, hi \in Nat : /\ lo = StrChr(s, end[3] + 1, SP) + 1 /\ lo # 0
                                    /\ hi = end[4] - 1 /\ hi <= l
  <2>1. end[3] + 1 \in Nat
      BY <1>3
  <2>2. StrChr(s, end[3] + 1, SP) \in 0..l
      BY <1>2, <2>1, StrChrRange
  <2>3. StrChr(s, end[3] + 1, SP) + 1 \in Nat \ {0} /\ end[4] - 1 \in Nat /\ end[4] - 1 <= l
      BY <1>3, <1>4, <2>2
  <2> QED
      BY <2>3
<1>6. SubSeq(s, lo, hi) \in Seq(Bytes)
  <2>1. \A i \in lo..hi : i \in 1..Len(s)
      BY <1>2, <1>5
  <2>2. \A i \in lo..hi : s[i] \in Bytes
      BY <2>1, ElementOfSeq
  <2> QED
      BY ONLY <2>2, lo \in Nat, hi \in Nat, SubSeqProperties
<1>7. PICK p : p = SubSeq(s, lo, hi) \o stray
    OBVIOUS
<1>8. p \in Seq(Bytes)
    BY <1>6, <1>7, ConcatProperties
<1>9. StrToL(p) \in Nat
    BY <1>8, StrToLType
<1>10. ParseResponse(s, stray).length = StrToL(p)
    BY <1>1, <1>5, <1>7 DEF ParseResponse, Between
<1> QED
    BY <1>9, <1>10

(* The text of a request is as long as the array that holds it.             *)
LEMMA MessageLength ==
    ASSUME NEW u \in Seq(Characters), NEW n \in Nat, n = Len(u)
    PROVE  TextOf(Message(u), n + 78)
<1>1. PICK l, h1, h2, h3, e : /\ l = Line(u) /\ h1 = HeaderLine(5, http_host)
                              /\ h2 = HeaderLine(11, http_user_agent)
                              /\ h3 = HeaderLine(7, accept_type) /\ e = CRLF
    OBVIOUS
<1>2. TextOf(l, n + 15)
  <2>1. LineParts(u, n, l)
      BY <1>1, LineFacts
  <2> QED
      BY <2>1 DEF LineParts, TextOf
<1>3. TextOf(h1, 17) /\ TextOf(h2, 25) /\ TextOf(h3, 19) /\ TextOf(e, 2)
  <2>1. /\ http_host \in Seq(Characters) /\ Len(http_host) = 9
        /\ http_user_agent \in Seq(Characters) /\ Len(http_user_agent) = 11
        /\ accept_type \in Seq(Characters) /\ Len(accept_type) = 9
      BY DEF http_host, http_user_agent, accept_type, Word, Characters
  <2>2. LineIs(h1, 5, http_host, 9)
      BY <1>1, <2>1, HeaderLineIs
  <2>3. LineIs(h2, 11, http_user_agent, 11)
      BY <1>1, <2>1, HeaderLineIs
  <2>4. LineIs(h3, 7, accept_type, 9)
      BY <1>1, <2>1, HeaderLineIs
  <2> QED
      BY <1>1, <2>2, <2>3, <2>4, Values DEF LineIs, TextOf
<1>4. PICK a, b, c, t : a = l \o h1 /\ b = a \o h2 /\ c = b \o h3 /\ t = c \o e
    OBVIOUS
<1>5. TextOf(a, n + 15 + 17)
    BY ONLY <1>2, <1>3, <1>4, Longer
<1>6. TextOf(b, n + 15 + 17 + 25)
    BY ONLY <1>3, <1>4, <1>5, Longer
<1>7. TextOf(c, n + 15 + 17 + 25 + 19)
    BY ONLY <1>3, <1>4, <1>6, Longer
<1>8. TextOf(t, n + 15 + 17 + 25 + 19 + 2)
    BY ONLY <1>3, <1>4, <1>7, Longer
<1>9. t = Message(u)
    BY <1>1, <1>4 DEF Message
<1> QED
    BY <1>8, <1>9 DEF TextOf

(* The array of an answer has room for its head and for dsize bytes more.   *)
LEMMA RoomIs ==
    ASSUME NEW b \in Bodies
    PROVE  /\ Len(StatusLine(b)) \in Nat /\ Len(Printed(b)) \in Nat /\ Dsize(b) \in Nat
           /\ ResponseRoom(b) = Len(StatusLine(b)) + 109 + Len(Printed(b)) + Dsize(b)
<1>1. Len(StatusLine(b)) = 15 + Len(Status(b)) /\ Len(Status(b)) \in Nat
    BY StatusLineIs
<1>2. Len(Printed(b)) \in Nat /\ Dsize(b) \in Nat
    BY PrintedIs, ContentTypes
<1>3. /\ Len(http_version) = 8 /\ Len(response_code) = 3 /\ Len(http_date) = 7
      /\ Len(http_server) = 15 /\ Len(http_last_modified) = 7 /\ Len(http_content_type) = 9
    BY Words, Values DEF response_code, Word
<1>4. PICK k \in Nat, d \in Nat, z \in Nat :
          k = Len(Status(b)) /\ d = Len(Decimal[Dsize(b)]) /\ z = Dsize(b) /\ d = Len(Printed(b))
    BY <1>1, <1>2 DEF Printed
<1>5. ResponseRoom(b) = 8 + 3 + k + 4 + 5 + 7 + 3 + 7 + 15 + 3 + 14 + 7 + 3 + 15 + d + 3
                            + 13 + 9 + 3 + 2 + z
    BY ONLY <1>3, <1>4 DEF ResponseRoom
<1>6. Len(StatusLine(b)) = 15 + k
    BY <1>1, <1>4
<1>7. ResponseRoom(b) = 15 + k + 109 + d + z
    BY ONLY <1>5, k \in Nat, d \in Nat, z \in Nat
<1> QED
    BY ONLY <1>4, <1>6, <1>7

-----------------------------------------------------------------------------

(* The text of an answer, before the zero byte of its content. *)
Answer(b) == ResponseHead(b) \o b.text

(* Where its content stands. *)
AnswerParts(b, x, f, d) ==
    /\ f \in Nat /\ d \in Nat
    /\ x \in Seq(Characters) /\ Len(x) = f + 109 + d + Len(b.text)
    /\ Begins(ResponseHead(b), x)
    /\ \A i \in 1..Len(b.text) : x[f + 109 + d + i] = b.text[i]

LEMMA AnswerIs ==
    ASSUME NEW b \in Bodies, NEW x, x = Answer(b), NEW f, f = Len(StatusLine(b)),
           NEW d, d = Len(Printed(b))
    PROVE  AnswerParts(b, x, f, d)
<1>1. PICK h, t : /\ h = ResponseHead(b) /\ t = b.text /\ x = h \o t /\ t \in Seq(Characters)
                  /\ TextOf(h, f + 109 + d)
    BY HeadIs, ContentTypes DEF Answer
<1>2. f \in Nat /\ d \in Nat
    BY HeadIs
<1>3. h \in Seq(Characters) /\ Len(h) = f + 109 + d
    BY <1>1 DEF TextOf
<1>4. /\ x \in Seq(Characters) /\ Len(x) = Len(h) + Len(t) /\ Len(h) \in Nat /\ Len(t) \in Nat
      /\ \A i \in 1..Len(h) : x[i] = h[i]
      /\ \A i \in 1..Len(t) : x[Len(h) + i] = t[i]
  <2>1. h \in Seq(Characters) /\ t \in Seq(Characters) /\ x = h \o t
      BY <1>1, <1>3
  <2> QED
      BY ONLY <2>1, Concat
<1>5. Begins(h, x)
    BY <1>4 DEF Begins
<1> QED
    BY <1>1, <1>2, <1>3, <1>4, <1>5 DEF AnswerParts

(* There is no zero byte in it. *)
LEMMA AnswerLacks ==
    ASSUME NEW b \in Bodies
    PROVE  /\ Answer(b) \in Seq(Characters) /\ Answer(b) \in Seq(Bytes)
           /\ Len(Answer(b)) \in Nat /\ Lacks(Answer(b), NUL)
<1>1. Answer(b) \in Seq(Characters)
  <2>1. AnswerParts(b, Answer(b), Len(StatusLine(b)), Len(Printed(b)))
      BY AnswerIs
  <2> QED
      BY <2>1 DEF AnswerParts
<1>2. \A i \in 1..Len(Answer(b)) : Answer(b)[i] \in Characters
    BY <1>1, ElementOfSeq
<1> QED
    BY <1>1, <1>2, Marks, SeqMonotonic, LenProperties DEF Lacks

(* What the server writes of a datum. *)
EndsInZero(w, l) ==
    /\ l \in Nat /\ w \in Seq(Bytes) /\ Len(w) = l + 1 /\ w[l + 1] = NUL
    /\ \A i \in 1..l : w[i] # NUL

LEMMA DatumWire ==
    ASSUME NEW b \in Bodies
    PROVE  LET x == Answer(b)
               w == x \o <<NUL>>
           IN  EndsInZero(w, Len(x)) /\ \A i \in 1..Len(x) : w[i] = x[i]
<1>0. PICK x, w, l : x = Answer(b) /\ w = x \o <<NUL>> /\ l = Len(x)
    OBVIOUS
<1>1. x \in Seq(Bytes) /\ l \in Nat /\ Lacks(x, NUL)
    BY <1>0, AnswerLacks
<1>2. /\ w \in Seq(Bytes) /\ Len(w) = l + 1 /\ w[l + 1] = NUL
      /\ \A i \in 1..l : w[i] = x[i]
  <2>1. NUL \in Bytes
      BY Marks
  <2>2. /\ w \in Seq(Bytes) /\ Len(w) = Len(x) + 1 /\ w[Len(x) + 1] = NUL
        /\ \A i \in 1..Len(x) : w[i] = x[i]
      BY ONLY <1>0, <1>1, <2>1, OneMore
  <2> QED
      BY <1>0, <2>2
<1>3. EndsInZero(w, l) /\ \A i \in 1..l : w[i] = x[i]
    BY <1>0, <1>1, <1>2 DEF Lacks, EndsInZero
<1> QED
    BY <1>0, <1>3

(* A part of it that ends before the zero byte. *)
LEMMA PartLacks ==
    ASSUME NEW b \in Bodies, NEW w, w = Answer(b) \o <<NUL>>, NEW c \in 1..Len(w) - 1,
           NEW p, p = SubSeq(w, 1, c)
    PROVE  p \in Seq(Bytes) /\ Len(p) = c /\ Lacks(p, NUL) /\ Begins(p, w)
<1>1. PICK l : /\ l \in Nat /\ w \in Seq(Bytes) /\ Len(w) = l + 1
               /\ \A i \in 1..l : w[i] # NUL
  <2>1. EndsInZero(w, Len(Answer(b)))
      BY DatumWire
  <2> QED
      BY <2>1 DEF EndsInZero
<1>2. c \in Nat /\ c <= l /\ c <= Len(w)
    BY <1>1
<1>3. p \in Seq(Bytes) /\ Len(p) = c /\ \A i \in 1..c : p[i] = w[i]
  <2>1. w \in Seq(Bytes)
      BY <1>1
  <2>2. /\ SubSeq(w, 1, c) \in Seq(Bytes) /\ Len(SubSeq(w, 1, c)) = c
        /\ \A k \in 1..c : SubSeq(w, 1, c)[k] = w[k]
      BY ONLY <2>1, <1>2, Prefix
  <2> QED
      BY <2>2
<1>4. Lacks(p, NUL)
    BY <1>1, <1>2, <1>3 DEF Lacks
<1> QED
    BY <1>2, <1>3, <1>4 DEF Begins

(* A first piece that is parsed holds the five header lines, and then it is   *)
(* longer than any datum.                                                  *)
LEMMA PieceHoldsHead ==
    ASSUME NEW b \in Bodies, b.kind = "datum", NEW w, w = Answer(b) \o <<NUL>>,
           NEW c \in 1..Len(w) - 1, LineEnds(SubSeq(w, 1, c))[5] # 0,
           NEW f, f = Len(StatusLine(b)), NEW d, d = Len(Printed(b))
    PROVE  f + 106 + d <= c /\ Dsize(b) < c
<1>1. PICK x, p : x = Answer(b) /\ p = SubSeq(w, 1, c)
    OBVIOUS
<1>2. /\ w \in Seq(Bytes) /\ Len(w) \in Nat
      /\ p \in Seq(Bytes) /\ Len(p) = c /\ Len(p) \in Nat /\ Begins(p, w)
  <2>1. EndsInZero(w, Len(x))
      BY <1>1, DatumWire
  <2>2. p \in Seq(Bytes) /\ Len(p) = c /\ Begins(p, w)
      BY <1>1, PartLacks
  <2> QED
      BY <2>1, <2>2, LenProperties DEF EndsInZero
<1>3. Begins(ResponseHead(b), w)
  <2>1. Begins(ResponseHead(b), x) /\ Len(ResponseHead(b)) \in Nat
    <3>1. Begins(ResponseHead(b), x) /\ TextOf(ResponseHead(b), f + 109 + d)
      <4>1. AnswerParts(b, x, f, d)
          BY <1>1, AnswerIs
      <4> QED
          BY <4>1, HeadIs DEF AnswerParts
    <3> QED
        BY <3>1 DEF TextOf
  <2>2. Len(x) \in Nat /\ Len(w) = Len(x) + 1 /\ \A i \in 1..Len(x) : w[i] = x[i]
      BY <1>1, DatumWire DEF EndsInZero
  <2> QED
      BY <2>1, <2>2 DEF Begins
<1>4. LineEnds(w)[5] = f + 106 + d
  <2>1. HeadRead(b, w, f, d)
      BY <1>2, <1>3, HeadIsRead
  <2> QED
      BY <2>1 DEF HeadRead
<1>5. LineEnds(p)[5] = LineEnds(w)[5] /\ LineEnds(p)[5] \in 1..c
    BY <1>1, <1>2, EndsBegin
<1>6. f = 17 /\ d \in Nat /\ Dsize(b) < 51 /\ Dsize(b) \in Nat
  <2>1. f = 17
      BY StatusLineIs
  <2>2. Dsize(b) = Len(b.text) + 1 /\ Len(b.text) < 50 /\ Dsize(b) \in Nat
      BY ContentTypes DEF REQ_LINE_BUFF
  <2>3. b.text \in Seq(Characters) /\ Len(b.text) \in Nat
      BY ContentTypes, LenProperties
  <2> QED
      BY <2>1, <2>2, <2>3, PrintedIs
<1> QED
    BY <1>4, <1>5, <1>6

(* It never looks like a whole answer: no zero byte ends the string it holds. *)
LEMMA PieceNeverMatches ==
    ASSUME count \in Nat, data \in Seq(Bytes), Len(data) = count, Lacks(data, NUL), NEW n \in Nat
    PROVE  ~LengthMatches(n)
<1> SUFFICES ASSUME LengthMatches(n) PROVE FALSE
    OBVIOUS
<1>1. n <= count /\ Len(CString(SubSeq(data, count - n + 1, Len(data)))) + 1 = n
    BY DEF LengthMatches
<1>2. PICK lo \in Nat : lo = count - n + 1 /\ lo # 0
  <2>1. count - n + 1 \in Nat /\ count - n + 1 # 0
      BY <1>1
  <2> QED
      BY <2>1
<1>3. PICK p : p = SubSeq(data, lo, count)
    OBVIOUS
<1>4. Len(p) = n /\ \A i \in 1..n : p[i] = data[lo + i - 1]
  <2>1. \A i \in lo..count : i \in 1..Len(data)
      BY <1>2
  <2>2. \A i \in lo..count : data[i] \in Bytes
      BY <2>1, ElementOfSeq
  <2>3. /\ Len(SubSeq(data, lo, count)) = (IF lo <= count THEN count - lo + 1 ELSE 0)
        /\ \A i \in 1..count - lo + 1 : SubSeq(data, lo, count)[i] = data[lo + i - 1]
      BY ONLY <2>2, lo \in Nat, count \in Nat, SubSeqProperties
  <2>4. count - lo + 1 = n
      BY <1>2
  <2> QED
      BY <1>2, <1>3, <2>3, <2>4
<1>5. Lacks(p, NUL)
  <2>1. ASSUME NEW i \in 1..n PROVE p[i] # NUL
    <3>1. lo + i - 1 \in 1..Len(data)
        BY <1>1, <1>2
    <3> QED
        BY <1>4, <3>1 DEF Lacks
  <2> QED
      BY <1>4, <2>1 DEF Lacks
<1>6. CString(p) = p
    BY <1>4, <1>5, StringWithoutEnd
<1>7. Len(p) + 1 = n
    BY <1>1, <1>2, <1>3, <1>6
<1> QED
    BY <1>4, <1>7

(* The whole answer matches at every length that stays inside of it. *)
LEMMA WholeMatches ==
    ASSUME NEW l, EndsInZero(data, l), count = l + 1, NEW n \in 1..l + 1
    PROVE  LengthMatches(n)
<1> USE DEF EndsInZero
<1>1. PICK lo \in Nat, hi \in Nat, m \in Nat :
          lo = l + 1 - n + 1 /\ lo # 0 /\ hi = l + 1 /\ m = n - 1
  <2>1. l + 1 - n + 1 \in Nat /\ l + 1 - n + 1 # 0 /\ l + 1 \in Nat /\ n - 1 \in Nat
      OBVIOUS
  <2> QED
      BY <2>1
<1>2. PICK p : p = SubSeq(data, lo, hi)
    OBVIOUS
<1>3. p \in Seq(Bytes) /\ Len(p) = m + 1 /\ \A i \in 1..m + 1 : p[i] = data[lo + i - 1]
  <2>1. \A i \in lo..hi : i \in 1..Len(data)
      BY <1>1
  <2>2. \A i \in lo..hi : data[i] \in Bytes
      BY <2>1, ElementOfSeq
  <2>3. /\ SubSeq(data, lo, hi) \in Seq(Bytes)
        /\ Len(SubSeq(data, lo, hi)) = (IF lo <= hi THEN hi - lo + 1 ELSE 0)
        /\ \A i \in 1..hi - lo + 1 : SubSeq(data, lo, hi)[i] = data[lo + i - 1]
      BY ONLY <2>2, lo \in Nat, hi \in Nat, SubSeqProperties
  <2>4. hi - lo + 1 = m + 1 /\ lo <= hi
      BY <1>1
  <2> QED
      BY <1>2, <2>3, <2>4
<1>4. p[m + 1] = NUL /\ \A i \in 1..m : p[i] # NUL
  <2>1. lo + (m + 1) - 1 = l + 1 /\ m + 1 \in 1..m + 1
      BY <1>1
  <2>2. p[m + 1] = NUL
      BY <1>3, <2>1
  <2>3. ASSUME NEW i \in 1..m PROVE p[i] # NUL
    <3>1. lo + i - 1 \in 1..l /\ i \in 1..m + 1
        BY <1>1
    <3> QED
        BY <1>3, <3>1
  <2> QED
      BY <2>2, <2>3
<1>5. CString(p) = SubSeq(p, 1, m)
  <2>1. Len(p) \in Nat /\ m < Len(p)
      BY <1>3
  <2> QED
      BY <1>4, <2>1, StringEnds
<1>6. Len(SubSeq(p, 1, m)) = m
  <2>1. m <= Len(p) /\ p \in Seq(Bytes)
      BY <1>3
  <2> QED
      BY ONLY <2>1, m \in Nat, Prefix
<1>7. count - n + 1 = lo /\ Len(data) = hi /\ n <= count /\ m + 1 = n
    BY <1>1
<1>8. Len(CString(SubSeq(data, count - n + 1, Len(data)))) + 1 = n
    BY <1>2, <1>5, <1>6, <1>7
<1> QED
    BY <1>7, <1>8 DEF LengthMatches

(* The content of an answer, as parse_http_response takes it.               *)
ContentOf(b) == <<CR, LF, CR, LF>> \o b.text

(* What it reads of a whole answer, with what lies behind it in the buffer. *)
ReadsWhole(b, h, behind) ==
    /\ h.length \in Nat /\ Dsize(b) <= h.length
    /\ h.content = ContentOf(b) \o behind

LEMMA WholeIsRead ==
    ASSUME NEW b \in Bodies, NEW behind \in Seq(Characters), NEW stray \in Seq(Characters),
           NEW s, s = Answer(b) \o behind
    PROVE  LineEnds(s)[5] # 0 /\ ReadsWhole(b, ParseResponse(s, stray), behind)
<1>1. PICK h, t : h = ResponseHead(b) /\ t = b.text
    OBVIOUS
<1>2. h \in Seq(Characters) /\ t \in Seq(Characters)
  <2>1. TextOf(h, Len(StatusLine(b)) + 109 + Len(Printed(b)))
      BY <1>1, HeadIs
  <2> QED
      BY <1>1, <2>1, ContentTypes DEF TextOf
<1>3. PICK e \in Seq(Characters) : e = <<CR, LF, CR, LF>>
  <2>1. CR \in Characters /\ LF \in Characters
      BY DEF Characters
  <2>2. <<CR, LF, CR, LF>> \in Seq(Characters)
      BY <2>1
  <2> QED
      BY <2>2
<1>4. PICK u : u = t \o behind
    OBVIOUS
<1>5. u \in Seq(Characters) /\ u \in Seq(Bytes)
  <2>1. u \in Seq(Characters)
      BY <1>2, <1>4, ConcatProperties
  <2> QED
      BY <2>1, Marks, SeqMonotonic
<1>6. s = h \o u /\ e \o u = (e \o t) \o behind
  <2>1. s = (h \o t) \o behind
      BY <1>1 DEF Answer
  <2>2. (h \o t) \o behind = h \o (t \o behind)
      BY <1>2, ConcatAssociative
  <2>3. (e \o t) \o behind = e \o (t \o behind)
      BY <1>2, ConcatAssociative
  <2> QED
      BY <1>4, <2>1, <2>2, <2>3
<1>7. /\ LineEnds(s)[5] # 0
      /\ ParseResponse(s, stray) = [length |-> StrToL(Printed(b) \o stray), content |-> e \o u]
    BY <1>1, <1>3, <1>5, <1>6, AnswerIsRead
<1>8. StrToL(Printed(b) \o stray) \in Nat /\ Dsize(b) <= StrToL(Printed(b) \o stray)
  <2>1. Digits \subseteq Characters
      BY DEF Digits, Characters
  <2>2. PICK m, q : m = Dsize(b) /\ m \in Nat /\ q = Decimal[m] \o stray
      BY ContentTypes
  <2>3. StrToL(q) \in Nat /\ m <= StrToL(q)
      BY <2>1, <2>2, PrintedIsRead
  <2> QED
      BY <2>2, <2>3 DEF Printed
<1>9. e \o u = ContentOf(b) \o behind
    BY <1>1, <1>3, <1>6 DEF ContentOf
<1> QED
    BY <1>7, <1>8, <1>9 DEF ReadsWhole

(* The string in a whole answer is the answer. *)
LEMMA WholeString ==
    ASSUME NEW b \in Bodies
    PROVE  CString(Answer(b)) = Answer(b) /\ CString(Answer(b) \o <<NUL>>) = Answer(b)
<1>1. PICK x, w : x = Answer(b) /\ w = Answer(b) \o <<NUL>>
    OBVIOUS
<1>2. x \in Seq(Bytes) /\ Len(x) \in Nat /\ Lacks(x, NUL)
    BY <1>1, AnswerLacks
<1>3. CString(x) = x
    BY <1>2, StringWithoutEnd
<1>4. PICK l : l = Len(x) /\ EndsInZero(w, l) /\ \A i \in 1..l : w[i] = x[i]
    BY <1>1, DatumWire
<1>5. /\ l \in Nat /\ w \in Seq(Bytes) /\ Len(w) = l + 1 /\ w[l + 1] = NUL
      /\ \A i \in 1..l : w[i] # NUL
    BY <1>4 DEF EndsInZero
<1>6. CString(w) = SubSeq(w, 1, l)
  <2>1. Len(w) \in Nat /\ l < Len(w)
      BY <1>5
  <2> QED
      BY <1>5, <2>1, StringEnds
<1>7. SubSeq(w, 1, l) = x
  <2>1. l <= Len(w) /\ w \in Seq(Bytes) /\ l \in Nat
      BY <1>5
  <2>2. /\ SubSeq(w, 1, l) \in Seq(Bytes) /\ Len(SubSeq(w, 1, l)) = l
        /\ \A k \in 1..l : SubSeq(w, 1, l)[k] = w[k]
      BY ONLY <2>1, Prefix
  <2> QED
      BY <1>2, <1>4, <2>2, SeqEqual
<1> QED
    BY <1>1, <1>3, <1>6, <1>7

(* A first piece that is parsed gives a number, and is longer than a datum. *)
LEMMA PieceIsRead ==
    ASSUME NEW b \in Bodies, b.kind = "datum", NEW w, w = Answer(b) \o <<NUL>>,
           NEW c \in 1..Len(w) - 1, NEW p, p = SubSeq(w, 1, c), LineEnds(CString(p))[5] # 0,
           NEW stray \in Seq(Characters)
    PROVE  /\ p \in Seq(Bytes) /\ Len(p) = c /\ Lacks(p, NUL)
           /\ ParseResponse(CString(p), stray).length \in Nat
           /\ Len(StatusLine(b)) + 106 + Len(Printed(b)) <= c /\ Dsize(b) < c
<1>1. p \in Seq(Bytes) /\ Len(p) = c /\ Lacks(p, NUL) /\ Len(p) \in Nat
    BY PartLacks, LenProperties
<1>2. CString(p) = p
    BY <1>1, StringWithoutEnd
<1>3. LineEnds(p)[5] # 0
    BY <1>2
<1>4. ParseResponse(p, stray).length \in Nat
    BY <1>1, <1>3, Marks, SeqMonotonic, ParsedLength
<1>5. Len(StatusLine(b)) + 106 + Len(Printed(b)) <= c /\ Dsize(b) < c
    BY <1>3, PieceHoldsHead
<1> QED
    BY <1>1, <1>2, <1>4, <1>5

(* The rest of the answer behind such a piece is read over the start of it:  *)
(* no header line is left in it, up to its zero byte.                       *)
LEMMA RestHoldsNoLines ==
    ASSUME NEW b \in Bodies, b.kind = "datum", NEW w, w = Answer(b) \o <<NUL>>,
           NEW c \in 1..Len(w) - 1, Len(StatusLine(b)) + 106 + Len(Printed(b)) <= c,
           NEW tail \in Seq(Bytes), NEW s, s = SubSeq(w, c + 1, Len(w)) \o tail
    PROVE  LineEnds(CString(s))[5] = 0
<1>x. PICK x : x = Answer(b)
    OBVIOUS
<1>1. PICK f \in Nat, d \in Nat, n \in Nat :
          /\ f = Len(StatusLine(b)) /\ d = Len(Printed(b)) /\ n = Len(b.text) /\ x = Answer(b)
    BY <1>x, RoomIs, ContentTypes, LenProperties
<1>2. /\ x \in Seq(Characters) /\ Len(x) = f + 109 + d + n
      /\ Begins(ResponseHead(b), x)
      /\ \A i \in 1..n : x[f + 109 + d + i] = b.text[i]
  <2>1. AnswerParts(b, x, f, d)
      BY <1>1, AnswerIs
  <2> QED
      BY <1>1, <2>1 DEF AnswerParts
<1>3. /\ x[f + 107 + d] = LF /\ x[f + 108 + d] = CR /\ x[f + 109 + d] = LF
  <2>1. HeadRead(b, x, f, d)
      BY <1>1, <1>2, Marks, SeqMonotonic, HeadIsRead
  <2> QED
      BY <2>1 DEF HeadRead
<1>4. PICK l \in Nat : /\ l = f + 109 + d + n
                       /\ w \in Seq(Bytes) /\ Len(w) = l + 1 /\ w[l + 1] = NUL
                       /\ \A i \in 1..l : w[i] # NUL /\ w[i] = x[i]
  <2>1. EndsInZero(w, Len(x)) /\ \A i \in 1..Len(x) : w[i] = x[i]
      BY <1>1, DatumWire
  <2> QED
      BY <1>2, <2>1 DEF EndsInZero
<1>5. ASSUME NEW k \in f + 107 + d..l PROVE w[k] # SP
  <2>1. w[k] = x[k]
      BY <1>4
  <2>2. CASE k = f + 107 + d \/ k = f + 108 + d \/ k = f + 109 + d
      BY <1>3, <2>1, <2>2, Marks
  <2>3. CASE ~(k = f + 107 + d \/ k = f + 108 + d \/ k = f + 109 + d)
    <3>1. PICK i \in 1..n : k = f + 109 + d + i
      <4>1. l = f + 109 + d + n /\ k \in f + 107 + d..l
          BY <1>4
      <4>2. k - (f + 109 + d) \in 1..n /\ k = f + 109 + d + (k - (f + 109 + d))
          BY ONLY <2>3, <4>1, f \in Nat, d \in Nat, n \in Nat, l \in Nat
      <4> QED
          BY <4>2
    <3>2. x[k] = b.text[i]
        BY <1>2, <3>1
    <3>3. b.text[i] \in Chars \cup {"="}
        BY <1>1, ContentTypes, ElementOfSeq
    <3> QED
        BY <2>1, <3>2, <3>3, Marks
  <2> QED
      BY <2>2, <2>3
<1>6. PICK lo \in Nat, hi \in Nat, m \in Nat :
          lo = c + 1 /\ hi = l + 1 /\ m = l - c /\ f + 107 + d <= lo
  <2>1. c + 1 \in Nat /\ l + 1 \in Nat /\ l - c \in Nat /\ f + 107 + d <= c + 1
    <3>1. f + 106 + d <= c /\ c <= l
      <4>1. f + 106 + d <= c
          BY ONLY <1>1, Len(StatusLine(b)) + 106 + Len(Printed(b)) <= c
      <4>2. Len(w) = l + 1 /\ c \in 1..Len(w) - 1
          BY <1>4
      <4>3. c <= l
          BY ONLY <4>2, l \in Nat
      <4> QED
          BY ONLY <4>1, <4>3
    <3> QED
        BY ONLY <3>1, f \in Nat, d \in Nat, l \in Nat, c \in Int
  <2> QED
      BY <2>1
<1>7. PICK r : r = SubSeq(w, lo, hi)
    OBVIOUS
<1>8. r \in Seq(Bytes) /\ Len(r) = m + 1 /\ \A i \in 1..m + 1 : r[i] = w[lo + i - 1]
  <2>1. \A i \in lo..hi : i \in 1..Len(w)
      BY <1>4, <1>6
  <2>2. \A i \in lo..hi : w[i] \in Bytes
      BY <1>4, <2>1, ElementOfSeq
  <2>3. /\ SubSeq(w, lo, hi) \in Seq(Bytes)
        /\ Len(SubSeq(w, lo, hi)) = (IF lo <= hi THEN hi - lo + 1 ELSE 0)
        /\ \A i \in 1..hi - lo + 1 : SubSeq(w, lo, hi)[i] = w[lo + i - 1]
      BY ONLY <2>2, lo \in Nat, hi \in Nat, SubSeqProperties
  <2>4. hi - lo + 1 = m + 1 /\ lo <= hi
      BY <1>4, <1>6
  <2> QED
      BY <1>7, <2>3, <2>4
<1>9. r[m + 1] = NUL /\ \A i \in 1..m : r[i] # NUL /\ r[i] # SP
  <2>1. lo + (m + 1) - 1 = l + 1 /\ m + 1 \in 1..m + 1
      BY <1>6
  <2>2. r[m + 1] = NUL
      BY <1>4, <1>8, <2>1
  <2>3. ASSUME NEW i \in 1..m PROVE r[i] # NUL /\ r[i] # SP
    <3>1. lo + i - 1 \in 1..l /\ lo + i - 1 \in f + 107 + d..l /\ i \in 1..m + 1
        BY <1>6
    <3> QED
        BY <1>4, <1>5, <1>8, <3>1
  <2> QED
      BY <2>2, <2>3
<1>10. /\ s \in Seq(Bytes) /\ Len(s) = m + 1 + Len(tail) /\ Len(tail) \in Nat
       /\ \A i \in 1..m + 1 : s[i] = r[i]
  <2>1. s = r \o tail
      BY <1>4, <1>6, <1>7
  <2>2. /\ s \in Seq(Bytes) /\ Len(s) = Len(r) + Len(tail) /\ Len(tail) \in Nat
        /\ \A i \in 1..Len(r) : s[i] = r[i]
    <3>1. r \in Seq(Bytes)
        BY <1>8
    <3> QED
        BY ONLY <3>1, <2>1, tail \in Seq(Bytes), Concat
  <2> QED
      BY <1>8, <2>2
<1>11. PICK p : p = SubSeq(s, 1, m)
    OBVIOUS
<1>12. CString(s) = p
  <2>1. Len(s) \in Nat /\ m < Len(s)
      BY <1>10
  <2>2. s[m + 1] = NUL /\ \A i \in 1..m : s[i] # NUL
    <3>1. m + 1 \in 1..m + 1 /\ \A i \in 1..m : i \in 1..m + 1
        OBVIOUS
    <3> QED
        BY <1>9, <1>10, <3>1
  <2> QED
      BY <1>11, <2>1, <2>2, StringEnds
<1>13. Len(p) = m /\ Lacks(p, SP)
  <2>1. s \in Seq(Bytes) /\ m <= Len(s) /\ m \in Nat
      BY <1>10
  <2>2. Len(p) = m /\ \A i \in 1..m : p[i] = s[i]
      BY ONLY <1>11, <2>1, Prefix
  <2>3. \A i \in 1..m : i \in 1..m + 1
      OBVIOUS
  <2> QED
      BY <1>9, <1>10, <2>2, <2>3 DEF Lacks
<1> QED
    BY <1>12, <1>13, NoSpaceNoLines

-----------------------------------------------------------------------------

(* What is left in the array of an answer, and what the server writes.      *)
Written(b, x, r, w) ==
    /\ r \in Nat /\ Len(w) = r
    /\ b.kind # "page" => x = Answer(b)
    /\ b.kind = "datum" => w = x \o <<NUL>>
    /\ b.kind = "list" => w = x

(* sprintf leaves that in the array, and dc_write writes it. *)
LEMMA WrittenIs ==
    ASSUME NEW b \in Bodies, NEW stray \in Seq(Characters), b.kind # "page" => stray = <<>>,
           NEW x, x = ResponseHead(b) \o b.text \o stray,
           NEW r, r = ResponseRoom(b), NEW w, w = SubSeq(x \o <<NUL>>, 1, r)
    PROVE  Written(b, x, r, w)
<1>1. PICK f \in Nat, d \in Nat, n \in Nat, z \in Nat :
          /\ f = Len(StatusLine(b)) /\ d = Len(Printed(b)) /\ n = Len(b.text) /\ z = Dsize(b)
          /\ r = f + 109 + d + z
    BY RoomIs, ContentTypes, LenProperties
<1>a. r = f + 109 + d + z
    BY ONLY <1>1
<1>2. PICK y : /\ y = Answer(b) /\ y \in Seq(Characters) /\ Len(y) = f + 109 + d + n
               /\ x = y \o stray
  <2>0. AnswerParts(b, Answer(b), f, d)
      BY <1>1, AnswerIs
  <2>1. Answer(b) \in Seq(Characters) /\ Len(Answer(b)) = f + 109 + d + n
      BY <1>1, <2>0 DEF AnswerParts
  <2> QED
      BY <2>1 DEF Answer
<1>3. b.kind # "page" => x = Answer(b)
  <2>1. y \o <<>> = y
      BY <1>2, ConcatProperties
  <2> QED
      BY <1>2, <2>1
<1>4. PICK m \in Nat : /\ x \in Seq(Bytes) /\ Len(x) = m /\ f + 109 + d + n <= m
                       /\ b.kind # "page" => m = f + 109 + d + n
  <2>1. x \in Seq(Characters) /\ Len(x) = Len(y) + Len(stray) /\ Len(stray) \in Nat
      BY <1>2, Concat
  <2>2. x \in Seq(Bytes)
      BY <2>1, Marks, SeqMonotonic
  <2>3. b.kind # "page" => Len(stray) = 0
      OBVIOUS
  <2> QED
      BY ONLY <1>2, <2>1, <2>2, <2>3, f \in Nat, d \in Nat, n \in Nat
<1>5. PICK q : q = x \o <<NUL>> /\ q \in Seq(Bytes) /\ Len(q) = m + 1 /\ \A i \in 1..m : q[i] = x[i]
  <2>1. NUL \in Bytes
      BY Marks
  <2>2. PICK q : q = x \o <<NUL>>
      OBVIOUS
  <2>3. q \in Seq(Bytes) /\ Len(q) = Len(x) + 1 /\ \A i \in 1..Len(x) : q[i] = x[i]
    <3>1. x \in Seq(Bytes)
        BY <1>4
    <3> QED
        BY ONLY <3>1, <2>1, <2>2, OneMore
  <2> QED
      BY <1>4, <2>2, <2>3
<1>6. r \in Nat /\ r <= m + 1
  <2>1. z <= n + 1
      BY <1>1, ContentTypes
  <2> QED
      BY ONLY <1>a, <1>4, <2>1
<1>7. w \in Seq(Bytes) /\ Len(w) = r /\ \A i \in 1..r : w[i] = q[i]
  <2>1. r <= Len(q)
      BY <1>5, <1>6
  <2>2. /\ SubSeq(q, 1, r) \in Seq(Bytes) /\ Len(SubSeq(q, 1, r)) = r
        /\ \A i \in 1..r : SubSeq(q, 1, r)[i] = q[i]
      BY ONLY <1>5, <1>6, <2>1, Prefix
  <2>3. w = SubSeq(q, 1, r)
      BY <1>5
  <2> QED
      BY ONLY <2>2, <2>3
<1>8. b.kind = "datum" => w = x \o <<NUL>>
  <2> SUFFICES ASSUME b.kind = "datum" PROVE w = q
      BY <1>5
  <2>1. z = n + 1
      BY <1>1, ContentTypes
  <2>2. r = m + 1
      BY ONLY <1>a, <1>4, <2>1, b.kind = "datum"
  <2>3. Len(w) = Len(q) /\ \A i \in 1..Len(w) : w[i] = q[i]
      BY <1>5, <1>7, <2>2
  <2> QED
      BY <1>5, <1>7, <2>3, SeqEqual
<1>9. b.kind = "list" => w = x
  <2> SUFFICES ASSUME b.kind = "list" PROVE w = x
      OBVIOUS
  <2>1. z = n
      BY <1>1, ContentTypes
  <2>3. r = m
      BY ONLY <1>a, <1>4, <2>1, b.kind = "list"
  <2>2. Len(w) = Len(x) /\ \A i \in 1..Len(w) : w[i] = x[i]
      BY <1>4, <1>5, <1>7, <2>3
  <2> QED
      BY <1>4, <1>7, <2>2, SeqEqual
<1> QED
    BY <1>3, <1>6, <1>7, <1>8, <1>9 DEF Written

-----------------------------------------------------------------------------

(* The states in front of the answer. *)
BeforeAnswer == {"build_request", "send_request", "parse_http_request", "overrun",
                 "send_response"}

(* The first dc_read of the client took all there was. *)
Whole == cut = Len(wire)

(* The parts of the inductive invariant. *)
Typed == TypeOK /\ misread \in BOOLEAN

(* Nothing is read before it is written. *)
Fresh ==
    pc \in BeforeAnswer \cup {"dc_read"} =>
        /\ cut = 0 /\ count = 0
        /\ pc # "dc_read" => wire = <<>>

(* What is in the arrays of send_request and of send_response. *)
Answered ==
    /\ pc = "parse_http_request" => Len(text) = room
    /\ pc \notin BeforeAnswer => room = ResponseRoom(body) /\ Written(body, text, room, wire)

(* What the client has in its buffer: the start of the answer, or the rest   *)
(* of a datum over it, where no header line is found any more.              *)
FirstPiece == cut \in 1..Len(wire) /\ data = SubSeq(wire, 1, cut) /\ count = cut

LastPiece == cut < Len(wire) /\ LineEnds(CString(data))[5] = 0

(* What parse_http_response is given. *)
Arriving ==
    /\ pc = "dc_read" => body.kind \in {"datum", "list"}
    /\ pc = "parse_http_response" =>
          \/ body.kind = "datum" /\ (FirstPiece \/ LastPiece)
          \/ body.kind = "list" /\ FirstPiece /\ Whole

(* What the client knows of a datum that it has parsed: all of it when it is  *)
(* whole, and otherwise at least when it misread its length.                *)
Checked ==
    /\ pc = "check" =>
          /\ body.kind = "datum" /\ FirstPiece /\ LineEnds(CString(data))[5] # 0
          /\ http.length \in Nat
          /\ ~misread => http.length = Dsize(body)
          /\ Whole => ReadsWhole(body, http, <<>>)
    /\ pc = "showOneBeacon" =>
          /\ body.kind = "datum"
          /\ ~Whole => misread
          /\ Whole => ReadsWhole(body, http, <<>>)

(* How it ended. *)
Ended ==
    /\ pc = "shown" => (~Whole => misread) /\ (Whole => shown = body.text)
    /\ pc = "waiting" => (Whole => OutsideBuffer(http.length))
    /\ pc = "crashed" => (Whole => http.length > Len(http.content))
    /\ pc = "done" /\ body.kind = "list" =>
          /\ ~misread => http.length = Dsize(body)
          /\ \E behind \in Strays : ReadsWhole(body, http, behind)

(* The inductive invariant: it follows the answer from send_response to the *)
(* screen, and says what is known of the length and of the content.         *)
ResponseInv == Typed /\ Fresh /\ Answered /\ Arriving /\ Checked /\ Ended

(* The texts that are answers and their pieces.                             *)
LEMMA Texts ==
    /\ \A t \in Strays : t \in Seq(Characters) /\ t \in Seq(Bytes)
    /\ <<>> \in Seq(Characters) /\ <<>> \in Seq(Bytes)
<1>1. \A t \in Strays : t \in Seq(Characters)
    BY TextAssumption DEF TextAssumption
<1> QED
    BY <1>1, Marks, SeqMonotonic

(* A text with nothing behind it. *)
LEMMA NothingBehind ==
    ASSUME NEW b \in Bodies
    PROVE  Answer(b) \o <<>> = Answer(b) /\ ContentOf(b) \o <<>> = ContentOf(b)
<1>1. Answer(b) \in Seq(Characters)
    BY AnswerLacks
<1>2. ContentOf(b) \in Seq(Characters)
  <2>1. CR \in Characters /\ LF \in Characters
      BY DEF Characters
  <2>2. <<CR, LF, CR, LF>> \in Seq(Characters)
      BY <2>1
  <2>3. b.text \in Seq(Characters)
      BY ContentTypes
  <2> QED
      BY <2>2, <2>3, ConcatProperties DEF ContentOf
<1> QED
    BY <1>1, <1>2, ConcatProperties

(* An answer that came in one piece is the string in the buffer.            *)
LEMMA WholeData ==
    ASSUME body \in Bodies, body.kind \in {"datum", "list"}, Written(body, text, room, wire),
           FirstPiece, Whole
    PROVE  CString(data) = Answer(body)
<1>1. CASE body.kind = "datum"
  <2>1. wire = Answer(body) \o <<NUL>>
      BY <1>1 DEF Written
  <2>2. wire \in Seq(Bytes)
      BY <2>1, DatumWire DEF EndsInZero
  <2>3. data = wire
      BY <2>2, SubSeqFull DEF FirstPiece, Whole
  <2> QED
      BY <2>1, <2>3, WholeString
<1>2. CASE body.kind = "list"
  <2>1. wire = Answer(body)
      BY <1>2 DEF Written
  <2>2. wire \in Seq(Bytes)
      BY <2>1, AnswerLacks
  <2>3. data = wire
      BY <2>2, SubSeqFull DEF FirstPiece, Whole
  <2> QED
      BY <2>1, <2>3, WholeString
<1> QED
    BY <1>1, <1>2

(* What the client reads of a datum, from a part of it and from the whole.   *)
LEMMA DatumIsRead ==
    ASSUME body \in Bodies, body.kind = "datum", Written(body, text, room, wire), FirstPiece,
           LineEnds(CString(data))[5] # 0, NEW stray \in Strays,
           NEW h, h = ParseResponse(CString(data), stray)
    PROVE  h.length \in Nat /\ (Whole => ReadsWhole(body, h, <<>>))
<1>1. stray \in Seq(Characters)
    BY Texts
<1>2. CASE Whole
  <2>1. PICK s : s = Answer(body) \o <<>> /\ s = CString(data)
      BY <1>2, WholeData, NothingBehind
  <2>2. ReadsWhole(body, ParseResponse(s, stray), <<>>)
      BY <1>1, <2>1, Texts, WholeIsRead
  <2> QED
      BY <2>1, <2>2 DEF ReadsWhole
<1>3. CASE ~Whole
  <2>1. PICK w, c : w = wire /\ c = cut /\ w = Answer(body) \o <<NUL>> /\ data = SubSeq(w, 1, c)
      BY DEF Written, FirstPiece
  <2>2. c \in 1..Len(w) - 1
    <3>1. EndsInZero(w, Len(Answer(body)))
        BY <2>1, DatumWire
    <3>2. Len(w) \in Nat
        BY <3>1 DEF EndsInZero
    <3> QED
        BY <1>3, <2>1, <3>2 DEF FirstPiece, Whole
  <2>3. ParseResponse(CString(data), stray).length \in Nat
      BY <1>1, <2>1, <2>2, PieceIsRead
  <2> QED
      BY <1>3, <2>3
<1> QED
    BY <1>2, <1>3

(* The test of getOneBeacon refuses every part of a datum whose length it    *)
(* read right, and a whole one only for a length that reaches out of it.    *)
LEMMA CheckTells ==
    ASSUME body \in Bodies, body.kind = "datum", Written(body, text, room, wire), FirstPiece,
           LineEnds(CString(data))[5] # 0, http.length \in Nat
    PROVE  /\ ~Whole /\ http.length = Dsize(body)
                 => ~(OutsideBuffer(http.length) \/ LengthMatches(http.length))
           /\ Whole /\ Dsize(body) <= http.length /\ ~LengthMatches(http.length)
                 => OutsideBuffer(http.length)
<1>1. PICK w : w = wire /\ w = Answer(body) \o <<NUL>>
    BY DEF Written
<1>2. PICK l \in Nat : EndsInZero(w, l) /\ w \in Seq(Bytes) /\ Len(w) = l + 1
    BY <1>1, DatumWire DEF EndsInZero
<1>3. CASE Whole
  <2>1. data = w /\ count = l + 1
      BY <1>1, <1>2, <1>3, SubSeqFull DEF FirstPiece, Whole
  <2>2. Dsize(body) \in Nat /\ Dsize(body) # 0
    <3>1. Len(body.text) \in Nat
        BY ContentTypes, LenProperties
    <3> QED
        BY <3>1, ContentTypes
  <2>3. ASSUME Dsize(body) <= http.length, ~LengthMatches(http.length)
        PROVE  OutsideBuffer(http.length)
    <3>1. http.length \notin 1..l + 1
        BY <1>2, <2>1, <2>3, WholeMatches
    <3> QED
        BY <2>1, <2>2, <2>3, <3>1 DEF OutsideBuffer
  <2> QED
      BY <1>3, <2>3
<1>4. CASE ~Whole
  <2>1. cut \in 1..Len(w) - 1 /\ count = cut /\ data = SubSeq(w, 1, cut)
      BY <1>1, <1>2, <1>4 DEF FirstPiece, Whole
  <2>2. PICK stray \in Seq(Characters) : stray = <<>>
      BY Texts
  <2>3. PICK c, p : c = cut /\ p = data
      OBVIOUS
  <2>4. p \in Seq(Bytes) /\ Len(p) = c /\ Lacks(p, NUL) /\ Dsize(body) < c
      BY <1>1, <2>1, <2>2, <2>3, PieceIsRead
  <2>5. ~LengthMatches(http.length)
      BY <1>2, <2>1, <2>3, <2>4, PieceNeverMatches
  <2> QED
      BY <1>4, <2>1, <2>3, <2>4, <2>5, ContentTypes DEF OutsideBuffer
<1> QED
    BY <1>3, <1>4

LEMMA ResponseInvInit == Init => ResponseInv
<1> SUFFICES ASSUME Init PROVE ResponseInv
    OBVIOUS
<1> USE DEF Init
<1>1. Typed
  <2>1. Len(wire) = 0
      OBVIOUS
  <2>2. http.length = -1
      BY DEF NoResponse
  <2>3. room \in Nat /\ cut \in 0..Len(wire) /\ count \in 0..Len(wire) /\ Len(wire) <= room
      BY <2>1
  <2>4. http.length >= -1
      BY <2>2
  <2>5. asked \in Queries /\ body \in Bodies /\ misread \in BOOLEAN /\ pc = "build_request"
      OBVIOUS
  <2> QED
      BY ONLY <2>3, <2>4, <2>5 DEF Typed, TypeOK
<1>2. Fresh /\ Answered
    BY DEF Fresh, Answered, BeforeAnswer
<1>3. Arriving /\ Checked /\ Ended
    BY DEF Arriving, Checked, Ended
<1> QED
    BY <1>1, <1>2, <1>3 DEF ResponseInv

LEMMA ResponseInvBuildRequest == ResponseInv /\ BuildRequest => ResponseInv'
<1> SUFFICES ASSUME ResponseInv, BuildRequest PROVE ResponseInv'
    OBVIOUS
<1> USE DEF ResponseInv, BuildRequest
<1>1. Typed'
    BY DEF Typed, TypeOK
<1>2. Fresh' /\ Answered'
    BY DEF Fresh, Answered, BeforeAnswer
<1>3. Arriving' /\ Checked' /\ Ended'
    BY DEF Arriving, Checked, Ended
<1> QED
    BY <1>1, <1>2, <1>3

LEMMA ResponseInvSendRequest == ResponseInv /\ OnTheWay /\ SendRequest => ResponseInv'
<1> SUFFICES ASSUME ResponseInv, OnTheWay, SendRequest PROVE ResponseInv'
    OBVIOUS
<1> USE DEF ResponseInv, SendRequest
<1>1. Len(text') = room' /\ room' \in Nat
  <2>1. PICK n \in Nat : n = Len(url) /\ url \in Seq(Characters)
      BY UrlIsText DEF OnTheWay
  <2>2. RequestText = Message(url)
      BY DEF RequestText, Message, Line
  <2>3. TextOf(Message(url), n + 78)
      BY <2>1, MessageLength
  <2>4. Len(text') = n + 78
      BY <2>2, <2>3 DEF TextOf
  <2>5. /\ Len(REQUEST_GET) = 3 /\ Len(http_version) = 8 /\ Len(http_host) = 9
        /\ Len(http_user_agent) = 11 /\ Len(accept_type) = 9
      BY Words DEF http_host, http_user_agent, accept_type, Word
  <2>6. room' = n + 78
      BY <2>1, <2>5
  <2> QED
      BY <2>4, <2>6
<1>2. Typed'
    BY <1>1 DEF Typed, TypeOK, Fresh, BeforeAnswer
<1>3. Fresh' /\ Answered'
    BY <1>1 DEF Fresh, Answered, BeforeAnswer
<1>4. Arriving' /\ Checked' /\ Ended'
    BY DEF Arriving, Checked, Ended
<1> QED
    BY <1>2, <1>3, <1>4

LEMMA ResponseInvParseRequest == ResponseInv /\ ParseRequest => ResponseInv'
<1> SUFFICES ASSUME ResponseInv, ParseRequest PROVE ResponseInv'
    OBVIOUS
<1>1. /\ pc = "parse_http_request" /\ pc' \in {"overrun", "send_response"}
      /\ UNCHANGED <<asked, url, body, text, room, wire, cut, data, count, http, shown, misread>>
    BY DEF ParseRequest
<1> USE <1>1 DEF ResponseInv
<1>2. Typed'
    BY DEF Typed, TypeOK
<1>3. Fresh' /\ Answered'
    BY DEF Fresh, Answered, BeforeAnswer
<1>4. Arriving' /\ Checked' /\ Ended'
    BY DEF Arriving, Checked, Ended
<1> QED
    BY <1>2, <1>3, <1>4

LEMMA ResponseInvSendResponse == ResponseInv /\ SendResponse => ResponseInv'
<1> SUFFICES ASSUME ResponseInv, SendResponse PROVE ResponseInv'
    OBVIOUS
<1> USE DEF ResponseInv
<1>1. /\ pc = "send_response" /\ room' = ResponseRoom(body)
      /\ pc' = IF body.kind \in {"datum", "list"} THEN "dc_read" ELSE "done"
      /\ UNCHANGED <<asked, url, parsed, body, cut, data, count, http, shown, misread>>
    BY DEF SendResponse
<1>2. body \in Bodies /\ cut = 0 /\ count = 0
    BY <1>1 DEF Typed, TypeOK, Fresh, BeforeAnswer
<1>3. Written(body, text', room', wire')
  <2>1. PICK stray \in IF body.kind = "page" THEN Strays ELSE {<<>>} :
            text' = ResponseHead(body) \o body.text \o stray
      BY DEF SendResponse
  <2>2. stray \in Seq(Characters) /\ (body.kind # "page" => stray = <<>>)
    <3>1. \A t \in Strays : t \in Seq(Characters)
        BY TextAssumption DEF TextAssumption
    <3>2. <<>> \in Seq(Characters)
        OBVIOUS
    <3> QED
        BY <3>1, <3>2
  <2>3. PICK x, r, w : x = text' /\ r = room' /\ w = wire'
      OBVIOUS
  <2>4. w = SubSeq(x \o <<NUL>>, 1, r)
      BY <2>3 DEF SendResponse
  <2>5. Written(body, x, r, w)
      BY <1>1, <1>2, <2>1, <2>2, <2>3, <2>4, WrittenIs
  <2> QED
      BY <2>3, <2>5
<1>4. room' \in Nat /\ Len(wire') = room'
    BY <1>3 DEF Written
<1>5. Typed'
    BY <1>1, <1>2, <1>4 DEF Typed, TypeOK
<1>6. Fresh'
    BY <1>1, <1>2 DEF Fresh, BeforeAnswer
<1>7. Answered'
    BY <1>1, <1>3 DEF Answered, BeforeAnswer
<1>8. Arriving' /\ Checked'
    BY <1>1 DEF Arriving, Checked
<1>9. Ended'
    BY <1>1 DEF Ended
<1> QED
    BY <1>5, <1>6, <1>7, <1>8, <1>9

LEMMA ResponseInvRead == ResponseInv /\ Read => ResponseInv'
<1> SUFFICES ASSUME ResponseInv, Read PROVE ResponseInv'
    OBVIOUS
<1> USE DEF ResponseInv
<1>1. /\ pc = "dc_read" /\ pc' = "parse_http_response"
      /\ cut' \in IF body.kind = "list" THEN {Len(wire)} ELSE 1..Len(wire)
      /\ data' = SubSeq(wire, 1, cut') /\ count' = cut'
      /\ UNCHANGED <<asked, url, parsed, body, text, room, wire, http, shown, misread>>
    BY DEF Read
<1>2. body \in Bodies /\ body.kind \in {"datum", "list"} /\ Written(body, text, room, wire)
    BY <1>1 DEF Typed, TypeOK, Arriving, Answered, BeforeAnswer
<1>3. Len(wire) \in Nat /\ Len(wire) # 0
  <2>1. PICK f \in Nat, d \in Nat, z \in Nat : room = f + 109 + d + z
      BY <1>1, <1>2, RoomIs DEF Answered, BeforeAnswer
  <2>2. Len(wire) = room
      BY <1>2 DEF Written
  <2> QED
      BY <2>1, <2>2
<1>4. cut' \in 1..Len(wire) /\ (body.kind = "list" => cut' = Len(wire))
    BY <1>1, <1>2, <1>3
<1>5. Typed'
    BY <1>1, <1>4 DEF Typed, TypeOK
<1>6. Fresh' /\ Answered'
    BY <1>1 DEF Fresh, Answered, BeforeAnswer
<1>7. Arriving'
    BY <1>1, <1>2, <1>4 DEF Arriving, FirstPiece, Whole
<1>8. Checked' /\ Ended'
    BY <1>1 DEF Checked, Ended
<1> QED
    BY <1>5, <1>6, <1>7, <1>8

LEMMA ResponseInvParseCrashes == ResponseInv /\ ParseCrashes => ResponseInv'
<1> SUFFICES ASSUME ResponseInv, ParseCrashes PROVE ResponseInv'
    OBVIOUS
<1> USE DEF ResponseInv
<1>1. /\ pc = "parse_http_response" /\ LineEnds(CString(data))[5] = 0 /\ pc' = "crashed"
      /\ UNCHANGED <<asked, url, parsed, body, text, room, wire, cut, data, count,
                     http, shown, misread>>
    BY DEF ParseCrashes
<1>2. body \in Bodies /\ Written(body, text, room, wire) /\ Len(wire) \in Nat /\ cut \in Nat
    BY <1>1 DEF Typed, TypeOK, Answered, BeforeAnswer, Written
<1>3. ~Whole
  <2> SUFFICES ASSUME Whole PROVE FALSE
      OBVIOUS
  <2>1. FirstPiece /\ body.kind \in {"datum", "list"}
      BY <1>1, <1>2 DEF Arriving, LastPiece, Whole
  <2>2. PICK s, none : s = Answer(body) \o none /\ none = <<>> /\ s = CString(data)
      BY <1>2, <2>1, WholeData, NothingBehind
  <2>3. LineEnds(s)[5] # 0
      BY <1>2, <2>2, Texts, WholeIsRead
  <2> QED
      BY <1>1, <2>2, <2>3
<1>4. Typed'
    BY <1>1 DEF Typed, TypeOK
<1>5. Fresh' /\ Answered'
    BY <1>1 DEF Fresh, Answered, BeforeAnswer
<1>6. Arriving' /\ Checked'
    BY <1>1 DEF Arriving, Checked
<1>7. Ended'
    BY <1>1, <1>3 DEF Ended, Whole
<1> QED
    BY <1>4, <1>5, <1>6, <1>7

LEMMA ResponseInvParse == ResponseInv /\ Parse => ResponseInv'
<1> SUFFICES ASSUME ResponseInv, Parse PROVE ResponseInv'
    OBVIOUS
<1> USE DEF ResponseInv
<1>1. PICK stray \in Strays, behind \in Strays :
          http' = ParseResponse(CString(data) \o IF body.kind = "list" THEN behind ELSE <<>>,
                                stray)
    BY DEF Parse
<1>2. /\ pc = "parse_http_response" /\ LineEnds(CString(data))[5] # 0
      /\ misread' = (misread \/ http'.length # Dsize(body))
      /\ pc' = IF body.kind = "list" THEN "done" ELSE "check"
      /\ UNCHANGED <<asked, url, parsed, body, text, room, wire, cut, data, count, shown>>
    BY DEF Parse
<1>3. body \in Bodies /\ Written(body, text, room, wire) /\ FirstPiece
    BY <1>2 DEF Typed, TypeOK, Answered, BeforeAnswer, Arriving, LastPiece
<1>4. Fresh' /\ Answered'
    BY <1>2 DEF Fresh, Answered, BeforeAnswer
<1>5. Arriving'
    BY <1>2 DEF Arriving
<1>6. misread' \in BOOLEAN /\ (~misread' => http'.length = Dsize(body))
    BY <1>2 DEF Typed
<1>7. CASE body.kind = "list"
  <2>1. Whole
      BY <1>2, <1>7 DEF Arriving
  <2>2. PICK s : s = Answer(body) \o behind /\ s = CString(data) \o behind
      BY <1>3, <1>7, <2>1, WholeData
  <2>3. ReadsWhole(body, ParseResponse(s, stray), behind)
      BY <1>3, <2>2, Texts, WholeIsRead
  <2>4. ReadsWhole(body, http', behind)
      BY <1>1, <1>7, <2>2, <2>3
  <2>5. Typed'
      BY <1>2, <1>6, <2>4 DEF Typed, TypeOK, ReadsWhole
  <2>6. Checked'
      BY <1>2, <1>7 DEF Checked
  <2>7. Ended'
      BY <1>2, <1>6, <1>7, <2>4 DEF Ended
  <2> QED
      BY <1>4, <1>5, <2>5, <2>6, <2>7
<1>8. CASE body.kind # "list"
  <2>1. body.kind = "datum"
      BY <1>2, <1>8 DEF Arriving
  <2>2. http' = ParseResponse(CString(data), stray)
    <3>1. CString(data) \in Seq(Bytes)
      <4>1. data \in Seq(Bytes)
        <5>1. wire \in Seq(Bytes)
            BY <1>3, <2>1, DatumWire DEF Written, EndsInZero
        <5>2. \A i \in 1..cut : i \in 1..Len(wire)
            BY <1>3, <5>1, LenProperties DEF FirstPiece
        <5>3. \A i \in 1..cut : wire[i] \in Bytes
            BY <5>1, <5>2, ElementOfSeq
        <5>4. cut \in Int
            BY <1>3, <5>1, LenProperties DEF FirstPiece
        <5> QED
            BY <1>3, <5>3, <5>4, SubSeqProperties DEF FirstPiece
      <4> QED
          BY <4>1, StringIsText
    <3>2. CString(data) \o <<>> = CString(data)
        BY <3>1, ConcatEmptySeq
    <3> QED
        BY <1>1, <1>8, <3>2
  <2>3. PICK h : h = http'
      OBVIOUS
  <2>4. h.length \in Nat /\ (Whole => ReadsWhole(body, h, <<>>))
      BY <1>2, <1>3, <2>1, <2>2, <2>3, DatumIsRead
  <2>5. Typed'
      BY <1>2, <1>6, <1>8, <2>3, <2>4 DEF Typed, TypeOK
  <2>6. Checked'
      BY <1>2, <1>3, <1>6, <1>8, <2>1, <2>3, <2>4 DEF Checked, FirstPiece, Whole
  <2>7. Ended'
      BY <1>2, <1>8 DEF Ended
  <2> QED
      BY <1>4, <1>5, <2>5, <2>6, <2>7
<1> QED
    BY <1>7, <1>8

LEMMA ResponseInvCheck == ResponseInv /\ Check => ResponseInv'
<1> SUFFICES ASSUME ResponseInv, Check PROVE ResponseInv'
    OBVIOUS
<1> USE DEF ResponseInv
<1>1. pc = "check" /\ UNCHANGED <<asked, url, parsed, body, text, room, wire, cut, shown>>
    BY DEF Check
<1>2. /\ body \in Bodies /\ body.kind = "datum" /\ Written(body, text, room, wire)
      /\ FirstPiece /\ LineEnds(CString(data))[5] # 0 /\ http.length \in Nat
      /\ ~misread => http.length = Dsize(body)
      /\ Whole => ReadsWhole(body, http, <<>>)
    BY <1>1 DEF Typed, TypeOK, Answered, BeforeAnswer, Checked
<1>3. wire = Answer(body) \o <<NUL>> /\ wire \in Seq(Bytes) /\ Len(wire) \in Nat
  <2>1. wire = Answer(body) \o <<NUL>>
      BY <1>2 DEF Written
  <2> QED
      BY <1>2, <2>1, DatumWire, LenProperties DEF EndsInZero
<1>4. /\ ~Whole /\ ~misread => ~(OutsideBuffer(http.length) \/ LengthMatches(http.length))
      /\ Whole /\ ~LengthMatches(http.length) => OutsideBuffer(http.length)
    BY <1>2, CheckTells DEF ReadsWhole
<1>5. CASE /\ OutsideBuffer(http.length) \/ LengthMatches(http.length)
           /\ pc' = "showOneBeacon"
           /\ \E stray \in Strays : http' = ParseResponse(CString(data), stray)
           /\ misread' = (misread \/ http'.length # Dsize(body))
           /\ UNCHANGED <<data, count>>
  <2>0. PICK stray \in Strays : http' = ParseResponse(CString(data), stray)
      BY <1>5
  <2>1. PICK h : h = http' /\ h = ParseResponse(CString(data), stray)
      BY <2>0
  <2>2. h.length \in Nat /\ (Whole => ReadsWhole(body, h, <<>>))
      BY <1>2, <2>1, DatumIsRead
  <2>3. misread' \in BOOLEAN /\ (misread => misread')
      BY <1>5 DEF Typed
  <2>4. Typed'
      BY <1>1, <1>5, <2>1, <2>2, <2>3 DEF Typed, TypeOK
  <2>5. Fresh' /\ Answered' /\ Arriving'
      BY <1>1, <1>5 DEF Fresh, Answered, BeforeAnswer, Arriving
  <2>6. Checked'
      BY <1>1, <1>2, <1>4, <1>5, <2>1, <2>2, <2>3 DEF Checked, Whole
  <2>7. Ended'
      BY <1>5 DEF Ended
  <2> QED
      BY <2>4, <2>5, <2>6, <2>7
<1>6. CASE /\ UNCHANGED <<http, misread>>
           /\ count = cut /\ cut < Len(wire)
           /\ LET rest == SubSeq(wire, cut + 1, Len(wire))
              IN  /\ data' = rest \o SubSeq(data, Len(rest) + 1, Len(data))
                  /\ count' = Len(rest)
           /\ pc' = "parse_http_response"
  <2>1. PICK w, c, rest, tail :
            /\ w = wire /\ c = cut /\ rest = SubSeq(wire, cut + 1, Len(wire))
            /\ tail = SubSeq(data, Len(rest) + 1, Len(data))
            /\ data' = rest \o tail /\ count' = Len(rest)
      BY <1>6
  <2>2. c \in 1..Len(w) - 1
      BY <1>2, <1>3, <1>6, <2>1 DEF FirstPiece
  <2>3. PICK p, stray : /\ p = SubSeq(w, 1, c) /\ p = data /\ LineEnds(CString(p))[5] # 0
                        /\ stray \in Seq(Characters)
      BY <1>2, <2>1, Texts DEF FirstPiece
  <2>4. /\ p \in Seq(Bytes) /\ Len(p) = c
        /\ Len(StatusLine(body)) + 106 + Len(Printed(body)) <= c
    <3>1. w = Answer(body) \o <<NUL>>
        BY <1>3, <2>1
    <3> QED
        BY <1>2, <2>2, <2>3, <3>1, PieceIsRead
  <2>5. Len(rest) \in 0..Len(w)
    <3>1. \A i \in c + 1..Len(w) : i \in 1..Len(w)
        BY <2>2
    <3>2. \A i \in c + 1..Len(w) : w[i] \in Bytes
        BY <1>3, <2>1, <3>1, ElementOfSeq
    <3>3. c + 1 \in Int /\ Len(w) \in Int
        BY <1>3, <2>1, <2>2
    <3>4. Len(SubSeq(w, c + 1, Len(w))) = IF c + 1 <= Len(w) THEN Len(w) - (c + 1) + 1 ELSE 0
        BY ONLY <3>2, <3>3, SubSeqProperties
    <3> QED
        BY <1>3, <2>1, <2>2, <3>4
  <2>6. tail \in Seq(Bytes)
    <3>1. PICK lo \in Int, hi \in Int : lo = Len(rest) + 1 /\ lo >= 1 /\ hi = Len(p)
      <4>1. Len(rest) + 1 \in Int /\ Len(rest) + 1 >= 1 /\ Len(p) \in Int
          BY <1>3, <2>1, <2>2, <2>4, <2>5
      <4> QED
          BY <4>1
    <3>2. \A i \in lo..hi : i \in 1..Len(p)
        BY <3>1
    <3>3. \A i \in lo..hi : p[i] \in Bytes
        BY <2>4, <3>2, ElementOfSeq
    <3>4. SubSeq(p, lo, hi) \in Seq(Bytes)
        BY ONLY <3>3, lo \in Int, hi \in Int, SubSeqProperties
    <3> QED
        BY <2>1, <2>3, <3>1, <3>4
  <2>7. PICK s : s = data' /\ s = SubSeq(w, c + 1, Len(w)) \o tail
      BY <2>1
  <2>8. LineEnds(CString(s))[5] = 0
    <3>1. w = Answer(body) \o <<NUL>>
        BY <1>3, <2>1
    <3> QED
        BY <1>2, <2>2, <2>4, <2>6, <2>7, <3>1, RestHoldsNoLines
  <2>9. LastPiece'
      BY <1>1, <1>6, <2>7, <2>8 DEF LastPiece
  <2>10. Typed'
      BY <1>1, <1>6, <2>1, <2>5 DEF Typed, TypeOK
  <2>11. Fresh' /\ Answered' /\ Arriving'
      BY <1>1, <1>2, <1>6, <2>9 DEF Fresh, Answered, BeforeAnswer, Arriving
  <2>12. Checked' /\ Ended'
      BY <1>6 DEF Checked, Ended
  <2> QED
      BY <2>10, <2>11, <2>12
<1>7. CASE /\ ~LengthMatches(http.length)
           /\ UNCHANGED <<http, misread>>
           /\ ~(count = cut /\ cut < Len(wire))
           /\ pc' = "waiting"
           /\ UNCHANGED <<data, count>>
  <2>1. Typed'
      BY <1>1, <1>7 DEF Typed, TypeOK
  <2>2. Fresh' /\ Answered' /\ Arriving' /\ Checked'
      BY <1>1, <1>7 DEF Fresh, Answered, BeforeAnswer, Arriving, Checked
  <2>3. Whole => OutsideBuffer(http.length)
      BY <1>4, <1>7
  <2>4. Ended'
      BY <1>1, <1>7, <2>3 DEF Ended, Whole, OutsideBuffer
  <2> QED
      BY <2>1, <2>2, <2>4
<1> QED
    BY <1>5, <1>6, <1>7 DEF Check

LEMMA ResponseInvShow == ResponseInv /\ Show => ResponseInv'
<1> SUFFICES ASSUME ResponseInv, Show PROVE ResponseInv'
    OBVIOUS
<1> USE DEF ResponseInv
<1>1. /\ pc = "showOneBeacon" /\ pc' \in {"shown", "crashed"}
      /\ UNCHANGED <<asked, url, parsed, body, text, room, wire, cut, data, count, http,
                     misread>>
    BY DEF Show
<1>2. /\ body \in Bodies /\ body.kind = "datum" /\ (~Whole => misread)
      /\ Whole => ReadsWhole(body, http, <<>>)
    BY <1>1 DEF Typed, TypeOK, Checked
<1>3. Typed'
    BY <1>1 DEF Typed, TypeOK
<1>4. Fresh' /\ Answered' /\ Arriving' /\ Checked'
    BY <1>1 DEF Fresh, Answered, BeforeAnswer, Arriving, Checked
<1>5. ASSUME pc' = "crashed", http.length > Len(http.content) PROVE Ended'
    BY <1>1, <1>5 DEF Ended, Whole
<1>6. ASSUME IF Len(http.content) < 4 THEN shown' \in Strays
             ELSE shown' = SubSeq(http.content, 5, Min({Len(http.content), http.length + 3})),
             pc' = "shown"
      PROVE  Ended'
  <2>1. ASSUME Whole PROVE shown' = body.text
    <3>1. PICK e, t : /\ e = <<CR, LF, CR, LF>> /\ t = body.text /\ e \in Seq(Characters)
                      /\ t \in Seq(Characters) /\ Len(e) = 4
      <4>1. CR \in Characters /\ LF \in Characters
          BY DEF Characters
      <4>2. <<CR, LF, CR, LF>> \in Seq(Characters) /\ Len(<<CR, LF, CR, LF>>) = 4
          BY <4>1
      <4> QED
          BY <1>2, <4>2, ContentTypes
    <3>2. PICK c : c = http.content /\ c = e \o t
        BY <1>2, <2>1, <3>1, NothingBehind DEF ReadsWhole, ContentOf
    <3>3. PICK n \in Nat : n = Len(t)
        BY <3>1, LenProperties
    <3>4. c \in Seq(Characters) /\ Len(c) = 4 + n /\ \A i \in 1..n : c[4 + i] = t[i]
      <4>1. /\ c \in Seq(Characters) /\ Len(c) = Len(e) + Len(t)
            /\ \A i \in 1..Len(t) : c[Len(e) + i] = t[i]
          BY ONLY <3>1, <3>2, Concat
      <4> QED
          BY <3>1, <3>3, <4>1
    <3>5. PICK m \in Nat, k \in Nat : /\ m = http.length + 3 /\ k = 4 + n /\ k <= m
      <4>1. http.length \in Nat /\ n + 1 <= http.length
          BY <1>2, <2>1, <3>1, <3>3, ContentTypes DEF ReadsWhole
      <4>2. http.length + 3 \in Nat /\ 4 + n \in Nat /\ 4 + n <= http.length + 3
          BY <4>1
      <4> QED
          BY <4>2
    <3>6. Min({k, m}) = k
        BY <3>5 DEF Min
    <3>7. shown' = SubSeq(c, 5, k)
      <4>1. Len(http.content) = k /\ ~(Len(http.content) < 4)
          BY <3>2, <3>4, <3>5
      <4>2. shown' = SubSeq(http.content, 5, Min({Len(http.content), http.length + 3}))
          BY <1>6, <4>1
      <4>3. http.length + 3 = m
          BY <3>5
      <4> QED
          BY ONLY <3>2, <3>6, <4>1, <4>2, <4>3
    <3>8. SubSeq(c, 5, k) = t
      <4>1. PICK a \in Nat : a = 4
          OBVIOUS
      <4>2. k = a + Len(t) /\ k <= Len(c) /\ \A i \in 1..Len(t) : c[a + i] = t[i]
          BY <3>3, <3>4, <3>5, <4>1
      <4>3. SubSeq(c, a + 1, k) = t
          BY ONLY <3>1, <3>4, <4>2, a \in Nat, k \in Nat, Middle
      <4> QED
          BY <4>1, <4>3
    <3> QED
        BY <3>1, <3>7, <3>8
  <2> QED
      BY <1>1, <1>2, <1>6, <2>1 DEF Ended, Whole
<1>7. Ended'
    BY <1>5, <1>6 DEF Show
<1> QED
    BY <1>3, <1>4, <1>7

LEMMA ResponseInvNext == ResponseInv /\ OnTheWay /\ [Next]_vars => ResponseInv'
<1> SUFFICES ASSUME ResponseInv, OnTheWay, [Next]_vars PROVE ResponseInv'
    OBVIOUS
<1>1. CASE UNCHANGED vars
    BY <1>1 DEF vars, ResponseInv, Typed, TypeOK, Fresh, Answered, Arriving, Checked, Ended,
                FirstPiece, LastPiece, Whole, OutsideBuffer
<1> QED
    BY <1>1, ResponseInvBuildRequest, ResponseInvSendRequest, ResponseInvParseRequest,
       ResponseInvSendResponse, ResponseInvRead, ResponseInvParseCrashes, ResponseInvParse,
       ResponseInvCheck, ResponseInvShow DEF Next

LEMMA ResponseInvHolds == Spec => []ResponseInv
BY ResponseInvInit, ResponseInvNext, OnTheWayHolds, PTL DEF Spec

-----------------------------------------------------------------------------

(* Every variable holds what its counterpart can hold, for all data, lists,   *)
(* pages, and whatever lies in memory.                                      *)
THEOREM Typing == Spec => []TypeOK
<1>1. ResponseInv => TypeOK
    BY DEF ResponseInv, Typed
<1> QED
    BY <1>1, ResponseInvHolds, PTL

(* The text of a request fills the array of send_request to the last byte;   *)
(* that of send_response holds a datum with its zero byte, and the text of a *)
(* list or of a POST overruns it.                                           *)
THEOREM ArraysHold == Spec => []ArrayHoldsData
<1>1. ResponseInv => ArrayHoldsData
  <2> SUFFICES ASSUME ResponseInv PROVE ArrayHoldsData
      OBVIOUS
  <2>1. pc = "parse_http_request" => Len(text) = room
      BY DEF ResponseInv, Answered
  <2>2. ASSUME pc \in {"dc_read", "done"}
        PROVE  /\ body.kind = "datum" => Len(text) + 1 = room
               /\ body.kind \in {"list", "none"} => Len(text) + 1 > room
    <3>1. body \in Bodies /\ room = ResponseRoom(body) /\ Written(body, text, room, wire)
        BY <2>2 DEF ResponseInv, Typed, TypeOK, Answered, BeforeAnswer
    <3>2. PICK f \in Nat, d \in Nat, z \in Nat :
              /\ f = Len(StatusLine(body)) /\ d = Len(Printed(body)) /\ z = Dsize(body)
              /\ room = f + 109 + d + z
        BY <3>1, RoomIs
    <3>3. PICK n \in Nat : n = Len(body.text)
        BY <3>1, ContentTypes, LenProperties
    <3>4. body.kind # "page" => Len(text) = f + 109 + d + n
      <4>1. AnswerParts(body, Answer(body), f, d)
          BY <3>1, <3>2, AnswerIs
      <4> QED
          BY <3>1, <3>3, <4>1 DEF AnswerParts, Written
    <3>5. /\ body.kind = "datum" => z = n + 1
          /\ body.kind = "list" => z = n
          /\ body.kind = "none" => z = 0
        BY <3>1, <3>2, <3>3, ContentTypes
    <3>6. room = f + 109 + d + z
        BY <3>2
    <3> QED
        BY ONLY <3>4, <3>5, <3>6, f \in Nat, d \in Nat, z \in Nat, n \in Nat
  <2> QED
      BY <2>1, <2>2 DEF ArrayHoldsData
<1> QED
    BY <1>1, ResponseInvHolds, PTL

(* A datum that comes in one piece gets past the test of getOneBeacon and to *)
(* the screen, unless what strtol read behind its Content-Length makes the   *)
(* length reach out of the buffer or of the content.                        *)
THEOREM GetsThrough == Spec => []WholeDatumGetsThrough
<1>1. ResponseInv => WholeDatumGetsThrough
    BY DEF ResponseInv, Ended, Whole, WholeDatumGetsThrough
<1> QED
    BY <1>1, ResponseInvHolds, PTL

(* No part of an answer is taken for the whole: what is shown is the datum,  *)
(* or the Content-Length of a part was misread.                             *)
THEOREM ShownWhole == Spec => []ShownIsDatum
<1>1. ResponseInv => ShownIsDatum
    BY DEF ResponseInv, Ended, Whole, ShownIsDatum
<1> QED
    BY <1>1, ResponseInvHolds, PTL

(* Of a list whose length was not misread showAllBeacons gets two ends of   *)
(* line and all but the last four bytes, whatever lies behind it.           *)
THEOREM ListKept == Spec => []ListKeepsEmptyLine
<1>1. ResponseInv => ListKeepsEmptyLine
  <2> SUFFICES ASSUME ResponseInv, pc = "done", body.kind = "list", ~misread
               PROVE  SubSeq(http.content, 1, http.length) =
                          SubSeq(CRLF \o CRLF \o body.text, 1, Len(body.text))
      BY DEF ListKeepsEmptyLine
  <2>1. PICK behind \in Strays : http.content = ContentOf(body) \o behind
      BY DEF ResponseInv, Ended, ReadsWhole
  <2>2. body \in Bodies /\ http.length = Len(body.text) /\ body.text \in Seq(Characters)
      BY ContentTypes DEF ResponseInv, Typed, TypeOK, Ended
  <2>3. PICK e \in Seq(Characters), t \in Seq(Characters), n \in Nat :
            e = <<CR, LF, CR, LF>> /\ t = body.text /\ n = Len(t) /\ Len(e) = 4
    <3>1. CR \in Characters /\ LF \in Characters
        BY DEF Characters
    <3>2. <<CR, LF, CR, LF>> \in Seq(Characters) /\ Len(<<CR, LF, CR, LF>>) = 4
        BY <3>1
    <3> QED
        BY <2>2, <3>2, LenProperties
  <2>4. CRLF \o CRLF = e
    <3>1. PICK u : u = CRLF \o CRLF
        OBVIOUS
    <3>2. CRLF \in Seq(Characters) /\ Len(CRLF) = 2 /\ CRLF[1] = CR /\ CRLF[2] = LF
        BY Values
    <3>3. /\ u \in Seq(Characters) /\ Len(u) = 4
          /\ u[1] = CR /\ u[2] = LF /\ u[3] = CR /\ u[4] = LF
      <4>1. /\ u \in Seq(Characters) /\ Len(u) = Len(CRLF) + Len(CRLF)
            /\ \A k \in 1..Len(CRLF) : u[k] = CRLF[k]
            /\ \A k \in 1..Len(CRLF) : u[Len(CRLF) + k] = CRLF[k]
        <5>1. CRLF \in Seq(Characters)
            BY <3>2
        <5> QED
            BY ONLY <3>1, <5>1, Concat
      <4>2. u[1] = CRLF[1] /\ u[2] = CRLF[2] /\ u[2 + 1] = CRLF[1] /\ u[2 + 2] = CRLF[2]
          BY ONLY <3>2, <4>1
      <4> QED
          BY ONLY <3>2, <4>1, <4>2
    <3>4. e[1] = CR /\ e[2] = LF /\ e[3] = CR /\ e[4] = LF
        BY <2>3
    <3>5. Len(u) = Len(e) /\ \A i \in 1..Len(u) : u[i] = e[i]
      <4>1. \A i \in 1..4 : i = 1 \/ i = 2 \/ i = 3 \/ i = 4
          OBVIOUS
      <4> QED
          BY <2>3, <3>3, <3>4, <4>1
    <3> QED
        BY <3>1, <3>3, <3>5, SeqEqual
  <2>5. PICK c : c = e \o t /\ c \in Seq(Characters) /\ Len(c) = 4 + n
    <3>1. PICK c : c = e \o t
        OBVIOUS
    <3>2. c \in Seq(Characters) /\ Len(c) = Len(e) + Len(t)
        BY ONLY <3>1, e \in Seq(Characters), t \in Seq(Characters), Concat
    <3>3. Len(e) = 4 /\ Len(t) = n
        BY <2>3
    <3> QED
        BY ONLY <3>1, <3>2, <3>3
  <2>6. SubSeq(c \o behind, 1, n) = SubSeq(c, 1, n)
    <3>1. behind \in Seq(Characters)
        BY Texts
    <3>2. CASE n = 0
      <4>1. 1 \in Int /\ 0 \in Int /\ 0 < 1
          OBVIOUS
      <4> QED
          BY <3>2, <4>1, SubSeqEmpty
    <3>3. CASE n # 0
      <4>1. 1 \in 1..Len(c) /\ n \in 1..Len(c)
          BY <2>5, <3>3
      <4> QED
          BY <2>5, <3>1, <4>1, SubSeqOfConcat1
    <3> QED
        BY <3>2, <3>3
  <2> QED
      BY <2>1, <2>2, <2>3, <2>4, <2>5, <2>6 DEF ContentOf
<1> QED
    BY <1>1, ResponseInvHolds, PTL
===============================================================================
