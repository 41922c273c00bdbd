--------------------------- MODULE BeaconListProofs ---------------------------
(***************************************************************************)
(* Theorems about BeaconList, for all lists of names and all sizes of the  *)
(* buffers.  Where a name begins in the text is a sum over the names       *)
(* before it; the invariant has it as a function f, which each step of     *)
(* getAllData extends by one name and each round of showAllBeacons follows *)
(* by one, so that no induction over sequences is needed.                  *)
(***************************************************************************)
EXTENDS BeaconList, TextLemmas, TLAPS

Bytes == Chars \cup {CR, LF, NUL}

(* f[i] bytes of the text hold the first i of n names. *)
Laid(f, n, names, text) ==
    /\ f \in [0..n -> Nat] /\ f[0] = 0 /\ f[n] = Len(text)
    /\ \A i \in 0..n : f[i] <= Len(text)
    /\ \A i \in 1..n : /\ f[i] = f[i - 1] + Len(names[i]) + 2
                       /\ \A j \in 1..Len(names[i]) : text[f[i - 1] + j] = names[i][j]
                       /\ text[f[i] - 1] = CR

LEMMA NameFacts ==
    ASSUME NEW names \in Seq(Seq(Chars)), NEW i \in 1..Len(names)
    PROVE  /\ names[i] \in Seq(Chars) /\ names[i] \in Seq(Bytes) /\ Len(names[i]) \in Nat
           /\ \A j \in 1..Len(names[i]) : names[i][j] \notin {CR, LF, NUL}
<1>1. names[i] \in Seq(Chars)
    BY ElementOfSeq
<1>2. \A j \in 1..Len(names[i]) : names[i][j] \in Chars
    BY <1>1, ElementOfSeq
<1>3. \A c \in Chars : c \notin {CR, LF, NUL}
    BY ListAssumption DEF ListAssumption
<1> QED
    BY <1>1, <1>2, <1>3, LenProperties, SeqMonotonic DEF Bytes

(* getAllData lays down one more name. *)
LEMMA LaidExtends ==
    ASSUME NEW names \in Seq(Seq(Chars)), NEW text \in Seq(Bytes), NEW n \in 0..Len(names) - 1,
           NEW f, Laid(f, n, names, text), NEW u, u = text \o names[n + 1] \o <<CR, LF>>
    PROVE  u \in Seq(Bytes) /\ \E g : Laid(g, n + 1, names, u)
<1> DEFINE b == names[n + 1]
           L == Len(text)
           m == Len(b)
           g == [i \in 0..n + 1 |-> IF i <= n THEN f[i] ELSE L + m + 2]
<1>1. n \in Nat /\ n + 1 \in 1..Len(names) /\ Len(names) \in Nat /\ L \in Nat
    BY LenProperties
<1>2. b \in Seq(Bytes) /\ m \in Nat
    BY <1>1, NameFacts
<1> HIDE DEF b
<1>3. /\ u \in Seq(Bytes) /\ Len(u) = L + m + 2
      /\ \A k \in 1..L : u[k] = text[k]
      /\ \A k \in 1..m : u[L + k] = b[k]
      /\ u[L + m + 1] = CR
  <2>1. CR \in Bytes /\ LF \in Bytes
      BY DEF Bytes
  <2>2. u = text \o b \o <<CR, LF>>
      BY DEF b
  <2>3. text \in Seq(Bytes)
      OBVIOUS
  <2> QED
      BY ONLY <1>2, <2>1, <2>2, <2>3, Joined
<1> HIDE DEF m, L
<1>4. \A i \in 0..n : f[i] \in Nat /\ f[i] <= L /\ g[i] = f[i]
    BY <1>1 DEF Laid, L
<1>5. g[n + 1] = L + m + 2 /\ g[n] = L /\ g[0] = 0 /\ n + 1 \in Nat
  <2>1. f[0] = 0 /\ f[n] = L
      BY DEF Laid, L
  <2> QED
      BY <1>1, <1>2, <1>4, <2>1
<1>6. g \in [0..n + 1 -> Nat] /\ \A i \in 0..n + 1 : g[i] <= L + m + 2
  <2>1. ASSUME NEW i \in 0..n + 1
        PROVE  g[i] \in Nat /\ g[i] <= L + m + 2
    <3>1. CASE i \in 0..n
      <4>1. g[i] \in Nat /\ g[i] <= L
          BY <1>4, <3>1
      <4> HIDE DEF g
      <4> QED
          BY <1>1, <1>2, <4>1
    <3>2. CASE i = n + 1
        BY <1>1, <1>2, <1>5, <3>2
    <3> QED
        BY <1>1, <3>1, <3>2
  <2> QED
      BY <2>1
<1> HIDE DEF g
<1>7. ASSUME NEW i \in 1..n
      PROVE  /\ g[i] = g[i - 1] + Len(names[i]) + 2
             /\ \A j \in 1..Len(names[i]) : u[g[i - 1] + j] = names[i][j]
             /\ u[g[i] - 1] = CR
  <2>1. i \in Nat /\ i \in 0..n /\ i - 1 \in 0..n /\ i \in 1..Len(names)
      BY <1>1
  <2>2. Len(names[i]) \in Nat
      BY <2>1, NameFacts
  <2>3. /\ f[i] = f[i - 1] + Len(names[i]) + 2 /\ text[f[i] - 1] = CR
        /\ \A j \in 1..Len(names[i]) : text[f[i - 1] + j] = names[i][j]
      BY DEF Laid
  <2>4. f[i - 1] \in Nat /\ f[i] \in Nat /\ f[i] <= L /\ g[i] = f[i] /\ g[i - 1] = f[i - 1]
      BY <1>4, <2>1
  <2>5. f[i] - 1 \in 1..L /\ \A j \in 1..Len(names[i]) : f[i - 1] + j \in 1..L
    <3>1. \A a, c, d \in Nat : c = a + d + 2 /\ c <= L =>
              c - 1 \in 1..L /\ \A j \in 1..d : a + j \in 1..L
        BY <1>1
    <3> QED
        BY <2>2, <2>3, <2>4, <3>1
  <2> QED
      BY <1>3, <2>3, <2>4, <2>5
<1>8. /\ g[n + 1] = g[n] + m + 2
      /\ \A j \in 1..m : u[g[n] + j] = b[j]
      /\ u[g[n + 1] - 1] = CR
  <2>1. g[n + 1] - 1 = L + m + 1
      BY <1>1, <1>2, <1>5
  <2> QED
      BY <1>3, <1>5, <2>1
<1>9. \A i \in 1..n + 1 : i \in 1..n \/ (i = n + 1 /\ i - 1 = n)
    BY <1>1
<1>10. \A i \in 1..n + 1 :
          /\ g[i] = g[i - 1] + Len(names[i]) + 2
          /\ \A j \in 1..Len(names[i]) : u[g[i - 1] + j] = names[i][j]
          /\ u[g[i] - 1] = CR
    BY <1>7, <1>8, <1>9 DEF m, b
<1>11. Laid(g, n + 1, names, u)
    BY <1>3, <1>5, <1>6, <1>10 DEF Laid
<1> QED
    BY <1>3, <1>11

(* The client's copy: an end of line where the loop starts, the text four   *)
(* bytes later, and an end of line after as many bytes as the text has.    *)
LEMMA CopiedFacts ==
    ASSUME NEW text \in Seq(Bytes), NEW n \in Nat, n = Len(text), n >= 2,
           NEW c, c = Copied(text)
    PROVE  /\ Len(c) = n + 3 /\ c[3] = CR
           /\ \A k \in 5..n : c[k] = text[k - 4]
           /\ c[n + 1] = CR /\ c[n + 2] = LF /\ c[n + 3] = NUL
<1>1. PICK front \in Seq(Bytes) :
          Len(front) = 4 /\ front[3] = CR /\ front = <<CR, LF, CR, LF>>
  <2>1. /\ <<CR, LF, CR, LF>> \in Seq(Bytes) /\ Len(<<CR, LF, CR, LF>>) = 4
        /\ <<CR, LF, CR, LF>>[3] = CR
      BY DEF Bytes
  <2> QED
      BY <2>1
<1>2. PICK behind \in Seq(Bytes) :
          /\ Len(behind) = 3 /\ behind[1] = CR /\ behind[2] = LF /\ behind[3] = NUL
          /\ behind = <<CR, LF, NUL>>
  <2>1. /\ <<CR, LF, NUL>> \in Seq(Bytes) /\ Len(<<CR, LF, NUL>>) = 3
        /\ <<CR, LF, NUL>>[1] = CR /\ <<CR, LF, NUL>>[2] = LF /\ <<CR, LF, NUL>>[3] = NUL
      BY DEF Bytes
  <2> QED
      BY <2>1
<1>3. PICK p : p = front \o text
    OBVIOUS
<1>4. /\ p \in Seq(Bytes) /\ Len(p) = 4 + n /\ p[3] = CR
      /\ \A k \in 1..n : p[4 + k] = text[k]
  <2>1. /\ p \in Seq(Bytes) /\ Len(p) = Len(front) + Len(text)
        /\ \A k \in 1..Len(front) : p[k] = front[k]
        /\ \A k \in 1..Len(text) : p[Len(front) + k] = text[k]
      BY ONLY <1>1, <1>3, text \in Seq(Bytes), Concat
  <2> QED
      BY <1>1, <2>1
<1>5. PICK cut : cut = SubSeq(p, 1, n)
    OBVIOUS
<1>6. cut \in Seq(Bytes) /\ Len(cut) = n /\ \A k \in 1..n : cut[k] = p[k]
    BY <1>4, <1>5, Prefix
<1>7. c = cut \o behind
    BY <1>1, <1>2, <1>3, <1>5 DEF Copied, Parsed
<1>8. /\ Len(c) = n + 3
      /\ \A k \in 1..n : c[k] = cut[k]
      /\ \A k \in 1..3 : c[n + k] = behind[k]
  <2>1. /\ Len(c) = Len(cut) + Len(behind)
        /\ \A k \in 1..Len(cut) : c[k] = cut[k]
        /\ \A k \in 1..Len(behind) : c[Len(cut) + k] = behind[k]
      BY ONLY <1>6, <1>7, behind \in Seq(Bytes), Concat
  <2> QED
      BY <1>2, <1>6, <2>1
<1>9. ASSUME NEW k \in 5..n PROVE c[k] = text[k - 4]
  <2>1. k \in 1..n /\ k - 4 \in 1..n /\ 4 + (k - 4) = k
      BY <1>9
  <2> QED
      BY <1>4, <1>6, <1>8, <2>1
<1>10. c[n + 1] = CR /\ c[n + 2] = LF /\ c[n + 3] = NUL
    BY <1>2, <1>8
<1>11. c[3] = CR
  <2>1. CASE n = 2
      BY <1>10, <2>1
  <2>2. CASE n >= 3
      BY <1>4, <1>6, <1>8, <2>2
  <2> QED
      BY <2>1, <2>2
<1> QED
    BY <1>8, <1>9, <1>10, <1>11

LEMMA StrchrAt ==
    ASSUME NEW i \in Nat, NEW p \in Nat, i <= p, Len(content) \in Nat, p < Len(content),
           content[p + 1] = CR, \A n \in i..p - 1 : content[n + 1] \notin {CR, NUL}
    PROVE  Strchr(i) = p
<1> DEFINE found == {j \in i .. Len(content) - 1 :
                       content[j + 1] = CR /\ \A n \in i .. j : content[n + 1] # NUL}
<1>1. p \in found
    BY ListAssumption DEF ListAssumption
<1>2. \A j \in found : p <= j
    BY ListAssumption DEF ListAssumption
<1>3. found \subseteq Nat
    OBVIOUS
<1>4. Strchr(i) = IF found = {} THEN Null ELSE CHOOSE j \in found : \A n \in found : j <= n
    BY DEF Strchr
<1> HIDE DEF found
<1>5. \A j \in found : (\A n \in found : j <= n) => j = p
    BY <1>1, <1>2, <1>3
<1> QED
    BY <1>1, <1>2, <1>4, <1>5

LEMMA StrchrNone ==
    ASSUME NEW i, \A j \in i..Len(content) - 1 :
                     content[j + 1] = CR => \E n \in i..j : content[n + 1] = NUL
    PROVE  Strchr(i) = Null
BY DEF Strchr

(* content is the copy of a text of l bytes. *)
CopyOf(text, l) ==
    /\ Len(content) = l + 3 /\ content[3] = CR
    /\ \A k \in 5..l : content[k] = text[k - 4]
    /\ content[l + 1] = CR /\ content[l + 2] = LF /\ content[l + 3] = NUL

(* m characters of the name s lie in the text behind a. *)
Lies(s, m, text, a) == \A j \in 1..m : text[a + j] = s[j]

(* A piece of a name in the copy, up to the next end of line. *)
LEMMA PieceAt ==
    ASSUME NEW text \in Seq(Bytes), NEW l \in Nat, CopyOf(text, l),
           NEW a \in Nat, NEW m \in Nat, NEW e \in Nat, e = a + 4 + m, e <= l,
           content[e + 1] = CR,
           NEW s \in Seq(Chars), m <= Len(s), Lies(s, m, text, a)
    PROVE  Strchr(a + 4) = e /\ Between(a + 4, e) = SubSeq(s, 1, m)
<1>0. a + 4 + m <= l /\ content[a + 5 + m] = CR
  <2>1. e + 1 = a + 5 + m
      OBVIOUS
  <2> QED
      BY <2>1
<1>1. \A j \in 1..m : content[a + 4 + j] = s[j]
  <2>1. ASSUME NEW j \in 1..m PROVE content[a + 4 + j] = s[j]
    <3>1. PICK k \in 5..l : k = a + 4 + j /\ k - 4 = a + j
        BY <1>0
    <3>2. content[k] = text[a + j]
        BY <3>1 DEF CopyOf
    <3> QED
        BY <3>1, <3>2 DEF Lies
  <2> QED
      BY <2>1
<1>2. /\ SubSeq(s, 1, m) \in Seq(Chars) /\ Len(SubSeq(s, 1, m)) = m
      /\ \A k \in 1..m : SubSeq(s, 1, m)[k] = s[k]
    BY Prefix
<1>3. \A j \in 1..m : s[j] \in Chars
  <2>1. Len(s) \in Nat
      BY LenProperties
  <2>2. \A j \in 1..m : j \in 1..Len(s)
      BY <2>1
  <2> QED
      BY <2>2, ElementOfSeq
<1>4. Strchr(a + 4) = a + 4 + m
  <2>1. ASSUME NEW n \in a + 4..a + 4 + m - 1 PROVE content[n + 1] \notin {CR, NUL}
    <3>1. PICK j \in 1..m : a + 4 + j = n + 1
      <4>1. n - a - 3 \in 1..m /\ a + 4 + (n - a - 3) = n + 1
          OBVIOUS
      <4> QED
          BY <4>1
    <3>2. content[n + 1] \in Chars
        BY <1>1, <1>3, <3>1
    <3> QED
        BY <3>2, ListAssumption DEF ListAssumption
  <2>2. PICK i \in Nat, p \in Nat : i = a + 4 /\ p = a + 4 + m
      OBVIOUS
  <2>3. i <= p /\ Len(content) \in Nat /\ p < Len(content) /\ p + 1 = a + 5 + m
      BY <2>2, <1>0 DEF CopyOf
  <2>4. content[p + 1] = CR /\ \A n \in i..p - 1 : content[n + 1] \notin {CR, NUL}
      BY <1>0, <2>1, <2>2, <2>3
  <2>5. Strchr(i) = p
      BY <2>3, <2>4, StrchrAt
  <2> QED
      BY <2>2, <2>5
<1>5. Between(a + 4, a + 4 + m) = SubSeq(s, 1, m)
  <2> DEFINE b == SubSeq(content, a + 5, a + 4 + m)
  <2>1. Between(a + 4, a + 4 + m) = b
    <3>1. a + 4 + 1 = a + 5
        OBVIOUS
    <3> QED
        BY <3>1 DEF Between
  <2>2. a + 5 \in Int /\ a + 4 + m \in Int /\ a + 4 + m - (a + 5) + 1 = m
      OBVIOUS
  <2>3. \A i \in a + 5..a + 4 + m : content[i] \in Chars
    <3>1. ASSUME NEW i \in a + 5..a + 4 + m PROVE content[i] \in Chars
      <4>1. i - a - 4 \in 1..m /\ a + 4 + (i - a - 4) = i
          OBVIOUS
      <4> QED
          BY <1>1, <1>3, <4>1
    <3> QED
        BY <3>1
  <2>4. /\ b \in Seq(Chars)
        /\ Len(b) = (IF a + 5 <= a + 4 + m THEN a + 4 + m - (a + 5) + 1 ELSE 0)
        /\ \A i \in 1..a + 4 + m - (a + 5) + 1 : b[i] = content[a + 5 + i - 1]
    <3> DEFINE hi == a + 4 + m
               lo == a + 5
    <3>1. hi \in Int /\ lo \in Int /\ \A i \in lo..hi : content[i] \in Chars
        BY <2>2, <2>3
    <3>2. b = SubSeq(content, lo, hi)
        OBVIOUS
    <3> HIDE DEF hi, lo, b
    <3>3. /\ SubSeq(content, lo, hi) \in Seq(Chars)
          /\ Len(SubSeq(content, lo, hi)) = (IF lo <= hi THEN hi - lo + 1 ELSE 0)
          /\ \A i \in 1..hi - lo + 1 : SubSeq(content, lo, hi)[i] = content[lo + i - 1]
        BY ONLY <3>1, SubSeqProperties
    <3> QED
        BY <3>2, <3>3 DEF hi, lo
  <2> HIDE DEF b
  <2>5. Len(b) = m
      BY <2>4
  <2>6. \A i \in 1..m : b[i] = s[i]
    <3>1. ASSUME NEW i \in 1..m PROVE b[i] = s[i]
      <4>1. a + 5 + i - 1 = a + 4 + i /\ i \in 1..a + 4 + m - (a + 5) + 1
          OBVIOUS
      <4> QED
          BY <1>1, <2>4, <4>1
    <3> QED
        BY <3>1
  <2>7. b = SubSeq(s, 1, m)
      BY <1>2, <2>4, <2>5, <2>6, SeqEqual
  <2> QED
      BY <2>1, <2>7
<1> QED
    BY <1>4, <1>5

(* A name of the list that another one follows. *)
LEMMA NameAt ==
    ASSUME NEW text \in Seq(Bytes), NEW l \in Nat, CopyOf(text, l),
           NEW a \in Nat, NEW e \in Nat, NEW s \in Seq(Chars), e = a + Len(s) + 2, e + 2 <= l,
           text[e - 1] = CR, Lies(s, Len(s), text, a)
    PROVE  Strchr(a + 4) = e + 2 /\ Between(a + 4, e + 2) = s
<1>1. Len(s) \in Nat /\ e + 2 \in Nat /\ e + 2 = a + 4 + Len(s) /\ Len(s) <= Len(s)
    BY LenProperties
<1>2. content[e + 2 + 1] = CR
  <2>1. CASE e + 2 = l
      BY <2>1 DEF CopyOf
  <2>2. CASE e + 2 < l
    <3>1. PICK k \in 5..l : k = e + 2 + 1 /\ k - 4 = e - 1
        BY <1>1, <2>2
    <3>2. content[k] = text[e - 1]
        BY <3>1 DEF CopyOf
    <3> QED
        BY <3>1, <3>2
  <2> QED
      BY <2>1, <2>2
<1>3. Strchr(a + 4) = e + 2 /\ Between(a + 4, e + 2) = SubSeq(s, 1, Len(s))
    BY <1>1, <1>2, PieceAt
<1> QED
    BY <1>3, SubSeqFull

(* The last one: four bytes of the text are missing. *)
LEMMA LastAt ==
    ASSUME NEW text \in Seq(Bytes), NEW l \in Nat, CopyOf(text, l),
           NEW a \in Nat, NEW s \in Seq(Chars), l = a + Len(s) + 2, Lies(s, Len(s), text, a)
    PROVE  IF Len(s) >= 2 THEN Strchr(a + 4) = l /\ Between(a + 4, l) = Cut(s)
                          ELSE Strchr(a + 4) = Null
<1>1. PICK d \in Nat : d = Len(s)
    BY LenProperties
<1>2. CASE d >= 2
  <2>1. PICK m \in Nat : m = d - 2
      BY <1>2
  <2>2. l = a + 4 + m /\ l <= l /\ m <= Len(s) /\ m = Len(s) - 2
      BY <1>1, <2>1
  <2>3. Lies(s, m, text, a)
      BY <1>1, <2>1 DEF Lies
  <2>4. content[l + 1] = CR
      BY DEF CopyOf
  <2>5. Strchr(a + 4) = l /\ Between(a + 4, l) = SubSeq(s, 1, m)
      BY <2>2, <2>3, <2>4, PieceAt
  <2> QED
      BY <1>1, <1>2, <2>2, <2>5 DEF Cut
<1>3. CASE d < 2
  <2>1. ASSUME NEW j \in a + 4..Len(content) - 1 PROVE content[j + 1] # CR
    <3>1. j + 1 = l + 2 \/ j + 1 = l + 3
        BY <1>1, <1>3 DEF CopyOf
    <3> QED
        BY <3>1, ListAssumption DEF ListAssumption, CopyOf
  <2> QED
      BY <1>1, <1>3, <2>1, StrchrNone
<1> QED
    BY <1>1, <1>2, <1>3

(* Where a round of the loop begins and ends, for n names in l bytes.      *)
Loop(f, n, l, names) ==
    /\ n >= 1 /\ Len(content) = l + 3 /\ f[0] = 0
    /\ \A i \in 0..n - 1 : f[i] \in Nat /\ f[i] + 2 <= l
    /\ Strchr(2) = 2 /\ Between(2, 2) = <<>>
    /\ \A i \in 0..n - 2 :
          /\ Strchr(f[i] + 4) = f[i + 1] + 2
          /\ Between(f[i] + 4, f[i + 1] + 2) = names[i + 1]
    /\ IF Len(names[n]) >= 2
         THEN Strchr(f[n - 1] + 4) = l /\ Between(f[n - 1] + 4, l) = Cut(names[n])
         ELSE Strchr(f[n - 1] + 4) = Null
    /\ Strchr(l + 2) = Null

(* So it goes, name by name, through what getAllData wrote: the first finds *)
(* an empty name, the others those of the list, the last one cut.          *)
LEMMA Rounds ==
    ASSUME NEW names \in Seq(Seq(Chars)), NEW text \in Seq(Bytes), text # <<>>,
           NEW f, Laid(f, Len(names), names, text), content = Copied(text),
           NEW n \in Nat, n = Len(names), NEW l \in Nat, l = Len(text)
    PROVE  Loop(f, n, l, names)
<1>1. n \in Nat /\ l \in Nat /\ n = Len(names) /\ l = Len(text)
    OBVIOUS
<1>2. /\ f[0] = 0 /\ f[n] = l /\ \A i \in 0..n : f[i] \in Nat /\ f[i] <= l
      /\ \A i \in 1..n : /\ f[i] = f[i - 1] + Len(names[i]) + 2
                         /\ \A j \in 1..Len(names[i]) : text[f[i - 1] + j] = names[i][j]
                         /\ text[f[i] - 1] = CR
    BY <1>1 DEF Laid
<1>3. \A i \in 1..n : names[i] \in Seq(Chars) /\ Len(names[i]) \in Nat
    BY <1>1, NameFacts
<1>4. n >= 1 /\ l >= 2
  <2>1. l # 0
      BY <1>1, EmptySeq
  <2>2. n >= 1
      BY <1>2, <2>1
  <2>3. f[n] = f[n - 1] + Len(names[n]) + 2 /\ f[n - 1] \in Nat /\ Len(names[n]) \in Nat
      BY <1>2, <1>3, <2>2
  <2> QED
      BY <1>2, <2>2, <2>3
<1>5. CopyOf(text, l)
    BY <1>1, <1>4, CopiedFacts DEF CopyOf
<1>6. ASSUME NEW i \in 0..n - 1 PROVE f[i] \in Nat /\ f[i] + 2 <= l
  <2>1. i \in 0..n /\ i + 1 \in 0..n /\ i + 1 \in 1..n /\ i + 1 - 1 = i
      OBVIOUS
  <2>2. f[i + 1] = f[i] + Len(names[i + 1]) + 2
      BY <1>2, <2>1
  <2>3. f[i] \in Nat /\ f[i + 1] \in Nat /\ f[i + 1] <= l /\ Len(names[i + 1]) \in Nat
      BY <1>2, <1>3, <2>1
  <2>4. \A x, y, z \in Nat : y = x + z + 2 /\ y <= l => x + 2 <= l
      OBVIOUS
  <2> QED
      BY <2>2, <2>3, <2>4
<1>7. Strchr(2) = 2 /\ Between(2, 2) = <<>>
  <2>1. Strchr(2) = 2
    <3>1. content[2 + 1] = CR /\ 2 < Len(content) /\ Len(content) \in Nat
        BY <1>4, <1>5 DEF CopyOf
    <3>2. \A k \in 2..2 - 1 : content[k + 1] \notin {CR, NUL}
        OBVIOUS
    <3> QED
        BY <3>1, <3>2, StrchrAt
  <2>2. Between(2, 2) = <<>>
      BY SubSeqEmpty DEF Between
  <2> QED
      BY <2>1, <2>2
<1>8. ASSUME NEW i \in 0..n - 2
      PROVE  /\ Strchr(f[i] + 4) = f[i + 1] + 2
             /\ Between(f[i] + 4, f[i + 1] + 2) = names[i + 1]
  <2>1. PICK k \in 1..n : k = i + 1 /\ k - 1 = i /\ i \in 0..n - 1 /\ k \in 0..n - 1
      OBVIOUS
  <2>2. /\ f[k] = f[i] + Len(names[k]) + 2 /\ text[f[k] - 1] = CR
        /\ Lies(names[k], Len(names[k]), text, f[i])
      BY <1>2, <2>1 DEF Lies
  <2>3. f[i] \in Nat /\ f[k] \in Nat /\ f[k] + 2 <= l /\ names[k] \in Seq(Chars)
      BY <1>3, <1>6, <2>1
  <2>4. PICK x \in Nat, e \in Nat, s \in Seq(Chars) : x = f[i] /\ e = f[k] /\ s = names[k]
      BY <2>3
  <2>5. e = x + Len(s) + 2 /\ e + 2 <= l /\ text[e - 1] = CR /\ Lies(s, Len(s), text, x)
      BY <2>2, <2>3, <2>4
  <2>6. Strchr(x + 4) = e + 2 /\ Between(x + 4, e + 2) = s
      BY ONLY <1>5, <2>5, text \in Seq(Bytes), l \in Nat, x \in Nat, e \in Nat,
              s \in Seq(Chars), NameAt
  <2> QED
      BY <2>1, <2>4, <2>6
<1>9. IF Len(names[n]) >= 2
        THEN Strchr(f[n - 1] + 4) = l /\ Between(f[n - 1] + 4, l) = Cut(names[n])
        ELSE Strchr(f[n - 1] + 4) = Null
  <2>1. n \in 1..n /\ n - 1 \in 0..n
      BY <1>4
  <2>2. /\ l = f[n - 1] + Len(names[n]) + 2
        /\ Lies(names[n], Len(names[n]), text, f[n - 1])
      BY <1>2, <2>1 DEF Lies
  <2>3. f[n - 1] \in Nat /\ names[n] \in Seq(Chars)
      BY <1>2, <1>3, <2>1
  <2>4. PICK x \in Nat, s \in Seq(Chars) : x = f[n - 1] /\ s = names[n]
      BY <2>3
  <2>5. l = x + Len(s) + 2 /\ Lies(s, Len(s), text, x)
      BY <2>2, <2>4
  <2>6. IF Len(s) >= 2 THEN Strchr(x + 4) = l /\ Between(x + 4, l) = Cut(s)
                       ELSE Strchr(x + 4) = Null
      BY ONLY <1>5, <2>5, text \in Seq(Bytes), l \in Nat, x \in Nat, s \in Seq(Chars), LastAt
  <2> QED
      BY <2>4, <2>6
<1>10. Strchr(l + 2) = Null
  <2>1. ASSUME NEW j \in l + 2..Len(content) - 1 PROVE content[j + 1] # CR
    <3>1. j + 1 = l + 3
        BY <1>5 DEF CopyOf
    <3> QED
        BY <1>5, <3>1, ListAssumption DEF ListAssumption, CopyOf
  <2> QED
      BY <2>1, StrchrNone
<1> QED
    BY <1>2, <1>4, <1>5, <1>6, <1>7, <1>8, <1>9, <1>10 DEF CopyOf, Loop
-----------------------------------------------------------------------------
(* What the rows are filled with: the empty name the loop starts from, the *)
(* names of the list, and the last one cut.                                *)
Row(j) == IF j = 1 THEN <<>>
          ELSE IF j - 1 < Len(beacons) THEN beacons[j - 1] ELSE Cut(Last(beacons))

(* Where the loop stands after w rounds. *)
RoundAt(f, w, begin, end) ==
    \/ w = 0 /\ begin = 0 /\ end = 0
    \/ w \in 1..Len(beacons) /\ begin = f[w - 1] + 2 /\ end = NextEnd(begin)
    \/ /\ w = Len(beacons) + 1 /\ Len(Last(beacons)) >= 2
       /\ begin = Len(buffer) /\ end = Null

TypeInv ==
    /\ TypeOK
    /\ buffer \in Seq(Bytes) /\ temp_array \in Seq(Seq(Chars))
    /\ window_index \in Nat /\ window_index <= Rows

DumpInv ==
    pc = "dump" =>
        /\ beacon_begin = 0 /\ beacon_end = 0 /\ window_index = 0
        /\ temp_array = <<>> /\ content = <<>>
        /\ Len(buffer) = Written[read]
        /\ \E f : Laid(f, read, beacons, buffer)

RowsInv == \A j \in 1..window_index : temp_array[j] = Row(j)

ParseInv ==
    pc = "parse" =>
        /\ buffer # <<>> /\ content = Copied(buffer)
        /\ \E f : /\ Laid(f, Len(beacons), beacons, buffer)
                  /\ RoundAt(f, window_index, beacon_begin, beacon_end)

AskInv ==
    pc = "ask" => Len(beacons) >= 1 /\ EveryRowIsCounted

ListInv == TypeInv /\ DumpInv /\ RowsInv /\ ParseInv /\ AskInv

LEMMA CutFacts ==
    ASSUME NEW s \in Seq(Chars)
    PROVE  Cut(s) \in Seq(Chars) /\ Len(Cut(s)) \in Nat /\ Len(Cut(s)) <= Len(s) /\ Len(s) \in Nat
<1>1. PICK d \in Nat : d = Len(s)
    BY LenProperties
<1>2. CASE d >= 2
  <2>1. PICK m \in Nat : m = d - 2 /\ m <= Len(s)
      BY <1>1, <1>2
  <2>2. Cut(s) = SubSeq(s, 1, m)
      BY <1>1, <2>1 DEF Cut
  <2>3. SubSeq(s, 1, m) \in Seq(Chars) /\ Len(SubSeq(s, 1, m)) = m
      BY <2>1, Prefix
  <2> QED
      BY <1>1, <2>1, <2>2, <2>3
<1>3. CASE d < 2
  <2>1. SubSeq(s, 1, d - 2) = <<>>
      BY <1>3, SubSeqEmpty
  <2>2. Cut(s) = <<>> /\ Len(<<>>) = 0 /\ <<>> \in Seq(Chars)
      BY <1>1, <2>1 DEF Cut
  <2> QED
      BY <1>1, <2>2
<1> QED
    BY <1>2, <1>3

(* A round of the loop that is entered finds its end of line, takes the    *)
(* name that belongs in the next row, and leaves the loop where the next   *)
(* round expects it.                                                       *)
LEMMA RoundStep ==
    ASSUME beacons \in Seq(Seq(Chars)), buffer \in Seq(Bytes), buffer # <<>>,
           content = Copied(buffer), NEW f, Laid(f, Len(beacons), beacons, buffer),
           NEW w \in Nat, RoundAt(f, w, beacon_begin, beacon_end), beacon_end # Null
    PROVE  \E end : /\ end = Strchr(beacon_begin + 2) /\ end # Null
                    /\ end \in 0..Len(content)
                    /\ Between(beacon_begin + 2, end) = Row(w + 1)
                    /\ Row(w + 1) \in Seq(Chars)
                    /\ RoundAt(f, w + 1, end, NextEnd(end))
                    /\ w + 1 <= RowsFilled /\ w <= Len(beacons)
<1>0. PICK n \in Nat, l \in Nat : n = Len(beacons) /\ l = Len(buffer)
    BY LenProperties
<1>l. Loop(f, n, l, beacons)
    BY <1>0, Rounds
<1>1. n = Len(beacons) /\ l = Len(buffer) /\ n >= 1 /\ Len(content) = l + 3
    BY <1>0, <1>l DEF Loop
<1>a. f[0] = 0 /\ Strchr(2) = 2 /\ Between(2, 2) = <<>>
    BY <1>l DEF Loop
<1>b. \A i \in 0..n - 1 : f[i] \in Nat /\ f[i] + 2 <= l
    BY <1>l DEF Loop
<1>c. \A i \in 0..n - 2 : /\ Strchr(f[i] + 4) = f[i + 1] + 2
                           /\ Between(f[i] + 4, f[i + 1] + 2) = beacons[i + 1]
    BY <1>l DEF Loop
<1>d. IF Len(beacons[n]) >= 2
        THEN Strchr(f[n - 1] + 4) = l /\ Between(f[n - 1] + 4, l) = Cut(beacons[n])
        ELSE Strchr(f[n - 1] + 4) = Null
    BY <1>l DEF Loop
<1>f. /\ RowsFilled \in {n, n + 1} /\ Last(beacons) = beacons[n]
      /\ Len(beacons[n]) >= 2 => RowsFilled = n + 1
    BY <1>1 DEF RowsFilled, Last
<1>e. Strchr(l + 2) = Null
    BY <1>l DEF Loop
<1>2. \A i \in 1..n : beacons[i] \in Seq(Chars)
    BY <1>1, NameFacts
<1>3. CASE w = 0 /\ beacon_begin = 0 /\ beacon_end = 0
  <2>1. Row(w + 1) = <<>> /\ <<>> \in Seq(Chars)
      BY <1>3 DEF Row
  <2>2. 1 - 1 = 0 /\ 1 \in 1..Len(beacons) /\ 2 = f[0] + 2 /\ w + 1 = 1 /\ beacon_begin + 2 = 2
      BY <1>1, <1>a, <1>3
  <2>3. RoundAt(f, 1, 2, NextEnd(2))
      BY <2>2 DEF RoundAt
  <2>4. 2 \in 0..Len(content) /\ 2 # Null
      BY <1>1 DEF Null
  <2>5. w + 1 <= RowsFilled /\ w <= Len(beacons)
      BY <1>1, <1>f, <1>3
  <2> QED
      BY <1>1, <1>a, <1>3, <2>1, <2>2, <2>3, <2>4, <2>5
<1>4. CASE w \in 1..n /\ beacon_begin = f[w - 1] + 2 /\ beacon_end = NextEnd(beacon_begin)
  <2>1. PICK i \in 0..n - 1 : i = w - 1 /\ i + 1 = w
      BY <1>4
  <2>2. f[i] \in Nat /\ beacon_begin + 2 = f[i] + 4
    <3>1. f[i] \in Nat /\ beacon_begin = f[i] + 2
        BY <1>4, <1>b, <2>1
    <3> QED
        BY <3>1
  <2>3. Strchr(f[i] + 4) # Null
      BY <1>4, <2>2 DEF NextEnd
  <2>4. CASE w < n
    <3>0. w + 1 \in 1..n /\ w + 1 - 1 = w /\ w + 1 # 1 /\ i \in 0..n - 2 /\ w \in 0..n - 1
        BY <1>4, <2>1, <2>4
    <3>1. w + 1 \in 1..Len(beacons)
        BY <1>1, <3>0
    <3>2. Strchr(f[i] + 4) = f[w] + 2 /\ Between(f[i] + 4, f[w] + 2) = beacons[w]
        BY <1>c, <2>1, <3>0
    <3>3. f[w] + 2 \in 0..Len(content)
      <4>1. PICK x \in Nat : x = f[w] /\ x + 2 <= l
          BY <1>b, <3>0
      <4> QED
          BY <1>1, <4>1
    <3>4. Row(w + 1) = beacons[w] /\ beacons[w] \in Seq(Chars)
        BY <1>1, <1>2, <1>4, <2>4, <3>0 DEF Row
    <3>5. RoundAt(f, w + 1, f[w] + 2, NextEnd(f[w] + 2))
        BY <3>0, <3>1 DEF RoundAt
    <3>6. w + 1 <= RowsFilled /\ w <= Len(beacons)
        BY <1>1, <1>f, <2>4
    <3> QED
        BY <2>2, <2>3, <3>2, <3>3, <3>4, <3>5, <3>6
  <2>5. CASE w = n
    <3>1. w + 1 - 1 = w /\ w + 1 # 1 /\ w + 1 = Len(beacons) + 1 /\ ~(w < Len(beacons)) /\ i = n - 1
        BY <1>1, <2>1, <2>5
    <3>2. /\ Strchr(f[i] + 4) = l /\ Between(f[i] + 4, l) = Cut(beacons[n])
          /\ Len(beacons[n]) >= 2
        BY <1>d, <2>3, <3>1
    <3>3. l \in 0..Len(content)
        BY <1>1
    <3>4. Row(w + 1) = Cut(beacons[n]) /\ Cut(beacons[n]) \in Seq(Chars)
        BY <1>1, <1>2, <3>1, CutFacts DEF Row, Last
    <3>5. RoundAt(f, w + 1, l, NextEnd(l))
        BY <1>1, <1>e, <1>f, <3>1, <3>2 DEF RoundAt, NextEnd
    <3>6. w + 1 <= RowsFilled /\ w <= Len(beacons)
        BY <1>1, <1>f, <2>5, <3>2
    <3> QED
        BY <2>2, <2>3, <3>2, <3>3, <3>4, <3>5, <3>6
  <2> QED
      BY <1>4, <2>4, <2>5
<1> QED
    BY <1>1, <1>3, <1>4 DEF RoundAt

(* The loop ends when every name has its row, but for a last one that is    *)
(* lost with the four bytes.                                               *)
LEMMA RoundsEnd ==
    ASSUME beacons \in Seq(Seq(Chars)), buffer \in Seq(Bytes), buffer # <<>>,
           content = Copied(buffer), NEW f, Laid(f, Len(beacons), beacons, buffer),
           NEW w \in Nat, RoundAt(f, w, beacon_begin, beacon_end), beacon_end = Null
    PROVE  Len(beacons) >= 1 /\ w = RowsFilled
<1>0. PICK n \in Nat, l \in Nat : n = Len(beacons) /\ l = Len(buffer)
    BY LenProperties
<1>l. Loop(f, n, l, beacons)
    BY <1>0, Rounds
<1>1. /\ n = Len(beacons) /\ n >= 1
      /\ \A i \in 0..n - 1 : f[i] \in Nat
      /\ \A i \in 0..n - 2 : Strchr(f[i] + 4) = f[i + 1] + 2
    BY <1>0, <1>l DEF Loop
<1>2. ASSUME w \in 1..n - 1, beacon_begin = f[w - 1] + 2, beacon_end = NextEnd(beacon_begin)
      PROVE  FALSE
  <2>1. PICK i \in 0..n - 2 : i = w - 1 /\ i + 1 = w /\ i \in 0..n - 1 /\ w \in 0..n - 1
      BY <1>2
  <2>2. f[i] \in Nat /\ f[w] \in Nat /\ beacon_begin + 2 = f[i] + 4 /\ beacon_begin \in Nat
    <3>1. f[i] \in Nat /\ f[w] \in Nat
        BY <1>1, <2>1
    <3>2. beacon_begin = f[i] + 2
        BY <1>2, <2>1
    <3> QED
        BY <3>1, <3>2
  <2>3. Strchr(beacon_begin + 2) = f[w] + 2
      BY <1>1, <2>1, <2>2
  <2>4. Strchr(beacon_begin + 2) # Null /\ beacon_begin # Null
      BY <2>2, <2>3 DEF Null
  <2> QED
      BY <1>2, <2>4 DEF NextEnd
<1>3. 0 # Null
    BY DEF Null
<1>4. w \in 1..n => w \in 1..n - 1 \/ w = n
    BY <1>1
<1>5. ASSUME w = n, beacon_begin = f[w - 1] + 2, beacon_end = NextEnd(beacon_begin)
      PROVE  ~(Len(Last(beacons)) >= 2)
  <2>0. n >= 1
      BY <1>1
  <2>1. PICK i \in Nat : i = n - 1 /\ i \in 0..n - 1
      BY <2>0
  <2>2. f[i] \in Nat /\ beacon_begin = f[i] + 2
      BY <1>1, <1>5, <2>1
  <2>3. beacon_begin + 2 = f[i] + 4 /\ beacon_begin # Null
      BY <2>2 DEF Null
  <2>4. Strchr(beacon_begin + 2) = Null
      BY <1>5, <2>3 DEF NextEnd
  <2>5. l # Null /\ Last(beacons) = beacons[n]
      BY <1>1 DEF Null, Last
  <2>6. Len(beacons[n]) >= 2 => Strchr(f[n - 1] + 4) = l
      BY <1>l DEF Loop
  <2> QED
      BY <2>1, <2>3, <2>4, <2>5, <2>6
<1>6. /\ RowsFilled \in {n, n + 1}
      /\ Len(Last(beacons)) >= 2 => RowsFilled = n + 1
      /\ ~(Len(Last(beacons)) >= 2) => RowsFilled = n
    BY <1>1 DEF RowsFilled
<1> QED
    BY <1>1, <1>2, <1>3, <1>4, <1>5, <1>6 DEF RoundAt
-----------------------------------------------------------------------------
LEMMA CopiedLength ==
    ASSUME NEW text \in Seq(Bytes)
    PROVE  Len(Copied(text)) \in Nat
<1>1. PICK front \in Seq(Bytes), behind \in Seq(Bytes) :
          front = <<CR, LF, CR, LF>> /\ behind = <<CR, LF, NUL>> /\ Len(front) = 4
  <2>1. <<CR, LF, CR, LF>> \in Seq(Bytes) /\ <<CR, LF, NUL>> \in Seq(Bytes)
      BY DEF Bytes
  <2> QED
      BY <2>1
<1>2. PICK n \in Nat, p \in Seq(Bytes) : n = Len(text) /\ p = front \o text /\ n <= Len(p)
  <2>1. PICK p : p = front \o text
      OBVIOUS
  <2>2. p \in Seq(Bytes) /\ Len(p) = 4 + Len(text) /\ Len(text) \in Nat
      BY ONLY <1>1, <2>1, text \in Seq(Bytes), Concat
  <2>3. Len(text) <= Len(p)
      BY <2>2
  <2> QED
      BY <2>1, <2>2, <2>3
<1>3. PICK s \in Seq(Bytes) : s = SubSeq(p, 1, n)
    BY Prefix, <1>2
<1>4. Copied(text) = s \o behind
    BY <1>1, <1>2, <1>3 DEF Copied, Parsed
<1> QED
    BY <1>4, Concat, LenProperties

(* What getAllData has written grows with every name. *)
LEMMA WrittenStep ==
    ASSUME beacons \in Seq(Seq(Chars))
    PROVE  /\ Written[0] = 0
           /\ \A i \in 0..Len(beacons) : Written[i] \in Nat
           /\ \A i \in 1..Len(beacons) : Written[i] = Written[i - 1] + Len(beacons[i]) + 2
<1>1. PICK n \in Nat : n = Len(beacons)
    BY LenProperties
<1>2. \A k \in 1..n : Len(beacons[k]) \in Nat
    BY <1>1, NameFacts
<1> DEFINE b == [k \in Nat |-> 0]
           G == [x \in Nat \X Nat |->
                   x[2] + (IF x[1] \in 1..n THEN Len(beacons[x[1]]) ELSE 0) + 2]
           p == [k \in Nat |-> IF k = 0 THEN 0 ELSE k - 1]
<1>3. Recurrence(Nat, {0}, b, G, p)
  <2>1. G \in [Nat \X Nat -> Nat]
    <3>1. ASSUME NEW x \in Nat \X Nat
          PROVE  x[2] + (IF x[1] \in 1..n THEN Len(beacons[x[1]]) ELSE 0) + 2 \in Nat
        BY <1>2
    <3> QED
        BY <3>1
  <2> HIDE DEF G
  <2> QED
      BY <2>1 DEF Recurrence
<1>4. \A k \in 1..n, i \in Nat : G[<<k, i>>] = i + Len(beacons[k]) + 2
    OBVIOUS
<1>5. \A k \in 1..n : k \in Nat /\ k \notin {0} /\ p[k] = k - 1 /\ k - 1 \in Nat
    OBVIOUS
<1> HIDE DEF G, p
<1>6. PICK f : Solves(f, Nat, {0}, b, G, p)
    BY ONLY <1>3, Recursion
<1>7. f \in [Nat -> Nat] /\ f[0] = 0 /\ \A k \in 1..n : f[k] = G[<<k, f[p[k]]>>]
    BY <1>5, <1>6 DEF Solves
<1>8. \A k \in 1..n : f[k] = f[k - 1] + Len(beacons[k]) + 2
    BY <1>4, <1>5, <1>7
<1> DEFINE g == [k \in 0..n |-> f[k]]
<1>9. /\ g = [k \in 0..n |-> g[k]] /\ \A k \in 0..n : g[k] = f[k]
      /\ \A k \in 0..n : k # 0 => k \in 1..n /\ k - 1 \in 0..n
    OBVIOUS
<1> HIDE DEF g
<1>10. g = [k \in 0..n |-> IF k = 0 THEN 0 ELSE g[k - 1] + Len(beacons[k]) + 2]
    BY <1>7, <1>8, <1>9
<1>11. \E v : v = [k \in 0..Len(beacons) |->
                     IF k = 0 THEN 0 ELSE v[k - 1] + Len(beacons[k]) + 2]
    BY <1>1, <1>10
<1>12. Written = [k \in 0..n |-> IF k = 0 THEN 0 ELSE Written[k - 1] + Len(beacons[k]) + 2]
    BY <1>1, <1>11 DEF Written
<1>13. Written[0] = 0 /\ \A k \in 1..n : Written[k] = Written[k - 1] + Len(beacons[k]) + 2
    BY <1>12
<1>14. \A k \in 0..n : Written[k] \in Nat
  <2> DEFINE T == {k \in Nat : k <= n /\ Written[k] \notin Nat}
  <2>1. SUFFICES ASSUME T # {} PROVE FALSE
      OBVIOUS
  <2>2. PICK k \in T : \A i \in Nat : i < k => i \notin T
      BY <2>1, Least
  <2>3. k \in 1..n /\ k - 1 \in Nat /\ k - 1 < k /\ k - 1 <= n
      BY <1>13, <2>2
  <2>4. Written[k - 1] \in Nat
      BY <2>2, <2>3
  <2>5. Written[k] = Written[k - 1] + Len(beacons[k]) + 2 /\ Len(beacons[k]) \in Nat
      BY <1>2, <1>13, <2>3
  <2>6. Written[k] \in Nat
      BY <2>4, <2>5
  <2> QED
      BY <2>2, <2>6
<1> QED
    BY <1>1, <1>13, <1>14

LEMMA WrittenGrows ==
    ASSUME beacons \in Seq(Seq(Chars)), NEW i \in 0..Len(beacons)
    PROVE  Written[i] <= Written[Len(beacons)]
<1>1. PICK n \in Nat : n = Len(beacons)
    BY LenProperties
<1>2. /\ \A k \in 0..n : Written[k] \in Nat
      /\ \A k \in 1..n : Written[k] = Written[k - 1] + Len(beacons[k]) + 2
    BY <1>1, WrittenStep
<1>3. \A k \in 1..n : Len(beacons[k]) \in Nat
    BY <1>1, NameFacts
<1>4. \A k \in 1..n : Written[k - 1] <= Written[k]
  <2>1. ASSUME NEW k \in 1..n PROVE Written[k - 1] <= Written[k]
    <3>1. k - 1 \in 0..n /\ k \in 0..n
        OBVIOUS
    <3>2. Written[k] = Written[k - 1] + Len(beacons[k]) + 2 /\ Len(beacons[k]) \in Nat
        BY <1>2, <1>3
    <3>3. Written[k - 1] \in Nat
        BY <1>2, <3>1
    <3> QED
        BY <3>2, <3>3
  <2> QED
      BY <2>1
<1> DEFINE T == {d \in Nat : d <= n /\ ~(Written[n - d] <= Written[n])}
<1>5. T = {}
  <2>1. SUFFICES ASSUME T # {} PROVE FALSE
      OBVIOUS
  <2>2. PICK d \in T : \A k \in Nat : k < d => k \notin T
      BY <2>1, Least
  <2>3. d # 0
    <3>1. n - 0 = n /\ n \in 0..n
        OBVIOUS
    <3> QED
        BY <1>2, <2>2, <3>1
  <2>4. d - 1 \in Nat /\ d - 1 < d /\ d - 1 <= n /\ n - d + 1 \in 1..n /\ n - (d - 1) = n - d + 1
        /\ n - d + 1 - 1 = n - d
      BY <2>2, <2>3
  <2>5. Written[n - d + 1] <= Written[n]
      BY <2>2, <2>4
  <2>6. Written[n - d] <= Written[n - d + 1]
      BY <1>4, <2>4
  <2>7. n - d \in 0..n /\ n - d + 1 \in 0..n /\ n \in 0..n
      BY <2>2, <2>4
  <2>8. Written[n - d] \in Nat /\ Written[n - d + 1] \in Nat /\ Written[n] \in Nat
      BY <1>2, <2>7
  <2> QED
      BY <2>2, <2>5, <2>6, <2>8
<1>6. n - i \in Nat /\ n - i <= n /\ n - (n - i) = i
    BY <1>1
<1> QED
    BY <1>1, <1>5, <1>6

LEMMA ExtendedLength ==
    ASSUME beacons \in Seq(Seq(Chars)), buffer \in Seq(Bytes),
           read \in 0..Len(beacons) - 1, Len(buffer) = Written[read]
    PROVE  Len(Extended) = Written[read + 1]
<1>1. PICK k \in 1..Len(beacons) : k = read + 1 /\ k - 1 = read
    BY LenProperties
<1>2. PICK s \in Seq(Bytes) : s = beacons[k]
    BY <1>1, NameFacts
<1>3. PICK u : u = buffer \o s \o <<CR, LF>>
    OBVIOUS
<1>4. CR \in Bytes /\ LF \in Bytes
    BY DEF Bytes
<1>5. Len(u) = Len(buffer) + Len(s) + 2
    BY ONLY <1>3, <1>4, buffer \in Seq(Bytes), s \in Seq(Bytes), Joined
<1>6. Extended = u
    BY <1>1, <1>2, <1>3 DEF Extended
<1>7. Written[k] = Written[k - 1] + Len(beacons[k]) + 2
    BY <1>1, WrittenStep
<1> QED
    BY <1>1, <1>2, <1>5, <1>6, <1>7

(* What a round takes is no longer than the name it is taken from. *)
LEMMA RowFits ==
    ASSUME beacons \in Seq(Seq(Chars)), Len(beacons) >= 1, NothingTooLong,
           NEW w \in Nat, w <= Len(beacons)
    PROVE  Len(Row(w + 1)) < CopySize /\ Len(Row(w + 1)) < RowSize
<1>1. PICK n \in Nat : n = Len(beacons) /\ n >= 1
    BY LenProperties
<1>2. \A i \in 1..n : /\ beacons[i] \in Seq(Chars) /\ Len(beacons[i]) \in Nat
                       /\ Len(beacons[i]) < CopySize /\ Len(beacons[i]) < RowSize
    BY <1>1, NameFacts DEF NothingTooLong
<1>3. CopySize \in Nat /\ RowSize \in Nat
    BY ListAssumption DEF ListAssumption
<1>4. CASE w = 0
  <2>1. Len(Row(w + 1)) = 0
      BY <1>4 DEF Row
  <2>2. 1 \in 1..n
      BY <1>1
  <2> QED
      BY <1>2, <1>3, <2>1, <2>2
<1>5. CASE w # 0 /\ w < n
  <2>1. w \in 1..n /\ Row(w + 1) = beacons[w]
      BY <1>1, <1>5 DEF Row
  <2> QED
      BY <1>2, <2>1
<1>6. CASE w # 0 /\ w = n
  <2>1. Row(w + 1) = Cut(beacons[n]) /\ n \in 1..n
      BY <1>1, <1>6 DEF Row, Last
  <2>2. PICK s \in Seq(Chars) : s = beacons[n]
      BY <1>2, <2>1
  <2>3. Len(Cut(s)) \in Nat /\ Len(Cut(s)) <= Len(s) /\ Len(s) \in Nat
      BY CutFacts
  <2> QED
      BY <1>2, <1>3, <2>1, <2>2, <2>3
<1> QED
    BY <1>1, <1>4, <1>5, <1>6

LEMMA InitList == Init => ListInv
<1> SUFFICES ASSUME Init PROVE ListInv
    OBVIOUS
<1> USE DEF Init
<1>1. beacons \in Seq(Seq(Chars)) /\ Len(beacons) \in Nat
    BY ListAssumption, LenProperties DEF ListAssumption
<1>2. TypeInv
  <2>1. <<>> \in Seq(Bytes) /\ <<>> \in Seq(Seq(Chars)) /\ Len(<<>>) = 0
      OBVIOUS
  <2> QED
      BY <1>1, <2>1, ListAssumption DEF TypeInv, TypeOK, ListAssumption
<1>3. DumpInv
  <2>1. Laid([i \in 0..0 |-> 0], 0, beacons, <<>>)
      BY DEF Laid
  <2>2. Written[0] = 0 /\ Len(<<>>) = 0
      BY <1>1, WrittenStep
  <2> QED
      BY <2>1, <2>2 DEF DumpInv
<1>4. RowsInv
    BY DEF RowsInv
<1> QED
    BY <1>2, <1>3, <1>4 DEF ListInv, ParseInv, AskInv

LEMMA ListStep == ListInv /\ [Next]_vars => ListInv'
<1> SUFFICES ASSUME ListInv, [Next]_vars PROVE ListInv'
    OBVIOUS
<1>1. /\ TypeOK /\ buffer \in Seq(Bytes) /\ temp_array \in Seq(Seq(Chars))
      /\ window_index \in Nat /\ window_index <= Rows /\ Rows \in Nat
      /\ DumpInv /\ RowsInv /\ ParseInv /\ AskInv
    BY ListAssumption DEF ListInv, TypeInv, ListAssumption
<1>2. beacons \in Seq(Seq(Chars)) /\ Len(beacons) \in Nat /\ Len(buffer) \in Nat
    BY <1>1, ListAssumption, LenProperties DEF TypeOK, ListAssumption
<1>3. CASE DumpKey
  <2> USE <1>3 DEF DumpKey
  <2>1. PICK f : Laid(f, read, beacons, buffer)
      BY <1>1 DEF DumpInv
  <2>2. read \in 0..Len(beacons) - 1
      BY <1>1, <1>2 DEF TypeOK
  <2>3. buffer' \in Seq(Bytes) /\ \E g : Laid(g, read + 1, beacons, buffer')
      BY ONLY <1>1, <1>2, <2>1, <2>2, <1>3, LaidExtends DEF DumpKey, Extended
  <2>4. read' \in 0..Len(beacons')
      BY <1>2, <2>2
  <2>5. TypeInv'
      BY <1>1, <2>3, <2>4 DEF TypeInv, TypeOK
  <2>6. DumpInv'
    <3>1. Len(Extended) = Written[read + 1]
        BY <1>1, <1>2, <2>2, ExtendedLength DEF DumpInv
    <3>2. Written' = Written
        BY DEF Written
    <3> QED
        BY <1>1, <2>3, <3>1, <3>2 DEF DumpInv
  <2>7. RowsInv'
      BY <1>1 DEF RowsInv, Row
  <2> QED
      BY <2>5, <2>6, <2>7 DEF ListInv, ParseInv, AskInv
<1>4. CASE DumpOverflows \/ ParseOverflows \/ AnswerOverflows
  <2>1. Overflow
      BY <1>4 DEF DumpOverflows, ParseOverflows, AnswerOverflows
  <2> QED
      BY <1>1, <2>1 DEF Overflow, ListInv, TypeInv, TypeOK, DumpInv, RowsInv, Row, ParseInv, AskInv
<1>5. CASE ShowAll
  <2> USE <1>5 DEF ShowAll
  <2>1. PICK f : Laid(f, Len(beacons), beacons, buffer)
      BY <1>1 DEF DumpInv
  <2>2. RoundAt(f, window_index, beacon_begin, beacon_end)'
      BY DEF RoundAt
  <2>3. ParseInv'
      BY <2>1, <2>2 DEF ParseInv, Copied, Parsed
  <2>4. Len(content') \in Nat
      BY <1>1, <1>2, CopiedLength
  <2>5. TypeInv'
      BY <1>1, <2>4 DEF TypeInv, TypeOK, DumpInv
  <2>6. RowsInv'
      BY DEF RowsInv
  <2> QED
      BY <2>3, <2>5, <2>6 DEF ListInv, DumpInv, AskInv
<1>6. CASE ParseBeacon
  <2> USE <1>6 DEF ParseBeacon
  <2>1. buffer # <<>> /\ content = Copied(buffer)
      BY <1>1 DEF ParseInv
  <2>2. PICK f : Laid(f, Len(beacons), beacons, buffer)
                 /\ RoundAt(f, window_index, beacon_begin, beacon_end)
      BY <1>1 DEF ParseInv
  <2>3. PICK end : /\ end = Strchr(beacon_begin + 2) /\ end # Null
                   /\ end \in 0..Len(content)
                   /\ Between(beacon_begin + 2, end) = Row(window_index + 1)
                   /\ Row(window_index + 1) \in Seq(Chars)
                   /\ RoundAt(f, window_index + 1, end, NextEnd(end))
      BY <1>1, <1>2, <2>1, <2>2, RoundStep
  <2>4. /\ temp_array' = Append(temp_array, Row(window_index + 1))
        /\ beacon_begin' = end /\ beacon_end' = NextEnd(end)
      BY <2>3
  <2>5. /\ temp_array' \in Seq(Seq(Chars)) /\ Len(temp_array') = window_index + 1
        /\ \A j \in 1..window_index : temp_array'[j] = temp_array[j]
        /\ temp_array'[window_index + 1] = Row(window_index + 1)
    <3>1. PICK name \in Seq(Chars) : name = Row(window_index + 1)
        BY <2>3
    <3>2. PICK rows \in Seq(Seq(Chars)) : rows = temp_array
        BY <1>1
    <3>3. Len(rows) = window_index
        BY <1>1, <3>2 DEF TypeOK
    <3>4. temp_array' = Append(rows, name)
        BY <2>4, <3>1, <3>2
    <3> HIDE <1>6
    <3>5. /\ Append(rows, name) \in Seq(Seq(Chars))
          /\ Len(Append(rows, name)) = Len(rows) + 1
          /\ \A j \in 1..Len(rows) : Append(rows, name)[j] = rows[j]
          /\ Append(rows, name)[Len(rows) + 1] = name
        BY AppendProperties
    <3> QED
        BY <3>1, <3>2, <3>3, <3>4, <3>5
  <2>6. RowsInv'
    <3>1. \A j : Row(j)' = Row(j)
        BY DEF Row
    <3>2. \A j \in 1..window_index + 1 : j \in 1..window_index \/ j = window_index + 1
        BY <1>1
    <3> QED
        BY <1>1, <2>5, <3>1, <3>2 DEF RowsInv
  <2>7. RoundAt(f, window_index, beacon_begin, beacon_end)'
    <3>1. \A i : NextEnd(i)' = NextEnd(i)
        BY DEF NextEnd, Strchr
    <3>2. /\ window_index' = window_index + 1 /\ beacon_begin' = end
          /\ beacon_end' = NextEnd(end) /\ beacons' = beacons /\ buffer' = buffer
        BY <2>4
    <3> QED
        BY ONLY <2>3, <3>1, <3>2 DEF RoundAt
  <2>8. ParseInv'
      BY <2>1, <2>2, <2>7 DEF ParseInv, Copied, Parsed
  <2>9. TypeInv'
    <3>1. NextEnd(end) \in {Null, end}
        BY DEF NextEnd
    <3>2. window_index < Rows
        BY DEF Fits
    <3>3. window_index' \in Nat /\ window_index' <= Rows
        BY <1>1, <3>2
    <3> QED
        BY <1>1, <2>3, <2>4, <2>5, <3>1, <3>3 DEF TypeInv, TypeOK
  <2> QED
      BY <2>6, <2>8, <2>9 DEF ListInv, DumpInv, AskInv
<1>7. CASE ParseDone
  <2> USE <1>7 DEF ParseDone
  <2>1. buffer # <<>> /\ content = Copied(buffer)
      BY <1>1 DEF ParseInv
  <2>2. PICK f : Laid(f, Len(beacons), beacons, buffer)
                 /\ RoundAt(f, window_index, beacon_begin, beacon_end)
      BY <1>1 DEF ParseInv
  <2>3. Len(beacons) >= 1 /\ window_index = RowsFilled /\ window_index <= Rows
      BY <1>1, <1>2, <2>1, <2>2, RoundsEnd DEF ListInv, TypeInv
  <2>4. EveryRowIsCounted'
      BY <2>3 DEF EveryRowIsCounted, RowsFilled
  <2> QED
      BY <1>1, <2>3, <2>4 DEF ListInv, TypeInv, TypeOK, DumpInv, RowsInv, Row, ParseInv, AskInv
<1>8. CASE \E name \in Typed : Choose(name) \/ Refuse(name)
  <2>1. PICK name \in Typed : Choose(name) \/ Refuse(name)
      BY <1>8
  <2>2. /\ pc' \in {"ask", "chosen"} /\ pc = "ask" /\ refused' \subseteq Typed
        /\ UNCHANGED <<beacons, read, buffer, content, beacon_begin, beacon_end,
                       window_index, temp_array>>
      BY <1>1, <2>1 DEF Choose, Refuse, TypeOK
  <2>3. TypeInv'
      BY <1>1, <2>2 DEF TypeInv, TypeOK
  <2>4. RowsInv'
      BY <1>1, <2>2 DEF RowsInv, Row
  <2>5. AskInv'
      BY <1>1, <2>2 DEF AskInv, EveryRowIsCounted, RowsFilled
  <2> QED
      BY <1>1, <2>2, <2>3, <2>4, <2>5 DEF ListInv, DumpInv, ParseInv
<1>9. CASE UNCHANGED vars
  <2>1. ParseInv'
    <3>1. \A i : NextEnd(i)' = NextEnd(i)
        BY <1>9 DEF vars, NextEnd, Strchr
    <3>2. \A f, w, begin, end : RoundAt(f, w, begin, end)' = RoundAt(f, w, begin, end)
        BY <1>9, <3>1 DEF vars, RoundAt
    <3> QED
        BY <1>1, <1>9, <3>2 DEF vars, ParseInv, Copied, Parsed
  <2>2. DumpInv' /\ AskInv'
      BY <1>1, <1>9 DEF vars, DumpInv, Written, AskInv, EveryRowIsCounted, RowsFilled
  <2>3. TypeInv' /\ RowsInv'
      BY <1>1, <1>9 DEF vars, TypeInv, TypeOK, RowsInv, Row
  <2> QED
      BY <2>1, <2>2, <2>3 DEF ListInv
<1> QED
    BY <1>3, <1>4, <1>5, <1>6, <1>7, <1>8, <1>9 DEF Next, Step

(* The list is taken apart the way it was put together, for every list of  *)
(* names and every size of the buffers (getAllData and the loop of         *)
(* showAllBeacons).                                                        *)
THEOREM ListHolds == Spec => []ListInv
BY InitList, ListStep, PTL DEF Spec

(* The pointers of showAllBeacons stay in the copy, and its rows are what  *)
(* was parsed.                                                             *)
THEOREM PointersStay == Spec => []TypeOK
<1>1. ListInv => TypeOK
    BY DEF ListInv, TypeInv
<1> QED
    BY <1>1, ListHolds, PTL

(* strchr never returns NULL inside the loop of showAllBeacons.            *)
THEOREM EndOfLineFound == Spec => []LoopFindsEndOfLine
<1>1. ListInv => LoopFindsEndOfLine
  <2> SUFFICES ASSUME ListInv, pc = "parse", beacon_end # Null
               PROVE  Strchr(beacon_begin + 2) # Null
      BY DEF LoopFindsEndOfLine
  <2>1. beacons \in Seq(Seq(Chars)) /\ buffer \in Seq(Bytes) /\ window_index \in Nat
      BY ListAssumption DEF ListInv, TypeInv, TypeOK, ListAssumption
  <2>2. buffer # <<>> /\ content = Copied(buffer)
      BY DEF ListInv, ParseInv
  <2>3. PICK f : Laid(f, Len(beacons), beacons, buffer)
                 /\ RoundAt(f, window_index, beacon_begin, beacon_end)
      BY DEF ListInv, ParseInv
  <2> QED
      BY <2>1, <2>2, <2>3, RoundStep
<1> QED
    BY <1>1, ListHolds, PTL

(* What the user can choose is a name of the data base, or the last one    *)
(* without its last two characters.                                        *)
THEOREM Chosen == Spec => []ChosenIsListedOrCut
<1>1. ListInv => ChosenIsListedOrCut
  <2> SUFFICES ASSUME ListInv, pc = "ask", NEW name \in Range(temp_array) \ {<<>>}
               PROVE  name \in Range(beacons) \/ name = Cut(Last(beacons))
      BY DEF ChosenIsListedOrCut
  <2>1. /\ beacons \in Seq(Seq(Chars)) /\ temp_array \in Seq(Seq(Chars))
        /\ Len(temp_array) = window_index /\ window_index \in Nat
      BY ListAssumption DEF ListInv, TypeInv, TypeOK, ListAssumption
  <2>2. PICK j \in 1..window_index : name = temp_array[j]
      BY <2>1 DEF Range
  <2>3. name = Row(j)
      BY <2>2 DEF ListInv, RowsInv
  <2>4. CASE j - 1 < Len(beacons) /\ j # 1
    <3>1. j - 1 \in DOMAIN beacons
        BY <2>1, <2>4
    <3> QED
        BY <2>3, <2>4, <3>1 DEF Row, Range
  <2>5. CASE ~(j - 1 < Len(beacons)) \/ j = 1
      BY <2>3, <2>5 DEF Row
  <2> QED
      BY <2>4, <2>5
<1> QED
    BY <1>1, ListHolds, PTL

(* numberOfBeacons is the number of rows the loop of showAllBeacons fills,  *)
(* which are all there.                                                    *)
THEOREM RowsCounted == Spec => []EveryRowIsCounted
<1>1. ListInv => EveryRowIsCounted
    BY DEF ListInv, AskInv, EveryRowIsCounted
<1> QED
    BY <1>1, ListHolds, PTL

(* Neither the loop of getAllData nor that of showAllBeacons runs over a    *)
(* buffer, whatever the sizes, if the list is not too long for one of them.*)
THEOREM StaysInside == Spec => LoopsStayInside
<1>1. ASSUME ListInv, [Next]_vars, pc \in {"dump", "parse"}, beacons # <<>>, NothingTooLong
      PROVE  pc' # "overflow"
  <2>1. /\ TypeOK /\ beacons \in Seq(Seq(Chars)) /\ buffer \in Seq(Bytes)
        /\ window_index \in Nat /\ Len(beacons) \in Nat
      BY <1>1, ListAssumption, LenProperties DEF ListInv, TypeInv, TypeOK, ListAssumption
  <2>2. ~DumpOverflows
    <3> SUFFICES ASSUME DumpOverflows PROVE FALSE
        OBVIOUS
    <3>1. Len(buffer) = Written[read]
        BY <1>1 DEF DumpOverflows, ListInv, DumpInv
    <3>2. read \in 0..Len(beacons) - 1 /\ read + 1 \in 0..Len(beacons)
        BY <2>1 DEF DumpOverflows, TypeOK
    <3>3. Len(Extended) = Written[read + 1] /\ Written[read + 1] <= Written[Len(beacons)]
        BY <2>1, <3>1, <3>2, ExtendedLength, WrittenGrows
    <3>4. Written[read + 1] \in Nat /\ Written[Len(beacons)] \in Nat /\ DumpSize \in Nat
        BY <2>1, <3>2, WrittenStep, ListAssumption DEF ListAssumption
    <3>5. Written[read + 1] >= DumpSize /\ Written[Len(beacons)] < DumpSize
        BY <1>1, <3>3 DEF DumpOverflows, NothingTooLong
    <3> QED
        BY <3>3, <3>4, <3>5
  <2>3. ~ParseOverflows
    <3> SUFFICES ASSUME ParseOverflows PROVE FALSE
        OBVIOUS
    <3>1. buffer # <<>> /\ content = Copied(buffer)
        BY <1>1 DEF ParseOverflows, ListInv, ParseInv
    <3>2. PICK f : Laid(f, Len(beacons), beacons, buffer)
                   /\ RoundAt(f, window_index, beacon_begin, beacon_end)
        BY <1>1 DEF ParseOverflows, ListInv, ParseInv
    <3>3. PICK end : /\ end = Strchr(beacon_begin + 2) /\ end # Null
                     /\ Between(beacon_begin + 2, end) = Row(window_index + 1)
                     /\ window_index + 1 <= RowsFilled /\ window_index <= Len(beacons)
        BY <2>1, <3>1, <3>2, RoundStep DEF ParseOverflows
    <3>4. Len(beacons) >= 1 /\ window_index < Rows
      <4>1. Len(beacons) # 0
          BY <1>1, <2>1, EmptySeq
      <4>2. RowsFilled \in Nat /\ RowsFilled <= Rows /\ Rows \in Nat
          BY <1>1, <2>1, ListAssumption DEF NothingTooLong, RowsFilled, ListAssumption
      <4> QED
          BY <2>1, <3>3, <4>1, <4>2
    <3>5. /\ Len(Row(window_index + 1)) < CopySize
          /\ Len(Row(window_index + 1)) < RowSize
        BY <1>1, <2>1, <3>3, <3>4, RowFits
    <3> QED
        BY <3>3, <3>4, <3>5 DEF ParseOverflows, Fits
  <2>4. ~AnswerOverflows
      BY <1>1 DEF AnswerOverflows
  <2>5. ASSUME Next PROVE pc' # "overflow"
    <3>1. CASE DumpKey \/ ShowAll \/ ParseBeacon \/ ParseDone
        BY <1>1, <3>1 DEF DumpKey, ShowAll, ParseBeacon, ParseDone
    <3>2. CASE \E name \in Typed : Choose(name) \/ Refuse(name)
        BY <1>1, <3>2 DEF Choose, Refuse
    <3> QED
        BY <2>2, <2>3, <2>4, <2>5, <3>1, <3>2 DEF Next, Step
  <2> QED
      BY <1>1, <2>5 DEF vars
<1> QED
    BY <1>1, ListHolds, PTL DEF Spec, LoopsStayInside

(* Every name but the last can be chosen, however long the list.           *)
THEOREM Choosable == Spec => []AllButLastCanBeChosen
<1>1. ListInv => AllButLastCanBeChosen
  <2> SUFFICES ASSUME ListInv, pc = "ask", NEW i \in 1..Len(beacons) - 1
               PROVE  beacons[i] \in Range(temp_array)
      BY DEF AllButLastCanBeChosen, keyExistInServer
  <2>1. /\ beacons \in Seq(Seq(Chars)) /\ temp_array \in Seq(Seq(Chars))
        /\ Len(temp_array) = window_index /\ window_index \in Nat /\ Len(beacons) \in Nat
        /\ window_index \in {Len(beacons), Len(beacons) + 1}
      BY ListAssumption, LenProperties
      DEF ListInv, TypeInv, TypeOK, AskInv, EveryRowIsCounted, RowsFilled, ListAssumption
  <2>2. PICK j \in 1..window_index : j = i + 1 /\ j - 1 = i /\ j # 1 /\ i < Len(beacons)
      BY <2>1
  <2>3. temp_array[j] = beacons[i]
      BY <2>2 DEF ListInv, RowsInv, Row
  <2>4. j \in DOMAIN temp_array
      BY <2>1
  <2> QED
      BY <2>3, <2>4 DEF Range
<1> QED
    BY <1>1, ListHolds, PTL
==============================================================================
