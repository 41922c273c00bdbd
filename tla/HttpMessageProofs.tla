--------------------------- MODULE HttpMessageProofs ---------------------------
(***************************************************************************)
(* Theorems about HttpMessage, for all keys and values without a space or  *)
(* an end of line (keys without an equals sign, too): the query that       *)
(* parse_query takes out of the text of a request is the one build_request *)
(* put in, and a URL that fits the client's buffer fits the server's.      *)
(***************************************************************************)
EXTENDS HttpMessage, TextLemmas, TLAPS

(* The URL of a query, and the line it is sent in. *)
Url(q) == <<"/", "?">> \o q.key \o <<"=">> \o q.value

Line(u) == REQUEST_GET \o <<SP>> \o u \o <<SP>> \o http_version \o CRLF

(* strchr finds the first c from a position on. *)
LEMMA StrChrAt ==
    ASSUME NEW s, Len(s) \in Nat, NEW c, NEW i \in Nat, NEW p \in Nat, i <= p, p <= Len(s),
           s[p] = c, \A k \in i..p - 1 : s[k] # c
    PROVE  StrChr(s, i, c) = p
<1> DEFINE I == {k \in i..Len(s) : s[k] = c}
<1>1. p \in I /\ \A k \in I : p <= k
    OBVIOUS
<1>2. I \subseteq Nat
    OBVIOUS
<1>3. StrChr(s, i, c) = IF I # {} THEN CHOOSE x \in I : \A y \in I : x <= y ELSE 0
    BY DEF StrChr, SelectInSubSeq, Min
<1> HIDE DEF I
<1>4. \A x \in I : (\A y \in I : x <= y) => x = p
    BY <1>1, <1>2
<1> QED
    BY <1>1, <1>3, <1>4

LEMMA Words ==
    /\ http_version \in Seq(Characters) /\ Len(http_version) = 8
    /\ \A i \in 1..8 : http_version[i] = "x"
    /\ REQUEST_GET \in Seq(Characters) /\ Len(REQUEST_GET) = 3
    /\ \A i \in 1..3 : REQUEST_GET[i] = "x"
    /\ \A n \in Nat : Word(n) \in Seq(Characters)
BY DEF http_version, REQUEST_GET, Word, Characters

(* Where the parts of the URL stand. *)
UrlParts(q, u, m, v) ==
    /\ m = Len(q.key) /\ v = Len(q.value)
    /\ u \in Seq(Characters) /\ Len(u) = m + 3 + v
    /\ u[1] = "/" /\ u[2] = "?" /\ u[m + 3] = "="
    /\ \A i \in 1..m : u[2 + i] = q.key[i] /\ q.key[i] \in Chars
    /\ \A i \in 1..v : u[m + 3 + i] = q.value[i]
    /\ \A i \in 1..Len(u) : u[i] \in Chars \cup {"=", "/", "?"}

LEMMA UrlFacts ==
    ASSUME NEW q \in Queries, NEW u, u = Url(q)
    PROVE  \E m, v \in Nat : UrlParts(q, u, m, v)
<1>1. PICK key, value : /\ key = q.key /\ value = q.value
                        /\ key \in Seq(Chars) /\ value \in Seq(Chars \cup {"="})
    BY QueryAssumption DEF QueryAssumption
<1> DEFINE T == Chars \cup {"=", "/", "?"}
<1>2. key \in Seq(T) /\ value \in Seq(T)
    BY <1>1, SeqMonotonic
<1>3. PICK a, e : /\ a = <<"/", "?">> /\ e = <<"=">> /\ a \in Seq(T) /\ e \in Seq(T)
                  /\ Len(a) = 2 /\ a[1] = "/" /\ a[2] = "?" /\ Len(e) = 1 /\ e[1] = "="
  <2>1. /\ <<"/", "?">> \in Seq(T) /\ Len(<<"/", "?">>) = 2
        /\ <<"/", "?">>[1] = "/" /\ <<"/", "?">>[2] = "?"
      OBVIOUS
  <2>2. <<"=">> \in Seq(T) /\ Len(<<"=">>) = 1 /\ <<"=">>[1] = "="
      OBVIOUS
  <2> QED
      BY <2>1, <2>2
<1>4. PICK m \in Nat, v \in Nat : m = Len(key) /\ v = Len(value)
    BY <1>1, LenProperties
<1> HIDE DEF T
<1>5. PICK s : s = a \o key
    OBVIOUS
<1>6. s \in Seq(T) /\ Len(s) = 2 + m /\ s[1] = "/" /\ s[2] = "?" /\ \A i \in 1..m : s[2 + i] = key[i]
  <2>1. /\ s \in Seq(T) /\ Len(s) = Len(a) + Len(key)
        /\ \A i \in 1..Len(a) : s[i] = a[i]
        /\ \A i \in 1..Len(key) : s[Len(a) + i] = key[i]
      BY ONLY <1>2, <1>3, <1>5, Concat
  <2> QED
      BY <1>3, <1>4, <2>1
<1>7. PICK t : t = s \o e
    OBVIOUS
<1>8. /\ t \in Seq(T) /\ Len(t) = m + 3 /\ t[m + 3] = "="
      /\ \A i \in 1..m + 2 : t[i] = s[i]
  <2>1. /\ t \in Seq(T) /\ Len(t) = Len(s) + Len(e)
        /\ \A i \in 1..Len(s) : t[i] = s[i]
        /\ \A i \in 1..Len(e) : t[Len(s) + i] = e[i]
      BY ONLY <1>3, <1>6, <1>7, Concat
  <2>2. Len(s) = m + 2 /\ Len(s) + 1 = m + 3 /\ Len(s) + Len(e) = m + 3
      BY <1>3, <1>6
  <2> QED
      BY <1>3, <2>1, <2>2
<1>9. PICK w : w = t \o value
    OBVIOUS
<1>u. u = w
    BY <1>1, <1>3, <1>5, <1>7, <1>9 DEF Url
<1>10. /\ u \in Seq(T) /\ Len(u) = m + 3 + v
       /\ \A i \in 1..m + 3 : u[i] = t[i]
       /\ \A i \in 1..v : u[m + 3 + i] = value[i]
  <2>0. t \in Seq(T) /\ value \in Seq(T)
      BY <1>2, <1>8
  <2>1. /\ w \in Seq(T) /\ Len(w) = Len(t) + Len(value)
        /\ \A i \in 1..Len(t) : w[i] = t[i]
        /\ \A i \in 1..Len(value) : w[Len(t) + i] = value[i]
      BY ONLY <2>0, <1>9, Concat
  <2> QED
      BY <1>4, <1>8, <1>u, <2>1
<1>11. ASSUME NEW i \in 1..m PROVE u[2 + i] = key[i] /\ key[i] \in Chars
  <2>1. 2 + i \in 1..m + 2 /\ 2 + i \in 1..m + 3
      OBVIOUS
  <2>2. u[2 + i] = key[i]
      BY <1>6, <1>8, <1>10, <2>1
  <2> QED
      BY <1>1, <1>4, <2>2, ElementOfSeq
<1>12. u[1] = "/" /\ u[2] = "?" /\ u[m + 3] = "="
  <2>1. 1 \in 1..m + 2 /\ 2 \in 1..m + 2 /\ 1 \in 1..m + 3 /\ 2 \in 1..m + 3 /\ m + 3 \in 1..m + 3
      OBVIOUS
  <2> QED
      BY <1>6, <1>8, <1>10, <2>1
<1>13. u \in Seq(Characters) /\ \A i \in 1..Len(u) : u[i] \in T
  <2>1. T \subseteq Characters
      BY DEF T, Characters
  <2> QED
      BY <1>10, <2>1, SeqMonotonic, ElementOfSeq
<1>14. \A i \in 1..m : u[2 + i] = q.key[i] /\ q.key[i] \in Chars
    BY <1>1, <1>11
<1>15. \A i \in 1..v : u[m + 3 + i] = q.value[i]
    BY <1>1, <1>10
<1>16. \A i \in 1..Len(u) : u[i] \in Chars \cup {"=", "/", "?"}
    BY <1>13 DEF T
<1>17. m = Len(q.key) /\ v = Len(q.value) /\ u \in Seq(Characters) /\ Len(u) = m + 3 + v
    BY <1>1, <1>4, <1>10, <1>13
<1>18. UrlParts(q, u, m, v)
    BY <1>12, <1>14, <1>15, <1>16, <1>17 DEF UrlParts
<1> QED
    BY <1>18

LEMMA UrlIsText ==
    ASSUME NEW q \in Queries, NEW u, u = Url(q)
    PROVE  /\ u \in Seq(Characters) /\ Len(u) \in Nat
           /\ \A i \in 1..Len(u) : u[i] \in Chars \cup {"=", "/", "?"}
<1>1. PICK m, v \in Nat : UrlParts(q, u, m, v)
    BY UrlFacts
<1> QED
    BY <1>1, LenProperties DEF UrlParts

(* Where the parts of the request line stand. *)
LineParts(u, n, l) ==
    /\ l \in Seq(Characters) /\ Len(l) = n + 15
    /\ \A i \in 1..3 : l[i] = "x"
    /\ l[4] = SP /\ l[n + 5] = SP
    /\ \A i \in 1..n : l[4 + i] = u[i]
    /\ \A i \in 1..8 : l[n + 5 + i] = "x"
    /\ l[n + 14] = CR /\ l[n + 15] = LF

LEMMA LineFacts ==
    ASSUME NEW u \in Seq(Characters), NEW n \in Nat, n = Len(u), NEW l, l = Line(u)
    PROVE  LineParts(u, n, l)
<1>1. SP \in Characters /\ CR \in Characters /\ LF \in Characters
    BY DEF Characters
<1>2. PICK a \in Seq(Characters), v \in Seq(Characters) :
          /\ a = REQUEST_GET /\ Len(a) = 3 /\ \A i \in 1..3 : a[i] = "x"
          /\ v = http_version /\ Len(v) = 8 /\ \A i \in 1..8 : v[i] = "x"
    BY Words
<1>3. PICK b : b = a \o <<SP>>
    OBVIOUS
<1>4. b \in Seq(Characters) /\ Len(b) = 4 /\ b[4] = SP /\ \A i \in 1..3 : b[i] = "x"
  <2>1. /\ b \in Seq(Characters) /\ Len(b) = Len(a) + 1
        /\ \A k \in 1..Len(a) : b[k] = a[k]
        /\ b[Len(a) + 1] = SP
      BY ONLY <1>1, <1>3, a \in Seq(Characters), OneMore
  <2> QED
      BY <1>2, <2>1
<1>5. PICK c : c = b \o u
    OBVIOUS
<1>6. /\ c \in Seq(Characters) /\ Len(c) = n + 4
      /\ \A i \in 1..4 : c[i] = b[i]
      /\ \A i \in 1..n : c[4 + i] = u[i]
  <2>0. b \in Seq(Characters) /\ u \in Seq(Characters)
      BY <1>4
  <2>1. /\ c \in Seq(Characters) /\ Len(c) = Len(b) + Len(u)
        /\ \A k \in 1..Len(b) : c[k] = b[k]
        /\ \A k \in 1..Len(u) : c[Len(b) + k] = u[k]
      BY ONLY <2>0, <1>5, Concat
  <2> QED
      BY <1>4, <2>1
<1>7. PICK d : d = c \o <<SP>>
    OBVIOUS
<1>8. /\ d \in Seq(Characters) /\ Len(d) = n + 5 /\ d[n + 5] = SP
      /\ \A i \in 1..n + 4 : d[i] = c[i]
  <2>0. c \in Seq(Characters) /\ SP \in Characters
      BY <1>1, <1>6
  <2>1. /\ d \in Seq(Characters) /\ Len(d) = Len(c) + 1
        /\ \A k \in 1..Len(c) : d[k] = c[k]
        /\ d[Len(c) + 1] = SP
      BY ONLY <2>0, <1>7, OneMore
  <2>2. Len(c) + 1 = n + 5
      BY <1>6
  <2> QED
      BY <1>6, <2>1, <2>2
<1>9. l = d \o v \o <<CR, LF>>
    BY <1>2, <1>3, <1>5, <1>7 DEF Line, CRLF
<1>10. /\ l \in Seq(Characters) /\ Len(l) = n + 15
       /\ \A i \in 1..n + 5 : l[i] = d[i]
       /\ \A i \in 1..8 : l[n + 5 + i] = v[i]
       /\ l[n + 14] = CR /\ l[n + 15] = LF
  <2>0. d \in Seq(Characters) /\ v \in Seq(Characters)
      BY <1>8
  <2>1. /\ l \in Seq(Characters) /\ Len(l) = Len(d) + Len(v) + 2
        /\ \A k \in 1..Len(d) : l[k] = d[k]
        /\ \A k \in 1..Len(v) : l[Len(d) + k] = v[k]
        /\ l[Len(d) + Len(v) + 1] = CR /\ l[Len(d) + Len(v) + 2] = LF
      BY ONLY <1>1, <1>9, <2>0, Joined
  <2>2. Len(d) = n + 5 /\ Len(v) = 8 /\ Len(d) + Len(v) + 1 = n + 14
        /\ Len(d) + Len(v) + 2 = n + 15
      BY <1>2, <1>8
  <2> QED
      BY <2>1, <2>2
<1>11. \A i \in 1..n : l[4 + i] = u[i]
  <2>1. \A i \in 1..n : 4 + i \in 1..n + 4 /\ 4 + i \in 1..n + 5
      OBVIOUS
  <2> QED
      BY <1>6, <1>8, <1>10, <2>1
<1>12. /\ \A i \in 1..3 : l[i] = "x"
       /\ l[4] = SP /\ l[n + 5] = SP
  <2>1. \A i \in 1..4 : i \in 1..n + 4 /\ i \in 1..n + 5
      OBVIOUS
  <2>2. \A i \in 1..4 : l[i] = b[i]
      BY <1>6, <1>8, <1>10, <2>1
  <2>3. 4 \in 1..4 /\ n + 5 \in 1..n + 5 /\ \A i \in 1..3 : i \in 1..4
      OBVIOUS
  <2>4. l[4] = SP
      BY <1>4, <2>2, <2>3
  <2>5. l[n + 5] = SP
      BY <1>8, <1>10, <2>3
  <2>6. \A i \in 1..3 : l[i] = "x"
      BY <1>4, <2>2, <2>3
  <2> QED
      BY <2>4, <2>5, <2>6
<1>13. \A i \in 1..8 : l[n + 5 + i] = "x"
    BY <1>2, <1>10
<1> QED
    BY <1>10, <1>11, <1>12, <1>13 DEF LineParts

LEMMA HeaderText ==
    ASSUME NEW n \in Nat, NEW v \in Seq(Characters)
    PROVE  HeaderLine(n, v) \in Seq(Characters)
<1>1. SP \in Characters /\ CR \in Characters /\ LF \in Characters
    BY DEF Characters
<1>2. PICK w \in Seq(Characters) : w = Word(n)
    BY Words
<1>3. PICK a : a = w \o <<SP>>
    OBVIOUS
<1>4. a \in Seq(Characters)
    BY ONLY <1>1, <1>3, w \in Seq(Characters), OneMore
<1>5. PICK b : b = a \o v \o <<CR, LF>>
    OBVIOUS
<1>6. b \in Seq(Characters)
    BY ONLY <1>1, <1>4, <1>5, v \in Seq(Characters), Joined
<1> QED
    BY <1>2, <1>3, <1>5, <1>6 DEF HeaderLine, CRLF

(* What stands at the start of a text stays when more is put behind it. *)
StartsAs(s, n, l) == n <= Len(s) /\ \A i \in 1..n : s[i] = l[i]

LEMMA StillStarts ==
    ASSUME NEW S, NEW l, NEW n \in Nat, NEW s \in Seq(S), NEW t \in Seq(S), NEW u, u = s \o t,
           StartsAs(s, n, l)
    PROVE  u \in Seq(S) /\ StartsAs(u, n, l)
<1>1. /\ u \in Seq(S) /\ Len(u) = Len(s) + Len(t) /\ Len(s) \in Nat /\ Len(t) \in Nat
      /\ \A k \in 1..Len(s) : u[k] = s[k]
    BY Concat
<1>2. n <= Len(s) /\ \A i \in 1..n : s[i] = l[i]
    BY DEF StartsAs
<1>3. n <= Len(u) /\ \A i \in 1..n : u[i] = l[i]
    BY <1>1, <1>2
<1> QED
    BY <1>1, <1>3 DEF StartsAs

Message(u) ==
    Line(u) \o HeaderLine(5, http_host) \o HeaderLine(11, http_user_agent)
            \o HeaderLine(7, accept_type) \o CRLF

(* The message starts with the request line. *)
LEMMA MessageStarts ==
    ASSUME NEW u \in Seq(Characters), NEW n \in Nat, n = Len(u), NEW t, t = Message(u)
    PROVE  t \in Seq(Characters) /\ n + 15 <= Len(t) /\ \A i \in 1..n + 15 : t[i] = Line(u)[i]
<1>1. PICK l : l = Line(u)
    OBVIOUS
<1>2. l \in Seq(Characters) /\ Len(l) = n + 15
  <2>1. LineParts(u, n, l)
      BY <1>1, LineFacts
  <2> QED
      BY <2>1 DEF LineParts
<1>3. PICK h1 \in Seq(Characters), h2 \in Seq(Characters), h3 \in Seq(Characters), e \in Seq(Characters) :
          /\ h1 = HeaderLine(5, http_host) /\ h2 = HeaderLine(11, http_user_agent)
          /\ h3 = HeaderLine(7, accept_type) /\ e = CRLF
  <2>1. /\ http_host \in Seq(Characters) /\ http_user_agent \in Seq(Characters)
        /\ accept_type \in Seq(Characters)
      BY Words DEF http_host, http_user_agent, accept_type
  <2>2. CRLF \in Seq(Characters)
      BY DEF CRLF, Characters
  <2> QED
      BY <2>1, <2>2, HeaderText
<1>4. PICK m : m = n + 15
    OBVIOUS
<1>5. m \in Nat /\ StartsAs(l, m, l)
    BY <1>2, <1>4 DEF StartsAs
<1>6. PICK a, b, c : a = l \o h1 /\ b = a \o h2 /\ c = b \o h3
    OBVIOUS
<1>7. a \in Seq(Characters) /\ StartsAs(a, m, l)
    BY ONLY <1>2, <1>5, <1>6, h1 \in Seq(Characters), StillStarts
<1>8. b \in Seq(Characters) /\ StartsAs(b, m, l)
    BY ONLY <1>5, <1>7, <1>6, h2 \in Seq(Characters), StillStarts
<1>9. c \in Seq(Characters) /\ StartsAs(c, m, l)
    BY ONLY <1>5, <1>8, <1>6, h3 \in Seq(Characters), StillStarts
<1>10. t = c \o e
    BY <1>1, <1>3, <1>6 DEF Message
<1>11. t \in Seq(Characters) /\ StartsAs(t, m, l)
    BY ONLY <1>5, <1>9, <1>10, e \in Seq(Characters), StillStarts
<1> QED
    BY <1>1, <1>4, <1>11 DEF StartsAs

(* What parse_http_request copies is that line. *)
LEMMA RequestLineIsLine ==
    ASSUME NEW q \in Queries, NEW t, t = Message(Url(q))
    PROVE  RequestLine(t) = Line(Url(q))
<1>1. PICK u : u = Url(q)
    OBVIOUS
<1>2. PICK n \in Nat : /\ n = Len(u) /\ u \in Seq(Characters)
                       /\ \A i \in 1..n : u[i] \in Chars \cup {"=", "/", "?"}
    BY <1>1, UrlIsText
<1>3. PICK l : l = Line(u)
    OBVIOUS
<1>4. /\ l \in Seq(Characters) /\ Len(l) = n + 15
      /\ \A i \in 1..3 : l[i] = "x"
      /\ l[4] = SP /\ l[n + 5] = SP
      /\ \A i \in 1..n : l[4 + i] = u[i]
      /\ \A i \in 1..8 : l[n + 5 + i] = "x"
      /\ l[n + 14] = CR /\ l[n + 15] = LF
  <2>1. LineParts(u, n, l)
      BY <1>2, <1>3, LineFacts
  <2> QED
      BY ONLY <2>1 DEF LineParts
<1>5. t \in Seq(Characters) /\ n + 15 <= Len(t) /\ \A i \in 1..n + 15 : t[i] = l[i]
    BY <1>1, <1>2, <1>3, MessageStarts
<1>6. ASSUME NEW k \in 1..n + 14 PROVE l[k] # LF
  <2>1. "x" # LF /\ SP # LF /\ CR # LF /\ \A x \in Chars \cup {"=", "/", "?"} : x # LF
      BY QueryAssumption DEF QueryAssumption, LF, SP, CR
  <2>2. \/ k \in 1..3 \/ k = 4
        \/ \E i \in 1..n : k = 4 + i
        \/ k = n + 5
        \/ \E i \in 1..8 : k = n + 5 + i
        \/ k = n + 14
    <3>1. k - 4 \in 1..n \/ k \in 1..3 \/ k = 4 \/ k = n + 5 \/ k - (n + 5) \in 1..8 \/ k = n + 14
        OBVIOUS
    <3>2. k = 4 + (k - 4) /\ k = n + 5 + (k - (n + 5))
        OBVIOUS
    <3> QED
        BY <3>1, <3>2
  <2>3. CASE k \in 1..3 \/ k = 4
      BY <1>4, <2>1, <2>3
  <2>4. CASE \E i \in 1..n : k = 4 + i
    <3>1. PICK i \in 1..n : k = 4 + i
        BY <2>4
    <3>2. l[k] = u[i] /\ u[i] \in Chars \cup {"=", "/", "?"}
        BY <1>2, <1>4, <3>1
    <3> QED
        BY <2>1, <3>2
  <2>5. CASE k = n + 5 \/ k = n + 14
      BY <1>4, <2>1, <2>5
  <2>6. CASE \E i \in 1..8 : k = n + 5 + i
    <3>1. PICK i \in 1..8 : k = n + 5 + i
        BY <2>6
    <3> QED
        BY <1>4, <2>1, <3>1
  <2> QED
      BY <2>2, <2>3, <2>4, <2>5, <2>6
<1>7. StrChr(t, 1, LF) = n + 15
  <2>1. PICK p \in Nat, o \in Nat : p = n + 15 /\ o = 1
      OBVIOUS
  <2>2. Len(t) \in Nat /\ o <= p /\ p <= Len(t)
      BY <1>5, <2>1, LenProperties
  <2>3. t[p] = LF
    <3>1. p \in 1..n + 15
        BY <2>1
    <3> QED
        BY <1>4, <1>5, <2>1, <3>1
  <2>4. \A k \in o..p - 1 : t[k] # LF
    <3>1. \A k \in o..p - 1 : k \in 1..n + 14 /\ k \in 1..n + 15
        BY <2>1
    <3> QED
        BY <1>5, <1>6, <3>1
  <2>5. StrChr(t, o, LF) = p
      BY <2>2, <2>3, <2>4, StrChrAt
  <2> QED
      BY <2>1, <2>5
<1>8. SubSeq(t, 1, n + 15) = l
  <2>1. PICK p \in Nat, z \in Nat : p = n + 15 /\ z = 0
      OBVIOUS
  <2>2. p = z + Len(l) /\ p <= Len(t)
      BY <1>4, <1>5, <2>1
  <2>3. \A i \in 1..Len(l) : t[z + i] = l[i]
    <3>1. \A i \in 1..Len(l) : z + i = i /\ i \in 1..n + 15
        BY <1>4, <2>1
    <3> QED
        BY <1>5, <3>1
  <2>4. SubSeq(t, z + 1, p) = l
      BY ONLY <1>4, <1>5, <2>2, <2>3, p \in Nat, z \in Nat, Middle
  <2> QED
      BY <2>1, <2>4
<1> QED
    BY <1>1, <1>3, <1>7, <1>8 DEF RequestLine

(* parse_request_line finds the URL in it again. *)
LEMMA UrlOfLine ==
    ASSUME NEW q \in Queries
    PROVE  UrlOf(Line(Url(q))) = Url(q)
<1>1. PICK u : u = Url(q)
    OBVIOUS
<1>2. PICK n \in Nat : /\ n = Len(u) /\ u \in Seq(Characters)
                       /\ \A i \in 1..n : u[i] \in Chars \cup {"=", "/", "?"}
    BY <1>1, UrlIsText
<1>3. PICK l : l = Line(u)
    OBVIOUS
<1>4. /\ l \in Seq(Characters) /\ Len(l) = n + 15
      /\ \A i \in 1..3 : l[i] = "x"
      /\ l[4] = SP /\ l[n + 5] = SP
      /\ \A i \in 1..n : l[4 + i] = u[i]
  <2>1. LineParts(u, n, l)
      BY <1>2, <1>3, LineFacts
  <2> QED
      BY ONLY <2>1 DEF LineParts
<1>5. "x" # SP /\ \A x \in Chars \cup {"=", "/", "?"} : x # SP
    BY QueryAssumption DEF QueryAssumption, SP
<1>6. PICK one \in Nat, four \in Nat, five \in Nat, p \in Nat, e \in Nat :
          one = 1 /\ four = 4 /\ five = 5 /\ p = n + 5 /\ e = n + 4
    OBVIOUS
<1>7. StrChr(l, one, SP) = four
  <2>1. Len(l) \in Nat /\ one <= four /\ four <= Len(l) /\ l[four] = SP
      BY <1>4, <1>6
  <2>2. \A k \in one..four - 1 : l[k] # SP
    <3>1. \A k \in one..four - 1 : k \in 1..3
        BY <1>6
    <3> QED
        BY <1>4, <1>5, <3>1
  <2> QED
      BY <2>1, <2>2, StrChrAt
<1>8. StrChr(l, five, SP) = p
  <2>1. Len(l) \in Nat /\ five <= p /\ p <= Len(l) /\ l[p] = SP
      BY <1>4, <1>6
  <2>2. ASSUME NEW k \in five..p - 1 PROVE l[k] # SP
    <3>1. PICK i \in 1..n : k = 4 + i
      <4>1. k - 4 \in 1..n /\ k = 4 + (k - 4)
          BY <1>6
      <4> QED
          BY <4>1
    <3>2. l[k] = u[i] /\ u[i] \in Chars \cup {"=", "/", "?"}
        BY <1>2, <1>4, <3>1
    <3> QED
        BY <1>5, <3>2
  <2> QED
      BY <2>1, <2>2, StrChrAt
<1>9. SubSeq(l, four + 1, e) = u
  <2>1. l \in Seq(Characters) /\ u \in Seq(Characters)
      BY <1>2, <1>4
  <2>2. e = four + Len(u) /\ e <= Len(l)
      BY <1>2, <1>4, <1>6
  <2>3. \A i \in 1..Len(u) : l[four + i] = u[i]
      BY <1>2, <1>4, <1>6
  <2> QED
      BY ONLY <2>1, <2>2, <2>3, four \in Nat, e \in Nat, Middle
<1>10. four + 1 = five /\ p - 1 = e
    BY <1>6
<1>11. UrlOf(l) = SubSeq(l, four + 1, p - 1)
    BY <1>6, <1>7, <1>8, <1>10 DEF UrlOf, Between
<1> QED
    BY <1>1, <1>3, <1>9, <1>10, <1>11

(* parse_query takes it apart as build_request put it together. *)
LEMMA QueryOfUrl ==
    ASSUME NEW q \in Queries
    PROVE  ParseQuery(Url(q)) = q
<1>1. PICK u : u = Url(q)
    OBVIOUS
<1>a. PICK m, v \in Nat : UrlParts(q, u, m, v)
    BY <1>1, UrlFacts
<1>2. /\ m = Len(q.key) /\ v = Len(q.value)
      /\ u \in Seq(Characters) /\ Len(u) = m + 3 + v
      /\ u[1] = "/" /\ u[2] = "?" /\ u[m + 3] = "="
      /\ \A i \in 1..m : u[2 + i] = q.key[i] /\ q.key[i] \in Chars
      /\ \A i \in 1..v : u[m + 3 + i] = q.value[i]
    BY <1>a DEF UrlParts
<1>3. "/" # "?" /\ \A x \in Chars : x # "="
    BY QueryAssumption DEF QueryAssumption
<1>4. PICK one \in Nat, two \in Nat, three \in Nat, p \in Nat, d \in Nat, e \in Nat :
          one = 1 /\ two = 2 /\ three = 3 /\ p = m + 3 /\ d = m + 2 /\ e = m + 3 + v
    OBVIOUS
<1>5. PICK key, value : /\ key = q.key /\ value = q.value
                        /\ key \in Seq(Characters) /\ value \in Seq(Characters)
  <2>1. q.key \in Seq(Chars) /\ q.value \in Seq(Chars \cup {"="})
      BY QueryAssumption DEF QueryAssumption
  <2>2. Chars \subseteq Characters /\ Chars \cup {"="} \subseteq Characters
      BY DEF Characters
  <2> QED
      BY <2>1, <2>2, SeqMonotonic
<1>b. Len(u) = m + 3 + v /\ Len(key) = m /\ Len(value) = v
    BY <1>2, <1>5
<1>6. StrChr(u, one, "?") = two
  <2>0. u[two] = "?"
      BY <1>2, <1>4
  <2>1. Len(u) \in Nat /\ one <= two /\ two <= Len(u)
      BY <1>4, <1>b
  <2>2. \A k \in one..two - 1 : u[k] # "?"
    <3>1. \A k \in one..two - 1 : k = 1
        BY <1>4
    <3> QED
        BY <1>2, <1>3, <3>1
  <2> QED
      BY <2>0, <2>1, <2>2, StrChrAt
<1>7. StrChr(u, three, "=") = p
  <2>0. u[p] = "="
      BY <1>2, <1>4
  <2>1. Len(u) \in Nat /\ three <= p /\ p <= Len(u)
      BY <1>4, <1>b
  <2>2. ASSUME NEW k \in three..p - 1 PROVE u[k] # "="
    <3>1. PICK i \in 1..m : k = 2 + i
      <4>1. k - 2 \in 1..m /\ k = 2 + (k - 2)
          BY <1>4
      <4> QED
          BY <4>1
    <3> QED
        BY <1>2, <1>3, <3>1
  <2> QED
      BY <2>0, <2>1, <2>2, StrChrAt
<1>8. SubSeq(u, two + 1, d) = key
  <2>1. u \in Seq(Characters) /\ key \in Seq(Characters)
      BY <1>2, <1>5
  <2>2. d = two + Len(key) /\ d <= Len(u)
      BY <1>4, <1>b
  <2>3. \A i \in 1..Len(key) : u[two + i] = key[i]
      BY <1>2, <1>4, <1>5
  <2> QED
      BY ONLY <2>1, <2>2, <2>3, two \in Nat, d \in Nat, Middle
<1>9. SubSeq(u, p + 1, e) = value
  <2>1. u \in Seq(Characters) /\ value \in Seq(Characters)
      BY <1>2, <1>5
  <2>2. e = p + Len(value) /\ e <= Len(u)
      BY <1>4, <1>b
  <2>3. \A i \in 1..Len(value) : u[p + i] = value[i]
      BY <1>2, <1>4, <1>5
  <2> QED
      BY ONLY <2>1, <2>2, <2>3, p \in Nat, e \in Nat, Middle
<1>10. two + 1 = three /\ p - 1 = d /\ Len(u) + 1 - 1 = e
    BY <1>2, <1>4
<1>11. ParseQuery(u) = [key |-> SubSeq(u, two + 1, p - 1), value |-> SubSeq(u, p + 1, Len(u) + 1 - 1)]
  <2>1. PICK mark, equals : mark = StrChr(u, 1, "?") /\ equals = StrChr(u, mark + 1, "=")
      OBVIOUS
  <2>2. mark = two /\ equals = p
      BY <1>4, <1>6, <1>7, <1>10, <2>1
  <2>3. ParseQuery(u) = [key |-> SubSeq(u, mark + 1, equals - 1),
                         value |-> SubSeq(u, equals + 1, Len(u) + 1 - 1)]
      BY <2>1 DEF ParseQuery, Between
  <2> QED
      BY <2>2, <2>3
<1>12. ParseQuery(u) = [key |-> key, value |-> value]
    BY <1>8, <1>9, <1>10, <1>11
<1>13. q = [key |-> q.key, value |-> q.value]
    BY QueryAssumption DEF QueryAssumption
<1> QED
    BY <1>1, <1>5, <1>12, <1>13

-----------------------------------------------------------------------------
(* What the query is on its way: in the URL, in the text, and in the hands   *)
(* of the server.                                                          *)
OnTheWay ==
    /\ asked \in Queries
    /\ pc # "build_request" => url = Url(asked)
    /\ pc = "parse_http_request" => text = Message(url)
    /\ pc \notin {"build_request", "send_request", "parse_http_request", "overrun"}
          => parsed = asked
    /\ pc = "overrun" => Len(url) + 15 > REQ_LINE_BUFF

LEMMA OnTheWayInit == Init => OnTheWay
BY DEF Init, OnTheWay

LEMMA OnTheWayNext == OnTheWay /\ [Next]_vars => OnTheWay'
<1> SUFFICES ASSUME OnTheWay, [Next]_vars PROVE OnTheWay'
    OBVIOUS
<1>1. CASE BuildRequest
    BY <1>1 DEF OnTheWay, BuildRequest, Url
<1>2. CASE SendRequest
  <2>1. RequestText = Message(url)
      BY DEF RequestText, Message, Line
  <2> QED
      BY <1>2, <2>1 DEF OnTheWay, SendRequest
<1>3. CASE ParseRequest
  <2>1. PICK q \in Queries : q = asked /\ url = Url(q) /\ text = Message(Url(q))
      BY <1>3 DEF OnTheWay, ParseRequest
  <2>2. RequestLine(text) = Line(Url(q))
      BY <2>1, RequestLineIsLine
  <2>3. /\ UrlOf(Line(Url(q))) = Url(q)
        /\ ParseQuery(Url(q)) = q
      BY UrlOfLine, QueryOfUrl
  <2>4. Len(Line(Url(q))) = Len(Url(q)) + 15
    <3>1. Url(q) \in Seq(Characters) /\ Len(Url(q)) \in Nat
        BY UrlIsText
    <3>2. LineParts(Url(q), Len(Url(q)), Line(Url(q)))
        BY <3>1, LineFacts
    <3> QED
        BY <3>2 DEF LineParts
  <2>5. asked' = asked /\ url' = url
      BY <1>3 DEF ParseRequest
  <2>6. CASE Len(RequestLine(text)) > REQ_LINE_BUFF /\ pc' = "overrun"
      BY <2>1, <2>2, <2>4, <2>5, <2>6 DEF OnTheWay
  <2>7. CASE parsed' = ParseQuery(UrlOf(RequestLine(text))) /\ pc' = "send_response"
      BY <2>1, <2>2, <2>3, <2>5, <2>7 DEF OnTheWay
  <2> QED
      BY <1>3, <2>6, <2>7 DEF ParseRequest
<1>4. CASE SendResponse
    BY <1>4 DEF OnTheWay, SendResponse
<1>5. CASE Read
    BY <1>5 DEF OnTheWay, Read
<1>6. CASE ParseCrashes
    BY <1>6 DEF OnTheWay, ParseCrashes
<1>7. CASE Parse
    BY <1>7 DEF OnTheWay, Parse
<1>8. CASE Check
    BY <1>8 DEF OnTheWay, Check
<1>9. CASE Show
    BY <1>9 DEF OnTheWay, Show
<1>10. CASE UNCHANGED vars
    BY <1>10 DEF OnTheWay, vars
<1> QED
    BY <1>1, <1>2, <1>3, <1>4, <1>5, <1>6, <1>7, <1>8, <1>9, <1>10 DEF Next

LEMMA OnTheWayHolds == Spec => []OnTheWay
BY OnTheWayInit, OnTheWayNext, PTL DEF Spec

(* The server looks up what the user of the client asked for.               *)
THEOREM Arrives == Spec => []QueryArrives
<1>1. OnTheWay => QueryArrives
    BY DEF OnTheWay, QueryArrives
<1> QED
    BY <1>1, OnTheWayHolds, PTL

(* The buffer of parse_http_request is long enough for every URL that the   *)
(* malloc of build_request is long enough for.                             *)
THEOREM LongEnough == Spec => []UrlThatFitsIsRead
<1>1. OnTheWay => UrlThatFitsIsRead
  <2> SUFFICES ASSUME OnTheWay, pc = "overrun", Len(url) < UrlRoom PROVE FALSE
      BY DEF UrlThatFitsIsRead
  <2>1. Len(url) + 15 > 50
      BY DEF OnTheWay, REQ_LINE_BUFF
  <2>2. Len(url) < 20
      BY DEF UrlRoom
  <2>3. Len(url) \in Nat
      BY UrlIsText DEF OnTheWay
  <2> QED
      BY <2>1, <2>2, <2>3
<1> QED
    BY <1>1, OnTheWayHolds, PTL
=============================================================================
