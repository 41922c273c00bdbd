----------------------------- MODULE HttpMessage -----------------------------
(***************************************************************************)
(* A request and its answer as text, character by character: build_request *)
(* and send_request (client.c), parse_http_request and parse_query, then   *)
(* send_response (server.c), parse_http_response, and the loop and the     *)
(* screen of the client (ncurse_cli.c).  Every buffer is sized by a sum of *)
(* lengths, and filled by a format somewhere else; where an answer ends    *)
(* the client finds out by counting Content-Length bytes back from the end *)
(* of what it has read.                                                    *)
(*                                                                         *)
(* Texts are sequences of characters, without the zero byte that ends them *)
(* in memory; letters are not told apart except in names and data.  An     *)
(* answer fits into the 1024 bytes of a read.                              *)
(***************************************************************************)
EXTENDS Integers, Sequences, SequencesExt

CONSTANTS
    Chars,       \* the characters of keys; values may hold an equals sign, too
    Queries,     \* what the client asks for: records of a key and a value
    Data,        \* the texts of data in the data base
    Lists,       \* the texts getAllData writes
    Pages,       \* the texts of pages
    Strays       \* what may lie in memory behind a copy without an end

SP == "space"
CR == "CR"
LF == "LF"
NUL == "zero"
CRLF == <<CR, LF>>
Digit == <<"0", "1", "2", "3", "4", "5", "6", "7", "8", "9">>

(* All characters that may stand in a text. *)
Characters == Chars \cup Range(Digit) \cup {"=", "/", "?", "x", SP, CR, LF}

ASSUME QueryAssumption ==
    /\ {SP, LF, "="} \cap Chars = {}
    /\ Queries \subseteq [key : Seq(Chars), value : Seq(Chars \cup {"="})]

(* A text of n letters. *)
Word(n) == [i \in 1..n |-> "x"]

(* http_constants.h: the values are known by their lengths and spaces. *)
http_version       == Word(8)
http_host          == Word(9)
http_user_agent    == Word(11)
accept_type        == Word(9)
http_date          == Word(7)
http_server        == Word(10) \o <<SP>> \o Word(4)
http_last_modified == Word(7)
http_content_type  == Word(9)
REQUEST_GET        == Word(3)
response_code      == Word(3)
status_okay        == Word(2)
status_not_found   == Word(4) \o <<SP>> \o Word(3) \o <<SP>> \o Word(5)

UrlRoom == 2 + 8 + 1 + 8 + 1        \* the malloc of build_request
REQ_LINE_BUFF == 50

(* A datum was the value of a query, in a request line of REQ_LINE_BUFF      *)
(* bytes.  Lists, pages and what lies in memory are any strings.            *)
ASSUME TextAssumption ==
    /\ NUL \notin Chars
    /\ \A d \in Data : d \in Seq(Chars \cup {"="}) /\ Len(d) < REQ_LINE_BUFF
    /\ \A t \in Lists \cup Pages \cup Strays : t \in Seq(Characters)

(* The bodies of responses, and what sprintf prints of their content: a     *)
(* datum has a zero byte of its own, a page may be followed by anything,    *)
(* the list and the null content of a POST have no room for a zero byte.    *)
Bodies == [kind : {"datum"}, text : Data] \cup [kind : {"list"}, text : Lists]
              \cup [kind : {"page"}, text : Pages] \cup {[kind |-> "none", text |-> Word(6)]}

(* serv->fetched.dsize, which becomes the Content-Length. *)
Dsize(b) == CASE b.kind = "list" -> Len(b.text)
              [] b.kind = "none" -> 0
              [] OTHER           -> Len(b.text) + 1

VARIABLES
    pc,          \* the next function, or how it ended
    asked,       \* the query the user asked for
    url,
    parsed,      \* the bytes of the query the server copied (where the string
                 \* in them ends, see Overrun in Server)
    body,        \* the body of the response
    text,        \* what the last sprintf printed
    room,        \* bytes of the array it printed to
    wire,        \* the bytes the server wrote
    cut,         \* how many of them the first dc_read of the client took
    data, count, \* the client's buffer, zero behind, and what dc_read returned
    http,        \* its response: Content-Length and content
    shown,       \* what showOneBeacon printed
    misread      \* history: a Content-Length was not what the server sent

vars == <<pc, asked, url, parsed, body, text, room, wire, cut, data, count,
          http, shown, misread>>

NoResponse == [length |-> -1, content |-> <<>>]

Init ==
    /\ pc = "build_request" /\ asked \in Queries
    /\ url = <<>> /\ parsed = [key |-> <<>>, value |-> <<>>]
    /\ body \in Bodies /\ text = <<>> /\ room = 0 /\ wire = <<>>
    /\ cut = 0 /\ data = <<>> /\ count = 0 /\ http = NoResponse /\ shown = <<>>
    /\ misread = FALSE

-----------------------------------------------------------------------------
(* strchr(s + from, c): the position, or 0. *)
StrChr(s, from, c) == SelectInSubSeq(s, from, Len(s), LAMBDA x : x = c)

(* The characters between two positions, without them. *)
Between(s, i, j) == SubSeq(s, i + 1, j - 1)

(* The string at the start of a buffer. *)
CString(bytes) ==
    LET n == StrChr(bytes, 1, NUL)
    IN  IF n = 0 THEN bytes ELSE SubSeq(bytes, 1, n - 1)

(* sprintf of %d, and strtol. *)
Decimal[n \in Nat] ==
    IF n < 10 THEN <<Digit[n + 1]>> ELSE Append(Decimal[n \div 10], Digit[(n % 10) + 1])

DigitValue(c) == CHOOSE n \in 0..9 : Digit[n + 1] = c

LeadingDigits(s) ==
    LET other == SelectInSubSeq(s, 1, Len(s), LAMBDA x : x \notin Range(Digit))
    IN  IF other = 0 THEN s ELSE SubSeq(s, 1, other - 1)

StrToL(s) ==
    LET digits == LeadingDigits(s)
        value[k \in 0..Len(digits)] ==
            IF k = 0 THEN 0 ELSE 10 * value[k - 1] + DigitValue(digits[k])
    IN  value[Len(digits)]

-----------------------------------------------------------------------------
BuildRequest ==
    /\ pc = "build_request"
    /\ url' = <<"/", "?">> \o asked.key \o <<"=">> \o asked.value
    /\ pc' = "send_request"
    /\ UNCHANGED <<asked, parsed, body, text, room, wire, cut, data, count, http, shown,
                   misread>>

HeaderLine(label, value) == Word(label) \o <<SP>> \o value \o CRLF

RequestText ==
    REQUEST_GET \o <<SP>> \o url \o <<SP>> \o http_version \o CRLF
        \o HeaderLine(5, http_host) \o HeaderLine(11, http_user_agent)
        \o HeaderLine(7, accept_type) \o CRLF

(* The array is as long as the text, so sprintf writes its zero byte behind *)
(* it, where strlen finds it again.                                        *)
SendRequest ==
    /\ pc = "send_request"
    /\ text' = RequestText
    /\ room' = Len(REQUEST_GET) + Len(url) + Len(http_version) + 4
                 + 5 + Len(http_host) + 3 + 11 + Len(http_user_agent) + 3
                 + 7 + Len(accept_type) + 3 + 2
    /\ pc' = "parse_http_request"
    /\ UNCHANGED <<asked, url, parsed, body, wire, cut, data, count, http, shown,
                   misread>>

(* Mutants: the last end of line ends the request line; the value starts    *)
(* with the equals sign.                                                   *)
RequestLineIsAll(message) == message

ParseQueryKeepsEquals(u) ==
    LET mark   == StrChr(u, 1, "?")
        equals == StrChr(u, mark + 1, "=")
    IN  [key |-> Between(u, mark, equals), value |-> SubSeq(u, equals, Len(u))]

(* What parse_http_request copies to request_line. *)
RequestLine(message) == SubSeq(message, 1, StrChr(message, 1, LF))

(* parse_request_line: the URL, between the first two spaces. *)
UrlOf(line) ==
    LET space == StrChr(line, 1, SP)
    IN  Between(line, space, StrChr(line, space + 1, SP))

ParseQuery(u) ==
    LET mark   == StrChr(u, 1, "?")
        equals == StrChr(u, mark + 1, "=")
    IN  [key |-> Between(u, mark, equals), value |-> Between(u, equals, Len(u) + 1)]

ParseRequest ==
    /\ pc = "parse_http_request"
    /\ \/ /\ Len(RequestLine(text)) > REQ_LINE_BUFF
          /\ pc' = "overrun"
          /\ UNCHANGED parsed
       \/ /\ Len(RequestLine(text)) <= REQ_LINE_BUFF
          /\ parsed' = ParseQuery(UrlOf(RequestLine(text)))
          /\ pc' = "send_response"
    /\ UNCHANGED <<asked, url, body, text, room, wire, cut, data, count, http, shown,
                   misread>>

-----------------------------------------------------------------------------
Status(b) == IF b.kind = "page" THEN status_not_found ELSE status_okay

ResponseHead(b) ==
    http_version \o <<SP>> \o response_code \o <<SP>> \o Status(b) \o CRLF
        \o HeaderLine(5, http_date) \o HeaderLine(7, http_server)
        \o HeaderLine(14, http_last_modified)
        \o HeaderLine(15, Decimal[Dsize(b)])
        \o HeaderLine(13, http_content_type) \o CRLF

(* Mutants: the size of the array without the spaces of the status line;    *)
(* Content-Length does not count the zero byte of a datum.                  *)
ResponseRoomTight(b) ==
    Len(http_version) + Len(response_code) + Len(Status(b))
        + 5 + Len(http_date) + 3 + 7 + Len(http_server) + 3
        + 14 + Len(http_last_modified) + 3 + 15 + Len(Decimal[Dsize(b)]) + 3
        + 13 + Len(http_content_type) + 3 + 2 + Dsize(b)

(* The size of the array response[]. *)
ResponseRoom(b) ==
    Len(http_version) + Len(response_code) + Len(Status(b)) + 4
        + 5 + Len(http_date) + 3 + 7 + Len(http_server) + 3
        + 14 + Len(http_last_modified) + 3 + 15 + Len(Decimal[Dsize(b)]) + 3
        + 13 + Len(http_content_type) + 3 + 2 + Dsize(b)

(* sprintf prints the content up to the first zero byte it meets, and the   *)
(* whole of the array is written, with the zero byte if it is inside.       *)
SendResponse ==
    /\ pc = "send_response"
    /\ \E stray \in IF body.kind = "page" THEN Strays ELSE {<<>>} :
          text' = ResponseHead(body) \o body.text \o stray
    /\ room' = ResponseRoom(body)
    /\ wire' = SubSeq(text' \o <<NUL>>, 1, room')
    /\ pc' = IF body.kind \in {"datum", "list"} THEN "dc_read" ELSE "done"
    /\ UNCHANGED <<asked, url, parsed, body, cut, data, count, http, shown,
                   misread>>

-----------------------------------------------------------------------------
(* Mutant: it takes the size of its buffer for the bytes it has read.       *)
ReadCountsBuffer ==
    /\ pc = "dc_read"
    /\ cut' \in IF body.kind = "list" THEN {Len(wire)} ELSE 1..Len(wire)
    /\ data' = SubSeq(wire, 1, cut') /\ count' = 1024
    /\ pc' = "parse_http_response"
    /\ UNCHANGED <<asked, url, parsed, body, text, room, wire, http, shown, misread>>

(* The first dc_read; a list comes in one piece here. *)
Read ==
    /\ pc = "dc_read"
    /\ cut' \in IF body.kind = "list" THEN {Len(wire)} ELSE 1..Len(wire)
    /\ data' = SubSeq(wire, 1, cut') /\ count' = cut'
    /\ pc' = "parse_http_response"
    /\ UNCHANGED <<asked, url, parsed, body, text, room, wire, http, shown, misread>>

(* The position where parse_response_line stops, in front of CR LF: 0 when  *)
(* it does not find what it looks for, or the line before had no end.       *)
LineEnd(s, before) ==
    LET space == IF before = 0 THEN 0 ELSE StrChr(s, before + 1, SP)
    IN  IF space = 0 THEN 0 ELSE StrChr(s, space + 1, CR)

(* Where it stops in each of the five lines behind the status line. *)
LineEnds(s) ==
    LET end[i \in 0..5] == IF i = 0 THEN StrChr(s, 1, LF) ELSE LineEnd(s, end[i - 1])
    IN  end

(* Mutant: the content starts behind the empty line. *)
ParseResponseBehindEmptyLine(s, stray) ==
    LET end == LineEnds(s)
    IN  [length  |-> StrToL(Between(s, StrChr(s, end[3] + 1, SP), end[4]) \o stray),
         content |-> SubSeq(s, end[5] + 4, Len(s))]

(* parse_http_response: Content-Length is copied without an end.  *)
ParseResponse(s, stray) ==
    LET end == LineEnds(s)
    IN  [length  |-> StrToL(Between(s, StrChr(s, end[3] + 1, SP), end[4]) \o stray),
         content |-> SubSeq(s, end[5], Len(s))]

(* A missing end of line is a null pointer. *)
ParseCrashes ==
    /\ pc = "parse_http_response"
    /\ LineEnds(CString(data))[5] = 0
    /\ pc' = "crashed"
    /\ UNCHANGED <<asked, url, parsed, body, text, room, wire, cut, data, count,
                   http, shown, misread>>

(* The buffer of getAllListOfBeacons holds anything behind a list. *)
Parse ==
    /\ pc = "parse_http_response"
    /\ LineEnds(CString(data))[5] # 0
    /\ \E stray, behind \in Strays :
          http' = ParseResponse(CString(data) \o IF body.kind = "list" THEN behind ELSE <<>>,
                                stray)
    /\ misread' = (misread \/ http'.length # Dsize(body))
    /\ pc' = IF body.kind = "list" THEN "done" ELSE "check"
    /\ UNCHANGED <<asked, url, parsed, body, text, room, wire, cut, data, count, shown>>

(* Mutant: the zero byte is not counted, as in getAllListOfBeacons. *)
LengthMatchesAsInList(length) ==
    /\ length <= count
    /\ Len(CString(SubSeq(data, count - length + 1, Len(data)))) = length

(* The test of getOneBeacon: so many bytes before the end a string starts   *)
(* that is, with its zero byte, so long.  The bytes behind data are zero.   *)
LengthMatches(length) ==
    /\ length <= count
    /\ Len(CString(SubSeq(data, count - length + 1, Len(data)))) + 1 = length

(* A length that reaches in front of the buffer finds anything there.       *)
OutsideBuffer(length) == length > count

Check ==
    /\ pc = "check"
    /\ \/ /\ OutsideBuffer(http.length) \/ LengthMatches(http.length)
          /\ pc' = "showOneBeacon"
          /\ \E stray \in Strays : http' = ParseResponse(CString(data), stray)
          /\ misread' = (misread \/ http'.length # Dsize(body))
          /\ UNCHANGED <<data, count>>
       \/ /\ ~LengthMatches(http.length)
          /\ UNCHANGED <<http, misread>>
          /\ \/ /\ count = cut /\ cut < Len(wire)
                /\ LET rest == SubSeq(wire, cut + 1, Len(wire))
                   IN  /\ data' = rest \o SubSeq(data, Len(rest) + 1, Len(data))
                       /\ count' = Len(rest)
                /\ pc' = "parse_http_response"
             \/ /\ ~(count = cut /\ cut < Len(wire))
                /\ pc' = "waiting"
                /\ UNCHANGED <<data, count>>
    /\ UNCHANGED <<asked, url, parsed, body, text, room, wire, cut, shown>>

(* showOneBeacon leaves out the two ends of line in front of the content    *)
(* and copies as many bytes as the length says; where the content is        *)
(* shorter it reads other memory.                                          *)
Show ==
    /\ pc = "showOneBeacon"
    /\ \/ /\ IF Len(http.content) < 4 THEN shown' \in Strays
             ELSE shown' = SubSeq(http.content, 5, Min({Len(http.content), http.length + 3}))
          /\ pc' = "shown"
       \/ /\ http.length > Len(http.content)
          /\ pc' = "crashed"
          /\ UNCHANGED shown
    /\ UNCHANGED <<asked, url, parsed, body, text, room, wire, cut, data, count, http,
                   misread>>

-----------------------------------------------------------------------------
Next ==
    \/ BuildRequest \/ SendRequest \/ ParseRequest \/ SendResponse
    \/ Read \/ ParseCrashes \/ Parse \/ Check \/ Show

Spec == Init /\ [][Next]_vars

-----------------------------------------------------------------------------
(* Every variable holds what its counterpart can hold. *)
TypeOK ==
    /\ pc \in {"build_request", "send_request", "parse_http_request",
               "send_response", "dc_read", "parse_http_response", "check",
               "showOneBeacon", "shown", "done", "overrun", "crashed", "waiting"}
    /\ asked \in Queries /\ body \in Bodies
    /\ room \in Nat /\ cut \in 0..Len(wire) /\ count \in 0..Len(wire)
    /\ Len(wire) <= room /\ http.length >= -1

(* What the user asks for is what the server looks up: no character of the  *)
(* key or of the value is lost or added between build_request and           *)
(* parse_query.                                                            *)
QueryArrives ==
    pc \notin {"build_request", "send_request", "parse_http_request", "overrun"}
        => parsed = asked

(* A URL that fits what build_request allocates in the client does not      *)
(* overrun request_line, which parse_http_request sizes by another number   *)
(* in the server.                                                          *)
UrlThatFitsIsRead == Len(url) < UrlRoom => pc # "overrun"

(* The array of send_request holds the text of a request, but not its zero  *)
(* byte; that of send_response holds the text of a datum to the last byte,  *)
(* and never that of a list or of a POST: those overrun it.                 *)
ArrayHoldsData ==
    /\ pc = "parse_http_request" => Len(text) = room
    /\ pc \in {"dc_read", "done"} =>
          /\ body.kind = "datum" => Len(text) + 1 = room
          /\ body.kind \in {"list", "none"} => Len(text) + 1 > room

(* A datum that comes in one piece gets past the test of getOneBeacon and   *)
(* to the screen, even when its length is misread, unless the misread       *)
(* length reaches out of the buffer or of the content.                     *)
WholeDatumGetsThrough ==
    pc \in {"waiting", "crashed"} /\ cut = Len(wire) =>
        OutsideBuffer(http.length) \/ http.length > Len(http.content)

(* What reaches the screen is the datum, all of it and nothing else, however *)
(* it was cut: the test of getOneBeacon never takes a part of an answer for  *)
(* the whole, unless the length it counts back by was misread.              *)
ShownIsDatum ==
    pc = "shown" /\ (~misread \/ cut = Len(wire)) =>
        cut = Len(wire) /\ shown = body.text

(* showAllBeacons copies Content-Length bytes of a content that begins with  *)
(* two ends of line: of the list it gets all but the last four bytes.       *)
ListKeepsEmptyLine ==
    pc = "done" /\ body.kind = "list" /\ ~misread =>
        SubSeq(http.content, 1, http.length) =
            SubSeq(CRLF \o CRLF \o body.text, 1, Len(body.text))
=============================================================================
