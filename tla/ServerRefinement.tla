--------------------------- MODULE ServerRefinement ---------------------------
(***************************************************************************)
(* The server implements BeaconStore, for every value of the constants for *)
(* which nothing but the calls that read the data base and html/ is kept   *)
(* from failing.  TruthInv adds to the invariant of ServerProofs what is   *)
(* only true then: what a 404 says, and that no content is left over.      *)
(***************************************************************************)
EXTENDS ServerProofs

ReadsSucceed == {"fetch", "html"} \cap Faults = {}

StringsEnd == Overrun = {}

(* What the GET r asks for is not there. *)
Absent(r) ==
    \/ r.kind = "query" /\ r.name = DUMP /\ Listed = {}
    \/ r.kind = "query" /\ r.name # DUMP /\ store[r.name] = Null
    \/ r.kind = "page" /\ r.name \notin Pages
    \/ r.kind = "other"

NotFoundBody == [kind |-> "page", item |-> Page404]
JunkPage     == [kind |-> "page", item |-> Junk]

(* The content of the answer to r under a status. *)
Truthful(r, status, body) ==
    /\ r.method = "POST" => body = Null
    /\ r.method = "GET" /\ status = "404" =>
          body = NotFoundBody /\ (r.name \notin Overrun => Absent(r))

(* A page that cannot be opened for want of a descriptor is a 404 too, but *)
(* then 404.html cannot be opened either, and that is an error.            *)
TruthInv ==
    /\ Running /\ ~err /\ to \in {"ACCEPT_REQUEST", "HTTP_GET", "HTTP_POST"} => content = Null
    /\ InService /\ to = "BUILD_RESPONSE" =>
          /\ request.method = "POST" => content = Null
          /\ request.method = "GET" /\ error = "ERROR_404" /\ request.name \notin Overrun
                => Absent(request) \/ fds >= FdLimit
    /\ InService /\ to = "SEND_RESPONSE" =>
          Truthful(request, response.status, response.body)
    /\ content # JunkPage /\ (response # Null => response.body # JunkPage)

LEMMA TruthInit == Init => TruthInv
<1> SUFFICES ASSUME Init PROVE TruthInv
    OBVIOUS
<1>1. JunkPage # Null
    BY NullFacts, ServerAssumption DEF ServerAssumption, JunkPage, Bodies
<1> QED
    BY <1>1 DEF Init, TruthInv, InService, Served, Fsm!Started

(* Without failures of html/ a page is read as it is or not at all. *)
LEMMA HtmlFacts ==
    ASSUME ReadsSucceed, DescriptorInv, content # JunkPage,
           NEW page \in PageNames, NEW o \in HtmlOutcomes(page), GetHtml(page, o)
    PROVE  /\ content' # JunkPage
           /\ o \in {"opened", "missing"}
           /\ o = "opened"  => content' = [kind |-> "page", item |-> page]
           /\ o = "missing" => content' = content /\ (page \notin Pages \/ fds >= FdLimit)
           /\ UNCHANGED fds
<1>1. ~CanFail("html")
    BY DEF ReadsSucceed, CanFail
<1>2. o \in {"opened", "missing"}
    BY <1>1 DEF HtmlOutcomes
<1>3. o = "opened" => page \in Pages
    BY DEF HtmlOutcomes
<1>4. o = "missing" => ~(page \in Pages /\ fds < FdLimit)
    BY <1>1 DEF HtmlOutcomes
<1>5. page # Junk /\ FdLimit \in Nat /\ fds \in Nat
    BY ServerAssumption DEF ServerAssumption, DescriptorInv
<1>6. o = "opened" => content' = [kind |-> "page", item |-> page] /\ content' # JunkPage
    BY <1>5 DEF GetHtml, JunkPage
<1>7. UNCHANGED fds /\ (o = "missing" => content' = content)
    BY <1>2 DEF GetHtml
<1> QED
    BY <1>2, <1>4, <1>5, <1>6, <1>7

(* http_get leaves the content of an earlier request nowhere, and calls     *)
(* absent what is, or a page it has no descriptor for.                     *)
LEMMA GetTruth ==
    ASSUME ReadsSucceed, IInv, TruthInv, InService, to = "HTTP_GET", HttpGet, ~err'
    PROVE  /\ UNCHANGED <<fds, store, request>> /\ content' # JunkPage
           /\ error' = "ERROR_404" /\ request.name \notin Overrun
                => Absent(request) \/ fds >= FdLimit
<1>1. /\ request \in Requests /\ error = "none" /\ content = Null /\ ~err /\ DescriptorInv
      /\ content # JunkPage /\ UNCHANGED <<store, request>>
    BY DEF IInv, RequestInv, AnswerInv, TruthInv, InService, HttpGet
<1>2. CASE request.kind = "page" /\ GetPage
  <2>1. PICK o \in HtmlOutcomes(request.name) :
            /\ GetHtml(request.name, o)
            /\ error' = IF o = "missing" THEN "ERROR_404" ELSE error
      BY <1>2 DEF GetPage
  <2>2. request.name \in PageNames
      BY <1>1, <1>2, NameFacts
  <2> QED
      BY <1>1, <1>2, <2>1, <2>2, HtmlFacts DEF Absent
<1>3. CASE request.kind = "query" /\ GetQuery
  <2>1. PICK k \in AsRead(request.name) : content' \in QueryResults(k)
      BY <1>3 DEF GetQuery, ReadsSucceed, CanFail
  <2>2. content' # JunkPage
      BY <1>1, <2>1, NullFacts, ServerAssumption
      DEF ServerAssumption, QueryResults, JunkPage, TruthInv
  <2>3. request.name \notin Overrun => k = request.name
      BY <2>1 DEF AsRead
  <2>4. /\ request.name = DUMP => [kind |-> "list", item |-> Listed] # Null
        /\ store[request.name] # Null => [kind |-> "datum", item |-> store[request.name]] # Null
      <3>1. request.name \in StoredNames
          BY <1>1, <1>3, NameFacts DEF StoredNames
      <3>2. /\ [kind |-> "list", item |-> Listed] \in Bodies
            /\ store[request.name] # Null =>
                  [kind |-> "datum", item |-> store[request.name]] \in Bodies
          BY <3>1 DEF IInv, DataOK, Bodies, Data, Listed
      <3> QED
          BY <3>2, NullFacts
  <2>5. error' = "ERROR_404" => content' = Null
      BY <1>1, <1>3 DEF GetQuery
  <2>6. ASSUME content' = Null, request.name \notin Overrun PROVE Absent(request)
      BY <1>3, <2>1, <2>3, <2>4, <2>6 DEF QueryResults, Absent
  <2> QED
      BY <1>1, <1>3, <2>2, <2>5, <2>6 DEF GetQuery
<1>4. CASE request.kind = "query" /\ GetPartOfList
    BY <1>4 DEF GetPartOfList
<1>5. CASE request.kind = "other" /\ UNCHANGED <<content, fds>>
    BY <1>1, <1>5 DEF Absent
<1> QED
    BY <1>1, <1>2, <1>3, <1>4, <1>5 DEF HttpGet

LEMMA TruthStep ==
    ASSUME ReadsSucceed
    PROVE  IInv /\ TruthInv /\ [Next]_vars => TruthInv'
<1> SUFFICES ASSUME IInv, TruthInv, [Next]_vars PROVE TruthInv'
    OBVIOUS
<1>0. JunkPage # Null
    BY NullFacts, ServerAssumption DEF ServerAssumption, JunkPage, Bodies
<1>a. ASSUME UNCHANGED <<response, content>>, ~InService',
             Running' /\ ~err' => to' \notin {"ACCEPT_REQUEST", "HTTP_GET", "HTTP_POST"}
      PROVE  TruthInv'
    BY <1>a DEF TruthInv
<1>b. ASSUME UNCHANGED <<proc, err, to, request, response, error, content, store, fds>>
      PROVE  TruthInv'
    BY <1>b DEF TruthInv, Truthful, Absent, InService, Running, Listed
<1>c. ASSUME UNCHANGED <<response, content>>, ~Running' \/ err' PROVE TruthInv'
    BY <1>a, <1>c DEF InService
<1>d. ASSUME UNCHANGED <<proc, err, to, response, content>>, to = "ACCEPT_REQUEST"
      PROVE  TruthInv'
    BY <1>d DEF TruthInv, InService, Running, Served
<1> USE DEF Goto, Fsm!Goto, Handling, Fsm!At
<1>1. CASE InitServer \/ InitServerOutOfMemory \/ Restart
    BY <1>0, <1>1 DEF InitServer, InitServerOutOfMemory, Restart, TruthInv, InService, Served
<1>2. CASE InitServerExits
    BY <1>2, <1>c DEF InitServerExits, servVars, Running
<1>3. CASE Listen
    BY <1>3, <1>d DEF Listen, servVars
<1>4. CASE ListenFails
    BY <1>4, <1>c DEF ListenFails, servVars
<1>5. CASE \E c \in Conns : AcceptConn(c)
    BY <1>5, <1>d DEF AcceptConn, Accepting
<1>6. CASE AcceptInterrupted
    BY <1>6, <1>d DEF AcceptInterrupted, Accepting, fsmVars
<1>7. CASE AcceptFails
    BY <1>7, <1>c DEF AcceptFails
<1>8. ASSUME Receiving PROVE content = Null /\ ~err /\ Running /\ to = "ACCEPT_REQUEST"
    BY <1>8 DEF Receiving, IInv, ControlInv, TruthInv
<1>9. ASSUME NEW r, Receiving, FinishAccept(r) PROVE TruthInv'
  <2>1. to' \notin {"BUILD_RESPONSE", "SEND_RESPONSE"}
      BY <1>9 DEF FinishAccept, MethodState
  <2> QED
      BY <1>8, <1>9, <2>1 DEF FinishAccept, TruthInv
<1>10. ASSUME Receiving, KeepReading PROVE TruthInv'
    BY <1>8, <1>10, <1>d DEF KeepReading, fsmVars
<1>11. CASE \E r \in Requests : ReadWhole(r) \/ ReadHead(r)
    BY <1>9, <1>10, <1>11 DEF ReadWhole, ReadHead
<1>12. CASE ReadTail
    BY <1>9, <1>10, <1>12 DEF ReadTail
<1>13. CASE ReadEof
  <2>1. CASE AcceptAnother
      BY <1>8, <1>13, <2>1, <1>d DEF AcceptAnother, servVars, ReadEof
  <2> QED
      BY <1>9, <1>13, <2>1 DEF ReadEof
<1>14. CASE ReadFails
    BY <1>14, <1>c DEF ReadFails, servVars
<1>15. ASSUME Crash PROVE TruthInv'
    BY <1>15, <1>c DEF Crash, servVars, Running
<1>16. CASE ParseCrashes \/ GetCrashes \/ DumpCrashes \/ PostCrashes
               \/ NotFoundCrashes \/ SendCrashes \/ Kill
    BY <1>15, <1>16 DEF ParseCrashes, GetCrashes, DumpCrashes, PostCrashes, NotFoundCrashes,
                      SendCrashes, Kill
<1>17. CASE HttpGet
  <2>1. /\ UNCHANGED <<proc, request, response, store>> /\ to = "HTTP_GET" /\ to' = "BUILD_RESPONSE"
        /\ (err => err' /\ content' = content) /\ Running
      BY <1>17 DEF HttpGet
  <2>2. response' # Null => response'.body # JunkPage
      BY <2>1 DEF TruthInv
  <2>3. CASE err
      BY <2>1, <2>3, <1>c
  <2>4. CASE ~err
    <3>1. InService /\ request.method = "GET" /\ content = Null /\ content # JunkPage
        BY <2>1, <2>4 DEF InService, Served, IInv, RequestInv, TruthInv
    <3>2. content' # JunkPage
      <4>1. request \in Requests /\ DescriptorInv
          BY <3>1 DEF IInv, RequestInv
      <4>2. CASE request.kind = "page" /\ GetPage
          BY <3>1, <4>1, <4>2, NameFacts, HtmlFacts DEF GetPage
      <4>3. CASE GetPartOfList
          BY <4>3 DEF GetPartOfList, JunkPage
      <4>4. CASE request.kind = "query" /\ GetQuery
          BY <1>0, <1>17, <2>1, <2>4, <3>1, <4>4, GetTruth DEF GetQuery
      <4> QED
          BY <1>17, <2>4, <3>1, <4>2, <4>3, <4>4 DEF HttpGet
    <3>3. CASE err'
        BY <2>1, <2>2, <3>2, <3>3 DEF TruthInv, InService
    <3>4. CASE ~err'
      <4>1. /\ UNCHANGED <<fds, store>>
            /\ error' = "ERROR_404" /\ request.name \notin Overrun => Absent(request) \/ fds >= FdLimit
          BY <1>17, <2>1, <3>1, <3>4, GetTruth
      <4>2. Absent(request)' = Absent(request)
          BY <2>1 DEF Absent, Listed
      <4> QED
          BY <2>1, <2>2, <3>1, <3>2, <4>1, <4>2 DEF TruthInv
    <3> QED
        BY <3>3, <3>4
  <2> QED
      BY <2>3, <2>4
<1>18. CASE HttpPost
  <2>1. /\ UNCHANGED <<proc, request, response, content>> /\ to = "HTTP_POST" /\ Running
        /\ (err' = err \/ err' = TRUE) /\ to' \in {"BUILD_RESPONSE", "ERROR_404"}
      BY <1>18 DEF HttpPost, PostQuery
  <2>2. CASE err'
      BY <2>1, <2>2, <1>c
  <2>3. CASE ~err'
    <3>1. InService /\ request.method = "POST" /\ content = Null
        BY <2>1, <2>3 DEF InService, Served, IInv, RequestInv, TruthInv
    <3> QED
        BY <2>1, <3>1 DEF TruthInv
  <2> QED
      BY <2>2, <2>3
<1>19. CASE BuildResponse
  <2>1. /\ UNCHANGED <<proc, request, error, store>> /\ to' = "SEND_RESPONSE"
        /\ to \in {"BUILD_RESPONSE", "ERROR_404", "ERROR_500"} /\ Running
      BY <1>19 DEF BuildResponse
  <2>2. CASE err
    <3>1. err' /\ UNCHANGED <<response, content>>
        BY <1>19, <2>2 DEF BuildResponse
    <3> QED
        BY <3>1, <1>c
  <2>3. CASE ~err
    <3>1. to = "BUILD_RESPONSE" /\ InService /\ request \in Requests
        BY <2>1, <2>3 DEF IInv, ControlInv, Legal, InService, Served, RequestInv
    <3>2. response' = [status |-> StatusOf(error), body |-> content']
        BY <1>19, <2>3 DEF BuildResponse
    <3>3. DescriptorInv /\ content # JunkPage /\ Page404 \in PageNames /\ error \in {"none", "ERROR_404"}
        BY <2>3, ServerAssumption DEF ServerAssumption, IInv, TruthInv, AnswerInv
    <3>4. CASE error = "ERROR_404" /\ Get404Page
      <4>1. PICK o \in HtmlOutcomes(Page404) :
                GetHtml(Page404, o) /\ err' = (o \in {"missing", "unreadable"})
          BY <3>4 DEF Get404Page
      <4>2. content' # JunkPage /\ o \in {"opened", "missing"} /\ UNCHANGED fds
          BY <3>3, <4>1, HtmlFacts
      <4>3. CASE o = "missing"
          BY <2>1, <3>2, <4>1, <4>2, <4>3, <1>0 DEF TruthInv, InService
      <4>4. CASE o = "opened"
        <5>1. content' = NotFoundBody /\ fds < FdLimit
            BY <3>3, <4>1, <4>4, HtmlFacts DEF NotFoundBody, HtmlOutcomes
        <5>2. request.method # "POST"
            BY <3>1, <3>4 DEF IInv, AnswerInv, Right, StatusOf
        <5>3. request.method = "GET" /\ request.name \notin Overrun => Absent(request)
            BY <3>1, <3>3, <3>4, <5>1, ServerAssumption
            DEF ServerAssumption, TruthInv, DescriptorInv
        <5>4. Absent(request)' = Absent(request)
            BY <2>1 DEF Absent, Listed
        <5>5. Truthful(request, response.status, response.body)'
            BY <2>1, <3>2, <5>1, <5>2, <5>3, <5>4 DEF Truthful
        <5> QED
            BY <2>1, <3>2, <4>2, <5>5 DEF TruthInv
      <4> QED
          BY <4>2, <4>3, <4>4
    <3>5. CASE error = "none" /\ UNCHANGED <<err, content, fds>>
      <4>1. response'.status = "200" /\ response'.body = content
          BY <3>2, <3>5 DEF StatusOf
      <4>2. request.method = "POST" => content = Null
          BY <3>1 DEF TruthInv
      <4>3. Truthful(request, response.status, response.body)'
          BY <2>1, <4>1, <4>2 DEF Truthful
      <4> QED
          BY <2>1, <3>3, <3>5, <4>1, <4>3 DEF TruthInv
    <3> QED
        BY <1>19, <2>3, <3>3, <3>4, <3>5 DEF BuildResponse
  <2> QED
      BY <2>2, <2>3
<1>20. CASE SendResponse
  <2>1. /\ UNCHANGED <<proc, content>> /\ to' = "SERVER_INIT" /\ response' \in {response, Null}
      BY <1>20 DEF SendResponse, WriteResponse, WriteFails
  <2> QED
      BY <2>1 DEF TruthInv, InService, Served
<1>21. CASE Exit \/ BadChange
    BY <1>21, <1>c DEF Exit, BadChange, servVars, Running
<1>22. CASE UNCHANGED vars
    BY <1>22, <1>b DEF vars, fsmVars, servVars
<1> QED
    BY <1>1, <1>2, <1>3, <1>4, <1>5, <1>6, <1>7, <1>11, <1>12, <1>13, <1>14, <1>16,
       <1>17, <1>18, <1>19, <1>20, <1>21, <1>22
    DEF Next, ServerStep, EnvironmentStep

(* The layers of ServerProofs and TruthInv together. *)
LEMMA Truth ==
    ASSUME ReadsSucceed
    PROVE  Spec => [](IInv /\ TruthInv)
<1>1. Init => TruthInv
    BY TruthInit
<1>2. IInv /\ TruthInv /\ [Next]_vars => TruthInv'
    BY TruthStep
<1> QED
    BY <1>1, <1>2, Invariance, PTL DEF Spec

(* A GET is answered with 404, and the page of a 404, only for what is not  *)
(* there: neither when the process has run out of descriptors nor when an   *)
(* error is pending.                                                       *)
THEOREM NotFound ==
    ASSUME ReadsSucceed
    PROVE  Spec => []NotFoundIsAbsent
<1>1. IInv /\ TruthInv => NotFoundIsAbsent
  <2> SUFFICES ASSUME IInv, TruthInv, Answering, request.method = "GET",
                      response.status = "404", request.name \notin Overrun
               PROVE  response.body = NotFoundBody /\ Absent(request)
      BY DEF NotFoundIsAbsent, NotFoundBody, Absent
  <2>1. InService /\ to = "SEND_RESPONSE"
      BY DEF Answering, Handling, Fsm!At, InService, Served
  <2> QED
      BY <2>1 DEF TruthInv, Truthful
<1> QED
    BY <1>1, Truth, PTL

-----------------------------------------------------------------------------
(* No pair is stored under a name that was read past its end. *)
NoJunkKey == store[Junk] = Null

LEMMA StoreStep ==
    ASSUME StringsEnd
    PROVE  IInv /\ NoJunkKey /\ [Next]_vars => NoJunkKey'
<1> SUFFICES ASSUME IInv, NoJunkKey, [Next]_vars PROVE NoJunkKey'
    OBVIOUS
<1>1. CASE HttpPost
  <2>1. CASE ~err /\ request.kind = "query" /\ PostQuery
    <3>1. request \in Requests
        BY <1>1, <2>1 DEF HttpPost, Handling, Fsm!At, IInv, RequestInv, InService, Served
    <3>2. request.name # Junk
        BY <2>1, <3>1, NameFacts, ServerAssumption DEF ServerAssumption
    <3>3. \/ UNCHANGED store
          \/ \E v \in AsRead(request.value) : store' = [store EXCEPT ![request.name] = v]
        BY <2>1 DEF PostQuery, AsRead, StringsEnd
    <3> QED
        BY <3>2, <3>3 DEF NoJunkKey, IInv, DataOK, StoredNames
  <2> QED
      BY <1>1, <2>1 DEF HttpPost, NoJunkKey
<1>2. CASE ~HttpPost
  <2>1. ASSUME NEW r, FinishAccept(r) \/ KeepReading PROVE UNCHANGED store
      BY <2>1 DEF FinishAccept, KeepReading
  <2>2. ASSUME Crash \/ AcceptAnother PROVE UNCHANGED store
      BY <2>2 DEF Crash, AcceptAnother
  <2>3. ASSUME EnvironmentStep PROVE UNCHANGED store
      BY <2>1, <2>2, <2>3
      DEF EnvironmentStep, AcceptConn, AcceptInterrupted, AcceptFails, ReadWhole, ReadHead,
          ReadTail, ReadEof, ReadFails, ParseCrashes, Kill, Restart
  <2>4. ASSUME ServerStep PROVE UNCHANGED store
      BY <1>2, <2>2, <2>4
      DEF ServerStep, InitServer, InitServerOutOfMemory, InitServerExits, Listen, ListenFails,
          HttpGet, GetCrashes, DumpCrashes, PostCrashes, BuildResponse, NotFoundCrashes,
          SendResponse, SendCrashes, Exit, BadChange
  <2>5. UNCHANGED store
      BY <2>3, <2>4 DEF Next, vars
  <2> QED
      BY <2>5 DEF NoJunkKey
<1> QED
    BY <1>1, <1>2

(* What the abstract map has is what the file has. *)
LEMMA MapFacts ==
    ASSUME StringsEnd, DataOK, NoJunkKey
    PROVE  /\ BeaconMap!Names([k \in Keys |-> store[k]]) = Listed
           /\ \A k \in Keys : [j \in Keys |-> store[j]][k] = store[k]
           /\ Junk \notin Keys /\ DUMP \in Keys
BY ServerAssumption DEF ServerAssumption, BeaconMap!Names, Listed, NoJunkKey, StoredNames

(* The body of an answer with 200 is what the abstract map finds. *)
LEMMA FoundFacts ==
    ASSUME StringsEnd, IInv, NoJunkKey, NEW r \in Requests, NEW b \in Bodies,
           Holds(r, b), b # JunkPage
    PROVE  BeaconMap!Found([k \in Keys |-> store[k]], r) = b
<1> DEFINE s == [k \in Keys |-> store[k]]
<1>1. r.kind = "query" => r.name \in Keys
    BY NameFacts
<1>2. BeaconMap!Names(s) = Listed /\ \A k \in Keys : s[k] = store[k]
    BY MapFacts DEF IInv
<1>3. CASE r.kind = "query" /\ r.name = DUMP /\ Listed # {} /\ b = [kind |-> "list", item |-> Listed]
    BY <1>2, <1>3 DEF BeaconMap!Found
<1>4. CASE /\ r.kind = "query" /\ r.name # DUMP /\ store[r.name] # Null
           /\ b = [kind |-> "datum", item |-> store[r.name]]
    BY <1>1, <1>2, <1>4 DEF BeaconMap!Found
<1>5. CASE r.kind = "page" /\ r.name \in Pages /\ b \in [kind : {"page"}, item : {r.name, Junk}]
  <2>1. b = [kind |-> "page", item |-> r.name]
      BY <1>5 DEF JunkPage
  <2> QED
      BY <1>5, <2>1 DEF BeaconMap!Found
<1> QED
    BY <1>3, <1>4, <1>5 DEF Holds

LEMMA NotFoundFacts ==
    ASSUME StringsEnd, IInv, NoJunkKey, NEW r \in Requests, Absent(r)
    PROVE  BeaconMap!Found([k \in Keys |-> store[k]], r) = Null
<1> DEFINE s == [k \in Keys |-> store[k]]
<1>1. r.kind = "query" => r.name \in Keys
    BY NameFacts
<1>2. BeaconMap!Names(s) = Listed /\ \A k \in Keys : s[k] = store[k]
    BY MapFacts DEF IInv
<1> QED
    BY <1>1, <1>2 DEF Absent, BeaconMap!Found

(* What send_response writes is the answer of the abstract map. *)
LEMMA ReplyFacts ==
    ASSUME StringsEnd, IInv, TruthInv, NoJunkKey, InService, to = "SEND_RESPONSE"
    PROVE  BeaconMap!AnswerTo([k \in Keys |-> store[k]], request)
              = [request |-> request, status |-> response.status, body |-> response.body]
<1>1. /\ request \in Requests /\ request.method \in {"GET", "POST"} /\ response # Null
      /\ Right(request, response.status, response.body)
      /\ Truthful(request, response.status, response.body)
      /\ response.status \in {"200", "404"} /\ response.body # JunkPage
      /\ response \in Responses /\ request.name \notin Overrun
    BY DEF IInv, RequestInv, AnswerInv, TruthInv, DataOK, StringsEnd
<1>2. CASE request.method = "POST"
    BY <1>1, <1>2 DEF Right, Truthful, BeaconMap!AnswerTo
<1>3. CASE request.method = "GET" /\ response.status = "200"
  <2>1. Holds(request, response.body)
      BY <1>1, <1>3 DEF Right
  <2>2. response.body \in Bodies /\ response.body # Null
    <3>1. response.body \in Bodies \cup {Null}
        BY <1>1 DEF Responses
    <3>2. response.body # Null
      <4>1. [kind |-> "list", item |-> Listed] \in Bodies
          BY DEF Bodies, Listed
      <4>2. ASSUME NEW i \in {request.name, Junk}, request.kind = "page"
            PROVE  [kind |-> "page", item |-> i] \in Bodies
          BY <1>1, <4>2, NameFacts DEF Bodies
      <4>3. ASSUME request.kind = "query", store[request.name] # Null
            PROVE  [kind |-> "datum", item |-> store[request.name]] \in Bodies
          BY <1>1, <4>3, NameFacts DEF Bodies, Data, IInv, DataOK, StoredNames
      <4>4. CASE request.kind = "page"
        <5>1. PICK i \in {request.name, Junk} : response.body = [kind |-> "page", item |-> i]
            BY <2>1, <4>4 DEF Holds
        <5> QED
            BY <4>2, <4>4, <5>1, NullFacts
      <4>5. CASE request.kind = "query"
          BY <2>1, <4>1, <4>3, <4>5, NullFacts DEF Holds
      <4> QED
          BY <2>1, <4>4, <4>5 DEF Holds
    <3> QED
        BY <3>1, <3>2
  <2>3. BeaconMap!Found([k \in Keys |-> store[k]], request) = response.body
      BY <1>1, <2>1, <2>2, FoundFacts
  <2> QED
      BY <1>3, <2>2, <2>3 DEF BeaconMap!AnswerTo
<1>4. CASE request.method = "GET" /\ response.status = "404"
  <2>1. response.body = NotFoundBody /\ Absent(request)
      BY <1>1, <1>4 DEF Truthful
  <2>2. BeaconMap!Found([k \in Keys |-> store[k]], request) = Null
      BY <1>1, <2>1, NotFoundFacts
  <2> QED
      BY <1>4, <2>1, <2>2 DEF BeaconMap!AnswerTo, BeaconMap!NotFoundPage, NotFoundBody
<1> QED
    BY <1>1, <1>2, <1>3, <1>4

LEMMA MapInit == ASSUME StringsEnd PROVE Init => BeaconMap!Init /\ NoJunkKey
<1> SUFFICES ASSUME Init PROVE BeaconMap!Init /\ NoJunkKey
    OBVIOUS
<1>1. ~InService
    BY DEF Init, InService, Served, Fsm!Started
<1>2. \A k \in Keys : store[k] = Null
    BY DEF Init, StoredNames
<1>3. wire = Null /\ store[Junk] = Null
    BY DEF Init, StoredNames
<1> QED
    BY <1>1, <1>2, <1>3 DEF BeaconMap!Init, NoJunkKey

(* Every step of the server is a step of the abstract map or none: a       *)
(* request arrives when accept_request returns it, takes effect when its   *)
(* handler returns, is answered when send_response writes, and is given up *)
(* when an error is set or the process ends in between.                    *)
LEMMA MapStep ==
    ASSUME ReadsSucceed, StringsEnd
    PROVE  IInv /\ TruthInv /\ NoJunkKey /\ [Next]_vars => [BeaconMap!Next]_(BeaconMap!vars)
<1> SUFFICES ASSUME IInv, TruthInv, NoJunkKey, [Next]_vars
             PROVE  BeaconMap!Next \/ UNCHANGED BeaconMap!vars
    OBVIOUS
<1> DEFINE pending  == IF InService THEN request ELSE Null
           effected == InService /\ to \in {"BUILD_RESPONSE", "SEND_RESPONSE"}
           answer   == IF wire = Null THEN Null
                       ELSE [request |-> wire.request, status |-> wire.status,
                             body |-> wire.body]
<1>0. Null \notin Requests /\ (InService => request \in Requests)
    BY RequestFacts DEF IInv, RequestInv
<1>a. ASSUME UNCHANGED <<store, wire>>, ~InService' PROVE BeaconMap!Next \/ UNCHANGED BeaconMap!vars
  <2>1. CASE InService
      BY <1>0, <1>a, <2>1 DEF BeaconMap!Next, BeaconMap!GiveUp
  <2>2. CASE ~InService
      BY <1>a, <2>2 DEF BeaconMap!vars
  <2> QED
      BY <2>1, <2>2
<1>b. ASSUME UNCHANGED store, wire' = Null, ~InService, ~InService'
      PROVE  BeaconMap!Next \/ UNCHANGED BeaconMap!vars
    BY <1>b DEF BeaconMap!Next, BeaconMap!Refuse
<1>c. ASSUME UNCHANGED <<store, wire, request>>, InService' = InService, effected' = effected
      PROVE  UNCHANGED BeaconMap!vars
    BY <1>c DEF BeaconMap!vars
<1> USE DEF Goto, Fsm!Goto, Handling, Fsm!At
<1>1. CASE InitServer \/ InitServerOutOfMemory
    BY <1>1, <1>a DEF InitServer, InitServerOutOfMemory, InService, Served
<1>2. CASE InitServerExits \/ Listen \/ ListenFails
    BY <1>2, <1>a DEF InitServerExits, Listen, ListenFails, InService, Running, Served
<1>3. CASE (\E c \in Conns : AcceptConn(c)) \/ AcceptInterrupted \/ AcceptFails
    BY <1>3, <1>a
    DEF AcceptConn, AcceptInterrupted, AcceptFails, Accepting, InService, Served, fsmVars
<1>4. ASSUME Receiving PROVE ~err /\ Running /\ to = "ACCEPT_REQUEST" /\ ~InService
    BY <1>4 DEF Receiving, IInv, ControlInv, InService, Served
<1>5. ASSUME NEW r \in Requests \cup {Garbled}, Receiving, FinishAccept(r)
      PROVE  BeaconMap!Next \/ UNCHANGED BeaconMap!vars
  <2>1. CASE r.method \in {"GET", "POST"}
    <3>1. r \in Requests
        BY <2>1, RequestFacts
    <3>2. InService' /\ to' \in {"HTTP_GET", "HTTP_POST"} /\ request' = r /\ wire' = Null
        BY <1>4, <1>5, <2>1 DEF FinishAccept, MethodState, InService, Served, Running
    <3>3. pending = Null /\ pending' = r /\ ~effected' /\ answer' = Null /\ UNCHANGED store
        BY <1>4, <1>5, <3>2 DEF FinishAccept
    <3> QED
        BY <3>1, <3>3 DEF BeaconMap!Next, BeaconMap!Arrive
  <2>2. CASE r.method \notin {"GET", "POST"}
      BY <1>b, <1>4, <1>5, <2>2 DEF FinishAccept, MethodState, InService, Served
  <2> QED
      BY <2>1, <2>2
<1>6. ASSUME Receiving, KeepReading PROVE BeaconMap!Next \/ UNCHANGED BeaconMap!vars
    BY <1>a, <1>4, <1>6 DEF KeepReading, InService, Served, fsmVars
<1>7. CASE \E r \in Requests : ReadWhole(r) \/ ReadHead(r)
    BY <1>5, <1>6, <1>7 DEF ReadWhole, ReadHead
<1>8. CASE ReadTail
    BY <1>5, <1>6, <1>8 DEF ReadTail
<1>9. CASE ReadEof
  <2>1. CASE AcceptAnother
      BY <1>a, <1>4, <1>9, <2>1 DEF ReadEof, AcceptAnother, InService, Served
  <2>2. CASE request # Null /\ FinishAccept(request)
    <3>1. request \in Requests \cup {Garbled}
        BY <2>2 DEF IInv, RequestInv
    <3> QED
        BY <1>5, <1>9, <2>2, <3>1 DEF ReadEof
  <2> QED
      BY <1>9, <2>1, <2>2 DEF ReadEof
<1>10. CASE ReadFails
    BY <1>10, <1>a DEF ReadFails, InService
<1>11. ASSUME Crash PROVE BeaconMap!Next \/ UNCHANGED BeaconMap!vars
    BY <1>11, <1>a DEF Crash, InService, Running
<1>12. CASE ParseCrashes \/ GetCrashes \/ DumpCrashes \/ PostCrashes
               \/ NotFoundCrashes \/ SendCrashes \/ Kill
    BY <1>11, <1>12 DEF ParseCrashes, GetCrashes, DumpCrashes, PostCrashes, NotFoundCrashes,
                      SendCrashes, Kill
<1>13. CASE HttpGet
  <2>1. /\ UNCHANGED <<proc, request, store, wire>> /\ to = "HTTP_GET" /\ to' = "BUILD_RESPONSE"
        /\ (err => err') /\ err \in BOOLEAN /\ Running
      BY <1>13 DEF HttpGet, IInv, ControlInv
  <2>2. CASE err'
      BY <1>a, <2>1, <2>2 DEF InService
  <2>3. CASE ~err'
    <3>1. InService /\ InService' /\ request.method = "GET"
        BY <2>1, <2>3 DEF InService, Served, Running, IInv, RequestInv
    <3>2. /\ pending # Null /\ ~effected /\ effected' /\ pending.method = "GET"
          /\ UNCHANGED <<pending, answer, store>>
        BY <1>0, <2>1, <3>1
    <3> QED
        BY <3>2 DEF BeaconMap!Next, BeaconMap!TakeEffect
  <2> QED
      BY <2>2, <2>3
<1>14. CASE HttpPost
  <2>1. /\ UNCHANGED <<proc, request, wire>> /\ to = "HTTP_POST" /\ Running /\ err \in BOOLEAN
        /\ (err' = err \/ err' = TRUE)
      BY <1>14 DEF HttpPost, PostQuery, IInv, ControlInv
  <2>2. CASE err'
    <3>1. CASE UNCHANGED store
        BY <1>a, <2>1, <2>2, <3>1 DEF InService
    <3>2. CASE ~UNCHANGED store
        BY <1>14, <2>2, <3>2 DEF HttpPost, PostQuery
    <3> QED
        BY <3>1, <3>2
  <2>3. CASE ~err'
    <3>1. ~err /\ request.kind = "query" /\ PostQuery /\ to' = "BUILD_RESPONSE"
        BY <1>14, <2>1, <2>3 DEF HttpPost
    <3>2. InService /\ InService' /\ request.method = "POST" /\ request \in Requests
        BY <1>0, <2>1, <2>3, <3>1 DEF InService, Served, Running, IInv, RequestInv
    <3>3. store' = [store EXCEPT ![request.name] = request.value] /\ request.name \in Keys
        BY <2>3, <3>1, <3>2, NameFacts DEF PostQuery, AsRead, StringsEnd
    <3>4. [k \in Keys |-> store[k]]' = [[k \in Keys |-> store[k]] EXCEPT ![request.name] = request.value]
        BY <3>3 DEF IInv, DataOK, StoredNames
    <3>5. /\ pending # Null /\ ~effected /\ effected' /\ pending.method = "POST"
          /\ pending.kind = "query" /\ pending = request /\ UNCHANGED <<pending, answer>>
        BY <1>0, <2>1, <3>1, <3>2
    <3> QED
        BY <3>4, <3>5 DEF BeaconMap!Next, BeaconMap!TakeEffect
  <2> QED
      BY <2>2, <2>3
<1>15. CASE BuildResponse
  <2>1. /\ UNCHANGED <<proc, request, store, wire>> /\ to' = "SEND_RESPONSE" /\ Running
        /\ to \in {"BUILD_RESPONSE", "ERROR_404", "ERROR_500"}
      BY <1>15 DEF BuildResponse
  <2>2. err => err'
      BY <1>15, Zenon DEF BuildResponse
  <2>3. CASE err'
      BY <1>a, <2>1, <2>3 DEF InService
  <2>4. CASE ~err'
    <3>1. to = "BUILD_RESPONSE" /\ InService /\ InService'
        BY <2>1, <2>2, <2>4 DEF IInv, ControlInv, Legal, InService, Served, Running
    <3>2. effected' = effected
        BY <2>1, <3>1
    <3> QED
        BY <1>c, <2>1, <3>1, <3>2
  <2> QED
      BY <2>3, <2>4
<1>16. CASE SendResponse
  <2>1. UNCHANGED <<proc, store>> /\ to = "SEND_RESPONSE" /\ to' = "SERVER_INIT" /\ Running
      BY <1>16 DEF SendResponse
  <2>2. ~InService'
      BY <2>1 DEF InService, Served
  <2>3. CASE err \/ WriteFails
      BY <1>a, <1>16, <2>1, <2>2, <2>3 DEF SendResponse, WriteFails
  <2>4. CASE ~err /\ WriteResponse
    <3>1. InService
        BY <2>1, <2>4 DEF InService, Served
    <3>2. BeaconMap!AnswerTo([k \in Keys |-> store[k]], request)
              = [request |-> request, status |-> response.status, body |-> response.body]
        BY <2>1, <3>1, ReplyFacts
    <3>3. wire' \in Answers
      <4>1. response \in Responses /\ request \in RequestType /\ client_socket_fd \in Conns
          BY <1>0, <2>1, <3>1, ServerAssumption
          DEF ServerAssumption, IInv, AnswerInv, RequestInv, DataOK
      <4> QED
          BY <2>4, <4>1 DEF WriteResponse, Answers, Responses
    <3>4. answer' = [request |-> request, status |-> response.status, body |-> response.body]
        BY <2>4, <3>3, NullFacts DEF WriteResponse
    <3>5. /\ pending # Null /\ effected /\ pending = request /\ pending' = Null /\ ~effected'
          /\ UNCHANGED store
        BY <1>0, <2>1, <2>2, <3>1
    <3> QED
        BY <3>2, <3>4, <3>5 DEF BeaconMap!Next, BeaconMap!Reply
  <2> QED
      BY <1>16, <2>3, <2>4 DEF SendResponse
<1>17. CASE Exit \/ BadChange
    BY <1>17, <1>a DEF Exit, BadChange, InService, Running
<1>18. CASE Restart
    BY <1>18, <1>b DEF Restart, InService, Served
<1>19. CASE UNCHANGED vars
    BY <1>19, <1>c DEF vars, fsmVars, servVars, InService, Running
<1> QED
    BY <1>1, <1>2, <1>3, <1>7, <1>8, <1>9, <1>10, <1>12, <1>13, <1>14, <1>15, <1>16,
       <1>17, <1>18, <1>19
    DEF Next, ServerStep, EnvironmentStep

(* Whatever else fails and whenever the process dies, peers see a map that *)
(* serves one request at a time: a request takes effect at one point       *)
(* between its arrival and its answer, and the answer is right there.      *)
THEOREM Refinement ==
    ASSUME ReadsSucceed, StringsEnd
    PROVE  Spec => ImplementsBeaconStore
<1>1. Init => BeaconMap!Init /\ NoJunkKey
    BY MapInit
<1>2. IInv /\ NoJunkKey /\ [Next]_vars => NoJunkKey'
    BY StoreStep
<1>3. IInv /\ TruthInv /\ NoJunkKey /\ [Next]_vars => [BeaconMap!Next]_(BeaconMap!vars)
    BY MapStep
<1> QED
    BY <1>1, <1>2, <1>3, Truth, PTL DEF Spec, ImplementsBeaconStore, BeaconMap!Spec
==============================================================================
