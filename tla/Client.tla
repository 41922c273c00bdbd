------------------------------- MODULE Client --------------------------------
(***************************************************************************)
(* The ibeacon client (src/ncurse_cli.c, src/client.c, the response half   *)
(* of src/http/): a state machine of dc_fsm_run that asks the server for   *)
(* the list of beacons, lets the user pick a name, asks for that beacon    *)
(* and shows it.  Each request has a connection of its own, and each state *)
(* function that sends one is cut where it blocks in dc_read.              *)
(*                                                                         *)
(* The server's side of a connection is the environment: it answers a GET  *)
(* once, in one piece or in several, and it only closes when its process   *)
(* ends, which a PUT makes it do.                                          *)
(***************************************************************************)
EXTENDS Integers, Sequences, FiniteSets

CONSTANTS
    Keys,        \* names of beacons
    Cut,         \* the last name of a list without its last two characters
    DUMP,        \* the key that asks for the list
    LongNames,   \* names that overrun the URL build_request allocates
    Faults,      \* what may fail in this instance
    Null         \* a pointer that was not set

FaultKinds == {"getaddrinfo", "connect", "write", "read", "split", "stray",
               "overrun", "close"}

Names == Keys \cup {Cut}

Requests == [method : {"GET", "PUT"}, key : Names \cup {DUMP}]

(* The bodies of answers: the list of beacons, a datum, the page of a 404. *)
ListOf(names) == [kind |-> "list", keys |-> names]
DatumOf(k)    == [kind |-> "datum", keys |-> {k}]
NotFoundPage  == [kind |-> "page", keys |-> {}]
Bodies == {ListOf(names) : names \in SUBSET Keys} \cup {DatumOf(k) : k \in Keys}
              \cup {NotFoundPage}

(* What one dc_read returns: a whole answer, its beginning, or a later     *)
(* part of it, which has no status line.                                   *)
Pieces == [part : {"whole", "head", "tail"}, body : Bodies]

(* What the parser makes of a later part, and of a whole answer when what   *)
(* lies behind the digits of Content-Length passes for more of them.       *)
Garbage == [part |-> "garbage", body |-> NotFoundPage]
Parsed == Pieces \cup {Garbage} \cup [part : {"misread"}, body : Bodies]

ASSUME ClientAssumption ==
    /\ DUMP \notin Names /\ Cut \notin Keys
    /\ LongNames \subseteq Names
    /\ Faults \subseteq FaultKinds
    /\ Null \notin Names \cup Parsed \cup Requests \cup {"GET", "PUT"}

StateIds == {"LANDPAGE", "GET_ALL", "SHOW_ALL", "GET_ONE", "SHOW_ONE", "ERROR"}

(* EXIT, ERROR_404 and ERROR_500 have rows as well, but no function returns *)
(* them; SHOW_ONE has one that ends the machine, which none returns either. *)
Transitions ==
    { <<"DC_FSM_INIT", "LANDPAGE">>, <<"LANDPAGE", "GET_ALL">>,
      <<"GET_ALL", "SHOW_ALL">>, <<"SHOW_ALL", "GET_ONE">>,
      <<"GET_ONE", "SHOW_ONE">> }

VARIABLES
    proc,        \* "running", "bad" after a bad change, or "crashed"
    from, to,    \* the pair of states of dc_fsm_run
    at,          \* "entry", or where the function waits: "read", "stale" for
                 \* the dc_read behind an error, or "quit"
    err,         \* dc_error_has_error(err)
    method,      \* client->userInput->method
    beacon_selection,
    request,     \* client->request
    response,    \* client->response: the piece it was parsed from
    data,        \* the buffer of the read loop: "unset", "zero" or "read"
    shown,       \* what showOneBeacon put on the screen
    inbox,       \* the pieces of the answer that are still to be read
    answered,    \* the server has written its answer
    closed       \* the server's end of the connection is closed

fsmVars == <<from, to, at>>
clientVars == <<method, beacon_selection, request, response, data, shown>>
netVars == <<inbox, answered, closed>>
vars == <<proc, fsmVars, err, clientVars, netVars>>

Fsm == INSTANCE DcFsm

-----------------------------------------------------------------------------
Running == proc = "running"
Handling(s) == Running /\ Fsm!At(s)
Goto(s) == Fsm!Goto(s) /\ at' = "entry"
CanFail(call) == call \in Faults

Crash ==
    /\ proc' = "crashed"
    /\ UNCHANGED <<fsmVars, err, clientVars, netVars>>

Init ==
    /\ proc = "running" /\ at = "entry" /\ Fsm!Started("LANDPAGE")
    /\ err = FALSE /\ method = Null /\ beacon_selection = Null
    /\ request = Null /\ response = Null /\ data = "unset" /\ shown = Null
    /\ inbox = <<>> /\ answered = FALSE /\ closed = FALSE

-----------------------------------------------------------------------------
(* Mutant: the choice does not leave landingPageOptions. *)
LandingPageForgetsMethod(m) ==
    /\ Handling("LANDPAGE")
    /\ Goto("GET_ALL")
    /\ UNCHANGED <<proc, err, clientVars, netVars>>

(* landingPage goes on to GET_ALL whatever landingPageOptions returns; only *)
(* the method remembers what the user pressed: 1 is a GET, 2 a PUT.        *)
LandingPage(m) ==
    /\ Handling("LANDPAGE")
    /\ method' = m
    /\ Goto("GET_ALL")
    /\ UNCHANGED <<proc, err, beacon_selection, request, response, data, shown,
                   netVars>>

(* initializeClient: a new connection, on which nothing has come yet. *)
Connected == inbox' = <<>> /\ answered' = FALSE /\ closed' = FALSE

(* initializeClient, build_request and send_request: a connection of its   *)
(* own for the request r, and the buffer the answer is read into.  With an *)
(* error the request is built all the same and nothing is sent, but the    *)
(* dc_read behind it is still called: on a socket that is not connected it *)
(* fails at once.  When only the write failed it waits on the connection   *)
(* nobody has a request from, and when the look-up of the host failed      *)
(* socket_fd is still the one before: at first whatever malloc left there, *)
(* then the connection of the first request.                               *)
Send(r, buffer) ==
    /\ request' = r /\ data' = buffer
    /\ \/ /\ Connected
          /\ at' = "read"
          /\ UNCHANGED <<from, to, err>>
       \/ /\ CanFail("connect")
          /\ err' = TRUE
          /\ Goto("ERROR")
          /\ UNCHANGED netVars
       \/ /\ \/ CanFail("write") /\ Connected
             \/ CanFail("getaddrinfo") /\ UNCHANGED netVars
          /\ err' = TRUE
          /\ at' = "stale"
          /\ UNCHANGED <<from, to>>

(* The dc_read behind an error returns, if it ever does: the loop ends for  *)
(* the error, whatever was read.                                           *)
ReadAfterError ==
    /\ Handling("GET_ALL") \/ Handling("GET_ONE")
    /\ at = "stale"
    /\ \/ UNCHANGED <<inbox, data>>
       \/ inbox # <<>> /\ inbox' = Tail(inbox) /\ data' = "read"
    /\ Goto("ERROR")
    /\ UNCHANGED <<proc, err, method, beacon_selection, request, response, shown,
                   answered, closed>>

GetAllSend ==
    /\ Handling("GET_ALL") /\ at = "entry"
    /\ Send([method |-> method, key |-> DUMP], "unset")
    /\ UNCHANGED <<proc, method, beacon_selection, response, shown>>

GetOneSend ==
    /\ Handling("GET_ONE") /\ at = "entry"
    /\ method' = "GET"
    /\ Send([method |-> "GET", key |-> beacon_selection], "zero")
    /\ UNCHANGED <<proc, beacon_selection, response, shown>>

(* The URL gets room for two pointers and four characters. *)
BuildRequestCrashes ==
    /\ Handling("GET_ONE") /\ at = "entry"
    /\ beacon_selection \in LongNames
    /\ Crash

(* The array of send_request is as long as its text: the zero byte behind   *)
(* it hits whatever is there (see HttpMessage).                            *)
SendRequestCrashes ==
    /\ Handling("GET_ALL") \/ Handling("GET_ONE")
    /\ at = "entry" /\ CanFail("overrun")
    /\ Crash

-----------------------------------------------------------------------------
Reading(s) == Handling(s) /\ at = "read"
InReadLoop == Reading("GET_ALL") \/ Reading("GET_ONE")

(* What parse_http_response may yield for a piece, or for the piece it has  *)
(* parsed before.  It finds neither a status line nor header lines in a    *)
(* later part.  Of Content-Length it copies the digits without an end, so  *)
(* strtol stops at what the allocator left behind them.                    *)
Parses(piece) ==
    CASE piece.part \in {"tail", "garbage"} -> {Garbage}
      [] piece.part = "head" -> {piece}
      [] OTHER -> {[piece EXCEPT !.part = part] :
                     part \in {"whole"} \cup (IF CanFail("stray") THEN {"misread"} ELSE {})}

(* dc_read takes a piece off the connection, and the parser survives it. *)
TakePiece ==
    /\ inbox # <<>>
    /\ inbox' = Tail(inbox)
    /\ response' \in Parses(Head(inbox)) /\ data' = "read"
    /\ UNCHANGED <<proc, err, method, beacon_selection, request, shown, answered,
                   closed>>

ReadOn == UNCHANGED fsmVars

(* The Content-Length of the response is not what the server sent. *)
Misread == response # Null /\ response.part = "misread"

(* The parser looks for lines that a part of an answer does not have, and   *)
(* with a misread length the loop looks far in front of its buffer.        *)
ParseCrashes ==
    /\ InReadLoop
    /\ inbox # <<>>
    /\ Head(inbox).part # "whole" \/ CanFail("stray")
    /\ Crash

(* getAllListOfBeacons counts back from the end of what was read: strlen is *)
(* Content-Length when the byte behind happens to be zero, and data was     *)
(* never initialised.  Whether the answer is complete makes no difference.  *)
GetAllRead ==
    /\ Reading("GET_ALL")
    /\ TakePiece
    /\ Goto("SHOW_ALL") \/ ReadOn

(* Mutant: the length is compared as it is in getAllListOfBeacons. *)
GetOneReadAsAll ==
    /\ Reading("GET_ONE")
    /\ TakePiece
    /\ ReadOn

(* getOneBeacon adds one, since Content-Length counts the zero byte at the  *)
(* end of a datum, and its buffer is zero behind what was read.  A page is  *)
(* longer than the buffer, so the count starts somewhere in front of it; a  *)
(* misread length may be, too.  After the loop the buffer is parsed again.  *)
GetOneRead ==
    /\ Reading("GET_ONE")
    /\ TakePiece
    /\ \/ /\ \/ Head(inbox).part # "head" \/ Head(inbox).body = NotFoundPage
             \/ CanFail("stray")
          /\ Goto("SHOW_ONE")
       \/ (Head(inbox).part # "whole" \/ Misread') /\ ReadOn

AtEof == inbox = <<>> /\ closed

(* Mutant: the loop looks for an error only, not for the end. *)
GetAllEofReadsOn == Reading("GET_ALL") /\ AtEof /\ UNCHANGED vars

(* read returned 0: no error, so the list is shown, whatever response is. *)
GetAllEof ==
    /\ Reading("GET_ALL") /\ AtEof
    /\ Goto("SHOW_ALL")
    /\ UNCHANGED <<proc, err, clientVars, netVars>>

(* Mutant: the buffer is not parsed once more after the loop. *)
GetOneEofKeepsResponse ==
    /\ Reading("GET_ONE") /\ AtEof
    /\ Goto("SHOW_ONE")
    /\ UNCHANGED <<proc, err, clientVars, netVars>>

(* getOneBeacon parses the buffer once more; nothing but zeros in it has no *)
(* status line.                                                            *)
GetOneEof ==
    /\ Reading("GET_ONE") /\ AtEof
    /\ IF data = "zero"
         THEN Crash
         ELSE /\ response' \in Parses(response)
              /\ Goto("SHOW_ONE")
              /\ UNCHANGED <<proc, err, method, beacon_selection, request, data,
                             shown, netVars>>

(* Mutant: getAllListOfBeacons returns SHOW_ALL without asking for err. *)
ReadFailsUnnoticed ==
    /\ InReadLoop /\ CanFail("read")
    /\ err' = TRUE
    /\ Goto(IF Reading("GET_ALL") THEN "SHOW_ALL" ELSE "ERROR")
    /\ UNCHANGED <<proc, clientVars, netVars>>

(* The connection was reset, or SIGINT interrupted the read. *)
ReadFails ==
    /\ InReadLoop /\ CanFail("read")
    /\ err' = TRUE
    /\ Goto("ERROR")
    /\ UNCHANGED <<proc, clientVars, netVars>>

-----------------------------------------------------------------------------
(***************************************************************************)
(* showAllBeacons, whose loop and prompt are the module BeaconList: of a   *)
(* whole list all names but the last can be chosen, and the last one cut.  *)
(* Of less than a list it reads on into the heap and may find any name.    *)
(***************************************************************************)
Offered ==
    IF response.part # "whole" THEN Names
    ELSE {Cut} \cup UNION {response.body.keys \ {last} : last \in response.body.keys}

ShowAll(name) ==
    /\ Handling("SHOW_ALL")
    /\ response # Null
    /\ name \in Offered
    /\ beacon_selection' = name
    /\ Goto("GET_ONE")
    /\ UNCHANGED <<proc, err, method, request, response, data, shown, netVars>>

(* Without an answer response is what malloc left there, and whatever the  *)
(* user types is copied over the end of the selection.                     *)
ShowAllCrashes == Handling("SHOW_ALL") /\ Crash

(* showOneBeacon, up to the loop that waits for the user to press q. *)
ShowOne ==
    /\ Handling("SHOW_ONE") /\ at = "entry"
    /\ shown' = response
    /\ at' = "quit"
    /\ UNCHANGED <<proc, from, to, err, method, beacon_selection, request,
                   response, data, netVars>>

(* It copies Content-Length bytes of content that may be shorter. *)
ShowOneCrashes ==
    /\ Handling("SHOW_ONE") /\ at = "entry"
    /\ response.part # "whole"
    /\ Crash

Quit ==
    /\ Handling("SHOW_ONE") /\ at = "quit"
    /\ Goto("LANDPAGE")
    /\ UNCHANGED <<proc, err, clientVars, netVars>>

(* SHOW_ONE to LANDPAGE and all pairs with ERROR are missing in the table,  *)
(* which has no end marker either.                                         *)
BadChange ==
    /\ Running /\ Fsm!Missed
    /\ proc' \in {"bad", "crashed"}
    /\ UNCHANGED <<fsmVars, err, clientVars, netVars>>

-----------------------------------------------------------------------------
(* The server's end of the connection. *)
Waiting == Running /\ at = "read" /\ ~answered /\ ~closed

(* What it may find: lists are never empty. *)
AnswersTo(r) ==
    {NotFoundPage} \cup
        (IF r.key = DUMP THEN {ListOf(names) : names \in (SUBSET Keys) \ {{}}}
                         ELSE {DatumOf(k) : k \in {r.key} \cap Keys})

(* dc_read takes at most 1024 bytes, which the page of a 404 exceeds, and  *)
(* fewer when TCP delivers fewer.                                          *)
Cuttings(body) ==
    LET piece(part) == [part |-> part, body |-> body]
    IN  IF body = NotFoundPage
          THEN {<<piece("head"), piece("tail"), piece("tail")>>}
          ELSE {<<piece("whole")>>} \cup
               (IF CanFail("split") THEN {<<piece("head"), piece("tail")>>} ELSE {})

ServerAnswers(body) ==
    /\ Waiting /\ request.method = "GET"
    /\ answered' = TRUE
    /\ inbox' \in Cuttings(body)
    /\ UNCHANGED <<proc, fsmVars, err, clientVars, closed>>

ServerCloses ==
    /\ Running /\ at = "read" /\ ~closed
    /\ CanFail("close") \/ request.method = "PUT"
    /\ closed' = TRUE
    /\ UNCHANGED <<proc, fsmVars, err, clientVars, inbox, answered>>

-----------------------------------------------------------------------------
(* The steps the client takes by itself. *)
ClientStep ==
    \/ GetAllSend \/ GetOneSend \/ BuildRequestCrashes \/ SendRequestCrashes
    \/ GetAllRead \/ GetOneRead \/ ParseCrashes \/ GetAllEof \/ GetOneEof
    \/ ShowOne \/ ShowOneCrashes \/ BadChange

(* The steps that need the user, the network or the server. *)
EnvironmentStep ==
    \/ \E m \in {"GET", "PUT"} : LandingPage(m)
    \/ ReadFails \/ ReadAfterError
    \/ \E name \in Names : ShowAll(name)
    \/ ShowAllCrashes \/ Quit
    \/ Waiting /\ \E body \in AnswersTo(request) : ServerAnswers(body)
    \/ ServerCloses

Next == ClientStep \/ EnvironmentStep

Spec == Init /\ [][Next]_vars

(* The operating system schedules the process. *)
FairSpec == Spec /\ WF_vars(ClientStep)

-----------------------------------------------------------------------------
(* Every variable holds what its counterpart can hold. *)
TypeOK ==
    /\ proc \in {"running", "bad", "crashed"}
    /\ from \in StateIds \cup {"DC_FSM_INIT"} /\ to \in StateIds
    /\ at \in {"entry", "read", "stale", "quit"} /\ err \in BOOLEAN
    /\ method \in {"GET", "PUT", Null}
    /\ beacon_selection \in Names \cup {Null}
    /\ request \in Requests \cup {Null}
    /\ response \in Parsed \cup {Null}
    /\ data \in {"unset", "zero", "read"}
    /\ shown \in Parsed \cup {Null}
    /\ inbox \in Seq(Pieces) /\ answered \in BOOLEAN /\ closed \in BOOLEAN

(* What is shown is the datum of the beacon that was picked, or a part of   *)
(* it, or the page of a 404, or what the parser made of the rest of an      *)
(* answer: never the list that the first request left in client->response.  *)
ShownAnswersSelection ==
    shown # Null => shown.body \in {DatumOf(beacon_selection), NotFoundPage}

(* Nothing is shown with an error pending: no error of either request gets  *)
(* past the function that met it, although both return it as a state.      *)
NothingShownAfterError ==
    Running /\ to \in {"SHOW_ALL", "SHOW_ONE"} => ~err

(* The read loops end when the server ends: a client whose request was      *)
(* sent never outlives the server waiting for the answer.                  *)
WaitEndsWithServer == InReadLoop /\ closed ~> ~(InReadLoop /\ closed)

(* A datum that comes in one piece is recognised as complete and shown,     *)
(* although the server keeps the connection open, unless its length is     *)
(* misread: then the client may wait for more.                             *)
WholeDatumIsShown ==
    Reading("GET_ONE") /\ Len(inbox) = 1 /\ Head(inbox).part = "whole" /\ ~Misread
        ~> shown # Null \/ err \/ ~Running \/ Misread

(* The landing page tells the user that option 2 adds a beacon: it does not *)
(* ask for the list of beacons.                                            *)
AddIsNotAskingForList ==
    request # Null /\ request.method = "PUT" => request.key # DUMP
==============================================================================
