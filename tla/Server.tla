------------------------------- MODULE Server --------------------------------
(***************************************************************************)
(* The ibeacon server (src/server.c, src/db.c, the request half of         *)
(* src/http/): a single-threaded HTTP server in front of an ndbm file,     *)
(* written as a state machine that dc_fsm_run drives.  One round of the    *)
(* machine opens the data base, listens, accepts one connection, reads one *)
(* request, answers it, and starts over.                                   *)
(*                                                                         *)
(* Every state function is one action, except accept_request, which blocks *)
(* twice and is cut where it does.  The environment (the peer, the kernel, *)
(* the operator) chooses the inputs; Faults says which calls it may fail.  *)
(***************************************************************************)
EXTENDS Integers, FiniteSets

CONSTANTS
    Keys,        \* beacon names that occur in queries
    Values,      \* beacon data that occur in queries
    DUMP,        \* the key that asks for the list of all beacons
    Junk,        \* a name or a datum read past its end, with what lies behind
    Overrun,     \* the names and data parse_query leaves without an end
    PageNames,   \* file names that occur in URLs
    Pages,       \* those that get_html finds under html/
    Page404,     \* 404.html
    Requests,    \* the requests peers send
    Conns,       \* connections, as the values of client_socket_fd
    FdLimit,     \* descriptors a process may hold
    DbmFds,      \* descriptors one open DBM holds
    MaxListed,   \* beacons that fit in the 1024 bytes of http_get's buffer
    Faults,      \* the calls that may fail in this instance
    Null         \* a null pointer, an empty datum, the descriptor -1

Methods == {"GET", "POST", "PUT", "garbled"}

(* A parsed request: its method, what its URL is, the key (or the file     *)
(* name) and the value in the URL, whether the URL has the '/' (and that of *)
(* a page the 'l' behind it) that get_html looks for, and whether the       *)
(* request line is longer than the REQ_LINE_BUFF bytes parse_http_request  *)
(* copies it into.  A "torn" query has its '=' in front of the '?'.        *)
RequestType ==
    [method : Methods, kind : {"query", "torn", "page", "other"},
     name : Keys \cup PageNames \cup {Null}, value : Values \cup {Null},
     slash : BOOLEAN, oversize : BOOLEAN]

(* What the parser makes of bytes that do not start with a request line. *)
Garbled == [method |-> "garbled", kind |-> "other", name |-> Null,
            value |-> Null, slash |-> FALSE, oversize |-> FALSE]

FaultKinds == {"malloc", "getaddrinfo", "open", "socket", "bind", "accept",
               "read", "split", "html", "fetch", "store", "write", "kill"}

StoredNames == Keys \cup {Junk}
StoredData  == Values \cup {Junk}

(* The bodies of responses: a datum, a page, or the list of beacons. *)
Data == [kind : {"datum"}, item : StoredData]
Bodies ==
    Data \cup [kind : {"page"}, item : PageNames \cup {Junk}]
        \cup [kind : {"list"}, item : SUBSET StoredNames]

Statuses == {"200", "404", "500"}
Responses == [status : Statuses, body : Bodies \cup {Null}]
Answers == [conn : Conns, request : RequestType,
            status : Statuses, body : Bodies \cup {Null}]

ASSUME ServerAssumption ==
    /\ DUMP \in Keys /\ Page404 \in PageNames /\ Pages \subseteq PageNames
    /\ Junk \notin Keys \cup Values \cup PageNames
    /\ Overrun \subseteq (Keys \cup Values) \ {DUMP}
    /\ Requests \subseteq RequestType
    /\ \A r \in Requests : /\ r.method # "garbled"
                           /\ r.kind = "query" => r.name \in Keys /\ r.value \in Values
                           /\ r.kind = "page" => r.name \in PageNames
    /\ FdLimit \in Nat /\ DbmFds \in Nat /\ MaxListed \in Nat
    /\ Faults \subseteq FaultKinds
    /\ Null \notin Keys \cup Values \cup {Junk} \cup PageNames \cup Conns
    /\ Null \notin RequestType \cup Bodies \cup Responses \cup Answers

StateIds == {"SERVER_INIT", "ACCEPT_REQUEST", "HTTP_GET", "HTTP_POST",
             "BUILD_RESPONSE", "SEND_RESPONSE", "ERROR_404", "ERROR_500"}

(* Values a state function returns: a state, or any other int. *)
AnyInt == StateIds \cup {"DC_FSM_INIT", "DC_FSM_EXIT", "OTHER"}

(* Mutant: the table has no row for a POST that was stored. *)
TransitionsWithoutPost ==
    { <<"DC_FSM_INIT", "SERVER_INIT">>,
      <<"SERVER_INIT", "ACCEPT_REQUEST">>, <<"ACCEPT_REQUEST", "HTTP_POST">>,
      <<"ACCEPT_REQUEST", "HTTP_GET">>, <<"HTTP_GET", "BUILD_RESPONSE">>,
      <<"BUILD_RESPONSE", "SEND_RESPONSE">>, <<"SEND_RESPONSE", "SERVER_INIT">> }

Transitions ==
    { <<"DC_FSM_INIT", "SERVER_INIT">>,
      <<"SERVER_INIT", "ACCEPT_REQUEST">>, <<"SERVER_INIT", "ERROR_500">>,
      <<"ACCEPT_REQUEST", "HTTP_POST">>, <<"ACCEPT_REQUEST", "HTTP_GET">>,
      <<"ACCEPT_REQUEST", "ERROR_500">>,
      <<"HTTP_POST", "BUILD_RESPONSE">>, <<"HTTP_POST", "ERROR_500">>,
      <<"HTTP_GET", "BUILD_RESPONSE">>, <<"HTTP_GET", "ERROR_404">>,
      <<"ERROR_500", "BUILD_RESPONSE">>, <<"ERROR_404", "BUILD_RESPONSE">>,
      <<"BUILD_RESPONSE", "SEND_RESPONSE">>,
      <<"SEND_RESPONSE", "SERVER_INIT">> }

VARIABLES
    proc,        \* the process: "running", or how it ended
    from, to,    \* the pair of states of dc_fsm_run
    at,          \* where accept_request stands: "entry", "accept" or "recv"
    err,         \* dc_error_has_error(err)
    listening,   \* the listening socket is open
    fds,         \* descriptors the process holds
    db,          \* serv->db holds an open DBM
    client_socket_fd,
    request,     \* serv->request
    response,    \* serv->response
    error,       \* serv->error
    content,     \* serv->content and serv->fetched.dsize
    store,       \* the ndbm file
    sender,      \* history: the connection request was read from
    wire,        \* history: the response written to the current request
    served       \* history: requests answered since the process started

fsmVars == <<from, to, at>>
servVars == <<db, client_socket_fd, request, response, error, content, sender>>
vars == <<proc, fsmVars, err, listening, fds, servVars, store, wire, served>>

Fsm == INSTANCE DcFsm

-----------------------------------------------------------------------------
Running == proc = "running"

(* The function of state s is running, at its first line. *)
Handling(s) == Running /\ Fsm!At(s)

(* The state function returns s. *)
Goto(s) == Fsm!Goto(s) /\ at' = "entry"

CanFail(call) == call \in Faults

(* The process dies in the middle of a function. *)
Crash ==
    /\ proc' = "crashed"
    /\ UNCHANGED <<fsmVars, err, listening, fds, servVars, store, wire, served>>

(* accept_request returns a variable it never set: any int may come back. *)
ReturnUnset == \E s \in AnyInt : Goto(s)

(* The names and data a query of a URL is read as.  parse_query copies     *)
(* exactly as many bytes as it allocates and adds no terminator: strlen    *)
(* stops there only when the allocator left a zero byte behind.            *)
AsRead(s) == IF s \in Overrun THEN {s, Junk} ELSE {s}

(* The names dbm_firstkey and dbm_nextkey run through. *)
Listed == {k \in StoredNames : store[k] # Null}

-----------------------------------------------------------------------------
(* A process that main has just started, on an empty data base file.       *)
Init ==
    /\ store = [k \in StoredNames |-> Null]
    /\ proc = "running" /\ at = "entry" /\ Fsm!Started("SERVER_INIT")
    /\ err = FALSE /\ listening = FALSE /\ fds = 0
    /\ db = FALSE /\ client_socket_fd = Null
    /\ request = Null /\ response = Null /\ error = "none" /\ content = Null
    /\ sender = Null /\ wire = Null /\ served = 0

(***************************************************************************)
(* init_server: forgets the whole of *serv, whatever it still owned, and   *)
(* opens the data base once more.  It goes on to accept_request only with  *)
(* no error, old or new: initialize_database exits with status 5 when err  *)
(* is set by then, whichever call set it.                                  *)
(***************************************************************************)
(* Mutant: *serv is not cleared, only the pointers are. *)
InitServerKeepsError ==
    /\ Handling("SERVER_INIT")
    /\ ~err /\ fds + DbmFds <= FdLimit
    /\ db' = TRUE /\ fds' = fds + DbmFds
    /\ client_socket_fd' = Null /\ request' = Null /\ response' = Null
    /\ content' = Null /\ sender' = Null
    /\ Goto("ACCEPT_REQUEST")
    /\ UNCHANGED <<proc, err, listening, error, store, wire, served>>

InitServer ==
    /\ Handling("SERVER_INIT")
    /\ ~err /\ fds + DbmFds <= FdLimit
    /\ db' = TRUE /\ fds' = fds + DbmFds
    /\ client_socket_fd' = Null /\ request' = Null /\ response' = Null
    /\ error' = "none" /\ content' = Null /\ sender' = Null
    /\ Goto("ACCEPT_REQUEST")
    /\ UNCHANGED <<proc, err, listening, store, wire, served>>

(* dc_malloc failed: initialize_database returns before the exit. *)
(* Mutant: the failed allocation leaves no error behind. *)
InitServerIgnoresMalloc ==
    /\ Handling("SERVER_INIT")
    /\ CanFail("malloc")
    /\ db' = FALSE /\ error' = "ERROR_500"
    /\ client_socket_fd' = Null /\ request' = Null /\ response' = Null
    /\ content' = Null /\ sender' = Null
    /\ Goto("ERROR_500")
    /\ UNCHANGED <<proc, err, listening, fds, store, wire, served>>

InitServerOutOfMemory ==
    /\ Handling("SERVER_INIT")
    /\ CanFail("malloc")
    /\ err' = TRUE /\ db' = FALSE /\ error' = "ERROR_500"
    /\ client_socket_fd' = Null /\ request' = Null /\ response' = Null
    /\ content' = Null /\ sender' = Null
    /\ Goto("ERROR_500")
    /\ UNCHANGED <<proc, listening, fds, store, wire, served>>

InitServerExits ==
    /\ Handling("SERVER_INIT")
    /\ \/ err
       \/ CanFail("getaddrinfo") \/ CanFail("open")
       \/ fds + DbmFds > FdLimit
    /\ proc' = "exit5"
    /\ UNCHANGED <<fsmVars, err, listening, fds, servVars, store, wire, served>>

-----------------------------------------------------------------------------
(***************************************************************************)
(* accept_request, up to dc_accept: a listening socket of its own for      *)
(* every round.  The look-up asks for PF_INET, so the two branches for     *)
(* another address family are never taken.                                 *)
(***************************************************************************)
Listen ==
    /\ Handling("ACCEPT_REQUEST") /\ at = "entry"
    /\ ~err /\ fds < FdLimit
    /\ fds' = fds + 1 /\ listening' = TRUE /\ at' = "accept"
    /\ UNCHANGED <<proc, from, to, err, servVars, store, wire, served>>

ListenFails ==
    /\ Handling("ACCEPT_REQUEST") /\ at = "entry"
    /\ \/ /\ err \/ CanFail("socket") \/ fds >= FdLimit
          /\ UNCHANGED fds
       \/ /\ CanFail("bind") /\ fds < FdLimit
          /\ fds' = fds + 1
    /\ err' = TRUE
    /\ ReturnUnset
    /\ UNCHANGED <<proc, listening, servVars, store, wire, served>>

(* dc_accept returns the connection c. *)
Accepting == Handling("ACCEPT_REQUEST") /\ at = "accept"

AcceptConn(c) ==
    /\ Accepting
    /\ fds < FdLimit
    /\ client_socket_fd' = c /\ fds' = fds + 1 /\ at' = "recv"
    /\ UNCHANGED <<proc, from, to, err, listening, db, request, response,
                   error, content, sender, store, wire, served>>

(* SIGINT interrupts dc_accept.  quit_handler assigns to its parameter and *)
(* not to exit_flag, the error is reset, and the loop accepts again.       *)
AcceptInterrupted ==
    /\ Accepting
    /\ client_socket_fd' = Null
    /\ UNCHANGED <<proc, fsmVars, err, listening, fds, db, request, response,
                   error, content, sender, store, wire, served>>

(* Mutant: the loop goes on after any error, not only after EINTR. *)
AcceptIgnoresError ==
    /\ Accepting
    /\ CanFail("accept") \/ fds >= FdLimit
    /\ client_socket_fd' = Null /\ err' = TRUE
    /\ UNCHANGED <<proc, fsmVars, listening, fds, db, request, response, error,
                   content, sender, store, wire, served>>

AcceptFails ==
    /\ Accepting
    /\ CanFail("accept") \/ fds >= FdLimit
    /\ client_socket_fd' = Null /\ err' = TRUE
    /\ ReturnUnset
    /\ UNCHANGED <<proc, listening, fds, db, request, response, error, content,
                   sender, store, wire, served>>

-----------------------------------------------------------------------------
(* receive_data, and what accept_request does after it.  The connection is *)
(* read piece by piece, and every piece is parsed as if it were a request. *)
Receiving == Handling("ACCEPT_REQUEST") /\ at = "recv"

(* With a request and no error the loop ends (exit_flag is set to 1), the  *)
(* listening socket is closed and the method chooses the next state.       *)
MethodState(r) ==
    CASE r.method = "GET"  -> "HTTP_GET"
      [] r.method = "POST" -> "HTTP_POST"
      [] OTHER             -> "DC_FSM_EXIT"

(* Mutant: the connection is closed together with the listening socket. *)
FinishAcceptClosesBoth(r) ==
    /\ request' = r
    /\ listening' = FALSE /\ fds' = fds - 2
    /\ wire' = Null
    /\ Goto(MethodState(r))
    /\ UNCHANGED <<proc, err, db, client_socket_fd, response, error, content,
                   store, served>>

FinishAccept(r) ==
    /\ request' = r
    /\ listening' = FALSE /\ fds' = fds - 1
    /\ wire' = Null
    /\ Goto(MethodState(r))
    /\ UNCHANGED <<proc, err, db, client_socket_fd, response, error, content,
                   store, served>>

KeepReading ==
    UNCHANGED <<proc, fsmVars, err, listening, fds, db, client_socket_fd,
                response, error, content, store, wire, served>>

(* A whole request in one read: it ends with an empty line. *)
ReadWhole(r) ==
    /\ Receiving /\ request = Null
    /\ FinishAccept(r) /\ sender' = client_socket_fd

(* The first piece of a request that TCP delivers in several.  The parser  *)
(* runs on into what the buffer held before.                               *)
ReadHead(r) ==
    /\ Receiving /\ request = Null /\ CanFail("split")
    /\ request' \in {r, Garbled} /\ sender' = client_socket_fd
    /\ KeepReading

(* A later piece, parsed as a request of its own; it replaces the first.   *)
(* It ends the reading if the last four bytes are the end of a request.    *)
ReadTail ==
    /\ Receiving /\ request # Null
    /\ \/ FinishAccept(Garbled)
       \/ request' = Garbled /\ KeepReading
    /\ sender' = client_socket_fd

(* Back to dc_accept; the connection read from so far is dropped. *)
AcceptAnother ==
    /\ at' = "accept"
    /\ UNCHANGED <<proc, from, to, err, listening, fds, servVars, store, wire, served>>

(* Mutant: the end of a connection always leads to the next one. *)
ReadEofForgetsRequest ==
    /\ Receiving
    /\ \/ AcceptAnother
       \/ request # Null /\ FinishAccept(request) /\ UNCHANGED sender

(* The peer closed.  Without a request accept_request waits for the next   *)
(* connection and drops this one; with one it goes on.                     *)
ReadEof ==
    /\ Receiving
    /\ \/ request = Null /\ AcceptAnother
       \/ request # Null /\ FinishAccept(request) /\ UNCHANGED sender

(* The connection was reset, or SIGINT interrupted the read: here nobody   *)
(* resets the error, so it ends the loop and the return value is unset.    *)
(* Mutant: the loop of receive_data does not look at the error. *)
ReadIgnoresError ==
    /\ Receiving /\ CanFail("read")
    /\ err' = TRUE
    /\ UNCHANGED <<proc, fsmVars, listening, fds, servVars, store, wire, served>>

ReadFails ==
    /\ Receiving /\ CanFail("read")
    /\ err' = TRUE
    /\ ReturnUnset
    /\ UNCHANGED <<proc, listening, fds, servVars, store, wire, served>>

(* The parser runs off a piece of a request, or off request_line. *)
ParseCrashes ==
    /\ Receiving
    /\ CanFail("split") \/ \E r \in Requests : r.oversize
    /\ Crash

-----------------------------------------------------------------------------
(***************************************************************************)
(* get_html: opens and reads a page.  "opened" fills content, "trailed"    *)
(* too, with what chars, which nobody initialises, holds behind the page;  *)
(* "missing" is a failed dc_open (the name is copied without a terminator, *)
(* so it fails for pages that exist too); "unreadable" a failed dc_read,   *)
(* which leaves the file open.                                             *)
(***************************************************************************)
HtmlOutcomes(page) ==
    LET there == page \in Pages /\ fds < FdLimit
    IN  {o \in {"opened", "trailed", "missing", "unreadable"} :
           CASE o = "opened"  -> there
             [] o = "missing" -> ~there \/ CanFail("html")
             [] OTHER         -> there /\ CanFail("html")}

GetHtml(page, outcome) ==
    /\ content' = CASE outcome = "opened"  -> [kind |-> "page", item |-> page]
                    [] outcome = "trailed" -> [kind |-> "page", item |-> Junk]
                    [] OTHER               -> content
    /\ fds' = IF outcome = "unreadable" THEN fds + 1 ELSE fds

(* http_get on a page: only a failed open becomes a 404. *)
GetPage ==
    \E outcome \in HtmlOutcomes(request.name) :
        /\ GetHtml(request.name, outcome)
        /\ err' = (outcome = "unreadable")
        /\ error' = IF outcome = "missing" THEN "ERROR_404" ELSE error

(* Mutant: whether the result is empty is only asked of a datum. *)
QueryResultsWithEmptyList(k) ==
    IF k = DUMP
      THEN {[kind |-> "list", item |-> Listed]}
      ELSE {IF store[k] = Null THEN Null ELSE [kind |-> "datum", item |-> store[k]]}

(* http_get on a key: fetch_data, or getAllData for the key DUMP.  An      *)
(* empty result is a 404 and clears the error, if there was one.           *)
QueryResults(k) ==
    IF k = DUMP
      THEN {IF Listed = {} THEN Null ELSE [kind |-> "list", item |-> Listed]}
      ELSE {IF store[k] = Null THEN Null ELSE [kind |-> "datum", item |-> store[k]]}

GetQuery ==
    /\ \E k \in AsRead(request.name) :
         content' \in QueryResults(k) \cup (IF CanFail("fetch") THEN {Null} ELSE {})
    /\ error' = IF content' = Null THEN "ERROR_404" ELSE error
    /\ UNCHANGED <<err, fds>>

(* Mutant: the error is reset for a list as it is for an empty one. *)
GetPartOfListAsWhole ==
    /\ request.name = DUMP /\ CanFail("fetch")
    /\ \E part \in (SUBSET Listed) \ {{}, Listed} :
          content' = [kind |-> "list", item |-> part]
    /\ UNCHANGED <<err, error, fds>>

(* dbm_nextkey fails half way: part of the list is there, and err is set. *)
GetPartOfList ==
    /\ request.name = DUMP /\ CanFail("fetch")
    /\ \E part \in (SUBSET Listed) \ {{}, Listed} :
          content' = [kind |-> "list", item |-> part]
    /\ err' = TRUE
    /\ UNCHANGED <<error, fds>>

HttpGet ==
    /\ Handling("HTTP_GET")
    /\ \/ err /\ UNCHANGED <<err, error, content, fds>>
       \/ ~err /\ request.kind = "page" /\ request.slash /\ GetPage
       \/ ~err /\ request.kind = "query" /\ (GetQuery \/ GetPartOfList)
       \/ ~err /\ request.kind = "other" /\ error' = "ERROR_404"
               /\ UNCHANGED <<err, content, fds>>
    /\ Goto("BUILD_RESPONSE")
    /\ UNCHANGED <<proc, listening, db, client_socket_fd, request, response,
                   sender, store, wire, served>>

(* get_html hands the result of one strchr to the next without a test, and  *)
(* parse_query looks for the '=' behind the '?', where is_query did not.   *)
GetCrashes ==
    /\ Handling("HTTP_GET") /\ ~err
    /\ request.kind = "torn" \/ (request.kind = "page" /\ ~request.slash)
    /\ Crash

(* The list of beacons is longer than http_get's buffer. *)
DumpCrashes ==
    /\ Handling("HTTP_GET") /\ ~err
    /\ request.kind = "query" /\ request.name = DUMP
    /\ Cardinality(Listed) > MaxListed
    /\ Crash

-----------------------------------------------------------------------------
(* Mutants: DBM_INSERT instead of DBM_REPLACE; the name as its own datum. *)
PostInserts ==
    /\ \E k \in AsRead(request.name), v \in AsRead(request.value) :
         store' = [store EXCEPT ![k] = IF @ = Null THEN v ELSE @]
    /\ UNCHANGED err

PostStoresName ==
    /\ \E k \in AsRead(request.name) : store' = [store EXCEPT ![k] = k]
    /\ UNCHANGED err

(* http_post: stores the pair of the query, replacing what was there.  A   *)
(* failed store only leaves err set.                                       *)
PostQuery ==
    \/ /\ \E k \in AsRead(request.name), v \in AsRead(request.value) :
            store' = [store EXCEPT ![k] = v]
       /\ UNCHANGED err
    \/ /\ CanFail("store")
       /\ err' = TRUE
       /\ UNCHANGED store

HttpPost ==
    /\ Handling("HTTP_POST")
    /\ \/ err /\ error' = "ERROR_404" /\ Goto("ERROR_404") /\ UNCHANGED <<err, store>>
       \/ ~err /\ request.kind = "query" /\ PostQuery /\ Goto("BUILD_RESPONSE")
               /\ UNCHANGED error
    /\ UNCHANGED <<proc, listening, fds, db, client_socket_fd, request,
                   response, content, sender, wire, served>>

(* parse_query looks for '?' and '=' and does not ask whether they exist. *)
PostCrashes ==
    /\ Handling("HTTP_POST") /\ ~err
    /\ request.kind # "query"
    /\ Crash

-----------------------------------------------------------------------------
(***************************************************************************)
(* build_response and response_construct_handler, for all three states     *)
(* that run it.  With err set there is no response at all.  The page of a  *)
(* 404 replaces the content; when it cannot be read err is set, and the    *)
(* response that is built then is not sent.                                *)
(***************************************************************************)
StatusOf(e) ==
    CASE e = "ERROR_500" -> "500"
      [] e = "ERROR_404" -> "404"
      [] OTHER           -> "200"

Get404Page ==
    \E outcome \in HtmlOutcomes(Page404) :
        /\ GetHtml(Page404, outcome)
        /\ err' = (outcome \in {"missing", "unreadable"})

BuildResponse ==
    /\ \E s \in {"BUILD_RESPONSE", "ERROR_404", "ERROR_500"} : Handling(s)
    /\ \/ err /\ UNCHANGED <<err, response, content, fds>>
       \/ /\ ~err
          /\ \/ error = "ERROR_404" /\ request.slash /\ Get404Page
             \/ error # "ERROR_404" /\ UNCHANGED <<err, content, fds>>
          /\ response' = [status |-> StatusOf(error), body |-> content']
    /\ Goto("SEND_RESPONSE")
    /\ UNCHANGED <<proc, listening, db, client_socket_fd, request, error,
                   sender, store, wire, served>>

(* get_html takes the name of the page from the URL of a 404 as well, and   *)
(* only then does without it.                                              *)
NotFoundCrashes ==
    /\ \E s \in {"BUILD_RESPONSE", "ERROR_404", "ERROR_500"} : Handling(s)
    /\ ~err /\ error = "ERROR_404" /\ ~request.slash
    /\ Crash

WriteResponse ==
    /\ wire' = [conn |-> client_socket_fd, request |-> request,
                status |-> response.status, body |-> response.body]
    /\ served' = served + 1
    /\ request' = Null /\ response' = Null
    /\ UNCHANGED err

(* Mutant: a failed write is taken for a finished answer. *)
WriteFailsUnnoticed ==
    /\ CanFail("write")
    /\ request' = Null /\ response' = Null
    /\ UNCHANGED <<err, wire, served>>

WriteFails ==
    /\ CanFail("write")
    /\ err' = TRUE
    /\ request' = Null /\ response' = Null
    /\ UNCHANGED <<wire, served>>

(***************************************************************************)
(* send_response: writes, frees request and response (serv keeps pointing  *)
(* to both), and starts over.  The connection is not closed.  With err set *)
(* nothing is written.                                                     *)
(***************************************************************************)
SendResponse ==
    /\ Handling("SEND_RESPONSE")
    /\ \/ err /\ UNCHANGED <<err, request, response, wire, served>>
       \/ ~err /\ (WriteResponse \/ WriteFails)
    /\ Goto("SERVER_INIT")
    /\ UNCHANGED <<proc, listening, fds, db, client_socket_fd, error, content,
                   sender, store>>

(* response[] has room for Content-Length bytes of content.  sprintf       *)
(* prints the null content of a POST as "(null)", and the list and the     *)
(* pages have no zero byte of their own: all but a datum run over it.  A   *)
(* write to a connection that was reset raises SIGPIPE.                    *)
SendCrashes ==
    /\ Handling("SEND_RESPONSE") /\ ~err
    /\ response.body \notin Data \/ CanFail("write")
    /\ Crash

-----------------------------------------------------------------------------
(* dc_fsm_run returns to main, which closes the last data base and ends.   *)
Exit ==
    /\ Running /\ Fsm!Returned
    /\ proc' = "done"
    /\ UNCHANGED <<fsmVars, err, listening, fds, servVars, store, wire, served>>

(* The table has no end marker, so the search for a pair that is not in it *)
(* may run off into other memory; without a data base main's cleanup       *)
(* dereferences a null pointer.                                            *)
BadChange ==
    /\ Running /\ Fsm!Missed
    /\ proc' \in {"crashed"} \cup (IF db THEN {"bad"} ELSE {})
    /\ UNCHANGED <<fsmVars, err, listening, fds, servVars, store, wire, served>>

(* The machine or the operator ends the process, or starts it again. *)
Kill == Running /\ CanFail("kill") /\ Crash

(* Mutant: the data base is opened with O_TRUNC. *)
RestartOnEmptyStore ==
    /\ ~Running
    /\ store' = [k \in StoredNames |-> Null]
    /\ proc' = "running" /\ at' = "entry" /\ from' = "DC_FSM_INIT" /\ to' = "SERVER_INIT"
    /\ err' = FALSE /\ listening' = FALSE /\ fds' = 0
    /\ UNCHANGED <<servVars, served>>
    /\ wire' = Null

Restart ==
    /\ ~Running
    /\ proc' = "running" /\ at' = "entry" /\ from' = "DC_FSM_INIT" /\ to' = "SERVER_INIT"
    /\ err' = FALSE /\ listening' = FALSE /\ fds' = 0
    /\ db' = FALSE /\ client_socket_fd' = Null
    /\ request' = Null /\ response' = Null /\ error' = "none" /\ content' = Null
    /\ sender' = Null /\ wire' = Null /\ served' = 0
    /\ UNCHANGED store

-----------------------------------------------------------------------------
(* The steps the server takes by itself, without waiting for a peer. *)
ServerStep ==
    \/ InitServer \/ InitServerOutOfMemory \/ InitServerExits
    \/ Listen \/ ListenFails
    \/ HttpGet \/ GetCrashes \/ DumpCrashes \/ HttpPost \/ PostCrashes
    \/ BuildResponse \/ NotFoundCrashes \/ SendResponse \/ SendCrashes
    \/ Exit \/ BadChange

(* The steps that need a peer, a signal or the operator. *)
EnvironmentStep ==
    \/ \E c \in Conns : AcceptConn(c)
    \/ AcceptInterrupted \/ AcceptFails
    \/ \E r \in Requests : ReadWhole(r) \/ ReadHead(r)
    \/ ReadTail \/ ReadEof \/ ReadFails \/ ParseCrashes
    \/ Kill \/ Restart

Next == ServerStep \/ EnvironmentStep

Spec == Init /\ [][Next]_vars

(* The operating system schedules the process; nobody is made to connect,  *)
(* to send or to restart the server.                                       *)
FairSpec == Spec /\ WF_vars(ServerStep)

-----------------------------------------------------------------------------
(* Every variable holds what the C type of its counterpart can hold, and    *)
(* the descriptors never pass the limit of the process.                     *)
TypeOK ==
    /\ proc \in {"running", "exit5", "done", "bad", "crashed"}
    /\ from \in AnyInt /\ to \in AnyInt /\ at \in {"entry", "accept", "recv"}
    /\ err \in BOOLEAN /\ listening \in BOOLEAN /\ db \in BOOLEAN
    /\ fds \in 0..FdLimit /\ served \in Nat
    /\ client_socket_fd \in Conns \cup {Null} /\ sender \in Conns \cup {Null}
    /\ request \in RequestType \cup {Null}
    /\ response \in Responses \cup {Null}
    /\ error \in {"none", "ERROR_404", "ERROR_500"}
    /\ content \in Bodies \cup {Null}
    /\ store \in [StoredNames -> StoredData \cup {Null}]
    /\ wire \in Answers \cup {Null}

(* send_response is about to write. *)
Answering == Handling("SEND_RESPONSE") /\ ~err

(* send_response has all it dereferences, and it writes to the connection  *)
(* the request was read from, however many connections accept_request took *)
(* and dropped before it.                                                  *)
AnswerGoesToSender ==
    Answering => /\ request # Null /\ response # Null
                 /\ sender # Null /\ client_socket_fd = sender

(* A POST that is answered with 200 is in the data base when the answer is *)
(* written (unless parse_query left its name or value without an end).     *)
AcknowledgedPostIsStored ==
    Answering /\ request.method = "POST" /\ {request.name, request.value} \cap Overrun = {}
        => response.status = "200" /\ store[request.name] = request.value

(* The body b is what the data base or html/ holds for the GET r: the whole *)
(* list of beacons, the datum, a page that exists.                         *)
Holds(r, b) ==
    \/ /\ r.kind = "query" /\ r.name = DUMP /\ Listed # {}
       /\ b = [kind |-> "list", item |-> Listed]
    \/ /\ r.kind = "query" /\ r.name # DUMP /\ store[r.name] # Null
       /\ b = [kind |-> "datum", item |-> store[r.name]]
    \/ /\ r.kind = "page" /\ r.name \in Pages
       /\ b \in [kind : {"page"}, item : {r.name, Junk}]

(* What a GET is answered with under 200 is there when the answer is       *)
(* written: never a part of the list of beacons, and never a datum or a    *)
(* page left over from another request.                                    *)
FoundIsStored ==
    Answering /\ request.method = "GET" /\ response.status = "200"
              /\ request.name \notin Overrun
        => Holds(request, response.body)

(* A GET is answered with 404 only for what is not there.  http_get takes  *)
(* a failed fetch for an absent key, so this is for instances without      *)
(* failures of the data base and of html/.                                 *)
NotFoundIsAbsent ==
    Answering /\ request.method = "GET" /\ response.status = "404"
              /\ request.name \notin Overrun
        => /\ response.body = [kind |-> "page", item |-> Page404]
           /\ \/ request.kind = "query" /\ request.name = DUMP /\ Listed = {}
              \/ request.kind = "query" /\ request.name # DUMP /\ store[request.name] = Null
              \/ request.kind = "page" /\ request.name \notin Pages
              \/ request.kind = "other"

(* Nobody is accepted or read from while an error is pending: a pending    *)
(* error, whoever set it, takes the server to its end before that.         *)
NoAcceptAfterError == Running /\ at \in {"accept", "recv"} => ~err

(* Without an error every pair the state functions lead to is in the       *)
(* transition table, for all their return values.                          *)
MissedOnlyOnError == Running /\ Fsm!Missed => err

(* Every answered request costs the process an open data base and a        *)
(* connection for good: send_response closes neither, init_server forgets  *)
(* both.  With the descriptor limit this bounds what one process answers.  *)
LifetimeBound == served * (DbmFds + 1) <= fds

(* The branch of response_construct_handler for a 500 is dead: ERROR_500   *)
(* is only ever set together with err, and with err there is no response.  *)
ServerErrorIsNeverReported == response # Null => response.status # "500"

(* A request that reached http_get or http_post is answered, or the        *)
(* process ends.                                                           *)
RequestIsAnsweredOrServerEnds ==
    \A r \in Requests :
        Running /\ request = r /\ to \in {"HTTP_GET", "HTTP_POST"}
            ~> (wire # Null /\ wire.request = r) \/ ~Running

(* An error is never survived: dc_error is only reset for an interrupted   *)
(* accept and for a 404, so a state that has it set leads to the end of    *)
(* the process, through exit(5) or a bad change.                           *)
ErrorEndsServer == Running /\ err ~> ~Running

(***************************************************************************)
(* The server implements BeaconStore: a request is pending from the moment *)
(* accept_request returns it until it is answered, and it has taken effect *)
(* when its handler has returned.  An error or the end of the process      *)
(* gives it up.                                                            *)
(***************************************************************************)
Served == {"HTTP_GET", "HTTP_POST", "BUILD_RESPONSE", "SEND_RESPONSE"}
InService == Running /\ ~err /\ to \in Served

BeaconMap == INSTANCE BeaconStore WITH
    store    <- [k \in Keys |-> store[k]],
    pending  <- IF InService THEN request ELSE Null,
    effected <- InService /\ to \in {"BUILD_RESPONSE", "SEND_RESPONSE"},
    answer   <- IF wire = Null THEN Null
                ELSE [request |-> wire.request, status |-> wire.status,
                      body |-> wire.body]

(* Every behaviour of the server is one of BeaconStore's, whatever fails   *)
(* and whenever it crashes, as long as the data base and html/ are read    *)
(* without failures and parse_query ends its strings.                      *)
ImplementsBeaconStore == BeaconMap!Spec

(* db.h says of GET, PUT, POST and DELETE that they are dealt with by the  *)
(* server: a request with one of these methods does not end it.            *)
MethodsAreDealtWith ==
    Running /\ request # Null /\ request.method # "garbled" => ~Fsm!Returned
==============================================================================
