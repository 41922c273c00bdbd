# ibeacon in TLA+

A verification development for ibeacon: an HTTP server that keeps beacons in an
ndbm file, and a curses client that lists them and shows one.  It holds TLA+
modules translated from the C sources, TLC configurations that check them on
small instances, and TLAPS proofs of the theorems that matter for every
instance.  Paths below are relative to the repository.

## 1. The system

| part | source | state it keeps | operations |
|---|---|---|---|
| server state machine | `src/server.c` | `struct server_params` (request, response, db, fetched, content, error, client_socket_fd), `err`, the pair of states of `dc_fsm_run`, the listening socket | `init_server`, `accept_request` (with `receive_data`), `http_get` (with `get_html`), `http_post`, `build_response`, `send_response`, `main` |
| data base access | `src/db.c` | the file `./hello`, open DBM handles | `initialize_database`, `store_data`, `fetch_data`, `getAllData`, `deinitialize_database`; `delete_data` has no caller |
| HTTP requests | `src/http/http_request.c` | none | `parse_http_request`, `parse_query`, setters, destructors |
| HTTP responses | `src/http/http_response.c` | none | `http_response_constructor`, `parse_http_response`, setters, destructors |
| client state machine | `src/ncurse_cli.c` | `struct client_params` (socket, input, request, response, selection, pages) | `landingPage`, `getAllListOfBeacons`, `showAllBeacons`, `getOneBeacon`, `showOneBeacon` |
| client connection | `src/client.c` | the socket | `initializeClient`, `build_request`, `send_request` |
| runner | libdc_fsm (not in the repository) | the pair of states | `dc_fsm_run` |
| rest | `src/ib_cli.c` (commented out), `src/common.c`, `src/ibeacon.c`, `main.c`, `tests/`, `src/IbeaconAndroid/`, `html/` | none | none |

**How they interact.**  Both programs are single-threaded state machines driven
by `dc_fsm_run`, which calls the function that a table gives for a pair of
states, and takes what it returns as the next state.  A pair that is not in the
table is a *bad change*: the callback reports it and the run ends.  One
`struct dc_error` is passed to every function, is sticky, and is looked at by
nearly all of them.  One round of the server is: clear `*serv` and open the data
base; listen, accept, read one request, stop listening; get or post; build;
send; and again.  The client opens a connection per request: first the list of
beacons (`GET /?DUMP=DUMP`), then the one the user picked (`GET /?name=(null)`).

**What is hard.**  The interesting part of this code is error handling over
several functions and several rounds: an error set in one state is acted on two
states later, functions may return a value they never set, `*serv` is cleared but
never closed, a request may come in pieces, the peer may be silent, close, or be
replaced by another one in the same round, and the process may die anywhere
between storing a beacon and saying so.  The socket the server listens on is
closed after every request it accepts, so whoever waits in its queue is reset.  On
both sides buffers are sized by one expression and filled by another, and where an
answer ends is found by counting back from the end of what was read.  `PROJECT.json` lists every such hazard
at its line, with the property that watches it.

**What makes each part correct.**
Server: an answer goes to the connection that asked, is right for the data base
at that time, an acknowledged POST is there for good, an error never leads to
another accept, a request that was read is answered or the process ends.
Data base: the list that is sent is the whole list.  Client: its loops end inside
their buffers, what it offers exists and what exists is offered.  Requests and answers: what was
asked for is what is looked up, and what is shown is all of the datum and nothing
else.  Together: no answer reaches another request than its own, and a beacon that
was listed can be looked at.

## 2. The modules

| module | models | remarks |
|---|---|---|
| `DcFsm` | `dc_fsm_run` | external; `At`, `Goto`, `Returned`, `Missed` over a table `Transitions` |
| `Server` | `src/server.c`, `src/db.c`, the use of `src/http/http_request.c` | one action per state function; instantiates `DcFsm` |
| `BeaconStore` | what the server promises | abstract specification; `Server` implements it (`BeaconMap`) |
| `BeaconList` | `getAllData`, `parse_content`, `showAllBeacons`, `keyExistInServer` | the list, character by character |
| `Client` | `src/ncurse_cli.c`, `src/client.c`, `parse_http_response` | one action per state function, cut where it reads; instantiates `DcFsm`; the server is its environment |
| `HttpMessage` | the text of a request and of its answer in `src/client.c`, `src/http/`, `src/server.c`, `src/ncurse_cli.c` | character by character |
| `System` | the processes together, and the kernel's queue | instantiates `Server` and `Client` as they are |
| `MCServer`, `MCBeaconList`, `MCClient`, `MCHttpMessage`, `MCSystem` | instances for TLC | |
| `ServerProofs`, `ServerRefinement` | theorems about `Server` and `BeaconStore` | checked by `tlapm`, like all below |
| `ClientProofs`, `BeaconListProofs` | theorems about `Client`, `BeaconList` | |
| `HttpMessageProofs`, `HttpResponseProofs` | theorems about `HttpMessage`: the request, the answer | the second extends the first |
| `SystemProofs` | theorems about `System` | |
| `TextLemmas` | what stands where in a text that was put together; least numbers and functions defined by recursion | lemmas of the three modules about texts |

### Server

`proc` is the process: `running`, or how it ended (`exit5` for
`exit(EXIT_CODE_INITIALIZE_FAIL)`, `done`, `bad` for a bad change, `crashed`).
`from`/`to` is the pair of `dc_fsm_run`; `at` tells where `accept_request` blocks
(`entry`, in `dc_accept`, in `dc_read`).  `err` is `dc_error_has_error`.  The
fields of `struct server_params` keep their names; `content` stands for
`content` together with `fetched.dsize`.  `fds` counts the descriptors the
process holds.  `store` is the ndbm file and survives `Restart`.  `sender`, `wire`
and `served` are history variables: where the request was read from, the answer
that was written, and how many were.

| code | actions |
|---|---|
| `init_server`, `initialize_database` | `InitServer`, `InitServerOutOfMemory`, `InitServerExits` |
| `accept_request` | `Listen`, `ListenFails`, `AcceptConn`, `AcceptInterrupted`, `AcceptFails` |
| `receive_data` and the rest of `accept_request` | `ReadWhole`, `ReadHead`, `ReadTail`, `ReadEof`, `ReadFails`, `ParseCrashes` |
| `http_get`, `get_html`, `fetch_data`, `getAllData` | `HttpGet` (`GetPage`, `GetQuery`, `GetPartOfList`), `GetCrashes`, `DumpCrashes` |
| `http_post`, `store_data`, `parse_query` | `HttpPost` (`PostQuery`), `PostCrashes` |
| `build_response`, `response_construct_handler` | `BuildResponse` (`StatusOf`, `Get404Page`), `NotFoundCrashes` |
| `send_response` | `SendResponse` (`WriteResponse`, `WriteFails`), `SendCrashes` |
| `main` after `dc_fsm_run` | `Exit`, `BadChange` |
| environment | `Kill`, `Restart` |

`Faults` names the calls that may fail in an instance (`malloc`, `getaddrinfo`,
`open`, `socket`, `bind`, `accept`, `read`, `split` for a request in pieces,
`html`, `fetch`, `store`, `write`, `kill`).

Undefined behaviour is a choice over what the build can do: the unset return
value of `accept_request` is any state or another int (`ReturnUnset`); a name or
datum that `parse_query` leaves without an end may be read as `Junk`, for the
members of `Overrun`; a write beyond a buffer is the end of the process
(`DumpCrashes`, `SendCrashes`, `ParseCrashes`) or has no effect; the look-up of a
pair that is not in the table, which has no end marker, is a bad change or a crash.
Code that hands what `strchr` returned on without a test ends the process when there was
nothing to find: `PostCrashes` (no `?` or `=`), `GetCrashes` (a URL whose `=` is
in front of its `?`, kind `torn`, or that of a page without a `/`) and
`NotFoundCrashes` (`get_html` looks for the `/` also when it is asked for 404.html).
A request's field `slash` says whether its URL has what `get_html` looks for.
What an overrun does to other memory is not modelled.

The DBM is modelled as the environment of `store_data`: a store that succeeded is
in the file at once, also when the process dies right after.  The code relies on
that, since it never closes a DBM in the rounds.

### BeaconStore

A map of names to data that serves one request at a time: `Arrive`, `TakeEffect`,
`Reply`, or `GiveUp` at any point.  `Server!BeaconMap` maps a request to
`pending` from the moment `accept_request` returned it until its answer is
written, as long as there is no error, and to `effected` once `http_get` or
`http_post` has returned.

### BeaconList

`getAllData` writes the names one after the other, each with an end of line.  The
client's content has the four bytes `\r\n\r\n` in front (`parse_content` starts
where the last header line ends), and `showAllBeacons` copies only
Content-Length bytes of it: the list loses its last four bytes, gets an end of line
and a zero byte of its own, and is taken apart by a loop over `strchr`.  The module
follows these positions exactly, from 0 as in the code.

### Client

`from`/`to`, `err` and `proc` are as in `Server`; `at` tells whether a state
function is at its `entry`, in `dc_read` (`read`, or `stale` after an error) or in the loop that waits for
q (`quit`).  `method`, `beacon_selection`, `request` and `response` are the fields of
`struct client_params`; `data` is the buffer of the read loop, which
`getAllListOfBeacons` does not initialise and `getOneBeacon` does.  After an error of
`initializeClient` or `send_request` both functions still call `dc_read`: without a
connection it fails at once, but when only the write failed it waits on a connection that
no request was sent on, and when the look-up of the host failed on the one before, or on
whatever `malloc` left in `socket_fd`.  `at = "stale"` is this read; it may bring
anything, and whatever it brings the function returns `ERROR` (`ReadAfterError`).  `shown` is what
`showOneBeacon` put on the screen.  `inbox`, `answered` and `closed` are the
connection: the pieces still to be read, and what the server did.

| code | actions |
|---|---|
| `landingPage` with `landingPageOptions` | `LandingPage` |
| `initializeClient`, `build_request`, `send_request` | `Send` in `GetAllSend` and `GetOneSend`; `ReadAfterError`; `BuildRequestCrashes`, `SendRequestCrashes` |
| the read loop of `getAllListOfBeacons` | `GetAllRead`, `GetAllEof`, `ReadFails`, `ParseCrashes` |
| the read loop of `getOneBeacon` | `GetOneRead`, `GetOneEof`, `ReadFails`, `ParseCrashes` |
| `showAllBeacons` | `ShowAll`, `ShowAllCrashes` (its inside is `BeaconList`) |
| `showOneBeacon` | `ShowOne`, `ShowOneCrashes`, `Quit` |
| `dc_fsm_run` on a pair without a row | `BadChange` |
| the server's end (environment) | `ServerAnswers`, `ServerCloses` |

The environment does what `Server` does to a connection: a GET is answered once, in
one piece or in more, and the connection stays open until the server's process
ends, which a PUT brings about.  The page of a 404 is longer than the 1024 bytes of
one `dc_read` and always comes in pieces.  Whether a loop of `getAllListOfBeacons`
takes an answer for complete depends on a byte of `data` that nobody wrote:
`GetAllRead` chooses.  In `getOneBeacon` the byte is zero, so a whole datum ends
the loop, and the beginning of one never does.  Both hold only while Content-Length is
read right: `parse_response_line` copies its digits without an end, and more of them
may follow (`Parses`, fault `stray`).  With such a length the loop may end early, or
never (`Misread`).  A later piece has neither status line nor headers; the parser yields
`Garbage` or crashes.

### HttpMessage

One request and one answer as text.  Texts are sequences of characters without the
zero byte that ends them in memory; a letter that no code looks at is `x`, so a
header's value is known by its length and its spaces.  `pc` is the function that
runs next.  `room` is the size of the array that a `sprintf` prints to, and `text`
what it prints.

| code | actions |
|---|---|
| `build_request`, `send_request` | `BuildRequest`, `SendRequest` |
| `parse_http_request`, `parse_request_line`, `parse_query` | `ParseRequest` (`RequestLine`, `UrlOf`, `ParseQuery`) |
| `send_response` | `SendResponse` (`ResponseHead`, `ResponseRoom`) |
| `dc_read` of the client | `Read`: the answer is cut anywhere |
| `parse_http_response`, `parse_response_line` | `Parse`, `ParseCrashes` (`LineEnds`, `ParseResponse`) |
| the test of the loop in `getOneBeacon` | `Check` (`LengthMatches`) |
| `showOneBeacon` | `Show` |

`Strays` are the characters that may lie in memory behind a copy without an end.
`TextAssumption` says which texts there are: a datum was the value of a query in a
request line of `REQ_LINE_BUFF` bytes (`parse_query` is where every stored value comes
from), and lists, pages and memory are any strings.  A zero byte ends a text and is never
inside of one.  A datum that was stored without its end (`Overrun` in `Server`) is not
considered here.
`LengthMatches` is what the loop of `getOneBeacon` does: the last Content-Length bytes
of what was read must be a string of that length.  It is the reason for the
choices of `GetOneRead` in `Client`: the run shows that a datum in one piece always
passes and the beginning of one never, except with a misread length.

### System

`System` has the variables of `Server` and of `Client` (those of the same name with
`cli_`), and between them `backlog`, the queue of the listening socket, and `reset`.
Whatever a module leaves to its environment is here a step of another part:

| step | what happens |
|---|---|
| `ClientSends`, `PeerConnects` | a connection is put into the queue, or refused when nobody listens |
| `ServerAccepts`, `ServerReads` | the server takes it from the queue, reads what its owner sent, and closes the socket: what is left in the queue is reset (`CloseQueue`) |
| `ServerSends` | the answer is in the client's inbox, or the peer has its acknowledgement |
| `ServerEnds`, `ServerKilled` | connections see the end of the stream, or a reset when something on them was not read (`ConnectionsEnd`) |
| `ServerWorks`, `ClientWorks`, `ServerInterrupted`, `ServerReadsEof`, `ServerRestarts`, `ClientReadIsReset` | a step of one process that the other does not see |
| `UserActs`, `UserPicks`, `PeerActs` | the user and the peers do what they like; a peer may stay silent or leave |

`acked`, `known` and `offered` are history: whose POST was acknowledged, whose before
the client asked for the list, and the names of the list the user picked from.

## 3. The runs

| run | shows | bounds | states |
|---|---|---|---|
| `server_faults` | safety with all faults | 2 keys besides DUMP, 2 values, 3 pages, 2 connections, 7 descriptors, 2 of them per DBM, lists of at most 2 | 1 069 218 |
| `server_store` | 404 means absent; refinement of `BeaconStore` | the same, no failing reads of data base and pages, no overrun | 521 004 |
| `server_fair` | liveness | the same with 5 requests | 126 240 |
| `server_put` | a PUT ends the server (finding) | no faults | |
| `client` | the client against a server that answers, answers in pieces, is silent or ends | 3 beacons, one with a name too long for the URL, all faults | 4 835 |
| `client_add` | option 2 asks for the list (finding) | no faults | |
| `list` | the list reaches the prompt | lists of up to 3 of 7 names of 1 to 6 characters; 3 rows, and buffers that they can overrun | 25 170 |
| `list_refused` | the last name is cut (finding) | the same | |
| `http` | a request and its answer as text | 6 queries, 4 data of 1 to 12 characters, 2 lists, 1 page, 4 strays; every cut | 10 447 |
| `system` | server, client, peers and kernel: who gets which answer, and that beacons stay | 2 beacons, 2 peers, a queue of 2, 11 descriptors | 670 899 |
| `system_fair` | that a request is settled | 1 peer, 5 descriptors | 450 259 |

**Why the bounds are enough.**  Two keys and two values are the fewest that tell
a datum from another's and an old one from a new one.  Two connections let one be
dropped for the other in the same round, which is all that `client_socket_fd`
can confuse; a third would play the same part.  Seven descriptors
allow two answered requests and a part of a third round, so both the reuse of
state from an earlier round and the end for want of descriptors happen.
`MaxListed = 2` lets the list fit (two names) and not fit (three).  The names of
`list` are as long as one, two and more characters because the last one loses two,
and as long as six because rows hold five.  The loop fills a row more than there are names, for
the empty line in front of the list, unless the last name has one character: of three
names some lists fill the three rows to the last and some need a fourth, and two names
of more than one character fill all three.  `server_faults` uses the symmetry of
connections; the runs with temporal properties use none.  Three beacons in
`client` are one to pick, one to be cut, and one whose name is too long; lists of
one, two and three names occur.  The keys of `http` fit the URL of the client, fill it
to the last byte, overrun it by just one, and overrun the server's line as well; its data
have a Content-Length of one digit and of two, on the edge of either (the zero byte
makes 9 characters 10 bytes), so that a stray digit yields a length inside the buffer,
inside the content or outside of both.  In `system` the list has one name that is cut
and one that is not; the client is first, last or alone in the queue, and the queue may
be full; 11 descriptors last for five requests, so that both peers and both requests of
the client may be served by one process; with 5 in `system_fair` the process ends after
two, while others wait.  `system` uses the symmetry of beacons and of peers,
`system_fair` none.  Requests arrive whole in `System`, since `Server` and `Client`
treat the pieces.

**Fairness.**  `FairSpec` asks for weak fairness of the steps the server takes by
itself: the operating system schedules the process, and a call that does not wait
for a peer returns.  Nothing is asked of peers, of the operator, or of the
blocking `accept` and `read`: a silent peer blocks the server for ever, and the
liveness properties therefore start from a request that was read.  `Client` asks the same
for `ClientStep`, the steps that wait for nobody: neither the user nor the server
has to do anything, and a read need not fail.  Nor does it ask for `ReadAfterError`: a read
from a connection that carries no request may never return, also when the server is
there.  In
`BeaconList` the loops run on by themselves and the user is free to leave.  `System` asks
it of each of the two processes; nobody has to restart the server, the peers may be
silent, and `RequestIsSettled` names the one thing that can keep a request for ever: a
peer that connected and says nothing, for whom `dc_read` has no timeout.

**Deadlock** is checked in all runs of `Server`: a server that ended can always
be restarted.  `BeaconList` stops when a name was chosen or memory was overrun, so
its runs say `CHECK_DEADLOCK FALSE`.  So do those of `Client`: a client that
crashed or made a bad change is over, and one whose server is silent waits.  `http`
has the same line, because a message has an end; `system` is checked for deadlock.

### Properties

Safety of `Server`, with all faults: `AnswerGoesToSender`,
`AcknowledgedPostIsStored`, `FoundIsStored`, `NoAcceptAfterError`,
`MissedOnlyOnError`, `LifetimeBound` (a process answers at most
`FdLimit / (DbmFds + 1)` requests before it exits),
`ServerErrorIsNeverReported` (the branch for a 500 is dead).  Without failing
reads: `NotFoundIsAbsent` and `ImplementsBeaconStore`; they do not hold with them,
because `http_get` answers a failed fetch with 404 and resets the error.
Liveness: `RequestIsAnsweredOrServerEnds`, `ErrorEndsServer`.

Of `BeaconList`: `LoopFindsEndOfLine` (`strchr` inside the loop never returns
NULL), `AllButLastCanBeChosen`, `ChosenIsListedOrCut`, `EveryRowIsCounted` (a row more than
names, and never one behind the last), and, for a list that is too long for no buffer
(`NothingTooLong`), `LoopsStayInside` (no step overruns one) and `PromptIsReached`.
`EveryRowIsCounted` shows that `NothingTooLong` does not ask for a row that is not used.

Of `Client`: `ShownAnswersSelection` (the response left over from the list is
never shown as a beacon), `NothingShownAfterError`, `WaitEndsWithServer` (no client
outlives the server waiting for it), `WholeDatumIsShown`.  The last one has no
counterpart for the list: whether `getAllListOfBeacons` stops at a whole list
depends on an uninitialised byte, and with the wrong one it waits for more from a
server that has nothing more to say.

Of `HttpMessage`: `QueryArrives`, `UrlThatFitsIsRead` (two buffers sized by different
constants in different programs), `ArrayHoldsData` (the array of `send_response` holds
a datum to the last byte, and a list or the answer to a POST overruns it by one),
`WholeDatumGetsThrough`, `ShownIsDatum`, `ListKeepsEmptyLine` (what `BeaconList`
starts from).

Of `System`: `AnswerIsForAsker`, `AcknowledgedIsListed`, `PickedBeaconIsShown` (across
the end and restart of the server between the two requests), `RequestIsSettled`,
`ResetEndsClient`, and `ClientMeetsItsEnvironment`: every behaviour of the system is one of
`Client`, so what `Client` assumes of the server is what `Server` does.

### Findings

* `client_add`: the landing page offers "PRESS 2: ADD NEW IBEACON"
  (`src/ncurse_cli.c:189`), but `landingPage` goes on to `GET_ALL` whatever was
  pressed: the client sends `PUT /?DUMP=DUMP`, nothing is added, and by `server_put`
  the server ends.
* `server_put`: `accept_request` leaves the state machine for every method but
  GET and POST, so any peer's PUT ends the server, where `include/db.h:13` says
  that PUT and DELETE "will be dealt with on server side".
* `list_refused`: the last beacon of the list loses two characters and
  `src/ncurse_cli.c:283` tells the user who types its name that it does not exist.

## 4. The proofs

`ServerProofs` proves for every value of the constants that satisfies
`ServerAssumption` (any number of keys, pages and connections, any descriptor
limit, any set of faults):

| theorem | property |
|---|---|
| `TypeCorrect` | `TypeOK` |
| `NoAccept` | `NoAcceptAfterError` |
| `Missed` | `MissedOnlyOnError` |
| `Lifetime` | `LifetimeBound` |
| `AnswerDelivered` | `AnswerGoesToSender` |
| `PostStored` | `AcknowledgedPostIsStored` |
| `GetTruthful` | `FoundIsStored` |
| `NoServerError` | `ServerErrorIsNeverReported` |

None of these is inductive: that `send_response` writes the right thing depends
on what `accept_request` read four states before.  The invariant `IInv` is built
in layers, each proved to be preserved with the help of the ones below:

1. `ControlInv`: the pairs of states that can be reached without an error, and
   where in `accept_request` the process can stand; an error is only pending
   outside the accept loop.
2. `DescriptorInv`: which descriptors are open in which state; `served` counts
   rounds.
3. `RequestInv`: from the end of `accept_request` on there is a request and a
   sender, and the connection is the sender's.
4. `DataOK`: the types of data and answers.
5. `AnswerInv`: what `error`, `content` and `response` hold after the handler,
   relative to the request and the data base.

Every layer has one lemma for its step with a case per action; the theorems
combine them with temporal logic.

`ClientProofs` proves the safety of `Client` for every value of the constants that
satisfies `ClientAssumption` (any names, any of them too long, any set of faults):

| theorem | property |
|---|---|
| `ControlHolds`, `InvariantHolds` | the invariants below |
| `ClientTypes` | `TypeOK` |
| `NoErrorShown` | `NothingShownAfterError` |
| `ShownIsRight` | `ShownAnswersSelection` |

1. `ControlInv`: the pairs of states that are reached; an error is only pending
   in `ERROR`.
2. `TypeInv`: the types, and which of `method`, `beacon_selection` and `request` are
   set in which state.
3. `ShownInv`: in the second read loop the pieces that are to come and the one that
   was parsed belong to the request for `beacon_selection`; it is not changed
   until something is shown, nor after that.

The assumption that `DUMP` is no beacon's name is needed in the third layer: a
beacon of that name would be answered with the list.

`ServerRefinement` proves two theorems that need more of the instance.
`ReadsSucceed` (neither `fetch` nor `html` in `Faults`) is needed because `http_get`
calls a beacon absent when the fetch failed; `StringsEnd` (`Overrun` empty) because a name
read past its end is looked up as another one.

| theorem | property |
|---|---|
| `NotFound` | `NotFoundIsAbsent`, if `ReadsSucceed` |
| `Refinement` | `ImplementsBeaconStore`, if `ReadsSucceed` and `StringsEnd` |

`TruthInv` adds to `IInv` what holds then: a pending `ERROR_404` means that the thing is
absent or that no descriptor is left (and then 404.html cannot be opened either, which is
an error), and `content` is nobody else's.  Each action of the server then maps to a
step of `BeaconStore` or to a stutter.

`BeaconListProofs` is about lists of any names without CR, LF and zero byte, and buffers
of any size:

| theorem | property |
|---|---|
| `ListHolds` | the invariant below |
| `PointersStay` | `TypeOK` |
| `EndOfLineFound` | `LoopFindsEndOfLine` |
| `Chosen` | `ChosenIsListedOrCut` |
| `Choosable` | `AllButLastCanBeChosen` |
| `RowsCounted` | `EveryRowIsCounted` |
| `StaysInside` | `LoopsStayInside` |

Where a name begins is a sum over the names before it, which would ask for an induction
over sequences.  The invariant `ListInv` says instead that *there is* a function `f` with
`f[i]` bytes before the name i + 1 (`Laid`): `getAllData` extends it by one name per
step, and a round of `showAllBeacons` stands at `f[k]` and goes on to `f[k + 1]`, up to
the last name, which has lost two characters.  Further parts of
`ListInv` say what each filled row holds (`RowsInv`), that there were as many rounds as
`RowsFilled` says (`AskInv`), and that `getAllData` has written `Written[read]` bytes:
`Written` only grows (`WrittenStep`, `WrittenGrows`), so for `StaysInside` a list that
fits as a whole fits at each step, and what a round takes fits a row (`RowFits`).

`HttpMessageProofs` is about all queries with names without a space, an end of line or
an equals sign, and values without a space or an end of line (`QueryAssumption`):

| theorem | property |
|---|---|
| `Arrives` | `QueryArrives` |
| `LongEnough` | `UrlThatFitsIsRead` |

Its lemmas say where the parts of the URL and of the request line stand
(`UrlParts`, `LineParts`), so that the first line feed, the first two spaces, the first
question mark and the first equals sign are the right ones.

`HttpResponseProofs` is about all data of less than `REQ_LINE_BUFF` bytes, all lists,
all pages and all strings that may lie in memory (`TextAssumption`), and about every place
where the first read may cut a datum:

| theorem | property |
|---|---|
| `NeverReadsLess` | `strtol` reads what `%d` printed, and never less when digits follow |
| `Typing` | `TypeOK` |
| `ArraysHold` | `ArrayHoldsData` |
| `GetsThrough` | `WholeDatumGetsThrough` |
| `ShownWhole` | `ShownIsDatum` |
| `ListKept` | `ListKeepsEmptyLine` |

That no part of an answer is taken for the whole is decided by a test that counts
Content-Length bytes back from the end of what was read, so the properties say nothing
inductive about the buffer.  The invariant `ResponseInv` has a part per stretch of the
way: `Typed` (types), `Fresh` (nothing is read before it is written), `Answered`
(what `send_response` wrote for which body), `Arriving` (what the buffer holds before it
is parsed: the first `cut` bytes, or the rest with what was there before), `Checked`
(what was parsed from it) and `Ended` (what the last function left).  Its argument:

1. The head of an answer holds the spaces and ends of line where the parser looks for
   them (`HeadIs`, `HeadIsRead`), so a whole answer yields its own Content-Length and
   content (`AnswerIsRead`, `WholeIsRead`) and passes the test (`WholeMatches`).
2. A first piece that does not crash the parser holds all header lines
   (`PieceHoldsHead`).  It has no zero byte, so the string that the test finds reaches to
   the end of what was read; with the zero byte that is one byte more than the length
   it counted back by, whatever the length was, and the test fails (`PieceNeverMatches`).
   What remains is a length that reaches out of the buffer.  The head is longer than a
   datum of less than `REQ_LINE_BUFF` bytes, so for that the length must have been misread.
3. What comes after such a piece has no space in it, up to its zero byte: the parser
   finds no header line and crashes (`RestHoldsNoLines`).
4. A misread length is never too small (`NeverReadsLess`), so the content is never cut
   short.

The decimal digits of a number and `strtol` are recursive functions, and the
induction theorems of the library cannot be used here.  `TextLemmas` goes another way: a set of
naturals has a least member (`Least`, from the library's `WFMin`), so a statement about
all of them holds if there is no least counterexample; a function defined by recursion
is the union of its finite pieces (`Recursion`), and satisfies its equation.

`SystemProofs` is about one client, any number of peers and beacons, any length of the
queue and any number of descriptors.  `SystemAssumption` keeps apart the names that the
model gives to different things; that `DUMP` and the cut name are no beacons is the one
part of it that a user could break.

| theorem | property |
|---|---|
| `TypeCorrect` | `TypeOK` |
| `Asker` | `AnswerIsForAsker` |
| `ListComplete` | `AcknowledgedIsListed` |
| `Picked` | `PickedBeaconIsShown` |
| `Environment` | `ClientMeetsItsEnvironment` |
| `ServerEnvironment` | every behaviour of the system is one of `Server` |
| `ClientHolds` | `ShownAnswersSelection`, `NothingShownAfterError` of the client in the system |
| `ServerHolds` | `AnswerGoesToSender`, `AcknowledgedPostIsStored`, `FoundIsStored`, `NotFoundIsAbsent`, `NoAcceptAfterError`, `LifetimeBound` of the server in the system |
| `SystemIsStore` | the system implements `BeaconStore` (`ImplementsBeaconStore` of its server) |

The last three follow from the two before them and from `ClientProofs` and
`ServerRefinement`, which are instantiated (`ClientPart`, `ServerPart`) with the
constants and variables of the system: `PartsAssumption` says what they
assume (there are finitely many beacons, null is none of the things it is
compared with), `ClientAssumed` and `ServerAssumed` prove their assumptions from it, and
`SameClient`, `SameServer` and `SameStore` say that the two instances of a module are the same.
The only fault of the server in `System` is to be killed, so `ReadsSucceed` and
`StringsEnd` hold.

The server never looks at who asks, and the client never looks at who answers; that each
answer is the right one depends on where both stand, so the invariant `Inv` is about both:

1. `ServerControl`, `ClientControl`: the states either can stand in, and that the client
   waits with just the request its state function builds.
2. `Connections`: a connection of the client is in the queue or held by the server, not
   both and not twice, and then the client waits on it or is gone; a reset connection
   belongs to a client that can only fail.
3. `StoreInv`: what was acknowledged or offered is in the data base.  Nothing takes a
   beacon out of it, so this outlives the server's process.
4. `ServiceInv`: what the handlers have made of the request in service, relative to the
   data base and to what the client was told when it asked.
5. `ClientInv`: the same of the pieces in the client's inbox, of the response it has
   parsed and of what it shows.
6. `PeersInv` (for `TypeOK` only): 2 for the peers.

Model-checked only: the liveness properties (TLAPS does not treat fairness).  Every
invariant of a passing run is a theorem.

## 5. Not modelled

* The header lines of a request, which no code of the server looks at, and those of a
  response but Content-Length.
* The contents of memory beyond an overrun buffer.
* The drawing of windows in `src/ncurse_cli.c`; `showAddPage`, `state_error`,
  `delete_data` and `sendPUTrequest` are never called.
* `src/ib_cli.c`, which is commented out as a whole, and the parts without code.
* An answer longer than the 1024 bytes of a read in `HttpMessage` (`Client` has it: the
  page of a 404), and pieces of a request in `System` (`Server` has them).
* More than one client: `System` has one and other peers, which
  store beacons; a second client would be to the first what a peer is.

## 6. Plan

All of the plan is done: `DcFsm`, `Server`, `BeaconStore` and their theorems,
`BeaconList`, `Client`, `System`, `HttpMessage`, the refinement of `BeaconStore`, and
the theorems about `System` and about the text of answers.  What is left to TLC is
what fairness is needed for.
