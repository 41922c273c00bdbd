------------------------------- MODULE System -------------------------------
(***************************************************************************)
(* The whole of ibeacon: one server, one client, other peers that store    *)
(* beacons, and the kernel between them.  The server serves one connection *)
(* per listening socket: while it is being served the next ones wait in    *)
(* the queue of that socket, and when accept_request closes the socket     *)
(* they are reset.  Until it listens again, a round later, connections are *)
(* refused.                                                                *)
(*                                                                         *)
(* Server and Client are instantiated as they are.  What either leaves to  *)
(* its environment is here what the other one does: the server accepts     *)
(* from the queue and reads what was sent, and the client receives what    *)
(* the server writes.  Requests arrive whole (they are short).             *)
(***************************************************************************)
EXTENDS Integers, Sequences, FiniteSets

CONSTANTS
    Keys,        \* names of beacons; the datum of a beacon is named as it is
    Cut,         \* the last name of a list without its last two characters
    DUMP,        \* the key that asks for the list
    Peers,       \* other programs that talk to the server, a connection each
    ListConn,    \* the client's connection for the list
    BeaconConn,  \* the client's connection for the beacon that was picked
    Backlog,     \* connections that wait in the queue of a listening socket
    FdLimit,     \* descriptors the server's process may hold
    DbmFds,      \* descriptors one open DBM holds
    Junk,        \* see Server
    Page404,     \* 404.html
    Null         \* a null pointer

Conns == Peers \cup {ListConn, BeaconConn}
ServerKeys == Keys \cup {Cut, DUMP}
Values == Keys \cup {DUMP}

(* The request the server parses from what peers and the client send. *)
Query(m, k, v) ==
    [method |-> m, kind |-> "query", name |-> k, value |-> v,
     slash |-> TRUE, oversize |-> FALSE]
Post(k) == Query("POST", k, k)
ToServer(r) == Query(r.method, r.key, DUMP)

Requests == {Post(k) : k \in Keys}
                \cup {Query(m, k, DUMP) : m \in {"GET", "PUT"}, k \in ServerKeys}

ASSUME SystemAssumption ==
    /\ Backlog \in Nat \ {0}
    /\ Peers \cap {ListConn, BeaconConn, Null} = {} /\ ListConn # BeaconConn
    /\ Keys \cap {"idle", "silent", "left", "done"} = {}
    /\ {DUMP, Cut, Null, Junk} \cap Keys = {} /\ DUMP # Cut
    /\ Null \notin {DUMP, Cut, ListConn, BeaconConn}
    /\ Null \notin [kind : {"list"}, item : SUBSET Keys] \cup [kind : {"datum"}, item : Keys]

VARIABLES
    \* the server's process (see Server)
    proc, from, to, at, err, listening, fds, db, client_socket_fd, request,
    response, error, content, store, sender, wire, served,
    \* the client's process and its end of the connection (see Client)
    cli_proc, cli_from, cli_to, cli_at, cli_err, cli_method, beacon_selection,
    cli_request, cli_response, data, shown, inbox, answered, closed,
    \* the kernel and the peers
    backlog,     \* the queue of the listening socket
    reset,       \* the client's connection was reset
    peer,        \* "idle", "silent" (connected), the name it sent a POST for,
                 \* "done" (it has its answer) or "left"
    \* history
    acked,       \* names whose POST was answered
    known,       \* acked, when the client asked for the list
    offered      \* the names of the whole list the user picked from

(* The server: all it stores fits into one list. *)
S == INSTANCE Server WITH
        Keys <- ServerKeys, Overrun <- {}, PageNames <- {Page404},
        Pages <- {Page404}, MaxListed <- Cardinality(Keys), Faults <- {"kill"}

(* The client, with names the URL has room for.  Its connect fails when it *)
(* is refused and its read when the connection is reset or the user        *)
(* interrupts it.                                                          *)
C == INSTANCE Client WITH
        LongNames <- {}, Faults <- {"connect", "read", "close"},
        proc <- cli_proc, from <- cli_from, to <- cli_to, at <- cli_at,
        err <- cli_err, method <- cli_method, request <- cli_request,
        response <- cli_response

(* A null pointer is none of the things it may be compared with, and what   *)
(* lies in memory is no name and no datum.                                 *)
ASSUME PartsAssumption ==
    /\ FdLimit \in Nat /\ DbmFds \in Nat /\ IsFiniteSet(Keys)
    /\ Junk \notin ServerKeys \cup Values \cup {Page404}
    /\ Null \notin {Junk, Page404}
    /\ Null \notin S!RequestType \cup S!Bodies \cup S!Responses \cup S!Answers
    /\ Null \notin C!Parsed \cup C!Requests \cup {"GET", "PUT"}

serverVars  == <<proc, from, to, at, err, listening, fds, db, client_socket_fd,
                 request, response, error, content, store, sender, wire, served>>
clientVars  == <<cli_proc, cli_from, cli_to, cli_at, cli_err, cli_method,
                 beacon_selection, cli_request, cli_response, data, shown,
                 inbox, answered, closed>>
kernelVars  == <<backlog, reset, peer>>
historyVars == <<acked, known, offered>>
vars == <<serverVars, clientVars, kernelVars, historyVars>>

Init ==
    /\ S!Init /\ C!Init
    /\ backlog = <<>> /\ reset = FALSE /\ peer = [p \in Peers |-> "idle"]
    /\ acked = {} /\ known = {} /\ offered = {}

-----------------------------------------------------------------------------
Queued(c) == \E i \in DOMAIN backlog : backlog[i] = c

SocketOpen == S!Running /\ listening

(* A new connection; while the queue is full the kernel does not answer. *)
Enqueue(c) ==
    /\ SocketOpen /\ Len(backlog) < Backlog
    /\ backlog' = Append(backlog, c)

(* The client's connection, while it waits for an answer on it. *)
ClientConn == IF cli_to = "GET_ALL" THEN ListConn ELSE BeaconConn
ClientWaits == C!InReadLoop /\ ~reset

(* The connections of the peers in lost are gone; they may try again. *)
Disconnect(lost) ==
    peer' = [p \in Peers |-> IF p \in lost /\ peer[p] \notin {"left", "done"}
                               THEN "idle" ELSE peer[p]]

(* Mutants: nobody is told of the end of the queue; the queue stays.       *)
CloseQueueSilently ==
    /\ backlog' = <<>>
    /\ UNCHANGED <<reset, peer>>

CloseQueueKeepsQueue ==
    /\ reset' = (reset \/ (ClientWaits /\ Queued(ClientConn)))
    /\ UNCHANGED <<backlog, peer>>

(* The listening socket is closed: what is in its queue is reset. *)
CloseQueue ==
    /\ backlog' = <<>>
    /\ reset' = (reset \/ (ClientWaits /\ Queued(ClientConn)))
    /\ Disconnect({p \in Peers : Queued(p)})

-----------------------------------------------------------------------------
(* Steps of the server that no connection sees. *)
ServerWorks ==
    /\ \/ S!InitServer \/ S!Listen \/ S!ListenFails
       \/ S!AcceptFails
       \/ S!HttpGet \/ S!HttpPost \/ S!BuildResponse
    /\ UNCHANGED <<clientVars, kernelVars, historyVars>>

ServerInterrupted ==
    /\ S!AcceptInterrupted
    /\ UNCHANGED <<clientVars, kernelVars, historyVars>>

ServerAccepts ==
    /\ backlog # <<>>
    /\ S!AcceptConn(Head(backlog))
    /\ backlog' = Tail(backlog)
    /\ UNCHANGED <<clientVars, reset, peer, historyVars>>

(* The request that is there to be read on the connection c. *)
Sent(c) ==
    IF c \in Peers THEN {Post(k) : k \in {peer[c]} \cap Keys}
                   ELSE {ToServer(cli_request)}

(* The end of accept_request closes the listening socket. *)
ServerReads ==
    /\ S!Receiving
    /\ \E r \in Sent(client_socket_fd) : S!ReadWhole(r)
    /\ CloseQueue
    /\ UNCHANGED <<clientVars, historyVars>>

ServerReadsEof ==
    /\ client_socket_fd \in Peers /\ peer[client_socket_fd] = "left"
    /\ S!ReadEof
    /\ UNCHANGED <<clientVars, kernelVars, historyVars>>

-----------------------------------------------------------------------------
(* What the client parses a body as. *)
ToClient(body) ==
    CASE body.kind = "list"  -> C!ListOf(body.item)
      [] body.kind = "datum" -> C!DatumOf(body.item)
      [] OTHER               -> C!NotFoundPage

(* send_response without an error: the peer has its acknowledgement, the   *)
(* client its answer, unless it is gone.                                   *)
Answered ==
    LET c == client_socket_fd
    IN  IF c \in Peers
          THEN /\ acked' = acked \cup {request.name}
               /\ peer' = [peer EXCEPT ![c] = "done"]
               /\ UNCHANGED clientVars
          ELSE /\ IF C!InReadLoop /\ c = ClientConn
                    THEN /\ inbox' \in C!Cuttings(ToClient(response.body))
                         /\ answered' = TRUE
                    ELSE UNCHANGED <<inbox, answered>>
               /\ UNCHANGED <<cli_proc, cli_from, cli_to, cli_at, cli_err,
                              cli_method, beacon_selection, cli_request,
                              cli_response, data, shown, closed, acked, peer>>

ServerSends ==
    /\ S!SendResponse
    /\ \/ ~err /\ Answered
       \/ err /\ UNCHANGED <<clientVars, acked, peer>>
    /\ UNCHANGED <<backlog, reset, known, offered>>

(* The process ends, and the kernel closes what it held: a connection with *)
(* an unread request is reset like those in the queue, all others see the  *)
(* end of the stream.                                                      *)
Unread(c) == Queued(c) \/ (S!Receiving /\ client_socket_fd = c)

ConnectionsEnd ==
    /\ backlog' = <<>> /\ Disconnect(Peers)
    /\ reset' = (reset \/ (ClientWaits /\ Unread(ClientConn)))
    /\ closed' = (closed \/ (ClientWaits /\ ~Unread(ClientConn)))
    /\ UNCHANGED <<cli_proc, cli_from, cli_to, cli_at, cli_err, cli_method,
                   beacon_selection, cli_request, cli_response, data, shown,
                   inbox, answered, historyVars>>

ServerEnds ==
    /\ S!InitServerExits \/ S!SendCrashes \/ S!Exit \/ S!BadChange
    /\ ConnectionsEnd

ServerKilled == S!Kill /\ ConnectionsEnd

ServerRestarts ==
    /\ S!Restart
    /\ UNCHANGED <<clientVars, kernelVars, historyVars>>

-----------------------------------------------------------------------------
(* connect: the connection is queued, or refused when nobody listens.  A   *)
(* reset between connect and write looks to the client as one before read. *)
ClientSends ==
    /\ C!GetAllSend \/ C!GetOneSend
    /\ \/ /\ cli_at' = "read"
          /\ Enqueue(ClientConn)
          /\ known' = IF cli_to = "GET_ALL" THEN acked ELSE known
       \/ /\ cli_at' # "read"
          /\ ~SocketOpen
          /\ UNCHANGED <<backlog, known>>
    /\ UNCHANGED <<serverVars, reset, peer, acked, offered>>

ClientWorks ==
    /\ \/ C!GetAllRead \/ C!GetOneRead \/ C!ParseCrashes
       \/ C!GetAllEof \/ C!GetOneEof
       \/ C!ShowOne \/ C!ShowOneCrashes \/ C!BadChange
    /\ UNCHANGED <<serverVars, kernelVars, historyVars>>

ClientReadIsReset ==
    /\ reset
    /\ C!ReadFails
    /\ UNCHANGED <<serverVars, kernelVars, historyVars>>

(* The user: an option, a name, q, ^C while the client waits, or whatever  *)
(* crashes showAllBeacons.                                                 *)
UserActs ==
    /\ \/ \E m \in {"GET", "PUT"} : C!LandingPage(m)
       \/ C!Quit \/ C!ReadFails \/ C!ShowAllCrashes
    /\ UNCHANGED <<serverVars, kernelVars, historyVars>>

UserPicks ==
    /\ \E name \in C!Names : C!ShowAll(name)
    /\ offered' = IF cli_response.part = "whole" THEN cli_response.body.keys ELSE {}
    /\ UNCHANGED <<serverVars, kernelVars, acked, known>>

(* The peers connect, send a POST and wait, or leave without a word. *)
PeerConnects(p) ==
    /\ peer[p] = "idle"
    /\ Enqueue(p)
    /\ peer' = [peer EXCEPT ![p] = "silent"]
    /\ UNCHANGED <<serverVars, clientVars, reset, historyVars>>

PeerActs(p) ==
    /\ peer[p] = "silent"
    /\ \E what \in Keys \cup {"left"} : peer' = [peer EXCEPT ![p] = what]
    /\ UNCHANGED <<serverVars, clientVars, backlog, reset, historyVars>>

-----------------------------------------------------------------------------
(* The steps the server takes by itself when it has something to read. *)
ServerStep ==
    \/ ServerWorks \/ ServerAccepts \/ ServerReads \/ ServerReadsEof
    \/ ServerSends \/ ServerEnds

ClientStep == ClientSends \/ ClientWorks \/ ClientReadIsReset

Next ==
    \/ ServerStep \/ ServerInterrupted \/ ServerKilled \/ ServerRestarts
    \/ ClientStep \/ UserActs \/ UserPicks
    \/ \E p \in Peers : PeerConnects(p) \/ PeerActs(p)

Spec == Init /\ [][Next]_vars

(* Both processes are scheduled, and the kernel delivers what was sent;    *)
(* peers and the user do as they like, and nobody restarts the server.     *)
FairSpec == Spec /\ WF_vars(ServerStep) /\ WF_vars(ClientStep)

-----------------------------------------------------------------------------
(* Every variable of the kernel holds what it can hold: a connection waits  *)
(* at most once, only while the socket is open, and only while its owner    *)
(* has not been told otherwise.                                            *)
TypeOK ==
    /\ backlog \in Seq(Conns) /\ Len(backlog) <= Backlog
    /\ \A i, j \in DOMAIN backlog : backlog[i] = backlog[j] => i = j
    /\ backlog # <<>> => SocketOpen
    /\ \A p \in Peers : Queued(p) => peer[p] \notin {"idle", "done"}
    /\ reset \in BOOLEAN
    /\ peer \in [Peers -> Keys \cup {"idle", "silent", "left", "done"}]
    /\ acked \subseteq Keys /\ known \subseteq acked /\ offered \subseteq Keys

(* The server is the environment that Client assumes: it answers each       *)
(* request of the client at most once, while the client waits for it, with  *)
(* what Client expects: a list that is not empty, the datum of the name in  *)
(* the request, or the page of a 404.                                      *)
ClientMeetsItsEnvironment == C!Spec

(* When send_response writes to a connection of the client, the client is   *)
(* gone, or it waits on this very connection for the answer to this very    *)
(* request, and nothing was written on it before.                          *)
AnswerIsForAsker ==
    S!Answering /\ client_socket_fd \in {ListConn, BeaconConn} =>
        \/ ~C!Running \/ cli_to = "ERROR"
        \/ /\ client_socket_fd = ClientConn /\ C!Waiting /\ ~reset
           /\ request = ToServer(cli_request)

(* A list the client gets has every beacon whose POST was acknowledged      *)
(* before the client asked, whatever crashed and restarted since; and a     *)
(* 404 for the list means that none was.                                   *)
AcknowledgedIsListed ==
    C!Handling("SHOW_ALL") /\ cli_response # Null =>
        known \subseteq cli_response.body.keys

(* A name picked from a whole list (not the one it cuts) is never answered  *)
(* with a 404: between the two requests no beacon is lost, although the     *)
(* server may end and start again.                                         *)
PickedBeaconIsShown ==
    shown # Null /\ beacon_selection \in offered =>
        shown.body = C!DatumOf(beacon_selection)

(* A peer that connected and is silent keeps the server in dc_read.  *)
SilentPeerIsServed ==
    S!Receiving /\ client_socket_fd \in Peers /\ peer[client_socket_fd] = "silent"

(* A request of the client is answered, reset or cut off, unless the server *)
(* hangs on a silent peer for ever: no request is forgotten in the queue.   *)
RequestIsSettled ==
    <>[]SilentPeerIsServed \/ (C!Waiting /\ ~reset ~> ~C!Waiting \/ reset)

(* A client that loses its connection to the closing of the listening       *)
(* socket ends; it does not wait on, nor does it go on to show anything.    *)
ResetEndsClient == reset ~> ~C!Running
=============================================================================
