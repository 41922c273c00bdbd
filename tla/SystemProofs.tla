----------------------------- MODULE SystemProofs -----------------------------
(***************************************************************************)
(* Theorems about System, for any number of peers and beacons, any length  *)
(* of the queue and any limit of descriptors: an answer is written to the  *)
(* client only on the connection it waits on and for the request it sent   *)
(* there, the list it gets has all that was acknowledged before, and each  *)
(* of the two programs is the environment that the other's module assumes. *)
(* The inductive invariant says where both programs stand                  *)
(* (ServerControl, ClientControl), who waits on which connection           *)
(* (Connections), what the data base holds and who was told so (StoreInv), *)
(* and what the server (ServiceInv) and the client (ClientInv) make of it. *)
(* At the end the theorems about either program are carried over to it.    *)
(***************************************************************************)
EXTENDS System, SequenceTheorems, FiniteSetTheorems, TLAPS

(* The pairs of states the server takes as long as there is no error. *)
Legal ==
    { <<"DC_FSM_INIT", "SERVER_INIT">>, <<"SERVER_INIT", "ACCEPT_REQUEST">>,
      <<"ACCEPT_REQUEST", "HTTP_GET">>, <<"ACCEPT_REQUEST", "HTTP_POST">>,
      <<"ACCEPT_REQUEST", "DC_FSM_EXIT">>,
      <<"HTTP_GET", "BUILD_RESPONSE">>, <<"HTTP_POST", "BUILD_RESPONSE">>,
      <<"BUILD_RESPONSE", "SEND_RESPONSE">>, <<"SEND_RESPONSE", "SERVER_INIT">> }

ServerControl ==
    /\ err \in BOOLEAN /\ at \in {"entry", "accept", "recv"}
    /\ S!Running /\ ~err => <<from, to>> \in Legal
    /\ S!Running /\ at # "entry" => ~err /\ to = "ACCEPT_REQUEST"
    /\ S!Running /\ ~err /\ to = "ACCEPT_REQUEST" =>
          request = Null /\ content = Null /\ error = "none"
    /\ backlog # <<>> => S!Running /\ listening

LEMMA ServerControlInit == Init => ServerControl
BY DEF Init, ServerControl, Legal, S!Init, S!Running, S!Fsm!Started

LEMMA ServerControlStep == ServerControl /\ [Next]_vars => ServerControl'
<1> SUFFICES ASSUME ServerControl, [Next]_vars PROVE ServerControl'
    OBVIOUS
<1> USE DEF ServerControl, Legal, S!Running, S!Goto, S!Fsm!Goto, S!Handling, S!Fsm!At
<1>a. ASSUME err' \in BOOLEAN, err => err', UNCHANGED <<proc, backlog, listening>>, at' = "entry",
             to \in {"HTTP_GET", "HTTP_POST", "BUILD_RESPONSE", "SEND_RESPONSE"}, from' = to,
             \/ to' = "BUILD_RESPONSE" /\ to \in {"HTTP_GET", "HTTP_POST"}
             \/ to' = "SEND_RESPONSE" /\ to = "BUILD_RESPONSE"
             \/ to' = "SERVER_INIT" /\ to = "SEND_RESPONSE"
      PROVE  ServerControl'
    BY <1>a
<1>b. ASSUME err, err' = err, UNCHANGED <<proc, backlog, listening>>, at' = "entry"
      PROVE  ServerControl'
    BY <1>b
<1>1. CASE ServerWorks
  <2>0. UNCHANGED backlog
      BY <1>1 DEF ServerWorks, kernelVars
  <2>1. CASE S!InitServer
      BY <2>0, <2>1 DEF S!InitServer
  <2>2. CASE S!Listen
      BY <2>0, <2>2 DEF S!Listen, S!servVars
  <2>3. CASE S!ListenFails
      BY <2>0, <2>3 DEF S!ListenFails, S!ReturnUnset, S!servVars
  <2>4. CASE S!AcceptFails
      BY <2>0, <2>4 DEF S!AcceptFails, S!Accepting, S!ReturnUnset
  <2>5. CASE S!HttpGet
    <3>1. err' \in BOOLEAN /\ (err => err')
      <4>1. CASE err /\ UNCHANGED err
          BY <4>1
      <4>2. CASE ~err /\ S!GetPage
          BY <4>2, Zenon DEF S!GetPage
      <4>3. CASE ~err /\ (S!GetQuery \/ S!GetPartOfList \/ UNCHANGED err)
          BY <4>3 DEF S!GetQuery, S!GetPartOfList
      <4> QED
          BY <2>5, <4>1, <4>2, <4>3 DEF S!HttpGet
    <3>2. UNCHANGED <<proc, listening>> /\ to = "HTTP_GET" /\ S!Goto("BUILD_RESPONSE")
        BY <2>5 DEF S!HttpGet
    <3> QED
        BY <1>a, <2>0, <3>1, <3>2
  <2>6. CASE S!HttpPost
    <3>1. err' = err \/ err' = TRUE
        BY <2>6 DEF S!HttpPost, S!PostQuery
    <3>2. /\ UNCHANGED <<proc, listening>> /\ to = "HTTP_POST"
          /\ S!Goto("BUILD_RESPONSE") \/ (err /\ err' = err /\ at' = "entry")
        BY <2>6 DEF S!HttpPost
    <3> QED
        BY <1>a, <1>b, <2>0, <3>1, <3>2
  <2>7. CASE S!BuildResponse
    <3>1. err' \in BOOLEAN /\ (err => err')
      <4>1. ASSUME S!Get404Page PROVE err' \in BOOLEAN
          BY <4>1, SMT DEF S!Get404Page
      <4>2. (err /\ err' = err) \/ (~err /\ (S!Get404Page \/ err' = err))
          BY <2>7, Zenon DEF S!BuildResponse
      <4> QED
          BY <4>1, <4>2
    <3>2. UNCHANGED <<proc, listening>> /\ S!Goto("SEND_RESPONSE")
        BY <2>7 DEF S!BuildResponse
    <3>3. S!Running /\ to \in {"BUILD_RESPONSE", "ERROR_404", "ERROR_500"}
        BY <2>7 DEF S!BuildResponse
    <3>4. CASE err
        BY <2>0, <3>1, <3>2, <3>4
    <3>5. CASE ~err
      <4>1. to = "BUILD_RESPONSE"
          BY <3>3, <3>5
      <4> QED
          BY <1>a, <2>0, <3>1, <3>2, <4>1
    <3> QED
        BY <3>4, <3>5
  <2> QED
      BY <1>1, <2>1, <2>2, <2>3, <2>4, <2>5, <2>6, <2>7 DEF ServerWorks
<1>2. CASE ServerInterrupted
    BY <1>2 DEF ServerInterrupted, S!AcceptInterrupted, S!fsmVars, kernelVars
<1>3. CASE ServerAccepts
  <2>1. S!AcceptConn(Head(backlog)) /\ backlog' = Tail(backlog) /\ backlog # <<>>
      BY <1>3 DEF ServerAccepts
  <2> QED
      BY <2>1 DEF S!AcceptConn, S!Accepting
<1>4. CASE ServerReads
  <2>1. PICK r : S!ReadWhole(r)
      BY <1>4 DEF ServerReads
  <2>2. S!MethodState(r) \in {"HTTP_GET", "HTTP_POST", "DC_FSM_EXIT"}
      BY DEF S!MethodState
  <2>3. backlog' = <<>>
      BY <1>4 DEF ServerReads, CloseQueue
  <2> QED
      BY <2>1, <2>2, <2>3 DEF S!ReadWhole, S!Receiving, S!FinishAccept
<1>5. CASE ServerReadsEof
    BY <1>5 DEF ServerReadsEof, S!ReadEof, S!Receiving, S!AcceptAnother, S!FinishAccept,
                S!servVars, kernelVars
<1>6. CASE ServerSends
  <2>1. err' = err \/ err' = TRUE
      BY <1>6 DEF ServerSends, S!SendResponse, S!WriteResponse, S!WriteFails
  <2>2. UNCHANGED <<proc, listening, backlog>> /\ to = "SEND_RESPONSE" /\ S!Goto("SERVER_INIT")
      BY <1>6 DEF ServerSends, S!SendResponse
  <2> QED
      BY <1>a, <2>1, <2>2
<1>7. ASSUME proc' # "running", UNCHANGED <<err, at>>, backlog' = <<>> PROVE ServerControl'
    BY <1>7
<1>8. CASE ServerEnds
    BY <1>7, <1>8 DEF ServerEnds, ConnectionsEnd, S!InitServerExits, S!SendCrashes, S!Crash,
                      S!Exit, S!BadChange, S!fsmVars
<1>9. CASE ServerKilled
    BY <1>7, <1>9 DEF ServerKilled, ConnectionsEnd, S!Kill, S!Crash, S!fsmVars
<1>10. CASE ServerRestarts
    BY <1>10 DEF ServerRestarts, S!Restart, kernelVars
<1>11. ASSUME UNCHANGED serverVars, backlog' = backlog \/ SocketOpen PROVE ServerControl'
    BY <1>11 DEF serverVars, SocketOpen
<1>12. CASE ClientStep \/ UserActs \/ UserPicks
    BY <1>11, <1>12 DEF ClientStep, ClientSends, ClientWorks, ClientReadIsReset, UserActs,
                        UserPicks, kernelVars, Enqueue
<1>13. CASE \E p \in Peers : PeerConnects(p) \/ PeerActs(p)
    BY <1>11, <1>13 DEF PeerConnects, PeerActs, Enqueue
<1>14. CASE UNCHANGED vars
    BY <1>11, <1>14 DEF vars, kernelVars
<1> QED
    BY <1>1, <1>2, <1>3, <1>4, <1>5, <1>6, <1>8, <1>9, <1>10, <1>12, <1>13, <1>14
    DEF Next, ServerStep

-----------------------------------------------------------------------------
(* The client will not read from a connection any more. *)
Gone == ~C!Running \/ cli_to = "ERROR"

(* It can only go on with what the server sends, or with an error. *)
Blocked == C!Running /\ cli_at = "read" /\ inbox = <<>> /\ ~closed

Asked == [method |-> IF cli_to = "GET_ALL" THEN cli_method ELSE "GET",
          key    |-> IF cli_to = "GET_ALL" THEN DUMP ELSE beacon_selection]

ClientControl ==
    /\ cli_at \in {"entry", "read", "quit"}
    /\ answered \in BOOLEAN /\ closed \in BOOLEAN
    /\ C!Running /\ cli_at = "read" =>
          C!InReadLoop /\ (~answered => inbox = <<>>) /\ cli_request = Asked
    /\ cli_to = "GET_ALL" => cli_method \in {"GET", "PUT"}
    /\ cli_to = "GET_ONE" => beacon_selection \in C!Names

LEMMA ClientControlInit == Init => ClientControl
BY DEF Init, ClientControl, C!Init, C!Running, C!Fsm!Started

(* A step of the client that sends nothing keeps ClientControl, and leads    *)
(* out of where it is blocked only to its end.                             *)
LEMMA ClientMoves ==
    ASSUME ClientControl, ClientWorks \/ ClientReadIsReset \/ UserActs \/ UserPicks
    PROVE  ClientControl' /\ (Gone \/ Blocked => Gone') /\ UNCHANGED cli_request
<1> USE DEF ClientControl, Asked, Gone, Blocked, C!Running, C!InReadLoop, C!Reading, C!Handling,
            C!Fsm!At, C!Goto, C!Fsm!Goto, C!Transitions
<1>1. CASE C!GetAllRead \/ C!GetOneRead
    BY <1>1 DEF C!GetAllRead, C!GetOneRead, C!TakePiece, C!ReadOn, C!fsmVars
<1>2. ASSUME C!Crash PROVE ClientControl' /\ Gone' /\ UNCHANGED cli_request
    BY <1>2 DEF C!Crash, C!fsmVars, C!clientVars, C!netVars
<1>3. CASE C!ParseCrashes \/ C!ShowOneCrashes \/ C!ShowAllCrashes
    BY <1>2, <1>3 DEF C!ParseCrashes, C!ShowOneCrashes, C!ShowAllCrashes
<1>4. CASE C!GetAllEof
    BY <1>4 DEF C!GetAllEof, C!AtEof, C!clientVars, C!netVars
<1>5. CASE C!GetOneEof
  <2>1. CASE C!Crash
      BY <1>2, <2>1
  <2>2. CASE ~C!Crash
      BY <1>5, <2>2 DEF C!GetOneEof, C!AtEof, C!netVars
  <2> QED
      BY <2>1, <2>2
<1>6. CASE C!ShowOne
    BY <1>6 DEF C!ShowOne, C!netVars
<1>7. CASE C!BadChange
    BY <1>7 DEF C!BadChange, C!fsmVars, C!clientVars, C!netVars
<1>8. CASE C!ReadFails
    BY <1>8 DEF C!ReadFails, C!clientVars, C!netVars
<1>9. CASE \E m \in {"GET", "PUT"} : C!LandingPage(m)
    BY <1>9 DEF C!LandingPage, C!netVars
<1>10. CASE C!Quit
    BY <1>10 DEF C!Quit, C!clientVars, C!netVars
<1>11. CASE UserPicks
  <2>1. PICK name \in C!Names : C!ShowAll(name)
      BY <1>11 DEF UserPicks
  <2> QED
      BY <2>1 DEF C!ShowAll, C!netVars
<1> QED
    BY <1>1, <1>3, <1>4, <1>5, <1>6, <1>7, <1>8, <1>9, <1>10, <1>11
    DEF ClientWorks, ClientReadIsReset, UserActs

(* Sending takes it from the first line of a function to its read loop, or   *)
(* to its end.                                                             *)
LEMMA ClientSending ==
    ASSUME ClientControl, ClientSends
    PROVE  /\ ClientControl' /\ ~Gone /\ ~Blocked /\ ~C!Waiting
           /\ UNCHANGED <<serverVars, reset>>
           /\ \/ C!Waiting' /\ Blocked' /\ UNCHANGED cli_to /\ Enqueue(ClientConn)
              \/ Gone' /\ UNCHANGED backlog
<1> USE DEF ClientControl, Asked, Gone, Blocked, C!Waiting, C!Running, C!InReadLoop, C!Reading,
            C!Handling, C!Fsm!At, C!Goto, C!Fsm!Goto, C!Transitions
<1>1. C!GetAllSend \/ C!GetOneSend
    BY DEF ClientSends
<1>2. C!Running /\ cli_at = "entry" /\ cli_to \in {"GET_ALL", "GET_ONE"}
    BY <1>1 DEF C!GetAllSend, C!GetOneSend
<1>3. /\ UNCHANGED <<serverVars, reset>>
      /\ \/ cli_at' = "read" /\ Enqueue(ClientConn)
         \/ cli_at' # "read" /\ UNCHANGED backlog
    BY DEF ClientSends
<1>4. CASE C!GetAllSend
    BY <1>2, <1>3, <1>4 DEF C!GetAllSend, C!Send, C!CanFail, C!Connected, C!netVars
<1>5. CASE C!GetOneSend
    BY <1>2, <1>3, <1>5 DEF C!GetOneSend, C!Send, C!CanFail, C!Connected, C!netVars
<1> QED
    BY <1>1, <1>4, <1>5

-----------------------------------------------------------------------------
OfClient == {ListConn, BeaconConn}

(* The server reads from the connection c, or serves the request from it. *)
Holding(c) ==
    /\ S!Running /\ ~err /\ client_socket_fd = c
    /\ at = "recv" \/ to \in S!Served

(* A connection waits at most once. *)
Once(c) == \A i, j \in DOMAIN backlog : backlog[i] = c /\ backlog[j] = c => i = j

(* A connection of the client that may still get an answer is the one the    *)
(* client waits on, unless the client is gone; it is in one place only.    *)
Connections ==
    /\ backlog \in Seq(Conns)
    /\ \A c \in OfClient :
          /\ Queued(c) => ~Holding(c)
          /\ Once(c)
          /\ Queued(c) \/ Holding(c) =>
                /\ Gone \/ (c = ClientConn /\ C!Waiting /\ ~reset)
                /\ cli_request \in C!Requests
    /\ reset \in BOOLEAN
    /\ reset => Gone \/ Blocked

LEMMA EmptyQueue == backlog = <<>> => /\ backlog \in Seq(Conns)
                                      /\ \A c : ~Queued(c) /\ Once(c)
BY DEF Queued, Once

LEMMA ConnectionsInit == Init => Connections
BY EmptyQueue DEF Init, Connections, Holding, S!Init, S!Served, S!Fsm!Started

(* What comes to the front of the queue, and what is put behind it. *)
LEMMA QueueFacts ==
    ASSUME NEW T, NEW q \in Seq(T)
    PROVE  /\ q # <<>> => /\ Head(q) \in T /\ Tail(q) \in Seq(T) /\ 1 \in DOMAIN q /\ q[1] = Head(q)
                          /\ \A i \in DOMAIN Tail(q) : i + 1 \in DOMAIN q /\ i + 1 # 1 /\ i \in Nat
                                                       /\ Tail(q)[i] = q[i + 1]
           /\ \A x \in T : /\ Append(q, x) \in Seq(T)
                           /\ \A i \in DOMAIN Append(q, x) :
                                 \/ i \in DOMAIN q /\ Append(q, x)[i] = q[i]
                                 \/ i = Len(q) + 1 /\ Append(q, x)[i] = x
OBVIOUS

(* The server holds no other connection than before when it does not accept. *)
LEMMA HoldingStep ==
    ASSUME ServerControl, NEW c,
           ServerWorks \/ ServerInterrupted \/ ServerReads \/ ServerReadsEof \/ ServerSends
    PROVE  Holding(c)' => Holding(c)
<1> USE DEF Holding, ServerControl, Legal, S!Running, S!Goto, S!Fsm!Goto, S!Handling, S!Fsm!At,
            S!Served
<1>1. CASE ServerWorks
  <2>1. CASE S!InitServer
      BY <2>1 DEF S!InitServer
  <2>2. CASE S!Listen
      BY <2>2 DEF S!Listen, S!servVars
  <2>3. CASE S!ListenFails
      BY <2>3 DEF S!ListenFails, S!ReturnUnset, S!servVars
  <2>4. CASE S!AcceptFails
      BY <2>4 DEF S!AcceptFails, S!Accepting, S!ReturnUnset
  <2>5. CASE S!HttpGet
      BY <2>5 DEF S!HttpGet
  <2>6. CASE S!HttpPost
      BY <2>6 DEF S!HttpPost
  <2>7. CASE S!BuildResponse
      BY <2>7 DEF S!BuildResponse
  <2> QED
      BY <1>1, <2>1, <2>2, <2>3, <2>4, <2>5, <2>6, <2>7 DEF ServerWorks
<1>2. CASE ServerInterrupted
    BY <1>2 DEF ServerInterrupted, S!AcceptInterrupted, S!Accepting, S!fsmVars
<1>3. CASE ServerReads
    BY <1>3 DEF ServerReads, S!ReadWhole, S!Receiving, S!FinishAccept
<1>4. CASE ServerReadsEof
    BY <1>4 DEF ServerReadsEof, S!ReadEof, S!Receiving, S!AcceptAnother, S!FinishAccept, S!servVars
<1>5. CASE ServerSends
    BY <1>5 DEF ServerSends, S!SendResponse
<1> QED
    BY <1>1, <1>2, <1>3, <1>4, <1>5

(* Accepting takes a connection out of the queue, in which it was once. *)
LEMMA Dequeue ==
    ASSUME backlog \in Seq(Conns), ServerAccepts
    PROVE  /\ backlog' \in Seq(Conns) /\ Len(backlog') <= Len(backlog)
           /\ \A c : Once(c) => /\ Queued(c)' => Queued(c) /\ ~Holding(c)'
                                /\ Holding(c)' => Queued(c)
                                /\ Once(c)'
<1>1. backlog # <<>> /\ backlog' = Tail(backlog) /\ S!AcceptConn(Head(backlog))
    BY DEF ServerAccepts
<1>2. /\ 1 \in DOMAIN backlog /\ backlog[1] = Head(backlog) /\ backlog' \in Seq(Conns)
      /\ \A i \in DOMAIN backlog' : i + 1 \in DOMAIN backlog /\ i + 1 # 1 /\ i \in Nat
                                    /\ backlog'[i] = backlog[i + 1]
    BY <1>1, QueueFacts
<1>3. Len(backlog') <= Len(backlog)
    BY <1>1
<1>4. SUFFICES ASSUME NEW c, Once(c)
               PROVE  /\ Queued(c)' => Queued(c) /\ ~Holding(c)'
                      /\ Holding(c)' => Queued(c)
                      /\ Once(c)'
    BY <1>2, <1>3
<1>5. Queued(c)' => Queued(c) /\ c # Head(backlog)
    BY <1>2, <1>4 DEF Queued, Once
<1>6. Holding(c)' => c = Head(backlog) /\ Queued(c)
    BY <1>1, <1>2 DEF Holding, Queued, S!AcceptConn
<1>7. Once(c)'
  <2> SUFFICES ASSUME NEW i \in DOMAIN backlog', NEW j \in DOMAIN backlog',
                      backlog'[i] = c, backlog'[j] = c
               PROVE  i = j
      BY DEF Once
  <2>1. i + 1 = j + 1 /\ i \in Nat /\ j \in Nat
      BY <1>2, <1>4 DEF Once
  <2> QED
      BY <2>1
<1> QED
    BY <1>5, <1>6, <1>7

(* A connection that is put into the queue was not there. *)
LEMMA Enqueued ==
    ASSUME backlog \in Seq(Conns), NEW d \in Conns, Enqueue(d)
    PROVE  /\ backlog' \in Seq(Conns) /\ Len(backlog') <= Backlog
           /\ \A c : Once(c) /\ (c # d \/ ~Queued(c)) =>
                 (Queued(c)' => Queued(c) \/ c = d) /\ Once(c)'
<1>1. /\ backlog' \in Seq(Conns)
      /\ \A i \in DOMAIN backlog' : \/ i \in DOMAIN backlog /\ backlog'[i] = backlog[i]
                                    \/ i = Len(backlog) + 1 /\ backlog'[i] = d
    BY QueueFacts DEF Enqueue
<1>2. Len(backlog') <= Backlog
    BY SystemAssumption DEF Enqueue, SystemAssumption
<1> QED
    BY <1>1, <1>2 DEF Queued, Once

LEMMA ConnectionsStep ==
    ServerControl /\ ClientControl /\ Connections /\ [Next]_vars => ClientControl' /\ Connections'
<1> SUFFICES ASSUME ServerControl, ClientControl, Connections, [Next]_vars
             PROVE  ClientControl' /\ Connections'
    OBVIOUS
<1>0. /\ \A c \in OfClient : c \in Conns /\ c \notin Peers /\ c # Null
      /\ ListConn # BeaconConn /\ ClientConn \in OfClient
      /\ C!Waiting => Blocked /\ ~Gone
      /\ C!InReadLoop => ~Gone /\ C!Running /\ cli_at = "read"
    BY SystemAssumption
    DEF SystemAssumption, OfClient, Conns, ClientConn, C!Waiting, Blocked, Gone, ClientControl,
        C!InReadLoop, C!Reading, C!Handling, C!Fsm!At, C!Running
(* Nothing new waits anywhere, and the client knows what it knew. *)
<1>a. ASSUME UNCHANGED <<clientVars, reset>>, backlog' \in {backlog, <<>>},
             \A c \in OfClient : Holding(c)' => Holding(c)
      PROVE  ClientControl' /\ Connections'
  <2>1. /\ ClientControl'
        /\ Gone' = Gone /\ Blocked' = Blocked /\ ClientConn' = ClientConn
        /\ C!Waiting' = C!Waiting /\ cli_request' = cli_request
      BY <1>a DEF ClientControl, Gone, Blocked, ClientConn, clientVars, C!Waiting, C!Running,
                  C!InReadLoop, C!Reading, C!Handling, C!Fsm!At, Asked
  <2>2. CASE backlog' = backlog
      BY <1>a, <2>1, <2>2 DEF Connections, Queued, Once
  <2>3. CASE backlog' = <<>>
    <3>1. backlog' \in Seq(Conns) /\ \A c : ~Queued(c)' /\ Once(c)'
        BY <2>3 DEF Queued, Once
    <3> QED
        BY <1>a, <2>1, <3>1 DEF Connections
  <2> QED
      BY <1>a, <2>2, <2>3
<1>1. CASE ServerWorks \/ ServerInterrupted \/ ServerReadsEof
    BY <1>1, <1>a, HoldingStep DEF ServerWorks, ServerInterrupted, ServerReadsEof, kernelVars
<1>2. CASE ServerAccepts
  <2>1. /\ backlog # <<>> /\ backlog' = Tail(backlog) /\ S!AcceptConn(Head(backlog))
        /\ UNCHANGED <<clientVars, reset>>
      BY <1>2 DEF ServerAccepts
  <2>3. /\ ClientControl'
        /\ Gone' = Gone /\ Blocked' = Blocked /\ ClientConn' = ClientConn
        /\ C!Waiting' = C!Waiting /\ cli_request' = cli_request
      BY <2>1 DEF ClientControl, Gone, Blocked, ClientConn, clientVars, C!Waiting, C!Running,
                  C!InReadLoop, C!Reading, C!Handling, C!Fsm!At, Asked
  <2>4. /\ backlog' \in Seq(Conns)
        /\ \A c \in OfClient :
              /\ Queued(c)' => Queued(c) /\ ~Holding(c)'
              /\ Holding(c)' => Queued(c)
              /\ Once(c)'
      BY <1>2, Dequeue DEF Connections
  <2> QED
      BY <2>1, <2>3, <2>4 DEF Connections
<1>3. CASE ServerReads
  <2>1. /\ UNCHANGED clientVars /\ backlog' = <<>>
        /\ reset' = (reset \/ (ClientWaits /\ Queued(ClientConn)))
      BY <1>3 DEF ServerReads, CloseQueue
  <2>2. \A c \in OfClient : Holding(c)' => Holding(c)
      BY <1>3, HoldingStep
  <2>3. CASE reset' = reset
      BY <1>a, <2>1, <2>2, <2>3
  <2>4. CASE reset' # reset
    <3>1. C!InReadLoop /\ Queued(ClientConn) /\ reset'
        BY <2>1, <2>4 DEF Connections, ClientWaits
    <3>2. ~Gone /\ Blocked
        BY <1>0, <3>1 DEF Connections
    <3>3. \A c \in OfClient : ~Holding(c)'
        BY <1>0, <2>2, <3>1, <3>2 DEF Connections
    <3>4. /\ ClientControl' /\ Gone' = Gone /\ Blocked' = Blocked
        BY <2>1 DEF ClientControl, Gone, Blocked, clientVars, C!Running,
                    C!InReadLoop, C!Reading, C!Handling, C!Fsm!At, Asked
    <3>5. backlog' \in Seq(Conns) /\ \A c : ~Queued(c)' /\ Once(c)'
        BY <2>1 DEF Queued, Once
    <3> QED
        BY <3>1, <3>2, <3>3, <3>4, <3>5 DEF Connections
  <2> QED
      BY <2>3, <2>4
<1>4. CASE ServerSends
  <2>1. /\ UNCHANGED <<backlog, reset>> /\ S!Running /\ to = "SEND_RESPONSE"
        /\ to' = "SERVER_INIT" /\ at' = "entry"
        /\ UNCHANGED clientVars \/ (~err /\ Answered)
      BY <1>4 DEF ServerSends, S!SendResponse, S!Handling, S!Fsm!At, S!Goto, S!Fsm!Goto
  <2>2. \A c : ~Holding(c)'
      BY <2>1 DEF Holding, S!Served
  <2>3. CASE UNCHANGED clientVars
      BY <1>a, <2>1, <2>2, <2>3
  <2>4. CASE ~err /\ Answered /\ C!InReadLoop /\ client_socket_fd = ClientConn
    <3>1. Holding(ClientConn)
        BY <2>1, <2>4 DEF Holding, S!Served
    <3>2. ~Gone /\ C!Waiting /\ ~reset /\ \A c \in OfClient : ~Queued(c)
        BY <1>0, <2>4, <3>1 DEF Connections
    <3>3. \A c \in OfClient : ~Queued(c)' /\ Once(c)'
        BY <2>1, <3>2 DEF Queued, Once, Connections
    <3>4. client_socket_fd \notin Peers
        BY <1>0, <2>4
    <3>5. answered' = TRUE /\ UNCHANGED <<cli_proc, cli_from, cli_to, cli_at, cli_method,
                                          beacon_selection, cli_request, closed>>
        BY <2>4, <3>4 DEF Answered
    <3>6. ClientControl'
        BY <3>5 DEF ClientControl, C!Running, C!InReadLoop, C!Reading, C!Handling, C!Fsm!At, Asked
    <3>7. backlog' \in Seq(Conns) /\ reset' = FALSE
        BY <2>1, <3>2 DEF Connections
    <3> QED
        BY <2>2, <3>3, <3>6, <3>7 DEF Connections
  <2>5. CASE ~err /\ Answered /\ ~(C!InReadLoop /\ client_socket_fd = ClientConn)
    <3>1. UNCHANGED clientVars
        BY <2>5 DEF Answered, clientVars
    <3> QED
        BY <2>3, <3>1
  <2> QED
      BY <2>1, <2>3, <2>4, <2>5
<1>5. CASE ServerEnds \/ ServerKilled
  <2>1. proc' # "running" /\ ConnectionsEnd
      BY <1>5 DEF ServerEnds, ServerKilled, S!InitServerExits, S!SendCrashes, S!Kill, S!Crash,
                  S!Exit, S!BadChange
  <2>2. /\ UNCHANGED <<cli_proc, cli_from, cli_to, cli_at, cli_method, beacon_selection,
                       cli_request, inbox, answered>>
        /\ backlog' = <<>>
        /\ reset' = (reset \/ (ClientWaits /\ Unread(ClientConn)))
        /\ closed' = (closed \/ (ClientWaits /\ ~Unread(ClientConn)))
      BY <2>1 DEF ConnectionsEnd
  <2>3. ClientControl' /\ Gone' = Gone /\ (closed' = closed => Blocked' = Blocked)
      BY <2>2 DEF ClientControl, Gone, Blocked, C!Running, C!InReadLoop, C!Reading, C!Handling,
                  C!Fsm!At, Asked
  <2>4. \A c : ~Holding(c)'
      BY <2>1 DEF Holding, S!Running
  <2>5. backlog' \in Seq(Conns) /\ \A c : ~Queued(c)' /\ Once(c)'
      BY <2>2 DEF Queued, Once
  <2>6. reset' => Gone' \/ Blocked'
    <3>1. CASE reset
      <4>1. closed' = closed
          BY <2>2, <3>1 DEF ClientWaits, ClientControl
      <4> QED
          BY <2>3, <3>1, <4>1 DEF Connections
    <3>2. CASE ~reset /\ ClientWaits /\ Unread(ClientConn)
      <4>1. Queued(ClientConn) \/ Holding(ClientConn)
          BY <3>2 DEF Unread, Holding, S!Receiving, S!Handling, ServerControl
      <4>2. Blocked
          BY <1>0, <3>2, <4>1 DEF Connections, ClientWaits
      <4>3. closed' = closed
          BY <2>2, <3>2 DEF ClientControl
      <4> QED
          BY <2>3, <4>2, <4>3
    <3> QED
        BY <2>2, <3>1, <3>2
  <2>7. reset' \in BOOLEAN
      BY <2>2 DEF Connections
  <2> QED
      BY <2>3, <2>4, <2>5, <2>6, <2>7 DEF Connections
<1>6. CASE ServerRestarts
  <2>1. /\ UNCHANGED <<clientVars, reset, backlog>>
        /\ at' = "entry" /\ to' = "SERVER_INIT"
      BY <1>6 DEF ServerRestarts, S!Restart, kernelVars
  <2>2. \A c : ~Holding(c)'
      BY <2>1 DEF Holding, S!Served
  <2> QED
      BY <1>a, <2>1, <2>2
<1>7. CASE ClientSends
  <2>1. /\ ClientControl' /\ ~Gone /\ ~Blocked /\ ~C!Waiting
        /\ UNCHANGED <<serverVars, reset>>
        /\ \/ C!Waiting' /\ Blocked' /\ UNCHANGED cli_to /\ Enqueue(ClientConn)
           \/ Gone' /\ UNCHANGED backlog
      BY <1>7, ClientSending
  <2>2. \A c \in OfClient : ~Queued(c) /\ ~Holding(c)
      BY <2>1 DEF Connections
  <2>3. \A c \in OfClient : ~Holding(c)'
      BY <2>1, <2>2 DEF Holding, serverVars, S!Running
  <2>4. CASE Gone' /\ UNCHANGED backlog
    <3>1. \A c \in OfClient : ~Queued(c)' /\ Once(c)'
        BY <2>2, <2>4 DEF Queued, Once, Connections
    <3> QED
        BY <2>1, <2>3, <2>4, <3>1 DEF Connections
  <2>5. CASE C!Waiting' /\ Blocked' /\ UNCHANGED cli_to /\ Enqueue(ClientConn)
    <3>1. ClientConn' = ClientConn /\ ~reset' /\ cli_request' \in C!Requests
      <4>1. cli_request' = Asked' /\ cli_to' \in {"GET_ALL", "GET_ONE"}
          BY <2>1, <2>5 DEF ClientControl, Blocked, C!InReadLoop, C!Reading, C!Handling, C!Fsm!At
      <4>2. cli_request' \in C!Requests
          BY <2>1, <4>1 DEF ClientControl, Asked, C!Requests
      <4> QED
          BY <2>1, <2>5, <4>2 DEF ClientConn, Connections
    <3>2. /\ backlog' \in Seq(Conns)
          /\ \A c \in OfClient : (Queued(c)' => c = ClientConn) /\ Once(c)'
        BY <1>0, <2>2, <2>5, Enqueued DEF Connections
    <3> QED
        BY <2>1, <2>3, <2>5, <3>1, <3>2 DEF Connections
  <2> QED
      BY <2>1, <2>4, <2>5
<1>8. CASE ClientWorks \/ ClientReadIsReset \/ UserActs \/ UserPicks
  <2>1. ClientControl' /\ (Gone \/ Blocked => Gone') /\ UNCHANGED cli_request
      BY <1>8, ClientMoves
  <2>2. UNCHANGED <<serverVars, backlog, reset>>
      BY <1>8 DEF ClientWorks, ClientReadIsReset, UserActs, UserPicks, kernelVars
  <2>3. \A c \in OfClient : Queued(c)' = Queued(c) /\ Holding(c)' = Holding(c) /\ Once(c)' = Once(c)
      BY <2>2 DEF Queued, Holding, Once, serverVars, S!Running
  <2> QED
      BY <1>0, <2>1, <2>2, <2>3 DEF Connections
<1>9. CASE \E p \in Peers : PeerConnects(p)
  <2>1. PICK p \in Peers : PeerConnects(p)
      BY <1>9
  <2>2. UNCHANGED <<serverVars, clientVars, reset>> /\ Enqueue(p) /\ p \in Conns
      BY <2>1 DEF PeerConnects, Conns
  <2>3. /\ backlog' \in Seq(Conns)
        /\ \A c \in OfClient : (Queued(c)' => Queued(c)) /\ Once(c)'
      BY <1>0, <2>2, Enqueued DEF Connections
  <2>4. \A c \in OfClient : Holding(c)' = Holding(c)
      BY <2>2 DEF Holding, serverVars, S!Running
  <2>5. /\ ClientControl'
        /\ Gone' = Gone /\ Blocked' = Blocked /\ ClientConn' = ClientConn
        /\ C!Waiting' = C!Waiting /\ cli_request' = cli_request
      BY <2>2 DEF ClientControl, Gone, Blocked, ClientConn, clientVars, C!Waiting, C!Running,
                  C!InReadLoop, C!Reading, C!Handling, C!Fsm!At, Asked
  <2> QED
      BY <2>2, <2>3, <2>4, <2>5 DEF Connections
<1>10. ASSUME UNCHANGED <<serverVars, clientVars, backlog, reset>> PROVE ClientControl' /\ Connections'
  <2>1. \A c \in OfClient : Holding(c)' = Holding(c)
      BY <1>10 DEF Holding, serverVars, S!Running
  <2> QED
      BY <1>10, <1>a, <2>1
<1>11. CASE (\E p \in Peers : PeerActs(p)) \/ UNCHANGED vars
    BY <1>10, <1>11 DEF PeerActs, vars, kernelVars
<1> QED
    BY <1>1, <1>2, <1>3, <1>4, <1>5, <1>6, <1>7, <1>8, <1>9, <1>11
    DEF Next, ServerStep, ClientStep

-----------------------------------------------------------------------------
(* The beacons in the data base. *)
Stored == {k \in Keys : store[k] = k}

(* A GET for the name is rightly answered with a 404: nobody was told that   *)
(* it is there.                                                            *)
NotThere(name) == (name = DUMP => known = {}) /\ name \notin offered

(* The content of the right answer to a GET for the name. *)
AnswerFor(name, b) ==
    \/ b = [kind |-> "page", item |-> Page404] /\ NotThere(name)
    \/ /\ name = DUMP
       /\ \E L \in SUBSET Stored : b = [kind |-> "list", item |-> L] /\ L # {} /\ known \subseteq L
    \/ name \in Keys /\ b = [kind |-> "datum", item |-> name]

FromPeer == client_socket_fd \in Peers /\ \E k \in Keys : request = Post(k)

FromClient ==
    /\ client_socket_fd \in OfClient
    /\ \E k \in C!Names \cup {DUMP} : request = Query("GET", k, DUMP)
    /\ Gone \/ request = ToServer(cli_request)

(* What is in the data base, and who was told so. *)
StoreInv ==
    /\ store \in [S!StoredNames -> Keys \cup {Null}]
    /\ \A k \in S!StoredNames : store[k] # Null => store[k] = k
    /\ acked \subseteq Stored /\ known \subseteq acked /\ offered \subseteq Stored

(* The request in service, and what its handler made of it. *)
ServiceInv ==
    /\ S!Running /\ at = "recv" => client_socket_fd \in Conns
    /\ S!InService =>
      /\ FromPeer \/ FromClient
      /\ to = "HTTP_GET"  => FromClient /\ error = "none"
      /\ to = "HTTP_POST" => FromPeer /\ error = "none"
      /\ to = "BUILD_RESPONSE" =>
           \/ FromPeer /\ request.name \in Stored
           \/ FromClient /\ error = "ERROR_404" /\ NotThere(request.name)
           \/ FromClient /\ error = "none" /\ AnswerFor(request.name, content)
      /\ to = "SEND_RESPONSE" =>
           \/ FromPeer /\ request.name \in Stored
           \/ FromClient /\ AnswerFor(request.name, response.body)

LEMMA StoreFacts ==
    ASSUME StoreInv
    PROVE  /\ S!Listed = Stored
           /\ Keys \subseteq S!StoredNames /\ C!Names \cup {DUMP} \subseteq S!StoredNames
           /\ \A k \in S!StoredNames : store[k] # Null => k \in Keys /\ k \in Stored /\ store[k] = k
           /\ \A k \in Stored : store[k] # Null
           /\ DUMP \notin Keys
<1>1. Keys \subseteq S!StoredNames /\ C!Names \cup {DUMP} \subseteq S!StoredNames
    BY DEF S!StoredNames, ServerKeys, C!Names
<1>2. \A k \in S!StoredNames : store[k] # Null => k \in Keys /\ k \in Stored /\ store[k] = k
    BY DEF StoreInv, Stored
<1>3. \A k \in Stored : k \in Keys /\ store[k] # Null
    BY SystemAssumption DEF SystemAssumption, Stored
<1>4. S!Listed = Stored
    BY <1>1, <1>2, <1>3 DEF S!Listed
<1> QED
    BY <1>1, <1>2, <1>3, <1>4, SystemAssumption DEF SystemAssumption

(* A list and a datum are no null pointers. *)
LEMMA BodiesAreNotNull ==
    /\ \A L \in SUBSET Keys : [kind |-> "list", item |-> L] # Null
    /\ \A k \in Keys : [kind |-> "datum", item |-> k] # Null
<1>1. \A L \in SUBSET Keys : [kind |-> "list", item |-> L] \in [kind : {"list"}, item : SUBSET Keys]
    OBVIOUS
<1>2. \A k \in Keys : [kind |-> "datum", item |-> k] \in [kind : {"datum"}, item : Keys]
    OBVIOUS
<1> QED
    BY <1>1, <1>2, SystemAssumption DEF SystemAssumption

(* http_get finds the datum, or the whole list, or nothing. *)
LEMMA GetFinds ==
    ASSUME StoreInv, ~err, S!HttpGet, NEW k \in C!Names \cup {DUMP}, request = Query("GET", k, DUMP),
           error = "none"
    PROVE  /\ ~err'
           /\ \/ error' = "ERROR_404" /\ NotThere(k)
              \/ error' = "none" /\ AnswerFor(k, content')
<1>1. request.kind = "query" /\ request.name = k
    BY DEF Query
<1>2. ~S!CanFail("fetch")
    BY DEF S!CanFail
<1>3. S!GetQuery
    BY <1>1, <1>2 DEF S!HttpGet, S!GetPartOfList
<1>4. /\ content' \in S!QueryResults(k)
      /\ error' = IF content' = Null THEN "ERROR_404" ELSE error
      /\ err' = err
    BY <1>1, <1>2, <1>3 DEF S!GetQuery, S!AsRead
<1>5. CASE k = DUMP
  <2>1. known \subseteq Stored /\ DUMP \notin offered
      BY StoreFacts DEF StoreInv, Stored
  <2>2. CASE S!Listed = {}
      BY <1>4, <1>5, <2>1, <2>2, StoreFacts DEF S!QueryResults, NotThere
  <2>3. CASE S!Listed # {}
    <3>1. content' = [kind |-> "list", item |-> Stored] /\ content' # Null
        BY <1>4, <1>5, <2>3, StoreFacts, BodiesAreNotNull DEF S!QueryResults, Stored
    <3>2. AnswerFor(k, content')
        BY <1>5, <2>1, <2>3, <3>1, StoreFacts DEF AnswerFor
    <3> QED
        BY <1>4, <3>1, <3>2
  <2> QED
      BY <2>2, <2>3
<1>6. CASE k # DUMP
  <2>1. k \in S!StoredNames
      BY StoreFacts
  <2>2. CASE store[k] = Null
    <3>1. k \notin offered
        BY <2>2, StoreFacts DEF StoreInv
    <3> QED
        BY <1>4, <1>6, <2>2, <3>1 DEF S!QueryResults, NotThere
  <2>3. CASE store[k] # Null
    <3>1. k \in Keys /\ store[k] = k
        BY <2>1, <2>3, StoreFacts
    <3>2. content' = [kind |-> "datum", item |-> k] /\ content' # Null
        BY <1>4, <1>6, <2>3, <3>1, BodiesAreNotNull DEF S!QueryResults
    <3> QED
        BY <1>4, <3>1, <3>2 DEF AnswerFor
  <2> QED
      BY <2>2, <2>3
<1> QED
    BY <1>5, <1>6
-----------------------------------------------------------------------------
(* An answer to the request for the list, and one to that for a beacon. *)
ListAnswer(b)   == known \subseteq b.keys /\ b.keys \subseteq Stored
BeaconAnswer(b) == b = C!DatumOf(beacon_selection) \/ beacon_selection \notin offered

(* A piece or a response that is as good as the answer it comes from. *)
Proper(p) == p \in C!Parsed /\ (p.part \in {"tail", "garbage"} => p.body = C!NotFoundPage)

(* What the client has of its answer, read and unread. *)
ClientInv ==
    /\ C!Running /\ cli_at = "read" =>
          /\ inbox \in Seq(C!Parsed)
          /\ \A i \in DOMAIN inbox :
                /\ Proper(inbox[i])
                /\ cli_to = "GET_ALL" => ListAnswer(inbox[i].body)
                /\ cli_to = "GET_ONE" => BeaconAnswer(inbox[i].body)
    /\ C!Running /\ cli_to \in {"GET_ALL", "SHOW_ALL"} /\ cli_response # Null =>
          Proper(cli_response) /\ ListAnswer(cli_response.body)
    /\ C!Running /\ cli_to = "GET_ALL" /\ cli_at = "entry" => cli_response = Null
    /\ \/ C!Running /\ cli_to = "GET_ONE" /\ cli_at = "read" /\ data # "zero"
       \/ C!Running /\ cli_to = "SHOW_ONE"
       => Proper(cli_response) /\ BeaconAnswer(cli_response.body)
    /\ C!Running /\ cli_to = "LANDPAGE" =>
          cli_at = "entry" /\ (cli_response = Null \/ cli_from = "SHOW_ONE")
    /\ shown # Null =>
          /\ BeaconAnswer(shown.body)
          /\ C!Running => (cli_at = "quit" /\ cli_to = "SHOW_ONE") \/ cli_from = "SHOW_ONE"

LEMMA ServiceStep ==
    ASSUME ServerControl, ClientControl, Connections, StoreInv, ServiceInv, ClientInv, [Next]_vars
    PROVE  StoreInv' /\ ServiceInv' /\ Stored \subseteq Stored'
<1>0. /\ \A c \in OfClient : c \notin Peers
      /\ Conns = Peers \cup OfClient
      /\ C!Waiting => Blocked
    BY SystemAssumption
    DEF SystemAssumption, OfClient, Conns, C!Waiting, Blocked, ClientControl
(* A request of the client is in service only while it can do nothing. *)
<1>1. S!InService /\ FromClient => Gone \/ Blocked
  <2> SUFFICES ASSUME S!InService, FromClient PROVE Gone \/ Blocked
      OBVIOUS
  <2>1. client_socket_fd \in OfClient /\ Holding(client_socket_fd)
      BY DEF FromClient, Holding, S!InService
  <2> QED
      BY <1>0, <2>1 DEF Connections
<1>a. ASSUME UNCHANGED <<store, historyVars>>, ~S!InService',
             (S!Running /\ at = "recv")' => client_socket_fd' \in Conns
      PROVE  StoreInv' /\ ServiceInv' /\ Stored \subseteq Stored'
    BY <1>a DEF StoreInv, ServiceInv, Stored, historyVars
<1>b. ASSUME UNCHANGED <<store, historyVars>> PROVE StoreInv' /\ Stored' = Stored
    BY <1>b DEF StoreInv, Stored, historyVars
<1>2. CASE ServerWorks
  <2>0. UNCHANGED <<clientVars, historyVars>>
      BY <1>2 DEF ServerWorks
  <2>1. CASE S!InitServer \/ S!Listen \/ S!ListenFails \/ S!AcceptFails
      BY <1>a, <2>0, <2>1
      DEF S!InitServer, S!Listen, S!ListenFails, S!AcceptFails, S!Accepting, S!ReturnUnset, S!Goto,
          S!Fsm!Goto, S!servVars, S!Handling, S!Fsm!At, S!InService, S!Served
  <2>2. CASE S!HttpGet /\ err
      BY <1>a, <2>0, <2>2 DEF S!HttpGet, S!InService, S!Goto
  <2>3. CASE S!HttpGet /\ ~err
    <3>1. /\ S!InService /\ to = "HTTP_GET" /\ to' = "BUILD_RESPONSE" /\ at' = "entry"
          /\ UNCHANGED <<proc, client_socket_fd, request, store>>
        BY <2>3 DEF S!HttpGet, S!Handling, S!Fsm!At, S!Goto, S!Fsm!Goto, S!InService, S!Served
    <3>2. FromClient /\ error = "none"
        BY <3>1 DEF ServiceInv
    <3>3. PICK k \in C!Names \cup {DUMP} : request = Query("GET", k, DUMP)
        BY <3>2 DEF FromClient
    <3>4. /\ ~err'
          /\ \/ error' = "ERROR_404" /\ NotThere(k)
             \/ error' = "none" /\ AnswerFor(k, content')
        BY <2>3, <3>2, <3>3, GetFinds
    <3>5. FromClient' /\ request'.name = k
        BY <2>0, <3>1, <3>2, <3>3 DEF FromClient, Gone, clientVars, C!Running, Query
    <3>6. StoreInv' /\ Stored' = Stored
        BY <1>b, <2>0, <3>1
    <3>7. /\ NotThere(k) => NotThere(k)'
          /\ AnswerFor(k, content') => AnswerFor(k, content)'
        BY <2>0, <3>6 DEF NotThere, AnswerFor, historyVars
    <3> QED
        BY <3>1, <3>4, <3>5, <3>6, <3>7 DEF ServiceInv
  <2>4. CASE S!HttpPost /\ err
      BY <1>a, <2>0, <2>4 DEF S!HttpPost, S!InService, S!Goto
  <2>5. CASE S!HttpPost /\ ~err
    <3>1. /\ S!InService /\ to = "HTTP_POST" /\ to' = "BUILD_RESPONSE" /\ at' = "entry"
          /\ UNCHANGED <<proc, client_socket_fd, request>> /\ S!PostQuery
        BY <2>5 DEF S!HttpPost, S!Handling, S!Fsm!At, S!Goto, S!Fsm!Goto, S!InService, S!Served
    <3>2. FromPeer
        BY <3>1 DEF ServiceInv
    <3>3. PICK k \in Keys : request = Post(k)
        BY <3>2 DEF FromPeer
    <3>4. store' = [store EXCEPT ![k] = k]
        BY <3>1, <3>3 DEF S!PostQuery, S!AsRead, S!CanFail, Post, Query
    <3>5. StoreInv' /\ Stored \subseteq Stored' /\ k \in Stored'
      <4>1. k \in S!StoredNames
          BY StoreFacts
      <4>2. \A n \in S!StoredNames : store'[n] = IF n = k THEN k ELSE store[n]
          BY <3>4, <4>1 DEF StoreInv
      <4>3. Stored \subseteq Stored' /\ k \in Stored'
          BY <4>2, StoreFacts DEF Stored
      <4> QED
          BY <2>0, <3>4, <4>2, <4>3 DEF StoreInv, historyVars
    <3>6. FromPeer' /\ request'.name = k
        BY <3>1, <3>2, <3>3 DEF FromPeer, Post, Query
    <3> QED
        BY <3>1, <3>5, <3>6 DEF ServiceInv
  <2>6. CASE S!BuildResponse /\ (err \/ err')
      BY <1>a, <2>0, <2>6 DEF S!BuildResponse, S!InService, S!Goto
  <2>7. CASE S!BuildResponse /\ ~err /\ ~err'
    <3>1. /\ S!InService /\ to = "BUILD_RESPONSE" /\ to' = "SEND_RESPONSE" /\ at' = "entry"
          /\ UNCHANGED <<proc, client_socket_fd, request, store>>
          /\ response' = [status |-> S!StatusOf(error), body |-> content']
          /\ \/ error = "ERROR_404" /\ S!Get404Page
             \/ error # "ERROR_404" /\ content' = content
        BY <2>7
        DEF S!BuildResponse, S!Handling, S!Fsm!At, S!Goto, S!Fsm!Goto, S!InService, S!Served,
            ServerControl, Legal
    <3>2. response'.body = content'
        BY <3>1
    <3>3. error = "ERROR_404" => content' = [kind |-> "page", item |-> Page404]
        BY <2>7, <3>1 DEF S!Get404Page, S!GetHtml, S!HtmlOutcomes, S!CanFail
    <3>4. StoreInv' /\ Stored' = Stored
        BY <1>b, <2>0, <3>1
    <3>5. (FromPeer => FromPeer') /\ (FromClient => FromClient')
        BY <2>0, <3>1 DEF FromPeer, FromClient, Gone, clientVars, C!Running
    <3>6. \/ FromPeer /\ request.name \in Stored
          \/ FromClient /\ AnswerFor(request.name, content')
        BY <3>1, <3>3 DEF ServiceInv, AnswerFor
    <3>7. AnswerFor(request.name, content') => AnswerFor(request.name, response.body)'
        BY <2>0, <3>1, <3>2, <3>4 DEF NotThere, AnswerFor, historyVars
    <3> QED
        BY <3>1, <3>4, <3>5, <3>6, <3>7 DEF ServiceInv
  <2> QED
      BY <1>2, <2>1, <2>2, <2>3, <2>4, <2>5, <2>6, <2>7 DEF ServerWorks
<1>3. CASE ServerInterrupted
    BY <1>3, <1>a DEF ServerInterrupted, S!AcceptInterrupted, S!Accepting, S!Handling, S!Fsm!At,
                      S!fsmVars, S!InService, S!Served
<1>4. CASE ServerAccepts
  <2>1. Head(backlog) \in Conns
      BY <1>4, QueueFacts DEF ServerAccepts, Connections
  <2> QED
      BY <1>4, <1>a, <2>1 DEF ServerAccepts, S!AcceptConn, S!Accepting, S!Handling, S!Fsm!At,
                              S!InService, S!Served
<1>5. CASE ServerReads
  <2>1. PICK r \in Sent(client_socket_fd) : S!ReadWhole(r)
      BY <1>5 DEF ServerReads
  <2>2. /\ S!Running /\ ~err /\ at = "recv" /\ error = "none" /\ at' = "entry"
        /\ request' = r /\ to' = S!MethodState(r)
        /\ UNCHANGED <<proc, err, client_socket_fd, error, store>>
      BY <2>1 DEF S!ReadWhole, S!Receiving, S!FinishAccept, S!Goto, S!Fsm!Goto, S!Handling, S!Fsm!At,
                  ServerControl
  <2>3. UNCHANGED <<clientVars, historyVars>>
      BY <1>5 DEF ServerReads
  <2>4. StoreInv' /\ Stored' = Stored
      BY <1>b, <2>2, <2>3
  <2>5. client_socket_fd \in Peers \/ client_socket_fd \in OfClient
      BY <1>0, <2>2 DEF ServiceInv
  <2>6. CASE client_socket_fd \in Peers
    <3>1. PICK k \in Keys : r = Post(k)
        BY <2>1, <2>6 DEF Sent
    <3>2. to' = "HTTP_POST" /\ FromPeer'
        BY <2>2, <2>6, <3>1 DEF S!MethodState, Post, Query, FromPeer
    <3> QED
        BY <2>2, <2>4, <3>2 DEF ServiceInv
  <2>7. CASE client_socket_fd \in OfClient
    <3>1. r = ToServer(cli_request) /\ cli_request \in C!Requests
      <4>1. Holding(client_socket_fd)
          BY <2>2 DEF Holding
      <4> QED
          BY <1>0, <2>1, <2>7, <4>1 DEF Sent, Connections
    <3>2. CASE cli_request.method = "GET"
      <4>1. to' = "HTTP_GET"
          BY <2>2, <3>1, <3>2 DEF S!MethodState, ToServer, Query
      <4>2. FromClient'
          BY <2>2, <2>3, <2>7, <3>1, <3>2 DEF FromClient, ToServer, clientVars, C!Requests
      <4> QED
          BY <2>2, <2>4, <4>1, <4>2 DEF ServiceInv
    <3>3. CASE cli_request.method = "PUT"
      <4>1. to' = "DC_FSM_EXIT"
          BY <2>2, <3>1, <3>3 DEF S!MethodState, ToServer, Query
      <4> QED
          BY <2>2, <2>4, <4>1 DEF ServiceInv, S!InService, S!Served
    <3> QED
        BY <3>1, <3>2, <3>3 DEF C!Requests
  <2> QED
      BY <2>5, <2>6, <2>7
<1>6. CASE ServerReadsEof
    BY <1>6, <1>a DEF ServerReadsEof, S!ReadEof, S!Receiving, S!AcceptAnother, S!Handling, S!Fsm!At,
                      S!servVars, S!InService, S!Served, ServerControl
<1>7. CASE ServerSends
  <2>1. /\ S!Running /\ to = "SEND_RESPONSE" /\ to' = "SERVER_INIT" /\ at' = "entry"
        /\ UNCHANGED <<store, known, offered>>
        /\ acked' = acked \/ (~err /\ client_socket_fd \in Peers
                                 /\ acked' = acked \cup {request.name})
      BY <1>7 DEF ServerSends, Answered, S!SendResponse, S!Handling, S!Fsm!At, S!Goto, S!Fsm!Goto
  <2>2. acked' \subseteq Stored /\ acked \subseteq acked'
    <3>1. CASE acked' = acked
        BY <3>1 DEF StoreInv
    <3>2. CASE acked' # acked
      <4>1. S!InService /\ client_socket_fd \in Peers /\ acked' = acked \cup {request.name}
          BY <2>1, <3>2 DEF S!InService, S!Served
      <4>2. request.name \in Stored
          BY <1>0, <2>1, <4>1 DEF ServiceInv, FromClient
      <4> QED
          BY <4>1, <4>2 DEF StoreInv
    <3> QED
        BY <3>1, <3>2
  <2>3. StoreInv' /\ Stored' = Stored
      BY <2>1, <2>2 DEF StoreInv, Stored
  <2> QED
      BY <2>1, <2>3 DEF ServiceInv, S!InService, S!Served
<1>8. CASE ServerEnds \/ ServerKilled
    BY <1>8, <1>a DEF ServerEnds, ServerKilled, ConnectionsEnd, S!InitServerExits, S!SendCrashes,
                      S!Kill, S!Crash, S!Exit, S!BadChange, S!Running, S!InService
<1>9. CASE ServerRestarts
    BY <1>9, <1>a DEF ServerRestarts, S!Restart, S!InService, S!Served
(* The client and the peers leave a request in service as it is. *)
<1>c. ASSUME UNCHANGED serverVars, StoreInv',
             S!InService /\ FromClient => FromClient' /\ UNCHANGED <<known, offered>>
      PROVE  ServiceInv' /\ Stored' = Stored
  <2>1. /\ Stored' = Stored /\ S!InService' = S!InService /\ FromPeer' = FromPeer
        /\ UNCHANGED <<proc, at, client_socket_fd, to, error, request, content, response>>
      BY <1>c DEF serverVars, Stored, S!InService, S!Running, FromPeer
  <2>2. ASSUME UNCHANGED <<known, offered>>
        PROVE  /\ NotThere(request.name)' = NotThere(request.name)
               /\ AnswerFor(request.name, content)' = AnswerFor(request.name, content)
               /\ AnswerFor(request.name, response.body)' = AnswerFor(request.name, response.body)
      BY <2>1, <2>2 DEF NotThere, AnswerFor
  <2> QED
      BY <1>c, <2>1, <2>2 DEF ServiceInv, S!Running
<1>10. CASE ClientSends
  <2>1. ~Gone /\ ~Blocked /\ UNCHANGED serverVars
      BY <1>10, ClientSending
  <2>2. UNCHANGED <<store, acked, offered>> /\ known' \in {known, acked}
      BY <1>10, <2>1 DEF ClientSends, serverVars
  <2>3. StoreInv'
      BY <2>2 DEF StoreInv, Stored
  <2> QED
      BY <1>1, <1>c, <2>1, <2>3
<1>11. CASE ClientWorks \/ ClientReadIsReset \/ UserActs \/ UserPicks
  <2>1. (Gone \/ Blocked => Gone') /\ UNCHANGED serverVars /\ UNCHANGED <<store, acked, known>>
      BY <1>11, ClientMoves DEF ClientWorks, ClientReadIsReset, UserActs, UserPicks, historyVars,
                                serverVars
  <2>2. S!InService /\ FromClient => FromClient'
      BY <1>1, <2>1 DEF FromClient, serverVars
  <2>3. CASE UNCHANGED offered
    <3>1. StoreInv'
        BY <2>1, <2>3 DEF StoreInv, Stored
    <3> QED
        BY <1>c, <2>1, <2>2, <2>3, <3>1
  <2>4. CASE UserPicks
    <3>1. C!Running /\ cli_to = "SHOW_ALL" /\ cli_response # Null
        BY <2>4 DEF UserPicks, C!ShowAll, C!Handling, C!Fsm!At
    <3>2. ~Gone /\ ~Blocked
        BY <3>1 DEF Gone, Blocked, ClientControl, C!InReadLoop, C!Reading, C!Handling, C!Fsm!At
    <3>3. offered' \subseteq Stored
        BY <2>4, <3>1 DEF UserPicks, ClientInv, ListAnswer
    <3>4. StoreInv'
        BY <2>1, <3>3 DEF StoreInv, Stored
    <3> QED
        BY <1>1, <1>c, <2>1, <3>2, <3>4
  <2> QED
      BY <1>11, <2>3, <2>4 DEF ClientWorks, ClientReadIsReset, UserActs, historyVars
<1>12. CASE (\E p \in Peers : PeerConnects(p) \/ PeerActs(p)) \/ UNCHANGED vars
  <2>1. UNCHANGED <<serverVars, clientVars, historyVars>>
      BY <1>12 DEF PeerConnects, PeerActs, vars
  <2>2. StoreInv' /\ (FromClient => FromClient') /\ UNCHANGED <<known, offered>>
      BY <1>b, <2>1 DEF serverVars, clientVars, historyVars, FromClient, Gone, C!Running
  <2> QED
      BY <1>c, <2>1, <2>2
<1> QED
    BY <1>2, <1>3, <1>4, <1>5, <1>6, <1>7, <1>8, <1>9, <1>10, <1>11, <1>12
    DEF Next, ServerStep, ClientStep
(* The pieces of an answer, and what the parser makes of one. *)
LEMMA CuttingsAreProper ==
    ASSUME NEW b \in C!Bodies, NEW q \in C!Cuttings(b)
    PROVE  /\ q \in Seq(C!Parsed)
           /\ \A i \in DOMAIN q : Proper(q[i]) /\ q[i].body = b
<1>1. ~C!CanFail("split")
    BY DEF C!CanFail
<1>2. \A part \in {"whole", "head", "tail"} : [part |-> part, body |-> b] \in C!Parsed
    BY DEF C!Parsed, C!Pieces
<1>3. CASE b = C!NotFoundPage
  <2>1. q = <<[part |-> "head", body |-> b], [part |-> "tail", body |-> b],
              [part |-> "tail", body |-> b]>>
      BY <1>3 DEF C!Cuttings
  <2> QED
      BY <1>2, <1>3, <2>1 DEF Proper
<1>4. CASE b # C!NotFoundPage
  <2>1. q = <<[part |-> "whole", body |-> b]>>
      BY <1>1, <1>4 DEF C!Cuttings
  <2> QED
      BY <1>2, <2>1 DEF Proper
<1> QED
    BY <1>3, <1>4

LEMMA ParsesIsProper ==
    ASSUME NEW p, Proper(p), NEW q \in C!Parses(p)
    PROVE  Proper(q) /\ q.body = p.body
<1>1. ~C!CanFail("stray")
    BY DEF C!CanFail
<1>2. CASE p.part \in {"tail", "garbage"}
    BY <1>2 DEF Proper, C!Parses, C!Garbage, C!Parsed
<1>3. CASE p.part = "head"
    BY <1>3 DEF C!Parses
<1>4. CASE p.part \notin {"tail", "garbage", "head"}
  <2>1. q = [p EXCEPT !.part = "whole"]
      BY <1>1, <1>4 DEF C!Parses
  <2>2. p.body \in C!Bodies /\ p = [part |-> p.part, body |-> p.body]
      BY <1>4 DEF Proper, C!Parsed, C!Pieces, C!Garbage
  <2>3. q = [part |-> "whole", body |-> p.body]
      BY <2>1, <2>2
  <2> QED
      BY <2>2, <2>3 DEF Proper, C!Parsed, C!Pieces
<1> QED
    BY <1>2, <1>3, <1>4

LEMMA ClientInvInit == Init => ClientInv
BY DEF Init, ClientInv, C!Init, C!Fsm!Started

(* What send_response writes is right for the request the client waits with. *)
LEMMA AnswerIsRight ==
    ASSUME ClientControl, StoreInv, ServiceInv, C!InReadLoop,
           S!InService, to = "SEND_RESPONSE", client_socket_fd \in OfClient
    PROVE  LET b == ToClient(response.body)
           IN  /\ b \in C!Bodies
               /\ cli_to = "GET_ALL" => ListAnswer(b)
               /\ cli_to = "GET_ONE" => BeaconAnswer(b)
<1> DEFINE b == ToClient(response.body)
<1>1. client_socket_fd \notin Peers
    BY SystemAssumption DEF SystemAssumption, OfClient
<1>2. FromClient /\ AnswerFor(request.name, response.body)
    BY <1>1 DEF ServiceInv, FromPeer
<1>3. ~Gone /\ cli_request = Asked
    BY DEF Gone, ClientControl, C!InReadLoop, C!Reading, C!Handling, C!Fsm!At, C!Running
<1>4. request.name = IF cli_to = "GET_ALL" THEN DUMP ELSE beacon_selection
    BY <1>2, <1>3 DEF FromClient, ToServer, Query, Asked
<1>5. cli_to = "GET_ONE" => beacon_selection # DUMP
    BY SystemAssumption DEF SystemAssumption, ClientControl, C!Names
<1>6. CASE response.body = [kind |-> "page", item |-> Page404] /\ NotThere(request.name)
  <2>1. b = C!NotFoundPage
      BY <1>6 DEF ToClient
  <2> QED
      BY <1>4, <1>6, <2>1 DEF NotThere, ListAnswer, BeaconAnswer, C!NotFoundPage, C!Bodies
<1>7. ASSUME NEW L \in SUBSET Stored, request.name = DUMP, known \subseteq L,
             response.body = [kind |-> "list", item |-> L]
      PROVE  /\ b \in C!Bodies
             /\ cli_to = "GET_ALL" => ListAnswer(b)
             /\ cli_to = "GET_ONE" => BeaconAnswer(b)
  <2>1. b = C!ListOf(L) /\ L \in SUBSET Keys
      BY <1>7 DEF ToClient, Stored
  <2> QED
      BY <1>4, <1>5, <1>7, <2>1 DEF ListAnswer, C!ListOf, C!Bodies
<1>8. CASE request.name \in Keys /\ response.body = [kind |-> "datum", item |-> request.name]
  <2>1. b = C!DatumOf(request.name)
      BY <1>8 DEF ToClient
  <2>2. cli_to # "GET_ALL"
      BY <1>4, <1>8, SystemAssumption DEF SystemAssumption
  <2> QED
      BY <1>4, <1>8, <2>1, <2>2 DEF BeaconAnswer, C!Bodies
<1> QED
    BY <1>2, <1>6, <1>7, <1>8 DEF AnswerFor

LEMMA ClientInvStep ==
    ASSUME ServerControl, ClientControl, Connections, StoreInv, ServiceInv, ClientInv, [Next]_vars,
           Stored \subseteq Stored', StoreInv'
    PROVE  ClientInv'
(* Nothing but the ends of the connection changes for the client. *)
<1>a. ASSUME UNCHANGED <<cli_proc, cli_from, cli_to, cli_at, beacon_selection, cli_response,
                         data, shown, inbox, known, offered>>
      PROVE  ClientInv'
    BY <1>a DEF ClientInv, C!Running, ListAnswer, BeaconAnswer
(* The client ends, or has an error. *)
<1>b. ASSUME UNCHANGED <<beacon_selection, shown, offered>>, shown = Null \/ ~C!Running',
             ~C!Running' \/ (cli_to' = "ERROR" /\ cli_at' # "read")
      PROVE  ClientInv'
    BY <1>b DEF ClientInv, C!Running, BeaconAnswer
(* Nothing is shown yet while any other function runs. *)
<1>c. C!Running /\ <<cli_from, cli_to>> \in C!Transitions /\ cli_at # "quit" => shown = Null
    BY DEF ClientInv, C!Transitions
<1>1. CASE ServerWorks \/ ServerInterrupted \/ ServerAccepts \/ ServerReads \/ ServerReadsEof
              \/ ServerRestarts
    BY <1>1, <1>a DEF ServerWorks, ServerInterrupted, ServerAccepts, ServerReads, ServerReadsEof,
                      ServerRestarts, clientVars, historyVars
<1>2. CASE ServerEnds \/ ServerKilled
    BY <1>2, <1>a DEF ServerEnds, ServerKilled, ConnectionsEnd, historyVars
<1>3. CASE ServerSends
  <2>1. /\ UNCHANGED <<cli_proc, cli_from, cli_to, cli_at, beacon_selection, cli_response,
                       data, shown, known, offered>>
        /\ \/ UNCHANGED inbox
           \/ ~err /\ C!InReadLoop /\ client_socket_fd = ClientConn
                   /\ inbox' \in C!Cuttings(ToClient(response.body))
      BY <1>3 DEF ServerSends, Answered, clientVars
  <2>2. CASE UNCHANGED inbox
      BY <1>a, <2>1, <2>2
  <2>3. CASE ~err /\ C!InReadLoop /\ client_socket_fd = ClientConn
                /\ inbox' \in C!Cuttings(ToClient(response.body))
    <3> DEFINE b == ToClient(response.body)
    <3>1. S!InService /\ to = "SEND_RESPONSE" /\ client_socket_fd \in OfClient
        BY <1>3, <2>3 DEF ServerSends, S!SendResponse, S!Handling, S!Fsm!At, S!InService, S!Served,
                          ClientConn, OfClient
    <3>2. /\ b \in C!Bodies
          /\ cli_to = "GET_ALL" => ListAnswer(b)
          /\ cli_to = "GET_ONE" => BeaconAnswer(b)
        BY <2>3, <3>1, AnswerIsRight
    <3>3. /\ inbox' \in Seq(C!Parsed)
          /\ \A i \in DOMAIN inbox' : Proper(inbox'[i]) /\ inbox'[i].body = b
        BY <2>3, <3>2, CuttingsAreProper
    <3>4. \A d \in C!Bodies : /\ ListAnswer(d) => ListAnswer(d)'
                              /\ BeaconAnswer(d) => BeaconAnswer(d)'
        BY <2>1 DEF ListAnswer, BeaconAnswer
    <3> QED
        BY <2>1, <3>2, <3>3, <3>4 DEF ClientInv, C!Running, ListAnswer, BeaconAnswer
  <2> QED
      BY <2>1, <2>2, <2>3
<1>4. CASE ClientSends
  <2>1. /\ C!Running /\ cli_at = "entry" /\ cli_to \in {"GET_ALL", "GET_ONE"}
        /\ <<cli_from, cli_to>> \in C!Transitions
        /\ UNCHANGED <<cli_proc, beacon_selection, cli_response, shown, offered>>
        /\ cli_to = "GET_ALL" \/ cli_at' # "read" \/ data' = "zero"
        /\ \/ cli_at' = "read" /\ inbox' = <<>> /\ UNCHANGED <<cli_from, cli_to>>
           \/ cli_at' = "entry" /\ cli_to' = "ERROR"
      BY <1>4 DEF ClientSends, C!GetAllSend, C!GetOneSend, C!Send, C!CanFail, C!Connected,
                  C!Handling, C!Fsm!At, C!Goto, C!Fsm!Goto
  <2>2. shown = Null
      BY <1>c, <2>1
  <2>3. CASE cli_at' = "entry" /\ cli_to' = "ERROR"
      BY <1>b, <2>1, <2>2, <2>3
  <2>4. CASE cli_at' = "read" /\ inbox' = <<>> /\ UNCHANGED <<cli_from, cli_to>>
    <3>1. cli_to = "GET_ALL" => cli_response' = Null
        BY <2>1 DEF ClientInv
    <3> QED
        BY <2>1, <2>2, <2>4, <3>1 DEF ClientInv, C!Running
  <2> QED
      BY <2>1, <2>3, <2>4
<1>d. ASSUME C!InReadLoop, C!TakePiece
      PROVE  /\ Proper(cli_response')
             /\ cli_to = "GET_ALL" => ListAnswer(cli_response'.body)
             /\ cli_to = "GET_ONE" => BeaconAnswer(cli_response'.body)
             /\ inbox' \in Seq(C!Parsed) /\ \A i \in DOMAIN inbox' : i + 1 \in DOMAIN inbox
                                              /\ inbox'[i] = inbox[i + 1]
  <2>1. C!Running /\ cli_at = "read"
      BY <1>d DEF C!InReadLoop, C!Reading, C!Handling
  <2>2. inbox # <<>> /\ inbox' = Tail(inbox) /\ cli_response' \in C!Parses(Head(inbox))
      BY <1>d DEF C!TakePiece
  <2>3. inbox \in Seq(C!Parsed)
      BY <2>1 DEF ClientInv
  <2>4. /\ 1 \in DOMAIN inbox /\ inbox[1] = Head(inbox) /\ inbox' \in Seq(C!Parsed)
        /\ \A i \in DOMAIN inbox' : i + 1 \in DOMAIN inbox /\ inbox'[i] = inbox[i + 1]
      BY <2>2, <2>3, QueueFacts
  <2>5. Proper(cli_response') /\ cli_response'.body = Head(inbox).body
      BY <2>1, <2>2, <2>4, ParsesIsProper DEF ClientInv
  <2> QED
      BY <2>1, <2>4, <2>5 DEF ClientInv
<1>5. CASE ClientWorks \/ ClientReadIsReset \/ UserActs
  <2>0. UNCHANGED historyVars
      BY <1>5 DEF ClientWorks, ClientReadIsReset, UserActs
  <2>1. CASE C!GetAllRead
    BY <1>c, <1>d, <2>0, <2>1
    DEF C!GetAllRead, C!TakePiece, C!ReadOn, C!fsmVars, C!InReadLoop, C!Reading, C!Handling, C!Fsm!At,
        C!Goto, C!Fsm!Goto, ClientInv, ListAnswer, BeaconAnswer, C!Running, historyVars
  <2>2. CASE C!GetOneRead
    BY <1>c, <1>d, <2>0, <2>2
    DEF C!GetOneRead, C!TakePiece, C!ReadOn, C!fsmVars, C!InReadLoop, C!Reading, C!Handling, C!Fsm!At,
        C!Goto, C!Fsm!Goto, ClientInv, ListAnswer, BeaconAnswer, C!Running, historyVars
  <2>3. ASSUME C!Crash PROVE ClientInv'
      BY <1>b, <2>0, <2>3 DEF C!Crash, C!Running, C!clientVars, historyVars
  <2>4. CASE C!ParseCrashes \/ C!ShowOneCrashes \/ C!ShowAllCrashes
      BY <2>3, <2>4 DEF C!ParseCrashes, C!ShowOneCrashes, C!ShowAllCrashes
  <2>5. CASE C!GetAllEof
    BY <1>c, <2>0, <2>5
    DEF C!GetAllEof, C!clientVars, C!netVars, C!Reading, C!Handling, C!Fsm!At, C!Goto, C!Fsm!Goto,
        ClientInv, ListAnswer, BeaconAnswer, C!Running, historyVars
  <2>6. CASE C!GetOneEof
    <3>1. CASE C!Crash
        BY <2>3, <3>1
    <3>2. CASE ~C!Crash
      <4>1. /\ C!Running /\ cli_to = "GET_ONE" /\ cli_at = "read" /\ data # "zero"
            /\ <<cli_from, cli_to>> \in C!Transitions
            /\ cli_response' \in C!Parses(cli_response)
            /\ cli_to' = "SHOW_ONE" /\ cli_at' = "entry"
            /\ UNCHANGED <<cli_proc, beacon_selection, shown>>
          BY <2>6, <3>2 DEF C!GetOneEof, C!Reading, C!Handling, C!Fsm!At, C!Goto, C!Fsm!Goto
      <4>2. Proper(cli_response') /\ cli_response'.body = cli_response.body
          BY <4>1, ParsesIsProper DEF ClientInv
      <4> QED
          BY <1>c, <2>0, <4>1, <4>2 DEF ClientInv, BeaconAnswer, C!Running, historyVars
    <3> QED
        BY <3>1, <3>2
  <2>7. CASE C!ShowOne
    BY <2>0, <2>7
    DEF C!ShowOne, C!netVars, C!Handling, C!Fsm!At, ClientInv, BeaconAnswer, C!Running, historyVars
  <2>8. CASE C!BadChange
    BY <1>b, <2>0, <2>8 DEF C!BadChange, C!clientVars, C!Running, historyVars
  <2>9. CASE C!ReadFails
    BY <1>b, <1>c, <2>0, <2>9
    DEF C!ReadFails, C!clientVars, C!InReadLoop, C!Reading, C!Handling, C!Fsm!At, C!Goto, C!Fsm!Goto,
        historyVars
  <2>10. CASE \E m \in {"GET", "PUT"} : C!LandingPage(m)
    BY <1>c, <2>0, <2>10
    DEF C!LandingPage, C!netVars, C!Handling, C!Fsm!At, C!Goto, C!Fsm!Goto, C!Transitions,
        ClientInv, BeaconAnswer, C!Running, historyVars
  <2>11. CASE C!Quit
    BY <2>0, <2>11
    DEF C!Quit, C!clientVars, C!netVars, C!Handling, C!Fsm!At, C!Goto, C!Fsm!Goto,
        ClientInv, BeaconAnswer, C!Running, historyVars
  <2> QED
      BY <1>5, <2>1, <2>2, <2>4, <2>5, <2>6, <2>7, <2>8, <2>9, <2>10, <2>11
      DEF ClientWorks, ClientReadIsReset, UserActs
<1>6. CASE UserPicks
  <2>1. PICK name \in C!Names : C!ShowAll(name)
      BY <1>6 DEF UserPicks
  <2>2. /\ C!Running /\ <<cli_from, cli_to>> \in C!Transitions /\ cli_to = "SHOW_ALL"
        /\ cli_to' = "GET_ONE" /\ cli_at' = "entry" /\ UNCHANGED shown
      BY <2>1 DEF C!ShowAll, C!Handling, C!Fsm!At, C!Goto, C!Fsm!Goto
  <2>3. shown = Null
      BY <2>2 DEF ClientInv, C!Transitions
  <2> QED
      BY <2>2, <2>3 DEF ClientInv
<1>7. CASE (\E p \in Peers : PeerConnects(p) \/ PeerActs(p)) \/ UNCHANGED vars
    BY <1>7, <1>a DEF PeerConnects, PeerActs, vars, clientVars, historyVars
<1> QED
    BY <1>1, <1>2, <1>3, <1>4, <1>5, <1>6, <1>7 DEF Next, ServerStep, ClientStep
-----------------------------------------------------------------------------
Inv ==
    /\ ServerControl /\ ClientControl /\ Connections
    /\ StoreInv /\ ServiceInv /\ ClientInv

LEMMA ServiceInit == Init => StoreInv /\ ServiceInv
BY DEF Init, StoreInv, ServiceInv, Stored, S!Init, S!InService, S!Served, S!Fsm!Started, S!Running

LEMMA Invariance == Spec => []Inv
<1>1. Init => Inv
    BY ServerControlInit, ClientControlInit, ConnectionsInit, ServiceInit, ClientInvInit DEF Inv
<1>2. Inv /\ [Next]_vars => Inv'
    BY ServerControlStep, ConnectionsStep, ServiceStep, ClientInvStep DEF Inv
<1> QED
    BY <1>1, <1>2, PTL DEF Spec

(* An answer is written on a connection of the client only while the client  *)
(* waits on it, for the request it sent there, or when the client is gone:  *)
(* the two processes keep apart what belongs to the two connections.       *)
THEOREM Asker == Spec => []AnswerIsForAsker
<1>1. Inv => AnswerIsForAsker
  <2> SUFFICES ASSUME Inv, S!Answering, client_socket_fd \in OfClient
               PROVE  \/ ~C!Running \/ cli_to = "ERROR"
                      \/ /\ client_socket_fd = ClientConn /\ C!Waiting /\ ~reset
                         /\ request = ToServer(cli_request)
      BY DEF AnswerIsForAsker, OfClient
  <2>1. S!InService /\ Holding(client_socket_fd) /\ to = "SEND_RESPONSE"
      BY DEF S!Answering, S!Handling, S!Fsm!At, S!InService, S!Served, Holding
  <2>2. client_socket_fd \notin Peers
      BY SystemAssumption DEF SystemAssumption, OfClient
  <2>3. FromClient
      BY <2>1, <2>2 DEF Inv, ServiceInv, FromPeer
  <2> QED
      BY <2>1, <2>3 DEF Inv, Connections, FromClient, Gone
<1> QED
    BY <1>1, Invariance, PTL

(* Every beacon whose POST was acknowledged before the client asked is in    *)
(* the list it gets, through kills and restarts of the server.             *)
THEOREM ListComplete == Spec => []AcknowledgedIsListed
<1>1. Inv => AcknowledgedIsListed
    BY DEF Inv, ClientInv, ListAnswer, AcknowledgedIsListed, C!Handling, C!Fsm!At
<1> QED
    BY <1>1, Invariance, PTL

(* A beacon picked from a whole list is found by the second request.        *)
THEOREM Picked == Spec => []PickedBeaconIsShown
<1>1. Inv => PickedBeaconIsShown
    BY DEF Inv, ClientInv, BeaconAnswer, PickedBeaconIsShown
<1> QED
    BY <1>1, Invariance, PTL

-----------------------------------------------------------------------------
(* The server answers as Client expects it of its environment. *)
LEMMA AnswersAsExpected ==
    ASSUME Inv, ServerSends, C!InReadLoop, ~err, client_socket_fd = ClientConn, Answered
    PROVE  C!Waiting /\ \E body \in C!AnswersTo(cli_request) : C!ServerAnswers(body)
<1>1. S!InService /\ to = "SEND_RESPONSE" /\ client_socket_fd \in OfClient
    BY DEF ServerSends, S!SendResponse, S!Handling, S!Fsm!At, S!InService, S!Served, ClientConn,
           OfClient
<1>2. client_socket_fd \notin Peers
    BY <1>1, SystemAssumption DEF SystemAssumption, OfClient
<1>3. FromClient /\ AnswerFor(request.name, response.body)
    BY <1>1, <1>2 DEF Inv, ServiceInv, FromPeer
<1>4. ~Gone
    BY DEF Inv, ClientControl, Gone, C!InReadLoop, C!Reading, C!Handling, C!Fsm!At
<1>5. C!Waiting /\ cli_request \in C!Requests
    BY <1>1, <1>4 DEF Inv, Connections, Holding, S!InService
<1>6. request = ToServer(cli_request) /\ request.method = "GET"
    BY <1>3, <1>4 DEF FromClient, Query
<1>7. cli_request.method = "GET" /\ request.name = cli_request.key
    BY <1>5, <1>6 DEF ToServer, Query, C!Requests
<1> DEFINE b == ToClient(response.body)
<1>8. b \in C!AnswersTo(cli_request)
  <2>1. CASE response.body = [kind |-> "page", item |-> Page404]
      BY <2>1 DEF ToClient, C!AnswersTo
  <2>2. ASSUME NEW L \in SUBSET Stored, L # {}, request.name = DUMP,
               response.body = [kind |-> "list", item |-> L]
        PROVE  b \in C!AnswersTo(cli_request)
    <3>1. b = C!ListOf(L) /\ L \in (SUBSET Keys) \ {{}}
        BY <2>2 DEF ToClient, Stored
    <3> QED
        BY <1>7, <2>2, <3>1 DEF C!AnswersTo
  <2>3. CASE request.name \in Keys /\ response.body = [kind |-> "datum", item |-> request.name]
    <3>1. b = C!DatumOf(request.name)
        BY <2>3 DEF ToClient
    <3>2. request.name # DUMP
        BY <2>3, SystemAssumption DEF SystemAssumption
    <3> QED
        BY <1>7, <2>3, <3>1, <3>2 DEF C!AnswersTo
  <2> QED
      BY <1>3, <2>1, <2>2, <2>3 DEF AnswerFor
<1>9. C!ServerAnswers(b)
    BY <1>2, <1>5, <1>7 DEF Answered, C!ServerAnswers, C!fsmVars, C!clientVars
<1> QED
    BY <1>5, <1>8, <1>9

(* The server, the kernel and the peers do nothing to the client but what    *)
(* Client lets its environment do: what is proved and checked about Client *)
(* holds for it in this system.                                            *)
THEOREM Environment == Spec => ClientMeetsItsEnvironment
<1>1. Init => C!Init
    BY DEF Init
<1>2. Inv /\ [Next]_vars => [C!Next]_(C!vars)
  <2> SUFFICES ASSUME Inv, [Next]_vars PROVE C!Next \/ UNCHANGED C!vars
      OBVIOUS
  <2>a. ASSUME UNCHANGED clientVars PROVE UNCHANGED C!vars
      BY <2>a DEF clientVars, C!vars, C!fsmVars, C!clientVars, C!netVars
  <2>1. CASE ServerWorks \/ ServerInterrupted \/ ServerAccepts \/ ServerReads \/ ServerReadsEof
                \/ ServerRestarts
      BY <2>1, <2>a DEF ServerWorks, ServerInterrupted, ServerAccepts, ServerReads, ServerReadsEof,
                        ServerRestarts
  <2>2. CASE ServerSends
    <3>1. CASE UNCHANGED clientVars
        BY <2>a, <3>1
    <3>2. CASE ~err /\ Answered /\ C!InReadLoop /\ client_socket_fd = ClientConn
        BY <2>2, <3>2, AnswersAsExpected DEF C!Next, C!EnvironmentStep
    <3>3. UNCHANGED clientVars \/ (~err /\ Answered /\ C!InReadLoop /\ client_socket_fd = ClientConn)
        BY <2>2 DEF ServerSends, Answered, clientVars
    <3> QED
        BY <3>1, <3>2, <3>3
  <2>3. CASE ServerEnds \/ ServerKilled
    <3>1. ConnectionsEnd
        BY <2>3 DEF ServerEnds, ServerKilled
    <3>2. CASE closed' = closed
        BY <2>a, <3>1, <3>2 DEF ConnectionsEnd, clientVars
    <3>3. CASE closed' # closed
      <4>1. C!Running /\ cli_at = "read" /\ ~closed /\ closed' = TRUE
          BY <3>1, <3>3 DEF ConnectionsEnd, ClientWaits, C!InReadLoop, C!Reading, C!Handling, Inv,
                            ClientControl
      <4>2. C!ServerCloses
          BY <3>1, <4>1 DEF ConnectionsEnd, C!ServerCloses, C!CanFail, C!fsmVars, C!clientVars
      <4> QED
          BY <4>2 DEF C!Next, C!EnvironmentStep
    <3> QED
        BY <3>2, <3>3
  <2>4. CASE ClientSends
      BY <2>4 DEF ClientSends, C!Next, C!ClientStep
  <2>5. CASE ClientWorks \/ ClientReadIsReset \/ UserActs \/ UserPicks
      BY <2>5 DEF ClientWorks, ClientReadIsReset, UserActs, UserPicks, C!Next, C!ClientStep,
                  C!EnvironmentStep
  <2>6. CASE (\E p \in Peers : PeerConnects(p) \/ PeerActs(p)) \/ UNCHANGED vars
      BY <2>6, <2>a DEF PeerConnects, PeerActs, vars
  <2> QED
      BY <2>1, <2>2, <2>3, <2>4, <2>5, <2>6 DEF Next, ServerStep, ClientStep
<1> QED
    BY <1>1, <1>2, Invariance, PTL DEF Spec, ClientMeetsItsEnvironment, C!Spec

(* And the server meets its own: it reads only requests and accepts only      *)
(* connections that Server allows for.                                     *)
THEOREM ServerEnvironment == Spec => S!Spec
<1>1. Init => S!Init
    BY DEF Init
<1>2. Inv /\ [Next]_vars => [S!Next]_(S!vars)
  <2> SUFFICES ASSUME Inv, [Next]_vars PROVE S!Next \/ UNCHANGED S!vars
      OBVIOUS
  <2>a. ASSUME UNCHANGED serverVars PROVE UNCHANGED S!vars
      BY <2>a DEF serverVars, S!vars, S!fsmVars, S!servVars
  <2>1. CASE ServerWorks \/ ServerInterrupted \/ ServerReadsEof \/ ServerSends \/ ServerEnds
                \/ ServerKilled \/ ServerRestarts
      BY <2>1 DEF ServerWorks, ServerInterrupted, ServerReadsEof, ServerSends, ServerEnds,
                  ServerKilled, ServerRestarts, S!Next, S!ServerStep, S!EnvironmentStep
  <2>2. CASE ServerAccepts
    <3>1. Head(backlog) \in Conns
        BY <2>2, QueueFacts DEF ServerAccepts, Inv, Connections
    <3> QED
        BY <2>2, <3>1 DEF ServerAccepts, S!Next, S!EnvironmentStep
  <2>3. CASE ServerReads
    <3>1. PICK r \in Sent(client_socket_fd) : S!ReadWhole(r)
        BY <2>3 DEF ServerReads
    <3>2. r \in Requests
      <4>1. S!Running /\ at = "recv" /\ ~err
          BY <3>1 DEF S!ReadWhole, S!Receiving, S!Handling, Inv, ServerControl
      <4>2. CASE client_socket_fd \in Peers
          BY <3>1, <4>2 DEF Sent, Requests
      <4>3. CASE client_socket_fd \notin Peers
        <5>1. client_socket_fd \in OfClient /\ Holding(client_socket_fd)
            BY <4>1, <4>3 DEF Inv, ServiceInv, Conns, OfClient, Holding
        <5>2. r = ToServer(cli_request) /\ cli_request \in C!Requests
            BY <3>1, <4>3, <5>1 DEF Sent, Inv, Connections
        <5> QED
            BY <5>2 DEF ToServer, C!Requests, C!Names, Requests, ServerKeys
      <4> QED
          BY <4>2, <4>3
    <3> QED
        BY <3>1, <3>2 DEF S!Next, S!EnvironmentStep
  <2>4. CASE ClientSends \/ ClientWorks \/ ClientReadIsReset \/ UserActs \/ UserPicks
      BY <2>4, <2>a DEF ClientSends, ClientWorks, ClientReadIsReset, UserActs, UserPicks
  <2>5. CASE (\E p \in Peers : PeerConnects(p) \/ PeerActs(p)) \/ UNCHANGED vars
      BY <2>5, <2>a DEF PeerConnects, PeerActs, vars
  <2> QED
      BY <2>1, <2>2, <2>3, <2>4, <2>5 DEF Next, ServerStep, ClientStep
<1> QED
    BY <1>1, <1>2, Invariance, PTL DEF Spec, S!Spec

-----------------------------------------------------------------------------
(* A peer is in one place only, and knows that it waits. *)
PeersInv ==
    /\ peer \in [Peers -> Keys \cup {"idle", "silent", "left", "done"}]
    /\ Len(backlog) <= Backlog
    /\ \A p \in Peers : /\ Once(p) /\ (Queued(p) => ~Holding(p))
                        /\ Queued(p) \/ Holding(p) => peer[p] \notin {"idle", "done"}

LEMMA PeersInit == Init => PeersInv
BY EmptyQueue, SystemAssumption
DEF Init, PeersInv, Holding, S!Init, S!Served, S!Fsm!Started, SystemAssumption

LEMMA PeersStep == Inv /\ PeersInv /\ [Next]_vars => PeersInv'
<1> SUFFICES ASSUME Inv, PeersInv, [Next]_vars PROVE PeersInv'
    OBVIOUS
<1>0. /\ backlog \in Seq(Conns) /\ Peers \subseteq Conns
      /\ Keys \cap {"idle", "silent", "left", "done"} = {}
      /\ \A p \in Peers : p \notin OfClient
      /\ Backlog \in Nat
    BY SystemAssumption DEF Inv, Connections, Conns, SystemAssumption, OfClient
<1>a. ASSUME UNCHANGED <<backlog, peer>>, \A p \in Peers : Holding(p)' => Holding(p)
      PROVE  PeersInv'
    BY <1>a DEF PeersInv, Queued, Once
(* The queue is lost, and of the peers those that hear of it. *)
<1>b. ASSUME NEW lost, Disconnect(lost), backlog' = <<>>,
             \A p \in Peers : Holding(p)' => Holding(p) /\ p \notin lost
      PROVE  PeersInv'
  <2>1. Len(backlog') <= Backlog /\ \A p : ~Queued(p)' /\ Once(p)'
      BY <1>0, <1>b DEF Queued, Once
  <2>2. /\ peer' \in [Peers -> Keys \cup {"idle", "silent", "left", "done"}]
        /\ \A p \in Peers : p \notin lost => peer'[p] = peer[p]
      BY <1>b DEF Disconnect, PeersInv
  <2> QED
      BY <1>b, <2>1, <2>2 DEF PeersInv
<1>1. CASE ServerWorks \/ ServerInterrupted \/ ServerReadsEof
    BY <1>1, <1>a, HoldingStep
    DEF Inv, ServerWorks, ServerInterrupted, ServerReadsEof, kernelVars
<1>2. CASE ServerAccepts
    BY <1>0, <1>2, Dequeue DEF PeersInv, ServerAccepts
<1>3. CASE ServerReads
    BY <1>3, <1>b, HoldingStep DEF Inv, PeersInv, ServerReads, CloseQueue
<1>4. CASE ServerSends
  <2>1. \A c : ~Holding(c)'
      BY <1>4 DEF ServerSends, S!SendResponse, S!Goto, S!Fsm!Goto, Holding, S!Served
  <2>2. CASE UNCHANGED peer
      BY <1>4, <1>a, <2>1, <2>2 DEF ServerSends
  <2>3. CASE ~UNCHANGED peer
    <3>1. /\ client_socket_fd \in Peers /\ peer' = [peer EXCEPT ![client_socket_fd] = "done"]
          /\ Holding(client_socket_fd) /\ UNCHANGED backlog
        BY <1>4, <2>3 DEF ServerSends, Answered, S!SendResponse, S!Handling, S!Fsm!At, Holding,
                          S!Served
    <3> QED
        BY <2>1, <3>1 DEF PeersInv, Queued, Once
  <2> QED
      BY <2>2, <2>3
<1>5. CASE ServerEnds \/ ServerKilled
  <2>1. ConnectionsEnd /\ proc' # "running"
      BY <1>5 DEF ServerEnds, ServerKilled, S!InitServerExits, S!SendCrashes, S!Kill, S!Crash,
                  S!Exit, S!BadChange
  <2> QED
      BY <1>b, <2>1 DEF ConnectionsEnd, Holding, S!Running
<1>6. CASE ServerRestarts
    BY <1>6, <1>a DEF ServerRestarts, S!Restart, kernelVars, Holding, S!Served
<1>c. ASSUME UNCHANGED serverVars PROVE \A c : Holding(c)' = Holding(c)
    BY <1>c DEF serverVars, Holding, S!Running
<1>7. CASE ClientSends
  <2>1. UNCHANGED <<serverVars, peer>> /\ (UNCHANGED backlog \/ Enqueue(ClientConn))
      BY <1>7 DEF ClientSends
  <2>2. ClientConn \in Conns /\ ClientConn \in OfClient
      BY DEF ClientConn, Conns, OfClient
  <2>3. CASE UNCHANGED backlog
      BY <1>a, <1>c, <2>1, <2>3
  <2>4. CASE Enqueue(ClientConn)
      BY <1>0, <1>c, <2>1, <2>2, <2>4, Enqueued DEF PeersInv
  <2> QED
      BY <2>1, <2>3, <2>4
<1>8. CASE ClientWorks \/ ClientReadIsReset \/ UserActs \/ UserPicks \/ UNCHANGED vars
    BY <1>8, <1>a, <1>c DEF ClientWorks, ClientReadIsReset, UserActs, UserPicks, kernelVars, vars
<1>9. ASSUME NEW p \in Peers, PeerConnects(p) PROVE PeersInv'
  <2>1. ~Queued(p) /\ ~Holding(p)
      BY <1>9 DEF PeerConnects, PeersInv
  <2>2. \A c : Holding(c)' = Holding(c)
      BY <1>9, <1>c DEF PeerConnects
  <2>3. /\ Len(backlog') <= Backlog
        /\ \A q \in Peers : (Queued(q)' => Queued(q) \/ q = p) /\ Once(q)'
      BY <1>0, <1>9, <2>1, Enqueued DEF PeerConnects, PeersInv
  <2> QED
      BY <1>9, <2>1, <2>2, <2>3 DEF PeerConnects, PeersInv
<1>10. ASSUME NEW p \in Peers, PeerActs(p) PROVE PeersInv'
  <2>1. PICK what \in Keys \cup {"left"} : peer' = [peer EXCEPT ![p] = what]
      BY <1>10 DEF PeerActs
  <2>2. what \notin {"idle", "done"}
      BY <1>0
  <2>3. UNCHANGED backlog /\ \A c : Holding(c)' = Holding(c)
      BY <1>10, <1>c DEF PeerActs
  <2> QED
      BY <2>1, <2>2, <2>3 DEF PeersInv, Queued, Once
<1> QED
    BY <1>1, <1>2, <1>3, <1>4, <1>5, <1>6, <1>7, <1>8, <1>9, <1>10
    DEF Next, ServerStep, ClientStep

(* Type correctness: a connection waits in one place only and as long as the *)
(* socket is open, and no peer is idle while the server has its connection. *)
THEOREM TypeCorrect == Spec => []TypeOK
<1>1. Inv /\ PeersInv => TypeOK
  <2> SUFFICES ASSUME Inv, PeersInv PROVE TypeOK
      OBVIOUS
  <2>1. backlog \in Seq(Conns) /\ \A c \in Conns : Once(c)
      BY DEF Inv, Connections, PeersInv, Conns, OfClient
  <2>2. \A i, j \in DOMAIN backlog : backlog[i] = backlog[j] => i = j
      BY <2>1 DEF Once
  <2>3. backlog # <<>> => SocketOpen
      BY DEF Inv, ServerControl, SocketOpen
  <2>4. acked \subseteq Keys /\ known \subseteq acked /\ offered \subseteq Keys
      BY DEF Inv, StoreInv, Stored
  <2>5. reset \in BOOLEAN
      BY DEF Inv, Connections
  <2> QED
      BY <2>1, <2>2, <2>3, <2>4, <2>5 DEF PeersInv, TypeOK
<1> QED
    BY <1>1, Invariance, PeersInit, PeersStep, PTL DEF Spec

-----------------------------------------------------------------------------
(* What is proved about either program by itself, for the programs of this  *)
(* system: the modules of those proofs with the constants and variables    *)
(* that S and C have.                                                      *)
ClientPart == INSTANCE ClientProofs WITH
    LongNames <- {}, Faults <- {"connect", "read", "close"},
    proc <- cli_proc, from <- cli_from, to <- cli_to, at <- cli_at,
    err <- cli_err, method <- cli_method, request <- cli_request,
    response <- cli_response

ServerPart == INSTANCE ServerRefinement WITH
    Keys <- ServerKeys, Overrun <- {}, PageNames <- {Page404},
    Pages <- {Page404}, MaxListed <- Cardinality(Keys), Faults <- {"kill"}

LEMMA ClientAssumed == ClientPart!ClientAssumption
BY SystemAssumption, PartsAssumption
DEF SystemAssumption, PartsAssumption, ClientPart!ClientAssumption, ClientPart!FaultKinds,
    C!FaultKinds, C!Names, C!Requests, C!ListOf, C!DatumOf, C!NotFoundPage, C!Bodies, C!Pieces,
    C!Garbage, C!Parsed, ClientPart!FaultKinds, ClientPart!Names, ClientPart!Requests,
    ClientPart!ListOf, ClientPart!DatumOf, ClientPart!NotFoundPage, ClientPart!Bodies,
    ClientPart!Pieces, ClientPart!Garbage, ClientPart!Parsed

LEMMA ServerAssumed == ServerPart!ServerAssumption
<1>1. DUMP \in ServerKeys /\ Page404 \in {Page404} /\ {"kill"} \subseteq ServerPart!FaultKinds
    BY DEF ServerKeys, ServerPart!FaultKinds
<1>2. Junk \notin ServerKeys \cup Values \cup {Page404}
    BY PartsAssumption DEF PartsAssumption
<1>3. /\ Requests \subseteq ServerPart!RequestType
      /\ \A r \in Requests : /\ r.method # "garbled" /\ r.kind = "query"
                             /\ r.name \in ServerKeys /\ r.value \in Values
  <2> SUFFICES ASSUME NEW r \in Requests
               PROVE  /\ r \in ServerPart!RequestType
                      /\ r.method # "garbled" /\ r.kind = "query"
                      /\ r.name \in ServerKeys /\ r.value \in Values
      OBVIOUS
  <2>1. PICK m \in {"GET", "POST", "PUT"}, k \in ServerKeys, v \in Values : r = Query(m, k, v)
      BY DEF Requests, Post, ServerKeys, Values
  <2> QED
      BY <2>1 DEF Query, ServerPart!RequestType, ServerPart!Methods
<1>4. FdLimit \in Nat /\ DbmFds \in Nat
    BY PartsAssumption DEF PartsAssumption
<1>5. Cardinality(Keys) \in Nat
    BY PartsAssumption, FS_CardinalityType DEF PartsAssumption
<1>6. Null \notin ServerKeys \cup Values \cup {Junk} \cup {Page404} \cup Conns
    BY SystemAssumption, PartsAssumption
    DEF SystemAssumption, PartsAssumption, ServerKeys, Values, Conns
<1>7. Null \notin ServerPart!RequestType \cup ServerPart!Bodies \cup ServerPart!Responses
                 \cup ServerPart!Answers
    BY PartsAssumption
    DEF PartsAssumption, S!Methods, S!RequestType, S!FaultKinds, S!StoredNames, S!StoredData,
        S!Data, S!Bodies, S!Statuses, S!Responses, S!Answers, ServerPart!Methods,
        ServerPart!RequestType, ServerPart!FaultKinds, ServerPart!StoredNames,
        ServerPart!StoredData, ServerPart!Data, ServerPart!Bodies, ServerPart!Statuses,
        ServerPart!Responses, ServerPart!Answers
<1> QED
    BY <1>1, <1>2, <1>3, <1>4, <1>5, <1>6, <1>7 DEF ServerPart!ServerAssumption

(* S and C are these very programs. *)
LEMMA SameClient ==
    /\ C!Init <=> ClientPart!Init
    /\ [C!Next]_(C!vars) <=> [ClientPart!Next]_(ClientPart!vars)
    /\ C!ShownAnswersSelection <=> ClientPart!ShownAnswersSelection
    /\ C!NothingShownAfterError <=> ClientPart!NothingShownAfterError
<1>1. C!Init <=> ClientPart!Init
    BY DEF C!Transitions, C!Init, C!Fsm!Started, ClientPart!Transitions, ClientPart!Init,
       ClientPart!Fsm!Started
<1>2. [C!Next]_(C!vars) <=> [ClientPart!Next]_(ClientPart!vars)
    BY DEF C!Names, C!ListOf, C!DatumOf, C!NotFoundPage, C!Garbage, C!Transitions, C!fsmVars,
       C!clientVars, C!netVars, C!vars, C!Running, C!Handling, C!Goto, C!CanFail, C!Crash,
       C!LandingPage, C!Connected, C!Send, C!ReadAfterError, C!GetAllSend, C!GetOneSend,
       C!BuildRequestCrashes, C!SendRequestCrashes, C!Reading, C!InReadLoop, C!Parses,
       C!TakePiece, C!ReadOn, C!Misread, C!ParseCrashes, C!GetAllRead, C!GetOneRead, C!AtEof,
       C!GetAllEof, C!GetOneEof, C!ReadFails, C!Offered, C!ShowAll, C!ShowAllCrashes,
       C!ShowOne, C!ShowOneCrashes, C!Quit, C!BadChange, C!Waiting, C!AnswersTo, C!Cuttings,
       C!ServerAnswers, C!ServerCloses, C!ClientStep, C!EnvironmentStep, C!Next, C!Fsm!At,
       C!Fsm!Goto, C!Fsm!Returned, C!Fsm!Missed, ClientPart!Names, ClientPart!ListOf,
       ClientPart!DatumOf, ClientPart!NotFoundPage, ClientPart!Garbage, ClientPart!Transitions,
       ClientPart!fsmVars, ClientPart!clientVars, ClientPart!netVars, ClientPart!vars,
       ClientPart!Running, ClientPart!Handling, ClientPart!Goto, ClientPart!CanFail,
       ClientPart!Crash, ClientPart!LandingPage, ClientPart!Connected, ClientPart!Send,
       ClientPart!ReadAfterError, ClientPart!GetAllSend, ClientPart!GetOneSend,
       ClientPart!BuildRequestCrashes, ClientPart!SendRequestCrashes, ClientPart!Reading,
       ClientPart!InReadLoop, ClientPart!Parses, ClientPart!TakePiece, ClientPart!ReadOn,
       ClientPart!Misread, ClientPart!ParseCrashes, ClientPart!GetAllRead,
       ClientPart!GetOneRead, ClientPart!AtEof, ClientPart!GetAllEof, ClientPart!GetOneEof,
       ClientPart!ReadFails, ClientPart!Offered, ClientPart!ShowAll, ClientPart!ShowAllCrashes,
       ClientPart!ShowOne, ClientPart!ShowOneCrashes, ClientPart!Quit, ClientPart!BadChange,
       ClientPart!Waiting, ClientPart!AnswersTo, ClientPart!Cuttings, ClientPart!ServerAnswers,
       ClientPart!ServerCloses, ClientPart!ClientStep, ClientPart!EnvironmentStep,
       ClientPart!Next, ClientPart!Fsm!At, ClientPart!Fsm!Goto, ClientPart!Fsm!Returned,
       ClientPart!Fsm!Missed
<1>3. /\ C!ShownAnswersSelection <=> ClientPart!ShownAnswersSelection
      /\ C!NothingShownAfterError <=> ClientPart!NothingShownAfterError
    BY DEF C!DatumOf, C!NotFoundPage, C!Running, C!ShownAnswersSelection, C!NothingShownAfterError,
       ClientPart!DatumOf, ClientPart!NotFoundPage, ClientPart!Running,
       ClientPart!ShownAnswersSelection, ClientPart!NothingShownAfterError
<1> QED
    BY <1>1, <1>2, <1>3

LEMMA SameServer ==
    /\ S!Init <=> ServerPart!Init
    /\ [S!Next]_(S!vars) <=> [ServerPart!Next]_(ServerPart!vars)
    /\ S!AnswerGoesToSender <=> ServerPart!AnswerGoesToSender
    /\ S!AcknowledgedPostIsStored <=> ServerPart!AcknowledgedPostIsStored
    /\ S!FoundIsStored <=> ServerPart!FoundIsStored
    /\ S!NotFoundIsAbsent <=> ServerPart!NotFoundIsAbsent
    /\ S!NoAcceptAfterError <=> ServerPart!NoAcceptAfterError
    /\ S!LifetimeBound <=> ServerPart!LifetimeBound
<1>1. S!Init <=> ServerPart!Init
    BY DEF S!StoredNames, S!Transitions, S!Init, S!Fsm!Started, ServerPart!StoredNames,
       ServerPart!Transitions, ServerPart!Init, ServerPart!Fsm!Started
<1>2. [S!Next]_(S!vars) <=> [ServerPart!Next]_(ServerPart!vars)
    BY DEF S!Garbled, S!StoredNames, S!StoredData, S!Data, S!StateIds, S!AnyInt, S!Transitions,
       S!fsmVars, S!servVars, S!vars, S!Running, S!Handling, S!Goto, S!CanFail, S!Crash,
       S!ReturnUnset, S!AsRead, S!Listed, S!InitServer, S!InitServerOutOfMemory,
       S!InitServerExits, S!Listen, S!ListenFails, S!Accepting, S!AcceptConn,
       S!AcceptInterrupted, S!AcceptFails, S!Receiving, S!MethodState, S!FinishAccept,
       S!KeepReading, S!ReadWhole, S!ReadHead, S!ReadTail, S!AcceptAnother, S!ReadEof,
       S!ReadFails, S!ParseCrashes, S!HtmlOutcomes, S!GetHtml, S!GetPage, S!QueryResults,
       S!GetQuery, S!GetPartOfList, S!HttpGet, S!GetCrashes, S!DumpCrashes, S!PostQuery,
       S!HttpPost, S!PostCrashes, S!StatusOf, S!Get404Page, S!BuildResponse, S!NotFoundCrashes,
       S!WriteResponse, S!WriteFails, S!SendResponse, S!SendCrashes, S!Exit, S!BadChange,
       S!Kill, S!Restart, S!ServerStep, S!EnvironmentStep, S!Next, S!Fsm!At, S!Fsm!Goto,
       S!Fsm!Returned, S!Fsm!Missed, ServerPart!Garbled, ServerPart!StoredNames,
       ServerPart!StoredData, ServerPart!Data, ServerPart!StateIds, ServerPart!AnyInt,
       ServerPart!Transitions, ServerPart!fsmVars, ServerPart!servVars, ServerPart!vars,
       ServerPart!Running, ServerPart!Handling, ServerPart!Goto, ServerPart!CanFail,
       ServerPart!Crash, ServerPart!ReturnUnset, ServerPart!AsRead, ServerPart!Listed,
       ServerPart!InitServer, ServerPart!InitServerOutOfMemory, ServerPart!InitServerExits,
       ServerPart!Listen, ServerPart!ListenFails, ServerPart!Accepting, ServerPart!AcceptConn,
       ServerPart!AcceptInterrupted, ServerPart!AcceptFails, ServerPart!Receiving,
       ServerPart!MethodState, ServerPart!FinishAccept, ServerPart!KeepReading,
       ServerPart!ReadWhole, ServerPart!ReadHead, ServerPart!ReadTail,
       ServerPart!AcceptAnother, ServerPart!ReadEof, ServerPart!ReadFails,
       ServerPart!ParseCrashes, ServerPart!HtmlOutcomes, ServerPart!GetHtml,
       ServerPart!GetPage, ServerPart!QueryResults, ServerPart!GetQuery,
       ServerPart!GetPartOfList, ServerPart!HttpGet, ServerPart!GetCrashes,
       ServerPart!DumpCrashes, ServerPart!PostQuery, ServerPart!HttpPost,
       ServerPart!PostCrashes, ServerPart!StatusOf, ServerPart!Get404Page,
       ServerPart!BuildResponse, ServerPart!NotFoundCrashes, ServerPart!WriteResponse,
       ServerPart!WriteFails, ServerPart!SendResponse, ServerPart!SendCrashes, ServerPart!Exit,
       ServerPart!BadChange, ServerPart!Kill, ServerPart!Restart, ServerPart!ServerStep,
       ServerPart!EnvironmentStep, ServerPart!Next, ServerPart!Fsm!At, ServerPart!Fsm!Goto,
       ServerPart!Fsm!Returned, ServerPart!Fsm!Missed
<1>3. S!AnswerGoesToSender <=> ServerPart!AnswerGoesToSender
    BY DEF S!Transitions, S!Running, S!Handling, S!Answering, S!AnswerGoesToSender, S!Fsm!At,
       ServerPart!Transitions, ServerPart!Running, ServerPart!Handling, ServerPart!Answering,
       ServerPart!AnswerGoesToSender, ServerPart!Fsm!At
<1>4. S!AcknowledgedPostIsStored <=> ServerPart!AcknowledgedPostIsStored
    BY DEF S!Transitions, S!Running, S!Handling, S!Answering, S!AcknowledgedPostIsStored, S!Fsm!At,
       ServerPart!Transitions, ServerPart!Running, ServerPart!Handling, ServerPart!Answering,
       ServerPart!AcknowledgedPostIsStored, ServerPart!Fsm!At
<1>5. S!FoundIsStored <=> ServerPart!FoundIsStored
    BY DEF S!StoredNames, S!Transitions, S!Running, S!Handling, S!Listed, S!Answering, S!Holds,
       S!FoundIsStored, S!Fsm!At, ServerPart!StoredNames, ServerPart!Transitions,
       ServerPart!Running, ServerPart!Handling, ServerPart!Listed, ServerPart!Answering,
       ServerPart!Holds, ServerPart!FoundIsStored, ServerPart!Fsm!At
<1>6. S!NotFoundIsAbsent <=> ServerPart!NotFoundIsAbsent
    BY DEF S!StoredNames, S!Transitions, S!Running, S!Handling, S!Listed, S!Answering,
       S!NotFoundIsAbsent, S!Fsm!At, ServerPart!StoredNames, ServerPart!Transitions,
       ServerPart!Running, ServerPart!Handling, ServerPart!Listed, ServerPart!Answering,
       ServerPart!NotFoundIsAbsent, ServerPart!Fsm!At
<1>7. S!NoAcceptAfterError <=> ServerPart!NoAcceptAfterError
    BY DEF S!Running, S!NoAcceptAfterError, ServerPart!Running, ServerPart!NoAcceptAfterError
<1>8. S!LifetimeBound <=> ServerPart!LifetimeBound
    BY DEF S!LifetimeBound, ServerPart!LifetimeBound
<1> QED
    BY <1>1, <1>2, <1>3, <1>4, <1>5, <1>6, <1>7, <1>8

LEMMA SameStore ==
    /\ S!BeaconMap!Init <=> ServerPart!BeaconMap!Init
    /\ [S!BeaconMap!Next]_(S!BeaconMap!vars)
          <=> [ServerPart!BeaconMap!Next]_(ServerPart!BeaconMap!vars)
BY DEF S!InService, S!Served, S!Running, S!BeaconMap!vars, S!BeaconMap!Names,
       S!BeaconMap!Found, S!BeaconMap!NotFoundPage, S!BeaconMap!AnswerTo, S!BeaconMap!Init,
       S!BeaconMap!Arrive, S!BeaconMap!Refuse, S!BeaconMap!TakeEffect, S!BeaconMap!Reply,
       S!BeaconMap!GiveUp, S!BeaconMap!Next, ServerPart!InService, ServerPart!Served,
       ServerPart!Running, ServerPart!BeaconMap!vars, ServerPart!BeaconMap!Names,
       ServerPart!BeaconMap!Found, ServerPart!BeaconMap!NotFoundPage,
       ServerPart!BeaconMap!AnswerTo, ServerPart!BeaconMap!Init, ServerPart!BeaconMap!Arrive,
       ServerPart!BeaconMap!Refuse, ServerPart!BeaconMap!TakeEffect,
       ServerPart!BeaconMap!Reply, ServerPart!BeaconMap!GiveUp, ServerPart!BeaconMap!Next

(* In the system, too, the client only shows what came in answer to the     *)
(* request for the beacon that was picked, and never after an error.       *)
THEOREM ClientHolds == Spec => [](C!ShownAnswersSelection /\ C!NothingShownAfterError)
<1>1. Spec => ClientPart!Spec
    BY Environment, SameClient, PTL DEF ClientMeetsItsEnvironment, C!Spec, ClientPart!Spec
<1>2. ClientPart!Spec => []ClientPart!ShownAnswersSelection
    BY ClientAssumed, ClientPart!ShownIsRight
<1>3. ClientPart!Spec => []ClientPart!NothingShownAfterError
    BY ClientAssumed, ClientPart!NoErrorShown
<1> QED
    BY <1>1, <1>2, <1>3, SameClient, PTL

LEMMA ServerPartRuns == Spec => ServerPart!Spec
BY ServerEnvironment, SameServer, PTL DEF S!Spec, ServerPart!Spec

(* The server's answers to client and peers: they go to whoever asked and    *)
(* are right for the data base, whoever else waits, is reset or comes       *)
(* after a restart.                                                        *)
THEOREM ServerHolds ==
    Spec => [](/\ S!AnswerGoesToSender
               /\ S!AcknowledgedPostIsStored
               /\ S!FoundIsStored
               /\ S!NotFoundIsAbsent
               /\ S!NoAcceptAfterError
               /\ S!LifetimeBound)
<1>1. ServerPart!ReadsSucceed
    BY DEF ServerPart!ReadsSucceed
<1>2. ServerPart!Spec => []ServerPart!AnswerGoesToSender
    BY ServerAssumed, ServerPart!AnswerDelivered
<1>3. ServerPart!Spec => []ServerPart!AcknowledgedPostIsStored
    BY ServerAssumed, ServerPart!PostStored
<1>4. ServerPart!Spec => []ServerPart!FoundIsStored
    BY ServerAssumed, ServerPart!GetTruthful
<1>5. ServerPart!Spec => []ServerPart!NotFoundIsAbsent
    BY ServerAssumed, <1>1, ServerPart!NotFound
<1>6. ServerPart!Spec => []ServerPart!NoAcceptAfterError
    BY ServerAssumed, ServerPart!NoAccept
<1>7. ServerPart!Spec => []ServerPart!LifetimeBound
    BY ServerAssumed, ServerPart!Lifetime
<1> QED
    BY <1>2, <1>3, <1>4, <1>5, <1>6, <1>7, ServerPartRuns, SameServer, PTL

(* With all its peers, with kills and restarts, the server implements the    *)
(* abstract map of BeaconStore.                                            *)
THEOREM SystemIsStore == Spec => S!ImplementsBeaconStore
<1>1. ServerPart!ReadsSucceed /\ ServerPart!StringsEnd
    BY DEF ServerPart!ReadsSucceed, ServerPart!StringsEnd
<1>2. ServerPart!Spec => ServerPart!ImplementsBeaconStore
    BY <1>1, ServerAssumed, ServerPart!Refinement
<1> QED
    BY <1>2, ServerPartRuns, SameStore, PTL
    DEF S!ImplementsBeaconStore, S!BeaconMap!Spec,
        ServerPart!ImplementsBeaconStore, ServerPart!BeaconMap!Spec
=============================================================================
