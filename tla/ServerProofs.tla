---------------------------- MODULE ServerProofs -----------------------------
(***************************************************************************)
(* Theorems about Server, for every value of its constants.  The inductive *)
(* invariant is built in layers, each proved with the help of the ones     *)
(* before it: where the machine may be (ControlInv), what descriptors it   *)
(* holds there (DescriptorInv), whose request it holds there (RequestInv), *)
(* and what it knows there about the answer (AnswerInv).                   *)
(***************************************************************************)
EXTENDS Server, TLAPS

(* The pairs of states the machine takes as long as there is no error. *)
Legal ==
    { <<"DC_FSM_INIT", "SERVER_INIT">>, <<"SERVER_INIT", "ACCEPT_REQUEST">>,
      <<"ACCEPT_REQUEST", "HTTP_GET">>, <<"ACCEPT_REQUEST", "HTTP_POST">>,
      <<"ACCEPT_REQUEST", "DC_FSM_EXIT">>,
      <<"HTTP_GET", "BUILD_RESPONSE">>, <<"HTTP_POST", "BUILD_RESPONSE">>,
      <<"BUILD_RESPONSE", "SEND_RESPONSE">>, <<"SEND_RESPONSE", "SERVER_INIT">> }

ControlInv ==
    /\ err \in BOOLEAN /\ at \in {"entry", "accept", "recv"}
    /\ Running /\ ~err => <<from, to>> \in Legal
    /\ Running /\ at # "entry" => ~err /\ to = "ACCEPT_REQUEST"

LEMMA ControlInit == Init => ControlInv
BY DEF Init, ControlInv, Legal, Running, Fsm!Started

(* Every function returns to a legal state, or with the error set. *)
LEMMA ControlStep == ControlInv /\ [Next]_vars => ControlInv'
<1> SUFFICES ASSUME ControlInv, [Next]_vars PROVE ControlInv'
    OBVIOUS
<1> USE DEF ControlInv, Legal, Running, Goto, Fsm!Goto, Handling, Fsm!At
<1>1. CASE InitServer
    BY <1>1 DEF InitServer
<1>2. CASE InitServerOutOfMemory
    BY <1>2 DEF InitServerOutOfMemory
<1>3. CASE InitServerExits
    BY <1>3 DEF InitServerExits, fsmVars
<1>4. CASE Listen
    BY <1>4 DEF Listen
<1>5. CASE ListenFails
    BY <1>5 DEF ListenFails, ReturnUnset
<1>6. CASE \E c \in Conns : AcceptConn(c)
    BY <1>6 DEF AcceptConn, Accepting
<1>7. CASE AcceptInterrupted
    BY <1>7 DEF AcceptInterrupted, fsmVars
<1>8. CASE AcceptFails
    BY <1>8 DEF AcceptFails, ReturnUnset
<1>9. CASE \E r \in Requests : ReadWhole(r) \/ ReadHead(r)
    BY <1>9 DEF ReadWhole, ReadHead, Receiving, FinishAccept, MethodState, KeepReading, fsmVars
<1>10. CASE ReadTail
    BY <1>10 DEF ReadTail, Receiving, FinishAccept, MethodState, KeepReading, fsmVars
<1>11. CASE ReadEof
    BY <1>11 DEF ReadEof, Receiving, FinishAccept, MethodState, AcceptAnother
<1>12. CASE ReadFails
    BY <1>12 DEF ReadFails, ReturnUnset
<1>13. CASE ParseCrashes
    BY <1>13 DEF ParseCrashes, Crash, fsmVars
<1>14. CASE HttpGet
  <2>1. err' \in BOOLEAN /\ (err => err')
    <3>1. CASE err /\ UNCHANGED err
        BY <3>1
    <3>2. CASE ~err /\ GetPage
        BY <3>2, Zenon DEF GetPage
    <3>3. CASE ~err /\ (GetQuery \/ GetPartOfList \/ UNCHANGED err)
        BY <3>3 DEF GetQuery, GetPartOfList
    <3> QED
        BY <1>14, <3>1, <3>2, <3>3 DEF HttpGet
  <2>2. proc' = proc /\ Goto("BUILD_RESPONSE")
      BY <1>14 DEF HttpGet
  <2> QED
      BY <1>14, <2>1, <2>2 DEF HttpGet
<1>15. CASE DumpCrashes \/ GetCrashes \/ NotFoundCrashes
    BY <1>15 DEF DumpCrashes, GetCrashes, NotFoundCrashes, Crash, fsmVars
<1>16. CASE HttpPost
  <2>1. err' = err \/ err' = TRUE
      BY <1>16 DEF HttpPost, PostQuery
  <2>2. proc' = proc /\ to = "HTTP_POST" /\ (Goto("BUILD_RESPONSE") \/ (err /\ err' = err /\ Goto("ERROR_404")))
      BY <1>16 DEF HttpPost
  <2> QED
      BY <2>1, <2>2
<1>17. CASE PostCrashes
    BY <1>17 DEF PostCrashes, Crash, fsmVars
<1>18. CASE BuildResponse
  <2>1. err' \in BOOLEAN /\ (err => err')
    <3>1. ASSUME Get404Page PROVE err' \in BOOLEAN
        BY <3>1, SMT DEF Get404Page
    <3>2. (err /\ err' = err) \/ (~err /\ (Get404Page \/ err' = err))
        BY <1>18, Zenon DEF BuildResponse
    <3> QED
        BY <3>1, <3>2
  <2>2. proc' = proc /\ Goto("SEND_RESPONSE")
      BY <1>18 DEF BuildResponse
  <2>3. Running => to \in {"BUILD_RESPONSE", "ERROR_404", "ERROR_500"}
      BY <1>18 DEF BuildResponse
  <2> QED
      BY <2>1, <2>2, <2>3
<1>19. CASE SendResponse
  <2>1. err' = err \/ err' = TRUE
      BY <1>19 DEF SendResponse, WriteResponse, WriteFails
  <2>2. proc' = proc /\ to = "SEND_RESPONSE" /\ Goto("SERVER_INIT")
      BY <1>19 DEF SendResponse
  <2> QED
      BY <2>1, <2>2
<1>20. CASE SendCrashes
    BY <1>20 DEF SendCrashes, Crash, fsmVars
<1>21. CASE Exit \/ BadChange
    BY <1>21 DEF Exit, BadChange, fsmVars
<1>22. CASE Kill
    BY <1>22 DEF Kill, Crash, fsmVars
<1>23. CASE Restart
    BY <1>23 DEF Restart
<1>24. CASE UNCHANGED vars
    BY <1>24 DEF vars, fsmVars
<1> QED
    BY <1>1, <1>2, <1>3, <1>4, <1>5, <1>6, <1>7, <1>8, <1>9, <1>10, <1>11, <1>12,
       <1>13, <1>14, <1>15, <1>16, <1>17, <1>18, <1>19, <1>20, <1>21, <1>22, <1>23, <1>24
    DEF Next, ServerStep, EnvironmentStep

(* The machine is where ControlInv says. *)
THEOREM Control == Spec => []ControlInv
<1> QED
    BY ControlInit, ControlStep, PTL DEF Spec

(* Nobody is accepted or read from while an error is pending. *)
THEOREM NoAccept == Spec => []NoAcceptAfterError
<1>1. ControlInv => NoAcceptAfterError
    BY DEF ControlInv, NoAcceptAfterError
<1> QED
    BY <1>1, Control, PTL

(* Only an error leads to a pair of states the table does not have. *)
THEOREM Missed == Spec => []MissedOnlyOnError
<1>1. ControlInv => MissedOnlyOnError
    BY DEF ControlInv, MissedOnlyOnError, Legal, Transitions, Fsm!Missed, Fsm!Returned
<1> QED
    BY <1>1, Control, PTL

-----------------------------------------------------------------------------
(* The descriptors of the round the machine is in: the data base, then the *)
(* listening socket too, then the connection, then all but the listener.   *)
RoundFds ==
    IF to = "ACCEPT_REQUEST"
      THEN CASE at = "accept" -> DbmFds + 1
             [] at = "recv"   -> DbmFds + 2
             [] OTHER         -> DbmFds
    ELSE IF to = "SERVER_INIT" THEN 0 ELSE DbmFds + 1

Spent(n) == n * (DbmFds + 1)

DescriptorInv ==
    /\ fds \in Nat /\ served \in Nat
    /\ fds <= FdLimit
    /\ Spent(served) <= fds
    /\ Running /\ ~err => Spent(served) + RoundFds <= fds

LEMMA SpentStep ==
    ASSUME NEW n \in Nat
    PROVE  Spent(n) \in Nat /\ Spent(n + 1) = Spent(n) + DbmFds + 1 /\ Spent(0) = 0
BY ServerAssumption DEF ServerAssumption, Spent

LEMMA DescriptorInit == Init => DescriptorInv
<1> SUFFICES ASSUME Init PROVE DescriptorInv
    OBVIOUS
<1>1. Spent(0) = 0
    BY SpentStep
<1> QED
    BY <1>1, ServerAssumption DEF ServerAssumption, Init, DescriptorInv, RoundFds, Fsm!Started

(* A round gives up no descriptor but the listening socket's. *)
LEMMA DescriptorStep ==
    ControlInv /\ DescriptorInv /\ [Next]_vars => DescriptorInv'
<1> SUFFICES ASSUME ControlInv, DescriptorInv, [Next]_vars PROVE DescriptorInv'
    OBVIOUS
<1>0. /\ FdLimit \in Nat /\ DbmFds \in Nat
      /\ Spent(served) \in Nat /\ Spent(served + 1) = Spent(served) + DbmFds + 1 /\ Spent(0) = 0
    BY SpentStep, ServerAssumption DEF ServerAssumption, DescriptorInv
<1>a. ASSUME UNCHANGED <<fds, served>>, Running' => err' PROVE DescriptorInv'
    BY <1>0, <1>a DEF DescriptorInv, Spent
<1>b. ASSUME UNCHANGED <<fds, served, proc, err, to>>, at' = at \/ (at = "recv" /\ at' = "accept")
      PROVE DescriptorInv'
    BY <1>0, <1>b DEF DescriptorInv, Spent, RoundFds, Running
<1>c. ASSUME ~Running', UNCHANGED <<fds, served>> PROVE DescriptorInv'
    BY <1>0, <1>c DEF DescriptorInv, Spent
<1> USE DEF Goto, Fsm!Goto, Handling, Fsm!At
<1>1. CASE InitServer
    BY <1>0, <1>1 DEF InitServer, DescriptorInv, RoundFds, Spent, Running
<1>2. CASE InitServerOutOfMemory
    BY <1>2, <1>a DEF InitServerOutOfMemory
<1>3. CASE InitServerExits
    BY <1>3, <1>c DEF InitServerExits, Running
<1>4. CASE Listen
    BY <1>0, <1>4 DEF Listen, DescriptorInv, RoundFds, Spent, Running
<1>5. CASE ListenFails
    BY <1>0, <1>5 DEF ListenFails, DescriptorInv, Spent
<1>6. CASE \E c \in Conns : AcceptConn(c)
    BY <1>0, <1>6 DEF AcceptConn, Accepting, DescriptorInv, RoundFds, Spent, Running
<1>7. CASE AcceptInterrupted
    BY <1>7, <1>b DEF AcceptInterrupted, fsmVars
<1>8. CASE AcceptFails
    BY <1>8, <1>a DEF AcceptFails
<1>9. ASSUME NEW r, Receiving, FinishAccept(r) PROVE DescriptorInv'
  <2>1. MethodState(r) \notin {"ACCEPT_REQUEST", "SERVER_INIT"}
      BY DEF MethodState
  <2>2. ~err /\ Running /\ to = "ACCEPT_REQUEST" /\ at = "recv"
      BY <1>9 DEF Receiving, ControlInv
  <2>3. RoundFds = DbmFds + 2
      BY <2>2 DEF RoundFds
  <2> QED
      BY <1>0, <1>9, <2>1, <2>2, <2>3 DEF FinishAccept, DescriptorInv, RoundFds, Spent, Running
<1>10. CASE \E r \in Requests : ReadWhole(r) \/ ReadHead(r)
    BY <1>10, <1>9, <1>b DEF ReadWhole, ReadHead, KeepReading, fsmVars
<1>11. CASE ReadTail
    BY <1>11, <1>9, <1>b DEF ReadTail, KeepReading, fsmVars
<1>12. CASE ReadEof
    BY <1>12, <1>9, <1>b DEF ReadEof, AcceptAnother, Receiving
<1>13. CASE ReadFails
    BY <1>13, <1>a DEF ReadFails
<1>14. ASSUME Crash PROVE DescriptorInv'
    BY <1>14, <1>c DEF Crash, Running
<1>15. CASE ParseCrashes \/ GetCrashes \/ DumpCrashes \/ PostCrashes
               \/ NotFoundCrashes \/ SendCrashes \/ Kill
    BY <1>15, <1>14 DEF ParseCrashes, GetCrashes, DumpCrashes, PostCrashes, NotFoundCrashes,
                      SendCrashes, Kill
<1>16. ASSUME NEW page, NEW o \in HtmlOutcomes(page), GetHtml(page, o)
       PROVE  fds' \in Nat /\ fds <= fds' /\ fds' <= FdLimit
    BY <1>0, <1>16 DEF HtmlOutcomes, GetHtml, DescriptorInv
<1>17. ASSUME UNCHANGED <<proc, served>>, fds' \in Nat, fds <= fds', fds' <= FdLimit,
              err => err', RoundFds' = DbmFds + 1, RoundFds = DbmFds + 1
       PROVE  DescriptorInv'
    BY <1>0, <1>17 DEF DescriptorInv, Spent, Running
<1>18. CASE HttpGet
  <2>1. fds' \in Nat /\ fds <= fds' /\ fds' <= FdLimit
      BY <1>0, <1>16, <1>18 DEF HttpGet, GetPage, GetQuery, GetPartOfList, DescriptorInv
  <2>2. (err => err') /\ UNCHANGED <<proc, served>> /\ to = "HTTP_GET" /\ to' = "BUILD_RESPONSE"
      BY <1>18 DEF HttpGet
  <2> QED
      BY <1>17, <2>1, <2>2 DEF RoundFds
<1>19. CASE HttpPost
  <2>1. err' = err \/ err' = TRUE
      BY <1>19 DEF HttpPost, PostQuery
  <2>2. UNCHANGED <<proc, served, fds>> /\ to = "HTTP_POST" /\ to' \in {"BUILD_RESPONSE", "ERROR_404"}
      BY <1>19 DEF HttpPost
  <2> QED
      BY <1>17, <2>1, <2>2, <1>0 DEF RoundFds, DescriptorInv
<1>20. CASE BuildResponse
  <2>1. fds' \in Nat /\ fds <= fds' /\ fds' <= FdLimit
      BY <1>0, <1>16, <1>20 DEF BuildResponse, Get404Page, DescriptorInv
  <2>2. err => err'
      BY <1>20, Zenon DEF BuildResponse
  <2>3. /\ UNCHANGED <<proc, served>>
        /\ to \in {"BUILD_RESPONSE", "ERROR_404", "ERROR_500"} /\ to' = "SEND_RESPONSE"
      BY <1>20 DEF BuildResponse
  <2> QED
      BY <1>17, <2>1, <2>2, <2>3 DEF RoundFds
<1>21. CASE SendResponse
  <2>1. UNCHANGED <<proc, fds>> /\ to = "SEND_RESPONSE" /\ to' = "SERVER_INIT"
      BY <1>21 DEF SendResponse
  <2>2. \/ UNCHANGED <<err, served>>
        \/ ~err /\ err' = err /\ served' = served + 1
        \/ err' = TRUE /\ served' = served
      BY <1>21 DEF SendResponse, WriteResponse, WriteFails
  <2> QED
      BY <1>0, <1>21, <2>1, <2>2 DEF SendResponse, DescriptorInv, RoundFds, Spent
<1>22. CASE Exit \/ BadChange
    BY <1>22, <1>c DEF Exit, BadChange, Running
<1>23. CASE Restart
    BY <1>0, <1>23 DEF Restart, DescriptorInv, RoundFds
<1>24. CASE UNCHANGED vars
    BY <1>24, <1>b DEF vars, fsmVars
<1> QED
    BY <1>1, <1>2, <1>3, <1>4, <1>5, <1>6, <1>7, <1>8, <1>10, <1>11, <1>12,
       <1>13, <1>15, <1>18, <1>19, <1>20, <1>21, <1>22, <1>23, <1>24
    DEF Next, ServerStep, EnvironmentStep

(* What a process has answered is bounded by the descriptors it holds. *)
THEOREM Lifetime == Spec => []LifetimeBound
<1>1. DescriptorInv => LifetimeBound
    BY DEF DescriptorInv, LifetimeBound, Spent
<1> QED
    BY <1>1, Control, DescriptorInit, DescriptorStep, PTL DEF Spec

-----------------------------------------------------------------------------
(* accept_request has no request before it reads one, and a request is in  *)
(* service together with the connection it was read from.                  *)
RequestInv ==
    /\ request \in Requests \cup {Garbled, Null}
    /\ client_socket_fd \in Conns \cup {Null} /\ sender \in Conns \cup {Null}
    /\ Running /\ ~err /\ to = "ACCEPT_REQUEST" /\ at # "recv" => request = Null
    /\ Running /\ at = "recv" => /\ client_socket_fd \in Conns
                                 /\ request # Null => sender = client_socket_fd
    /\ InService => /\ request \in Requests /\ request.method \in {"GET", "POST"}
                    /\ to = "HTTP_GET" => request.method = "GET"
                    /\ to = "HTTP_POST" => request.method = "POST"
                    /\ client_socket_fd \in Conns /\ sender = client_socket_fd

LEMMA RequestFacts ==
    /\ Garbled.method = "garbled" /\ Garbled # Null /\ Null \notin Requests
    /\ Null \notin Conns /\ \A r \in Requests : r # Garbled
<1>1. Garbled \in RequestType /\ Garbled.method = "garbled"
    BY DEF Garbled, RequestType, Methods
<1>2. Requests \subseteq RequestType /\ Null \notin RequestType /\ Null \notin Conns
    BY ServerAssumption DEF ServerAssumption
<1>3. \A r \in Requests : r.method # "garbled"
    BY ServerAssumption DEF ServerAssumption
<1> QED
    BY <1>1, <1>2, <1>3

LEMMA RequestInit == Init => RequestInv
BY DEF Init, RequestInv, InService, Served, Fsm!Started

LEMMA RequestStep ==
    ControlInv /\ RequestInv /\ [Next]_vars => RequestInv'
<1> SUFFICES ASSUME ControlInv, RequestInv, [Next]_vars PROVE RequestInv'
    OBVIOUS
<1>a. ASSUME UNCHANGED <<request, client_socket_fd, sender>>, Running' => err', ~Running' \/ at' = "entry"
      PROVE  RequestInv'
    BY <1>a DEF RequestInv, InService
<1>b. ASSUME UNCHANGED <<request, client_socket_fd, sender>>, ~Running' PROVE RequestInv'
    BY <1>b DEF RequestInv, InService
<1> USE DEF Goto, Fsm!Goto, Handling, Fsm!At
<1>1. CASE InitServer
    BY <1>1 DEF InitServer, RequestInv, InService, Served
<1>2. CASE InitServerOutOfMemory
    BY <1>2 DEF InitServerOutOfMemory, RequestInv, InService
<1>3. CASE InitServerExits
    BY <1>3, <1>b DEF InitServerExits, servVars, Running
<1>4. CASE Listen
    BY <1>4 DEF Listen, RequestInv, InService, Served, servVars, Running
<1>5. CASE ListenFails
    BY <1>5, <1>a DEF ListenFails, ReturnUnset, servVars
<1>6. CASE \E c \in Conns : AcceptConn(c)
  <2> PICK c \in Conns : AcceptConn(c)
      BY <1>6
  <2>1. /\ client_socket_fd' = c /\ UNCHANGED <<proc, err, to, request, sender>>
        /\ at' = "recv" /\ at = "accept" /\ to = "ACCEPT_REQUEST" /\ Running
      BY DEF AcceptConn, Accepting
  <2>2. request = Null
      BY <2>1 DEF RequestInv, ControlInv
  <2> QED
      BY <2>1, <2>2 DEF RequestInv, InService, Served, Running
<1>7. CASE AcceptInterrupted
  <2>1. Running' = Running /\ InService' = InService
      BY <1>7 DEF AcceptInterrupted, InService, Running, fsmVars
  <2>2. ~InService /\ at = "accept"
      BY <1>7 DEF AcceptInterrupted, Accepting, InService, Served
  <2> QED
      BY <1>7, <2>1, <2>2 DEF AcceptInterrupted, RequestInv, fsmVars
<1>8. CASE AcceptFails
    BY <1>8 DEF AcceptFails, ReturnUnset, RequestInv, InService
<1>9. ASSUME Receiving
      PROVE  ~err /\ Running /\ to = "ACCEPT_REQUEST" /\ at = "recv" /\ client_socket_fd \in Conns
    BY <1>9 DEF Receiving, ControlInv, RequestInv
<1>10. ASSUME NEW r \in Requests \cup {Garbled}, Receiving, FinishAccept(r), sender' = client_socket_fd
       PROVE  RequestInv'
  <2>1. MethodState(r) \in {"HTTP_GET", "HTTP_POST"} => r \in Requests
      BY RequestFacts DEF MethodState
  <2> QED
      BY <1>9, <1>10, <2>1 DEF FinishAccept, RequestInv, InService, Served, MethodState
<1>11. ASSUME Receiving, KeepReading, request' \in Requests \cup {Garbled}, sender' = client_socket_fd
       PROVE  RequestInv'
    BY <1>9, <1>11 DEF KeepReading, RequestInv, InService, Served, fsmVars
<1>12. CASE \E r \in Requests : ReadWhole(r) \/ ReadHead(r)
    BY <1>12, <1>10, <1>11 DEF ReadWhole, ReadHead
<1>13. CASE ReadTail
    BY <1>13, <1>10, <1>11 DEF ReadTail
<1>14. CASE ReadEof
  <2>1. CASE request = Null /\ AcceptAnother
      BY <1>9, <1>14, <2>1 DEF ReadEof, AcceptAnother, RequestInv, InService, Served, servVars
  <2>2. CASE request # Null /\ FinishAccept(request) /\ UNCHANGED sender
      BY <1>9, <1>10, <1>14, <2>2 DEF ReadEof, RequestInv
  <2> QED
      BY <1>14, <2>1, <2>2 DEF ReadEof
<1>15. CASE ReadFails
    BY <1>15, <1>a DEF ReadFails, ReturnUnset, servVars
<1>16. ASSUME Crash PROVE RequestInv'
    BY <1>16, <1>b DEF Crash, servVars, Running
<1>17. CASE ParseCrashes \/ GetCrashes \/ DumpCrashes \/ PostCrashes
               \/ NotFoundCrashes \/ SendCrashes \/ Kill
    BY <1>16, <1>17 DEF ParseCrashes, GetCrashes, DumpCrashes, PostCrashes, NotFoundCrashes,
                      SendCrashes, Kill
<1>18. ASSUME UNCHANGED <<proc, request, client_socket_fd, sender>>, at' = "entry",
              err => err', to' \in {"BUILD_RESPONSE", "ERROR_404", "SEND_RESPONSE"},
              err \/ to \in Served
       PROVE  RequestInv'
    BY <1>18 DEF RequestInv, InService, Served, Running
<1>19. CASE HttpGet
  <2>1. /\ UNCHANGED <<proc, request, client_socket_fd, sender>> /\ at' = "entry"
        /\ to = "HTTP_GET" /\ to' = "BUILD_RESPONSE"
      BY <1>19 DEF HttpGet
  <2>2. err => err'
      BY <1>19 DEF HttpGet
  <2> QED
      BY <1>18, <2>1, <2>2 DEF Served
<1>20. CASE HttpPost
  <2>1. /\ UNCHANGED <<proc, request, client_socket_fd, sender>> /\ at' = "entry"
        /\ to = "HTTP_POST" /\ to' \in {"BUILD_RESPONSE", "ERROR_404"}
      BY <1>20 DEF HttpPost
  <2>2. err' = err \/ err' = TRUE
      BY <1>20 DEF HttpPost, PostQuery
  <2> QED
      BY <1>18, <2>1, <2>2 DEF Served
<1>21. CASE BuildResponse
  <2>1. /\ UNCHANGED <<proc, request, client_socket_fd, sender>> /\ at' = "entry"
        /\ to \in {"BUILD_RESPONSE", "ERROR_404", "ERROR_500"} /\ to' = "SEND_RESPONSE"
      BY <1>21 DEF BuildResponse
  <2>2. err => err'
      BY <1>21, Zenon DEF BuildResponse
  <2>3. Running
      BY <1>21 DEF BuildResponse
  <2>4. err \/ to = "BUILD_RESPONSE"
      BY <2>1, <2>3 DEF ControlInv, Legal
  <2> QED
      BY <1>18, <2>1, <2>2, <2>4 DEF Served
<1>22. CASE SendResponse
  <2>1. /\ UNCHANGED <<client_socket_fd, sender>> /\ at' = "entry" /\ to' = "SERVER_INIT"
        /\ request' \in {request, Null}
      BY <1>22 DEF SendResponse, WriteResponse, WriteFails
  <2> QED
      BY <2>1 DEF RequestInv, InService, Served
<1>23. CASE Exit \/ BadChange
    BY <1>23, <1>b DEF Exit, BadChange, servVars, Running
<1>24. CASE Restart
    BY <1>24 DEF Restart, RequestInv, InService, Served
<1>25. CASE UNCHANGED vars
    BY <1>25 DEF vars, fsmVars, servVars, RequestInv, InService, Running
<1> QED
    BY <1>1, <1>2, <1>3, <1>4, <1>5, <1>6, <1>7, <1>8, <1>12, <1>13, <1>14, <1>15,
       <1>17, <1>19, <1>20, <1>21, <1>22, <1>23, <1>24, <1>25
    DEF Next, ServerStep, EnvironmentStep

THEOREM RequestHeld == Spec => []RequestInv
<1> QED
    BY Control, RequestInit, RequestStep, PTL DEF Spec

-----------------------------------------------------------------------------
(* What the answer to the request r has to be under a status, as long as   *)
(* the data base does not change.                                          *)
Right(r, status, body) ==
    /\ r.method = "POST" =>
          /\ status = "200" /\ r.kind = "query"
          /\ {r.name, r.value} \cap Overrun = {} => store[r.name] = r.value
    /\ r.method = "GET" /\ status = "200" /\ r.name \notin Overrun => Holds(r, body)

(* Nothing is known of an answer before a handler ran; then it is right,   *)
(* first as serv->error and serv->content, then as a response.             *)
AnswerInv ==
    /\ error \in {"none", "ERROR_404", "ERROR_500"}
    /\ ~err => error # "ERROR_500"
    /\ response = Null \/ response.status \in {"200", "404"}
    /\ Running /\ ~err /\ to \in {"ACCEPT_REQUEST", "HTTP_GET", "HTTP_POST"} => error = "none"
    /\ InService /\ to = "BUILD_RESPONSE" => Right(request, StatusOf(error), content)
    /\ InService /\ to = "SEND_RESPONSE" =>
          response # Null /\ Right(request, response.status, response.body)

LEMMA NullFacts ==
    /\ Null \notin Responses /\ Null \notin Bodies /\ Null \notin Answers
    /\ Null \notin RequestType /\ Null \notin StoredData
BY ServerAssumption DEF ServerAssumption, StoredData

LEMMA NameFacts ==
    ASSUME NEW r \in Requests
    PROVE  /\ r.kind = "query" => r.name \in Keys /\ r.value \in Values
           /\ r.kind = "page" => r.name \in PageNames
           /\ r.kind \in {"query", "torn", "page", "other"}
BY ServerAssumption DEF ServerAssumption, RequestType

(* The part of TypeOK that does not follow from the other invariants. *)
DataOK ==
    /\ proc \in {"running", "exit5", "done", "bad", "crashed"}
    /\ from \in AnyInt /\ to \in AnyInt
    /\ listening \in BOOLEAN /\ db \in BOOLEAN
    /\ response \in Responses \cup {Null}
    /\ content \in Bodies \cup {Null}
    /\ store \in [StoredNames -> StoredData \cup {Null}]
    /\ wire \in Answers \cup {Null}

LEMMA DataInit == Init => DataOK
BY DEF Init, DataOK, AnyInt, StateIds, Fsm!Started

LEMMA DataStep ==
    RequestInv /\ ControlInv /\ AnswerInv /\ DataOK /\ [Next]_vars => DataOK'
<1> SUFFICES ASSUME RequestInv, ControlInv, AnswerInv, DataOK, [Next]_vars PROVE DataOK'
    OBVIOUS
<1>a. ASSUME UNCHANGED <<response, content, store, wire>>, UNCHANGED <<from, to>> \/ ReturnUnset,
             proc' \in {proc, "exit5", "done", "bad", "crashed"},
             listening' \in {listening, TRUE}, db' \in {db, TRUE, FALSE}
      PROVE  DataOK'
    BY <1>a DEF DataOK, ReturnUnset, Goto, Fsm!Goto
<1> USE DEF Goto, Fsm!Goto, AnyInt, StateIds
<1>1. CASE InitServer \/ InitServerOutOfMemory
    BY <1>1 DEF InitServer, InitServerOutOfMemory, DataOK
<1>2. CASE InitServerExits
    BY <1>2, <1>a DEF InitServerExits, fsmVars, servVars
<1>3. CASE Listen \/ ListenFails
    BY <1>3, <1>a DEF Listen, ListenFails, servVars
<1>4. CASE \E c \in Conns : AcceptConn(c)
    BY <1>4, <1>a DEF AcceptConn
<1>5. CASE AcceptInterrupted \/ AcceptFails
    BY <1>5, <1>a DEF AcceptInterrupted, AcceptFails, fsmVars
<1>6. ASSUME NEW r, FinishAccept(r) PROVE DataOK'
    BY <1>6 DEF FinishAccept, MethodState, DataOK
<1>7. ASSUME KeepReading PROVE DataOK'
    BY <1>7, <1>a DEF KeepReading, fsmVars
<1>8. CASE \E r \in Requests : ReadWhole(r) \/ ReadHead(r)
    BY <1>6, <1>7, <1>8 DEF ReadWhole, ReadHead
<1>9. CASE ReadTail
    BY <1>6, <1>7, <1>9 DEF ReadTail
<1>10. CASE ReadEof
  <2>1. CASE AcceptAnother
      BY <2>1, <1>a DEF AcceptAnother, servVars
  <2> QED
      BY <1>6, <1>10, <2>1 DEF ReadEof
<1>11. CASE ReadFails
    BY <1>11, <1>a DEF ReadFails, servVars
<1>12. ASSUME Crash PROVE DataOK'
    BY <1>12, <1>a DEF Crash, fsmVars, servVars
<1>13. CASE ParseCrashes \/ GetCrashes \/ DumpCrashes \/ PostCrashes
               \/ NotFoundCrashes \/ SendCrashes \/ Kill
    BY <1>12, <1>13 DEF ParseCrashes, GetCrashes, DumpCrashes, PostCrashes, NotFoundCrashes,
                      SendCrashes, Kill
<1>14. ASSUME NEW page \in PageNames, NEW o, GetHtml(page, o) PROVE content' \in Bodies \cup {Null}
    BY <1>14 DEF GetHtml, DataOK, Bodies
<1>15. Page404 \in PageNames
    BY ServerAssumption DEF ServerAssumption
<1>16. CASE HttpGet
  <2>1. ASSUME ~err, request.kind = "page", GetPage PROVE content' \in Bodies \cup {Null}
    <3>1. request \in Requests
        BY <1>16, <2>1 DEF HttpGet, Handling, Fsm!At, RequestInv, InService, Served
    <3> QED
        BY <2>1, <3>1, <1>14, NameFacts DEF GetPage
  <2>2. ASSUME ~err, request.kind = "query", GetQuery PROVE content' \in Bodies \cup {Null}
    <3>1. request \in Requests
        BY <1>16, <2>2 DEF HttpGet, Handling, Fsm!At, RequestInv, InService, Served
    <3>2. AsRead(request.name) \subseteq StoredNames
        BY <2>2, <3>1, NameFacts DEF AsRead, StoredNames
    <3>3. ASSUME NEW k \in StoredNames, k # DUMP, store[k] # Null PROVE store[k] \in StoredData
        BY <3>3 DEF DataOK
    <3>4. \A k \in StoredNames : QueryResults(k) \subseteq Bodies \cup {Null}
        BY <3>3 DEF QueryResults, Bodies, Data, Listed
    <3> QED
        BY <2>2, <3>2, <3>4 DEF GetQuery
  <2>3. ASSUME GetPartOfList PROVE content' \in Bodies \cup {Null}
      BY <2>3 DEF GetPartOfList, Bodies, Listed
  <2>4. content' \in Bodies \cup {Null}
      BY <1>16, <2>1, <2>2, <2>3 DEF HttpGet, DataOK
  <2> QED
      BY <1>16, <2>4 DEF HttpGet, DataOK
<1>17. CASE HttpPost
  <2>1. ASSUME ~err, request.kind = "query", PostQuery
        PROVE  store' \in [StoredNames -> StoredData \cup {Null}]
    <3>1. request \in Requests
        BY <1>17, <2>1 DEF HttpPost, Handling, Fsm!At, RequestInv, InService, Served
    <3>2. AsRead(request.name) \subseteq StoredNames /\ AsRead(request.value) \subseteq StoredData
        BY <2>1, <3>1, NameFacts DEF AsRead, StoredNames, StoredData
    <3> QED
        BY <2>1, <3>2 DEF PostQuery, DataOK
  <2>2. store' \in [StoredNames -> StoredData \cup {Null}]
      BY <1>17, <2>1 DEF HttpPost, DataOK
  <2> QED
      BY <1>17, <2>2 DEF HttpPost, DataOK
<1>18. CASE BuildResponse
  <2>1. content' \in Bodies \cup {Null}
      BY <1>14, <1>15, <1>18 DEF BuildResponse, Get404Page, DataOK
  <2>2. response' \in Responses \cup {Null}
      BY <1>18, <2>1 DEF BuildResponse, DataOK, Responses, StatusOf, Statuses
  <2> QED
      BY <1>18, <2>1, <2>2 DEF BuildResponse, DataOK
<1>19. CASE SendResponse
  <2>1. CASE ~err /\ WriteResponse
    <3>1. InService /\ to = "SEND_RESPONSE"
        BY <1>19, <2>1 DEF SendResponse, Handling, Fsm!At, InService, Served
    <3>2. response \in Responses /\ request \in RequestType /\ client_socket_fd \in Conns
        BY <3>1, ServerAssumption DEF ServerAssumption, AnswerInv, RequestInv, DataOK
    <3>3. wire' \in Answers
        BY <2>1, <3>2 DEF WriteResponse, Answers, Responses
    <3> QED
        BY <1>19, <2>1, <3>3 DEF SendResponse, WriteResponse, DataOK
  <2>2. CASE ~WriteResponse \/ err
      BY <1>19, <2>2 DEF SendResponse, WriteFails, DataOK
  <2> QED
      BY <2>1, <2>2
<1>20. CASE Exit \/ BadChange
    BY <1>20, <1>a DEF Exit, BadChange, fsmVars, servVars
<1>21. CASE Restart
    BY <1>21 DEF Restart, DataOK
<1>22. CASE UNCHANGED vars
    BY <1>22, <1>a DEF vars, fsmVars, servVars
<1> QED
    BY <1>1, <1>2, <1>3, <1>4, <1>5, <1>8, <1>9, <1>10, <1>11, <1>13, <1>16, <1>17,
       <1>18, <1>19, <1>20, <1>21, <1>22
    DEF Next, ServerStep, EnvironmentStep

LEMMA AnswerInit == Init => AnswerInv
BY DEF Init, AnswerInv, InService, Served, Fsm!Started

(* http_get leaves a right answer behind, or a 404, or the error set. *)
LEMMA GetStep ==
    ASSUME RequestInv, DataOK, error = "none", InService, to = "HTTP_GET",
           HttpGet, ~err'
    PROVE  /\ error' \in {"none", "ERROR_404"}
           /\ error' = "none" => (request.name \notin Overrun => Holds(request, content'))
<1>1. request \in Requests /\ store' = store
    BY DEF RequestInv, HttpGet
<1>2. CASE ~err /\ request.kind = "page" /\ GetPage
  <2>1. PICK o \in HtmlOutcomes(request.name) :
            /\ GetHtml(request.name, o)
            /\ err' = (o = "unreadable")
            /\ error' = IF o = "missing" THEN "ERROR_404" ELSE error
      BY <1>2 DEF GetPage
  <2>2. o \in {"opened", "trailed", "missing"}
      BY <2>1 DEF HtmlOutcomes
  <2>3. CASE o = "missing"
      BY <2>1, <2>3
  <2>4. CASE o \in {"opened", "trailed"}
    <3>1. request.name \in Pages
        BY <2>4, <2>1 DEF HtmlOutcomes
    <3>2. content' \in [kind : {"page"}, item : {request.name, Junk}]
        BY <2>1, <2>4 DEF GetHtml
    <3> QED
        BY <1>2, <2>1, <2>4, <3>1, <3>2 DEF Holds
  <2> QED
      BY <2>2, <2>3, <2>4
<1>3. CASE ~err /\ request.kind = "query" /\ GetQuery
  <2>1. CASE content' = Null
      BY <1>3, <2>1 DEF GetQuery
  <2>2. CASE content' # Null
    <3>1. error' = error
        BY <1>3, <2>2 DEF GetQuery
    <3>2. PICK k \in AsRead(request.name) : content' \in QueryResults(k)
        BY <1>3, <2>2 DEF GetQuery
    <3>3. request.name \notin Overrun => k = request.name
        BY <3>2 DEF AsRead
    <3> QED
        BY <1>3, <2>2, <3>1, <3>2, <3>3 DEF QueryResults, Holds
  <2> QED
      BY <2>1, <2>2
<1>4. CASE ~err /\ request.kind = "query" /\ GetPartOfList
    BY <1>4 DEF GetPartOfList
<1>5. CASE ~err /\ request.kind = "other" /\ error' = "ERROR_404"
    BY <1>5
<1>6. ~err
    BY DEF InService
<1> QED
    BY <1>2, <1>3, <1>4, <1>5, <1>6 DEF HttpGet

(* A pair http_post stored without an error is in the data base. *)
LEMMA PostStep ==
    ASSUME RequestInv, DataOK, InService, to = "HTTP_POST", HttpPost, ~err'
    PROVE  /\ request.kind = "query" /\ error' = error
           /\ {request.name, request.value} \cap Overrun = {}
                 => store'[request.name] = request.value
<1>1. ~err /\ request \in Requests
    BY DEF InService, RequestInv, Served
<1>2. request.kind = "query" /\ PostQuery /\ error' = error
    BY <1>1 DEF HttpPost
<1>3. PICK k \in AsRead(request.name), v \in AsRead(request.value) :
          store' = [store EXCEPT ![k] = v]
    BY <1>2 DEF PostQuery
<1>4. request.name \in StoredNames
    BY <1>1, <1>2, NameFacts DEF StoredNames
<1> QED
    BY <1>2, <1>3, <1>4 DEF AsRead, DataOK

LEMMA AnswerStep ==
    ControlInv /\ RequestInv /\ DataOK /\ DataOK' /\ AnswerInv /\ [Next]_vars => AnswerInv'
<1> SUFFICES ASSUME ControlInv, RequestInv, DataOK, DataOK', AnswerInv, [Next]_vars
             PROVE  AnswerInv'
    OBVIOUS
<1>a. ASSUME UNCHANGED <<response, error>>, err => err', ~InService',
             Running' /\ ~err' => error = "none" \/ to' \notin {"ACCEPT_REQUEST", "HTTP_GET", "HTTP_POST"}
      PROVE  AnswerInv'
    BY <1>a DEF AnswerInv
<1>b. ASSUME UNCHANGED <<proc, err, to, request, response, error, content, store>> PROVE AnswerInv'
    BY <1>b DEF AnswerInv, InService, Running, Right, Holds, Listed
<1>c. ASSUME ~Running', UNCHANGED <<err, response, error>> PROVE AnswerInv'
    BY <1>c, <1>a DEF InService
<1>d. ASSUME err', UNCHANGED <<response, error>> PROVE AnswerInv'
    BY <1>d, <1>a DEF InService
<1> USE DEF Goto, Fsm!Goto, Handling, Fsm!At
<1>1. CASE InitServer \/ InitServerOutOfMemory
    BY <1>1 DEF InitServer, InitServerOutOfMemory, AnswerInv, InService, Served
<1>2. CASE InitServerExits
    BY <1>2, <1>c DEF InitServerExits, servVars, Running
<1>3. CASE Listen
    BY <1>3, <1>b DEF Listen, servVars
<1>4. CASE ListenFails
    BY <1>4, <1>d DEF ListenFails, servVars
<1>5. CASE \E c \in Conns : AcceptConn(c)
    BY <1>5, <1>b DEF AcceptConn
<1>6. CASE AcceptInterrupted
    BY <1>6, <1>b DEF AcceptInterrupted, fsmVars
<1>7. CASE AcceptFails
    BY <1>7, <1>d DEF AcceptFails
<1>8. ASSUME Receiving
      PROVE  ~err /\ Running /\ to = "ACCEPT_REQUEST" /\ error = "none"
    BY <1>8 DEF Receiving, ControlInv, AnswerInv
<1>9. ASSUME NEW r, Receiving, FinishAccept(r) PROVE AnswerInv'
  <2>1. to' \notin {"BUILD_RESPONSE", "SEND_RESPONSE"}
      BY <1>9 DEF FinishAccept, MethodState
  <2> QED
      BY <1>8, <1>9, <2>1 DEF FinishAccept, AnswerInv
<1>10. ASSUME Receiving, KeepReading PROVE AnswerInv'
    BY <1>8, <1>10, <1>a DEF KeepReading, fsmVars, InService, Served, Running
<1>11. CASE \E r \in Requests : ReadWhole(r) \/ ReadHead(r)
    BY <1>9, <1>10, <1>11 DEF ReadWhole, ReadHead
<1>12. CASE ReadTail
    BY <1>9, <1>10, <1>12 DEF ReadTail
<1>13. CASE ReadEof
  <2>1. CASE AcceptAnother
      BY <2>1, <1>b DEF AcceptAnother, servVars
  <2> QED
      BY <1>9, <1>13, <2>1 DEF ReadEof
<1>14. CASE ReadFails
    BY <1>14, <1>d DEF ReadFails, servVars
<1>15. ASSUME Crash PROVE AnswerInv'
    BY <1>15, <1>c DEF Crash, servVars, Running
<1>16. CASE ParseCrashes \/ GetCrashes \/ DumpCrashes \/ PostCrashes
               \/ NotFoundCrashes \/ SendCrashes \/ Kill
    BY <1>15, <1>16 DEF ParseCrashes, GetCrashes, DumpCrashes, PostCrashes, NotFoundCrashes,
                      SendCrashes, Kill
<1>17. CASE HttpGet
  <2>1. /\ UNCHANGED <<proc, request, response, store>> /\ to = "HTTP_GET" /\ to' = "BUILD_RESPONSE"
        /\ err => err'
      BY <1>17 DEF HttpGet
  <2>2. error' \in {error, "ERROR_404"}
      BY <1>17 DEF HttpGet, GetPage, GetQuery, GetPartOfList
  <2>3. ASSUME InService' PROVE Right(request, StatusOf(error'), content') /\ request.method = "GET"
    <3>1. InService /\ ~err' /\ error = "none" /\ request.method = "GET"
        BY <2>1, <2>3 DEF InService, Served, Running, AnswerInv, RequestInv
    <3> QED
        BY <1>17, <2>1, <3>1, GetStep DEF Right, StatusOf
  <2> QED
      BY <2>1, <2>2, <2>3 DEF AnswerInv, Right, Holds, Listed
<1>18. CASE HttpPost
  <2>1. /\ UNCHANGED <<proc, request, response, content>> /\ to = "HTTP_POST"
        /\ error' \in {error, "ERROR_404"} /\ to' \in {"BUILD_RESPONSE", "ERROR_404"}
      BY <1>18 DEF HttpPost
  <2>2. err' = err \/ err' = TRUE
      BY <1>18 DEF HttpPost, PostQuery
  <2>3. ASSUME InService' PROVE Right(request, StatusOf(error), content)'
    <3>1. InService /\ ~err' /\ error = "none" /\ request.method = "POST"
        BY <2>1, <2>2, <2>3 DEF InService, Served, Running, AnswerInv, RequestInv
    <3> QED
        BY <1>18, <2>1, <3>1, PostStep DEF Right, StatusOf
  <2> QED
      BY <2>1, <2>2, <2>3 DEF AnswerInv
<1>19. CASE BuildResponse
  <2>1. /\ UNCHANGED <<proc, request, error, store>> /\ to' = "SEND_RESPONSE"
        /\ to \in {"BUILD_RESPONSE", "ERROR_404", "ERROR_500"} /\ Running
      BY <1>19 DEF BuildResponse
  <2>2. err => err' /\ response' = response
      BY <1>19, Zenon DEF BuildResponse
  <2>3. ~err => response' = [status |-> StatusOf(error), body |-> content']
      BY <1>19 DEF BuildResponse
  <2>4. ~err => to = "BUILD_RESPONSE" /\ error \in {"none", "ERROR_404"}
      BY <2>1 DEF ControlInv, Legal, AnswerInv
  <2>5. ~err => response'.status \in {"200", "404"}
      BY <2>3, <2>4 DEF StatusOf
  <2>6. ~err /\ error # "ERROR_404" => content' = content
      BY <1>19 DEF BuildResponse
  <2>7. ASSUME InService' PROVE response' # Null /\ Right(request, response'.status, response'.body)
    <3>1. InService /\ ~err
        BY <2>1, <2>2, <2>4, <2>7 DEF InService, Served, Running
    <3>2. response' # Null
        BY <2>3, <2>4, <3>1, NullFacts DEF DataOK, Responses, Statuses, StatusOf
    <3> QED
        BY <2>3, <2>4, <2>6, <3>1, <3>2 DEF AnswerInv, Right, StatusOf
  <2> QED
      BY <2>1, <2>2, <2>5, <2>7 DEF AnswerInv, Right, Holds, Listed
<1>20. CASE SendResponse
  <2>1. /\ UNCHANGED <<proc, error>> /\ to' = "SERVER_INIT" /\ response' \in {response, Null}
      BY <1>20 DEF SendResponse, WriteResponse, WriteFails
  <2>2. err' = err \/ err' = TRUE
      BY <1>20 DEF SendResponse, WriteResponse, WriteFails
  <2> QED
      BY <2>1, <2>2 DEF AnswerInv, InService, Served
<1>21. CASE Exit \/ BadChange
    BY <1>21, <1>c DEF Exit, BadChange, servVars, Running
<1>22. CASE Restart
    BY <1>22 DEF Restart, AnswerInv, InService, Served
<1>23. CASE UNCHANGED vars
    BY <1>23, <1>b DEF vars, fsmVars, servVars
<1> QED
    BY <1>1, <1>2, <1>3, <1>4, <1>5, <1>6, <1>7, <1>11, <1>12, <1>13, <1>14, <1>16,
       <1>17, <1>18, <1>19, <1>20, <1>21, <1>22, <1>23
    DEF Next, ServerStep, EnvironmentStep

-----------------------------------------------------------------------------
(* The layers together; each is a lemma of the ones after it. *)
IInv == ControlInv /\ DescriptorInv /\ RequestInv /\ DataOK /\ AnswerInv

THEOREM Invariance == Spec => []IInv
<1>1. Init => IInv
    BY ControlInit, DescriptorInit, RequestInit, DataInit, AnswerInit DEF IInv
<1>2. IInv /\ [Next]_vars => IInv'
  <2> SUFFICES ASSUME IInv, [Next]_vars PROVE IInv'
      OBVIOUS
  <2>1. ControlInv' /\ DescriptorInv' /\ RequestInv'
      BY ControlStep, DescriptorStep, RequestStep DEF IInv
  <2>2. DataOK'
      BY DataStep DEF IInv
  <2>3. AnswerInv'
      BY <2>2, AnswerStep DEF IInv
  <2> QED
      BY <2>1, <2>2, <2>3 DEF IInv
<1> QED
    BY <1>1, <1>2, PTL DEF Spec

(* Every variable of the server keeps to its type. *)
THEOREM TypeCorrect == Spec => []TypeOK
<1>1. IInv => TypeOK
  <2> SUFFICES ASSUME IInv PROVE TypeOK
      OBVIOUS
  <2>1. request \in RequestType \cup {Null}
    <3>1. Requests \subseteq RequestType
        BY ServerAssumption DEF ServerAssumption
    <3>2. Garbled \in RequestType
        BY DEF Garbled, RequestType, Methods
    <3> QED
        BY <3>1, <3>2 DEF IInv, RequestInv
  <2>2. fds \in 0..FdLimit
      BY ServerAssumption DEF ServerAssumption, IInv, DescriptorInv
  <2> QED
      BY <2>1, <2>2 DEF IInv, TypeOK, ControlInv, DescriptorInv, RequestInv, DataOK, AnswerInv
<1> QED
    BY <1>1, Invariance, PTL

LEMMA AnsweringFacts ==
    ASSUME IInv, Answering
    PROVE  /\ request \in Requests /\ response # Null
           /\ client_socket_fd \in Conns /\ sender = client_socket_fd
           /\ Right(request, response.status, response.body)
<1>1. InService /\ to = "SEND_RESPONSE"
    BY DEF Answering, Handling, Fsm!At, InService, Served
<1> QED
    BY <1>1 DEF IInv, RequestInv, AnswerInv

(* An answer goes to the connection its request came from. *)
THEOREM AnswerDelivered == Spec => []AnswerGoesToSender
<1>1. IInv => AnswerGoesToSender
    BY AnsweringFacts, RequestFacts DEF AnswerGoesToSender
<1> QED
    BY <1>1, Invariance, PTL

(* A POST is only answered when it is stored, and then with 200. *)
THEOREM PostStored == Spec => []AcknowledgedPostIsStored
<1>1. IInv => AcknowledgedPostIsStored
    BY AnsweringFacts DEF AcknowledgedPostIsStored, Right
<1> QED
    BY <1>1, Invariance, PTL

(* What a GET is given is what is there. *)
THEOREM GetTruthful == Spec => []FoundIsStored
<1>1. IInv => FoundIsStored
    BY AnsweringFacts DEF FoundIsStored, Right
<1> QED
    BY <1>1, Invariance, PTL

(* No peer is ever told of a server error. *)
THEOREM NoServerError == Spec => []ServerErrorIsNeverReported
<1>1. IInv => ServerErrorIsNeverReported
    BY DEF IInv, AnswerInv, ServerErrorIsNeverReported
<1> QED
    BY <1>1, Invariance, PTL
==============================================================================
