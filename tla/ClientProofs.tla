---------------------------- MODULE ClientProofs -----------------------------
(* Theorems about Client, for all names, all sets of faults and answers of  *)
(* any number of pieces that Cuttings allows.                               *)
EXTENDS Client, TLAPS

(* The pairs of states that are reached; an error is only pending on the   *)
(* way out, and in the dc_read in front of it.                             *)
ControlInv ==
    /\ <<from, to>> \in Transitions \cup {<<"SHOW_ONE", "LANDPAGE">>}
                          \cup {<<"GET_ALL", "ERROR">>, <<"GET_ONE", "ERROR">>}
    /\ err => to = "ERROR" \/ at = "stale"
    /\ at \in {"read", "stale"} => to \in {"GET_ALL", "GET_ONE"}
    /\ at = "quit" => to = "SHOW_ONE"

LEMMA ControlInit == Init => ControlInv
BY DEF Init, ControlInv, Transitions, Fsm!Started

LEMMA ControlStep == ControlInv /\ [Next]_vars => ControlInv'
<1> SUFFICES ASSUME ControlInv, [Next]_vars PROVE ControlInv'
    OBVIOUS
<1> USE DEF ControlInv, Transitions, Handling, Fsm!At, Goto, Fsm!Goto
<1>1. CASE GetAllSend
    BY <1>1 DEF GetAllSend, Send
<1>2. CASE GetOneSend
    BY <1>2 DEF GetOneSend, Send
<1>3. CASE BuildRequestCrashes \/ SendRequestCrashes \/ ParseCrashes \/ ShowAllCrashes \/ ShowOneCrashes
    BY <1>3 DEF BuildRequestCrashes, SendRequestCrashes, ParseCrashes, ShowAllCrashes, ShowOneCrashes,
                Crash, fsmVars
<1>4. CASE GetAllRead
    BY <1>4 DEF GetAllRead, TakePiece, Reading, ReadOn, fsmVars
<1>5. CASE GetOneRead
    BY <1>5 DEF GetOneRead, TakePiece, Reading, ReadOn, fsmVars
<1>6. CASE GetAllEof
    BY <1>6 DEF GetAllEof, Reading
<1>7. CASE GetOneEof
    BY <1>7 DEF GetOneEof, Reading, Crash, fsmVars
<1>8. CASE ShowOne
    BY <1>8 DEF ShowOne
<1>9. CASE BadChange
    BY <1>9 DEF BadChange, fsmVars
<1>10. ASSUME NEW m \in {"GET", "PUT"}, LandingPage(m) PROVE ControlInv'
    BY <1>10 DEF LandingPage
<1>11. CASE ReadFails
    BY <1>11 DEF ReadFails, InReadLoop, Reading
<1>12. ASSUME NEW name \in Names, ShowAll(name) PROVE ControlInv'
    BY <1>12 DEF ShowAll
<1>13. CASE Quit
    BY <1>13 DEF Quit
<1>14. ASSUME NEW body, ServerAnswers(body) PROVE ControlInv'
    BY <1>14 DEF ServerAnswers, fsmVars
<1>15. CASE ServerCloses
    BY <1>15 DEF ServerCloses, fsmVars
<1>16. CASE UNCHANGED vars
    BY <1>16 DEF vars, fsmVars
<1>17. CASE ReadAfterError
    BY <1>17 DEF ReadAfterError
<1> QED
    BY <1>1, <1>2, <1>3, <1>4, <1>5, <1>6, <1>7, <1>8, <1>9, <1>10, <1>11, <1>12,
       <1>13, <1>14, <1>15, <1>16, <1>17
    DEF Next, ClientStep, EnvironmentStep

(* The client is always in a state its table leads to, or on its way out.  *)
THEOREM ControlHolds == Spec => []ControlInv
BY ControlInit, ControlStep, PTL DEF Spec

(* showAllBeacons and showOneBeacon are never entered with an error that    *)
(* one of the read loops met.                                              *)
THEOREM NoErrorShown == Spec => []NothingShownAfterError
<1>1. ControlInv => NothingShownAfterError
    BY DEF ControlInv, NothingShownAfterError
<1> QED
    BY <1>1, ControlHolds, PTL

-----------------------------------------------------------------------------
(* A body that may be shown for the selection. *)
Right(body) == body \in {DatumOf(beacon_selection), NotFoundPage}

(* Types, and what is set in which state. *)
TypeInv ==
    /\ TypeOK
    /\ to = "GET_ALL" => method \in {"GET", "PUT"}
    /\ to \in {"GET_ONE", "SHOW_ONE"} => beacon_selection \in Names
    /\ at = "read" => request \in Requests

(* In the second read loop all there is to be read, and all that was, is    *)
(* an answer to the request for the selection; on the way to the screen it  *)
(* is still the response; and nobody picks another beacon after that.      *)
ShownInv ==
    /\ to = "GET_ONE" /\ at = "read" =>
          /\ request = [method |-> "GET", key |-> beacon_selection]
          /\ \A i \in DOMAIN inbox : Right(inbox[i].body)
          /\ data \in {"zero", "read"}
          /\ data = "read" => response # Null /\ Right(response.body)
    /\ to = "SHOW_ONE" => response # Null /\ Right(response.body)
    /\ shown # Null => /\ Right(shown.body)
                       /\ to = "SHOW_ONE" \/ (to = "LANDPAGE" /\ from = "SHOW_ONE")

(* All the pieces of an answer carry its body. *)
LEMMA CuttingsOf ==
    ASSUME NEW body \in Bodies, NEW cut \in Cuttings(body)
    PROVE  cut \in Seq(Pieces) /\ \A i \in DOMAIN cut : cut[i].body = body
<1> DEFINE h == [part |-> "head", body |-> body]
           t == [part |-> "tail", body |-> body]
           w == [part |-> "whole", body |-> body]
<1>1. cut = <<h, t, t>> \/ cut = <<w>> \/ cut = <<h, t>>
    BY DEF Cuttings
<1>2. h \in Pieces /\ t \in Pieces /\ w \in Pieces
    BY DEF Pieces
<1>3. h.body = body /\ t.body = body /\ w.body = body
    OBVIOUS
<1> HIDE DEF h, t, w
<1>4. CASE cut = <<h, t, t>>
    BY <1>2, <1>3, <1>4
<1>5. CASE cut = <<w>>
    BY <1>2, <1>3, <1>5
<1>6. CASE cut = <<h, t>>
    BY <1>2, <1>3, <1>6
<1> QED
    BY <1>1, <1>4, <1>5, <1>6

LEMMA AnswerBodies ==
    ASSUME NEW r \in Requests, NEW body \in AnswersTo(r)
    PROVE  /\ body \in Bodies
           /\ r.key # DUMP => body \in {DatumOf(r.key), NotFoundPage}
BY DEF AnswersTo, Bodies

LEMMA TypeInit == Init => TypeInv
<1>1. <<>> \in Seq(Pieces)
    OBVIOUS
<1> QED
    BY <1>1 DEF Init, TypeInv, TypeOK, Fsm!Started, StateIds

(* Parsing yields something parsed, and what is right stays right. *)
LEMMA ParsesTypes ==
    ASSUME NEW piece \in Parsed, NEW result \in Parses(piece)
    PROVE  /\ result \in Parsed
           /\ Right(piece.body) => Right(result.body)
<1>1. Garbage \in Parsed /\ Right(Garbage.body)
    BY DEF Parsed, Garbage, Right
<1>2. CASE piece.part \in {"tail", "garbage"}
    BY <1>1, <1>2 DEF Parses
<1>3. CASE piece.part = "head"
    BY <1>3 DEF Parses
<1>4. CASE piece.part \notin {"tail", "garbage", "head"}
  <2>1. \E part \in {"whole", "misread"} : result = [piece EXCEPT !.part = part]
      BY <1>4 DEF Parses
  <2>2. piece \in [part : {"whole", "misread"}, body : Bodies]
      BY <1>4 DEF Parsed, Pieces, Garbage
  <2>3. result \in [part : {"whole", "misread"}, body : Bodies] /\ result.body = piece.body
      BY <2>1, <2>2
  <2> QED
      BY <2>3 DEF Parsed, Pieces
<1> QED
    BY <1>2, <1>3, <1>4

(* What a read takes off the connection, and what it leaves there. *)
LEMMA TakePieceTypes ==
    ASSUME inbox \in Seq(Pieces), TakePiece
    PROVE  /\ Head(inbox) \in Pieces
           /\ response' \in Parsed
           /\ inbox' \in Seq(Pieces)
           /\ data' = "read"
           /\ UNCHANGED <<proc, err, method, beacon_selection, request, shown,
                          answered, closed>>
<1>1. inbox # <<>>
    BY DEF TakePiece
<1>2. Head(inbox) \in Pieces /\ Tail(inbox) \in Seq(Pieces)
    BY <1>1
<1>3. response' \in Parses(Head(inbox))
    BY DEF TakePiece
<1>4. response' \in Parsed
    BY <1>2, <1>3, ParsesTypes DEF Parsed
<1> QED
    BY <1>2, <1>4 DEF TakePiece

LEMMA TypeStep == ControlInv /\ TypeInv /\ ShownInv /\ [Next]_vars => TypeInv'
<1> SUFFICES ASSUME ControlInv, TypeInv, ShownInv, [Next]_vars PROVE TypeInv'
    OBVIOUS
<1> USE DEF TypeInv, TypeOK, Handling, Fsm!At, Goto, Fsm!Goto
<1>1. CASE GetAllSend
  <2>1. [method |-> method, key |-> DUMP] \in Requests
      BY <1>1 DEF GetAllSend, Requests
  <2>2. <<>> \in Seq(Pieces)
      OBVIOUS
  <2> QED
      BY <1>1, <2>1, <2>2 DEF GetAllSend, Send, Connected, StateIds, netVars
<1>2. CASE GetOneSend
  <2>1. [method |-> "GET", key |-> beacon_selection] \in Requests
      BY <1>2 DEF GetOneSend, Requests
  <2>2. <<>> \in Seq(Pieces)
      OBVIOUS
  <2> QED
      BY <1>2, <2>1, <2>2 DEF GetOneSend, Send, Connected, StateIds, netVars
<1>3. CASE BuildRequestCrashes \/ SendRequestCrashes \/ ParseCrashes \/ ShowAllCrashes \/ ShowOneCrashes
    BY <1>3 DEF BuildRequestCrashes, SendRequestCrashes, ParseCrashes, ShowAllCrashes, ShowOneCrashes,
                Crash, fsmVars, clientVars, netVars
<1>4. CASE GetAllRead
    BY <1>4, TakePieceTypes DEF GetAllRead, Reading, ReadOn, fsmVars, StateIds
<1>5. CASE GetOneRead
    BY <1>5, TakePieceTypes DEF GetOneRead, Reading, ReadOn, fsmVars, StateIds
<1>6. CASE GetAllEof
    BY <1>6 DEF GetAllEof, Reading, clientVars, netVars, StateIds
<1>7. CASE GetOneEof
  <2>1. CASE data = "zero"
      BY <1>7, <2>1 DEF GetOneEof, Crash, fsmVars, clientVars, netVars
  <2>2. CASE data # "zero"
    <3>1. response \in Parsed
        BY <1>7, <2>2 DEF GetOneEof, Reading, ShownInv
    <3>2. response' \in Parsed
        BY <1>7, <2>2, <3>1, ParsesTypes DEF GetOneEof
    <3> QED
        BY <1>7, <2>2, <3>2 DEF GetOneEof, Reading, netVars, StateIds
  <2> QED
      BY <2>1, <2>2
<1>8. CASE ShowOne
    BY <1>8 DEF ShowOne, netVars
<1>9. CASE BadChange
    BY <1>9 DEF BadChange, fsmVars, clientVars, netVars
<1>10. ASSUME NEW m \in {"GET", "PUT"}, LandingPage(m) PROVE TypeInv'
    BY <1>10 DEF LandingPage, netVars, StateIds
<1>11. CASE ReadFails
    BY <1>11 DEF ReadFails, clientVars, netVars, StateIds
<1>12. ASSUME NEW name \in Names, ShowAll(name) PROVE TypeInv'
    BY <1>12 DEF ShowAll, netVars, StateIds
<1>13. CASE Quit
    BY <1>13 DEF Quit, clientVars, netVars, StateIds
<1>14. ASSUME Waiting, NEW body \in AnswersTo(request), ServerAnswers(body)
       PROVE  TypeInv'
  <2>1. body \in Bodies
      BY <1>14, AnswerBodies DEF Waiting
  <2>2. inbox' \in Seq(Pieces)
      BY <1>14, <2>1, CuttingsOf DEF ServerAnswers
  <2> QED
      BY <1>14, <2>2 DEF ServerAnswers, fsmVars, clientVars
<1>15. CASE ServerCloses
    BY <1>15 DEF ServerCloses, fsmVars, clientVars
<1>16. CASE UNCHANGED vars
    BY <1>16 DEF vars, fsmVars, clientVars, netVars
<1>17. CASE ReadAfterError
    BY <1>17 DEF ReadAfterError, StateIds
<1> QED
    BY <1>1, <1>2, <1>3, <1>4, <1>5, <1>6, <1>7, <1>8, <1>9, <1>10, <1>11, <1>12,
       <1>13, <1>14, <1>15, <1>16, <1>17
    DEF Next, ClientStep, EnvironmentStep

-----------------------------------------------------------------------------
LEMMA ShownInit == Init => ShownInv
BY DEF Init, ShownInv, Fsm!Started

(* Null is no name, so the two pieces of the invariant that speak of it are *)
(* told apart by what is parsed.                                           *)
LEMMA ParsedIsSet == ASSUME NEW piece \in Parsed PROVE piece # Null
BY ClientAssumption

(* A read in the second loop takes a right body off, and leaves right ones. *)
LEMMA TakeRight ==
    ASSUME inbox \in Seq(Pieces), TakePiece,
           \A i \in DOMAIN inbox : Right(inbox[i].body)
    PROVE  /\ response' # Null /\ Right(response'.body)
           /\ \A i \in DOMAIN inbox' : Right(inbox'[i].body)
<1>1. inbox # <<>> /\ inbox' = Tail(inbox) /\ response' \in Parses(Head(inbox))
    BY DEF TakePiece
<1>2. 1 \in DOMAIN inbox /\ Head(inbox) = inbox[1]
    BY <1>1
<1>3. Right(response'.body)
    BY <1>1, <1>2, TakePieceTypes, ParsesTypes DEF Parsed
<1>4. \A i \in DOMAIN Tail(inbox) : i + 1 \in DOMAIN inbox /\ Tail(inbox)[i] = inbox[i + 1]
    BY <1>1
<1>5. response' # Null
    BY TakePieceTypes, ParsedIsSet
<1> QED
    BY <1>1, <1>3, <1>4, <1>5

LEMMA ShownStep == ControlInv /\ TypeInv /\ ShownInv /\ [Next]_vars => ShownInv'
<1> SUFFICES ASSUME ControlInv, TypeInv, ShownInv, [Next]_vars PROVE ShownInv'
    OBVIOUS
<1> USE DEF ShownInv, Right, Handling, Fsm!At, Goto, Fsm!Goto
<1>1. CASE GetAllSend
    BY <1>1 DEF GetAllSend, Send, Connected, netVars
<1>2. CASE GetOneSend
    BY <1>2 DEF GetOneSend, Send, Connected, netVars
<1>3. CASE BuildRequestCrashes \/ SendRequestCrashes \/ ParseCrashes \/ ShowAllCrashes \/ ShowOneCrashes
    BY <1>3 DEF BuildRequestCrashes, SendRequestCrashes, ParseCrashes, ShowAllCrashes, ShowOneCrashes,
                Crash, fsmVars, clientVars, netVars
<1>4. CASE GetAllRead
    BY <1>4 DEF GetAllRead, TakePiece, Reading, ReadOn, fsmVars
<1>5. CASE GetOneRead
  <2>1. /\ inbox \in Seq(Pieces) /\ TakePiece
        /\ \A i \in DOMAIN inbox : Right(inbox[i].body)
      BY <1>5 DEF GetOneRead, Reading, TypeInv, TypeOK
  <2>2. /\ response' # Null /\ Right(response'.body)
        /\ \A i \in DOMAIN inbox' : Right(inbox'[i].body)
      BY <2>1, TakeRight
  <2> QED
      BY <1>5, <2>1, <2>2, TakePieceTypes DEF GetOneRead, Reading, ReadOn, fsmVars
<1>6. CASE GetAllEof
    BY <1>6 DEF GetAllEof, Reading, clientVars, netVars
<1>7. CASE GetOneEof
  <2>1. CASE data = "zero"
      BY <1>7, <2>1 DEF GetOneEof, Crash, fsmVars, clientVars, netVars
  <2>2. CASE data # "zero"
    <3>1. response \in Parsed /\ Right(response.body)
        BY <1>7, <2>2 DEF GetOneEof, Reading, TypeInv, TypeOK
    <3>2. response' # Null /\ Right(response'.body)
        BY <1>7, <2>2, <3>1, ParsesTypes, ParsedIsSet DEF GetOneEof
    <3> QED
        BY <1>7, <2>2, <3>2 DEF GetOneEof, Reading, netVars
  <2> QED
      BY <2>1, <2>2
<1>8. CASE ShowOne
    BY <1>8 DEF ShowOne
<1>9. CASE BadChange
    BY <1>9 DEF BadChange, fsmVars, clientVars, netVars
<1>10. ASSUME NEW m \in {"GET", "PUT"}, LandingPage(m) PROVE ShownInv'
    BY <1>10 DEF LandingPage, netVars, Transitions
<1>11. CASE ReadFails
    BY <1>11 DEF ReadFails, InReadLoop, Reading, clientVars, netVars
<1>12. ASSUME NEW name \in Names, ShowAll(name) PROVE ShownInv'
    BY <1>12 DEF ShowAll
<1>13. CASE Quit
    BY <1>13 DEF Quit, clientVars, netVars
<1>14. ASSUME Waiting, NEW body \in AnswersTo(request), ServerAnswers(body)
       PROVE  ShownInv'
  <2>1. request \in Requests
      BY <1>14 DEF Waiting, TypeInv
  <2>2. body \in Bodies /\ inbox' \in Cuttings(body)
      BY <1>14, <2>1, AnswerBodies DEF ServerAnswers
  <2>3. \A i \in DOMAIN inbox' : inbox'[i].body = body
      BY <2>2, CuttingsOf
  <2>4. to = "GET_ONE" => Right(body)
    <3>1. SUFFICES ASSUME to = "GET_ONE" PROVE Right(body)
        OBVIOUS
    <3>2. request.key = beacon_selection /\ beacon_selection # DUMP
        BY <1>14, <3>1, ClientAssumption DEF Waiting, TypeInv
    <3> QED
        BY <1>14, <2>1, <3>2, AnswerBodies
  <2> QED
      BY <1>14, <2>3, <2>4 DEF ServerAnswers, fsmVars, clientVars
<1>15. CASE ServerCloses
    BY <1>15 DEF ServerCloses, fsmVars, clientVars
<1>16. CASE UNCHANGED vars
    BY <1>16 DEF vars, fsmVars, clientVars, netVars
<1>17. CASE ReadAfterError
    BY <1>17 DEF ReadAfterError
<1> QED
    BY <1>1, <1>2, <1>3, <1>4, <1>5, <1>6, <1>7, <1>8, <1>9, <1>10, <1>11, <1>12,
       <1>13, <1>14, <1>15, <1>16, <1>17
    DEF Next, ClientStep, EnvironmentStep

(* What is set in which state is, in every reachable one, and what is on    *)
(* its way to the screen answers the selection.                            *)
THEOREM InvariantHolds == Spec => [](TypeInv /\ ShownInv)
BY ControlHolds, TypeInit, TypeStep, ShownInit, ShownStep, PTL DEF Spec

(* Every variable keeps its type: the inbox holds pieces of answers, and    *)
(* the response is one that was parsed, or was never set.                  *)
THEOREM ClientTypes == Spec => []TypeOK
<1>1. TypeInv /\ ShownInv => TypeOK
    BY DEF TypeInv
<1> QED
    BY <1>1, InvariantHolds, PTL

(* Whatever fails and however the answers are cut, the client shows only    *)
(* what came in answer to the request for the beacon the user picked.      *)
THEOREM ShownIsRight == Spec => []ShownAnswersSelection
<1>1. TypeInv /\ ShownInv => ShownAnswersSelection
    BY DEF ShownInv, ShownAnswersSelection, Right
<1> QED
    BY <1>1, InvariantHolds, PTL
==============================================================================
