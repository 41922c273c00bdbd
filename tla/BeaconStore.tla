----------------------------- MODULE BeaconStore -----------------------------
(***************************************************************************)
(* What the ibeacon server promises to the peers it answers: a map from    *)
(* beacon names to data that serves one request at a time.  A request      *)
(* takes effect on the map at one point between its arrival and its        *)
(* answer, the answer is the right one for the map at that point, and a    *)
(* request may be given up at any point, in which case it is not answered. *)
(***************************************************************************)
CONSTANTS Keys, DUMP, Pages, Page404, Requests, Null

VARIABLES
    store,     \* the datum of every key, Null when there is none
    pending,   \* the request being served
    effected,  \* it has taken effect on store
    answer     \* the last answer, Null since the next request arrived

vars == <<store, pending, effected, answer>>

Names(s) == {k \in Keys : s[k] # Null}

(* What a GET finds in the map s, or among the pages. *)
Found(s, r) ==
    CASE r.kind = "page" /\ r.name \in Pages -> [kind |-> "page", item |-> r.name]
      [] r.kind = "query" /\ r.name = DUMP /\ Names(s) # {} ->
            [kind |-> "list", item |-> Names(s)]
      [] r.kind = "query" /\ r.name # DUMP /\ s[r.name] # Null ->
            [kind |-> "datum", item |-> s[r.name]]
      [] OTHER -> Null

NotFoundPage == [kind |-> "page", item |-> Page404]

(* The right answer to r when the map is s. *)
AnswerTo(s, r) ==
    IF r.method = "POST" THEN [request |-> r, status |-> "200", body |-> Null]
    ELSE IF Found(s, r) # Null
           THEN [request |-> r, status |-> "200", body |-> Found(s, r)]
           ELSE [request |-> r, status |-> "404", body |-> NotFoundPage]

Init ==
    /\ store = [k \in Keys |-> Null]
    /\ pending = Null /\ effected = FALSE /\ answer = Null

Arrive(r) ==
    /\ pending = Null
    /\ pending' = r /\ effected' = FALSE /\ answer' = Null
    /\ UNCHANGED store

(* A request that is none, or a restart: only the last answer is forgotten. *)
Refuse ==
    /\ pending = Null
    /\ answer' = Null
    /\ UNCHANGED <<store, pending, effected>>

TakeEffect ==
    /\ pending # Null /\ ~effected
    /\ effected' = TRUE
    /\ \/ pending.method = "GET" /\ UNCHANGED store
       \/ /\ pending.method = "POST" /\ pending.kind = "query"
          /\ store' = [store EXCEPT ![pending.name] = pending.value]
    /\ UNCHANGED <<pending, answer>>

Reply ==
    /\ pending # Null /\ effected
    /\ answer' = AnswerTo(store, pending)
    /\ pending' = Null /\ effected' = FALSE
    /\ UNCHANGED store

GiveUp ==
    /\ pending # Null
    /\ pending' = Null /\ effected' = FALSE
    /\ UNCHANGED <<store, answer>>

Next ==
    \/ \E r \in Requests : Arrive(r)
    \/ Refuse \/ TakeEffect \/ Reply \/ GiveUp

Spec == Init /\ [][Next]_vars
==============================================================================
