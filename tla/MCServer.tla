------------------------------ MODULE MCServer -------------------------------
(* Instances of Server for TLC: two keys besides DUMP, two values, one page *)
(* that exists besides 404.html and one that does not.                      *)
EXTENDS Server, TLC

CONSTANTS k1, k2, v1, v2, about, missing

MCKeys      == {k1, k2, DUMP}
MCValues    == {v1, v2}
MCPageNames == {about, missing, Page404}
MCPages     == {about, Page404}

Query(m, k, v) == [method |-> m, kind |-> "query", name |-> k, value |-> v,
                   slash |-> TRUE, oversize |-> FALSE]
Page(m, p)     == [method |-> m, kind |-> "page", name |-> p, value |-> Null,
                   slash |-> TRUE, oversize |-> FALSE]
Other(m)       == [method |-> m, kind |-> "other", name |-> Null, value |-> Null,
                   slash |-> TRUE, oversize |-> FALSE]

(* What the client sends, what it could send, and what a browser sends. *)
MCRequests ==
    {Query("GET", k, v1) : k \in MCKeys}
        \cup {Query("POST", k1, v1), Query("POST", k1, v2), Query("POST", k2, v1)}
        \cup {Page("GET", about), Page("GET", missing), Other("GET")}

(* The same with requests the server does not survive, or only if it finds  *)
(* what they ask for.                                                      *)
MCAllRequests ==
    MCRequests \cup {Query("POST", DUMP, v1), Query("PUT", k1, v1), Other("POST"),
                     [Other("GET") EXCEPT !.oversize = TRUE],
                     [Other("GET") EXCEPT !.kind = "torn"],
                     [Page("GET", about) EXCEPT !.slash = FALSE],
                     [Query("GET", k1, v1) EXCEPT !.slash = FALSE]}

MCFewRequests == {Query("GET", k1, v1), Query("GET", DUMP, v1),
                  Query("POST", k1, v1), Query("POST", k2, v1), Other("POST")}

(* A failure of the write, the data base, html/ or anything before them. *)
MCAllFaults == FaultKinds
MCNoLies    == FaultKinds \ {"fetch", "html"}

MCNone      == {}

(* No connection is told from another; used in safety runs only. *)
MCSymmetry == Permutations(Conns)
==============================================================================
