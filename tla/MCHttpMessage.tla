---------------------------- MODULE MCHttpMessage ----------------------------
(* Keys that leave room in the URL, that fill it to the last byte, that are  *)
(* too long for it by one, and that are too long for the server; data       *)
(* with a Content-Length of one digit and of two, and on the edge of either. *)
EXTENDS HttpMessage

MCChars == {"k", "x", "a", "b"}

Key(n) == [i \in 1..n |-> "k"]

MCQueries ==
    {[key |-> Key(4), value |-> Key(4)]} \cup
        {[key |-> Key(n), value |-> Word(6)] : n \in {1, 9, 10, 11, 36}}
MCData  == {[i \in 1..n |-> IF i = 1 THEN "a" ELSE "b"] : n \in {1, 8, 9, 12}}
MCLists == {Key(1) \o CRLF, Key(4) \o CRLF \o Key(6) \o CRLF}
MCPages == {Word(20)}
MCStrays == {<<>>, <<"0">>, <<"x">>, <<"9", "9">>}
==============================================================================
