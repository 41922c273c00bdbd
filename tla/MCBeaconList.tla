---------------------------- MODULE MCBeaconList -----------------------------
(* Lists of up to three of seven names, of one to six characters, against   *)
(* buffers that the longest of them overrun.                                *)
EXTENDS BeaconList

CONSTANTS a, b

MCChars == {a, b}

MCNames == { <<a>>, <<b>>, <<a, b>>, <<b, a, a>>, <<a, b, b, a>>, <<a, a, b, b, a>>,
             <<b, b, b, a, a, a>> }

Distinct(s) == \A i, j \in DOMAIN s : i # j => s[i] # s[j]

MCListings == {s \in UNION {[1..n -> MCNames] : n \in 0..3} : Distinct(s)}

MCTyped == MCNames \cup {<<>>, <<b, b>>}
==============================================================================
