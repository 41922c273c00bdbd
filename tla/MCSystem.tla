------------------------------ MODULE MCSystem -------------------------------
(* Two beacons and two peers: enough for a list with a name that is not cut, *)
(* and for a queue in which the client is first, last or alone.              *)
EXTENDS System, TLC

CONSTANTS k1, k2, p1, p2

MCKeys    == {k1, k2}
MCPeers   == {p1, p2}
MCOnePeer == {p1}

(* No beacon and no peer is told from another; used in the safety run only. *)
MCSymmetry == Permutations(MCKeys) \cup Permutations(MCPeers)
==============================================================================
