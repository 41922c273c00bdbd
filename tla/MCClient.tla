------------------------------ MODULE MCClient -------------------------------
(* Three beacons, one of which has a name that build_request has no room for. *)
EXTENDS Client

CONSTANTS k1, k2, k3

MCKeys      == {k1, k2, k3}
MCAllFaults == FaultKinds
==============================================================================
