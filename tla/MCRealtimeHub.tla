--------------------------- MODULE MCRealtimeHub ---------------------------
(***************************************************************************)
(* Instances of RealtimeHub for TLC: two connections of one user and a    *)
(* send buffer of one message, so that a slow reader overflows.            *)
(***************************************************************************)
EXTENDS RealtimeHub, TLC

CONSTANTS c1, c2, u1

MCClients == {c1, c2}
MCOneClient == {c1}
MCOneUser == {u1}
MCSameUser == [c \in MCClients |-> u1]
MCSingle == c1 :> u1

Symmetry == Permutations(MCClients)
=============================================================================
