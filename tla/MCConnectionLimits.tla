------------------------- MODULE MCConnectionLimits -------------------------
(***************************************************************************)
(* Two counted users and an administrator on two connections, one of them  *)
(* bridged, or one counted user on three; counters of three bits.          *)
(***************************************************************************)
EXTENDS ConnectionLimits

CONSTANTS alice, bob, root

OneEach == [u \in Users |-> 1]
TwoEach == [u \in Users |-> 2]
=============================================================================
