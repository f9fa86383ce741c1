--------------------------- MODULE MCUbusRegistry ---------------------------
(* An instance of UbusRegistry for TLC.                                     *)
EXTENDS UbusRegistry, TLC

Symmetry == Permutations(Client) \cup Permutations(ObjId)
=============================================================================
