------------------------------ MODULE MCUbusd -------------------------------
(* Instances of Ubusd for TLC: one pattern, which matches every event.       *)
EXTENDS Ubusd

MCRank == [p \in Pattern |-> 1]

MCMatches == (EventId \cup {ObjAdd, ObjRemove}) \X Pattern

Symmetry == Permutations(Client) \cup Permutations(ObjId)
=============================================================================
