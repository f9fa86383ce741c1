---------------------------- MODULE MCUbusdEvent ----------------------------
(* Instances of UbusdEvent for TLC: strings of up to two of two characters. *)
EXTENDS UbusdEvent, TLC

CONSTANTS o1, o2, c1, c2, ubusd

Strings == UNION {[1..n -> 1..2] : n \in 0..2}

MCOwner == o1 :> c1 @@ o2 :> c2
MCEventId == Strings \ {<<>>}
MCAclEvent == <<2, 2>>
=============================================================================
