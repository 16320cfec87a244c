---------------------------- MODULE MCSpaceFOMInit ----------------------------
(* Instances of SpaceFOMInit for TLC: a master that is also the root frame   *)
(* publisher or not, one more early joiner, one that joins at any time, and  *)
(* one or two multiphase points.                                             *)
EXTENDS SpaceFOMInit

MCNobody == {}
MCEarly == {"M", "E"}
MCExtra == {"L"}
MCJustEarly == {"E"}
MCAll == {"M", "E", "L"}
MCOnePhase == {"P1"}
MCTwoPhases == {"P1", "P2"}
=============================================================================
