---------------------------- MODULE MCObjectData ----------------------------
(* A small federation for ObjectData: A is the master and owns the          *)
(* ExecutionConfiguration e and the object a, B owns b; x of A and y of B   *)
(* are exchanged within the first frame; in the second A may run ahead.     *)
EXTENDS ObjectData

MCFederates == {"A", "B"}
MCObjectList == <<"e", "a", "b", "x", "y">>
MCOwner == [o \in {"e", "a", "b", "x", "y"} |-> IF o \in {"b", "y"} THEN "B" ELSE "A"]
MCConfig == [o \in {"e", "a", "b", "x", "y"} |->
  CASE o = "e" -> {"initialize"}
    [] o = "a" -> {"cyclic"}
    [] o = "b" -> {"initialize", "cyclic"}
    [] o = "x" -> {"zero_lookahead"}
    [] o = "y" -> {"blocking_io"}]
MCExCO == {"e"}
MCRatio == [o \in {"e", "a", "b", "x", "y"} |-> 1]
MCBlocking == [f \in MCFederates |-> {"e", "a", "b"}]
MCExchange == <<{"zero_lookahead", "blocking_io"}, {}>>
MCRequests == [o \in {"e", "a", "b", "x", "y"} |-> IF o = "e" THEN 1 ELSE 0]
MCLossy == {"B"}
MCInteractions == [f \in MCFederates |-> IF f = "A" THEN 2 ELSE 0]
=============================================================================
