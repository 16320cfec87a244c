---------------------------- MODULE MCTimeAdvance ----------------------------
(* Instances of TimeAdvance for TLC.                                         *)
EXTENDS TimeAdvance

\* A and B exchange zero-lookahead data; P has a cycle of its own, joins late, and
\* may have a request refused and be lost.
MCFederates == {"A", "B", "P"}
MCLate == {"P"}
MCDataCycle == [f \in MCFederates |-> IF f = "P" THEN 1 ELSE 2]
MCLookahead == [f \in MCFederates |-> IF f = "P" THEN 1 ELSE 0]
MCSource == [f \in MCFederates |-> CASE f = "A" -> "B" [] f = "B" -> "A" [] OTHER -> f]
=============================================================================
