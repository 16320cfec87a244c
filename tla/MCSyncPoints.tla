---------------------------- MODULE MCSyncPoints ----------------------------
(* Two federates and two labels for TLC.  f1 registers both, and the second  *)
(* federate has u in no list.                                                *)
EXTENDS SyncPoints

CONSTANTS f1, f2, p, u

MCFederates == {f1, f2}
MCLabels == {p, u}
MCNamed == [f \in MCFederates |-> IF f = f2 THEN {p} ELSE {p, u}]
MCRegistrar == [l \in MCLabels |-> f1]
=============================================================================
