-------------------------- MODULE MCModeTransitions --------------------------
(* Instances of ModeTransitions for TLC: a master that runs every frame and  *)
(* a federate that runs every other one.                                     *)
EXTENDS ModeTransitions

MCFederates == {"M", "A"}
MCStep == [f \in MCFederates |-> IF f = "M" THEN 1 ELSE 2]

Script(some) == [r \in Requests |-> IF r \in some THEN 1 ELSE 0]
\* What may be requested of a federation: to freeze once, by MTR or by panel
\* (and to take that back), to run again, and to shut down.  After a freeze by
\* MTR the next MTR is one the freeze makes valid, and not at the same time as
\* the panel's: see the README for what else happens.
MCScripts == {Script({"to_freeze", "to_run"}),
              Script({"to_freeze", "press_run", "press_exit"}),
              Script({"press_freeze", "to_run", "to_shutdown"}),
              [Script({"press_run"}) EXCEPT !["press_freeze"] = 2]}
MCTwice == {[Script({}) EXCEPT !["to_freeze"] = 2]}
=============================================================================
