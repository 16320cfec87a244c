------------------------ MODULE MCThreadCoordinator ------------------------
(* Constants for ThreadCoordinator: five child threads, one of them disabled *)
(* and one not associated.  The associated ones are an AMF thread at three   *)
(* times the cycle of the main thread, a scheduled one at its cycle, and an  *)
(* AMF thread at twice its cycle.                                            *)
EXTENDS ThreadCoordinator

MCAssociation == <<"DISABLED", "RESET", "RESET", "RESET", "NOT_ASSOCIATED">>
MCCycle == <<1, 3, 1, 2, 1>>
MCScheduled == {3, 5}
=============================================================================
