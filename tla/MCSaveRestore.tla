--------------------------- MODULE MCSaveRestore ---------------------------
(* Instances of SaveRestore for TLC. *)
EXTENDS SaveRestore

Script(s, d, r, x) == [saves |-> s, dumps |-> d, loads |-> r, losses |-> x]
MCScripts == {Script(2, 1, 0, 0),  \* a dump before, between or after two saves
              Script(1, 0, 1, 0),  \* a restore before or after a save
              Script(0, 0, 2, 0),  \* two federates ask for a restore
              Script(1, 0, 0, 1),  \* a federate is lost in a save
              Script(0, 0, 1, 1)}  \* ... or in a restore
=============================================================================
