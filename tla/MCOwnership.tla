---------------------------- MODULE MCOwnership ----------------------------
(* Instances of Ownership for TLC.                                           *)
EXTENDS Ownership

MCFederates == {"A", "B"}
MCAttributes == {"x", "y"}
MCBoth == [f \in MCFederates |-> MCAttributes]
MCNone == {}
MCLossy == {"B"}
MCSingly == {{a} : a \in MCAttributes}
MCWhole == {MCAttributes}
MCConfigured == [f \in MCFederates |-> IF f = "A" THEN MCAttributes ELSE {}]
MCStart(a, b, o) == [pc |-> [f \in MCFederates |-> IF f = "A" THEN a ELSE b],
                     owner |-> [x \in MCAttributes |-> o]]
MCStarts == {MCStart("frame", "frame", "A"), MCStart("rejoin", "frame", "B"),
             MCStart("pushAtInit", "awaitAcquired", "A"),
             MCStart("awaitPull", "pullAtInit", "A")}
\* Attributes are asked for one by one.
MCFrames == {MCStart("frame", "frame", "A")}
=============================================================================
