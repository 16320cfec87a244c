----------------------------- MODULE SyncBarrier -----------------------------
(***************************************************************************)
(* What a synchronization point promises the federates that use it, with   *)
(* no callbacks, no states of SyncPoint objects and no calls that take     *)
(* time: at a point, the federates that arrive are held until every        *)
(* federate expected there has arrived or left; then they are all freed,   *)
(* and each goes on in its own time.                                       *)
(***************************************************************************)
CONSTANTS Federates, Labels

VARIABLES
  live,       \* the federates taking part
  expected,   \* expected[l]: the federates still to arrive at l
  arrived,    \* arrived[l]: those held at l
  freed       \* freed[l]: those let go that have not gone on yet

vars == <<live, expected, arrived, freed>>

Nobody == [l \in Labels |-> {}]
Init == live = {} /\ expected = Nobody /\ arrived = Nobody /\ freed = Nobody

IsOpen(l) == expected[l] # {}

\* E is still expected at l and A held there; nobody expected frees everybody.
Wait(l, E, A) ==
  IF E = {}
    THEN /\ expected' = [expected EXCEPT ![l] = {}]
         /\ arrived' = [arrived EXCEPT ![l] = {}]
         /\ freed' = [freed EXCEPT ![l] = @ \cup (A \cap live)]
    ELSE /\ expected' = [expected EXCEPT ![l] = E]
         /\ arrived' = [arrived EXCEPT ![l] = A]
         /\ freed' = freed

Enter(f) ==
  /\ f \notin live
  /\ live' = live \cup {f}
  /\ UNCHANGED <<expected, arrived, freed>>

\* A federate that leaves is not held any more; it is expected until noticed.
Depart(f) ==
  /\ f \in live
  /\ live' = live \ {f}
  /\ freed' = [l \in Labels |-> freed[l] \ {f}]
  /\ UNCHANGED <<expected, arrived>>

Open(l, set) ==
  /\ ~IsOpen(l)
  /\ set # {} /\ set \subseteq live
  /\ expected' = [expected EXCEPT ![l] = set]
  /\ UNCHANGED <<live, arrived, freed>>

Enlarge(l, f) ==
  /\ IsOpen(l)
  /\ f \in live \ (expected[l] \cup arrived[l])
  /\ expected' = [expected EXCEPT ![l] = @ \cup {f}]
  /\ UNCHANGED <<live, arrived, freed>>

\* Only one round at a time: f has gone on from the last one.
Arrive(l, f) ==
  /\ f \in (expected[l] \cap live) \ freed[l]
  /\ Wait(l, expected[l] \ {f}, arrived[l] \cup {f})
  /\ UNCHANGED live

Withdraw(l, f) ==
  /\ f \in (expected[l] \cup arrived[l]) \ live
  /\ Wait(l, expected[l] \ {f}, arrived[l] \ {f})
  /\ UNCHANGED live

GoOn(l, f) ==
  /\ f \in freed[l]
  /\ freed' = [freed EXCEPT ![l] = @ \ {f}]
  /\ UNCHANGED <<live, expected, arrived>>

Next ==
  \/ \E f \in Federates : Enter(f) \/ Depart(f)
  \/ \E l \in Labels : \E set \in SUBSET Federates : Open(l, set)
  \/ \E l \in Labels, f \in Federates :
       Enlarge(l, f) \/ Arrive(l, f) \/ Withdraw(l, f) \/ GoOn(l, f)

Spec == Init /\ [][Next]_vars
=============================================================================
