------------------------------ MODULE SyncPoints ------------------------------
(***************************************************************************)
(* Synchronization points of a federation of TrickHLA federates.          *)
(*                                                                        *)
(* Each federate keeps, for every label, the state of a SyncPoint object  *)
(* in one of the lists of its SyncPointManagerBase.  Two threads touch    *)
(* it: the Trick main thread, which registers and achieves points, and    *)
(* the thread on which the RTI delivers callbacks (the federates connect  *)
(* with HLA_IMMEDIATE).  One recursive mutex per federate serialises them. *)
(* A call that goes to the RTI and then assigns the new state is two      *)
(* steps here, with the mutex held (busy[f]) in between, so that the rest *)
(* of the federation runs while the call is under way.                    *)
(*                                                                        *)
(* The RTI's synchronization service is external: it is modelled from the *)
(* calls TrickHLA makes and the callbacks it handles.                     *)
(***************************************************************************)
EXTENDS Naturals, Sequences

CONSTANTS
  Federates,   \* the federates that may take part in the federation execution
  Labels,      \* the synchronization-point labels in use
  Named,       \* Named[f]: the labels f adds to its named lists before it joins
  Registrar,   \* Registrar[l]: the one federate whose program registers l
  MaxRounds    \* bound: how many times a label is registered

ASSUME ConstantsAssumption ==
  /\ Named \in [Federates -> SUBSET Labels]
  /\ Registrar \in [Labels -> Federates]
  /\ \A l \in Labels : l \in Named[Registrar[l]]
  /\ MaxRounds \in Nat

VARIABLES
  life,        \* life[f]: "out" before it joins, "in" while joined, "gone" after
  round,       \* round[l]: how many times l has been registered, or tried to
  open,        \* open[l]: l was registered without a federate set
  members,     \* members[l]: the federates the RTI wants at l ({} when inactive)
  achieved,    \* achieved[l]: those members that reported having achieved l
  inbox,       \* inbox[f]: callbacks the RTI has yet to deliver to f, in order
  state,       \* state[f][l]: state of the SyncPoint object ("UNKNOWN": none)
  busy         \* busy[f]: the RTI call f is inside of, with its mutex held

vars == <<life, round, open, members, achieved, inbox, state, busy>>
rtiVars == <<round, open, members, achieved>>

-----------------------------------------------------------------------------
States == {"UNKNOWN", "KNOWN", "REGISTERED", "ANNOUNCED", "ACHIEVED",
           "SYNCHRONIZED"}
Callbacks == {"registered", "failed", "announced", "synchronized"}
Messages == [type : Callbacks, label : Labels]
Msg(t, l) == [type |-> t, label |-> l]

NoCall == [op |-> "none"]
Registering(l) == [op |-> "register", label |-> l]
Achieving(l) == [op |-> "achieve", label |-> l]
Calls == {NoCall} \cup {Registering(l) : l \in Labels}
                  \cup {Achieving(l) : l \in Labels}

TypeOK ==
  /\ life \in [Federates -> {"out", "in", "gone"}]
  /\ round \in [Labels -> Nat]
  /\ open \in [Labels -> BOOLEAN]
  /\ members \in [Labels -> SUBSET Federates]
  /\ achieved \in [Labels -> SUBSET Federates]
  /\ inbox \in [Federates -> Seq(Messages)]
  /\ state \in [Federates -> [Labels -> States]]
  /\ busy \in [Federates -> Calls]

In == {f \in Federates : life[f] = "in"}
Active(l) == members[l] # {}

\* A callback of type t about l is in the queue q, or on its way to f.
InQueue(q, t, l) == \E i \in 1..Len(q) : q[i] = Msg(t, l)
Pending(f, t, l) == InQueue(inbox[f], t, l)

\* (mutant of Free) calls and callbacks are not serialised.
FreeWithoutMutex(f) == life[f] = "in"

\* The mutex of f is free, so a call of the main thread or a callback may run.
Free(f) == life[f] = "in" /\ busy[f] = NoCall

SetState(f, l, s) == state' = [state EXCEPT ![f][l] = s]

Init ==
  /\ life = [f \in Federates |-> "out"]
  /\ round = [l \in Labels |-> 0]
  /\ open = [l \in Labels |-> FALSE]
  /\ members = [l \in Labels |-> {}]
  /\ achieved = [l \in Labels |-> {}]
  /\ inbox = [f \in Federates |-> <<>>]
  /\ state = [f \in Federates |->
                [l \in Labels |-> IF l \in Named[f] THEN "KNOWN" ELSE "UNKNOWN"]]
  /\ busy = [f \in Federates |-> NoCall]

-----------------------------------------------------------------------------
(* Membership of the federation execution.                                *)

Join(f) ==
  /\ life[f] = "out"
  /\ life' = [life EXCEPT ![f] = "in"]
  /\ UNCHANGED <<rtiVars, inbox, state, busy>>

\* f resigns, or is lost: it makes no call and takes no callback any more.
Leave(f) ==
  /\ life[f] = "in"
  /\ life' = [life EXCEPT ![f] = "gone"]
  /\ inbox' = [inbox EXCEPT ![f] = <<>>]
  /\ busy' = [busy EXCEPT ![f] = NoCall]
  /\ UNCHANGED <<rtiVars, state>>

\* The RTI announces a point registered for everybody to a later joiner.
Inform(f, l) ==
  /\ life[f] = "in"
  /\ Active(l) /\ open[l] /\ f \notin members[l]
  /\ members' = [members EXCEPT ![l] = @ \cup {f}]
  /\ inbox' = [inbox EXCEPT ![f] = Append(@, Msg("announced", l))]
  /\ UNCHANGED <<life, round, open, achieved, state, busy>>

\* The point l now wants ms, of which done have achieved it.  When that is
\* all of them, the RTI tells those still there and forgets the point.  box:
\* the callbacks on their way before this.
Settle(l, ms, done, box) ==
  IF done = ms
    THEN /\ members' = [members EXCEPT ![l] = {}]
         /\ achieved' = [achieved EXCEPT ![l] = {}]
         /\ inbox' = [g \in Federates |->
                        IF g \in ms \cap In
                          THEN Append(box[g], Msg("synchronized", l))
                          ELSE box[g]]
    ELSE /\ members' = [members EXCEPT ![l] = ms]
         /\ achieved' = [achieved EXCEPT ![l] = done]
         /\ inbox' = box

\* The RTI stops waiting at l for a federate that left.
Drop(f, l) ==
  /\ life[f] = "gone" /\ f \in members[l]
  /\ Settle(l, members[l] \ {f}, achieved[l] \ {f}, inbox)
  /\ UNCHANGED <<life, round, open, state, busy>>

-----------------------------------------------------------------------------
(* Registering a point: registerFederationSynchronizationPoint and then   *)
(* the assignment of SYNC_PT_STATE_REGISTERED, under the mutex.           *)

\* A label that is in no list is first added to the Unknown list.
Tracked(f, l) == IF state[f][l] = "UNKNOWN" THEN "KNOWN" ELSE state[f][l]

RegisterCall(f, l, set, all) ==
  /\ Free(f)
  /\ round[l] < MaxRounds
  /\ SetState(f, l, Tracked(f, l))
  /\ busy' = [busy EXCEPT ![f] = Registering(l)]
  /\ IF Active(l)
       THEN /\ inbox' = [inbox EXCEPT ![f] = Append(@, Msg("failed", l))]
            /\ UNCHANGED <<open, members>>
       ELSE /\ open' = [open EXCEPT ![l] = all]
            /\ members' = [members EXCEPT ![l] = set]
            /\ inbox' = [g \in Federates |->
                 LET told == IF g = f THEN Append(inbox[g], Msg("registered", l))
                                      ELSE inbox[g]
                 IN  IF g \in set THEN Append(told, Msg("announced", l)) ELSE told]
  /\ round' = [round EXCEPT ![l] = @ + 1]
  /\ UNCHANGED <<life, achieved>>

\* (mutant of RegisterReturn) the state is not assigned.
RegisterReturnUnmarked(f, l) ==
  /\ life[f] = "in" /\ busy[f] = Registering(l)
  /\ busy' = [busy EXCEPT ![f] = NoCall]
  /\ UNCHANGED <<life, rtiVars, inbox, state>>

RegisterReturn(f, l) ==
  /\ life[f] = "in" /\ busy[f] = Registering(l)
  /\ SetState(f, l, "REGISTERED")
  /\ busy' = [busy EXCEPT ![f] = NoCall]
  /\ UNCHANGED <<life, rtiVars, inbox>>

-----------------------------------------------------------------------------
(* Waiting for a label that is in no list, to be announced or to be       *)
(* synchronized, first adds it to the Unknown list.                       *)

Track(f, l) ==
  /\ Free(f)
  /\ state[f][l] = "UNKNOWN"
  /\ SetState(f, l, "KNOWN")
  /\ UNCHANGED <<life, rtiVars, inbox, busy>>

-----------------------------------------------------------------------------
(* Achieving a point: synchronizationPointAchieved and then the assignment *)
(* of SYNC_PT_STATE_ACHIEVED, under the mutex.                            *)

\* What the manager leaves in the SyncPoint object before it asks the list to
\* achieve it: a new label is marked announced, and so is a label of a list
\* whose name DIFFERS from the Unknown list's.
Marked(f, l) ==
  IF state[f][l] = "UNKNOWN" \/ l \in Named[f] THEN "ANNOUNCED" ELSE state[f][l]

\* The RTI takes the achievement of a point it has announced to the federate
\* and the federate has not achieved; it throws
\* SynchronizationPointLabelNotAnnounced otherwise.
Accepts(f, l, box) ==
  f \in members[l] \ achieved[l] /\ ~InQueue(box[f], "announced", l)

\* The list-level achieve of a SyncPoint object in state s: only an announced
\* one goes to the RTI, and a refusal leaves the state alone.
AchieveFrom(f, l, s, box) ==
  /\ SetState(f, l, s)
  /\ IF s = "ANNOUNCED" /\ Accepts(f, l, box)
       THEN /\ Settle(l, members[l], achieved[l] \cup {f}, box)
            /\ busy' = [busy EXCEPT ![f] = Achieving(l)]
       ELSE /\ inbox' = box
            /\ UNCHANGED <<members, achieved, busy>>
  /\ UNCHANGED <<life, round, open>>

AchieveCall(f, l) == Free(f) /\ AchieveFrom(f, l, Marked(f, l), inbox)

\* (mutants of AchieveReturn) another state, or none, is assigned.
AchieveReturnAs(f, l, s) ==
  /\ life[f] = "in" /\ busy[f] = Achieving(l)
  /\ SetState(f, l, s)
  /\ busy' = [busy EXCEPT ![f] = NoCall]
  /\ UNCHANGED <<life, rtiVars, inbox>>
AchieveReturnUnmarked(f, l) == AchieveReturnAs(f, l, state[f][l])
AchieveReturnDone(f, l) == AchieveReturnAs(f, l, "SYNCHRONIZED")

AchieveReturn(f, l) ==
  /\ life[f] = "in" /\ busy[f] = Achieving(l)
  /\ SetState(f, l, "ACHIEVED")
  /\ busy' = [busy EXCEPT ![f] = NoCall]
  /\ UNCHANGED <<life, rtiVars, inbox>>

-----------------------------------------------------------------------------
(* The callbacks, each taken from the head of the inbox when the mutex is *)
(* free.                                                                  *)

Arrives(f, t, l) ==
  /\ Free(f)
  /\ inbox[f] # <<>> /\ Head(inbox[f]) = Msg(t, l)
Taken(f) == [inbox EXCEPT ![f] = Tail(@)]

\* The assignment of s to a managed label; an unmanaged one ends the federate.
Mark(f, l, s) ==
  /\ state[f][l] # "UNKNOWN"
  /\ SetState(f, l, s)
  /\ inbox' = Taken(f)
  /\ UNCHANGED <<life, rtiVars, busy>>

OnRegistered(f, l) == Arrives(f, "registered", l) /\ Mark(f, l, "REGISTERED")

\* Registration failed because another federate had registered the label.
OnFailed(f, l) ==
  /\ Arrives(f, "failed", l)
  /\ SetState(f, l, IF state[f][l] = "UNKNOWN" THEN "KNOWN" ELSE "REGISTERED")
  /\ inbox' = Taken(f)
  /\ UNCHANGED <<life, rtiVars, busy>>

OnAnnounced(f, l) ==
  /\ Arrives(f, "announced", l)
  /\ l \in Named[f]
  /\ Mark(f, l, "ANNOUNCED")

\* A label that is in no list is achieved at once.  One that is in the Unknown
\* list already is not marked, so it is not announced and nothing is achieved.
OnUnrecognized(f, l) ==
  /\ Arrives(f, "announced", l)
  /\ l \notin Named[f]
  /\ AchieveFrom(f, l, Marked(f, l), Taken(f))

\* (mutant of OnSynchronized) the object is marked achieved.
OnSynchronizedAchieved(f, l) ==
  Arrives(f, "synchronized", l) /\ Mark(f, l, "ACHIEVED")

OnSynchronized(f, l) == Arrives(f, "synchronized", l) /\ Mark(f, l, "SYNCHRONIZED")

-----------------------------------------------------------------------------
(* The specification: the operations as TrickHLA's execution controls use *)
(* them.  A label has one registering federate, which names it, is a      *)
(* member itself, and registers a label again only after it has seen the  *)
(* federation synchronized on it; the programs wait for a point to be     *)
(* announced before they achieve it, and may wait for one they do not name. *)

MayRegister(f, l) ==
  /\ f = Registrar[l]
  /\ state[f][l] \in {"KNOWN", "SYNCHRONIZED"}

RegisterForAll(f, l) == MayRegister(f, l) /\ RegisterCall(f, l, In, TRUE)
RegisterFor(f, l, set) ==
  MayRegister(f, l) /\ f \in set /\ RegisterCall(f, l, set, FALSE)
Achieve(f, l) == state[f][l] = "ANNOUNCED" /\ AchieveCall(f, l)

Callback(f, l) ==
  \/ OnRegistered(f, l)
  \/ OnAnnounced(f, l)
  \/ OnUnrecognized(f, l)
  \/ OnSynchronized(f, l)

Next ==
  \/ \E f \in Federates : Join(f) \/ Leave(f)
  \/ \E f \in Federates, l \in Labels :
       \/ Inform(f, l) \/ Drop(f, l)
       \/ RegisterForAll(f, l)
       \/ \E set \in SUBSET In : RegisterFor(f, l, set)
       \/ RegisterReturn(f, l)
       \/ Track(f, l)
       \/ Achieve(f, l)
       \/ AchieveReturn(f, l)
       \/ Callback(f, l)

Spec == Init /\ [][Next]_vars

\* The RTI delivers, calls return, and every joined program goes on to achieve
\* the points that are announced to it.
Fairness ==
  \A f \in Federates, l \in Labels :
    /\ WF_vars(Drop(f, l))
    /\ WF_vars(Callback(f, l))
    /\ WF_vars(RegisterReturn(f, l) \/ AchieveReturn(f, l))
    /\ WF_vars(Achieve(f, l))

FairSpec == Spec /\ Fairness

-----------------------------------------------------------------------------
(* Properties.                                                            *)

\* The federation waits for f at l.
Awaited(f, l) == f \in members[l] \ achieved[l]

\* The federate has l in its Unknown list, where an announcement leaves it.
Overlooked(f, l) ==
  l \notin Named[f] /\ state[f][l] \in {"KNOWN", "SYNCHRONIZED"}

\* No announcement is lost: while the federation waits for a joined federate
\* at a point, the announcement is on its way to it or the SyncPoint object
\* still says ANNOUNCED, so that wait_for_announced ends and an achieve goes
\* to the RTI.  Only a label that the federate does not name and that was in
\* its Unknown list before the announcement is left as it was.
NoLostAnnouncement ==
  \A f \in In, l \in Labels :
    Awaited(f, l) =>
      Pending(f, "announced", l) \/ state[f][l] = "ANNOUNCED" \/ Overlooked(f, l)

\* A SyncPoint object that says ANNOUNCED is one the RTI still expects to be
\* achieved, so the call is not refused and achieve-and-wait never terminates
\* the simulation.
AnnouncedIsAwaited ==
  \A f \in In, l \in Labels :
    state[f][l] = "ANNOUNCED" /\ busy[f] # Achieving(l) =>
      Awaited(f, l) /\ ~Pending(f, "announced", l)

\* No synchronization is lost: a federate that has achieved a point, and so
\* waits for it to be synchronized, is counted by the RTI as having achieved it
\* or will be told that the federation is synchronized.
NoLostSynchronization ==
  \A f \in In, l \in Labels :
    state[f][l] = "ACHIEVED" =>
      f \in achieved[l] \/ Pending(f, "synchronized", l)

\* f is held at l, or let go but not told yet.
Held(f, l) == state[f][l] = "ACHIEVED" \/ busy[f] = Achieving(l)

\* The points are barriers: no SyncPoint object leaves ACHIEVED before every
\* federate expected at the point has achieved it or has left, and none that
\* has achieved it misses that.
Barrier == INSTANCE SyncBarrier WITH
  live     <- In,
  expected <- [l \in Labels |-> members[l] \ achieved[l]],
  arrived  <- achieved,
  freed    <- [l \in Labels |-> {f \in In : Held(f, l) /\ f \notin achieved[l]}]
ImplementsBarrier == Barrier!Spec

-----------------------------------------------------------------------------
(* Why these hold: an inductive invariant.  About one point, a federate's *)
(* queue is empty or holds registered-announced, announced, synchronized  *)
(* or synchronized-announced; and what the RTI knows, what is queued and  *)
(* what the SyncPoint object says determine each other.                   *)

Follows == {<<"registered", "announced">>, <<"synchronized", "announced">>}

\* Two callbacks about one label are in the order the RTI makes them.
Ordered(q) ==
  \A i, j \in 1..Len(q) :
    i < j /\ q[i].label = q[j].label => <<q[i].type, q[j].type>> \in Follows

QueueInv ==
  \A f \in Federates :
    Ordered(inbox[f]) /\ \A l \in Labels : ~Pending(f, "failed", l)

RtiInv ==
  \A l \in Labels :
    /\ achieved[l] \subseteq members[l]
    /\ Active(l) => achieved[l] # members[l]
    /\ round[l] = 0 => ~Active(l)

LifeInv ==
  \A f \in Federates :
    /\ life[f] # "in" => busy[f] = NoCall /\ inbox[f] = <<>>
    /\ life[f] = "out" =>
         \A l \in Labels :
           /\ f \notin members[l]
           /\ state[f][l] = IF l \in Named[f] THEN "KNOWN" ELSE "UNKNOWN"
           /\ f = Registrar[l] => round[l] = 0

\* One federate and one point, as the RTI, the queue and the object have it.
MemberInv(f, l) ==
  /\ Pending(f, "announced", l) => Awaited(f, l)
  /\ Awaited(f, l) /\ ~Pending(f, "announced", l) =>
       \/ state[f][l] = "ANNOUNCED" /\ busy[f] # Achieving(l)
       \/ Overlooked(f, l)
  /\ state[f][l] = "ANNOUNCED" /\ busy[f] # Achieving(l) =>
       Awaited(f, l) /\ ~Pending(f, "announced", l)
  /\ Held(f, l) <=> f \in achieved[l] \/ Pending(f, "synchronized", l)
  /\ f \in achieved[l] => ~Pending(f, "synchronized", l)
  /\ busy[f] = Achieving(l) => state[f][l] = "ANNOUNCED"

\* The registering federate is a member, and does not miss its own point.
RegistrarInv(f, l) ==
  /\ Pending(f, "registered", l) =>
       f = Registrar[l] /\ (busy[f] = Registering(l) \/ state[f][l] = "REGISTERED")
  /\ busy[f] = Registering(l) =>
       f = Registrar[l] /\ state[f][l] \in {"KNOWN", "SYNCHRONIZED"}
  /\ f = Registrar[l] /\ Active(l) => f \in members[l]
  /\ f = Registrar[l] /\ Pending(f, "announced", l) =>
       busy[f] = Registering(l) \/ state[f][l] = "REGISTERED"

\* A label the federate does not name is not its to register, and says
\* ANNOUNCED only inside the call that achieves it.
UnrecognizedInv(f, l) ==
  l \notin Named[f] =>
    /\ state[f][l] # "REGISTERED"
    /\ state[f][l] = "ANNOUNCED" => busy[f] = Achieving(l)

IndInv ==
  /\ TypeOK /\ QueueInv /\ RtiInv /\ LifeInv
  /\ \A f \in In, l \in Labels :
       MemberInv(f, l) /\ RegistrarInv(f, l) /\ UnrecognizedInv(f, l)

\* The federation is held up at l by a federate that has overlooked it.
HeldUp(l) ==
  \E f \in In : Awaited(f, l) /\ ~Pending(f, "announced", l) /\ Overlooked(f, l)

\* Every registered point is in the end synchronized or abandoned by everyone,
\* and whoever achieved it is let through it, unless it leaves; except at a
\* point that a federate which does not name it has overlooked.
EverybodyGoesOn ==
  \A l \in Labels :
    /\ Active(l) ~> (~Active(l) \/ HeldUp(l))
    /\ \A f \in Federates :
         (life[f] = "in" /\ Held(f, l)) ~>
           (life[f] = "gone" \/ state[f][l] = "SYNCHRONIZED" \/ HeldUp(l))
=============================================================================
