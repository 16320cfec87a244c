----------------------------- MODULE SpaceFOMInit -----------------------------
(***************************************************************************)
(* Startup of a Space Reference FOM federation, from joining to running.   *)
(*                                                                         *)
(* SpaceFOM::ExecutionControl takes each federate through one of three     *)
(* programs - master, early joiner, late joiner - that keep in step by     *)
(* synchronization points and by updates of the Execution Configuration    *)
(* Object (ExCO) the master sends.  The points are those of SyncPoints,    *)
(* instantiated here: every step that registers, achieves or is told of a  *)
(* point is a step of that module.  A federate that takes no part in a     *)
(* wait polls the state of a point between two callbacks.                  *)
(***************************************************************************)
EXTENDS Naturals, Sequences

CONSTANTS
  Federates,
  Master,       \* the preset master
  Publisher,    \* the root reference frame publisher
  Required,     \* the federates the master waits for; {}: it waits for none
  Designated,   \* the designated late joiners
  Lossy,        \* those that may be lost during startup
  Phases        \* the user's multiphase initialization points

InitStarted == "initialization_started"
InitCompleted == "initialization_completed"
ObjectsDiscovered == "objects_discovered"
RootFrameDiscovered == "root_frame_discovered"
MtrRun == "mtr_run"
Startup == <<InitStarted, ObjectsDiscovered, RootFrameDiscovered>>
Labels == {Startup[i] : i \in 1..3} \cup {InitCompleted, MtrRun} \cup Phases

\* The ExCO and the root reference frame, and who owns them.
Objects == {"ExCO", "RootFrame"}
Owner == [o \in Objects |-> IF o = "ExCO" THEN Master ELSE Publisher]

ASSUME StartupAssumption ==
  /\ Phases \cap ({Startup[i] : i \in 1..3} \cup {InitCompleted, MtrRun}) = {}
  /\ {Master, Publisher} \subseteq Federates \ (Designated \cup Lossy)
  /\ Required # {} => {Master, Publisher} \subseteq Required
  /\ Required \cup Designated \cup Lossy \subseteq Federates

VARIABLES
  life, round, open, members, achieved, inbox, state, busy,  \* of SyncPoints
  pc,           \* pc[f]: where f's initialization is; a label: at that point
  waiting,      \* waiting[f]: f has achieved the point it is at
  late,         \* late[f]: "early" or "late" once determined
  handles,      \* the joined-federate handles the master registers with
  auto,         \* auto[f]: labels f's callback is about to achieve by itself
  registered,   \* the object instances registered with the RTI
  subscribed,   \* subscribed[f]: the objects f has subscribed to
  known,        \* known[f]: the objects f owns or has discovered
  queue,        \* queue[f][o]: reflected updates of o that f has yet to take
  requested     \* an update of the ExCO is requested of the master

syncVars == <<life, round, open, members, achieved, inbox, state, busy>>
dataVars == <<registered, subscribed, known, queue, requested>>
roleVars == <<late, handles, auto>>
vars == <<syncVars, pc, waiting, roleVars, dataVars>>

SP == INSTANCE SyncPoints WITH
  Named     <- [f \in Federates |-> Labels],
  Registrar <- [l \in Labels |-> Master],
  MaxRounds <- 2

\* What an ExCO update says of the current and the next execution mode.
Modes == {"initializing", "to_run", "running"}

Steps ==
  {"out", "role", "register", "announced", "subscribe", "objects", "epoch", "root",
    "frame", "phases", "complete", "go", "register_run", "await_run", "designated",
    "await_completed", "late", "late_exco", "late_update", "late_objects", "running",
    "gone", "terminated"}
Places == Labels \cup Steps

\* No multiphase point is named like a step.
ASSUME PlacesAssumption == Phases \cap Steps = {}

TypeOK ==
  /\ SP!TypeOK
  /\ pc \in [Federates -> Places]
  /\ waiting \in [Federates -> BOOLEAN]
  /\ late \in [Federates -> {"undetermined", "early", "late"}]
  /\ handles \subseteq Federates
  /\ auto \in [Federates -> SUBSET Labels]
  /\ registered \subseteq Objects
  /\ subscribed \in [Federates -> SUBSET Objects]
  /\ known \in [Federates -> SUBSET Objects]
  /\ queue \in [Federates -> [Objects -> Seq(Modes)]]
  /\ requested \in BOOLEAN

Init ==
  /\ SP!Init
  /\ pc = [f \in Federates |-> "out"]
  /\ waiting = [f \in Federates |-> FALSE]
  /\ late = [f \in Federates |-> "undetermined"]
  /\ handles = {}
  /\ auto = [f \in Federates |-> {}]
  /\ registered = {}
  /\ subscribed = [f \in Federates |-> {}]
  /\ known = [f \in Federates |-> {}]
  /\ queue = [f \in Federates |-> [o \in Objects |-> <<>>]]
  /\ requested = FALSE

\* The main thread of f, which is in no call, goes on from a to b.
Goto(f, a, b) ==
  /\ SP!Free(f) /\ pc[f] = a
  /\ pc' = [pc EXCEPT ![f] = b]

Is(f, l, s) == state[f][l] = s

\* wait_for_announced goes on when it sees the state ANNOUNCED itself.
Announced(f, l) == Is(f, l, "ANNOUNCED")

\* A federate knows an object when its instance handle is valid.
HasInstance(f, o) == o \in known[f]

-----------------------------------------------------------------------------
(* Joining, and finding out the role.                                      *)

Join(f) ==
  /\ SP!Join(f)
  /\ pc' = [pc EXCEPT ![f] = "role"]
  /\ UNCHANGED <<waiting, roleVars, dataVars>>

\* wait_for_required_federates_to_join: the Management Object Model has named
\* them all to the master, and whoever else is in set.
HaveJoined(set) == Required \subseteq set /\ set \subseteq SP!In

\* The master goes on with the handles of those that have joined.
Master_Determine ==
  /\ Goto(Master, "role", "register")
  /\ late' = [late EXCEPT ![Master] = "early"]
  /\ \E set \in SUBSET Federates :
       /\ HaveJoined(set)
       /\ handles' = IF Required = {} THEN {} ELSE set
  /\ UNCHANGED <<syncVars, waiting, auto, dataVars>>

\* (mutant of Determine) whoever is not early at the first look is late.
DetermineLate(f) ==
  /\ f # Master
  /\ Goto(f, "role", IF Announced(f, InitStarted) THEN "announced" ELSE "late")
  /\ late' = [late EXCEPT ![f] =
                IF Announced(f, InitStarted) THEN "early" ELSE "late"]
  /\ UNCHANGED <<syncVars, waiting, handles, auto, dataVars>>

\* The others poll: whoever has initialization_started announced is early,
\* whoever has initialization_completed announced is late.
Determine(f) ==
  /\ f # Master /\ pc[f] = "role"
  /\ \/ /\ Announced(f, InitStarted)
        /\ Goto(f, "role", IF f \in Designated THEN "designated" ELSE "announced")
        /\ late' = [late EXCEPT ![f] = "early"]
     \/ /\ ~Announced(f, InitStarted)
        /\ Announced(f, InitCompleted)
        /\ Goto(f, "role", "late")
        /\ late' = [late EXCEPT ![f] = "late"]
  /\ UNCHANGED <<syncVars, waiting, handles, auto, dataVars>>

\* A designated late joiner among the early ones goes on as a late one.
Designate(f) ==
  /\ Goto(f, "designated", "await_completed")
  /\ late' = [late EXCEPT ![f] = "late"]
  /\ UNCHANGED <<syncVars, waiting, handles, auto, dataVars>>

AwaitCompleted(f) ==
  /\ Goto(f, "await_completed", "late")
  /\ Announced(f, InitCompleted)
  /\ UNCHANGED <<syncVars, waiting, roleVars, dataVars>>

\* f is no longer a member of the federation execution.
LeaveFor(f, place) ==
  /\ SP!Leave(f)
  /\ pc' = [pc EXCEPT ![f] = place]
  /\ auto' = [auto EXCEPT ![f] = {}]
  /\ UNCHANGED <<waiting, late, handles, dataVars>>

\* f is lost, or ends because a call failed.
Lose(f) == f \in Lossy /\ LeaveFor(f, "gone")
Terminate(f) == SP!Free(f) /\ LeaveFor(f, "terminated")

-----------------------------------------------------------------------------
(* The master registers the points of the startup.                         *)

Registered(l) == round[l] > 0
StartupRegistered == \A i \in 1..3 : Registered(Startup[i])

\* (mutant of Due) the multiphase points are not registered.
DueButPhases(l) ==
  \E i \in 1..3 : l = Startup[i] /\ \A j \in 1..3 : Registered(Startup[j]) <=> j < i

\* l is the next to register: the three of Startup, then the multiphase ones.
Due(l) ==
  \/ \E i \in 1..3 :
       l = Startup[i] /\ \A j \in 1..3 : Registered(Startup[j]) <=> j < i
  \/ StartupRegistered /\ l \in Phases /\ ~Registered(l)

\* register_sync_point: for the federates of set, or for all.
RegisterFor(l, set) == SP!RegisterCall(Master, l, set, FALSE)
RegisterForAll(l) == SP!RegisterCall(Master, l, SP!In, TRUE)

\* No handles mean everybody; a handle of a federate that has left is refused
\* by the RTI, and ends the master.
Master_Register(l) ==
  /\ pc[Master] = "register" /\ Due(l)
  /\ \/ /\ handles = {} /\ RegisterForAll(l)
        /\ UNCHANGED <<pc, waiting, roleVars, dataVars>>
     \/ /\ handles # {} /\ handles \subseteq SP!In /\ RegisterFor(l, handles)
        /\ UNCHANGED <<pc, waiting, roleVars, dataVars>>
     \/ ~(handles \subseteq SP!In) /\ Terminate(Master)

Master_Registered ==
  /\ Goto(Master, "register", "announced")
  /\ \A l \in Labels : ~Due(l)
  /\ UNCHANGED <<syncVars, waiting, roleVars, dataVars>>

\* initialization_completed and mtr_run are registered for everybody.
Master_Complete ==
  /\ Goto(Master, "complete", "go")
  /\ RegisterForAll(InitCompleted)
  /\ UNCHANGED <<waiting, roleVars, dataVars>>

Master_RegisterRun ==
  /\ Goto(Master, "register_run", "await_run")
  /\ RegisterForAll(MtrRun)
  /\ UNCHANGED <<waiting, roleVars, dataVars>>

-----------------------------------------------------------------------------
(* Early joiners, the master among them: objects.                          *)

\* (mutant of AwaitAnnounced) only the first of the three is waited for.
AwaitAnnouncedFirst(f) ==
  /\ Goto(f, "announced", "subscribe")
  /\ Announced(f, Startup[1])
  /\ UNCHANGED <<syncVars, waiting, roleVars, dataVars>>

\* They wait for the announcements of the three startup points.
AwaitAnnounced(f) ==
  /\ Goto(f, "announced", "subscribe")
  /\ \A i \in 1..3 : Announced(f, Startup[i])
  /\ UNCHANGED <<syncVars, waiting, roleVars, dataVars>>

Owned(f) == {o \in Objects : Owner[o] = f}

\* (mutant of Subscribe) the instance handles are not stored.
SubscribeUnknown(f) ==
  /\ Goto(f, "subscribe", "objects") \/ Goto(f, "late_objects", "objects")
  /\ subscribed' = [subscribed EXCEPT ![f] = Objects]
  /\ registered' = registered \cup Owned(f)
  /\ UNCHANGED <<syncVars, waiting, roleVars, known, queue, requested>>

\* Publish and subscribe, reserve the names and register the owned objects.
Subscribe(f) ==
  /\ Goto(f, "subscribe", "objects") \/ Goto(f, "late_objects", "objects")
  /\ subscribed' = [subscribed EXCEPT ![f] = Objects]
  /\ registered' = registered \cup Owned(f)
  /\ known' = [known EXCEPT ![f] = @ \cup Owned(f)]
  /\ UNCHANGED <<syncVars, waiting, roleVars, queue, requested>>

\* The RTI has f discover an object it has subscribed to.
Discover(f, o) ==
  /\ life[f] = "in"
  /\ o \in (registered \cap subscribed[f]) \ known[f]
  /\ known' = [known EXCEPT ![f] = @ \cup {o}]
  /\ UNCHANGED <<syncVars, pc, waiting, roleVars, registered, subscribed, queue, requested>>

\* (mutant of ObjectsRegistered) the objects are not waited for.
ObjectsRegisteredUnseen(f) ==
  /\ Goto(f, "objects", IF late[f] = "late" THEN "running" ELSE ObjectsDiscovered)
  /\ UNCHANGED <<syncVars, waiting, roleVars, dataVars>>

\* Everybody waits for the required objects; for a late joiner that is all.
ObjectsRegistered(f) ==
  /\ Goto(f, "objects", IF late[f] = "late" THEN "running" ELSE ObjectsDiscovered)
  /\ \A o \in Objects : HasInstance(f, o)
  /\ UNCHANGED <<syncVars, waiting, roleVars, dataVars>>

-----------------------------------------------------------------------------
(* Points: achieve and wait for the federation to be synchronized.         *)

\* A refused achieve ends the federate.
Achieve(f) ==
  /\ pc[f] \in Labels /\ ~waiting[f]
  /\ \/ /\ SP!Accepts(f, pc[f], inbox)
        /\ SP!AchieveCall(f, pc[f])
        /\ waiting' = [waiting EXCEPT ![f] = TRUE]
        /\ UNCHANGED <<pc, roleVars, dataVars>>
     \/ ~SP!Accepts(f, pc[f], inbox) /\ Terminate(f)

\* Where f goes on after the point l.
After(f, l) ==
  CASE l = ObjectsDiscovered   -> "epoch"
    [] l = RootFrameDiscovered -> "phases"
    [] l = InitStarted         -> IF f = Master THEN "complete" ELSE "go"
    [] l = MtrRun              -> IF late[f] = "late" THEN "late_objects" ELSE "running"

\* (mutant of Synchronized) mtr_run is only achieved.
SynchronizedButRun(f) ==
  \E l \in Labels \ (Phases \cup {InitCompleted}) :
    /\ waiting[f] /\ Goto(f, l, After(f, l))
    /\ state[f][l] \in IF l = MtrRun THEN {"ACHIEVED", "SYNCHRONIZED"}
                                     ELSE {"SYNCHRONIZED"}
    /\ waiting' = [waiting EXCEPT ![f] = FALSE]
    /\ UNCHANGED <<syncVars, roleVars, dataVars>>

Synchronized(f) ==
  \E l \in Labels \ (Phases \cup {InitCompleted}) :
    /\ waiting[f] /\ Goto(f, l, After(f, l))
    /\ Is(f, l, "SYNCHRONIZED")
    /\ waiting' = [waiting EXCEPT ![f] = FALSE]
    /\ UNCHANGED <<syncVars, roleVars, dataVars>>

\* The multiphase points, in whatever order the simulation takes them; those
\* it leaves out are achieved together at the end.  One that is not announced
\* is passed over (AchieveNeverFails: there is none).
AchievePhase(f, l) ==
  /\ pc[f] = "phases" /\ Announced(f, l)
  /\ SP!AchieveCall(f, l)
  /\ UNCHANGED <<pc, waiting, roleVars, dataVars>>

\* (mutant of PhasesDone) the multiphase points are not waited for.
PhasesUndone(f) ==
  /\ Goto(f, "phases", InitStarted)
  /\ UNCHANGED <<syncVars, waiting, roleVars, dataVars>>

PhasesDone(f) ==
  /\ Goto(f, "phases", InitStarted)
  /\ \A l \in Phases : Is(f, l, "SYNCHRONIZED")
  /\ UNCHANGED <<syncVars, waiting, roleVars, dataVars>>

\* (mutant of AwaitRun) every federate registers mtr_run, not only the master.
AwaitRunRegisters(f) ==
  /\ Goto(f, "await_run", MtrRun)
  /\ SP!RegisterCall(f, MtrRun, SP!In, TRUE)
  /\ UNCHANGED <<waiting, roleVars, dataVars>>

\* mtr_run is first waited for until it is announced.
AwaitRun(f) ==
  /\ Goto(f, "await_run", MtrRun)
  /\ Announced(f, MtrRun)
  /\ UNCHANGED <<syncVars, waiting, roleVars, dataVars>>

-----------------------------------------------------------------------------
(* Updates of the objects.                                                 *)

\* The RTI reflects an update of o to those that have discovered o by now.
Reflected(o, m) ==
  [f \in Federates |->
     IF f # Owner[o] /\ HasInstance(f, o)
       THEN [queue[f] EXCEPT ![o] = Append(@, m)]
       ELSE queue[f]]

Received(f, o) ==
  /\ queue[f][o] # <<>>
  /\ queue' = [queue EXCEPT ![f][o] = Tail(@)]

\* The owner of o sends it, the others wait for one update of it.
Exchange(f, o, m) ==
  /\ IF f = Owner[o] THEN queue' = Reflected(o, m) ELSE Received(f, o)
  /\ UNCHANGED <<syncVars, waiting, roleVars, registered, subscribed, known, requested>>

Epoch(f) == Goto(f, "epoch", "root") /\ Exchange(f, "ExCO", "initializing")
RootFrame(f) == Goto(f, "root", "frame") /\ Exchange(f, "RootFrame", "initializing")
Frame(f) ==
  Goto(f, "frame", RootFrameDiscovered) /\ Exchange(f, "ExCO", "initializing")

\* The master sends the ExCO that says to go to run.
Master_Go ==
  Goto(Master, "go", "register_run") /\ Exchange(Master, "ExCO", "to_run")

\* An early joiner takes one more update; if it changes the mode, to mtr_run.
Go(f) ==
  /\ f # Master /\ pc[f] = "go" /\ queue[f]["ExCO"] # <<>>
  /\ Goto(f, "go", IF Head(queue[f]["ExCO"]) = "to_run" THEN "await_run" ELSE "running")
  /\ Exchange(f, "ExCO", "to_run")

\* Late joiners subscribe to the ExCO, ask for an update when they have
\* discovered it, and take one.
LateSubscribe(f) ==
  /\ Goto(f, "late", "late_exco")
  /\ subscribed' = [subscribed EXCEPT ![f] = @ \cup {"ExCO"}]
  /\ UNCHANGED <<syncVars, waiting, roleVars, registered, known, queue, requested>>

LateRequest(f) ==
  /\ Goto(f, "late_exco", "late_update")
  /\ HasInstance(f, "ExCO")
  /\ requested' = TRUE
  /\ UNCHANGED <<syncVars, waiting, roleVars, registered, subscribed, known, queue>>

LateUpdate(f) ==
  /\ pc[f] = "late_update" /\ queue[f]["ExCO"] # <<>>
  /\ Goto(f, "late_update",
          IF Head(queue[f]["ExCO"]) = "to_run" THEN "await_run" ELSE "late_objects")
  /\ Exchange(f, "ExCO", "to_run")

\* Requests are answered by the cyclic jobs of the running master.
Master_Provide ==
  /\ Goto(Master, "running", "running") /\ requested
  /\ requested' = FALSE
  /\ queue' = Reflected("ExCO", "running")
  /\ UNCHANGED <<syncVars, waiting, roleVars, registered, subscribed, known>>

-----------------------------------------------------------------------------
(* Callbacks of the synchronization points, one at a time.                 *)

\* A designated late joiner achieves by itself what is announced while it
\* initializes, except initialization_completed.
AchievesItself(f, l) == f \in Designated /\ pc[f] # "running" /\ l # InitCompleted

Callback(f, l) ==
  /\ auto[f] = {}
  /\ \/ (SP!OnRegistered(f, l) \/ SP!OnSynchronized(f, l)) /\ UNCHANGED auto
     \/ /\ SP!OnAnnounced(f, l)
        /\ auto' = [auto EXCEPT ![f] = {x \in {l} : AchievesItself(f, x)}]
  /\ UNCHANGED <<pc, waiting, late, handles, dataVars>>

AutoAchieve(f, l) ==
  /\ l \in auto[f]
  /\ SP!AchieveCall(f, l)
  /\ auto' = [auto EXCEPT ![f] = {}]
  /\ UNCHANGED <<pc, waiting, late, handles, dataVars>>

\* The RTI announces the points of everybody to who has joined, before
\* anything else happens.
Inform(f, l) == SP!Inform(f, l) /\ UNCHANGED <<pc, waiting, roleVars, dataVars>>
Informed ==
  \A f \in SP!In, l \in Labels : SP!Active(l) /\ open[l] => f \in members[l]

\* What else the RTI does by itself, and the return of the calls to it.
Rti(f, l) ==
  /\ \/ SP!Drop(f, l)
     \/ SP!RegisterReturn(f, l)
     \/ SP!AchieveReturn(f, l)
  /\ UNCHANGED <<pc, waiting, roleVars, dataVars>>

MasterStep ==
  \/ Master_Determine
  \/ \E l \in Labels : Master_Register(l)
  \/ Master_Registered \/ Master_Complete \/ Master_RegisterRun \/ Master_Go
  \/ Master_Provide

MainStep(f) ==
  \/ Determine(f) \/ Designate(f) \/ AwaitCompleted(f)
  \/ AwaitAnnounced(f) \/ Subscribe(f) \/ ObjectsRegistered(f)
  \/ Achieve(f) \/ Synchronized(f)
  \/ \E l \in Phases : AchievePhase(f, l)
  \/ PhasesDone(f) \/ AwaitRun(f)
  \/ Epoch(f) \/ RootFrame(f) \/ Frame(f) \/ Go(f)
  \/ LateSubscribe(f) \/ LateRequest(f) \/ LateUpdate(f)

Next ==
  \/ \E f \in Federates, l \in Labels : Inform(f, l)
  \/ /\ Informed
     /\ \/ MasterStep
        \/ \E f \in Federates : Join(f) \/ Lose(f) \/ MainStep(f)
        \/ \E f \in Federates, o \in Objects : Discover(f, o)
        \/ \E f \in Federates, l \in Labels :
             Callback(f, l) \/ AutoAchieve(f, l) \/ Rti(f, l)

Spec == Init /\ [][Next]_vars

\* Federates are started, their threads go on, and the RTI does its part.
Fairness ==
  /\ WF_vars(MasterStep)
  /\ \A f \in Federates :
       /\ WF_vars(Join(f)) /\ WF_vars(MainStep(f))
       /\ \A o \in Objects : WF_vars(Discover(f, o))
       /\ \A l \in Labels :
            /\ WF_vars(Callback(f, l)) /\ WF_vars(AutoAchieve(f, l))
            /\ WF_vars(Inform(f, l)) /\ WF_vars(Rti(f, l))

FairSpec == Spec /\ Fairness
-----------------------------------------------------------------------------
(* Properties.                                                             *)

\* The early joiners that go through the whole startup.
EarlyJoiner(f) == life[f] = "in" /\ late[f] = "early" /\ f \notin Designated

\* What the places say: only a member is at one, what is registered is known
\* to its owner, only subscribed objects are discovered and only known ones
\* reflected, and what achieves itself is a designated late joiner's.
StartupInv ==
  /\ TypeOK
  /\ \A f \in Federates :
       /\ life[f] = "out" <=> pc[f] = "out"
       /\ life[f] = "gone" <=> pc[f] \in {"gone", "terminated"}
       /\ auto[f] # {} => f \in Designated
       /\ known[f] \subseteq registered \cap (subscribed[f] \cup Owned(f))
       /\ \A o \in Objects : queue[f][o] # <<>> => o \in known[f]
  /\ \A o \in registered : o \in known[Owner[o]]

\* The execution control only registers, achieves and waits for points as
\* SyncPoints has it, so what is proved there holds of a startup: points are
\* registered once, by the master, and achieved only when announced.
UsesSyncPoints == SP!Spec

\* No achieve of a startup ever fails: at a point, or among the multiphase
\* points, an early joiner finds it announced, although it has waited for the
\* announcement of the first three only.  (A failed achieve ends the federate,
\* or, among the multiphase points, is ignored and holds up everybody.)
AchieveNeverFails ==
  \A f \in Federates : EarlyJoiner(f) =>
    \A l \in Labels :
      pc[f] = l \/ (pc[f] = "phases" /\ l \in Phases) =>
        state[f][l] \in {"ANNOUNCED", "ACHIEVED", "SYNCHRONIZED"}

\* How many times a federate at p has sent, or taken, the ExCO.
Exchanged(p) ==
  IF p \in {"root", "frame"} THEN 1
  ELSE IF p \in {RootFrameDiscovered, "phases", InitStarted, "complete", "go"} THEN 2
  ELSE IF p \in {"register_run", "await_run", MtrRun, "running"} THEN 3 ELSE 0

\* Every ExCO the master sends in a startup reaches every early joiner: none is
\* sent before an early joiner has discovered the ExCO, so each of its three
\* waits is for the update that is meant.
NoUpdateMissed ==
  \A f \in Federates \ {Master} :
    EarlyJoiner(f) /\ EarlyJoiner(Master) /\ pc[Master] # "running" =>
      Exchanged(pc[Master]) = Exchanged(pc[f]) + Len(queue[f]["ExCO"])

\* By the time initialization_completed is announced to a federate that has
\* been taken for early its multiphase points are synchronized (otherwise
\* sync_point_announced ends it).
InitCompletedIsLast ==
  \A f \in Federates :
    life[f] = "in" /\ late[f] = "early" /\ Announced(f, InitCompleted) =>
      \A l \in Phases : Is(f, l, "SYNCHRONIZED")

\* Nobody of the startup runs before all of it have got the mode and are at
\* mtr_run.
RunsTogether ==
  \A f, g \in Federates :
    EarlyJoiner(f) /\ EarlyJoiner(g) /\ pc[f] = "running" =>
      pc[g] \in {MtrRun, "running"}

\* A late joiner takes an ExCO that has a mode for it to go to: an update of
\* the startup of the others would end it.
LateJoinerLearnsMode ==
  \A f \in Federates :
    pc[f] = "late_update" /\ queue[f]["ExCO"] # <<>> =>
      Head(queue[f]["ExCO"]) # "initializing"

\* Everybody gets to run, unless a late joiner comes while the others are
\* starting: mtr_run is then registered for it too, and the federation may
\* wait there for one that waits for the running master.
EverybodyRuns ==
  <>(\/ \A f \in Federates : pc[f] = "running"
     \/ pc[Master] # "running" /\ \E f \in Federates : late[f] = "late")
=============================================================================
