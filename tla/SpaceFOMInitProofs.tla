------------------------- MODULE SpaceFOMInitProofs -------------------------
(***************************************************************************)
(* The startup of a federation without designated late joiners, whoever    *)
(* takes part and whenever they join or are lost.                          *)
(*                                                                         *)
(* It uses the synchronization points as SyncPoints has it, so what is     *)
(* proved of the points there is true of the startup (Inv, PointStep).     *)
(* From that follows, place by place, how far each federate is and what    *)
(* the points, the handles and the updates of the ExCO are by then         *)
(* (StartInv), and from this what the runs check of the startup.           *)
(***************************************************************************)
EXTENDS SpaceFOMInit, TLAPS

Proved == INSTANCE SyncPointsProofs WITH
  Named     <- [f \in Federates |-> Labels],
  Registrar <- [l \in Labels |-> Master],
  MaxRounds <- 2

\* The callback of a designated late joiner achieves points of its own accord,
\* while its main thread may be at the same point: the theorems exclude them.
NobodyDesignated == Designated = {}

-----------------------------------------------------------------------------
(* The two instances of SyncPoints are the same.                           *)

LEMMA Constants == Proved!ConstantsAssumption
BY StartupAssumption DEF Proved!ConstantsAssumption, Labels, Startup

LEMMA SameInit == SP!Init <=> Proved!Init
BY DEF SP!Init, Proved!Init, SP!NoCall, Proved!NoCall

LEMMA SameMoves ==
  ASSUME NEW f, NEW l
  PROVE  /\ SP!Join(f) <=> Proved!Join(f)
         /\ SP!Leave(f) <=> Proved!Leave(f)
         /\ SP!Inform(f, l) <=> Proved!Inform(f, l)
BY DEF SP!Join, Proved!Join, SP!Leave, Proved!Leave, SP!Inform, Proved!Inform,
       SP!rtiVars, Proved!rtiVars, SP!NoCall, Proved!NoCall, SP!Active, Proved!Active,
       SP!Msg, Proved!Msg

LEMMA SameSettle ==
  ASSUME NEW l, NEW ms, NEW done, NEW box
  PROVE  SP!Settle(l, ms, done, box) <=> Proved!Settle(l, ms, done, box)
BY DEF SP!Settle, Proved!Settle, SP!In, Proved!In, SP!Msg, Proved!Msg

LEMMA SameDrop ==
  ASSUME NEW f, NEW l
  PROVE  SP!Drop(f, l) <=> Proved!Drop(f, l)
BY SameSettle DEF SP!Drop, Proved!Drop

LEMMA SameReturns ==
  ASSUME NEW f, NEW l
  PROVE  /\ SP!RegisterReturn(f, l) <=> Proved!RegisterReturn(f, l)
         /\ SP!AchieveReturn(f, l) <=> Proved!AchieveReturn(f, l)
BY DEF SP!RegisterReturn, Proved!RegisterReturn, SP!AchieveReturn, Proved!AchieveReturn,
       SP!Registering, Proved!Registering, SP!Achieving, Proved!Achieving,
       SP!SetState, Proved!SetState, SP!rtiVars, Proved!rtiVars, SP!NoCall, Proved!NoCall

LEMMA SameRegister ==
  ASSUME NEW f, NEW l, NEW set, NEW all
  PROVE  /\ SP!RegisterCall(f, l, set, all) <=> Proved!RegisterCall(f, l, set, all)
         /\ SP!MayRegister(f, l) <=> Proved!MayRegister(f, l)
<1>1. SP!MayRegister(f, l) <=> Proved!MayRegister(f, l)
  BY DEF SP!MayRegister, Proved!MayRegister
<1>2. SP!RegisterCall(f, l, set, all) <=> Proved!RegisterCall(f, l, set, all)
  BY DEF SP!RegisterCall, Proved!RegisterCall, SP!Free, Proved!Free, SP!NoCall,
         Proved!NoCall, SP!SetState, Proved!SetState, SP!Tracked, Proved!Tracked,
         SP!Registering, Proved!Registering, SP!Active, Proved!Active, SP!Msg, Proved!Msg
<1> QED BY <1>1, <1>2

LEMMA SameTrack ==
  ASSUME NEW f, NEW l
  PROVE  SP!Track(f, l) <=> Proved!Track(f, l)
BY DEF SP!Track, Proved!Track, SP!Free, Proved!Free, SP!NoCall, Proved!NoCall,
       SP!SetState, Proved!SetState, SP!rtiVars, Proved!rtiVars

LEMMA SameAchieve ==
  ASSUME NEW f, NEW l, NEW box
  PROVE  /\ SP!Accepts(f, l, box) <=> Proved!Accepts(f, l, box)
         /\ SP!AchieveFrom(f, l, SP!Marked(f, l), box)
              <=> Proved!AchieveFrom(f, l, Proved!Marked(f, l), box)
         /\ SP!Achieve(f, l) <=> Proved!Achieve(f, l)
<1>1. ASSUME NEW b
      PROVE  SP!Accepts(f, l, b) <=> Proved!Accepts(f, l, b)
  BY DEF SP!Accepts, Proved!Accepts, SP!InQueue, Proved!InQueue, SP!Msg, Proved!Msg
<1>2. SP!Marked(f, l) = Proved!Marked(f, l)
  BY DEF SP!Marked, Proved!Marked
<1>3. ASSUME NEW s, NEW b
      PROVE  SP!AchieveFrom(f, l, s, b) <=> Proved!AchieveFrom(f, l, s, b)
  BY <1>1, SameSettle
     DEF SP!AchieveFrom, Proved!AchieveFrom, SP!SetState, Proved!SetState,
         SP!Achieving, Proved!Achieving
<1>4. SP!Achieve(f, l) <=> Proved!Achieve(f, l)
  BY <1>2, <1>3 DEF SP!Achieve, Proved!Achieve, SP!AchieveCall, Proved!AchieveCall,
         SP!Free, Proved!Free, SP!NoCall, Proved!NoCall
<1> QED BY <1>1, <1>2, <1>3, <1>4

LEMMA SameCallback ==
  ASSUME NEW f, NEW l
  PROVE  SP!Callback(f, l) <=> Proved!Callback(f, l)
<1>1. ASSUME NEW t
      PROVE  SP!Arrives(f, t, l) <=> Proved!Arrives(f, t, l)
  BY DEF SP!Arrives, Proved!Arrives, SP!Msg, Proved!Msg, SP!Free, Proved!Free,
         SP!NoCall, Proved!NoCall
<1>2. ASSUME NEW s
      PROVE  SP!Mark(f, l, s) <=> Proved!Mark(f, l, s)
  BY DEF SP!Mark, Proved!Mark, SP!SetState, Proved!SetState, SP!Taken, Proved!Taken,
         SP!rtiVars, Proved!rtiVars
<1>3. SP!OnUnrecognized(f, l) <=> Proved!OnUnrecognized(f, l)
  <2>1. SP!Taken(f) = Proved!Taken(f)
    BY DEF SP!Taken, Proved!Taken
  <2> QED BY <1>1, <2>1, SameAchieve DEF SP!OnUnrecognized, Proved!OnUnrecognized
<1> QED BY <1>1, <1>2, <1>3
        DEF SP!Callback, Proved!Callback, SP!OnRegistered, Proved!OnRegistered,
            SP!OnAnnounced, Proved!OnAnnounced, SP!OnSynchronized, Proved!OnSynchronized

\* So are their steps.
LEMMA SameNext == SP!Next <=> Proved!Next
<1>1. SP!In = Proved!In
  BY DEF SP!In, Proved!In
<1>2. ASSUME NEW f, NEW l
      PROVE  /\ SP!RegisterForAll(f, l) <=> Proved!RegisterForAll(f, l)
             /\ \A set : SP!RegisterFor(f, l, set) <=> Proved!RegisterFor(f, l, set)
  BY <1>1, SameRegister
     DEF SP!RegisterForAll, Proved!RegisterForAll, SP!RegisterFor, Proved!RegisterFor
<1>3. ASSUME NEW f, NEW l
      PROVE  /\ SP!Join(f) <=> Proved!Join(f)
             /\ SP!Leave(f) <=> Proved!Leave(f)
             /\ SP!Inform(f, l) <=> Proved!Inform(f, l)
             /\ SP!Drop(f, l) <=> Proved!Drop(f, l)
             /\ SP!RegisterReturn(f, l) <=> Proved!RegisterReturn(f, l)
             /\ SP!Track(f, l) <=> Proved!Track(f, l)
             /\ SP!Achieve(f, l) <=> Proved!Achieve(f, l)
             /\ SP!AchieveReturn(f, l) <=> Proved!AchieveReturn(f, l)
             /\ SP!Callback(f, l) <=> Proved!Callback(f, l)
  BY SameMoves, SameDrop, SameReturns, SameTrack, SameAchieve, SameCallback
<1> QED BY <1>1, <1>2, <1>3 DEF SP!Next, Proved!Next

-----------------------------------------------------------------------------
(* The master registers initialization_completed and mtr_run once, in this *)
(* order, after the points of the startup.                                 *)

BeforeCompleted == {"out", "role", "register", "announced", "subscribe", "objects",
  ObjectsDiscovered, "epoch", "root", "frame", RootFrameDiscovered, "phases",
  InitStarted, "complete"}
BeforeRun == BeforeCompleted \cup {"go", "register_run"}
Ended == {"gone", "terminated"}

\* Where the master is, in its program of an early joiner, and what it has not
\* registered by then.
MasterInv ==
  /\ DOMAIN pc = Federates /\ DOMAIN late = Federates
  /\ pc[Master] \in BeforeRun \cup {"await_run", MtrRun, "running"} \cup Ended
  /\ pc[Master] \in BeforeCompleted => round[InitCompleted] = 0
  /\ pc[Master] \in BeforeRun => round[MtrRun] = 0
  /\ pc[Master] \notin {"out", "role"} \cup Ended => late[Master] = "early"
  /\ handles # {} => Master \in handles
  /\ pc[Master] # "out" => life[Master] # "out"

\* No callback is about to achieve a point of its own accord.
AutoInv == auto = [f \in Federates |-> {}]

Inv == Proved!IndInv /\ Proved!FreshInv /\ MasterInv /\ AutoInv

\* A step of the points, if any.
PointStep == SP!Next \/ UNCHANGED syncVars

LEMMA Initially == Init => Inv
<1> SUFFICES ASSUME Init PROVE Inv
  OBVIOUS
<1>1. Proved!Init
  BY SameInit DEF Init
<1>2. Proved!IndInv /\ Proved!FreshInv
  BY <1>1, Constants, Proved!InitInv, Proved!FreshInit
<1>3. round = [l \in Labels |-> 0]
  BY <1>1 DEF Proved!Init
<1>4. Master \in Federates /\ InitCompleted \in Labels /\ MtrRun \in Labels
  BY StartupAssumption DEF Labels
<1>5. MasterInv
  BY <1>3, <1>4 DEF Init, MasterInv, BeforeRun, BeforeCompleted, Ended
<1>6. AutoInv
  BY DEF Init, AutoInv
<1> QED BY <1>2, <1>5, <1>6 DEF Inv

\* A label that is due or otherwise new may be registered.
LEMMA MayRegisterNew ==
  ASSUME Inv, NEW l \in Labels, round[l] = 0
  PROVE  SP!MayRegister(Master, l)
<1>1. Master \in Federates
  BY StartupAssumption
<1>2. state[Master][l] = "KNOWN"
  BY <1>1 DEF Inv, Proved!FreshInv, Proved!Fresh
<1>3. Master = [k \in Labels |-> Master][l]
  OBVIOUS
<1> QED BY <1>2, <1>3 DEF SP!MayRegister

\* Every federate names every label of the startup.
LEMMA NothingOverlooked ==
  ASSUME NEW f \in Federates, NEW l \in Labels
  PROVE  ~Proved!Overlooked(f, l)
<1>1. l \in [g \in Federates |-> Labels][f]
  OBVIOUS
<1> QED BY <1>1 DEF Proved!Overlooked

\* What the RTI accepts has been announced.
LEMMA AcceptedIsAnnounced ==
  ASSUME Inv, NEW f \in Federates, NEW l \in Labels, SP!Accepts(f, l, inbox),
         SP!AchieveCall(f, l)
  PROVE  SP!Achieve(f, l)
<1>1. Proved!Accepts(f, l, inbox)
  BY SameAchieve
<1>2. life[f] = "in"
  BY DEF SP!AchieveCall, SP!Free
<1>3. Proved!MemberInv(f, l)
  BY <1>2 DEF Inv, Proved!IndInv, Proved!In
<1>4. state[f][l] = "ANNOUNCED"
  BY <1>1, <1>3, NothingOverlooked
     DEF Proved!Accepts, Proved!MemberInv, Proved!Awaited, Proved!Pending
<1> QED BY <1>4 DEF SP!Achieve

\* Nothing of the master is touched by the program of another federate,
LEMMA OthersMove ==
  ASSUME MasterInv, AutoInv, NEW f \in Federates \ {Master}, NEW b, NEW r,
         pc' = pc \/ pc' = [pc EXCEPT ![f] = b],
         late' = late \/ late' = [late EXCEPT ![f] = r],
         life'[Master] = life[Master], UNCHANGED <<round, handles, auto>>
  PROVE  MasterInv' /\ AutoInv'
<1>1. DOMAIN pc = Federates /\ DOMAIN late = Federates /\ Master \in Federates
  BY StartupAssumption DEF MasterInv
<1>2. DOMAIN pc' = Federates /\ pc'[Master] = pc[Master]
  <2>1. CASE pc' = pc
    BY <1>1, <2>1
  <2>2. CASE pc' = [pc EXCEPT ![f] = b]
    BY <1>1, <2>2
  <2> QED BY <2>1, <2>2
<1>3. DOMAIN late' = Federates /\ late'[Master] = late[Master]
  <2>1. CASE late' = late
    BY <1>1, <2>1
  <2>2. CASE late' = [late EXCEPT ![f] = r]
    BY <1>1, <2>2
  <2> QED BY <2>1, <2>2
<1> QED BY <1>2, <1>3 DEF MasterInv, AutoInv

\* and where the master itself goes.
LEMMA MasterMoves ==
  ASSUME MasterInv, AutoInv, NEW b,
         pc' = [pc EXCEPT ![Master] = b],
         b \in BeforeRun \cup {"await_run", MtrRun, "running"} \cup Ended,
         b \in BeforeCompleted => pc[Master] \in BeforeCompleted,
         b \in BeforeRun => pc[Master] \in BeforeRun,
         b \notin {"out", "role"} \cup Ended => pc[Master] \notin {"out", "role"} \cup Ended,
         life'[Master] # "out",
         UNCHANGED <<round, handles, auto, late>>
  PROVE  MasterInv' /\ AutoInv'
<1>1. DOMAIN pc = Federates /\ Master \in Federates
  BY StartupAssumption DEF MasterInv
<1>2. DOMAIN pc' = Federates /\ pc'[Master] = b
  BY <1>1
<1> QED BY <1>2 DEF MasterInv, AutoInv, Ended

\* A step of the program of f that does not touch a point.
Waits(f) ==
  \/ Determine(f) \/ Designate(f) \/ AwaitCompleted(f)
  \/ AwaitAnnounced(f) \/ Subscribe(f) \/ ObjectsRegistered(f) \/ Synchronized(f)
  \/ PhasesDone(f) \/ AwaitRun(f)
  \/ Epoch(f) \/ RootFrame(f) \/ Frame(f) \/ Go(f)
  \/ LateSubscribe(f) \/ LateRequest(f) \/ LateUpdate(f)

LEMMA WaitsQuiet ==
  ASSUME NEW f, Waits(f)
  PROVE  UNCHANGED syncVars /\ UNCHANGED <<round, handles, auto, life>>
<1>1. UNCHANGED syncVars /\ UNCHANGED <<handles, auto>>
  BY DEF Waits, Determine, Designate, AwaitCompleted, AwaitAnnounced, Subscribe,
         ObjectsRegistered, Synchronized, PhasesDone, AwaitRun, Epoch, RootFrame, Frame,
         Go, LateSubscribe, LateRequest, LateUpdate, Exchange, roleVars
<1> QED BY <1>1 DEF syncVars

LEMMA OtherWaits ==
  ASSUME MasterInv, AutoInv, NEW f \in Federates \ {Master}, Waits(f)
  PROVE  MasterInv' /\ AutoInv'
<1>1. /\ \E b : pc' = [pc EXCEPT ![f] = b]
      /\ late' = late \/ \E r : late' = [late EXCEPT ![f] = r]
  BY DEF Waits, Determine, Designate, AwaitCompleted, AwaitAnnounced, Subscribe,
         ObjectsRegistered, Synchronized, PhasesDone, AwaitRun, Epoch, RootFrame, Frame,
         Go, LateSubscribe, LateRequest, LateUpdate, Exchange, roleVars, Goto
<1>2. PICK b : pc' = [pc EXCEPT ![f] = b]
  BY <1>1
<1>3. PICK r : late' = late \/ late' = [late EXCEPT ![f] = r]
  BY <1>1
<1> QED BY <1>2, <1>3, WaitsQuiet, OthersMove

\* The places of the master are in this order.
LEMMA MasterGoes ==
  ASSUME MasterInv, AutoInv, UNCHANGED <<round, handles, auto, late, life>>,
         NEW a, NEW b, pc[Master] = a, pc' = [pc EXCEPT ![Master] = b],
         <<a, b>> \in {<<"register", "announced">>, <<"announced", "subscribe">>, <<"subscribe", "objects">>,
           <<"objects", ObjectsDiscovered>>, <<ObjectsDiscovered, "epoch">>,
           <<"epoch", "root">>, <<"root", "frame">>, <<"frame", RootFrameDiscovered>>,
           <<RootFrameDiscovered, "phases">>, <<"phases", InitStarted>>,
           <<InitStarted, "complete">>, <<"go", "register_run">>, <<"await_run", MtrRun>>, <<MtrRun, "running">>,
           <<"running", "running">>}
  PROVE  MasterInv' /\ AutoInv'
<1>1. b \in BeforeRun \cup {"await_run", MtrRun, "running"} \cup Ended
  BY DEF BeforeRun, BeforeCompleted, Ended
<1>2. b \in BeforeCompleted => a \in BeforeCompleted
  BY DEF BeforeCompleted, InitStarted, ObjectsDiscovered, RootFrameDiscovered, MtrRun
<1>3. b \in BeforeRun => a \in BeforeRun
  BY DEF BeforeRun, BeforeCompleted, InitStarted, ObjectsDiscovered, RootFrameDiscovered,
         MtrRun
<1>4. a \notin {"out", "role"} \cup Ended
  BY DEF Ended, InitStarted, ObjectsDiscovered, RootFrameDiscovered, MtrRun
<1>5. life'[Master] # "out"
  BY <1>4 DEF MasterInv
<1> QED BY <1>1, <1>2, <1>3, <1>4, <1>5, MasterMoves

LEMMA MasterWaits ==
  ASSUME MasterInv, AutoInv, Waits(Master)
  PROVE  MasterInv' /\ AutoInv'
<1>0. UNCHANGED <<round, handles, auto, life>>
  BY WaitsQuiet
<1>1. /\ pc[Master] \notin {"late_objects", "designated", "await_completed", "late",
                            "late_exco", "late_update"}
      /\ pc[Master] \in {"objects", MtrRun} => late[Master] = "early"
  BY DEF MasterInv, BeforeRun, BeforeCompleted, Ended, InitStarted, ObjectsDiscovered,
         RootFrameDiscovered, MtrRun
<1>2. CASE AwaitAnnounced(Master) \/ Subscribe(Master) \/ PhasesDone(Master)
           \/ AwaitRun(Master)
  <2>1. \/ pc[Master] = "announced" /\ pc' = [pc EXCEPT ![Master] = "subscribe"]
        \/ pc[Master] = "subscribe" /\ pc' = [pc EXCEPT ![Master] = "objects"]
        \/ pc[Master] = "phases" /\ pc' = [pc EXCEPT ![Master] = InitStarted]
        \/ pc[Master] = "await_run" /\ pc' = [pc EXCEPT ![Master] = MtrRun]
    BY <1>1, <1>2 DEF AwaitAnnounced, Subscribe, PhasesDone, AwaitRun, Goto
  <2>2. late' = late
    BY <1>2 DEF AwaitAnnounced, Subscribe, PhasesDone, AwaitRun, roleVars
  <2> QED BY <1>0, <2>1, <2>2, MasterGoes
<1>3. CASE Epoch(Master) \/ RootFrame(Master) \/ Frame(Master)
  <2>1. \/ pc[Master] = "epoch" /\ pc' = [pc EXCEPT ![Master] = "root"]
        \/ pc[Master] = "root" /\ pc' = [pc EXCEPT ![Master] = "frame"]
        \/ pc[Master] = "frame" /\ pc' = [pc EXCEPT ![Master] = RootFrameDiscovered]
    BY <1>3 DEF Epoch, RootFrame, Frame, Goto
  <2>2. late' = late
    BY <1>3 DEF Epoch, RootFrame, Frame, Exchange, roleVars
  <2> QED BY <1>0, <2>1, <2>2, MasterGoes
<1>4. CASE ObjectsRegistered(Master)
  <2>1. /\ pc[Master] = "objects" /\ late' = late
        /\ pc' = [pc EXCEPT ![Master] = ObjectsDiscovered]
    BY <1>1, <1>4 DEF ObjectsRegistered, Goto, roleVars
  <2> QED BY <1>0, <2>1, MasterGoes
<1>5. CASE Synchronized(Master)
  <2>1. PICK l \in Labels \ (Phases \cup {InitCompleted}) :
          /\ pc[Master] = l /\ late' = late
          /\ pc' = [pc EXCEPT ![Master] = After(Master, l)]
    BY <1>5 DEF Synchronized, Goto, roleVars
  <2>2. l \in {InitStarted, ObjectsDiscovered, RootFrameDiscovered, MtrRun}
    BY DEF Labels, Startup
  <2>3. <<l, After(Master, l)>> \in {<<ObjectsDiscovered, "epoch">>,
          <<RootFrameDiscovered, "phases">>, <<InitStarted, "complete">>,
          <<MtrRun, "running">>}
    BY <1>1, <2>1, <2>2
       DEF After, InitStarted, ObjectsDiscovered, RootFrameDiscovered, MtrRun
  <2> QED BY <1>0, <2>1, <2>3, MasterGoes
<1>6. ~(\/ Determine(Master) \/ Designate(Master) \/ AwaitCompleted(Master) \/ Go(Master)
        \/ LateSubscribe(Master) \/ LateRequest(Master) \/ LateUpdate(Master))
  BY <1>1 DEF Determine, Designate, AwaitCompleted, Go, LateSubscribe, LateRequest,
         LateUpdate, Goto
<1> QED BY <1>2, <1>3, <1>4, <1>5, <1>6 DEF Waits

\* The steps of the master, and of the points, that the program of f makes.
LEMMA KeepsMaster ==
  ASSUME MasterInv, AutoInv, UNCHANGED <<pc, late, handles, auto, round, life>>
  PROVE  MasterInv' /\ AutoInv'
BY DEF MasterInv, AutoInv

LEMMA LeaveStep ==
  ASSUME MasterInv, AutoInv, NEW f \in Federates, NEW place \in Ended, LeaveFor(f, place),
         DOMAIN life = Federates
  PROVE  SP!Next /\ MasterInv' /\ AutoInv'
<1>1. /\ SP!Leave(f) /\ pc' = [pc EXCEPT ![f] = place]
      /\ auto' = [auto EXCEPT ![f] = {}]
      /\ UNCHANGED <<late, handles, round>>
      /\ life' = [life EXCEPT ![f] = "gone"]
  BY DEF LeaveFor, SP!Leave, SP!rtiVars
<1>2. auto' = auto
  BY <1>1 DEF AutoInv
<1>3. MasterInv' /\ AutoInv'
  <2>1. CASE f = Master
    <3>1. life'[Master] # "out"
      BY <1>1, <2>1
    <3>2. place \notin BeforeRun
      BY DEF Ended, BeforeRun, BeforeCompleted, InitStarted, ObjectsDiscovered,
             RootFrameDiscovered
    <3> QED BY <1>1, <1>2, <2>1, <3>1, <3>2, MasterMoves DEF BeforeRun
  <2>2. CASE f # Master
    <3>1. life'[Master] = life[Master]
      BY <1>1, <2>2, StartupAssumption
    <3> QED BY <1>1, <1>2, <2>2, <3>1, OthersMove
  <2> QED BY <2>1, <2>2
<1> QED BY <1>1, <1>3 DEF SP!Next

LEMMA JoinStep ==
  ASSUME MasterInv, AutoInv, NEW f \in Federates, Join(f), DOMAIN life = Federates
  PROVE  SP!Next /\ MasterInv' /\ AutoInv'
<1>1. /\ SP!Join(f) /\ pc' = [pc EXCEPT ![f] = "role"]
      /\ UNCHANGED <<late, handles, round, auto>>
      /\ life[f] = "out" /\ life' = [life EXCEPT ![f] = "in"]
  BY DEF Join, SP!Join, SP!rtiVars, roleVars
<1>2. MasterInv' /\ AutoInv'
  <2>1. CASE f = Master
    <3>1. life'[Master] # "out" /\ pc[Master] = "out"
      BY <1>1, <2>1 DEF MasterInv
    <3>2. "role" \in BeforeRun /\ "out" \in BeforeCompleted /\ "out" \in BeforeRun
      BY DEF BeforeRun, BeforeCompleted
    <3> QED BY <1>1, <2>1, <3>1, <3>2, MasterMoves
  <2>2. CASE f # Master
    <3>1. life'[Master] = life[Master]
      BY <1>1, <2>2, StartupAssumption
    <3> QED BY <1>1, <2>2, <3>1, OthersMove
  <2> QED BY <2>1, <2>2
<1> QED BY <1>1, <1>2 DEF SP!Next

\* A point is registered by the master, for everybody or for the handles.
LEMMA RegisterStep ==
  ASSUME Inv, NEW l \in Labels, round[l] = 0,
         \/ RegisterForAll(l)
         \/ handles # {} /\ handles \subseteq SP!In /\ RegisterFor(l, handles)
  PROVE  SP!Next /\ life' = life /\ round' = [round EXCEPT ![l] = @ + 1]
<1>1. SP!MayRegister(Master, l) /\ Master \in Federates
  BY MayRegisterNew, StartupAssumption
<1>2. CASE RegisterForAll(l)
  <2>1. SP!RegisterForAll(Master, l)
    BY <1>1, <1>2 DEF RegisterForAll, SP!RegisterForAll
  <2>2. SP!Next
    BY <1>1, <2>1 DEF SP!Next
  <2> QED BY <1>2, <2>2 DEF RegisterForAll, SP!RegisterCall
<1>3. CASE handles # {} /\ handles \subseteq SP!In /\ RegisterFor(l, handles)
  <2>1. SP!RegisterFor(Master, l, handles)
    BY <1>1, <1>3 DEF RegisterFor, SP!RegisterFor, Inv, MasterInv
  <2>2. SP!Next
    BY <1>1, <1>3, <2>1 DEF SP!Next
  <2> QED BY <1>3, <2>2 DEF RegisterFor, SP!RegisterCall
<1> QED BY <1>2, <1>3

\* What every step is shown to do.
Stays == PointStep /\ MasterInv' /\ AutoInv'

LEMMA RegistersStep ==
  ASSUME Inv, NEW l \in Labels, Master_Register(l), DOMAIN life = Federates
  PROVE  Stays
<1>1. Master \in Federates
  BY StartupAssumption
<1>2. CASE Terminate(Master)
  <2>1. "terminated" \in Ended
    BY DEF Ended
  <2> QED BY <1>1, <1>2, <2>1, LeaveStep DEF Terminate, Inv, Stays, PointStep
<1>3. CASE ~Terminate(Master)
  <2>1. /\ pc[Master] = "register" /\ Due(l)
        /\ UNCHANGED <<pc, late, handles, auto>>
        /\ \/ RegisterForAll(l)
           \/ handles # {} /\ handles \subseteq SP!In /\ RegisterFor(l, handles)
    BY <1>3 DEF Master_Register, roleVars
  <2>2. round \in [Labels -> Nat]
    BY DEF Inv, Proved!IndInv, Proved!TypeOK
  <2>3. round[l] = 0 /\ l \notin {InitCompleted, MtrRun}
    <3>1. CASE l \in Phases
      BY <2>1, <2>2, <3>1, StartupAssumption
         DEF Due, Registered, Startup, InitStarted, InitCompleted, ObjectsDiscovered,
             RootFrameDiscovered, MtrRun
    <3>2. CASE l \notin Phases
      <4>1. PICK n \in 1..3 : l = Startup[n] /\ ~Registered(Startup[n])
        BY <2>1, <3>2 DEF Due
      <4> QED BY <2>2, <4>1
              DEF Registered, Startup, InitStarted, InitCompleted, ObjectsDiscovered,
                  RootFrameDiscovered, MtrRun
    <3> QED BY <3>1, <3>2
  <2>4. SP!Next /\ life' = life /\ round' = [round EXCEPT ![l] = @ + 1]
    BY <2>1, <2>3, RegisterStep
  <2>5. round'[InitCompleted] = round[InitCompleted] /\ round'[MtrRun] = round[MtrRun]
    BY <2>2, <2>3, <2>4 DEF Labels
  <2>6. MasterInv' /\ AutoInv'
    BY <2>1, <2>4, <2>5 DEF Inv, MasterInv, AutoInv
  <2> QED BY <2>4, <2>6 DEF Stays, PointStep
<1> QED BY <1>2, <1>3

LEMMA CompletesStep ==
  ASSUME Inv, Master_Complete \/ Master_RegisterRun
  PROVE  Stays
<1>0. /\ Master \in Federates /\ InitCompleted \in Labels /\ MtrRun \in Labels
      /\ InitCompleted # MtrRun /\ round \in [Labels -> Nat] /\ MasterInv /\ AutoInv
  BY StartupAssumption
     DEF Labels, InitCompleted, MtrRun, Inv, Proved!IndInv, Proved!TypeOK
<1>1. CASE Master_Complete
  <2>1. /\ pc[Master] = "complete" /\ pc' = [pc EXCEPT ![Master] = "go"]
        /\ RegisterForAll(InitCompleted) /\ UNCHANGED <<late, handles, auto>>
    BY <1>1 DEF Master_Complete, Goto, roleVars
  <2>2. round[InitCompleted] = 0 /\ round[MtrRun] = 0
        /\ late[Master] = "early" /\ life[Master] # "out"
    BY <1>0, <2>1 DEF MasterInv, BeforeRun, BeforeCompleted, Ended
  <2>3. SP!Next /\ life' = life /\ round' = [round EXCEPT ![InitCompleted] = @ + 1]
    BY <1>0, <2>1, <2>2, RegisterStep
  <2>4. /\ pc'[Master] = "go" /\ DOMAIN pc' = Federates
        /\ round'[MtrRun] = 0
    BY <1>0, <2>1, <2>2, <2>3 DEF MasterInv
  <2>5. "go" \notin BeforeCompleted /\ "go" \in BeforeRun
    BY DEF BeforeCompleted, BeforeRun, InitStarted, ObjectsDiscovered, RootFrameDiscovered
  <2>6. MasterInv' /\ AutoInv'
    BY <1>0, <2>1, <2>2, <2>3, <2>4, <2>5 DEF MasterInv, AutoInv
  <2> QED BY <2>3, <2>6 DEF Stays, PointStep
<1>2. CASE Master_RegisterRun
  <2>1. /\ pc[Master] = "register_run" /\ pc' = [pc EXCEPT ![Master] = "await_run"]
        /\ RegisterForAll(MtrRun) /\ UNCHANGED <<late, handles, auto>>
    BY <1>2 DEF Master_RegisterRun, Goto, roleVars
  <2>2. round[MtrRun] = 0 /\ late[Master] = "early" /\ life[Master] # "out"
    BY <1>0, <2>1 DEF MasterInv, BeforeRun, BeforeCompleted, Ended
  <2>3. SP!Next /\ life' = life
    BY <1>0, <2>1, <2>2, RegisterStep
  <2>4. pc'[Master] = "await_run" /\ DOMAIN pc' = Federates
    BY <1>0, <2>1 DEF MasterInv
  <2>5. "await_run" \notin BeforeRun /\ "await_run" \notin BeforeCompleted
    BY DEF BeforeCompleted, BeforeRun, InitStarted, ObjectsDiscovered, RootFrameDiscovered
  <2>6. MasterInv' /\ AutoInv'
    BY <1>0, <2>1, <2>2, <2>3, <2>4, <2>5 DEF MasterInv, AutoInv
  <2> QED BY <2>3, <2>6 DEF Stays, PointStep
<1> QED BY <1>1, <1>2

LEMMA DetermineStep ==
  ASSUME Inv, Master_Determine
  PROVE  Stays
<1>0. Master \in Federates /\ MasterInv /\ AutoInv
  BY StartupAssumption DEF Inv
<1>1. /\ pc[Master] = "role" /\ pc' = [pc EXCEPT ![Master] = "register"]
      /\ late' = [late EXCEPT ![Master] = "early"]
      /\ UNCHANGED syncVars /\ auto' = auto
  BY DEF Master_Determine, Goto
<1>2. handles' # {} => Master \in handles'
  BY StartupAssumption DEF Master_Determine, HaveJoined
<1>3. /\ pc'[Master] = "register" /\ late'[Master] = "early"
      /\ DOMAIN pc' = Federates /\ DOMAIN late' = Federates
      /\ round' = round /\ life' = life
  BY <1>0, <1>1 DEF MasterInv, syncVars
<1>4. "role" \in BeforeCompleted /\ "register" \in BeforeRun /\ "role" \in BeforeRun
  BY DEF BeforeCompleted, BeforeRun
<1>5. MasterInv' /\ AutoInv'
  BY <1>0, <1>1, <1>2, <1>3, <1>4 DEF MasterInv, AutoInv
<1> QED BY <1>1, <1>5 DEF Stays, PointStep

LEMMA MasterStepStays ==
  ASSUME Inv, MasterStep, DOMAIN life = Federates
  PROVE  Stays
<1>1. CASE Master_Registered \/ Master_Go \/ Master_Provide
  <2>1. /\ UNCHANGED syncVars /\ UNCHANGED <<late, handles, auto>>
        /\ \/ pc[Master] = "register" /\ pc' = [pc EXCEPT ![Master] = "announced"]
           \/ pc[Master] = "go" /\ pc' = [pc EXCEPT ![Master] = "register_run"]
           \/ pc[Master] = "running" /\ pc' = [pc EXCEPT ![Master] = "running"]
    BY <1>1 DEF Master_Registered, Master_Go, Master_Provide, Goto, Exchange, roleVars
  <2>2. UNCHANGED <<round, life>>
    BY <2>1 DEF syncVars
  <2> QED BY <2>1, <2>2, MasterGoes DEF Inv, Stays, PointStep
<1> QED BY <1>1, DetermineStep, RegistersStep, CompletesStep DEF MasterStep

\* Achieving a point, and the points of the multiphase initialization.
LEMMA AchieveStep ==
  ASSUME Inv, NEW f \in Federates, DOMAIN life = Federates,
         Achieve(f) \/ \E l \in Phases : AchievePhase(f, l)
  PROVE  Stays
<1>1. CASE Terminate(f)
  <2>1. "terminated" \in Ended
    BY DEF Ended
  <2> QED BY <1>1, <2>1, LeaveStep DEF Terminate, Inv, Stays, PointStep
<1>2. CASE ~Terminate(f)
  <2>1. PICK l \in Labels :
          SP!Achieve(f, l) /\ UNCHANGED <<pc, late, handles, auto>>
    <3>1. CASE Achieve(f)
      <4>1. /\ pc[f] \in Labels /\ SP!Accepts(f, pc[f], inbox)
            /\ SP!AchieveCall(f, pc[f]) /\ UNCHANGED <<pc, late, handles, auto>>
        BY <1>2, <3>1 DEF Achieve, roleVars
      <4> QED BY <4>1, AcceptedIsAnnounced
    <3>2. CASE \E l \in Phases : AchievePhase(f, l)
      BY <3>2 DEF AchievePhase, Announced, Is, SP!Achieve, Labels, roleVars
    <3> QED BY <3>1, <3>2
  <2>2. SP!Next
    BY <2>1 DEF SP!Next
  <2>3. UNCHANGED <<round, life>>
    BY <2>1 DEF SP!Achieve, SP!AchieveCall, SP!AchieveFrom
  <2> QED BY <2>1, <2>2, <2>3, KeepsMaster DEF Inv, Stays, PointStep
<1> QED BY <1>1, <1>2

\* The callbacks and the RTI.
LEMMA CallbackStep ==
  ASSUME NobodyDesignated, Inv, NEW f \in Federates, NEW l \in Labels,
         Inform(f, l) \/ Callback(f, l) \/ AutoAchieve(f, l) \/ Rti(f, l)
  PROVE  Stays
<1>1. ~AutoAchieve(f, l)
  BY DEF AutoAchieve, Inv, AutoInv
<1>2. CASE Callback(f, l)
  <2>1. SP!Callback(f, l)
    BY <1>2 DEF Callback, SP!Callback
  <2>2. UNCHANGED <<pc, late, handles, round, life>>
    BY <1>2 DEF Callback, SP!OnRegistered, SP!OnAnnounced, SP!OnSynchronized, SP!Mark,
       SP!rtiVars
  <2>3. auto' = auto
    BY <1>2 DEF Callback, AchievesItself, NobodyDesignated, Inv, AutoInv
  <2>4. SP!Next
    BY <2>1 DEF SP!Next
  <2> QED BY <2>2, <2>3, <2>4, KeepsMaster DEF Inv, Stays, PointStep
<1>3. CASE Inform(f, l) \/ Rti(f, l)
  <2>1. SP!Inform(f, l) \/ SP!Drop(f, l) \/ SP!RegisterReturn(f, l) \/ SP!AchieveReturn(f, l)
    BY <1>3 DEF Inform, Rti
  <2>2. UNCHANGED <<round, life>>
    BY <2>1 DEF SP!Inform, SP!Drop, SP!RegisterReturn, SP!AchieveReturn, SP!rtiVars
  <2>3. UNCHANGED <<pc, late, handles, auto>>
    BY <1>3 DEF Inform, Rti, roleVars
  <2>4. SP!Next
    BY <2>1 DEF SP!Next
  <2> QED BY <2>2, <2>3, <2>4, KeepsMaster DEF Inv, Stays, PointStep
<1> QED BY <1>1, <1>2, <1>3

\* Every step of the startup is a step of the points or leaves them alone.
LEMMA StepStays ==
  ASSUME NobodyDesignated, Inv, [Next]_vars
  PROVE  Stays
<1>0. DOMAIN life = Federates /\ Master \in Federates
  BY StartupAssumption DEF Inv, Proved!IndInv, Proved!TypeOK
<1>1. CASE UNCHANGED vars
  <2>1. UNCHANGED syncVars /\ UNCHANGED <<pc, late, handles, auto, round, life>>
    BY <1>1 DEF vars, syncVars, roleVars
  <2> QED BY <2>1, KeepsMaster DEF Inv, Stays, PointStep
<1>2. ASSUME NEW f \in Federates, NEW o \in Objects, Discover(f, o)
      PROVE  Stays
  <2>1. UNCHANGED syncVars /\ UNCHANGED <<pc, late, handles, auto, round, life>>
    BY <1>2 DEF Discover, syncVars, roleVars
  <2> QED BY <2>1, KeepsMaster DEF Inv, Stays, PointStep
<1>3. ASSUME NEW f \in Federates, Join(f) \/ Lose(f)
      PROVE  Stays
  <2>1. "gone" \in Ended
    BY DEF Ended
  <2> QED BY <1>0, <1>3, <2>1, JoinStep, LeaveStep DEF Lose, Inv, Stays, PointStep
<1>4. ASSUME NEW f \in Federates, MainStep(f)
      PROVE  Stays
  <2>1. CASE Waits(f)
    <3>1. UNCHANGED syncVars
      BY <2>1, WaitsQuiet
    <3>2. MasterInv' /\ AutoInv'
      BY <2>1, OtherWaits, MasterWaits DEF Inv
    <3> QED BY <3>1, <3>2 DEF Stays, PointStep
  <2>2. CASE ~Waits(f)
    BY <1>0, <1>4, <2>2, AchieveStep DEF MainStep, Waits
  <2> QED BY <2>1, <2>2
<1> QED BY <1>0, <1>1, <1>2, <1>3, <1>4, MasterStepStays, CallbackStep DEF Next

LEMMA InvStep ==
  ASSUME NobodyDesignated, Inv, [Next]_vars
  PROVE  Inv' /\ [SP!Next]_(SP!vars)
<1>1. Stays
  BY StepStays
<1>2. [SP!Next]_(SP!vars) /\ [Proved!Next]_(Proved!vars)
  BY <1>1, SameNext DEF Stays, PointStep, syncVars, SP!vars, Proved!vars
<1>3. Proved!IndInv' /\ Proved!FreshInv'
  BY <1>2, Constants, Proved!StepInv, Proved!FreshStep DEF Inv
<1> QED BY <1>1, <1>2, <1>3 DEF Inv, Stays

-----------------------------------------------------------------------------
(* The theorems.                                                           *)

\* The startup is a use of the points within the contract of SyncPoints:
\* registered by the master only, when new, and achieved only when announced.
THEOREM StartupUsesPoints ==
  ASSUME NobodyDesignated
  PROVE  Spec => UsesSyncPoints
<1>1. Init => Inv /\ SP!Init
  BY Initially DEF Init
<1>2. Inv /\ [Next]_vars => Inv' /\ [SP!Next]_(SP!vars)
  BY InvStep
<1> QED BY <1>1, <1>2, PTL DEF Spec, UsesSyncPoints, SP!Spec

\* No announcement and no synchronization of a point is lost in a startup,
\* and an achieve of an announced point is never refused.
THEOREM PointsServeStartup ==
  ASSUME NobodyDesignated
  PROVE  Spec => [](SP!NoLostAnnouncement /\ SP!AnnouncedIsAwaited
                    /\ SP!NoLostSynchronization)
<1>1. Init => Inv
  BY Initially
<1>2. Inv /\ [Next]_vars => Inv'
  BY InvStep
<1>3. Inv => SP!NoLostAnnouncement /\ SP!AnnouncedIsAwaited /\ SP!NoLostSynchronization
  <2> SUFFICES ASSUME Inv, NEW f \in Federates, life[f] = "in", NEW l \in Labels
               PROVE  /\ SP!Awaited(f, l) =>
                           SP!Pending(f, "announced", l) \/ state[f][l] = "ANNOUNCED"
                      /\ state[f][l] = "ANNOUNCED" /\ busy[f] # SP!Achieving(l) =>
                           SP!Awaited(f, l) /\ ~SP!Pending(f, "announced", l)
                      /\ state[f][l] = "ACHIEVED" =>
                           f \in achieved[l] \/ SP!Pending(f, "synchronized", l)
    BY DEF SP!NoLostAnnouncement, SP!AnnouncedIsAwaited, SP!NoLostSynchronization, SP!In
  <2>1. Proved!MemberInv(f, l)
    BY DEF Inv, Proved!IndInv, Proved!In
  <2>2. /\ SP!Awaited(f, l) <=> Proved!Awaited(f, l)
        /\ SP!Achieving(l) = Proved!Achieving(l)
        /\ \A t : SP!Pending(f, t, l) <=> Proved!Pending(f, t, l)
    BY DEF SP!Awaited, Proved!Awaited, SP!Achieving, Proved!Achieving, SP!Pending,
           Proved!Pending, SP!InQueue, Proved!InQueue, SP!Msg, Proved!Msg
  <2> QED BY <2>1, <2>2, NothingOverlooked DEF Proved!MemberInv, Proved!Held
<1> QED BY <1>1, <1>2, <1>3, PTL DEF Spec

-----------------------------------------------------------------------------
(* What the places and the data say: StartupInv.                           *)

PlaceInv ==
  /\ pc \in [Federates -> Places]
  /\ waiting \in [Federates -> BOOLEAN]
  /\ late \in [Federates -> {"undetermined", "early", "late"}]
  /\ handles \subseteq Federates
  /\ \A f \in Federates :
       /\ life[f] = "out" <=> pc[f] = "out"
       /\ life[f] = "gone" <=> pc[f] \in Ended

DataInv ==
  /\ registered \subseteq Objects
  /\ subscribed \in [Federates -> SUBSET Objects]
  /\ known \in [Federates -> SUBSET Objects]
  /\ queue \in [Federates -> [Objects -> Seq(Modes)]]
  /\ requested \in BOOLEAN
  /\ \A f \in Federates :
       /\ known[f] \subseteq registered \cap (subscribed[f] \cup Owned(f))
       /\ \A o \in Objects : queue[f][o] # <<>> => o \in known[f]
  /\ \A o \in registered : o \in known[Owner[o]]

\* The points of the startup, and that no phase is taken for one of them.
Main == {InitStarted, InitCompleted, ObjectsDiscovered, RootFrameDiscovered, MtrRun}

LEMMA Names ==
  /\ Labels = Main \cup Phases /\ Main \cap Phases = {} /\ Main \cap Steps = {}
  /\ Phases \cap Steps = {}
  /\ {Startup[i] : i \in 1..3} = {InitStarted, ObjectsDiscovered, RootFrameDiscovered}
  /\ {"out"} \cup Ended \subseteq Steps
  /\ Master \in Federates /\ Publisher \in Federates
<1>1. {Startup[i] : i \in 1..3} = {InitStarted, ObjectsDiscovered, RootFrameDiscovered}
  BY DEF Startup
<1>2. Main \cap Steps = {} /\ {"out"} \cup Ended \subseteq Steps
  BY DEF Main, Steps, Ended, InitStarted, InitCompleted, ObjectsDiscovered,
         RootFrameDiscovered, MtrRun
<1> QED BY <1>1, <1>2, StartupAssumption, PlacesAssumption DEF Labels, Main

\* A step of the program of f: where it goes on, or that it stays.
LEMMA Moves ==
  ASSUME PlaceInv, NEW f \in Federates, NEW b \in Places, NEW w \in BOOLEAN,
         NEW r \in {"undetermined", "early", "late"},
         pc' = pc \/ (pc' = [pc EXCEPT ![f] = b] /\ b \notin {"out"} \cup Ended),
         waiting' = waiting \/ waiting' = [waiting EXCEPT ![f] = w],
         late' = late \/ late' = [late EXCEPT ![f] = r],
         handles' \subseteq Federates, life[f] = "in", life' = life
  PROVE  PlaceInv'
<1>1. pc' \in [Federates -> Places] /\ waiting' \in [Federates -> BOOLEAN]
      /\ late' \in [Federates -> {"undetermined", "early", "late"}]
  BY DEF PlaceInv
<1>2. ASSUME NEW g \in Federates
      PROVE  (life'[g] = "out" <=> pc'[g] = "out") /\ (life'[g] = "gone" <=> pc'[g] \in Ended)
  <2>1. CASE pc'[g] = pc[g]
    BY <2>1 DEF PlaceInv
  <2>2. CASE g = f /\ pc'[g] = b /\ b \notin {"out"} \cup Ended
    BY <2>2
  <2> QED BY <2>1, <2>2 DEF PlaceInv
<1> QED BY <1>1, <1>2 DEF PlaceInv

\* Nothing of PlaceInv is touched.
LEMMA PlacesKept ==
  ASSUME PlaceInv, UNCHANGED <<pc, waiting, late, handles, life>>
  PROVE  PlaceInv'
BY DEF PlaceInv

LEMMA FreeIsIn ==
  ASSUME NEW f, SP!Free(f)
  PROVE  life[f] = "in"
BY DEF SP!Free

\* The steps of the programs without the achieves.
LEMMA WaitsPlaces ==
  ASSUME PlaceInv, NEW f \in Federates, Waits(f)
  PROVE  PlaceInv'
<1>1. life' = life /\ handles' = handles
  BY WaitsQuiet
<1>2. life[f] = "in"
  BY FreeIsIn
     DEF Waits, Determine, Designate, AwaitCompleted, AwaitAnnounced, Subscribe,
         ObjectsRegistered, Synchronized, PhasesDone, AwaitRun, Epoch, RootFrame, Frame,
         Go, LateSubscribe, LateRequest, LateUpdate, Goto
<1>3. waiting' = waiting \/ waiting' = [waiting EXCEPT ![f] = FALSE]
  BY DEF Waits, Determine, Designate, AwaitCompleted, AwaitAnnounced, Subscribe,
         ObjectsRegistered, Synchronized, PhasesDone, AwaitRun, Epoch, RootFrame, Frame,
         Go, LateSubscribe, LateRequest, LateUpdate, Exchange
<1>4. \E r \in {"undetermined", "early", "late"} :
        late' = late \/ late' = [late EXCEPT ![f] = r]
  BY DEF Waits, Determine, Designate, AwaitCompleted, AwaitAnnounced, Subscribe,
         ObjectsRegistered, Synchronized, PhasesDone, AwaitRun, Epoch, RootFrame, Frame,
         Go, LateSubscribe, LateRequest, LateUpdate, Exchange, roleVars
<1>5. \E b \in Places \ ({"out"} \cup Ended) : pc' = [pc EXCEPT ![f] = b]
  <2> USE DEF Goto
  <2>0. /\ {ObjectsDiscovered, RootFrameDiscovered, InitStarted, MtrRun} \subseteq Places
        /\ {"designated", "announced", "late", "await_completed", "subscribe", "objects",
            "running", "epoch", "phases", "complete", "go", "late_objects", "root", "frame",
            "await_run", "late_exco", "late_update"} \subseteq Places \ ({"out"} \cup Ended)
        /\ {ObjectsDiscovered, RootFrameDiscovered, InitStarted, MtrRun}
             \cap ({"out"} \cup Ended) = {}
    <3>1. {ObjectsDiscovered, RootFrameDiscovered, InitStarted, MtrRun} \subseteq Places
      BY Names DEF Places, Main
    <3> QED BY <3>1 DEF Places, Steps, Ended, InitStarted, ObjectsDiscovered,
          RootFrameDiscovered, MtrRun
  <2>1. CASE Determine(f) \/ Designate(f) \/ AwaitCompleted(f) \/ AwaitAnnounced(f)
    BY <2>0, <2>1 DEF Determine, Designate, AwaitCompleted, AwaitAnnounced
  <2>2. CASE Subscribe(f) \/ ObjectsRegistered(f) \/ PhasesDone(f) \/ AwaitRun(f)
    BY <2>0, <2>2 DEF Subscribe, ObjectsRegistered, PhasesDone, AwaitRun
  <2>3. CASE Synchronized(f)
    <3>1. PICK l \in Labels \ (Phases \cup {InitCompleted}) : pc' = [pc EXCEPT ![f] = After(f, l)]
      BY <2>3 DEF Synchronized
    <3>2. l \in {ObjectsDiscovered, RootFrameDiscovered, InitStarted, MtrRun}
      BY Names DEF Main
    <3>3. After(f, l) \in {"epoch", "phases", "complete", "go", "late_objects", "running"}
      BY <3>2 DEF After, InitStarted, ObjectsDiscovered, RootFrameDiscovered, MtrRun
    <3> QED BY <2>0, <3>1, <3>3
  <2>4. CASE Epoch(f) \/ RootFrame(f) \/ Frame(f) \/ Go(f)
    BY <2>0, <2>4 DEF Epoch, RootFrame, Frame, Go
  <2>5. CASE LateSubscribe(f) \/ LateRequest(f) \/ LateUpdate(f)
    BY <2>0, <2>5 DEF LateSubscribe, LateRequest, LateUpdate
  <2> QED BY <2>1, <2>2, <2>3, <2>4, <2>5 DEF Waits
<1>6. PICK b \in Places \ ({"out"} \cup Ended) : pc' = [pc EXCEPT ![f] = b]
  BY <1>5
<1>7. PICK r \in {"undetermined", "early", "late"} :
        late' = late \/ late' = [late EXCEPT ![f] = r]
  BY <1>4
<1>8. handles' \subseteq Federates
  BY <1>1 DEF PlaceInv
<1> QED BY <1>1, <1>2, <1>3, <1>6, <1>7, <1>8, Moves

\* Joining and leaving.
LEMMA MembersPlaces ==
  ASSUME PlaceInv, NEW f \in Federates, Join(f) \/ \E place \in Ended : LeaveFor(f, place),
         life \in [Federates -> {"out", "in", "gone"}]
  PROVE  PlaceInv'
<1>1. ASSUME NEW b \in Places, NEW s \in {"in", "gone"},
             pc' = [pc EXCEPT ![f] = b], life' = [life EXCEPT ![f] = s], b # "out",
             s = "gone" <=> b \in Ended, UNCHANGED <<waiting, late, handles>>
      PROVE  PlaceInv'
  <2>1. ASSUME NEW g \in Federates
        PROVE  /\ life'[g] = "out" <=> pc'[g] = "out"
               /\ life'[g] = "gone" <=> pc'[g] \in Ended
    <3>1. CASE g = f
      BY <1>1, <3>1 DEF PlaceInv
    <3>2. CASE g # f
      BY <1>1, <3>2 DEF PlaceInv
    <3> QED BY <3>1, <3>2
  <2> QED BY <1>1, <2>1 DEF PlaceInv
<1>2. CASE Join(f)
  <2>1. "role" \in Places /\ "role" \notin Ended
    BY DEF Places, Steps, Ended
  <2> QED BY <1>1, <1>2, <2>1 DEF Join, SP!Join, roleVars
<1>3. CASE \E place \in Ended : LeaveFor(f, place)
  <2>1. Ended \subseteq Places /\ "out" \notin Ended
    BY DEF Places, Steps, Ended
  <2> QED BY <1>1, <1>3, <2>1 DEF LeaveFor, SP!Leave
<1> QED BY <1>2, <1>3

LEMMA CallsPlaces ==
  ASSUME PlaceInv, NEW f \in Federates, Achieve(f) \/ \E l \in Phases : AchievePhase(f, l),
         life \in [Federates -> {"out", "in", "gone"}]
  PROVE  PlaceInv'
<1>1. CASE Terminate(f)
  <2>1. "terminated" \in Ended
    BY DEF Ended
  <2> QED BY <1>1, <2>1, MembersPlaces DEF Terminate
<1>2. CASE ~Terminate(f)
  <2>1. /\ UNCHANGED <<pc, late, handles>> /\ \E l : SP!AchieveCall(f, l)
        /\ waiting' = waiting \/ waiting' = [waiting EXCEPT ![f] = TRUE]
    BY <1>2 DEF Achieve, AchievePhase, roleVars
  <2>2. life' = life /\ life[f] = "in"
    BY <2>1 DEF SP!AchieveCall, SP!AchieveFrom, SP!Free
  <2> QED BY <2>1, <2>2 DEF PlaceInv
<1> QED BY <1>1, <1>2

LEMMA MasterPlaces ==
  ASSUME PlaceInv, MasterStep, life \in [Federates -> {"out", "in", "gone"}]
  PROVE  PlaceInv'
<1>0. /\ Master \in Federates /\ "terminated" \in Ended
      /\ {"register", "announced", "go", "await_run", "register_run", "running"}
           \subseteq Places \ ({"out"} \cup Ended)
  BY Names DEF Places, Steps, Ended
<1>1. CASE Master_Determine
  <2>1. /\ pc' = [pc EXCEPT ![Master] = "register"]
        /\ late' = [late EXCEPT ![Master] = "early"]
        /\ life[Master] = "in" /\ life' = life /\ waiting' = waiting
    BY <1>1 DEF Master_Determine, Goto, SP!Free, syncVars
  <2>2. handles' \subseteq Federates
    BY <1>1 DEF Master_Determine
  <2> QED BY <1>0, <2>1, <2>2, Moves
<1>2. ASSUME NEW l \in Labels, Master_Register(l)
      PROVE  PlaceInv'
  <2>1. CASE Terminate(Master)
    BY <1>0, <2>1, MembersPlaces DEF Terminate
  <2>2. CASE ~Terminate(Master)
    <3>1. UNCHANGED <<pc, waiting, late, handles>> /\ (RegisterForAll(l) \/ RegisterFor(l, handles))
      BY <1>2, <2>2 DEF Master_Register, roleVars
    <3>2. life' = life
      BY <3>1 DEF RegisterForAll, RegisterFor, SP!RegisterCall
    <3> QED BY <3>1, <3>2, PlacesKept
  <2> QED BY <2>1, <2>2
<1>3. CASE \/ Master_Registered \/ Master_Complete \/ Master_RegisterRun \/ Master_Go
           \/ Master_Provide
  <2>1. /\ \E b \in {"announced", "go", "await_run", "register_run", "running"} :
             pc' = [pc EXCEPT ![Master] = b]
        /\ UNCHANGED <<waiting, late, handles>> /\ life[Master] = "in"
    BY <1>3 DEF Master_Registered, Master_Complete, Master_RegisterRun, Master_Go,
       Master_Provide, Goto, Exchange, roleVars, SP!Free
  <2>2. life' = life
    BY <1>3 DEF Master_Registered, Master_Complete, Master_RegisterRun, Master_Go,
       Master_Provide, Exchange, RegisterForAll, SP!RegisterCall, syncVars
  <2>3. handles' \subseteq Federates
    BY <2>1 DEF PlaceInv
  <2> QED BY <1>0, <2>1, <2>2, <2>3, Moves DEF PlaceInv
<1> QED BY <1>1, <1>2, <1>3 DEF MasterStep

\* What is done to the points without a program.
Served(f, l) == Inform(f, l) \/ Callback(f, l) \/ AutoAchieve(f, l) \/ Rti(f, l)

LEMMA ServedQuiet ==
  ASSUME NEW f, NEW l, Served(f, l)
  PROVE  UNCHANGED <<pc, waiting, late, handles, life>> /\ UNCHANGED dataVars
<1>1. UNCHANGED <<pc, waiting, late, handles>> /\ UNCHANGED dataVars
  BY DEF Served, Inform, Callback, AutoAchieve, Rti, roleVars
<1>2. life' = life
  BY DEF Served, Inform, Callback, AutoAchieve, Rti, SP!Inform, SP!Drop, SP!RegisterReturn,
     SP!AchieveReturn, SP!OnRegistered, SP!OnAnnounced, SP!OnSynchronized, SP!Mark,
     SP!AchieveCall, SP!AchieveFrom
<1> QED BY <1>1, <1>2

LEMMA PlacesStep ==
  ASSUME PlaceInv, [Next]_vars, life \in [Federates -> {"out", "in", "gone"}]
  PROVE  PlaceInv'
<1>1. CASE UNCHANGED vars
  BY <1>1, PlacesKept DEF vars, roleVars, syncVars
<1>2. ASSUME NEW f \in Federates, NEW l \in Labels, Served(f, l)
      PROVE  PlaceInv'
  BY <1>2, ServedQuiet, PlacesKept
<1>3. ASSUME NEW f \in Federates, Join(f) \/ Lose(f)
      PROVE  PlaceInv'
  <2>1. "gone" \in Ended
    BY DEF Ended
  <2> QED BY <1>3, <2>1, MembersPlaces DEF Lose
<1>4. ASSUME NEW f \in Federates, MainStep(f)
      PROVE  PlaceInv'
  BY <1>4, WaitsPlaces, CallsPlaces DEF MainStep, Waits
<1>5. ASSUME NEW f \in Federates, NEW o \in Objects, Discover(f, o)
      PROVE  PlaceInv'
  BY <1>5, PlacesKept DEF Discover, roleVars, syncVars
<1> QED BY <1>1, <1>2, <1>3, <1>4, <1>5, MasterPlaces DEF Next, Served

\* The objects: what is registered, subscribed to, known and queued.
LEMMA ReflectedData ==
  ASSUME DataInv, NEW o \in Objects, NEW m \in Modes, queue' = Reflected(o, m),
         UNCHANGED <<registered, subscribed, known>>, requested' \in BOOLEAN
  PROVE  DataInv'
<1>1. ASSUME NEW g \in Federates
      PROVE  /\ queue'[g] \in [Objects -> Seq(Modes)]
             /\ \A x \in Objects : queue'[g][x] # <<>> => x \in known[g]
  <2>0. queue[g] \in [Objects -> Seq(Modes)]
    BY DEF DataInv
  <2>1. CASE g # Owner[o] /\ HasInstance(g, o)
    <3>1. queue'[g] = [queue[g] EXCEPT ![o] = Append(@, m)]
      BY <2>1 DEF Reflected
    <3> QED BY <2>0, <2>1, <3>1 DEF DataInv, HasInstance
  <2>2. CASE ~(g # Owner[o] /\ HasInstance(g, o))
    <3>1. queue'[g] = queue[g]
      BY <2>2 DEF Reflected
    <3> QED BY <2>0, <3>1 DEF DataInv
  <2> QED BY <2>1, <2>2
<1>2. queue' \in [Federates -> [Objects -> Seq(Modes)]]
  BY <1>1 DEF Reflected
<1> QED BY <1>1, <1>2 DEF DataInv

LEMMA ReceivedData ==
  ASSUME DataInv, NEW f \in Federates, NEW o \in Objects, Received(f, o),
         UNCHANGED <<registered, subscribed, known, requested>>
  PROVE  DataInv'
<1>1. queue[f][o] # <<>> /\ queue' = [queue EXCEPT ![f][o] = Tail(@)]
  BY DEF Received
<1>2. queue[f] \in [Objects -> Seq(Modes)] /\ Tail(queue[f][o]) \in Seq(Modes)
  BY <1>1 DEF DataInv
<1>3. queue' \in [Federates -> [Objects -> Seq(Modes)]]
  BY <1>1, <1>2 DEF DataInv
<1>4. \A g \in Federates, x \in Objects : queue'[g][x] # <<>> => queue[g][x] # <<>>
  BY <1>1, <1>2 DEF DataInv
<1> QED BY <1>3, <1>4 DEF DataInv

LEMMA ExchangedData ==
  ASSUME DataInv, NEW f \in Federates, NEW o \in Objects, NEW m \in Modes, Exchange(f, o, m)
  PROVE  DataInv'
<1>1. UNCHANGED <<registered, subscribed, known, requested>> /\ requested' \in BOOLEAN
  BY DEF Exchange, DataInv
<1> QED BY <1>1, ReflectedData, ReceivedData DEF Exchange

\* An owner that has registered an object knows it already.
LEMMA SubscribedData ==
  ASSUME DataInv, NEW f \in Federates, Subscribe(f) \/ LateSubscribe(f)
  PROVE  DataInv'
<1>0. "ExCO" \in Objects /\ Master \in Federates /\ Publisher \in Federates
      /\ Owned(f) \subseteq Objects /\ \A o \in Objects : Owner[o] \in Federates
  BY Names DEF Objects, Owned, Owner
<1>1. CASE Subscribe(f)
  <2>1. /\ subscribed' = [subscribed EXCEPT ![f] = Objects]
        /\ registered' = registered \cup Owned(f)
        /\ known' = [known EXCEPT ![f] = @ \cup Owned(f)]
        /\ UNCHANGED <<queue, requested>>
    BY <1>1 DEF Subscribe
  <2>2. known' \in [Federates -> SUBSET Objects] /\ subscribed' \in [Federates -> SUBSET Objects]
    BY <1>0, <2>1 DEF DataInv
  <2>3. ASSUME NEW g \in Federates
        PROVE  /\ known'[g] \subseteq registered' \cap (subscribed'[g] \cup Owned(g))
               /\ known[g] \subseteq known'[g]
    <3>1. CASE g = f
      BY <1>0, <2>1, <3>1 DEF DataInv
    <3>2. CASE g # f
      BY <2>1, <3>2 DEF DataInv
    <3> QED BY <3>1, <3>2
  <2>4. ASSUME NEW o \in registered'
        PROVE  o \in known'[Owner[o]]
    <3>1. CASE o \in registered
      BY <1>0, <2>3, <3>1 DEF DataInv
    <3>2. CASE o \in Owned(f)
      BY <2>1, <3>2 DEF Owned, DataInv
    <3> QED BY <2>1, <3>1, <3>2
  <2> QED BY <1>0, <2>1, <2>2, <2>3, <2>4 DEF DataInv
<1>2. CASE LateSubscribe(f)
  <2>1. /\ subscribed' = [subscribed EXCEPT ![f] = @ \cup {"ExCO"}]
        /\ UNCHANGED <<registered, known, queue, requested>>
    BY <1>2 DEF LateSubscribe
  <2>2. subscribed' \in [Federates -> SUBSET Objects]
        /\ \A g \in Federates : subscribed[g] \subseteq subscribed'[g]
    BY <1>0, <2>1 DEF DataInv
  <2> QED BY <2>1, <2>2 DEF DataInv
<1> QED BY <1>1, <1>2

LEMMA DiscoveredData ==
  ASSUME DataInv, NEW f \in Federates, NEW o \in Objects, Discover(f, o)
  PROVE  DataInv'
<1>1. /\ o \in (registered \cap subscribed[f]) \ known[f]
      /\ known' = [known EXCEPT ![f] = @ \cup {o}]
      /\ UNCHANGED <<registered, subscribed, queue, requested>>
  BY DEF Discover
<1>2. known' \in [Federates -> SUBSET Objects] /\ \A g \in Federates : known[g] \subseteq known'[g]
  BY <1>1 DEF DataInv
<1>3. ASSUME NEW g \in Federates
      PROVE  known'[g] \subseteq registered' \cap (subscribed'[g] \cup Owned(g))
  <2>1. CASE g = f
    BY <1>1, <2>1 DEF DataInv
  <2>2. CASE g # f
    BY <1>1, <2>2 DEF DataInv
  <2> QED BY <2>1, <2>2
<1>4. \A x \in registered : Owner[x] \in Federates
  BY Names DEF DataInv, Objects, Owner
<1> QED BY <1>1, <1>2, <1>3, <1>4 DEF DataInv

LEMMA DataKept ==
  ASSUME DataInv, UNCHANGED <<registered, subscribed, known, queue>>, requested' \in BOOLEAN
  PROVE  DataInv'
BY DEF DataInv

LEMMA DataStep ==
  ASSUME DataInv, [Next]_vars
  PROVE  DataInv'
<1>0. /\ "ExCO" \in Objects /\ "RootFrame" \in Objects
      /\ {"initializing", "to_run", "running"} \subseteq Modes /\ requested \in BOOLEAN
      /\ Master \in Federates
  BY Names DEF Objects, Modes, DataInv
<1>1. CASE UNCHANGED dataVars
  BY <1>0, <1>1, DataKept DEF dataVars
<1>2. ASSUME NEW f \in Federates, NEW l \in Labels, Served(f, l)
      PROVE  DataInv'
  BY <1>1, <1>2, ServedQuiet
<1>3. ASSUME NEW f \in Federates, Join(f) \/ Lose(f)
      PROVE  DataInv'
  BY <1>1, <1>3 DEF Join, Lose, LeaveFor
<1>4. ASSUME NEW f \in Federates, MainStep(f)
      PROVE  DataInv'
  <2>1. CASE Epoch(f) \/ RootFrame(f) \/ Frame(f) \/ Go(f) \/ LateUpdate(f)
    BY <1>0, <2>1, ExchangedData DEF Epoch, RootFrame, Frame, Go, LateUpdate
  <2>2. CASE Subscribe(f) \/ LateSubscribe(f)
    BY <2>2, SubscribedData
  <2>3. CASE LateRequest(f)
    BY <2>3, DataKept DEF LateRequest
  <2>4. CASE \/ Determine(f) \/ Designate(f) \/ AwaitCompleted(f) \/ AwaitAnnounced(f)
             \/ ObjectsRegistered(f) \/ Achieve(f) \/ Synchronized(f)
             \/ (\E l \in Phases : AchievePhase(f, l))
             \/ PhasesDone(f) \/ AwaitRun(f)
    BY <1>1, <2>4 DEF Determine, Designate, AwaitCompleted, AwaitAnnounced,
       ObjectsRegistered, Achieve, Terminate, LeaveFor, Synchronized, AchievePhase,
       PhasesDone, AwaitRun
  <2> QED BY <1>4, <2>1, <2>2, <2>3, <2>4 DEF MainStep
<1>5. ASSUME NEW f \in Federates, NEW o \in Objects, Discover(f, o)
      PROVE  DataInv'
  BY <1>5, DiscoveredData
<1>6. ASSUME MasterStep
      PROVE  DataInv'
  <2>1. CASE Master_Go
    BY <1>0, <2>1, ExchangedData DEF Master_Go
  <2>2. CASE Master_Provide
    BY <1>0, <2>2, ReflectedData DEF Master_Provide
  <2>3. CASE \/ Master_Determine \/ (\E l \in Labels : Master_Register(l)) \/ Master_Registered
             \/ Master_Complete \/ Master_RegisterRun
    BY <1>1, <2>3 DEF Master_Determine, Master_Register, Terminate, LeaveFor,
       Master_Registered, Master_Complete, Master_RegisterRun
  <2> QED BY <1>6, <2>1, <2>2, <2>3 DEF MasterStep
<1>7. CASE UNCHANGED vars
  BY <1>1, <1>7 DEF vars
<1> QED BY <1>2, <1>3, <1>4, <1>5, <1>6, <1>7 DEF Next, Served

-----------------------------------------------------------------------------
(* The program of an early joiner, from place to place.                    *)

Group == {Startup[i] : i \in 1..3} \cup Phases
Stops == {ObjectsDiscovered, RootFrameDiscovered, InitStarted, MtrRun}
Early(f) == life[f] = "in" /\ late[f] = "early"

\* How far a place is in the program; 0: it is not in it.
Rank(p) ==
  CASE p = "register" -> 1
    [] p = "announced" -> 2
    [] p = "subscribe" -> 3
    [] p = "objects" -> 4
    [] p = ObjectsDiscovered -> 5
    [] p = "epoch" -> 6
    [] p = "root" -> 7
    [] p = "frame" -> 8
    [] p = RootFrameDiscovered -> 9
    [] p = "phases" -> 10
    [] p = InitStarted -> 11
    [] p = "complete" -> 12
    [] p = "go" -> 13
    [] p = "register_run" -> 14
    [] p = "await_run" -> 15
    [] p = MtrRun -> 16
    [] p = "running" -> 17
    [] OTHER -> 0
EarlyPlaces == {p \in Places : Rank(p) > 0}
LatePlaces == {"late", "late_exco", "late_update", "late_objects", "objects", "await_run",
  MtrRun, "running"}

LEMMA Ranks ==
  /\ Rank("register") = 1 /\ Rank("announced") = 2 /\ Rank("subscribe") = 3
  /\ Rank("objects") = 4 /\ Rank(ObjectsDiscovered) = 5 /\ Rank("epoch") = 6
  /\ Rank("root") = 7 /\ Rank("frame") = 8 /\ Rank(RootFrameDiscovered) = 9
  /\ Rank("phases") = 10 /\ Rank(InitStarted) = 11 /\ Rank("complete") = 12
  /\ Rank("go") = 13 /\ Rank("register_run") = 14 /\ Rank("await_run") = 15
  /\ Rank(MtrRun) = 16 /\ Rank("running") = 17
BY DEF Rank, ObjectsDiscovered, RootFrameDiscovered, InitStarted, MtrRun

\* Where no early joiner is, and what an early joiner is at.
LEMMA NoRank ==
  /\ \A p \in {"out", "role", "designated", "await_completed", "late", "late_exco",
               "late_update", "late_objects"} \cup Ended \cup Phases \cup {InitCompleted} :
       Rank(p) = 0
  /\ \A p : Rank(p) \in 0..17
<1>1. \A p : Rank(p) \in 0..17
  BY DEF Rank
<1>2. \A p \in {"out", "role", "designated", "await_completed", "late", "late_exco",
               "late_update", "late_objects"} \cup Ended \cup {InitCompleted} :
       Rank(p) = 0
  BY DEF Rank, Ended, ObjectsDiscovered, RootFrameDiscovered, InitStarted, MtrRun, InitCompleted
<1>3. ASSUME NEW p \in Phases
      PROVE  Rank(p) = 0
  <2>1. p \notin Main \cup Steps
    BY Names
  <2> QED BY <2>1 DEF Rank, Main, Steps
<1> QED BY <1>1, <1>2, <1>3

-----------------------------------------------------------------------------
(* What a step is to one federate f.                                       *)

\* It leaves f where it is, except that f may discover what it subscribes to;
Sits(f) ==
  /\ life'[f] = life[f] /\ pc'[f] = pc[f] /\ late'[f] = late[f]
  /\ waiting[f] => waiting'[f]
  /\ subscribed'[f] = subscribed[f]
  /\ known[f] \subseteq known'[f] /\ known'[f] \subseteq known[f] \cup subscribed[f]

\* it has f join,
Comes(f) ==
  /\ life[f] = "out" /\ life'[f] = "in" /\ pc'[f] = "role"
  /\ UNCHANGED <<inbox, state, busy>>
  /\ late'[f] = late[f] /\ subscribed'[f] = subscribed[f] /\ known'[f] = known[f]

\* or leave: lost, or because a call is refused;
Refused(f) ==
  /\ busy[f] = Proved!NoCall /\ pc[f] \in Labels /\ ~waiting[f]
  /\ ~Proved!Accepts(f, pc[f], inbox)
Ends(f) ==
  /\ life[f] = "in" /\ life'[f] = "gone"
  /\ f \in Lossy \/ (f = Master /\ pc[f] = "register") \/ Refused(f)
  /\ late'[f] = late[f] /\ subscribed'[f] = subscribed[f] /\ known'[f] = known[f]

\* f finds out its role,
Determines(f) ==
  /\ UNCHANGED syncVars /\ UNCHANGED dataVars
  /\ life[f] = "in" /\ busy[f] = Proved!NoCall /\ pc[f] = "role"
  /\ \/ /\ f = Master /\ pc'[f] = "register" /\ late'[f] = "early"
        /\ Required # {} => Required \subseteq handles'
     \/ /\ f # Master /\ Announced(f, InitStarted)
        /\ pc'[f] = "announced" /\ late'[f] = "early"
     \/ /\ f # Master /\ Announced(f, InitCompleted)
        /\ pc'[f] = "late" /\ late'[f] = "late"

\* or goes on: an early joiner from a to b,
EarlyEdge(f, a, b) ==
  \/ a = "register" /\ b = "announced" /\ f = Master /\ \A l \in Labels : ~Due(l)
  \/ a = "announced" /\ b = "subscribe" /\ \A i \in 1..3 : Announced(f, Startup[i])
  \/ a = "subscribe" /\ b = "objects"
  \/ a = "objects" /\ b = ObjectsDiscovered /\ \A o \in Objects : o \in known[f]
  \/ a \in Stops /\ waiting[f] /\ Is(f, a, "SYNCHRONIZED") /\ b = After(f, a)
  \/ a = "epoch" /\ b = "root"
  \/ a = "root" /\ b = "frame"
  \/ a = "frame" /\ b = RootFrameDiscovered
  \/ a = "phases" /\ b = InitStarted /\ \A l \in Phases : Is(f, l, "SYNCHRONIZED")
  \/ a = "go" /\ b = "register_run" /\ f = Master
  \/ /\ a = "go" /\ f # Master /\ queue[f]["ExCO"] # <<>>
     /\ b = IF Head(queue[f]["ExCO"]) = "to_run" THEN "await_run" ELSE "running"
  \/ a = "await_run" /\ b = MtrRun /\ Announced(f, MtrRun)
Walks(f) ==
  /\ UNCHANGED syncVars /\ life[f] = "in" /\ busy[f] = Proved!NoCall
  /\ late[f] = "early" /\ late'[f] = late[f]
  /\ EarlyEdge(f, pc[f], pc'[f])
  /\ IF pc[f] = "subscribe" THEN known[f] \subseteq known'[f]
     ELSE known'[f] = known[f] /\ subscribed'[f] = subscribed[f]

\* a late one,
WalksLate(f) ==
  /\ UNCHANGED syncVars /\ life[f] = "in"
  /\ late[f] = "late" /\ late'[f] = late[f] /\ pc'[f] \in LatePlaces

\* and the master while it registers a point of everybody.
Calls(f) ==
  /\ f = Master /\ life[f] = "in" /\ life'[f] = "in" /\ late'[f] = late[f]
  /\ \/ pc[f] = "complete" /\ pc'[f] = "go"
     \/ pc[f] = "register_run" /\ pc'[f] = "await_run"
  /\ known'[f] = known[f] /\ subscribed'[f] = subscribed[f]

View(f) ==
  \/ Sits(f) \/ Comes(f) \/ Ends(f) \/ Determines(f) \/ Walks(f) \/ WalksLate(f) \/ Calls(f)

\* What each federate is, as far as its own state says.
RoleInv(f) ==
  /\ life[f] = "out" => late[f] = "undetermined"
  /\ late[f] = "undetermined" => subscribed[f] = {} /\ known[f] = {}
  /\ life[f] = "in" => (pc[f] = "role" <=> late[f] = "undetermined")
  /\ life[f] = "in" /\ late[f] = "early" => pc[f] \in EarlyPlaces
  /\ life[f] = "in" /\ late[f] = "late" => pc[f] \in LatePlaces

\* The steps of the programs that touch no point, as the others see them,
LEMMA WaitsElsewhere ==
  ASSUME PlaceInv, DataInv, NEW g \in Federates, NEW f \in Federates \ {g}, Waits(g)
  PROVE  Sits(f)
<1>1. life' = life
  BY WaitsQuiet
<1>2. \E b : pc' = [pc EXCEPT ![g] = b]
  BY DEF Waits, Determine, Designate, AwaitCompleted, AwaitAnnounced, Subscribe,
         ObjectsRegistered, Synchronized, PhasesDone, AwaitRun, Epoch, RootFrame, Frame,
         Go, LateSubscribe, LateRequest, LateUpdate, Goto
<1>3. waiting' = waiting \/ waiting' = [waiting EXCEPT ![g] = FALSE]
  BY DEF Waits, Determine, Designate, AwaitCompleted, AwaitAnnounced, Subscribe,
         ObjectsRegistered, Synchronized, PhasesDone, AwaitRun, Epoch, RootFrame, Frame,
         Go, LateSubscribe, LateRequest, LateUpdate, Exchange
<1>4. \E r : late' = late \/ late' = [late EXCEPT ![g] = r]
  BY DEF Waits, Determine, Designate, AwaitCompleted, AwaitAnnounced, Subscribe,
         ObjectsRegistered, Synchronized, PhasesDone, AwaitRun, Epoch, RootFrame, Frame,
         Go, LateSubscribe, LateRequest, LateUpdate, Exchange, roleVars
<1>5. /\ known' = known \/ known' = [known EXCEPT ![g] = known[g] \cup Owned(g)]
      /\ \E s : subscribed' = subscribed \/ subscribed' = [subscribed EXCEPT ![g] = s]
  BY DEF Waits, Determine, Designate, AwaitCompleted, AwaitAnnounced, Subscribe,
         ObjectsRegistered, Synchronized, PhasesDone, AwaitRun, Epoch, RootFrame, Frame,
         Go, LateSubscribe, LateRequest, LateUpdate, Exchange, dataVars
<1>6. PICK b : pc' = [pc EXCEPT ![g] = b]
  BY <1>2
<1>7. PICK r : late' = late \/ late' = [late EXCEPT ![g] = r]
  BY <1>4
<1>8. PICK s : subscribed' = subscribed \/ subscribed' = [subscribed EXCEPT ![g] = s]
  BY <1>5
<1>9. pc'[f] = pc[f] /\ waiting'[f] = waiting[f] /\ late'[f] = late[f]
  BY <1>3, <1>6, <1>7 DEF PlaceInv
<1>10. known'[f] = known[f] /\ subscribed'[f] = subscribed[f]
  BY <1>5, <1>8 DEF DataInv
<1> QED BY <1>1, <1>9, <1>10 DEF Sits

\* and as the federate itself does.
LEMMA WaitsHere ==
  ASSUME NobodyDesignated, PlaceInv, DataInv, NEW f \in Federates, RoleInv(f), Waits(f)
  PROVE  Determines(f) \/ Walks(f) \/ WalksLate(f)
<1>0. /\ UNCHANGED syncVars /\ life[f] = "in" /\ busy[f] = Proved!NoCall
      /\ DOMAIN pc = Federates /\ DOMAIN late = Federates /\ DOMAIN known = Federates
  <2>1. SP!Free(f)
    BY DEF Waits, Determine, Designate, AwaitCompleted, AwaitAnnounced, Subscribe,
         ObjectsRegistered, Synchronized, PhasesDone, AwaitRun, Epoch, RootFrame, Frame,
         Go, LateSubscribe, LateRequest, LateUpdate, Goto
  <2> QED BY <2>1, WaitsQuiet DEF SP!Free, SP!NoCall, Proved!NoCall, PlaceInv, DataInv
<1>1. CASE pc[f] = "role"
  <2>1. CASE Determine(f)
    <3>1. f # Master /\ f \notin Designated /\ UNCHANGED dataVars
      BY <2>1 DEF Determine, NobodyDesignated
    <3>2. \/ /\ Announced(f, InitStarted) /\ pc' = [pc EXCEPT ![f] = "announced"]
             /\ late' = [late EXCEPT ![f] = "early"]
          \/ /\ Announced(f, InitCompleted) /\ pc' = [pc EXCEPT ![f] = "late"]
             /\ late' = [late EXCEPT ![f] = "late"]
      BY <2>1, <3>1 DEF Determine, Goto
    <3> QED BY <1>0, <1>1, <3>1, <3>2 DEF Determines
  <2>2. CASE ~Determine(f)
    <3>1. PICK l \in Labels \ (Phases \cup {InitCompleted}) : pc[f] = l
      BY <1>1, <2>2 DEF Waits, Designate, AwaitCompleted, AwaitAnnounced, Subscribe,
         ObjectsRegistered, Synchronized, PhasesDone, AwaitRun, Epoch, RootFrame, Frame,
         Go, LateSubscribe, LateRequest, LateUpdate, Goto
    <3> QED BY <1>1, <3>1, Names DEF Steps
  <2> QED BY <2>1, <2>2
<1>2. ASSUME pc[f] # "role", NEW b, pc' = [pc EXCEPT ![f] = b], late' = late,
             late[f] = "early" =>
               /\ EarlyEdge(f, pc[f], b)
               /\ IF pc[f] = "subscribe" THEN known[f] \subseteq known'[f]
                  ELSE known'[f] = known[f] /\ subscribed'[f] = subscribed[f],
             late[f] = "late" => b \in LatePlaces
      PROVE  Walks(f) \/ WalksLate(f)
  BY <1>0, <1>2 DEF Walks, WalksLate, RoleInv, PlaceInv
<1>3. late[f] = "early" => Rank(pc[f]) > 0
  BY <1>0 DEF RoleInv, EarlyPlaces
<1>4. late[f] = "late" => pc[f] \in LatePlaces
  BY <1>0 DEF RoleInv
<1>5. CASE pc[f] # "role" /\ ~Synchronized(f)
  <2>1. CASE Determine(f) \/ Designate(f) \/ AwaitCompleted(f)
    <3>1. pc[f] \in {"designated", "await_completed"}
      BY <1>5, <2>1 DEF Determine, Designate, AwaitCompleted, Goto
    <3> QED BY <1>0, <1>3, <1>4, <1>5, <3>1, NoRank DEF RoleInv, LatePlaces, MtrRun, PlaceInv
  <2>2. CASE AwaitAnnounced(f)
    <3>1. /\ pc[f] = "announced" /\ pc' = [pc EXCEPT ![f] = "subscribe"] /\ late' = late
          /\ known' = known /\ subscribed' = subscribed
          /\ \A i \in 1..3 : Announced(f, Startup[i])
      BY <2>2 DEF AwaitAnnounced, Goto, roleVars, dataVars
    <3> QED BY <1>2, <1>4, <3>1 DEF EarlyEdge, LatePlaces, MtrRun
  <2>3. CASE Subscribe(f)
    <3>1. /\ pc[f] \in {"subscribe", "late_objects"}
          /\ pc' = [pc EXCEPT ![f] = "objects"] /\ late' = late
          /\ known' = [known EXCEPT ![f] = @ \cup Owned(f)]
      BY <2>3 DEF Subscribe, Goto, roleVars
    <3>2. known[f] \subseteq known'[f]
      BY <1>0, <3>1
    <3>3. late[f] = "early" => pc[f] = "subscribe"
      BY <1>3, <3>1, NoRank
    <3> QED BY <1>2, <3>1, <3>2, <3>3 DEF EarlyEdge, LatePlaces
  <2>4. CASE ObjectsRegistered(f)
    <3>1. /\ pc[f] = "objects" /\ late' = late
          /\ pc' = [pc EXCEPT ![f] = IF late[f] = "late" THEN "running" ELSE ObjectsDiscovered]
          /\ known' = known /\ subscribed' = subscribed
          /\ \A o \in Objects : o \in known[f]
      BY <2>4 DEF ObjectsRegistered, Goto, roleVars, dataVars, HasInstance
    <3> QED BY <1>2, <3>1 DEF EarlyEdge, LatePlaces
  <2>5. CASE PhasesDone(f)
    <3>1. /\ pc[f] = "phases" /\ pc' = [pc EXCEPT ![f] = InitStarted] /\ late' = late
          /\ known' = known /\ subscribed' = subscribed
          /\ \A l \in Phases : Is(f, l, "SYNCHRONIZED")
      BY <2>5 DEF PhasesDone, Goto, roleVars, dataVars
    <3> QED BY <1>2, <1>4, <3>1 DEF EarlyEdge, LatePlaces, MtrRun
  <2>6. CASE AwaitRun(f)
    <3>1. /\ pc[f] = "await_run" /\ pc' = [pc EXCEPT ![f] = MtrRun] /\ late' = late
          /\ known' = known /\ subscribed' = subscribed /\ Announced(f, MtrRun)
      BY <2>6 DEF AwaitRun, Goto, roleVars, dataVars
    <3> QED BY <1>2, <3>1 DEF EarlyEdge, LatePlaces
  <2>7. CASE Epoch(f) \/ RootFrame(f) \/ Frame(f)
    <3>1. /\ \/ pc[f] = "epoch" /\ pc' = [pc EXCEPT ![f] = "root"]
             \/ pc[f] = "root" /\ pc' = [pc EXCEPT ![f] = "frame"]
             \/ pc[f] = "frame" /\ pc' = [pc EXCEPT ![f] = RootFrameDiscovered]
          /\ late' = late /\ known' = known /\ subscribed' = subscribed
      BY <2>7 DEF Epoch, RootFrame, Frame, Goto, Exchange, roleVars
    <3> QED BY <1>2, <1>4, <3>1 DEF EarlyEdge, LatePlaces, MtrRun
  <2>8. CASE Go(f)
    <3>1. /\ f # Master /\ pc[f] = "go" /\ queue[f]["ExCO"] # <<>>
          /\ pc' = [pc EXCEPT ![f] =
                      IF Head(queue[f]["ExCO"]) = "to_run" THEN "await_run" ELSE "running"]
          /\ late' = late /\ known' = known /\ subscribed' = subscribed
      BY <2>8 DEF Go, Goto, Exchange, roleVars
    <3> QED BY <1>2, <1>4, <3>1 DEF EarlyEdge, LatePlaces, MtrRun
  <2>9. CASE LateSubscribe(f) \/ LateRequest(f) \/ LateUpdate(f)
    <3>1. /\ pc[f] \in {"late", "late_exco", "late_update"} /\ late' = late
          /\ \E b \in LatePlaces : pc' = [pc EXCEPT ![f] = b]
      BY <2>9 DEF LateSubscribe, LateRequest, LateUpdate, Goto, Exchange, roleVars, LatePlaces
    <3>2. late[f] # "early"
      BY <1>3, <3>1, NoRank
    <3> QED BY <1>2, <1>5, <3>1, <3>2
  <2> QED BY <1>5, <2>1, <2>2, <2>3, <2>4, <2>5, <2>6, <2>7, <2>8, <2>9 DEF Waits
<1>6. CASE pc[f] # "role" /\ Synchronized(f)
  <2>1. PICK l \in Labels \ (Phases \cup {InitCompleted}) :
          /\ waiting[f] /\ pc[f] = l /\ pc' = [pc EXCEPT ![f] = After(f, l)]
          /\ Is(f, l, "SYNCHRONIZED") /\ late' = late
          /\ known' = known /\ subscribed' = subscribed
    BY <1>6 DEF Synchronized, Goto, roleVars, dataVars
  <2>2. l \in Stops /\ l # "subscribe"
    BY Names DEF Main, Stops, Steps
  <2>3. late[f] = "late" => l = MtrRun /\ After(f, l) = "late_objects"
    BY <1>4, <2>1, <2>2
       DEF LatePlaces, Stops, After, ObjectsDiscovered, RootFrameDiscovered, InitStarted, MtrRun
  <2> QED BY <1>2, <1>6, <2>1, <2>2, <2>3 DEF EarlyEdge, LatePlaces
<1> QED BY <1>1, <1>5, <1>6

\* Whoever joins, leaves, or has a call refused,
LEMMA MembersView ==
  ASSUME PlaceInv, DataInv, NEW g \in Federates, NEW f \in Federates,
         life \in [Federates -> {"out", "in", "gone"}],
         \/ Join(g) \/ Lose(g)
         \/ LeaveFor(g, "terminated") /\ (Refused(g) \/ (g = Master /\ pc[g] = "register"))
  PROVE  View(f)
<1>1. CASE Join(g)
  <2>1. /\ life[g] = "out" /\ life' = [life EXCEPT ![g] = "in"]
        /\ pc' = [pc EXCEPT ![g] = "role"]
        /\ UNCHANGED <<waiting, late, subscribed, known, inbox, state, busy>>
    BY <1>1 DEF Join, SP!Join, roleVars, dataVars
  <2>2. CASE f = g
    BY <2>1, <2>2 DEF PlaceInv, View, Comes
  <2>3. CASE f # g
    BY <2>1, <2>3 DEF PlaceInv, View, Sits
  <2> QED BY <2>2, <2>3
<1>2. CASE ~Join(g)
  <2>1. /\ life[g] = "in" /\ life' = [life EXCEPT ![g] = "gone"]
        /\ \E b : pc' = [pc EXCEPT ![g] = b]
        /\ UNCHANGED <<waiting, late, subscribed, known>>
        /\ g \in Lossy \/ (g = Master /\ pc[g] = "register") \/ Refused(g)
    BY <1>2 DEF Lose, LeaveFor, SP!Leave, dataVars
  <2>2. CASE f = g
    BY <2>1, <2>2 DEF PlaceInv, View, Ends
  <2>3. CASE f # g
    BY <2>1, <2>3 DEF PlaceInv, View, Sits
  <2> QED BY <2>2, <2>3
<1> QED BY <1>1, <1>2

\* achieves,
LEMMA CallsView ==
  ASSUME PlaceInv, DataInv, NEW g \in Federates, NEW f \in Federates,
         life \in [Federates -> {"out", "in", "gone"}],
         Achieve(g) \/ \E l \in Phases : AchievePhase(g, l)
  PROVE  View(f)
<1>1. CASE Achieve(g) /\ Terminate(g) /\ ~SP!Accepts(g, pc[g], inbox)
  <2>1. Refused(g)
    BY <1>1, SameAchieve DEF Achieve, Terminate, SP!Free, SP!NoCall, Proved!NoCall, Refused
  <2> QED BY <1>1, <2>1, MembersView DEF Terminate
<1>2. CASE ~(Achieve(g) /\ Terminate(g) /\ ~SP!Accepts(g, pc[g], inbox))
  <2>1. /\ UNCHANGED <<pc, late, known, subscribed>> /\ \E l : SP!AchieveCall(g, l)
        /\ waiting' = waiting \/ waiting' = [waiting EXCEPT ![g] = TRUE]
    BY <1>2 DEF Achieve, AchievePhase, roleVars, dataVars
  <2>2. life' = life
    BY <2>1 DEF SP!AchieveCall, SP!AchieveFrom
  <2> QED BY <2>1, <2>2 DEF PlaceInv, View, Sits
<1> QED BY <1>1, <1>2

\* and what the master does.
LEMMA MasterView ==
  ASSUME PlaceInv, DataInv, NEW f \in Federates, MasterInv,
         life \in [Federates -> {"out", "in", "gone"}], MasterStep
  PROVE  View(f)
<1>0. Master \in Federates
  BY Names
<1>1. CASE Master_Determine
  <2>1. /\ UNCHANGED syncVars /\ UNCHANGED dataVars /\ UNCHANGED waiting
        /\ life[Master] = "in" /\ busy[Master] = Proved!NoCall
        /\ pc[Master] = "role" /\ pc' = [pc EXCEPT ![Master] = "register"]
        /\ late' = [late EXCEPT ![Master] = "early"]
        /\ Required # {} => Required \subseteq handles'
    BY <1>1 DEF Master_Determine, HaveJoined, Goto, SP!Free, SP!NoCall, Proved!NoCall
  <2>2. CASE f = Master
    BY <1>0, <2>1, <2>2 DEF PlaceInv, View, Determines
  <2>3. CASE f # Master
    BY <1>0, <2>1, <2>3 DEF PlaceInv, View, Sits, dataVars, syncVars
  <2> QED BY <2>2, <2>3
<1>2. ASSUME NEW l \in Labels, Master_Register(l)
      PROVE  View(f)
  <2>1. CASE Terminate(Master)
    BY <1>0, <1>2, <2>1, MembersView DEF Terminate, Master_Register
  <2>2. CASE ~Terminate(Master)
    <3>1. UNCHANGED <<pc, waiting, late, known, subscribed>>
          /\ (RegisterForAll(l) \/ RegisterFor(l, handles))
      BY <1>2, <2>2 DEF Master_Register, roleVars, dataVars
    <3>2. life' = life
      BY <3>1 DEF RegisterForAll, RegisterFor, SP!RegisterCall
    <3> QED BY <3>1, <3>2 DEF View, Sits
  <2> QED BY <2>1, <2>2
<1>3. CASE Master_Registered \/ Master_Go
  <2>1. /\ UNCHANGED syncVars /\ life[Master] = "in" /\ busy[Master] = Proved!NoCall
        /\ UNCHANGED <<waiting, late, known, subscribed>>
        /\ \/ /\ pc[Master] = "register" /\ \A l \in Labels : ~Due(l)
              /\ pc' = [pc EXCEPT ![Master] = "announced"]
           \/ pc[Master] = "go" /\ pc' = [pc EXCEPT ![Master] = "register_run"]
    BY <1>3 DEF Master_Registered, Master_Go, Goto, SP!Free, SP!NoCall, Proved!NoCall,
       Exchange, roleVars, dataVars
  <2>2. CASE f = Master
    <3>1. late[Master] = "early"
      BY <2>1 DEF MasterInv, Ended
    <3> QED BY <1>0, <2>1, <2>2, <3>1 DEF PlaceInv, View, Walks, EarlyEdge
  <2>3. CASE f # Master
    BY <1>0, <2>1, <2>3 DEF PlaceInv, View, Sits, syncVars
  <2> QED BY <2>2, <2>3
<1>4. CASE Master_Complete \/ Master_RegisterRun
  <2>1. /\ life[Master] = "in" /\ life' = life
        /\ UNCHANGED <<waiting, late, known, subscribed>>
        /\ \/ pc[Master] = "complete" /\ pc' = [pc EXCEPT ![Master] = "go"]
           \/ pc[Master] = "register_run" /\ pc' = [pc EXCEPT ![Master] = "await_run"]
    BY <1>4 DEF Master_Complete, Master_RegisterRun, Goto, SP!Free, RegisterForAll,
       SP!RegisterCall, roleVars, dataVars
  <2>2. CASE f = Master
    BY <1>0, <2>1, <2>2 DEF PlaceInv, View, Calls
  <2>3. CASE f # Master
    BY <1>0, <2>1, <2>3 DEF PlaceInv, View, Sits
  <2> QED BY <2>2, <2>3
<1>5. CASE Master_Provide
  <2>1. /\ UNCHANGED syncVars /\ UNCHANGED <<waiting, late, known, subscribed>>
        /\ pc[Master] = "running" /\ pc' = [pc EXCEPT ![Master] = "running"]
    BY <1>5 DEF Master_Provide, Goto, roleVars
  <2> QED BY <1>0, <2>1 DEF PlaceInv, View, Sits, syncVars
<1> QED BY <1>1, <1>2, <1>3, <1>4, <1>5 DEF MasterStep

LEMMA ViewStep ==
  ASSUME NobodyDesignated, PlaceInv, DataInv, MasterInv, \A g \in Federates : RoleInv(g),
         [Next]_vars, life \in [Federates -> {"out", "in", "gone"}], NEW f \in Federates
  PROVE  View(f)
<1>1. CASE UNCHANGED vars
  BY <1>1 DEF vars, roleVars, syncVars, dataVars, View, Sits
<1>2. ASSUME NEW g \in Federates, NEW l \in Labels, Served(g, l)
      PROVE  View(f)
  BY <1>2, ServedQuiet DEF View, Sits, dataVars
<1>3. ASSUME NEW g \in Federates, Join(g) \/ Lose(g)
      PROVE  View(f)
  BY <1>3, MembersView
<1>4. ASSUME NEW g \in Federates, MainStep(g)
      PROVE  View(f)
  <2>1. CASE Waits(g) /\ g = f
    BY <2>1, WaitsHere DEF View
  <2>2. CASE Waits(g) /\ g # f
    BY <2>2, WaitsElsewhere DEF View
  <2> QED BY <1>4, <2>1, <2>2, CallsView DEF MainStep, Waits
<1>5. ASSUME NEW g \in Federates, NEW o \in Objects, Discover(g, o)
      PROVE  View(f)
  <2>1. /\ UNCHANGED <<life, pc, waiting, late, subscribed>>
        /\ known' = [known EXCEPT ![g] = @ \cup {o}] /\ o \in subscribed[g]
    BY <1>5 DEF Discover, roleVars, syncVars
  <2>2. known[f] \subseteq known'[f] /\ known'[f] \subseteq known[f] \cup subscribed[f]
    BY <2>1 DEF DataInv
  <2> QED BY <2>1, <2>2 DEF View, Sits
<1> QED BY <1>1, <1>2, <1>3, <1>4, <1>5, MasterView DEF Next, Served

LEMMA RoleStep ==
  ASSUME NEW f \in Federates, RoleInv(f), View(f), PlaceInv, PlaceInv'
  PROVE  RoleInv(f)'
<1>1. CASE Sits(f) \/ Comes(f) \/ Ends(f)
  <2>1. CASE Sits(f)
    <3>1. late'[f] = "undetermined" => subscribed'[f] = {} /\ known'[f] = {}
      BY <2>1 DEF RoleInv, Sits
    <3> QED BY <2>1, <3>1 DEF RoleInv, Sits
  <2>2. CASE Comes(f)
    BY <2>2 DEF RoleInv, Comes
  <2>3. CASE Ends(f)
    BY <2>3 DEF RoleInv, Ends
  <2> QED BY <1>1, <2>1, <2>2, <2>3
<1>2. CASE Determines(f)
  BY <1>2, Ranks DEF RoleInv, Determines, EarlyPlaces, LatePlaces, Places, Steps, syncVars, dataVars
<1>3. CASE WalksLate(f)
  BY <1>3, Names DEF RoleInv, WalksLate, LatePlaces, Main, Steps, syncVars
<1>4. CASE Calls(f)
  BY <1>4, Ranks DEF RoleInv, Calls, EarlyPlaces, LatePlaces, MtrRun, Places, Steps
<1>5. CASE Walks(f)
  <2>1. Rank(pc'[f]) > 0
    BY <1>5, Ranks
       DEF Walks, EarlyEdge, Stops, After, ObjectsDiscovered, RootFrameDiscovered, InitStarted, MtrRun
  <2>2. life'[f] = "in" /\ late'[f] = "early"
    BY <1>5 DEF Walks, syncVars
  <2> QED BY <2>1, <2>2, NoRank DEF RoleInv, PlaceInv, EarlyPlaces
<1> QED BY <1>1, <1>2, <1>3, <1>4, <1>5 DEF View

-----------------------------------------------------------------------------
(* The points: which are registered, by when and for whom.                 *)

\* The step registers l, for set.
Registers(l, set, all) ==
  /\ round[l] = 0 /\ round' = [round EXCEPT ![l] = 1]
  /\ open'[l] = all /\ members'[l] = set /\ set \subseteq Proved!In
  /\ \A f \in set : Proved!Awaited(f, l)'
  /\ Early(Master) /\ Master \in set
  /\ UNCHANGED <<life, late, handles, waiting, state>> /\ UNCHANGED dataVars
  /\ \/ /\ l \in Group /\ Due(l) /\ pc[Master] = "register" /\ pc' = pc
        /\ all <=> handles = {}
        /\ set = IF handles = {} THEN Proved!In ELSE handles
     \/ l = InitCompleted /\ pc[Master] = "complete" /\ set = Proved!In
     \/ l = MtrRun /\ pc[Master] = "register_run" /\ set = Proved!In

\* A new point is wanted of those it is registered for.
LEMMA Registering ==
  ASSUME Inv, NEW l \in Labels, round[l] = 0, NEW set \in SUBSET Federates, NEW all \in BOOLEAN,
         SP!RegisterCall(Master, l, set, all)
  PROVE  /\ life' = life /\ round' = [round EXCEPT ![l] = 1] /\ life[Master] = "in"
         /\ open'[l] = all /\ members'[l] = set
         /\ \A f \in set : Proved!Awaited(f, l)'
         /\ state' = state
<1>1. Proved!RegisterCall(Master, l, set, all) /\ Master \in Federates
  BY SameRegister, Names
<1>2. Proved!TypeOK /\ Proved!RtiInv /\ Proved!Fresh(l)
  BY DEF Inv, Proved!IndInv, Proved!FreshInv
<1>3. ~Proved!Active(l) /\ achieved[l] = {} /\ members[l] = {}
  BY <1>2 DEF Proved!RtiInv, Proved!Active
<1>4. /\ life' = life /\ round' = [round EXCEPT ![l] = @ + 1] /\ achieved' = achieved
      /\ open' = [open EXCEPT ![l] = all] /\ members' = [members EXCEPT ![l] = set]
      /\ life[Master] = "in"
      /\ state' = [state EXCEPT ![Master][l] = Proved!Tracked(Master, l)]
  BY <1>1, <1>3 DEF Proved!RegisterCall, Proved!Free, Proved!SetState
<1>5. open'[l] = all /\ members'[l] = set /\ achieved'[l] = {}
  BY <1>2, <1>3, <1>4 DEF Proved!TypeOK
<1>6. Proved!Tracked(Master, l) = state[Master][l]
  BY <1>1, <1>2 DEF Proved!Tracked, Proved!Fresh
<1>7. state' = state
  BY <1>1, <1>2, <1>4, <1>6 DEF Proved!TypeOK
<1> QED BY <1>4, <1>5, <1>7 DEF Proved!Awaited

LEMMA InGroup ==
  /\ Group \subseteq Labels /\ \A l \in Labels : l \in Group \/ l \in {InitCompleted, MtrRun}
  /\ InitCompleted \in Labels \ Group /\ MtrRun \in Labels \ Group
  /\ Stops \subseteq Labels /\ \A i \in 1..3 : Startup[i] \in Group
  /\ Startup[1] = InitStarted /\ Startup[2] = ObjectsDiscovered
  /\ Startup[3] = RootFrameDiscovered
  /\ InitStarted \in Group /\ ObjectsDiscovered \in Group /\ RootFrameDiscovered \in Group
  /\ Phases \subseteq Group /\ InitCompleted # MtrRun
<1>1. InitCompleted # MtrRun
  BY DEF InitCompleted, MtrRun
<1>2. /\ InitCompleted \notin {InitStarted, ObjectsDiscovered, RootFrameDiscovered}
      /\ MtrRun \notin {InitStarted, ObjectsDiscovered, RootFrameDiscovered}
  BY DEF InitCompleted, MtrRun, InitStarted, ObjectsDiscovered, RootFrameDiscovered
<1> QED BY <1>1, <1>2, Names DEF Group, Stops, Main, Startup

\* A point that is due is new.
LEMMA DueIsNew ==
  ASSUME NEW l \in Labels, Due(l), round \in [Labels -> Nat]
  PROVE  round[l] = 0 /\ l \in Group
<1>1. CASE l \in Phases /\ ~Registered(l)
  BY <1>1, InGroup DEF Registered
<1>2. CASE ~(l \in Phases /\ ~Registered(l))
  <2>1. PICK n \in 1..3 : l = Startup[n] /\ ~Registered(Startup[n])
    BY <1>2 DEF Due
  <2> QED BY <2>1, InGroup DEF Registered
<1> QED BY <1>1, <1>2

\* Only the master registers, at its three places.
LEMMA RegisteringStep ==
  ASSUME Inv, PlaceInv, MasterStep, round' # round
  PROVE  \E l \in Labels, set \in SUBSET Federates, all \in BOOLEAN : Registers(l, set, all)
<1>0. /\ Master \in Federates /\ MasterInv /\ Proved!In = SP!In /\ SP!In \in SUBSET Federates
      /\ round \in [Labels -> Nat] /\ TRUE \in BOOLEAN /\ FALSE \in BOOLEAN
  BY Names DEF Inv, SP!In, Proved!In, Proved!IndInv, Proved!TypeOK
<1>1. ASSUME NEW l \in Labels, Master_Register(l)
      PROVE  \E set \in SUBSET Federates, all \in BOOLEAN : Registers(l, set, all)
  <2>1. ~Terminate(Master)
    BY DEF Terminate, LeaveFor, SP!Leave, SP!rtiVars
  <2>2. /\ pc[Master] = "register" /\ Due(l) /\ pc' = pc
        /\ UNCHANGED <<late, handles, waiting>> /\ UNCHANGED dataVars
    BY <1>1, <2>1 DEF Master_Register, roleVars
  <2>3. round[l] = 0 /\ l \in Group
    BY <1>0, <2>2, DueIsNew
  <2>4. late[Master] = "early"
    BY <1>0, <2>2 DEF MasterInv, Ended
  <2>5. CASE handles = {}
    <3>1. SP!RegisterCall(Master, l, SP!In, TRUE)
      BY <1>1, <2>1, <2>5 DEF Master_Register, RegisterForAll
    <3>2. Registers(l, SP!In, TRUE)
      BY <1>0, <2>2, <2>3, <2>4, <2>5, <3>1, Registering DEF Registers, Early, SP!In
    <3> QED BY <1>0, <3>2
  <2>6. CASE handles # {}
    <3>1. SP!RegisterCall(Master, l, handles, FALSE) /\ handles \subseteq SP!In
      BY <1>1, <2>1, <2>6 DEF Master_Register, RegisterFor
    <3>2. Registers(l, handles, FALSE)
      BY <1>0, <2>2, <2>3, <2>4, <2>6, <3>1, Registering DEF Registers, Early, MasterInv
    <3> QED BY <1>0, <3>1, <3>2
  <2> QED BY <2>5, <2>6
<1>2. CASE Master_Complete \/ Master_RegisterRun
  <2>1. PICK l \in {InitCompleted, MtrRun} :
          /\ SP!RegisterCall(Master, l, SP!In, TRUE)
          /\ \/ l = InitCompleted /\ pc[Master] = "complete"
             \/ l = MtrRun /\ pc[Master] = "register_run"
          /\ UNCHANGED <<late, handles, waiting>> /\ UNCHANGED dataVars
    BY <1>2 DEF Master_Complete, Master_RegisterRun, Goto, RegisterForAll, roleVars
  <2>2. l \in Labels /\ round[l] = 0 /\ late[Master] = "early"
    BY <1>0, <2>1, InGroup DEF MasterInv, BeforeRun, BeforeCompleted, Ended
  <2>3. Registers(l, SP!In, TRUE)
    BY <1>0, <2>1, <2>2, Registering DEF Registers, Early, SP!In
  <2> QED BY <1>0, <2>2, <2>3
<1>3. CASE Master_Determine \/ Master_Registered \/ Master_Go \/ Master_Provide
  BY <1>3 DEF Master_Determine, Master_Registered, Master_Go, Master_Provide, Exchange, syncVars
<1> QED BY <1>1, <1>2, <1>3 DEF MasterStep

LEMMA RoundStep ==
  ASSUME NobodyDesignated, Inv, PlaceInv, [Next]_vars
  PROVE  \/ round' = round
         \/ \E l \in Labels, set \in SUBSET Federates, all \in BOOLEAN : Registers(l, set, all)
<1>1. CASE UNCHANGED vars
  BY <1>1 DEF vars, syncVars
<1>2. ASSUME NEW g \in Federates, NEW l \in Labels, Served(g, l)
      PROVE  round' = round
  BY <1>2 DEF Served, Inform, Callback, AutoAchieve, Rti, SP!Inform, SP!Drop, SP!RegisterReturn,
     SP!AchieveReturn, SP!OnRegistered, SP!OnAnnounced, SP!OnSynchronized, SP!Mark,
     SP!AchieveCall, SP!AchieveFrom, SP!rtiVars
<1>3. ASSUME NEW g \in Federates, Join(g) \/ Lose(g)
      PROVE  round' = round
  BY <1>3 DEF Join, Lose, LeaveFor, SP!Join, SP!Leave, SP!rtiVars
<1>4. ASSUME NEW g \in Federates, MainStep(g)
      PROVE  round' = round
  <2>1. CASE Waits(g)
    BY <2>1, WaitsQuiet
  <2>2. CASE ~Waits(g)
    BY <1>4, <2>2 DEF MainStep, Waits, Achieve, AchievePhase, SP!AchieveCall, SP!AchieveFrom,
       Terminate, LeaveFor, SP!Leave, SP!rtiVars
  <2> QED BY <2>1, <2>2
<1>5. ASSUME NEW g \in Federates, NEW o \in Objects, Discover(g, o)
      PROVE  round' = round
  BY <1>5 DEF Discover, syncVars
<1> QED BY <1>1, <1>2, <1>3, <1>4, <1>5, RegisteringStep DEF Next, Served

\* Only the master determines the handles, when it has found out its role.
LEMMA HandlesStep ==
  ASSUME NobodyDesignated, PlaceInv, [Next]_vars
  PROVE  \/ handles' = handles
         \/ /\ UNCHANGED syncVars /\ pc[Master] = "role" /\ late'[Master] = "early"
            /\ life[Master] = "in" /\ handles' \subseteq SP!In
            /\ Required \subseteq handles' \/ handles' = {}
            /\ handles' = {} <=> Required = {}
<1>1. CASE UNCHANGED vars
  BY <1>1 DEF vars, roleVars
<1>2. ASSUME NEW g \in Federates, NEW l \in Labels, Served(g, l)
      PROVE  handles' = handles
  BY <1>2, ServedQuiet
<1>3. ASSUME NEW g \in Federates, Join(g) \/ Lose(g)
      PROVE  handles' = handles
  BY <1>3 DEF Join, Lose, LeaveFor, roleVars
<1>4. ASSUME NEW g \in Federates, MainStep(g)
      PROVE  handles' = handles
  <2>1. CASE Waits(g)
    BY <2>1, WaitsQuiet
  <2>2. CASE ~Waits(g)
    BY <1>4, <2>2 DEF MainStep, Waits, Achieve, AchievePhase, Terminate, LeaveFor, roleVars
  <2> QED BY <2>1, <2>2
<1>5. ASSUME NEW g \in Federates, NEW o \in Objects, Discover(g, o)
      PROVE  handles' = handles
  BY <1>5 DEF Discover, roleVars
<1>6. CASE Master_Determine
  <2>1. PICK set \in SUBSET Federates :
          HaveJoined(set) /\ handles' = IF Required = {} THEN {} ELSE set
    BY <1>6 DEF Master_Determine
  <2>2. /\ UNCHANGED syncVars /\ pc[Master] = "role" /\ life[Master] = "in"
        /\ late'[Master] = "early"
    BY <1>6, Names DEF Master_Determine, Goto, SP!Free, PlaceInv
  <2>3. Required \subseteq set /\ set \subseteq SP!In
    BY <2>1 DEF HaveJoined
  <2> QED BY <2>1, <2>2, <2>3
<1>7. CASE MasterStep /\ ~Master_Determine
  BY <1>7 DEF MasterStep, Master_Register, Terminate, LeaveFor, Master_Registered,
     Master_Complete, Master_RegisterRun, Master_Go, Master_Provide, Exchange, roleVars
<1> QED BY <1>1, <1>2, <1>3, <1>4, <1>5, <1>6, <1>7 DEF Next, Served

\* The points are registered once, in order, by the time the master goes on,
\* and for the same federates: everybody, or those with a handle.
Wanted(l) ==
  IF handles = {} THEN open[l]
  ELSE /\ ~open[l] /\ members[l] \subseteq handles
       /\ Proved!Active(l) => \A f \in handles : life[f] = "in" => f \in members[l]
PointsInv ==
  /\ \A l \in Labels : round[l] <= 1
  /\ late[Master] = "undetermined" => handles = {} /\ \A l \in Labels : round[l] = 0
  /\ \A f \in handles : life[f] # "out"
  /\ \A i, j \in 1..3 : i < j /\ round[Startup[j]] = 1 => round[Startup[i]] = 1
  /\ \A l \in Phases : round[l] = 1 => \A i \in 1..3 : round[Startup[i]] = 1
  /\ Early(Master) /\ Rank(pc[Master]) > 1 => \A l \in Group : round[l] = 1
  /\ \A l \in Group : round[l] = 1 => Wanted(l)
  /\ Required # {} /\ late[Master] # "undetermined" => Required \subseteq handles

\* What is assumed of a state before a step.
Base ==
  /\ NobodyDesignated /\ Inv /\ Proved!OnceInv /\ PlaceInv /\ DataInv
  /\ \A f \in Federates : RoleInv(f)

LEMMA BaseFacts ==
  ASSUME Base, [Next]_vars
  PROVE  /\ Inv /\ PlaceInv /\ DataInv /\ MasterInv /\ Proved!TypeOK
         /\ \A f \in Federates : RoleInv(f)
         /\ [Proved!Next]_(Proved!vars) /\ Proved!IndInv /\ Proved!FreshInv /\ Proved!OnceInv
         /\ life \in [Federates -> {"out", "in", "gone"}] /\ round \in [Labels -> Nat]
         /\ \A f \in Federates : View(f)
         /\ Master \in Federates /\ Proved!ConstantsAssumption
<1>1. /\ NobodyDesignated /\ Inv /\ PlaceInv /\ DataInv /\ MasterInv
      /\ \A f \in Federates : RoleInv(f)
      /\ Proved!IndInv /\ Proved!FreshInv /\ Proved!OnceInv
  BY DEF Base, Inv
<1>2. Proved!TypeOK /\ life \in [Federates -> {"out", "in", "gone"}] /\ round \in [Labels -> Nat]
  BY <1>1 DEF Proved!IndInv, Proved!TypeOK
<1>3. [Proved!Next]_(Proved!vars)
  BY <1>1, InvStep, SameNext DEF SP!vars, Proved!vars
<1>4. \A f \in Federates : View(f)
  BY <1>1, <1>2, ViewStep
<1> QED BY <1>1, <1>2, <1>3, <1>4, Names, Constants

\* Every invariant of Base holds after the step.
LEMMA BaseStep ==
  ASSUME Base, [Next]_vars
  PROVE  Base'
<1>1. Inv' /\ PlaceInv' /\ DataInv'
  BY BaseFacts, InvStep, PlacesStep, DataStep DEF Base
<1>2. Proved!OnceInv'
  BY BaseFacts, Proved!OnceStep
<1>3. \A f \in Federates : RoleInv(f)'
  BY <1>1, BaseFacts, RoleStep
<1> QED BY <1>1, <1>2, <1>3 DEF Base, NobodyDesignated

\* An early joiner only goes forward,
LEMMA EdgeRanks ==
  ASSUME NEW f, NEW a, NEW b, EarlyEdge(f, a, b), late[f] = "early"
  PROVE  /\ Rank(a) > 0 /\ Rank(b) > Rank(a)
         /\ a = "register" \/ Rank(a) > 1
<1>1. CASE a \in Stops
  <2>1. b = After(f, a)
    BY <1>1 DEF EarlyEdge, Stops, ObjectsDiscovered, RootFrameDiscovered, InitStarted, MtrRun
  <2>2. \/ a = ObjectsDiscovered /\ b = "epoch"
        \/ a = RootFrameDiscovered /\ b = "phases"
        \/ a = InitStarted /\ b \in {"complete", "go"}
        \/ a = MtrRun /\ b = "running"
    BY <1>1, <2>1
       DEF After, Stops, ObjectsDiscovered, RootFrameDiscovered, InitStarted, MtrRun
  <2> QED BY <2>2, Ranks
<1>2. CASE a \notin Stops
  BY <1>2, Ranks DEF EarlyEdge
<1> QED BY <1>1, <1>2

\* and the points that are wanted of somebody stay so.
LEMMA WantedKept ==
  ASSUME Base, PointsInv, [Next]_vars, NEW l \in Group, round[l] = 1, round'[l] = 1,
         handles' = handles
  PROVE  Wanted(l)'
<1>0. l \in Labels /\ Wanted(l)
  BY InGroup DEF PointsInv
<1>1. /\ open'[l] = open[l]
      /\ \/ members'[l] = members[l]
         \/ members'[l] = {}
         \/ \E f \in Federates : Proved!Inform(f, l) /\ members'[l] = members[l] \cup {f}
         \/ \E f \in Federates : life[f] = "gone" /\ members'[l] = members[l] \ {f}
  BY <1>0, BaseFacts, Proved!MembersMove
<1>2. ASSUME NEW f \in handles, life'[f] = "in"
      PROVE  life[f] = "in"
  <2>1. f \in Federates /\ life[f] # "out"
    BY BaseFacts DEF PlaceInv, PointsInv
  <2>2. View(f)
    BY <2>1, BaseFacts
  <2> QED BY <1>2, <2>1, <2>2
          DEF View, Sits, Comes, Ends, Determines, Walks, WalksLate, Calls, syncVars
<1>3. CASE handles = {}
  BY <1>0, <1>1, <1>3 DEF Wanted
<1>4. CASE handles # {}
  <2>1. ~open[l] /\ members[l] \subseteq handles
        /\ (Proved!Active(l) => \A f \in handles : life[f] = "in" => f \in members[l])
    BY <1>0, <1>4 DEF Wanted
  <2>2. \A f \in Federates : ~Proved!Inform(f, l)
    BY <2>1 DEF Proved!Inform
  <2>3. CASE members'[l] = members[l]
    BY <1>1, <1>2, <1>4, <2>1, <2>3 DEF Wanted, Proved!Active
  <2>4. CASE members'[l] = {}
    BY <1>1, <1>4, <2>1, <2>4 DEF Wanted, Proved!Active
  <2>5. CASE \E f \in Federates : life[f] = "gone" /\ members'[l] = members[l] \ {f}
    BY <1>1, <1>2, <1>4, <2>1, <2>5 DEF Wanted, Proved!Active
  <2> QED BY <1>1, <2>2, <2>3, <2>4, <2>5
<1> QED BY <1>3, <1>4

LEMMA PointsStep ==
  ASSUME Base, PointsInv, [Next]_vars
  PROVE  PointsInv'
<1>0. /\ \A l \in Labels : round[l] \in {0, 1} /\ round'[l] \in {0, 1}
      /\ \A l \in Labels : round[l] = 1 => round'[l] = 1
      /\ \/ round' = round
         \/ \E l \in Labels, set \in SUBSET Federates, all \in BOOLEAN : Registers(l, set, all)
      /\ RoleInv(Master) /\ View(Master) /\ Master \in Federates
  <2>1. \A l \in Labels : round[l] \in {0, 1}
    BY BaseFacts DEF PointsInv
  <2>2. \/ round' = round
        \/ \E l \in Labels, set \in SUBSET Federates, all \in BOOLEAN : Registers(l, set, all)
    BY BaseFacts, RoundStep DEF Base
  <2>3. ASSUME NEW l \in Labels, round' = [round EXCEPT ![l] = 1]
        PROVE  \A k \in Labels : round'[k] \in {0, 1} /\ (round[k] = 1 => round'[k] = 1)
    BY <2>1, <2>3, BaseFacts
  <2> QED BY <2>1, <2>2, <2>3, BaseFacts DEF Registers
<1>1. \A l \in Labels : round'[l] <= 1
  BY <1>0
<1>2. late'[Master] = "undetermined" => late[Master] = "undetermined"
  BY <1>0 DEF View, Sits, Comes, Ends, Determines, Walks, WalksLate, Calls
<1>3. \/ handles' = handles
      \/ /\ UNCHANGED syncVars /\ pc[Master] = "role" /\ late'[Master] = "early"
         /\ life[Master] = "in" /\ handles' \subseteq SP!In
         /\ Required \subseteq handles' \/ handles' = {}
         /\ handles' = {} <=> Required = {}
  BY BaseFacts, HandlesStep DEF Base
<1>4. late'[Master] = "undetermined" => handles' = {} /\ \A l \in Labels : round'[l] = 0
  BY <1>0, <1>2, <1>3 DEF PointsInv, Registers, Early
<1>5. ASSUME NEW f \in handles'
      PROVE  life'[f] # "out"
  <2>1. CASE handles' = handles
    <3>1. life[f] # "out" /\ View(f)
      BY <1>5, <2>1, BaseFacts DEF PointsInv, PlaceInv
    <3> QED BY <3>1 DEF View, Sits, Comes, Ends, Determines, Walks, WalksLate, Calls, syncVars
  <2>2. CASE handles' # handles
    BY <1>3, <1>5, <2>2 DEF SP!In, syncVars
  <2> QED BY <2>1, <2>2
<1>6. ASSUME NEW i \in 1..3, NEW j \in 1..3, i < j, round'[Startup[j]] = 1
      PROVE  round'[Startup[i]] = 1
  <2>0. Startup[i] \in Labels /\ Startup[j] \in Labels
    BY InGroup
  <2>1. CASE round[Startup[j]] = 1
    BY <1>0, <1>6, <2>0, <2>1 DEF PointsInv
  <2>2. CASE round[Startup[j]] # 1
    <3>1. PICK l \in Labels, set \in SUBSET Federates, all \in BOOLEAN : Registers(l, set, all)
      BY <1>0, <1>6, <2>2
    <3>2. Startup[j] = l
      BY <1>0, <1>6, <2>0, <2>2, <3>1, BaseFacts DEF Registers
    <3>3. Due(l) /\ l \notin Phases
      BY <3>1, <3>2, InGroup, Names DEF Registers, Main
    <3>4. PICK n \in 1..3 : l = Startup[n] /\ \A k \in 1..3 : Registered(Startup[k]) <=> k < n
      BY <3>3 DEF Due
    <3>5. j = n
      BY <3>2, <3>4 DEF Startup, InitStarted, ObjectsDiscovered, RootFrameDiscovered
    <3>6. round[Startup[i]] > 0
      BY <1>6, <3>4, <3>5 DEF Registered
    <3> QED BY <1>0, <2>0, <3>6
  <2> QED BY <2>1, <2>2
<1>7. ASSUME NEW l \in Phases, round'[l] = 1, NEW i \in 1..3
      PROVE  round'[Startup[i]] = 1
  <2>0. l \in Labels /\ Startup[i] \in Labels /\ l \in Group
    BY InGroup
  <2>1. CASE round[l] = 1
    BY <1>0, <2>0, <2>1 DEF PointsInv
  <2>2. CASE round[l] # 1
    <3>1. PICK k \in Labels, set \in SUBSET Federates, all \in BOOLEAN : Registers(k, set, all)
      BY <1>0, <1>7, <2>2
    <3>2. l = k /\ Due(l)
      BY <1>0, <1>7, <2>0, <2>2, <3>1, BaseFacts, InGroup DEF Registers
    <3>3. l \notin {Startup[n] : n \in 1..3}
      BY Names DEF Main
    <3>4. Registered(Startup[i])
      BY <3>2, <3>3 DEF Due, StartupRegistered
    <3> QED BY <1>0, <2>0, <3>4 DEF Registered
  <2> QED BY <2>1, <2>2
<1>8. ASSUME Early(Master)', Rank(pc'[Master]) > 1, NEW l \in Group
      PROVE  round'[l] = 1
  <2>0. l \in Labels
    BY InGroup
  <2>1. CASE Early(Master) /\ Rank(pc[Master]) > 1
    BY <1>0, <2>0, <2>1 DEF PointsInv
  <2>2. CASE Walks(Master) /\ pc[Master] = "register"
    <3>1. \A k \in Labels : ~Due(k)
      BY <2>2, Ranks DEF Walks, EarlyEdge, Stops, ObjectsDiscovered, RootFrameDiscovered,
         InitStarted, MtrRun
    <3>2. \A k \in Labels : Registered(k) <=> round[k] = 1
      BY <1>0 DEF Registered
    <3>3. Registered(Startup[1])
      <4>1. CASE ~Registered(Startup[1])
        <5>1. \A j \in 1..3 : Registered(Startup[j]) <=> j < 1
          BY <3>2, <4>1, InGroup DEF PointsInv
        <5> QED BY <3>1, <5>1, InGroup DEF Due
      <4> QED BY <4>1
    <3>4. Registered(Startup[2])
      <4>1. CASE ~Registered(Startup[2])
        <5>1. \A j \in 1..3 : Registered(Startup[j]) <=> j < 2
          BY <3>2, <3>3, <4>1, InGroup DEF PointsInv
        <5> QED BY <3>1, <5>1, InGroup DEF Due
      <4> QED BY <4>1
    <3>5. Registered(Startup[3])
      <4>1. CASE ~Registered(Startup[3])
        <5>1. \A j \in 1..3 : Registered(Startup[j]) <=> j < 3
          BY <3>3, <3>4, <4>1
        <5> QED BY <3>1, <5>1, InGroup DEF Due
      <4> QED BY <4>1
    <3>6. StartupRegistered
      BY <3>3, <3>4, <3>5 DEF StartupRegistered
    <3>7. Registered(l)
      BY <3>1, <3>6, <2>0 DEF Due, Group, StartupRegistered
    <3> QED BY <1>0, <2>0, <3>2, <3>7
  <2>3. CASE ~(Early(Master) /\ Rank(pc[Master]) > 1) /\ ~(Walks(Master) /\ pc[Master] = "register")
    <3>1. CASE Walks(Master)
      BY <2>3, <3>1, EdgeRanks DEF Walks, Early
    <3>2. CASE ~Walks(Master)
      BY <1>0, <1>8, <2>3, <3>2, Ranks, NoRank
         DEF View, Sits, Comes, Ends, Determines, WalksLate, Calls, Early, syncVars
    <3> QED BY <3>1, <3>2
  <2> QED BY <2>1, <2>2, <2>3
<1>9. ASSUME NEW l \in Group, round'[l] = 1
      PROVE  Wanted(l)'
  <2>0. l \in Labels
    BY InGroup
  <2>1. CASE round[l] = 1
    <3>1. handles' = handles
      BY <1>0, <1>3, <2>0, <2>1 DEF PointsInv, RoleInv
    <3> QED BY <1>9, <2>1, <3>1, WantedKept
  <2>2. CASE round[l] # 1
    <3>1. PICK k \in Labels, set \in SUBSET Federates, all \in BOOLEAN : Registers(k, set, all)
      BY <1>0, <1>9, <2>2
    <3>2. k = l
      BY <1>0, <1>9, <2>0, <2>2, <3>1, BaseFacts DEF Registers
    <3>3. /\ handles' = handles /\ open'[l] = all /\ members'[l] = set /\ life' = life
          /\ all <=> handles = {}
          /\ set = IF handles = {} THEN Proved!In ELSE handles
      BY <3>1, <3>2, InGroup DEF Registers
    <3> QED BY <3>3 DEF Wanted
  <2> QED BY <2>1, <2>2
<1>10. ASSUME Required # {}, late'[Master] # "undetermined"
       PROVE  Required \subseteq handles'
  <2>1. CASE late[Master] # "undetermined"
    <3>1. pc[Master] # "role" \/ life[Master] # "in"
      BY <1>0, <2>1 DEF RoleInv
    <3> QED BY <1>3, <1>10, <2>1, <3>1 DEF PointsInv
  <2>2. CASE late[Master] = "undetermined"
    BY <1>0, <1>10, <2>2 DEF View, Sits, Comes, Ends, Determines, Walks, WalksLate, Calls
  <2> QED BY <2>1, <2>2
<1> QED BY <1>1, <1>4, <1>5, <1>6, <1>7, <1>8, <1>9, <1>10 DEF PointsInv

-----------------------------------------------------------------------------
(* How far each federate is, and what has happened at the points by then.  *)

\* An early joiner has achieved a stop when it waits there, has been let go
\* when it goes on, and knows what it has waited for.
ProgramInv(f) == Early(f) =>
  LET r == Rank(pc[f])
  IN  /\ \A l \in Stops :
           /\ Proved!Arrived(f, l) => r > Rank(l) \/ (pc[f] = l /\ waiting[f])
           /\ r > Rank(l) => state[f][l] = "SYNCHRONIZED"
      /\ \A l \in Phases :
           /\ Proved!Arrived(f, l) => r >= 10
           /\ r > 10 => state[f][l] = "SYNCHRONIZED"
      /\ r > 2 => \A i \in 1..3 : Proved!Seen(f, Startup[i])
      /\ r > 15 => Proved!Seen(f, MtrRun)
      /\ f # Master => Proved!Seen(f, InitStarted)
      /\ r > 4 => known[f] = Objects
      /\ r <= 2 => subscribed[f] = {} /\ known[f] = {}

\* The others have achieved nothing, but a late joiner mtr_run.
AchievedInv(f) ==
  /\ life[f] = "in" /\ late[f] = "undetermined" => \A l \in Labels : ~Proved!Arrived(f, l)
  /\ life[f] = "in" /\ late[f] = "late" =>
       \A l \in Labels \ {MtrRun} : ~Proved!Arrived(f, l)

\* The update by which the others learn that they go to run is the third.
GoInv(f) ==
  Early(f) /\ f # Master /\ pc[f] = "go" /\ queue[f]["ExCO"] # <<>> =>
    Head(queue[f]["ExCO"]) = "to_run"

\* The calls of the points are told apart.
LEMMA Differ ==
  ASSUME NEW l \in Labels, NEW k \in Labels
  PROVE  /\ Proved!NoCall # Proved!Registering(l) /\ Proved!NoCall # Proved!Achieving(l)
         /\ Proved!Registering(l) # Proved!Achieving(k)
         /\ Proved!Achieving(l) = Proved!Achieving(k) => l = k
<1>1. /\ Proved!NoCall.op = "none" /\ Proved!Registering(l).op = "register"
      /\ Proved!Achieving(l).op = "achieve" /\ Proved!Achieving(k).op = "achieve"
      /\ Proved!Achieving(l).label = l /\ Proved!Achieving(k).label = k
  BY DEF Proved!NoCall, Proved!Registering, Proved!Achieving
<1> QED BY <1>1

\* A federate arrives at a point by its program.
LEMMA ArrivesBy ==
  ASSUME Base, [Next]_vars, NEW f \in Federates, NEW l \in Labels, life[f] = "in",
         life'[f] = "in", round'[l] <= 1,
         Proved!Arrived(f, l)', ~Proved!Arrived(f, l)
  PROVE  /\ pc'[f] = pc[f]
         /\ \/ pc[f] = l /\ waiting'[f]
            \/ pc[f] = "phases" /\ l \in Phases
<1> DEFINE P == /\ pc'[f] = pc[f]
                /\ \/ pc[f] = l /\ waiting'[f]
                   \/ pc[f] = "phases" /\ l \in Phases
<1>0. Proved!TypeOK /\ NobodyDesignated /\ AutoInv /\ PlaceInv /\ Master \in Federates
  BY BaseFacts DEF Base, Inv
<1>1. busy'[f] = Proved!Achieving(l) /\ busy[f] = Proved!NoCall /\ busy'[f] # busy[f]
  <2>1. Proved!Keeps(f, l)
    BY BaseFacts, Proved!StepKeeps DEF Proved!OnceInv
  <2>2. Proved!NoCall # Proved!Achieving(l)
    BY Differ
  <2> QED BY <2>1, <2>2 DEF Proved!Keeps
<1>2. ASSUME NEW g \in Federates, busy' = [busy EXCEPT ![g] = Proved!NoCall]
      PROVE  FALSE
  BY <1>0, <1>1, <1>2 DEF Proved!TypeOK
<1>3. CASE UNCHANGED vars
  BY <1>1, <1>3 DEF vars, syncVars
<1>4. ASSUME NEW g \in Federates, NEW k \in Labels, Served(g, k)
      PROVE  FALSE
  <2>1. ~AutoAchieve(g, k)
    BY <1>0 DEF AutoAchieve, AutoInv
  <2>2. busy' = busy \/ busy' = [busy EXCEPT ![g] = SP!NoCall]
    BY <1>4, <2>1 DEF Served, Inform, Callback, Rti, SP!Inform, SP!Drop, SP!RegisterReturn,
       SP!AchieveReturn, SP!OnRegistered, SP!OnAnnounced, SP!OnSynchronized, SP!Mark
  <2> QED BY <1>1, <1>2, <2>2 DEF SP!NoCall, Proved!NoCall
<1>5. ASSUME NEW g \in Federates, NEW place, LeaveFor(g, place)
      PROVE  FALSE
  BY <1>2, <1>5 DEF LeaveFor, SP!Leave, SP!NoCall, Proved!NoCall
<1>6. ASSUME NEW g \in Federates, Join(g) \/ Lose(g)
      PROVE  FALSE
  BY <1>1, <1>5, <1>6 DEF Join, Lose, SP!Join
<1>7. ASSUME NEW g \in Federates, NEW k \in Labels, SP!AchieveCall(g, k)
      PROVE  g = f /\ k = l
  <2>1. busy' = [busy EXCEPT ![g] = Proved!Achieving(k)]
    BY <1>1, <1>7 DEF SP!AchieveCall, SP!AchieveFrom, SP!Achieving, Proved!Achieving
  <2>2. g = f /\ Proved!Achieving(k) = Proved!Achieving(l)
    BY <1>0, <1>1, <2>1 DEF Proved!TypeOK
  <2> QED BY <2>2, Differ
<1>8. ASSUME NEW g \in Federates, MainStep(g)
      PROVE  P
  <2>1. CASE Waits(g)
    BY <1>1, <2>1, WaitsQuiet DEF syncVars
  <2>2. CASE Achieve(g)
    <3>1. /\ pc[g] \in Labels /\ SP!AchieveCall(g, pc[g]) /\ pc' = pc
          /\ waiting' = [waiting EXCEPT ![g] = TRUE]
      BY <1>5, <2>2 DEF Achieve, Terminate
    <3>2. g = f /\ pc[g] = l
      BY <1>7, <3>1
    <3> QED BY <1>0, <3>1, <3>2 DEF PlaceInv
  <2>3. CASE \E k \in Phases : AchievePhase(g, k)
    BY <1>7, <2>3, Names DEF AchievePhase
  <2> QED BY <1>8, <2>1, <2>2, <2>3 DEF MainStep, Waits
<1>9. ASSUME NEW g \in Federates, NEW o \in Objects, Discover(g, o)
      PROVE  FALSE
  BY <1>1, <1>9 DEF Discover, syncVars
<1>10. CASE MasterStep
  <2>1. ASSUME NEW k \in Labels, NEW set, NEW all, SP!RegisterCall(Master, k, set, all)
        PROVE  FALSE
    <3>1. busy' = [busy EXCEPT ![Master] = Proved!Registering(k)]
      BY <2>1 DEF SP!RegisterCall, SP!Registering, Proved!Registering
    <3>2. Proved!Registering(k) # Proved!Achieving(l)
      BY Differ
    <3> QED BY <1>0, <1>1, <3>1, <3>2 DEF Proved!TypeOK
  <2>2. ASSUME NEW k \in Labels, Master_Register(k)
        PROVE  FALSE
    BY <1>0, <1>5, <2>1, <2>2 DEF Master_Register, Terminate, RegisterForAll, RegisterFor
  <2>3. CASE Master_Complete \/ Master_RegisterRun
    BY <2>1, <2>3, InGroup DEF Master_Complete, Master_RegisterRun, RegisterForAll
  <2>4. CASE Master_Determine \/ Master_Registered \/ Master_Go \/ Master_Provide
    BY <1>1, <2>4 DEF Master_Determine, Master_Registered, Master_Go, Master_Provide, Exchange,
       syncVars
  <2> QED BY <1>10, <2>2, <2>3, <2>4 DEF MasterStep
<1> QED BY <1>3, <1>4, <1>6, <1>8, <1>9, <1>10 DEF Next, Served

\* What has happened at the points stays.
LEMMA PointKept ==
  ASSUME Base, PointsInv, [Next]_vars, NEW f \in Federates, life[f] = "in", life'[f] = "in",
         NEW l \in Labels
  PROVE  /\ state[f][l] = "SYNCHRONIZED" => state'[f][l] = "SYNCHRONIZED"
         /\ Proved!Seen(f, l) => Proved!Seen(f, l)'
         /\ Proved!Arrived(f, l) => Proved!Arrived(f, l)'
         /\ Proved!Counted(f, l) => Proved!Counted(f, l)'
<1>1. round'[l] <= 1
  BY PointsStep DEF PointsInv
<1> QED BY <1>1, BaseFacts, Proved!StepKeeps DEF Proved!OnceInv, Proved!Keeps

LEMMA AchievedStep ==
  ASSUME Base, PointsInv, [Next]_vars, NEW f \in Federates, AchievedInv(f)
  PROVE  AchievedInv(f)'
<1>1. RoleInv(f) /\ View(f) /\ PlaceInv /\ DataInv
  BY BaseFacts
<1>2. ASSUME life'[f] = "in", life[f] # "in", NEW l \in Labels
      PROVE  ~Proved!Arrived(f, l)'
  <2>1. Comes(f)
    BY <1>1, <1>2 DEF View, Sits, Ends, Determines, Walks, WalksLate, Calls, syncVars
  <2>2. Proved!LifeInv
    BY BaseFacts DEF Proved!IndInv
  <2>3. state[f][l] = "KNOWN" /\ busy[f] = Proved!NoCall
    BY <2>1, <2>2 DEF Proved!LifeInv, Comes
  <2> QED BY <2>1, <2>3, Differ DEF Proved!Arrived, Proved!Held, Comes
<1>3. ASSUME life'[f] = "in", life[f] = "in", NEW l \in Labels, late'[f] # "early",
             late'[f] = "late" => l # MtrRun, Proved!Arrived(f, l)'
      PROVE  FALSE
  <2>1. round'[l] <= 1 /\ MtrRun \notin Phases
    BY PointsStep, Names DEF PointsInv, Main
  <2>2. late[f] # "early" /\ (late[f] = "late" => l # MtrRun)
    BY <1>1, <1>3 DEF RoleInv, View, Sits, Comes, Ends, Determines, Walks, WalksLate, Calls
  <2>3. ~Proved!Arrived(f, l)
    BY <1>1, <1>3, <2>2 DEF AchievedInv, PlaceInv
  <2>4. pc[f] = l \/ pc[f] = "phases"
    BY <1>3, <2>1, <2>3, ArrivesBy
  <2>5. late[f] = "undetermined" => pc[f] = "role"
    BY <1>1, <1>3 DEF RoleInv
  <2>6. late[f] = "late" => pc[f] \in LatePlaces
    BY <1>1, <1>3 DEF RoleInv
  <2>7. l \notin Steps
    BY Names
  <2> QED BY <1>1, <2>2, <2>4, <2>5, <2>6, <2>7 DEF LatePlaces, Steps, PlaceInv, MtrRun
<1> QED BY <1>2, <1>3 DEF AchievedInv

\* What an early joiner has passed when it goes on.
LEMMA EdgeSteps ==
  ASSUME NEW f, NEW a, NEW b, EarlyEdge(f, a, b), late[f] = "early",
         a = "go" /\ f # Master => Head(queue[f]["ExCO"]) = "to_run"
  PROVE  /\ \A l \in Stops : Rank(a) <= Rank(l) /\ Rank(l) < Rank(b) =>
              a = l /\ Is(f, l, "SYNCHRONIZED")
         /\ Rank(a) <= 10 /\ Rank(b) > 10 => \A l \in Phases : Is(f, l, "SYNCHRONIZED")
         /\ Rank(a) <= 2 /\ Rank(b) > 2 => \A i \in 1..3 : Announced(f, Startup[i])
         /\ Rank(a) <= 15 /\ Rank(b) > 15 => Announced(f, MtrRun)
         /\ Rank(a) <= 4 /\ Rank(b) > 4 => \A o \in Objects : o \in known[f]
         /\ a \in Stops => Rank(b) > Rank(a)
<1>1. CASE a \in Stops
  <2>1. b = After(f, a) /\ Is(f, a, "SYNCHRONIZED")
    BY <1>1 DEF EarlyEdge, Stops, ObjectsDiscovered, RootFrameDiscovered, InitStarted, MtrRun
  <2>2. \/ a = ObjectsDiscovered /\ b = "epoch"
        \/ a = RootFrameDiscovered /\ b = "phases"
        \/ a = InitStarted /\ b \in {"complete", "go"}
        \/ a = MtrRun /\ b = "running"
    BY <1>1, <2>1
       DEF After, Stops, ObjectsDiscovered, RootFrameDiscovered, InitStarted, MtrRun
  <2> QED BY <2>1, <2>2, Ranks DEF Stops
<1>2. CASE a \notin Stops
  <2>1. \/ a = "register" /\ b = "announced"
        \/ a = "announced" /\ b = "subscribe" /\ \A i \in 1..3 : Announced(f, Startup[i])
        \/ a = "subscribe" /\ b = "objects"
        \/ a = "objects" /\ b = ObjectsDiscovered /\ \A o \in Objects : o \in known[f]
        \/ a = "epoch" /\ b = "root"
        \/ a = "root" /\ b = "frame"
        \/ a = "frame" /\ b = RootFrameDiscovered
        \/ a = "phases" /\ b = InitStarted /\ \A l \in Phases : Is(f, l, "SYNCHRONIZED")
        \/ a = "go" /\ b \in {"register_run", "await_run"}
        \/ a = "await_run" /\ b = MtrRun /\ Announced(f, MtrRun)
    BY <1>2 DEF EarlyEdge
  <2> QED BY <1>2, <2>1, Ranks DEF Stops
<1> QED BY <1>1, <1>2

LEMMA ProgramStep ==
  ASSUME Base, PointsInv, [Next]_vars, NEW f \in Federates,
         ProgramInv(f), AchievedInv(f), GoInv(f)
  PROVE  ProgramInv(f)'
<1> SUFFICES ASSUME Early(f)'
             PROVE  ProgramInv(f)'
  BY DEF ProgramInv
<1>0. /\ RoleInv(f) /\ View(f) /\ PlaceInv /\ DataInv /\ DataInv' /\ InitStarted \in Stops
      /\ Stops \cap Phases = {} /\ Stops \subseteq Labels /\ Phases \subseteq Labels
      /\ \A i \in 1..3 : Startup[i] \in Labels
      /\ MtrRun \in Labels /\ InitStarted \in Labels
  BY BaseFacts, BaseStep, Names, InGroup DEF Base, Stops, Main
<1>1. ASSUME NEW l \in Labels, life[f] = "in", Proved!Arrived(f, l)', ~Proved!Arrived(f, l)
      PROVE  /\ pc'[f] = pc[f]
             /\ \/ pc[f] = l /\ waiting'[f]
                \/ pc[f] = "phases" /\ l \in Phases
  <2>1. round'[l] <= 1
    BY PointsStep DEF PointsInv
  <2> QED BY <1>1, <2>1, ArrivesBy DEF Early
<1>2. ASSUME NEW l \in Labels, life[f] = "in"
      PROVE  /\ state[f][l] = "SYNCHRONIZED" => state'[f][l] = "SYNCHRONIZED"
             /\ Proved!Seen(f, l) => Proved!Seen(f, l)'
  BY <1>2, PointKept DEF Early
<1>3. known'[f] \subseteq Objects
  BY <1>0 DEF DataInv
<1>4. CASE Sits(f)
  <2>1. Early(f) /\ pc'[f] = pc[f] /\ Rank(pc[f]) > 0
    BY <1>0, <1>4 DEF Sits, Early, RoleInv, EarlyPlaces
  <2> DEFINE r == Rank(pc[f])
  <2>2. ASSUME NEW l \in Stops
        PROVE  /\ Proved!Arrived(f, l)' => r > Rank(l) \/ (pc'[f] = l /\ waiting'[f])
               /\ r > Rank(l) => state'[f][l] = "SYNCHRONIZED"
    BY <1>0, <1>1, <1>2, <1>4, <2>1 DEF ProgramInv, Early, Sits
  <2>3. ASSUME NEW l \in Phases
        PROVE  /\ Proved!Arrived(f, l)' => r >= 10
               /\ r > 10 => state'[f][l] = "SYNCHRONIZED"
    <3>1. Rank(l) = 0 /\ l \in Labels /\ Rank("phases") = 10
      BY <1>0, NoRank, Ranks
    <3>2. Proved!Arrived(f, l)' => Proved!Arrived(f, l) \/ r = 10
      BY <1>1, <2>1, <3>1 DEF Early
    <3> QED BY <1>2, <2>1, <3>1, <3>2 DEF ProgramInv, Early
  <2>4. /\ r > 2 => \A i \in 1..3 : Proved!Seen(f, Startup[i])'
        /\ r > 15 => Proved!Seen(f, MtrRun)'
        /\ f # Master => Proved!Seen(f, InitStarted)'
    BY <1>0, <1>2, <2>1 DEF ProgramInv, Early
  <2>5. /\ r > 4 => known'[f] = Objects
        /\ r <= 2 => subscribed'[f] = {} /\ known'[f] = {}
    BY <1>3, <1>4, <2>1 DEF ProgramInv, Sits
  <2> QED BY <2>1, <2>2, <2>3, <2>4, <2>5 DEF ProgramInv
<1>5. CASE Determines(f)
  <2>1. /\ UNCHANGED <<state, busy, subscribed, known, life>> /\ late[f] = "undetermined"
        /\ subscribed[f] = {} /\ known[f] = {}
        /\ Rank(pc'[f]) \in {1, 2} /\ (f # Master => Announced(f, InitStarted))
    BY <1>0, <1>5, Ranks DEF Determines, syncVars, dataVars, RoleInv, Early
  <2>2. \A l \in Labels : ~Proved!Arrived(f, l)'
    BY <1>5, <2>1 DEF AchievedInv, Determines, Proved!Arrived, Proved!Held
  <2> QED BY <1>0, <2>1, <2>2, Ranks DEF ProgramInv, Stops, Proved!Seen, Announced, Is
<1>6. CASE Walks(f)
  <2>1. /\ UNCHANGED <<state, busy, life>> /\ Early(f) /\ EarlyEdge(f, pc[f], pc'[f])
        /\ late[f] = "early"
    BY <1>6 DEF Walks, syncVars, Early
  <2>2. pc[f] = "go" /\ f # Master => Head(queue[f]["ExCO"]) = "to_run"
    <3>1. ASSUME pc[f] = "go", f # Master
          PROVE  queue[f]["ExCO"] # <<>>
      BY <2>1, <3>1 DEF EarlyEdge, Stops, ObjectsDiscovered, RootFrameDiscovered, InitStarted, MtrRun
    <3> QED BY <2>1, <3>1 DEF GoInv
  <2> DEFINE r == Rank(pc[f])
             q == Rank(pc'[f])
  <2>3. /\ q > r /\ r \in 0..17 /\ q \in 0..17 /\ \A l \in Stops : Rank(l) \in 0..17
        /\ pc[f] = "register" \/ r > 1
    BY <2>1, EdgeRanks, NoRank
  <2>4. /\ \A l \in Stops : r <= Rank(l) /\ Rank(l) < q => pc[f] = l /\ Is(f, l, "SYNCHRONIZED")
        /\ r <= 10 /\ q > 10 => \A l \in Phases : Is(f, l, "SYNCHRONIZED")
        /\ r <= 2 /\ q > 2 => \A i \in 1..3 : Announced(f, Startup[i])
        /\ r <= 15 /\ q > 15 => Announced(f, MtrRun)
        /\ r <= 4 /\ q > 4 => \A o \in Objects : o \in known[f]
    BY <2>1, <2>2, EdgeSteps
  <2>5. known[f] \subseteq known'[f]
        /\ (q <= 2 => known'[f] = known[f] /\ subscribed'[f] = subscribed[f])
    BY <1>6, <2>3, Ranks DEF Walks
  <2>6. \A l \in Labels : Proved!Arrived(f, l)' <=> Proved!Arrived(f, l)
    BY <2>1 DEF Proved!Arrived, Proved!Held
  <2>7. ASSUME NEW l \in Stops
        PROVE  /\ Proved!Arrived(f, l)' => q > Rank(l)
               /\ q > Rank(l) => state'[f][l] = "SYNCHRONIZED"
    BY <1>0, <2>1, <2>3, <2>4, <2>6 DEF ProgramInv, Is
  <2>8. ASSUME NEW l \in Phases
        PROVE  /\ Proved!Arrived(f, l)' => q >= 10
               /\ q > 10 => state'[f][l] = "SYNCHRONIZED"
    BY <1>0, <2>1, <2>3, <2>4, <2>6 DEF ProgramInv, Is
  <2>9. /\ q > 2 => \A i \in 1..3 : Proved!Seen(f, Startup[i])'
        /\ q > 15 => Proved!Seen(f, MtrRun)'
        /\ f # Master => Proved!Seen(f, InitStarted)'
    <3>1. \A l \in Labels : /\ Announced(f, l) => Proved!Seen(f, l)'
                            /\ Proved!Seen(f, l) => Proved!Seen(f, l)'
      BY <2>1 DEF Proved!Seen, Announced, Is
    <3>2. ASSUME q > 2, NEW i \in 1..3
          PROVE  Proved!Seen(f, Startup[i])'
      <4>1. Startup[i] \in Labels
        BY <1>0
      <4>2. CASE r > 2
        BY <2>1, <3>1, <4>1, <4>2 DEF ProgramInv
      <4>3. CASE r <= 2
        BY <2>4, <3>1, <3>2, <4>1, <4>3
      <4> QED BY <2>3, <4>2, <4>3
    <3>3. q > 15 => Proved!Seen(f, MtrRun)'
      BY <1>0, <2>1, <2>3, <2>4, <3>1 DEF ProgramInv
    <3>4. f # Master => Proved!Seen(f, InitStarted)'
      BY <1>0, <2>1, <3>1 DEF ProgramInv
    <3> QED BY <3>2, <3>3, <3>4
  <2>10. /\ q > 4 => known'[f] = Objects
         /\ q <= 2 => subscribed'[f] = {} /\ known'[f] = {}
    <3>1. q > 4 => \A o \in Objects : o \in known[f]
      BY <2>1, <2>3, <2>4 DEF ProgramInv
    <3>2. q > 4 => known'[f] = Objects
      BY <1>3, <2>5, <3>1
    <3>3. q <= 2 => r <= 2
      BY <2>3
    <3> QED BY <2>1, <2>5, <3>2, <3>3 DEF ProgramInv
  <2> QED BY <2>7, <2>8, <2>9, <2>10 DEF ProgramInv
<1>7. CASE Calls(f)
  <2>1. /\ Early(f) /\ pc'[f] # pc[f] /\ known'[f] = known[f] /\ f = Master
        /\ \/ Rank(pc[f]) = 12 /\ Rank(pc'[f]) = 13
           \/ Rank(pc[f]) = 14 /\ Rank(pc'[f]) = 15
    BY <1>7, Ranks DEF Calls, Early
  <2>2. \A l \in Labels : Proved!Arrived(f, l)' => Proved!Arrived(f, l)
    BY <1>1, <2>1 DEF Early
  <2>3. ASSUME NEW l \in Stops
        PROVE  /\ Proved!Arrived(f, l)' => Rank(pc'[f]) > Rank(l)
               /\ Rank(pc'[f]) > Rank(l) => state'[f][l] = "SYNCHRONIZED"
    <3>1. Rank(l) \in {5, 9, 11, 16} /\ (pc[f] = l => Rank(pc[f]) = Rank(l))
      BY Ranks DEF Stops
    <3> QED BY <1>0, <1>2, <2>1, <2>2, <3>1 DEF ProgramInv, Early
  <2>4. ASSUME NEW l \in Phases
        PROVE  state'[f][l] = "SYNCHRONIZED"
    BY <1>0, <1>2, <2>1 DEF ProgramInv, Early
  <2>5. \A i \in 1..3 : Proved!Seen(f, Startup[i])'
    BY <1>0, <1>2, <2>1 DEF ProgramInv, Early
  <2>6. known'[f] = Objects
    BY <2>1 DEF ProgramInv
  <2> QED BY <2>1, <2>3, <2>4, <2>5, <2>6 DEF ProgramInv
<1> QED BY <1>0, <1>4, <1>5, <1>6, <1>7 DEF View, Comes, Ends, WalksLate, Early, RoleInv

-----------------------------------------------------------------------------
(* Whom the federation waits for, and what is over by then.                *)

\* What the state of a point says to a federate that is in no call of it.
LEMMA PointFacts ==
  ASSUME Base, PointsInv, NEW f \in Federates, life[f] = "in", NEW l \in Labels
  PROVE  /\ Announced(f, l) /\ busy[f] = Proved!NoCall => Proved!Awaited(f, l)
         /\ Proved!Seen(f, l) /\ ~Proved!Arrived(f, l) =>
              Proved!Awaited(f, l) /\ Proved!Accepts(f, l, inbox)
         /\ Proved!Awaited(f, l) => Proved!Active(l) /\ round[l] = 1
         /\ state[f][l] = "SYNCHRONIZED" => ~Proved!Active(l)
<1>1. /\ Proved!MemberInv(f, l) /\ Proved!RtiInv /\ round[l] \in {0, 1}
      /\ Proved!Once(f, l)
  BY DEF Base, Inv, Proved!IndInv, Proved!In, Proved!TypeOK, Proved!OnceInv, PointsInv
<1>2. Announced(f, l) /\ busy[f] = Proved!NoCall => Proved!Awaited(f, l)
  BY <1>1, Differ DEF Announced, Is, Proved!MemberInv
<1>3. Proved!Seen(f, l) /\ ~Proved!Arrived(f, l) =>
        Proved!Awaited(f, l) /\ Proved!Accepts(f, l, inbox)
  BY <1>1 DEF Proved!Seen, Proved!Arrived, Proved!Held, Proved!MemberInv, Proved!Accepts,
     Proved!Awaited, Proved!Pending
<1>4. Proved!Awaited(f, l) => Proved!Active(l) /\ round[l] = 1
  BY <1>1 DEF Proved!Awaited, Proved!Active, Proved!RtiInv
<1>5. state[f][l] = "SYNCHRONIZED" => ~Proved!Active(l)
  BY <1>1 DEF Proved!Once
<1> QED BY <1>2, <1>3, <1>4, <1>5

\* A point that an early joiner is past is over.
LEMMA PastIsOver ==
  ASSUME Base, PointsInv, NEW f \in Federates, ProgramInv(f), Early(f),
         NEW l \in Stops, round[l] = 1, Rank(pc[f]) > Rank(l)
  PROVE  Proved!Over(l)
<1>1. l \in Labels
  BY InGroup
<1>2. state[f][l] = "SYNCHRONIZED"
  BY DEF ProgramInv
<1> QED BY <1>1, <1>2, PointFacts DEF Early, Proved!Over

\* Everybody registered for is waited for, the master always; the startup is
\* over when its end is registered, and run is not, but for those.
CountInv ==
  /\ \A l \in Labels : round[l] = 1 /\ life[Master] = "in" => Proved!Counted(Master, l)
  /\ round[InitCompleted] = 1 \/ round[MtrRun] = 1 => Proved!Over(InitStarted)
  /\ \A f \in Federates : Early(f) /\ round[MtrRun] = 1 => Proved!Counted(f, MtrRun)

\* What a step registers, or that it registers nothing.
LEMMA Rounds ==
  ASSUME Base, PointsInv, [Next]_vars, NEW l \in Labels, round'[l] = 1, round[l] # 1
  PROVE  \E set \in SUBSET Federates, all \in BOOLEAN : Registers(l, set, all)
<1>1. PICK k \in Labels, set \in SUBSET Federates, all \in BOOLEAN : Registers(k, set, all)
  BY RoundStep DEF Base
<1>2. round \in [Labels -> Nat]
  BY BaseFacts
<1>3. k = l
  BY <1>1, <1>2 DEF Registers
<1> QED BY <1>1, <1>3

LEMMA CountStep ==
  ASSUME Base, PointsInv, CountInv, ProgramInv(Master), [Next]_vars
  PROVE  CountInv'
<1>0. /\ Master \in Federates /\ RoleInv(Master) /\ View(Master) /\ PlaceInv
      /\ \A l \in Labels : round[l] \in {0, 1} /\ round'[l] <= 1
      /\ InitCompleted \in Labels /\ MtrRun \in Labels /\ InitStarted \in Labels
      /\ InitStarted \in Group /\ InitStarted \in Stops /\ MtrRun \notin Group
      /\ InitCompleted \notin Group
  BY BaseFacts, PointsStep, InGroup DEF PointsInv, Stops
<1>1. ASSUME NEW l \in Labels, round'[l] = 1, life'[Master] = "in"
      PROVE  Proved!Counted(Master, l)'
  <2>1. CASE round[l] = 1
    <3>1. late[Master] # "undetermined"
      BY <2>1 DEF PointsInv
    <3>2. life[Master] = "in"
      BY <1>0, <1>1, <3>1 DEF RoleInv, View, Sits, Comes, Ends, Determines, Walks, WalksLate, Calls
    <3> QED BY <1>0, <1>1, <2>1, <3>2, PointKept DEF CountInv
  <2>2. CASE round[l] # 1
    BY <1>1, <2>2, Rounds DEF Registers, Proved!Counted
  <2> QED BY <2>1, <2>2
<1>2. ASSUME round'[InitCompleted] = 1 \/ round'[MtrRun] = 1
      PROVE  Proved!Over(InitStarted)'
  <2>1. Proved!Over(InitStarted)
    <3>1. CASE round[InitCompleted] = 1 \/ round[MtrRun] = 1
      BY <3>1 DEF CountInv
    <3>2. CASE ~(round[InitCompleted] = 1 \/ round[MtrRun] = 1)
      <4>1. PICK l \in {InitCompleted, MtrRun}, set \in SUBSET Federates, all \in BOOLEAN :
              Registers(l, set, all)
        BY <1>0, <1>2, <3>2, Rounds
      <4>2. Early(Master) /\ pc[Master] \in {"complete", "register_run"}
        BY <1>0, <4>1 DEF Registers
      <4>3. Rank(pc[Master]) \in {12, 14} /\ Rank(InitStarted) = 11
        BY <4>2, Ranks
      <4>4. round[InitStarted] = 1
        BY <1>0, <4>2, <4>3 DEF PointsInv
      <4> QED BY <1>0, <4>2, <4>3, <4>4, PastIsOver
    <3> QED BY <3>1, <3>2
  <2> QED BY <1>0, <2>1, BaseFacts, Proved!StaysOver
<1>3. ASSUME NEW f \in Federates, Early(f)', round'[MtrRun] = 1
      PROVE  Proved!Counted(f, MtrRun)'
  <2>0. RoleInv(f) /\ View(f)
    BY BaseFacts
  <2>1. CASE round[MtrRun] = 1 /\ Early(f)
    BY <1>0, <1>3, <2>1, PointKept DEF CountInv, Early
  <2>2. CASE round[MtrRun] = 1 /\ ~Early(f)
    <3>1. Determines(f) /\ f # Master /\ Announced(f, InitStarted)
      BY <1>0, <1>3, <2>0, <2>2
         DEF RoleInv, View, Sits, Comes, Ends, Determines, Walks, WalksLate, Calls, Early,
             PointsInv, syncVars
    <3>2. Proved!Active(InitStarted)
      BY <1>0, <3>1, PointFacts DEF Determines
    <3> QED BY <2>2, <3>2 DEF CountInv, Proved!Over
  <2>3. CASE round[MtrRun] # 1
    <3>1. PICK set \in SUBSET Federates, all \in BOOLEAN : Registers(MtrRun, set, all)
      BY <1>0, <1>3, <2>3, Rounds
    <3>2. set = Proved!In /\ life' = life
      BY <1>0, <3>1, InGroup DEF Registers
    <3>3. f \in set
      BY <1>3, <3>2 DEF Early, Proved!In
    <3> QED BY <3>1, <3>3 DEF Registers, Proved!Counted
  <2> QED BY <2>1, <2>2, <2>3
<1> QED BY <1>1, <1>2, <1>3 DEF CountInv

-----------------------------------------------------------------------------
(* The ExCO: when it is registered, and the updates on their way.          *)

\* The ExCO is there when the master has registered it; it does not end then.
ExCOInv == "ExCO" \in registered => Early(Master) /\ Rank(pc[Master]) >= 4

\* A late joiner comes when the startup of the others is over, and is sent no
\* update of it.
LateInv(f) == life[f] = "in" /\ late[f] = "late" =>
  /\ round[InitCompleted] = 1
  /\ \A i \in 1..Len(queue[f]["ExCO"]) : queue[f]["ExCO"][i] # "initializing"

\* Objects are registered by their owners when they subscribe.
LEMMA RegisteredStep ==
  ASSUME [Next]_vars, registered' # registered
  PROVE  \E g \in Federates : Subscribe(g)
<1>1. CASE UNCHANGED vars
  BY <1>1 DEF vars, dataVars
<1>2. ASSUME NEW f \in Federates, NEW l \in Labels, Served(f, l)
      PROVE  FALSE
  BY <1>2, ServedQuiet DEF dataVars
<1>3. ASSUME NEW f \in Federates, Join(f) \/ Lose(f)
      PROVE  FALSE
  BY <1>3 DEF Join, Lose, LeaveFor, dataVars
<1>4. ASSUME NEW f \in Federates, MainStep(f)
      PROVE  Subscribe(f)
  BY <1>4 DEF MainStep, Epoch, RootFrame, Frame, Go, LateUpdate, Exchange, LateSubscribe,
     LateRequest, Determine, Designate, AwaitCompleted, AwaitAnnounced, ObjectsRegistered,
     Achieve, Terminate, LeaveFor, Synchronized, AchievePhase, PhasesDone, AwaitRun, dataVars
<1>5. ASSUME NEW f \in Federates, NEW o \in Objects, Discover(f, o)
      PROVE  FALSE
  BY <1>5 DEF Discover
<1>6. ASSUME MasterStep
      PROVE  FALSE
  BY <1>6 DEF MasterStep, Master_Determine, Master_Register, Terminate, LeaveFor,
     Master_Registered, Master_Complete, Master_RegisterRun, Master_Go, Master_Provide,
     Exchange, dataVars
<1> QED BY <1>1, <1>2, <1>3, <1>4, <1>5, <1>6 DEF Next, Served

LEMMA ExCOStep ==
  ASSUME Base, PointsInv, ExCOInv, ProgramInv(Master), [Next]_vars
  PROVE  ExCOInv'
<1>0. /\ Master \in Federates /\ RoleInv(Master) /\ View(Master) /\ PlaceInv /\ MasterInv
      /\ Master \notin Lossy
  BY BaseFacts, StartupAssumption
<1>1. CASE "ExCO" \in registered
  <2>1. Early(Master) /\ Rank(pc[Master]) >= 4
    BY <1>1 DEF ExCOInv
  <2>2. ~Ends(Master)
    <3> SUFFICES ASSUME Ends(Master)
                 PROVE  FALSE
      OBVIOUS
    <3>1. Refused(Master)
      BY <1>0, <2>1, Ranks DEF Ends
    <3>2. pc[Master] \in Stops
      BY <2>1, <3>1, NoRank, Names DEF Refused, Stops, Main
    <3>3. Proved!Seen(Master, pc[Master])
      <4>1. CASE pc[Master] = MtrRun
        BY <2>1, <4>1, Ranks DEF ProgramInv
      <4>2. CASE pc[Master] # MtrRun
        <5>1. \A i \in 1..3 : Proved!Seen(Master, Startup[i])
          BY <2>1, NoRank DEF ProgramInv
        <5>2. /\ Proved!Seen(Master, Startup[1]) /\ Proved!Seen(Master, Startup[2])
              /\ Proved!Seen(Master, Startup[3])
          BY <5>1
        <5> QED BY <3>2, <4>2, <5>2, InGroup DEF Stops
      <4> QED BY <4>1, <4>2
    <3>4. ~Proved!Arrived(Master, pc[Master])
      <4>1. ~(Rank(pc[Master]) > Rank(pc[Master]))
        BY NoRank
      <4> QED BY <2>1, <3>1, <3>2, <4>1 DEF ProgramInv, Refused
    <3> QED BY <1>0, <2>1, <3>1, <3>3, <3>4, PointFacts DEF Early, Refused
  <2>3. CASE Sits(Master) \/ Calls(Master)
    BY <2>1, <2>3, Ranks DEF Sits, Calls, Early, ExCOInv
  <2>4. CASE Walks(Master)
    <3>1. Rank(pc'[Master]) > Rank(pc[Master]) /\ Early(Master)'
      BY <2>4, EdgeRanks DEF Walks, Early, syncVars
    <3> QED BY <2>1, <3>1, NoRank DEF ExCOInv
  <2> QED BY <1>0, <2>1, <2>2, <2>3, <2>4, Ranks
          DEF View, Comes, Determines, WalksLate, Early, RoleInv
<1>2. CASE "ExCO" \notin registered
  <2> SUFFICES ASSUME "ExCO" \in registered'
               PROVE  Early(Master)' /\ Rank(pc'[Master]) >= 4
    BY DEF ExCOInv
  <2>1. PICK g \in Federates : Subscribe(g)
    BY <1>2, RegisteredStep
  <2>2. "ExCO" \in Owned(g)
    BY <1>2, <2>1 DEF Subscribe
  <2>3. g = Master
    BY <2>2 DEF Owned, Owner
  <2>4. /\ pc' = [pc EXCEPT ![Master] = "objects"] /\ late' = late /\ life' = life
        /\ life[Master] = "in" /\ pc[Master] \in {"subscribe", "late_objects"}
    BY <2>1, <2>3 DEF Subscribe, Goto, SP!Free, roleVars, syncVars
  <2>5. late[Master] = "early"
    BY <1>0, <2>4 DEF MasterInv, Ended, BeforeRun, BeforeCompleted
  <2> QED BY <1>0, <2>4, <2>5, Ranks DEF Early, PlaceInv
<1> QED BY <1>1, <1>2

\* What a step is to the updates of the ExCO on their way to f: none moves,
Sending == {"epoch", "frame", "go"}
Rests(f) ==
  /\ queue'[f]["ExCO"] = queue[f]["ExCO"]
  /\ \A g \in {f, Master} : pc'[g] = pc[g] \/ pc[g] \notin Sending \/ life'[g] = "gone"

\* f takes the first,
Takes(f) ==
  /\ queue[f]["ExCO"] # <<>> /\ queue'[f]["ExCO"] = Tail(queue[f]["ExCO"])
  /\ pc'[Master] = pc[Master] /\ UNCHANGED <<life, late>>
  /\ \/ pc[f] = "epoch" /\ pc'[f] = "root"
     \/ pc[f] = "frame" /\ pc'[f] = RootFrameDiscovered
     \/ pc[f] = "go" /\ pc'[f] \in {"await_run", "running"}
     \/ pc[f] = "late_update"

\* or the master sends m, and goes from a to b.
Sends(f, a, b, m) ==
  /\ pc[Master] = a /\ pc'[Master] = b /\ pc'[f] = pc[f] /\ UNCHANGED <<life, late, known>>
  /\ queue'[f]["ExCO"] = IF "ExCO" \in known[f] THEN Append(queue[f]["ExCO"], m)
                                                ELSE queue[f]["ExCO"]
SendsOne(f) ==
  \/ Sends(f, "epoch", "root", "initializing")
  \/ Sends(f, "frame", RootFrameDiscovered, "initializing")
  \/ Sends(f, "go", "register_run", "to_run")
  \/ Sends(f, "running", "running", "running")

LEMMA ReflectedTo ==
  ASSUME DataInv, NEW o \in Objects, NEW m \in Modes, NEW f \in Federates,
         queue' = Reflected(o, m)
  PROVE  queue'[f]["ExCO"] = IF o = "ExCO" /\ f # Master /\ "ExCO" \in known[f]
                               THEN Append(queue[f]["ExCO"], m) ELSE queue[f]["ExCO"]
<1>1. queue[f] \in [Objects -> Seq(Modes)] /\ "ExCO" \in Objects
  BY DEF DataInv, Objects
<1>2. queue'[f] = IF f # Owner[o] /\ HasInstance(f, o)
                    THEN [queue[f] EXCEPT ![o] = Append(queue[f][o], m)] ELSE queue[f]
  BY DEF Reflected
<1>3. o = "ExCO" => Owner[o] = Master
  BY DEF Owner
<1> QED BY <1>1, <1>2, <1>3 DEF HasInstance

LEMMA ReceivedBy ==
  ASSUME DataInv, NEW o \in Objects, NEW g \in Federates, NEW f \in Federates, Received(g, o)
  PROVE  /\ ~(g = f /\ o = "ExCO") => queue'[f]["ExCO"] = queue[f]["ExCO"]
         /\ g = f /\ o = "ExCO" => queue[f]["ExCO"] # <<>>
                                   /\ queue'[f]["ExCO"] = Tail(queue[f]["ExCO"])
BY DEF Received, DataInv, Objects

LEMMA QueueMoves ==
  ASSUME Base, [Next]_vars, NEW f \in Federates \ {Master}
  PROVE  Rests(f) \/ Takes(f) \/ SendsOne(f)
<1>0. /\ PlaceInv /\ DataInv /\ Master \in Federates /\ "ExCO" \in Objects
      /\ "RootFrame" \in Objects /\ {"initializing", "to_run", "running"} \subseteq Modes
      /\ Owner["ExCO"] = Master /\ "ExCO" # "RootFrame" /\ DOMAIN pc = Federates
  BY BaseFacts DEF Objects, Modes, Owner, PlaceInv
<1>1. CASE UNCHANGED vars
  BY <1>1 DEF vars, dataVars, Rests
<1>2. ASSUME NEW g \in Federates, NEW l \in Labels, Served(g, l)
      PROVE  Rests(f)
  BY <1>2, ServedQuiet DEF dataVars, Rests
<1>3. ASSUME NEW g \in Federates, NEW place \in Ended, LeaveFor(g, place)
      PROVE  Rests(f)
  BY <1>0, <1>3, BaseFacts DEF LeaveFor, SP!Leave, dataVars, Rests
<1>4. ASSUME NEW g \in Federates, Join(g) \/ Lose(g)
      PROVE  Rests(f)
  <2>1. CASE Lose(g)
    BY <1>3, <2>1 DEF Lose, Ended
  <2>2. CASE Join(g)
    <3>1. pc[g] = "out" /\ queue' = queue /\ pc' = [pc EXCEPT ![g] = "role"]
      BY <1>0, <2>2 DEF Join, SP!Join, PlaceInv, dataVars
    <3> QED BY <1>0, <3>1 DEF Rests, Sending
  <2> QED BY <1>4, <2>1, <2>2
<1>5. ASSUME NEW g \in Federates, MainStep(g)
      PROVE  Rests(f) \/ Takes(f) \/ SendsOne(f)
  <2>1. ASSUME NEW a, NEW b, NEW m \in Modes, pc[g] = a, pc' = [pc EXCEPT ![g] = b],
               Exchange(g, "ExCO", m),
               \/ a = "epoch" /\ b = "root" /\ m = "initializing"
               \/ a = "frame" /\ b = RootFrameDiscovered /\ m = "initializing"
               \/ a = "go" /\ b \in {"await_run", "running"} /\ g # Master
               \/ a = "late_update" /\ g # Master
        PROVE  Rests(f) \/ Takes(f) \/ SendsOne(f)
    <3>0. UNCHANGED <<life, late, known>>
      BY <2>1 DEF Exchange, syncVars, roleVars
    <3>1. CASE g = Master
      <4>1. queue' = Reflected("ExCO", m)
        BY <1>0, <2>1, <3>1 DEF Exchange
      <4>2. queue'[f]["ExCO"] = IF "ExCO" \in known[f] THEN Append(queue[f]["ExCO"], m)
                                                       ELSE queue[f]["ExCO"]
        BY <1>0, <4>1, ReflectedTo
      <4> QED BY <1>0, <2>1, <3>0, <3>1, <4>2 DEF SendsOne, Sends
    <3>2. CASE g # Master
      <4>1. Received(g, "ExCO")
        BY <1>0, <2>1, <3>2 DEF Exchange
      <4>2. CASE g = f
        BY <1>0, <2>1, <3>0, <3>2, <4>1, <4>2, ReceivedBy DEF Takes
      <4>3. CASE g # f
        BY <1>0, <2>1, <3>2, <4>1, <4>3, ReceivedBy DEF Rests
      <4> QED BY <4>2, <4>3
    <3> QED BY <3>1, <3>2
  <2>2. ASSUME NEW a, NEW b, pc[g] = a, pc' = [pc EXCEPT ![g] = b], a \notin Sending,
               queue'[f]["ExCO"] = queue[f]["ExCO"]
        PROVE  Rests(f)
    BY <1>0, <2>2 DEF Rests
  <2>3. CASE Epoch(g) \/ Frame(g)
    BY <1>0, <2>1, <2>3 DEF Epoch, Frame, Goto
  <2>4. CASE Go(g)
    BY <1>0, <2>1, <2>4 DEF Go, Goto
  <2>5. CASE LateUpdate(g)
    <3>1. g # Master
      BY <2>5, BaseFacts
         DEF LateUpdate, MasterInv, BeforeRun, BeforeCompleted, Ended, ObjectsDiscovered,
             RootFrameDiscovered, InitStarted, MtrRun
    <3> QED BY <1>0, <2>1, <2>5, <3>1 DEF LateUpdate, Goto
  <2>6. CASE RootFrame(g)
    <3>1. queue'[f]["ExCO"] = queue[f]["ExCO"]
      BY <1>0, <2>6, ReflectedTo, ReceivedBy DEF RootFrame, Exchange
    <3> QED BY <2>2, <2>6, <3>1 DEF RootFrame, Goto, Sending
  <2>7. CASE Synchronized(g)
    <3>1. PICK l \in Labels : pc[g] = l /\ pc' = [pc EXCEPT ![g] = After(g, l)] /\ queue' = queue
      BY <2>7 DEF Synchronized, Goto, dataVars
    <3>2. l \notin Sending
      BY Names DEF Steps, Sending
    <3> QED BY <2>2, <3>1, <3>2
  <2>8. CASE \/ Determine(g) \/ Designate(g) \/ AwaitCompleted(g) \/ AwaitAnnounced(g)
             \/ Subscribe(g) \/ ObjectsRegistered(g) \/ PhasesDone(g) \/ AwaitRun(g)
             \/ LateSubscribe(g) \/ LateRequest(g)
    <3>1. /\ queue' = queue /\ pc[g] \notin Sending /\ \E b : pc' = [pc EXCEPT ![g] = b]
      BY <2>8 DEF Determine, Designate, AwaitCompleted, AwaitAnnounced, Subscribe,
         ObjectsRegistered, PhasesDone, AwaitRun, LateSubscribe, LateRequest, Goto, Sending,
         dataVars
    <3> QED BY <2>2, <3>1
  <2>9. CASE Achieve(g) \/ \E l \in Phases : AchievePhase(g, l)
    <3>1. CASE Terminate(g)
      BY <1>3, <3>1 DEF Terminate, Ended
    <3>2. CASE ~Terminate(g)
      BY <2>9, <3>2 DEF Achieve, AchievePhase, dataVars, Rests
    <3> QED BY <3>1, <3>2
  <2> QED BY <1>5, <2>3, <2>4, <2>5, <2>6, <2>7, <2>8, <2>9 DEF MainStep
<1>6. ASSUME NEW g \in Federates, NEW o \in Objects, Discover(g, o)
      PROVE  Rests(f)
  BY <1>6 DEF Discover, Rests
<1>7. CASE MasterStep
  <2>1. CASE Master_Go
    <3>1. queue' = Reflected("ExCO", "to_run")
      BY <1>0, <2>1 DEF Master_Go, Exchange
    <3> QED BY <1>0, <2>1, <3>1, ReflectedTo
            DEF Master_Go, Goto, Exchange, SendsOne, Sends, syncVars, roleVars
  <2>2. CASE Master_Provide
    BY <1>0, <2>2, ReflectedTo DEF Master_Provide, Goto, SendsOne, Sends, syncVars, roleVars
  <2>3. CASE Master_Determine \/ Master_Registered \/ Master_Complete \/ Master_RegisterRun
    <3>1. /\ queue' = queue /\ pc[Master] \notin Sending
          /\ \E b : pc' = [pc EXCEPT ![Master] = b]
      BY <2>3 DEF Master_Determine, Master_Registered, Master_Complete, Master_RegisterRun,
         Goto, Sending, dataVars
    <3> QED BY <1>0, <3>1 DEF Rests
  <2>4. ASSUME NEW l \in Labels, Master_Register(l)
        PROVE  Rests(f)
    <3>1. CASE Terminate(Master)
      BY <1>0, <1>3, <3>1 DEF Terminate, Ended
    <3>2. CASE ~Terminate(Master)
      BY <2>4, <3>2 DEF Master_Register, dataVars, Rests
    <3> QED BY <3>1, <3>2
  <2> QED BY <1>7, <2>1, <2>2, <2>3, <2>4 DEF MasterStep
<1> QED BY <1>1, <1>2, <1>4, <1>5, <1>6, <1>7 DEF Next, Served

LEMMA RoundKept ==
  ASSUME Base, PointsInv, [Next]_vars, NEW l \in Labels, round[l] = 1
  PROVE  round'[l] = 1
<1>1. \/ round' = round
      \/ \E k \in Labels, set \in SUBSET Federates, all \in BOOLEAN : Registers(k, set, all)
  BY RoundStep DEF Base
<1>2. round \in [Labels -> Nat]
  BY BaseFacts
<1> QED BY <1>1, <1>2 DEF Registers

\* Where the master sends from, the point of the objects is over; and where it
\* sends an update of the startup, the startup is not.
LEMMA SentWhen ==
  ASSUME Base, PointsInv, CountInv, ProgramInv(Master), life[Master] = "in",
         Rank(pc[Master]) > 5
  PROVE  /\ Early(Master) /\ Proved!Over(ObjectsDiscovered)
         /\ Rank(pc[Master]) <= 10 =>
              round[InitCompleted] # 1 /\ ~Proved!Over(InitStarted)
<1>0. /\ Master \in Federates /\ MasterInv /\ PlaceInv /\ RoleInv(Master)
      /\ ObjectsDiscovered \in Stops /\ InitStarted \in Stops /\ InitStarted \in Labels
      /\ ObjectsDiscovered \in Group /\ InitStarted \in Group
      /\ Rank(ObjectsDiscovered) = 5 /\ Rank(InitStarted) = 11
  BY Names, InGroup, Ranks DEF Base, Inv, Stops
<1>1. Early(Master)
  <2>1. pc[Master] \notin {"out", "role"} \cup Ended
    <3> SUFFICES ASSUME pc[Master] \in {"out", "role"} \cup Ended
                 PROVE  FALSE
      OBVIOUS
    <3>1. Rank(pc[Master]) = 0
      BY NoRank
    <3> QED BY <3>1
  <2> QED BY <1>0, <2>1 DEF MasterInv, Early
<1>2. round[ObjectsDiscovered] = 1 /\ round[InitStarted] = 1
  <2>1. Rank(pc[Master]) > 1
    BY NoRank
  <2> QED BY <1>0, <1>1, <2>1 DEF PointsInv
<1>3. Proved!Over(ObjectsDiscovered)
  BY <1>0, <1>1, <1>2, PastIsOver
<1>4. ASSUME Rank(pc[Master]) <= 10, Proved!Over(InitStarted)
      PROVE  FALSE
  <2>1. Proved!Counted(Master, InitStarted)
    BY <1>0, <1>2 DEF CountInv
  <2>2. ~Proved!Awaited(Master, InitStarted)
    BY <1>4, PointFacts, <1>0 DEF Proved!Over
  <2>3. Proved!Arrived(Master, InitStarted)
    BY <2>1, <2>2 DEF Proved!Counted
  <2>4. ~(Rank(pc[Master]) > 11) /\ pc[Master] # InitStarted
    BY <1>0, <1>4, NoRank
  <2> QED BY <1>0, <1>1, <2>3, <2>4 DEF ProgramInv
<1>5. Rank(pc[Master]) <= 10 => round[InitCompleted] # 1
  BY <1>4 DEF CountInv
<1> QED BY <1>1, <1>3, <1>4, <1>5

LEMMA LateStep ==
  ASSUME Base, PointsInv, CountInv, ProgramInv(Master), [Next]_vars,
         NEW f \in Federates, LateInv(f)
  PROVE  LateInv(f)'
<1> SUFFICES ASSUME life'[f] = "in", late'[f] = "late"
             PROVE  /\ round'[InitCompleted] = 1
                    /\ \A i \in 1..Len(queue'[f]["ExCO"]) : queue'[f]["ExCO"][i] # "initializing"
  BY DEF LateInv
<1>0. /\ RoleInv(f) /\ View(f) /\ PlaceInv /\ DataInv /\ "ExCO" \in Objects
      /\ queue[f]["ExCO"] \in Seq(Modes) /\ InitCompleted \in Labels /\ PlaceInv
  BY BaseFacts, InGroup DEF DataInv, Objects
<1>1. f # Master
  <2>1. MasterInv' /\ RoleInv(f)' /\ PlaceInv'
    BY BaseStep DEF Base, Inv
  <2> QED BY <2>1 DEF MasterInv, RoleInv, PlaceInv
<1> DEFINE q == queue[f]["ExCO"]
<1>2. CASE life[f] = "in" /\ late[f] = "late"
  <2>1. round[InitCompleted] = 1 /\ \A i \in 1..Len(q) : q[i] # "initializing"
    BY <1>2 DEF LateInv
  <2>2. round'[InitCompleted] = 1
    BY <1>0, <2>1, RoundKept
  <2>3. CASE Rests(f)
    BY <2>1, <2>2, <2>3 DEF Rests
  <2>4. CASE Takes(f)
    <3>1. q # <<>> /\ queue'[f]["ExCO"] = Tail(q)
      BY <2>4 DEF Takes
    <3>2. \A i \in 1..Len(Tail(q)) : i + 1 \in 1..Len(q) /\ Tail(q)[i] = q[i + 1]
      BY <1>0, <3>1
    <3> QED BY <2>1, <2>2, <3>1, <3>2
  <2>5. ASSUME NEW a, NEW b, NEW m \in Modes \ {"initializing"}, Sends(f, a, b, m)
        PROVE  \A i \in 1..Len(queue'[f]["ExCO"]) : queue'[f]["ExCO"][i] # "initializing"
    <3>1. queue'[f]["ExCO"] = q \/ queue'[f]["ExCO"] = Append(q, m)
      BY <2>5 DEF Sends
    <3>2. /\ Len(Append(q, m)) = Len(q) + 1 /\ Append(q, m)[Len(q) + 1] = m
          /\ \A i \in 1..Len(q) : Append(q, m)[i] = q[i]
      BY <1>0
    <3>3. Len(q) \in Nat /\ m # "initializing"
      BY <1>0
    <3> DEFINE r == queue'[f]["ExCO"]
               n == Len(q)
    <3>4. r = q \/ r = Append(q, m)
      BY <3>1
    <3>5. n \in Nat /\ \A i \in 1..n : q[i] # "initializing"
      BY <2>1, <3>3
    <3>6. /\ Len(Append(q, m)) = n + 1 /\ Append(q, m)[n + 1] = m
          /\ \A i \in 1..n : Append(q, m)[i] = q[i]
      BY <3>2
    <3>7. n = Len(q)
      OBVIOUS
    <3> HIDE DEF q, r, n
    <3>8. \A i \in 1..n + 1 : i \in 1..n \/ i = n + 1
      BY <3>5
    <3>9. \A i \in 1..n + 1 : Append(q, m)[i] # "initializing"
      BY <3>3, <3>5, <3>6, <3>8
    <3>10. \A i \in 1..Len(r) : r[i] # "initializing"
      BY <3>4, <3>5, <3>6, <3>7, <3>9
    <3> QED BY <3>10 DEF r
  <2>6. ~Sends(f, "epoch", "root", "initializing")
        /\ ~Sends(f, "frame", RootFrameDiscovered, "initializing")
    <3> SUFFICES ASSUME pc[Master] \in {"epoch", "frame"}
                 PROVE  FALSE
      BY DEF Sends
    <3>1. Rank(pc[Master]) \in {6, 8}
      BY Ranks
    <3>2. life[Master] = "in"
      <4>1. pc[Master] # "out" /\ pc[Master] \notin Ended /\ Master \in Federates
        BY Names DEF Ended
      <4>2. life[Master] \in {"out", "in", "gone"}
        BY <4>1, BaseFacts
      <4> QED BY <1>0, <4>1, <4>2 DEF PlaceInv
    <3> QED BY <2>1, <3>1, <3>2, SentWhen
  <2>7. "to_run" \in Modes \ {"initializing"} /\ "running" \in Modes \ {"initializing"}
    BY DEF Modes
  <2> QED BY <1>1, <2>2, <2>3, <2>4, <2>5, <2>6, <2>7, QueueMoves DEF SendsOne
<1>3. CASE ~(life[f] = "in" /\ late[f] = "late")
  <2>1. Determines(f) /\ Announced(f, InitCompleted)
    BY <1>0, <1>1, <1>3
       DEF RoleInv, View, Sits, Comes, Ends, Determines, Walks, WalksLate, Calls, syncVars
  <2>2. round[InitCompleted] = 1
    BY <1>0, <2>1, PointFacts DEF Determines
  <2>3. q = <<>>
    BY <1>0, <2>1 DEF RoleInv, DataInv, Determines
  <2>4. queue' = queue /\ round' = round
    BY <2>1 DEF Determines, syncVars, dataVars
  <2> QED BY <2>2, <2>3, <2>4
<1> QED BY <1>2, <1>3

\* The n-th ExCO the master sends.
Mode(n) == IF n <= 2 THEN "initializing" ELSE IF n = 3 THEN "to_run" ELSE "running"

\* What an early joiner has taken and what is on its way to it are the updates
\* the master has sent, in order.
UpdatesInv(f) == Early(f) /\ f # Master /\ Rank(pc[f]) > 2 =>
  LET n == Exchanged(pc[f])
      q == queue[f]["ExCO"]
  IN  /\ \A i \in 1..Len(q) : q[i] = Mode(n + i)
      /\ pc[Master] = "running" => n + Len(q) >= 3
      /\ pc[Master] \notin {"running"} \cup Ended => n + Len(q) = Exchanged(pc[Master])

LEMMA ExchangedRank ==
  ASSUME NEW p
  PROVE  Exchanged(p) = IF Rank(p) <= 6 THEN 0 ELSE IF Rank(p) <= 8 THEN 1
                        ELSE IF Rank(p) <= 13 THEN 2 ELSE 3
<1>1. CASE p \in {"register", "announced", "subscribe", "objects", ObjectsDiscovered, "epoch",
                  "root", "frame", RootFrameDiscovered, "phases", InitStarted, "complete", "go",
                  "register_run", "await_run", MtrRun, "running"}
  BY <1>1, Ranks DEF Exchanged, ObjectsDiscovered, RootFrameDiscovered, InitStarted, MtrRun
<1>2. CASE p \notin {"register", "announced", "subscribe", "objects", ObjectsDiscovered, "epoch",
                  "root", "frame", RootFrameDiscovered, "phases", InitStarted, "complete", "go",
                  "register_run", "await_run", MtrRun, "running"}
  <2>1. Rank(p) = 0
    BY <1>2 DEF Rank
  <2>2. Exchanged(p) = 0
    BY <1>2 DEF Exchanged
  <2> QED BY <2>1, <2>2
<1> QED BY <1>1, <1>2

\* Whoever goes on without an ExCO has exchanged as many.
LEMMA EdgeExchanged ==
  ASSUME NEW f, NEW a, NEW b, EarlyEdge(f, a, b), late[f] = "early", a \notin Sending
  PROVE  /\ Exchanged(b) = Exchanged(a) /\ a # "running"
         /\ b = "running" => Exchanged(a) = 3
<1>1. CASE a \in Stops
  <2>1. b = After(f, a)
    BY <1>1 DEF EarlyEdge, Stops, ObjectsDiscovered, RootFrameDiscovered, InitStarted, MtrRun
  <2>2. \/ a = ObjectsDiscovered /\ b = "epoch"
        \/ a = RootFrameDiscovered /\ b = "phases"
        \/ a = InitStarted /\ b \in {"complete", "go"}
        \/ a = MtrRun /\ b = "running"
    BY <1>1, <2>1
       DEF After, Stops, ObjectsDiscovered, RootFrameDiscovered, InitStarted, MtrRun
  <2> QED BY <2>2
          DEF Exchanged, ObjectsDiscovered, RootFrameDiscovered, InitStarted, MtrRun
<1>2. CASE a \notin Stops
  BY <1>2
     DEF EarlyEdge, Sending, Exchanged, ObjectsDiscovered, RootFrameDiscovered, InitStarted, MtrRun
<1> QED BY <1>1, <1>2

\* The master where nothing is sent.
LEMMA MasterRests ==
  ASSUME Base, [Next]_vars, pc'[Master] = pc[Master] \/ pc[Master] \notin Sending
                            \/ life'[Master] = "gone"
  PROVE  \/ pc'[Master] \in Ended
         \/ /\ pc[Master] \notin Ended /\ Exchanged(pc'[Master]) = Exchanged(pc[Master])
            /\ pc'[Master] = "running" => pc[Master] = "running" \/ Exchanged(pc[Master]) = 3
            /\ pc[Master] = "running" => pc'[Master] = "running"
<1>0. /\ Master \in Federates /\ MasterInv /\ PlaceInv /\ PlaceInv' /\ RoleInv(Master)
      /\ View(Master)
  BY BaseFacts, BaseStep DEF Base
<1>1. CASE Sits(Master)
  BY <1>0, <1>1 DEF Sits, PlaceInv
<1>2. CASE Ends(Master)
  BY <1>0, <1>2 DEF Ends, PlaceInv
<1>3. CASE Comes(Master)
  <2>1. pc[Master] = "out" /\ pc'[Master] = "role"
    BY <1>0, <1>3 DEF Comes, PlaceInv
  <2> QED BY <2>1 DEF Exchanged, Ended, RootFrameDiscovered, InitStarted, MtrRun
<1>4. CASE Determines(Master)
  <2>1. pc[Master] = "role" /\ pc'[Master] = "register"
    BY <1>4 DEF Determines
  <2> QED BY <2>1 DEF Exchanged, Ended, RootFrameDiscovered, InitStarted, MtrRun
<1>5. CASE Walks(Master)
  <2>1. /\ EarlyEdge(Master, pc[Master], pc'[Master]) /\ late[Master] = "early"
        /\ life[Master] = "in" /\ life' = life
    BY <1>5 DEF Walks, syncVars
  <2>2. pc'[Master] # pc[Master]
    BY <2>1, EdgeRanks, NoRank
  <2> QED BY <1>0, <2>1, <2>2, EdgeExchanged DEF PlaceInv
<1>6. CASE WalksLate(Master)
  BY <1>0, <1>6 DEF WalksLate, MasterInv, RoleInv, PlaceInv
<1>7. CASE Calls(Master)
  BY <1>7 DEF Calls, Exchanged, Ended, RootFrameDiscovered, InitStarted, MtrRun
<1> QED BY <1>0, <1>1, <1>2, <1>3, <1>4, <1>5, <1>6, <1>7 DEF View

\* Nothing moves on the way to an early joiner.
LEMMA UpdatesRest ==
  ASSUME Base, [Next]_vars, NEW f \in Federates \ {Master}, UpdatesInv(f), Rests(f),
         Early(f), Rank(pc[f]) > 2, Early(f)'
  PROVE  UpdatesInv(f)'
<1>0. RoleInv(f) /\ View(f)
  BY BaseFacts
<1>1. Exchanged(pc'[f]) = Exchanged(pc[f])
  <2>1. Sits(f) \/ Walks(f)
    BY <1>0 DEF View, Comes, Ends, Determines, WalksLate, Calls, Early, RoleInv
  <2>2. CASE Sits(f)
    BY <2>2 DEF Sits
  <2>3. CASE Walks(f) /\ pc'[f] # pc[f]
    BY <2>3, EdgeExchanged DEF Walks, Rests, Early
  <2> QED BY <2>1, <2>2, <2>3
<1>2. \/ pc'[Master] \in Ended
      \/ /\ pc[Master] \notin Ended /\ Exchanged(pc'[Master]) = Exchanged(pc[Master])
         /\ pc'[Master] = "running" => pc[Master] = "running" \/ Exchanged(pc[Master]) = 3
         /\ pc[Master] = "running" => pc'[Master] = "running"
  BY MasterRests DEF Rests
<1>3. queue'[f]["ExCO"] = queue[f]["ExCO"] /\ "running" \notin Ended
  BY DEF Rests, Ended
<1> QED BY <1>1, <1>2, <1>3 DEF UpdatesInv, Early

LEMMA UpdatesTaken ==
  ASSUME Base, [Next]_vars, NEW f \in Federates \ {Master}, UpdatesInv(f), Takes(f),
         Early(f), Rank(pc[f]) > 2
  PROVE  UpdatesInv(f)'
<1> DEFINE q == queue[f]["ExCO"]
           n == Exchanged(pc[f])
<1>1. q \in Seq(Modes) /\ q # <<>> /\ queue'[f]["ExCO"] = Tail(q)
  BY BaseFacts DEF Takes, DataInv, Objects
<1>2. Exchanged(pc'[f]) = n + 1 /\ n \in Nat
  <2>1. pc[f] # "late_update"
    BY NoRank
  <2>2. \/ pc[f] = "epoch" /\ pc'[f] = "root"
        \/ pc[f] = "frame" /\ pc'[f] = RootFrameDiscovered
        \/ pc[f] = "go" /\ pc'[f] \in {"await_run", "running"}
    BY <2>1 DEF Takes
  <2> QED BY <2>2 DEF Exchanged, RootFrameDiscovered, InitStarted, MtrRun
<1>3. /\ Len(Tail(q)) = Len(q) - 1 /\ Len(q) \in Nat
      /\ \A i \in 1..Len(Tail(q)) : i + 1 \in 1..Len(q) /\ Tail(q)[i] = q[i + 1]
  BY <1>1
<1>4. /\ \A i \in 1..Len(q) : q[i] = Mode(n + i)
      /\ pc[Master] = "running" => n + Len(q) >= 3
      /\ pc[Master] \notin {"running"} \cup Ended => n + Len(q) = Exchanged(pc[Master])
  BY DEF UpdatesInv
<1>5. ASSUME NEW i \in 1..Len(Tail(q))
      PROVE  Tail(q)[i] = Mode(n + 1 + i)
  <2>1. n + (i + 1) = n + 1 + i
    BY <1>2, <1>3
  <2>2. Tail(q)[i] = Mode(n + (i + 1))
    BY <1>3, <1>4
  <2> QED BY <2>1, <2>2
<1>6. n + 1 + Len(Tail(q)) = n + Len(q)
  BY <1>2, <1>3
<1>7. pc'[Master] = pc[Master]
  BY DEF Takes
<1> QED BY <1>1, <1>2, <1>4, <1>5, <1>6, <1>7 DEF UpdatesInv

LEMMA UpdatesSent ==
  ASSUME Base, PointsInv, CountInv, ProgramInv(Master), [Next]_vars,
         NEW f \in Federates \ {Master}, UpdatesInv(f), ProgramInv(f),
         Early(f), Rank(pc[f]) > 2,
         NEW a, NEW b, NEW m \in Modes, Sends(f, a, b, m),
         \/ a = "epoch" /\ b = "root" /\ m = "initializing"
         \/ a = "frame" /\ b = RootFrameDiscovered /\ m = "initializing"
         \/ a = "go" /\ b = "register_run" /\ m = "to_run"
         \/ a = "running" /\ b = "running" /\ m = "running"
  PROVE  UpdatesInv(f)'
<1> DEFINE q == queue[f]["ExCO"]
           n == Exchanged(pc[f])
<1>0. /\ q \in Seq(Modes) /\ "ExCO" \in Objects /\ n \in Nat /\ PlaceInv /\ Len(q) \in Nat
      /\ Master \in Federates
  BY BaseFacts DEF DataInv, Objects, Exchanged
<1>2. pc[Master] = a /\ pc'[Master] = b /\ pc'[f] = pc[f] /\ Rank(a) > 5
  BY Ranks DEF Sends
<1>3. life[Master] = "in"
  <2>1. a # "out" /\ a \notin Ended
    BY DEF Ended
  <2> QED BY <1>0, <1>2, <2>1, BaseFacts DEF PlaceInv
<1>4. known[f] = Objects
  <2>1. Proved!Over(ObjectsDiscovered) /\ ObjectsDiscovered \in Labels /\ ObjectsDiscovered \in Stops
    BY <1>2, <1>3, SentWhen, InGroup DEF Stops
  <2>2. Proved!Seen(f, ObjectsDiscovered)
    <3>1. \A i \in 1..3 : Proved!Seen(f, Startup[i])
      BY DEF ProgramInv
    <3>2. Proved!Seen(f, Startup[2])
      BY <3>1
    <3> QED BY <3>2, InGroup
  <2>3. Proved!Arrived(f, ObjectsDiscovered)
    BY <2>1, <2>2, PointFacts DEF Early, Proved!Over
  <2>4. Rank(pc[f]) > 5 \/ pc[f] = ObjectsDiscovered
    BY <2>1, <2>3, Ranks DEF ProgramInv
  <2>5. Rank(pc[f]) > 4
    BY <2>4, Ranks, NoRank
  <2> QED BY <2>5 DEF ProgramInv
<1>5. queue'[f]["ExCO"] = Append(q, m)
  BY <1>0, <1>4 DEF Sends
<1>6. /\ \A i \in 1..Len(q) : q[i] = Mode(n + i)
      /\ pc[Master] = "running" => n + Len(q) >= 3
      /\ pc[Master] \notin {"running"} \cup Ended => n + Len(q) = Exchanged(pc[Master])
  BY DEF UpdatesInv
<1>7. /\ m = Mode(n + Len(q) + 1)
      /\ b # "running" => n + Len(q) + 1 = Exchanged(b)
      /\ b = "running" => n + Len(q) + 1 >= 3
  <2>1. CASE a = "running"
    BY <1>0, <1>2, <1>6, <2>1 DEF Mode
  <2>2. CASE a # "running"
    <3>1. n + Len(q) = Exchanged(a)
      BY <1>2, <1>6, <2>2 DEF Ended
    <3>2. \/ a = "epoch" /\ Exchanged(a) = 0 /\ Exchanged(b) = 1 /\ m = "initializing"
          \/ a = "frame" /\ Exchanged(a) = 1 /\ Exchanged(b) = 2 /\ m = "initializing"
          \/ a = "go" /\ Exchanged(a) = 2 /\ Exchanged(b) = 3 /\ m = "to_run"
      BY <2>2 DEF Exchanged, RootFrameDiscovered, InitStarted, MtrRun
    <3>3. b # "running"
      BY <2>2 DEF RootFrameDiscovered
    <3> QED BY <3>1, <3>2, <3>3 DEF Mode
  <2> QED BY <2>1, <2>2
<1>8. /\ Len(Append(q, m)) = Len(q) + 1 /\ Append(q, m)[Len(q) + 1] = m
      /\ \A i \in 1..Len(q) : Append(q, m)[i] = q[i]
  BY <1>0
<1>9. ASSUME NEW i \in 1..Len(Append(q, m))
      PROVE  Append(q, m)[i] = Mode(n + i)
  <2>1. CASE i \in 1..Len(q)
    BY <1>6, <1>8, <2>1
  <2>2. CASE i = Len(q) + 1
    <3>1. n + (Len(q) + 1) = n + Len(q) + 1
      BY <1>0
    <3> QED BY <1>7, <1>8, <2>2, <3>1
  <2> QED BY <1>0, <1>8, <2>1, <2>2
<1>10. n + Len(Append(q, m)) = n + Len(q) + 1
  BY <1>0, <1>8
<1> QED BY <1>2, <1>5, <1>7, <1>9, <1>10 DEF UpdatesInv

LEMMA UpdatesStep ==
  ASSUME Base, PointsInv, CountInv, ProgramInv(Master), [Next]_vars,
         NEW f \in Federates \ {Master}, UpdatesInv(f), ProgramInv(f)
  PROVE  UpdatesInv(f)'
<1> SUFFICES ASSUME Early(f)', Rank(pc'[f]) > 2
             PROVE  UpdatesInv(f)'
  BY DEF UpdatesInv
<1>0. RoleInv(f) /\ View(f) /\ DataInv /\ PlaceInv /\ Master \in Federates
  BY BaseFacts
<1>1. CASE Early(f) /\ Rank(pc[f]) > 2
  <2>1. {"initializing", "to_run", "running"} \subseteq Modes
    BY DEF Modes
  <2>2. SendsOne(f) => UpdatesInv(f)'
    BY <1>1, <2>1, UpdatesSent DEF SendsOne
  <2> QED BY <1>1, <2>2, QueueMoves, UpdatesRest, UpdatesTaken
<1>2. CASE ~(Early(f) /\ Rank(pc[f]) > 2)
  <2>1. ~Determines(f)
    BY <1>0, Ranks DEF Determines, Early
  <2>2. /\ Walks(f) /\ Rank(pc[f]) <= 2 /\ Early(f) /\ EarlyEdge(f, pc[f], pc'[f])
        /\ late[f] = "early"
    BY <1>0, <1>2, <2>1, Ranks, NoRank
       DEF View, Sits, Comes, Ends, WalksLate, Calls, Walks, Early, syncVars
  <2>3. pc[f] = "announced" /\ pc'[f] = "subscribe" /\ Announced(f, ObjectsDiscovered)
    <3>1. pc[f] \in {"register", "announced"}
      <4>1. pc[f] \notin Stops
        BY <2>2, Ranks DEF Stops
      <4> QED BY <2>2, <4>1, Ranks DEF EarlyEdge
    <3>2. pc[f] # "register"
      BY <1>0, <2>2, Ranks
         DEF EarlyEdge, Stops, ObjectsDiscovered, RootFrameDiscovered, InitStarted, MtrRun
    <3>3. pc'[f] = "subscribe" /\ \A i \in 1..3 : Announced(f, Startup[i])
      BY <2>2, <3>1, <3>2
         DEF EarlyEdge, Stops, ObjectsDiscovered, RootFrameDiscovered, InitStarted, MtrRun
    <3>4. Announced(f, Startup[2])
      BY <3>3
    <3> QED BY <3>1, <3>2, <3>3, <3>4, InGroup
  <2>4. queue[f]["ExCO"] = <<>>
    BY <1>0, <2>2 DEF ProgramInv, DataInv, Objects
  <2>5. Rests(f)
    BY <2>3, <2>4, QueueMoves DEF Takes, SendsOne, Sends
  <2>6. Rank(pc[Master]) <= 5
    <3> SUFFICES ASSUME Rank(pc[Master]) > 5
                 PROVE  FALSE
      BY NoRank
    <3>1. life[Master] = "in"
      <4>1. ~(Rank(pc[Master]) = 0)
        OBVIOUS
      <4>2. pc[Master] # "out" /\ pc[Master] \notin Ended
        BY <4>1, NoRank
      <4> QED BY <1>0, <4>2, BaseFacts DEF PlaceInv
    <3>2. ~Proved!Active(ObjectsDiscovered)
      BY <3>1, SentWhen DEF Proved!Over
    <3> QED BY <2>2, <2>3, <3>2, PointFacts, InGroup DEF Walks
  <2>7. Exchanged(pc[Master]) = 0 /\ pc[Master] # "running"
    BY <2>6, ExchangedRank, Ranks, NoRank
  <2>8. pc'[Master] # "running" /\ (pc'[Master] \notin Ended => Exchanged(pc'[Master]) = 0)
    <3>1. "running" \notin Ended
      BY DEF Ended
    <3> QED BY <2>5, <2>7, <3>1, MasterRests DEF Rests
  <2>9. queue'[f]["ExCO"] = <<>> /\ Exchanged(pc'[f]) = 0
    BY <2>3, <2>4, <2>5 DEF Rests, Exchanged, RootFrameDiscovered, InitStarted, MtrRun
  <2> QED BY <2>8, <2>9 DEF UpdatesInv
<1> QED BY <1>1, <1>2

\* So the update by which an early joiner goes on to run is the third.
LEMMA GoThird ==
  ASSUME NEW f \in Federates, UpdatesInv(f), DataInv
  PROVE  GoInv(f)
<1> SUFFICES ASSUME Early(f), f # Master, pc[f] = "go", queue[f]["ExCO"] # <<>>
             PROVE  Head(queue[f]["ExCO"]) = "to_run"
  BY DEF GoInv
<1>1. Rank(pc[f]) > 2 /\ Exchanged(pc[f]) = 2
  BY Ranks DEF Exchanged, RootFrameDiscovered, InitStarted
<1>2. queue[f]["ExCO"] \in Seq(Modes)
  BY DEF DataInv, Objects
<1>3. queue[f]["ExCO"][1] = Mode(3)
  BY <1>1, <1>2 DEF UpdatesInv
<1> QED BY <1>2, <1>3 DEF Mode

-----------------------------------------------------------------------------
(* Who is told that the root frame is discovered everywhere has been told  *)
(* of the multiphase points.                                               *)

OrderInv(f) ==
  life[f] = "in" => \A p \in Phases : Proved!Behind(f, RootFrameDiscovered, p)

\* The federation waits for the master until it is past a point.
LEMMA ToldOfRootFrame ==
  ASSUME Base, PointsInv, CountInv, ProgramInv(Master), [Next]_vars,
         PointsInv', ExCOInv', NEW f \in Federates, ProgramInv(f)', AchievedInv(f)',
         life[f] = "in", life'[f] = "in", NEW p \in Phases,
         Proved!Pending(f, "synchronized", RootFrameDiscovered)',
         ~Proved!Pending(f, "synchronized", RootFrameDiscovered)
  PROVE  Proved!Counted(f, p)
<1> DEFINE k == RootFrameDiscovered
<1>0. /\ k \in Labels /\ k \in Stops /\ k \in Group /\ p \in Labels /\ p \in Group /\ k # MtrRun
      /\ Rank(k) = 9 /\ Master \in Federates /\ View(Master) /\ RoleInv(Master) /\ PlaceInv
      /\ DataInv' /\ RoleInv(f)' /\ PlaceInv'
  BY BaseFacts, BaseStep, InGroup, Ranks DEF Base, Stops, RootFrameDiscovered, MtrRun
<1>1. /\ f \in members[k] /\ members'[k] = {} /\ round' = round
      /\ Proved!Arrived(f, k)'
  BY <1>0, BaseFacts, Proved!ToldTogether
<1>2. "ExCO" \in registered'
  <2>1. Early(f)'
    BY <1>0, <1>1 DEF AchievedInv, Early, PlaceInv
  <2>2. Rank(pc'[f]) > 9 \/ pc'[f] = k
    BY <1>0, <1>1, <2>1 DEF ProgramInv
  <2>3. Rank(pc'[f]) > 4
    BY <1>0, <2>2, NoRank
  <2>4. known'[f] = Objects
    BY <2>1, <2>3 DEF ProgramInv
  <2> QED BY <1>0, <2>4 DEF DataInv, Objects
<1>3. Early(Master)' /\ Rank(pc'[Master]) >= 4
  BY <1>2 DEF ExCOInv
<1>4. Early(Master)
  <2>1. ~Determines(Master)
    BY <1>3, <1>0, Ranks DEF Determines
  <2> QED BY <1>0, <1>3, <2>1
          DEF View, Sits, Comes, Ends, Walks, WalksLate, Calls, Early, RoleInv, syncVars
<1>5. round[p] = 1 /\ round[k] = 1
  <2>1. Rank(pc'[Master]) > 1
    BY <1>3, NoRank
  <2> QED BY <1>0, <1>1, <1>3, <2>1 DEF PointsInv
<1>6. Proved!Active(p)
  <2>1. state[Master][k] # "SYNCHRONIZED"
    BY <1>0, <1>1, <1>4, PointFacts DEF Early, Proved!Active
  <2>2. ~(Rank(pc[Master]) > 9)
    BY <1>0, <1>4, <2>1 DEF ProgramInv
  <2>3. ~Proved!Arrived(Master, p)
    <3>1. ~(Rank(pc[Master]) >= 10)
      BY <2>2, NoRank
    <3> QED BY <1>4, <3>1 DEF ProgramInv
  <2>4. Proved!Counted(Master, p)
    BY <1>0, <1>4, <1>5 DEF CountInv, Early
  <2> QED BY <1>0, <1>4, <2>3, <2>4, PointFacts DEF Proved!Counted, Early
<1>7. Informed
  <2>1. ~UNCHANGED vars
    BY <1>1 DEF vars, syncVars
  <2>2. ASSUME NEW g \in Federates, NEW l \in Labels, Inform(g, l)
        PROVE  FALSE
    <3>1. members' = [members EXCEPT ![l] = members[l] \cup {g}]
      BY <2>2 DEF Inform, SP!Inform
    <3> QED BY <1>0, <1>1, <3>1, BaseFacts DEF Proved!TypeOK
  <2> QED BY <2>1, <2>2 DEF Next
<1>8. f \in members[p]
  <2>1. Wanted(p) /\ Wanted(k)
    BY <1>0, <1>5 DEF PointsInv
  <2>2. CASE handles = {}
    BY <1>0, <1>6, <1>7, <2>1, <2>2 DEF Wanted, Informed, SP!In, SP!Active, Proved!Active
  <2>3. CASE handles # {}
    BY <1>1, <1>6, <2>1, <2>3 DEF Wanted
  <2> QED BY <2>2, <2>3
<1>9. Proved!MemberInv(f, p)
  BY <1>0, BaseFacts DEF Proved!IndInv, Proved!In
<1> QED BY <1>8, <1>9
        DEF Proved!MemberInv, Proved!Counted, Proved!Awaited, Proved!Arrived

LEMMA OrderStep ==
  ASSUME Base, PointsInv, CountInv, ProgramInv(Master), [Next]_vars,
         PointsInv', ExCOInv', NEW f \in Federates, ProgramInv(f)', AchievedInv(f)', OrderInv(f)
  PROVE  OrderInv(f)'
<1> SUFFICES ASSUME life'[f] = "in", NEW p \in Phases
             PROVE  Proved!Behind(f, RootFrameDiscovered, p)'
  BY DEF OrderInv
<1>0. /\ RootFrameDiscovered \in Labels /\ p \in Labels /\ View(f) /\ Proved!LifeInv
      /\ round'[p] <= 1
  BY BaseFacts, InGroup DEF Proved!IndInv, PointsInv
<1>1. CASE life[f] # "in"
  <2>1. Comes(f)
    BY <1>0, <1>1 DEF View, Sits, Ends, Determines, Walks, WalksLate, Calls, syncVars
  <2>2. state[f][RootFrameDiscovered] = "KNOWN" /\ inbox[f] = <<>>
    BY <1>0, <2>1 DEF Proved!LifeInv, Comes
  <2> QED BY <2>1, <2>2 DEF Comes, Proved!Behind
<1>2. CASE life[f] = "in"
  <2>1. /\ Proved!Pending(f, "synchronized", RootFrameDiscovered)'
           /\ ~Proved!Pending(f, "synchronized", RootFrameDiscovered) =>
             Proved!Counted(f, p)
    BY <1>2, ToldOfRootFrame
  <2>2. /\ Proved!Once(f, p) /\ Proved!Behind(f, RootFrameDiscovered, p)
        /\ \A l \in Labels : l \in [g \in Federates |-> Labels][f]
    BY <1>0, <1>2, BaseFacts DEF Proved!OnceInv, OrderInv
  <2> QED BY <1>0, <1>2, <2>1, <2>2, BaseFacts, Proved!BehindStep
<1> QED BY <1>1, <1>2

-----------------------------------------------------------------------------
(* The federates that are waited for by their handles.                     *)

RequiredInv(f) == Required # {} /\ life[f] = "in" =>
  /\ late[f] = "early" => f \in handles
  /\ f \in handles => \A l \in Group : round[l] = 1 => Proved!Counted(f, l)

LEMMA RequiredStep ==
  ASSUME Base, PointsInv, [Next]_vars, NEW f \in Federates, RequiredInv(f)
  PROVE  RequiredInv(f)'
<1> SUFFICES ASSUME Required # {}, life'[f] = "in"
             PROVE  /\ late'[f] = "early" => f \in handles'
                    /\ f \in handles' =>
                         \A l \in Group : round'[l] = 1 => Proved!Counted(f, l)'
  BY DEF RequiredInv
<1>0. /\ View(f) /\ RoleInv(f) /\ PlaceInv /\ Master \in Federates /\ RoleInv(Master)
      /\ InitStarted \in Labels /\ InitStarted \in Group /\ Master \in Required
      /\ PointsInv' /\ Group \subseteq Labels
  BY BaseFacts, PointsStep, InGroup, StartupAssumption
<1>1. \/ handles' = handles
      \/ /\ UNCHANGED syncVars /\ late[Master] = "undetermined"
         /\ handles = {} /\ \A l \in Labels : round[l] = 0
  <2>1. \/ handles' = handles
        \/ UNCHANGED syncVars /\ pc[Master] = "role" /\ life[Master] = "in"
    BY HandlesStep DEF Base
  <2> QED BY <1>0, <2>1 DEF PointsInv, RoleInv
<1>2. ASSUME late'[f] = "early"
      PROVE  f \in handles'
  <2>1. CASE life[f] = "in" /\ late[f] = "early"
    BY <1>1, <2>1 DEF RequiredInv
  <2>2. CASE ~(life[f] = "in" /\ late[f] = "early")
    <3>1. Determines(f)
      BY <1>0, <1>2, <2>2
         DEF RoleInv, View, Sits, Comes, Ends, Walks, WalksLate, Calls, syncVars
    <3>2. CASE f = Master
      BY <1>0, <3>1, <3>2 DEF Determines
    <3>3. CASE f # Master
      <4>1. Proved!Awaited(f, InitStarted) /\ round[InitStarted] = 1
        BY <1>0, <1>2, <3>1, <3>3, PointFacts DEF Determines
      <4>2. Wanted(InitStarted) /\ late[Master] # "undetermined"
        BY <1>0, <4>1 DEF PointsInv
      <4>3. handles' = handles /\ handles # {}
        BY <1>0, <1>1, <4>2 DEF PointsInv
      <4> QED BY <4>1, <4>2, <4>3 DEF Wanted, Proved!Awaited
    <3> QED BY <3>2, <3>3
  <2> QED BY <2>1, <2>2
<1>3. ASSUME f \in handles', NEW l \in Group, round'[l] = 1
      PROVE  Proved!Counted(f, l)'
  <2>0. l \in Labels
    BY <1>0
  <2>1. CASE round[l] = 1
    <3>1. f \in handles
      BY <1>1, <1>3, <2>0, <2>1
    <3>2. life[f] = "in"
      BY <1>0, <3>1
         DEF PointsInv, View, Sits, Comes, Ends, Determines, Walks, WalksLate, Calls
    <3>3. Proved!Counted(f, l)
      BY <2>1, <3>1, <3>2 DEF RequiredInv
    <3> QED BY <2>0, <3>2, <3>3, PointKept
  <2>2. CASE round[l] # 1
    <3>1. PICK set \in SUBSET Federates, all \in BOOLEAN : Registers(l, set, all)
      BY <1>3, <2>0, <2>2, Rounds
    <3>2. f \in set
      BY <1>3, <3>1, InGroup DEF Registers
    <3> QED BY <3>1, <3>2 DEF Registers, Proved!Counted
  <2> QED BY <2>1, <2>2
<1> QED BY <1>2, <1>3

-----------------------------------------------------------------------------
(* The whole invariant of the startup.                                     *)

StartInv ==
  /\ Base /\ PointsInv /\ CountInv /\ ExCOInv
  /\ \A f \in Federates :
       /\ ProgramInv(f) /\ AchievedInv(f) /\ UpdatesInv(f)
       /\ LateInv(f) /\ OrderInv(f) /\ RequiredInv(f)

LEMMA StartInit ==
  ASSUME NobodyDesignated, Init
  PROVE  StartInv
<1>0. Proved!Init /\ Inv /\ Proved!OnceInv /\ Master \in Federates
  BY SameInit, Initially, Proved!OnceInit, Constants, Names DEF Init
<1>1. /\ life = [f \in Federates |-> "out"] /\ round = [l \in Labels |-> 0]
      /\ \A f \in Federates : life[f] # "in"
  BY <1>0 DEF Proved!Init
<1>2. PlaceInv /\ DataInv
  <2>1. PlaceInv
    BY <1>1 DEF Init, PlaceInv, Ended, Places, Steps
  <2>2. [o \in Objects |-> <<>>] \in [Objects -> Seq(Modes)]
    OBVIOUS
  <2>3. queue \in [Federates -> [Objects -> Seq(Modes)]]
    BY <2>2 DEF Init
  <2>4. DataInv
    BY <2>3 DEF Init, DataInv
  <2> QED BY <2>1, <2>4
<1>3. \A f \in Federates : RoleInv(f)
  BY <1>1 DEF Init, RoleInv
<1>4. Base
  BY <1>0, <1>2, <1>3 DEF Base
<1>5. PointsInv
  BY <1>0, <1>1, InGroup DEF PointsInv, Init, Early
<1>6. CountInv /\ ExCOInv
  BY <1>0, <1>1, InGroup DEF CountInv, ExCOInv, Init, Early
<1>7. ASSUME NEW f \in Federates
      PROVE  /\ ProgramInv(f) /\ AchievedInv(f) /\ UpdatesInv(f)
             /\ LateInv(f) /\ OrderInv(f) /\ RequiredInv(f)
  BY <1>1 DEF ProgramInv, AchievedInv, UpdatesInv, LateInv, OrderInv, RequiredInv, Early
<1> QED BY <1>4, <1>5, <1>6, <1>7 DEF StartInv

LEMMA StartStep ==
  ASSUME StartInv, [Next]_vars
  PROVE  StartInv'
<1>0. /\ Base /\ PointsInv /\ CountInv /\ ExCOInv /\ DataInv /\ Master \in Federates
      /\ \A f \in Federates :
           /\ ProgramInv(f) /\ AchievedInv(f) /\ UpdatesInv(f)
           /\ LateInv(f) /\ OrderInv(f) /\ RequiredInv(f)
  BY Names DEF StartInv, Base
<1>1. Base' /\ PointsInv'
  BY <1>0, BaseStep, PointsStep
<1>2. CountInv' /\ ExCOInv'
  BY <1>0, CountStep, ExCOStep
<1>3. ASSUME NEW f \in Federates
      PROVE  ProgramInv(f)' /\ AchievedInv(f)'
  <2>1. GoInv(f)
    BY <1>0, GoThird
  <2> QED BY <1>0, <2>1, ProgramStep, AchievedStep
<1>4. ASSUME NEW f \in Federates
      PROVE  UpdatesInv(f)'
  <2>1. CASE f = Master
    BY <2>1 DEF UpdatesInv
  <2>2. CASE f # Master
    BY <1>0, <2>2, UpdatesStep
  <2> QED BY <2>1, <2>2
<1>5. ASSUME NEW f \in Federates
      PROVE  LateInv(f)' /\ OrderInv(f)' /\ RequiredInv(f)'
  BY <1>0, <1>1, <1>2, <1>3, LateStep, OrderStep, RequiredStep
<1> QED BY <1>1, <1>2, <1>3, <1>4, <1>5 DEF StartInv

\* An early joiner that a registered point is over for has arrived there.
LEMMA OverIsArrived ==
  ASSUME StartInv, NEW f \in Federates, life[f] = "in", NEW l \in Labels,
         Proved!Counted(f, l) \/ Proved!Seen(f, l), ~Proved!Active(l)
  PROVE  Proved!Arrived(f, l)
BY PointFacts DEF StartInv, Proved!Counted

\* A point that has a state has been registered.
LEMMA HasRound ==
  ASSUME StartInv, NEW f \in Federates, NEW l \in Labels, Proved!Seen(f, l)
  PROVE  round[l] = 1
<1>1. round[l] \in {0, 1} /\ (round[l] = 0 => Proved!Fresh(l))
  BY DEF StartInv, Base, Inv, Proved!IndInv, Proved!TypeOK, Proved!FreshInv, PointsInv
<1>2. round[l] = 0 => state[f][l] \in {"KNOWN", "UNKNOWN"}
  BY <1>1 DEF Proved!Fresh
<1> QED BY <1>1, <1>2 DEF Proved!Seen

-----------------------------------------------------------------------------
(* What it says of the startup.                                            *)

LEMMA StartTypes ==
  ASSUME StartInv
  PROVE  StartupInv
<1>1. Base /\ PlaceInv /\ DataInv /\ AutoInv /\ Proved!TypeOK
  BY DEF StartInv, Base, Inv, Proved!IndInv
<1>2. SP!TypeOK
  <2>1. SP!Messages = Proved!Messages /\ SP!States = Proved!States
    BY DEF SP!Messages, Proved!Messages, SP!States, Proved!States, SP!Callbacks,
       Proved!Callbacks
  <2>2. SP!Calls = Proved!Calls
    BY DEF SP!Calls, Proved!Calls, SP!NoCall, Proved!NoCall, SP!Registering,
       Proved!Registering, SP!Achieving, Proved!Achieving
  <2> QED BY <1>1, <2>1, <2>2 DEF SP!TypeOK, Proved!TypeOK
<1>3. auto \in [Federates -> SUBSET Labels] /\ \A f \in Federates : auto[f] = {}
  BY <1>1 DEF AutoInv
<1>4. TypeOK
  BY <1>1, <1>2, <1>3 DEF TypeOK, PlaceInv, DataInv
<1> QED BY <1>1, <1>3, <1>4 DEF StartupInv, PlaceInv, DataInv, Ended

LEMMA StartLearns ==
  ASSUME StartInv
  PROVE  LateJoinerLearnsMode
<1> SUFFICES ASSUME NEW f \in Federates, pc[f] = "late_update", queue[f]["ExCO"] # <<>>
             PROVE  Head(queue[f]["ExCO"]) # "initializing"
  BY DEF LateJoinerLearnsMode
<1>1. PlaceInv /\ DataInv /\ RoleInv(f) /\ LateInv(f) /\ Proved!TypeOK
  BY DEF StartInv, Base, Inv, Proved!IndInv
<1>2. life[f] = "in"
  BY <1>1 DEF PlaceInv, Ended, Proved!TypeOK
<1>3. late[f] = "late"
  <2>1. Rank(pc[f]) = 0
    BY NoRank
  <2> QED BY <1>1, <1>2, <2>1 DEF RoleInv, PlaceInv, EarlyPlaces
<1>4. queue[f]["ExCO"] \in Seq(Modes)
  BY <1>1 DEF DataInv, Objects
<1>5. queue[f]["ExCO"][1] # "initializing"
  BY <1>1, <1>2, <1>3, <1>4 DEF LateInv
<1> QED BY <1>4, <1>5

LEMMA StartAchieves ==
  ASSUME StartInv
  PROVE  AchieveNeverFails
<1> SUFFICES ASSUME NEW f \in Federates, Early(f), NEW l \in Labels,
                    pc[f] = l \/ (pc[f] = "phases" /\ l \in Phases)
             PROVE  Proved!Seen(f, l)
  BY DEF AchieveNeverFails, EarlyJoiner, Early, Proved!Seen
<1>1. ProgramInv(f) /\ RoleInv(f) /\ OrderInv(f)
  BY DEF StartInv, Base
<1>2. CASE pc[f] = l
  <2>1. Rank(l) > 0
    BY <1>1, <1>2 DEF RoleInv, Early, EarlyPlaces
  <2>2. l \notin Phases \cup {InitCompleted}
    <3> SUFFICES ASSUME l \in Phases \cup {InitCompleted}
                 PROVE  FALSE
      OBVIOUS
    <3>1. Rank(l) = 0
      BY NoRank
    <3> QED BY <2>1, <3>1
  <2>3. l \in Stops
    BY <2>2, Names DEF Main, Stops
  <2>4. CASE l = MtrRun
    BY <1>1, <1>2, <2>4, Ranks DEF ProgramInv
  <2>5. CASE l # MtrRun
    <3>1. Rank(l) > 2
      BY <2>3, <2>5, Ranks DEF Stops
    <3>2. \A i \in 1..3 : Proved!Seen(f, Startup[i])
      BY <1>1, <1>2, <3>1 DEF ProgramInv
    <3>3. Proved!Seen(f, Startup[1]) /\ Proved!Seen(f, Startup[2]) /\ Proved!Seen(f, Startup[3])
      BY <3>2
    <3> QED BY <2>3, <2>5, <3>3, InGroup DEF Stops
  <2> QED BY <2>4, <2>5
<1>3. CASE pc[f] = "phases" /\ l \in Phases
  <2>1. state[f][RootFrameDiscovered] = "SYNCHRONIZED"
    BY <1>1, <1>3, Ranks DEF ProgramInv, Stops
  <2> QED BY <1>1, <1>3, <2>1 DEF OrderInv, Proved!Behind, Early
<1> QED BY <1>2, <1>3

LEMMA StartCompletes ==
  ASSUME StartInv
  PROVE  InitCompletedIsLast
<1> SUFFICES ASSUME NEW f \in Federates, Early(f), Announced(f, InitCompleted)
             PROVE  \A l \in Phases : Is(f, l, "SYNCHRONIZED")
  BY DEF InitCompletedIsLast, Early
<1>1. ProgramInv(f) /\ CountInv /\ life[f] = "in" /\ InitStarted \in Labels
      /\ InitCompleted \in Labels /\ InitStarted \in Stops
  BY InGroup DEF StartInv, Early, Stops
<1>2. round[InitCompleted] = 1
  BY <1>1, HasRound DEF Announced, Is, Proved!Seen
<1>3. Proved!Over(InitStarted)
  BY <1>1, <1>2 DEF CountInv
<1>4. Proved!Counted(f, InitStarted) \/ Proved!Seen(f, InitStarted)
  BY <1>1, <1>3 DEF ProgramInv, CountInv, Proved!Over
<1>5. Proved!Arrived(f, InitStarted)
  BY <1>1, <1>3, <1>4, OverIsArrived DEF Proved!Over
<1>6. Rank(pc[f]) > 10
  <2>1. Rank(pc[f]) > Rank(InitStarted) \/ pc[f] = InitStarted
    BY <1>1, <1>5 DEF ProgramInv
  <2> QED BY <2>1, Ranks, NoRank
<1> QED BY <1>1, <1>6 DEF ProgramInv, Is

LEMMA StartRuns ==
  ASSUME StartInv
  PROVE  RunsTogether
<1> SUFFICES ASSUME NEW f \in Federates, NEW g \in Federates, Early(f), Early(g),
                    pc[f] = "running"
             PROVE  pc[g] \in {MtrRun, "running"}
  BY DEF RunsTogether, EarlyJoiner, Early
<1>1. /\ ProgramInv(f) /\ ProgramInv(g) /\ CountInv /\ life[f] = "in" /\ life[g] = "in"
      /\ MtrRun \in Labels /\ MtrRun \in Stops
  BY InGroup DEF StartInv, Early, Stops
<1>2. state[f][MtrRun] = "SYNCHRONIZED"
  BY <1>1, Ranks DEF ProgramInv
<1>3. round[MtrRun] = 1 /\ ~Proved!Active(MtrRun)
  BY <1>1, <1>2, HasRound, PointFacts DEF Proved!Seen, StartInv
<1>4. Proved!Arrived(g, MtrRun)
  BY <1>1, <1>3, OverIsArrived DEF CountInv
<1>5. Rank(pc[g]) > 16 \/ pc[g] = MtrRun
  BY <1>1, <1>4, Ranks DEF ProgramInv
<1>6. Rank(pc[g]) > 16 => pc[g] = "running"
  BY DEF Rank
<1> QED BY <1>5, <1>6

\* The handles are needed here: without them an early joiner may come when the
\* first updates have been sent.
LEMMA StartUpdates ==
  ASSUME StartInv, Required # {}
  PROVE  NoUpdateMissed
<1> SUFFICES ASSUME NEW f \in Federates \ {Master}, Early(f), Early(Master),
                    pc[Master] # "running"
             PROVE  Exchanged(pc[Master]) = Exchanged(pc[f]) + Len(queue[f]["ExCO"])
  BY DEF NoUpdateMissed, EarlyJoiner, Early
<1>1. /\ Base /\ PointsInv /\ CountInv /\ PlaceInv /\ DataInv /\ Master \in Federates
      /\ ProgramInv(f) /\ ProgramInv(Master) /\ UpdatesInv(f) /\ RequiredInv(f)
      /\ life[f] = "in" /\ life[Master] = "in"
      /\ ObjectsDiscovered \in Labels /\ ObjectsDiscovered \in Stops
      /\ ObjectsDiscovered \in Group
  BY Names, InGroup DEF StartInv, Base, Early, Stops
<1>2. CASE Rank(pc[f]) > 2
  <2>1. pc[Master] \notin Ended
    BY <1>1 DEF PlaceInv
  <2> QED BY <1>1, <1>2, <2>1 DEF UpdatesInv
<1>3. CASE Rank(pc[f]) <= 2
  <2>1. queue[f]["ExCO"] = <<>>
    BY <1>1, <1>3 DEF ProgramInv, DataInv, Objects
  <2>2. Exchanged(pc[f]) = 0
    BY <1>3, ExchangedRank, NoRank
  <2>3. Rank(pc[Master]) <= 5
    <3> SUFFICES ASSUME Rank(pc[Master]) > 5
                 PROVE  FALSE
      BY NoRank
    <3>1. Proved!Over(ObjectsDiscovered)
      BY <1>1, SentWhen
    <3>2. Proved!Counted(f, ObjectsDiscovered)
      BY <1>1, <3>1 DEF RequiredInv, Early, Proved!Over
    <3>3. Proved!Arrived(f, ObjectsDiscovered)
      BY <1>1, <3>1, <3>2, OverIsArrived DEF Proved!Over
    <3>4. Rank(pc[f]) > 5 \/ pc[f] = ObjectsDiscovered
      BY <1>1, <3>3, Ranks DEF ProgramInv
    <3> QED BY <1>3, <3>4, Ranks, NoRank
  <2>4. Exchanged(pc[Master]) = 0
    BY <2>3, ExchangedRank, NoRank
  <2> QED BY <2>1, <2>2, <2>4
<1>4. Rank(pc[f]) > 2 \/ Rank(pc[f]) <= 2
  BY NoRank
<1> QED BY <1>2, <1>3, <1>4

-----------------------------------------------------------------------------
(* The theorems of the startup.                                            *)

LEMMA StartHolds ==
  ASSUME NobodyDesignated
  PROVE  Spec => []StartInv
<1>1. Init => StartInv
  BY StartInit
<1>2. StartInv /\ [Next]_vars => StartInv'
  BY StartStep
<1> QED BY <1>1, <1>2, PTL DEF Spec

\* Everything the startup keeps has its type, a federate is at a place of its
\* program exactly while it is a member, and objects are discovered and
\* reflected only as the RTI may.
THEOREM StartupHolds ==
  ASSUME NobodyDesignated
  PROVE  Spec => []StartupInv
<1>1. StartInv => StartupInv
  BY StartTypes
<1> QED BY <1>1, StartHolds, PTL

\* Every achieve of an early joiner is of a point announced to it, although it
\* has waited for the announcement of three points only.
THEOREM AchieveSucceeds ==
  ASSUME NobodyDesignated
  PROVE  Spec => []AchieveNeverFails
<1>1. StartInv => AchieveNeverFails
  BY StartAchieves
<1> QED BY <1>1, StartHolds, PTL

\* When initialization_completed is announced to an early joiner, its
\* multiphase points are synchronized.
THEOREM CompletedIsLast ==
  ASSUME NobodyDesignated
  PROVE  Spec => []InitCompletedIsLast
<1>1. StartInv => InitCompletedIsLast
  BY StartCompletes
<1> QED BY <1>1, StartHolds, PTL

\* No early joiner runs before every other one is at mtr_run.
THEOREM EarlyJoinersRunTogether ==
  ASSUME NobodyDesignated
  PROVE  Spec => []RunsTogether
<1>1. StartInv => RunsTogether
  BY StartRuns
<1> QED BY <1>1, StartHolds, PTL

\* A late joiner never takes an ExCO update of the startup of the others.
THEOREM LateJoinersLearnMode ==
  ASSUME NobodyDesignated
  PROVE  Spec => []LateJoinerLearnsMode
<1>1. StartInv => LateJoinerLearnsMode
  BY StartLearns
<1> QED BY <1>1, StartHolds, PTL

\* No early joiner misses an ExCO update, when the master knows for whom it
\* waits.
THEOREM UpdatesReachAll ==
  ASSUME NobodyDesignated, Required # {}
  PROVE  Spec => []NoUpdateMissed
<1>1. StartInv => NoUpdateMissed
  BY StartUpdates
<1> QED BY <1>1, StartHolds, PTL
=============================================================================
