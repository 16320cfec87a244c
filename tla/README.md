# Specifications of TrickHLA

TLA+ specifications of TrickHLA, the NASA library that lets a simulation built on the
Trick environment take part in a distributed simulation (a *federation*) over an HLA
run-time infrastructure (RTI). They are written from the C++ sources and the Trick
S_modules; file names below are relative to `src/source/TrickHLA` unless they say otherwise
(`EC` is `src/source/SpaceFOM/ExecutionControl.cpp`).

What makes TrickHLA hard is not in any one function. Every federate runs a Trick main thread
(and child threads), and the RTI calls the federate ambassador back on a thread of its own;
the threads share lists, flags and queues. And every federate waits for others: at
synchronization points, for objects, for updates, for time. The specifications are about
those waits: who is waiting for what, whether what is waited for has been set in motion, and
whether what has been waited for is still true when it is used.

## 1. The system

| Component | State it keeps | Operations | Modelled by |
|---|---|---|---|
| Synchronization points (`SyncPointManagerBase`, `SyncPointList`, `SyncPoint`) | lists of named points and a list of unrecognized ones; one state per point; one recursive mutex | add, register, wait for announced, achieve, achieve and wait, wait for synchronized; callbacks: registered, failed, announced, synchronized | `SyncPoints`, over `SyncBarrier` |
| Timed points (`SyncPointTimed`) | a point with a time | as above, at a time | - |
| Thread coordination (`time/TrickThreadCoordinator`) | a state and a data cycle per thread, a mutex | associate, verify; announce data available / sent, wait to send, wait to receive | `ThreadCoordinator` |
| Startup (`SpaceFOM/ExecutionControl`, `ExecutionControlBase`, `ExecutionConfigurationBase`, parts of `Manager` and `Federate`) | role, mode, the Execution Configuration Object (ExCO), where a federate is in the startup | determine a role, wait for required federates, register / await / achieve the startup points, register and discover objects, exchange ExCO and root frame, multiphase points, go to run | `SpaceFOMInit`, using `SyncPoints` |
| Mode transitions (the same execution control, `MTRInteractionHandler`) | current, requested and pending mode, the scheduled freeze | run, freeze, shutdown by request or control panel, ExCO and point | `ModeTransitions`, using `SyncPoints` |
| Time management (`time/TimeManagementServices`) | requested and granted time, advance state, flags, a mutex | become constrained / regulating, jump to a boundary, request, wait for grant; callbacks: enabled, granted | `TimeAdvance` |
| Object data (`Object`, `Attribute`, `Conditional`, `LagCompensation`, ...) | per object: attributes, request flags, cycle counts, a queue of reflected updates | send initial / cyclic / requested / zero-lookahead / blocking data, receive, enqueue, delete | `ObjectData`; times in `TimeAdvance`, startup in `SpaceFOMInit` |
| Ownership (`Object`, `OwnershipHandler`) | who owns or has asked for an attribute | pull, push, grant, negotiated divestiture, rejoin | `Ownership` |
| Interactions (`Interaction`, `InteractionHandler`, `ItemQueue`) | a queue of received interactions | send, receive, process | `ObjectData` |
| Save and restore (`SaveRestoreServices`) | flags of a save or restore in progress | initiate, save, restore, inform, complete | `SaveRestore` |
| `Federate` | handles joined, connection, shutdown flags | join, wait for federates, freeze, resign, destroy | parts in all |
| `Manager` | objects, interactions, configuration | dispatch to objects, points and queues; cyclic jobs | parts in all |
| `FedAmb` | nothing | one handler per RTI callback | the callbacks of the modules |
| Other execution controls (`ExecutionControl`, `IMSim/ExecutionControl`) | as SpaceFOM's | startup, scenario freeze, federation save | - |
| SpaceFOM data, JEOD, encoders, utilities | reference frames, encodings, timers, mutex | numerical and conversion code | the mutex only |

How they interact. Trick runs the jobs of `src/S_modules/THLABase.sm` on the main thread: in
`P_INIT` the startup, and in each data cycle *wait for the grant - process interactions -
receive cyclic data - announce it to the child threads - ... - wait for the children - send -
announce it sent - request the next time*. The RTI's threads enter through `FedAmb`, which
hands each callback to the manager, the federate or the execution control; these take the
mutex of the component they change. The main thread mostly learns what happened by polling
state in a loop that sleeps, and looks for shutdown or lost membership.

Behaviours that are hard to test, and the components they are in:

* an RTI call and the assignment that records it are two steps, and the callback for the
  call may come between them (points, time management);
* an answer is awaited by polling a state that another callback may replace (points,
  child threads, ExCO updates);
* a flag of the whole and flags of its parts are set and cleared in different critical
  sections, or without any (ownership, requests for updates, save and restore);
* federates join, leave and are lost in the middle of a protocol that counts them (points,
  startup, time management, save and restore);
* waits of several parties on each other: main and child threads, federates at the same
  point, federates exchanging zero-lookahead data;
* data of one frame used in another (child threads of different cycles, timestamps).

`PROJECT.json` lists them one by one, each at its line, with the properties that are about
it.

What makes each component correct. *Points*: nobody passes a point before all that have to
have come there, and everybody who has may pass; no announcement and no synchronization is
lost. *Threads*: data is copied in and out only while the thread whose data it is stands
still; nobody is left waiting. *Startup*: everybody uses the points within the contract the
point manager relies on, every update awaited is one that will still be sent, no late joiner
takes part in the startup of the others or disturbs it, and everybody gets to run. *Time*:
logical time is the time of the frame, a frame has the data of all frames before it, and
everybody gets on. *Modes*: all freeze at the time the ExCO says and run again together, and
no transition is left half way. *Data*: every update and interaction is handled once and in
order, every request is answered, and nobody waits in a circle. *Ownership*: a federate
sends only what it owns, and whoever asks for an attribute is answered. *Save and restore*: a
federation that is said to be saved is saved by all, a restored state is taken up by all or by
nobody, and everybody gets back to where it was.

## 2. Modules

| Module | Contents |
|---|---|
| `SyncBarrier` | what a synchronization point promises: the abstract specification |
| `SyncPoints` | the point manager of every federate and the RTI, by operation; the use contract |
| `SyncPointsProofs` | the inductive invariant of `SyncPoints`, its safety properties, and that it implements `SyncBarrier`, proved |
| `ThreadCoordinator` | main thread, child threads and executive of one federate |
| `ThreadCoordinatorProofs` | its inductive invariant and exclusion properties, proved |
| `SpaceFOMInit` | the startup of a SpaceFOM federation; instantiates `SyncPoints` |
| `SpaceFOMInitProofs` | the startup keeps the contract of `SyncPoints` and so has its guarantees, and its safety properties, proved |
| `ModeTransitions` | freeze, run and shutdown of a running federation; instantiates `SyncPoints` |
| `ModeTransitionsProofs` | all freeze at the time of the freeze and run again together, proved |
| `TimeAdvance` | logical time and the data of the frames of a federation |
| `TimeAdvanceProofs` | requests and grants match, the frames are in step, and have the data of their time, proved |
| `ObjectData` | the updates of objects, the requests for them, and interactions |
| `ObjectDataProofs` | updates and interactions arrive once and in order, requests are answered, nobody waits in a circle, proved |
| `Ownership` | how the attributes of an object change owner |
| `OwnershipProofs` | its inductive invariant, and that a federate sends only what it owns, proved |
| `SaveRestore` | federation saves and restores of a frozen federation |
| `SaveRestoreProofs` | a federation is saved and restored by all of it or not at all, proved |
| `MC...` | the instances TLC uses |

Definitions marked *(mutant of X)* are not part of a specification. Each is X with a
plausible mistake, and shows that a property notices the mistake.

### SyncPoints

State: `state[f][l]` is the `SyncPtStateEnum` of the object for label `l` in federate `f` (the
constant `Named` says which labels are in a named list; for the others the object is made in the
Unknown list by the announcement, or by a wait for it: `Track`). `busy[f]` is the RTI call a
thread of `f` is in: `registerFederationSynchronizationPoint` and `synchronizationPointAchieved`
are called with the mutex held, and the new state is assigned after they return, so each is two
actions (`RegisterCall`/`RegisterReturn`, `AchieveCall`/`AchieveReturn`) between which the RTI
may act and no callback of `f` can (`Free`). The recursive mutex is held by one thread; a
callback that achieves by itself (an unrecognized point in `sync_point_announced`) does so in
one of its own steps. `open`, `members`, `achieved`, `round` and `inbox` are the RTI's: the
points in progress, whom each waits for, who has achieved it, and the callbacks on their way, in
order, to each federate. A federate that joins is added to every open point that is for all
(`Inform`), one that leaves is dropped from every point (`Drop`), step by step.

Contract (`MayRegister`, `Achieve`): a label is registered by one federate, which names it and
is itself a member, again only after it was synchronized; a federate achieves what is announced.
Others need not name it, and may wait for it all the same, before it is announced or after. An
announcement that finds a label in the Unknown list is `Overlooked` (section 6): the federate
does not achieve, and the point is `HeldUp` for everybody. `NoLostAnnouncement` and
`EverybodyGoesOn` except this case and nothing else. `SpaceFOMInit` is shown to keep to it.
`ModeTransitions` uses the operations themselves, without the contract: the master does register
a label that is in use (finding 3).

Bound: `MaxRounds`, how often a label is registered. Two rounds have everything a re-used
label can meet: the states left by the round before.

`SyncBarrier` knows only who is expected, who has arrived and who has been let go. The
refinement mapping of `ImplementsBarrier` takes a federate as arrived when the RTI has its
achievement, and as let go when its object is SYNCHRONIZED.

### ThreadCoordinator

`threadState` is the array of states, `mainPc` and `childPc` the jobs of the frame the
threads are in; the mutex makes one poll one action (a look at one child is one iteration of
the loop of `wait_to_send_data_for_main_thread`). Frames are counted modulo `Period`, a
common multiple of the cycles. Trick's executive is external: `Advance` ends a frame when
the main thread and the scheduled children are through, and releases the threads that are
due. `Association` is the outcome of the initialization jobs (associated, disabled or not
associated). A shutdown may be announced at any time and ends the waits.

### SpaceFOMInit

`pc[f]` is where the initialization of `f` is; `MainStep` has one action per wait or job of
`early_...`, `designated_late_...`, `late_joining_hla_process`, `pre_multi_phase_...` and
`post_multi_phase_init_processes`. Points are `SyncPoints`' with two rounds; each step that
touches a point is an action of that module conjoined with the step's own changes. Objects:
`registered`, `subscribed`, `known`, and `queue[f][o]`, the updates reflected and not yet
taken. An update reaches those who have discovered the object by then. The master's
`handles` are those it saw when it looked, and go stale. A call that fails and ends the
program (`terminate_with_message`) is `Terminate`, for the RTI a federate that leaves.

### TimeAdvance

`requested`, `granted`, `adv` and `enabled` are the members of `TimeManagementServices`;
`calling[f]` says that a request is being made with `time_adv_state_mutex` held, before the
state is set to REQUESTED. `pc` runs through the setup and the jobs of a frame; the wait for
a grant is a guard of the first job after it (`Waited`), which, as in the code, is also open
when no request is outstanding because the RTI refused it. The RTI's side (`time`, `floor`,
`pending`, `answer`, `tso`) is external: it grants a time when no regulating federate can
still send something earlier - not earlier or equal, for a plain time advance request - and
reflects everything due before it grants. Times are small integers. Data is reduced to its
timestamp. Bound: `Span`; federates stop when all are further than that on their timelines.

### ModeTransitions

A frame is one step of time; `time[f]` is the granted time and `pc[f]` where the main thread is:
in a frame, in `freeze_init`/`freeze` and the loop of Trick's freeze mode, leaving it, or in
the shutdown. `sched[f]` and `stop[f]` are the times Trick was told to freeze and to end
(`the_exec->freeze`, `stop`); the executive, which acts on them at the end of a frame, is
external. Requests reach the master in two ways. An MTR interaction is handled by its callback
thread in the steps the code makes (`calling`; the flag is raised and `pending_mtr` set one
after the other, and `mtr` keeps both and what the main thread read); a click on its control
panel leaves a command (`cmd`) that Trick takes in freeze or at the end of a frame. What the
master announces, mode and time, is the ExCO (`exco`), on its way to everybody on `wire` for
at most `MaxDelay` frames; the others take it in a job of their frame. The `mtr_` points are
`SyncPoints`' with `Uses` rounds. `Scripts` are the requests that may be made, in any order and
at any time.

### ObjectData

The jobs of a frame are data: `main[f].jobs` is what is left of the frame for the main thread,
each job with its verb (send, receive, process, request), its kind of data and the set of
objects it has `left` to do, which it takes in the order they are declared (`Obj`). A step of a
job is one action: the test that clears the flag of the object before `send_mutex` is taken
(`SendExchange`, `SendCyclic`, `SendRequested`), the attributes made and sent (`BuildAndSend`),
the waits (`FirstRead`, `BlockingRead`, `DataArrives`, `ReadGivesUp`), the check that decodes
(`CheckData`) and the unpacking. `flags`, `cycle` and `copy` are the members of `Object` and
`Attribute`; `provide` is the callback thread between the flags of the attributes and that of
the object. An update is its number, an attribute the configuration that says when it is sent.
Interactions are handled in two steps: the front item is used without the mutex, and popped
afterwards. `Blocking[f]` are the objects `f` reads with `blocking_cyclic_read` set.
`owed` and `asked` are history. Within a frame the exchange of zero-lookahead and
blocking-I/O data is made by jobs of the user; `Exchange` and `Leader` say in which frames
and who sends first. A federate that leaves or is lost (`Depart`) has its objects deleted.

### Ownership

`owner`, `acquiring`, `offered` and `inbox` are the RTI's; `local[f]` is what a federate
believes (`locally_owned`), and what it sends. The flags `divesting`, `pulled`, `pushed` of
attributes and `divestRequested`, `pullRequested`, `acquired` of the object are set by callbacks
in two steps (attributes, then object: `flagged`) and read and cleared by `process_ownership` on
the main thread, in the critical sections the code has; an RTI call is made outside of them, and
`out` is what it gave away before that is marked. `threads[f]` are the threads started for a
push and for an offer (`pthread_create` at `Object.cpp:4507`, 4915 and 5041). `Starts` are the
ways federates come to own what they own: by configuration, by pull or push when they
initialize, and by `rejoin` (an attribute that somebody else got when the federate was lost).

### SaveRestore

`flag[f]` holds the members of `SaveRestoreServices` and of the execution control that the
callbacks set and the main thread polls, without a mutex; `pc[f]` is where the main thread is:
in Trick's freeze loop, dumping, or in one of the waits of a restore. `rti` is the save or
restore the RTI is doing, for whom it waits and who has begun. `disk` and `feds` are the files
a federate has. A save is asked for by a tool outside, a restore by a user who loads a
checkpoint at one of the federates, a dump is a save for oneself; a federate may be lost.
`Scripts` bound how often. Saves are asked for when nothing else is going on, restores when the
last one has been finished by all: what else happens is in section 6.

## 3. Runs

All runs exhaust the state space. Deadlock is not reported in any of them, because each
really stops: when the rounds are used up and everybody has left, when everybody runs, after
a shutdown, or when all are past `Span`.

| Run | Instance | What it shows |
|---|---|---|
| `sync_points` | 2 federates, 2 labels (one unknown to the second), 2 rounds, joining and leaving | `IndInv` (the invariant of the proofs), `NoLostAnnouncement`, `AnnouncedIsAwaited`, `NoLostSynchronization`; `ImplementsBarrier`; `EverybodyGoesOn` under fairness |
| `threads` | 5 children: disabled, not associated, with the main thread's cycle, and slower ones; cycles 1, 2, 3 | `IndInv`, `ReceiveIsExclusive`, `SendWaitsForChild`, `DoneMeansSent`; `ThreadsGoOn` under fairness |
| `threads_send_frame` | the same | *violated*, finding 1 |
| `startup` | master, early joiner that publishes the root frame, a late joiner, two multiphase points, fairness | `StartupInv`, `NoUpdateMissed`, `LateJoinerLearnsMode`; `UsesSyncPoints`: the startup is a use of `SyncPoints`; `EverybodyRuns` |
| `startup_lossy` | an early joiner that may be lost at any time, a designated late joiner | `InitCompletedIsLast`, `RunsTogether`, `AchieveNeverFails` |
| `mode_transitions` | a master that runs every frame and a federate that runs every other one; four scripts of freeze, run and shutdown by MTR and panel | `FreezeOnTime`, `RunTogether`; `EverybodySettles` under fairness |
| `mode_freeze_twice` | the same, two requests to freeze | *violated*, finding 3 |
| `time_advance` | two federates that exchange zero-lookahead data in every frame, and a late joiner with half their cycle and a lookahead, which may be refused one request and may be lost | `TimeInv` (grants match requests), `InStep`, `DataOfFrame`; `EverybodyGetsThrough` under fairness |
| `object_data` | master and another federate, an ExCO, a cyclic object each way that is read blocking, a zero-lookahead and a blocking-I/O object exchanged in the first frame, two interactions, a request for the ExCO; one of them may be lost | `ReceivedInOrder`, `HandledInOrder`, `RequestsAnswered`, `NoCyclicWait`; `EverybodyFinishes` under fairness |
| `ownership` | two federates, two attributes, four ways to start, three requests of users, one may be lost | `OwnershipInv`, `SendsAsOwner`; `PullsEnd`, `EverybodyStarts` under fairness |
| `ownership_lost_pull` | attributes asked for one by one | *violated*, finding 2 |
| `save_restore` | three federates, two save names; five scripts: saves with a dump, a save and a restore, two restores, a loss in either | `SaveRestoreInv`, `SavedTogether`, `RestoredTogether`; `EverybodyReturns` under fairness |

Why the bounds suffice. The protocols treat federates alike but for the registrar or master; two
are enough for every pair of steps to race, the third in the startup is the one whose role is
open. Two rounds of a point and two multiphase points show re-use and order. The thread run has
one child of each kind and cycle, and `Period` is the whole pattern of frames before it repeats.
The objects that are read blocking in `object_data` are sent in every frame, as its theorem
assumes; data sent in every second frame is left to the proofs. Two attributes are what it takes
for a callback about one to meet the handling of the other, and two frames for a cyclic job to
meet what the one before left behind. The scripts of `mode_transitions` and `save_restore` hold
every pair of operations that may overlap. In `time_advance` the two cycles give frames that
only one side has, and `Span` lets each federate run for at least a data cycle of the other one
after joining.

Properties that are more than one module: `UsesSyncPoints` makes the guarantees of
`SyncPoints` (and their proofs, for its contract) available to the startup; the mutants of
the startup change the startup's code and not the points.

## 4. Fairness

Every liveness property assumes weak fairness only, and of what the code or its environment
does give: the main thread of a federate goes on (its waits are loops that sleep and look
again, and Trick and the operating system schedule it), an RTI call returns, callbacks are
delivered (on the RTI's own thread, `HLA_IMMEDIATE`), the RTI announces, synchronizes and
grants what is due. Nothing forces a federate to leave, to be lost, to be refused a request
or to register a point. `EverybodyRuns` excepts a federation that a late joiner
has joined before the master runs, which may wait for ever, and `EverybodyGoesOn`
a point that somebody has overlooked (both in section 6). That a program achieves what is announced
to it (`Achieve` is weakly fair in `SyncPoints`) is the contract's; the startup has only the
fairness of its main threads. In `object_data` the
timer of a blocking read is not counted on: the reads end by data or by the deletion of the
object.

Three more liveness properties stop where the code really does not go on, and do not show more than
that. `EverybodyFinishes` excepts whoever waits for exchanged data of a lost federate, and those
who wait for it (`Deserted`; the hazard at `Federate.cpp:3204`). `EverybodyReturns` excepts
everybody as soon as one federate is in one of the waits of `Blocked`: a restore that fails, or
loses a federate, before it has begun, and a load that is refused are therefore not shown to
end (the hazards at `ExecutionControlBase.cpp:1481` and `SaveRestoreServices.cpp:1622`); that
those who have begun end is. `EverybodySettles` is checked with scripts in which the master
does not meet the value of an earlier request in `pending_mtr` (the hazard at `EC:1703`).

## 5. Proofs

Proved for every value of the constants, from the assumption named in each module and nothing
else:

* `SyncPointsProofs`: `Spec => []IndInv` (`Invariance`), type correctness, and from them
  `NoLostAnnouncement`, `AnnouncedIsAwaited` and `NoLostSynchronization`: any number of
  federates, labels and rounds, with joining and leaving, and with waits for labels a federate
  does not name.

  None of the properties is inductive. Whether an announcement is lost when `REGISTERED` is
  assigned depends on the order of the callbacks in the inbox and on the call in progress.
  `IndInv` therefore says, besides types, which callbacks can be pending together and in what
  order (`QueueInv`), what the RTI's record of a point allows (`RtiInv`), what holds of
  federates that are not in (`LifeInv`), and, for each pair of federate and label, the
  states that each stage of the RTI's record allows, split into a member (`MemberInv`), the
  registrar (`RegistrarInv`) and a federate that does not name the label (`UnrecognizedInv`:
  its object says ANNOUNCED only inside the call that achieves it).
  Lemmas about appending to and taking from an inbox come first, then `Settle` (the RTI's
  decision that a point is synchronized) once, then one lemma per action.

  `Spec => ImplementsBarrier` (`PointsAreBarriers`) is a step simulation: every step of
  `SyncPoints` is one of `SyncBarrier` or changes nothing of it. `Settle` is refined once
  (`SettleRefines`), after it is shown whom it lets go (`FreedSame`); then one lemma per action.
  `IndInv` is what excludes that a late callback takes a federate back.

* `ThreadCoordinatorProofs`: `ReceiveIsExclusive` and `SendWaitsForChild` for any number of
  children and any cycles. The core is arithmetic: `BoundariesMeet` says that the send boundary
  of a cycle is the frame before a receive boundary, which is why a wait at the one protects
  the copy at the other. The invariant relates the place of a child to its thread state and
  to the frame.
  `DoneIsSent` adds to it what the announcement that data was sent says of a child with the main
  thread's cycle.

* `SpaceFOMInitProofs`: the startup is a use of `SyncPoints` (`StartupUsesPoints`, the property
  `UsesSyncPoints`), for any federates, late joiners and losses, and hence has its guarantees
  (`PointsServeStartup`). It cites the theorems of `SyncPointsProofs` for the points of the
  startup, and adds what the contract asks of the user: only the master registers, and no label
  that has been registered before (`MasterInv`, with `FreshInv` of `SyncPointsProofs`, which says
  what is true of a label nobody has registered), and a federate achieves what is announced to
  it. It assumes that nobody is designated to join late (`NobodyDesignated`): the callback thread
  of such a federate achieves the points by itself while its main thread may be at `mtr_run`
  (`EC:479`), and then the contract is really broken.

  From there every safety property of the startup that the runs check: `StartupInv`
  (`StartupHolds`), `AchieveNeverFails` (`AchieveSucceeds`), `InitCompletedIsLast`
  (`CompletedIsLast`), `RunsTogether` (`EarlyJoinersRunTogether`), `LateJoinerLearnsMode`
  (`LateJoinersLearnMode`) and `NoUpdateMissed` (`UpdatesReachAll`). Their common invariant is
  `StartInv`. None of its parts is inductive without the others:
  - `PlaceInv`, `DataInv`, `RoleInv`: where a federate may be and what it may know, by its role;
    `View` says once what any step, its own or another's, does to one federate.
  - `PointsInv`: each point is registered once, all of the startup by the time the master goes
    on, and for the same federates (`Wanted`): those with a handle, or everybody.
  - `ProgramInv`: the places of an early joiner have a rank; it has achieved what it is past, has
    been let through it, and has been told of what it comes to. `AchievedInv` says what the
    others have achieved.
  - `CountInv`: the federation waits for the master at each point, so the point of a place the
    master has not passed is not over; `mtr_run` waits for every early joiner.
  - `OrderInv`: in the queue of a federate the announcement of a multiphase point comes before
    the synchronization of `root_frame_discovered`: by then the point is active, since the
    master has yet to go through it, and its members are those of `root_frame_discovered`.
  - `UpdatesInv`: what an early joiner has taken of the ExCO and what is on its way to it are the
    updates the master has sent, the n-th of them with the n-th mode; so the one by which it goes
    on is the third. `ExCOInv` and `LateInv` say who is sent none.
  - `RequiredInv`: with required federates, an early joiner has a handle, and the federation
    waits for it at each point. Without required federates one may join while the master is
    past `objects_discovered` and take itself for early (`initialization_started` is still
    open): it has missed an update, and waits for an announcement that is over.
    `UpdatesReachAll` therefore assumes `Required # {}`; the list of required federates is in
    use by default (`FD:139`).
  `SyncPointsProofs` has a part for this use: what a step keeps of one federate and one point when
  labels are registered once (`OnceInv`, `Keeps`), who is told of a synchronization and when
  (`ToldTogether`), and in which order two callbacks stay in a queue (`Behind`).

* `ModeTransitionsProofs`: `FreezeOnTime` (`FreezesOnTime`) and `RunTogether`
(`NobodyRunsAhead`), for any federates, data cycles, paddings and delays of the ExCO. The `mtr_`
points have no contract to rely on, but the master registers them only when they are not in use
(`Idle`), so the invariant of `SyncPointsProofs` holds of them and is used through `INSTANCE`;
`PointsInv` adds who has achieved what. Of the rest, `Inv`, no part is inductive without the
others: - `PlacesInv`, `ActingInv`, `RequestsInv`: where the main threads may be, what the
master is about to do, and which requests can still come. - `TimeInv`: the pace. Time goes on in
steps of a federate's data cycle, and nobody is further ahead of another than what both have
asked for allows; so a freeze time one padding ahead of the master is still ahead of everybody.
- `Phase`: no freeze is on its way (`ClearPhase`), its time is set and not yet sent
(`SetPhase`), or it is coming (`ComingPhase`). In the last, each federate is at one stage: the
update is sent and arrives in time (`StageSent`), is in its queue (`StageTold`), has been taken
and Trick told when to stop (`StageDue`), or it is in the freeze at that time (`AtFreeze`), or
ending (`Ending`). Nobody is past the freeze time in any of them, and who has left the freeze
has seen `mtr_run` go through, for which all the others have come to it.

  `Inv` was checked on three small instances before it was proved. `RunTogether` had an exception
  for federates that shut down; the proof did not need it, and it is gone from the property.
  The theorems assume `FreezeAssumption`:
  - The padding is at least two steps of the master. `set_time_padding` asks for three least common
    time steps (`EC:3085`) unless the padding is half a second or more, so this leaves out only
    a padding that is long and still a single step of the master; with it a freeze by panel
    finds others past the time (section 6), as TLC shows.
  - `OneAtATime`: a freeze is asked for by MTR once, or by the panel; with a shutdown by MTR only by
    the panel and once. Otherwise a shutdown may overtake a freeze that is on its way, or a second
    freeze the first (finding 3), and TLC finds `RunTogether` violated. The scripts of
    `mode_transitions` are of this kind, that of `mode_freeze_twice` is not.

* `TimeAdvanceProofs`: a federate waits for a grant exactly when the RTI has its request for that
  time or the grant is coming (`RequestsAreAnswered`), with types and places this is `TimeInv`
  (`TimesAreSound`), and a federate in a frame it waited for is
  at the logical time of the frame (`FramesAreInStep`, the property `InStep`), for any federates,
  cycles and lookaheads, with late joiners, refusals and losses. The invariant says for each place
  in the setup and the frame which request is out and for which time. `FramesAreInStep` assumes
  `LookaheadIsStep`, that every lookahead is zero or the data cycle: shorter ones are accepted
  and lag (section 6).

  A frame has the data of its time (`FramesHaveTheirData`, the property `DataOfFrame`). Its
  invariant, `DataInv`, is about one federate, or about what one has of another:
  - `ClockInv`, `EnabledInv`, `PaceInv`: the logical time of a federate, what it is promised, that
    it regulates and is constrained in its frames as configured, and that its time is that of the
    frame, or of the one before, as long as no request of it is refused.
  - `Promise`: what the RTI has promised f, every other regulating federate keeps: no timestamp of
    it will be smaller (`PromiseStep`). This is where the three rules of the RTI's time management
    come together: how far it may take f, how late it lets one become regulating, and that nobody
    asks for an earlier time than it has.
  - `CyclicInv`: what f has of g, or the RTI keeps for it, g has sent (`SentInv`); what is kept is
    ahead of f (`AheadInv`); and of all g has sent since f listens nothing is missing (`DueInv`).
    `Sent(g)` is a function of the frame g is in, so that only `Send` and `Align` change it.
  - `ZeroInv`: zero-lookahead data of f comes from its source, for frames that f has yet to take it
    for and the source has sent it for (`NextTake`, `NextZero`), and of each frame once.

  `DataInv` was checked as an invariant of four small instances before it was proved, and the proof
  corrected the property twice, as TLC confirmed: after a refused request of the source the data
  that is taken need not be of the frame of f, and a late joiner with zero lookahead has
  in its first frames the same exception as others have later. The theorem assumes
  `DataAssumption`, and each part is needed; TLC finds a counterexample without it:
  - `LookaheadIsStep`, as above.
  - `SameCycle`: a source of zero-lookahead data has the data cycle of those that wait for it.
    Nothing in the code compares them (section 6).
  - `Joinable`: with late joiners, whoever regulates is constrained too, and one regulating early
    joiner stays. A federate that is not constrained may be frames ahead of the boundary a late
    joiner goes to, and data of those frames is not sent again; and when nobody regulates there
    is no boundary, so a late joiner begins where it is.

* `ObjectDataProofs`: `ReceivedInOrder` (`UpdatesArriveInOrder`) and `RequestsAnswered`
  (`RequestsGetAnswered`) for any federates, objects, configurations and frames. For the first,
  `InOrder` is kept by each thing done to a copy (decode, unpack, reflect) and by a send; the
  invariant adds that the jobs that send are of a federate's own objects and that whoever is
  about to unpack has something decoded. For the second, the last job of a frame is the cyclic
  one, and as long as something of an object is owed its owner has yet to come to it there
  (`Owing`); for the ExCO the flag of the object is up, or its attributes are being built.

  `HandledInOrder` (`InteractionsInOrder`) filters a sequence by sender; the proof says the same of
  positions instead, for every sender: what has been handled of it are its first so many, the
  queue and the wire hold the next ones in order, and an item that was used and is not yet
  popped is still the front of the queue.

  `NoCyclicWait` (`NobodyWaitsInACircle`): a federate that is blocked in a cyclic read has sent,
  in this frame or the one before, what the others wait for; ordered by when each began its last
  sending, the one that is blocked is later than the one it waits for; a finite set of federates
  has a first one, so they cannot all wait for one of the set. It assumes `EveryCycle`: an object
  that is read blocking is sent in every cycle. With a longer cycle for the attribute the theorem
  is false (three frames and a ratio of two are enough for TLC to find two federates that wait for
  each other until the timer of the read ends it; section 6).

* `OwnershipProofs`: `OwnershipInv` is its own strengthening: types, what a federate believes to
  own and does not (`BeliefInv`), which notices are on their way (`NoticeInv`), who is asking
  (`AcquiringInv`), what a rejoining federate may find (`RejoinInv`) and that no divestiture is
  overlooked (`NoLostDivest`). Each RTI call is summarised once (`RtiStep`), and one lemma per
  step of a federate uses the summary. `SendsOnlyItsOwn` and `DivestituresAreSeen` follow.

* `SaveRestoreProofs`: all the safety properties of the runs, for any federates, labels, saves,
  restores, dumps and losses: `SavedTogether` (`EverybodySaved`), `SaveRestoreInv`
  (`EndsAreKnown`) and `RestoredTogether` (`EverybodyRestored`).

  For `SavedTogether` the invariant relates, for each federate (`Saving(f)`), who the RTI waits
  for to the flags, the callbacks on their way and the place of the main thread, so that whoever
  reports a save has written the file of that name.

  The other two need `RInv`, because what a federate takes for the current restore may be
  left over from the one before: flags are polled, and nothing numbers the restores.
  - `BeginInv`, `EndInv`: a call to save or restore that is still in the inbox, or the flag it has
    set, is of what the RTI is doing, or has the end of it behind it.
  - `WholeInv`: as long as nobody has left, nothing has failed and every save is of the whole
    federation; a restore is granted to nobody else, so during one nobody has left.
  - `Restoring`: during a restore each federate has the call to load ahead of it (with
    only what is older before it) or has been told, and the RTI waits for it exactly until it waits
    for the others, having loaded for this one.
  - `Restored`: from the last one's report on, until everybody has taken up what was restored,
    nobody does anything else; the first to go on may not start another. `Calm` is what holds
    otherwise. `PhaseInv` says when each of the three does.
  - `StatusInv`, `FileInv`, `BegunInv`: the answer on its way is to the question being asked, what is
    asked for is the label of a save, and a restore that has begun has not completed.

  A step of one federate is compared with all of these once (`StepFits`; `OwnStep` if it
  takes and sends nothing); the steps of which the RTI tells everybody (a save or restore
  requested, its last report, a federate lost) have a lemma each.

Every safety invariant that a passing run checks is stated by one of these theorems, and so is
every safety property that is temporal (`ImplementsBarrier`, `UsesSyncPoints`).

Only model-checked: all liveness (fairness and ENABLED are out of the prover's reach), and the
startup with designated late joiners. What a recursive definition computes for every input could
not be proved with the installed provers; no module that is proved about has one.

## 6. Findings

1. `Manager.cpp:2383`: for a child slower than the main thread, data is sent in the first
   frame of the child's cycle, while the child computes, and not in the last one, for which
   the main thread waits (`threads_send_frame`).
2. `Object.cpp:4479`: `grant_pull_request` clears the object's `pull_requested` in a critical
   section of its own, after the one that takes the attributes' flags; a request that comes in
   between is never granted (`ownership_lost_pull`).
3. `EC:1769`: a second `MTR_GOTO_FREEZE` within the time padding registers `mtr_freeze` again; the
   refusal takes the point back to REGISTERED after its announcement, and master and federation
   wait for ever (`mode_freeze_twice`).

`PROJECT.json` quotes the documentation each of them departs from.

Seen, and not a run. These came up while the code was translated; where the models would meet
one, the instances or the properties leave it out, as said.

*Points.*
* `SyncPointManagerBase.cpp:616`: an unrecognized label that is already in the Unknown list is to be
  marked announced and achieved ("Mark any sync-point already in the Unknown list as announced
  so that it will be achieved", 617; "seen before but still unrecognized", 895), but the
  comparison with the list's name is the wrong way round and it is left as it is. There are two
  ways into that list before an announcement: a wait for the label puts it there (547, 678),
  and so does its first announcement, when that was achieved. The federate is then waited for at
  the point for ever. `SyncPoints` has both ways (`Track`, and labels used again), and the
  properties name what comes of them: without `HeldUp` in `EverybodyGoesOn`, or `Overlooked` in
  `NoLostAnnouncement`, TLC finds either.
* For the same reason a label of a named list that is achieved a second time is marked announced
  again.

*Startup.*
* `EC:2213`: a late joiner that has joined before the master registers `mtr_run` is a member of
  that point, which the comment at `EC:1267` excludes ("Late joiners do NOT use the 'mtr_run'
  sync-points at initialization"). It waits for the ExCO of a running master, the others wait
  for it at the point, and nobody runs; without the second disjunct of `EverybodyRuns` TLC finds it.
* `EC:704`: without required federates the startup points are registered for everybody, and a
  federate that joins between two of them takes itself for an early joiner (comment at
  `EC:701`) and waits for the first of them for ever.
* `EC:479`: the callback thread of a designated late joiner achieves `mtr_run` by itself when its
  main thread may be about to do so.
* IMSim, which is not modelled: `IMSim/ExecutionControl.cpp:850` asks for a point that
  `add_initialization_sync_points` has always added before (298), so a federate never finds
  out there that it is late; the master's restore at startup (430) sets `restore_process` after
  the request returned, and may overwrite the answer it then waits for.

*Time and threads.*
* `time/TimeManagementServices.cpp:1074`: the time asked for in each frame is the lookahead, though
  only lookahead <= cycle is verified; with a shorter lookahead logical time falls behind.
* A federate with zero lookahead takes a time as soon as it is available and may run a frame
  before a federate with positive lookahead has sent its data for it; `DataOfFrame` says when.
* A federate that waits for zero-lookahead data takes one update per frame, of whatever frame of
  the sender: nothing compares their data cycles, and with different ones the data is not of the
  frame it is taken in.
* A SCHEDULED child slower than the main thread can miss its window (the comment at
  `TrickThreadCoordinator.cpp:606` warns of overruns), so the slow children of `threads` are
  asynchronous-must-finish.
* A child with the main thread's cycle and no objects is accepted (comment at
  `TrickThreadCoordinator.cpp:567`) but keeps a base cycle time of 0, and the check of the time
  constraints (`Federate.cpp:510`) ends the federate; `refresh_thread_base_times` (791) does
  the same to the main thread if it has no objects.

*Modes.*
* With a padding of one least common time step, the update of the ExCO may come after the
  freeze time it names; `THLA_PADDING_DEFAULT` is 0.5 s, where the comment at `EC:3088` says two
  seconds. `ModesAssumption` takes a padding the update arrives in. If that is also a single
  step of the master, another federate may be past the freeze time when it is set.
* A freeze clicked between the job `end_of_frame` and Trick's own check freezes the master alone.
* The MTR flag is raised before `pending_mtr` is set (`EC:1703`), and the master may act on an old
  value; `MTR_GOTO_SHUTDOWN` while frozen sets a stop time that is not reached; a freeze clicked
  at a federate that is not the master hangs in its freeze transition. The scripts exclude
  the three.

*Data and ownership.*
* The waits for zero-lookahead, blocking-I/O and initial data of an object whose owner is lost do
  not end (`Federate.cpp:3310`, against the comment at `Object.cpp:715`): `Deserted`.
* `Object.cpp:3061` skips the blocking read once, which is enough for data sent in every cycle.
  Two federates that read each other's data blocking, each sent every second cycle, wait for
  each other until the timer of the wait ends it: the read does not know the cycle ratio.
* `blocking_cyclic_read` stays off when a removed object is discovered again. An object with
  cyclic and blocking-I/O attributes, whose cyclic read may take what the other wait needs,
  is not modelled.
* `publish_data` is off during a restore only; the comments at `Object.cpp:2094` and 2345 say
  during a save or restore.
* A negotiated divestiture of a set fails as a whole when one attribute is not owned
  (`Object.cpp:4697`). An offer that comes while the taker has not yet marked what it gave
  away is ignored, and the push stays offered.
* A pull during initialization without a list asks for all attributes that are not owned, published
  or not (`Object.cpp:4160`); the RTI refuses the request as a whole when one is not published, and the
  wait for `acquired` that follows does not end (4226). `EverybodyStarts` is checked with
  everything published.
* `ownership_rejoin` holds `ownership_mutex` over its wait (`Object.cpp:5508`), so the callback
  with the second part of an answer is never let in.

*Save and restore.* The SpaceFOM execution control reports saves and restores as not supported
(the default of `ExecutionControlBase.hh:712`), so what `SaveRestore` models is reached in a federation
with IMSim's only; the code itself is that of `ExecutionControlBase` and
`SaveRestoreServices`.
* A federation saved by the RTI has its list of federates in a file with an empty name
  (`ExecutionControlBase.cpp:1032`, 1180), and loading it ends the program because the file of
  the save is missing.
* Waits that do not end are named in `Blocked`: a load while a save is going on, a load that is
  refused, a save after a dump (`announce_save` stays set), a federate lost while the
  others wait for the required ones, a restore that fails before it has begun.
* `federation_restore_failed_callback_complete` is never reset: after one failed restore every
  later one ends the program. `federationNotRestored` that comes between `perform_restore`'s
  check and `setup_restore` makes the federate the announcer of a new restore.
* `Federate.cpp:4212`: `remove_MOM_HLAfederate_instance_id` looks for a federate whose name is *not*
  the one given, so the list of running federates loses the wrong one.

## 7. What is not modelled

* Inside what is modelled: registration failures other than a label in use; the loops over all
  points of a list; freeze, shutdown and mode requests during startup; a late joiner or a lost
  federate in a mode transition; federates without time management; base-time conversions; a
  change of the lookahead at run time; lag compensation and conditional attributes, which change
  what an update holds and not when it is sent; saves and restores during a mode transition.
* Timed points (`SyncPointTimed`): no execution control of the repository adds one.
* The default execution control: it has no startup protocol and no modes. IMSim's: its startup
  and mode transitions follow SpaceFOM's with fewer roles; what is IMSim's own (scenario freeze,
  federation save by point) is left out, and `SaveRestore` is the part of the base classes that
  only IMSim's federations use.
* Connecting, creating and destroying the federation execution: sequences of RTI calls with
  retries, with no state of TrickHLA's own between them.
* Encoders, SpaceFOM data types, JEOD, example models and simulations, scripts, FOM files:
  conversions and numerical code, no control that lasts over calls. They are most of the lines
  of the repository.

## 8. What could come next

1. A designated late joiner in the proofs of the startup, for which `SyncPoints` would have to say
   what it guarantees when a point is achieved by two threads of one federate.
2. `ThreadAssociation`: the initialization jobs that give `ThreadCoordinator` its constants, and the
   time constraints they verify; base-time arithmetic as pure functions.
3. IMSim's scenario freeze and federation save; timed points.
4. `FederateLifecycle`: joining, rejoining, resigning and destroying, with the list of running
   federates.
