----------------------------- MODULE ObjectData -----------------------------
(***************************************************************************)
(* The exchange of object attributes and interactions between federates.   *)
(*                                                                         *)
(* A federate has two threads: the main thread runs the jobs of the frame  *)
(* (TrickHLA::Manager and TrickHLA::Object), and the callback thread of    *)
(* the RTI puts what comes in on queues and raises flags.  Every object    *)
(* has one owner, which sends it, and is received by all the others.  An   *)
(* update is its number among those of its object, and an attribute is     *)
(* the "config" that says when it is sent.                                 *)
(***************************************************************************)
EXTENDS Naturals, Sequences, FiniteSets

CONSTANTS
  Federates,       \* the federates that have joined
  ObjectList,      \* the objects, in the order every federate declares them
  Owner,           \* Owner[o]: the federate that created o and owns it
  Config,          \* Config[o]: the configurations of the attributes of o
  ExCO,            \* the objects that are an ExecutionConfiguration
  Blocking,        \* Blocking[f]: the objects with blocking_cyclic_read at f
  Ratio,           \* Ratio[o]: cycle_ratio of the cyclic attribute of o
  Exchange,        \* Exchange[n]: the kinds of data exchanged within frame n
  Leader,          \* the federate that sends first in that exchange
  Lossy,           \* the federates that may be lost
  MaxRequests,     \* MaxRequests[o]: bound on the requests for an update of o
  MaxInteractions  \* MaxInteractions[f]: bound on the interactions f sends

Kinds == {"initialize", "cyclic", "zero_lookahead", "blocking_io"}
Objects == {ObjectList[i] : i \in DOMAIN ObjectList}
Frames == Len(Exchange)

ASSUME ObjectsAssumption ==
  /\ ObjectList \in Seq(Objects)
  /\ \A i, j \in DOMAIN ObjectList : ObjectList[i] = ObjectList[j] => i = j
  /\ Owner \in [Objects -> Federates]
  /\ Config \in [Objects -> SUBSET Kinds]
  /\ ExCO \subseteq {o \in Objects : Config[o] = {"initialize"}}
  /\ Ratio \in [Objects -> Nat \ {0}]
  /\ MaxRequests \in [Objects -> Nat]

ASSUME FederatesAssumption ==
  /\ IsFiniteSet(Federates)
  /\ Leader \in Federates
  /\ Blocking \in [Federates -> SUBSET Objects] /\ Lossy \subseteq Federates
  /\ Exchange \in Seq(SUBSET {"zero_lookahead", "blocking_io"})
  /\ MaxInteractions \in [Federates -> Nat]

VARIABLES
  main,      \* main[f]: what is left of the frame for the main thread of f
  gone,      \* the federates that have left or are lost
  sent,      \* sent[o]: the number of updates of o sent
  flags,     \* flags[o]: attr_update_requested of o and of its attributes
  cycle,     \* cycle[o]: cycle_cnt of the cyclic attribute of o
  provide,   \* provide[o]: the callback has flagged the attributes of o only
  owed,      \* owed[o]: attributes asked for, and not sent since
  asked,     \* asked[o]: the requests for an update of o made, and delivered
  wire,      \* wire[g][o]: the updates of o, and its removal, on their way to g
  copy,      \* copy[g][o]: what g holds of o
  mail       \* mail[g]: the interactions on their way to g, and in its queue

vars == <<main, gone, sent, flags, cycle, provide, owed, asked, wire, copy, mail>>
ownerVars == <<sent, flags, cycle, provide, owed, asked>>

-----------------------------------------------------------------------------
(* The jobs of a frame, in the order of the simulation modules.  The       *)
(* exchange within a frame is made by jobs of the user, which call the     *)
(* federate to send and to wait.                                           *)

Remote(f) == {o \in Objects : Owner[o] # f}
Local(f) == {o \in Objects : Owner[o] = f}
Having(objects, kind) == {o \in objects : kind \in Config[o]}

\* Objects are taken in the order they are declared.
Place(o) == CHOOSE i \in DOMAIN ObjectList : ObjectList[i] = o
First(objects) == CHOOSE o \in objects : \A p \in objects : Place(o) <= Place(p)

Job(verb, kind, objects) == [verb |-> verb, kind |-> kind, left |-> objects]

Send(f, kind) == Job("send", kind, Having(Local(f), kind))
Receive(f, kind) == Job("receive", kind, Having(Remote(f), kind))

\* Initialization: send_init_data, receive_init_data.
InitJobs(f) == <<Send(f, "initialize"), Receive(f, "initialize")>>

Swap(f, kind) ==
  IF f = Leader THEN <<Send(f, kind), Receive(f, kind)>>
                ELSE <<Receive(f, kind), Send(f, kind)>>
SwapIf(f, n, kind) == IF kind \in Exchange[n] THEN Swap(f, kind) ELSE <<>>

\* The cyclic jobs also serve the ExecutionConfiguration.
FrameJobs(f, n) ==
  <<Job("process", "interactions", {}), Job("process", "deleted", {}),
    Job("send", "interactions", {}), Job("request", "updates", {}),
    Job("receive", "cyclic", {o \in Remote(f) : o \in ExCO \/ "cyclic" \in Config[o]})>>
  \o SwapIf(f, n, "zero_lookahead") \o SwapIf(f, n, "blocking_io")
  \o <<Job("send", "cyclic", Local(f))>>

Running(f) == f \notin gone /\ main[f].jobs # <<>>
Doing(f) == Head(main[f].jobs)
Does(f, verb, kind, at) ==
  Running(f) /\ Doing(f).verb = verb /\ Doing(f).kind = kind /\ main[f].at = at
Obj(f) == First(Doing(f).left)
HasObj(f) == Doing(f).left # {}

\* The main thread of f goes on within the job, or with its next object.
GoTo(f, at) == main' = [main EXCEPT ![f].at = at]
NextObject(f) ==
  main' = [main EXCEPT ![f].at = "start", ![f].jobs[1].left = @ \ {Obj(f)}]

\* The job is done: the next one, or the next frame.
NextJob(f) ==
  LET rest == Tail(main[f].jobs)
      n == main[f].frame + 1
  IN main' = [main EXCEPT ![f] =
       IF rest # <<>> \/ n > Frames
       THEN [frame |-> main[f].frame, at |-> "start", jobs |-> rest]
       ELSE [frame |-> n, at |-> "start", jobs |-> FrameJobs(f, n)]]

Init ==
  /\ main = [f \in Federates |-> [frame |-> 0, at |-> "start", jobs |-> InitJobs(f)]]
  /\ gone = {}
  /\ sent = [o \in Objects |-> 0]
  /\ flags = [o \in Objects |-> [object |-> FALSE, attributes |-> {}]]
  /\ cycle = Ratio
  /\ provide = [o \in Objects |-> FALSE]
  /\ owed = [o \in Objects |-> {}]
  /\ asked = [o \in Objects |-> [made |-> 0, delivered |-> 0]]
  /\ wire = [g \in Federates |-> [o \in Objects |-> [updates |-> <<>>, removed |-> FALSE]]]
  /\ copy = [g \in Federates |-> [o \in Objects |->
       [queue |-> <<>>, decoded |-> 0, seen |-> 0, deleted |-> FALSE,
        blocking |-> o \in Blocking[g] \ ExCO, first |-> TRUE]]]
  /\ mail = [g \in Federates |-> 
       [sent |-> 0, wire |-> <<>>, queue |-> <<>>, seen |-> [f \in Federates |-> 0]]]

-----------------------------------------------------------------------------
(* Sending.  The test is made, and the flag of the object is cleared,      *)
(* before send_mutex is taken; the set of attributes is made and sent      *)
(* under it.                                                               *)

\* The attributes of o a job sends: those of its kind that are due,
Due(o, kind) ==
  {a \in Config[o] \cap {kind} : kind # "cyclic" \/ Ratio[o] = 1 \/ cycle[o] = 0}

\* (mutant of Requested) The cyclic job does not include the requests.
RequestedNotCyclic(o, kind) ==
  IF kind = "zero_lookahead" THEN flags[o].attributes ELSE {}

\* and the requested ones where the job includes them.
Requested(o, kind) ==
  IF kind \in {"cyclic", "zero_lookahead"} THEN flags[o].attributes ELSE {}

\* Object::send_zero_lookahead_and_requested_data, send_blocking_io_data.
SendExchange(f) ==
  /\ \/ Does(f, "send", "zero_lookahead", "start")
     \/ Does(f, "send", "blocking_io", "start")
  /\ HasObj(f)
  /\ flags' = [flags EXCEPT ![Obj(f)].object = FALSE]
  /\ GoTo(f, "build")
  /\ UNCHANGED <<gone, sent, cycle, provide, owed, asked, wire, copy, mail>>

\* Object::send_init_data.
SendInit(f) ==
  /\ Does(f, "send", "initialize", "start") /\ HasObj(f)
  /\ GoTo(f, "build")
  /\ UNCHANGED <<gone, ownerVars, wire, copy, mail>>

\* Object::send_cyclic_and_requested_data: the check counts the cycles.
SendCyclic(f) ==
  /\ Does(f, "send", "cyclic", "start") /\ HasObj(f) /\ Obj(f) \notin ExCO
  /\ LET o == Obj(f)
         count == IF Ratio[o] = 1 \/ cycle[o] + 1 >= Ratio[o] THEN 0 ELSE cycle[o] + 1
     IN /\ flags' = [flags EXCEPT ![o].object = FALSE]
        /\ cycle' = [cycle EXCEPT ![o] = count]
        /\ IF Requested(o, "cyclic") # {} \/ ("cyclic" \in Config[o] /\ count = 0)
           THEN GoTo(f, "build")
           ELSE NextObject(f)
  /\ UNCHANGED <<gone, sent, provide, owed, asked, wire, copy, mail>>

\* Object::send_requested_data, for the ExecutionConfiguration: only if the
\* flag of the object is up.
SendRequested(f) ==
  /\ Does(f, "send", "cyclic", "start") /\ HasObj(f) /\ Obj(f) \in ExCO
  /\ LET o == Obj(f)
     IN /\ flags' = [flags EXCEPT ![o].object = FALSE]
        /\ IF flags[o].object /\ flags[o].attributes # {}
           THEN GoTo(f, "build")
           ELSE NextObject(f)
  /\ UNCHANGED <<gone, sent, cycle, provide, owed, asked, wire, copy, mail>>

\* create_attribute_set and updateAttributeValues.
BuildAndSend(f) ==
  /\ Running(f) /\ main[f].at = "build"
  /\ LET o == Obj(f)
         attributes == Due(o, Doing(f).kind) \cup Requested(o, Doing(f).kind)
     IN /\ flags' = [flags EXCEPT ![o].attributes = @ \ attributes]
        /\ owed' = [owed EXCEPT ![o] = @ \ attributes]
        /\ IF attributes = {}
           THEN UNCHANGED <<sent, wire>>
           ELSE /\ sent' = [sent EXCEPT ![o] = @ + 1]
                /\ wire' = [g \in Federates |->
                     IF g = f \/ g \in gone THEN wire[g]
                     ELSE [wire[g] EXCEPT ![o].updates = Append(@, sent[o] + 1)]]
  /\ NextObject(f)
  /\ UNCHANGED <<gone, cycle, provide, asked, copy, mail>>

-----------------------------------------------------------------------------
(* Receiving.  Object::is_changed takes the next update off the queue when *)
(* the last one has been handled.                                          *)

Ready(c) == c.decoded # 0 \/ c.queue # <<>>
\* (mutant of IsChanged) Decodes although the last update is not handled.
DecodesNext(c) ==
  IF c.queue = <<>> THEN c ELSE [c EXCEPT !.decoded = Head(c.queue), !.queue = Tail(c.queue)]
IsChanged(c) ==
  IF c.decoded # 0 \/ c.queue = <<>> THEN c
  ELSE [c EXCEPT !.decoded = Head(c.queue), !.queue = Tail(c.queue)]

\* Unpack the data and mark_unchanged.
Unpack(c) == [c EXCEPT !.seen = c.decoded, !.decoded = 0]

Copy(f) == copy[f][Obj(f)]
SetCopy(f, c) == copy' = [copy EXCEPT ![f][Obj(f)] = c]

\* (mutant of FirstRead) The first read blocks as well.
FirstReadBlocks(f) ==
  /\ Does(f, "receive", "cyclic", "start") /\ HasObj(f)
  /\ Copy(f).blocking /\ Copy(f).first
  /\ SetCopy(f, [IsChanged(Copy(f)) EXCEPT !.first = FALSE])
  /\ GoTo(f, "wait")
  /\ UNCHANGED <<gone, ownerVars, wire, mail>>

\* The first read of cyclic data that would block is skipped if there is
\* nothing to read.
FirstRead(f) ==
  /\ Does(f, "receive", "cyclic", "start") /\ HasObj(f)
  /\ Copy(f).blocking /\ Copy(f).first
  /\ SetCopy(f, [IsChanged(Copy(f)) EXCEPT !.first = FALSE])
  /\ IF Ready(Copy(f)) THEN GoTo(f, "wait") ELSE NextObject(f)
  /\ UNCHANGED <<gone, ownerVars, wire, mail>>

BlockingRead(f) ==
  /\ Does(f, "receive", "cyclic", "start") /\ HasObj(f)
  /\ Copy(f).blocking /\ ~Copy(f).first
  /\ GoTo(f, "wait")
  /\ UNCHANGED <<gone, ownerVars, wire, copy, mail>>

\* A wait ends with data: in Object::receive_cyclic_data, or in the waits of
\* Manager::receive_init_data and Federate::wait_to_receive_*.
DataArrives(f) ==
  /\ \/ Does(f, "receive", "cyclic", "wait")
     \/ \E kind \in Kinds \ {"cyclic"} : Does(f, "receive", kind, "start")
  /\ HasObj(f) /\ Ready(Copy(f))
  /\ SetCopy(f, IsChanged(Copy(f)))
  /\ GoTo(f, "check")
  /\ UNCHANGED <<gone, ownerVars, wire, mail>>

\* The wait of a blocking read ends without data: the timer expires, or the
\* object was deleted.
ReadGivesUp(f) ==
  /\ Does(f, "receive", "cyclic", "wait") /\ ~Ready(Copy(f))
  /\ GoTo(f, "check")
  /\ UNCHANGED <<gone, ownerVars, wire, copy, mail>>
ReadUnblocked(f) == ReadGivesUp(f) /\ ~Copy(f).blocking

\* Whether there is data to unpack is tested again after the wait.
CheckData(f) ==
  /\ Running(f) /\ Doing(f).verb = "receive" /\ HasObj(f)
  /\ \/ main[f].at = "check"
     \/ main[f].at = "start" /\ Doing(f).kind = "cyclic" /\ ~Copy(f).blocking
  /\ LET c == IsChanged(Copy(f))
     IN /\ SetCopy(f, c)
        /\ IF c.decoded # 0 THEN GoTo(f, "unpack") ELSE NextObject(f)
  /\ UNCHANGED <<gone, ownerVars, wire, mail>>

\* Cyclic data and the ExecutionConfiguration: until nothing is left.
UnpackCyclic(f) ==
  /\ Does(f, "receive", "cyclic", "unpack")
  /\ LET c == IsChanged(Unpack(Copy(f)))
     IN /\ SetCopy(f, c)
        /\ IF c.decoded # 0 THEN GoTo(f, "unpack") ELSE NextObject(f)
  /\ UNCHANGED <<gone, ownerVars, wire, mail>>

\* Object::receive_init_data, receive_zero_lookahead_data and
\* receive_blocking_io_data: one update.
UnpackOne(f) ==
  /\ Running(f) /\ main[f].at = "unpack" /\ Doing(f).kind # "cyclic"
  /\ SetCopy(f, Unpack(Copy(f)))
  /\ NextObject(f)
  /\ UNCHANGED <<gone, ownerVars, wire, mail>>

\* Manager::process_deleted_objects.
ProcessDeleted(f) ==
  /\ Does(f, "process", "deleted", "start")
  /\ copy' = [copy EXCEPT ![f] = [o \in Objects |-> [@[o] EXCEPT !.deleted = FALSE]]]
  /\ NextJob(f)
  /\ UNCHANGED <<gone, ownerVars, wire, mail>>

EndJob(f) ==
  /\ Running(f) /\ Doing(f).kind \in Kinds /\ ~HasObj(f)
  /\ NextJob(f)
  /\ UNCHANGED <<gone, ownerVars, wire, copy, mail>>

-----------------------------------------------------------------------------
(* Interactions.  The item at the front of the queue is handled without    *)
(* the mutex of the queue, and taken off afterwards.                       *)

\* Interaction::send, in a job of the user.
SendInteraction(f) ==
  /\ Does(f, "send", "interactions", "start")
  /\ IF mail[f].sent = MaxInteractions[f]
     THEN UNCHANGED mail
     ELSE mail' = [g \in Federates |->
            IF g = f THEN [mail[g] EXCEPT !.sent = @ + 1]
            ELSE IF g \in gone THEN mail[g]
            ELSE [mail[g] EXCEPT !.wire = Append(@, <<f, mail[f].sent + 1>>)]]
  /\ NextJob(f)
  /\ UNCHANGED <<gone, ownerVars, wire, copy>>

\* (mutant of HandleInteraction) Handles the item that came in last.
HandleBack(f) ==
  /\ Does(f, "process", "interactions", "start") /\ mail[f].queue # <<>>
  /\ LET item == mail[f].queue[Len(mail[f].queue)]
     IN mail' = [mail EXCEPT ![f].seen[item[1]] = item[2]]
  /\ GoTo(f, "pop")
  /\ UNCHANGED <<gone, ownerVars, wire, copy>>

\* Manager::process_interactions: decode and process the front item,
HandleInteraction(f) ==
  /\ Does(f, "process", "interactions", "start") /\ mail[f].queue # <<>>
  /\ LET item == Head(mail[f].queue)
     IN mail' = [mail EXCEPT ![f].seen[item[1]] = item[2]]
  /\ GoTo(f, "pop")
  /\ UNCHANGED <<gone, ownerVars, wire, copy>>

\* and pop it,
PopInteraction(f) ==
  /\ Does(f, "process", "interactions", "pop")
  /\ mail' = [mail EXCEPT ![f].queue = Tail(@)]
  /\ GoTo(f, "start")
  /\ UNCHANGED <<gone, ownerVars, wire, copy>>

\* until the queue is empty.
NoInteraction(f) ==
  /\ Does(f, "process", "interactions", "start") /\ mail[f].queue = <<>>
  /\ NextJob(f)
  /\ UNCHANGED <<gone, ownerVars, wire, copy, mail>>

\* FedAmb::receiveInteraction.
ReceiveInteraction(g) ==
  /\ g \notin gone /\ mail[g].wire # <<>>
  /\ mail' = [mail EXCEPT ![g].queue = Append(@, Head(mail[g].wire)),
                          ![g].wire = Tail(@)]
  /\ UNCHANGED <<main, gone, ownerVars, wire, copy>>

-----------------------------------------------------------------------------
(* Requests for an update, and the callbacks.                              *)

\* Object::request_attribute_value_update, in a job of the user.
RequestUpdates(f) ==
  /\ Does(f, "request", "updates", "start")
  /\ asked' = [o \in Objects |->
       IF Owner[o] # f /\ asked[o].made < MaxRequests[o]
       THEN [asked[o] EXCEPT !.made = @ + 1] ELSE asked[o]]
  /\ NextJob(f)
  /\ UNCHANGED <<gone, sent, flags, cycle, provide, owed, wire, copy, mail>>

\* The callback thread of f is not within Object::provide_attribute_update.
Idle(f) == \A o \in Objects : Owner[o] = f => ~provide[o]

\* Object::provide_attribute_update: the attributes are flagged first,
ProvideUpdate(o) ==
  /\ Owner[o] \notin gone /\ Idle(Owner[o])
  /\ asked[o].delivered < asked[o].made
  /\ asked' = [asked EXCEPT ![o].delivered = @ + 1]
  /\ flags' = [flags EXCEPT ![o].attributes = Config[o]]
  /\ provide' = [provide EXCEPT ![o] = TRUE]
  /\ UNCHANGED <<main, gone, sent, cycle, owed, wire, copy, mail>>

\* The owner of o has yet to come to its cyclic job for o.
StillSends(o) ==
  LET m == main[Owner[o]]
  IN /\ Owner[o] \notin gone /\ m.jobs # <<>>
     /\ \/ m.frame < Frames
        \/ /\ o \in m.jobs[Len(m.jobs)].left
           /\ Len(m.jobs) = 1 /\ o = Obj(Owner[o]) => m.at = "start"

\* and then the object.
ProvideObject(o) ==
  /\ Owner[o] \notin gone /\ provide[o]
  /\ flags' = [flags EXCEPT ![o].object = TRUE]
  /\ provide' = [provide EXCEPT ![o] = FALSE]
  /\ owed' = IF StillSends(o) THEN [owed EXCEPT ![o] = flags[o].attributes] ELSE owed
  /\ UNCHANGED <<main, gone, sent, cycle, asked, wire, copy, mail>>

\* FedAmb::reflectAttributeValues: Object::enqueue_data.
Reflect(g, o) ==
  /\ g \notin gone /\ Idle(g)
  /\ wire[g][o].updates # <<>>
  /\ copy' = [copy EXCEPT ![g][o].queue = Append(@, Head(wire[g][o].updates))]
  /\ wire' = [wire EXCEPT ![g][o].updates = Tail(@)]
  /\ UNCHANGED <<main, gone, ownerVars, mail>>

\* (mutant of RemoveInstance) A blocked read is not let go.
RemoveQuietly(g, o) ==
  /\ g \notin gone /\ Idle(g)
  /\ wire[g][o].updates = <<>> /\ wire[g][o].removed
  /\ wire' = [wire EXCEPT ![g][o].removed = FALSE]
  /\ copy' = [copy EXCEPT ![g][o].deleted = TRUE]
  /\ UNCHANGED <<main, gone, ownerVars, mail>>

\* Object::remove_object_instance: a thread that waits for cyclic data is
\* let go.
RemoveInstance(g, o) ==
  /\ g \notin gone /\ Idle(g)
  /\ wire[g][o].updates = <<>> /\ wire[g][o].removed
  /\ wire' = [wire EXCEPT ![g][o].removed = FALSE]
  /\ copy' = [copy EXCEPT ![g][o].deleted = TRUE, ![g][o].blocking = FALSE,
                          ![g][o].first = TRUE]
  /\ UNCHANGED <<main, gone, ownerVars, mail>>

\* Federate::resign, at the end or when the federate is lost: the RTI
\* deletes its objects.
Depart(f) ==
  /\ gone' = gone \cup {f}
  /\ wire' = [g \in Federates |-> [o \in Objects |->
       IF g \notin gone' /\ Owner[o] = f
       THEN [wire[g][o] EXCEPT !.removed = TRUE] ELSE wire[g][o]]]
  /\ UNCHANGED <<main, ownerVars, copy, mail>>
Leave(f) == f \notin gone /\ main[f].jobs = <<>> /\ Depart(f)
Lose(f) == f \in Lossy /\ Running(f) /\ Depart(f)

-----------------------------------------------------------------------------
MainThread(f) ==
  \/ SendInit(f) \/ SendExchange(f) \/ SendCyclic(f) \/ SendRequested(f)
  \/ BuildAndSend(f)
  \/ FirstRead(f) \/ BlockingRead(f) \/ DataArrives(f) \/ CheckData(f)
  \/ UnpackCyclic(f) \/ UnpackOne(f)
  \/ ProcessDeleted(f) \/ EndJob(f)
  \/ RequestUpdates(f) \/ SendInteraction(f) \/ HandleInteraction(f) \/ PopInteraction(f) \/ NoInteraction(f)

Callback(g) ==
  \/ \E o \in Objects : Reflect(g, o) \/ RemoveInstance(g, o)
  \/ \E o \in Objects : Owner[o] = g /\ (ProvideUpdate(o) \/ ProvideObject(o))
  \/ ReceiveInteraction(g)

Next ==
  \E f \in Federates :
    \/ MainThread(f) \/ ReadGivesUp(f) \/ Callback(f) \/ Leave(f) \/ Lose(f)

Spec == Init /\ [][Next]_vars

\* The threads run, and the RTI delivers what was sent.  The timer of a
\* blocking read is not counted on, only the removal of the object.
FairSpec ==
  /\ Spec
  /\ \A f \in Federates :
       /\ WF_vars(MainThread(f)) /\ WF_vars(Leave(f))
       /\ WF_vars(ReadUnblocked(f)) /\ WF_vars(Callback(f))

-----------------------------------------------------------------------------
(* Properties.                                                             *)

\* Numbers that follow n one by one.
Follow(s, n) == \A i \in DOMAIN s : s[i] = n + i

\* Every update sent reaches the simulation exactly once and in order,
\* whatever the callback thread adds while the main thread decodes, unpacks
\* and marks as unchanged: what was unpacked, what is decoded, the queue and
\* the wire follow each other without a gap.
ReceivedInOrder ==
  \A g \in Federates : \A o \in Objects :
    LET c == copy[g][o]
        n == IF c.decoded = 0 THEN c.seen ELSE c.decoded
    IN g \notin gone /\ Owner[o] # g =>
         /\ c.decoded \in {0, c.seen + 1}
         /\ Follow(c.queue, n)
         /\ Follow(wire[g][o].updates, n + Len(c.queue))
         /\ n + Len(c.queue) + Len(wire[g][o].updates) = sent[o]

\* The interactions that g has yet to handle, in the order it will: the one
\* it is about to take off the queue is handled already.
Unhandled(g) ==
  (IF main[g].at = "pop" THEN Tail(mail[g].queue) ELSE mail[g].queue)
  \o mail[g].wire

\* Of the items s, those of f have the numbers after k up to n, each once and
\* in order.
InLine(s, f, k, n) ==
  LET from == {i \in DOMAIN s : s[i][1] = f}
  IN /\ k <= n
     /\ {s[i][2] : i \in from} = k + 1 .. n
     /\ \A i, j \in from : i < j => s[i][2] < s[j][2]

\* The interactions of a sender are each handled once and in order, though
\* the front item is used after the mutex of the queue is released, and
\* taken off later, while the callback thread adds more.
HandledInOrder ==
  \A g \in Federates : \A f \in Federates \ {g} :
    g \notin gone => InLine(Unhandled(g), f, mail[g].seen[f], mail[f].sent)

\* A request for an update that comes before the last cyclic job of the
\* owner is answered: every attribute asked for is sent after the request,
\* though the flags are read and cleared without a mutex while the callback
\* thread sets them.
RequestsAnswered ==
  \A o \in Objects : main[Owner[o]].jobs = <<>> => owed[o] = {}

\* Main thread f is blocked in a read of cyclic data of an object of g that
\* is not on its way.
BlockedOn(f, g) ==
  /\ Does(f, "receive", "cyclic", "wait") /\ Owner[Obj(f)] = g
  /\ ~Ready(Copy(f)) /\ wire[f][Obj(f)].updates = <<>>
  /\ Copy(f).blocking /\ ~wire[f][Obj(f)].removed

\* Federates that block on each other's cyclic data do not wait for each
\* other until the timer expires: no set of federates is blocked, each on
\* another of the set.
NoCyclicWait ==
  ~\E S \in (SUBSET Federates) \ {{}} : \A f \in S : \E g \in S : BlockedOn(f, g)

Lost(f) == f \in gone /\ main[f].jobs # <<>>

\* f waits for initial data, or for data exchanged within a frame, of an
\* object whose owner is lost: such a wait has no end.
Deserted(f) ==
  /\ Running(f) /\ Doing(f).verb = "receive" /\ Doing(f).kind # "cyclic"
  /\ HasObj(f) /\ ~Ready(Copy(f)) /\ Lost(Owner[Obj(f)])

\* The frames of everybody come to an end, without the timer of a blocking
\* read, whoever is lost: but for a wait for initial or exchanged data of a
\* federate that is lost, and those that in turn wait for the waiting one.
EverybodyFinishes ==
  <>[]\A f \in Federates : f \in gone \/ \E g \in Federates : Deserted(g)

TypeOK ==
  /\ gone \subseteq Federates
  /\ sent \in [Objects -> Nat]
  /\ flags \in [Objects -> [object : BOOLEAN, attributes : SUBSET Kinds]]
  /\ \A o \in Objects : cycle[o] \in 0 .. Ratio[o]
  /\ provide \in [Objects -> BOOLEAN] /\ owed \in [Objects -> SUBSET Kinds]
  /\ asked \in [Objects -> [made : Nat, delivered : Nat]]
  /\ wire \in [Federates -> [Objects -> [updates : Seq(Nat), removed : BOOLEAN]]]
  /\ copy \in [Federates -> [Objects ->
       [queue : Seq(Nat), decoded : Nat, seen : Nat, deleted : BOOLEAN,
        blocking : BOOLEAN, first : BOOLEAN]]]

=============================================================================
