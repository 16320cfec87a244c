-------------------------- MODULE ThreadCoordinator --------------------------
(***************************************************************************)
(* How the Trick main thread of a federate hands HLA data to and takes it  *)
(* from the Trick child threads that compute it (TrickThreadCoordinator).  *)
(*                                                                         *)
(* In every frame of its data cycle the main thread receives data, says    *)
(* that it is available, waits for the child threads, sends data and says  *)
(* that it was sent.  A child thread waits for available data, computes,   *)
(* marks itself ready to send and waits until data was sent.  A child's    *)
(* data cycle is a multiple of the main thread's.  The two sides meet in   *)
(* thread_state, under one mutex; the waits poll it.                       *)
(*                                                                         *)
(* Trick's executive is external: at the top of a frame it releases the    *)
(* child threads that are due, and it takes the main thread to the next    *)
(* frame only when the scheduled threads are through with this one and the *)
(* asynchronous-must-finish threads due at the next one are through with   *)
(* their cycle.                                                            *)
(***************************************************************************)
EXTENDS Integers

CONSTANTS
  N,            \* the number of child threads; the main thread is thread 0
  Association,  \* Association[c]: thread_state of c after the initialization jobs
  Cycle,        \* Cycle[c]: data cycle of c, in data cycles of the main thread
  Scheduled,    \* the child threads of process type SCHEDULED; others are AMF
  Period        \* a common multiple of the cycles: frames are counted modulo it

Children == 1..N

\* The child threads whose jobs are associated to TrickHLA, and enabled.
Associated == {c \in Children : Association[c] = "RESET"}

ASSUME ThreadsAssumption ==
  /\ N \in Nat
  /\ Association \in [Children -> {"NOT_ASSOCIATED", "DISABLED", "RESET"}]
  /\ Associated # {}
  /\ Cycle \in [Children -> Nat \ {0}]
  /\ Scheduled \subseteq Children
  /\ Period \in Nat \ {0}
  /\ \A c \in Children : Period % Cycle[c] = 0

VARIABLES
  frame,        \* sim time of the main thread, in its data cycles
  threadState,  \* the shared array thread_state
  mainPc,       \* where the main thread is in its frame
  checking,     \* the thread_id at which the main thread's wait is
  childPc,      \* where each child thread is in its cycle
  mode          \* "running", "shutdown" once announced, "ended"

vars == <<frame, threadState, mainPc, checking, childPc, mode>>

-----------------------------------------------------------------------------
ThreadStates == {"NOT_ASSOCIATED", "DISABLED", "RESET", "READY_TO_SEND",
                 "READY_TO_RECEIVE"}
MainPcs == {"receive", "run", "waiting", "send", "advance"}
ChildPcs == {"receive", "await_data", "compute", "send", "await_sent", "done"}

TypeOK ==
  /\ frame \in 0..(Period - 1)
  /\ threadState \in [0..N -> ThreadStates]
  /\ mainPc \in MainPcs
  /\ checking \in 1..(N + 1)
  /\ childPc \in [Children -> ChildPcs]
  /\ mode \in {"running", "shutdown", "ended"}

\* Sim time f is the start of a data cycle of c ...
OnReceiveBoundary(c, f) == f % Cycle[c] = 0

\* ... or of the last main-thread frame of one.
OnSendBoundary(c, f) == (f - (Cycle[c] - 1)) % Cycle[c] = 0

\* The executive releases c at sim time f: a scheduled thread in every frame,
\* for the jobs due in it; an AMF thread for all the jobs of its cycle.
Due(c, f) == c \in Scheduled \/ OnReceiveBoundary(c, f)

StartOf(c, f) ==
  IF c \in Associated /\ OnReceiveBoundary(c, f) THEN "receive" ELSE "compute"

Init ==
  /\ frame = 0
  /\ threadState = [t \in 0..N |-> IF t = 0 THEN "RESET" ELSE Association[t]]
  /\ mainPc = "receive"
  /\ checking = 1
  /\ childPc = [c \in Children |-> StartOf(c, 0)]
  /\ mode = "running"

-----------------------------------------------------------------------------
(* The main thread.  It copies received data into the objects that are on  *)
(* a boundary while mainPc is "receive", and out of them in "send".        *)

AnnounceDataAvailable ==
  /\ mode # "ended" /\ mainPc = "receive"
  /\ threadState' = [t \in 0..N |->
       IF t = 0 \/ (t \in Associated /\ OnReceiveBoundary(t, frame))
         THEN "READY_TO_RECEIVE" ELSE threadState[t]]
  /\ mainPc' = "run"
  /\ UNCHANGED <<frame, checking, childPc, mode>>

\* The main thread waits for c, which is not ready to send.
NotReady(c) ==
  /\ threadState[c] \notin {"READY_TO_SEND", "DISABLED", "NOT_ASSOCIATED"}
  /\ OnSendBoundary(c, frame)

\* (mutant of Look) one thread is looked at, and the next ones are not.
LookAtOne ==
  /\ mainPc' = IF NotReady(checking) THEN "waiting" ELSE "send"
  /\ UNCHANGED <<frame, threadState, childPc, checking, mode>>

\* From the thread it is at, the main thread goes on to the first that is not
\* ready, and stays there; a thread that was ready is not looked at again.
Look ==
  /\ \/ /\ \A c \in checking..N : ~NotReady(c)
        /\ mainPc' = "send" /\ checking' = 1
     \/ \E c \in checking..N :
          /\ NotReady(c) /\ \A d \in checking..(c - 1) : ~NotReady(d)
          /\ mainPc' = "waiting" /\ checking' = c
  /\ UNCHANGED <<frame, threadState, childPc, mode>>

WaitToSend == mode # "ended" /\ mainPc = "run" /\ Look
PollChildren == mode # "ended" /\ mainPc = "waiting" /\ Look

\* (mutant of AnnounceDataSent) the state is left as it is.
AnnounceDataSentNever ==
  /\ mode # "ended" /\ mainPc = "send"
  /\ mainPc' = "advance"
  /\ UNCHANGED <<frame, threadState, checking, childPc, mode>>

AnnounceDataSent ==
  /\ mode # "ended" /\ mainPc = "send"
  /\ threadState' = [threadState EXCEPT ![0] = "READY_TO_SEND"]
  /\ mainPc' = "advance"
  /\ UNCHANGED <<frame, checking, childPc, mode>>

\* The executive takes the simulation to the next frame.
Advance ==
  LET next == (frame + 1) % Period IN
  /\ mode # "ended" /\ mainPc = "advance"
  /\ \A c \in Children :
       c \in Scheduled \/ Due(c, next) => childPc[c] = "done"
  /\ frame' = next
  /\ mainPc' = "receive"
  /\ childPc' = [c \in Children |->
                   IF Due(c, next) THEN StartOf(c, next) ELSE childPc[c]]
  /\ UNCHANGED <<threadState, checking, mode>>

-----------------------------------------------------------------------------
(* The child threads.                                                      *)

MoveTo(c, pc) ==
  /\ childPc' = [childPc EXCEPT ![c] = pc]
  /\ UNCHANGED <<frame, mainPc, checking, mode>>

\* (mutant of WaitToReceive) the child does not wait.
WaitToReceiveNever(c) ==
  /\ mode # "ended" /\ childPc[c] = "receive"
  /\ MoveTo(c, "compute")
  /\ UNCHANGED threadState

WaitToReceive(c) ==
  /\ mode # "ended" /\ childPc[c] = "receive"
  /\ MoveTo(c, IF threadState[0] = "READY_TO_RECEIVE" THEN "compute"
                                                      ELSE "await_data")
  /\ UNCHANGED threadState

PollData(c) ==
  /\ mode # "ended" /\ childPc[c] = "await_data"
  /\ threadState[0] = "READY_TO_RECEIVE"
  /\ MoveTo(c, "compute")
  /\ UNCHANGED threadState

\* The jobs of c are through.  An AMF thread goes on to the job that waits to
\* send at once; a scheduled thread has it in the last frame of its cycle.
Computed(c) ==
  /\ mode # "ended" /\ childPc[c] = "compute"
  /\ MoveTo(c, IF c \in Associated /\ (c \in Scheduled => OnSendBoundary(c, frame))
                 THEN "send" ELSE "done")
  /\ UNCHANGED threadState

\* (mutant of MarkReadyToSend) the child goes on at once.
MarkReadyToSendOnly(c) ==
  /\ mode # "ended" /\ childPc[c] = "send"
  /\ threadState' = [threadState EXCEPT ![c] = "READY_TO_SEND"]
  /\ MoveTo(c, "done")

\* (mutant of MarkReadyToSend) the state is not assigned.
MarkReadyToSendUnmarked(c) ==
  /\ mode # "ended" /\ childPc[c] = "send"
  /\ MoveTo(c, "await_sent")
  /\ UNCHANGED threadState

MarkReadyToSend(c) ==
  /\ mode # "ended" /\ childPc[c] = "send"
  /\ threadState' = [threadState EXCEPT ![c] = "READY_TO_SEND"]
  /\ MoveTo(c, IF threadState[0] = "READY_TO_SEND" THEN "done" ELSE "await_sent")

PollSent(c) ==
  /\ mode # "ended" /\ childPc[c] = "await_sent"
  /\ threadState[0] = "READY_TO_SEND"
  /\ MoveTo(c, "done")
  /\ UNCHANGED threadState

-----------------------------------------------------------------------------
(* Shutdown: announced by a callback, and seen by any thread that polls.   *)

AnnounceShutdown ==
  /\ mode = "running" /\ mode' = "shutdown"
  /\ UNCHANGED <<frame, threadState, mainPc, checking, childPc>>

SeeShutdown ==
  /\ mode = "shutdown"
  /\ \/ mainPc = "waiting"
     \/ \E c \in Children : childPc[c] \in {"await_data", "await_sent"}
  /\ mode' = "ended"
  /\ UNCHANGED <<frame, threadState, mainPc, checking, childPc>>

Main ==
  \/ AnnounceDataAvailable \/ WaitToSend \/ PollChildren \/ AnnounceDataSent
  \/ Advance
Child(c) ==
  \/ WaitToReceive(c) \/ PollData(c) \/ Computed(c) \/ MarkReadyToSend(c)
  \/ PollSent(c)
Next ==
  \/ Main
  \/ \E c \in Children : Child(c)
  \/ AnnounceShutdown \/ SeeShutdown

Spec == Init /\ [][Next]_vars

\* Every thread is scheduled by the operating system, and every job returns.
FairSpec == Spec /\ WF_vars(Main) /\ \A c \in Children : WF_vars(Child(c))

-----------------------------------------------------------------------------
(* Properties.                                                             *)

\* The main thread copies received data into, or data to send out of, the
\* objects associated with c.
Receiving(c) == mainPc = "receive" /\ OnReceiveBoundary(c, frame)
Sending(c) == mainPc = "send" /\ OnReceiveBoundary(c, frame)

\* c is through with the data of this cycle: it may not touch it again until
\* the executive releases it for the next one.
Through(c) == childPc[c] \in {"await_sent", "done"}

\* The main thread copies received data into the objects of a child thread
\* only while that thread waits for it: receive_cyclic_data runs before
\* announce_data_available, on the receive boundary of the object.
ReceiveIsExclusive ==
  \A c \in Associated :
    Receiving(c) => childPc[c] \in {"receive", "await_data"}

\* In the frame that corresponds to the end of a child's cycle, the main
\* thread is past wait_to_send_data only when the child is through with it.
SendWaitsForChild ==
  \A c \in Associated :
    mainPc = "send" /\ OnSendBoundary(c, frame) => Through(c)

\* The main thread copies data out of the objects of a child thread only when
\* that is through with its cycle.  send_cyclic_and_requested_data sends the
\* objects that are on the RECEIVE boundary.
SendIsExclusive ==
  \A c \in Associated : Sending(c) => Through(c)

\* A child that runs at the cycle of the main thread returns from its
\* wait_to_send_data only when the data of this frame has been sent.
DoneMeansSent ==
  \A c \in Associated :
    Cycle[c] = 1 /\ childPc[c] = "done" => mainPc = "advance"

\* The main thread is not held up for ever, it starts frame after frame; and no
\* child waits for ever for data, or for data to be sent.
ThreadsGoOn ==
  /\ []<>(mainPc = "receive" \/ mode # "running")
  /\ \A c \in Associated :
       childPc[c] # "done" ~> (childPc[c] = "done" \/ mode # "running")

-----------------------------------------------------------------------------
(* Why the safety properties hold.                                         *)

\* Between the two announcements thread 0 says that data may be received.
MainInv ==
  /\ mainPc \in {"run", "waiting", "send"} <=> threadState[0] = "READY_TO_RECEIVE"
  /\ mainPc # "waiting" => checking = 1

\* A thread that says it is ready to send is through, or has been released
\* anew and waits for the data of this frame.
ReadyInv(c) ==
  /\ threadState[c] = "READY_TO_SEND" =>
       \/ Through(c) /\ (c \in Scheduled => OnSendBoundary(c, frame))
       \/ /\ mainPc = "receive" /\ OnReceiveBoundary(c, frame)
          /\ childPc[c] \in {"receive", "await_data"}
  /\ c \in Scheduled /\ childPc[c] = "send" => OnSendBoundary(c, frame)

\* What the main thread has looked at stays ready.
LookedInv(c) ==
  /\ threadState[c] \notin {"DISABLED", "NOT_ASSOCIATED"}
  /\ \/ mainPc = "send"
     \/ mainPc = "waiting" /\ c < checking
     => (OnSendBoundary(c, frame) => threadState[c] = "READY_TO_SEND")

IndInv ==
  /\ TypeOK /\ MainInv /\ ReceiveIsExclusive
  /\ \A c \in Associated : ReadyInv(c) /\ LookedInv(c)
=============================================================================
