----------------------- MODULE ThreadCoordinatorProofs -----------------------
(* Proofs about ThreadCoordinator, for any number of child threads, any data *)
(* cycles and any mixture of scheduled, AMF, disabled and unassociated ones. *)
EXTENDS ThreadCoordinator, TLAPS

-----------------------------------------------------------------------------
(* The boundaries of the data cycles.                                      *)

\* A whole number of cycles leaves no remainder.
LEMMA WholeCycles ==
  ASSUME NEW a \in Int, NEW c \in Nat \ {0}, NEW k \in Int, a = c * k
  PROVE  a % c = 0
  BY SMTT(20)

LEMMA Quotient ==
  ASSUME NEW a \in Int, NEW c \in Nat \ {0}
  PROVE  a = c * (a \div c) + (a % c)
  BY SMTT(20)

LEMMA EndOfCycle ==
  ASSUME NEW a \in Int, NEW c \in Nat \ {0}, (a - (c - 1)) % c = 0
  PROVE  (a + 1) % c = 0
  <1> DEFINE q == (a - (c - 1)) \div c
  <1>1. q \in Int /\ a - (c - 1) = c * q
    BY Quotient, SMTT(20)
  <1> HIDE DEF q
  <1>2. a + 1 = c * (q + 1)
    BY <1>1, SMTT(20)
  <1>3. q + 1 \in Int
    BY <1>1
  <1>4. QED
    BY <1>2, <1>3, WholeCycles

LEMMA NextFrame ==
  ASSUME NEW f \in 0..(Period - 1)
  PROVE  /\ (f + 1) % Period \in 0..(Period - 1)
         /\ (f + 1) % Period = IF f + 1 = Period THEN 0 ELSE f + 1
  BY ThreadsAssumption, SMTT(20)

\* The frame after the last one of a child's cycle starts its next cycle.
LEMMA BoundariesMeet ==
  ASSUME NEW c \in Children, NEW f \in 0..(Period - 1), OnSendBoundary(c, f)
  PROVE  OnReceiveBoundary(c, (f + 1) % Period)
  <1>1. Cycle[c] \in Nat \ {0} /\ Period % Cycle[c] = 0 /\ Period \in Nat \ {0}
    BY ThreadsAssumption
  <1>2. (f + 1) % Cycle[c] = 0
    BY <1>1, EndOfCycle DEF OnSendBoundary
  <1>3. 0 % Cycle[c] = 0
    BY <1>1, WholeCycles, SMTT(20)
  <1>4. QED
    BY <1>2, <1>3, NextFrame DEF OnReceiveBoundary

-----------------------------------------------------------------------------
(* The invariant.                                                          *)

LEMMA AssociatedFacts ==
  ASSUME NEW c \in Associated
  PROVE  c \in Children /\ c \in 0..N /\ c # 0 /\ Association[c] = "RESET"
  BY ThreadsAssumption DEF Associated, Children

LEMMA InitInv == Init => IndInv
  <1> SUFFICES ASSUME Init PROVE IndInv
    OBVIOUS
  <1>1. TypeOK
    BY ThreadsAssumption
    DEF Init, TypeOK, Children, ThreadStates, MainPcs, ChildPcs, StartOf
  <1>2. MainInv
    BY ThreadsAssumption DEF Init, MainInv
  <1>3. ReceiveIsExclusive
    BY AssociatedFacts DEF Init, ReceiveIsExclusive, Receiving, StartOf, Children
  <1>4. ASSUME NEW c \in Associated PROVE ReadyInv(c) /\ LookedInv(c)
    BY AssociatedFacts DEF Init, ReadyInv, LookedInv, StartOf
  <1>5. QED
    BY <1>1, <1>2, <1>3, <1>4 DEF IndInv

LEMMA AnnounceAvailableInv ==
  ASSUME IndInv, AnnounceDataAvailable PROVE IndInv'
  <1> USE DEF AnnounceDataAvailable
  <1>1. TypeOK'
    BY ThreadsAssumption DEF IndInv, TypeOK, ThreadStates, MainPcs
  <1>2. MainInv'
    BY ThreadsAssumption DEF IndInv, MainInv, TypeOK
  <1>3. ReceiveIsExclusive'
    BY DEF ReceiveIsExclusive, Receiving
  <1>4. ASSUME NEW c \in Associated PROVE ReadyInv(c)' /\ LookedInv(c)'
    <2>1. c \in 0..N /\ c # 0 /\ mainPc = "receive" /\ ReadyInv(c) /\ LookedInv(c)
      BY AssociatedFacts DEF IndInv
    <2>2. threadState'[c] = IF OnReceiveBoundary(c, frame)
                              THEN "READY_TO_RECEIVE" ELSE threadState[c]
      BY <2>1
    <2>3. ReadyInv(c)'
      BY <2>1, <2>2 DEF ReadyInv, Through, OnSendBoundary
    <2>4. LookedInv(c)'
      BY <2>1, <2>2 DEF LookedInv
    <2>5. QED
      BY <2>3, <2>4
  <1>5. QED
    BY <1>1, <1>2, <1>3, <1>4 DEF IndInv

LEMMA LookInv ==
  ASSUME IndInv, mainPc \in {"run", "waiting"}, Look PROVE IndInv'
  <1> USE DEF Look
  <1>1. TypeOK'
    BY ThreadsAssumption DEF IndInv, TypeOK, MainPcs, Children
  <1>2. MainInv'
    BY DEF IndInv, MainInv
  <1>3. ReceiveIsExclusive'
    BY DEF ReceiveIsExclusive, Receiving
  <1>4. ASSUME NEW c \in Associated PROVE ReadyInv(c)' /\ LookedInv(c)'
    <2>1. c \in 1..N /\ checking \in 1..(N + 1) /\ ReadyInv(c) /\ LookedInv(c)
      BY AssociatedFacts DEF IndInv, TypeOK, Children
    <2>2. ReadyInv(c)'
      BY <2>1 DEF ReadyInv, Through, OnSendBoundary
    \* A thread the main thread was not past, and now is, is ready.
    <2>3. ASSUME c \in checking..N, ~NotReady(c), OnSendBoundary(c, frame)
          PROVE  threadState[c] = "READY_TO_SEND"
      BY <2>1, <2>3 DEF NotReady, LookedInv
    <2>4. ASSUME c < checking, OnSendBoundary(c, frame)
          PROVE  threadState[c] = "READY_TO_SEND"
      <3>1. mainPc = "waiting"
        BY <2>1, <2>4 DEF IndInv, MainInv
      <3>2. QED
        BY <2>1, <2>4, <3>1 DEF LookedInv
    <2>5. LookedInv(c)'
      <3>1. CASE mainPc' = "send"
        <4>1. c \in checking..N => ~NotReady(c)
          BY <3>1
        <4>2. OnSendBoundary(c, frame) => threadState[c] = "READY_TO_SEND"
          BY <2>1, <2>3, <2>4, <4>1
        <4>3. QED
          BY <2>1, <4>2 DEF LookedInv, OnSendBoundary
      <3>2. CASE mainPc' = "waiting"
        <4>1. PICK e \in checking..N :
                /\ checking' = e
                /\ \A d \in checking..(e - 1) : ~NotReady(d)
          BY <3>2
        <4>2. c \in Nat /\ checking \in Nat /\ e \in Nat
          BY <2>1, <4>1, ThreadsAssumption
        <4>3. c < e => c < checking \/ (c \in checking..N /\ ~NotReady(c))
          BY <2>1, <4>1, <4>2
        <4>4. c < e /\ OnSendBoundary(c, frame) => threadState[c] = "READY_TO_SEND"
          BY <2>3, <2>4, <4>3
        <4>5. QED
          BY <2>1, <3>2, <4>1, <4>4 DEF LookedInv, OnSendBoundary
      <3>3. QED
        BY <3>1, <3>2
    <2>6. QED
      BY <2>2, <2>5
  <1>5. QED
    BY <1>1, <1>2, <1>3, <1>4 DEF IndInv

LEMMA AnnounceSentInv ==
  ASSUME IndInv, AnnounceDataSent PROVE IndInv'
  <1> USE DEF AnnounceDataSent
  <1>1. TypeOK'
    BY ThreadsAssumption DEF IndInv, TypeOK, ThreadStates, MainPcs
  <1>2. MainInv'
    BY ThreadsAssumption DEF IndInv, MainInv, TypeOK
  <1>3. ReceiveIsExclusive'
    BY DEF ReceiveIsExclusive, Receiving
  <1>4. ASSUME NEW c \in Associated PROVE ReadyInv(c)' /\ LookedInv(c)'
    <2>1. c \in 0..N /\ c # 0 /\ ReadyInv(c) /\ LookedInv(c)
      BY AssociatedFacts DEF IndInv
    <2>2. threadState'[c] = threadState[c]
      BY <2>1 DEF IndInv, TypeOK
    <2>3. QED
      BY <2>1, <2>2 DEF ReadyInv, LookedInv, Through, OnSendBoundary
  <1>5. QED
    BY <1>1, <1>2, <1>3, <1>4 DEF IndInv

LEMMA AdvanceInv ==
  ASSUME IndInv, Advance PROVE IndInv'
  <1> DEFINE next == (frame + 1) % Period
  <1>1. /\ frame \in 0..(Period - 1) /\ next \in 0..(Period - 1)
        /\ frame' = next /\ mainPc = "advance" /\ mainPc' = "receive"
        /\ childPc' = [c \in Children |->
                         IF Due(c, next) THEN StartOf(c, next) ELSE childPc[c]]
        /\ UNCHANGED <<threadState, checking, mode>>
    BY NextFrame DEF Advance, IndInv, TypeOK
  <1> HIDE DEF next
  <1>2. TypeOK'
    BY <1>1 DEF IndInv, TypeOK, StartOf, ChildPcs, MainPcs
  <1>3. MainInv'
    BY <1>1 DEF IndInv, MainInv
  <1>4. ReceiveIsExclusive'
    BY <1>1, AssociatedFacts
    DEF ReceiveIsExclusive, Receiving, OnReceiveBoundary, Due, StartOf
  <1>5. ASSUME NEW c \in Associated PROVE ReadyInv(c)' /\ LookedInv(c)'
    <2>1. c \in Children /\ ReadyInv(c) /\ LookedInv(c)
      BY AssociatedFacts DEF IndInv
    <2>2. LookedInv(c)'
      BY <1>1, <2>1 DEF LookedInv
    <2>3. ASSUME threadState[c] = "READY_TO_SEND"
          PROVE  Through(c) /\ (c \in Scheduled => OnSendBoundary(c, frame))
      BY <1>1, <2>1, <2>3 DEF ReadyInv
    \* A scheduled thread that is ready was so in the last frame of its cycle.
    <2>4. CASE OnReceiveBoundary(c, next)
      <3>1. childPc'[c] = "receive"
        BY <1>1, <2>1, <2>4 DEF Due, StartOf
      <3>2. OnReceiveBoundary(c, frame)'
        BY <1>1, <2>4 DEF OnReceiveBoundary
      <3>3. QED
        BY <1>1, <2>2, <3>1, <3>2 DEF ReadyInv
    <2>5. CASE ~OnReceiveBoundary(c, next)
      <3>1. threadState[c] = "READY_TO_SEND" => c \notin Scheduled
        BY <1>1, <2>1, <2>3, <2>5, BoundariesMeet DEF next
      <3>2. threadState[c] = "READY_TO_SEND" => childPc'[c] = childPc[c]
        BY <1>1, <2>1, <2>5, <3>1 DEF Due
      <3>3. c \in Scheduled => childPc'[c] # "send"
        BY <1>1, <2>1 DEF Due, StartOf
      <3>4. QED
        BY <1>1, <2>2, <2>3, <3>1, <3>2, <3>3 DEF ReadyInv, Through
    <2>6. QED
      BY <2>2, <2>4, <2>5
  <1>6. QED
    BY <1>2, <1>3, <1>4, <1>5 DEF IndInv

LEMMA ChildInv ==
  ASSUME IndInv, NEW c \in Children, Child(c) PROVE IndInv'
  <1>1. /\ childPc[c] # "done" /\ UNCHANGED <<frame, mainPc, checking, mode>>
        /\ \E pc \in ChildPcs : childPc' = [childPc EXCEPT ![c] = pc]
    <2> USE DEF MoveTo, ChildPcs
    <2>1. CASE WaitToReceive(c)
      BY <2>1 DEF WaitToReceive
    <2>2. CASE PollData(c)
      BY <2>2 DEF PollData
    <2>3. CASE Computed(c)
      BY <2>3 DEF Computed
    <2>4. CASE MarkReadyToSend(c)
      BY <2>4 DEF MarkReadyToSend
    <2>5. CASE PollSent(c)
      BY <2>5 DEF PollSent
    <2>6. QED
      BY <2>1, <2>2, <2>3, <2>4, <2>5 DEF Child
  <1>2. \/ threadState' = threadState
        \/ /\ MarkReadyToSend(c)
           /\ threadState' = [threadState EXCEPT ![c] = "READY_TO_SEND"]
    <2>1. WaitToReceive(c) \/ PollData(c) \/ Computed(c) \/ PollSent(c) =>
            threadState' = threadState
      BY DEF WaitToReceive, PollData, Computed, PollSent
    <2>2. MarkReadyToSend(c) =>
            threadState' = [threadState EXCEPT ![c] = "READY_TO_SEND"]
      BY DEF MarkReadyToSend
    <2>3. QED
      BY <2>1, <2>2 DEF Child
  <1>3. TypeOK'
    BY <1>1, <1>2 DEF IndInv, TypeOK, ThreadStates, Children
  <1>4. c \in 0..N /\ c # 0 /\ threadState'[0] = threadState[0]
    BY <1>2, ThreadsAssumption DEF IndInv, TypeOK, Children
  <1>5. MainInv'
    BY <1>1, <1>4 DEF IndInv, MainInv
  \* While the main thread receives, nobody waiting for data is let through.
  <1>6. mainPc = "receive" /\ childPc[c] \in {"receive", "await_data"} =>
          childPc'[c] \in {"receive", "await_data"} /\ threadState' = threadState
    <2>1. SUFFICES ASSUME mainPc = "receive",
                          childPc[c] \in {"receive", "await_data"}
                   PROVE  /\ childPc'[c] \in {"receive", "await_data"}
                          /\ threadState' = threadState
      OBVIOUS
    <2>2. threadState[0] # "READY_TO_RECEIVE" /\ childPc \in [Children -> ChildPcs]
      BY <2>1 DEF IndInv, MainInv, TypeOK
    <2>3. WaitToReceive(c)
      BY <2>1, <2>2 DEF Child, WaitToReceive, PollData, Computed, MarkReadyToSend,
                        PollSent
    <2>4. QED
      BY <2>2, <2>3 DEF WaitToReceive, MoveTo
  <1>7. ReceiveIsExclusive'
    BY <1>1, <1>6 DEF IndInv, ReceiveIsExclusive, Receiving, OnReceiveBoundary, TypeOK
  <1>8. ASSUME NEW d \in Associated PROVE ReadyInv(d)' /\ LookedInv(d)'
    <2>1. d \in Children /\ d \in 0..N /\ ReadyInv(d) /\ LookedInv(d)
      BY AssociatedFacts DEF IndInv
    <2>2. CASE d # c
      <3>1. childPc'[d] = childPc[d] /\ threadState'[d] = threadState[d]
        BY <1>1, <1>2, <2>1, <2>2 DEF IndInv, TypeOK
      <3>2. QED
        BY <1>1, <2>1, <3>1
        DEF ReadyInv, LookedInv, Through, OnSendBoundary, OnReceiveBoundary
    <2>3. CASE d = c
      <3>1. LookedInv(c)'
        BY <1>1, <1>2, <1>4, <2>1, <2>3 DEF LookedInv, OnSendBoundary, IndInv, TypeOK
      <3>2. ReadyInv(c)'
        <4>1. /\ childPc \in [Children -> ChildPcs] /\ threadState \in [0..N -> ThreadStates]
              /\ MainInv /\ ReadyInv(c)
          BY <2>1, <2>3 DEF IndInv, TypeOK
        <4>2. CASE MarkReadyToSend(c)
          BY <1>4, <4>1, <4>2
          DEF MarkReadyToSend, MoveTo, ReadyInv, Through, OnSendBoundary
        <4>3. CASE WaitToReceive(c) \/ PollData(c)
          BY <4>1, <4>3
          DEF WaitToReceive, PollData, MoveTo, ReadyInv, MainInv, Through,
              OnSendBoundary, OnReceiveBoundary
        <4>4. CASE Computed(c)
          BY <4>1, <4>4
          DEF Computed, MoveTo, ReadyInv, Through, OnSendBoundary, OnReceiveBoundary
        <4>5. CASE PollSent(c)
          BY <4>1, <4>5
          DEF PollSent, MoveTo, ReadyInv, Through, OnSendBoundary, OnReceiveBoundary
        <4>6. QED
          BY <1>2, <4>2, <4>3, <4>4, <4>5 DEF Child
      <3>3. QED
        BY <2>3, <3>1, <3>2
    <2>4. QED
      BY <2>2, <2>3
  <1>9. QED
    BY <1>3, <1>5, <1>7, <1>8 DEF IndInv

LEMMA ShutdownInv ==
  ASSUME IndInv, AnnounceShutdown \/ SeeShutdown PROVE IndInv'
  BY DEF AnnounceShutdown, SeeShutdown, IndInv, TypeOK, MainInv,
         ReceiveIsExclusive, Receiving, ReadyInv, LookedInv, Through, OnSendBoundary

\* Every step preserves the invariant.
THEOREM StepInv == IndInv /\ [Next]_vars => IndInv'
  <1> SUFFICES ASSUME IndInv, [Next]_vars PROVE IndInv'
    OBVIOUS
  <1>1. CASE Main
    BY <1>1, AnnounceAvailableInv, LookInv, AnnounceSentInv, AdvanceInv
    DEF Main, WaitToSend, PollChildren
  <1>2. CASE \E c \in Children : Child(c)
    BY <1>2, ChildInv
  <1>3. CASE AnnounceShutdown \/ SeeShutdown
    BY <1>3, ShutdownInv
  <1>4. CASE UNCHANGED vars
    BY <1>4 DEF vars, IndInv, TypeOK, MainInv, ReceiveIsExclusive, Receiving, ReadyInv,
                LookedInv, Through, OnSendBoundary, OnReceiveBoundary
  <1>5. QED
    BY <1>1, <1>2, <1>3, <1>4 DEF Next

-----------------------------------------------------------------------------
(* The theorems.                                                           *)

\* The states of thread_state, of the main thread and of the child threads fit
\* together in every reachable state.
THEOREM Invariance == Spec => []IndInv
  <1>1. QED
    BY InitInv, StepInv, PTL DEF Spec

\* The types of the variables.
THEOREM ThreadTypes == Spec => []TypeOK
  <1>1. IndInv => TypeOK
    BY DEF IndInv
  <1>2. QED
    BY <1>1, Invariance, PTL

\* receive_cyclic_data never writes an object that its child thread is using.
THEOREM ReceivingIsExclusive == Spec => []ReceiveIsExclusive
  <1>1. IndInv => ReceiveIsExclusive
    BY DEF IndInv
  <1>2. QED
    BY <1>1, Invariance, PTL

\* In the last main-thread frame of a child's cycle the main thread is past
\* wait_to_send_data only when the child is through.
THEOREM SendingWaits == Spec => []SendWaitsForChild
  <1>1. IndInv => SendWaitsForChild
    BY AssociatedFacts DEF IndInv, MainInv, ReadyInv, LookedInv, SendWaitsForChild
  <1>2. QED
    BY <1>1, Invariance, PTL
-----------------------------------------------------------------------------
(* A child that runs at the cycle of the main thread.                      *)

LEMMA OneCycle ==
  ASSUME NEW c \in Children, NEW f \in 0..(Period - 1), Cycle[c] = 1
  PROVE  OnReceiveBoundary(c, f) /\ OnSendBoundary(c, f)
  <1>1. f \in Int /\ f = 1 * f /\ f - (1 - 1) = f
    BY ThreadsAssumption
  <1>2. f % 1 = 0
    BY <1>1, WholeCycles
  <1>3. QED
    BY <1>1, <1>2 DEF OnReceiveBoundary, OnSendBoundary

\* Such a child is done only when it saw the main thread say that data was
\* sent, and that holds until the executive releases it for the next frame.
LEMMA DoneStep ==
  ASSUME IndInv, DoneMeansSent, [Next]_vars PROVE DoneMeansSent'
  <1> SUFFICES ASSUME NEW c \in Associated, Cycle[c] = 1, childPc'[c] = "done"
               PROVE  mainPc' = "advance"
    BY DEF DoneMeansSent
  <1>1. /\ c \in Children /\ c \in Associated
        /\ frame \in 0..(Period - 1) /\ childPc \in [Children -> ChildPcs]
    BY AssociatedFacts DEF IndInv, TypeOK
  <1>2. OnReceiveBoundary(c, frame) /\ OnSendBoundary(c, frame)
    BY <1>1, OneCycle
  <1>3. childPc[c] = "done" => mainPc = "advance"
    BY DEF DoneMeansSent
  \* Thread 0 says so before the receiving is announced and after the sending.
  <1>4. threadState[0] = "READY_TO_SEND" => mainPc \in {"receive", "advance"}
    BY DEF IndInv, MainInv, TypeOK, MainPcs
  <1>5. mainPc = "receive" => childPc[c] \in {"receive", "await_data"}
    BY <1>2 DEF IndInv, ReceiveIsExclusive, Receiving
  <1>6. CASE AnnounceDataAvailable \/ WaitToSend \/ PollChildren
    BY <1>3, <1>6 DEF AnnounceDataAvailable, WaitToSend, PollChildren, Look
  <1>7. CASE AnnounceDataSent
    BY <1>7 DEF AnnounceDataSent
  <1>8. CASE Advance
    <2>1. OnReceiveBoundary(c, (frame + 1) % Period)
      BY <1>1, <1>2, BoundariesMeet
    <2>2. childPc'[c] = "receive"
      BY <1>1, <1>8, <2>1 DEF Advance, Due, StartOf
    <2>3. QED
      BY <2>2
  <1>9. ASSUME NEW d \in Children, Child(d) PROVE mainPc' = "advance"
    <2>1. mainPc' = mainPc
      BY <1>9 DEF Child, WaitToReceive, PollData, Computed, MarkReadyToSend,
                  PollSent, MoveTo
    <2>2. CASE d # c
      BY <1>1, <1>3, <1>9, <2>1, <2>2
      DEF Child, WaitToReceive, PollData, Computed, MarkReadyToSend, PollSent, MoveTo
    <2>3. CASE d = c
      <3>1. CASE WaitToReceive(d) \/ PollData(d) \/ Computed(d)
        BY <1>1, <1>2, <2>3, <3>1 DEF WaitToReceive, PollData, Computed, MoveTo
      <3>2. CASE MarkReadyToSend(d) \/ PollSent(d)
        BY <1>1, <1>4, <1>5, <2>1, <2>3, <3>2 DEF MarkReadyToSend, PollSent, MoveTo
      <3>3. QED
        BY <1>9, <3>1, <3>2 DEF Child
    <2>4. QED
      BY <2>2, <2>3
  <1>10. CASE AnnounceShutdown \/ SeeShutdown \/ UNCHANGED vars
    BY <1>3, <1>10 DEF AnnounceShutdown, SeeShutdown, vars
  <1>11. QED
    BY <1>6, <1>7, <1>8, <1>9, <1>10 DEF Next, Main

\* A child at the cycle of the main thread is through with a frame only when the
\* main thread has sent its data.
THEOREM DoneIsSent == Spec => []DoneMeansSent
  <1>1. Init => DoneMeansSent
    BY AssociatedFacts DEF Init, DoneMeansSent, StartOf
  <1>2. QED
    BY <1>1, DoneStep, Invariance, PTL DEF Spec
=============================================================================
