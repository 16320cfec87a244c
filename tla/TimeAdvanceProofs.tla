-------------------------- MODULE TimeAdvanceProofs --------------------------
(* Proofs about TimeAdvance, for any federates, cycles and lookaheads, with   *)
(* late joiners, refused requests and federates that are lost.                *)
EXTENDS TimeAdvance, WellFoundedInduction, TLAPS

-----------------------------------------------------------------------------
(* The invariant, federate by federate.                                    *)

\* Where the setup has got to, and what is asked in it.
Before == {"out", "constrain"}
Frames == Jobs \cup {"request"}
Setting == {"align", "barrier"}

Asked == {Nothing} \cup [kind : Requests \cup Enables, time : Nat]
Told == {Nothing} \cup [kind : {"grant"} \cup Enables, time : Nat]

Types ==
  /\ pc \in [Federates -> Pcs]
  /\ calling \in [Federates -> BOOLEAN]
  /\ sim \in [Federates -> Nat] /\ offset \in [Federates -> Nat]
  /\ requested \in [Federates -> Nat] /\ granted \in [Federates -> Nat]
  /\ adv \in [Federates -> {"RESET", "REQUESTED", "GRANTED"}]
  /\ enabled \in [Federates -> SUBSET Enables]
  /\ time \in [Federates -> Nat] /\ floor \in [Federates -> Nat]
  /\ pending \in [Federates -> Asked] /\ answer \in [Federates -> Told]

\* At most one request is under way, and it is for the requested time.
OneAtATime(f) ==
  /\ pending[f].kind = "none" \/ answer[f].kind = "none"
  /\ pending[f].kind \in Requests => pending[f].time = requested[f]
  /\ answer[f].kind = "grant" => answer[f].time = requested[f]
  /\ calling[f] => adv[f] = "RESET"

Idle(f) == pending[f].kind = "none" /\ answer[f].kind = "none"

\* While f sets up its time management, it asks for one state after the other.
SetupInv(f) ==
  /\ pc[f] \in {"out", "constrain", "regulate", "align", "aligned", "barrier"} =>
       /\ ~calling[f] /\ adv[f] # "REQUESTED" /\ sim[f] = 0
       /\ pending[f].kind \notin Requests /\ answer[f].kind # "grant"
  /\ pc[f] \in Before \cup {"aligned", "gone"} => Idle(f)
  /\ pc[f] = "gone" => ~calling[f]
  /\ pc[f] \in Before => enabled[f] = {} /\ adv[f] = "RESET"
  /\ pc[f] = "regulate" =>
       /\ pending[f].kind # "regulating" /\ answer[f].kind # "regulating"
       /\ f \notin Constrained \/ "constrained" \in enabled[f] => Idle(f)
       /\ "regulating" \notin enabled[f]
  /\ pc[f] \in Setting =>
       /\ pending[f].kind # "constrained" /\ answer[f].kind # "constrained"
       /\ f \notin Regulating \/ "regulating" \in enabled[f] => Idle(f)
  /\ pc[f] = "aligned" => requested[f] = offset[f]
  /\ pc[f] \in Setting \cup {"regulate"} /\ adv[f] = "GRANTED"
       => granted[f] = requested[f]

\* An early joiner sets up at time 0.
EarlyInv(f) ==
  f \in Early =>
    /\ pc[f] \notin {"align", "aligned"} /\ offset[f] = 0
    /\ pc[f] \in Before \cup {"regulate", "barrier"} =>
         /\ requested[f] = 0
         /\ answer[f].kind # "none" => answer[f].time = 0
LateInv(f) == f \in Late => pc[f] # "barrier"

\* time_advance_request goes on by a whole data cycle.  A lookahead that is
\* neither zero nor the data cycle is accepted too, but logical time lags then.
LookaheadIsStep == \A f \in Federates : Lookahead[f] \in {0, DataCycle[f]}

\* In a frame the time that is asked for is the time of the frame, and a grant
\* is for that.
FrameInv(f) ==
  pc[f] \in Frames =>
    /\ LookaheadIsStep => requested[f] = offset[f] + sim[f]
    /\ pc[f] = "request" => Idle(f)
    /\ pending[f].kind \notin Enables /\ answer[f].kind \notin Enables
    /\ adv[f] = "GRANTED" => granted[f] = requested[f]
    /\ adv[f] = "REQUESTED" \/ calling[f]
         <=> pending[f].kind \in Requests \/ answer[f].kind = "grant"

Local(f) ==
  OneAtATime(f) /\ SetupInv(f) /\ EarlyInv(f) /\ LateInv(f) /\ FrameInv(f)

\* Until all early joiners are set up nobody has left time 0.
NobodyBefore ==
  (\E e \in Early : ~SetUp(e)) =>
    \A g \in Federates :
      /\ time[g] = 0 /\ floor[g] = 0 /\ pc[g] \notin Frames
      /\ g \in Late => pc[g] = "out"

Inv == Types /\ (\A f \in Federates : Local(f)) /\ NobodyBefore

-----------------------------------------------------------------------------
(* What a step of one federate leaves alone.                               *)

\* What the invariant says of g is about these.
Same(g) ==
  /\ pc'[g] = pc[g] /\ calling'[g] = calling[g]
  /\ sim'[g] = sim[g] /\ offset'[g] = offset[g]
  /\ requested'[g] = requested[g] /\ granted'[g] = granted[g]
  /\ adv'[g] = adv[g] /\ enabled'[g] = enabled[g]
  /\ time'[g] = time[g] /\ floor'[g] = floor[g]
  /\ pending'[g] = pending[g] /\ answer'[g] = answer[g]

\* f does not leave time 0, and starts neither its frames nor as a late joiner.
Stays(f) ==
  /\ time'[f] = time[f] /\ floor'[f] = floor[f]
  /\ pc'[f] \in Frames => pc[f] \in Frames
  /\ f \in Late /\ pc[f] = "out" => pc'[f] = "out"

EverybodySetUp == \A e \in Early : SetUp(e)

\* What is proved of every action.
Keeps(f) ==
  /\ Types' /\ Local(f)'
  /\ \A g \in Federates \ {f} : Same(g)
  /\ SetUp(f) => SetUp(f)'
  /\ EverybodySetUp \/ Stays(f)

LEMMA KeepsInv ==
  ASSUME Inv, NEW f \in Federates, Keeps(f) PROVE Inv'
  <1>1. ASSUME NEW g \in Federates \ {f} PROVE Local(g)'
    <2>1. Local(g) /\ Same(g)
      BY DEF Inv, Keeps
    <2>2. OneAtATime(g)' /\ SetupInv(g)'
      BY <2>1 DEF Same, Local, OneAtATime, SetupInv, Idle
    <2>3. EarlyInv(g)' /\ LateInv(g)' /\ FrameInv(g)'
      BY <2>1 DEF Same, Local, EarlyInv, LateInv, FrameInv, Idle
    <2>4. QED
      BY <2>2, <2>3 DEF Local
  <1>2. ASSUME NEW e \in Early, SetUp(e) PROVE SetUp(e)'
    <2>1. e \in Federates /\ (e # f => Same(e))
      BY DEF Early, Keeps
    <2>2. QED
      BY <1>2, <2>1 DEF Keeps, Same, SetUp, Enabled
  <1>3. NobodyBefore'
    <2> SUFFICES ASSUME NEW e \in Early, ~SetUp(e)', NEW g \in Federates
                 PROVE  /\ time'[g] = 0 /\ floor'[g] = 0 /\ pc'[g] \notin Frames
                        /\ g \in Late => pc'[g] = "out"
      BY DEF NobodyBefore
    <2>1. ~SetUp(e) /\ Stays(f) /\ (g # f => Same(g))
      BY <1>2 DEF Keeps, EverybodySetUp
    <2>2. /\ time[g] = 0 /\ floor[g] = 0 /\ pc[g] \notin Frames
          /\ g \in Late => pc[g] = "out"
      BY <2>1 DEF Inv, NobodyBefore
    <2>3. QED
      BY <2>1, <2>2 DEF Stays, Same
  <1>4. QED
    BY <1>1, <1>3 DEF Inv, Keeps

-----------------------------------------------------------------------------
(* The setup.                                                              *)

LEMMA Configuration ==
  /\ Early \cap Late = {} /\ Early \cup Late = Federates
  /\ Span \in Nat /\ LCTS \in Nat \ {0}
  /\ DataCycle \in [Federates -> Nat \ {0}] /\ Lookahead \in [Federates -> Nat]
  BY TimeAssumption DEF Early

LEMMA JoinKeeps ==
  ASSUME Inv, NEW f \in Federates, Join(f) PROVE Keeps(f)
  <1> USE DEF Join, Goto, stateVars, frameVars, rtiVars
  <1>1. Types'
    BY DEF Inv, Types, Pcs
  <1>2. Local(f)'
    BY DEF Inv, Types, Local, OneAtATime, SetupInv, Idle, EarlyInv, LateInv, FrameInv,
           Before, Setting, Frames, Jobs
  <1>3. \A g \in Federates \ {f} : Same(g)
    BY DEF Inv, Types, Same
  <1>4. ~SetUp(f)
    BY DEF SetUp
  <1>5. EverybodySetUp \/ Stays(f)
    <2>1. CASE f \in Late
      BY <2>1 DEF Started, Inv, NobodyBefore, Frames, EverybodySetUp, Early
    <2>2. CASE f \notin Late
      BY <2>2 DEF Stays, Inv, Types, Frames, Jobs
    <2>3. QED
      BY <2>1, <2>2
  <1>6. QED
    BY <1>1, <1>2, <1>3, <1>4, <1>5 DEF Keeps
LEMMA SetupConstrainedKeeps ==
  ASSUME Inv, NEW f \in Federates, SetupConstrained(f) PROVE Keeps(f)
  <1> USE DEF SetupConstrained, Goto, Setup, Ask, stateVars, frameVars, dataVars, rtiVars
  <1>1. Types'
    BY Configuration DEF Inv, Types, Pcs, Asked, Enables
  <1>2. Local(f)'
    <2>1. /\ pc[f] = "constrain" /\ pc'[f] = "regulate" /\ Local(f)
          /\ adv'[f] \in {adv[f], "RESET"}
          /\ f \notin Constrained => pending'[f] = pending[f]
          /\ f \in Constrained => pending'[f].kind = "constrained"
      BY DEF Inv, Types
    <2>2. Idle(f) /\ enabled[f] = {} /\ adv[f] = "RESET"
      BY <2>1 DEF Local, SetupInv, Before
    <2>3. OneAtATime(f)' /\ EarlyInv(f)' /\ LateInv(f)' /\ FrameInv(f)'
      BY <2>1, <2>2 DEF Local, OneAtATime, EarlyInv, LateInv, FrameInv, SetupInv, Idle,
                        Before, Frames, Jobs, Requests
    <2>4. /\ ~calling'[f] /\ sim'[f] = 0 /\ answer'[f].kind = "none"
          /\ enabled'[f] = {} /\ adv'[f] = "RESET"
      BY <2>1, <2>2 DEF Local, SetupInv, Idle, Before
    <2>5. SetupInv(f)'
      BY <2>1, <2>2, <2>4 DEF SetupInv, Idle, Before, Setting, Requests
    <2>6. QED
      BY <2>3, <2>5 DEF Local
  <1>3. \A g \in Federates \ {f} : Same(g)
    BY DEF Inv, Types, Same
  <1>4. SetUp(f) => SetUp(f)'
    BY DEF SetUp, Enabled, Inv, Types
  <1>5. EverybodySetUp \/ Stays(f)
    BY DEF Stays, Inv, Types, Frames, Jobs
  <1>6. QED
    BY <1>1, <1>2, <1>3, <1>4, <1>5 DEF Keeps

LEMMA SetupRegulationKeeps ==
  ASSUME Inv, NEW f \in Federates, SetupRegulation(f) PROVE Keeps(f)
  <1> USE DEF SetupRegulation, Goto, Setup, Enabled, Ask, stateVars, frameVars, dataVars, rtiVars
  <1>1. Types'
    BY Configuration DEF Inv, Types, Pcs, Asked, Enables
  <1>2. Local(f)'
    BY Configuration DEF Inv, Types, Local, OneAtATime, SetupInv, Idle, EarlyInv,
           LateInv, FrameInv, Before, Setting, Frames, Jobs, Requests, Nothing, Asked, Enables
  <1>3. \A g \in Federates \ {f} : Same(g)
    BY DEF Inv, Types, Same
  <1>4. SetUp(f) => SetUp(f)'
    BY DEF SetUp, Enabled, Inv, Types
  <1>5. EverybodySetUp \/ Stays(f)
    BY Configuration DEF Stays, Inv, Types, Frames, Jobs
  <1>6. QED
    BY <1>1, <1>2, <1>3, <1>4, <1>5 DEF Keeps

LEMMA AlignKeeps ==
  ASSUME Inv, NEW f \in Federates, Align(f) PROVE Keeps(f)
  <1> USE DEF Align, Goto, Enabled, stateVars, frameVars, dataVars, rtiVars
  <1>1. Types'
    BY Configuration DEF Inv, Types, Pcs, Times
  <1>2. Local(f)'
    BY Configuration DEF Inv, Types, Times, Local, OneAtATime, SetupInv, Idle,
           EarlyInv, LateInv, FrameInv, Before, Setting, Frames, Jobs, Requests
  <1>3. \A g \in Federates \ {f} : Same(g)
    BY DEF Inv, Types, Same
  <1>4. SetUp(f) => SetUp(f)'
    BY DEF SetUp, Enabled, Inv, Types
  <1>5. EverybodySetUp \/ Stays(f)
    BY DEF Stays, Inv, Types, Frames, Jobs
  <1>6. QED
    BY <1>1, <1>2, <1>3, <1>4, <1>5 DEF Keeps

LEMMA BeginKeeps ==
  ASSUME Inv, NEW f \in Federates, Begin(f) PROVE Keeps(f)
  <1> USE DEF Begin, Goto, FirstJob, stateVars, frameVars, dataVars, rtiVars
  <1>1. Types'
    BY DEF Inv, Types, Pcs
  <1>2. Local(f)'
    <2>1. pc[f] = "barrier" /\ pc'[f] \in Jobs /\ Local(f) /\ f \in Early
      BY Configuration DEF Inv, Types, Local, LateInv, Jobs
    <2>2. Idle(f)
      BY <2>1 DEF SetUp, Enabled, Local, SetupInv, Setting
    <2>3. OneAtATime(f)' /\ EarlyInv(f)' /\ LateInv(f)' /\ SetupInv(f)'
      BY <2>1, <2>2 DEF Local, OneAtATime, EarlyInv, LateInv, SetupInv, Idle, Before,
                        Setting, Jobs
    <2>4. /\ requested[f] = 0 /\ offset[f] = 0 /\ sim[f] = 0 /\ ~calling[f]
          /\ adv[f] # "REQUESTED" /\ (adv[f] = "GRANTED" => granted[f] = requested[f])
      BY <2>1 DEF Local, EarlyInv, SetupInv, Setting
    <2>5. FrameInv(f)'
      BY <2>2, <2>4 DEF FrameInv, Idle, Enables, Requests
    <2>6. QED
      BY <2>3, <2>5 DEF Local
  <1>3. \A g \in Federates \ {f} : Same(g)
    BY DEF Inv, Types, Same
  <1>4. SetUp(f) => SetUp(f)'
    BY DEF SetUp, Enabled, Inv, Types
  <1>5. EverybodySetUp \/ Stays(f)
    BY DEF EverybodySetUp
  <1>6. QED
    BY <1>1, <1>2, <1>3, <1>4, <1>5 DEF Keeps

-----------------------------------------------------------------------------
(* The frames.                                                             *)

\* A federate that does not wait has nothing outstanding.
LEMMA WaitedIsIdle ==
  ASSUME Inv, NEW f \in Federates, pc[f] \in Frames, Waited(f) PROVE Idle(f)
  <1>1. Local(f) /\ pending[f] \in Asked /\ answer[f] \in Told
    BY DEF Inv, Types
  <1>2. /\ pending[f].kind \in {"none"} \cup Requests \cup Enables
        /\ answer[f].kind \in {"none", "grant"} \cup Enables
    BY <1>1 DEF Asked, Told, Nothing
  <1>3. QED
    BY <1>1, <1>2 DEF Waited, Local, FrameInv, Idle

LEMMA SendZeroKeeps ==
  ASSUME Inv, NEW f \in Federates, SendZero(f) PROVE Keeps(f)
  <1> USE DEF SendZero, Update, Job, Goto, stateVars, frameVars, dataVars, rtiVars
  <1>1. Types'
    BY DEF Inv, Types, Pcs
  <1>2. Local(f)'
    BY DEF Inv, Types, Local, OneAtATime, SetupInv, Idle, EarlyInv, LateInv, FrameInv,
           Before, Setting, Frames, Jobs
  <1>3. \A g \in Federates \ {f} : Same(g)
    BY DEF Inv, Types, Same
  <1>4. SetUp(f) => SetUp(f)'
    BY DEF SetUp, Enabled, Inv, Types
  <1>5. EverybodySetUp \/ Stays(f)
    BY DEF Stays, Inv, Types, Frames, Jobs
  <1>6. QED
    BY <1>1, <1>2, <1>3, <1>4, <1>5 DEF Keeps

LEMMA TakeZeroKeeps ==
  ASSUME Inv, NEW f \in Federates, TakeZero(f) PROVE Keeps(f)
  <1> USE DEF TakeZero, Job, Goto, stateVars, frameVars, dataVars, rtiVars
  <1>1. Types'
    BY DEF Inv, Types, Pcs
  <1>2. Local(f)'
    BY DEF Inv, Types, Local, OneAtATime, SetupInv, Idle, EarlyInv, LateInv, FrameInv,
           Before, Setting, Frames, Jobs
  <1>3. \A g \in Federates \ {f} : Same(g)
    BY DEF Inv, Types, Same
  <1>4. SetUp(f) => SetUp(f)'
    BY DEF SetUp, Enabled, Inv, Types
  <1>5. EverybodySetUp \/ Stays(f)
    BY DEF Stays, Inv, Types, Frames, Jobs
  <1>6. QED
    BY <1>1, <1>2, <1>3, <1>4, <1>5 DEF Keeps

LEMMA SendKeeps ==
  ASSUME Inv, NEW f \in Federates, Send(f) PROVE Keeps(f)
  <1> USE DEF Send, Update, Job, Goto, stateVars, frameVars, dataVars, rtiVars
  <1>1. Types'
    BY DEF Inv, Types, Pcs
  <1>2. Local(f)'
    BY WaitedIsIdle DEF Inv, Types, Local, OneAtATime, SetupInv, Idle, EarlyInv, LateInv, FrameInv,
           Before, Setting, Frames, Jobs
  <1>3. \A g \in Federates \ {f} : Same(g)
    BY DEF Inv, Types, Same
  <1>4. SetUp(f) => SetUp(f)'
    BY DEF SetUp, Enabled, Inv, Types
  <1>5. EverybodySetUp \/ Stays(f)
    BY DEF Stays, Inv, Types, Frames, Jobs
  <1>6. QED
    BY <1>1, <1>2, <1>3, <1>4, <1>5 DEF Keeps

LEMMA ReturnKeeps ==
  ASSUME Inv, NEW f \in Federates, Return(f) PROVE Keeps(f)
  <1> USE DEF Return, stateVars, frameVars, dataVars, rtiVars
  <1>1. Types'
    BY DEF Inv, Types, Pcs
  <1>2. Local(f)'
    BY DEF Inv, Types, Local, OneAtATime, SetupInv, Idle, EarlyInv, LateInv, FrameInv,
           Before, Setting, Frames, Jobs
  <1>3. \A g \in Federates \ {f} : Same(g)
    BY DEF Inv, Types, Same
  <1>4. SetUp(f) => SetUp(f)'
    BY DEF SetUp, Enabled, Inv, Types
  <1>5. EverybodySetUp \/ Stays(f)
    BY DEF Stays, Inv, Types, Frames, Jobs
  <1>6. QED
    BY <1>1, <1>2, <1>3, <1>4, <1>5 DEF Keeps

\* What a request for t, of either kind, changes.
Asks(f, t) ==
  /\ adv' = [adv EXCEPT ![f] = "RESET"] /\ requested' = [requested EXCEPT ![f] = t]
  /\ \/ /\ calling' = [calling EXCEPT ![f] = TRUE]
        /\ \E k \in Requests : pending' = [pending EXCEPT ![f] = Ask(k, t)]
     \/ UNCHANGED <<calling, pending>>
  /\ UNCHANGED <<granted, enabled, time, floor, answer>>

LEMMA CallRequests ==
  ASSUME NEW f \in Federates, NEW k \in Requests, NEW t \in Nat, Call(f, k, t),
         requested' = [requested EXCEPT ![f] = t]
  PROVE  Asks(f, t)
  BY DEF Call, Asks, dataVars

\* A call from a place where nothing is outstanding, which goes on to a frame.
LEMMA AsksKeeps ==
  ASSUME Inv, NEW f \in Federates, NEW t \in Nat, Asks(f, t), Idle(f),
         NEW j \in Jobs, pc' = [pc EXCEPT ![f] = j], ~calling[f],
         pc[f] \in Frames \cup {"aligned"}, UNCHANGED offset,
         \/ UNCHANGED sim
         \/ sim' = [sim EXCEPT ![f] = @ + DataCycle[f]],
         LookaheadIsStep => t = offset[f] + sim'[f],
         f \in Early => pc[f] # "aligned"
  PROVE  Keeps(f)
  <1> USE DEF Asks
  <1>1. Types'
    <2>1. DataCycle[f] \in Nat /\ sim \in [Federates -> Nat]
      BY Configuration DEF Inv, Types
    <2>2. sim[f] + DataCycle[f] \in Nat
      BY <2>1
    <2>3. sim' \in [Federates -> Nat]
      BY <2>1, <2>2
    <2>4. pc' \in [Federates -> Pcs]
      BY DEF Inv, Types, Pcs, Jobs
    <2>5. \A k \in Requests : Ask(k, t) \in Asked
      BY DEF Ask, Asked
    <2>6. pending' \in [Federates -> Asked]
      BY <2>5 DEF Inv, Types
    <2>7. QED
      BY <2>3, <2>4, <2>6 DEF Inv, Types
  <1>2. Local(f)'
    <2>1. /\ pc'[f] = j /\ requested'[f] = t /\ adv'[f] = "RESET"
          /\ answer'[f].kind = "none" /\ offset'[f] = offset[f] /\ Local(f)
      BY DEF Inv, Types, Idle
    <2>2. \/ ~calling'[f] /\ pending'[f].kind = "none"
          \/ calling'[f] /\ pending'[f].kind \in Requests /\ pending'[f].time = t
      BY DEF Inv, Types, Idle, Ask
    <2>3. OneAtATime(f)' /\ SetupInv(f)' /\ EarlyInv(f)' /\ LateInv(f)'
      BY <2>1, <2>2 DEF OneAtATime, SetupInv, EarlyInv, LateInv, Local, Jobs, Before,
                        Setting, Requests
    <2>4. FrameInv(f)'
      BY <2>1, <2>2 DEF FrameInv, Jobs, Enables, Requests, LookaheadIsStep
    <2>5. QED
      BY <2>3, <2>4 DEF Local
  <1>3. \A g \in Federates \ {f} : Same(g)
    BY DEF Inv, Types, Same
  <1>4. SetUp(f) => SetUp(f)'
    BY DEF SetUp, Inv, Types, Jobs
  <1>5. EverybodySetUp \/ Stays(f)
    <2>1. CASE pc[f] \in Frames
      BY <2>1 DEF Stays, Inv, Types, Frames, Jobs
    <2>2. CASE pc[f] = "aligned"
      BY <2>2, Configuration DEF Inv, NobodyBefore, EverybodySetUp
    <2>3. QED
      BY <2>1, <2>2
  <1>6. QED
    BY <1>1, <1>2, <1>3, <1>4, <1>5 DEF Keeps

LEMMA RequestBoundaryKeeps ==
  ASSUME Inv, NEW f \in Federates, RequestBoundary(f) PROVE Keeps(f)
  <1>1. /\ pc[f] = "aligned" /\ ~calling[f] /\ pc' = [pc EXCEPT ![f] = FirstJob(f)]
        /\ Call(f, Kind(f), requested[f]) /\ UNCHANGED <<sim, offset, requested>>
    BY DEF RequestBoundary, Goto, frameVars
  <1>2. Local(f) /\ requested \in [Federates -> Nat] /\ offset[f] \in Nat
    BY DEF Inv, Types
  <1>3. Idle(f) /\ requested[f] = offset[f] /\ sim[f] = 0 /\ f \notin Early
    BY <1>1, <1>2 DEF Local, SetupInv, EarlyInv
  <1>4. FirstJob(f) \in Jobs /\ Kind(f) \in Requests
    BY DEF FirstJob, Jobs, Kind, Requests
  <1>5. requested' = [requested EXCEPT ![f] = requested[f]]
    BY <1>1, <1>2
  <1>6. Asks(f, requested[f])
    BY <1>1, <1>2, <1>4, <1>5, CallRequests
  <1>7. requested[f] \in Nat /\ requested[f] = offset[f] + sim'[f]
    BY <1>1, <1>2, <1>3
  <1>8. QED
    BY <1>1, <1>3, <1>4, <1>6, <1>7, AsksKeeps

LEMMA RequestZeroKeeps ==
  ASSUME Inv, NEW f \in Federates, RequestZero(f) PROVE Keeps(f)
  <1>1. /\ pc[f] = "exchange" /\ ~calling[f] /\ pc' = [pc EXCEPT ![f] = "exchange"]
        /\ Call(f, "TARA", requested[f]) /\ UNCHANGED <<sim, offset, requested>>
        /\ Waited(f)
    BY DEF RequestZero, Job, Goto, frameVars
  <1>2. Local(f) /\ requested \in [Federates -> Nat]
    BY DEF Inv, Types
  <1>3. Idle(f) /\ (LookaheadIsStep => requested[f] = offset[f] + sim[f])
    BY <1>1, <1>2, WaitedIsIdle DEF Local, FrameInv, Frames, Jobs
  <1>4. requested' = [requested EXCEPT ![f] = requested[f]]
    BY <1>1, <1>2
  <1>5. Asks(f, requested[f])
    BY <1>1, <1>2, <1>4, CallRequests DEF Requests
  <1>6. QED
    BY <1>1, <1>2, <1>3, <1>5, AsksKeeps DEF Frames, Jobs

LEMMA RequestKeeps ==
  ASSUME Inv, NEW f \in Federates, Request(f) PROVE Keeps(f)
  <1> DEFINE t == requested[f] + Step(f)
  <1>1. /\ pc[f] = "request" /\ ~calling[f] /\ pc' = [pc EXCEPT ![f] = FirstJob(f)]
        /\ Call(f, Kind(f), t) /\ requested' = [requested EXCEPT ![f] = t]
        /\ sim' = [sim EXCEPT ![f] = @ + DataCycle[f]] /\ UNCHANGED offset
    BY DEF Request, Goto
  <1>2. /\ Local(f) /\ requested[f] \in Nat /\ sim \in [Federates -> Nat]
        /\ offset[f] \in Nat /\ DataCycle[f] \in Nat /\ Lookahead[f] \in Nat
    BY Configuration DEF Inv, Types
  <1>3. Idle(f) /\ (LookaheadIsStep => requested[f] = offset[f] + sim[f])
    BY <1>1, <1>2 DEF Local, FrameInv, Frames
  <1>4. Step(f) \in Nat /\ (LookaheadIsStep => Step(f) = DataCycle[f])
    BY <1>2 DEF Step, LookaheadIsStep
  <1>5. t \in Nat /\ (LookaheadIsStep => t = offset[f] + sim'[f])
    BY <1>1, <1>2, <1>3, <1>4
  <1>6. FirstJob(f) \in Jobs /\ Kind(f) \in Requests
    BY DEF FirstJob, Jobs, Kind, Requests
  <1> HIDE DEF t
  <1>7. Asks(f, t)
    BY <1>1, <1>5, <1>6, CallRequests
  <1>8. QED
    BY <1>1, <1>3, <1>5, <1>6, <1>7, AsksKeeps DEF Frames

-----------------------------------------------------------------------------
(* The RTI and its callbacks.                                              *)

\* A federate one can find in some place of its setup or in a frame.
LEMMA Places ==
  ASSUME Inv, NEW f \in Federates
  PROVE  /\ pc[f] \in {"out", "constrain", "regulate", "align", "aligned",
                       "barrier", "gone"} \cup Frames
         /\ Local(f) /\ pending[f] \in Asked /\ answer[f] \in Told
  BY DEF Inv, Types, Pcs, Frames, Jobs

\* Those who have a time other than 0 are not in the setup of the early joiners.
LEMMA EarlyOnes ==
  ASSUME Inv, NEW f \in Federates, ~EverybodySetUp
  PROVE  /\ time[f] = 0 /\ floor[f] = 0 /\ pc[f] \notin Frames
         /\ f \in Late => pc[f] = "out"
  BY DEF Inv, NobodyBefore, EverybodySetUp

\* An answer to a request changes nothing else, but for the time of f.
LEMMA AnswerKeeps ==
  ASSUME Inv, NEW f \in Federates, NEW k \in {"grant"} \cup Enables, NEW t \in Nat,
         Answer(f, Ask(k, t)), Local(f)',
         time' \in [Federates -> Nat], floor' \in [Federates -> Nat],
         \A g \in Federates \ {f} : time'[g] = time[g] /\ floor'[g] = floor[g],
         EverybodySetUp \/ (time'[f] = time[f] /\ floor'[f] = floor[f])
  PROVE  Keeps(f)
  <1> USE DEF Answer, frameVars, stateVars
  <1>1. Types'
    <2>1. Nothing \in Asked /\ Ask(k, t) \in Told
      BY DEF Asked, Told, Ask
    <2>2. pending' \in [Federates -> Asked] /\ answer' \in [Federates -> Told]
      BY <2>1 DEF Inv, Types
    <2>3. QED
      BY <2>2 DEF Inv, Types
  <1>2. \A g \in Federates \ {f} : Same(g)
    BY DEF Inv, Types, Same
  <1>3. SetUp(f) => SetUp(f)'
    BY DEF SetUp, Enabled
  <1>4. EverybodySetUp \/ Stays(f)
    BY DEF Stays
  <1>5. QED
    BY <1>1, <1>2, <1>3, <1>4 DEF Keeps

LEMMA EnableConstrainedKeeps ==
  ASSUME Inv, NEW f \in Federates, EnableConstrained(f) PROVE Keeps(f)
  <1> DEFINE t == time[f]
  <1>1. /\ pending[f].kind = "constrained" /\ Answer(f, Ask("constrained", t))
        /\ UNCHANGED <<time, floor>>
    BY DEF EnableConstrained
  <1>2. Local(f) /\ t \in Nat /\ pc[f] = "regulate"
    BY <1>1, Places
    DEF Local, SetupInv, FrameInv, Idle, Before, Setting, Enables, Inv, Types
  <1>3. f \in Early => t = 0
    BY <1>2, EarlyOnes DEF SetUp, EverybodySetUp
  <1> HIDE DEF t
  <1>4. Local(f)'
    <2>1. /\ pending'[f].kind = "none" /\ answer'[f].kind = "constrained"
          /\ answer'[f].time = t
          /\ UNCHANGED <<pc, calling, sim, offset, requested, granted, adv, enabled>>
      BY <1>1 DEF Answer, Ask, Nothing, frameVars, stateVars, Inv, Types
    <2>2. OneAtATime(f)' /\ SetupInv(f)'
      BY <1>1, <1>2, <2>1 DEF Local, OneAtATime, SetupInv, Idle, Before, Setting, Requests
    <2>3. EarlyInv(f)' /\ LateInv(f)' /\ FrameInv(f)'
      BY <1>2, <1>3, <2>1 DEF Local, EarlyInv, LateInv, FrameInv, Frames, Jobs
    <2>4. QED
      BY <2>2, <2>3 DEF Local
  <1>5. QED
    BY <1>1, <1>2, <1>4, AnswerKeeps DEF Enables, Inv, Types

LEMMA EnableRegulationKeeps ==
  ASSUME Inv, NEW f \in Federates, EnableRegulation(f) PROVE Keeps(f)
  <1>1. PICK t \in Times :
          /\ RegulationTime(f, t) /\ Answer(f, Ask("regulating", t))
          /\ \/ t = time[f] /\ UNCHANGED <<time, floor>>
             \/ /\ t # time[f] /\ time' = [time EXCEPT ![f] = t]
                /\ floor' = [floor EXCEPT ![f] = t + 1]
    BY DEF EnableRegulation, TakeTo
  <1>2. t \in Nat /\ 0 \in Times
    BY Configuration DEF Times
  <1>3. pending[f].kind = "regulating" /\ Local(f) /\ pc[f] \in Setting
    BY Places DEF EnableRegulation, Local, SetupInv, FrameInv, Idle, Before, Setting, Enables
  <1>4. f \in Regulating /\ "regulating" \notin enabled[f]
    BY <1>3 DEF Local, SetupInv, Idle
  \* All early joiners become time regulating at 0.
  <1>5. f \in Early => t = 0 /\ time[f] = 0
    <2> SUFFICES ASSUME f \in Early PROVE t = 0 /\ time[f] = 0
      OBVIOUS
    <2>1. pc[f] = "barrier"
      BY <1>3 DEF Local, EarlyInv, Setting
    <2>2. ~EverybodySetUp
      BY <1>4, <2>1 DEF EverybodySetUp, SetUp, Enabled
    <2>3. \A g \in Federates : time[g] = 0 /\ floor[g] = 0
      BY <2>2, EarlyOnes
    <2>4. NotTooLate(f, 0)
      BY <2>3, Configuration DEF NotTooLate
    <2>5. t <= 0
      BY <1>1, <1>2, <2>4 DEF RegulationTime
    <2>6. QED
      BY <1>2, <2>3, <2>5
  <1>6. EverybodySetUp \/ UNCHANGED <<time, floor>>
    BY <1>1, <1>3, <1>5, EarlyOnes, Configuration DEF Setting
  <1>7. Local(f)'
    <2>1. /\ pending'[f].kind = "none" /\ answer'[f].kind = "regulating"
          /\ answer'[f].time = t
          /\ UNCHANGED <<pc, calling, sim, offset, requested, granted, adv, enabled>>
      BY <1>1 DEF Answer, Ask, Nothing, frameVars, stateVars, Inv, Types
    <2>2. OneAtATime(f)' /\ SetupInv(f)'
      BY <1>3, <1>4, <2>1
      DEF Local, OneAtATime, SetupInv, Idle, Before, Setting, Requests
    <2>3. EarlyInv(f)' /\ LateInv(f)' /\ FrameInv(f)'
      BY <1>3, <1>5, <2>1 DEF Local, EarlyInv, LateInv, FrameInv, Frames, Jobs, Setting
    <2>4. QED
      BY <2>2, <2>3 DEF Local
  <1>8. time' \in [Federates -> Nat] /\ floor' \in [Federates -> Nat]
    BY <1>1, <1>2 DEF Inv, Types
  <1>9. \A g \in Federates \ {f} : time'[g] = time[g] /\ floor'[g] = floor[g]
    BY <1>1 DEF Inv, Types
  <1>10. EverybodySetUp \/ (time'[f] = time[f] /\ floor'[f] = floor[f])
    BY <1>6
  <1>11. Answer(f, Ask("regulating", t)) /\ "regulating" \in {"grant"} \cup Enables
    BY <1>1 DEF Enables
  <1>12. QED
    BY <1>2, <1>7, <1>8, <1>9, <1>10, <1>11, AnswerKeeps

LEMMA GrantKeeps ==
  ASSUME Inv, NEW f \in Federates, Grant(f) PROVE Keeps(f)
  <1> DEFINE t == pending[f].time
  <1>1. /\ pending[f].kind \in Requests /\ Answer(f, Ask("grant", t))
        /\ time' = [time EXCEPT ![f] = t]
        /\ floor' = [floor EXCEPT ![f] = t] \/ floor' = [floor EXCEPT ![f] = t + 1]
    BY DEF Grant, TakeTo, Requests
  <1>2. Local(f) /\ t \in Nat /\ pc[f] \in Frames
    BY <1>1, Places DEF Local, SetupInv, Idle, Before, Asked, Nothing, Requests
  <1>3. EverybodySetUp
    BY <1>2, EarlyOnes
  <1>4. t = requested[f]
    BY <1>1, <1>2 DEF Local, OneAtATime
  <1> HIDE DEF t
  <1>5. Local(f)'
    <2>1. /\ pending'[f].kind = "none" /\ answer'[f].kind = "grant"
          /\ answer'[f].time = t
          /\ UNCHANGED <<pc, calling, sim, offset, requested, granted, adv, enabled>>
      BY <1>1 DEF Answer, Ask, Nothing, frameVars, stateVars, Inv, Types
    <2>2. OneAtATime(f)' /\ SetupInv(f)' /\ EarlyInv(f)' /\ LateInv(f)'
      BY <1>1, <1>2, <1>4, <2>1 DEF Local, OneAtATime, SetupInv, EarlyInv, LateInv, Frames,
                        Jobs, Before, Setting, Requests
    <2>3. FrameInv(f)'
      BY <1>1, <1>2, <2>1 DEF Local, FrameInv, Idle, Enables, Requests
    <2>4. QED
      BY <2>2, <2>3 DEF Local
  <1>6. time' \in [Federates -> Nat] /\ floor' \in [Federates -> Nat]
    BY <1>1, <1>2 DEF Inv, Types
  <1>7. \A g \in Federates \ {f} : time'[g] = time[g] /\ floor'[g] = floor[g]
    BY <1>1 DEF Inv, Types
  <1>8. QED
    BY <1>1, <1>2, <1>3, <1>5, <1>6, <1>7, AnswerKeeps

\* A callback other than the one that is waited for changes nothing that matters.
LEMMA OnEnabledKeeps ==
  ASSUME Inv, NEW f \in Federates, OnEnabled(f) PROVE Keeps(f)
  <1>1. PICK k \in Enables :
          Callback(f, k) /\ Granted(f, answer[f].time)
          /\ enabled' = [enabled EXCEPT ![f] = @ \cup {k}]
    BY DEF OnEnabled
  <1>2. /\ Local(f) /\ answer[f].kind = k /\ pending[f].kind = "none"
        /\ answer[f].time \in Nat
    BY <1>1, Places DEF Callback, Local, OneAtATime, Enables, Told, Nothing
  <1>3. \/ pc[f] = "regulate" /\ k = "constrained"
        \/ pc[f] \in Setting /\ k = "regulating"
    BY <1>2, Places
    DEF Local, SetupInv, FrameInv, Idle, Before, Setting, Enables, Frames
  <1>4. /\ requested' = [requested EXCEPT ![f] = answer[f].time]
        /\ granted' = [granted EXCEPT ![f] = answer[f].time]
        /\ adv' = [adv EXCEPT ![f] = "GRANTED"]
        /\ answer' = [answer EXCEPT ![f] = Nothing]
        /\ UNCHANGED <<pc, calling, sim, offset, time, floor, pending>>
    BY <1>1, <1>2 DEF Granted, frameVars
  <1>5. Types'
    <2>1. Nothing \in Told
      BY DEF Told
    <2>2. enabled' \in [Federates -> SUBSET Enables]
      BY <1>1 DEF Inv, Types
    <2>3. QED
      BY <1>2, <1>4, <2>1, <2>2 DEF Inv, Types
  <1>6. Local(f)'
    <2>1. /\ requested'[f] = answer[f].time /\ granted'[f] = answer[f].time
          /\ adv'[f] = "GRANTED" /\ answer'[f].kind = "none"
          /\ pending'[f].kind = "none" /\ enabled'[f] = enabled[f] \cup {k}
      BY <1>1, <1>2, <1>4 DEF Nothing, Inv, Types
    <2>2. Idle(f)'
      BY <2>1 DEF Idle
    <2>3. OneAtATime(f)' /\ SetupInv(f)'
      BY <1>2, <1>3, <1>4, <2>1, <2>2
      DEF Local, OneAtATime, SetupInv, Before, Setting, Requests
    <2>4. EarlyInv(f)' /\ LateInv(f)' /\ FrameInv(f)'
      BY <1>2, <1>3, <1>4, <2>1
      DEF Local, EarlyInv, LateInv, FrameInv, Frames, Jobs, Setting, Enables
    <2>5. QED
      BY <2>3, <2>4 DEF Local
  <1>7. \A g \in Federates \ {f} : Same(g)
    BY <1>1, <1>4 DEF Inv, Types, Same
  <1>8. SetUp(f) => SetUp(f)'
    BY <1>1, <1>4 DEF SetUp, Enabled, Inv, Types
  <1>9. Stays(f)
    BY <1>4 DEF Stays
  <1>10. QED
    BY <1>5, <1>6, <1>7, <1>8, <1>9 DEF Keeps

LEMMA OnGrantKeeps ==
  ASSUME Inv, NEW f \in Federates, OnGrant(f) PROVE Keeps(f)
  <1>1. /\ Local(f) /\ answer[f].kind = "grant" /\ ~calling[f]
        /\ answer[f].time = requested[f] /\ requested[f] \in Nat
    BY Places DEF OnGrant, Callback, Local, OneAtATime, Inv, Types
  <1>2. pc[f] \in Frames /\ pending[f].kind = "none"
    BY <1>1, Places DEF Local, OneAtATime, SetupInv, Idle, Before
  <1>3. /\ requested' = [requested EXCEPT ![f] = requested[f]]
        /\ granted' = [granted EXCEPT ![f] = requested[f]]
        /\ adv' = [adv EXCEPT ![f] = "GRANTED"]
        /\ answer' = [answer EXCEPT ![f] = Nothing]
        /\ UNCHANGED <<pc, calling, sim, offset, time, floor, pending, enabled>>
    BY <1>1 DEF OnGrant, Granted, frameVars
  <1>4. Types'
    <2>1. Nothing \in Told
      BY DEF Told
    <2>2. QED
      BY <1>1, <1>3, <2>1 DEF Inv, Types
  <1>5. Local(f)'
    <2>1. /\ requested'[f] = requested[f] /\ granted'[f] = requested[f]
          /\ adv'[f] = "GRANTED" /\ answer'[f].kind = "none"
      BY <1>1, <1>3 DEF Nothing, Inv, Types
    <2>2. OneAtATime(f)' /\ SetupInv(f)' /\ EarlyInv(f)' /\ LateInv(f)'
      BY <1>1, <1>2, <1>3, <2>1
      DEF Local, OneAtATime, SetupInv, EarlyInv, LateInv, Frames, Jobs, Before, Setting,
          Requests
    <2>3. FrameInv(f)'
      BY <1>1, <1>2, <1>3, <2>1 DEF Local, FrameInv, Idle, Enables, Requests
    <2>4. QED
      BY <2>2, <2>3 DEF Local
  <1>6. \A g \in Federates \ {f} : Same(g)
    BY <1>3 DEF Inv, Types, Same
  <1>7. (SetUp(f) => SetUp(f)') /\ Stays(f)
    BY <1>3 DEF SetUp, Enabled, Stays
  <1>8. QED
    BY <1>4, <1>5, <1>6, <1>7 DEF Keeps

LEMMA LeaveKeeps ==
  ASSUME Inv, NEW f \in Federates, Leave(f) PROVE Keeps(f)
  <1> USE DEF Leave, Member, stateVars, frameVars, dataVars
  <1>1. Types'
    BY DEF Inv, Types, Pcs, Asked, Told
  <1>2. Local(f)'
    BY DEF Inv, Types, Local, OneAtATime, SetupInv, Idle, EarlyInv, LateInv, FrameInv,
           Before, Setting, Frames, Jobs, Requests, Nothing
  <1>3. \A g \in Federates \ {f} : Same(g)
    BY DEF Inv, Types, Same
  <1>4. SetUp(f)'
    BY DEF SetUp, Inv, Types
  <1>5. Stays(f)
    BY DEF Stays, Inv, Types, Frames, Jobs
  <1>6. QED
    BY <1>1, <1>2, <1>3, <1>4, <1>5 DEF Keeps

-----------------------------------------------------------------------------
(* The data, which the time management does not depend on.                 *)

DataTypes ==
  /\ received \in [Federates -> [Federates -> Nat]]
  /\ zero \in [Federates -> SUBSET Nat]
  /\ tso \in [Federates -> SUBSET Messages]
  /\ refused \subseteq Federates

\* A set of naturals has a least element, and a bounded one a greatest.
LEMMA Least ==
  ASSUME NEW S \in SUBSET Nat, S # {}
  PROVE  \E x \in S : \A y \in S : x <= y
  <1>1. PICK x \in S : \A y \in S : ~(<<y, x>> \in OpToRel(<, Nat))
    BY NatLessThanWellFounded, WFMin
  <1>2. ASSUME NEW y \in S PROVE x <= y
    <2>1. ~(y < x)
      BY <1>1 DEF OpToRel
    <2>2. QED
      BY <2>1
  <1>3. QED
    BY <1>2

LEMMA MaxOfBounded ==
  ASSUME NEW b \in Nat, NEW S \in SUBSET (0..b), S # {}
  PROVE  Max(S) \in S /\ \A y \in S : Max(S) >= y
  <1> DEFINE T == {b - x : x \in S}
  <1>1. T \subseteq Nat
    BY \A x \in S : b - x \in Nat
  <1>2. T # {}
    OBVIOUS
  <1> HIDE DEF T
  <1>3. PICK m \in T : \A y \in T : m <= y
    BY <1>1, <1>2, Least
  <1>4. PICK x \in S : m = b - x
    BY DEF T
  <1>5. ASSUME NEW y \in S PROVE x >= y
    <2>1. b - y \in T
      BY DEF T
    <2>2. QED
      BY <1>3, <1>4, <2>1
  <1>6. QED
    BY <1>5 DEF Max

LEMMA ReflectTypes ==
  ASSUME DataTypes, NEW f \in Federates, NEW t \in Nat, Reflect(f, t)
  PROVE  /\ received' \in [Federates -> [Federates -> Nat]]
         /\ zero' \in [Federates -> SUBSET Nat]
         /\ tso' \in [Federates -> SUBSET Messages]
  <1> DEFINE due == {m \in tso[f] : m.time <= t}
             Cyclic(g) == {m.time : m \in {x \in due : x.from = g /\ ~x.zero}}
             r == [g \in Federates |-> Max(Cyclic(g) \cup {received[f][g]})]
  <1>1. /\ tso' = [tso EXCEPT ![f] = @ \ due]
        /\ received' = [received EXCEPT ![f] = r]
        /\ zero' = [zero EXCEPT ![f] = @ \cup {m.time : m \in {x \in due : x.zero}}]
    BY DEF Reflect, DataTypes
  <1>2. \A m \in due : m \in tso[f] /\ m.time \in 0..t
    BY DEF DataTypes, Messages
  <1>3. ASSUME NEW g \in Federates
        PROVE  Max(Cyclic(g) \cup {received[f][g]}) \in Nat
    <2>1. received[f][g] \in Nat
      BY DEF DataTypes
    <2>2. PICK b \in Nat : b >= t /\ b >= received[f][g]
      BY <2>1
    <2>3. Cyclic(g) \cup {received[f][g]} \in SUBSET (0..b)
      BY <1>2, <2>1, <2>2
    <2>4. Cyclic(g) \cup {received[f][g]} # {}
      OBVIOUS
    <2> HIDE DEF Cyclic
    <2>5. \A S \in SUBSET (0..b) : S # {} => Max(S) \in S
      BY <2>2, MaxOfBounded
    <2>6. QED
      BY <2>2, <2>3, <2>4, <2>5
  <1>4. {m.time : m \in {x \in due : x.zero}} \subseteq Nat
    BY <1>2
  <1>5. r \in [Federates -> Nat]
    BY <1>3
  <1> HIDE DEF r
  <1>6. QED
    BY <1>1, <1>4, <1>5 DEF DataTypes

LEMMA UpdateTypes ==
  ASSUME DataTypes, NEW g \in Federates, NEW t \in Nat, NEW set, NEW z \in BOOLEAN,
         Update(g, t, set, z)
  PROVE  received' \in [Federates -> [Federates -> Nat]] /\ tso' \in [Federates -> SUBSET Messages]
  <1>1. [from |-> g, time |-> t, zero |-> z] \in Messages
    BY DEF Messages
  <1>2. QED
    BY <1>1 DEF Update, DataTypes

LEMMA DataStep ==
  ASSUME Inv, DataTypes, [Next]_vars PROVE DataTypes'
  <1>1. CASE UNCHANGED vars
    BY <1>1 DEF vars, dataVars, rtiVars, DataTypes
  <1>2. ASSUME NEW f \in Federates, Main(f) \/ Leave(f) PROVE DataTypes'
    <2>1. CASE SendZero(f) \/ Send(f)
      <3>1. granted[f] \in Nat /\ UpdateTime(f) \in Nat
        BY Configuration DEF Inv, Types, UpdateTime
      <3>2. UNCHANGED <<zero, refused>>
        BY <2>1 DEF SendZero, Send
      <3>3. \/ Update(f, granted[f], {g \in Federates : Source[g] = f}, TRUE)
            \/ Update(f, UpdateTime(f), Federates, FALSE)
        BY <2>1 DEF SendZero, Send
      <3>4. received' \in [Federates -> [Federates -> Nat]] /\ tso' \in [Federates -> SUBSET Messages]
        BY <3>1, <3>3, UpdateTypes
      <3>5. QED
        BY <3>2, <3>4 DEF DataTypes
    <2>2. CASE TakeZero(f)
      BY <2>2 DEF TakeZero, rtiVars, DataTypes
    <2>3. CASE RequestBoundary(f) \/ RequestZero(f) \/ Request(f)
      <3>1. \E k, t : Call(f, k, t)
        BY <2>3 DEF RequestBoundary, RequestZero, Request
      <3>2. UNCHANGED <<received, zero, tso>> /\ refused' \subseteq refused \cup {f}
        BY <3>1 DEF Call, dataVars
      <3>3. QED
        BY <3>2 DEF DataTypes
    <2>4. CASE Leave(f)
      BY <2>4 DEF Leave, dataVars, DataTypes
    <2>5. CASE Join(f) \/ SetupConstrained(f) \/ SetupRegulation(f) \/ Align(f)
               \/ Begin(f) \/ Return(f)
      BY <2>5 DEF Join, SetupConstrained, SetupRegulation, Setup, Align, Begin, Return,
         dataVars, rtiVars, DataTypes
    <2>6. QED
      BY <1>2, <2>1, <2>2, <2>3, <2>4, <2>5 DEF Main
  <1>3. ASSUME NEW f \in Federates, Rti(f) PROVE DataTypes'
    <2>1. UNCHANGED refused
      BY <1>3 DEF Rti, EnableConstrained, EnableRegulation, Grant, Answer
    <2>2. CASE EnableConstrained(f)
      BY <2>1, <2>2 DEF EnableConstrained, dataVars, DataTypes
    <2>3. CASE EnableRegulation(f)
      <3>1. PICK t \in Times :
              UNCHANGED <<time, floor, tso, dataVars>> \/ TakeTo(f, t, t + 1)
        BY <2>3 DEF EnableRegulation
      <3>2. t \in Nat
        BY Configuration DEF Times
      <3>3. QED
        BY <2>1, <3>1, <3>2, ReflectTypes DEF TakeTo, dataVars, DataTypes
    <2>4. CASE Grant(f)
      <3>1. Reflect(f, pending[f].time) /\ pending[f].kind \in Requests
        BY <2>4 DEF Grant, TakeTo, Requests
      <3>2. pending[f].time \in Nat
        BY <3>1, Places DEF Asked, Nothing, Requests
      <3>3. QED
        BY <2>1, <3>1, <3>2, ReflectTypes DEF DataTypes
    <2>5. QED
      BY <1>3, <2>2, <2>3, <2>4 DEF Rti
  <1>4. ASSUME NEW f \in Federates, Ambassador(f) PROVE DataTypes'
    BY <1>4 DEF Ambassador, OnEnabled, OnGrant, Granted, dataVars, DataTypes
  <1>5. QED
    BY <1>1, <1>2, <1>3, <1>4 DEF Next

-----------------------------------------------------------------------------
(* The theorems.                                                           *)

LEMMA InitInv == Init => Inv
  <1> SUFFICES ASSUME Init PROVE Inv
    OBVIOUS
  <1> USE DEF Init, All
  <1>1. Types
    BY DEF Types, Pcs, Asked, Told
  <1>2. ASSUME NEW f \in Federates PROVE Local(f)
    BY <1>2 DEF Local, OneAtATime, SetupInv, Idle, EarlyInv, LateInv, FrameInv, Before,
           Setting, Frames, Jobs, Requests, Nothing
  <1>3. NobodyBefore
    BY DEF NobodyBefore, Frames, Jobs
  <1>4. QED
    BY <1>1, <1>2, <1>3 DEF Inv

\* Each step keeps what there is to keep.
LEMMA StepKeeps ==
  ASSUME Inv, NEW f \in Federates, Main(f) \/ Rti(f) \/ Ambassador(f) \/ Leave(f)
  PROVE  Keeps(f)
  BY JoinKeeps, SetupConstrainedKeeps, SetupRegulationKeeps, AlignKeeps,
     RequestBoundaryKeeps, BeginKeeps, SendZeroKeeps, TakeZeroKeeps, RequestZeroKeeps,
     SendKeeps, RequestKeeps, ReturnKeeps, EnableConstrainedKeeps, EnableRegulationKeeps,
     GrantKeeps, OnEnabledKeeps, OnGrantKeeps, LeaveKeeps
  DEF Main, Rti, Ambassador

LEMMA StepInv == Inv /\ [Next]_vars => Inv'
  <1> SUFFICES ASSUME Inv, [Next]_vars PROVE Inv'
    OBVIOUS
  <1>1. CASE UNCHANGED vars
    BY <1>1 DEF vars, frameVars, stateVars, rtiVars, Inv, Types, Local, OneAtATime,
       SetupInv, Idle, EarlyInv, LateInv, FrameInv, NobodyBefore, SetUp, Enabled
  <1>2. CASE Next
    BY <1>2, StepKeeps, KeepsInv DEF Next
  <1>3. QED
    BY <1>1, <1>2

LEMMA Invariance == Spec => []Inv
  BY InitInv, StepInv, PTL DEF Spec

LEMMA InvRequests == Inv => OneRequest
  <1> SUFFICES ASSUME Inv, NEW f \in Federates, Member(f)
               PROVE  /\ adv[f] = "REQUESTED" \/ calling[f] <=>
                           \/ /\ pending[f].kind \in Requests
                              /\ pending[f].time = requested[f]
                           \/ /\ answer[f].kind = "grant"
                              /\ answer[f].time = requested[f]
                      /\ calling[f] => adv[f] = "RESET"
                      /\ pending[f] = Nothing \/ answer[f] = Nothing
    BY DEF OneRequest
  <1>1. /\ pending[f].kind \in Requests => pending[f].time = requested[f]
        /\ answer[f].kind = "grant" => answer[f].time = requested[f]
        /\ calling[f] => adv[f] = "RESET"
        /\ pending[f].kind = "none" \/ answer[f].kind = "none"
    BY Places DEF Local, OneAtATime
  <1>2. adv[f] = "REQUESTED" \/ calling[f]
          <=> pending[f].kind \in Requests \/ answer[f].kind = "grant"
    BY Places DEF Local, SetupInv, FrameInv, Member
  <1>3. /\ pending[f].kind = "none" => pending[f] = Nothing
        /\ answer[f].kind = "none" => answer[f] = Nothing
    BY Places DEF Asked, Told, Requests, Enables
  <1>4. QED
    BY <1>1, <1>2, <1>3

\* A federate waits for a grant only when the RTI has a request of it for just the
\* time it waits for, or has granted that: no grant is too early to be noticed.
THEOREM RequestsAreAnswered == Spec => []OneRequest
  BY InvRequests, Invariance, PTL

\* That, and that times are naturals, however long the federates go on.
THEOREM TimesAreSound == Spec => []TimeInv
  <1>1. Init => DataTypes
    BY DEF Init, All, DataTypes
  <1>2. Inv /\ DataTypes /\ [Next]_vars => DataTypes'
    BY DataStep
  <1>3. Inv /\ DataTypes => TypeOK
    BY DEF Inv, Types, DataTypes, TypeOK, Asked, Told
  <1>4. QED
    BY <1>1, <1>2, <1>3, InvRequests, Invariance, PTL DEF Spec, TimeInv

\* When every lookahead is zero or the data cycle, a federate in a frame it waited
\* for is at the logical time the frame is for.
THEOREM FramesAreInStep ==
  ASSUME LookaheadIsStep PROVE Spec => []InStep
  <1>1. Inv => InStep
    BY Places DEF InStep, InFrame, Now, Local, FrameInv, Frames
  <1>2. QED
    BY <1>1, Invariance, PTL
-----------------------------------------------------------------------------
(* The data of a frame.                                                    *)

\* Zero-lookahead data is waited for in every frame, so it comes in every frame.
SameCycle == \A f \in Federates : DataCycle[Source[f]] = DataCycle[f]

\* What runs ahead of the federation sends data that a late joiner is too late for;
\* and without regulating federates there is no boundary for it to begin at.
Joinable ==
  Late = {} \/ /\ Regulating \subseteq Constrained
               /\ \E e \in Early \cap Regulating : e \notin Lossy

DataAssumption == LookaheadIsStep /\ SameCycle /\ Joinable

Multiple(c, x) == x % c = 0
Staying(f) == pc[f] # "gone" /\ f \notin refused
Never(f, k) == k \notin enabled[f] /\ answer[f].kind # k /\ pending[f].kind # k

\* The logical time of f, and what it is promised.
ClockInv(f) ==
  /\ time[f] <= floor[f]
  /\ Lookahead[f] > 0 /\ time[f] > 0 => floor[f] > time[f]
  /\ pc[f] \in Before \cup {"regulate", "barrier"} => time[f] = 0 /\ floor[f] = 0
  /\ pending[f].kind \in Requests => time[f] <= pending[f].time
  /\ pending[f].kind = "TARA" => Lookahead[f] = 0
  /\ pc[f] = "exchange" => Source[f] # f
  /\ pc[f] = "gone" => f \in Lossy
  /\ Multiple(DataCycle[f], sim[f]) /\ Multiple(LCTS, offset[f])

\* f is constrained and regulating in its frames as configured.
EnabledInv(f) ==
  /\ f \notin Constrained => Never(f, "constrained")
  /\ f \notin Regulating => Never(f, "regulating")
  /\ pc[f] \in Setting \cup {"aligned"} \cup Frames =>
       Enabled(f, "constrained", Constrained)
  /\ pc[f] \in {"aligned"} \cup Frames => Enabled(f, "regulating", Regulating)
  /\ pc[f] = "regulate" /\ "constrained" \in enabled[f] => adv[f] = "GRANTED"
  /\ pc[f] = "barrier" /\ Enabled(f, "regulating", Regulating) => adv[f] = "GRANTED"

\* As long as no request is refused, the logical time of f goes with its frames.
PaceInv(f) ==
  pc[f] \in Frames /\ f \notin refused =>
    /\ adv[f] = "RESET" => calling[f]
    /\ time[f] <= requested[f]
    /\ adv[f] = "GRANTED" \/ answer[f].kind = "grant" => time[f] = requested[f]
    /\ sim[f] > 0 => requested[f] <= time[f] + DataCycle[f]

Own(f) == ClockInv(f) /\ EnabledInv(f) /\ PaceInv(f)

\* What the RTI has promised f, the others keep.
Promise(f, g) ==
  Has(f, "constrained") /\ Has(g, "regulating") => floor[f] <= Bound(g)

\* The timestamps of the cyclic data that g has sent.
SentUpTo(g) == Now(g) + IF pc[g] = "request" THEN DataCycle[g] ELSE 0
Sent(g) ==
  IF pc[g] \in Frames
    THEN {x \in (offset[g] + 1)..SentUpTo(g) : Multiple(DataCycle[g], x)} ELSE {}

\* Those that the RTI keeps for f.
Coming(f, g) == {m.time : m \in {x \in tso[f] : x.from = g /\ ~x.zero}}

\* From here on f gets all that is sent.
Listens(f) == Has(f, "constrained") /\ (f \in Early \/ pc[f] \in {"aligned"} \cup Frames)

SentInv(f, g) ==
  Staying(g) => Coming(f, g) \cup ({received[f][g]} \ {0}) \subseteq Sent(g)
AheadInv(f, g) ==
  g \in Regulating \ refused =>
    \A x \in Coming(f, g) :
      x > time[f] \/ (Lookahead[f] = 0 /\ Lookahead[g] > 0 /\ x = time[f])
DueInv(f, g) ==
  Listens(f) /\ g \in Regulating /\ Staying(g) =>
    /\ received[f][g] <= time[f] \/ (f \in Late /\ received[f][g] <= offset[f])
    /\ \A x \in Sent(g) : (f \in Late => x > offset[f]) =>
         x <= received[f][g] \/ x \in Coming(f, g)
CyclicInv(f, g) == SentInv(f, g) /\ AheadInv(f, g) /\ DueInv(f, g)

\* The frame whose zero-lookahead data f takes next, and that g sends it for next.
NextTake(f) == Now(f) + IF pc[f] \in {"send", "request"} THEN DataCycle[f] ELSE 0
NextZero(g) == Now(g) + IF pc[g] \in Frames \ {"zero"} THEN DataCycle[g] ELSE 0
ZeroComing(f) == {m.time : m \in {x \in tso[f] : x.zero}}

\* Zero-lookahead data comes from the source of f only, is of frames f has yet to
\* take it for, and the source is not behind.
ZeroOf(f, g) ==
  /\ zero[f] \cap ZeroComing(f) = {}
  /\ \A x \in zero[f] : x <= time[f]
  /\ \A x \in zero[f] \cup ZeroComing(f) :
       Multiple(DataCycle[f], x) /\ x >= NextTake(f) /\ (pc[g] # "gone" => x < NextZero(g))
  /\ pc[g] # "gone" => NextTake(f) <= NextZero(g)
ZeroOrigin(f) == \A m \in tso[f] : m.zero => m.from = Source[f] /\ Source[f] # f
ZeroInv(f) ==
  /\ ZeroOrigin(f)
  /\ Source[f] = f => zero[f] = {}
  /\ Source[f] # f /\ {f, Source[f]} \cap refused = {} /\ pc[f] # "gone"
       => ZeroOf(f, Source[f])

DataInv ==
  /\ \A f \in Federates : Own(f) /\ ZeroInv(f)
  /\ \A f \in Federates : \A g \in Federates \ {f} : Promise(f, g) /\ CyclicInv(f, g)

\* All that is known in a state.
Known == Inv /\ DataTypes /\ DataInv /\ DataAssumption

-----------------------------------------------------------------------------
(* Multiples.                                                              *)

LEMMA Division ==
  ASSUME NEW c \in Nat \ {0}, NEW x \in Nat
  PROVE  /\ x \div c \in Nat /\ x % c \in 0..(c - 1)
         /\ x - c * (x \div c) = x % c
  <1>1. x \div c \in Nat /\ x % c \in 0..(c - 1)
    OBVIOUS
  <1>2. x - c * (x \div c) = x % c
    OBVIOUS
  <1>3. QED
    BY <1>1, <1>2

LEMMA MultipleOf ==
  ASSUME NEW c \in Nat \ {0}, NEW x \in Nat
  PROVE  Multiple(c, x) <=> \E k \in Nat : x = k * c
  <1>1. ASSUME x % c = 0 PROVE x = (x \div c) * c
    BY <1>1, Division
  <1>2. ASSUME NEW k \in Nat, x = k * c PROVE x % c = 0
    BY <1>2
  <1>3. QED
    BY <1>1, <1>2, Division DEF Multiple

LEMMA MultiplePlus ==
  ASSUME NEW c \in Nat \ {0}, NEW x \in Nat, NEW y \in Nat, Multiple(c, x), Multiple(c, y)
  PROVE  Multiple(c, x + y)
  <1>1. PICK j \in Nat, k \in Nat : x = j * c /\ y = k * c
    BY MultipleOf
  <1>2. x + y = (j + k) * c /\ j + k \in Nat
    BY <1>1
  <1>3. QED
    BY <1>2, MultipleOf

LEMMA MultipleItself ==
  ASSUME NEW c \in Nat \ {0} PROVE Multiple(c, c) /\ Multiple(c, 0)
  <1>1. c = 1 * c /\ 0 = 0 * c
    OBVIOUS
  <1>2. QED
    BY <1>1, MultipleOf

LEMMA MultipleGap ==
  ASSUME NEW c \in Nat \ {0}, NEW x \in Nat, NEW y \in Nat,
         Multiple(c, x), Multiple(c, y), x < y
  PROVE  x + c <= y
  <1>1. PICK j \in Nat, k \in Nat : x = j * c /\ y = k * c
    BY MultipleOf
  <1>2. j < k
    BY <1>1
  <1>3. (j + 1) * c <= k * c
    BY <1>2
  <1>4. QED
    BY <1>1, <1>3

LEMMA MultipleTrans ==
  ASSUME NEW c \in Nat \ {0}, NEW d \in Nat \ {0}, NEW x \in Nat,
         Multiple(c, d), Multiple(d, x)
  PROVE  Multiple(c, x)
  <1>1. PICK j \in Nat, k \in Nat : d = j * c /\ x = k * d
    BY MultipleOf
  <1>2. x = (k * j) * c /\ k * j \in Nat
    BY <1>1
  <1>3. QED
    BY <1>2, MultipleOf

\* The greatest multiple up to d.
LEMMA Whole ==
  ASSUME NEW c \in Nat \ {0}, NEW d \in Nat
  PROVE  /\ (d \div c) * c \in Nat /\ Multiple(c, (d \div c) * c)
         /\ (d \div c) * c <= d /\ d < (d \div c) * c + c
  <1> DEFINE q == d \div c
  <1>1. q \in Nat /\ q * c \in Nat /\ q * c <= d /\ d < q * c + c
    BY Division
  <1>2. Multiple(c, q * c)
    BY <1>1, MultipleOf
  <1>3. QED
    BY <1>1, <1>2

-----------------------------------------------------------------------------
(* One federate by itself.                                                 *)

LEMMA OwnSame ==
  ASSUME NEW g \in Federates, Own(g), Same(g), g \notin refused' => g \notin refused
  PROVE  Own(g)'
  <1>1. ClockInv(g)'
    BY DEF Own, ClockInv, Same
  <1>2. EnabledInv(g)'
    BY DEF Own, EnabledInv, Same, Never, Enabled
  <1>3. PaceInv(g)'
    BY DEF Own, PaceInv, Same
  <1>4. QED
    BY <1>1, <1>2, <1>3 DEF Own

\* Steps that leave the clock of f alone, or only its place and state.
LEMMA ClockSame ==
  ASSUME NEW f \in Federates, ClockInv(f), time'[f] = time[f], floor'[f] = floor[f],
         pending'[f] = pending[f] \/ pending'[f].kind \notin Requests,
         sim'[f] = sim[f], offset'[f] = offset[f],
         pc'[f] = "exchange" => Source[f] # f, pc'[f] = "gone" => f \in Lossy,
         pc'[f] \in Before \cup {"regulate", "barrier"} =>
           pc[f] \in Before \cup {"regulate", "barrier"} \/ (time[f] = 0 /\ floor[f] = 0)
  PROVE  ClockInv(f)'
  BY DEF ClockInv, Requests

LEMMA JoinOwn ==
  ASSUME Known, NEW f \in Federates, Join(f), Keeps(f) PROVE Own(f)'
  <1> USE DEF Join, Goto, stateVars, frameVars, rtiVars
  <1>1. Own(f) /\ f \in Federates
    BY DEF Known, DataInv
  <1>2. pc[f] = "out" /\ pc'[f] = "constrain"
    BY DEF Known, Inv, Types
  <1>3. ClockInv(f)'
    BY <1>1, <1>2, ClockSame DEF Own, Before, ClockInv
  <1>4. EnabledInv(f)' /\ PaceInv(f)'
    BY <1>1, <1>2 DEF Own, EnabledInv, PaceInv, Never, Enabled, Setting, Frames, Jobs
  <1>5. QED
    BY <1>3, <1>4 DEF Own

LEMMA SetupConstrainedOwn ==
  ASSUME Known, NEW f \in Federates, SetupConstrained(f), Keeps(f) PROVE Own(f)'
  <1> USE DEF SetupConstrained, Goto, Setup, Ask, stateVars, frameVars, dataVars, rtiVars
  <1>1. Own(f) /\ Local(f)
    BY DEF Known, DataInv, Inv
  <1>2. /\ pc[f] = "constrain" /\ pc'[f] = "regulate"
        /\ UNCHANGED <<time, floor, sim, offset, enabled, answer>>
        /\ \/ pending'[f] = pending[f]
           \/ f \in Constrained /\ pending'[f].kind = "constrained"
    BY DEF Known, Inv, Types
  <1>3. ClockInv(f)'
    BY <1>1, <1>2, ClockSame DEF Own, Before, ClockInv, Requests
  <1>4. enabled[f] = {}
    BY <1>1, <1>2 DEF Local, SetupInv, Before
  <1>5. EnabledInv(f)' /\ PaceInv(f)'
    BY <1>1, <1>2, <1>4
    DEF Own, EnabledInv, PaceInv, Never, Enabled, Setting, Frames, Jobs
  <1>6. QED
    BY <1>3, <1>5 DEF Own

LEMMA SetupRegulationOwn ==
  ASSUME Known, NEW f \in Federates, SetupRegulation(f), Keeps(f) PROVE Own(f)'
  <1> USE DEF SetupRegulation, Goto, Setup, Ask, stateVars, frameVars, dataVars, rtiVars
  <1>1. Own(f) /\ Local(f)
    BY DEF Known, DataInv, Inv
  <1>2. /\ pc[f] = "regulate" /\ pc'[f] \in Setting
        /\ UNCHANGED <<time, floor, sim, offset, enabled, answer>>
        /\ Enabled(f, "constrained", Constrained)
        /\ \/ f \notin Regulating /\ pending'[f] = pending[f] /\ adv'[f] = adv[f]
           \/ f \in Regulating /\ pending'[f].kind = "regulating"
    BY DEF Known, Inv, Types, Setting
  <1>3. ClockInv(f)'
    BY <1>1, <1>2, ClockSame DEF Own, ClockInv, Requests, Setting
  <1>4. "regulating" \notin enabled[f]
    BY <1>1, <1>2 DEF Local, SetupInv
  <1>5. f \in Regulating \cup Constrained
    BY TimeAssumption
  <1>6. EnabledInv(f)' /\ PaceInv(f)'
    BY <1>1, <1>2, <1>4, <1>5
    DEF Own, EnabledInv, PaceInv, Never, Enabled, Setting, Frames, Jobs
  <1>7. QED
    BY <1>3, <1>6 DEF Own

LEMMA BeginOwn ==
  ASSUME Known, NEW f \in Federates, Begin(f), Keeps(f) PROVE Own(f)'
  <1> USE DEF Begin, Goto, stateVars, frameVars, dataVars, rtiVars
  <1>1. Own(f) /\ Local(f)
    BY DEF Known, DataInv, Inv
  <1>2. /\ pc[f] = "barrier" /\ pc'[f] = FirstJob(f) /\ ~calling[f] /\ f \in Early
        /\ UNCHANGED <<time, floor, sim, offset, enabled, answer, pending, adv, requested>>
    BY <1>1, Configuration DEF Known, Inv, Types, Local, LateInv
  <1>3. FirstJob(f) \in Jobs /\ (FirstJob(f) = "exchange" => Source[f] # f)
    BY DEF FirstJob, Jobs
  <1>4. ClockInv(f)'
    BY <1>1, <1>2, <1>3, ClockSame DEF Own, ClockInv, Jobs, Before
  <1>5. SetUp(f)
    BY <1>2
  <1>6. Enabled(f, "regulating", Regulating) /\ adv[f] = "GRANTED"
    BY <1>1, <1>2, <1>5 DEF SetUp, Own, EnabledInv
  <1>7. EnabledInv(f)'
    BY <1>1, <1>2, <1>3, <1>6 DEF Own, EnabledInv, Never, Enabled, Setting, Frames, Jobs
  <1>8. time[f] = 0 /\ requested[f] = 0 /\ sim[f] = 0
    BY <1>1, <1>2 DEF Own, ClockInv, Local, EarlyInv, SetupInv
  <1>9. PaceInv(f)'
    BY <1>2, <1>6, <1>8 DEF PaceInv
  <1>10. QED
    BY <1>4, <1>7, <1>9 DEF Own

\* A late joiner has somebody to align with.
LEMMA Company ==
  ASSUME Known, NEW f \in Late, pc[f] # "out" PROVE Regulators(f) # {}
  <1>1. PICK e \in Early \cap Regulating : e \notin Lossy
    BY DEF Known, DataAssumption, Joinable
  <1>2. e \in Federates /\ f \in Federates /\ e # f /\ Own(e)
    BY Configuration DEF Early, Known, DataInv
  <1>3. SetUp(e) /\ Inv
    BY <1>1, <1>2, EarlyOnes DEF Known, EverybodySetUp
  <1>4. Local(e) /\ pc[e] # "gone"
    BY <1>1, <1>2, <1>3 DEF Inv, Own, ClockInv
  <1>5. "regulating" \in enabled[e] /\ pc[e] \notin {"out", "gone"}
    BY <1>1, <1>2, <1>3, <1>4, Places
    DEF SetUp, Enabled, Own, EnabledInv, Local, EarlyInv
  <1>6. QED
    BY <1>2, <1>5 DEF Regulators, Has, Member

LEMMA AlignOwn ==
  ASSUME Known, NEW f \in Federates, Align(f), Keeps(f) PROVE Own(f)'
  <1> USE DEF Align, Goto, stateVars, frameVars, dataVars, rtiVars
  <1>1. Own(f) /\ Local(f)
    BY DEF Known, DataInv, Inv
  <1>2. PICK t \in Times : Boundary(f, t) /\ offset' = [offset EXCEPT ![f] = t]
    OBVIOUS
  <1>3. /\ pc[f] = "align" /\ pc'[f] = "aligned" /\ f \in Late
        /\ UNCHANGED <<time, floor, sim, enabled, answer, pending, adv>>
        /\ offset'[f] = t /\ Enabled(f, "regulating", Regulating)
    BY <1>1, <1>2, Configuration DEF Known, Inv, Types, Local, EarlyInv
  <1>4. PICK g \in Regulators(f) :
          GALT(f, Bound(g)) /\ t = ((Bound(g) \div LCTS) + 1) * LCTS
    BY <1>2, <1>3, Company DEF Boundary
  <1>5. Bound(g) \in Nat
    <2>1. Lookahead[g] \in Nat /\ time[g] \in Nat /\ pending[g] \in Asked
      BY Configuration DEF Regulators, Known, Inv, Types
    <2>2. pending[g].kind \in Requests => pending[g].time \in Nat
      BY <2>1 DEF Asked, Nothing, Requests
    <2>3. QED
      BY <2>1, <2>2 DEF Bound
  <1>6. Multiple(LCTS, t)
    <2>1. t \in Nat /\ LCTS \in Nat \ {0}
      BY Configuration DEF Times
    <2>2. Bound(g) \div LCTS \in Nat
      BY <1>5, <2>1, Division
    <2>3. (Bound(g) \div LCTS) + 1 \in Nat
      BY <2>2
    <2>4. QED
      BY <1>4, <2>1, <2>3, MultipleOf
  <1>7. ClockInv(f)'
    BY <1>1, <1>3, <1>6 DEF Own, ClockInv, Before
  <1>8. EnabledInv(f)' /\ PaceInv(f)'
    BY <1>1, <1>3 DEF Own, EnabledInv, PaceInv, Never, Enabled, Setting, Frames, Jobs
  <1>9. QED
    BY <1>7, <1>8 DEF Own

\* A federate in the last job of its frame is at its requested time.
LEMMA FrameOver ==
  ASSUME Known, NEW f \in Federates, pc[f] \in Frames, Waited(f), f \notin refused
  PROVE  /\ adv[f] = "GRANTED" /\ time[f] = requested[f] /\ granted[f] = requested[f]
         /\ requested[f] = Now(f) /\ Idle(f)
  <1>1. Own(f) /\ Local(f) /\ Inv /\ LookaheadIsStep
    BY DEF Known, DataInv, Inv, DataAssumption
  <1>2. Idle(f) /\ adv[f] \in {"RESET", "GRANTED"} /\ ~calling[f]
    BY <1>1, WaitedIsIdle DEF Waited, Inv, Types
  <1>3. adv[f] = "GRANTED"
    BY <1>1, <1>2 DEF Own, PaceInv
  <1>4. QED
    BY <1>1, <1>2, <1>3 DEF Own, PaceInv, Local, FrameInv, Now

\* In a job that does not wait the federate has waited before.
LEMMA RequestWaited ==
  ASSUME Known, NEW f \in Federates, pc[f] = "request" PROVE Waited(f) /\ Idle(f)
  <1>1. Local(f)
    BY DEF Known, Inv
  <1>2. QED
    BY <1>1 DEF Local, FrameInv, Frames, Idle, Waited, Requests

LEMMA CallOwn ==
  ASSUME Known, NEW f \in Federates, NEW k \in Requests, NEW t \in Nat, NEW j \in Jobs,
         Call(f, k, t), Keeps(f), Idle(f), pc[f] \in Frames \cup {"aligned"},
         pc' = [pc EXCEPT ![f] = j], requested' = [requested EXCEPT ![f] = t],
         j = "exchange" => Source[f] # f, k = "TARA" => Lookahead[f] = 0,
         UNCHANGED offset,
         \/ UNCHANGED sim
         \/ sim' = [sim EXCEPT ![f] = @ + DataCycle[f]],
         f \notin refused /\ sim'[f] > 0 => t <= time[f] + DataCycle[f]
  PROVE  Own(f)'
  <1>1. Own(f) /\ Inv /\ Types'
    BY DEF Known, DataInv, Keeps
  <1>2. /\ pc'[f] = j /\ requested'[f] = t /\ adv'[f] = "RESET"
        /\ UNCHANGED <<enabled, time, floor, answer, offset>>
    BY <1>1 DEF Call, Inv, Types
  <1>3. \/ /\ calling'[f] /\ pending'[f] = Ask(k, t) /\ refused' = refused
           /\ t >= time[f]
        \/ pending'[f].kind = "none" /\ f \in refused'
    BY <1>1 DEF Call, Inv, Types, Idle
  <1>4. Multiple(DataCycle[f], sim'[f])
    <2>1. CASE sim'[f] = sim[f]
      BY <1>1, <2>1 DEF Own, ClockInv
    <2>2. CASE sim'[f] = sim[f] + DataCycle[f]
      <3>1. /\ DataCycle[f] \in Nat \ {0} /\ sim[f] \in Nat
            /\ Multiple(DataCycle[f], sim[f])
        BY <1>1, Configuration DEF Own, ClockInv, Inv, Types
      <3>2. Multiple(DataCycle[f], DataCycle[f])
        BY <3>1, MultipleItself
      <3>3. Multiple(DataCycle[f], sim[f] + DataCycle[f])
        BY <3>1, <3>2, MultiplePlus
      <3>4. QED
        BY <2>2, <3>3
    <2>3. QED
      BY <1>1, <2>1, <2>2 DEF Inv, Types
  <1>5. ClockInv(f)'
    BY <1>1, <1>2, <1>3, <1>4 DEF Own, ClockInv, Before, Jobs, Ask, Requests
  <1>6. EnabledInv(f)'
    <2>1. /\ pending'[f].kind \notin Enables /\ answer'[f].kind = answer[f].kind
          /\ enabled'[f] = enabled[f]
      BY <1>2, <1>3 DEF Ask, Requests, Enables
    <2>2. pc'[f] \in Frames /\ pc'[f] \notin Setting \cup {"aligned", "regulate", "barrier"}
      BY <1>2 DEF Frames, Jobs, Setting
    <2>3. QED
      BY <1>1, <2>1, <2>2 DEF Own, EnabledInv, Never, Enabled, Enables
  <1>7. PaceInv(f)'
    <2>1. time'[f] = time[f] /\ answer'[f].kind # "grant" /\ (refused' = refused /\ f \notin refused' => f \notin refused)
      BY <1>2 DEF Idle
    <2>2. QED
      BY <1>2, <1>3, <2>1 DEF PaceInv
  <1>8. QED
    BY <1>5, <1>6, <1>7 DEF Own

LEMMA RequestBoundaryOwn ==
  ASSUME Known, NEW f \in Federates, RequestBoundary(f), Keeps(f) PROVE Own(f)'
  <1>1. /\ pc[f] = "aligned" /\ pc' = [pc EXCEPT ![f] = FirstJob(f)]
        /\ Call(f, Kind(f), requested[f]) /\ UNCHANGED <<sim, offset, requested>>
    BY DEF RequestBoundary, Goto, frameVars
  <1>2. Local(f) /\ requested \in [Federates -> Nat]
    BY DEF Known, Inv, Types
  <1>3. Idle(f) /\ sim[f] = 0
    BY <1>1, <1>2 DEF Local, SetupInv
  <1>4. /\ FirstJob(f) \in Jobs /\ Kind(f) \in Requests
        /\ FirstJob(f) = "exchange" => Source[f] # f
        /\ Kind(f) = "TARA" => Lookahead[f] = 0
    BY DEF FirstJob, Jobs, Kind, Requests
  <1>5. requested' = [requested EXCEPT ![f] = requested[f]] /\ requested[f] \in Nat
    BY <1>1, <1>2
  <1>6. ~(sim'[f] > 0) /\ pc[f] \in Frames \cup {"aligned"}
    BY <1>1, <1>3
  <1>7. QED
    BY <1>1, <1>3, <1>4, <1>5, <1>6, CallOwn

LEMMA RequestZeroOwn ==
  ASSUME Known, NEW f \in Federates, RequestZero(f), Keeps(f) PROVE Own(f)'
  <1>1. /\ pc[f] = "exchange" /\ pc' = [pc EXCEPT ![f] = "exchange"] /\ Waited(f)
        /\ Call(f, "TARA", requested[f]) /\ UNCHANGED <<sim, offset, requested>>
    BY DEF RequestZero, Job, Goto, frameVars
  <1>2. Own(f) /\ Inv /\ requested \in [Federates -> Nat]
    BY DEF Known, DataInv, Inv, Types
  <1>3. Idle(f) /\ pc[f] \in Frames /\ "exchange" \in Jobs
    BY <1>1, <1>2, WaitedIsIdle DEF Frames, Jobs
  <1>4. Source[f] # f /\ Lookahead[f] = 0
    BY <1>1, <1>2, TimeAssumption DEF Own, ClockInv
  <1>5. requested' = [requested EXCEPT ![f] = requested[f]] /\ requested[f] \in Nat
    BY <1>1, <1>2
  <1>6. f \notin refused /\ sim'[f] > 0 => requested[f] <= time[f] + DataCycle[f]
    BY <1>1, <1>2, <1>3 DEF Own, PaceInv
  <1>7. QED
    BY <1>1, <1>3, <1>4, <1>5, <1>6, CallOwn DEF Requests

LEMMA RequestOwn ==
  ASSUME Known, NEW f \in Federates, Request(f), Keeps(f) PROVE Own(f)'
  <1> DEFINE t == requested[f] + Step(f)
  <1>1. /\ pc[f] = "request" /\ pc' = [pc EXCEPT ![f] = FirstJob(f)]
        /\ Call(f, Kind(f), t) /\ requested' = [requested EXCEPT ![f] = t]
        /\ sim' = [sim EXCEPT ![f] = @ + DataCycle[f]] /\ UNCHANGED offset
    BY DEF Request, Goto
  <1>2. /\ requested[f] \in Nat /\ DataCycle[f] \in Nat /\ Lookahead[f] \in Nat
        /\ LookaheadIsStep
    BY Configuration DEF Known, Inv, Types, DataAssumption
  <1>3. Idle(f) /\ Waited(f) /\ pc[f] \in Frames
    BY <1>1, RequestWaited DEF Frames
  <1>4. t = requested[f] + DataCycle[f] /\ t \in Nat
    BY <1>2 DEF Step, LookaheadIsStep
  <1>5. f \notin refused => t = time[f] + DataCycle[f]
    BY <1>3, <1>4, FrameOver
  <1>6. /\ FirstJob(f) \in Jobs /\ Kind(f) \in Requests
        /\ FirstJob(f) = "exchange" => Source[f] # f
        /\ Kind(f) = "TARA" => Lookahead[f] = 0
    BY DEF FirstJob, Jobs, Kind, Requests
  <1>7. f \notin refused /\ sim'[f] > 0 => t <= time[f] + DataCycle[f]
    BY <1>2, <1>4, <1>5
  <1> HIDE DEF t
  <1>8. QED
    BY <1>1, <1>3, <1>4, <1>6, <1>7, CallOwn

\* A job of the frame that changes nothing of the time management.
LEMMA JobOwn ==
  ASSUME Known, NEW f \in Federates, Keeps(f), pc[f] \in Frames, pc'[f] \in Frames,
         pc'[f] = "exchange" => Source[f] # f,
         UNCHANGED <<calling, frameVars, stateVars, time, floor, pending, answer, refused>>
  PROVE  Own(f)'
  <1>1. Own(f)
    BY DEF Known, DataInv
  <1>2. ClockInv(f)'
    BY <1>1, ClockSame DEF Own, ClockInv, Frames, Jobs, Before, frameVars
  <1>3. EnabledInv(f)' /\ PaceInv(f)'
    BY <1>1 DEF Own, EnabledInv, PaceInv, Never, Enabled, Setting, Frames, Jobs,
                frameVars, stateVars
  <1>4. QED
    BY <1>2, <1>3 DEF Own

LEMMA JobsOwn ==
  ASSUME Known, NEW f \in Federates, SendZero(f) \/ TakeZero(f) \/ Send(f), Keeps(f)
  PROVE  Own(f)'
  <1>1. /\ UNCHANGED <<calling, frameVars, stateVars, time, floor, pending, answer, refused>>
        /\ pc[f] \in Frames
    BY DEF SendZero, TakeZero, Send, Job, Goto, Frames, Jobs, rtiVars
  <1>2. pc'[f] \in Frames /\ (pc'[f] = "exchange" => Source[f] # f)
    BY DEF SendZero, TakeZero, Send, Job, Goto, Frames, Jobs, Known, Inv, Types
  <1>3. QED
    BY <1>1, <1>2, JobOwn

LEMMA ReturnOwn ==
  ASSUME Known, NEW f \in Federates, Return(f), Keeps(f) PROVE Own(f)'
  <1>1. Own(f) /\ Local(f)
    BY DEF Known, DataInv, Inv
  <1>2. /\ calling[f] /\ adv'[f] = "REQUESTED" /\ UNCHANGED <<enabled, requested, refused>>
        /\ UNCHANGED <<pc, sim, offset, time, floor, pending, answer>>
    BY DEF Return, rtiVars, frameVars, Known, Inv, Types
  <1>3. ClockInv(f)'
    BY <1>1, <1>2, ClockSame DEF Own, ClockInv
  <1>4. pc[f] \in Frames
    BY <1>1, <1>2, Places DEF Local, SetupInv, Known
  <1>5. EnabledInv(f)' /\ PaceInv(f)'
    BY <1>1, <1>2, <1>4 DEF Own, EnabledInv, PaceInv, Never, Enabled, Frames, Jobs
  <1>6. QED
    BY <1>3, <1>5 DEF Own

LEMMA LeaveOwn ==
  ASSUME Known, NEW f \in Federates, Leave(f), Keeps(f) PROVE Own(f)'
  <1>1. Own(f)
    BY DEF Known, DataInv
  <1>2. /\ pc'[f] = "gone" /\ f \in Lossy /\ pending'[f] = Nothing /\ answer'[f] = Nothing
        /\ UNCHANGED <<enabled, sim, offset, time, floor>>
    BY DEF Leave, frameVars, stateVars, Known, Inv, Types
  <1>3. ClockInv(f)'
    BY <1>1, <1>2, ClockSame DEF Own, ClockInv, Nothing, Before, Requests
  <1>4. EnabledInv(f)' /\ PaceInv(f)'
    BY <1>1, <1>2
    DEF Own, EnabledInv, PaceInv, Never, Enabled, Setting, Frames, Jobs, Nothing
  <1>5. QED
    BY <1>3, <1>4 DEF Own

\* An advance of f, to t with the promise p.
Advance(f, t, p) ==
  /\ time' = [time EXCEPT ![f] = t] /\ floor' = [floor EXCEPT ![f] = p]
  /\ t \in Nat /\ t >= time[f]
  /\ p = t + 1 \/ (p = t /\ Lookahead[f] = 0)

LEMMA GrantAdvances ==
  ASSUME Known, NEW f \in Federates, Grant(f)
  PROVE  /\ \E p \in Nat : Advance(f, pending[f].time, p) /\ TakeTo(f, pending[f].time, p)
         /\ pending[f].kind \in Requests /\ pending[f].time = requested[f]
         /\ Answer(f, Ask("grant", pending[f].time)) /\ pc[f] \in Frames
  <1>1. Own(f) /\ Local(f) /\ pending[f] \in Asked
    BY Places DEF Known, DataInv
  <1>2. pending[f].kind \in Requests
    BY DEF Grant, Requests
  <1>3. pending[f].time \in Nat /\ pending[f].time >= time[f]
    BY <1>1, <1>2 DEF Asked, Nothing, Requests, Own, ClockInv, Known, Inv, Types
  <1>4. pending[f].time = requested[f] /\ pc[f] \in Frames
    BY <1>1, <1>2, Places DEF Local, OneAtATime, SetupInv, Idle, Before, Known, Requests
  <1>5. Answer(f, Ask("grant", pending[f].time))
    BY DEF Grant
  <1>6. CASE pending[f].kind = "TAR"
    <2>1. TakeTo(f, pending[f].time, pending[f].time + 1)
      BY <1>6 DEF Grant
    <2>2. Advance(f, pending[f].time, pending[f].time + 1) /\ pending[f].time + 1 \in Nat
      BY <1>3, <2>1 DEF TakeTo, Advance
    <2>3. QED
      BY <1>2, <1>4, <1>5, <2>1, <2>2
  <1>7. CASE pending[f].kind = "TARA"
    <2>1. TakeTo(f, pending[f].time, pending[f].time) /\ Lookahead[f] = 0
      BY <1>1, <1>7 DEF Grant, Own, ClockInv
    <2>2. Advance(f, pending[f].time, pending[f].time)
      BY <1>3, <2>1 DEF TakeTo, Advance
    <2>3. QED
      BY <1>2, <1>3, <1>4, <1>5, <2>1, <2>2
  <1>8. QED
    BY <1>2, <1>6, <1>7 DEF Requests

LEMMA AdvanceClock ==
  ASSUME Known, NEW f \in Federates, NEW t, NEW p \in Nat, Advance(f, t, p),
         UNCHANGED <<pc, sim, offset>>, pending'[f].kind \notin Requests,
         pc[f] \notin Before \cup {"regulate", "barrier"}
  PROVE  ClockInv(f)'
  <1>1. ClockInv(f) /\ time'[f] = t /\ floor'[f] = p /\ t \in Nat
    BY DEF Known, DataInv, Own, Advance, Inv, Types
  <1>2. t <= p /\ (Lookahead[f] > 0 => p > t)
    BY Configuration DEF Advance
  <1>3. QED
    BY <1>1, <1>2 DEF ClockInv, Requests

LEMMA GrantOwn ==
  ASSUME Known, NEW f \in Federates, Grant(f), Keeps(f) PROVE Own(f)'
  <1>1. PICK p \in Nat : Advance(f, pending[f].time, p)
    BY GrantAdvances
  <1>2. /\ pending[f].time = requested[f] /\ pc[f] \in Frames
        /\ Answer(f, Ask("grant", pending[f].time))
    BY GrantAdvances
  <1>3. /\ UNCHANGED <<pc, calling, sim, offset, requested, granted, adv, enabled, refused>>
        /\ pending'[f].kind = "none" /\ answer'[f].kind = "grant" /\ Own(f)
        /\ time'[f] = requested[f] /\ requested[f] \in Nat
    BY <1>1, <1>2
    DEF Answer, frameVars, stateVars, Ask, Nothing, Known, DataInv, Inv, Types, Advance
  <1>4. ClockInv(f)'
    BY <1>1, <1>2, <1>3, AdvanceClock DEF Frames, Jobs, Before, Requests
  <1>5. EnabledInv(f)'
    BY <1>2, <1>3 DEF Own, EnabledInv, Never, Enabled
  <1>6. PaceInv(f)'
    BY <1>3, Configuration DEF Own, PaceInv
  <1>7. QED
    BY <1>4, <1>5, <1>6 DEF Own

LEMMA EnableConstrainedOwn ==
  ASSUME Known, NEW f \in Federates, EnableConstrained(f), Keeps(f) PROVE Own(f)'
  <1>1. /\ pending[f].kind = "constrained" /\ Answer(f, Ask("constrained", time[f]))
        /\ UNCHANGED <<time, floor>> /\ Own(f)
    BY DEF EnableConstrained, Known, DataInv
  <1>2. /\ UNCHANGED <<pc, calling, sim, offset, requested, granted, adv, enabled, refused>>
        /\ pending'[f].kind = "none" /\ answer'[f].kind = "constrained"
    BY <1>1 DEF Answer, frameVars, stateVars, Ask, Nothing, Known, Inv, Types
  <1>3. ClockInv(f)'
    BY <1>1, <1>2, ClockSame DEF Own, ClockInv, Requests
  <1>4. EnabledInv(f)' /\ PaceInv(f)'
    BY <1>1, <1>2 DEF Own, EnabledInv, PaceInv, Never, Enabled
  <1>5. QED
    BY <1>3, <1>4 DEF Own

\* Time regulation is enabled at a time f is taken to, or has.
LEMMA RegulationAdvances ==
  ASSUME Known, NEW f \in Federates, EnableRegulation(f)
  PROVE  \E t \in Nat :
           /\ Answer(f, Ask("regulating", t)) /\ NotTooLate(f, t)
           /\ pc[f] \in Setting /\ pending[f].kind = "regulating"
           /\ \/ t = time[f] /\ UNCHANGED <<time, floor, tso, dataVars>>
              \/ /\ Advance(f, t, t + 1) /\ TakeTo(f, t, t + 1)
                 /\ pc[f] = "align"
  <1>1. PICK t \in Times :
          /\ RegulationTime(f, t) /\ Answer(f, Ask("regulating", t))
          /\ \/ t = time[f] /\ UNCHANGED <<time, floor, tso, dataVars>>
             \/ t # time[f] /\ TakeTo(f, t, t + 1)
    BY DEF EnableRegulation
  <1>2. t \in Nat /\ 0 \in Times /\ Inv
    BY Configuration DEF Times, Known
  <1>3. pending[f].kind = "regulating" /\ Local(f) /\ pc[f] \in Setting
    BY <1>2, Places
    DEF EnableRegulation, Local, SetupInv, FrameInv, Idle, Before, Setting, Enables
  <1>4. NotTooLate(f, t) /\ t >= time[f]
    BY <1>1 DEF RegulationTime, NotTooLate
  \* All early joiners become time regulating at 0.
  <1>5. pc[f] = "barrier" => t = time[f]
    <2> SUFFICES ASSUME pc[f] = "barrier" PROVE t = time[f]
      OBVIOUS
    <2>1. f \in Early /\ "regulating" \notin enabled[f] /\ f \in Regulating
      BY <1>3, Configuration DEF Local, LateInv, SetupInv, Setting, Idle
    <2>2. ~EverybodySetUp
      BY <2>1 DEF EverybodySetUp, SetUp, Enabled
    <2>3. \A g \in Federates : time[g] = 0 /\ floor[g] = 0
      BY <1>2, <2>2, EarlyOnes
    <2>4. NotTooLate(f, 0)
      BY <2>3, Configuration DEF NotTooLate
    <2>5. t <= 0
      BY <1>1, <1>2, <2>4 DEF RegulationTime
    <2>6. QED
      BY <1>2, <2>3, <2>5
  <1>6. CASE t = time[f]
    BY <1>1, <1>2, <1>3, <1>4, <1>6
  <1>7. CASE t # time[f]
    <2>1. TakeTo(f, t, t + 1) /\ pc[f] = "align"
      BY <1>1, <1>3, <1>5, <1>7 DEF Setting
    <2>2. Advance(f, t, t + 1)
      BY <1>2, <1>4, <2>1 DEF TakeTo, Advance
    <2>3. QED
      BY <1>1, <1>2, <1>3, <1>4, <2>1, <2>2
  <1>8. QED
    BY <1>6, <1>7

LEMMA EnableRegulationOwn ==
  ASSUME Known, NEW f \in Federates, EnableRegulation(f), Keeps(f) PROVE Own(f)'
  <1>1. PICK t \in Nat :
          /\ Answer(f, Ask("regulating", t)) /\ pc[f] \in Setting
          /\ pending[f].kind = "regulating"
          /\ \/ UNCHANGED <<time, floor>>
             \/ Advance(f, t, t + 1) /\ pc[f] = "align"
    BY RegulationAdvances
  <1>2. /\ UNCHANGED <<pc, calling, sim, offset, requested, granted, adv, enabled, refused>>
        /\ pending'[f].kind = "none" /\ answer'[f].kind = "regulating" /\ Own(f)
    BY <1>1 DEF Answer, frameVars, stateVars, Ask, Nothing, Known, DataInv, Inv, Types
  <1>3. ClockInv(f)'
    <2>1. CASE UNCHANGED <<time, floor>>
      BY <1>2, <2>1, ClockSame DEF Own, ClockInv, Requests
    <2>2. CASE Advance(f, t, t + 1) /\ pc[f] = "align"
      <3>1. t + 1 \in Nat
        OBVIOUS
      <3>2. QED
        BY <1>2, <2>2, <3>1, AdvanceClock DEF Before, Requests
    <2>3. QED
      BY <1>1, <2>1, <2>2
  <1>4. EnabledInv(f)' /\ PaceInv(f)'
    BY <1>1, <1>2 DEF Own, EnabledInv, PaceInv, Never, Enabled, Setting, Frames, Jobs
  <1>5. QED
    BY <1>3, <1>4 DEF Own

LEMMA OnEnabledOwn ==
  ASSUME Known, NEW f \in Federates, OnEnabled(f), Keeps(f) PROVE Own(f)'
  <1>1. PICK k \in Enables :
          Callback(f, k) /\ Granted(f, answer[f].time)
          /\ enabled' = [enabled EXCEPT ![f] = @ \cup {k}]
    BY DEF OnEnabled
  <1>2. /\ Local(f) /\ Own(f) /\ answer[f].kind = k /\ pending[f].kind = "none"
        /\ answer[f].time \in Nat
    BY <1>1, Places
    DEF Callback, Local, OneAtATime, Enables, Told, Nothing, Known, DataInv
  <1>3. \/ pc[f] = "regulate" /\ k = "constrained"
        \/ pc[f] \in Setting /\ k = "regulating"
    BY <1>2, Places
    DEF Local, SetupInv, FrameInv, Idle, Before, Setting, Enables, Frames, Known
  <1>4. /\ adv'[f] = "GRANTED" /\ answer'[f].kind = "none"
        /\ enabled'[f] = enabled[f] \cup {k}
        /\ UNCHANGED <<pc, calling, sim, offset, time, floor, pending, refused>>
    BY <1>1, <1>2 DEF Granted, frameVars, Nothing, Known, Inv, Types
  <1>5. ClockInv(f)'
    BY <1>2, <1>4, ClockSame DEF Own, ClockInv
  <1>6. EnabledInv(f)' /\ PaceInv(f)'
    BY <1>2, <1>3, <1>4
    DEF Own, EnabledInv, PaceInv, Never, Enabled, Setting, Frames, Jobs, Enables
  <1>7. QED
    BY <1>5, <1>6 DEF Own

LEMMA OnGrantOwn ==
  ASSUME Known, NEW f \in Federates, OnGrant(f), Keeps(f) PROVE Own(f)'
  <1>1. /\ Local(f) /\ Own(f) /\ answer[f].kind = "grant"
        /\ answer[f].time = requested[f] /\ requested[f] \in Nat
    BY Places DEF OnGrant, Callback, Local, OneAtATime, Known, DataInv, Inv, Types
  <1>2. /\ adv'[f] = "GRANTED" /\ answer'[f].kind = "none" /\ requested'[f] = requested[f]
        /\ UNCHANGED <<pc, calling, sim, offset, time, floor, pending, enabled, refused>>
    BY <1>1 DEF OnGrant, Granted, frameVars, Nothing, Known, Inv, Types
  <1>3. ClockInv(f)'
    BY <1>1, <1>2, ClockSame DEF Own, ClockInv
  <1>4. EnabledInv(f)' /\ PaceInv(f)'
    BY <1>1, <1>2 DEF Own, EnabledInv, PaceInv, Never, Enabled
  <1>5. QED
    BY <1>3, <1>4 DEF Own

LEMMA OwnStep ==
  ASSUME Known, NEW f \in Federates, Keeps(f),
         Main(f) \/ Rti(f) \/ Ambassador(f) \/ Leave(f)
  PROVE  Own(f)'
  BY JoinOwn, SetupConstrainedOwn, SetupRegulationOwn, AlignOwn, RequestBoundaryOwn,
     BeginOwn, JobsOwn, RequestZeroOwn, RequestOwn, ReturnOwn, EnableConstrainedOwn,
     EnableRegulationOwn, GrantOwn, OnEnabledOwn, OnGrantOwn, LeaveOwn
  DEF Main, Rti, Ambassador

-----------------------------------------------------------------------------
(* What becomes of the messages.                                           *)

\* In an advance f gets what is due, and no more.
LEMMA ReflectCyclic ==
  ASSUME DataTypes, NEW f \in Federates, NEW t \in Nat, Reflect(f, t), NEW g \in Federates
  PROVE  /\ Coming(f, g)' = {x \in Coming(f, g) : x > t}
         /\ received'[f][g] \in {received[f][g]} \cup {x \in Coming(f, g) : x <= t}
         /\ received'[f][g] >= received[f][g]
         /\ \A x \in Coming(f, g) : x <= t => x <= received'[f][g]
  <1> DEFINE due == {m \in tso[f] : m.time <= t}
             Cyclic(h) == {m.time : m \in {x \in due : x.from = h /\ ~x.zero}}
             S == Cyclic(g) \cup {received[f][g]}
  <1>1. /\ tso' = [tso EXCEPT ![f] = @ \ due]
        /\ received' = [received EXCEPT ![f] =
                          [h \in Federates |-> Max(Cyclic(h) \cup {@[h]})]]
    BY DEF Reflect
  <1>2. tso'[f] = tso[f] \ due /\ received'[f][g] = Max(S)
    BY <1>1 DEF DataTypes
  <1>3. \A m \in tso[f] : m.time \in Nat
    BY DEF DataTypes, Messages
  <1>4. Coming(f, g)' = {x \in Coming(f, g) : x > t}
    BY <1>2, <1>3 DEF Coming
  <1>5. Cyclic(g) = {x \in Coming(f, g) : x <= t}
    BY DEF Coming
  <1>6. received[f][g] \in Nat /\ Cyclic(g) \subseteq 0..t
    <2>1. \A m \in due : m.time \in 0..t
      BY <1>3
    <2>2. QED
      BY <2>1 DEF DataTypes
  <1> HIDE DEF Cyclic
  <1>7. PICK b \in Nat : b >= t /\ b >= received[f][g]
    BY <1>6
  <1>8. S \in SUBSET (0..b) /\ S # {}
    BY <1>6, <1>7
  <1> HIDE DEF S
  <1>9. Max(S) \in S /\ \A y \in S : Max(S) >= y
    BY <1>7, <1>8, MaxOfBounded
  <1>10. \A y \in S : y \in Nat
    BY <1>8
  <1>11. QED
    <2>1. \A x : x \in S <=> x \in Cyclic(g) \/ x = received[f][g]
      BY DEF S
    <2>2. received'[f][g] \in {received[f][g]} \cup {x \in Coming(f, g) : x <= t}
      BY <1>2, <1>5, <1>9, <2>1
    <2>3. received'[f][g] >= received[f][g]
      BY <1>2, <1>9, <2>1
    <2>4. ASSUME NEW x \in Coming(f, g), x <= t PROVE x <= received'[f][g]
      <3>1. x \in S
        BY <1>5, <2>1, <2>4
      <3>2. Max(S) >= x /\ Max(S) \in Nat /\ x \in Nat
        BY <1>9, <1>10, <3>1
      <3>3. QED
        BY <1>2, <3>2
    <2>5. QED
      BY <1>4, <2>2, <2>3, <2>4

LEMMA ReflectZero ==
  ASSUME DataTypes, NEW f \in Federates, NEW t \in Nat, Reflect(f, t)
  PROVE  /\ tso'[f] \subseteq tso[f]
         /\ ZeroComing(f)' = {x \in ZeroComing(f) : x > t}
         /\ zero'[f] = zero[f] \cup {x \in ZeroComing(f) : x <= t}
  <1> DEFINE due == {m \in tso[f] : m.time <= t}
  <1>1. /\ tso' = [tso EXCEPT ![f] = @ \ due]
        /\ zero' = [zero EXCEPT ![f] = @ \cup {m.time : m \in {x \in due : x.zero}}]
    BY DEF Reflect
  <1>2. /\ tso'[f] = tso[f] \ due
        /\ zero'[f] = zero[f] \cup {m.time : m \in {x \in due : x.zero}}
    BY <1>1 DEF DataTypes
  <1>3. \A m \in tso[f] : m.time \in Nat
    BY DEF DataTypes, Messages
  <1>4. ZeroComing(f)' = {x \in ZeroComing(f) : x > t}
    BY <1>2, <1>3 DEF ZeroComing
  <1>5. {m.time : m \in {x \in due : x.zero}} = {x \in ZeroComing(f) : x <= t}
    BY DEF ZeroComing
  <1> HIDE DEF due
  <1>6. QED
    BY <1>2, <1>4, <1>5

LEMMA ReflectOthers ==
  ASSUME DataTypes, NEW f \in Federates, NEW t, Reflect(f, t), NEW h \in Federates \ {f}
  PROVE  tso'[h] = tso[h] /\ received'[h] = received[h] /\ zero'[h] = zero[h]
  BY DEF Reflect, DataTypes

\* What a message of a changes for f.
LEMMA UpdateEffect ==
  ASSUME DataTypes, NEW a \in Federates, NEW t \in Nat, NEW set, NEW z \in BOOLEAN,
         Update(a, t, set, z), NEW f \in Federates
  PROVE  LET m == [from |-> a, time |-> t, zero |-> z]
             passed == Has(a, "regulating") /\ t < time[a] + Lookahead[a]
             kept == /\ f \in set \ {a} /\ Has(f, "constrained")
                     /\ Has(a, "regulating") /\ ~passed
         IN  /\ tso'[f] = IF kept THEN tso[f] \cup {m} ELSE tso[f]
             /\ \A g \in Federates \ {a} : received'[f][g] = received[f][g]
             /\ received'[f][a] =
                  IF f \in set \ {a} /\ Member(f) /\ ~kept /\ ~passed /\ ~z
                    THEN t ELSE received[f][a]
  <1>1. Has(f, "constrained") => Member(f)
    BY DEF Has
  <1>2. CASE Has(a, "regulating") /\ t < time[a] + Lookahead[a]
    BY <1>1, <1>2 DEF Update
  <1>3. CASE ~(Has(a, "regulating") /\ t < time[a] + Lookahead[a])
    <2> DEFINE to == {h \in set \ {a} : Member(h)}
               kept == {h \in to : Has(a, "regulating") /\ Has(h, "constrained")}
               m == [from |-> a, time |-> t, zero |-> z]
    <2>1. /\ tso' = [h \in Federates |-> IF h \in kept THEN tso[h] \cup {m} ELSE tso[h]]
          /\ received' = [h \in Federates |->
                            IF h \in to \ kept /\ ~z
                              THEN [received[h] EXCEPT ![a] = t] ELSE received[h]]
      BY <1>3 DEF Update
    <2>2. /\ f \in to <=> f \in set \ {a} /\ Member(f)
          /\ f \in kept <=> /\ f \in set \ {a} /\ Has(f, "constrained")
                            /\ Has(a, "regulating")
      BY <1>1
    <2>3. /\ tso'[f] = IF f \in kept THEN tso[f] \cup {m} ELSE tso[f]
          /\ received'[f] = IF f \in to \ kept /\ ~z
                              THEN [received[f] EXCEPT ![a] = t] ELSE received[f]
      BY <2>1
    <2> HIDE DEF to, kept
    <2>4. received[f] \in [Federates -> Nat]
      BY DEF DataTypes
    <2>5. QED
      BY <1>3, <2>2, <2>3, <2>4
  <1>4. QED
    BY <1>2, <1>3

\* The two kinds of messages.
LEMMA ZeroEffect ==
  ASSUME DataTypes, NEW a \in Federates, NEW t \in Nat, NEW set,
         Update(a, t, set, TRUE), NEW f \in Federates
  PROVE  /\ \/ tso'[f] = tso[f]
            \/ /\ f \in set \ {a}
               /\ tso'[f] = tso[f] \cup {[from |-> a, time |-> t, zero |-> TRUE]}
         /\ \A g \in Federates : received'[f][g] = received[f][g]
  <1> DEFINE passed == Has(a, "regulating") /\ t < time[a] + Lookahead[a]
             kept == /\ f \in set \ {a} /\ Has(f, "constrained")
                     /\ Has(a, "regulating") /\ ~passed
             m == [from |-> a, time |-> t, zero |-> TRUE]
  <1>1. TRUE \in BOOLEAN
    OBVIOUS
  <1>2. /\ tso'[f] = IF kept THEN tso[f] \cup {m} ELSE tso[f]
        /\ \A g \in Federates \ {a} : received'[f][g] = received[f][g]
        /\ received'[f][a] =
             IF f \in set \ {a} /\ Member(f) /\ ~kept /\ ~passed /\ ~TRUE
               THEN t ELSE received[f][a]
    BY <1>1, UpdateEffect
  <1>3. kept => f \in set \ {a}
    OBVIOUS
  <1> HIDE DEF kept, passed
  <1>4. QED
    BY <1>2, <1>3

LEMMA CyclicEffect ==
  ASSUME DataTypes, NEW a \in Federates, NEW t \in Nat,
         Update(a, t, Federates, FALSE), NEW f \in Federates
  PROVE  /\ \A g \in Federates \ {a} : received'[f][g] = received[f][g]
         /\ f # a /\ Has(f, "constrained") /\ Has(a, "regulating") =>
              /\ received'[f][a] = received[f][a]
              /\ \/ t < time[a] + Lookahead[a] /\ tso'[f] = tso[f]
                 \/ /\ ~(t < time[a] + Lookahead[a])
                    /\ tso'[f] = tso[f] \cup {[from |-> a, time |-> t, zero |-> FALSE]}
         /\ f = a \/ ~Has(f, "constrained") \/ ~Has(a, "regulating") =>
              /\ tso'[f] = tso[f]
              /\ received'[f][a] \in {t, received[f][a]}
  <1> DEFINE passed == Has(a, "regulating") /\ t < time[a] + Lookahead[a]
             kept == /\ f \in Federates \ {a} /\ Has(f, "constrained")
                     /\ Has(a, "regulating") /\ ~passed
             m == [from |-> a, time |-> t, zero |-> FALSE]
  <1>1. FALSE \in BOOLEAN
    OBVIOUS
  <1>2. /\ tso'[f] = IF kept THEN tso[f] \cup {m} ELSE tso[f]
        /\ \A g \in Federates \ {a} : received'[f][g] = received[f][g]
        /\ received'[f][a] =
             IF f \in Federates \ {a} /\ Member(f) /\ ~kept /\ ~passed /\ ~FALSE
               THEN t ELSE received[f][a]
    BY <1>1, UpdateEffect
  <1> HIDE DEF m
  <1>3. received'[f][a] \in {t, received[f][a]}
    BY <1>2
  <1>4. (f = a \/ ~Has(f, "constrained") \/ ~Has(a, "regulating")) => tso'[f] = tso[f]
    BY <1>2
  <1>5. ASSUME f # a, Has(f, "constrained"), Has(a, "regulating")
        PROVE  /\ received'[f][a] = received[f][a]
               /\ \/ t < time[a] + Lookahead[a] /\ tso'[f] = tso[f]
                  \/ ~(t < time[a] + Lookahead[a]) /\ tso'[f] = tso[f] \cup {m}
    <2>1. kept <=> ~passed
      BY <1>5
    <2>2. received'[f][a] = received[f][a]
      BY <1>2, <2>1
    <2>3. CASE passed
      BY <1>2, <2>1, <2>2, <2>3
    <2>4. CASE ~passed
      <3>1. ~(t < time[a] + Lookahead[a])
        BY <1>5, <2>4 DEF passed
      <3>2. QED
        BY <1>2, <2>1, <2>2, <2>4, <3>1
    <2>5. QED
      BY <2>3, <2>4
  <1>6. QED
    BY <1>2, <1>3, <1>4, <1>5 DEF m

-----------------------------------------------------------------------------
(* The promises.                                                           *)

\* A step of a breaks no promise that a has, or that the others have.
PromisesKept(a) ==
  \A f \in Federates \ {a} : Promise(a, f)' /\ Promise(f, a)'

\* What the RTI knows of f.
LEMMA BoundIsNat ==
  ASSUME Inv, NEW g \in Federates PROVE Bound(g) \in Nat
  <1>1. Lookahead[g] \in Nat /\ time[g] \in Nat /\ pending[g] \in Asked
    BY Configuration DEF Inv, Types
  <1>2. pending[g].kind \in Requests => pending[g].time \in Nat
    BY <1>1 DEF Asked, Nothing, Requests
  <1>3. QED
    BY <1>1, <1>2 DEF Bound

LEMMA SameBound ==
  ASSUME NEW g \in Federates, Same(g)
  PROVE  Bound(g)' = Bound(g) /\ \A k \in Enables : Has(g, k)' = Has(g, k)
  BY DEF Same, Bound, Has, Member

\* A step that enables nothing, takes f nowhere, and asks for no earlier time.
LEMMA PromiseSame ==
  ASSUME Known, NEW a \in Federates, Keeps(a),
         Has(a, "constrained")' => Has(a, "constrained") /\ floor'[a] = floor[a],
         Has(a, "regulating")' => Has(a, "regulating") /\ Bound(a)' >= Bound(a)
  PROVE  PromisesKept(a)
  <1> SUFFICES ASSUME NEW f \in Federates \ {a} PROVE Promise(a, f)' /\ Promise(f, a)'
    BY DEF PromisesKept
  <1>1. Promise(a, f) /\ Promise(f, a) /\ Same(f)
    BY DEF Known, DataInv, Keeps
  <1>2. Bound(f)' = Bound(f) /\ \A k \in Enables : Has(f, k)' = Has(f, k)
    BY <1>1, SameBound
  <1>3. Promise(a, f)'
    BY <1>1, <1>2 DEF Promise, Enables
  <1>4. Promise(f, a)'
    <2>1. Bound(a) \in Nat /\ floor[f] \in Nat /\ floor'[f] = floor[f]
      BY <1>1, BoundIsNat DEF Known, Inv, Types, Same
    <2>2. Bound(a)' \in Nat
      <3>1. Lookahead[a] \in Nat /\ time'[a] \in Nat /\ pending'[a] \in Asked
        BY Configuration DEF Keeps, Types
      <3>2. pending'[a].kind \in Requests => pending'[a].time \in Nat
        BY <3>1 DEF Asked, Nothing, Requests
      <3>3. QED
        BY <3>1, <3>2 DEF Bound
    <2>3. QED
      BY <1>1, <1>2, <2>1, <2>2 DEF Promise, Enables
  <1>5. QED
    BY <1>3, <1>4

\* An advance of f goes no further than the others have promised.
LEMMA PromiseTake ==
  ASSUME Known, NEW a \in Federates, Keeps(a), NEW t \in Nat, NEW p \in Nat,
         TakeTo(a, t, p),
         Has(a, "constrained")' => Has(a, "constrained"),
         Has(a, "regulating")' => \A f \in Federates \ {a} :
           Has(f, "constrained") => floor[f] <= Bound(a)'
  PROVE  PromisesKept(a)
  <1> SUFFICES ASSUME NEW f \in Federates \ {a} PROVE Promise(a, f)' /\ Promise(f, a)'
    BY DEF PromisesKept
  <1>1. Same(f) /\ floor'[a] = p
    BY DEF Keeps, TakeTo, Known, Inv, Types
  <1>2. /\ Bound(f)' = Bound(f) /\ floor'[f] = floor[f]
        /\ \A k \in Enables : Has(f, k)' = Has(f, k)
    BY <1>1, SameBound DEF Same
  <1>3. Has(a, "constrained") /\ Has(f, "regulating") => p <= Bound(f)
    BY DEF TakeTo, CanPromise, Regulators
  <1>4. QED
    BY <1>1, <1>2, <1>3 DEF Promise, Enables

LEMMA CallPromises ==
  ASSUME Known, NEW f \in Federates, NEW k \in Requests, NEW t \in Nat,
         Call(f, k, t), Keeps(f), Idle(f), pc[f] \in Frames \cup {"aligned"},
         pc'[f] \in Frames
  PROVE  PromisesKept(f)
  <1>1. UNCHANGED <<time, floor, enabled, answer>> /\ Inv
    BY DEF Call, Known
  <1>2. Member(f) /\ Member(f)'
    BY DEF Member, Frames, Jobs
  <1>3. Has(f, "constrained")' = Has(f, "constrained")
        /\ Has(f, "regulating")' = Has(f, "regulating")
    BY <1>1, <1>2 DEF Has
  <1>4. Bound(f)' >= Bound(f)
    <2>1. Bound(f) = Lookahead[f] + time[f]
      BY DEF Bound, Idle, Requests
    <2>2. CASE pending'[f] = pending[f]
      <3>1. Bound(f)' = Lookahead[f] + time[f]
        BY <1>1, <2>2 DEF Bound, Idle, Requests
      <3>2. QED
        BY <1>1, <2>1, <3>1, Configuration DEF Inv, Types
    <2>3. CASE pending'[f] = Ask(k, t) /\ t >= time[f]
      <3>1. Bound(f)' = Lookahead[f] + t
        BY <2>3 DEF Bound, Ask
      <3>2. Lookahead[f] \in Nat /\ time[f] \in Nat
        BY <1>1, Configuration DEF Inv, Types
      <3>3. QED
        BY <2>1, <2>3, <3>1, <3>2
    <2>4. QED
      BY <1>1, <2>2, <2>3 DEF Call, Inv, Types
  <1>5. QED
    BY <1>1, <1>3, <1>4, PromiseSame

\* A step that changes nothing the RTI goes by.
LEMMA QuietPromises ==
  ASSUME Known, NEW a \in Federates, Keeps(a), time'[a] = time[a], floor'[a] = floor[a],
         pending'[a] = pending[a] \/ (Idle(a) /\ pending'[a].kind \notin Requests),
         \A k \in Enables : Has(a, k)' => Has(a, k)
  PROVE  PromisesKept(a)
  <1>1. Bound(a)' = Bound(a) /\ Bound(a) \in Nat
    BY BoundIsNat DEF Known, Bound, Idle, Requests
  <1>2. Bound(a)' >= Bound(a)
    BY <1>1
  <1>3. QED
    BY <1>2, PromiseSame DEF Enables

LEMMA SetupPromises ==
  ASSUME Known, NEW f \in Federates, Keeps(f),
         Join(f) \/ SetupConstrained(f) \/ SetupRegulation(f) \/ Align(f) \/ Begin(f)
  PROVE  PromisesKept(f)
  <1>1. Local(f) /\ Inv
    BY DEF Known, Inv
  <1>2. UNCHANGED <<time, floor, enabled, answer>>
    BY DEF Join, SetupConstrained, SetupRegulation, Setup, Align, Begin, rtiVars, stateVars
  <1>3. CASE Join(f)
    <2>1. Idle(f) /\ enabled[f] = {} /\ pending' = pending
      BY <1>1, <1>3 DEF Join, Goto, Local, SetupInv, Before, rtiVars
    <2>2. \A k \in Enables : ~Has(f, k)'
      BY <1>2, <2>1 DEF Has, Idle, Enables
    <2>3. QED
      BY <1>2, <2>1, <2>2, QuietPromises
  <1>4. CASE ~Join(f)
    <2>1. Member(f) /\ \A k \in Enables : Has(f, k)' => Has(f, k)
      BY <1>2, <1>4
      DEF SetupConstrained, SetupRegulation, Align, Begin, Goto, Member, Has
    <2>2. pending'[f] = pending[f] \/ (Idle(f) /\ pending'[f].kind \notin Requests)
      <3>1. CASE Align(f) \/ Begin(f)
        BY <3>1 DEF Align, Begin, rtiVars
      <3>2. CASE SetupConstrained(f)
        BY <1>1, <3>2
        DEF SetupConstrained, Setup, Goto, Ask, Local, SetupInv, Before, Requests, Inv, Types
      <3>3. CASE SetupRegulation(f)
        BY <1>1, <3>3
        DEF SetupRegulation, Setup, Goto, Enabled, Ask, Local, SetupInv, Requests, Inv, Types
      <3>4. QED
        BY <1>4, <3>1, <3>2, <3>3
    <2>3. QED
      BY <1>2, <2>1, <2>2, QuietPromises
  <1>5. QED
    BY <1>3, <1>4

LEMMA JobPromises ==
  ASSUME Known, NEW f \in Federates, Keeps(f),
         \/ SendZero(f) \/ TakeZero(f) \/ Send(f) \/ Return(f)
         \/ OnEnabled(f) \/ OnGrant(f)
  PROVE  PromisesKept(f)
  <1>1. UNCHANGED <<time, floor, pending>>
    BY DEF SendZero, TakeZero, Send, Return, OnEnabled, OnGrant, Granted, rtiVars
  <1>2. ASSUME NEW k \in Enables, Has(f, k)' PROVE Has(f, k)
    <2>1. CASE SendZero(f) \/ TakeZero(f) \/ Send(f) \/ Return(f)
      <3>1. UNCHANGED <<enabled, answer>>
        BY <2>1 DEF SendZero, TakeZero, Send, Return, stateVars, rtiVars
      <3>2. Member(f)
        BY <1>2, <2>1
        DEF SendZero, TakeZero, Send, Return, Job, Goto, Has, Member
      <3>3. QED
        BY <1>2, <3>1, <3>2 DEF Has
    <2>2. CASE OnGrant(f)
      <3>1. UNCHANGED <<pc, enabled>> /\ answer'[f] = Nothing
        BY <2>2 DEF OnGrant, Granted, Known, Inv, Types
      <3>2. QED
        BY <1>2, <3>1 DEF Has, Member, Nothing, Enables
    <2>3. CASE OnEnabled(f)
      <3>1. PICK j \in Enables :
              /\ answer[f].kind = j /\ enabled' = [enabled EXCEPT ![f] = @ \cup {j}]
              /\ UNCHANGED pc /\ answer'[f] = Nothing
        BY <2>3 DEF OnEnabled, Callback, Granted, Known, Inv, Types
      <3>2. enabled'[f] = enabled[f] \cup {j}
        BY <3>1 DEF Known, Inv, Types
      <3>3. QED
        BY <1>2, <3>1, <3>2 DEF Has, Member, Nothing, Enables
    <2>4. QED
      BY <2>1, <2>2, <2>3
  <1>3. QED
    BY <1>1, <1>2, QuietPromises

LEMMA RequestPromises ==
  ASSUME Known, NEW f \in Federates, Keeps(f),
         RequestBoundary(f) \/ RequestZero(f) \/ Request(f)
  PROVE  PromisesKept(f)
  <1>1. /\ Inv /\ Local(f) /\ requested[f] \in Nat
        /\ LookaheadIsStep /\ Lookahead[f] \in Nat /\ DataCycle[f] \in Nat
    BY Configuration DEF Known, Inv, Types, DataAssumption
  <1>2. /\ pc[f] \in Frames \cup {"aligned"} /\ pc'[f] \in Frames
    BY DEF RequestBoundary, RequestZero, Request, Job, Goto, FirstJob, Frames, Jobs,
           Known, Inv, Types
  <1>3. Idle(f)
    <2>1. CASE RequestBoundary(f)
      BY <1>1, <2>1 DEF RequestBoundary, Goto, Local, SetupInv
    <2>2. CASE RequestZero(f)
      BY <1>1, <2>2, WaitedIsIdle DEF RequestZero, Job, Goto, Frames, Jobs
    <2>3. CASE Request(f)
      BY <2>3, RequestWaited DEF Request, Goto
    <2>4. QED
      BY <2>1, <2>2, <2>3
  <1>4. Kind(f) \in Requests /\ "TARA" \in Requests /\ requested[f] + Step(f) \in Nat
    BY <1>1 DEF Kind, Requests, Step
  <1>5. \E k \in Requests : \E t \in Nat : Call(f, k, t)
    BY <1>1, <1>4 DEF RequestBoundary, RequestZero, Request
  <1>6. QED
    BY <1>2, <1>3, <1>5, CallPromises

LEMMA RtiPromises ==
  ASSUME Known, NEW f \in Federates, Keeps(f), Rti(f) PROVE PromisesKept(f)
  <1>1. Inv /\ Types /\ DataInv /\ ClockInv(f)
    BY DEF Known, Inv, DataInv, Own
  <1>2. CASE EnableConstrained(f)
    <2>1. /\ UNCHANGED <<pc, enabled, time, floor>> /\ pending[f].kind = "constrained"
          /\ answer'[f].kind = "constrained" /\ pending'[f].kind = "none"
      BY <1>1, <1>2
      DEF EnableConstrained, Answer, stateVars, Ask, Nothing, Types
    <2>2. pc[f] = "regulate"
      BY <1>1, <2>1, Places
      DEF Local, SetupInv, FrameInv, Idle, Before, Setting, Enables
    <2>3. floor'[f] = 0
      BY <1>1, <2>1, <2>2 DEF ClockInv
    <2>4. Bound(f)' = Bound(f) /\ (Has(f, "regulating")' => Has(f, "regulating"))
      BY <2>1 DEF Bound, Has, Member, Requests
    <2> SUFFICES ASSUME NEW g \in Federates \ {f} PROVE Promise(f, g)' /\ Promise(g, f)'
      BY DEF PromisesKept
    <2>5. Same(g) /\ Promise(g, f)
      BY <1>1 DEF Keeps, DataInv
    <2>6. Bound(g)' = Bound(g) /\ Bound(g) \in Nat /\ Has(g, "constrained")' = Has(g, "constrained")
      BY <1>1, <2>5, SameBound, BoundIsNat DEF Enables
    <2>7. Promise(f, g)'
      BY <2>3, <2>6 DEF Promise
    <2>8. Promise(g, f)'
      BY <2>4, <2>5, <2>6 DEF Promise, Same
    <2>9. QED
      BY <2>7, <2>8
  <1>3. CASE EnableRegulation(f)
    <2>1. PICK t \in Nat :
            /\ Answer(f, Ask("regulating", t)) /\ NotTooLate(f, t)
            /\ pending[f].kind = "regulating"
            /\ \/ t = time[f] /\ UNCHANGED <<time, floor>>
               \/ TakeTo(f, t, t + 1)
      BY <1>3, RegulationAdvances
    <2>2. /\ UNCHANGED <<pc, enabled>> /\ pending'[f].kind = "none"
          /\ answer'[f].kind = "regulating" /\ time'[f] = t
      BY <1>1, <2>1 DEF Answer, stateVars, Ask, Nothing, Types, TakeTo
    <2>3. Bound(f)' = Lookahead[f] + t
      BY <2>2 DEF Bound, Requests
    <2>4. \A g \in Federates \ {f} : Has(g, "constrained") => floor[g] <= Bound(f)'
      <3>1. \A g \in Federates \ {f} :
              Has(g, "constrained") => floor[g] <= t + Lookahead[f]
        BY <2>1 DEF NotTooLate
      <3>2. Lookahead[f] \in Nat
        BY Configuration
      <3>3. QED
        BY <2>3, <3>1, <3>2
    <2>5. Has(f, "constrained")' => Has(f, "constrained")
      BY <2>2 DEF Has, Member
    <2>6. CASE TakeTo(f, t, t + 1)
      <3>1. t + 1 \in Nat
        OBVIOUS
      <3>2. QED
        BY <2>4, <2>5, <2>6, <3>1, PromiseTake
    <2>7. CASE UNCHANGED <<time, floor>>
      <3> SUFFICES ASSUME NEW g \in Federates \ {f} PROVE Promise(f, g)' /\ Promise(g, f)'
        BY DEF PromisesKept
      <3>1. Same(g) /\ Promise(f, g)
        BY <1>1 DEF Keeps, DataInv
      <3>2. Bound(g)' = Bound(g) /\ \A k \in Enables : Has(g, k)' = Has(g, k)
        BY <3>1, SameBound
      <3>3. Promise(f, g)'
        BY <2>5, <2>7, <3>1, <3>2 DEF Promise, Enables
      <3>4. Promise(g, f)'
        BY <2>4, <2>7, <3>2 DEF Promise, Enables
      <3>5. QED
        BY <3>3, <3>4
    <2>8. QED
      BY <2>1, <2>6, <2>7
  <1>4. CASE Grant(f)
    <2> DEFINE t == pending[f].time
    <2>1. PICK p \in Nat : Advance(f, t, p) /\ TakeTo(f, t, p)
      BY <1>4, GrantAdvances
    <2>2. pending[f].kind \in Requests /\ Answer(f, Ask("grant", t)) /\ t \in Nat
      BY <1>4, <2>1, GrantAdvances DEF Advance
    <2> HIDE DEF t
    <2>3. /\ UNCHANGED <<pc, enabled>> /\ pending'[f].kind = "none"
          /\ answer'[f].kind = "grant" /\ time'[f] = t
      BY <1>1, <2>1, <2>2 DEF Answer, stateVars, Ask, Nothing, Types, TakeTo
    <2>4. Bound(f)' = Bound(f)
      BY <2>2, <2>3 DEF Bound, Requests, t
    <2>5. \A k \in Enables : Has(f, k)' => Has(f, k)
      BY <2>3 DEF Has, Member, Enables
    <2>6. Has(f, "regulating")' => \A g \in Federates \ {f} :
            Has(g, "constrained") => floor[g] <= Bound(f)'
      BY <1>1, <2>4, <2>5 DEF DataInv, Promise, Enables
    <2>7. QED
      BY <2>1, <2>2, <2>5, <2>6, PromiseTake DEF Enables
  <1>5. QED
    BY <1>2, <1>3, <1>4 DEF Rti

LEMMA PromiseStep ==
  ASSUME Known, NEW f \in Federates, Keeps(f),
         Main(f) \/ Rti(f) \/ Ambassador(f) \/ Leave(f)
  PROVE  PromisesKept(f)
  <1>1. CASE Leave(f)
    <2>1. ~Member(f)'
      BY <1>1 DEF Leave, Member, Known, Inv, Types
    <2>2. ~Has(f, "constrained")' /\ ~Has(f, "regulating")'
      BY <2>1 DEF Has
    <2>3. QED
      BY <2>2, PromiseSame
  <1>2. QED
    BY <1>1, SetupPromises, JobPromises, RequestPromises, RtiPromises DEF Main, Ambassador

-----------------------------------------------------------------------------
(* The cyclic data.                                                        *)

\* A step after which a has sent what it had, and one after which a gets nothing
\* that it did not get before.
SentKept(a) == Staying(a)' => Staying(a) /\ Sent(a)' = Sent(a)
ListenKept(a) == Listens(a)' => Listens(a) /\ offset'[a] = offset[a]

AllCyclic == \A f \in Federates : \A g \in Federates \ {f} : CyclicInv(f, g)

LEMMA CyclicFrame ==
  ASSUME Known, NEW a \in Federates, Keeps(a), refused \subseteq refused',
         NEW f \in Federates, NEW g \in Federates \ {f},
         Coming(f, g)' \subseteq Coming(f, g),
         Listens(f)' => Coming(f, g)' = Coming(f, g),
         received'[f][g] = received[f][g], time'[f] = time[f],
         f = a => ListenKept(a), g = a => SentKept(a)
  PROVE  CyclicInv(f, g)'
  <1>1. CyclicInv(f, g) /\ (f # a => Same(f)) /\ (g # a => Same(g))
    BY DEF Known, DataInv, Keeps
  <1>2. Staying(g)' => Staying(g) /\ Sent(g)' = Sent(g)
    <2>1. CASE g = a
      BY <2>1 DEF SentKept
    <2>2. CASE g # a
      <3>1. Same(g)
        BY <1>1, <2>2
      <3>2. Sent(g)' = Sent(g)
        BY <3>1 DEF Same, Sent, SentUpTo, Now
      <3>3. QED
        BY <3>1, <3>2 DEF Same, Staying
    <2>3. QED
      BY <2>1, <2>2
  <1>3. Listens(f)' => Listens(f) /\ offset'[f] = offset[f]
    <2>1. CASE f = a
      BY <2>1 DEF ListenKept
    <2>2. CASE f # a
      BY <1>1, <2>2 DEF Same, Listens, Has, Member
    <2>3. QED
      BY <2>1, <2>2
  <1>4. SentInv(f, g)'
    BY <1>1, <1>2 DEF CyclicInv, SentInv
  <1>5. AheadInv(f, g)'
    BY <1>1 DEF CyclicInv, AheadInv
  <1>6. DueInv(f, g)'
    <2> SUFFICES ASSUME Listens(f)', g \in Regulating, Staying(g)'
                 PROVE  /\ \/ received'[f][g] <= time'[f]
                           \/ f \in Late /\ received'[f][g] <= offset'[f]
                        /\ \A x \in Sent(g)' : (f \in Late => x > offset'[f]) =>
                             x <= received'[f][g] \/ x \in Coming(f, g)'
      BY DEF DueInv
    <2>1. /\ Listens(f) /\ Staying(g) /\ offset'[f] = offset[f] /\ Sent(g)' = Sent(g)
          /\ Coming(f, g)' = Coming(f, g)
      BY <1>2, <1>3
    <2>2. /\ \/ received[f][g] <= time[f]
             \/ f \in Late /\ received[f][g] <= offset[f]
          /\ \A x \in Sent(g) : (f \in Late => x > offset[f]) =>
               x <= received[f][g] \/ x \in Coming(f, g)
      BY <1>1, <2>1 DEF CyclicInv, DueInv
    <2>3. QED
      BY <2>1, <2>2
  <1>7. QED
    BY <1>4, <1>5, <1>6 DEF CyclicInv

LEMMA QuietCyclic ==
  ASSUME Known, NEW a \in Federates, Keeps(a), refused \subseteq refused',
         UNCHANGED <<received, tso, time>>, SentKept(a), ListenKept(a)
  PROVE  AllCyclic'
  <1> SUFFICES ASSUME NEW f \in Federates, NEW g \in Federates \ {f}
               PROVE  CyclicInv(f, g)'
    BY DEF AllCyclic
  <1>1. Coming(f, g)' = Coming(f, g)
    BY DEF Coming
  <1>2. QED
    BY <1>1, CyclicFrame

\* The same frame, or none, before and after.
LEMMA SentSame ==
  ASSUME NEW a \in Federates, refused \subseteq refused',
         UNCHANGED <<sim, offset>>,
         pc'[a] # "gone" => pc[a] # "gone",
         pc'[a] \in Frames <=> pc[a] \in Frames, pc'[a] = "request" <=> pc[a] = "request"
  PROVE  SentKept(a)
  BY DEF SentKept, Staying, Sent, SentUpTo, Now

\* a begins its frames.
LEMMA SentBegins ==
  ASSUME Known, NEW a \in Federates, refused \subseteq refused', UNCHANGED offset,
         sim'[a] = 0, pc[a] \notin Frames \cup {"gone"}, pc'[a] \in Jobs
  PROVE  SentKept(a)
  <1>1. Sent(a) = {} /\ offset[a] \in Nat
    BY DEF Sent, Known, Inv, Types
  <1>2. SentUpTo(a)' = offset[a]
    BY <1>1 DEF SentUpTo, Now, Jobs
  <1>3. (offset'[a] + 1)..SentUpTo(a)' = {}
    BY <1>1, <1>2
  <1>4. Sent(a)' = {}
    BY <1>3 DEF Sent
  <1>5. QED
    BY <1>1, <1>4 DEF SentKept, Staying

\* The next frame begins: what has been sent is the data of the frames before it.
LEMMA SentGoesOn ==
  ASSUME Known, NEW a \in Federates, refused \subseteq refused', UNCHANGED offset,
         sim' = [sim EXCEPT ![a] = @ + DataCycle[a]], pc[a] = "request", pc'[a] \in Jobs
  PROVE  SentKept(a)
  <1>1. offset[a] \in Nat /\ sim[a] \in Nat /\ DataCycle[a] \in Nat
    BY Configuration DEF Known, Inv, Types
  <1>2. sim'[a] = sim[a] + DataCycle[a]
    BY DEF Known, Inv, Types
  <1>3. SentUpTo(a)' = SentUpTo(a)
    BY <1>1, <1>2 DEF SentUpTo, Now, Jobs
  <1>4. Sent(a)' = Sent(a)
    BY <1>3 DEF Sent, Frames, Jobs
  <1>5. QED
    BY <1>4 DEF SentKept, Staying

LEMMA ListenSame ==
  ASSUME NEW a \in Federates, UNCHANGED offset,
         Has(a, "constrained")' => Has(a, "constrained"),
         pc'[a] \in {"aligned"} \cup Frames => a \in Early \/ pc[a] \in {"aligned"} \cup Frames
  PROVE  ListenKept(a)
  BY DEF ListenKept, Listens

LEMMA SetupCyclic ==
  ASSUME Known, NEW f \in Federates, Keeps(f),
         Join(f) \/ SetupConstrained(f) \/ SetupRegulation(f) \/ Begin(f)
  PROVE  AllCyclic'
  <1>1. UNCHANGED <<received, tso, time, refused, offset, sim, enabled, answer>>
    BY DEF Join, SetupConstrained, SetupRegulation, Setup, Begin, dataVars, rtiVars,
           frameVars, stateVars
  <1>2. Local(f) /\ Inv
    BY DEF Known, Inv
  <1>3. CASE Begin(f)
    <2>1. pc[f] = "barrier" /\ pc'[f] \in Jobs /\ f \in Early /\ sim[f] = 0
      BY <1>2, <1>3, Configuration
      DEF Begin, Goto, FirstJob, Jobs, Inv, Types, Local, LateInv, SetupInv
    <2>2. SentKept(f)
      BY <1>1, <2>1, SentBegins DEF Frames, Jobs
    <2>3. ListenKept(f)
      BY <1>1, <2>1, ListenSame DEF Has, Member
    <2>4. QED
      BY <1>1, <2>2, <2>3, QuietCyclic
  <1>4. CASE Join(f) \/ SetupConstrained(f) \/ SetupRegulation(f)
    <2>1. /\ pc[f] \in Before \cup {"regulate"}
          /\ pc'[f] \in {"constrain", "regulate"} \cup Setting
      BY <1>2, <1>4
      DEF Join, SetupConstrained, SetupRegulation, Goto, Before, Setting, Inv, Types
    <2>2. SentKept(f)
      BY <1>1, <2>1, SentSame DEF Before, Setting, Frames, Jobs
    <2>3. Has(f, "constrained")' => Has(f, "constrained")
      BY <1>1, <1>2, <1>4
      DEF Join, SetupConstrained, SetupRegulation, Goto, Has, Member, Local, SetupInv,
          Before, Idle
    <2>4. ListenKept(f)
      BY <1>1, <2>1, <2>3, ListenSame DEF Setting, Frames, Jobs
    <2>5. QED
      BY <1>1, <2>2, <2>4, QuietCyclic
  <1>5. QED
    BY <1>3, <1>4

LEMMA RequestCyclic ==
  ASSUME Known, NEW f \in Federates, Keeps(f),
         RequestBoundary(f) \/ RequestZero(f) \/ Request(f)
  PROVE  AllCyclic'
  <1>1. \E k, t : Call(f, k, t)
    BY DEF RequestBoundary, RequestZero, Request
  <1>2. UNCHANGED <<received, tso, time, enabled, answer>> /\ refused \subseteq refused'
    BY <1>1 DEF Call, dataVars
  <1>3. Local(f) /\ Inv /\ UNCHANGED offset
    BY DEF Known, Inv, RequestBoundary, RequestZero, Request, frameVars
  <1>4. /\ pc[f] \in Frames \cup {"aligned"} /\ pc'[f] \in Jobs
    BY DEF RequestBoundary, RequestZero, Request, Job, Goto, FirstJob, Frames, Jobs,
           Known, Inv, Types
  <1>5. ListenKept(f)
    BY <1>2, <1>3, <1>4, ListenSame DEF Has, Member, Frames, Jobs
  <1>6. SentKept(f)
    <2>1. CASE RequestBoundary(f)
      <3>1. pc[f] = "aligned" /\ sim[f] = 0 /\ UNCHANGED sim
        BY <1>3, <2>1 DEF RequestBoundary, Goto, frameVars, Local, SetupInv
      <3>2. QED
        BY <1>2, <1>3, <1>4, <3>1, SentBegins DEF Frames, Jobs
    <2>2. CASE RequestZero(f)
      <3>1. pc[f] = "exchange" /\ pc'[f] = "exchange" /\ UNCHANGED sim
        BY <2>2 DEF RequestZero, Job, Goto, frameVars, Known, Inv, Types
      <3>2. QED
        BY <1>2, <1>3, <3>1, SentSame
    <2>3. CASE Request(f)
      <3>1. pc[f] = "request" /\ sim' = [sim EXCEPT ![f] = @ + DataCycle[f]]
        BY <2>3 DEF Request, Goto
      <3>2. QED
        BY <1>2, <1>3, <1>4, <3>1, SentGoesOn
    <2>4. QED
      BY <2>1, <2>2, <2>3
  <1>7. QED
    BY <1>2, <1>5, <1>6, QuietCyclic

LEMMA JobCyclic ==
  ASSUME Known, NEW f \in Federates, Keeps(f),
         TakeZero(f) \/ Return(f) \/ OnEnabled(f) \/ OnGrant(f)
  PROVE  AllCyclic'
  <1>1. UNCHANGED <<received, tso, time, refused, offset, sim>>
    BY DEF TakeZero, Return, OnEnabled, OnGrant, Granted, dataVars, rtiVars, frameVars
  <1>2. SentKept(f) /\ ListenKept(f)
    <2>1. CASE TakeZero(f)
      <3>1. pc[f] = "exchange" /\ pc'[f] = "send" /\ UNCHANGED <<enabled, answer>>
        BY <2>1 DEF TakeZero, Job, Goto, stateVars, rtiVars, Known, Inv, Types
      <3>2. SentKept(f)
        BY <1>1, <3>1, SentSame DEF Frames, Jobs
      <3>3. ListenKept(f)
        BY <1>1, <3>1, ListenSame DEF Has, Member, Frames, Jobs
      <3>4. QED
        BY <3>2, <3>3
    <2>2. CASE Return(f) \/ OnEnabled(f) \/ OnGrant(f)
      <3>1. UNCHANGED pc
        BY <2>2 DEF Return, OnEnabled, OnGrant, Granted
      <3>2. Has(f, "constrained")' => Has(f, "constrained")
        <4>1. CASE Return(f)
          BY <3>1, <4>1 DEF Return, rtiVars, Has, Member
        <4>2. CASE OnGrant(f)
          BY <3>1, <4>2
          DEF OnGrant, Granted, Has, Member, Nothing, Known, Inv, Types
        <4>3. CASE OnEnabled(f)
          <5>1. PICK j \in Enables :
                  /\ answer[f].kind = j /\ enabled'[f] = enabled[f] \cup {j}
                  /\ answer'[f] = Nothing
            BY <4>3 DEF OnEnabled, Callback, Granted, Known, Inv, Types
          <5>2. QED
            BY <3>1, <5>1 DEF Has, Member, Nothing, Enables
        <4>4. QED
          BY <2>2, <4>1, <4>2, <4>3
      <3>3. SentKept(f) /\ ListenKept(f)
        BY <1>1, <3>1, <3>2, SentSame, ListenSame
      <3>4. QED
        BY <3>3
    <2>3. QED
      BY <2>1, <2>2
  <1>3. QED
    BY <1>1, <1>2, QuietCyclic

\* The cyclic data is not concerned.
LEMMA SendZeroCyclic ==
  ASSUME Known, NEW a \in Federates, Keeps(a), SendZero(a) PROVE AllCyclic'
  <1>1. PICK set :
        /\ Update(a, granted[a], set, TRUE) /\ granted[a] \in Nat /\ DataTypes
        /\ UNCHANGED <<time, refused, offset, sim, enabled, answer>>
    BY DEF SendZero, frameVars, stateVars, Known, Inv, Types
  <1>2. /\ pc[a] = "zero" /\ pc'[a] \in Jobs
    BY DEF SendZero, Job, Goto, Jobs, Known, Inv, Types
  <1>3. SentKept(a)
    BY <1>1, <1>2, SentSame DEF Frames, Jobs
  <1>4. ListenKept(a)
    BY <1>1, <1>2, ListenSame DEF Has, Member, Frames, Jobs
  <1>5. ASSUME NEW f \in Federates, NEW g \in Federates \ {f} PROVE CyclicInv(f, g)'
    <2> DEFINE t == granted[a]
               m == [from |-> a, time |-> t, zero |-> TRUE]
    <2>0. /\ tso'[f] = tso[f] \/ (f \in set \ {a} /\ tso'[f] = tso[f] \cup {m})
          /\ \A h \in Federates : received'[f][h] = received[f][h]
      <3>1. DataTypes /\ Update(a, t, set, TRUE) /\ t \in Nat
        BY <1>1
      <3> HIDE DEF t
      <3>2. QED
        BY <3>1, ZeroEffect
    <2> HIDE DEF t
    <2>1. /\ tso'[f] = tso[f] \/ tso'[f] = tso[f] \cup {m}
          /\ received'[f][g] = received[f][g]
      BY <2>0
    <2>2. Coming(f, g)' = Coming(f, g)
      BY <2>1 DEF Coming
    <2>3. QED
      BY <1>1, <1>3, <1>4, <2>1, <2>2, CyclicFrame
  <1>6. QED
    BY <1>5 DEF AllCyclic

LEMMA LeaveCyclic ==
  ASSUME Known, NEW a \in Federates, Keeps(a), Leave(a) PROVE AllCyclic'
  <1>1. /\ UNCHANGED <<received, time, refused>> /\ ~Member(a)' /\ pc'[a] = "gone"
        /\ \A f \in Federates \ {a} : tso'[f] = tso[f]
        /\ tso'[a] = {}
    BY DEF Leave, dataVars, Member, Known, Inv, Types, DataTypes
  <1>2. SentKept(a) /\ ListenKept(a) /\ ~Listens(a)'
    BY <1>1 DEF SentKept, Staying, ListenKept, Listens, Has
  <1>3. ASSUME NEW f \in Federates, NEW g \in Federates \ {f} PROVE CyclicInv(f, g)'
    <2>1. CASE f = a
      <3>1. Coming(f, g)' = {}
        BY <1>1, <2>1 DEF Coming
      <3>2. QED
        BY <1>1, <1>2, <2>1, <3>1, CyclicFrame
    <2>2. CASE f # a
      <3>1. Coming(f, g)' = Coming(f, g)
        BY <1>1, <2>2 DEF Coming
      <3>2. QED
        BY <1>1, <1>2, <2>2, <3>1, CyclicFrame
    <2>3. QED
      BY <2>1, <2>2
  <1>4. QED
    BY <1>3 DEF AllCyclic

\* An advance of f, which gets what is due.
LEMMA TakeCyclic ==
  ASSUME Known, NEW a \in Federates, Keeps(a), NEW t \in Nat, NEW p, TakeTo(a, t, p),
         t >= time[a], refused \subseteq refused', SentKept(a), ListenKept(a)
  PROVE  AllCyclic'
  <1>1. /\ Reflect(a, t) /\ DataTypes /\ DataInv /\ Inv
        /\ time'[a] = t /\ \A f \in Federates \ {a} : time'[f] = time[f]
    BY DEF TakeTo, Known, Inv, Types
  <1>2. ASSUME NEW f \in Federates \ {a}, NEW g \in Federates \ {f} PROVE CyclicInv(f, g)'
    <2>1. tso'[f] = tso[f] /\ received'[f][g] = received[f][g]
      BY <1>1, ReflectOthers
    <2>2. Coming(f, g)' = Coming(f, g)
      BY <2>1 DEF Coming
    <2>3. QED
      BY <1>1, <2>1, <2>2, CyclicFrame
  <1>3. ASSUME NEW g \in Federates \ {a} PROVE CyclicInv(a, g)'
    <2>1. /\ Coming(a, g)' = {x \in Coming(a, g) : x > t}
          /\ received'[a][g] \in {received[a][g]} \cup {x \in Coming(a, g) : x <= t}
          /\ received'[a][g] >= received[a][g]
          /\ \A x \in Coming(a, g) : x <= t => x <= received'[a][g]
      BY <1>1, ReflectCyclic
    <2>2. CyclicInv(a, g) /\ Same(g)
      BY <1>1 DEF DataInv, Keeps
    <2>3. Sent(g)' = Sent(g) /\ (Staying(g)' => Staying(g))
      BY <2>2 DEF Same, Sent, SentUpTo, Now, Staying
    <2>4. SentInv(a, g)'
      BY <2>1, <2>2, <2>3 DEF CyclicInv, SentInv
    <2>5. AheadInv(a, g)'
      BY <1>1, <2>1 DEF AheadInv
    <2>6. DueInv(a, g)'
      <3> SUFFICES ASSUME Listens(a)', g \in Regulating, Staying(g)'
                   PROVE  /\ \/ received'[a][g] <= time'[a]
                             \/ a \in Late /\ received'[a][g] <= offset'[a]
                          /\ \A x \in Sent(g)' : (a \in Late => x > offset'[a]) =>
                               x <= received'[a][g] \/ x \in Coming(a, g)'
        BY DEF DueInv
      <3>1. /\ Listens(a) /\ Staying(g) /\ offset'[a] = offset[a] /\ Sent(g)' = Sent(g)
        BY <2>3 DEF ListenKept
      <3>2. /\ \/ received[a][g] <= time[a]
               \/ a \in Late /\ received[a][g] <= offset[a]
            /\ \A x \in Sent(g) : (a \in Late => x > offset[a]) =>
                 x <= received[a][g] \/ x \in Coming(a, g)
        BY <2>2, <3>1 DEF CyclicInv, DueInv
      <3>3. /\ received[a][g] \in Nat /\ received'[a][g] \in Nat /\ time[a] \in Nat
            /\ Coming(a, g) \subseteq Nat
        <4>1. Coming(a, g) \subseteq Nat /\ received[a][g] \in Nat
          BY <1>1 DEF DataTypes, Coming, Messages
        <4>2. QED
          BY <1>1, <2>1, <4>1 DEF Inv, Types
      <3>4. \/ received'[a][g] <= time'[a]
            \/ a \in Late /\ received'[a][g] <= offset'[a]
        BY <1>1, <2>1, <3>1, <3>2, <3>3
      <3>5. ASSUME NEW x \in Sent(g), a \in Late => x > offset[a]
            PROVE  x <= received'[a][g] \/ x \in Coming(a, g)'
        <4>1. x \in Nat
          <5>1. x \in (offset[g] + 1)..SentUpTo(g)
            BY <3>5 DEF Sent
          <5>2. offset[g] \in Nat
            BY <1>1 DEF Inv, Types
          <5>3. QED
            BY <5>1, <5>2
        <4>2. x <= received[a][g] \/ x \in Coming(a, g)
          BY <3>2, <3>5
        <4>3. QED
          BY <2>1, <3>3, <4>1, <4>2
      <3>6. QED
        BY <3>1, <3>4, <3>5
    <2>7. QED
      BY <2>4, <2>5, <2>6 DEF CyclicInv
  <1>4. QED
    BY <1>2, <1>3 DEF AllCyclic

LEMMA GrantCyclic ==
  ASSUME Known, NEW f \in Federates, Keeps(f), Grant(f) PROVE AllCyclic'
  <1>1. PICK p \in Nat : Advance(f, pending[f].time, p) /\ TakeTo(f, pending[f].time, p)
    BY GrantAdvances
  <1>2. Answer(f, Ask("grant", pending[f].time))
    BY GrantAdvances
  <1>3. /\ UNCHANGED <<pc, sim, offset, enabled, refused>> /\ answer'[f].kind = "grant"
    BY <1>2 DEF Answer, frameVars, stateVars, Ask, Known, Inv, Types
  <1>4. SentKept(f) /\ ListenKept(f)
    BY <1>3, SentSame, ListenSame DEF Has, Member
  <1>5. pending[f].time \in Nat /\ pending[f].time >= time[f]
    BY <1>1 DEF Advance
  <1>6. QED
    BY <1>1, <1>3, <1>4, <1>5, TakeCyclic

LEMMA EnableRegulationCyclic ==
  ASSUME Known, NEW f \in Federates, Keeps(f), EnableRegulation(f) PROVE AllCyclic'
  <1>1. PICK t \in Nat :
          /\ Answer(f, Ask("regulating", t))
          /\ \/ UNCHANGED <<time, tso, dataVars>>
             \/ TakeTo(f, t, t + 1) /\ Advance(f, t, t + 1)
    BY RegulationAdvances
  <1>2. /\ UNCHANGED <<pc, sim, offset, enabled, refused>> /\ answer'[f].kind = "regulating"
    BY <1>1 DEF Answer, frameVars, stateVars, Ask, Known, Inv, Types
  <1>3. SentKept(f) /\ ListenKept(f)
    BY <1>2, SentSame, ListenSame DEF Has, Member
  <1>4. CASE UNCHANGED <<time, tso, dataVars>>
    BY <1>2, <1>3, <1>4, QuietCyclic DEF dataVars
  <1>5. CASE TakeTo(f, t, t + 1) /\ Advance(f, t, t + 1)
    BY <1>2, <1>3, <1>5, TakeCyclic DEF Advance
  <1>6. QED
    BY <1>1, <1>4, <1>5

\* When an early joiner becomes constrained nobody has sent anything.
LEMMA EnableConstrainedCyclic ==
  ASSUME Known, NEW a \in Federates, Keeps(a), EnableConstrained(a) PROVE AllCyclic'
  <1>1. /\ pending[a].kind = "constrained" /\ Answer(a, Ask("constrained", time[a]))
        /\ UNCHANGED <<time, tso, received>> /\ Inv
    BY DEF EnableConstrained, dataVars, Known
  <1>2. UNCHANGED <<pc, sim, offset, enabled, refused>>
    BY <1>1 DEF Answer, frameVars, stateVars
  <1>3. pc[a] = "regulate"
    BY <1>1, Places DEF Local, SetupInv, FrameInv, Idle, Before, Setting, Enables
  <1>4. SentKept(a)
    BY <1>2, SentSame
  <1>5. ASSUME NEW f \in Federates, NEW g \in Federates \ {f} PROVE CyclicInv(f, g)'
    <2>1. Coming(f, g)' = Coming(f, g)
      BY <1>1 DEF Coming
    <2>2. CASE ListenKept(a)
      BY <1>1, <1>2, <1>4, <2>1, <2>2, CyclicFrame
    <2>3. CASE f # a
      BY <1>1, <1>2, <1>4, <2>1, <2>3, CyclicFrame
    <2>4. CASE f = a /\ ~ListenKept(a)
      <3>1. a \in Early
        BY <1>2, <1>3, <2>4 DEF ListenKept, Listens, Frames, Jobs
      <3>2. ~SetUp(a)
        BY <1>3 DEF SetUp
      <3>3. pc[g] \notin Frames
        BY <1>1, <3>1, <3>2, EarlyOnes DEF EverybodySetUp
      <3>4. CyclicInv(f, g) /\ Same(g)
        BY <2>4 DEF Known, DataInv, Keeps
      <3>5. Sent(g) = {} /\ Sent(g)' = {}
        BY <3>3, <3>4 DEF Sent, Same
      <3>6. Staying(g)' => Staying(g)
        BY <1>2, <3>4 DEF Staying, Same
      <3>7. Staying(g) => received[f][g] = 0 /\ Coming(f, g) = {}
        BY <3>4, <3>5 DEF CyclicInv, SentInv
      <3>8. SentInv(f, g)' /\ AheadInv(f, g)'
        BY <1>1, <1>2, <2>1, <3>4, <3>5, <3>6, <3>7 DEF CyclicInv, SentInv, AheadInv
      <3>9. DueInv(f, g)'
        BY <1>1, <3>5, <3>6, <3>7 DEF DueInv, Inv, Types
      <3>10. QED
        BY <3>8, <3>9 DEF CyclicInv
    <2>5. QED
      BY <2>2, <2>3, <2>4
  <1>6. QED
    BY <1>5 DEF AllCyclic

\* A late joiner goes to a boundary of the others.
LEMMA AlignGoes ==
  ASSUME Known, NEW a \in Federates, Align(a)
  PROVE  /\ a \in Late /\ pc[a] = "align" /\ pc'[a] = "aligned"
         /\ UNCHANGED <<received, tso, time, refused, sim, enabled, answer>>
         /\ \E h \in Regulators(a) :
              /\ GALT(a, Bound(h))
              /\ offset'[a] = ((Bound(h) \div LCTS) + 1) * LCTS
              /\ offset'[a] \in Nat /\ Multiple(LCTS, offset'[a]) /\ Bound(h) < offset'[a]
              /\ Bound(h) \in Nat
  <1>1. Local(a) /\ Inv
    BY DEF Known, Inv
  <1>2. /\ pc[a] = "align" /\ pc'[a] = "aligned"
        /\ UNCHANGED <<received, tso, time, refused, sim, enabled, answer>>
    BY <1>1 DEF Align, Goto, dataVars, rtiVars, Inv, Types
  <1>3. a \in Late
    BY <1>1, <1>2, Configuration DEF Local, EarlyInv
  <1>4. PICK t \in Times : Boundary(a, t) /\ offset'[a] = t
    BY <1>1 DEF Align, Inv, Types
  <1>5. PICK h \in Regulators(a) :
          GALT(a, Bound(h)) /\ t = ((Bound(h) \div LCTS) + 1) * LCTS
    BY <1>2, <1>3, <1>4, Company DEF Boundary
  <1>6. Bound(h) \in Nat /\ LCTS \in Nat \ {0} /\ t \in Nat
    BY <1>1, BoundIsNat, Configuration DEF Regulators, Times
  <1> DEFINE q == Bound(h) \div LCTS
  <1>7. q \in Nat /\ q * LCTS \in Nat /\ Bound(h) < q * LCTS + LCTS
    BY <1>6, Whole, Division
  <1>8. t = (q + 1) * LCTS /\ q + 1 \in Nat
    BY <1>5, <1>7
  <1> HIDE DEF q
  <1>9. t = q * LCTS + LCTS
    BY <1>6, <1>7, <1>8
  <1>10. Multiple(LCTS, t) /\ Bound(h) < t
    BY <1>6, <1>7, <1>8, <1>9, MultipleOf
  <1>11. QED
    BY <1>2, <1>3, <1>4, <1>5, <1>6, <1>10

\* Everything that has been sent is of a frame that is over, or just over.
LEMMA SentInTime ==
  ASSUME Known, NEW g \in Federates, Staying(g), NEW x \in Sent(g)
  PROVE  /\ x \in Nat /\ Multiple(DataCycle[g], x) /\ pc[g] \in Frames
         /\ x <= time[g] + DataCycle[g]
  <1>1. /\ offset[g] \in Nat /\ sim[g] \in Nat /\ time[g] \in Nat /\ requested[g] \in Nat
        /\ DataCycle[g] \in Nat \ {0}
    BY Configuration DEF Known, Inv, Types
  <1>2. pc[g] \in Frames /\ x \in (offset[g] + 1)..SentUpTo(g) /\ Multiple(DataCycle[g], x)
    BY DEF Sent
  <1>3. x \in Nat
    BY <1>1, <1>2
  <1>4. CASE pc[g] = "request"
    <2>1. time[g] = Now(g)
      BY <1>2, <1>4, RequestWaited, FrameOver DEF Staying
    <2>2. SentUpTo(g) = time[g] + DataCycle[g]
      BY <1>4, <2>1 DEF SentUpTo
    <2>3. QED
      BY <1>1, <1>2, <1>3, <2>2
  <1>5. CASE pc[g] # "request"
    <2>1. SentUpTo(g) = Now(g) + 0
      BY <1>5 DEF SentUpTo
    <2>2. x <= offset[g] + sim[g] /\ x >= offset[g] + 1
      BY <1>1, <1>2, <2>1 DEF Now
    <2>3. sim[g] > 0
      BY <1>1, <1>3, <2>2
    <2>4. requested[g] = offset[g] + sim[g] /\ requested[g] <= time[g] + DataCycle[g]
      BY <1>2, <2>3
      DEF Staying, Known, DataInv, Own, PaceInv, DataAssumption, Inv, Local, FrameInv
    <2>5. QED
      BY <1>1, <1>2, <1>3, <2>2, <2>4
  <1>6. QED
    BY <1>4, <1>5

\* A federate that is in its frames is what it is configured to be.
LEMMA Configured ==
  ASSUME Known, NEW g \in Federates, pc[g] \in Frames
  PROVE  /\ Has(g, "constrained") <=> g \in Constrained
         /\ Has(g, "regulating") <=> g \in Regulating
  <1>1. Own(g) /\ Member(g)
    BY DEF Known, DataInv, Member, Frames, Jobs
  <1>2. QED
    BY <1>1 DEF Own, EnabledInv, Enabled, Never, Has

\* A late joiner begins after all that has been sent.
LEMMA AllSentBefore ==
  ASSUME Known, NEW a \in Late, NEW h \in Regulators(a), NEW g \in Federates \ {a},
         g \in Regulating, Staying(g), NEW t \in Nat, Bound(h) < t, Multiple(LCTS, t),
         NEW x \in Sent(g)
  PROVE  x <= t
  <1>1. /\ x \in Nat /\ Multiple(DataCycle[g], x) /\ pc[g] \in Frames
        /\ x <= time[g] + DataCycle[g]
    BY SentInTime
  <1>2. /\ time[g] \in Nat /\ floor[g] \in Nat /\ DataCycle[g] \in Nat \ {0}
        /\ LCTS \in Nat \ {0} /\ Multiple(DataCycle[g], LCTS)
        /\ h \in Federates /\ Has(h, "regulating") /\ Own(g) /\ Bound(h) \in Nat
    BY Configuration, TimeAssumption, BoundIsNat
    DEF Known, Inv, Types, Multiple, Regulators, DataInv
  <1>3. time[g] <= Bound(h)
    <2>1. CASE h = g
      <3>1. pending[g].kind \in Requests => pending[g].time \in Nat /\ time[g] <= pending[g].time
        BY <1>2, Places DEF Own, ClockInv, Known, Asked, Nothing, Requests
      <3>2. Lookahead[g] \in Nat
        BY Configuration
      <3>3. QED
        BY <1>2, <2>1, <3>1, <3>2 DEF Bound
    <2>2. CASE h # g
      <3>1. g \in Constrained
        BY DEF Known, DataAssumption, Joinable
      <3>2. floor[g] <= Bound(h)
        BY <1>1, <1>2, <2>2, <3>1, Configured DEF Known, DataInv, Promise
      <3>3. time[g] <= floor[g]
        BY <1>2 DEF Own, ClockInv
      <3>4. QED
        BY <1>2, <3>2, <3>3
    <2>3. QED
      BY <2>1, <2>2
  <1>4. Multiple(DataCycle[g], t)
    BY <1>2, MultipleTrans
  <1>5. t < x => t + DataCycle[g] <= x
    BY <1>1, <1>2, <1>4, MultipleGap
  <1>6. QED
    BY <1>1, <1>2, <1>3, <1>5

LEMMA AlignCyclic ==
  ASSUME Known, NEW a \in Federates, Keeps(a), Align(a) PROVE AllCyclic'
  <1>1. /\ a \in Late /\ pc[a] = "align" /\ pc'[a] = "aligned"
        /\ UNCHANGED <<received, tso, time, refused, sim, enabled, answer>>
    BY AlignGoes
  <1>2. PICK h \in Regulators(a) :
          /\ offset'[a] \in Nat /\ Multiple(LCTS, offset'[a]) /\ Bound(h) < offset'[a]
    BY AlignGoes
  <1>3. SentKept(a)
    <2>1. Sent(a) = {} /\ Sent(a)' = {}
      BY <1>1 DEF Sent, Frames, Jobs
    <2>2. QED
      BY <1>1, <2>1 DEF SentKept, Staying
  <1>4. ASSUME NEW f \in Federates \ {a}, NEW g \in Federates \ {f} PROVE CyclicInv(f, g)'
    <2>1. Coming(f, g)' = Coming(f, g)
      BY <1>1 DEF Coming
    <2>2. QED
      BY <1>1, <1>3, <2>1, CyclicFrame
  <1>5. ASSUME NEW g \in Federates \ {a} PROVE CyclicInv(a, g)'
    <2>1. CyclicInv(a, g) /\ Same(g) /\ Coming(a, g)' = Coming(a, g)
      BY <1>1 DEF Known, DataInv, Keeps, Coming
    <2>2. Sent(g)' = Sent(g) /\ (Staying(g)' => Staying(g))
      BY <1>1, <2>1 DEF Same, Sent, SentUpTo, Now, Staying
    <2>3. SentInv(a, g)' /\ AheadInv(a, g)'
      BY <1>1, <2>1, <2>2 DEF CyclicInv, SentInv, AheadInv
    <2>4. ASSUME g \in Regulating, Staying(g) PROVE \A x \in Sent(g) : x <= offset'[a]
      BY <1>1, <1>2, <2>4, AllSentBefore
    <2>5. ASSUME g \in Regulating, Staying(g)
          PROVE  /\ received[a][g] <= offset'[a]
                 /\ \A x \in Sent(g) : ~(x > offset'[a])
      <3>1. \A x \in Sent(g) : x \in Nat /\ x <= offset'[a]
        BY <2>4, <2>5, SentInTime
      <3>2. received[a][g] = 0 \/ received[a][g] \in Sent(g)
        BY <2>1, <2>5 DEF CyclicInv, SentInv
      <3>3. QED
        BY <1>2, <3>1, <3>2
    <2>6. DueInv(a, g)'
      BY <1>1, <2>2, <2>5 DEF DueInv
    <2>7. QED
      BY <2>3, <2>6 DEF CyclicInv
  <1>6. QED
    BY <1>4, <1>5 DEF AllCyclic

\* The data of the frame is the next that is sent, at the end of the frame.
LEMMA SendGoes ==
  ASSUME Known, NEW a \in Federates, Send(a), a \notin refused
  PROVE  /\ UpdateTime(a) = Now(a) + DataCycle[a] /\ UpdateTime(a) \in Nat
         /\ time[a] = Now(a) /\ Bound(a) = Lookahead[a] + Now(a) /\ Now(a) \in Nat
         /\ Sent(a)' = Sent(a) \cup {UpdateTime(a)}
  <1> DEFINE u == Now(a) + DataCycle[a]
  <1>1. /\ offset[a] \in Nat /\ sim[a] \in Nat /\ DataCycle[a] \in Nat \ {0}
        /\ Lookahead[a] \in Nat /\ Lookahead[a] <= DataCycle[a]
        /\ LCTS \in Nat \ {0} /\ Multiple(DataCycle[a], LCTS) /\ ClockInv(a)
    BY Configuration, TimeAssumption DEF Known, Inv, Types, Multiple, DataInv, Own
  <1>2. /\ pc[a] = "send" /\ Waited(a) /\ pc'[a] = "request" /\ UNCHANGED <<sim, offset>>
    BY DEF Send, Job, Goto, frameVars, Known, Inv, Types
  <1>3. time[a] = Now(a) /\ granted[a] = Now(a) /\ Idle(a)
    BY <1>2, FrameOver DEF Frames, Jobs
  <1>4. UpdateTime(a) = u /\ u \in Nat /\ Now(a) \in Nat
    BY <1>1, <1>3 DEF UpdateTime, Now
  <1>5. Bound(a) = Lookahead[a] + Now(a)
    BY <1>3 DEF Bound, Idle, Requests
  <1>6. Multiple(DataCycle[a], Now(a)) /\ Multiple(DataCycle[a], u)
    <2>1. Multiple(DataCycle[a], offset[a]) /\ Multiple(DataCycle[a], sim[a])
      BY <1>1, MultipleTrans DEF ClockInv
    <2>2. Multiple(DataCycle[a], Now(a))
      BY <1>1, <2>1, MultiplePlus DEF Now
    <2>3. QED
      BY <1>1, <1>4, <2>2, MultiplePlus, MultipleItself
  <1>7. /\ Sent(a) = {x \in (offset[a] + 1)..Now(a) : Multiple(DataCycle[a], x)}
        /\ Sent(a)' = {x \in (offset[a] + 1)..u : Multiple(DataCycle[a], x)}
    <2>1. SentUpTo(a) = Now(a)
      BY <1>2, <1>4 DEF SentUpTo
    <2>2. SentUpTo(a)' = u /\ Now(a)' = Now(a)
      BY <1>2 DEF SentUpTo, Now
    <2>3. QED
      BY <1>2, <2>1, <2>2 DEF Sent, Frames, Jobs
  <1>8. offset[a] <= Now(a) /\ Now(a) < u
    BY <1>1 DEF Now
  <1> HIDE DEF u
  <1>9. \A x \in Nat : Multiple(DataCycle[a], x) /\ Now(a) < x => u <= x
    <2>1. \A x \in Nat : Multiple(DataCycle[a], x) /\ Now(a) < x => Now(a) + DataCycle[a] <= x
      BY <1>1, <1>4, <1>6, MultipleGap
    <2>2. QED
      BY <2>1 DEF u
  <1>10. Sent(a)' = Sent(a) \cup {u}
    <2>1. u \in Sent(a)'
      BY <1>1, <1>4, <1>6, <1>7, <1>8
    <2>2. Sent(a) \subseteq Sent(a)'
      BY <1>1, <1>4, <1>7, <1>8
    <2>3. ASSUME NEW x \in Sent(a)' PROVE x \in Sent(a) \cup {u}
      <3>1. /\ x \in (offset[a] + 1)..u /\ Multiple(DataCycle[a], x)
        BY <1>7
      <3>2. x \in Nat /\ x <= u
        BY <1>1, <1>4, <3>1
      <3>3. CASE Now(a) < x
        BY <1>4, <1>9, <3>1, <3>2, <3>3
      <3>4. CASE ~(Now(a) < x)
        BY <1>1, <1>4, <1>7, <3>1, <3>2, <3>4
      <3>5. QED
        BY <3>3, <3>4
    <2>4. QED
      BY <2>1, <2>2, <2>3
  <1>11. QED
    BY <1>3, <1>4, <1>5, <1>10 DEF u

LEMMA SendCyclic ==
  ASSUME Known, NEW a \in Federates, Keeps(a), Send(a) PROVE AllCyclic'
  <1> DEFINE u == UpdateTime(a)
             m == [from |-> a, time |-> u, zero |-> FALSE]
  <1>1. /\ Update(a, u, Federates, FALSE) /\ DataTypes /\ Inv
        /\ UNCHANGED <<time, refused, offset, sim, enabled, answer>>
    BY DEF Send, frameVars, stateVars, Known
  <1>2. /\ pc[a] = "send" /\ pc'[a] = "request"
    BY <1>1 DEF Send, Job, Goto, Inv, Types
  <1>3. ListenKept(a)
    BY <1>1, <1>2, ListenSame DEF Has, Member, Frames, Jobs
  <1>4. u \in Nat
    BY <1>1, Configuration DEF UpdateTime, Inv, Types
  <1> HIDE DEF u
  <1>5. ASSUME NEW f \in Federates
        PROVE  /\ \A g \in Federates \ {a} : received'[f][g] = received[f][g]
               /\ f # a /\ Has(f, "constrained") /\ Has(a, "regulating") =>
                    /\ received'[f][a] = received[f][a]
                    /\ \/ u < time[a] + Lookahead[a] /\ tso'[f] = tso[f]
                       \/ /\ ~(u < time[a] + Lookahead[a])
                          /\ tso'[f] = tso[f] \cup {m}
               /\ f = a \/ ~Has(f, "constrained") \/ ~Has(a, "regulating") =>
                    /\ tso'[f] = tso[f]
                    /\ received'[f][a] \in {u, received[f][a]}
    BY <1>1, <1>4, CyclicEffect
  <1>6. ASSUME NEW f \in Federates, NEW g \in Federates \ {f}, g # a PROVE CyclicInv(f, g)'
    <2>1. tso'[f] = tso[f] \/ tso'[f] = tso[f] \cup {m}
      BY <1>5
    <2>2. Coming(f, g)' = Coming(f, g)
      BY <1>6, <2>1 DEF Coming
    <2>3. received'[f][g] = received[f][g]
      BY <1>5, <1>6
    <2>4. QED
      BY <1>1, <1>3, <1>6, <2>2, <2>3, CyclicFrame
  <1>7. ASSUME NEW f \in Federates \ {a}, a \in refused PROVE CyclicInv(f, a)'
    BY <1>1, <1>7 DEF CyclicInv, SentInv, AheadInv, DueInv, Staying
  <1>8. ASSUME NEW f \in Federates \ {a}, a \notin refused PROVE CyclicInv(f, a)'
    <2>1. /\ u = Now(a) + DataCycle[a] /\ time[a] = Now(a)
          /\ Bound(a) = Lookahead[a] + Now(a) /\ Now(a) \in Nat
          /\ Sent(a)' = Sent(a) \cup {u}
      BY <1>8, SendGoes DEF u
    <2>2. CyclicInv(f, a) /\ Promise(f, a) /\ ClockInv(f) /\ Same(f)
      BY DEF Known, DataInv, Own, Keeps
    <2>3. Staying(a) /\ Staying(a)'
      BY <1>1, <1>2, <1>8 DEF Staying
    <2>4. SentInv(f, a) /\ AheadInv(f, a) /\ DueInv(f, a)
      BY <2>2 DEF CyclicInv
    <2>5. Coming(f, a) \cup ({received[f][a]} \ {0}) \subseteq Sent(a)
      BY <2>3, <2>4 DEF SentInv
    <2>6. CASE Has(f, "constrained") /\ Has(a, "regulating")
      <3>1. /\ DataCycle[a] \in Nat \ {0} /\ Lookahead[a] \in Nat
            /\ Lookahead[a] <= DataCycle[a] /\ Lookahead[f] \in Nat
            /\ time[f] \in Nat /\ floor[f] \in Nat
        BY <1>1, Configuration, TimeAssumption DEF Inv, Types
      <3>2. received'[f][a] = received[f][a] /\ tso'[f] = tso[f] \cup {m}
        <4>1. ~(u < time[a] + Lookahead[a])
          BY <2>1, <3>1
        <4>2. /\ received'[f][a] = received[f][a]
              /\ \/ u < time[a] + Lookahead[a] /\ tso'[f] = tso[f]
                 \/ ~(u < time[a] + Lookahead[a]) /\ tso'[f] = tso[f] \cup {m}
          BY <1>5, <2>6
        <4>3. QED
          BY <4>1, <4>2
      <3>3. Coming(f, a)' = Coming(f, a) \cup {u}
        <4>1. m.time = u /\ m.from = a /\ ~m.zero
          OBVIOUS
        <4> HIDE DEF m
        <4>2. {x \in tso'[f] : x.from = a /\ ~x.zero}
                = {x \in tso[f] : x.from = a /\ ~x.zero} \cup {m}
          BY <3>2, <4>1
        <4>3. QED
          BY <4>1, <4>2 DEF Coming
      <3>4. SentInv(f, a)'
        BY <2>1, <2>5, <3>2, <3>3 DEF SentInv
      <3>5. u > time[f] \/ (Lookahead[f] = 0 /\ Lookahead[a] > 0 /\ u = time[f])
        <4>1. time[f] <= floor[f] /\ floor[f] <= Lookahead[a] + Now(a)
          BY <2>1, <2>2, <2>6 DEF ClockInv, Promise
        <4>2. Lookahead[f] > 0 /\ time[f] > 0 => floor[f] > time[f]
          BY <2>2 DEF ClockInv
        <4>3. QED
          BY <2>1, <3>1, <4>1, <4>2
      <3>6. AheadInv(f, a)'
        BY <1>1, <2>4, <3>3, <3>5 DEF AheadInv
      <3>7. DueInv(f, a)'
        <4>1. Listens(f)' => Listens(f)
          BY <2>2 DEF Listens, Same, Has, Member
        <4>2. QED
          BY <1>1, <2>1, <2>3, <2>4, <3>2, <3>3, <4>1 DEF DueInv
      <3>8. QED
        BY <3>4, <3>6, <3>7 DEF CyclicInv
    <2>7. CASE ~(Has(f, "constrained") /\ Has(a, "regulating"))
      <3>1. tso'[f] = tso[f] /\ received'[f][a] \in {u, received[f][a]}
        BY <1>5, <2>7
      <3>2. Coming(f, a)' = Coming(f, a)
        BY <3>1 DEF Coming
      <3>3. SentInv(f, a)'
        BY <2>1, <2>5, <3>1, <3>2 DEF SentInv
      <3>4. AheadInv(f, a)'
        BY <1>1, <2>4, <3>2 DEF AheadInv
      <3>5. a \in Regulating => Has(a, "regulating")
        BY <1>2, Configured DEF Frames, Jobs
      <3>6. Listens(f)' => Has(f, "constrained")
        BY <2>2 DEF Listens, Same, Has, Member
      <3>7. DueInv(f, a)'
        BY <2>7, <3>5, <3>6 DEF DueInv
      <3>8. QED
        BY <3>3, <3>4, <3>7 DEF CyclicInv
    <2>8. QED
      BY <2>6, <2>7
  <1>9. QED
    BY <1>6, <1>7, <1>8 DEF AllCyclic

LEMMA CyclicStep ==
  ASSUME Known, NEW f \in Federates, Keeps(f),
         Main(f) \/ Rti(f) \/ Ambassador(f) \/ Leave(f)
  PROVE  AllCyclic'
  BY SetupCyclic, RequestCyclic, JobCyclic, SendZeroCyclic, LeaveCyclic, GrantCyclic,
     EnableRegulationCyclic, EnableConstrainedCyclic, AlignCyclic, SendCyclic
  DEF Main, Rti, Ambassador

-----------------------------------------------------------------------------
(* The zero-lookahead data.                                                *)

AllZero == \A f \in Federates : ZeroInv(f)

\* The frames that are counted are times, and multiples of the data cycle.
LEMMA NextFrames ==
  ASSUME Known, NEW f \in Federates
  PROVE  /\ Now(f) \in Nat /\ Multiple(DataCycle[f], Now(f))
         /\ NextTake(f) \in Nat /\ Multiple(DataCycle[f], NextTake(f))
         /\ NextZero(f) \in Nat /\ Multiple(DataCycle[f], NextZero(f))
         /\ NextTake(f) \in {Now(f), Now(f) + DataCycle[f]}
         /\ NextZero(f) \in {Now(f), Now(f) + DataCycle[f]}
  <1>1. /\ offset[f] \in Nat /\ sim[f] \in Nat /\ DataCycle[f] \in Nat \ {0}
        /\ LCTS \in Nat \ {0} /\ Multiple(DataCycle[f], LCTS) /\ ClockInv(f)
    BY Configuration, TimeAssumption DEF Known, Inv, Types, Multiple, DataInv, Own
  <1>2. Multiple(DataCycle[f], offset[f]) /\ Multiple(DataCycle[f], sim[f])
    BY <1>1, MultipleTrans DEF ClockInv
  <1>3. Now(f) \in Nat /\ Multiple(DataCycle[f], Now(f))
    BY <1>1, <1>2, MultiplePlus DEF Now
  <1>4. Now(f) + DataCycle[f] \in Nat /\ Now(f) + 0 = Now(f)
    BY <1>1, <1>3
  <1>5. Multiple(DataCycle[f], Now(f) + DataCycle[f])
    BY <1>1, <1>3, MultiplePlus, MultipleItself
  <1>6. /\ NextTake(f) \in {Now(f), Now(f) + DataCycle[f]}
        /\ NextZero(f) \in {Now(f), Now(f) + DataCycle[f]}
    BY <1>4 DEF NextTake, NextZero
  <1>7. QED
    BY <1>3, <1>4, <1>5, <1>6

LEMMA NextFramesAfter ==
  ASSUME Types', NEW f \in Federates PROVE NextTake(f)' \in Nat /\ NextZero(f)' \in Nat
  <1>1. offset'[f] \in Nat /\ sim'[f] \in Nat /\ DataCycle[f] \in Nat
    BY Configuration DEF Types
  <1>2. QED
    BY <1>1 DEF NextTake, NextZero, Now

\* The times of what is there, or comes, are times.
LEMMA ZeroTimes ==
  ASSUME Known, NEW f \in Federates PROVE zero[f] \cup ZeroComing(f) \subseteq Nat
  BY DEF Known, DataTypes, ZeroComing, Messages

\* A step in which nothing comes to f, and its source goes on.
LEMMA ZeroFrame ==
  ASSUME Known, Types', NEW f \in Federates, refused \subseteq refused', ZeroOrigin(f)',
         ZeroComing(f)' \subseteq ZeroComing(f), zero'[f] \subseteq zero[f],
         time'[f] = time[f],
         pc[f] = "gone" => pc'[f] = "gone", pc[Source[f]] = "gone" => pc'[Source[f]] = "gone",
         Source[f] # f /\ pc'[f] # "gone" => NextTake(f)' = NextTake(f),
         Source[f] # f /\ pc'[Source[f]] # "gone" => NextZero(Source[f])' >= NextZero(Source[f])
  PROVE  ZeroInv(f)'
  <1>1. ZeroInv(f)
    BY DEF Known, DataInv
  <1>2. Source[f] = f => zero'[f] = {}
    BY <1>1 DEF ZeroInv
  <1>3. ASSUME Source[f] # f, {f, Source[f]} \cap refused' = {}, pc'[f] # "gone"
        PROVE  ZeroOf(f, Source[f])'
    <2> DEFINE g == Source[f]
    <2>1. g \in Federates
      BY TimeAssumption
    <2>2. ZeroOf(f, g)
      BY <1>1, <1>3 DEF ZeroInv
    <2>3. NextTake(f)' = NextTake(f)
      BY <1>3
    <2>4. pc'[g] # "gone" => pc[g] # "gone" /\ NextZero(g)' >= NextZero(g)
      BY <1>3
    <2> HIDE DEF g
    <2>5. /\ NextTake(f) \in Nat /\ NextZero(g) \in Nat /\ NextZero(g)' \in Nat
          /\ zero[f] \cup ZeroComing(f) \subseteq Nat
      BY <2>1, NextFrames, NextFramesAfter, ZeroTimes
    <2>6. \A x \in zero'[f] : x <= time'[f]
      BY <2>2 DEF ZeroOf
    <2>7. ASSUME NEW x \in zero'[f] \cup ZeroComing(f)'
          PROVE  /\ Multiple(DataCycle[f], x) /\ x >= NextTake(f)'
                 /\ pc'[g] # "gone" => x < NextZero(g)'
      <3>1. /\ x \in Nat /\ Multiple(DataCycle[f], x) /\ x >= NextTake(f)
            /\ pc[g] # "gone" => x < NextZero(g)
        BY <2>2, <2>5, <2>7 DEF ZeroOf
      <3>2. pc'[g] # "gone" => x < NextZero(g)'
        BY <2>4, <2>5, <3>1
      <3>3. QED
        BY <2>3, <3>1, <3>2
    <2>8. pc'[g] # "gone" => NextTake(f)' <= NextZero(g)'
      <3>1. pc[g] # "gone" => NextTake(f) <= NextZero(g)
        BY <2>2 DEF ZeroOf
      <3>2. QED
        BY <2>3, <2>4, <2>5, <3>1
    <2>9. zero'[f] \cap ZeroComing(f)' = {}
      BY <2>2 DEF ZeroOf
    <2>10. ZeroOf(f, g)'
      BY <2>6, <2>7, <2>8, <2>9 DEF ZeroOf
    <2>11. QED
      BY <2>10 DEF g
  <1>4. QED
    BY <1>2, <1>3 DEF ZeroInv

\* What the two of a do not change, when it is a step of a.
LEMMA NextSame ==
  ASSUME NEW f \in Federates, Same(f)
  PROVE  NextTake(f)' = NextTake(f) /\ NextZero(f)' = NextZero(f) /\ pc'[f] = pc[f]
  BY DEF Same, NextTake, NextZero, Now

\* A step of a that does not concern its zero-lookahead data.
Going(a) ==
  /\ pc[a] = "gone" => pc'[a] = "gone"
  /\ Source[a] # a /\ pc'[a] # "gone" => NextTake(a)' = NextTake(a)
  /\ a \in Sources /\ pc'[a] # "gone" => NextZero(a)' >= NextZero(a)

\* ... as it is for the others.
LEMMA ZeroOthers ==
  ASSUME Known, NEW a \in Federates, Keeps(a), refused \subseteq refused',
         a \in Sources /\ pc'[a] # "gone" => NextZero(a)' >= NextZero(a),
         pc[a] = "gone" => pc'[a] = "gone",
         NEW f \in Federates \ {a}, ZeroOrigin(f)', ZeroComing(f)' = ZeroComing(f),
         zero'[f] = zero[f]
  PROVE  ZeroInv(f)'
  <1>1. Types' /\ Same(f) /\ time'[f] = time[f]
    BY DEF Keeps, Same
  <1>2. NextTake(f)' = NextTake(f) /\ pc'[f] = pc[f]
    BY <1>1, NextSame
  <1> DEFINE g == Source[f]
  <1>3. g \in Federates /\ (Source[f] # f => g \in Sources)
    BY TimeAssumption DEF Sources
  <1>4. NextZero(g) \in Nat
    BY <1>3, NextFrames
  <1>5. /\ pc[g] = "gone" => pc'[g] = "gone"
        /\ Source[f] # f /\ pc'[g] # "gone" => NextZero(g)' >= NextZero(g)
    <2>1. CASE g = a
      BY <1>3, <2>1
    <2>2. CASE g # a
      <3>1. Same(g)
        BY <1>3, <2>2 DEF Keeps
      <3>2. NextZero(g)' = NextZero(g) /\ pc'[g] = pc[g]
        BY <1>3, <3>1, NextSame
      <3>3. QED
        BY <1>4, <3>2
    <2>3. QED
      BY <2>1, <2>2
  <1>6. QED
    BY <1>1, <1>2, <1>5, ZeroFrame

LEMMA QuietZero ==
  ASSUME Known, NEW a \in Federates, Keeps(a), refused \subseteq refused', Going(a),
         UNCHANGED <<tso, zero, time>>
  PROVE  AllZero'
  <1>1. ASSUME NEW f \in Federates PROVE ZeroInv(f)'
    <2>1. ZeroInv(f) /\ Types'
      BY DEF Known, DataInv, Keeps
    <2>2. ZeroOrigin(f)' /\ ZeroComing(f)' = ZeroComing(f) /\ zero'[f] = zero[f]
      BY <2>1 DEF ZeroInv, ZeroOrigin, ZeroComing
    <2>3. CASE f # a
      BY <2>2, <2>3, ZeroOthers DEF Going
    <2>4. CASE f = a
      <3>1. Source[f] # f => Same(Source[f]) /\ Source[f] \in Federates
        BY <2>4, TimeAssumption DEF Keeps
      <3>2. /\ Source[f] # f => NextZero(Source[f])' >= NextZero(Source[f])
            /\ pc[Source[f]] = "gone" => pc'[Source[f]] = "gone"
        <4>1. CASE Source[f] = f
          BY <2>4, <4>1 DEF Going
        <4>2. CASE Source[f] # f
          BY <3>1, <4>2, NextSame, NextFrames
        <4>3. QED
          BY <4>1, <4>2
      <3>3. QED
        BY <2>1, <2>2, <2>4, <3>2, ZeroFrame DEF Going
    <2>5. QED
      BY <2>3, <2>4
  <1>2. QED
    BY <1>1 DEF AllZero

LEMMA SourcesAreEarly ==
  ASSUME NEW a \in Federates, a \in Sources \/ Source[a] # a
  PROVE  a \notin Late /\ Lookahead[a] = 0 /\ a \in Regulating \cap Constrained
  BY TimeAssumption, Configuration DEF Sources

\* A step that takes a from one place of a frame, or of its setup, to another.
LEMMA GoesOn ==
  ASSUME Known, NEW a \in Federates, UNCHANGED <<sim, offset>>,
         pc'[a] \in {"send", "request"} <=> pc[a] \in {"send", "request"},
         pc[a] \in Frames \ {"zero"} => pc'[a] \in Frames \ {"zero"},
         pc[a] # "gone"
  PROVE  Going(a)
  <1>1. Now(a) \in Nat /\ DataCycle[a] \in Nat \ {0} /\ Now(a)' = Now(a)
    BY NextFrames, Configuration DEF Now
  <1>2. NextTake(a)' = NextTake(a)
    BY <1>1 DEF NextTake
  <1>3. NextZero(a)' >= NextZero(a)
    <2>1. NextZero(a) \in {Now(a), Now(a) + DataCycle[a]}
      BY NextFrames
    <2>2. CASE pc[a] \in Frames \ {"zero"}
      <3>1. NextZero(a)' = NextZero(a) /\ NextZero(a) \in Nat
        BY <1>1, <2>1, <2>2 DEF NextZero
      <3>2. QED
        BY <3>1
    <2>3. CASE pc[a] \notin Frames \ {"zero"}
      <3>1. NextZero(a) = Now(a) + 0
        BY <2>3 DEF NextZero
      <3>2. NextZero(a)' \in {Now(a) + 0, Now(a) + DataCycle[a]}
        BY <1>1 DEF NextZero
      <3>3. QED
        BY <1>1, <3>1, <3>2
    <2>4. QED
      BY <2>2, <2>3
  <1>4. QED
    BY <1>2, <1>3 DEF Going

LEMMA SetupZero ==
  ASSUME Known, NEW a \in Federates, Keeps(a),
         Join(a) \/ SetupConstrained(a) \/ SetupRegulation(a) \/ Align(a) \/ Begin(a)
  PROVE  AllZero'
  <1>1. UNCHANGED <<tso, zero, time, refused>>
    BY DEF Join, SetupConstrained, SetupRegulation, Setup, Align, Begin, dataVars, rtiVars
  <1>2. Inv /\ Local(a)
    BY DEF Known, Inv
  <1>3. Going(a)
    <2>1. CASE Align(a)
      <3>1. a \in Late /\ pc[a] = "align"
        BY <2>1, AlignGoes
      <3>2. QED
        BY <3>1, SourcesAreEarly DEF Going
    <2>2. CASE Begin(a) /\ ~(Source[a] # a \/ a \in Sources)
      BY <2>2 DEF Begin, Goto, Going
    <2>3. CASE Begin(a) /\ (Source[a] # a \/ a \in Sources)
      <3>1. /\ pc[a] = "barrier" /\ pc'[a] \in {"zero", "exchange"}
            /\ UNCHANGED <<sim, offset>>
        BY <1>2, <2>3 DEF Begin, Goto, FirstJob, frameVars, Inv, Types
      <3>2. QED
        BY <3>1, GoesOn DEF Frames, Jobs
    <2>4. CASE Join(a) \/ SetupConstrained(a) \/ SetupRegulation(a)
      <3>1. /\ pc[a] \in {"out", "constrain", "regulate"}
            /\ pc'[a] \in {"constrain", "regulate", "align", "barrier"}
            /\ UNCHANGED <<sim, offset>>
        BY <1>2, <2>4
        DEF Join, SetupConstrained, SetupRegulation, Setup, Goto, frameVars, Inv, Types
      <3>2. QED
        BY <3>1, GoesOn DEF Frames, Jobs
    <2>5. QED
      BY <2>1, <2>2, <2>3, <2>4
  <1>4. QED
    BY <1>1, <1>3, QuietZero

LEMMA RequestsZero ==
  ASSUME Known, NEW a \in Federates, Keeps(a),
         RequestBoundary(a) \/ RequestZero(a) \/ Request(a)
  PROVE  AllZero'
  <1>1. \E k, t : Call(a, k, t)
    BY DEF RequestBoundary, RequestZero, Request
  <1>2. UNCHANGED <<tso, zero, time>> /\ refused \subseteq refused'
    BY <1>1 DEF Call, dataVars
  <1>3. Inv /\ Local(a)
    BY DEF Known, Inv
  <1>4. Going(a)
    <2>1. CASE RequestBoundary(a)
      <3>1. pc[a] = "aligned" /\ a \in Late
        BY <1>3, <2>1, Configuration DEF RequestBoundary, Goto, Local, EarlyInv
      <3>2. QED
        BY <3>1, SourcesAreEarly DEF Going
    <2>2. CASE RequestZero(a)
      <3>1. pc[a] = "exchange" /\ pc'[a] = "exchange" /\ UNCHANGED <<sim, offset>>
        BY <1>3, <2>2 DEF RequestZero, Job, Goto, frameVars, Inv, Types
      <3>2. QED
        BY <3>1, GoesOn
    <2>3. CASE Request(a)
      <3>1. /\ pc[a] = "request" /\ pc'[a] = FirstJob(a) /\ offset'[a] = offset[a]
            /\ sim'[a] = sim[a] + DataCycle[a]
        BY <1>3, <2>3 DEF Request, Goto, Inv, Types
      <3>2. /\ offset[a] \in Nat /\ sim[a] \in Nat /\ DataCycle[a] \in Nat
        BY <1>3, Configuration DEF Inv, Types
      <3>3. Now(a)' = Now(a) + DataCycle[a] /\ Now(a) \in Nat
        BY <3>1, <3>2 DEF Now
      <3>4. NextTake(a) = Now(a) + DataCycle[a] /\ NextZero(a) = Now(a) + DataCycle[a]
        BY <3>1 DEF NextTake, NextZero, Frames
      <3>5. Source[a] # a => NextTake(a)' = NextTake(a)
        <4>1. Source[a] # a => pc'[a] \notin {"send", "request"}
          BY <3>1 DEF FirstJob
        <4>2. Source[a] # a => NextTake(a)' = Now(a)' + 0
          BY <4>1 DEF NextTake
        <4>3. QED
          BY <3>2, <3>3, <3>4, <4>2
      <3>6. a \in Sources => NextZero(a)' >= NextZero(a)
        <4>1. a \in Sources => pc'[a] = "zero"
          BY <3>1 DEF FirstJob
        <4>2. a \in Sources => NextZero(a)' = Now(a)' + 0
          BY <4>1 DEF NextZero
        <4>3. QED
          BY <3>2, <3>3, <3>4, <4>2
      <3>7. QED
        BY <3>1, <3>5, <3>6 DEF Going
    <2>4. QED
      BY <2>1, <2>2, <2>3
  <1>5. QED
    BY <1>2, <1>4, QuietZero

LEMMA CallbacksZero ==
  ASSUME Known, NEW a \in Federates, Keeps(a),
         Return(a) \/ OnEnabled(a) \/ OnGrant(a) \/ EnableConstrained(a)
  PROVE  AllZero'
  <1>1. UNCHANGED <<tso, zero, time, refused, pc, sim, offset>>
    BY DEF Return, OnEnabled, OnGrant, Granted, EnableConstrained, Answer, dataVars, rtiVars,
           frameVars
  <1>2. NextTake(a)' = NextTake(a) /\ NextZero(a)' = NextZero(a) /\ NextZero(a) \in Nat
    BY <1>1, NextFrames DEF NextTake, NextZero, Now
  <1>3. Going(a)
    BY <1>1, <1>2 DEF Going
  <1>4. QED
    BY <1>1, <1>3, QuietZero

\* The cyclic data is not concerned with it.
LEMMA SendsZero ==
  ASSUME Known, NEW a \in Federates, Keeps(a), Send(a) PROVE AllZero'
  <1> DEFINE u == UpdateTime(a)
             m == [from |-> a, time |-> u, zero |-> FALSE]
  <1>1. /\ Update(a, u, Federates, FALSE) /\ DataTypes /\ Inv
        /\ UNCHANGED <<time, refused, offset, sim, zero>>
    BY DEF Send, frameVars, Known
  <1>2. pc[a] = "send" /\ pc'[a] = "request"
    BY <1>1 DEF Send, Job, Goto, Inv, Types
  <1>3. u \in Nat
    BY <1>1, Configuration DEF UpdateTime, Inv, Types
  <1>4. Going(a)
    BY <1>1, <1>2, GoesOn DEF Frames, Jobs
  <1> HIDE DEF u
  <1>5. ASSUME NEW f \in Federates PROVE tso'[f] \in {tso[f], tso[f] \cup {m}}
    <2>1. /\ \A g \in Federates \ {a} : received'[f][g] = received[f][g]
          /\ f # a /\ Has(f, "constrained") /\ Has(a, "regulating") =>
               /\ received'[f][a] = received[f][a]
               /\ \/ u < time[a] + Lookahead[a] /\ tso'[f] = tso[f]
                  \/ /\ ~(u < time[a] + Lookahead[a])
                     /\ tso'[f] = tso[f] \cup {m}
          /\ f = a \/ ~Has(f, "constrained") \/ ~Has(a, "regulating") =>
               /\ tso'[f] = tso[f]
               /\ received'[f][a] \in {u, received[f][a]}
      BY <1>1, <1>3, CyclicEffect
    <2> HIDE DEF m
    <2>2. QED
      BY <2>1
  <1>6. ~m.zero
    OBVIOUS
  <1> HIDE DEF m
  <1>7. ASSUME NEW f \in Federates PROVE ZeroOrigin(f)' /\ ZeroComing(f)' = ZeroComing(f)
    <2>1. tso'[f] \in {tso[f], tso[f] \cup {m}} /\ ZeroInv(f)
      BY <1>5 DEF Known, DataInv
    <2>2. \A x : x.zero => (x \in tso'[f] <=> x \in tso[f])
      BY <1>6, <2>1
    <2>3. {x \in tso'[f] : x.zero} = {x \in tso[f] : x.zero}
      BY <2>2
    <2>4. QED
      BY <2>1, <2>2, <2>3 DEF ZeroInv, ZeroOrigin, ZeroComing
  <1>8. ASSUME NEW f \in Federates \ {a} PROVE ZeroInv(f)'
    BY <1>1, <1>4, <1>7, ZeroOthers DEF Going
  <1>9. ZeroInv(a)'
    <2> DEFINE g == Source[a]
    <2>1. g # a => NextZero(g)' = NextZero(g) /\ NextZero(g) \in Nat /\ pc'[g] = pc[g]
      BY NextSame, NextFrames, TimeAssumption DEF Keeps
    <2>2. /\ pc[g] = "gone" => pc'[g] = "gone"
          /\ g # a => NextZero(g)' >= NextZero(g)
      BY <1>2, <2>1
    <2>3. Types'
      BY DEF Keeps
    <2>4. QED
      BY <1>1, <1>2, <1>4, <1>7, <2>2, <2>3, ZeroFrame DEF Going
  <1>10. QED
    BY <1>8, <1>9 DEF AllZero

LEMMA LeaveZero ==
  ASSUME Known, NEW a \in Federates, Keeps(a), Leave(a) PROVE AllZero'
  <1>1. /\ UNCHANGED <<zero, time, refused>> /\ pc'[a] = "gone"
        /\ \A f \in Federates \ {a} : tso'[f] = tso[f]
        /\ tso'[a] = {}
    BY DEF Leave, dataVars, Known, Inv, Types, DataTypes
  <1>2. ASSUME NEW f \in Federates \ {a} PROVE ZeroInv(f)'
    <2>1. ZeroOrigin(f)' /\ ZeroComing(f)' = ZeroComing(f) /\ zero'[f] = zero[f]
      BY <1>1 DEF ZeroOrigin, ZeroComing, Known, DataInv, ZeroInv
    <2>2. QED
      BY <1>1, <2>1, ZeroOthers
  <1>3. ZeroInv(a)'
    BY <1>1 DEF ZeroInv, ZeroOrigin, Known, DataInv
  <1>4. QED
    BY <1>2, <1>3 DEF AllZero

\* In an advance what is due comes to a, for the frames it has yet to take it for.
LEMMA TakeToZero ==
  ASSUME Known, NEW a \in Federates, Keeps(a), NEW t \in Nat, NEW p, TakeTo(a, t, p),
         t >= time[a], UNCHANGED <<pc, sim, offset, refused>>
  PROVE  AllZero'
  <1>1. /\ Reflect(a, t) /\ DataTypes /\ time'[a] = t /\ ZeroInv(a)
        /\ time[a] \in Nat
    BY DEF TakeTo, Known, Inv, Types, DataInv
  <1>2. /\ \A f \in Federates : NextTake(f)' = NextTake(f)
        /\ \A f \in Federates : NextZero(f)' = NextZero(f) /\ NextZero(f) \in Nat
    BY NextFrames DEF NextTake, NextZero, Now
  <1>3. ASSUME NEW f \in Federates \ {a} PROVE ZeroInv(f)'
    <2>1. tso'[f] = tso[f] /\ zero'[f] = zero[f] /\ ZeroInv(f)
      BY <1>1, ReflectOthers DEF Known, DataInv
    <2>2. ZeroOrigin(f)' /\ ZeroComing(f)' = ZeroComing(f)
      BY <2>1 DEF ZeroInv, ZeroOrigin, ZeroComing
    <2>3. NextZero(a)' >= NextZero(a)
      BY <1>2
    <2>4. QED
      BY <2>1, <2>2, <2>3, ZeroOthers
  <1>4. /\ tso'[a] \subseteq tso[a]
        /\ ZeroComing(a)' = {x \in ZeroComing(a) : x > t}
        /\ zero'[a] = zero[a] \cup {x \in ZeroComing(a) : x <= t}
    BY <1>1, ReflectZero
  <1>5. ZeroOrigin(a)'
    BY <1>1, <1>4 DEF ZeroInv, ZeroOrigin
  <1>6. Source[a] = a => zero'[a] = {}
    <2>1. Source[a] = a => ZeroComing(a) = {}
      BY <1>1 DEF ZeroInv, ZeroOrigin, ZeroComing
    <2>2. QED
      BY <1>1, <1>4, <2>1 DEF ZeroInv
  <1>7. ASSUME ZeroOf(a, Source[a]) PROVE ZeroOf(a, Source[a])'
    <2> DEFINE g == Source[a]
    <2>1. g \in Federates /\ ZeroOf(a, g)
      BY <1>7, TimeAssumption
    <2> HIDE DEF g
    <2>2. zero[a] \cup ZeroComing(a) \subseteq Nat
      BY ZeroTimes
    <2>3. \A x \in zero'[a] : x <= time'[a]
      BY <1>1, <1>4, <2>1, <2>2 DEF ZeroOf
    <2>4. zero'[a] \cap ZeroComing(a)' = {}
      <3>1. \A x \in zero'[a] : x \in Nat /\ x <= t
        BY <1>1, <1>4, <2>2, <2>3
      <3>2. \A x \in ZeroComing(a)' : x > t
        BY <1>4
      <3>3. QED
        BY <3>1, <3>2
    <2>5. zero'[a] \cup ZeroComing(a)' \subseteq zero[a] \cup ZeroComing(a)
      BY <1>4
    <2>6. ZeroOf(a, g)'
      BY <1>2, <2>1, <2>3, <2>4, <2>5 DEF ZeroOf
    <2>7. QED
      BY <2>6 DEF g
  <1>8. ZeroInv(a)'
    BY <1>1, <1>5, <1>6, <1>7 DEF ZeroInv
  <1>9. QED
    BY <1>3, <1>8 DEF AllZero

LEMMA AdvancesZero ==
  ASSUME Known, NEW a \in Federates, Keeps(a), Grant(a) \/ EnableRegulation(a)
  PROVE  AllZero'
  <1>1. CASE Grant(a)
    <2>1. PICK p \in Nat : Advance(a, pending[a].time, p) /\ TakeTo(a, pending[a].time, p)
      BY <1>1, GrantAdvances
    <2>2. Answer(a, Ask("grant", pending[a].time))
      BY <1>1, GrantAdvances
    <2>3. UNCHANGED <<pc, sim, offset, refused>>
      BY <2>2 DEF Answer, frameVars
    <2>4. pending[a].time \in Nat /\ pending[a].time >= time[a]
      BY <2>1 DEF Advance
    <2>5. QED
      BY <2>1, <2>3, <2>4, TakeToZero
  <1>2. CASE EnableRegulation(a)
    <2>1. PICK t \in Nat :
            /\ Answer(a, Ask("regulating", t))
            /\ \/ UNCHANGED <<time, tso, dataVars>>
               \/ TakeTo(a, t, t + 1) /\ Advance(a, t, t + 1)
      BY <1>2, RegulationAdvances
    <2>2. UNCHANGED <<pc, sim, offset, refused>>
      BY <2>1 DEF Answer, frameVars
    <2>3. CASE UNCHANGED <<time, tso, dataVars>>
      <3>1. NextTake(a)' = NextTake(a) /\ NextZero(a)' = NextZero(a) /\ NextZero(a) \in Nat
        BY <2>2, NextFrames DEF NextTake, NextZero, Now
      <3>2. Going(a)
        BY <2>2, <3>1 DEF Going
      <3>3. QED
        BY <2>2, <2>3, <3>2, QuietZero DEF dataVars
    <2>4. CASE TakeTo(a, t, t + 1) /\ Advance(a, t, t + 1)
      BY <2>2, <2>4, TakeToZero DEF Advance
    <2>5. QED
      BY <2>1, <2>3, <2>4
  <1>3. QED
    BY <1>1, <1>2

\* What a sends is of the frame it is in, that none has taken it for.
LEMMA SendZeroZero ==
  ASSUME Known, NEW a \in Federates, Keeps(a), SendZero(a) PROVE AllZero'
  <1> DEFINE t == granted[a]
             m == [from |-> a, time |-> t, zero |-> TRUE]
             set == {g \in Federates : Source[g] = a}
  <1>1. /\ Update(a, t, set, TRUE) /\ DataTypes /\ Inv /\ t \in Nat /\ Types'
        /\ UNCHANGED <<time, refused, offset, sim, zero>>
    BY DEF SendZero, frameVars, Known, Inv, Types, Keeps
  <1>2. pc[a] = "zero" /\ pc'[a] \in {"exchange", "send"} /\ Waited(a)
        /\ (Source[a] # a => pc'[a] = "exchange")
    BY <1>1 DEF SendZero, Job, Goto, Inv, Types
  <1> HIDE DEF t, set
  <1>3. ASSUME NEW f \in Federates
        PROVE  \/ tso'[f] = tso[f]
               \/ f \in set \ {a} /\ tso'[f] = tso[f] \cup {m}
    <2>1. /\ \/ tso'[f] = tso[f]
             \/ f \in set \ {a} /\ tso'[f] = tso[f] \cup {m}
          /\ \A g \in Federates : received'[f][g] = received[f][g]
      BY <1>1, ZeroEffect
    <2>2. QED
      BY <2>1
  <1>4. NextZero(a)' >= NextZero(a) /\ NextZero(a)' = Now(a) + DataCycle[a] /\ NextZero(a) = Now(a)
    <2>1. Now(a)' = Now(a) /\ Now(a) \in Nat /\ DataCycle[a] \in Nat
      BY <1>1, NextFrames, Configuration DEF Now
    <2>2. NextZero(a) = Now(a) + 0 /\ NextZero(a)' = Now(a)' + DataCycle[a]
      BY <1>2 DEF NextZero, Frames, Jobs
    <2>3. QED
      BY <2>1, <2>2
  <1>5. ASSUME NEW f \in Federates, tso'[f] = tso[f] PROVE ZeroInv(f)'
    <2>1. ZeroOrigin(f)' /\ ZeroComing(f)' = ZeroComing(f)
      BY <1>5 DEF ZeroOrigin, ZeroComing, Known, DataInv, ZeroInv
    <2>2. CASE f # a
      BY <1>1, <1>2, <1>4, <2>1, <2>2, ZeroOthers
    <2>3. CASE f = a
      <3>1. Source[a] # a => NextTake(a)' = NextTake(a)
        BY <1>1, <1>2 DEF NextTake, Now
      <3> DEFINE g == Source[a]
      <3>2. g # a => NextZero(g)' = NextZero(g) /\ NextZero(g) \in Nat /\ pc'[g] = pc[g]
        BY NextSame, NextFrames, TimeAssumption DEF Keeps
      <3>3. /\ pc[g] = "gone" => pc'[g] = "gone"
            /\ g # a => NextZero(g)' >= NextZero(g)
        BY <1>2, <3>2
      <3>4. QED
        BY <1>1, <1>2, <2>1, <2>3, <3>1, <3>3, ZeroFrame
    <2>4. QED
      BY <2>2, <2>3
  <1>6. ASSUME NEW f \in Federates \ {a}, Source[f] = a, tso'[f] = tso[f] \cup {m}
        PROVE  ZeroInv(f)'
    <2>1. Same(f) /\ ZeroInv(f) /\ time'[f] = time[f] /\ NextTake(f)' = NextTake(f)
          /\ pc'[f] = pc[f]
      BY NextSame DEF Keeps, Known, DataInv, Same
    <2>2. m.time = t /\ m.zero /\ m.from = a
      OBVIOUS
    <2> HIDE DEF m
    <2>3. ZeroOrigin(f)'
      BY <1>6, <2>1, <2>2 DEF ZeroInv, ZeroOrigin
    <2>4. ZeroComing(f)' = ZeroComing(f) \cup {t}
      <3>1. {x \in tso'[f] : x.zero} = {x \in tso[f] : x.zero} \cup {m}
        BY <1>6, <2>2
      <3>2. QED
        BY <2>2, <3>1 DEF ZeroComing
    <2>5. ASSUME {f, a} \cap refused' = {}, pc'[f] # "gone" PROVE ZeroOf(f, a)'
      <3>1. ZeroOf(f, a)
        BY <1>1, <1>6, <2>1, <2>5 DEF ZeroInv
      <3>2. t = Now(a)
        BY <1>1, <1>2, <2>5, FrameOver DEF Frames, Jobs, t
      <3>3. /\ DataCycle[f] = DataCycle[a] /\ DataCycle[a] \in Nat \ {0}
            /\ Now(a) \in Nat /\ Multiple(DataCycle[a], Now(a)) /\ NextTake(f) \in Nat
            /\ zero[f] \cup ZeroComing(f) \subseteq Nat
        BY <1>6, NextFrames, ZeroTimes, Configuration DEF Known, DataAssumption, SameCycle
      <3>4. /\ \A x \in zero[f] \cup ZeroComing(f) :
                 Multiple(DataCycle[f], x) /\ x >= NextTake(f) /\ x < Now(a)
            /\ NextTake(f) <= Now(a)
        BY <1>2, <1>4, <3>1 DEF ZeroOf
      <3>5. /\ \A x \in zero[f] \cup ZeroComing(f) \cup {t} :
                 /\ Multiple(DataCycle[f], x) /\ x >= NextTake(f)
                 /\ x < Now(a) + DataCycle[a]
            /\ NextTake(f) <= Now(a) + DataCycle[a]
        BY <3>2, <3>3, <3>4
      <3>6. t \notin zero[f]
        BY <3>2, <3>3, <3>4
      <3>7. zero'[f] \cap ZeroComing(f)' = {}
        BY <1>1, <2>4, <3>1, <3>6 DEF ZeroOf
      <3>8. QED
        BY <1>1, <1>4, <2>1, <2>4, <3>1, <3>5, <3>7 DEF ZeroOf
    <2>6. QED
      BY <1>6, <2>3, <2>5 DEF ZeroInv
  <1>7. ASSUME NEW f \in Federates PROVE ZeroInv(f)'
    BY <1>3, <1>5, <1>6 DEF set
  <1>8. QED
    BY <1>7 DEF AllZero

\* What a takes is of its frame, and all there is of it.
LEMMA TakeZeroZero ==
  ASSUME Known, NEW a \in Federates, Keeps(a), TakeZero(a) PROVE AllZero'
  <1>1. /\ UNCHANGED <<tso, time, refused, offset, sim>> /\ Inv /\ DataTypes /\ Types'
        /\ zero'[a] = zero[a] \ {Min(zero[a])} /\ zero[a] # {} /\ Waited(a)
        /\ \A f \in Federates \ {a} : zero'[f] = zero[f]
        /\ pc[a] = "exchange" /\ pc'[a] = "send"
    BY DEF TakeZero, Job, Goto, rtiVars, frameVars, Known, Inv, Types, DataTypes, Keeps
  <1>2. \A f \in Federates : ZeroOrigin(f)' /\ ZeroComing(f)' = ZeroComing(f)
    BY <1>1 DEF ZeroOrigin, ZeroComing, Known, DataInv, ZeroInv
  <1>3. NextZero(a)' = NextZero(a) /\ NextZero(a) \in Nat
    BY <1>1, NextFrames DEF NextZero, Now, Frames, Jobs
  <1>4. ASSUME NEW f \in Federates \ {a} PROVE ZeroInv(f)'
    <2>1. NextZero(a)' >= NextZero(a)
      BY <1>3
    <2>2. QED
      BY <1>1, <1>2, <2>1, ZeroOthers
  <1>5. ZeroInv(a) /\ Source[a] # a
    BY <1>1 DEF Known, DataInv, Own, ClockInv, ZeroInv
  <1>6. ASSUME {a, Source[a]} \cap refused = {} PROVE ZeroOf(a, Source[a])'
    <2> DEFINE g == Source[a]
               n == Now(a)
               c == DataCycle[a]
    <2>1. g \in Federates /\ DataCycle[g] = c /\ g # a
      BY <1>5, TimeAssumption DEF Known, DataAssumption, SameCycle
    <2>2. ZeroOf(a, g)
      BY <1>1, <1>5, <1>6 DEF ZeroInv
    <2>3. time[a] = n
      BY <1>1, <1>6, FrameOver DEF Frames, Jobs
    <2>4. NextZero(g) \in Nat /\ Multiple(c, NextZero(g)) /\ n \in Nat /\ Multiple(c, n)
          /\ c \in Nat \ {0}
      BY <2>1, NextFrames, Configuration
    <2>5. NextZero(g)' = NextZero(g) /\ pc'[g] = pc[g]
      BY <2>1, NextSame DEF Keeps
    <2>6. NextTake(a) = n /\ NextTake(a)' = n + c
      <3>1. NextTake(a) = n + 0 /\ Now(a)' = n
        BY <1>1 DEF NextTake, Now
      <3>2. NextTake(a)' = Now(a)' + c
        BY <1>1 DEF NextTake
      <3>3. QED
        BY <2>4, <3>1, <3>2
    <2> HIDE DEF g, n, c
    <2>7. zero[a] \cup ZeroComing(a) \subseteq Nat
      BY ZeroTimes
    <2>8. \A x \in zero[a] \cup ZeroComing(a) :
            Multiple(c, x) /\ x >= n /\ (pc[g] # "gone" => x < NextZero(g))
      BY <2>2, <2>6 DEF ZeroOf, c
    <2>9. zero[a] = {n}
      <3>1. \A x \in zero[a] : x <= n
        BY <2>2, <2>3 DEF ZeroOf
      <3>2. QED
        BY <1>1, <2>4, <2>7, <2>8, <3>1
    <2>10. zero'[a] = {}
      <3>1. Min({n}) = n
        BY <2>4 DEF Min
      <3>2. QED
        BY <1>1, <2>9, <3>1
    <2>11. \A x \in ZeroComing(a) : x >= n + c
      <3>1. \A x \in ZeroComing(a) : x # n
        BY <2>2, <2>9 DEF ZeroOf
      <3>2. \A x \in ZeroComing(a) : x \in Nat /\ Multiple(c, x) /\ n < x
        BY <2>4, <2>7, <2>8, <3>1
      <3>3. \A x \in ZeroComing(a) : n + c <= x
        BY <2>4, <3>2, MultipleGap
      <3>4. QED
        BY <2>4, <3>2, <3>3
    <2>12. pc[g] # "gone" => n + c <= NextZero(g)
      <3>1. pc[g] # "gone" => n < NextZero(g)
        BY <2>8, <2>9
      <3>2. QED
        BY <2>4, <3>1, MultipleGap
    <2>13. ZeroOf(a, g)'
      BY <1>2, <2>5, <2>6, <2>8, <2>10, <2>11, <2>12 DEF ZeroOf, c
    <2>14. QED
      BY <2>13 DEF g
  <1>7. ZeroInv(a)'
    BY <1>1, <1>2, <1>5, <1>6 DEF ZeroInv
  <1>8. QED
    BY <1>4, <1>7 DEF AllZero

LEMMA ZeroStep ==
  ASSUME Known, NEW f \in Federates, Keeps(f),
         Main(f) \/ Rti(f) \/ Ambassador(f) \/ Leave(f)
  PROVE  AllZero'
  BY SetupZero, RequestsZero, CallbacksZero, SendsZero, LeaveZero, AdvancesZero,
     SendZeroZero, TakeZeroZero
  DEF Main, Rti, Ambassador

-----------------------------------------------------------------------------
(* The invariant.                                                          *)

LEMMA InitData == Init => DataInv
  <1> SUFFICES ASSUME Init PROVE DataInv
    OBVIOUS
  <1> USE DEF Init, All
  <1>1. ASSUME NEW f \in Federates PROVE Own(f)
    <2>1. /\ pc[f] = "out" /\ pending[f].kind = "none" /\ answer[f].kind = "none"
          /\ enabled[f] = {} /\ time[f] = 0 /\ floor[f] = 0 /\ sim[f] = 0 /\ offset[f] = 0
      BY DEF Nothing
    <2>2. Multiple(DataCycle[f], 0) /\ Multiple(LCTS, 0)
      BY MultipleItself, Configuration
    <2>3. ClockInv(f)
      BY <2>1, <2>2 DEF ClockInv, Requests
    <2>4. EnabledInv(f) /\ PaceInv(f)
      BY <2>1 DEF EnabledInv, Never, PaceInv, Setting, Frames, Jobs
    <2>5. QED
      BY <2>3, <2>4 DEF Own
  <1>2. ASSUME NEW f \in Federates PROVE ZeroInv(f)
    <2>1. tso[f] = {} /\ zero[f] = {} /\ \A g \in Federates : pc[g] = "out" /\ Now(g) = 0
      BY DEF Now
    <2>2. ZeroComing(f) = {} /\ ZeroOrigin(f)
      BY <2>1 DEF ZeroComing, ZeroOrigin
    <2>3. \A g \in Federates : NextTake(g) = 0 /\ NextZero(g) = 0
      BY <2>1 DEF NextTake, NextZero, Frames, Jobs
    <2>4. Source[f] \in Federates
      BY TimeAssumption
    <2>5. ZeroOf(f, Source[f])
      BY <2>1, <2>2, <2>3, <2>4 DEF ZeroOf
    <2>6. QED
      BY <2>1, <2>2, <2>5 DEF ZeroInv
  <1>3. ASSUME NEW f \in Federates, NEW g \in Federates \ {f}
        PROVE  Promise(f, g) /\ CyclicInv(f, g)
    <2>1. ~Has(f, "constrained")
      BY DEF Has, Member
    <2>2. Coming(f, g) = {} /\ received[f][g] = 0
      BY DEF Coming
    <2>3. QED
      BY <2>1, <2>2 DEF Promise, CyclicInv, SentInv, AheadInv, DueInv, Listens
  <1>4. QED
    BY <1>1, <1>2, <1>3 DEF DataInv

\* What was refused once stays so.
LEMMA RefusedStays ==
  ASSUME NEW f \in Federates, Main(f) \/ Rti(f) \/ Ambassador(f) \/ Leave(f)
  PROVE  refused \subseteq refused'
  <1>1. CASE RequestBoundary(f) \/ RequestZero(f) \/ Request(f)
    <2>1. \E k, t : Call(f, k, t)
      BY <1>1 DEF RequestBoundary, RequestZero, Request
    <2>2. QED
      BY <2>1 DEF Call
  <1>2. CASE ~(RequestBoundary(f) \/ RequestZero(f) \/ Request(f))
    BY <1>2
    DEF Main, Rti, Ambassador, Join, SetupConstrained, SetupRegulation, Setup, Align, Begin,
        SendZero, TakeZero, Send, Return, EnableConstrained, EnableRegulation, Grant, Answer,
        OnEnabled, OnGrant, Granted, Leave
  <1>3. QED
    BY <1>1, <1>2

\* What is left when the step of f, which is seen to above, keeps all the rest.
LEMMA DataInvOthers ==
  ASSUME Known, NEW f \in Federates, Keeps(f), refused \subseteq refused',
         Own(f)', PromisesKept(f), AllCyclic', AllZero'
  PROVE  DataInv'
  <1>1. ASSUME NEW g \in Federates PROVE Own(g)'
    <2>1. CASE g # f
      BY <2>1, OwnSame DEF Known, DataInv, Keeps
    <2>2. QED
      BY <2>1
  <1>2. ASSUME NEW g \in Federates, NEW h \in Federates \ {g} PROVE Promise(g, h)'
    <2>1. CASE g = f \/ h = f
      BY <2>1 DEF PromisesKept
    <2>2. CASE g # f /\ h # f
      <3>1. Same(g) /\ Same(h) /\ Promise(g, h)
        BY <2>2 DEF Keeps, Known, DataInv
      <3>2. QED
        BY <3>1, SameBound DEF Promise, Same, Enables
    <2>3. QED
      BY <2>1, <2>2
  <1>3. QED
    BY <1>1, <1>2 DEF DataInv, AllCyclic, AllZero

LEMMA DataInvStep == ASSUME Known, [Next]_vars PROVE DataInv'
  <1>1. ASSUME NEW f \in Federates, Main(f) \/ Rti(f) \/ Ambassador(f) \/ Leave(f)
        PROVE  DataInv'
    <2>1. Keeps(f)
      BY <1>1, StepKeeps DEF Known
    <2>2. QED
      BY <1>1, <2>1, OwnStep, PromiseStep, CyclicStep, ZeroStep, RefusedStays, DataInvOthers
  <1>2. ASSUME UNCHANGED vars, NEW f \in Federates PROVE DataInv'
    <2> USE DEF vars, frameVars, stateVars, dataVars, rtiVars
    <2>1. \A g \in Federates : Same(g)
      BY <1>2 DEF Same
    <2>2. Inv'
      BY <1>2, StepInv DEF Known
    <2>3. Keeps(f)
      <3>1. Types' /\ Local(f)'
        BY <2>2 DEF Inv
      <3>2. SetUp(f)' <=> SetUp(f)
        BY <1>2 DEF SetUp, Enabled
      <3>3. Stays(f)
        BY <1>2 DEF Stays
      <3>4. QED
        BY <2>1, <3>1, <3>2, <3>3 DEF Keeps
    <2>4. refused \subseteq refused'
      BY <1>2
    <2>5. Own(f)'
      BY <2>1, <2>4, OwnSame DEF Known, DataInv
    <2>6. PromisesKept(f)
      <3>1. \A k \in Enables : Has(f, k)' => Has(f, k)
        BY <1>2 DEF Has, Member
      <3>2. QED
        BY <1>2, <2>3, <3>1, QuietPromises
    <2>7. AllCyclic'
      <3>1. SentKept(f)
        BY <1>2, <2>4, SentSame
      <3>2. ListenKept(f)
        BY <1>2, ListenSame DEF Has, Member
      <3>3. QED
        BY <1>2, <2>3, <2>4, <3>1, <3>2, QuietCyclic
    <2>8. AllZero'
      <3>1. NextTake(f)' = NextTake(f) /\ NextZero(f)' = NextZero(f) /\ NextZero(f) \in Nat
        BY <1>2, NextFrames DEF NextTake, NextZero, Now
      <3>2. Going(f)
        BY <1>2, <3>1 DEF Going
      <3>3. QED
        BY <1>2, <2>3, <2>4, <3>2, QuietZero
    <2>9. QED
      BY <2>3, <2>4, <2>5, <2>6, <2>7, <2>8, DataInvOthers
  <1>3. Federates = {} => DataInv'
    BY DEF DataInv
  <1>4. QED
    BY <1>1, <1>2, <1>3 DEF Next

-----------------------------------------------------------------------------
(* What it says of a frame.                                                *)

\* LastData is the greatest of the timestamps there can be.
LEMMA LastIsGreatest ==
  ASSUME Known, NEW g \in Federates, NEW t \in Nat
  PROVE  /\ LastData(g, t) \in Nat
         /\ pc[g] \in Frames /\ t >= offset[g] + DataCycle[g] =>
              /\ Multiple(DataCycle[g], LastData(g, t)) /\ LastData(g, t) <= t
              /\ t < LastData(g, t) + DataCycle[g] /\ LastData(g, t) > offset[g]
         /\ ~(pc[g] \in Frames /\ t >= offset[g] + DataCycle[g]) => LastData(g, t) = 0
  <1> DEFINE c == DataCycle[g]
             o == offset[g]
             w == ((t - o) \div c) * c
  <1>1. /\ o \in Nat /\ c \in Nat \ {0} /\ Multiple(c, o)
    BY Configuration, TimeAssumption, MultipleTrans
    DEF Known, Inv, Types, Multiple, DataInv, Own, ClockInv
  <1>2. pc[g] \in Frames <=> OnTimeline(g)
    BY DEF OnTimeline, Frames
  <1>3. CASE pc[g] \in Frames /\ t >= o + c
    <2>1. t - o \in Nat /\ t - o >= c
      BY <1>1, <1>3
    <2> HIDE DEF c, o
    <2>2. /\ w \in Nat /\ Multiple(c, w) /\ w <= t - o /\ t - o < w + c
      BY <1>1, <2>1, Whole
    <2> HIDE DEF w
    <2>3. w > 0
      BY <1>1, <2>1, <2>2
    <2>4. LastData(g, t) = o + w
      BY <1>2, <1>3 DEF LastData, o, c, w
    <2>5. Multiple(c, o + w)
      BY <1>1, <2>2, MultiplePlus
    <2>6. o + w \in Nat /\ o + w <= t /\ t < (o + w) + c /\ o + w > o
      BY <1>1, <2>1, <2>2, <2>3
    <2>7. QED
      BY <1>3, <2>4, <2>5, <2>6 DEF o, c
  <1>4. CASE ~(pc[g] \in Frames /\ t >= o + c)
    BY <1>2, <1>4 DEF LastData
  <1>5. QED
    BY <1>3, <1>4

\* It is no less than what has been sent up to the time.
LEMMA SentIsLast ==
  ASSUME Known, NEW g \in Federates, Staying(g), NEW t \in Nat, NEW x \in Sent(g), x <= t
  PROVE  x <= LastData(g, t) /\ LastData(g, t) <= t
  <1> DEFINE c == DataCycle[g]
             u == LastData(g, t)
  <1>1. x \in Nat /\ Multiple(c, x) /\ pc[g] \in Frames
    BY SentInTime
  <1>2. c \in Nat \ {0} /\ offset[g] \in Nat /\ Multiple(c, offset[g])
    BY Configuration, TimeAssumption, MultipleTrans
    DEF Known, Inv, Types, Multiple, DataInv, Own, ClockInv
  <1>3. offset[g] < x
    <2>1. x \in (offset[g] + 1)..SentUpTo(g)
      BY DEF Sent
    <2>2. QED
      BY <1>1, <1>2, <2>1
  <1> HIDE DEF c
  <1>4. offset[g] + c <= x
    BY <1>1, <1>2, <1>3, MultipleGap
  <1>5. t >= offset[g] + c
    BY <1>1, <1>2, <1>4
  <1>6. u \in Nat /\ Multiple(c, u) /\ u <= t /\ t < u + c
    BY <1>1, <1>5, LastIsGreatest DEF c
  <1> HIDE DEF u
  <1>7. ~(u < x)
    <2>1. u < x => u + c <= x
      BY <1>1, <1>2, <1>6, MultipleGap
    <2>2. QED
      BY <1>1, <1>2, <1>6, <2>1
  <1>8. x <= u /\ u <= t
    BY <1>1, <1>6, <1>7
  <1>9. QED
    BY <1>8 DEF u

\* Up to the end of the frame of g it has been sent.
LEMMA LastIsSent ==
  ASSUME Known, NEW g \in Federates, NEW t \in Nat,
         pc[g] \in Frames => t < Now(g) + DataCycle[g]
  PROVE  LastData(g, t) = 0 \/ LastData(g, t) \in Sent(g)
  <1> DEFINE c == DataCycle[g]
             u == LastData(g, t)
  <1>1. CASE ~(pc[g] \in Frames /\ t >= offset[g] + c)
    BY <1>1, LastIsGreatest
  <1>2. CASE pc[g] \in Frames /\ t >= offset[g] + c
    <2>1. u \in Nat /\ Multiple(c, u) /\ u <= t /\ u > offset[g]
      BY <1>2, LastIsGreatest
    <2>2. /\ c \in Nat \ {0} /\ offset[g] \in Nat /\ Now(g) \in Nat /\ Multiple(c, Now(g))
          /\ t < Now(g) + c
      BY <1>2, Configuration, NextFrames DEF Known, Inv, Types
    <2>3. Sent(g) = {x \in (offset[g] + 1)..SentUpTo(g) : Multiple(c, x)}
      BY <1>2 DEF Sent
    <2>4. SentUpTo(g) \in {Now(g) + 0, Now(g) + c}
      BY DEF SentUpTo
    <2> HIDE DEF c, u
    <2>5. Now(g) < u => Now(g) + c <= u
      BY <2>1, <2>2, MultipleGap
    <2>6. u <= Now(g)
      BY <2>1, <2>2, <2>5
    <2>7. u \in (offset[g] + 1)..SentUpTo(g)
      BY <2>1, <2>2, <2>4, <2>6
    <2>8. QED
      BY <2>1, <2>3, <2>7 DEF u
  <1>3. QED
    BY <1>1, <1>2

\* When f has got what was due by t, and nothing later, it has the data by t.
LEMMA HasWhatIsDue ==
  ASSUME Known, NEW f \in Federates, NEW g \in Federates \ {f}, NEW t \in Nat,
         Listens(f), g \in Regulating, Staying(g), received[f][g] <= t,
         \A x \in Coming(f, g) : x > t,
         pc[g] \in Frames => t < Now(g) + DataCycle[g]
  PROVE  HasData(f, g, t)
  <1> DEFINE u == LastData(g, t)
             r == received[f][g]
  <1>1. CyclicInv(f, g) /\ r \in Nat /\ u \in Nat /\ offset[f] \in Nat
    BY LastIsGreatest DEF Known, DataInv, DataTypes, Inv, Types
  <1>2. r = 0 \/ r \in Sent(g)
    BY <1>1 DEF CyclicInv, SentInv
  <1>3. \A x \in Sent(g) : (f \in Late => x > offset[f]) => x <= r \/ x \in Coming(f, g)
    BY <1>1 DEF CyclicInv, DueInv
  <1>4. r <= u
    BY <1>1, <1>2, SentIsLast
  <1>5. u = 0 \/ u \in Sent(g)
    BY LastIsSent
  <1>6. CASE u = 0
    BY <1>1, <1>4, <1>6 DEF HasData
  <1>7. CASE u \in Sent(g)
    <2>1. u <= t
      <3>1. u > 0
        <4>1. u \in (offset[g] + 1)..SentUpTo(g) /\ offset[g] \in Nat
          BY <1>7 DEF Sent, Known, Inv, Types
        <4> HIDE DEF u
        <4>2. QED
          BY <1>1, <4>1
      <3>2. QED
        BY <3>1, LastIsGreatest
    <2>2. u \notin Coming(f, g)
      <3> HIDE DEF u
      <3>1. QED
        BY <1>1, <2>1
    <2> HIDE DEF u, r
    <2>3. CASE f \in Late /\ ~(u > offset[f])
      BY <1>1, <1>4, <2>3 DEF HasData, u, r
    <2>4. CASE ~(f \in Late /\ ~(u > offset[f]))
      <3>1. u <= r
        BY <1>3, <1>7, <2>2, <2>4
      <3>2. u = r
        BY <1>1, <1>4, <3>1
      <3>3. QED
        BY <3>2 DEF HasData, u, r
    <2>5. QED
      BY <2>3, <2>4
  <1>8. QED
    BY <1>5, <1>6, <1>7

\* A regulating federate promises no more than its frame and its lookahead.
LEMMA BoundOfFrame ==
  ASSUME Known, NEW g \in Federates, pc[g] \in Frames, g \notin refused
  PROVE  Bound(g) <= Lookahead[g] + Now(g)
  <1>1. Own(g) /\ Local(g) /\ LookaheadIsStep
    BY DEF Known, DataInv, Inv, DataAssumption
  <1>2. requested[g] = Now(g) /\ time[g] <= requested[g]
    BY <1>1 DEF Own, PaceInv, Local, FrameInv, Now
  <1>3. pending[g].kind \in Requests => pending[g].time = requested[g]
    BY <1>1 DEF Local, OneAtATime
  <1>4. Lookahead[g] \in Nat /\ time[g] \in Nat /\ Now(g) \in Nat
    BY NextFrames, Configuration DEF Known, Inv, Types
  <1>5. QED
    BY <1>2, <1>3, <1>4 DEF Bound

LEMMA CyclicDataThere ==
  ASSUME Known, NEW f \in Federates, NEW g \in Federates PROVE CyclicData(f, g)
  <1> SUFFICES ASSUME f # g, InFrame(f), adv[f] = "GRANTED", Has(f, "constrained"),
                      Has(g, "regulating"), {f, g} \cap refused = {}
               PROVE  \/ HasData(f, g, Now(f))
                      \/ /\ Lookahead[f] = 0 /\ Lookahead[g] > 0
                         /\ HasData(f, g, Now(f) - 1)
    BY DEF CyclicData
  <1> DEFINE t == Now(f)
             r == received[f][g]
             c == DataCycle[g]
  <1>1. pc[f] \in Frames /\ Listens(f) /\ time[f] = t
    <2>1. pc[f] \in Frames /\ Waited(f)
      BY DEF InFrame, Frames
    <2>2. QED
      BY <2>1, FrameOver DEF Listens
  <1>2. Own(f) /\ Own(g) /\ CyclicInv(f, g) /\ Promise(f, g) /\ Inv /\ DataTypes
    BY DEF Known, DataInv
  <1>3. g \in Regulating /\ Staying(g)
    BY <1>2 DEF Own, EnabledInv, Never, Has, Member, Staying
  <1>4. /\ t \in Nat /\ r \in Nat /\ c \in Nat \ {0} /\ Lookahead[g] \in Nat
        /\ Lookahead[f] \in Nat /\ offset[f] \in Nat /\ offset[f] <= t /\ floor[f] \in Nat
        /\ Lookahead[g] \in {0, c} /\ Now(g) \in Nat /\ offset[g] \in Nat
        /\ Coming(f, g) \subseteq Nat
    <2>1. t \in Nat /\ Now(g) \in Nat /\ offset[f] \in Nat /\ sim[f] \in Nat
      BY <1>2, NextFrames DEF Inv, Types
    <2>2. offset[f] <= t
      BY <2>1 DEF Now
    <2>3. Coming(f, g) \subseteq Nat
      BY <1>2 DEF Coming, DataTypes, Messages
    <2>4. QED
      BY <1>2, <2>1, <2>2, <2>3, Configuration
      DEF Inv, Types, DataTypes, Known, DataAssumption, LookaheadIsStep
  <1>5. r <= t
    BY <1>1, <1>2, <1>3, <1>4 DEF CyclicInv, DueInv
  <1>6. \A x \in Coming(f, g) : x > t \/ (Lookahead[f] = 0 /\ Lookahead[g] > 0 /\ x = t)
    BY <1>1, <1>2, <1>3 DEF CyclicInv, AheadInv, Staying
  <1>7. floor[f] <= Bound(g) /\ t <= floor[f] /\ (Lookahead[f] > 0 /\ t > 0 => floor[f] > t)
    BY <1>1, <1>2 DEF Promise, Own, ClockInv
  <1>8. pc[g] \in Frames => Bound(g) <= Lookahead[g] + Now(g)
    BY BoundOfFrame
  <1>9. Bound(g) \in Nat
    BY <1>2, BoundIsNat
  <1> HIDE DEF t, r, c
  <1>10. CASE Lookahead[g] = 0 \/ (Lookahead[f] > 0 /\ t > 0)
    <2>1. pc[g] \in Frames => t < Now(g) + c
      BY <1>4, <1>7, <1>8, <1>9, <1>10
    <2>2. \A x \in Coming(f, g) : x > t
      BY <1>4, <1>6, <1>10
    <2>3. HasData(f, g, t)
      BY <1>1, <1>3, <1>4, <1>5, <2>1, <2>2, HasWhatIsDue DEF c, r
    <2>4. QED
      BY <2>3 DEF t
  <1>11. CASE t = 0
    <2>1. pc[g] \in Frames => ~(t >= offset[g] + c)
      BY <1>4, <1>11
    <2>2. LastData(g, t) = 0
      BY <1>4, <2>1, LastIsGreatest DEF c
    <2>3. r = LastData(g, t)
      BY <1>4, <1>5, <1>11, <2>2
    <2>4. QED
      BY <2>3 DEF HasData, t, r
  <1>12. CASE Lookahead[g] > 0 /\ Lookahead[f] = 0 /\ t > 0
    <2>1. CASE r = t
      <3>1. r \in Sent(g)
        BY <1>2, <1>3, <1>4, <1>12, <2>1 DEF CyclicInv, SentInv, r
      <3>2. r <= LastData(g, t) /\ LastData(g, t) <= t
        BY <1>3, <1>4, <1>5, <3>1, SentIsLast
      <3>3. LastData(g, t) \in Nat
        BY <1>4, LastIsGreatest
      <3>4. r = LastData(g, t)
        BY <1>4, <2>1, <3>2, <3>3
      <3>5. QED
        BY <3>4 DEF HasData, t, r
    <2>2. CASE r # t
      <3>1. t - 1 \in Nat /\ r <= t - 1
        BY <1>4, <1>5, <1>12, <2>2
      <3>2. pc[g] \in Frames => t - 1 < Now(g) + c
        BY <1>4, <1>7, <1>8, <1>9
      <3>3. \A x \in Coming(f, g) : x > t - 1
        BY <1>4, <1>6
      <3>4. HasData(f, g, t - 1)
        BY <1>1, <1>3, <3>1, <3>2, <3>3, HasWhatIsDue DEF c, r
      <3>5. QED
        BY <1>12, <3>4 DEF t
    <2>3. QED
      BY <2>1, <2>2
  <1>13. QED
    BY <1>4, <1>10, <1>11, <1>12

LEMMA ZeroDataThere ==
  ASSUME Known, NEW f \in Federates PROVE ZeroData(f)
  <1> SUFFICES ASSUME Waited(f), adv[f] = "GRANTED", {f, Source[f]} \cap refused = {}
               PROVE  /\ pc[f] = "exchange" => zero[f] \subseteq {Now(f)}
                      /\ pc[f] \in {"send", "request"} => zero[f] = {}
    BY DEF ZeroData
  <1>1. ZeroInv(f) /\ Own(f)
    BY DEF Known, DataInv
  <1>2. zero[f] \subseteq Nat /\ Now(f) \in Nat /\ DataCycle[f] \in Nat \ {0}
    BY ZeroTimes, NextFrames, Configuration
  <1>3. pc[f] \in {"exchange", "send", "request"} => time[f] = Now(f)
    BY FrameOver DEF Frames, Jobs
  <1>4. Source[f] # f /\ pc[f] \in {"exchange", "send", "request"} =>
          \A x \in zero[f] : x <= Now(f) /\ x >= NextTake(f)
    BY <1>1, <1>3 DEF ZeroInv, ZeroOf
  <1>5. ASSUME pc[f] = "exchange" PROVE zero[f] \subseteq {Now(f)}
    <2>1. Source[f] # f
      BY <1>1, <1>5 DEF Own, ClockInv
    <2>2. NextTake(f) = Now(f)
      BY <1>2, <1>5 DEF NextTake
    <2>3. QED
      BY <1>2, <1>4, <1>5, <2>1, <2>2
  <1>6. ASSUME pc[f] \in {"send", "request"} PROVE zero[f] = {}
    <2>1. CASE Source[f] = f
      BY <1>1, <2>1 DEF ZeroInv
    <2>2. CASE Source[f] # f
      <3>1. NextTake(f) = Now(f) + DataCycle[f]
        BY <1>6 DEF NextTake
      <3>2. \A x \in zero[f] : x \in Nat /\ x <= Now(f) /\ x >= Now(f) + DataCycle[f]
        BY <1>2, <1>4, <1>6, <2>2, <3>1
      <3>3. QED
        BY <1>2, <3>2
    <2>3. QED
      BY <2>1, <2>2
  <1>7. QED
    BY <1>5, <1>6

\* A frame is computed with the data of its time, of either kind, if every lookahead
\* is zero or the data cycle, a source has the data cycle of those that wait for it,
\* and with late joiners all that regulate are constrained and one of them stays.
THEOREM FramesHaveTheirData ==
  ASSUME DataAssumption PROVE Spec => []DataOfFrame
  <1>1. Init => Inv /\ DataTypes /\ DataInv
    BY InitInv, InitData DEF Init, All, DataTypes
  <1>2. Inv /\ DataTypes /\ DataInv /\ [Next]_vars => (Inv /\ DataTypes /\ DataInv)'
    BY StepInv, DataStep, DataInvStep DEF Known
  <1>3. Inv /\ DataTypes /\ DataInv => DataOfFrame
    BY CyclicDataThere, ZeroDataThere DEF Known, DataOfFrame
  <1>4. QED
    BY <1>1, <1>2, <1>3, PTL DEF Spec
=============================================================================
