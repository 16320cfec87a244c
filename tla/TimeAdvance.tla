----------------------------- MODULE TimeAdvance -----------------------------
(***************************************************************************)
(* How TrickHLA federates advance HLA logical time, frame by frame, and    *)
(* what data they have in a frame (TimeManagementServices, and the jobs of *)
(* THLABase.sm that use it).                                               *)
(*                                                                         *)
(* A federate becomes time constrained, then time regulating; a late       *)
(* joiner asks to be taken to a common boundary of the federation.  Then,  *)
(* in every data cycle, the main thread waits for the time advance grant,  *)
(* exchanges zero-lookahead data, sends the cyclic data of the frame with  *)
(* the timestamp of the next one, and requests the next time.  Grants come *)
(* by a callback on another thread; time_adv_state_mutex is held over a    *)
(* request and the assignment that follows it (calling[f]).                *)
(*                                                                         *)
(* The RTI's time management is external: it is modelled from the calls    *)
(* TrickHLA makes and the callbacks it handles.                            *)
(***************************************************************************)
EXTENDS Integers, FiniteSetsExt

CONSTANTS
  Federates,
  Late,         \* the late joiners
  Regulating,   \* those configured to be time regulating
  Constrained,  \* those configured to be time constrained
  DataCycle,    \* DataCycle[f]: HLA_cycle_time, the data cycle of the main thread
  Lookahead,    \* Lookahead[f]: 0 for a zero-lookahead federate
  LCTS,         \* the least common time step
  Source,       \* Source[f]: whose zero-lookahead data f waits for; f: nobody's
  Refusable,    \* those a request may be refused to, once (a save in progress)
  Lossy,        \* those that may leave or be lost
  Span          \* bound: all stop when all are further than this on their timelines

Early == Federates \ Late
Sources == {Source[f] : f \in {x \in Federates : Source[x] # x}}

\* What verify_time_constraints and the checks of the attributes enforce.
ASSUME TimeAssumption ==
  /\ Late \cup Regulating \cup Constrained \cup Refusable \cup Lossy \subseteq Federates
  /\ Span \in Nat /\ LCTS \in Nat \ {0}
  /\ DataCycle \in [Federates -> Nat \ {0}]
  /\ Lookahead \in [Federates -> Nat]
  /\ Source \in [Federates -> Federates]
  /\ \A f \in Federates :
       /\ f \in Regulating \cup Constrained   \* time_management
       /\ Lookahead[f] <= DataCycle[f]
       /\ LCTS % DataCycle[f] = 0
       /\ Source[f] # f => /\ Lookahead[f] = 0 /\ Lookahead[Source[f]] = 0
                           /\ {f, Source[f]} \subseteq Early \cap Regulating \cap Constrained

VARIABLES
  pc,           \* pc[f]: where the main thread of f is
  calling,      \* calling[f]: it is in a request to the RTI, with the mutex held
  sim,          \* sim[f]: Trick's sim time of the frame f is in
  offset,       \* offset[f]: sim offset of the scenario timeline
  requested,    \* requested_time
  granted,      \* granted_time
  adv,          \* time_adv_state
  enabled,      \* enabled[f]: the time_..._state flags that are set
  received,     \* received[f][g]: timestamp of the last cyclic data of g at f
  zero,         \* zero[f]: timestamps of the zero-lookahead data f has yet to take
  time,         \* time[f]: logical time of f, at the RTI
  floor,        \* floor[f]: the RTI has promised f nothing earlier than this
  pending,      \* pending[f]: what f has asked of the RTI
  answer,       \* answer[f]: the callback on its way to f
  tso,          \* tso[f]: the timestamped messages the RTI keeps for f
  refused       \* those a request was refused to

frameVars == <<sim, offset>>
stateVars == <<requested, granted, adv, enabled>>
dataVars == <<received, zero>>
rtiVars == <<time, floor, pending, answer, tso>>
vars == <<pc, calling, frameVars, stateVars, dataVars, rtiVars, refused>>

-----------------------------------------------------------------------------
\* Where the main thread of a federate goes next; "zero", "exchange" and "send"
\* are the jobs of a frame.
Pcs == {"out", "constrain", "regulate", "align", "aligned", "barrier",
        "zero", "exchange", "send", "request", "gone"}
Jobs == {"zero", "exchange", "send"}

\* The times that are enumerated: past Span there are only the timestamps of data,
\* and joiners that wait.
Times == 0..(Span + 8 * LCTS)
Messages == [from : Federates, time : Nat, zero : BOOLEAN]
Nothing == [kind |-> "none"]
Ask(k, t) == [kind |-> k, time |-> t]
Requests == {"TAR", "TARA"}
Enables == {"constrained", "regulating"}

TypeOK ==
  /\ pc \in [Federates -> Pcs]
  /\ calling \in [Federates -> BOOLEAN]
  /\ sim \in [Federates -> Nat] /\ offset \in [Federates -> Nat]
  /\ requested \in [Federates -> Nat] /\ granted \in [Federates -> Nat]
  /\ adv \in [Federates -> {"RESET", "REQUESTED", "GRANTED"}]
  /\ enabled \in [Federates -> SUBSET Enables]
  /\ received \in [Federates -> [Federates -> Nat]]
  /\ zero \in [Federates -> SUBSET Nat]
  /\ time \in [Federates -> Nat] /\ floor \in [Federates -> Nat]
  /\ pending \in [Federates -> {Nothing} \cup [kind : Requests \cup Enables, time : Nat]]
  /\ answer \in [Federates -> {Nothing} \cup [kind : {"grant"} \cup Enables, time : Nat]]
  /\ tso \in [Federates -> SUBSET Messages]
  /\ refused \subseteq Federates

All(v) == [f \in Federates |-> v]
Init ==
  /\ pc = All("out") /\ calling = All(FALSE)
  /\ sim = All(0) /\ offset = All(0)
  /\ requested = All(0) /\ granted = All(0)
  /\ adv = All("RESET") /\ enabled = All({})
  /\ received = All(All(0)) /\ zero = All({})
  /\ time = All(0) /\ floor = All(0)
  /\ pending = All(Nothing) /\ answer = All(Nothing) /\ tso = All({})
  /\ refused = {}

-----------------------------------------------------------------------------
(* The RTI's view: who is regulating and constrained, and the logical time *)
(* up to which a federate can be taken.                                    *)

Member(f) == pc[f] \notin {"out", "gone"}
Has(f, k) == Member(f) /\ (k \in enabled[f] \/ answer[f].kind = k)
Regulators(f) == {g \in Federates \ {f} : Has(g, "regulating")}

\* No message of g that is still to be sent has an earlier timestamp.
Bound(g) ==
  Lookahead[g] + IF pending[g].kind \in Requests THEN pending[g].time ELSE time[g]

\* t is the greatest available logical time of f; there is none without regulators.
GALT(f, t) ==
  /\ \E g \in Regulators(f) : t = Bound(g)
  /\ \A g \in Regulators(f) : t <= Bound(g)

\* The RTI can promise f that nothing earlier than t will come.
CanPromise(f, t) ==
  Has(f, "constrained") => \A g \in Regulators(f) : t <= Bound(g)

\* The RTI reflects to f what is due by t, in timestamp order.
Reflect(f, t) ==
  LET due == {m \in tso[f] : m.time <= t}
      Cyclic(g) == {m.time : m \in {x \in due : x.from = g /\ ~x.zero}}
  IN  /\ tso' = [tso EXCEPT ![f] = @ \ due]
      /\ received' = [received EXCEPT ![f] =
                        [g \in Federates |-> Max(Cyclic(g) \cup {@[g]})]]
      /\ zero' = [zero EXCEPT ![f] = @ \cup {m.time : m \in {x \in due : x.zero}}]

\* f is taken to t, with the promise that nothing earlier than p comes.
TakeTo(f, t, p) ==
  /\ CanPromise(f, p)
  /\ time' = [time EXCEPT ![f] = t]
  /\ floor' = [floor EXCEPT ![f] = p]
  /\ Reflect(f, t)

\* pending[f] is answered by the callback c.
Answer(f, c) ==
  /\ pending' = [pending EXCEPT ![f] = Nothing]
  /\ answer' = [answer EXCEPT ![f] = c]
  /\ UNCHANGED <<pc, calling, frameVars, stateVars, refused>>

EnableConstrained(f) ==
  /\ pending[f].kind = "constrained"
  /\ Answer(f, Ask("constrained", time[f]))
  /\ UNCHANGED <<time, floor, tso, dataVars>>

\* What f sends from t on is in nobody's past.
NotTooLate(f, t) ==
  /\ time[f] <= t
  /\ \A g \in Federates \ {f} :
       Has(g, "constrained") => floor[g] <= t + Lookahead[f]

\* The earliest such time; to go there is an advance of f like any other.
RegulationTime(f, t) ==
  NotTooLate(f, t) /\ \A u \in Times : NotTooLate(f, u) => t <= u

EnableRegulation(f) ==
  /\ pending[f].kind = "regulating"
  /\ \E t \in Times :
       /\ RegulationTime(f, t)
       /\ \/ t = time[f] /\ UNCHANGED <<time, floor, tso, dataVars>>
          \/ t # time[f] /\ TakeTo(f, t, t + 1)
       /\ Answer(f, Ask("regulating", t))

\* A request "available" may be granted while more is to come at that time.
Grant(f) ==
  LET t == pending[f].time IN
  /\ \/ pending[f].kind = "TAR" /\ TakeTo(f, t, t + 1)
     \/ pending[f].kind = "TARA" /\ TakeTo(f, t, t)
  /\ Answer(f, Ask("grant", t))

\* What g sends with timestamp t to those in set: in timestamp order if g is
\* regulating, unless it is too late for that; else it is there at once.
Update(g, t, set, isZero) ==
  LET timed == Has(g, "regulating")
      to == {f \in set \ {g} : Member(f)}
      kept == {f \in to : timed /\ Has(f, "constrained")}
      m == [from |-> g, time |-> t, zero |-> isZero]
  IN  IF timed /\ t < time[g] + Lookahead[g]
        THEN UNCHANGED <<tso, received>>
        ELSE /\ tso' = [f \in Federates |->
                          IF f \in kept THEN tso[f] \cup {m} ELSE tso[f]]
             /\ received' = [f \in Federates |->
                          IF f \in to \ kept /\ ~isZero
                            THEN [received[f] EXCEPT ![g] = t] ELSE received[f]]

-----------------------------------------------------------------------------
(* Callbacks: they take time_adv_state_mutex.                              *)

\* (mutant of Callback) the mutex is not held over a request.
CallbackAnyTime(f, k) == answer[f].kind = k

Callback(f, k) == ~calling[f] /\ answer[f].kind = k

\* set_time_advance_granted, after req has been stored as the requested time.
Granted(f, req) ==
  LET t == answer[f].time IN
  /\ requested' = [requested EXCEPT ![f] = req]
  /\ IF t >= req THEN /\ granted' = [granted EXCEPT ![f] = t]
                      /\ adv' = [adv EXCEPT ![f] = "GRANTED"]
                 ELSE UNCHANGED <<granted, adv>>
  /\ answer' = [answer EXCEPT ![f] = Nothing]
  /\ UNCHANGED <<pc, calling, frameVars, dataVars, time, floor, pending, tso, refused>>

OnEnabled(f) ==
  \E k \in Enables :
    /\ Callback(f, k)
    /\ Granted(f, answer[f].time)
    /\ enabled' = [enabled EXCEPT ![f] = @ \cup {k}]

OnGrant(f) ==
  /\ Callback(f, "grant")
  /\ Granted(f, requested[f])
  /\ UNCHANGED enabled

-----------------------------------------------------------------------------
(* The main thread.                                                        *)

Goto(f, a, b) ==
  /\ ~calling[f] /\ pc[f] = a
  /\ pc' = [pc EXCEPT ![f] = b]

\* wait_for_time_advance_grant, and the polls of the setup: a thread is through
\* when nothing it has asked for is outstanding.
Waited(f) == ~calling[f] /\ adv[f] # "REQUESTED"
Enabled(f, k, wanted) == f \in wanted => k \in enabled[f]

\* (mutant of FirstJob) one that waits for data does not send its own first.
FirstJobExchange(f) ==
  IF Source[f] # f THEN "exchange" ELSE IF f \in Sources THEN "zero" ELSE "send"

\* A frame begins with sending zero-lookahead data, with waiting for it, or has
\* none.
FirstJob(f) ==
  IF f \in Sources THEN "zero" ELSE IF Source[f] # f THEN "exchange" ELSE "send"

\* The early joiners have set up their time management before any of them runs
\* (initialization_started); a late joiner joins after that.
Started == \E f \in Early : pc[f] \in Jobs \cup {"request"}

Join(f) ==
  /\ f \in Late => Started
  /\ Goto(f, "out", "constrain")
  /\ UNCHANGED <<calling, frameVars, stateVars, dataVars, rtiVars, refused>>

\* setup_time_constrained and setup_time_regulation ask, if so configured.
Setup(f, k, wanted) ==
  /\ IF f \in wanted
       THEN /\ adv' = [adv EXCEPT ![f] = "RESET"]
            /\ pending' = [pending EXCEPT ![f] = Ask(k, 0)]
       ELSE UNCHANGED <<adv, pending>>
  /\ UNCHANGED <<calling, frameVars, requested, granted, enabled, dataVars,
                 time, floor, answer, tso, refused>>

SetupConstrained(f) ==
  /\ Goto(f, "constrain", "regulate")
  /\ Setup(f, "constrained", Constrained)

SetupRegulation(f) ==
  /\ Goto(f, "regulate", IF f \in Late THEN "align" ELSE "barrier")
  /\ Enabled(f, "constrained", Constrained)
  /\ Setup(f, "regulating", Regulating)

\* A late joiner goes to the first multiple of the LCTS after its GALT, which
\* is where its scenario timeline starts.
Boundary(f, t) ==
  \/ Regulators(f) = {} /\ t = requested[f]
  \/ \E g \in Regulators(f) :
       GALT(f, Bound(g)) /\ t = ((Bound(g) \div LCTS) + 1) * LCTS

Align(f) ==
  /\ Goto(f, "align", "aligned")
  /\ Enabled(f, "regulating", Regulating)
  /\ \E t \in Times :
       /\ Boundary(f, t)
       /\ requested' = [requested EXCEPT ![f] = t]
       /\ offset' = [offset EXCEPT ![f] = t]
  /\ UNCHANGED <<calling, sim, granted, adv, enabled, dataVars, rtiVars, refused>>

SetUp(f) == pc[f] \notin {"out", "constrain", "regulate"}
            /\ (pc[f] = "barrier" => Enabled(f, "regulating", Regulating))

\* initialization_started, which the early joiners achieve when they are set up.
Begin(f) ==
  /\ Goto(f, "barrier", FirstJob(f))
  /\ \A g \in Early : SetUp(g)
  /\ UNCHANGED <<calling, frameVars, stateVars, dataVars, rtiVars, refused>>

\* A request of kind k for t: the RTI takes it, or the state stays RESET.
Call(f, k, t) ==
  /\ adv' = [adv EXCEPT ![f] = "RESET"]
  /\ \/ /\ t >= time[f]
        /\ calling' = [calling EXCEPT ![f] = TRUE]
        /\ pending' = [pending EXCEPT ![f] = Ask(k, t)]
        /\ refused' = refused
     \/ /\ f \in Refusable \ refused
        /\ refused' = refused \cup {f}
        /\ UNCHANGED <<calling, pending>>
  /\ UNCHANGED <<granted, enabled, dataVars, time, floor, answer, tso>>

\* The request has been taken.
Return(f) ==
  /\ calling[f]
  /\ calling' = [calling EXCEPT ![f] = FALSE]
  /\ adv' = [adv EXCEPT ![f] = "REQUESTED"]
  /\ UNCHANGED <<pc, frameVars, requested, granted, enabled, dataVars, rtiVars, refused>>

Kind(f) == IF Lookahead[f] = 0 THEN "TARA" ELSE "TAR"

RequestBoundary(f) ==
  /\ Goto(f, "aligned", FirstJob(f))
  /\ Call(f, Kind(f), requested[f])
  /\ UNCHANGED <<frameVars, requested>>

\* wait_for_time_advance_grant: without a request there is nothing to wait for.
Job(f, a, b) == Waited(f) /\ Goto(f, a, b)

\* A source of zero-lookahead data sends it before it waits for data itself.
SendZero(f) ==
  /\ Job(f, "zero", IF Source[f] = f THEN "send" ELSE "exchange")
  /\ Update(f, granted[f], {g \in Federates : Source[g] = f}, TRUE)
  /\ UNCHANGED <<calling, frameVars, stateVars, zero, time, floor, pending, answer, refused>>

\* (mutant of TakeZero) the wait is over after the first request.
TakeZeroAnyway(f) ==
  /\ Job(f, "exchange", "send")
  /\ zero' = [zero EXCEPT ![f] = IF @ = {} THEN {} ELSE @ \ {Min(@)}]
  /\ UNCHANGED <<calling, frameVars, stateVars, received, rtiVars, refused>>

\* Waiting for zero-lookahead data: request the time f has until it is there.
TakeZero(f) ==
  /\ Job(f, "exchange", "send")
  /\ zero[f] # {}
  /\ zero' = [zero EXCEPT ![f] = @ \ {Min(@)}]
  /\ UNCHANGED <<calling, frameVars, stateVars, received, rtiVars, refused>>

RequestZero(f) ==
  /\ Job(f, "exchange", "exchange")
  /\ zero[f] = {}
  /\ Call(f, "TARA", requested[f])
  /\ UNCHANGED <<frameVars, requested>>

\* (mutant of UpdateTime) the timestamp is the granted time plus the lookahead.
UpdateTimeLookahead(f) == granted[f] + Lookahead[f]

\* The cyclic data of the frame.
UpdateTime(f) ==
  granted[f] + IF DataCycle[f] < Lookahead[f] THEN Lookahead[f] ELSE DataCycle[f]

Send(f) ==
  /\ Job(f, "send", "request")
  /\ Update(f, UpdateTime(f), Federates, FALSE)
  /\ UNCHANGED <<calling, frameVars, stateVars, zero, time, floor, pending, answer, refused>>

\* (mutant of Step) the lookahead, zero or not.
StepLookahead(f) == Lookahead[f]

\* time_advance_request, the last job of the frame.
Step(f) == IF Lookahead[f] = 0 THEN DataCycle[f] ELSE Lookahead[f]

\* g is on its timeline, or on the way to where that starts.
OnTimeline(g) == pc[g] \in Jobs \cup {"request"}

Through(f) == granted[f] > offset[f] + Span

Request(f) ==
  LET t == requested[f] + Step(f) IN
  /\ \E g \in Federates : (g = f \/ OnTimeline(g)) /\ ~Through(g)
  /\ Goto(f, "request", FirstJob(f))
  /\ requested' = [requested EXCEPT ![f] = t]
  /\ sim' = [sim EXCEPT ![f] = @ + DataCycle[f]]
  /\ Call(f, Kind(f), t)
  /\ UNCHANGED offset

\* f resigns or is lost: it regulates nobody any more.
Leave(f) ==
  /\ f \in Lossy /\ Member(f)
  /\ pc' = [pc EXCEPT ![f] = "gone"]
  /\ calling' = [calling EXCEPT ![f] = FALSE]
  /\ pending' = [pending EXCEPT ![f] = Nothing]
  /\ answer' = [answer EXCEPT ![f] = Nothing]
  /\ tso' = [tso EXCEPT ![f] = {}]
  /\ UNCHANGED <<frameVars, stateVars, dataVars, time, floor, refused>>

Main(f) ==
  \/ Join(f) \/ SetupConstrained(f) \/ SetupRegulation(f)
  \/ Align(f) \/ RequestBoundary(f) \/ Begin(f)
  \/ SendZero(f) \/ TakeZero(f) \/ RequestZero(f)
  \/ Send(f) \/ Request(f) \/ Return(f)
Rti(f) == EnableConstrained(f) \/ EnableRegulation(f) \/ Grant(f)
Ambassador(f) == OnEnabled(f) \/ OnGrant(f)

Next == \E f \in Federates : Main(f) \/ Rti(f) \/ Ambassador(f) \/ Leave(f)

Spec == Init /\ [][Next]_vars

\* Every main thread goes on, the RTI answers, and callbacks are delivered.
FairSpec ==
  /\ Spec
  /\ \A f \in Federates :
       WF_vars(Main(f)) /\ WF_vars(Rti(f)) /\ WF_vars(Ambassador(f))

-----------------------------------------------------------------------------
(* Properties.                                                             *)

\* What f waits for is on its way: while it waits for a grant, the RTI has its
\* request for just the time it waits for, or the grant is coming, so that no
\* grant is ignored for being too early; and a grant nobody waits for never comes.
OneRequest ==
  \A f \in Federates : Member(f) =>
    LET asked == pending[f].kind \in Requests /\ pending[f].time = requested[f]
        comes == answer[f].kind = "grant" /\ answer[f].time = requested[f]
    IN  /\ adv[f] = "REQUESTED" \/ calling[f] <=> asked \/ comes
        /\ calling[f] => adv[f] = "RESET"
        /\ pending[f] = Nothing \/ answer[f] = Nothing

TimeInv == TypeOK /\ OneRequest

\* The scenario time of the frame f is in.
Now(f) == offset[f] + sim[f]

InFrame(f) == Waited(f) /\ pc[f] \in Jobs

\* A federate in a frame it waited for is at the logical time the frame is for;
\* a frame without a grant, after a refused request, is behind by itself only:
\* the next request makes up for it.
InStep ==
  \A f \in Federates : InFrame(f) =>
    /\ requested[f] = Now(f)
    /\ adv[f] = "GRANTED" => granted[f] = Now(f)

\* The timestamp of what g has sent when all its frames are over that end by t.
LastData(g, t) ==
  IF OnTimeline(g) /\ t >= offset[g] + DataCycle[g]
    THEN offset[g] + ((t - offset[g]) \div DataCycle[g]) * DataCycle[g] ELSE 0

\* What f has of g by t: the data of every frame of g that is over by then, and none
\* of a later one.  A late joiner has no data of the frames that began before it
\* joined.
HasData(f, g, t) ==
  \/ received[f][g] = LastData(g, t)
  \/ f \in Late /\ received[f][g] <= LastData(g, t) /\ LastData(g, t) <= offset[f]

\* In a frame f has the cyclic data up to the time of the frame.  When f takes a
\* time as soon as it is available and g need not go there to send, the last of
\* them may be missing.
CyclicData(f, g) ==
  /\ f # g /\ InFrame(f) /\ adv[f] = "GRANTED"
  /\ Has(f, "constrained") /\ Has(g, "regulating") /\ {f, g} \cap refused = {}
  => \/ HasData(f, g, Now(f))
     \/ Lookahead[f] = 0 /\ Lookahead[g] > 0 /\ HasData(f, g, Now(f) - 1)

\* What f takes for the zero-lookahead data of a frame was sent in that frame,
\* and none is left over when it goes on.
ZeroData(f) ==
  Waited(f) /\ adv[f] = "GRANTED" /\ {f, Source[f]} \cap refused = {} =>
    /\ pc[f] = "exchange" => zero[f] \subseteq {Now(f)}
    /\ pc[f] \in {"send", "request"} => zero[f] = {}

\* A frame is computed with the data of its time, of either kind.
DataOfFrame == \A f \in Federates : ZeroData(f) /\ \A g \in Federates : CyclicData(f, g)

\* Every federate that stays gets through its frames: every request is granted
\* in the end, and every wait for zero-lookahead data is over some time.
EverybodyGetsThrough ==
  <>(\A f \in Federates : pc[f] = "gone" \/ Through(f))
=============================================================================
