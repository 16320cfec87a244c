------------------------- MODULE ModeTransitionsProofs -------------------------
(***************************************************************************)
(* The federation freezes and runs again together, whoever takes part and  *)
(* whatever their data cycles are, when requests that exclude each other   *)
(* are not made of the same federation.                                    *)
(*                                                                         *)
(* The points are used as SyncPoints has it, so its invariant holds of     *)
(* them.  The master goes through three phases: no freeze is on its way    *)
(* (ClearPhase), its time has been set (SetPhase), and everybody is on the *)
(* way to it, is in it, or is ending (ComingPhase).                        *)
(***************************************************************************)
EXTENDS ModeTransitions, TLAPS

Proved == INSTANCE SyncPointsProofs WITH
  Named     <- [f \in Federates |-> Labels],
  Registrar <- [l \in Labels |-> Master],
  MaxRounds <- Uses

\* Requests that exclude each other, or that the flag of the master and its
\* pending request confuse, are not made of the same federation: a freeze is
\* asked for by MTR once, or by the panel; with a shutdown by MTR, once by it.
OneAtATime(s) ==
  \/ s["to_shutdown"] = 0 /\ s["press_freeze"] = 0 /\ s["to_freeze"] <= 1
  \/ s["to_shutdown"] = 0 /\ s["to_freeze"] = 0
  \/ s["to_freeze"] = 0 /\ s["press_freeze"] <= 1

\* When the master has asked for its next time, the others may be as far
\* ahead of it as twice its step: the padding must cover that, as the check
\* for 3 * LCTS in set_time_padding has it but for paddings above the default.
FreezeAssumption ==
  /\ 2 * Step[Master] <= Padding
  /\ \A s \in Scripts : OneAtATime(s)
  /\ Uses \in Nat

-----------------------------------------------------------------------------
(* What a state is made of.                                                *)

Modes == {"RUNNING", "FREEZE", "SHUTDOWN"}
Updates == [cur : Modes, next : Modes, at : Nat]
Sends == [x : Updates, sent : Nat]
Frame == {"tag", "mtr", "end", "eof"}
OtherFrame == {"tag", "receive", "end", "eof", "cte"}
Acts == {"read", "set", "act"}
Halts == {"freeze", "freezing", "frozen", "thaw", "run", "running"}
Ends == {"shutdown", "closing", "close", "down"}
Places == Frame \cup OtherFrame \cup Acts \cup Halts \cup Ends
Asks == Mtrs \cup {NoRequest}

TypeInv ==
  /\ pc \in [Federates -> Places]
  /\ time \in [Federates -> Nat]
  /\ mode \in [Federates -> Modes]
  /\ wanted \in Modes
  /\ sched \in [Federates -> Nat]
  /\ stop \in [Federates -> Nat]
  /\ exco \in Updates
  /\ wire \in [Federates -> Seq(Sends)]
  /\ queue \in [Federates -> Seq(Updates)]
  /\ mtr \in [flag : BOOLEAN, pending : Asks, read : Asks]
  /\ calling \in Asks
  /\ cmd \in {"none", "freeze", "exit"}
  /\ left \in [Requests -> Nat]

In == Proved!In
Active(l) == Proved!Active(l)

\* The place a federate is at and its mode.
OtherPlace(f) ==
  /\ pc[f] \in OtherFrame \cup Halts \cup {"shutdown", "down"}
  /\ pc[f] \in OtherFrame => mode[f] # "FREEZE"
  /\ pc[f] = "cte" => mode[f] = "RUNNING"
  /\ mode[f] = "SHUTDOWN" => stop[f] <= time[f]
PlacesInv ==
  /\ exco.cur = mode[Master] /\ mode[Master] # "SHUTDOWN"
  /\ pc[Master] \in Frame \cup Acts \cup Halts \cup Ends
  /\ pc[Master] \in Frame \cup {"freeze", "freezing"} => mode[Master] = "RUNNING"
  /\ pc[Master] \in {"frozen", "thaw", "run", "running"} => mode[Master] = "FREEZE"
  /\ wire[Master] = <<>> /\ queue[Master] = <<>>
  /\ \A f \in Others : OtherPlace(f)
  /\ \A f \in Federates : life[f] = "in" <=> pc[f] # "down"

\* The request the master is acting on is one its mode allows.
ActingInv ==
  /\ pc[Master] \in Acts => mtr.flag
  /\ pc[Master] \in {"read", "act"} => IsValid(mtr.pending)
  /\ pc[Master] = "set" => IsValid(mtr.read)
  /\ pc[Master] \in {"run", "running"} => wanted = "RUNNING" /\ exco.next = "RUNNING"

\* What may still be requested: OneAtATime, of a federation that runs.
Asked(m) == calling = m \/ mtr.pending = m \/ mtr.read = m
FreezeByMtr ==
  /\ left["to_shutdown"] = 0 /\ ~Asked("to_shutdown")
  /\ left["press_freeze"] = 0 /\ cmd # "freeze"
  /\ left["to_freeze"] <= 1 /\ (Asked("to_freeze") => left["to_freeze"] = 0)
FreezeByPanel ==
  /\ left["to_shutdown"] = 0 /\ ~Asked("to_shutdown")
  /\ left["to_freeze"] = 0 /\ ~Asked("to_freeze")
FreezeOnce ==
  /\ left["to_freeze"] = 0 /\ ~Asked("to_freeze")
  /\ left["press_freeze"] <= 1 /\ (cmd = "freeze" => left["press_freeze"] = 0)
RequestsInv == FreezeByMtr \/ FreezeByPanel \/ FreezeOnce

\* The federates keep in step, and freezes are at common times.
Multiple(c, x) == x % c = 0
Ahead(f) == IF HasAsked(f) THEN Step[f] ELSE 0
TimeInv ==
  /\ \A f \in Federates : Multiple(Step[f], time[f])
  /\ Multiple(LCTS, exco.at)
  /\ \A f, g \in In : f # g => time[f] < time[g] + Step[g] + Ahead(g)
  /\ \A f, g \in In : pc[f] = "running" /\ pc[g] = "running" => time[f] = time[g]

\* The master may register l.
Idle(l) ==
  /\ state[Master][l] \in {"KNOWN", "SYNCHRONIZED"}
  /\ busy[Master] # Proved!Registering(l)
  /\ ~Active(l)

\* Who is where tells who has achieved which point.
PointsInv ==
  /\ pc[Master] # "down" =>
       /\ pc[Master] # "close" => Idle(MtrShutdown)
       /\ pc[Master] \notin {"run", "running"} => Idle(MtrRun)
       /\ mode[Master] = "FREEZE" => Idle(MtrFreeze)
  /\ Active(MtrRun) => pc[Master] \in {"run", "running"}
  /\ mode[Master] = "FREEZE" => ~Active(MtrFreeze)
  /\ \A f \in In :
       /\ f \in achieved[MtrFreeze] => pc[f] = "freezing"
       /\ f \in achieved[MtrRun] => pc[f] = "running"
  /\ \A l \in {MtrFreeze, MtrRun} : Active(l) => In \subseteq members[l]

-----------------------------------------------------------------------------
(* The phases of a freeze.                                                 *)

\* An update, or one on its way, that announces a freeze; that of the freeze
\* to come; and none or one of S in the queue q, the one being of D.
FreezeUpdates == {x \in Updates : x.cur # "FREEZE" /\ x.next = "FREEZE"}
FreezeSends == {e \in Sends : e.x \in FreezeUpdates}
DueUpdates == {x \in FreezeUpdates : x.at = exco.at}
DueSends == {e \in FreezeSends : e.x.at = exco.at /\ e.sent + MaxDelay <= exco.at}
None(q, S) == \A i \in 1..Len(q) : q[i] \notin S
One(q, S, D) ==
  \E k \in 1..Len(q) : q[k] \in D /\ \A i \in 1..Len(q) : i # k => q[i] \notin S

NoneSent(f) == None(wire[f], FreezeSends)
NoneTold(f) == None(queue[f], FreezeUpdates)
OneSent(f) == One(wire[f], FreezeSends, DueSends)
OneTold(f) == One(queue[f], FreezeUpdates, DueUpdates)

Stopped(f) == pc[f] \in Halts \/ (pc[f] \in Acts /\ mode[f] = "FREEZE")

\* No freeze is on its way to f; the last one may not have let it go yet.
Unasked(f) == sched[f] = 0 /\ NoneSent(f) /\ NoneTold(f)
Clear(f) ==
  /\ Unasked(f)
  /\ Stopped(f) => pc[f] = "running" /\ time[f] = exco.at

\* f is not in the freeze to come, nor is it one frame away from it.
Before(f) ==
  /\ Stopped(f) => pc[f] = "running" /\ time[f] + 2 * LCTS <= exco.at
  /\ time[f] < exco.at

\* f is in the freeze.
AtFreeze(f) ==
  /\ Stopped(f) /\ Unasked(f) /\ time[f] = exco.at
  /\ pc[f] = "running" => f \in achieved[MtrRun]

\* The stages of the freeze: the update is sent, or received but not taken;
\* Trick was told; f is in it; or f is ending.
StageSent(f) == sched[f] = 0 /\ NoneTold(f) /\ OneSent(f) /\ Before(f)
StageTold(f) ==
  /\ sched[f] = 0 /\ NoneSent(f) /\ OneTold(f)
  /\ Before(f) \/ (pc[f] = "receive" /\ time[f] = exco.at)
StageDue(f) ==
  /\ sched[f] = exco.at /\ NoneSent(f) /\ NoneTold(f) /\ ~Stopped(f)
  /\ time[f] <= exco.at
  /\ pc[f] \in {"tag", "cte"} => time[f] < exco.at
Gone(f) == pc[f] \in {"shutdown", "closing", "close"} /\ time[f] <= exco.at
Ending(f) ==
  /\ mode[f] = "SHUTDOWN" /\ pc[f] \in {"receive", "end", "eof"} /\ sched[f] = 0
  /\ time[f] <= exco.at
Stage(f) ==
  StageSent(f) \/ StageTold(f) \/ StageDue(f) \/ AtFreeze(f) \/ Ending(f) \/ Gone(f)
Firm(f) == AtFreeze(f) \/ Gone(f)

\* Nobody can ask for another freeze before this one has begun.
NoOther ==
  \/ FreezeByMtr /\ ~mtr.flag /\ left["to_freeze"] = 0
  \/ FreezeByPanel /\ wanted = "FREEZE"
  \/ FreezeOnce /\ left["press_freeze"] = 0 /\ cmd # "freeze"

\* The phases, as the master has them, and as everybody has.
ClearMaster ==
  /\ ~Active(MtrFreeze) /\ ~Active(MtrRun)
  /\ pc[Master] # "down" => Idle(MtrFreeze)
  /\ wanted # "FREEZE" /\ exco.next # "FREEZE"
  /\ exco.at <= time[Master]
  /\ pc[Master] \notin {"tag", "running"} => exco.at < time[Master]
  /\ pc[Master] = "eof" => cmd # "freeze"
  /\ pc[Master] = "act" => mtr.pending # "to_freeze"

SetMaster ==
  /\ ~Active(MtrFreeze) /\ ~Active(MtrRun)
  /\ pc[Master] = "act" /\ mode[Master] = "RUNNING" /\ Idle(MtrFreeze)
  /\ mtr.pending = "to_freeze" /\ exco.next = "FREEZE"
  /\ time[Master] + Padding <= exco.at
  /\ FreezeByMtr

ComingMaster ==
  /\ exco.at > 0
  /\ pc[Master] = "eof" /\ cmd = "freeze" => time[Master] = exco.at
  /\ mode[Master] = "RUNNING" /\ pc[Master] \notin Ends => NoOther

ClearPhase == ClearMaster /\ \A f \in In : Clear(f)
SetPhase == SetMaster /\ \A f \in In : Unasked(f) /\ Before(f)
ComingPhase ==
  /\ ComingMaster
  /\ \A f \in In : Stage(f)
  /\ Active(MtrFreeze) \/ \A f \in In : Firm(f)

Phase == ClearPhase \/ SetPhase \/ ComingPhase

BaseInv == Proved!IndInv /\ TypeInv /\ PlacesInv /\ ActingInv /\ RequestsInv /\ TimeInv
           /\ PointsInv
Inv == BaseInv /\ Phase

-----------------------------------------------------------------------------
(* The points, as SyncPoints has them.                                     *)

LEMMA Constants ==
  ASSUME FreezeAssumption
  PROVE  /\ Proved!ConstantsAssumption
         /\ Master \in Federates /\ Labels = {MtrRun, MtrFreeze, MtrShutdown}
         /\ MtrRun # MtrFreeze /\ MtrRun # MtrShutdown /\ MtrFreeze # MtrShutdown
         /\ Step \in [Federates -> Nat \ {0}]
         /\ LCTS \in Nat \ {0} /\ Padding \in Nat /\ Padding >= LCTS
         /\ MaxDelay \in Nat /\ MaxDelay <= Padding
<1>1. Proved!ConstantsAssumption
  BY ModesAssumption DEF FreezeAssumption, Proved!ConstantsAssumption
<1> QED BY <1>1, ModesAssumption DEF Labels, MtrRun, MtrFreeze, MtrShutdown

\* The two instances of SyncPoints are the same.
LEMMA SameTerms ==
  /\ SP!In = In
  /\ \A f : (SP!Free(f) <=> Proved!Free(f)) /\ (SP!Free(f) => life[f] = "in")
  /\ \A f, l : SP!Leave(f) <=> Proved!Leave(f)
  /\ \A l : SP!Active(l) <=> Active(l)
BY DEF SP!In, In, Proved!In, SP!Free, Proved!Free, SP!NoCall, Proved!NoCall, SP!Leave,
       Proved!Leave, SP!rtiVars, Proved!rtiVars, SP!Active, Active, Proved!Active

LEMMA SameSettle ==
  ASSUME NEW l, NEW ms, NEW done, NEW box
  PROVE  SP!Settle(l, ms, done, box) <=> Proved!Settle(l, ms, done, box)
BY DEF SP!Settle, Proved!Settle, SP!In, Proved!In, SP!Msg, Proved!Msg

LEMMA SameReturns ==
  ASSUME NEW f, NEW l
  PROVE  /\ SP!Drop(f, l) <=> Proved!Drop(f, l)
         /\ SP!RegisterReturn(f, l) <=> Proved!RegisterReturn(f, l)
         /\ SP!AchieveReturn(f, l) <=> Proved!AchieveReturn(f, l)
<1>1. SP!Drop(f, l) <=> Proved!Drop(f, l)
  BY SameSettle DEF SP!Drop, Proved!Drop
<1> QED
  BY <1>1 DEF SP!RegisterReturn, Proved!RegisterReturn, SP!AchieveReturn,
       Proved!AchieveReturn, SP!Registering, Proved!Registering, SP!Achieving,
       Proved!Achieving, SP!SetState, Proved!SetState, SP!rtiVars, Proved!rtiVars,
       SP!NoCall, Proved!NoCall

LEMMA SameRegister ==
  ASSUME NEW f, NEW l, NEW set, NEW all
  PROVE  SP!RegisterCall(f, l, set, all) <=> Proved!RegisterCall(f, l, set, all)
BY DEF SP!RegisterCall, Proved!RegisterCall, SP!Free, Proved!Free, SP!NoCall,
       Proved!NoCall, SP!SetState, Proved!SetState, SP!Tracked, Proved!Tracked,
       SP!Registering, Proved!Registering, SP!Active, Proved!Active, SP!Msg, Proved!Msg

LEMMA SameAchieve ==
  ASSUME NEW f, NEW l
  PROVE  SP!AchieveCall(f, l) <=> Proved!AchieveCall(f, l)
<1>1. ASSUME NEW b
      PROVE  SP!Accepts(f, l, b) <=> Proved!Accepts(f, l, b)
  BY DEF SP!Accepts, Proved!Accepts, SP!InQueue, Proved!InQueue, SP!Msg, Proved!Msg
<1>2. SP!Marked(f, l) = Proved!Marked(f, l)
  BY DEF SP!Marked, Proved!Marked
<1>3. ASSUME NEW s, NEW b
      PROVE  SP!AchieveFrom(f, l, s, b) <=> Proved!AchieveFrom(f, l, s, b)
  BY <1>1, SameSettle
     DEF SP!AchieveFrom, Proved!AchieveFrom, SP!SetState, Proved!SetState,
         SP!Achieving, Proved!Achieving
<1> QED
  BY <1>2, <1>3 DEF SP!AchieveCall, Proved!AchieveCall, SP!Free, Proved!Free, SP!NoCall,
     Proved!NoCall

LEMMA SameCallbacks ==
  ASSUME NEW f, NEW l
  PROVE  /\ SP!OnRegistered(f, l) <=> Proved!OnRegistered(f, l)
         /\ SP!OnAnnounced(f, l) <=> Proved!OnAnnounced(f, l)
         /\ SP!OnSynchronized(f, l) <=> Proved!OnSynchronized(f, l)
<1>1. ASSUME NEW t
      PROVE  SP!Arrives(f, t, l) <=> Proved!Arrives(f, t, l)
  BY DEF SP!Arrives, Proved!Arrives, SP!Msg, Proved!Msg, SP!Free, Proved!Free,
         SP!NoCall, Proved!NoCall
<1>2. ASSUME NEW s
      PROVE  SP!Mark(f, l, s) <=> Proved!Mark(f, l, s)
  BY DEF SP!Mark, Proved!Mark, SP!SetState, Proved!SetState, SP!Taken, Proved!Taken,
         SP!rtiVars, Proved!rtiVars
<1> QED BY <1>1, <1>2
        DEF SP!OnRegistered, Proved!OnRegistered, SP!OnAnnounced, Proved!OnAnnounced,
            SP!OnSynchronized, Proved!OnSynchronized

\* A federate and a point, as the invariant of SyncPoints has them.
LEMMA PointFacts ==
  ASSUME Proved!IndInv, NEW f \in Federates, NEW l \in Labels, life[f] = "in"
  PROVE  /\ Proved!TypeOK /\ Proved!RtiInv
         /\ Proved!MemberInv(f, l) /\ Proved!RegistrarInv(f, l)
BY DEF Proved!IndInv, Proved!In

\* Nothing is on its way to the master about a point that is idle.
LEMMA IdleQuiet ==
  ASSUME FreezeAssumption, Proved!IndInv, NEW l \in Labels, Idle(l), life[Master] = "in"
  PROVE  /\ ~Proved!Pending(Master, "registered", l)
         /\ ~Proved!Pending(Master, "announced", l)
         /\ ~Proved!Pending(Master, "synchronized", l)
         /\ busy[Master] # Proved!Achieving(l) /\ achieved[l] = {} /\ members[l] = {}
<1> USE Constants
<1>1. /\ Proved!RtiInv /\ Proved!MemberInv(Master, l) /\ Proved!RegistrarInv(Master, l)
      /\ Proved!TypeOK
  BY PointFacts
<1>2. members[l] = {} /\ achieved[l] = {}
  BY <1>1 DEF Idle, Active, Proved!Active, Proved!RtiInv, Proved!TypeOK
<1>3. busy[Master] # Proved!Achieving(l)
  BY <1>1 DEF Idle, Proved!MemberInv
<1>4. ~Proved!Held(Master, l)
  BY <1>3 DEF Idle, Proved!Held
<1>5. ~Proved!Pending(Master, "synchronized", l)
  BY <1>1, <1>4 DEF Proved!MemberInv
<1>6. ~Proved!Pending(Master, "announced", l)
  BY <1>1, <1>2 DEF Proved!MemberInv, Proved!Awaited
<1>7. ~Proved!Pending(Master, "registered", l)
  BY <1>1 DEF Idle, Proved!RegistrarInv
<1> QED BY <1>2, <1>3, <1>5, <1>6, <1>7

\* What every step leaves of the points: the invariant, those idle, who takes part.
IdleKept == \A l \in Labels : Idle(l) => Idle(l)'
SameMembers == UNCHANGED <<life, members, achieved>>
PointsStay == Proved!IndInv' /\ SameMembers /\ IdleKept

LEMMA PointsSame ==
  ASSUME FreezeAssumption, Proved!IndInv, UNCHANGED syncVars
  PROVE  PointsStay
<1>1. Proved!IndInv'
  BY Proved!StepInv, Constants DEF syncVars, Proved!vars
<1> QED BY <1>1 DEF PointsStay, SameMembers, IdleKept, Idle, Active, Proved!Active, syncVars

\* The point l wants ms, of which done have achieved it.
Reached(l, ms, done) ==
  /\ \A k \in Labels \ {l} : members'[k] = members[k] /\ achieved'[k] = achieved[k]
  /\ done = ms => members'[l] = {} /\ achieved'[l] = {}
  /\ done # ms => members'[l] = ms /\ achieved'[l] = done

LEMMA SettleReached ==
  ASSUME Proved!TypeOK, NEW l \in Labels, NEW ms \in SUBSET Federates,
         NEW done \in SUBSET ms, Proved!Settle(l, ms, done, inbox)
  PROVE  Reached(l, ms, done)
BY DEF Proved!Settle, Proved!TypeOK, Reached

\* A point that nothing changes about stays idle.
LEMMA StaysIdle ==
  ASSUME NEW k \in Labels, Idle(k), state'[Master][k] = state[Master][k],
         busy'[Master] # Proved!Registering(k), members'[k] = members[k]
  PROVE  Idle(k)'
BY DEF Idle, Active, Proved!Active

LEMMA RegisterPoints ==
  ASSUME FreezeAssumption, Proved!IndInv, NEW l \in Labels, Idle(l),
         SP!RegisterCall(Master, l, SP!In, TRUE)
  PROVE  /\ Proved!IndInv' /\ life' = life /\ achieved' = achieved
         /\ members' = [members EXCEPT ![l] = In] /\ In # {}
         /\ \A k \in Labels \ {l} : Idle(k) => Idle(k)'
<1> USE Constants
<1>0. Proved!TypeOK
  BY DEF Proved!IndInv
<1>1. Proved!RegisterCall(Master, l, Proved!In, TRUE)
  BY SameRegister, SameTerms DEF In
<1>2. Master = [k \in Labels |-> Master][l]
  OBVIOUS
<1>3. Proved!MayRegister(Master, l)
  BY <1>2 DEF Proved!MayRegister, Idle
<1>4. Proved!IndInv'
  <2>1. Proved!Next
    BY <1>1, <1>3 DEF Proved!Next, Proved!RegisterForAll
  <2> QED BY <2>1, Proved!StepInv
<1>5. /\ life' = life /\ achieved' = achieved /\ members' = [members EXCEPT ![l] = In]
      /\ state' = [state EXCEPT ![Master][l] = Proved!Tracked(Master, l)]
      /\ busy' = [busy EXCEPT ![Master] = Proved!Registering(l)] /\ life[Master] = "in"
  BY <1>1 DEF Idle, Active, In, Proved!RegisterCall, Proved!SetState, Proved!Free
<1>6. ASSUME NEW k \in Labels \ {l}, Idle(k)
      PROVE  Idle(k)'
  <2>1. state'[Master][k] = state[Master][k]
    BY <1>0, <1>5 DEF Proved!TypeOK
  <2>2. busy'[Master] = Proved!Registering(l) /\ members'[k] = members[k]
    BY <1>0, <1>5 DEF Proved!TypeOK
  <2> QED BY <1>6, <2>1, <2>2, StaysIdle, Proved!CallsDiffer
<1> QED BY <1>4, <1>5, <1>6 DEF In, Proved!In

LEMMA AchievePoints ==
  ASSUME FreezeAssumption, Proved!IndInv, NEW f \in Federates, NEW l \in Labels,
         Is(f, l, "ANNOUNCED"), SP!AchieveCall(f, l)
  PROVE  /\ Proved!IndInv' /\ life' = life /\ IdleKept
         /\ f \in members[l] /\ Reached(l, members[l], achieved[l] \cup {f})
<1> USE Constants
<1>1. Proved!AchieveCall(f, l) /\ state[f][l] = "ANNOUNCED"
  BY SameAchieve DEF Is
<1>2. Proved!IndInv'
  <2>1. Proved!Next
    BY <1>1 DEF Proved!Next, Proved!Achieve
  <2> QED BY <2>1, Proved!StepInv
<1>3. life[f] = "in" /\ busy[f] = Proved!NoCall
      /\ Proved!AchieveFrom(f, l, Proved!Marked(f, l), inbox)
  BY <1>1 DEF Proved!AchieveCall, Proved!Free
<1>4. Proved!TypeOK /\ Proved!RtiInv /\ Proved!MemberInv(f, l)
  BY <1>3, PointFacts
<1>5. Proved!Awaited(f, l) /\ ~Proved!Pending(f, "announced", l)
  BY <1>1, <1>3, <1>4, Proved!CallsDiffer DEF Proved!MemberInv
<1>6. Proved!Accepts(f, l, inbox)
  BY <1>5 DEF Proved!Accepts, Proved!Awaited, Proved!Pending
<1>7. Proved!Marked(f, l) = "ANNOUNCED"
  BY <1>1 DEF Proved!Marked
<1>8. /\ Proved!Settle(l, members[l], achieved[l] \cup {f}, inbox)
      /\ busy' = [busy EXCEPT ![f] = Proved!Achieving(l)]
      /\ state' = [state EXCEPT ![f][l] = "ANNOUNCED"] /\ life' = life
  BY <1>3, <1>6, <1>7 DEF Proved!AchieveFrom, Proved!SetState
<1>9. Reached(l, members[l], achieved[l] \cup {f})
  <2>1. members[l] \in SUBSET Federates /\ achieved[l] \cup {f} \in SUBSET members[l]
    BY <1>4, <1>5 DEF Proved!TypeOK, Proved!RtiInv, Proved!Awaited
  <2> QED BY <1>4, <1>8, <2>1, SettleReached
<1>10. ASSUME NEW k \in Labels, Idle(k)
       PROVE  Idle(k)'
  <2>1. k # l
    BY <1>5, <1>10 DEF Idle, Active, Proved!Active, Proved!Awaited
  <2>2. state'[Master][k] = state[Master][k] /\ members'[k] = members[k]
    BY <1>4, <1>8, <1>9, <2>1 DEF Proved!TypeOK, Reached
  <2>3. busy'[Master] # Proved!Registering(k)
    <3>1. busy'[Master] = busy[Master] \/ busy'[Master] = Proved!Achieving(l)
      BY <1>4, <1>8 DEF Proved!TypeOK
    <3> QED BY <1>10, <3>1, Proved!CallsDiffer DEF Idle
  <2> QED BY <1>10, <2>2, <2>3, StaysIdle
<1> QED BY <1>2, <1>5, <1>8, <1>9, <1>10 DEF IdleKept, Proved!Awaited

LEMMA DropPoints ==
  ASSUME FreezeAssumption, Proved!IndInv, NEW f \in Federates, NEW l \in Labels, SP!Drop(f, l)
  PROVE  /\ Proved!IndInv' /\ life' = life /\ IdleKept
         /\ life[f] = "gone" /\ f \in members[l]
         /\ Reached(l, members[l] \ {f}, achieved[l] \ {f})
<1> USE Constants
<1>1. Proved!Drop(f, l) /\ Proved!TypeOK /\ Proved!RtiInv
  BY SameReturns DEF Proved!IndInv
<1>2. Proved!IndInv'
  <2>1. Proved!Next
    BY <1>1 DEF Proved!Next
  <2> QED BY <2>1, Proved!StepInv
<1>3. /\ life[f] = "gone" /\ f \in members[l] /\ UNCHANGED <<life, state, busy>>
      /\ Proved!Settle(l, members[l] \ {f}, achieved[l] \ {f}, inbox)
  BY <1>1 DEF Proved!Drop
<1>4. Reached(l, members[l] \ {f}, achieved[l] \ {f})
  <2>1. members[l] \ {f} \in SUBSET Federates /\ achieved[l] \ {f} \in SUBSET (members[l] \ {f})
    BY <1>1 DEF Proved!TypeOK, Proved!RtiInv
  <2> QED BY <1>1, <1>3, <2>1, SettleReached
<1>5. ASSUME NEW k \in Labels, Idle(k)
      PROVE  Idle(k)'
  <2>1. k # l
    BY <1>3, <1>5 DEF Idle, Active, Proved!Active
  <2>2. members'[k] = members[k]
    BY <1>4, <2>1 DEF Reached
  <2> QED BY <1>3, <1>5, <2>2 DEF Idle, Active, Proved!Active
<1> QED BY <1>2, <1>3, <1>4, <1>5 DEF IdleKept

LEMMA LeavePoints ==
  ASSUME FreezeAssumption, Proved!IndInv, NEW f \in Federates, SP!Leave(f)
  PROVE  /\ Proved!IndInv' /\ UNCHANGED <<members, achieved>>
         /\ In' = In \ {f} /\ life' = [life EXCEPT ![f] = "gone"]
         /\ f # Master => IdleKept
<1> USE Constants
<1>1. Proved!Leave(f) /\ Proved!TypeOK
  BY SameTerms DEF Proved!IndInv
<1>2. Proved!IndInv'
  <2>1. Proved!Next
    BY <1>1 DEF Proved!Next
  <2> QED BY <2>1, Proved!StepInv
<1>3. /\ life' = [life EXCEPT ![f] = "gone"] /\ busy' = [busy EXCEPT ![f] = Proved!NoCall]
      /\ UNCHANGED <<members, achieved, state>>
  BY <1>1 DEF Proved!Leave, Proved!rtiVars
<1>4. In' = In \ {f}
  BY <1>1, <1>3 DEF In, Proved!In, Proved!TypeOK
<1>5. ASSUME NEW k \in Labels, Idle(k), f # Master
      PROVE  Idle(k)'
  <2>1. busy'[Master] = busy[Master]
    BY <1>1, <1>3, <1>5 DEF Proved!TypeOK
  <2> QED BY <1>3, <1>5, <2>1, StaysIdle DEF Idle
<1> QED BY <1>2, <1>3, <1>4, <1>5 DEF IdleKept

LEMMA CallbackPoints ==
  ASSUME FreezeAssumption, Proved!IndInv, NEW f \in Federates, NEW l \in Labels,
         SP!OnRegistered(f, l) \/ SP!OnAnnounced(f, l) \/ SP!OnSynchronized(f, l)
  PROVE  PointsStay
<1> USE Constants
<1>0. Proved!TypeOK
  BY DEF Proved!IndInv
<1>1. Proved!Callback(f, l)
  BY SameCallbacks DEF Proved!Callback
<1>2. Proved!IndInv'
  <2>1. Proved!Next
    BY <1>1 DEF Proved!Next
  <2> QED BY <2>1, Proved!StepInv
<1>3. PICK t \in {"registered", "announced", "synchronized"}, s \in Proved!States :
        Proved!Arrives(f, t, l) /\ Proved!Mark(f, l, s)
  BY SameCallbacks
     DEF Proved!OnRegistered, Proved!OnAnnounced, Proved!OnSynchronized, Proved!States
<1>4. /\ UNCHANGED <<life, members, achieved, busy>> /\ life[f] = "in"
      /\ state' = [state EXCEPT ![f][l] = s]
  BY <1>3 DEF Proved!Mark, Proved!rtiVars, Proved!SetState, Proved!Arrives, Proved!Free
<1>5. Proved!Pending(f, t, l)
  <2>1. inbox[f] \in Seq(Proved!Messages) /\ inbox[f] # <<>> /\ Head(inbox[f]) = Proved!Msg(t, l)
    BY <1>0, <1>3 DEF Proved!TypeOK, Proved!Arrives
  <2>2. 1 \in 1..Len(inbox[f]) /\ inbox[f][1] = Proved!Msg(t, l)
    BY <2>1
  <2> QED BY <2>2 DEF Proved!Pending, Proved!InQueue
<1>6. ASSUME NEW k \in Labels, Idle(k)
      PROVE  Idle(k)'
  <2>1. ~(f = Master /\ k = l)
    BY <1>4, <1>5, <1>6, IdleQuiet
  <2>2. state'[Master][k] = state[Master][k]
    BY <1>0, <1>4, <2>1 DEF Proved!TypeOK
  <2> QED BY <1>4, <1>6, <2>2, StaysIdle DEF Idle
<1> QED BY <1>2, <1>4, <1>6 DEF PointsStay, SameMembers, IdleKept

LEMMA ReturnPoints ==
  ASSUME FreezeAssumption, Proved!IndInv, NEW f \in Federates, NEW l \in Labels,
         SP!RegisterReturn(f, l) \/ SP!AchieveReturn(f, l)
  PROVE  PointsStay
<1> USE Constants
<1>0. Proved!TypeOK
  BY DEF Proved!IndInv
<1>1. Proved!RegisterReturn(f, l) \/ Proved!AchieveReturn(f, l)
  BY SameReturns
<1>2. Proved!IndInv'
  <2>1. Proved!Next
    BY <1>1 DEF Proved!Next
  <2> QED BY <2>1, Proved!StepInv
<1>3. PICK s :
      /\ UNCHANGED <<life, members, achieved>> /\ life[f] = "in"
      /\ busy[f] = Proved!Registering(l) \/ busy[f] = Proved!Achieving(l)
      /\ state' = [state EXCEPT ![f][l] = s]
      /\ busy' = [busy EXCEPT ![f] = Proved!NoCall]
  BY <1>1 DEF Proved!RegisterReturn, Proved!AchieveReturn, Proved!rtiVars, Proved!SetState
<1>4. ASSUME NEW k \in Labels, Idle(k)
      PROVE  Idle(k)'
  <2>1. ~(f = Master /\ k = l)
    BY <1>3, <1>4, IdleQuiet DEF Idle
  <2>2. state'[Master][k] = state[Master][k]
    BY <1>0, <1>3, <2>1 DEF Proved!TypeOK
  <2>3. busy'[Master] # Proved!Registering(k)
    <3>1. busy'[Master] = busy[Master] \/ busy'[Master] = Proved!NoCall
      BY <1>0, <1>3 DEF Proved!TypeOK
    <3> QED BY <1>4, <3>1, Proved!CallsDiffer DEF Idle
  <2> QED BY <1>3, <1>4, <2>2, <2>3, StaysIdle
<1> QED BY <1>2, <1>3, <1>4 DEF PointsStay, SameMembers, IdleKept

\* The state of a point in a federate that is in no call.
LEMMA SynchronizedIsIdle ==
  ASSUME FreezeAssumption, Proved!IndInv, NEW f \in Federates, NEW l \in Labels,
         SP!Free(f), Is(f, l, "SYNCHRONIZED")
  PROVE  /\ f \notin achieved[l]
         /\ f = Master => Idle(l)
<1> USE Constants
<1>1. life[f] = "in" /\ busy[f] = Proved!NoCall /\ state[f][l] = "SYNCHRONIZED"
  BY SameTerms DEF Is, Proved!Free
<1>2. Proved!MemberInv(f, l) /\ Proved!RegistrarInv(f, l)
  BY <1>1, PointFacts
<1>3. ~Proved!Held(f, l)
  BY <1>1, Proved!CallsDiffer DEF Proved!Held
<1>4. f \notin achieved[l]
  BY <1>2, <1>3 DEF Proved!MemberInv
<1>5. ASSUME f = Master
      PROVE  Idle(l)
  <2>1. f = [k \in Labels |-> Master][l]
    BY <1>5
  <2>2. ~Proved!Pending(f, "announced", l)
    BY <1>1, <1>2, <2>1, Proved!CallsDiffer DEF Proved!RegistrarInv
  <2>3. f \notin members[l]
    <3>1. l \in [g \in Federates |-> Labels][f]
      OBVIOUS
    <3> QED BY <1>1, <1>2, <1>4, <2>2, <3>1
            DEF Proved!MemberInv, Proved!Awaited, Proved!Overlooked
  <2>4. ~Proved!Active(l)
    BY <1>2, <2>1, <2>3 DEF Proved!RegistrarInv
  <2> QED BY <1>1, <1>5, <2>4, Proved!CallsDiffer DEF Idle, Active
<1> QED BY <1>4, <1>5

-----------------------------------------------------------------------------
(* Queues and times.                                                       *)

LEMMA NoneAppend ==
  ASSUME NEW T, NEW q \in Seq(T), NEW e \in T, NEW S, None(q, S), e \notin S
  PROVE  None(Append(q, e), S)
BY DEF None

LEMMA OneKept ==
  ASSUME NEW T, NEW q \in Seq(T), NEW e \in T, NEW S, NEW D, One(q, S, D), e \notin S
  PROVE  One(Append(q, e), S, D)
<1>1. PICK k \in 1..Len(q) : q[k] \in D /\ \A i \in 1..Len(q) : i # k => q[i] \notin S
  BY DEF One
<1>2. k \in 1..Len(Append(q, e)) /\ Append(q, e)[k] \in D
      /\ \A i \in 1..Len(Append(q, e)) : i # k => Append(q, e)[i] \notin S
  BY <1>1
<1> QED BY <1>2 DEF One

LEMMA OneAppend ==
  ASSUME NEW T, NEW q \in Seq(T), NEW e \in T, NEW S, NEW D, None(q, S), e \in D
  PROVE  One(Append(q, e), S, D)
<1>1. Len(q) + 1 \in 1..Len(Append(q, e)) /\ Append(q, e)[Len(q) + 1] = e
      /\ \A i \in 1..Len(Append(q, e)) : i # Len(q) + 1 => Append(q, e)[i] = q[i] /\ i \in 1..Len(q)
  OBVIOUS
<1> QED BY <1>1 DEF One, None

LEMMA NoneTail ==
  ASSUME NEW T, NEW q \in Seq(T), q # <<>>, NEW S, None(q, S)
  PROVE  /\ Head(q) \in T /\ Tail(q) \in Seq(T)
         /\ Head(q) \notin S /\ None(Tail(q), S)
BY DEF None

LEMMA OneTail ==
  ASSUME NEW T, NEW q \in Seq(T), q # <<>>, NEW S, NEW D, D \subseteq S, One(q, S, D)
  PROVE  /\ Head(q) \in T /\ Tail(q) \in Seq(T)
         /\ \/ Head(q) \in D /\ None(Tail(q), S)
            \/ Head(q) \notin S /\ One(Tail(q), S, D)
<1>1. PICK k \in 1..Len(q) : q[k] \in D /\ \A i \in 1..Len(q) : i # k => q[i] \notin S
  BY DEF One
<1>2. /\ Head(q) = q[1] /\ Head(q) \in T /\ Tail(q) \in Seq(T) /\ Len(Tail(q)) = Len(q) - 1
      /\ \A i \in 1..Len(Tail(q)) : Tail(q)[i] = q[i + 1] /\ i + 1 \in 1..Len(q)
  OBVIOUS
<1>3. CASE k = 1
  BY <1>1, <1>2, <1>3 DEF None
<1>4. CASE k # 1
  <2> DEFINE j == k - 1
  <2>0. k \in Nat /\ k <= Len(q) /\ Len(q) \in Nat /\ k >= 1
    BY <1>1
  <2>1. j \in 1..Len(Tail(q)) /\ j + 1 = k
    BY <1>2, <1>4, <2>0
  <2>2. Tail(q)[j] = q[k]
    BY <1>2, <2>1
  <2>3. \A i \in 1..Len(Tail(q)) : i # j => Tail(q)[i] \notin S
    <3> SUFFICES ASSUME NEW i \in 1..Len(Tail(q)), i # j  PROVE Tail(q)[i] \notin S
      OBVIOUS
    <3>1. Tail(q)[i] = q[i + 1] /\ i + 1 \in 1..Len(q) /\ i + 1 # k
      BY <1>2, <2>0
    <3> QED BY <1>1, <3>1
  <2>4. Head(q) \notin S
    <3>1. 1 \in 1..Len(q)
      BY <2>0
    <3> QED BY <1>1, <1>2, <1>4, <3>1
  <2>5. One(Tail(q), S, D)
    <3>1. Tail(q)[j] \in D
      BY <1>1, <2>2
    <3> HIDE DEF j
    <3> QED BY <2>1, <2>3, <3>1 DEF One
  <2> QED BY <1>2, <2>4, <2>5
<1> QED BY <1>3, <1>4

LEMMA OneIsMore ==
  ASSUME NEW q, NEW S, NEW D, D \subseteq S, One(q, S, D), q = <<>> \/ None(q, S)
  PROVE  FALSE
BY DEF One, None

LEMMA Division ==
  ASSUME NEW c \in Nat \ {0}, NEW x \in Nat
  PROVE  /\ x \div c \in Nat /\ x % c \in 0..(c - 1)
         /\ x - c * (x \div c) = x % c
<1>1. x \div c \in Nat /\ x % c \in 0..(c - 1)
  OBVIOUS
<1>2. x - c * (x \div c) = x % c
  OBVIOUS
<1> QED BY <1>1, <1>2

LEMMA MultipleOf ==
  ASSUME NEW c \in Nat \ {0}, NEW x \in Nat
  PROVE  Multiple(c, x) <=> \E k \in Nat : x = k * c
<1>1. ASSUME x % c = 0 PROVE x = (x \div c) * c
  BY <1>1, Division
<1>2. ASSUME NEW k \in Nat, x = k * c PROVE x % c = 0
  BY <1>2
<1> QED BY <1>1, <1>2, Division DEF Multiple

LEMMA MultiplePlus ==
  ASSUME NEW c \in Nat \ {0}, NEW x \in Nat, NEW y \in Nat, Multiple(c, x), Multiple(c, y)
  PROVE  Multiple(c, x + y)
<1>1. PICK j \in Nat, k \in Nat : x = j * c /\ y = k * c
  BY MultipleOf
<1>2. x + y = (j + k) * c /\ j + k \in Nat
  BY <1>1
<1> QED BY <1>2, MultipleOf

LEMMA MultipleItself ==
  ASSUME NEW c \in Nat \ {0} PROVE Multiple(c, c) /\ Multiple(c, 0)
<1>1. c = 1 * c /\ 0 = 0 * c
  OBVIOUS
<1> QED BY <1>1, MultipleOf

LEMMA MultipleGap ==
  ASSUME NEW c \in Nat \ {0}, NEW x \in Nat, NEW y \in Nat,
         Multiple(c, x), Multiple(c, y), x < y
  PROVE  x + c <= y
<1>1. PICK j \in Nat, k \in Nat : x = j * c /\ y = k * c
  BY MultipleOf
<1>2. j < k
  BY <1>1
<1>3. (j + 1) * c <= k * c
  BY <1>2
<1> QED BY <1>1, <1>3

LEMMA MultipleTrans ==
  ASSUME NEW c \in Nat \ {0}, NEW d \in Nat \ {0}, NEW x \in Nat,
         Multiple(c, d), Multiple(d, x)
  PROVE  Multiple(c, x)
<1>1. PICK j \in Nat, k \in Nat : d = j * c /\ x = k * d
  BY MultipleOf
<1>2. x = (k * j) * c /\ k * j \in Nat
  BY <1>1
<1> QED BY <1>2, MultipleOf

\* The steps of the federates, and the common times.
LEMMA Steps ==
  ASSUME FreezeAssumption, NEW f \in Federates
  PROVE  Step[f] \in Nat \ {0} /\ Multiple(Step[f], LCTS) /\ Step[f] <= LCTS
<1>1. Step[f] \in Nat \ {0} /\ LCTS \in Nat \ {0} /\ Multiple(Step[f], LCTS)
  BY ModesAssumption DEF Multiple
<1>2. 0 + Step[f] <= LCTS
  BY <1>1, MultipleItself, MultipleGap
<1> QED BY <1>1, <1>2

LEMMA Commons ==
  ASSUME FreezeAssumption, NEW t \in Nat
  PROVE  NextCommon(t) \in Nat /\ Multiple(LCTS, NextCommon(t)) /\ t <= NextCommon(t)
<1> DEFINE q == (t + LCTS - 1) \div LCTS
<1>0. LCTS \in Nat \ {0} /\ t + LCTS - 1 \in Nat
  BY Constants
<1>1. /\ q \in Nat /\ (t + LCTS - 1) % LCTS \in 0..(LCTS - 1)
      /\ (t + LCTS - 1) - LCTS * q = (t + LCTS - 1) % LCTS
  BY <1>0, Division
<1>2. q * LCTS \in Nat /\ Multiple(LCTS, q * LCTS)
  BY <1>0, <1>1, MultipleOf
<1>3. t <= q * LCTS
  BY <1>0, <1>1
<1> QED BY <1>2, <1>3 DEF NextCommon

\* One more step does not miss a common time.
LEMMA StepFits ==
  ASSUME FreezeAssumption, NEW f \in Federates, NEW t \in Nat, NEW at \in Nat,
         Multiple(Step[f], t), Multiple(LCTS, at), t < at
  PROVE  t + Step[f] <= at
<1>1. Step[f] \in Nat \ {0} /\ Multiple(Step[f], LCTS) /\ LCTS \in Nat \ {0}
  BY Steps, Constants
<1>2. Multiple(Step[f], at)
  BY <1>1, MultipleTrans
<1> QED BY <1>1, <1>2, MultipleGap

\* The next common time but one.
LEMMA CommonGap ==
  ASSUME FreezeAssumption, NEW old \in Nat, NEW at \in Nat,
         Multiple(LCTS, old), Multiple(LCTS, at), old + LCTS < at
  PROVE  old + 2 * LCTS <= at
<1>1. LCTS \in Nat \ {0}
  BY Constants
<1>2. Multiple(LCTS, old + LCTS)
  BY <1>1, MultiplePlus, MultipleItself
<1>3. (old + LCTS) + LCTS <= at
  BY <1>1, <1>2, MultipleGap
<1> QED BY <1>1, <1>3


-----------------------------------------------------------------------------
(* What a step leaves alone.                                               *)

\* What the phases look at in a federate: but for its wire, on which other
\* updates may be put.
View(g) == <<pc[g], time[g], mode[g], sched[g], queue[g], exco.at>>
Sent(g) ==
  \/ wire'[g] = wire[g]
  \/ \E e \in Sends \ FreezeSends : wire'[g] = Append(wire[g], e)
Achieved(g) == g \in achieved[MtrRun]

LEMMA QueuesKept ==
  ASSUME NEW g, wire[g] \in Seq(Sends), Sent(g), queue'[g] = queue[g], exco'.at = exco.at
  PROVE  /\ NoneSent(g) => NoneSent(g)'
         /\ NoneTold(g)' <=> NoneTold(g)
         /\ OneSent(g) => OneSent(g)'
         /\ OneTold(g)' <=> OneTold(g)
<1>1. DueUpdates' = DueUpdates /\ DueSends' = DueSends
  BY DEF DueUpdates, DueSends
<1>2. CASE wire'[g] = wire[g]
  BY <1>1, <1>2 DEF NoneSent, NoneTold, OneSent, OneTold
<1>3. CASE \E e \in Sends \ FreezeSends : wire'[g] = Append(wire[g], e)
  <2>1. PICK e \in Sends \ FreezeSends : wire'[g] = Append(wire[g], e)
    BY <1>3
  <2>2. NoneSent(g) => NoneSent(g)'
    BY <2>1, NoneAppend DEF NoneSent
  <2>3. OneSent(g) => OneSent(g)'
    BY <1>1, <2>1, OneKept DEF OneSent
  <2> QED BY <1>1, <2>2, <2>3 DEF NoneTold, OneTold
<1> QED BY <1>2, <1>3 DEF Sent

LEMMA ViewKept ==
  ASSUME NEW g, View(g)' = View(g), wire[g] \in Seq(Sends), Sent(g),
         Achieved(g) => Achieved(g)'
  PROVE  /\ Clear(g) => Clear(g)'
         /\ Unasked(g) => Unasked(g)'
         /\ Before(g) => Before(g)'
         /\ Stage(g) => Stage(g)'
         /\ Firm(g) => Firm(g)'
<1>1. /\ pc'[g] = pc[g] /\ time'[g] = time[g] /\ mode'[g] = mode[g] /\ sched'[g] = sched[g]
      /\ queue'[g] = queue[g] /\ exco'.at = exco.at
  BY DEF View
<1>2. /\ NoneSent(g) => NoneSent(g)'
      /\ NoneTold(g)' <=> NoneTold(g)
      /\ OneSent(g) => OneSent(g)'
      /\ OneTold(g)' <=> OneTold(g)
  BY <1>1, QueuesKept
<1>3. (Unasked(g) => Unasked(g)') /\ (Before(g) => Before(g)') /\ (Stopped(g)' <=> Stopped(g))
  BY <1>1, <1>2 DEF Unasked, Before, Stopped
<1>4. AtFreeze(g) => AtFreeze(g)'
  BY <1>1, <1>3 DEF AtFreeze, Achieved
<1>5. StageSent(g) => StageSent(g)'
  BY <1>1, <1>2, <1>3 DEF StageSent
<1>6. StageTold(g) => StageTold(g)'
  BY <1>1, <1>2, <1>3 DEF StageTold
<1>7. StageDue(g) => StageDue(g)'
  BY <1>1, <1>2, <1>3 DEF StageDue
<1>8. (Gone(g) => Gone(g)') /\ (Ending(g) => Ending(g)')
  BY <1>1 DEF Gone, Ending
<1> QED BY <1>1, <1>3, <1>4, <1>5, <1>6, <1>7, <1>8 DEF Clear, Stage, Firm

\* A step that takes nobody back from a request for time.
LEMMA TimeKept ==
  ASSUME FreezeAssumption, TypeInv, TimeInv, In' \subseteq In, In \subseteq Federates,
         time' = time, Multiple(LCTS, exco'.at),
         \A g \in In' : HasAsked(g) => HasAsked(g)',
         \A g \in In' : pc'[g] = "running" => pc[g] = "running"
  PROVE  TimeInv'
<1>1. \A f \in Federates : Multiple(Step[f], time'[f])
  BY DEF TimeInv
<1>2. ASSUME NEW f \in In', NEW g \in In', f # g
      PROVE  time'[f] < time'[g] + Step[g] + Ahead(g)'
  <2>1. Step[g] \in Nat /\ time[g] \in Nat /\ time[f] \in Nat
    BY Steps DEF TypeInv
  <2>2. time[f] < time[g] + Step[g] + Ahead(g)
    BY <1>2 DEF TimeInv
  <2>3. Ahead(g) \in Nat /\ Ahead(g)' \in Nat /\ Ahead(g) <= Ahead(g)'
    BY <2>1 DEF Ahead
  <2> QED BY <2>1, <2>2, <2>3
<1>3. \A f, g \in In' : pc'[f] = "running" /\ pc'[g] = "running" => time'[f] = time'[g]
  BY DEF TimeInv
<1> QED BY <1>1, <1>2, <1>3 DEF TimeInv

\* The places where a point is waited for.
AtRun(f) == pc[f] \in {"run", "running"}
LEMMA PointsKept ==
  ASSUME PointsInv, SameMembers, IdleKept, In' \subseteq In, Labels = {MtrRun, MtrFreeze, MtrShutdown},
         pc'[Master] # "down" => pc[Master] # "down",
         pc[Master] = "close" => pc'[Master] = "close",
         AtRun(Master)' <=> AtRun(Master),
         mode'[Master] = "FREEZE" => mode[Master] = "FREEZE",
         \A f \in In' : pc[f] \in {"freezing", "running"} => pc'[f] = pc[f]
  PROVE  PointsInv'
<1>0. Active(MtrRun)' <=> Active(MtrRun)
  BY DEF SameMembers, Active, Proved!Active
<1>00. Active(MtrFreeze)' <=> Active(MtrFreeze)
  BY DEF SameMembers, Active, Proved!Active
<1>1. pc'[Master] # "down" =>
       /\ pc'[Master] # "close" => Idle(MtrShutdown)'
       /\ pc'[Master] \notin {"run", "running"} => Idle(MtrRun)'
       /\ mode'[Master] = "FREEZE" => Idle(MtrFreeze)'
  BY DEF PointsInv, IdleKept, AtRun
<1>2. Active(MtrRun)' => pc'[Master] \in {"run", "running"}
  BY <1>0 DEF PointsInv, AtRun
<1>3. mode'[Master] = "FREEZE" => ~Active(MtrFreeze)'
  BY <1>00 DEF PointsInv
<1>4. \A f \in In' :
       /\ f \in achieved'[MtrFreeze] => pc'[f] = "freezing"
       /\ f \in achieved'[MtrRun] => pc'[f] = "running"
  BY DEF PointsInv, SameMembers
<1>5. \A l \in {MtrFreeze, MtrRun} : Active(l)' => In' \subseteq members'[l]
  BY DEF PointsInv, SameMembers, Active, Proved!Active
<1> QED BY <1>1, <1>2, <1>3, <1>4, <1>5 DEF PointsInv

\* The requests of the master, as a step of another federate leaves them.
LEMMA RequestsKept ==
  ASSUME UNCHANGED <<exco, wanted, requests>>, pc'[Master] = pc[Master]
  PROVE  (ActingInv => ActingInv') /\ (RequestsInv => RequestsInv')
<1>1. UNCHANGED <<exco, wanted, mtr, calling, cmd, left>>
  BY DEF requests
<1>2. ActingInv => ActingInv'
  BY <1>1 DEF ActingInv, IsValid
<1>3. RequestsInv => RequestsInv'
  BY <1>1 DEF RequestsInv, FreezeByMtr, FreezeByPanel, FreezeOnce, Asked
<1> QED BY <1>2, <1>3

\* The phases, when the master stays where it is.
MasterStays ==
  /\ UNCHANGED <<exco, wanted, requests>>
  /\ pc'[Master] = pc[Master] /\ time'[Master] = time[Master] /\ mode'[Master] = mode[Master]
LEMMA OthersPhase ==
  ASSUME Phase, MasterStays, IdleKept, Labels = {MtrRun, MtrFreeze, MtrShutdown},
         Active(MtrFreeze)' <=> Active(MtrFreeze), Active(MtrRun)' <=> Active(MtrRun),
         ClearPhase => \A g \in In' : Clear(g)',
         SetPhase => \A g \in In' : Unasked(g)' /\ Before(g)',
         ComingPhase => \A g \in In' : Stage(g)' /\ (Firm(g) => Firm(g)'),
         In' \subseteq In
  PROVE  Phase'
<1>1. /\ UNCHANGED <<exco, wanted, mtr, calling, cmd, left>>
      /\ pc'[Master] = pc[Master] /\ time'[Master] = time[Master] /\ mode'[Master] = mode[Master]
  BY DEF requests, MasterStays
<1>2. Idle(MtrFreeze) => Idle(MtrFreeze)'
  BY DEF IdleKept
<1>3. (FreezeByMtr' <=> FreezeByMtr) /\ (NoOther' <=> NoOther)
  BY <1>1 DEF FreezeByMtr, FreezeByPanel, FreezeOnce, Asked, NoOther
<1>4. ClearPhase => ClearPhase'
  BY <1>1, <1>2 DEF ClearPhase, ClearMaster
<1>5. SetPhase => SetPhase'
  BY <1>1, <1>2, <1>3 DEF SetPhase, SetMaster
<1>6. ComingPhase => ComingPhase'
  <2>1. ASSUME ComingPhase
        PROVE  /\ \A g \in In' : Stage(g)'
               /\ Active(MtrFreeze)' \/ \A g \in In' : Firm(g)'
    BY <2>1 DEF ComingPhase
  <2> QED BY <1>1, <1>3, <2>1 DEF ComingPhase, ComingMaster
<1> QED BY <1>4, <1>5, <1>6 DEF Phase

\* A step of another federate that touches nothing but its own.
Touches(f) ==
  \A g \in Federates \ {f} :
    /\ pc'[g] = pc[g] /\ time'[g] = time[g] /\ mode'[g] = mode[g] /\ sched'[g] = sched[g]
    /\ stop'[g] = stop[g] /\ wire'[g] = wire[g] /\ queue'[g] = queue[g]
LEMMA OtherSteps ==
  ASSUME FreezeAssumption, Inv, NEW f \in Others, Touches(f), UNCHANGED <<exco, wanted, requests>>,
         Proved!IndInv', IdleKept, In' \subseteq In,
         Active(MtrFreeze)' <=> Active(MtrFreeze), Active(MtrRun)' <=> Active(MtrRun),
         \A g \in In \ {f} : Achieved(g) => Achieved(g)',
         TypeInv', OtherPlace(f)', TimeInv', PointsInv',
         \A g \in Federates : life'[g] = "in" <=> pc'[g] # "down",
         f \in In' /\ ClearPhase => Clear(f)',
         f \in In' /\ SetPhase => Unasked(f)' /\ Before(f)',
         f \in In' /\ ComingPhase => Stage(f)' /\ (Firm(f) => Firm(f)')
  PROVE  Inv'
<1> USE Constants
<1>1. MasterStays
  BY DEF MasterStays, Touches, Others
<1>2. ActingInv' /\ RequestsInv'
  BY <1>1, RequestsKept DEF MasterStays, Inv, BaseInv
<1>3. PlacesInv'
  <2>1. ASSUME NEW g \in Others
        PROVE  OtherPlace(g)'
    BY DEF Inv, BaseInv, PlacesInv, OtherPlace, Touches, Others
  <2>2. wire'[Master] = wire[Master] /\ queue'[Master] = queue[Master]
    BY DEF Touches, Others
  <2> QED BY <1>1, <2>1, <2>2 DEF Inv, BaseInv, PlacesInv, MasterStays
<1>4. ASSUME NEW g \in In, g # f
      PROVE  /\ Clear(g) => Clear(g)'
             /\ Unasked(g) => Unasked(g)'
             /\ Before(g) => Before(g)'
             /\ Stage(g) => Stage(g)'
             /\ Firm(g) => Firm(g)'
  <2>1. View(g)' = View(g) /\ Sent(g)
    BY <1>4 DEF Touches, View, Sent, In, Proved!In
  <2>2. wire[g] \in Seq(Sends)
    BY DEF Inv, BaseInv, TypeInv, In, Proved!In
  <2> QED BY <1>4, <2>1, <2>2, ViewKept
<1>5. Phase'
  <2>1. ASSUME ClearPhase, NEW g \in In'
        PROVE  Clear(g)'
    BY <1>4, <2>1 DEF ClearPhase
  <2>2. ASSUME SetPhase, NEW g \in In'
        PROVE  Unasked(g)' /\ Before(g)'
    BY <1>4, <2>2 DEF SetPhase
  <2>3. ASSUME ComingPhase, NEW g \in In'
        PROVE  Stage(g)' /\ (Firm(g) => Firm(g)')
    BY <1>4, <2>3 DEF ComingPhase
  <2> QED BY <1>1, <2>1, <2>2, <2>3, OthersPhase DEF Inv
<1> QED BY <1>2, <1>3, <1>5 DEF Inv, BaseInv

\* A step of the master that touches nothing of the others, but sends them
\* updates that announce no freeze.
Spares ==
  \A g \in Federates \ {Master} :
    /\ pc'[g] = pc[g] /\ time'[g] = time[g] /\ mode'[g] = mode[g] /\ sched'[g] = sched[g]
    /\ stop'[g] = stop[g] /\ Sent(g) /\ queue'[g] = queue[g]
LEMMA MasterAt ==
  ASSUME FreezeAssumption, Inv, Spares, exco'.at = exco.at, exco'.cur = mode'[Master],
         mode'[Master] # "SHUTDOWN", life' = life,
         Proved!IndInv', \A g : Achieved(g) => Achieved(g)',
         Active(MtrFreeze)' <=> Active(MtrFreeze), Active(MtrRun)' <=> Active(MtrRun),
         TypeInv', ActingInv', RequestsInv', TimeInv', PointsInv',
         wire'[Master] = <<>>, queue'[Master] = <<>>,
         pc'[Master] \in Frame \cup Acts \cup Halts \cup (Ends \ {"down"}), pc[Master] # "down",
         pc'[Master] \in Frame \cup {"freeze", "freezing"} => mode'[Master] = "RUNNING",
         pc'[Master] \in {"frozen", "thaw", "run", "running"} => mode'[Master] = "FREEZE",
         ClearPhase => ClearMaster' /\ Clear(Master)',
         SetPhase => SetMaster' /\ Unasked(Master)' /\ Before(Master)',
         ComingPhase => ComingMaster' /\ Stage(Master)' /\ (Firm(Master) => Firm(Master)')
  PROVE  Inv'
<1> USE Constants
<1>0. In' = In /\ Master \notin Others /\ Others \subseteq Federates /\ In \subseteq Federates
  BY DEF Others, In, Proved!In
<1>2. PlacesInv'
  <2>1. ASSUME NEW g \in Others
        PROVE  OtherPlace(g)'
    BY DEF Inv, BaseInv, PlacesInv, OtherPlace, Spares, Others
  <2>2. ASSUME NEW g \in Federates
        PROVE  life'[g] = "in" <=> pc'[g] # "down"
    <3>1. CASE g = Master
      BY <3>1 DEF Inv, BaseInv, PlacesInv, Frame, Acts, Halts, Ends
    <3>2. CASE g # Master
      BY <3>2 DEF Inv, BaseInv, PlacesInv, Spares
    <3> QED BY <3>1, <3>2
  <2> QED BY <2>1, <2>2 DEF PlacesInv
<1>3. ASSUME NEW g \in In, g # Master
      PROVE  /\ Clear(g) => Clear(g)'
             /\ Unasked(g) => Unasked(g)'
             /\ Before(g) => Before(g)'
             /\ Stage(g) => Stage(g)'
             /\ Firm(g) => Firm(g)'
  <2>1. View(g)' = View(g) /\ Sent(g)
    BY <1>0, <1>3 DEF Spares, View
  <2>2. wire[g] \in Seq(Sends)
    BY <1>0 DEF Inv, BaseInv, TypeInv
  <2> QED BY <2>1, <2>2, ViewKept
<1>4. Phase'
  <2>1. ASSUME ClearPhase PROVE ClearPhase'
    BY <1>0, <1>3, <2>1 DEF ClearPhase
  <2>2. ASSUME SetPhase PROVE SetPhase'
    BY <1>0, <1>3, <2>2 DEF SetPhase
  <2>3. ASSUME ComingPhase PROVE ComingPhase'
    <3>1. \A g \in In' : Stage(g)' /\ (Firm(g) => Firm(g)')
      BY <1>0, <1>3, <2>3 DEF ComingPhase
    <3> QED BY <1>0, <2>3, <3>1 DEF ComingPhase
  <2> QED BY <2>1, <2>2, <2>3 DEF Inv, Phase
<1> QED BY <1>2, <1>4 DEF Inv, BaseInv

LEMMA MasterSteps ==
  ASSUME FreezeAssumption, Inv, Spares, exco'.at = exco.at, exco'.cur = mode'[Master],
         mode'[Master] # "SHUTDOWN", PointsStay, life' = life,
         TypeInv', ActingInv', RequestsInv', TimeInv', PointsInv',
         wire'[Master] = <<>>, queue'[Master] = <<>>,
         pc'[Master] \in Frame \cup Acts \cup Halts \cup (Ends \ {"down"}), pc[Master] # "down",
         pc'[Master] \in Frame \cup {"freeze", "freezing"} => mode'[Master] = "RUNNING",
         pc'[Master] \in {"frozen", "thaw", "run", "running"} => mode'[Master] = "FREEZE",
         ClearPhase => ClearMaster' /\ Clear(Master)',
         SetPhase => SetMaster' /\ Unasked(Master)' /\ Before(Master)',
         ComingPhase => ComingMaster' /\ Stage(Master)' /\ (Firm(Master) => Firm(Master)')
  PROVE  Inv'
<1>1. /\ Active(MtrFreeze)' <=> Active(MtrFreeze)
      /\ Active(MtrRun)' <=> Active(MtrRun)
      /\ Proved!IndInv'
      /\ \A g : Achieved(g) => Achieved(g)'
  BY DEF PointsStay, SameMembers, Active, Proved!Active, Achieved
<1> QED BY <1>1, MasterAt

\* f moves from one place of a frame to another, or of the transitions.
LEMMA PcMoves ==
  ASSUME NEW f, UNCHANGED <<time, mode, sched, queue>>, exco'.at = exco.at,
         wire[f] \in Seq(Sends), Sent(f),
         Achieved(f) => Achieved(f)',
         Stopped(f)' <=> Stopped(f), pc'[f] = "running" <=> pc[f] = "running",
         pc'[f] \in {"tag", "cte"} => pc[f] \in {"tag", "cte"},
         pc[f] \in {"receive", "end", "eof"} => pc'[f] \in {"receive", "end", "eof"},
         pc[f] \in {"shutdown", "closing", "close"} => pc'[f] \in {"shutdown", "closing", "close"},
         pc[f] = "receive" => pc'[f] = "receive" \/ NoneTold(f)
  PROVE  /\ Clear(f) => Clear(f)'
         /\ Unasked(f) /\ Before(f) => Unasked(f)' /\ Before(f)'
         /\ Stage(f) => Stage(f)'
         /\ Firm(f) => Firm(f)'
<1>1. /\ NoneSent(f) => NoneSent(f)'
      /\ NoneTold(f)' <=> NoneTold(f)
      /\ OneSent(f) => OneSent(f)'
      /\ OneTold(f)' <=> OneTold(f)
  BY QueuesKept
<1>2. (Unasked(f) => Unasked(f)') /\ (Before(f) => Before(f)')
  BY <1>1 DEF Unasked, Before
<1>3. (AtFreeze(f) => AtFreeze(f)') /\ (Clear(f) => Clear(f)')
  BY <1>1, <1>2 DEF AtFreeze, Achieved, Clear
<1>4. StageSent(f) => StageSent(f)'
  BY <1>1, <1>2 DEF StageSent
<1>5. StageTold(f) => StageTold(f)'
  <2>1. OneTold(f) /\ NoneTold(f) => FALSE
    BY OneIsMore DEF OneTold, NoneTold, DueUpdates
  <2> QED BY <1>1, <1>2, <2>1 DEF StageTold
<1>6. StageDue(f) => StageDue(f)'
  BY <1>1 DEF StageDue
<1>7. (Gone(f) => Gone(f)') /\ (Ending(f) => Ending(f)')
  BY DEF Gone, Ending
<1> QED BY <1>2, <1>3, <1>4, <1>5, <1>6, <1>7 DEF Stage, Firm

-----------------------------------------------------------------------------
(* Requests.                                                               *)

\* Parts of the invariant.
LEMMA Parts ==
  ASSUME Inv
  PROVE  /\ Proved!IndInv /\ TypeInv /\ PlacesInv /\ ActingInv /\ RequestsInv /\ TimeInv
         /\ PointsInv /\ Phase
         /\ In \subseteq Federates /\ Proved!TypeOK
BY DEF Inv, BaseInv, In, Proved!In, Proved!IndInv

\* The master is in the federation unless it is down, and sends to the others only.
LEMMA MasterPlace ==
  ASSUME FreezeAssumption, Inv
  PROVE  /\ Master \in In <=> pc[Master] # "down"
         /\ exco.cur = mode[Master] /\ wire[Master] = <<>> /\ queue[Master] = <<>>
         /\ mode[Master] \in {"RUNNING", "FREEZE"}
         /\ time[Master] \in Nat /\ exco.at \in Nat
         /\ Multiple(LCTS, exco.at)
         /\ exco \in Updates /\ exco.next \in Modes
         /\ NoneSent(Master) /\ NoneTold(Master)
<1> USE Constants
<1>1. /\ pc[Master] # "down" <=> life[Master] = "in"
      /\ exco.cur = mode[Master] /\ wire[Master] = <<>> /\ queue[Master] = <<>>
      /\ mode[Master] \in {"RUNNING", "FREEZE"}
      /\ time[Master] \in Nat /\ exco.at \in Nat
      /\ exco \in Updates /\ exco.next \in Modes
  BY Parts DEF PlacesInv, TypeInv, Updates, Modes
<1>2. NoneSent(Master) /\ NoneTold(Master)
  BY <1>1 DEF NoneSent, NoneTold, None
<1> QED BY <1>1, <1>2, Parts DEF In, Proved!In, TimeInv

\* The stages the master can be in.
LEMMA MasterStage ==
  ASSUME FreezeAssumption, Inv, ComingPhase, pc[Master] # "down"
  PROVE  StageDue(Master) \/ AtFreeze(Master) \/ Gone(Master)
<1>1. Stage(Master) /\ wire[Master] = <<>> /\ queue[Master] = <<>> /\ mode[Master] # "SHUTDOWN"
  BY MasterPlace DEF ComingPhase
<1>2. ~OneSent(Master) /\ ~OneTold(Master)
  BY <1>1 DEF OneSent, OneTold, One
<1> QED BY <1>1, <1>2 DEF Stage, StageSent, StageTold, Ending

\* Steps that only change the requests.
LEMMA RequestSteps ==
  ASSUME FreezeAssumption, Inv,
         UNCHANGED <<syncVars, pc, time, mode, wanted, trick, exco, wire, queue>>,
         TypeInv', ActingInv', RequestsInv',
         ClearPhase /\ pc[Master] = "eof" => cmd' # "freeze",
         ClearPhase /\ pc[Master] = "act" => mtr'.pending # "to_freeze",
         SetMaster => mtr'.pending = "to_freeze" /\ FreezeByMtr',
         pc[Master] = "eof" => cmd' # "freeze" \/ cmd = "freeze",
         mode[Master] = "RUNNING" /\ NoOther => NoOther'
  PROVE  Inv'
<1> USE Constants, Parts
<1>1. PointsStay
  BY PointsSame
<1>2. /\ Proved!IndInv' /\ In' = In /\ SameMembers
      /\ UNCHANGED <<life, members, achieved, sched, stop>>
      /\ \A l : Idle(l)' <=> Idle(l)
      /\ \A l : Active(l)' <=> Active(l)
  BY <1>1 DEF PointsStay, SameMembers, syncVars, In, Proved!In, trick, Idle, Active, Proved!Active
<1>3. PlacesInv'
  BY <1>2 DEF PlacesInv, OtherPlace
<1>4. TimeInv'
  BY <1>2 DEF TimeInv, Ahead, HasAsked
<1>5. PointsInv'
  BY <1>2 DEF PointsInv
<1>6. ASSUME NEW g \in In
      PROVE  /\ Clear(g) => Clear(g)'
             /\ Unasked(g) => Unasked(g)'
             /\ Before(g) => Before(g)'
             /\ Stage(g) => Stage(g)'
             /\ Firm(g) => Firm(g)'
  <2>1. View(g)' = View(g) /\ Sent(g) /\ (Achieved(g) => Achieved(g)')
    BY <1>2 DEF View, Sent, Achieved
  <2>2. wire[g] \in Seq(Sends)
    BY DEF TypeInv
  <2> QED BY <2>1, <2>2, ViewKept
<1>7. Phase'
  <2>1. ASSUME ClearPhase PROVE ClearPhase'
    BY <1>2, <1>6, <2>1 DEF ClearPhase, ClearMaster
  <2>2. ASSUME SetPhase PROVE SetPhase'
    BY <1>2, <1>6, <2>2 DEF SetPhase, SetMaster
  <2>3. ASSUME ComingPhase PROVE ComingPhase'
    <3>1. ComingMaster'
      BY <2>3 DEF ComingPhase, ComingMaster
    <3>2. \A g \in In' : Stage(g)' /\ (Firm(g) => Firm(g)')
      BY <1>2, <1>6, <2>3 DEF ComingPhase
    <3> QED BY <1>2, <2>3, <3>1, <3>2 DEF ComingPhase
  <2> QED BY <2>1, <2>2, <2>3 DEF Phase
<1> QED BY <1>2, <1>3, <1>4, <1>5, <1>7 DEF Inv, BaseInv

LEMMA RequestFlagInv ==
  ASSUME FreezeAssumption, Inv, NEW m \in Mtrs, RequestFlag(m)
  PROVE  Inv'
<1> USE Constants, Parts
<1>1. /\ calling = NoRequest /\ left[m] > 0 /\ left' = [left EXCEPT ![m] = @ - 1]
      /\ \/ IsValid(m) /\ mtr' = [mtr EXCEPT !.flag = TRUE] /\ calling' = m
         \/ ~IsValid(m) /\ UNCHANGED <<mtr, calling>>
      /\ UNCHANGED <<syncVars, pc, time, mode, wanted, trick, exco, wire, queue, cmd>>
  BY DEF RequestFlag
<1>2. /\ exco.cur = mode[Master]
      /\ left \in [Requests -> Nat] /\ mtr \in [flag : BOOLEAN, pending : Asks, read : Asks]
  BY MasterPlace DEF TypeInv
<1>3. TypeInv'
  <2>1. left' \in [Requests -> Nat]
    BY <1>1, <1>2 DEF Requests
  <2>2. mtr' \in [flag : BOOLEAN, pending : Asks, read : Asks] /\ calling' \in Asks
    BY <1>1, <1>2 DEF Asks, TypeInv
  <2> QED BY <1>1, <2>1, <2>2 DEF TypeInv, trick
<1>4. ActingInv'
  BY <1>1, <1>2 DEF ActingInv, IsValid
<1>5. /\ mtr'.pending = mtr.pending /\ mtr'.read = mtr.read /\ cmd' = cmd /\ wanted' = wanted
      /\ \A r \in Requests : left'[r] = IF r = m THEN left[r] - 1 ELSE left[r]
      /\ \A r \in Mtrs : Asked(r)' => Asked(r) \/ (r = m /\ IsValid(m))
      /\ m \in Requests /\ left[m] \in Nat
  BY <1>1, <1>2 DEF Asked, Requests, Asks, NoRequest, Mtrs
<1>6. FreezeByMtr => FreezeByMtr'
  BY <1>1, <1>2, <1>5 DEF FreezeByMtr, Mtrs, Requests, Panel
<1>7. FreezeByPanel => FreezeByPanel'
  BY <1>1, <1>2, <1>5 DEF FreezeByPanel, Mtrs, Requests, Panel
<1>8. FreezeOnce => FreezeOnce'
  BY <1>1, <1>2, <1>5 DEF FreezeOnce, Mtrs, Requests, Panel
<1>9. mode[Master] = "RUNNING" /\ NoOther => NoOther'
  BY <1>1, <1>2, <1>5, <1>6, <1>7, <1>8
     DEF NoOther, IsValid, FreezeByMtr, FreezeByPanel, FreezeOnce, Mtrs, Requests, Panel
<1>10. RequestsInv'
  BY <1>6, <1>7, <1>8 DEF RequestsInv
<1>11. SetMaster => mtr'.pending = "to_freeze" /\ FreezeByMtr'
  BY <1>5, <1>6 DEF SetMaster
<1>12. /\ ClearPhase /\ pc[Master] = "eof" => cmd' # "freeze"
       /\ ClearPhase /\ pc[Master] = "act" => mtr'.pending # "to_freeze"
  BY <1>5 DEF ClearPhase, ClearMaster
<1> QED BY <1>1, <1>3, <1>4, <1>5, <1>9, <1>10, <1>11, <1>12, RequestSteps

LEMMA RequestPendingInv ==
  ASSUME FreezeAssumption, Inv, NEW m \in Mtrs, RequestPending(m)
  PROVE  Inv'
<1> USE Constants, Parts
<1>1. /\ calling = m /\ calling' = NoRequest
      /\ \/ IsValid(m) /\ mtr' = [mtr EXCEPT !.pending = m]
         \/ ~IsValid(m) /\ UNCHANGED mtr
      /\ UNCHANGED <<syncVars, pc, time, mode, wanted, trick, exco, wire, queue, cmd, left>>
  BY DEF RequestPending
<1>2. exco.cur = mode[Master] /\ mtr \in [flag : BOOLEAN, pending : Asks, read : Asks]
  BY MasterPlace DEF TypeInv
<1>3. TypeInv'
  <2>1. mtr' \in [flag : BOOLEAN, pending : Asks, read : Asks] /\ calling' \in Asks
    BY <1>1, <1>2 DEF Asks
  <2> QED BY <1>1, <2>1 DEF TypeInv, trick
<1>4. ActingInv'
  BY <1>1, <1>2 DEF ActingInv, IsValid
<1>5. /\ mtr'.flag = mtr.flag /\ mtr'.read = mtr.read /\ UNCHANGED <<cmd, wanted, left>>
      /\ mtr'.pending = mtr.pending \/ (mtr'.pending = m /\ IsValid(m))
      /\ \A r \in Mtrs : Asked(r)' => Asked(r)
  BY <1>1, <1>2 DEF Asked, Asks, NoRequest, Mtrs
<1>6. (FreezeByMtr => FreezeByMtr') /\ (FreezeByPanel => FreezeByPanel')
      /\ (FreezeOnce => FreezeOnce')
  BY <1>5 DEF FreezeByMtr, FreezeByPanel, FreezeOnce, Mtrs
<1>7. NoOther => NoOther'
  BY <1>5, <1>6 DEF NoOther
<1>8. SetMaster => mtr'.pending = "to_freeze"
  BY <1>1, <1>2, <1>5 DEF SetMaster, FreezeByMtr, Asked, IsValid, Mtrs
<1>9. RequestsInv'
  BY <1>6 DEF RequestsInv
<1>10. SetMaster => mtr'.pending = "to_freeze" /\ FreezeByMtr'
  BY <1>6, <1>8 DEF SetMaster
<1>11. ClearPhase /\ pc[Master] = "eof" => cmd' # "freeze"
  BY <1>5 DEF ClearPhase, ClearMaster
<1>12. ASSUME ClearPhase, pc[Master] = "act"
       PROVE  mtr'.pending # "to_freeze"
  <2>1. mtr.pending # "to_freeze" /\ mode[Master] = "RUNNING"
    <3>1. Clear(Master) /\ ~Stopped(Master)
      BY <1>12, MasterPlace DEF ClearPhase, Clear
    <3> QED BY <1>2, <1>12, <3>1, MasterPlace DEF ClearPhase, ClearMaster, Stopped, Acts, Modes
  <2>2. mtr.pending = "to_shutdown"
    BY <1>2, <1>12, <2>1 DEF ActingInv, IsValid
  <2>3. ~Asked("to_freeze")
    BY <2>2 DEF Asked, RequestsInv, FreezeByMtr, FreezeByPanel, FreezeOnce
  <2> QED BY <1>1, <1>5, <2>1, <2>3 DEF Asked
<1> QED BY <1>1, <1>3, <1>4, <1>5, <1>7, <1>9, <1>10, <1>11, <1>12, RequestSteps

\* The freeze button and the exit button.
LEMMA PressInv ==
  ASSUME FreezeAssumption, Inv, PressFreeze \/ PressExit
  PROVE  Inv'
<1> USE Constants, Parts
<1>1. PICK r \in {"press_freeze", "press_exit"}, c \in {"freeze", "exit"} :
        /\ left[r] > 0 /\ cmd = "none" /\ left' = [left EXCEPT ![r] = @ - 1] /\ cmd' = c
        /\ UNCHANGED <<syncVars, pc, time, mode, wanted, trick, exco, wire, queue, mtr, calling>>
        /\ c = "freeze" => r = "press_freeze" /\ mode[Master] = "RUNNING" /\ pc[Master] # "eof"
  BY DEF PressFreeze, PressExit, Press
<1>2. left \in [Requests -> Nat] /\ r \in Requests
  BY DEF TypeInv, Requests, Panel
<1>3. \A x \in Requests : left'[x] = IF x = r THEN left[x] - 1 ELSE left[x]
  BY <1>1, <1>2
<1>4. TypeInv'
  <2>1. left' \in [Requests -> Nat]
    BY <1>1, <1>2
  <2> QED BY <1>1, <2>1 DEF TypeInv, trick
<1>5. ActingInv'
  BY <1>1 DEF ActingInv, IsValid
<1>6. \A x : Asked(x)' <=> Asked(x)
  BY <1>1 DEF Asked
<1>7. FreezeByMtr => FreezeByMtr'
  BY <1>1, <1>2, <1>3, <1>6 DEF FreezeByMtr, Mtrs, Requests, Panel
<1>8. FreezeByPanel => FreezeByPanel'
  BY <1>1, <1>2, <1>3, <1>6 DEF FreezeByPanel, Mtrs, Requests, Panel
<1>9. FreezeOnce => FreezeOnce'
  BY <1>1, <1>2, <1>3, <1>6 DEF FreezeOnce, Mtrs, Requests, Panel
<1>10. NoOther => NoOther'
  BY <1>1, <1>2, <1>3, <1>7, <1>8, <1>9 DEF NoOther, Mtrs, Requests, Panel
<1>11. RequestsInv'
  BY <1>7, <1>8, <1>9 DEF RequestsInv
<1>12. SetMaster => mtr'.pending = "to_freeze" /\ FreezeByMtr'
  BY <1>1, <1>7 DEF SetMaster
<1>13. /\ ClearPhase /\ pc[Master] = "eof" => cmd' # "freeze"
       /\ ClearPhase /\ pc[Master] = "act" => mtr'.pending # "to_freeze"
       /\ pc[Master] = "eof" => cmd' # "freeze" \/ cmd = "freeze"
  BY <1>1 DEF ClearPhase, ClearMaster
<1> QED BY <1>1, <1>4, <1>5, <1>10, <1>11, <1>12, <1>13, RequestSteps

\* The master goes on to b, in its frame or in the freeze.
LEMMA MasterMoves ==
  ASSUME FreezeAssumption, Inv, NEW b \in (Frame \ {"tag"}) \cup Acts \cup {"frozen", "thaw"},
         Goto(Master, pc[Master], b), pc[Master] \in (Frame \ {"tag"}) \cup Acts \cup {"frozen"},
         UNCHANGED <<syncVars, time, mode, sched, queue>>, stop' \in [Federates -> Nat],
         \A g \in Federates \ {Master} : stop'[g] = stop[g],
         wire' \in [Federates -> Seq(Sends)], wire'[Master] = wire[Master],
         \A g \in Federates : Sent(g),
         exco'.at = exco.at, exco'.cur = exco.cur, exco' \in Updates,
         wanted' \in Modes, mtr' \in [flag : BOOLEAN, pending : Asks, read : Asks],
         calling' \in Asks, cmd' \in {"none", "freeze", "exit"}, left' \in [Requests -> Nat],
         b \in Frame => mode[Master] = "RUNNING",
         b \in {"frozen", "thaw"} => mode[Master] = "FREEZE",
         mode[Master] = "RUNNING" => (HasAsked(Master) => HasAsked(Master)'),
         pc[Master] \in {"end", "eof"} => b \in {"end", "eof"},
         ActingInv', RequestsInv',
         ClearMaster /\ ClearPhase => ClearMaster', SetMaster => SetMaster',
         ComingMaster /\ ComingPhase => ComingMaster'
  PROVE  Inv'
<1> USE Constants, Parts
<1>1. /\ pc' = [pc EXCEPT ![Master] = b] /\ life[Master] = "in" /\ pc \in [Federates -> Places]
      /\ UNCHANGED life
  BY SameTerms DEF Goto, syncVars, TypeInv
<1>2. PointsStay /\ SameMembers /\ IdleKept /\ In' = In
  BY PointsSame DEF PointsStay, SameMembers, In, Proved!In
<1>3. /\ pc'[Master] = b /\ Spares
      /\ exco.cur = mode[Master] /\ mode[Master] \in {"RUNNING", "FREEZE"}
      /\ wire[Master] = <<>> /\ queue[Master] = <<>>
  BY <1>1, MasterPlace DEF Spares, TypeInv, Modes
<1>4. TypeInv'
  <2>1. b \in Places
    BY DEF Places, Halts
  <2>2. pc' \in [Federates -> Places]
    BY <1>1, <2>1
  <2> QED BY <1>1, <2>2 DEF TypeInv
<1>5. TimeInv'
  <2>1. ASSUME NEW g \in In', HasAsked(g) PROVE HasAsked(g)'
    BY <1>1, <1>2, <1>3, <2>1 DEF HasAsked
  <2>2. ASSUME NEW g \in In', pc'[g] = "running" PROVE pc[g] = "running"
    BY <1>1, <1>2, <1>3, <2>2 DEF Frame, Acts
  <2>3. Multiple(LCTS, exco'.at)
    BY MasterPlace
  <2> QED BY <1>2, <2>1, <2>2, <2>3, TimeKept
<1>6. PointsInv'
  <2>1. ASSUME NEW g \in In, pc[g] \in {"freezing", "running"} PROVE pc'[g] = pc[g]
    BY <1>1, <2>1 DEF Frame, Acts
  <2>2. /\ pc[Master] # "down" /\ pc[Master] # "close"
        /\ AtRun(Master)' <=> AtRun(Master)
    BY <1>3 DEF AtRun, Frame, Acts
  <2> QED BY <1>2, <2>1, <2>2, PointsKept
<1>7. /\ Clear(Master) => Clear(Master)'
      /\ Unasked(Master) /\ Before(Master) => Unasked(Master)' /\ Before(Master)'
      /\ Stage(Master) => Stage(Master)'
      /\ Firm(Master) => Firm(Master)'
  <2>1. Stopped(Master)' <=> Stopped(Master)
    BY <1>1, <1>3 DEF Stopped, Frame, Acts, Halts, PlacesInv
  <2>2. Achieved(Master) => Achieved(Master)'
    BY <1>2 DEF Achieved, SameMembers
  <2>3. /\ pc[Master] \notin {"running", "receive", "shutdown", "closing", "close"}
        /\ b \notin {"tag", "cte", "running"}
    BY DEF Frame, Acts
  <2>4. wire[Master] \in Seq(Sends) /\ Sent(Master)
    BY DEF TypeInv
  <2> QED BY <1>1, <1>3, <2>1, <2>2, <2>3, <2>4, PcMoves
<1>8. /\ b \in Frame \cup Acts \cup Halts \cup (Ends \ {"down"}) /\ pc[Master] # "down"
      /\ b \in Frame \cup {"freeze", "freezing"} => mode'[Master] = "RUNNING"
      /\ b \in {"frozen", "thaw", "run", "running"} => mode'[Master] = "FREEZE"
  BY DEF Frame, Acts, Halts
<1>9. ClearPhase => ClearMaster' /\ Clear(Master)'
  BY <1>1, <1>7 DEF ClearPhase, In, Proved!In
<1>10. SetPhase => SetMaster' /\ Unasked(Master)' /\ Before(Master)'
  BY <1>1, <1>7 DEF SetPhase, In, Proved!In
<1>11. ComingPhase => ComingMaster' /\ Stage(Master)' /\ (Firm(Master) => Firm(Master)')
  BY <1>1, <1>7 DEF ComingPhase, In, Proved!In
<1> QED BY <1>1, <1>2, <1>3, <1>4, <1>5, <1>6, <1>8, <1>9, <1>10, <1>11, MasterSteps

LEMMA CheckRequestInv ==
  ASSUME FreezeAssumption, Inv, CheckRequest
  PROVE  Inv'
<1> USE Constants, Parts
<1>1. PICK a \in {"mtr", "frozen"} :
        Goto(Master, a, IF mtr.flag /\ IsValid(mtr.pending) THEN "read" ELSE Resume)
  BY DEF CheckRequest
<1> DEFINE b == IF mtr.flag /\ IsValid(mtr.pending) THEN "read" ELSE Resume
<1>2. /\ UNCHANGED <<syncVars, time, mode, wanted, trick, exco, wire, queue, requests>>
      /\ UNCHANGED <<mtr, calling, cmd, left>>
      /\ pc[Master] = a /\ pc' = [pc EXCEPT ![Master] = b] /\ pc'[Master] = b
  BY <1>1 DEF CheckRequest, requests, Goto, TypeInv
<1>3. /\ a = "mtr" => mode[Master] = "RUNNING"
      /\ a = "frozen" => mode[Master] = "FREEZE"
      /\ (b = "read" /\ mtr.flag /\ IsValid(mtr.pending)) \/ b = Resume
  BY <1>2 DEF PlacesInv, Frame
<1>4. ActingInv'
  BY <1>2, <1>3 DEF ActingInv, IsValid, Acts, Resume
<1>5. RequestsInv'
  BY <1>2 DEF RequestsInv, FreezeByMtr, FreezeByPanel, FreezeOnce, Asked
<1>6. ClearMaster => ClearMaster'
  <2>1. Idle(MtrFreeze) => Idle(MtrFreeze)'
    BY <1>2, PointsSame DEF PointsStay, IdleKept
  <2>2. (Active(MtrFreeze)' <=> Active(MtrFreeze)) /\ (Active(MtrRun)' <=> Active(MtrRun))
    BY <1>2 DEF Active, Proved!Active, syncVars
  <2> QED BY <1>2, <1>3, <2>1, <2>2 DEF ClearMaster, Resume
<1>7. SetMaster => SetMaster'
  BY <1>2 DEF SetMaster
<1>8. ComingMaster => ComingMaster'
  BY <1>2, <1>3 DEF ComingMaster, NoOther, FreezeByMtr, FreezeByPanel, FreezeOnce, Asked,
     Resume, Ends
<1>9. /\ b \in (Frame \ {"tag"}) \cup Acts \cup {"frozen", "thaw"}
      /\ a \in (Frame \ {"tag"}) \cup Acts \cup {"frozen"}
      /\ b \in Frame => mode[Master] = "RUNNING"
      /\ b \in {"frozen", "thaw"} => mode[Master] = "FREEZE"
      /\ mode[Master] = "RUNNING" => ~HasAsked(Master)
      /\ a \notin {"end", "eof"}
  BY <1>2, <1>3 DEF Resume, Frame, Acts, HasAsked
<1>10. Goto(Master, pc[Master], b)
  BY <1>1, <1>2
<1>11. UNCHANGED <<syncVars, time, mode, sched, stop, wire, queue>> /\ exco' = exco
       /\ exco' \in Updates
       /\ wanted' \in Modes /\ mtr' \in [flag : BOOLEAN, pending : Asks, read : Asks]
       /\ calling' \in Asks /\ cmd' \in {"none", "freeze", "exit"} /\ left' \in [Requests -> Nat]
  BY <1>2 DEF TypeInv, trick
<1>12. /\ stop' \in [Federates -> Nat] /\ wire' \in [Federates -> Seq(Sends)]
       /\ \A g \in Federates : Sent(g)
  BY <1>11 DEF TypeInv, Sent
<1> HIDE DEF b
<1> QED BY <1>2, <1>4, <1>5, <1>6, <1>7, <1>8, <1>9, <1>10, <1>11, <1>12, MasterMoves

LEMMA ReadRequestInv ==
  ASSUME FreezeAssumption, Inv, ReadRequest
  PROVE  Inv'
<1> USE Constants, Parts
<1>1. /\ Goto(Master, "read", "set") /\ mtr' = [mtr EXCEPT !.read = mtr.pending]
      /\ UNCHANGED <<syncVars, time, mode, wanted, trick, exco, wire, queue, calling, cmd, left>>
      /\ pc[Master] = "read" /\ pc'[Master] = "set"
      /\ mtr \in [flag : BOOLEAN, pending : Asks, read : Asks]
  BY DEF ReadRequest, Goto, TypeInv
<1>2. /\ mtr'.flag = mtr.flag /\ mtr'.pending = mtr.pending /\ mtr'.read = mtr.pending
      /\ mtr' \in [flag : BOOLEAN, pending : Asks, read : Asks]
  BY <1>1
<1>3. ActingInv'
  BY <1>1, <1>2 DEF ActingInv, IsValid, Acts
<1>4. \A m \in Mtrs : Asked(m)' => Asked(m)
  BY <1>1, <1>2 DEF Asked
<1>5. /\ FreezeByMtr => FreezeByMtr'
      /\ FreezeByPanel => FreezeByPanel'
      /\ FreezeOnce => FreezeOnce'
  BY <1>1, <1>4 DEF FreezeByMtr, FreezeByPanel, FreezeOnce, Mtrs
<1>6. ClearMaster => ClearMaster'
  <2>1. Idle(MtrFreeze) => Idle(MtrFreeze)'
    BY <1>1, PointsSame DEF PointsStay, IdleKept
  <2>2. (Active(MtrFreeze)' <=> Active(MtrFreeze)) /\ (Active(MtrRun)' <=> Active(MtrRun))
    BY <1>1 DEF Active, Proved!Active, syncVars
  <2> QED BY <1>1, <2>1, <2>2 DEF ClearMaster
<1>7. SetMaster => SetMaster'
  BY <1>1 DEF SetMaster
<1>8. ComingMaster => ComingMaster'
  <2>1. NoOther => NoOther'
    BY <1>1, <1>2, <1>5 DEF NoOther
  <2> QED BY <1>1, <2>1 DEF ComingMaster, Ends
<1>9. /\ "set" \in (Frame \ {"tag"}) \cup Acts \cup {"frozen", "thaw"} /\ "set" \notin Frame
      /\ "read" \in (Frame \ {"tag"}) \cup Acts \cup {"frozen"}
      /\ mode[Master] = "RUNNING" => ~HasAsked(Master)
  BY <1>1 DEF Frame, Acts, HasAsked
<1>10. RequestsInv'
  BY <1>5 DEF RequestsInv
<1>11. UNCHANGED <<syncVars, time, mode, sched, stop, wire, queue>> /\ exco' = exco
       /\ exco' \in Updates
       /\ wanted' \in Modes
       /\ calling' \in Asks /\ cmd' \in {"none", "freeze", "exit"} /\ left' \in [Requests -> Nat]
  BY <1>1 DEF TypeInv, trick
<1>12. /\ stop' \in [Federates -> Nat] /\ wire' \in [Federates -> Seq(Sends)]
       /\ \A g \in Federates : Sent(g)
  BY <1>11 DEF TypeInv, Sent
<1>13. /\ Goto(Master, pc[Master], "set")
       /\ pc[Master] \in (Frame \ {"tag"}) \cup Acts \cup {"frozen"}
       /\ pc[Master] \notin {"end", "eof"}
       /\ mtr' \in [flag : BOOLEAN, pending : Asks, read : Asks]
  BY <1>1, <1>2, <1>9
<1> QED BY <1>3, <1>6, <1>7, <1>8, <1>9, <1>10, <1>11, <1>12, <1>13, MasterMoves

LEMMA PressRunInv ==
  ASSUME FreezeAssumption, Inv, PressRun
  PROVE  Inv'
<1> USE Constants, Parts
<1>1. /\ Goto(Master, "frozen", "thaw") /\ left' = [left EXCEPT !["press_run"] = @ - 1]
      /\ UNCHANGED <<syncVars, time, mode, wanted, trick, exco, wire, queue, mtr, calling, cmd>>
      /\ pc[Master] = "frozen" /\ pc'[Master] = "thaw" /\ left["press_run"] > 0
      /\ left \in [Requests -> Nat] /\ mode[Master] = "FREEZE"
  BY DEF PressRun, Goto, TypeInv, PlacesInv
<1>2. /\ left' \in [Requests -> Nat] /\ left'["to_shutdown"] = left["to_shutdown"]
      /\ left'["press_freeze"] = left["press_freeze"] /\ left'["to_freeze"] = left["to_freeze"]
  BY <1>1 DEF Requests, Panel, Mtrs
<1>3. ActingInv'
  BY <1>1 DEF ActingInv, IsValid, Acts
<1>4. RequestsInv'
  BY <1>1, <1>2 DEF RequestsInv, FreezeByMtr, FreezeByPanel, FreezeOnce, Asked
<1>6. ClearMaster => ClearMaster'
  <2>1. Idle(MtrFreeze) => Idle(MtrFreeze)'
    BY <1>1, PointsSame DEF PointsStay, IdleKept
  <2>2. (Active(MtrFreeze)' <=> Active(MtrFreeze)) /\ (Active(MtrRun)' <=> Active(MtrRun))
    BY <1>1 DEF Active, Proved!Active, syncVars
  <2> QED BY <1>1, <2>1, <2>2 DEF ClearMaster
<1>7. SetMaster => SetMaster'
  BY <1>1 DEF SetMaster
<1>8. ComingMaster => ComingMaster'
  BY <1>1 DEF ComingMaster
<1>9. /\ "thaw" \in (Frame \ {"tag"}) \cup Acts \cup {"frozen", "thaw"} /\ "thaw" \notin Frame
      /\ "frozen" \in (Frame \ {"tag"}) \cup Acts \cup {"frozen"}
  BY DEF Frame, Acts
<1>11. UNCHANGED <<syncVars, time, mode, sched, stop, wire, queue>> /\ exco' = exco
       /\ exco' \in Updates
       /\ wanted' \in Modes /\ mtr' \in [flag : BOOLEAN, pending : Asks, read : Asks]
       /\ calling' \in Asks /\ cmd' \in {"none", "freeze", "exit"}
  BY <1>1 DEF TypeInv, trick
<1>12. /\ stop' \in [Federates -> Nat] /\ wire' \in [Federates -> Seq(Sends)]
       /\ \A g \in Federates : Sent(g)
  BY <1>11 DEF TypeInv, Sent
<1> QED BY <1>1, <1>2, <1>3, <1>4, <1>6, <1>7, <1>8, <1>9, <1>11, <1>12, MasterMoves

\* An update that is sent.
LEMMA Sending ==
  ASSUME FreezeAssumption, TypeInv, NEW x \in Updates, SendExCO(x)
  PROVE  /\ wire' \in [Federates -> Seq(Sends)] /\ wire'[Master] = wire[Master]
         /\ [x |-> x, sent |-> time[Master]] \in Sends
         /\ \A g \in In \ {Master} :
              wire'[g] = Append(wire[g], [x |-> x, sent |-> time[Master]])
         /\ x \notin FreezeUpdates => \A g \in Federates : Sent(g)
<1> USE Constants
<1>1. /\ time[Master] \in Nat /\ wire \in [Federates -> Seq(Sends)]
      /\ SP!In = In /\ In \subseteq Federates
  BY SameTerms DEF TypeInv, In, Proved!In
<1> DEFINE e == [x |-> x, sent |-> time[Master]]
<1>2. e \in Sends /\ e.x = x
  BY <1>1 DEF Sends
<1>3. \A g \in Federates :
        wire'[g] = IF g \in Others /\ g \in In THEN Append(wire[g], e) ELSE wire[g]
  BY <1>1 DEF SendExCO
<1>4. wire' \in [Federates -> Seq(Sends)]
  <2>1. \A g \in Federates : Append(wire[g], e) \in Seq(Sends) /\ wire[g] \in Seq(Sends)
    BY <1>1, <1>2
  <2>2. DOMAIN wire' = Federates /\ wire' = [g \in Federates |-> wire'[g]]
    BY <1>1 DEF SendExCO
  <2> HIDE DEF e
  <2> QED BY <1>3, <2>1, <2>2
<1>5. x \notin FreezeUpdates => e \notin FreezeSends
  BY <1>2 DEF FreezeSends
<1> HIDE DEF e
<1>6. x \notin FreezeUpdates => \A g \in Federates : Sent(g)
  BY <1>2, <1>3, <1>5 DEF Sent
<1>7. \A g \in In \ {Master} : wire'[g] = Append(wire[g], e)
  BY <1>1, <1>3 DEF Others
<1>8. wire'[Master] = wire[Master]
  BY <1>3 DEF Others
<1> QED BY <1>2, <1>4, <1>6, <1>7, <1>8 DEF e

\* What the master says next.
LEMMA NextModes ==
  ASSUME FreezeAssumption, TypeInv, NEW m \in Modes
  PROVE  /\ NextMode(m) \in Updates /\ NextMode(m).cur = exco.cur /\ NextMode(m).next = m
         /\ m # "FREEZE" => NextMode(m).at = exco.at /\ NextMode(m) \notin FreezeUpdates
         /\ m = "FREEZE" => /\ Multiple(LCTS, NextMode(m).at)
                            /\ time[Master] + Padding <= NextMode(m).at
<1> USE Constants
<1>1. exco \in Updates /\ time[Master] + Padding \in Nat
  BY DEF TypeInv
<1>2. /\ NextCommon(time[Master] + Padding) \in Nat
      /\ Multiple(LCTS, NextCommon(time[Master] + Padding))
      /\ time[Master] + Padding <= NextCommon(time[Master] + Padding)
  BY <1>1, Commons
<1> DEFINE at == IF m = "FREEZE" THEN NextCommon(time[Master] + Padding) ELSE exco.at
<1>3. at \in Nat
  BY <1>1, <1>2 DEF Updates
<1>4. NextMode(m) = [exco EXCEPT !.next = m, !.at = at]
  BY DEF NextMode
<1> HIDE DEF at
<1>5. /\ NextMode(m) \in Updates /\ NextMode(m).cur = exco.cur /\ NextMode(m).next = m
      /\ NextMode(m).at = at
  BY <1>1, <1>3, <1>4 DEF Updates
<1> QED BY <1>2, <1>5 DEF at, FreezeUpdates

\* The exit button of the frozen master.
LEMMA ExitFrozenInv ==
  ASSUME FreezeAssumption, Inv, ExitFrozen
  PROVE  Inv'
<1> USE Constants, Parts
<1>1. /\ UNCHANGED <<syncVars, time, mode, wanted, trick, exco, wire, queue, requests>>
      /\ UNCHANGED <<mtr, calling, cmd, left, life, sched, stop>>
      /\ pc[Master] = "frozen" /\ pc' = [pc EXCEPT ![Master] = "shutdown"]
      /\ pc'[Master] = "shutdown" /\ pc \in [Federates -> Places]
  BY DEF ExitFrozen, Goto, requests, trick, syncVars, TypeInv
<1>2. PointsStay /\ SameMembers /\ IdleKept /\ In' = In
  BY <1>1, PointsSame DEF PointsStay, SameMembers, In, Proved!In
<1>3. mode[Master] = "FREEZE" /\ wire[Master] = <<>> /\ queue[Master] = <<>>
      /\ exco.cur = mode[Master] /\ Master \in In
  BY <1>1, MasterPlace DEF PlacesInv
<1>4. TypeInv'
  <2>1. pc' \in [Federates -> Places]
    BY <1>1 DEF Places, Ends
  <2> QED BY <1>1, <2>1 DEF TypeInv
<1>5. ActingInv'
  BY <1>1 DEF ActingInv, Acts
<1>6. RequestsInv'
  BY <1>1 DEF RequestsInv, FreezeByMtr, FreezeByPanel, FreezeOnce, Asked
<1>7. TimeInv'
  <2>1. ASSUME NEW g \in In', HasAsked(g) PROVE HasAsked(g)'
    BY <1>1, <1>2, <2>1 DEF HasAsked
  <2>2. ASSUME NEW g \in In', pc'[g] = "running" PROVE pc[g] = "running"
    BY <1>1, <1>2, <2>2
  <2>3. Multiple(LCTS, exco'.at)
    BY <1>1, MasterPlace
  <2> QED BY <1>1, <1>2, <2>1, <2>2, <2>3, TimeKept
<1>8. PointsInv'
  <2>1. ASSUME NEW g \in In, pc[g] \in {"freezing", "running"} PROVE pc'[g] = pc[g]
    BY <1>1, <2>1
  <2>2. /\ pc[Master] # "down" /\ pc[Master] # "close"
        /\ AtRun(Master)' <=> AtRun(Master)
    BY <1>1 DEF AtRun
  <2> QED BY <1>1, <1>2, <2>1, <2>2, PointsKept
<1>9. Spares
  BY <1>1 DEF Spares, Sent
<1>10. ~ClearPhase /\ ~SetPhase
  BY <1>1, <1>3 DEF ClearPhase, SetPhase, SetMaster, Clear, Stopped, Halts
<1>11. ASSUME ComingPhase
       PROVE  ComingMaster' /\ Stage(Master)' /\ (Firm(Master) => Firm(Master)')
  <2>1. AtFreeze(Master)
    BY <1>1, <1>11, MasterStage DEF StageDue, Gone, Stopped, Halts
  <2>2. Gone(Master)'
    BY <1>1, <2>1, MasterPlace DEF AtFreeze, Gone
  <2>3. ComingMaster'
    BY <1>1, <1>11 DEF ComingPhase, ComingMaster, Ends
  <2> QED BY <2>2, <2>3 DEF Stage, Firm
<1>12. /\ exco'.at = exco.at /\ exco'.cur = mode'[Master] /\ mode'[Master] # "SHUTDOWN"
       /\ life' = life /\ wire'[Master] = <<>> /\ queue'[Master] = <<>>
       /\ pc'[Master] \in Frame \cup Acts \cup Halts \cup (Ends \ {"down"}) /\ pc[Master] # "down"
       /\ pc'[Master] \notin Frame
  BY <1>1, <1>3 DEF Ends, Frame
<1> QED BY <1>1, <1>2, <1>4, <1>5, <1>6, <1>7, <1>8, <1>9, <1>10, <1>11, <1>12, MasterSteps

\* How far the others are when the master sets the time of a freeze.
LEMMA FreezeAhead ==
  ASSUME FreezeAssumption, Inv, ClearPhase, pc[Master] \in {"set", "end"}, mode[Master] = "RUNNING",
         NEW at \in Nat, Multiple(LCTS, at), time[Master] + Padding <= at
  PROVE  \A f \in In : /\ time[f] < at
                       /\ Stopped(f) => pc[f] = "running" /\ time[f] + 2 * LCTS <= at
                       /\ Unasked(f)
<1> USE Constants, Parts
<1> SUFFICES ASSUME NEW f \in In
             PROVE  /\ time[f] < at
                    /\ Stopped(f) => pc[f] = "running" /\ time[f] + 2 * LCTS <= at
                    /\ Unasked(f)
  OBVIOUS
<1>1. /\ time[f] \in Nat /\ time[Master] \in Nat /\ exco.at \in Nat /\ Multiple(LCTS, exco.at)
      /\ Master \in In /\ exco.at < time[Master]
  BY MasterPlace DEF TypeInv, ClearPhase, ClearMaster
<1>2. Clear(f)
  BY DEF ClearPhase
<1>3. time[f] < at
  <2>1. CASE f = Master
    BY <1>1, <2>1
  <2>2. CASE f # Master
    <3>1. time[f] < time[Master] + Step[Master] + Ahead(Master)
      BY <1>1, <2>2 DEF TimeInv
    <3>2. Ahead(Master) \in Nat /\ Ahead(Master) <= Step[Master] /\ Step[Master] \in Nat
      BY Steps DEF Ahead
    <3>3. 2 * Step[Master] <= Padding
      BY DEF FreezeAssumption
    <3> QED BY <1>1, <3>1, <3>2, <3>3
  <2> QED BY <2>1, <2>2
<1>4. Stopped(f) => time[f] + 2 * LCTS <= at
  <2>1. ASSUME Stopped(f) PROVE time[f] = exco.at
    BY <1>2, <2>1 DEF Clear
  <2>2. exco.at + LCTS < at
    BY <1>1
  <2> QED BY <1>1, <2>1, <2>2, CommonGap
<1> QED BY <1>2, <1>3, <1>4 DEF Clear

LEMMA SetRequestInv ==
  ASSUME FreezeAssumption, Inv, SetRequest
  PROVE  Inv'
<1> USE Constants, Parts
<1> DEFINE m == ModeOf(mtr.read)
<1>1. /\ Goto(Master, "set", "act") /\ mtr' = [mtr EXCEPT !.pending = mtr.read, !.read = NoRequest]
      /\ exco' = NextMode(m) /\ wanted' = m
      /\ UNCHANGED <<syncVars, time, mode, sched, stop, wire, queue, calling, cmd, left>>
      /\ pc[Master] = "set" /\ pc' = [pc EXCEPT ![Master] = "act"] /\ pc'[Master] = "act"
      /\ pc \in [Federates -> Places] /\ mtr \in [flag : BOOLEAN, pending : Asks, read : Asks]
  BY DEF SetRequest, Goto, trick, TypeInv
<1>2. /\ mtr'.flag = mtr.flag /\ mtr'.pending = mtr.read /\ mtr'.read = NoRequest
      /\ mtr' \in [flag : BOOLEAN, pending : Asks, read : Asks] /\ mtr.flag
  BY <1>1 DEF Asks, ActingInv, Acts
<1>3. /\ IsValid(mtr.read) /\ exco.cur = mode[Master]
      /\ \/ mtr.read = "to_run" /\ mode[Master] = "FREEZE" /\ m = "RUNNING"
         \/ mtr.read = "to_freeze" /\ mode[Master] = "RUNNING" /\ m = "FREEZE"
         \/ mtr.read = "to_shutdown" /\ m = "SHUTDOWN"
  BY <1>1, MasterPlace DEF ActingInv, IsValid, ModeOf
<1>4. m \in Modes
  BY <1>3 DEF Modes
<1> HIDE DEF m
<1>5. /\ exco' \in Updates /\ exco'.cur = exco.cur /\ exco'.next = m
      /\ m # "FREEZE" => exco'.at = exco.at
      /\ m = "FREEZE" => Multiple(LCTS, exco'.at) /\ time[Master] + Padding <= exco'.at
  BY <1>1, <1>4, NextModes
<1>6. ActingInv'
  <2>1. IsValid(mtr.pending)'
    BY <1>2, <1>3, <1>5 DEF IsValid
  <2> QED BY <1>1, <1>2, <2>1 DEF ActingInv, Acts
<1>7. \A r \in Mtrs : Asked(r)' => Asked(r)
  BY <1>1, <1>2 DEF Asked, Mtrs, NoRequest
<1>8. /\ FreezeByMtr => FreezeByMtr'
      /\ FreezeByPanel => FreezeByPanel'
      /\ FreezeOnce => FreezeOnce'
  BY <1>1, <1>7 DEF FreezeByMtr, FreezeByPanel, FreezeOnce, Mtrs
<1>9. RequestsInv'
  BY <1>8 DEF RequestsInv
<1>10. PointsStay /\ SameMembers /\ IdleKept /\ In' = In
  BY <1>1, PointsSame DEF PointsStay, SameMembers, In, Proved!In, syncVars
<1>11. /\ Idle(MtrFreeze) => Idle(MtrFreeze)'
       /\ Active(MtrFreeze)' <=> Active(MtrFreeze)
       /\ Active(MtrRun)' <=> Active(MtrRun)
  BY <1>10 DEF IdleKept, SameMembers, Active, Proved!Active
<1>12. \A g \in Federates : Sent(g)
  BY <1>1 DEF Sent
<1>13. /\ "act" \in (Frame \ {"tag"}) \cup Acts \cup {"frozen", "thaw"} /\ "act" \notin Frame
       /\ pc[Master] \in (Frame \ {"tag"}) \cup Acts \cup {"frozen"}
       /\ mode[Master] = "RUNNING" => ~HasAsked(Master)
       /\ Goto(Master, pc[Master], "act")
  BY <1>1 DEF Frame, Acts, HasAsked
<1>14. /\ stop' \in [Federates -> Nat] /\ wire' \in [Federates -> Seq(Sends)]
       /\ calling' \in Asks /\ cmd' \in {"none", "freeze", "exit"} /\ left' \in [Requests -> Nat]
       /\ wanted' \in Modes
  BY <1>1, <1>4 DEF TypeInv
<1>15. CASE mtr.read # "to_freeze"
  <2>1. m # "FREEZE" /\ exco'.at = exco.at
    BY <1>3, <1>5, <1>15
  <2>2. ClearMaster => ClearMaster'
    BY <1>1, <1>2, <1>5, <1>11, <1>15, <2>1 DEF ClearMaster
  <2>3. SetMaster => SetMaster'
    BY <1>1 DEF SetMaster
  <2>4. ComingMaster => ComingMaster'
    <3>1. ASSUME mode[Master] = "RUNNING", NoOther PROVE NoOther'
      <4>1. Asked("to_shutdown") /\ "to_shutdown" \in Mtrs
        BY <1>3, <1>15, <3>1 DEF Asked, Mtrs
      <4>2. FreezeOnce /\ left["press_freeze"] = 0 /\ cmd # "freeze"
        BY <3>1, <4>1 DEF NoOther, FreezeByMtr, FreezeByPanel
      <4> QED BY <1>1, <1>8, <4>2 DEF NoOther
    <3> QED BY <1>1, <2>1, <3>1 DEF ComingMaster, Ends
  <2> QED BY <1>1, <1>2, <1>5, <1>6, <1>9, <1>12, <1>13, <1>14, <2>1, <2>2, <2>3, <2>4, MasterMoves
<1>16. CASE mtr.read = "to_freeze"
  <2>1. /\ m = "FREEZE" /\ mode[Master] = "RUNNING" /\ exco'.next = "FREEZE"
        /\ Multiple(LCTS, exco'.at) /\ time[Master] + Padding <= exco'.at /\ exco'.at \in Nat
    BY <1>3, <1>5, <1>16 DEF Updates
  <2>2. TypeInv'
    <3>1. pc' \in [Federates -> Places]
      BY <1>1 DEF Places, Acts
    <3> QED BY <1>1, <1>2, <1>5, <1>14, <3>1 DEF TypeInv
  <2>3. PlacesInv'
    <3>1. /\ \A g \in Others : OtherPlace(g)'
          /\ \A g \in Federates : life'[g] = "in" <=> pc'[g] # "down"
      BY <1>1 DEF PlacesInv, OtherPlace, syncVars, Others
    <3>2. exco'.cur = mode'[Master] /\ mode'[Master] # "SHUTDOWN"
      BY <1>1, <1>3, <1>5, <2>1
    <3>3. wire'[Master] = <<>> /\ queue'[Master] = <<>>
      BY <1>1, MasterPlace
    <3> QED BY <1>1, <3>1, <3>2, <3>3 DEF PlacesInv, Frame, Acts
  <2>4. TimeInv'
    <3>1. ASSUME NEW g \in In', HasAsked(g) PROVE HasAsked(g)'
      BY <1>1, <1>10, <3>1 DEF HasAsked
    <3>2. ASSUME NEW g \in In', pc'[g] = "running" PROVE pc[g] = "running"
      BY <1>1, <1>10, <3>2
    <3> QED BY <1>1, <1>10, <2>1, <3>1, <3>2, TimeKept
  <2>5. PointsInv'
    <3>1. ASSUME NEW g \in In, pc[g] \in {"freezing", "running"} PROVE pc'[g] = pc[g]
      BY <1>1, <3>1
    <3>2. /\ pc[Master] # "down" /\ pc[Master] # "close"
          /\ AtRun(Master)' <=> AtRun(Master)
      BY <1>1 DEF AtRun
    <3> QED BY <1>1, <1>10, <3>1, <3>2, PointsKept
  <2>6. ~SetPhase /\ ~ComingPhase
    <3>1. Asked("to_freeze")
      BY <1>16 DEF Asked
    <3>2. ~NoOther
      BY <1>2, <3>1 DEF NoOther, FreezeByPanel, FreezeOnce
    <3> QED BY <1>1, <2>1, <3>2 DEF SetPhase, SetMaster, ComingPhase, ComingMaster, Ends
  <2>7. ClearPhase
    BY <2>6 DEF Phase
  <2>8. SetMaster'
    <3>1. Asked("to_freeze")
      BY <1>16 DEF Asked
    <3>2. FreezeByMtr'
      BY <1>8, <3>1 DEF RequestsInv, FreezeByPanel, FreezeOnce
    <3> QED BY <1>1, <1>2, <1>11, <1>16, <2>1, <2>7, <3>2 DEF SetMaster, ClearPhase, ClearMaster
  <2>9. ASSUME NEW g \in In'
        PROVE  Unasked(g)' /\ Before(g)'
    <3>1. /\ time[g] < exco'.at /\ Unasked(g)
          /\ Stopped(g) => pc[g] = "running" /\ time[g] + 2 * LCTS <= exco'.at
      BY <1>1, <1>10, <2>1, <2>7, FreezeAhead
    <3>2. NoneSent(g)' <=> NoneSent(g)
      BY <1>1 DEF NoneSent
    <3>3. NoneTold(g)' <=> NoneTold(g)
      BY <1>1 DEF NoneTold
    <3>4. Unasked(g)'
      BY <1>1, <3>1, <3>2, <3>3 DEF Unasked
    <3>5. g # Master => pc'[g] = pc[g]
      BY <1>1, <1>10
    <3>6. Stopped(g)' => Stopped(g) /\ pc'[g] = pc[g]
      BY <1>1, <2>1, <3>5 DEF Stopped, Halts
    <3> QED BY <1>1, <3>1, <3>4, <3>6 DEF Before
  <2> QED BY <1>6, <1>9, <1>10, <2>2, <2>3, <2>4, <2>5, <2>8, <2>9
          DEF Inv, BaseInv, Phase, SetPhase, PointsStay
<1> QED BY <1>15, <1>16

\* The master sends the time of the freeze and registers its point.
LEMMA FreezeStarts ==
  ASSUME FreezeAssumption, Inv, NEW b \in {"end", "eof"}, NEW x \in FreezeUpdates,
         x.cur = "RUNNING",
         pc' = [pc EXCEPT ![Master] = b], pc[Master] \in {"act", "end"},
         exco' = x, SendExCO(x), sched' = [sched EXCEPT ![Master] = x.at],
         SP!RegisterCall(Master, MtrFreeze, SP!In, TRUE),
         UNCHANGED <<time, mode, stop, queue>>, mode[Master] = "RUNNING",
         Idle(MtrFreeze), ~Active(MtrRun),
         Multiple(LCTS, x.at), time[Master] + Padding <= x.at,
         \A f \in In : /\ time[f] < x.at
                       /\ Stopped(f) => pc[f] = "running" /\ time[f] + 2 * LCTS <= x.at
                       /\ Unasked(f),
         wanted' \in Modes, mtr' \in [flag : BOOLEAN, pending : Asks, read : Asks],
         calling' \in Asks, cmd' \in {"none", "freeze", "exit"}, left' \in [Requests -> Nat],
         ActingInv', RequestsInv', NoOther', b = "eof" => cmd' # "freeze"
  PROVE  Inv'
<1> USE Constants, Parts
<1>1. /\ Proved!IndInv' /\ life' = life /\ achieved' = achieved
      /\ members' = [members EXCEPT ![MtrFreeze] = In] /\ In # {}
      /\ \A k \in Labels \ {MtrFreeze} : Idle(k) => Idle(k)'
  BY RegisterPoints
<1>2. /\ In' = In /\ life[Master] = "in" /\ Master \in In
      /\ members'[MtrFreeze] = In /\ members'[MtrRun] = members[MtrRun]
      /\ Active(MtrFreeze)' /\ (Active(MtrRun)' <=> Active(MtrRun))
  <2>1. members \in [Labels -> SUBSET Federates]
    BY DEF Proved!TypeOK
  <2> QED BY <1>1, <2>1, MasterPlace DEF In, Proved!In, Active, Proved!Active
<1>3. /\ x \in Updates /\ x.cur = "RUNNING" /\ x.next = "FREEZE" /\ x.at \in Nat
      /\ exco.cur = "RUNNING" /\ exco'.at = x.at /\ exco' \in Updates
  BY MasterPlace DEF FreezeUpdates, Updates
<1>4. /\ wire' \in [Federates -> Seq(Sends)] /\ wire'[Master] = wire[Master]
      /\ [x |-> x, sent |-> time[Master]] \in Sends
      /\ \A g \in In \ {Master} :
           wire'[g] = Append(wire[g], [x |-> x, sent |-> time[Master]])
  BY <1>3, Sending
<1>5. /\ pc \in [Federates -> Places] /\ pc'[Master] = b
      /\ \A g \in Federates \ {Master} : pc'[g] = pc[g]
      /\ sched \in [Federates -> Nat] /\ sched'[Master] = x.at
      /\ \A g \in Federates \ {Master} : sched'[g] = sched[g]
      /\ time \in [Federates -> Nat] /\ time[Master] \in Nat
  BY DEF TypeInv
<1>6. TypeInv'
  <2>1. pc' \in [Federates -> Places]
    BY <1>5 DEF Places, Frame
  <2>2. sched' \in [Federates -> Nat]
    BY <1>3, <1>5
  <2> QED BY <1>3, <1>4, <2>1, <2>2 DEF TypeInv
<1>7. PlacesInv'
  <2>1. ASSUME NEW g \in Others PROVE OtherPlace(g)'
    BY <1>5 DEF PlacesInv, OtherPlace, Others
  <2>2. ASSUME NEW g \in Federates PROVE life'[g] = "in" <=> pc'[g] # "down"
    BY <1>1, <1>2, <1>5 DEF PlacesInv
  <2>3. wire'[Master] = <<>> /\ queue'[Master] = <<>>
    BY <1>4, MasterPlace
  <2> QED BY <1>3, <1>5, <2>1, <2>2, <2>3 DEF PlacesInv, Frame
<1>8. TimeInv'
  <2>1. ASSUME NEW g \in In', HasAsked(g) PROVE HasAsked(g)'
    BY <1>2, <1>5, <2>1 DEF HasAsked, In, Proved!In
  <2>2. ASSUME NEW g \in In', pc'[g] = "running" PROVE pc[g] = "running"
    BY <1>2, <1>5, <2>2 DEF In, Proved!In
  <2> QED BY <1>2, <1>3, <2>1, <2>2, TimeKept
<1>9. PointsInv'
  <2>1. pc'[Master] # "down" =>
         /\ pc'[Master] # "close" => Idle(MtrShutdown)'
         /\ pc'[Master] \notin {"run", "running"} => Idle(MtrRun)'
         /\ mode'[Master] = "FREEZE" => Idle(MtrFreeze)'
    BY <1>1 DEF PointsInv
  <2>2. \A f \in In' :
          /\ f \in achieved'[MtrFreeze] => pc'[f] = "freezing"
          /\ f \in achieved'[MtrRun] => pc'[f] = "running"
    BY <1>1, <1>2, <1>5 DEF PointsInv, In, Proved!In
  <2>3. \A l \in {MtrFreeze, MtrRun} : Active(l)' => In' \subseteq members'[l]
    BY <1>2
  <2> QED BY <1>2, <2>1, <2>2, <2>3 DEF PointsInv
<1>10. StageDue(Master)'
  <2>1. NoneSent(Master)' /\ NoneTold(Master)'
    BY <1>4, MasterPlace DEF NoneSent, NoneTold, None
  <2> QED BY <1>2, <1>3, <1>5, <2>1 DEF StageDue, Stopped, Halts, Acts
<1>11. ASSUME NEW g \in In, g # Master
       PROVE  StageSent(g)'
  <2> DEFINE e == [x |-> x, sent |-> time[Master]]
  <2>1. e \in DueSends'
    <3>1. e \in Sends /\ e.x = x /\ e.sent = time[Master]
      BY <1>4
    <3>2. e.sent + MaxDelay <= x.at
      BY <1>3, <1>5, <3>1
    <3> QED BY <1>3, <3>1, <3>2 DEF DueSends, FreezeSends
  <2>2. wire'[g] = Append(wire[g], e) /\ wire[g] \in Seq(Sends) /\ e \in Sends /\ NoneSent(g)
    BY <1>4, <1>11 DEF TypeInv, Unasked
  <2> HIDE DEF e
  <2>3. OneSent(g)'
    BY <2>1, <2>2, OneAppend DEF NoneSent, OneSent
  <2>4. NoneTold(g)' /\ sched'[g] = 0
    BY <1>5, <1>11 DEF Unasked, NoneTold
  <2>5. Before(g)'
    BY <1>3, <1>5, <1>11 DEF Before, Stopped
  <2> QED BY <2>3, <2>4, <2>5 DEF StageSent
<1>12. ComingPhase'
  <2>1. \A g \in In' : Stage(g)'
    BY <1>2, <1>10, <1>11 DEF Stage
  <2>2. ComingMaster'
    BY <1>3, <1>5 DEF ComingMaster
  <2> QED BY <1>2, <2>1, <2>2 DEF ComingPhase
<1> QED BY <1>1, <1>6, <1>7, <1>8, <1>9, <1>12 DEF Inv, BaseInv, Phase

LEMMA ActOnRequestInv ==
  ASSUME FreezeAssumption, Inv, ActOnRequest
  PROVE  Inv'
<1> USE Constants, Parts
<1> DEFINE b == IF mtr.pending = "to_run" /\ mode[Master] = "FREEZE" THEN "thaw" ELSE Resume
<1>1. /\ Goto(Master, "act", b) /\ mtr' = [mtr EXCEPT !.flag = FALSE]
      /\ UNCHANGED <<time, mode, queue, calling, cmd, left>>
      /\ pc[Master] = "act" /\ pc' = [pc EXCEPT ![Master] = b]
      /\ pc \in [Federates -> Places] /\ mtr \in [flag : BOOLEAN, pending : Asks, read : Asks]
  BY DEF ActOnRequest, Goto, TypeInv
<1>2. /\ mtr'.flag = FALSE /\ mtr'.pending = mtr.pending /\ mtr'.read = mtr.read
      /\ mtr' \in [flag : BOOLEAN, pending : Asks, read : Asks]
      /\ mtr.flag /\ IsValid(mtr.pending)
  BY <1>1 DEF ActingInv, Acts
<1>3. /\ exco.cur = mode[Master] /\ mode[Master] \in {"RUNNING", "FREEZE"}
      /\ pc'[Master] = b
      /\ mtr.pending = "to_run" => mode[Master] = "FREEZE" /\ b = "thaw"
      /\ mtr.pending = "to_freeze" => mode[Master] = "RUNNING" /\ b = "end"
      /\ mtr.pending \in Mtrs
      /\ mode[Master] = "RUNNING" => b = "end"
      /\ mode[Master] = "FREEZE" => b \in {"frozen", "thaw"}
  BY <1>1, <1>2, MasterPlace DEF IsValid, Mtrs, Resume
<1>4. ActingInv'
  BY <1>1, <1>3 DEF ActingInv, Acts
<1>5. \A r \in Mtrs : Asked(r)' <=> Asked(r)
  BY <1>1, <1>2 DEF Asked
<1>6. /\ FreezeByMtr' <=> FreezeByMtr
      /\ FreezeByPanel' <=> FreezeByPanel
      /\ FreezeOnce' <=> FreezeOnce
  BY <1>1, <1>5 DEF FreezeByMtr, FreezeByPanel, FreezeOnce, Mtrs
<1>7. RequestsInv'
  BY <1>6 DEF RequestsInv
<1>8. calling' \in Asks /\ cmd' \in {"none", "freeze", "exit"} /\ left' \in [Requests -> Nat]
  BY <1>1 DEF TypeInv
<1>9. CASE mtr.pending = "to_freeze"
  <2>1. /\ SendExCO(exco) /\ SP!RegisterCall(Master, MtrFreeze, SP!In, TRUE)
        /\ sched' = [sched EXCEPT ![Master] = exco.at] /\ UNCHANGED <<wanted, stop, exco>>
    BY <1>3, <1>9 DEF ActOnRequest
  <2>2. Asked("to_freeze") /\ "to_freeze" \in Mtrs
    BY <1>9 DEF Asked, Mtrs
  <2>3. SetPhase
    <3>1. ~ClearPhase
      BY <1>1, <1>9 DEF ClearPhase, ClearMaster
    <3>2. ~ComingPhase
      BY <1>1, <1>2, <1>3, <1>9, <2>2
         DEF ComingPhase, ComingMaster, NoOther, FreezeByPanel, FreezeOnce, Ends
    <3> QED BY <3>1, <3>2 DEF Phase
  <2>4. /\ exco \in FreezeUpdates /\ exco.cur = "RUNNING" /\ Idle(MtrFreeze) /\ ~Active(MtrRun)
        /\ time[Master] + Padding <= exco.at /\ Multiple(LCTS, exco.at)
        /\ FreezeByMtr
    BY <1>3, <1>9, <2>3, MasterPlace DEF SetPhase, SetMaster, FreezeUpdates, Updates
  <2>5. \A f \in In : /\ time[f] < exco.at
                      /\ Stopped(f) => pc[f] = "running" /\ time[f] + 2 * LCTS <= exco.at
                      /\ Unasked(f)
    BY <2>3 DEF SetPhase, Before
  <2>6. NoOther'
    BY <1>1, <1>2, <1>6, <2>2, <2>4 DEF NoOther, FreezeByMtr
  <2>7. wanted' \in Modes
    BY <2>1 DEF TypeInv
  <2>8. b = "end"
    BY <1>3, <1>9
  <2> QED BY <1>1, <1>2, <1>3, <1>4, <1>7, <1>8, <1>9, <2>1, <2>4, <2>5, <2>6, <2>7, <2>8,
             FreezeStarts
<1>10. CASE mtr.pending # "to_freeze"
  <2>1. /\ UNCHANGED <<syncVars, time, mode, sched, queue>>
        /\ \/ mtr.pending = "to_run" /\ UNCHANGED <<wanted, stop, exco, wire>>
           \/ /\ mtr.pending = "to_shutdown" /\ exco' = NextMode("SHUTDOWN") /\ SendExCO(exco')
              /\ wanted' = "SHUTDOWN" /\ stop' = [stop EXCEPT ![Master] = time[Master] + Padding]
    BY <1>1, <1>10 DEF ActOnRequest, trick
  <2>2. /\ exco' \in Updates /\ exco'.at = exco.at /\ exco'.cur = exco.cur
        /\ wire' \in [Federates -> Seq(Sends)] /\ wire'[Master] = wire[Master]
        /\ \A g \in Federates : Sent(g)
        /\ wanted' \in Modes
        /\ mtr.pending = "to_shutdown" => wanted' # "FREEZE" /\ exco'.next # "FREEZE"
    <3>1. CASE mtr.pending = "to_run"
      BY <2>1, <3>1 DEF TypeInv, Sent
    <3>2. CASE mtr.pending = "to_shutdown"
      <4>1. "SHUTDOWN" \in Modes
        BY DEF Modes
      <4>2. /\ NextMode("SHUTDOWN") \in Updates /\ NextMode("SHUTDOWN").cur = exco.cur
            /\ NextMode("SHUTDOWN").next = "SHUTDOWN" /\ NextMode("SHUTDOWN").at = exco.at
            /\ NextMode("SHUTDOWN") \notin FreezeUpdates
        BY <4>1, NextModes
      <4>3. SendExCO(NextMode("SHUTDOWN"))
        BY <2>1, <3>2
      <4> QED BY <2>1, <3>2, <4>1, <4>2, <4>3, Sending
    <3> QED BY <1>3, <1>10, <3>1, <3>2 DEF Mtrs
  <2>3. stop' \in [Federates -> Nat] /\ \A g \in Federates \ {Master} : stop'[g] = stop[g]
    <3>1. time[Master] + Padding \in Nat
      BY MasterPlace
    <3>2. stop' = stop \/ stop' = [stop EXCEPT ![Master] = time[Master] + Padding]
      BY <2>1
    <3>3. stop \in [Federates -> Nat]
      BY DEF TypeInv
    <3> QED BY <3>1, <3>2, <3>3
  <2>4. /\ Idle(MtrFreeze) => Idle(MtrFreeze)'
        /\ Active(MtrFreeze)' <=> Active(MtrFreeze)
        /\ Active(MtrRun)' <=> Active(MtrRun)
    BY <2>1, PointsSame DEF PointsStay, IdleKept, Active, Proved!Active, syncVars
  <2>5. ClearMaster => ClearMaster'
    BY <1>1, <1>2, <1>3, <1>10, <2>1, <2>2, <2>4 DEF ClearMaster, Mtrs
  <2>6. SetMaster => SetMaster'
    BY <1>10 DEF SetMaster
  <2>7. ComingMaster => ComingMaster'
    <3>1. ASSUME mode[Master] = "RUNNING", NoOther PROVE NoOther'
      <4>1. Asked("to_shutdown") /\ "to_shutdown" \in Mtrs
        BY <1>3, <1>10, <3>1 DEF Asked, Mtrs
      <4>2. FreezeOnce /\ left["press_freeze"] = 0 /\ cmd # "freeze"
        BY <3>1, <4>1 DEF NoOther, FreezeByMtr, FreezeByPanel
      <4> QED BY <1>1, <1>6, <4>2 DEF NoOther
    <3> QED BY <1>1, <1>3, <2>2, <3>1 DEF ComingMaster, Ends
  <2>8. /\ b \in (Frame \ {"tag"}) \cup Acts \cup {"frozen", "thaw"}
        /\ pc[Master] \in (Frame \ {"tag"}) \cup Acts \cup {"frozen"}
        /\ b \in Frame => mode[Master] = "RUNNING"
        /\ b \in {"frozen", "thaw"} => mode[Master] = "FREEZE"
        /\ mode[Master] = "RUNNING" => ~HasAsked(Master)
        /\ pc[Master] \notin {"end", "eof"}
        /\ Goto(Master, pc[Master], b)
    BY <1>1, <1>3 DEF Frame, Acts, HasAsked
  <2> HIDE DEF b
  <2> QED BY <1>2, <1>4, <1>7, <1>8, <2>1, <2>2, <2>3, <2>5, <2>6, <2>7, <2>8, MasterMoves
<1> QED BY <1>9, <1>10

-----------------------------------------------------------------------------
(* A frame.                                                                *)

LEMMA GrantTime ==
  ASSUME FreezeAssumption, Inv, NEW f \in Federates, Grant(f)
  PROVE  /\ TimeInv' /\ TypeInv' /\ PointsStay /\ In' = In /\ SameMembers /\ life' = life
         /\ Touches(f) /\ pc[f] = "tag" /\ pc'[f] = (IF f = Master THEN "mtr" ELSE "receive")
         /\ time'[f] = time[f] + Step[f] /\ time[f] \in Nat /\ Step[f] \in Nat \ {0}
         /\ UNCHANGED <<mode, wanted, sched, stop, exco, wire, queue, requests>>
         /\ \A g \in In \ {f} : time'[f] < time[g] + Step[g] + Ahead(g)
         /\ \A i \in DOMAIN wire[f] : time'[f] < wire[f][i].sent + MaxDelay
         /\ f \in In
<1> USE Constants, Parts
<1> DEFINE t == time[f] + Step[f]
           p == IF f = Master THEN "mtr" ELSE "receive"
<1>1. /\ Goto(f, "tag", p) /\ pc[f] = "tag" /\ pc' = [pc EXCEPT ![f] = p] /\ life[f] = "in"
      /\ UNCHANGED <<syncVars, mode, wanted, sched, stop, exco, wire, queue, requests>>
      /\ time' = [time EXCEPT ![f] = t]
      /\ \A i \in DOMAIN wire[f] : t < wire[f][i].sent + MaxDelay
  BY SameTerms DEF Grant, Goto, trick
<1>2. \A g \in In \ {f} : t < time[g] + Step[g] + Ahead(g)
  BY SameTerms DEF Grant, Ahead
<1>3. PointsStay /\ In' = In /\ SameMembers /\ life' = life
  BY <1>1, PointsSame DEF PointsStay, SameMembers, In, Proved!In
<1>4. /\ time \in [Federates -> Nat] /\ Step[f] \in Nat \ {0} /\ time[f] \in Nat /\ t \in Nat
      /\ pc \in [Federates -> Places] /\ p \in Places
  BY Steps DEF TypeInv, Places, Frame, OtherFrame
<1>5. /\ pc'[f] = p /\ time'[f] = t
      /\ \A g \in Federates \ {f} : pc'[g] = pc[g] /\ time'[g] = time[g]
  BY <1>1, <1>4
<1>6. TypeInv'
  <2>1. pc' \in [Federates -> Places] /\ time' \in [Federates -> Nat]
    BY <1>1, <1>4
  <2> HIDE DEF t, p
  <2> QED BY <1>1, <2>1 DEF TypeInv, requests
<1>7. Touches(f)
  BY <1>1, <1>5 DEF Touches
<1>8. f \in In
  BY <1>1 DEF In, Proved!In
<1>9. TimeInv'
  <2>1. \A g \in Federates : Multiple(Step[g], time'[g])
    <3>1. Multiple(Step[f], t)
      BY <1>4, MultiplePlus, MultipleItself DEF TimeInv
    <3> QED BY <1>5, <3>1 DEF TimeInv
  <2>2. ASSUME NEW g \in In, g # f
        PROVE  /\ Ahead(g)' = Ahead(g) /\ Ahead(g) \in Nat /\ time[g] \in Nat
               /\ time'[g] = time[g] /\ Step[g] \in Nat
    BY <1>1, <1>5, <2>2, Steps DEF Ahead, HasAsked, TypeInv
  <2>3. Ahead(f) = Step[f] /\ Ahead(f)' \in Nat
    <3>1. HasAsked(f)
      BY <1>1 DEF HasAsked
    <3> QED BY <1>4, <3>1 DEF Ahead
  <2>4. ASSUME NEW g \in In', NEW h \in In', g # h
        PROVE  time'[g] < time'[h] + Step[h] + Ahead(h)'
    <3>1. CASE g = f
      BY <1>2, <1>3, <1>5, <2>2, <2>4, <3>1
    <3>2. CASE h = f
      <4>1. time[g] < time[f] + Step[f] + Ahead(f)
        BY <1>3, <1>8, <2>4, <3>2 DEF TimeInv
      <4> HIDE DEF t
      <4>2. time[g] < t + Step[f]
        BY <1>4, <2>2, <2>3, <2>4, <1>3, <3>2, <4>1 DEF t
      <4> QED BY <1>3, <1>4, <1>5, <2>2, <2>3, <2>4, <3>2, <4>2
    <3>3. CASE g # f /\ h # f
      BY <1>3, <1>5, <2>2, <2>4, <3>3 DEF TimeInv
    <3> QED BY <3>1, <3>2, <3>3
  <2>5. \A g, h \in In' : pc'[g] = "running" /\ pc'[h] = "running" => time'[g] = time'[h]
    BY <1>3, <1>5 DEF TimeInv
  <2> QED BY <1>1, <2>1, <2>4, <2>5 DEF TimeInv
<1> QED BY <1>1, <1>2, <1>3, <1>4, <1>5, <1>6, <1>7, <1>8, <1>9

LEMMA GrantMaster ==
  ASSUME FreezeAssumption, Inv, Grant(Master)
  PROVE  Inv'
<1> USE Constants, Parts
<1>1. /\ TimeInv' /\ TypeInv' /\ PointsStay /\ In' = In /\ SameMembers /\ life' = life
      /\ Touches(Master) /\ pc[Master] = "tag" /\ pc'[Master] = "mtr"
      /\ time'[Master] = time[Master] + Step[Master] /\ time[Master] \in Nat
      /\ Step[Master] \in Nat \ {0}
      /\ UNCHANGED <<mode, wanted, sched, stop, exco, wire, queue, requests>>
      /\ Master \in In
  BY GrantTime
<1>2. UNCHANGED <<mtr, calling, cmd, left>>
  BY <1>1 DEF requests
<1>3. /\ mode[Master] = "RUNNING" /\ exco.cur = mode[Master] /\ exco.at \in Nat
      /\ wire[Master] = <<>> /\ queue[Master] = <<>> /\ Multiple(LCTS, exco.at)
      /\ Multiple(Step[Master], time[Master])
  BY <1>1, MasterPlace DEF PlacesInv, Frame, TimeInv
<1>4. ActingInv'
  BY <1>1 DEF ActingInv, Acts
<1>5. RequestsInv'
  BY <1>2 DEF RequestsInv, FreezeByMtr, FreezeByPanel, FreezeOnce, Asked
<1>6. PointsInv'
  <2>1. ASSUME NEW g \in In, pc[g] \in {"freezing", "running"} PROVE pc'[g] = pc[g]
    BY <1>1, <2>1 DEF Touches
  <2>2. AtRun(Master)' <=> AtRun(Master)
    BY <1>1 DEF AtRun
  <2> QED BY <1>1, <2>1, <2>2, PointsKept DEF PointsStay
<1>7. Spares
  BY <1>1 DEF Touches, Spares, Sent
<1>8. /\ Idle(MtrFreeze) => Idle(MtrFreeze)'
      /\ Active(MtrFreeze)' <=> Active(MtrFreeze)
      /\ Active(MtrRun)' <=> Active(MtrRun)
      /\ NoneSent(Master)' /\ NoneTold(Master)'
  BY <1>1, <1>3 DEF PointsStay, IdleKept, SameMembers, Active, Proved!Active, NoneSent, NoneTold,
     None
<1>9. ~SetPhase
  BY <1>1 DEF SetPhase, SetMaster
<1>10. ~Stopped(Master)' /\ ~Stopped(Master)
  BY <1>1 DEF Stopped, Halts, Acts
<1>11. ASSUME ClearPhase
       PROVE  ClearMaster' /\ Clear(Master)'
  <2>1. Clear(Master) /\ ClearMaster
    BY <1>1, <1>11 DEF ClearPhase
  <2>2. ClearMaster'
    BY <1>1, <1>2, <1>3, <1>8, <2>1 DEF ClearMaster
  <2> QED BY <1>1, <1>8, <1>10, <2>1, <2>2 DEF Clear, Unasked
<1>12. ASSUME ComingPhase
       PROVE  ComingMaster' /\ Stage(Master)' /\ (Firm(Master) => Firm(Master)')
  <2>1. StageDue(Master)
    BY <1>1, <1>10, <1>12, MasterStage DEF AtFreeze, Gone
  <2>2. time[Master] < exco.at /\ ~Firm(Master)
    BY <1>1, <1>10, <2>1 DEF StageDue, Firm, AtFreeze, Gone
  <2>3. time'[Master] <= exco.at
    BY <1>1, <1>3, <2>2, StepFits
  <2>4. StageDue(Master)'
    BY <1>1, <1>8, <1>10, <2>1, <2>3 DEF StageDue
  <2>5. ComingMaster'
    <3>1. ComingMaster
      BY <1>12 DEF ComingPhase
    <3>2. NoOther => NoOther'
      BY <1>1, <1>2 DEF NoOther, FreezeByMtr, FreezeByPanel, FreezeOnce, Asked
    <3> QED BY <1>1, <3>1, <3>2 DEF ComingMaster, Ends
  <2> QED BY <2>2, <2>4, <2>5 DEF Stage
<1>13. /\ exco'.at = exco.at /\ exco'.cur = mode'[Master] /\ mode'[Master] # "SHUTDOWN"
       /\ wire'[Master] = <<>> /\ queue'[Master] = <<>>
       /\ pc'[Master] \in Frame \cup Acts \cup Halts \cup (Ends \ {"down"}) /\ pc[Master] # "down"
       /\ mode'[Master] = "RUNNING"
  BY <1>1, <1>3 DEF Frame
<1> QED BY <1>1, <1>4, <1>5, <1>6, <1>7, <1>9, <1>11, <1>12, <1>13, MasterSteps

LEMMA GrantOther ==
  ASSUME FreezeAssumption, Inv, NEW f \in Others, Grant(f)
  PROVE  Inv'
<1> USE Constants, Parts
<1>0. f \in Federates /\ f # Master
  BY DEF Others
<1>1. /\ TimeInv' /\ TypeInv' /\ PointsStay /\ In' = In /\ SameMembers /\ life' = life
      /\ Touches(f) /\ pc[f] = "tag" /\ pc'[f] = "receive"
      /\ time'[f] = time[f] + Step[f] /\ time[f] \in Nat /\ Step[f] \in Nat \ {0}
      /\ UNCHANGED <<mode, wanted, sched, stop, exco, wire, queue, requests>>
      /\ \A g \in In \ {f} : time'[f] < time[g] + Step[g] + Ahead(g)
      /\ \A i \in DOMAIN wire[f] : time'[f] < wire[f][i].sent + MaxDelay
      /\ f \in In
  BY <1>0, GrantTime
<1>2. /\ exco.at \in Nat /\ Multiple(LCTS, exco.at) /\ Multiple(Step[f], time[f])
      /\ wire[f] \in Seq(Sends)
  BY <1>0, MasterPlace DEF TimeInv, TypeInv
<1>3. PointsInv'
  <2>1. ASSUME NEW g \in In, pc[g] \in {"freezing", "running"} PROVE pc'[g] = pc[g]
    BY <1>1, <2>1 DEF Touches
  <2>2. pc'[Master] = pc[Master]
    BY <1>0, <1>1 DEF Touches
  <2>3. AtRun(Master)' <=> AtRun(Master)
    BY <2>2 DEF AtRun
  <2> QED BY <1>1, <2>1, <2>2, <2>3, PointsKept DEF PointsStay
<1>4. OtherPlace(f)'
  <2>1. OtherPlace(f) /\ stop[f] \in Nat
    BY <1>0 DEF PlacesInv, TypeInv
  <2> QED BY <1>1, <2>1 DEF OtherPlace, OtherFrame
<1>5. \A g \in Federates : life'[g] = "in" <=> pc'[g] # "down"
  BY <1>0, <1>1 DEF PlacesInv, Touches
<1>6. /\ Active(MtrFreeze)' <=> Active(MtrFreeze)
      /\ Active(MtrRun)' <=> Active(MtrRun)
      /\ \A g : Achieved(g) => Achieved(g)'
      /\ NoneSent(f)' <=> NoneSent(f)
      /\ NoneTold(f)' <=> NoneTold(f)
      /\ DueSends' = DueSends /\ DueUpdates' = DueUpdates
  BY <1>1 DEF SameMembers, Active, Proved!Active, Achieved, NoneSent, NoneTold, DueSends, DueUpdates
<1>7. /\ OneSent(f)' <=> OneSent(f)
      /\ OneTold(f)' <=> OneTold(f)
  BY <1>1, <1>6 DEF OneSent, OneTold
<1>8. ~Stopped(f) /\ ~Stopped(f)'
  BY <1>1 DEF Stopped, Halts, Acts
<1>9. ClearPhase => Clear(f)'
  BY <1>1, <1>6, <1>8 DEF ClearPhase, Clear, Unasked
<1>10. ASSUME SetPhase PROVE Unasked(f)' /\ Before(f)'
  <2>1. /\ Master \in In /\ Ahead(Master) = 0 /\ time[Master] + Padding <= exco.at
        /\ time[Master] \in Nat
    BY <1>10, MasterPlace DEF SetPhase, SetMaster, Ahead, HasAsked
  <2>2. time'[f] < time[Master] + Step[Master] + 0
    BY <1>0, <1>1, <2>1
  <2>3. Step[Master] \in Nat /\ Step[Master] <= LCTS
    BY Steps
  <2>4. time'[f] < exco.at
    BY <1>1, <1>2, <2>1, <2>2, <2>3
  <2> QED BY <1>1, <1>6, <1>8, <1>10, <2>4 DEF SetPhase, Unasked, Before
<1>11. ASSUME ComingPhase PROVE Stage(f)' /\ (Firm(f) => Firm(f)')
  <2>1. Stage(f) /\ ~Firm(f) /\ ~AtFreeze(f) /\ ~Gone(f) /\ ~Ending(f)
    BY <1>1, <1>8, <1>11 DEF ComingPhase, Firm, AtFreeze, Gone, Ending
  <2>2. ASSUME time[f] < exco.at PROVE time'[f] <= exco.at
    BY <1>0, <1>1, <1>2, <2>2, StepFits
  <2>3. CASE StageSent(f)
    <3>1. PICK k \in 1..Len(wire[f]) : wire[f][k] \in DueSends
      BY <2>3 DEF StageSent, OneSent, One
    <3>2. /\ wire[f][k].sent + MaxDelay <= exco.at /\ wire[f][k].sent \in Nat
          /\ time'[f] < wire[f][k].sent + MaxDelay
      BY <1>1, <1>2, <3>1 DEF DueSends, FreezeSends, Sends
    <3>3. time'[f] < exco.at
      BY SMTT(20), <1>1, <1>2, <3>2
    <3>4. StageSent(f)'
      BY <1>1, <1>6, <1>7, <1>8, <2>3, <3>3 DEF StageSent, Before
    <3> QED BY <2>1, <3>4 DEF Stage
  <2>4. CASE StageTold(f)
    <3>1. time[f] < exco.at
      BY <1>1, <2>4 DEF StageTold, Before
    <3>2. StageTold(f)'
      BY <1>1, <1>2, <1>6, <1>7, <1>8, <2>2, <2>4, <3>1 DEF StageTold, Before
    <3> QED BY <2>1, <3>2 DEF Stage
  <2>5. CASE StageDue(f)
    <3>1. StageDue(f)'
      BY <1>1, <1>6, <1>8, <2>2, <2>5 DEF StageDue
    <3> QED BY <2>1, <3>1 DEF Stage
  <2> QED BY <2>1, <2>3, <2>4, <2>5 DEF Stage
<1> QED BY <1>0, <1>1, <1>3, <1>4, <1>5, <1>6, <1>9, <1>10, <1>11, OtherSteps DEF PointsStay

LEMMA EnterFreezeMaster ==
  ASSUME FreezeAssumption, Inv, EnterFreeze(Master)
  PROVE  Inv'
<1> USE Constants, Parts
<1>1. /\ Goto(Master, "end", "eof") /\ UNCHANGED <<time, mode, stop, queue, mtr, calling, left>>
      /\ pc[Master] = "end" /\ pc' = [pc EXCEPT ![Master] = "eof"] /\ pc'[Master] = "eof"
  BY DEF EnterFreeze, Goto, TypeInv
<1>2. /\ mode[Master] = "RUNNING" /\ exco.cur = "RUNNING" /\ Master \in In
  BY <1>1, MasterPlace DEF PlacesInv, Frame
<1>3. ActingInv'
  BY <1>1 DEF ActingInv, Acts
<1>4. \A r : Asked(r)' <=> Asked(r)
  BY <1>1 DEF Asked
<1>5. mtr' \in [flag : BOOLEAN, pending : Asks, read : Asks] /\ calling' \in Asks
      /\ left' \in [Requests -> Nat]
  BY <1>1 DEF TypeInv
<1>6. CASE cmd = "freeze" /\ wanted # "FREEZE"
  <2> DEFINE x == NextMode("FREEZE")
  <2>1. /\ exco' = x /\ SendExCO(x) /\ wanted' = "FREEZE" /\ cmd' = "none"
        /\ sched' = [sched EXCEPT ![Master] = x.at]
        /\ SP!RegisterCall(Master, MtrFreeze, SP!In, TRUE)
    BY <1>6 DEF EnterFreeze
  <2>2. "FREEZE" \in Modes
    BY DEF Modes
  <2>3. /\ x \in Updates /\ x.cur = exco.cur /\ x.next = "FREEZE"
        /\ Multiple(LCTS, x.at) /\ time[Master] + Padding <= x.at
    BY <2>2, NextModes
  <2> HIDE DEF x
  <2>4. x \in FreezeUpdates /\ x.at \in Nat
    BY <1>2, <2>3 DEF FreezeUpdates, Updates
  <2>5. ~NoOther
    BY <1>6 DEF NoOther, FreezeByMtr
  <2>6. ClearPhase
    BY <1>1, <1>2, <2>5 DEF Phase, SetPhase, SetMaster, ComingPhase, ComingMaster, Ends
  <2>7. \A f \in In : /\ time[f] < x.at
                      /\ Stopped(f) => pc[f] = "running" /\ time[f] + 2 * LCTS <= x.at
                      /\ Unasked(f)
    BY <1>1, <1>2, <2>3, <2>4, <2>6, FreezeAhead
  <2>8. RequestsInv' /\ NoOther'
    BY <1>1, <1>4, <1>6, <2>1
       DEF RequestsInv, FreezeByMtr, FreezeByPanel, FreezeOnce, NoOther
  <2>9. Idle(MtrFreeze) /\ ~Active(MtrRun)
    BY <1>1, <2>6 DEF ClearPhase, ClearMaster
  <2>10. cmd' \in {"none", "freeze", "exit"} /\ wanted' \in Modes /\ cmd' # "freeze"
    BY <2>1, <2>2
  <2> QED BY <1>1, <1>2, <1>3, <1>5, <2>1, <2>3, <2>4, <2>7, <2>8, <2>9, <2>10, FreezeStarts
<1>7. CASE ~(cmd = "freeze" /\ wanted # "FREEZE")
  <2>1. /\ cmd' = IF cmd = "freeze" /\ time[Master] < exco.at THEN "none" ELSE cmd
        /\ UNCHANGED <<syncVars, wanted, sched, exco, wire>>
    BY <1>7 DEF EnterFreeze
  <2>2. /\ FreezeByMtr => FreezeByMtr'
        /\ FreezeByPanel => FreezeByPanel'
        /\ FreezeOnce => FreezeOnce'
    BY <1>1, <1>4, <2>1 DEF FreezeByMtr, FreezeByPanel, FreezeOnce
  <2>3. RequestsInv'
    BY <2>2 DEF RequestsInv
  <2>4. /\ Idle(MtrFreeze) => Idle(MtrFreeze)'
        /\ Active(MtrFreeze)' <=> Active(MtrFreeze)
        /\ Active(MtrRun)' <=> Active(MtrRun)
    BY <2>1, PointsSame DEF PointsStay, IdleKept, Active, Proved!Active, syncVars
  <2>5. ClearMaster => ClearMaster'
    BY <1>1, <1>7, <2>1, <2>4 DEF ClearMaster
  <2>6. SetMaster => SetMaster'
    BY <1>1 DEF SetMaster
  <2>7. ASSUME ComingMaster, ComingPhase PROVE ComingMaster'
    <3>1. time[Master] <= exco.at
      BY <1>1, <2>7, MasterStage, MasterPlace DEF StageDue, AtFreeze, Gone
    <3>2. NoOther => NoOther'
      BY <1>1, <2>1, <2>2 DEF NoOther
    <3>3. cmd' = "freeze" => time[Master] = exco.at
      BY <2>1, <3>1, MasterPlace
    <3> QED BY <1>1, <2>1, <2>7, <3>2, <3>3 DEF ComingMaster, Ends
  <2>8. /\ "eof" \in (Frame \ {"tag"}) \cup Acts \cup {"frozen", "thaw"}
        /\ pc[Master] \in (Frame \ {"tag"}) \cup Acts \cup {"frozen"}
        /\ HasAsked(Master)'
        /\ Goto(Master, pc[Master], "eof")
    BY <1>1 DEF Frame, Acts, HasAsked
  <2>9. /\ exco' \in Updates /\ wanted' \in Modes /\ cmd' \in {"none", "freeze", "exit"}
        /\ wire' \in [Federates -> Seq(Sends)] /\ stop' \in [Federates -> Nat]
        /\ \A g \in Federates : Sent(g)
        /\ stop' = stop /\ sched' = sched /\ wire' = wire /\ exco' = exco
    BY <1>1, <2>1 DEF TypeInv, Sent
  <2> QED BY <1>1, <1>2, <1>3, <1>5, <2>1, <2>3, <2>5, <2>6, <2>7, <2>8, <2>9, MasterMoves
<1> QED BY <1>6, <1>7

\* A step of another federate that changes only where it is: not its stage.
LEMMA OtherMoves ==
  ASSUME FreezeAssumption, Inv, NEW f \in Others, NEW b \in OtherFrame \cup {"thaw", "run"},
         Goto(f, pc[f], b),
         UNCHANGED <<syncVars, time, mode, wanted, trick, exco, wire, queue, requests>>,
         pc[f] \in {"receive", "end", "frozen", "thaw"},
         pc[f] \in {"receive", "end"} => b \in {"end", "eof"},
         pc[f] \in {"frozen", "thaw"} => b \in {"thaw", "run"},
         pc[f] = "receive" => queue[f] = <<>>
  PROVE  Inv'
<1> USE Constants, Parts
<1>0. f \in Federates /\ f # Master /\ pc \in [Federates -> Places]
  BY DEF Others, TypeInv
<1>1. /\ pc' = [pc EXCEPT ![f] = b] /\ life[f] = "in" /\ f \in In
      /\ UNCHANGED <<sched, stop, mtr, calling, cmd, left, life>>
  BY <1>0, SameTerms DEF Goto, trick, requests, syncVars, In, Proved!In
<1>2. PointsStay /\ SameMembers /\ IdleKept /\ In' = In
  BY PointsSame DEF PointsStay, SameMembers, In, Proved!In
<1>3. /\ pc'[f] = b /\ b # "down" /\ \A g \in Federates \ {f} : pc'[g] = pc[g]
      /\ pc[f] \notin {"running", "freezing", "tag", "cte", "down", "shutdown", "closing", "close"}
      /\ b \notin {"tag", "cte", "running", "receive"}
      /\ Touches(f)
  BY <1>0, <1>1 DEF OtherFrame, Touches
<1>4. TypeInv'
  <2>1. pc' \in [Federates -> Places]
    BY <1>0, <1>1 DEF Places, Halts
  <2> QED BY <1>1, <2>1 DEF TypeInv
<1>5. TimeInv'
  <2>1. ASSUME NEW g \in In', HasAsked(g) PROVE HasAsked(g)'
    BY <1>1, <1>2, <1>3, <2>1 DEF HasAsked
  <2>2. ASSUME NEW g \in In', pc'[g] = "running" PROVE pc[g] = "running"
    BY <1>1, <1>2, <1>3, <2>2
  <2>3. Multiple(LCTS, exco'.at)
    BY MasterPlace
  <2> QED BY <1>2, <2>1, <2>2, <2>3, TimeKept
<1>6. PointsInv'
  <2>1. ASSUME NEW g \in In, pc[g] \in {"freezing", "running"} PROVE pc'[g] = pc[g]
    BY <1>2, <1>3, <2>1
  <2>2. pc'[Master] = pc[Master] /\ (AtRun(Master)' <=> AtRun(Master))
    BY <1>0, <1>3 DEF AtRun
  <2> QED BY <1>2, <2>1, <2>2, PointsKept
<1>7. OtherPlace(f)'
  <2>1. OtherPlace(f)
    BY DEF PlacesInv
  <2> QED BY <1>1, <1>3, <2>1 DEF OtherPlace, OtherFrame, Halts
<1>8. /\ Active(MtrFreeze)' <=> Active(MtrFreeze)
      /\ Active(MtrRun)' <=> Active(MtrRun)
      /\ \A g : Achieved(g) => Achieved(g)'
  BY <1>2 DEF SameMembers, Active, Proved!Active, Achieved
<1>9. /\ Clear(f) => Clear(f)'
      /\ Unasked(f) /\ Before(f) => Unasked(f)' /\ Before(f)'
      /\ Stage(f) => Stage(f)'
      /\ Firm(f) => Firm(f)'
  <2>1. Stopped(f)' <=> Stopped(f)
    BY <1>3 DEF Stopped, Halts, Acts
  <2>2. pc[f] = "receive" => NoneTold(f)
    BY DEF NoneTold, None
  <2>3. wire[f] \in Seq(Sends) /\ Sent(f)
    BY <1>0 DEF TypeInv, Sent
  <2> QED BY <1>1, <1>3, <1>8, <2>1, <2>2, <2>3, PcMoves
<1>10. \A g \in Federates : life'[g] = "in" <=> pc'[g] # "down"
  BY <1>1, <1>3 DEF PlacesInv
<1>11. /\ ClearPhase => Clear(f)'
       /\ SetPhase => Unasked(f)' /\ Before(f)'
       /\ ComingPhase => Stage(f)' /\ (Firm(f) => Firm(f)')
  BY <1>1, <1>9 DEF ClearPhase, SetPhase, ComingPhase
<1> QED BY <1>2, <1>3, <1>4, <1>5, <1>6, <1>7, <1>8, <1>10, <1>11, OtherSteps DEF PointsStay

LEMMA EnterFreezeOther ==
  ASSUME FreezeAssumption, Inv, NEW f \in Others, EnterFreeze(f)
  PROVE  Inv'
<1>1. f # Master /\ Goto(f, "end", "eof") /\ pc[f] = "end"
  BY DEF Others, EnterFreeze, Goto
<1>2. UNCHANGED <<syncVars, time, mode, wanted, trick, exco, wire, queue, requests>>
  BY <1>1 DEF EnterFreeze, trick, requests
<1> QED BY <1>1, <1>2, OtherMoves DEF OtherFrame

LEMMA NoUpdateOther ==
  ASSUME FreezeAssumption, Inv, NEW f \in Others, NoUpdate(f)
  PROVE  Inv'
<1>1. Goto(f, "receive", "end") /\ pc[f] = "receive" /\ queue[f] = <<>>
  BY DEF NoUpdate, Goto
<1> QED BY <1>1, OtherMoves DEF OtherFrame, NoUpdate

LEMMA ExitFreezeOther ==
  ASSUME FreezeAssumption, Inv, NEW f \in Others, ExitFreeze(f)
  PROVE  Inv'
<1>1. f # Master /\ Goto(f, "thaw", "run") /\ pc[f] = "thaw"
  BY DEF Others, ExitFreeze, Goto
<1>2. UNCHANGED <<syncVars, time, mode, wanted, trick, exco, wire, queue, requests>>
  BY <1>1 DEF ExitFreeze
<1> QED BY <1>1, <1>2, OtherMoves

\* Where f goes at the end of a frame, and what that means for its stage.
LEMMA FrameEnds ==
  ASSUME FreezeAssumption, Inv, NEW f \in Federates, EndFrame(f)
  PROVE  /\ pc[f] = "eof" /\ f \in In /\ PointsStay /\ In' = In /\ SameMembers /\ life' = life
         /\ TypeInv' /\ TimeInv' /\ Touches(f) /\ sched'[f] \in {sched[f], 0}
         /\ UNCHANGED <<time, mode, wanted, stop, exco, wire, queue, mtr, calling, left>>
         /\ f # Master => cmd' = cmd
         /\ \/ pc'[f] = "shutdown" /\ MustStop(f) /\ sched'[f] = sched[f] /\ cmd' = cmd
            \/ /\ pc'[f] = "freeze" /\ sched'[f] = 0 /\ MustFreeze(f)
               /\ f = Master => cmd' = "none"
            \/ /\ pc'[f] = "tag" /\ ~MustStop(f) /\ ~MustFreeze(f) /\ sched'[f] = sched[f]
               /\ cmd' = cmd
         /\ (NoneSent(f)' <=> NoneSent(f)) /\ (NoneTold(f)' <=> NoneTold(f))
         /\ (OneSent(f)' <=> OneSent(f)) /\ (OneTold(f)' <=> OneTold(f))
<1> USE Constants, Parts
<1>1. PICK b \in {"shutdown", "freeze", "tag"} :
        /\ Goto(f, "eof", b) /\ pc[f] = "eof" /\ pc' = [pc EXCEPT ![f] = b]
        /\ UNCHANGED <<syncVars, time, mode, wanted, stop, exco, wire, queue, mtr, calling, left>>
        /\ f # Master => cmd' = cmd
        /\ \/ b = "shutdown" /\ MustStop(f) /\ UNCHANGED <<sched, cmd>>
           \/ /\ b = "freeze" /\ MustFreeze(f) /\ sched' = [sched EXCEPT ![f] = 0]
              /\ cmd' = IF f = Master THEN "none" ELSE cmd
           \/ b = "tag" /\ ~MustStop(f) /\ ~MustFreeze(f) /\ UNCHANGED <<sched, cmd>>
  BY DEF EndFrame, Goto
<1>2. /\ pc \in [Federates -> Places] /\ sched \in [Federates -> Nat] /\ life[f] = "in"
      /\ life' = life
  BY <1>1, SameTerms DEF TypeInv, Goto, syncVars
<1>3. f \in In /\ PointsStay /\ In' = In /\ SameMembers
  BY <1>1, <1>2, PointsSame DEF In, Proved!In, PointsStay, SameMembers
<1>4. pc'[f] = b /\ \A g \in Federates \ {f} : pc'[g] = pc[g] /\ sched'[g] = sched[g]
  BY <1>1, <1>2
<1>5. TypeInv'
  <2>1. pc' \in [Federates -> Places]
    BY <1>1, <1>2 DEF Places, Frame, Halts, Ends
  <2>2. sched' \in [Federates -> Nat]
    BY <1>1, <1>2
  <2>3. cmd' \in {cmd, "none"}
    BY <1>1
  <2> QED BY <1>1, <2>1, <2>2, <2>3 DEF TypeInv
<1>6. TimeInv'
  <2>1. ASSUME NEW g \in In', HasAsked(g) PROVE HasAsked(g)'
    BY <1>1, <1>3, <1>4, <2>1 DEF HasAsked
  <2>2. ASSUME NEW g \in In', pc'[g] = "running" PROVE pc[g] = "running"
    BY <1>1, <1>3, <1>4, <2>2
  <2>3. Multiple(LCTS, exco'.at)
    BY <1>1, MasterPlace
  <2> QED BY <1>1, <1>3, <2>1, <2>2, <2>3, TimeKept
<1>7. Touches(f)
  BY <1>1, <1>4 DEF Touches
<1>8. sched'[f] \in {sched[f], 0} /\ (b = "freeze" => sched'[f] = 0)
      /\ (b # "freeze" => sched'[f] = sched[f])
  BY <1>1, <1>2
<1>9. /\ (NoneSent(f)' <=> NoneSent(f)) /\ (NoneTold(f)' <=> NoneTold(f))
      /\ (OneSent(f)' <=> OneSent(f)) /\ (OneTold(f)' <=> OneTold(f))
  <2>1. DueUpdates' = DueUpdates /\ DueSends' = DueSends
    BY <1>1 DEF DueUpdates, DueSends
  <2> QED BY <1>1, <2>1 DEF NoneSent, NoneTold, OneSent, OneTold
<1> QED BY <1>1, <1>2, <1>3, <1>4, <1>5, <1>6, <1>7, <1>8, <1>9

LEMMA EndFrameMaster ==
  ASSUME FreezeAssumption, Inv, EndFrame(Master)
  PROVE  Inv'
<1> USE Constants, Parts
<1>1. /\ pc[Master] = "eof" /\ Master \in In /\ PointsStay /\ In' = In /\ SameMembers
      /\ life' = life /\ TypeInv' /\ TimeInv' /\ Touches(Master)
      /\ UNCHANGED <<time, mode, wanted, stop, exco, wire, queue, mtr, calling, left>>
      /\ \/ pc'[Master] = "shutdown" /\ sched'[Master] = sched[Master] /\ cmd' = cmd
         \/ /\ pc'[Master] = "freeze" /\ sched'[Master] = 0 /\ MustFreeze(Master)
            /\ cmd' = "none"
         \/ /\ pc'[Master] = "tag" /\ ~MustFreeze(Master) /\ sched'[Master] = sched[Master]
            /\ cmd' = cmd
      /\ (NoneSent(Master)' <=> NoneSent(Master)) /\ (NoneTold(Master)' <=> NoneTold(Master))
  BY FrameEnds
<1>2. /\ mode[Master] = "RUNNING" /\ exco.cur = mode[Master] /\ exco.at \in Nat
      /\ wire[Master] = <<>> /\ queue[Master] = <<>> /\ time[Master] \in Nat
      /\ NoneSent(Master) /\ NoneTold(Master)
  BY <1>1, MasterPlace DEF PlacesInv, Frame
<1>3. ActingInv'
  BY <1>1 DEF ActingInv, Acts
<1>4. \A r : Asked(r)' <=> Asked(r)
  BY <1>1 DEF Asked
<1>5. /\ FreezeByMtr => FreezeByMtr'
      /\ FreezeByPanel => FreezeByPanel'
      /\ FreezeOnce => FreezeOnce'
  BY <1>1, <1>4 DEF FreezeByMtr, FreezeByPanel, FreezeOnce
<1>6. RequestsInv'
  BY <1>5 DEF RequestsInv
<1>7. PointsInv'
  <2>1. ASSUME NEW g \in In, pc[g] \in {"freezing", "running"} PROVE pc'[g] = pc[g]
    BY <1>1, <2>1 DEF Touches
  <2>2. AtRun(Master)' <=> AtRun(Master)
    BY <1>1 DEF AtRun
  <2> QED BY <1>1, <2>1, <2>2, PointsKept DEF PointsStay
<1>8. Spares
  BY <1>1 DEF Touches, Spares, Sent
<1>9. /\ Idle(MtrFreeze) => Idle(MtrFreeze)'
      /\ Active(MtrFreeze)' <=> Active(MtrFreeze)
      /\ Active(MtrRun)' <=> Active(MtrRun)
  BY <1>1 DEF PointsStay, IdleKept, SameMembers, Active, Proved!Active
<1>10. ~SetPhase
  BY <1>1 DEF SetPhase, SetMaster
<1>11. ASSUME ClearPhase
       PROVE  ClearMaster' /\ Clear(Master)'
  <2>1. ClearMaster /\ sched[Master] = 0 /\ cmd # "freeze"
    BY <1>1, <1>11 DEF ClearPhase, Clear, Unasked, ClearMaster
  <2>2. ~MustFreeze(Master)
    BY <2>1 DEF MustFreeze
  <2>3. pc'[Master] \in {"shutdown", "tag"} /\ sched'[Master] = 0 /\ cmd' = cmd
    BY <1>1, <2>1, <2>2
  <2>4. Clear(Master)'
    BY <1>1, <1>2, <2>3 DEF Clear, Unasked, Stopped, Halts, Acts
  <2>5. ClearMaster'
    BY <1>1, <1>2, <1>9, <2>1, <2>3 DEF ClearMaster
  <2> QED BY <2>4, <2>5
<1>12. ASSUME ComingPhase
       PROVE  ComingMaster' /\ Stage(Master)' /\ (Firm(Master) => Firm(Master)')
  <2>1. StageDue(Master) /\ ~Firm(Master) /\ ComingMaster
    BY <1>1, <1>2, <1>12, MasterStage
       DEF StageDue, AtFreeze, Gone, Firm, Stopped, Halts, Acts, ComingPhase
  <2>2. sched[Master] = exco.at /\ time[Master] <= exco.at
        /\ (cmd = "freeze" => time[Master] = exco.at)
    BY <1>1, <2>1 DEF StageDue, ComingMaster
  <2>3. Stage(Master)'
    <3>1. CASE pc'[Master] = "shutdown"
      BY <1>1, <2>2, <3>1 DEF Stage, Gone
    <3>2. CASE pc'[Master] = "freeze"
      <4>1. time[Master] = exco.at
        BY <1>1, <1>2, <2>2, <3>2 DEF MustFreeze
      <4>2. sched'[Master] = 0
        BY <1>1, <3>2
      <4> QED BY <1>1, <1>2, <3>2, <4>1, <4>2 DEF Stage, AtFreeze, Unasked, Stopped, Halts
    <3>3. CASE pc'[Master] = "tag"
      <4>1. time[Master] < exco.at
        BY <1>1, <1>2, <2>1, <2>2, <3>3 DEF MustFreeze, ComingMaster
      <4>2. sched'[Master] = exco.at
        BY <1>1, <2>2, <3>3
      <4> QED BY <1>1, <1>2, <3>3, <4>1, <4>2 DEF Stage, StageDue, Stopped, Halts, Acts
    <3> QED BY <1>1, <3>1, <3>2, <3>3
  <2>4. NoOther => NoOther'
    BY <1>1, <1>4, <1>5 DEF NoOther
  <2>5. ComingMaster'
    BY <1>1, <2>1, <2>4 DEF ComingMaster, Ends
  <2> QED BY <2>1, <2>3, <2>5
<1>13. /\ exco'.at = exco.at /\ exco'.cur = mode'[Master] /\ mode'[Master] # "SHUTDOWN"
       /\ wire'[Master] = <<>> /\ queue'[Master] = <<>>
       /\ pc'[Master] \in Frame \cup Acts \cup Halts \cup (Ends \ {"down"}) /\ pc[Master] # "down"
       /\ mode'[Master] = "RUNNING" /\ pc'[Master] \notin {"frozen", "thaw", "run", "running"}
  BY <1>1, <1>2 DEF Frame, Halts, Ends
<1> QED BY <1>1, <1>3, <1>6, <1>7, <1>8, <1>10, <1>11, <1>12, <1>13, MasterSteps

LEMMA EndFrameOther ==
  ASSUME FreezeAssumption, Inv, NEW f \in Others, EndFrame(f)
  PROVE  Inv'
<1> USE Constants, Parts
<1>0. f \in Federates /\ f # Master
  BY DEF Others
<1>1. /\ pc[f] = "eof" /\ f \in In /\ PointsStay /\ In' = In /\ SameMembers /\ life' = life
      /\ TypeInv' /\ TimeInv' /\ Touches(f)
      /\ UNCHANGED <<time, mode, wanted, stop, exco, wire, queue, mtr, calling, left>>
      /\ cmd' = cmd
      /\ \/ pc'[f] = "shutdown" /\ sched'[f] = sched[f]
         \/ pc'[f] = "freeze" /\ sched'[f] = 0 /\ MustFreeze(f)
         \/ pc'[f] = "tag" /\ ~MustStop(f) /\ ~MustFreeze(f) /\ sched'[f] = sched[f]
      /\ (NoneSent(f)' <=> NoneSent(f)) /\ (NoneTold(f)' <=> NoneTold(f))
      /\ (OneSent(f)' <=> OneSent(f)) /\ (OneTold(f)' <=> OneTold(f))
  BY <1>0, FrameEnds
<1>2. exco.at \in Nat /\ time[f] \in Nat /\ stop[f] \in Nat /\ OtherPlace(f)
  BY <1>0, MasterPlace DEF TypeInv, PlacesInv
<1>3. PointsInv'
  <2>1. ASSUME NEW g \in In, pc[g] \in {"freezing", "running"} PROVE pc'[g] = pc[g]
    BY <1>1, <2>1 DEF Touches
  <2>2. pc'[Master] = pc[Master] /\ (AtRun(Master)' <=> AtRun(Master))
    BY <1>0, <1>1 DEF Touches, AtRun
  <2> QED BY <1>1, <2>1, <2>2, PointsKept DEF PointsStay
<1>4. OtherPlace(f)'
  BY <1>1, <1>2 DEF OtherPlace, OtherFrame, Halts
<1>5. \A g \in Federates : life'[g] = "in" <=> pc'[g] # "down"
  BY <1>0, <1>1 DEF PlacesInv, Touches
<1>6. /\ Active(MtrFreeze)' <=> Active(MtrFreeze)
      /\ Active(MtrRun)' <=> Active(MtrRun)
      /\ \A g : Achieved(g) => Achieved(g)'
  BY <1>1 DEF SameMembers, Active, Proved!Active, Achieved
<1>7. ~Stopped(f) /\ (pc'[f] # "freeze" => ~Stopped(f)')
  BY <1>1 DEF Stopped, Halts, Acts
<1>8. ASSUME sched[f] = 0 PROVE pc'[f] # "freeze" /\ sched'[f] = 0
  BY <1>0, <1>1, <1>8 DEF MustFreeze
<1>9. ClearPhase => Clear(f)'
  BY <1>1, <1>7, <1>8 DEF ClearPhase, Clear, Unasked
<1>10. SetPhase => Unasked(f)' /\ Before(f)'
  BY <1>1, <1>7, <1>8 DEF SetPhase, Unasked, Before
<1>11. ASSUME ComingPhase PROVE Stage(f)' /\ (Firm(f) => Firm(f)')
  <2>1. Stage(f) /\ ~Firm(f) /\ ~AtFreeze(f) /\ ~Gone(f)
    BY <1>1, <1>7, <1>11 DEF ComingPhase, Firm, AtFreeze, Gone
  <2>2. time[f] <= exco.at
    BY <1>1, <1>2, <2>1 DEF Stage, StageSent, StageTold, StageDue, Ending, Before
  <2>3. CASE pc'[f] = "shutdown"
    BY <1>1, <2>1, <2>2, <2>3 DEF Stage, Gone
  <2>4. CASE pc'[f] = "freeze"
    <3>1. sched[f] # 0 /\ sched[f] <= time[f]
      BY <1>0, <1>1, <2>4 DEF MustFreeze
    <3>2. StageDue(f)
      BY <2>1, <3>1 DEF Stage, StageSent, StageTold, Ending
    <3>3. time[f] = exco.at /\ NoneSent(f) /\ NoneTold(f) /\ sched'[f] = 0
      BY <1>1, <1>2, <2>2, <2>4, <3>1, <3>2 DEF StageDue
    <3>4. AtFreeze(f)'
      BY <1>1, <2>4, <3>3 DEF AtFreeze, Unasked, Stopped, Halts
    <3> QED BY <2>1, <3>4 DEF Stage
  <2>5. CASE pc'[f] = "tag"
    <3>1. sched'[f] = sched[f] /\ ~MustStop(f) /\ ~MustFreeze(f) /\ ~Stopped(f)'
      BY <1>1, <1>7, <2>5
    <3>2. CASE StageSent(f)
      <4>1. StageSent(f)'
        BY <1>1, <3>1, <3>2 DEF StageSent, Before
      <4> QED BY <2>1, <4>1 DEF Stage
    <3>3. CASE StageTold(f)
      <4>1. StageTold(f)'
        BY <1>1, <3>1, <3>3 DEF StageTold, Before
      <4> QED BY <2>1, <4>1 DEF Stage
    <3>4. CASE StageDue(f)
      <4>1. time[f] < exco.at
        BY <1>2, <1>11, <2>2, <3>1, <3>4 DEF StageDue, MustFreeze, ComingPhase, ComingMaster
      <4>2. StageDue(f)'
        BY <1>1, <3>1, <3>4, <4>1 DEF StageDue
      <4> QED BY <2>1, <4>2 DEF Stage
    <3>5. ~Ending(f)
      BY <1>2, <3>1 DEF Ending, OtherPlace, MustStop
    <3> QED BY <2>1, <3>2, <3>3, <3>4, <3>5 DEF Stage
  <2> QED BY <1>1, <2>3, <2>4, <2>5
<1>12. UNCHANGED requests
  BY <1>1 DEF requests
<1> QED BY <1>0, <1>1, <1>3, <1>4, <1>5, <1>6, <1>9, <1>10, <1>11, <1>12, OtherSteps DEF PointsStay

-----------------------------------------------------------------------------
(* The updates, in the other federates.                                    *)

LEMMA ReflectInv ==
  ASSUME FreezeAssumption, Inv, NEW f \in Federates, Reflect(f)
  PROVE  Inv'
<1> USE Constants, Parts
<1> DEFINE e == Head(wire[f])
<1>1. /\ f \in In /\ wire[f] # <<>>
      /\ queue' = [queue EXCEPT ![f] = Append(@, e.x)] /\ wire' = [wire EXCEPT ![f] = Tail(@)]
      /\ UNCHANGED <<syncVars, pc, time, mode, wanted, sched, stop, exco, requests>>
      /\ UNCHANGED <<mtr, calling, cmd, left, life>>
  BY SameTerms DEF Reflect, trick, requests, syncVars
<1>2. f # Master /\ f \in Others
  BY <1>1, MasterPlace DEF Others
<1>3. /\ wire \in [Federates -> Seq(Sends)] /\ queue \in [Federates -> Seq(Updates)]
      /\ wire[f] \in Seq(Sends) /\ queue[f] \in Seq(Updates)
  BY DEF TypeInv
<1>4. /\ e \in Sends /\ e.x \in Updates /\ Tail(wire[f]) \in Seq(Sends)
      /\ Append(queue[f], e.x) \in Seq(Updates)
      /\ e.x \in FreezeUpdates <=> e \in FreezeSends
  <2>1. e \in Sends /\ Tail(wire[f]) \in Seq(Sends)
    BY <1>1, <1>3
  <2>2. e.x \in Updates
    BY <2>1 DEF Sends
  <2> QED BY <1>3, <2>1, <2>2 DEF FreezeSends
<1> HIDE DEF e
<1>5. queue'[f] = Append(queue[f], e.x) /\ wire'[f] = Tail(wire[f])
  BY <1>1, <1>3
<1>6. TypeInv'
  <2>1. wire' \in [Federates -> Seq(Sends)] /\ queue' \in [Federates -> Seq(Updates)]
    BY <1>1, <1>3, <1>4
  <2> QED BY <1>1, <2>1 DEF TypeInv
<1>7. PointsStay /\ SameMembers /\ In' = In
  BY <1>1, PointsSame DEF PointsStay, SameMembers, In, Proved!In
<1>8. Touches(f)
  BY <1>1, <1>3 DEF Touches
<1>9. OtherPlace(f)' /\ \A g \in Federates : life'[g] = "in" <=> pc'[g] # "down"
  BY <1>1, <1>2 DEF PlacesInv, OtherPlace
<1>10. TimeInv'
  BY <1>1, <1>7 DEF TimeInv, Ahead, HasAsked
<1>11. PointsInv'
  BY <1>1, <1>7, PointsKept DEF PointsStay, AtRun
<1>12. /\ Active(MtrFreeze)' <=> Active(MtrFreeze)
       /\ Active(MtrRun)' <=> Active(MtrRun)
       /\ \A g : Achieved(g) => Achieved(g)'
       /\ Stopped(f)' <=> Stopped(f)
       /\ Before(f)' <=> Before(f)
       /\ DueUpdates' = DueUpdates /\ DueSends' = DueSends
  BY <1>1, <1>7 DEF SameMembers, Active, Proved!Active, Achieved, Stopped, Before, DueUpdates,
     DueSends
<1>13. NoneSent(f) => NoneSent(f)' /\ e \notin FreezeSends
  BY <1>1, <1>3, <1>5, NoneTail DEF NoneSent, e
<1>14. e \notin FreezeSends => (NoneTold(f) => NoneTold(f)') /\ (OneTold(f) => OneTold(f)')
  <2>1. ASSUME e.x \notin FreezeUpdates, NoneTold(f) PROVE NoneTold(f)'
    BY <1>3, <1>4, <1>5, <2>1, NoneAppend DEF NoneTold
  <2>2. ASSUME e.x \notin FreezeUpdates, OneTold(f) PROVE OneTold(f)'
    BY <1>3, <1>4, <1>5, <1>12, <2>2, OneKept DEF OneTold
  <2> QED BY <1>4, <2>1, <2>2
<1>15. ASSUME OneSent(f), NoneTold(f)
       PROVE  \/ NoneSent(f)' /\ OneTold(f)'
              \/ OneSent(f)' /\ NoneTold(f)'
  <2>1. DueSends \subseteq FreezeSends
    BY DEF DueSends
  <2>2. \/ e \in DueSends /\ NoneSent(f)'
        \/ e \notin FreezeSends /\ OneSent(f)'
    BY <1>1, <1>3, <1>5, <1>12, <1>15, <2>1, OneTail DEF OneSent, NoneSent, e
  <2>3. ASSUME e \in DueSends PROVE OneTold(f)'
    <3>1. e.x \in DueUpdates
      BY <1>4, <2>1, <2>3 DEF DueSends, DueUpdates
    <3> QED BY <1>3, <1>4, <1>5, <1>12, <1>15, <3>1, OneAppend DEF NoneTold, OneTold
  <2> QED BY <1>14, <1>15, <2>2, <2>3
<1>16. Unasked(f) => Unasked(f)'
  BY <1>1, <1>13, <1>14 DEF Unasked
<1>17. ClearPhase => Clear(f)'
  BY <1>1, <1>12, <1>16 DEF ClearPhase, Clear
<1>18. SetPhase => Unasked(f)' /\ Before(f)'
  BY <1>1, <1>12, <1>16 DEF SetPhase
<1>19. AtFreeze(f) => AtFreeze(f)'
  BY <1>1, <1>12, <1>16 DEF AtFreeze, Achieved
<1>20. (Gone(f) => Gone(f)') /\ (Ending(f) => Ending(f)')
  BY <1>1 DEF Gone, Ending
<1>21. StageDue(f) => StageDue(f)'
  BY <1>1, <1>12, <1>13, <1>14 DEF StageDue
<1>22. StageTold(f) => StageTold(f)'
  BY <1>1, <1>12, <1>13, <1>14 DEF StageTold
<1>23. StageSent(f) => StageSent(f)' \/ StageTold(f)'
  BY <1>1, <1>12, <1>15 DEF StageSent, StageTold
<1>24. ComingPhase => Stage(f)' /\ (Firm(f) => Firm(f)')
  BY <1>1, <1>19, <1>20, <1>21, <1>22, <1>23 DEF ComingPhase, Stage, Firm
<1> QED BY <1>1, <1>2, <1>6, <1>7, <1>8, <1>9, <1>10, <1>11, <1>12, <1>17, <1>18, <1>24, OtherSteps
        DEF PointsStay

LEMMA ProcessUpdateInv ==
  ASSUME FreezeAssumption, Inv, NEW f \in Federates, ProcessUpdate(f)
  PROVE  Inv'
<1> USE Constants, Parts
<1> DEFINE x == Head(queue[f])
           down == x.next = "SHUTDOWN" /\ x.next # x.cur /\ mode[f] \in {"RUNNING", "FREEZE"}
           freezes == x.next = "FREEZE" /\ x.next # x.cur /\ mode[f] = "RUNNING"
<1>0. f \in Others /\ f # Master /\ queue[f] # <<>>
  BY DEF ProcessUpdate, Others
<1>1. PICK b \in {"receive", "tag", "shutdown", "thaw", "frozen"} :
        /\ Goto(f, pc[f], b) /\ pc' = [pc EXCEPT ![f] = b]
        /\ \/ pc[f] = "receive" /\ b = "receive"
           \/ pc[f] = "cte" /\ b = "tag"
           \/ pc[f] = "frozen" /\ b \in {"shutdown", "thaw", "frozen"} /\ (down => b = "shutdown")
  BY DEF ProcessUpdate, Goto
<1>2. /\ mode' = IF down THEN [mode EXCEPT ![f] = "SHUTDOWN"] ELSE mode
      /\ stop' = IF down THEN [stop EXCEPT ![f] = time[f]] ELSE stop
      /\ sched' = IF freezes THEN [sched EXCEPT ![f] = x.at] ELSE sched
      /\ queue' = [queue EXCEPT ![f] = Tail(@)]
      /\ UNCHANGED <<syncVars, time, wanted, exco, wire, requests>>
      /\ UNCHANGED <<mtr, calling, cmd, left, life>>
  BY DEF ProcessUpdate, requests, syncVars
<1>3. /\ pc \in [Federates -> Places] /\ mode \in [Federates -> Modes]
      /\ stop \in [Federates -> Nat] /\ sched \in [Federates -> Nat] /\ time \in [Federates -> Nat]
      /\ queue \in [Federates -> Seq(Updates)] /\ queue[f] \in Seq(Updates)
      /\ life[f] = "in" /\ f \in In
  BY <1>1, SameTerms DEF TypeInv, Goto, In, Proved!In
<1>4. x \in Updates /\ x.at \in Nat /\ Tail(queue[f]) \in Seq(Updates)
      /\ (freezes => x \in FreezeUpdates)
  <2>1. x \in Updates /\ Tail(queue[f]) \in Seq(Updates)
    BY <1>0, <1>3
  <2> QED BY <2>1 DEF Updates, FreezeUpdates
<1> HIDE DEF x, down, freezes
<1>5. /\ pc'[f] = b /\ queue'[f] = Tail(queue[f]) /\ time'[f] = time[f]
      /\ mode'[f] = (IF down THEN "SHUTDOWN" ELSE mode[f])
      /\ stop'[f] = (IF down THEN time[f] ELSE stop[f])
      /\ sched'[f] = (IF freezes THEN x.at ELSE sched[f])
  BY <1>1, <1>2, <1>3
<1>6. Touches(f)
  <2>1. \A g \in Federates \ {f} : pc'[g] = pc[g] /\ queue'[g] = queue[g]
    BY <1>1, <1>2, <1>3
  <2>2. \A g \in Federates \ {f} : mode'[g] = mode[g] /\ stop'[g] = stop[g]
    BY <1>2, <1>3
  <2>3. \A g \in Federates \ {f} : sched'[g] = sched[g]
    BY <1>2, <1>3
  <2> QED BY <1>2, <2>1, <2>2, <2>3 DEF Touches
<1>7. TypeInv'
  <2>1. pc' \in [Federates -> Places]
    BY <1>1, <1>3 DEF Places, OtherFrame, Halts, Ends
  <2>2. mode' \in [Federates -> Modes] /\ stop' \in [Federates -> Nat]
    BY <1>2, <1>3 DEF Modes
  <2>3. sched' \in [Federates -> Nat]
    BY <1>2, <1>3, <1>4
  <2>4. queue' \in [Federates -> Seq(Updates)]
    BY <1>2, <1>3, <1>4
  <2> QED BY <1>2, <2>1, <2>2, <2>3, <2>4 DEF TypeInv
<1>8. PointsStay /\ SameMembers /\ In' = In
  BY <1>2, PointsSame DEF PointsStay, SameMembers, In, Proved!In
<1>9. OtherPlace(f) /\ pc[f] # "down" /\ pc[f] \notin {"freezing", "running"}
  BY <1>0, <1>1 DEF PlacesInv
<1>10. OtherPlace(f)'
  BY <1>1, <1>3, <1>5, <1>9 DEF OtherPlace, OtherFrame, Halts
<1>11. \A g \in Federates : life'[g] = "in" <=> pc'[g] # "down"
  BY <1>1, <1>2, <1>5, <1>6, <1>9 DEF PlacesInv, Touches
<1>12. TimeInv'
  <2>1. ASSUME NEW g \in In', HasAsked(g) PROVE HasAsked(g)'
    <3>1. CASE g = f
      BY <1>1, <1>5, <1>9, <2>1, <3>1 DEF HasAsked, OtherPlace, OtherFrame
    <3>2. CASE g # f
      BY <1>6, <1>8, <2>1, <3>2 DEF HasAsked, Touches
    <3> QED BY <3>1, <3>2
  <2>2. ASSUME NEW g \in In', pc'[g] = "running" PROVE pc[g] = "running"
    BY <1>1, <1>5, <1>6, <1>8, <2>2 DEF Touches
  <2>3. Multiple(LCTS, exco'.at)
    BY <1>2, MasterPlace
  <2> QED BY <1>2, <1>8, <2>1, <2>2, <2>3, TimeKept
<1>13. PointsInv'
  <2>1. ASSUME NEW g \in In, pc[g] \in {"freezing", "running"} PROVE pc'[g] = pc[g]
    BY <1>1, <1>6, <1>9, <2>1 DEF Touches
  <2>2. /\ pc'[Master] = pc[Master] /\ mode'[Master] = mode[Master]
        /\ (AtRun(Master)' <=> AtRun(Master))
    BY <1>0, <1>6 DEF AtRun, Touches
  <2> QED BY <1>8, <2>1, <2>2, PointsKept DEF PointsStay
<1>14. /\ Active(MtrFreeze)' <=> Active(MtrFreeze)
       /\ Active(MtrRun)' <=> Active(MtrRun)
       /\ \A g : Achieved(g) => Achieved(g)'
       /\ NoneSent(f)' <=> NoneSent(f)
       /\ DueUpdates' = DueUpdates /\ DueSends' = DueSends
  BY <1>2, <1>8 DEF SameMembers, Active, Proved!Active, Achieved, NoneSent, DueUpdates, DueSends
<1>15. OneSent(f)' <=> OneSent(f)
  BY <1>2, <1>14 DEF OneSent
<1>16. NoneTold(f) => NoneTold(f)' /\ sched'[f] = sched[f]
  <2>1. ASSUME NoneTold(f) PROVE NoneTold(f)' /\ x \notin FreezeUpdates
    BY <1>0, <1>3, <1>5, <2>1, NoneTail DEF NoneTold, x
  <2> QED BY <1>4, <1>5, <2>1
<1>17. OneTold(f) => \/ x \in DueUpdates /\ NoneTold(f)'
                     \/ x \notin FreezeUpdates /\ OneTold(f)' /\ sched'[f] = sched[f]
  <2>1. DueUpdates \subseteq FreezeUpdates
    BY DEF DueUpdates
  <2>2. ASSUME OneTold(f)
        PROVE  \/ x \in DueUpdates /\ NoneTold(f)'
               \/ x \notin FreezeUpdates /\ OneTold(f)'
    BY <1>0, <1>3, <1>5, <1>14, <2>1, <2>2, OneTail DEF OneTold, NoneTold, x
  <2> QED BY <1>4, <1>5, <2>2
<1>18. Unasked(f) => Unasked(f)'
  BY <1>14, <1>16 DEF Unasked
<1>19. exco.at \in Nat /\ exco'.at = exco.at /\ time[f] \in Nat
  BY <1>2, <1>3, MasterPlace
<1>20. CASE pc[f] = "frozen"
  <2>1. Stopped(f)
    BY <1>20 DEF Stopped, Halts
  <2>2. ~ClearPhase /\ ~SetPhase
    BY <1>3, <1>20, <2>1 DEF ClearPhase, Clear, SetPhase, Before
  <2>3. ASSUME ComingPhase PROVE Stage(f)' /\ Firm(f)'
    <3>1. AtFreeze(f)
      BY <1>3, <1>20, <2>1, <2>3
         DEF ComingPhase, Stage, StageSent, StageTold, StageDue, Before, Ending, Gone
    <3>2. CASE b = "shutdown"
      BY <1>5, <1>19, <3>1, <3>2 DEF AtFreeze, Stage, Firm, Gone
    <3>3. CASE b # "shutdown"
      <4>1. b \in {"thaw", "frozen"}
        BY <1>1, <1>20, <3>3
      <4> QED BY <1>5, <1>18, <1>19, <3>1, <4>1 DEF AtFreeze, Stage, Firm, Stopped, Halts
    <3> QED BY <3>2, <3>3
  <2> QED BY <1>0, <1>2, <1>6, <1>7, <1>8, <1>10, <1>11, <1>12, <1>13, <1>14, <2>2, <2>3, OtherSteps
          DEF PointsStay
<1>21. CASE pc[f] # "frozen"
  <2>1. /\ (pc[f] = "receive" /\ b = "receive") \/ (pc[f] = "cte" /\ b = "tag")
        /\ ~Stopped(f) /\ ~Stopped(f)'
        /\ mode[f] \in {"RUNNING", "SHUTDOWN"} /\ (pc[f] = "cte" => mode[f] = "RUNNING")
    BY <1>1, <1>3, <1>5, <1>9, <1>21 DEF Stopped, Halts, Acts, OtherPlace, OtherFrame, Modes
  <2>2. Before(f) => Before(f)'
    BY <1>5, <1>19, <2>1 DEF Before
  <2>3. ClearPhase => Clear(f)'
    BY <1>3, <1>18, <2>1 DEF ClearPhase, Clear
  <2>4. SetPhase => Unasked(f)' /\ Before(f)'
    BY <1>3, <1>18, <2>2 DEF SetPhase
  <2>5. ASSUME ComingPhase PROVE Stage(f)' /\ (Firm(f) => Firm(f)')
    <3>1. Stage(f) /\ ~Firm(f) /\ ~AtFreeze(f) /\ ~Gone(f)
      BY <1>3, <2>1, <2>5 DEF ComingPhase, Firm, AtFreeze, Gone
    <3>2. StageSent(f) => StageSent(f)'
      BY <1>15, <1>16, <2>2 DEF StageSent
    <3>3. StageDue(f) => StageDue(f)'
      BY <1>5, <1>14, <1>16, <1>19, <2>1 DEF StageDue
    <3>4. ASSUME Ending(f) PROVE Ending(f)'
      <4>1. pc[f] = "receive" /\ ~down /\ ~freezes
        BY <2>1, <3>4 DEF Ending, down, freezes
      <4> QED BY <1>1, <1>5, <1>19, <2>1, <3>4, <4>1 DEF Ending
    <3>5. ASSUME StageTold(f) PROVE StageTold(f)' \/ StageDue(f)' \/ Ending(f)'
      <4>1. CASE x \in DueUpdates /\ NoneTold(f)'
        <5>1. x.at = exco.at /\ x.next = "FREEZE" /\ x.next # x.cur /\ ~down
          BY <4>1 DEF DueUpdates, FreezeUpdates, down
        <5>2. time[f] <= exco.at /\ (pc[f] = "cte" => time[f] < exco.at)
          BY <1>19, <3>5 DEF StageTold, Before
        <5>3. CASE mode[f] = "RUNNING"
          <6>1. freezes /\ sched'[f] = exco.at
            BY <1>5, <5>1, <5>3 DEF freezes
          <6> QED BY <1>5, <1>14, <1>19, <2>1, <3>5, <4>1, <5>2, <6>1 DEF StageDue, StageTold
        <5>4. CASE mode[f] = "SHUTDOWN"
          <6>1. ~freezes /\ sched'[f] = 0
            BY <1>5, <3>5, <5>4 DEF freezes, StageTold
          <6> QED BY <1>5, <1>19, <2>1, <5>1, <5>2, <5>4, <6>1 DEF Ending
        <5> QED BY <2>1, <5>3, <5>4
      <4>2. CASE x \notin FreezeUpdates /\ OneTold(f)' /\ sched'[f] = sched[f]
        <5>1. Before(f)' \/ (pc'[f] = "receive" /\ time'[f] = exco'.at)
          BY <1>5, <1>19, <2>1, <2>2, <3>5 DEF StageTold
        <5> QED BY <1>14, <3>5, <4>2, <5>1 DEF StageTold
      <4> QED BY <1>17, <3>5, <4>1, <4>2 DEF StageTold
    <3> QED BY <3>1, <3>2, <3>3, <3>4, <3>5 DEF Stage
  <2> QED BY <1>0, <1>2, <1>6, <1>7, <1>8, <1>10, <1>11, <1>12, <1>13, <1>14, <2>3, <2>4, <2>5,
             OtherSteps DEF PointsStay
<1> QED BY <1>20, <1>21

-----------------------------------------------------------------------------
(* The points of a transition are achieved, and lose those who left.       *)

\* A step of the points: nobody moves, or f has achieved one.
Moves(f) ==
  \/ pc' = pc
  \/ pc[f] = "freeze" /\ pc' = [pc EXCEPT ![f] = "freezing"]
  \/ pc[f] = "run" /\ pc' = [pc EXCEPT ![f] = "running"]
Rest == UNCHANGED <<time, mode, wanted, trick, exco, wire, queue, requests>>

LEMMA PointMoves ==
  ASSUME FreezeAssumption, Inv, NEW f \in Federates, Moves(f), Rest, life' = life,
         Proved!IndInv', TimeInv', PointsInv', Phase'
  PROVE  Inv'
<1> USE Constants, Parts
<1>1. /\ UNCHANGED <<time, mode, wanted, sched, stop, exco, wire, queue, mtr, calling, cmd, left>>
      /\ pc \in [Federates -> Places]
  BY DEF Rest, trick, requests, TypeInv
<1>2. /\ pc' \in [Federates -> Places]
      /\ \A g \in Federates :
           \/ pc'[g] = pc[g]
           \/ pc[g] = "freeze" /\ pc'[g] = "freezing"
           \/ pc[g] = "run" /\ pc'[g] = "running"
  BY <1>1 DEF Moves, Places, Halts
<1>3. TypeInv'
  BY <1>1, <1>2 DEF TypeInv
<1>4. PlacesInv'
  <2>1. ASSUME NEW g \in Others PROVE OtherPlace(g)'
    <3>1. OtherPlace(g) /\ g \in Federates
      BY DEF PlacesInv, Others
    <3> QED BY <1>1, <1>2, <3>1 DEF OtherPlace, OtherFrame, Halts
  <2>2. ASSUME NEW g \in Federates PROVE life'[g] = "in" <=> pc'[g] # "down"
    BY <1>2 DEF PlacesInv
  <2>3. /\ pc'[Master] \in Frame \cup Acts \cup Halts \cup Ends
        /\ pc'[Master] \in Frame \cup {"freeze", "freezing"} => mode[Master] = "RUNNING"
        /\ pc'[Master] \in {"frozen", "thaw", "run", "running"} => mode[Master] = "FREEZE"
    BY <1>2 DEF PlacesInv, Frame, Halts
  <2> QED BY <1>1, <2>1, <2>2, <2>3 DEF PlacesInv
<1>5. ActingInv'
  <2>1. /\ pc'[Master] \in Acts => pc'[Master] = pc[Master]
        /\ pc'[Master] \in {"run", "running"} => pc[Master] \in {"run", "running"}
    BY <1>2 DEF Acts
  <2> QED BY <1>1, <2>1 DEF ActingInv, IsValid, Acts
<1>6. RequestsInv'
  BY <1>1 DEF RequestsInv, FreezeByMtr, FreezeByPanel, FreezeOnce, Asked
<1> QED BY <1>3, <1>4, <1>5, <1>6 DEF Inv, BaseInv

\* What such a step leaves of the stages.
LEMMA StagesKept ==
  ASSUME FreezeAssumption, Inv, NEW f \in Federates, Moves(f), Rest,
         \A g \in In : Achieved(g) \/ (pc[g] = "run" /\ pc'[g] = "running") => Achieved(g)'
  PROVE  /\ NoOther' <=> NoOther
         /\ ComingMaster => ComingMaster'
         /\ \A g \in In : /\ Stage(g) => Stage(g)'
                          /\ Firm(g) => Firm(g)'
<1> USE Constants, Parts
<1>1. /\ UNCHANGED <<time, mode, wanted, sched, stop, exco, wire, queue, mtr, calling, cmd, left>>
      /\ pc \in [Federates -> Places]
  BY DEF Rest, trick, requests, TypeInv
<1>2. NoOther' <=> NoOther
  BY <1>1 DEF FreezeByMtr, FreezeByPanel, FreezeOnce, Asked, NoOther
<1>3. ComingMaster => ComingMaster'
  BY <1>1, <1>2 DEF ComingMaster, Moves, Ends
<1>4. ASSUME NEW g \in In
      PROVE  (Stage(g) => Stage(g)') /\ (Firm(g) => Firm(g)')
  <2>1. CASE pc'[g] = pc[g]
    <3>1. View(g)' = View(g) /\ Sent(g) /\ wire[g] \in Seq(Sends)
      BY <1>1, <2>1 DEF View, Sent, TypeInv
    <3> QED BY <3>1, ViewKept
  <2>2. CASE pc'[g] # pc[g]
    <3>1. /\ pc[g] \in {"freeze", "run"} /\ pc'[g] \in {"freezing", "running"}
          /\ pc'[g] = "running" => Achieved(g)'
      BY <1>1, <2>2 DEF Moves
    <3>2. Unasked(g)' <=> Unasked(g)
      BY <1>1 DEF Unasked, NoneSent, NoneTold
    <3>3. Stopped(g) /\ Stopped(g)'
      BY <3>1 DEF Stopped, Halts
    <3>4. AtFreeze(g) => AtFreeze(g)'
      BY <1>1, <3>1, <3>2, <3>3 DEF AtFreeze, Achieved
    <3>5. Stage(g) => AtFreeze(g)
      BY <3>1, <3>3 DEF Stage, StageSent, StageTold, StageDue, Ending, Gone, Before
    <3> QED BY <3>4, <3>5 DEF Stage, Firm, Gone
  <2> QED BY <2>1, <2>2
<1> QED BY <1>2, <1>3, <1>4

\* Such a step keeps the federates in step, when those who run do so together.
LEMMA MovesInTime ==
  ASSUME FreezeAssumption, Inv, NEW f \in Federates, Moves(f), Rest, life' = life,
         pc[f] = "run" /\ pc' # pc => \A g \in In : pc'[g] = "running" => time[g] = exco.at
  PROVE  TimeInv'
<1> USE Constants, Parts
<1>1. UNCHANGED <<time, mode, exco>> /\ In' = In /\ pc \in [Federates -> Places]
  BY DEF Rest, In, Proved!In, TypeInv
<1>2. ASSUME NEW g \in In PROVE Ahead(g)' = Ahead(g)
  <2>1. HasAsked(g)' <=> HasAsked(g)
    BY <1>1 DEF HasAsked, Moves
  <2> QED BY <2>1 DEF Ahead
<1>3. ASSUME NEW g \in In, NEW h \in In, pc'[g] = "running", pc'[h] = "running"
      PROVE  time[g] = time[h]
  <2>1. CASE pc' = pc \/ pc[f] # "run"
    <3>1. pc[g] = "running" /\ pc[h] = "running"
      BY <1>1, <1>3, <2>1 DEF Moves
    <3> QED BY <1>3, <3>1 DEF TimeInv
  <2>2. CASE pc[f] = "run" /\ pc' # pc
    BY <1>3, <2>2
  <2> QED BY <2>1, <2>2
<1> QED BY <1>1, <1>2, <1>3 DEF TimeInv

\* A point that loses those who left, or is achieved by another one, before
\* or after everybody has: in which a stage of the transition ends.
LEMMA ReachedActive ==
  ASSUME NEW l \in Labels, NEW ms, NEW done \in SUBSET ms, Reached(l, ms, done)
  PROVE  /\ Active(l)' <=> done # ms
         /\ \A k \in Labels \ {l} : Active(k)' <=> Active(k)
         /\ members'[l] \in {{}, ms} /\ achieved'[l] \in {{}, done}
BY DEF Reached, Active, Proved!Active

LEMMA FreezeReached ==
  ASSUME FreezeAssumption, Inv, NEW f \in Federates, Moves(f), Rest, life' = life,
         Proved!IndInv', IdleKept, pc[f] # "run",
         NEW ms \in SUBSET Federates, NEW done \in SUBSET ms, Reached(MtrFreeze, ms, done),
         Active(MtrFreeze), In \subseteq ms,
         \A g \in In : g \in done => pc'[g] = "freezing"
  PROVE  Inv'
<1> USE Constants, Parts
<1>1. /\ UNCHANGED <<time, mode, wanted, exco, mtr, calling, cmd, left>> /\ In' = In
      /\ \/ pc' = pc
         \/ pc[f] = "freeze" /\ pc' = [pc EXCEPT ![f] = "freezing"]
      /\ pc \in [Federates -> Places]
  BY DEF Rest, requests, In, Proved!In, Moves, TypeInv
<1>2. /\ Active(MtrFreeze)' <=> done # ms
      /\ Active(MtrRun)' <=> Active(MtrRun)
      /\ members'[MtrFreeze] \in {{}, ms} /\ achieved'[MtrFreeze] \in {{}, done}
      /\ members'[MtrRun] = members[MtrRun] /\ achieved'[MtrRun] = achieved[MtrRun]
  BY ReachedActive DEF Reached
<1>3. mode[Master] # "FREEZE" /\ ~ClearPhase /\ ~SetPhase /\ ComingPhase
  BY DEF PointsInv, ClearPhase, ClearMaster, SetPhase, SetMaster, Phase
<1>4. TimeInv'
  BY MovesInTime
<1>5. PointsInv'
  <2>1. /\ pc'[Master] # "down" => pc[Master] # "down"
        /\ pc'[Master] # "close" => pc[Master] # "close"
        /\ pc'[Master] \in {"run", "running"} <=> pc[Master] \in {"run", "running"}
    BY <1>1
  <2>2. pc'[Master] # "down" =>
         /\ pc'[Master] # "close" => Idle(MtrShutdown)'
         /\ pc'[Master] \notin {"run", "running"} => Idle(MtrRun)'
         /\ mode'[Master] = "FREEZE" => Idle(MtrFreeze)'
    BY <1>1, <1>3, <2>1 DEF PointsInv, IdleKept
  <2>3. Active(MtrRun)' => pc'[Master] \in {"run", "running"}
    BY <1>2, <2>1 DEF PointsInv
  <2>4. \A g \in In :
          /\ g \in achieved'[MtrFreeze] => pc'[g] = "freezing"
          /\ g \in achieved'[MtrRun] => pc'[g] = "running"
    BY <1>1, <1>2 DEF PointsInv
  <2>5. /\ Active(MtrFreeze)' => In \subseteq members'[MtrFreeze]
        /\ Active(MtrRun)' => In \subseteq members'[MtrRun]
    <3>1. Active(MtrFreeze)' => members'[MtrFreeze] = ms
      BY <1>2 DEF Reached
    <3> QED BY <1>2, <3>1 DEF PointsInv
  <2> QED BY <1>1, <1>3, <2>2, <2>3, <2>4, <2>5 DEF PointsInv
<1>6. /\ ComingMaster'
      /\ \A g \in In : Stage(g)' /\ (Firm(g) => Firm(g)')
  <2>1. \A g \in In : Achieved(g) \/ (pc[g] = "run" /\ pc'[g] = "running") => Achieved(g)'
    BY <1>1, <1>2 DEF Achieved
  <2> QED BY <1>3, <2>1, StagesKept DEF ComingPhase
<1>7. ASSUME ~Active(MtrFreeze)', NEW g \in In
      PROVE  Firm(g)'
  <2>1. pc'[g] = "freezing"
    BY <1>2, <1>7
  <2> QED BY <1>6, <2>1
       DEF Firm, Stage, StageSent, StageTold, StageDue, Ending, Before, Stopped, Halts
<1>8. ComingPhase'
  BY <1>1, <1>6, <1>7 DEF ComingPhase
<1> QED BY <1>4, <1>5, <1>8, PointMoves DEF Phase

LEMMA RunReached ==
  ASSUME FreezeAssumption, Inv, NEW f \in Federates, Moves(f), Rest, life' = life,
         Proved!IndInv', IdleKept, pc[f] # "freeze",
         NEW ms \in SUBSET Federates, NEW done \in SUBSET ms, Reached(MtrRun, ms, done),
         Active(MtrRun), In \subseteq ms, achieved[MtrRun] \cap In \subseteq done,
         \A g \in In : g \in done => pc'[g] = "running",
         pc[f] = "run" /\ pc' # pc => f \in done
  PROVE  Inv'
<1> USE Constants, Parts
<1>1. /\ UNCHANGED <<time, mode, wanted, exco, mtr, calling, cmd, left>> /\ In' = In
      /\ \/ pc' = pc
         \/ pc[f] = "run" /\ pc' = [pc EXCEPT ![f] = "running"]
      /\ pc \in [Federates -> Places]
  BY DEF Rest, requests, In, Proved!In, Moves, TypeInv
<1>2. /\ Active(MtrRun)' <=> done # ms
      /\ Active(MtrFreeze)' <=> Active(MtrFreeze)
      /\ members'[MtrRun] \in {{}, ms} /\ achieved'[MtrRun] \in {{}, done}
      /\ members'[MtrFreeze] = members[MtrFreeze] /\ achieved'[MtrFreeze] = achieved[MtrFreeze]
  BY ReachedActive DEF Reached
<1>3. /\ pc[Master] \in {"run", "running"} /\ mode[Master] = "FREEZE" /\ ~Active(MtrFreeze)
      /\ Idle(MtrFreeze) /\ wanted = "RUNNING" /\ exco.next = "RUNNING" /\ Master \in In
  BY MasterPlace DEF PointsInv, PlacesInv, ActingInv
<1>4. ~ClearPhase /\ ~SetPhase /\ ComingPhase /\ \A g \in In : Firm(g)
  BY <1>3 DEF ClearPhase, ClearMaster, SetPhase, SetMaster, Phase, ComingPhase
<1>5. /\ pc'[Master] \in {"run", "running"}
      /\ \A g \in In : /\ pc'[g] = "running" => pc[g] \in {"run", "running"}
                       /\ pc'[g] = "running" => AtFreeze(g)
  <2>1. pc'[Master] \in {"run", "running"}
    BY <1>1, <1>3
  <2>2. ASSUME NEW g \in In, pc'[g] = "running" PROVE pc[g] \in {"run", "running"}
    BY <1>1, <2>2
  <2> QED BY <1>4, <2>1, <2>2 DEF Firm, Gone
<1>6. TimeInv'
  BY <1>5, MovesInTime DEF AtFreeze
<1>7. PointsInv'
  <2>1. Idle(MtrFreeze)' /\ Idle(MtrShutdown)'
    BY <1>3 DEF PointsInv, IdleKept
  <2>2. \A g \in In :
          /\ g \in achieved'[MtrFreeze] => pc'[g] = "freezing"
          /\ g \in achieved'[MtrRun] => pc'[g] = "running"
    BY <1>1, <1>2 DEF PointsInv
  <2>3. Active(MtrRun)' => In \subseteq members'[MtrRun]
    BY <1>2 DEF Reached
  <2> QED BY <1>1, <1>2, <1>3, <1>5, <2>1, <2>2, <2>3 DEF PointsInv
<1>8. CASE done # ms
  <2>1. \A g \in In : Achieved(g) \/ (pc[g] = "run" /\ pc'[g] = "running") => Achieved(g)'
    BY <1>1, <1>8 DEF Achieved, Reached
  <2>2. ComingMaster' /\ \A g \in In : Stage(g)' /\ Firm(g)'
    BY <1>4, <2>1, StagesKept DEF ComingPhase
  <2>3. ComingPhase'
    BY <1>1, <2>2 DEF ComingPhase
  <2> QED BY <1>6, <1>7, <2>3, PointMoves DEF Phase
<1>9. CASE done = ms
  <2>1. ASSUME NEW g \in In PROVE Clear(g)' /\ time[g] = exco.at
    <3>1. pc'[g] = "running" /\ AtFreeze(g)
      BY <1>5, <1>9
    <3>2. Unasked(g)' <=> Unasked(g)
      BY DEF Rest, trick, Unasked, NoneSent, NoneTold
    <3>3. time'[g] = exco'.at
      BY <1>1, <3>1 DEF AtFreeze
    <3> QED BY <3>1, <3>2, <3>3 DEF AtFreeze, Clear
  <2>2. Idle(MtrFreeze)' /\ ~Active(MtrFreeze)' /\ ~Active(MtrRun)'
    BY <1>2, <1>3, <1>9 DEF IdleKept
  <2>3. pc'[Master] = "running"
    BY <1>3, <1>9
  <2>4. exco.at <= time[Master]
    BY <1>3, <2>1, MasterPlace
  <2>5. ClearMaster'
    BY <1>1, <1>3, <2>2, <2>3, <2>4 DEF ClearMaster
  <2>6. ClearPhase'
    BY <1>1, <2>1, <2>5 DEF ClearPhase
  <2> QED BY <1>6, <1>7, <2>6, PointMoves DEF Phase
<1> QED BY <1>8, <1>9

LEMMA AchieveFreezeInv ==
  ASSUME FreezeAssumption, Inv, NEW f \in Federates, AchieveFreeze(f)
  PROVE  Inv'
<1> USE Constants, Parts
<1>1. /\ Is(f, MtrFreeze, "ANNOUNCED") /\ SP!AchieveCall(f, MtrFreeze) /\ Rest
      /\ pc[f] = "freeze" /\ pc' = [pc EXCEPT ![f] = "freezing"]
      /\ pc \in [Federates -> Places]
  BY DEF AchieveFreeze, Achieve, Goto, Rest, TypeInv
<1>2. /\ Proved!IndInv' /\ life' = life /\ IdleKept /\ f \in members[MtrFreeze]
      /\ Reached(MtrFreeze, members[MtrFreeze], achieved[MtrFreeze] \cup {f})
  BY <1>1, AchievePoints
<1>3. /\ members[MtrFreeze] \in SUBSET Federates
      /\ achieved[MtrFreeze] \cup {f} \in SUBSET members[MtrFreeze]
  BY <1>2 DEF Proved!TypeOK, Proved!RtiInv, Proved!IndInv
<1>4. Active(MtrFreeze) /\ In \subseteq members[MtrFreeze]
  BY <1>2 DEF PointsInv, Active, Proved!Active
<1>5. \A g \in In : g \in achieved[MtrFreeze] \cup {f} => pc'[g] = "freezing"
  BY <1>1 DEF PointsInv
<1> QED BY <1>1, <1>2, <1>3, <1>4, <1>5, FreezeReached DEF Moves

LEMMA AchieveRunInv ==
  ASSUME FreezeAssumption, Inv, NEW f \in Federates, AchieveRun(f)
  PROVE  Inv'
<1> USE Constants, Parts
<1>1. /\ Is(f, MtrRun, "ANNOUNCED") /\ SP!AchieveCall(f, MtrRun) /\ Rest
      /\ pc[f] = "run" /\ pc' = [pc EXCEPT ![f] = "running"]
      /\ pc \in [Federates -> Places]
  BY DEF AchieveRun, Achieve, Goto, Rest, TypeInv
<1>2. /\ Proved!IndInv' /\ life' = life /\ IdleKept /\ f \in members[MtrRun]
      /\ Reached(MtrRun, members[MtrRun], achieved[MtrRun] \cup {f})
  BY <1>1, AchievePoints
<1>3. /\ members[MtrRun] \in SUBSET Federates
      /\ achieved[MtrRun] \cup {f} \in SUBSET members[MtrRun]
  BY <1>2 DEF Proved!TypeOK, Proved!RtiInv, Proved!IndInv
<1>4. Active(MtrRun) /\ In \subseteq members[MtrRun]
  BY <1>2 DEF PointsInv, Active, Proved!Active
<1>5. \A g \in In : g \in achieved[MtrRun] \cup {f} => pc'[g] = "running"
  BY <1>1 DEF PointsInv
<1>6. /\ Moves(f) /\ pc[f] # "freeze" /\ f \in achieved[MtrRun] \cup {f}
      /\ achieved[MtrRun] \cap In \subseteq achieved[MtrRun] \cup {f}
  BY <1>1 DEF Moves
<1> QED BY <1>1, <1>2, <1>3, <1>4, <1>5, <1>6, RunReached

\* Steps of the points that change nothing else, and none of those of the transitions.
LEMMA QuietSteps ==
  ASSUME FreezeAssumption, Inv, Rest, pc' = pc, life' = life, Proved!IndInv', IdleKept,
         \A l \in {MtrFreeze, MtrRun} : members'[l] = members[l] /\ achieved'[l] = achieved[l]
  PROVE  Inv'
<1> USE Constants, Parts
<1>1. /\ UNCHANGED <<pc, time, mode, wanted, exco, mtr, calling, cmd, left, sched, wire, queue>>
      /\ In' = In
      /\ Active(MtrFreeze)' <=> Active(MtrFreeze)
      /\ Active(MtrRun)' <=> Active(MtrRun)
  BY DEF Rest, requests, trick, In, Proved!In, Active, Proved!Active
<1>2. Moves(Master)
  BY DEF Moves
<1>3. TimeInv'
  BY <1>2, MovesInTime
<1>4. PointsInv'
  BY <1>1 DEF PointsInv, IdleKept
<1>5. /\ NoOther' <=> NoOther
      /\ FreezeByMtr' <=> FreezeByMtr
      /\ ComingMaster => ComingMaster'
      /\ \A g \in In : (Stage(g) => Stage(g)') /\ (Firm(g) => Firm(g)')
  <2>1. \A g \in In : Achieved(g) \/ (pc[g] = "run" /\ pc'[g] = "running") => Achieved(g)'
    BY DEF Achieved
  <2> QED BY <1>1, <1>2, <2>1, StagesKept DEF FreezeByMtr, Asked
<1>6. \A g \in In : (Unasked(g) => Unasked(g)') /\ (Before(g) => Before(g)') /\ (Clear(g) => Clear(g)')
  BY <1>1 DEF Unasked, Before, Clear, Stopped, NoneSent, NoneTold
<1>7. Phase'
  <2>1. ASSUME ClearPhase PROVE ClearPhase'
    BY <1>1, <1>6, <2>1 DEF ClearPhase, ClearMaster, IdleKept
  <2>2. ASSUME SetPhase PROVE SetPhase'
    BY <1>1, <1>5, <1>6, <2>2 DEF SetPhase, SetMaster, IdleKept
  <2>3. ASSUME ComingPhase PROVE ComingPhase'
    BY <1>1, <1>5, <2>3 DEF ComingPhase
  <2> QED BY <2>1, <2>2, <2>3 DEF Phase
<1> QED BY <1>2, <1>3, <1>4, <1>7, PointMoves

LEMMA CallbackInv ==
  ASSUME FreezeAssumption, Inv, NEW f \in Federates, NEW l \in Labels, Callback(f, l)
  PROVE  Inv'
<1>1. PointsStay /\ Rest /\ pc' = pc
  BY Parts, CallbackPoints DEF Callback, Rest
<1> QED BY <1>1, QuietSteps DEF PointsStay, SameMembers

LEMMA RtiInv ==
  ASSUME FreezeAssumption, Inv, NEW f \in Federates, NEW l \in Labels, Rti(f, l)
  PROVE  Inv'
<1> USE Constants, Parts
<1>1. Rest /\ pc' = pc
  BY DEF Rti, Rest
<1>2. CASE SP!RegisterReturn(f, l) \/ SP!AchieveReturn(f, l)
  <2>1. PointsStay
    BY <1>2, ReturnPoints
  <2> QED BY <1>1, <2>1, QuietSteps DEF PointsStay, SameMembers
<1>3. CASE SP!Drop(f, l)
  <2> DEFINE ms == members[l] \ {f}
             done == achieved[l] \ {f}
  <2>1. /\ Proved!IndInv' /\ life' = life /\ IdleKept /\ life[f] = "gone" /\ f \in members[l]
        /\ Reached(l, ms, done)
    BY <1>3, DropPoints
  <2>2. ms \in SUBSET Federates /\ done \in SUBSET ms
    BY DEF Proved!TypeOK, Proved!RtiInv, Proved!IndInv
  <2>3. l \in {MtrFreeze, MtrRun} => Active(l) /\ In \subseteq ms /\ achieved[l] \cap In \subseteq done
    BY <2>1 DEF PointsInv, Active, Proved!Active, In, Proved!In
  <2>4. \A g \in In : /\ g \in done /\ l = MtrFreeze => pc'[g] = "freezing"
                      /\ g \in done /\ l = MtrRun => pc'[g] = "running"
    BY <1>1 DEF PointsInv
  <2>5. pc[f] # "freeze" /\ pc[f] # "run"
    BY <2>1 DEF PlacesInv
  <2>6. Moves(f)
    BY <1>1 DEF Moves
  <2> HIDE DEF ms, done
  <2>7. CASE l = MtrFreeze
    BY <1>1, <2>1, <2>2, <2>3, <2>4, <2>5, <2>6, <2>7, FreezeReached
  <2>8. CASE l = MtrRun
    BY <1>1, <2>1, <2>2, <2>3, <2>4, <2>5, <2>6, <2>8, RunReached
  <2>9. CASE l = MtrShutdown
    BY <1>1, <2>1, <2>9, QuietSteps DEF Reached
  <2> QED BY <2>7, <2>8, <2>9
<1> QED BY <1>2, <1>3 DEF Rti

-----------------------------------------------------------------------------
(* Into the freeze, and out of it.                                         *)

\* Where f goes, and what Rest leaves.
LEMMA Going ==
  ASSUME Inv, FreezeAssumption, NEW f \in Federates, NEW a, NEW b \in Places, Goto(f, a, b)
  PROVE  /\ pc[f] = a /\ f \in In /\ SP!Free(f)
         /\ pc' \in [Federates -> Places] /\ pc'[f] = b
         /\ \A g \in Federates \ {f} : pc'[g] = pc[g]
BY Parts, SameTerms DEF Goto, TypeInv, In, Proved!In

LEMMA FrozenMaster ==
  ASSUME FreezeAssumption, Inv, Frozen(Master)
  PROVE  Inv'
<1> USE Constants, Parts
<1>1. /\ Goto(Master, "freezing", "frozen") /\ Is(Master, MtrFreeze, "SYNCHRONIZED")
      /\ mode' = [mode EXCEPT ![Master] = "FREEZE"] /\ exco' = [exco EXCEPT !.cur = "FREEZE"]
      /\ UNCHANGED <<syncVars, life, members, achieved, time, wanted, sched, stop, wire, queue>>
      /\ UNCHANGED <<mtr, calling, cmd, left>>
  BY DEF Frozen, InMode, trick, requests, syncVars
<1>2. "frozen" \in Places
  BY DEF Places, Halts
<1>3. /\ pc[Master] = "freezing" /\ Master \in In /\ SP!Free(Master)
      /\ pc' \in [Federates -> Places] /\ pc'[Master] = "frozen"
      /\ \A g \in Federates \ {Master} : pc'[g] = pc[g]
  BY <1>1, <1>2, Going
<1>4. /\ PointsStay /\ In' = In
      /\ Active(MtrFreeze)' <=> Active(MtrFreeze)
      /\ Active(MtrRun)' <=> Active(MtrRun)
  BY <1>1, PointsSame DEF In, Proved!In, Active, Proved!Active
<1>5. Idle(MtrFreeze) /\ Master \notin achieved[MtrFreeze]
  BY <1>1, <1>3, SynchronizedIsIdle
<1>6. /\ mode \in [Federates -> Modes] /\ mode' \in [Federates -> Modes]
      /\ mode'[Master] = "FREEZE" /\ \A g \in Federates \ {Master} : mode'[g] = mode[g]
      /\ exco' \in Updates /\ exco'.cur = "FREEZE" /\ exco'.at = exco.at /\ exco'.next = exco.next
  BY <1>1 DEF TypeInv, Modes, Updates
<1>7. TypeInv'
  BY <1>1, <1>3, <1>6 DEF TypeInv
<1>8. ActingInv'
  BY <1>3 DEF ActingInv, Acts
<1>9. RequestsInv'
  BY <1>1 DEF RequestsInv, FreezeByMtr, FreezeByPanel, FreezeOnce, Asked
<1>10. TimeInv'
  <2>1. ASSUME NEW g \in In', HasAsked(g) PROVE HasAsked(g)'
    BY <1>3, <1>4, <1>6, <2>1 DEF HasAsked
  <2>2. ASSUME NEW g \in In', pc'[g] = "running" PROVE pc[g] = "running"
    BY <1>3, <1>4, <2>2
  <2> QED BY <1>1, <1>4, <1>6, <2>1, <2>2, TimeKept, MasterPlace
<1>11. PointsInv'
  <2>1. Idle(MtrFreeze)' /\ Idle(MtrRun)' /\ Idle(MtrShutdown)'
    BY <1>3, <1>4, <1>5 DEF PointsInv, PointsStay, IdleKept
  <2>2. ~Active(MtrRun)' /\ ~Active(MtrFreeze)'
    BY <2>1 DEF Idle
  <2>3. \A g \in In :
          /\ g \in achieved'[MtrFreeze] => pc'[g] = "freezing"
          /\ g \in achieved'[MtrRun] => pc'[g] = "running"
    BY <1>1, <1>3, <1>5 DEF PointsInv
  <2> QED BY <1>4, <2>1, <2>2, <2>3 DEF PointsInv
<1>12. Spares
  BY <1>1, <1>3, <1>6 DEF Spares, Sent
<1>13. ~ClearPhase /\ ~SetPhase
  BY <1>3 DEF ClearPhase, SetPhase, SetMaster, Clear, Stopped, Halts
<1>14. ASSUME ComingPhase
       PROVE  ComingMaster' /\ Stage(Master)' /\ (Firm(Master) => Firm(Master)')
  <2>1. AtFreeze(Master)
    BY <1>3, <1>14, MasterStage DEF StageDue, Gone, Stopped, Halts
  <2>2. Unasked(Master)'
    BY <1>1, <2>1 DEF AtFreeze, Unasked, NoneSent, NoneTold
  <2>3. AtFreeze(Master)'
    BY <1>1, <1>3, <1>6, <2>1, <2>2 DEF AtFreeze, Stopped, Halts
  <2>4. ComingMaster'
    BY <1>3, <1>6, <1>14 DEF ComingPhase, ComingMaster
  <2> QED BY <2>3, <2>4 DEF Stage, Firm
<1>15. wire'[Master] = <<>> /\ queue'[Master] = <<>>
  BY <1>1, MasterPlace
<1>16. /\ pc'[Master] \in Frame \cup Acts \cup Halts \cup (Ends \ {"down"}) /\ pc[Master] # "down"
       /\ pc'[Master] \notin Frame \cup {"freeze", "freezing"}
  BY <1>3 DEF Halts, Frame
<1> QED BY <1>1, <1>4, <1>6, <1>7, <1>8, <1>9, <1>10, <1>11, <1>12, <1>13, <1>14, <1>15, <1>16,
        MasterSteps

\* Steps of another federate from one place of the transitions to the next.
LEMMA OtherTurns ==
  ASSUME FreezeAssumption, Inv, NEW f \in Others, NEW a \in {"freezing", "running"},
         NEW b \in {"frozen", "tag", "cte"}, NEW m \in {"RUNNING", "FREEZE"}, Goto(f, a, b),
         mode' = [mode EXCEPT ![f] = m], b = "frozen" \/ m = "RUNNING",
         UNCHANGED <<syncVars, time, wanted, trick, exco, wire, queue, requests>>,
         f \notin achieved[IF a = "freezing" THEN MtrFreeze ELSE MtrRun],
         a = "freezing" <=> b = "frozen"
  PROVE  Inv'
<1> USE Constants, Parts
<1>0. f \in Federates /\ f # Master /\ b \in Places
  BY DEF Others, Places, Halts, Frame, OtherFrame
<1>1. /\ UNCHANGED <<life, members, achieved, time, wanted, sched, stop, exco, wire, queue>>
      /\ UNCHANGED <<mtr, calling, cmd, left>>
  BY DEF trick, requests, syncVars
<1>2. /\ pc[f] = a /\ f \in In
      /\ pc' \in [Federates -> Places] /\ pc'[f] = b
      /\ \A g \in Federates \ {f} : pc'[g] = pc[g]
  BY <1>0, Going
<1>3. /\ PointsStay /\ In' = In /\ IdleKept
      /\ Active(MtrFreeze)' <=> Active(MtrFreeze)
      /\ Active(MtrRun)' <=> Active(MtrRun)
      /\ \A g : Achieved(g) => Achieved(g)'
  BY <1>1, PointsSame DEF In, Proved!In, Active, Proved!Active, Achieved, PointsStay
<1>4. /\ mode \in [Federates -> Modes] /\ mode' \in [Federates -> Modes]
      /\ mode'[f] = m /\ \A g \in Federates \ {f} : mode'[g] = mode[g]
  BY <1>0 DEF TypeInv, Modes
<1>5. TypeInv'
  BY <1>1, <1>2, <1>4 DEF TypeInv
<1>6. TimeInv'
  <2>1. ASSUME NEW g \in In', HasAsked(g) PROVE HasAsked(g)'
    BY <1>2, <1>3, <1>4, <2>1 DEF HasAsked
  <2>2. ASSUME NEW g \in In', pc'[g] = "running" PROVE pc[g] = "running"
    BY <1>2, <1>3, <2>2
  <2> QED BY <1>1, <1>3, <2>1, <2>2, TimeKept, MasterPlace
<1>7. PointsInv'
  <2>1. \A g \in In :
          /\ g \in achieved'[MtrFreeze] => pc'[g] = "freezing"
          /\ g \in achieved'[MtrRun] => pc'[g] = "running"
    BY <1>1, <1>2 DEF PointsInv
  <2>2. pc'[Master] = pc[Master] /\ mode'[Master] = mode[Master]
    BY <1>0, <1>2, <1>4
  <2> QED BY <1>1, <1>3, <2>1, <2>2 DEF PointsInv, IdleKept
<1>8. OtherPlace(f)'
  BY <1>2, <1>4 DEF OtherPlace, OtherFrame, Halts
<1>9. Touches(f)
  BY <1>1, <1>2, <1>4 DEF Touches
<1>10. \A g \in Federates : life'[g] = "in" <=> pc'[g] # "down"
  BY <1>1, <1>2 DEF PlacesInv, In, Proved!In
<1>11. /\ Stopped(f) /\ (Stopped(f)' <=> b = "frozen")
       /\ Unasked(f)' <=> Unasked(f)
       /\ NoneSent(f)' <=> NoneSent(f)
       /\ NoneTold(f)' <=> NoneTold(f)
       /\ OneSent(f)' <=> OneSent(f)
       /\ OneTold(f)' <=> OneTold(f)
  BY <1>1, <1>2 DEF Stopped, Unasked, NoneSent, NoneTold, OneSent, OneTold, DueUpdates, DueSends,
                    Halts, Acts
<1>12. /\ Clear(f) => Clear(f)'
       /\ Before(f) => Before(f)'
  BY <1>1, <1>2, <1>11 DEF Clear, Before
<1>13. Stage(f) => Stage(f)' /\ (Firm(f) => Firm(f)')
  <2>1. ~StageDue(f) /\ ~Ending(f) /\ ~Gone(f)
    BY <1>2, <1>11 DEF StageDue, Ending, Gone
  <2>2. StageSent(f) => StageSent(f)'
    BY <1>1, <1>11, <1>12 DEF StageSent
  <2>3. StageTold(f) => StageTold(f)'
    BY <1>1, <1>2, <1>11, <1>12 DEF StageTold
  <2>4. AtFreeze(f) => AtFreeze(f)'
    BY <1>1, <1>2, <1>11 DEF AtFreeze
  <2> QED BY <2>1, <2>2, <2>3, <2>4 DEF Stage, Firm
<1>14. /\ ClearPhase => Clear(f)'
       /\ SetPhase => Unasked(f)' /\ Before(f)'
       /\ ComingPhase => Stage(f)' /\ (Firm(f) => Firm(f)')
  BY <1>2, <1>11, <1>12, <1>13 DEF ClearPhase, SetPhase, ComingPhase
<1> QED BY <1>1, <1>3, <1>5, <1>6, <1>7, <1>8, <1>9, <1>10, <1>14, OtherSteps DEF PointsStay

LEMMA FrozenOther ==
  ASSUME FreezeAssumption, Inv, NEW f \in Others, Frozen(f)
  PROVE  Inv'
<1> USE Constants, Parts
<1>1. f # Master /\ f \in Federates
  BY DEF Others
<1>2. /\ Goto(f, "freezing", "frozen") /\ Is(f, MtrFreeze, "SYNCHRONIZED")
      /\ mode' = [mode EXCEPT ![f] = "FREEZE"]
      /\ UNCHANGED <<syncVars, time, wanted, trick, exco, wire, queue, requests>>
  BY <1>1 DEF Frozen, InMode
<1>3. f \notin achieved[MtrFreeze]
  BY <1>1, <1>2, SynchronizedIsIdle DEF Goto
<1> QED BY <1>2, <1>3, OtherTurns

LEMMA RunOther ==
  ASSUME FreezeAssumption, Inv, NEW f \in Others, Run(f)
  PROVE  Inv'
<1> USE Constants, Parts
<1>1. f # Master /\ f \in Federates
  BY DEF Others
<1> DEFINE b == IF Cte THEN "cte" ELSE "tag"
<1>2. /\ Goto(f, "running", b) /\ Is(f, MtrRun, "SYNCHRONIZED")
      /\ mode' = [mode EXCEPT ![f] = "RUNNING"]
      /\ UNCHANGED <<syncVars, time, wanted, trick, exco, wire, queue, requests>>
  BY <1>1 DEF Run, InMode
<1>3. f \notin achieved[MtrRun]
  BY <1>1, <1>2, SynchronizedIsIdle DEF Goto
<1> QED BY <1>2, <1>3, OtherTurns

\* The master runs when everybody is about to, and with a CTE says so.
LEMMA RunMaster ==
  ASSUME FreezeAssumption, Inv, Run(Master)
  PROVE  Inv'
<1> USE Constants, Parts
<1>1. /\ Goto(Master, "running", "tag") /\ Is(Master, MtrRun, "SYNCHRONIZED")
      /\ mode' = [mode EXCEPT ![Master] = "RUNNING"] /\ exco' = [exco EXCEPT !.cur = "RUNNING"]
      /\ SendExCO(exco') \/ wire' = wire
      /\ UNCHANGED <<syncVars, life, members, achieved, time, wanted, sched, stop, queue>>
      /\ UNCHANGED <<mtr, calling, cmd, left>>
  BY DEF Run, InMode, trick, requests, syncVars
<1>2. "tag" \in Places
  BY DEF Places, Frame
<1>3. /\ pc[Master] = "running" /\ Master \in In /\ SP!Free(Master)
      /\ pc' \in [Federates -> Places] /\ pc'[Master] = "tag"
      /\ \A g \in Federates \ {Master} : pc'[g] = pc[g]
  BY <1>1, <1>2, Going
<1>4. /\ PointsStay /\ In' = In
      /\ Active(MtrFreeze)' <=> Active(MtrFreeze)
      /\ Active(MtrRun)' <=> Active(MtrRun)
  BY <1>1, PointsSame DEF In, Proved!In, Active, Proved!Active
<1>5. Idle(MtrRun) /\ Master \notin achieved[MtrRun]
  BY <1>1, <1>3, SynchronizedIsIdle
<1>6. /\ mode \in [Federates -> Modes] /\ mode' \in [Federates -> Modes]
      /\ mode'[Master] = "RUNNING" /\ \A g \in Federates \ {Master} : mode'[g] = mode[g]
      /\ exco' \in Updates /\ exco'.cur = "RUNNING" /\ exco'.at = exco.at
      /\ exco'.next = exco.next /\ exco.next = "RUNNING" /\ wanted = "RUNNING"
  BY <1>1, <1>3 DEF TypeInv, Modes, Updates, ActingInv
<1>7. /\ wire' \in [Federates -> Seq(Sends)] /\ wire'[Master] = wire[Master]
      /\ \A g \in Federates : Sent(g)
  <2>1. exco' \notin FreezeUpdates
    BY <1>6 DEF FreezeUpdates
  <2>2. CASE wire' = wire
    BY <2>2 DEF TypeInv, Sent
  <2>3. CASE SendExCO(exco')
    BY <1>6, <2>1, <2>3, Sending
  <2> QED BY <1>1, <2>2, <2>3
<1>8. TypeInv'
  BY <1>1, <1>3, <1>6, <1>7 DEF TypeInv
<1>9. ActingInv'
  BY <1>3 DEF ActingInv, Acts
<1>10. RequestsInv'
  BY <1>1 DEF RequestsInv, FreezeByMtr, FreezeByPanel, FreezeOnce, Asked
<1>11. TimeInv'
  <2>1. ASSUME NEW g \in In', HasAsked(g) PROVE HasAsked(g)'
    BY <1>3, <1>4, <1>6, <2>1 DEF HasAsked
  <2>2. ASSUME NEW g \in In', pc'[g] = "running" PROVE pc[g] = "running"
    BY <1>3, <1>4, <2>2
  <2> QED BY <1>1, <1>4, <1>6, <2>1, <2>2, TimeKept, MasterPlace
<1>12. PointsInv'
  <2>1. Idle(MtrRun)' /\ Idle(MtrShutdown)'
    BY <1>3, <1>4, <1>5 DEF PointsInv, PointsStay, IdleKept
  <2>2. ~Active(MtrRun)'
    BY <2>1 DEF Idle
  <2>3. \A g \in In :
          /\ g \in achieved'[MtrFreeze] => pc'[g] = "freezing"
          /\ g \in achieved'[MtrRun] => pc'[g] = "running"
    BY <1>1, <1>3, <1>5 DEF PointsInv
  <2>4. \A l \in {MtrFreeze, MtrRun} : Active(l)' => In' \subseteq members'[l]
    BY <1>1, <1>4 DEF PointsInv
  <2> QED BY <1>4, <1>6, <2>1, <2>2, <2>3, <2>4 DEF PointsInv
<1>13. Spares
  BY <1>1, <1>3, <1>6, <1>7 DEF Spares
<1>14. ~SetPhase /\ ~ComingPhase
  BY <1>3, <1>5, MasterStage
     DEF SetPhase, SetMaster, StageDue, AtFreeze, Gone, Stopped, Halts
<1>15. ASSUME ClearPhase PROVE ClearMaster' /\ Clear(Master)'
  <2>1. ClearMaster'
    BY <1>1, <1>3, <1>4, <1>6, <1>15 DEF ClearPhase, ClearMaster, PointsStay, IdleKept
  <2>2. Unasked(Master)'
    <3>1. NoneSent(Master)' /\ NoneTold(Master)'
      BY <1>1, <1>7, MasterPlace DEF NoneSent, NoneTold, None
    <3> QED BY <1>1, <1>3, <1>15, <3>1 DEF ClearPhase, Clear, Unasked
  <2> QED BY <1>3, <1>6, <2>1, <2>2 DEF Clear, Stopped, Halts, Acts
<1>16. wire'[Master] = <<>> /\ queue'[Master] = <<>>
  BY <1>1, <1>7, MasterPlace
<1>17. /\ pc'[Master] \in Frame \cup Acts \cup Halts \cup (Ends \ {"down"}) /\ pc[Master] # "down"
       /\ pc'[Master] \notin {"frozen", "thaw", "run", "running"}
  BY <1>3 DEF Frame
<1> QED BY <1>1, <1>4, <1>6, <1>8, <1>9, <1>10, <1>11, <1>12, <1>13, <1>14, <1>15, <1>16, <1>17,
        MasterSteps

\* The master lets everybody run.
LEMMA ExitFreezeMaster ==
  ASSUME FreezeAssumption, Inv, ExitFreeze(Master)
  PROVE  Inv'
<1> USE Constants, Parts
<1> DEFINE x == NextMode("RUNNING")
<1>1. /\ Goto(Master, "thaw", "run")
      /\ exco' = x /\ SendExCO(x) /\ wanted' = "RUNNING"
      /\ SP!RegisterCall(Master, MtrRun, SP!In, TRUE)
      /\ UNCHANGED <<time, mode, sched, stop, queue, mtr, calling, cmd, left>>
  BY DEF ExitFreeze, trick, requests
<1>2. "run" \in Places /\ "RUNNING" \in Modes
  BY DEF Places, Halts, Modes
<1>3. /\ pc[Master] = "thaw" /\ Master \in In
      /\ pc' \in [Federates -> Places] /\ pc'[Master] = "run"
      /\ \A g \in Federates \ {Master} : pc'[g] = pc[g]
  BY <1>1, <1>2, Going
<1>4. /\ x \in Updates /\ x.cur = exco.cur /\ x.next = "RUNNING" /\ x.at = exco.at
      /\ x \notin FreezeUpdates
  BY <1>2, NextModes
<1> HIDE DEF x
<1>5. /\ mode[Master] = "FREEZE" /\ Idle(MtrRun) /\ Idle(MtrFreeze) /\ Idle(MtrShutdown)
      /\ ~Active(MtrFreeze) /\ ~Active(MtrRun)
  BY <1>3 DEF PlacesInv, PointsInv, Idle
<1>6. /\ Proved!IndInv' /\ life' = life /\ achieved' = achieved
      /\ members' = [members EXCEPT ![MtrRun] = In]
      /\ \A k \in Labels \ {MtrRun} : Idle(k) => Idle(k)'
  BY <1>1, <1>5, RegisterPoints
<1>7. /\ In' = In /\ members'[MtrRun] = In /\ members'[MtrFreeze] = members[MtrFreeze]
      /\ Active(MtrFreeze)' <=> Active(MtrFreeze)
  <2>1. members \in [Labels -> SUBSET Federates]
    BY DEF Proved!TypeOK
  <2> QED BY <1>6, <2>1 DEF In, Proved!In, Active, Proved!Active
<1>8. /\ wire' \in [Federates -> Seq(Sends)] /\ wire'[Master] = wire[Master]
      /\ \A g \in Federates : Sent(g)
  BY <1>1, <1>4, Sending
<1>9. TypeInv'
  BY <1>1, <1>2, <1>3, <1>4, <1>8 DEF TypeInv
<1>10. PlacesInv'
  <2>1. ASSUME NEW g \in Others PROVE OtherPlace(g)'
    <3>1. OtherPlace(g) /\ g \in Federates \ {Master}
      BY DEF PlacesInv, Others
    <3> QED BY <1>1, <1>3, <3>1 DEF OtherPlace
  <2>2. ASSUME NEW g \in Federates PROVE life'[g] = "in" <=> pc'[g] # "down"
    BY <1>3, <1>6 DEF PlacesInv
  <2> QED BY <1>1, <1>3, <1>4, <1>5, <1>8, <2>1, <2>2, MasterPlace DEF PlacesInv, Halts, Frame
<1>11. ActingInv'
  BY <1>1, <1>3, <1>4 DEF ActingInv, Acts
<1>12. RequestsInv'
  BY <1>1 DEF RequestsInv, FreezeByMtr, FreezeByPanel, FreezeOnce, Asked
<1>13. TimeInv'
  <2>1. ASSUME NEW g \in In', HasAsked(g) PROVE HasAsked(g)'
    BY <1>1, <1>3, <1>7, <2>1 DEF HasAsked
  <2>2. ASSUME NEW g \in In', pc'[g] = "running" PROVE pc[g] = "running"
    BY <1>3, <1>7, <2>2
  <2> QED BY <1>1, <1>4, <1>7, <2>1, <2>2, TimeKept, MasterPlace
<1>14. PointsInv'
  <2>1. Idle(MtrFreeze)' /\ Idle(MtrShutdown)'
    BY <1>5, <1>6
  <2>2. \A g \in In :
          /\ g \in achieved'[MtrFreeze] => pc'[g] = "freezing"
          /\ g \in achieved'[MtrRun] => pc'[g] = "running"
    BY <1>3, <1>6 DEF PointsInv
  <2> QED BY <1>3, <1>5, <1>7, <2>1, <2>2 DEF PointsInv
<1>15. ComingPhase /\ \A g \in In : Firm(g)
  BY <1>3, <1>5
     DEF Phase, ClearPhase, SetPhase, SetMaster, Clear, Stopped, Halts, ComingPhase
<1>16. ASSUME NEW g \in In PROVE Firm(g)' /\ Stage(g)'
  <2>1. CASE g = Master
    <3>1. AtFreeze(Master)
      BY <1>3, <1>15 DEF Firm, Gone
    <3>2. NoneSent(Master)' /\ NoneTold(Master)'
      BY <1>1, <1>8, MasterPlace DEF NoneSent, NoneTold, None
    <3>3. AtFreeze(Master)'
      BY <1>1, <1>3, <1>4, <3>1, <3>2 DEF AtFreeze, Unasked, Stopped, Halts
    <3> QED BY <2>1, <3>3 DEF Stage, Firm
  <2>2. CASE g # Master
    <3>1. View(g)' = View(g)
      BY <1>1, <1>3, <1>4, <2>2 DEF View
    <3>2. wire[g] \in Seq(Sends) /\ (Achieved(g) => Achieved(g)') /\ Sent(g)
      BY <1>6, <1>8 DEF TypeInv, Achieved
    <3>3. Firm(g)' /\ Stage(g)'
      BY <1>15, <3>1, <3>2, ViewKept DEF ComingPhase
    <3> QED BY <3>3
  <2> QED BY <2>1, <2>2
<1>17. ComingMaster'
  BY <1>1, <1>3, <1>4, <1>5, <1>15 DEF ComingPhase, ComingMaster
<1>18. ComingPhase'
  BY <1>7, <1>16, <1>17 DEF ComingPhase
<1> QED BY <1>6, <1>9, <1>10, <1>11, <1>12, <1>13, <1>14, <1>18 DEF Inv, BaseInv, Phase

-----------------------------------------------------------------------------
(* Shutdown.                                                               *)

\* The master, on its way out, changes no stage but its own.
LEMMA MasterEnds ==
  ASSUME FreezeAssumption, Inv, NEW a \in {"shutdown", "closing"}, NEW b \in {"closing", "close"},
         Goto(Master, a, b), a = "closing" => b = "close", a = "shutdown" => b = "closing",
         Proved!IndInv', life' = life, achieved' = achieved,
         \A l \in {MtrFreeze, MtrRun} : members'[l] = members[l] /\ (Idle(l) => Idle(l)'),
         b = "closing" => (Idle(MtrShutdown) => Idle(MtrShutdown)'),
         UNCHANGED <<time, mode, sched, stop, queue, calling, cmd, left>>,
         mtr' \in [flag : BOOLEAN, pending : Asks, read : Asks],
         mtr'.pending = mtr.pending, mtr'.read = mtr.read,
         exco' \in Updates, exco'.cur = exco.cur, exco'.at = exco.at,
         exco'.next \in {exco.next, "SHUTDOWN"}, wanted' \in {wanted, "SHUTDOWN"},
         wire' \in [Federates -> Seq(Sends)], wire'[Master] = wire[Master],
         \A g \in Federates : Sent(g)
  PROVE  Inv'
<1> USE Constants, Parts
<1>1. b \in Places /\ b \in Ends /\ a \in Ends /\ b # "down"
  BY DEF Places, Ends
<1>2. /\ pc[Master] = a /\ Master \in In
      /\ pc' \in [Federates -> Places] /\ pc'[Master] = b
      /\ \A g \in Federates \ {Master} : pc'[g] = pc[g]
  BY <1>1, Going
<1>3. /\ In' = In
      /\ Active(MtrFreeze)' <=> Active(MtrFreeze)
      /\ Active(MtrRun)' <=> Active(MtrRun)
      /\ \A g : Achieved(g) => Achieved(g)'
  BY DEF In, Proved!In, Active, Proved!Active, Achieved
<1>4. wanted' \in Modes
  BY DEF TypeInv, Modes
<1>5. TypeInv'
  BY <1>2, <1>4 DEF TypeInv
<1>6. ActingInv'
  BY <1>1, <1>2 DEF ActingInv, Acts
<1>7. \A r : Asked(r)' <=> Asked(r)
  BY DEF Asked
<1>8. RequestsInv'
  BY <1>7 DEF RequestsInv, FreezeByMtr, FreezeByPanel, FreezeOnce
<1>9. TimeInv'
  <2>1. ASSUME NEW g \in In', HasAsked(g) PROVE HasAsked(g)'
    BY <1>2, <1>3, <2>1 DEF HasAsked
  <2>2. ASSUME NEW g \in In', pc'[g] = "running" PROVE pc[g] = "running"
    BY <1>2, <1>3, <2>2
  <2> QED BY <1>3, <2>1, <2>2, TimeKept, MasterPlace
<1>10. PointsInv'
  <2>1. /\ Idle(MtrRun)'
        /\ mode'[Master] = "FREEZE" => Idle(MtrFreeze)' /\ ~Active(MtrFreeze)'
        /\ pc'[Master] # "close" => Idle(MtrShutdown)'
        /\ ~Active(MtrRun)'
    BY <1>2, <1>3 DEF PointsInv
  <2>2. \A g \in In :
          /\ g \in achieved'[MtrFreeze] => pc'[g] = "freezing"
          /\ g \in achieved'[MtrRun] => pc'[g] = "running"
    BY <1>2 DEF PointsInv
  <2>3. \A l \in {MtrFreeze, MtrRun} : Active(l)' => In' \subseteq members'[l]
    BY <1>3 DEF PointsInv
  <2> QED BY <1>2, <1>3, <2>1, <2>2, <2>3 DEF PointsInv
<1>11. Spares
  BY <1>2 DEF Spares
<1>12. ~SetPhase
  BY <1>2 DEF SetPhase, SetMaster
<1>13. NoneSent(Master)' /\ NoneTold(Master)'
  BY MasterPlace DEF NoneSent, NoneTold, None
<1>14. ASSUME ClearPhase PROVE ClearMaster' /\ Clear(Master)'
  <2>1. ClearMaster'
    BY <1>2, <1>3, <1>14 DEF ClearPhase, ClearMaster
  <2>2. Clear(Master)'
    BY <1>2, <1>13, <1>14 DEF ClearPhase, Clear, Unasked, Stopped, Halts, Acts
  <2> QED BY <2>1, <2>2
<1>15. ASSUME ComingPhase
       PROVE  ComingMaster' /\ Stage(Master)' /\ (Firm(Master) => Firm(Master)')
  <2>1. time[Master] <= exco.at
    BY <1>2, <1>15, MasterStage, MasterPlace DEF StageDue, AtFreeze, Gone
  <2>2. Gone(Master)'
    BY <1>2, <2>1 DEF Gone
  <2>3. ComingMaster'
    BY <1>1, <1>2, <1>15 DEF ComingPhase, ComingMaster
  <2> QED BY <2>2, <2>3 DEF Stage, Firm
<1>16. /\ exco'.cur = mode'[Master] /\ mode'[Master] # "SHUTDOWN"
       /\ wire'[Master] = <<>> /\ queue'[Master] = <<>>
  BY MasterPlace
<1>17. /\ pc'[Master] \in Frame \cup Acts \cup Halts \cup (Ends \ {"down"}) /\ pc[Master] # "down"
       /\ pc'[Master] \notin Frame \cup {"freeze", "freezing"}
       /\ pc'[Master] \notin {"frozen", "thaw", "run", "running"}
  BY <1>1, <1>2 DEF Ends, Frame
<1> QED BY <1>3, <1>5, <1>6, <1>8, <1>9, <1>10, <1>11, <1>12, <1>14, <1>15, <1>16, <1>17, MasterAt

LEMMA ShutdownMaster ==
  ASSUME FreezeAssumption, Inv, Shutdown(Master)
  PROVE  Inv'
<1> USE Constants, Parts
<1> DEFINE x == NextMode("SHUTDOWN")
<1>1. /\ Goto(Master, "shutdown", "closing") /\ exco' = x /\ SendExCO(x)
      /\ wanted' = "SHUTDOWN" /\ mtr' = [mtr EXCEPT !.flag = FALSE]
      /\ UNCHANGED <<syncVars, time, mode, sched, stop, queue, calling, cmd, left>>
  BY DEF Shutdown, trick
<1>2. "SHUTDOWN" \in Modes
  BY DEF Modes
<1>3. /\ x \in Updates /\ x.cur = exco.cur /\ x.next = "SHUTDOWN" /\ x.at = exco.at
      /\ x \notin FreezeUpdates
  BY <1>2, NextModes
<1> HIDE DEF x
<1>4. /\ wire' \in [Federates -> Seq(Sends)] /\ wire'[Master] = wire[Master]
      /\ \A g \in Federates : Sent(g)
  BY <1>1, <1>3, Sending
<1>5. /\ mtr' \in [flag : BOOLEAN, pending : Asks, read : Asks]
      /\ mtr'.pending = mtr.pending /\ mtr'.read = mtr.read
  BY <1>1 DEF TypeInv
<1>6. Proved!IndInv' /\ life' = life /\ achieved' = achieved /\ members' = members /\ IdleKept
  BY <1>1, PointsSame DEF PointsStay, SameMembers
<1> QED BY <1>1, <1>3, <1>4, <1>5, <1>6, MasterEnds DEF IdleKept

LEMMA ClosingInv ==
  ASSUME FreezeAssumption, Inv, Closing
  PROVE  Inv'
<1> USE Constants, Parts
<1>1. /\ Goto(Master, "closing", "close") /\ SP!RegisterCall(Master, MtrShutdown, SP!In, TRUE)
      /\ UNCHANGED <<time, mode, wanted, sched, stop, exco, wire, queue, mtr, calling, cmd, left>>
  BY DEF Closing, trick, requests
<1>2. Idle(MtrShutdown)
  BY <1>1 DEF Goto, PointsInv
<1>3. /\ Proved!IndInv' /\ life' = life /\ achieved' = achieved
      /\ members' = [members EXCEPT ![MtrShutdown] = In]
      /\ \A k \in Labels \ {MtrShutdown} : Idle(k) => Idle(k)'
  BY <1>1, <1>2, RegisterPoints
<1>4. \A l \in {MtrFreeze, MtrRun} : members'[l] = members[l] /\ (Idle(l) => Idle(l)')
  BY <1>3 DEF Proved!TypeOK
<1>5. /\ exco' \in Updates /\ wire' \in [Federates -> Seq(Sends)]
      /\ mtr' \in [flag : BOOLEAN, pending : Asks, read : Asks]
      /\ \A g \in Federates : Sent(g)
  BY <1>1 DEF TypeInv, Sent
<1> QED BY <1>1, <1>3, <1>4, <1>5, MasterEnds

\* A federate leaves.
LEMMA CloseInv ==
  ASSUME FreezeAssumption, Inv, Close
  PROVE  Inv'
<1> USE Constants, Parts
<1>1. /\ Goto(Master, "close", "down") /\ SP!Leave(Master)
      /\ UNCHANGED <<time, mode, wanted, sched, stop, exco, wire, queue, mtr, calling, cmd, left>>
  BY DEF Close, Resign, trick, requests
<1>2. "down" \in Places
  BY DEF Places, Ends
<1>3. /\ pc[Master] = "close" /\ Master \in In
      /\ pc' \in [Federates -> Places] /\ pc'[Master] = "down"
      /\ \A g \in Federates \ {Master} : pc'[g] = pc[g]
  BY <1>1, <1>2, Going
<1>4. /\ Proved!IndInv' /\ UNCHANGED <<members, achieved>>
      /\ In' = In \ {Master} /\ life' = [life EXCEPT ![Master] = "gone"]
  BY <1>1, LeavePoints
<1>5. /\ Active(MtrFreeze)' <=> Active(MtrFreeze)
      /\ Active(MtrRun)' <=> Active(MtrRun)
  BY <1>4 DEF Active, Proved!Active
<1>6. TypeInv'
  BY <1>1, <1>3 DEF TypeInv
<1>7. PlacesInv'
  <2>1. ASSUME NEW g \in Others PROVE OtherPlace(g)'
    <3>1. OtherPlace(g) /\ g \in Federates \ {Master}
      BY DEF PlacesInv, Others
    <3> QED BY <1>1, <1>3, <3>1 DEF OtherPlace
  <2>2. ASSUME NEW g \in Federates PROVE life'[g] = "in" <=> pc'[g] # "down"
    <3>1. CASE g = Master
      <4>1. g \notin In'
        BY <1>4, <3>1
      <4> QED BY <1>3, <3>1, <4>1 DEF In, Proved!In
    <3>2. CASE g # Master
      BY <1>3, <1>4, <3>2 DEF PlacesInv
    <3> QED BY <3>1, <3>2
  <2> QED BY <1>1, <1>3, <2>1, <2>2, MasterPlace DEF PlacesInv, Ends, Frame
<1>8. ActingInv'
  BY <1>3 DEF ActingInv, Acts
<1>9. RequestsInv'
  BY <1>1 DEF RequestsInv, FreezeByMtr, FreezeByPanel, FreezeOnce, Asked
<1>10. TimeInv'
  <2>1. ASSUME NEW g \in In', HasAsked(g) PROVE HasAsked(g)'
    BY <1>1, <1>3, <1>4, <2>1 DEF HasAsked
  <2>2. ASSUME NEW g \in In', pc'[g] = "running" PROVE pc[g] = "running"
    BY <1>3, <1>4, <2>2
  <2> QED BY <1>1, <1>4, <2>1, <2>2, TimeKept, MasterPlace
<1>11. PointsInv'
  BY <1>1, <1>3, <1>4, <1>5 DEF PointsInv
<1>12. ASSUME NEW g \in In'
       PROVE  /\ Clear(g) => Clear(g)'
              /\ Stage(g) => Stage(g)'
              /\ Firm(g) => Firm(g)'
  <2>1. View(g)' = View(g) /\ Sent(g) /\ (Achieved(g) => Achieved(g)') /\ wire[g] \in Seq(Sends)
    BY <1>1, <1>3, <1>4, <1>12 DEF View, Sent, Achieved, TypeInv
  <2> QED BY <2>1, ViewKept
<1>13. CASE ClearPhase
  <2>1. ClearMaster'
    BY <1>1, <1>3, <1>5, <1>13 DEF ClearPhase, ClearMaster
  <2>2. ClearPhase'
    BY <1>4, <1>12, <1>13, <2>1 DEF ClearPhase
  <2> QED BY <1>4, <1>6, <1>7, <1>8, <1>9, <1>10, <1>11, <2>2 DEF Inv, BaseInv, Phase
<1>14. CASE ComingPhase
  <2>1. ComingMaster'
    BY <1>1, <1>3, <1>14 DEF ComingPhase, ComingMaster, Ends
  <2>2. ComingPhase'
    BY <1>4, <1>5, <1>12, <1>14, <2>1 DEF ComingPhase
  <2> QED BY <1>4, <1>6, <1>7, <1>8, <1>9, <1>10, <1>11, <2>2 DEF Inv, BaseInv, Phase
<1> QED BY <1>3, <1>13, <1>14 DEF Phase, SetPhase, SetMaster

LEMMA LeaveOther ==
  ASSUME FreezeAssumption, Inv, NEW f \in Others, NEW a, Goto(f, a, "down"), Resign(f)
  PROVE  Inv'
<1> USE Constants, Parts
<1>1. f \in Federates /\ f # Master /\ "down" \in Places
  BY DEF Others, Places, Ends
<1>2. /\ SP!Leave(f) /\ UNCHANGED <<exco, wanted, requests>>
      /\ UNCHANGED <<time, mode, wanted, sched, stop, exco, wire, queue, mtr, calling, cmd, left>>
  BY DEF Resign, trick, requests
<1>3. /\ pc[f] = a /\ f \in In
      /\ pc' \in [Federates -> Places] /\ pc'[f] = "down"
      /\ \A g \in Federates \ {f} : pc'[g] = pc[g]
  BY <1>1, Going
<1>4. /\ Proved!IndInv' /\ UNCHANGED <<members, achieved>>
      /\ In' = In \ {f} /\ life' = [life EXCEPT ![f] = "gone"] /\ IdleKept
  BY <1>1, <1>2, LeavePoints
<1>5. /\ Active(MtrFreeze)' <=> Active(MtrFreeze)
      /\ Active(MtrRun)' <=> Active(MtrRun)
      /\ \A g \in In \ {f} : Achieved(g) => Achieved(g)'
  BY <1>4 DEF Active, Proved!Active, Achieved
<1>6. TypeInv'
  BY <1>2, <1>3 DEF TypeInv
<1>7. OtherPlace(f)'
  <2>1. OtherPlace(f)
    BY DEF PlacesInv
  <2> QED BY <1>2, <1>3, <2>1 DEF OtherPlace, OtherFrame
<1>8. \A g \in Federates : life'[g] = "in" <=> pc'[g] # "down"
  <2> SUFFICES ASSUME NEW g \in Federates PROVE life'[g] = "in" <=> pc'[g] # "down"
    OBVIOUS
  <2>1. CASE g = f
    <3>1. g \notin In'
      BY <1>4, <2>1
    <3> QED BY <1>3, <2>1, <3>1 DEF In, Proved!In
  <2>2. CASE g # f
    BY <1>3, <1>4, <2>2 DEF PlacesInv
  <2> QED BY <2>1, <2>2
<1>9. TimeInv'
  <2>1. ASSUME NEW g \in In', HasAsked(g) PROVE HasAsked(g)'
    BY <1>2, <1>3, <1>4, <2>1 DEF HasAsked
  <2>2. ASSUME NEW g \in In', pc'[g] = "running" PROVE pc[g] = "running"
    BY <1>3, <1>4, <2>2
  <2> QED BY <1>2, <1>4, <2>1, <2>2, TimeKept, MasterPlace
<1>10. PointsInv'
  BY <1>1, <1>2, <1>3, <1>4, <1>5 DEF PointsInv, IdleKept
<1>11. Touches(f) /\ f \notin In' /\ In' \subseteq In
  BY <1>2, <1>3, <1>4 DEF Touches
<1> QED BY <1>2, <1>4, <1>5, <1>6, <1>7, <1>8, <1>9, <1>10, <1>11, OtherSteps

-----------------------------------------------------------------------------
(* The invariant, and what follows.                                        *)

LEMMA PointsInit ==
  ASSUME FreezeAssumption, Init
  PROVE  Proved!IndInv
<1> USE Constants
<1>1. \A f \in Federates : inbox[f] = <<>> /\ busy[f] = Proved!NoCall
  BY DEF Init, SP!NoCall, Proved!NoCall
<1>2. \A f \in Federates : \A t, l : ~Proved!Pending(f, t, l)
  <2> SUFFICES ASSUME NEW f \in Federates, NEW t, NEW l PROVE ~Proved!Pending(f, t, l)
    OBVIOUS
  <2>1. inbox[f] = <<>> /\ 1..Len(inbox[f]) = {}
    BY <1>1
  <2> QED BY <2>1 DEF Proved!Pending, Proved!InQueue
<1>3. Proved!TypeOK
  BY Proved!CallsDiffer
     DEF Init, Proved!TypeOK, Proved!States, Proved!Calls, SP!NoCall, Proved!NoCall
<1>4. Proved!QueueInv
  <2>1. \A f \in Federates : Proved!Ordered(inbox[f])
    BY <1>1 DEF Proved!Ordered
  <2> QED BY <1>2, <2>1 DEF Proved!QueueInv
<1>5. Proved!RtiInv
  BY DEF Init, Proved!RtiInv, Proved!Active
<1>6. Proved!LifeInv
  BY DEF Init, Proved!LifeInv
<1>7. ASSUME NEW f \in Federates, NEW l \in Labels
      PROVE  /\ Proved!MemberInv(f, l) /\ Proved!RegistrarInv(f, l)
             /\ Proved!UnrecognizedInv(f, l)
  <2>1. /\ state[f][l] = "KNOWN" /\ members[l] = {} /\ achieved[l] = {} /\ round[l] = 0
        /\ l \in [g \in Federates |-> Labels][f]
    BY DEF Init
  <2>2. busy[f] # Proved!Achieving(l) /\ busy[f] # Proved!Registering(l)
    BY <1>1, Proved!CallsDiffer
  <2> QED BY <1>2, <2>1, <2>2
       DEF Proved!MemberInv, Proved!RegistrarInv, Proved!UnrecognizedInv, Proved!Awaited,
           Proved!Held, Proved!Active
<1> QED BY <1>3, <1>4, <1>5, <1>6, <1>7 DEF Proved!IndInv, Proved!In

LEMMA InitInv ==
  ASSUME FreezeAssumption, Init
  PROVE  Inv
<1> USE Constants
<1>1. Proved!IndInv
  BY PointsInit
<1>2. /\ \A f \in Federates :
           /\ pc[f] = "tag" /\ time[f] = 0 /\ mode[f] = "RUNNING" /\ sched[f] = 0
           /\ wire[f] = <<>> /\ queue[f] = <<>> /\ life[f] = "in"
      /\ exco.cur = "RUNNING" /\ exco.next = "RUNNING" /\ exco.at = 0 /\ wanted = "RUNNING"
      /\ mtr.flag = FALSE /\ mtr.pending = NoRequest /\ mtr.read = NoRequest
      /\ calling = NoRequest /\ cmd = "none"
      /\ \A l \in Labels : members[l] = {} /\ achieved[l] = {} /\ state[Master][l] = "KNOWN"
      /\ busy[Master] = Proved!NoCall
  BY DEF Init, SP!NoCall, Proved!NoCall
<1>3. TypeInv
  <2>1. LastFrame \in Nat /\ left \in [Requests -> Nat]
    BY ModesAssumption DEF Init
  <2>2. /\ pc \in [Federates -> Places] /\ mode \in [Federates -> Modes] /\ wanted \in Modes
        /\ exco \in Updates
    BY DEF Init, Places, Frame, Modes, Updates
  <2>3. mtr \in [flag : BOOLEAN, pending : Asks, read : Asks] /\ calling \in Asks
    BY DEF Init, Asks
  <2> QED BY <2>1, <2>2, <2>3 DEF Init, TypeInv
<1>4. PlacesInv
  BY <1>2 DEF PlacesInv, OtherPlace, Others, Frame, OtherFrame
<1>5. ActingInv
  BY <1>2 DEF ActingInv, Acts
<1>6. RequestsInv
  <2>1. OneAtATime(left)
    BY DEF Init, FreezeAssumption
  <2>2. ~Asked("to_shutdown") /\ ~Asked("to_freeze") /\ cmd # "freeze"
    BY <1>2 DEF Asked, NoRequest
  <2> QED BY <2>1, <2>2 DEF OneAtATime, RequestsInv, FreezeByMtr, FreezeByPanel, FreezeOnce
<1>7. \A l \in Labels : ~Active(l) /\ Idle(l)
  BY <1>2, Proved!CallsDiffer DEF Active, Proved!Active, Idle
<1>8. TimeInv
  <2>1. \A f \in Federates : Multiple(Step[f], time[f])
    <3>1. \A c \in Nat \ {0} : Multiple(c, 0)
      BY DEF Multiple
    <3> QED BY <1>2, <3>1
  <2>2. Multiple(LCTS, exco.at)
    BY <1>2 DEF Multiple
  <2>3. \A f, g \in In : time[f] < time[g] + Step[g] + Ahead(g)
    BY <1>2 DEF In, Proved!In, Ahead
  <2> QED BY <1>2, <2>1, <2>2, <2>3 DEF TimeInv, In, Proved!In
<1>9. PointsInv
  BY <1>2, <1>7 DEF PointsInv
<1>10. ClearPhase
  <2>1. ClearMaster
    BY <1>2, <1>7 DEF ClearMaster
  <2>2. ASSUME NEW f \in In PROVE Clear(f)
    <3>1. f \in Federates
      BY DEF In, Proved!In
    <3>2. NoneSent(f) /\ NoneTold(f)
      BY <1>2, <3>1 DEF NoneSent, NoneTold, None
    <3> QED BY <1>2, <3>1, <3>2 DEF Clear, Unasked, Stopped, Halts, Acts
  <2> QED BY <2>1, <2>2 DEF ClearPhase
<1> QED BY <1>1, <1>3, <1>4, <1>5, <1>6, <1>8, <1>9, <1>10 DEF Inv, BaseInv, Phase

\* Every step of a main thread.
LEMMA MainThreadInv ==
  ASSUME FreezeAssumption, Inv, NEW f \in Federates, MainThread(f)
  PROVE  Inv'
<1> USE Constants, Parts
<1>1. CASE f = Master
  <2>1. ~NoUpdate(f)
    <3>1. pc[Master] # "receive"
      BY DEF PlacesInv, Frame, Acts, Halts, Ends
    <3> QED BY <1>1, <3>1 DEF NoUpdate, Goto
  <2>2. ~CheckForShutdown(f) /\ ~ProcessUpdate(f)
    BY <1>1 DEF CheckForShutdown, ProcessUpdate, Others
  <2> QED
    BY <1>1, <2>1, <2>2, GrantMaster, EnterFreezeMaster, EndFrameMaster, AchieveFreezeInv,
       FrozenMaster, ExitFreezeMaster, AchieveRunInv, RunMaster, ShutdownMaster,
       CheckRequestInv, ReadRequestInv, SetRequestInv, ActOnRequestInv, ExitFrozenInv,
       ClosingInv, CloseInv
    DEF MainThread
<1>2. CASE f # Master
  <2>1. f \in Others
    BY <1>2 DEF Others
  <2>2. Shutdown(f) => Inv'
    BY <1>2, <2>1, LeaveOther DEF Shutdown
  <2>3. ASSUME CheckForShutdown(f) PROVE Inv'
    <3>1. PICK a \in Waits : Goto(f, a, "down")
      BY <2>3 DEF CheckForShutdown
    <3> QED BY <2>1, <2>3, <3>1, LeaveOther DEF CheckForShutdown
  <2> QED
    BY <1>2, <2>1, <2>2, <2>3, GrantOther, EnterFreezeOther, EndFrameOther, ProcessUpdateInv,
       NoUpdateOther, AchieveFreezeInv, FrozenOther, ExitFreezeOther, AchieveRunInv, RunOther
    DEF MainThread
<1> QED BY <1>1, <1>2

\* The invariant is preserved by every step.
LEMMA StepInv ==
  ASSUME FreezeAssumption, Inv, [Next]_vars
  PROVE  Inv'
<1>1. CASE \E f \in Federates : MainThread(f) \/ Reflect(f)
  BY <1>1, MainThreadInv, ReflectInv
<1>2. CASE \E f \in Federates, l \in Labels : Callback(f, l) \/ Rti(f, l)
  BY <1>2, CallbackInv, RtiInv
<1>3. CASE \E m \in Mtrs : RequestPending(m)
  BY <1>3, RequestPendingInv
<1>4. CASE User
  <2>1. CASE \E m \in Mtrs : RequestFlag(m)
    BY <2>1, RequestFlagInv
  <2>2. CASE PressFreeze \/ PressExit
    BY <2>2, PressInv
  <2>3. CASE PressRun
    BY <2>3, PressRunInv
  <2> QED BY <1>4, <2>1, <2>2, <2>3 DEF User
<1>5. CASE UNCHANGED vars
  <2>1. PointsStay /\ Rest /\ pc' = pc
    BY <1>5, Parts, PointsSame DEF vars, Rest, syncVars
  <2> QED BY <2>1, QuietSteps DEF PointsStay, SameMembers
<1> QED BY <1>1, <1>2, <1>3, <1>4, <1>5 DEF Next

\* The invariant holds, for any federates, cycles and delays of the updates.
THEOREM InvHolds ==
  ASSUME FreezeAssumption
  PROVE  Spec => []Inv
<1>1. Init => Inv
  BY InitInv
<1>2. Inv /\ [Next]_vars => Inv'
  BY StepInv
<1> QED BY <1>1, <1>2, PTL DEF Spec

\* Who is in a freeze to come is late for it, about to run after the last one,
\* or is there; and none who is late is there at the same time.
LEMMA FreezeTimes ==
  ASSUME FreezeAssumption, Inv, ComingPhase, NEW f \in In
  PROVE  /\ time[f] <= exco.at
         /\ InFreeze(f) => \/ pc[f] = "running" /\ time[f] + 2 * LCTS <= exco.at
                           \/ time[f] = exco.at
<1> USE Constants, Parts
<1>1. time[f] \in Nat /\ exco.at \in Nat /\ Stage(f)
  BY MasterPlace DEF TypeInv, ComingPhase
<1>2. InFreeze(f) => Stopped(f)
  BY DEF InFreeze, Stopped, Halts
<1>3. Before(f) => /\ time[f] < exco.at
                   /\ InFreeze(f) => pc[f] = "running" /\ time[f] + 2 * LCTS <= exco.at
  BY <1>2 DEF Before
<1>4. CASE StageSent(f)
  BY <1>1, <1>3, <1>4 DEF StageSent
<1>5. CASE StageTold(f)
  BY <1>1, <1>3, <1>5 DEF StageTold, InFreeze
<1>6. CASE StageDue(f)
  BY <1>2, <1>6 DEF StageDue
<1>7. CASE AtFreeze(f)
  BY <1>1, <1>7 DEF AtFreeze
<1>8. CASE Ending(f) \/ Gone(f)
  BY <1>8 DEF Ending, Gone, InFreeze
<1> QED BY <1>1, <1>4, <1>5, <1>6, <1>7, <1>8 DEF Stage

LEMMA SameFreeze ==
  ASSUME FreezeAssumption, Inv, NEW f \in In, NEW g \in In, InFreeze(f), InFreeze(g)
  PROVE  time[f] = time[g]
<1> USE Constants, Parts
<1>1. /\ f \in Federates /\ g \in Federates /\ time[f] \in Nat /\ time[g] \in Nat
      /\ Stopped(f) /\ Stopped(g) /\ exco.at \in Nat
  BY MasterPlace DEF TypeInv, InFreeze, Stopped, Halts
<1>2. pc[f] = "running" /\ pc[g] = "running" => time[f] = time[g]
  BY DEF TimeInv
<1>3. CASE ClearPhase
  BY <1>1, <1>3 DEF ClearPhase, Clear
<1>4. CASE SetPhase
  BY <1>1, <1>2, <1>4 DEF SetPhase, Before
<1>5. CASE ComingPhase
  <2>1. ASSUME NEW h \in In, NEW k \in In, time[h] + 2 * LCTS <= exco.at, time[k] = exco.at
        PROVE  FALSE
    <3>1. h \in Federates /\ time[h] \in Nat /\ LCTS \in Nat \ {0}
      BY DEF TypeInv
    <3>2. h # k
      BY <1>1, <2>1, <3>1
    <3>3. time[k] < time[h] + Step[h] + Ahead(h)
      BY <3>2 DEF TimeInv
    <3>4. Step[h] \in Nat /\ Step[h] <= LCTS /\ Ahead(h) \in Nat /\ Ahead(h) <= Step[h]
      BY <3>1, Steps DEF Ahead
    <3> QED BY <1>1, <2>1, <3>1, <3>3, <3>4
  <2> QED BY <1>2, <1>5, <2>1, FreezeTimes
<1> QED BY <1>3, <1>4, <1>5 DEF Phase

\* All the federates that are in a freeze are there at the same time, and none
\* of them runs a frame later than the time of the ExCO while the freeze is to
\* come: for any federates, cycles and paddings of at least two frames of the
\* master, when no requests that exclude each other are made.
THEOREM FreezesOnTime ==
  ASSUME FreezeAssumption
  PROVE  Spec => []FreezeOnTime
<1>1. ASSUME Inv PROVE FreezeOnTime
  <2> USE Constants, Parts
  <2>1. SP!In = In
    BY SameTerms
  <2>2. ASSUME exco.next = "FREEZE", NEW f \in In
        PROVE  time[f] <= exco.at
    <3>1. CASE SetPhase
      <4>1. time[f] \in Nat /\ exco.at \in Nat /\ time[f] < exco.at
        BY <1>1, <3>1, MasterPlace DEF TypeInv, SetPhase, Before
      <4> QED BY <4>1
    <3>2. CASE ComingPhase
      BY <1>1, <3>2, FreezeTimes
    <3> QED BY <1>1, <2>2, <3>1, <3>2 DEF Phase, ClearPhase, ClearMaster
  <2> QED BY <1>1, <2>1, <2>2, SameFreeze DEF FreezeOnTime
<1>2. Inv => FreezeOnTime
  BY <1>1
<1> QED BY <1>2, InvHolds, PTL

\* Nobody runs a frame after the freeze before everybody has achieved mtr_run,
\* under the same assumption.
THEOREM NobodyRunsAhead ==
  ASSUME FreezeAssumption
  PROVE  Spec => []RunTogether
<1>1. ASSUME Inv PROVE RunTogether
  <2> USE Constants, Parts
  <2> SUFFICES ASSUME NEW f \in In, NEW g \in In, time[f] > time[g], InFreeze(g)
               PROVE  pc[g] = "running"
    BY SameTerms DEF RunTogether
  <2>1. /\ time[f] \in Nat /\ time[g] \in Nat /\ exco.at \in Nat /\ Stopped(g)
    BY <1>1, MasterPlace DEF TypeInv, InFreeze, Stopped, Halts
  <2>2. CASE ClearPhase
    BY <2>1, <2>2 DEF ClearPhase, Clear
  <2>3. CASE SetPhase
    BY <2>1, <2>3 DEF SetPhase, Before
  <2>4. CASE ComingPhase
    BY <1>1, <2>1, <2>4, FreezeTimes
  <2> QED BY <1>1, <2>2, <2>3, <2>4 DEF Phase
<1>2. Inv => RunTogether
  BY <1>1
<1> QED BY <1>2, InvHolds, PTL
=============================================================================
