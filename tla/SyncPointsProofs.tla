-------------------------- MODULE SyncPointsProofs --------------------------
(***************************************************************************)
(* Proofs about SyncPoints, for any federates, labels and bound: the       *)
(* invariant IndInv is inductive, the safety properties that the runs      *)
(* check follow from it, and SyncPoints implements SyncBarrier.            *)
(***************************************************************************)
EXTENDS SyncPoints, TLAPS

\* Overlooked is about one entry of state; MemberInv speaks of it throughout.
USE DEF Overlooked

(* Facts about a queue of callbacks.                                       *)

\* What is in a queue after a callback is added to its end.
LEMMA InAppend ==
  ASSUME NEW q \in Seq(Messages), NEW m \in Messages, NEW t, NEW l
  PROVE  /\ Append(q, m) \in Seq(Messages)
         /\ InQueue(Append(q, m), t, l) <=> InQueue(q, t, l) \/ m = Msg(t, l)
<1>1. Append(q, m) \in Seq(Messages)
  OBVIOUS
<1>2. ASSUME InQueue(Append(q, m), t, l), m # Msg(t, l)
      PROVE  InQueue(q, t, l)
  <2>1. PICK i \in 1..Len(Append(q, m)) : Append(q, m)[i] = Msg(t, l)
    BY <1>2 DEF InQueue
  <2>2. i \in 1..Len(q) /\ q[i] = Msg(t, l)
    BY <2>1, <1>2
  <2> QED BY <2>2 DEF InQueue
<1>3. ASSUME InQueue(q, t, l)
      PROVE  InQueue(Append(q, m), t, l)
  <2>1. PICK i \in 1..Len(q) : q[i] = Msg(t, l)
    BY <1>3 DEF InQueue
  <2>2. i \in 1..Len(Append(q, m)) /\ Append(q, m)[i] = Msg(t, l)
    BY <2>1
  <2> QED BY <2>2 DEF InQueue
<1>4. ASSUME m = Msg(t, l)
      PROVE  InQueue(Append(q, m), t, l)
  <2>1. Len(q) + 1 \in 1..Len(Append(q, m)) /\ Append(q, m)[Len(q) + 1] = Msg(t, l)
    BY <1>4
  <2> QED BY <2>1 DEF InQueue
<1> QED BY <1>1, <1>2, <1>3, <1>4

\* A queue stays ordered when what is added may follow what is there.
LEMMA OrderedAppend ==
  ASSUME NEW q \in Seq(Messages), NEW u \in Callbacks, NEW l \in Labels,
         Ordered(q),
         \A t \in Callbacks : InQueue(q, t, l) => <<t, u>> \in Follows
  PROVE  Ordered(Append(q, Msg(u, l)))
<1> DEFINE r == Append(q, Msg(u, l))
<1> SUFFICES ASSUME NEW i \in 1..Len(r), NEW j \in 1..Len(r),
                    i < j, r[i].label = r[j].label
             PROVE  <<r[i].type, r[j].type>> \in Follows
  BY DEF Ordered
<1>0. Msg(u, l) \in Messages /\ Len(r) = Len(q) + 1 /\ i \in 1..Len(q) /\ r[i] = q[i]
  BY DEF Msg, Messages
<1>1. CASE j \in 1..Len(q)
  BY <1>0, <1>1 DEF Ordered
<1>2. CASE j = Len(q) + 1
  <2>1. r[j] = Msg(u, l)
    BY <1>2, <1>0
  <2>2. q[i] \in Messages /\ q[i].label = l
    BY <1>0, <2>1 DEF Msg
  <2>3. q[i] = Msg(q[i].type, l) /\ q[i].type \in Callbacks
    BY <2>2 DEF Msg, Messages
  <2>4. InQueue(q, q[i].type, l)
    BY <2>3, <1>0 DEF InQueue
  <2> QED BY <2>1, <2>3, <2>4, <1>0 DEF Msg
<1> QED BY <1>0, <1>1, <1>2

\* What is left of an ordered queue when its head is taken: everything but the
\* head, and about the head's label only what may follow it.
LEMMA InTail ==
  ASSUME NEW q \in Seq(Messages), q # <<>>, Ordered(q),
         NEW u \in Callbacks, NEW k \in Labels, Head(q) = Msg(u, k)
  PROVE  /\ Tail(q) \in Seq(Messages)
         /\ Ordered(Tail(q))
         /\ InQueue(q, u, k)
         /\ \A t \in Callbacks, l \in Labels :
              /\ InQueue(Tail(q), t, l) => InQueue(q, t, l)
              /\ InQueue(q, t, l) /\ Msg(t, l) # Msg(u, k) => InQueue(Tail(q), t, l)
         /\ \A t \in Callbacks : InQueue(Tail(q), t, k) => <<u, t>> \in Follows
<1>1. /\ Len(q) \in Nat /\ Len(q) >= 1 /\ q[1] = Msg(u, k)
      /\ Tail(q) \in Seq(Messages) /\ Len(Tail(q)) = Len(q) - 1
      /\ \A i \in 1..Len(Tail(q)) : Tail(q)[i] = q[i + 1] /\ i + 1 \in 1..Len(q)
  OBVIOUS
<1>2. Ordered(Tail(q))
  <2> SUFFICES ASSUME NEW i \in 1..Len(Tail(q)), NEW j \in 1..Len(Tail(q)),
                      i < j, Tail(q)[i].label = Tail(q)[j].label
               PROVE  <<Tail(q)[i].type, Tail(q)[j].type>> \in Follows
    BY DEF Ordered
  <2>1. i + 1 < j + 1
    BY <1>1
  <2> QED BY <1>1, <2>1 DEF Ordered
<1>3. InQueue(q, u, k)
  BY <1>1 DEF InQueue
<1>4. ASSUME NEW t \in Callbacks, NEW l \in Labels, InQueue(Tail(q), t, l)
      PROVE  InQueue(q, t, l) /\ (l = k => <<u, t>> \in Follows)
  <2>1. PICK i \in 1..Len(Tail(q)) : Tail(q)[i] = Msg(t, l)
    BY <1>4 DEF InQueue
  <2>2. i + 1 \in 1..Len(q) /\ q[i + 1] = Msg(t, l) /\ 1 < i + 1 /\ 1 \in 1..Len(q)
    BY <2>1, <1>1
  <2>3. q[i + 1].label = l /\ q[i + 1].type = t /\ q[1].label = k /\ q[1].type = u
    BY <2>2, <1>1 DEF Msg
  <2>4. l = k => <<u, t>> \in Follows
    BY <2>2, <2>3 DEF Ordered
  <2> QED BY <2>2, <2>4 DEF InQueue
<1>5. ASSUME NEW t \in Callbacks, NEW l \in Labels, InQueue(q, t, l), Msg(t, l) # Msg(u, k)
      PROVE  InQueue(Tail(q), t, l)
  <2>1. PICK i \in 1..Len(q) : q[i] = Msg(t, l)
    BY <1>5 DEF InQueue
  <2>2. i - 1 \in 1..Len(Tail(q)) /\ Tail(q)[i - 1] = Msg(t, l)
    BY <2>1, <1>5, <1>1
  <2> QED BY <2>2 DEF InQueue
<1> QED BY <1>1, <1>2, <1>3, <1>4, <1>5

-----------------------------------------------------------------------------
(* Facts about calls, and the first leg of the induction.                  *)

\* The calls a federate can be inside of are told apart.
LEMMA CallsDiffer ==
  ASSUME NEW l \in Labels, NEW k \in Labels
  PROVE  /\ NoCall \in Calls /\ Registering(l) \in Calls /\ Achieving(l) \in Calls
         /\ NoCall # Registering(l) /\ NoCall # Achieving(l)
         /\ Registering(l) # Achieving(k)
         /\ Registering(l) = Registering(k) => l = k
         /\ Achieving(l) = Achieving(k) => l = k
<1>1. NoCall.op = "none" /\ Registering(l).op = "register" /\ Achieving(l).op = "achieve"
  BY DEF NoCall, Registering, Achieving
<1>2. Achieving(k).op = "achieve" /\ Registering(l).label = l /\ Registering(k).label = k
      /\ Achieving(l).label = l /\ Achieving(k).label = k
  BY DEF Registering, Achieving
<1>3. NoCall \in Calls /\ Registering(l) \in Calls /\ Achieving(l) \in Calls
  BY DEF Calls
<1> QED BY <1>1, <1>2, <1>3

\* Messages are told apart by their type and their label.
LEMMA MsgsDiffer ==
  ASSUME NEW t \in Callbacks, NEW u \in Callbacks, NEW l \in Labels, NEW k \in Labels
  PROVE  /\ Msg(t, l) \in Messages
         /\ Msg(t, l) = Msg(u, k) <=> t = u /\ l = k
BY DEF Msg, Messages

\* The initial states satisfy the invariant.
THEOREM InitInv == Init => IndInv
<1> SUFFICES ASSUME Init PROVE IndInv
  OBVIOUS
<1> USE ConstantsAssumption
<1>1. TypeOK
  BY CallsDiffer DEF Init, TypeOK, States, Calls
<1>2. QueueInv
  <2>1. ASSUME NEW f \in Federates
        PROVE  Ordered(inbox[f]) /\ \A l \in Labels : ~Pending(f, "failed", l)
    <3>1. inbox[f] = <<>> /\ 1..Len(inbox[f]) = {}
      BY DEF Init
    <3> QED BY <3>1 DEF Ordered, Pending, InQueue
  <2> QED BY <2>1 DEF QueueInv
<1>3. RtiInv
  BY DEF Init, RtiInv, Active
<1>4. LifeInv
  BY DEF Init, LifeInv
<1>5. In = {}
  BY DEF Init, In
<1> QED BY <1>1, <1>2, <1>3, <1>4, <1>5 DEF IndInv

-----------------------------------------------------------------------------
(* What the RTI's bookkeeping does to the queues.                          *)

\* Those done are all of ms: the RTI synchronizes the point.
Complete(done, ms) == done = ms

\* Settle tells exactly the joined members, exactly when all of them have achieved
\* the point, and touches no other point.
LEMMA SettleEffect ==
  ASSUME TypeOK, NEW l \in Labels, NEW ms \in SUBSET Federates, NEW done \in SUBSET ms,
         NEW box \in [Federates -> Seq(Messages)], Settle(l, ms, done, box)
  PROVE  /\ members' \in [Labels -> SUBSET Federates]
         /\ achieved' \in [Labels -> SUBSET Federates]
         /\ inbox' \in [Federates -> Seq(Messages)]
         /\ \A k \in Labels \ {l} : members'[k] = members[k] /\ achieved'[k] = achieved[k]
         /\ Complete(done, ms) => members'[l] = {} /\ achieved'[l] = {}
         /\ ~Complete(done, ms) => members'[l] = ms /\ achieved'[l] = done
         /\ \A g \in Federates, t \in Callbacks, k \in Labels :
              InQueue(inbox'[g], t, k) <=>
                \/ InQueue(box[g], t, k)
                \/ Complete(done, ms) /\ g \in ms /\ g \in In /\ Msg(t, k) = Msg("synchronized", l)
         /\ \A g \in Federates :
              /\ Ordered(box[g])
              /\ Complete(done, ms) /\ g \in ms /\ g \in In => \A t \in Callbacks : ~InQueue(box[g], t, l)
              => Ordered(inbox'[g])
<1>1. "synchronized" \in Callbacks /\ Msg("synchronized", l) \in Messages
  BY MsgsDiffer DEF Callbacks
<1>2. CASE ~Complete(done, ms)
  BY <1>2 DEF Settle, TypeOK, Complete
<1>3. CASE Complete(done, ms)
  <2>1. /\ members' = [members EXCEPT ![l] = {}]
        /\ achieved' = [achieved EXCEPT ![l] = {}]
        /\ inbox' = [g \in Federates |->
                        IF g \in ms \cap In THEN Append(box[g], Msg("synchronized", l))
                                            ELSE box[g]]
    BY <1>3 DEF Settle, Complete
  <2>2. /\ members' \in [Labels -> SUBSET Federates]
        /\ achieved' \in [Labels -> SUBSET Federates]
        /\ \A k \in Labels \ {l} : members'[k] = members[k] /\ achieved'[k] = achieved[k]
        /\ members'[l] = {} /\ achieved'[l] = {}
    BY <2>1 DEF TypeOK
  <2>3. \A g \in Federates : inbox'[g] \in Seq(Messages)
    BY <2>1, <1>1, InAppend
  <2>4. inbox' \in [Federates -> Seq(Messages)]
    BY <2>1, <2>3
  <2>5. ASSUME NEW g \in Federates, NEW t \in Callbacks, NEW k \in Labels
        PROVE  InQueue(inbox'[g], t, k) <=>
                 \/ InQueue(box[g], t, k)
                 \/ g \in ms /\ g \in In /\ Msg(t, k) = Msg("synchronized", l)
    <3>1. CASE g \notin ms \cap In
      BY <2>1, <3>1
    <3>2. CASE g \in ms \cap In
      <4>1. inbox'[g] = Append(box[g], Msg("synchronized", l)) /\ box[g] \in Seq(Messages)
        BY <2>1, <3>2
      <4>2. InQueue(inbox'[g], t, k) <=> InQueue(box[g], t, k) \/ Msg("synchronized", l) = Msg(t, k)
        BY <4>1, <1>1, InAppend
      <4> QED BY <4>2, <1>1, <3>2, MsgsDiffer
    <3> QED BY <3>1, <3>2
  <2>6. ASSUME NEW g \in Federates, Ordered(box[g]),
               g \in ms \cap In => \A t \in Callbacks : ~InQueue(box[g], t, l)
        PROVE  Ordered(inbox'[g])
    <3>1. CASE g \notin ms \cap In
      BY <2>1, <2>6, <3>1
    <3>2. CASE g \in ms \cap In
      <4>1. inbox'[g] = Append(box[g], Msg("synchronized", l)) /\ box[g] \in Seq(Messages)
        BY <2>1, <3>2
      <4> QED BY <4>1, <1>1, <2>6, <3>2, OrderedAppend
    <3> QED BY <3>1, <3>2
  <2> QED BY <1>3, <2>2, <2>4, <2>5, <2>6
<1> QED BY <1>2, <1>3

\* The same, for one queue, one type of callback and one point.
LEMMA SettleTells ==
  ASSUME TypeOK, NEW l \in Labels, NEW ms \in SUBSET Federates, NEW done \in SUBSET ms,
         NEW box \in [Federates -> Seq(Messages)], Settle(l, ms, done, box),
         NEW g \in Federates, NEW t \in Callbacks, NEW k \in Labels
  PROVE  InQueue(inbox'[g], t, k) <=>
           \/ InQueue(box[g], t, k)
           \/ /\ Complete(done, ms) /\ g \in ms /\ g \in In
              /\ t = "synchronized" /\ k = l
<1>1. InQueue(inbox'[g], t, k) <=>
        \/ InQueue(box[g], t, k)
        \/ Complete(done, ms) /\ g \in ms /\ g \in In /\ Msg(t, k) = Msg("synchronized", l)
  BY SettleEffect, ZenonT(60)
<1>2. Msg(t, k) = Msg("synchronized", l) <=> t = "synchronized" /\ k = l
  BY DEF Msg
<1> QED BY <1>1, <1>2

LEMMA SettleOrders ==
  ASSUME TypeOK, NEW l \in Labels, NEW ms \in SUBSET Federates, NEW done \in SUBSET ms,
         NEW box \in [Federates -> Seq(Messages)], Settle(l, ms, done, box),
         NEW g \in Federates, Ordered(box[g]),
         Complete(done, ms) /\ g \in ms /\ g \in In =>
           \A t \in Callbacks : ~InQueue(box[g], t, l)
  PROVE  Ordered(inbox'[g])
BY SettleEffect

\* The point itself, and the other points.
LEMMA SettlePoint ==
  ASSUME TypeOK, NEW l \in Labels, NEW ms \in SUBSET Federates, NEW done \in SUBSET ms,
         NEW box \in [Federates -> Seq(Messages)], Settle(l, ms, done, box),
         NEW k \in Labels
  PROVE  /\ k # l => members'[k] = members[k] /\ achieved'[k] = achieved[k]
         /\ Complete(done, ms) => members'[l] = {} /\ achieved'[l] = {}
         /\ ~Complete(done, ms) => members'[l] = ms /\ achieved'[l] = done
BY SettleEffect

-----------------------------------------------------------------------------
(* One federate and one point: what a step leaves alone.                   *)

\* The three invariants of one federate and one point.
PointInv(g, k) == MemberInv(g, k) /\ RegistrarInv(g, k) /\ UnrecognizedInv(g, k)

\* They survive a step that changes nothing they speak of, except that the
\* point may be forgotten.
LEMMA Frame ==
  ASSUME NEW g \in Federates, NEW k \in Labels, PointInv(g, k),
         \A t \in Callbacks : Pending(g, t, k)' <=> Pending(g, t, k),
         state'[g][k] = state[g][k],
         busy'[g] = Achieving(k) <=> busy[g] = Achieving(k),
         busy'[g] = Registering(k) <=> busy[g] = Registering(k),
         g \in members'[k] <=> g \in members[k],
         g \in achieved'[k] <=> g \in achieved[k],
         round'[k] = round[k],
         Active(k)' => Active(k)
  PROVE  PointInv(g, k)'
<1>1. /\ Pending(g, "announced", k)' <=> Pending(g, "announced", k)
      /\ Pending(g, "synchronized", k)' <=> Pending(g, "synchronized", k)
      /\ Pending(g, "registered", k)' <=> Pending(g, "registered", k)
  BY DEF Callbacks
<1>2. MemberInv(g, k)'
  BY <1>1 DEF PointInv, MemberInv, Awaited, Held
<1>3. RegistrarInv(g, k)'
  BY <1>1 DEF PointInv, RegistrarInv
<1>4. UnrecognizedInv(g, k)'
  BY <1>1 DEF PointInv, UnrecognizedInv
<1> QED BY <1>2, <1>3, <1>4 DEF PointInv

\* The invariant, with the part about single points in the form used below.
LEMMA IndInvParts ==
  IndInv <=> /\ TypeOK /\ QueueInv /\ RtiInv /\ LifeInv
             /\ \A g \in Federates, k \in Labels : life[g] = "in" => PointInv(g, k)
BY DEF IndInv, In, PointInv

\* A federate that joins is a member of nothing and has nothing queued.
LEMMA JoinInv ==
  ASSUME IndInv, NEW f \in Federates, Join(f)
  PROVE  IndInv'
<1> USE IndInvParts
<1>1. TypeOK' /\ QueueInv' /\ RtiInv' /\ LifeInv'
  BY DEF Join, rtiVars, TypeOK, QueueInv, RtiInv, LifeInv, Active, Pending
<1>2. ASSUME NEW g \in Federates, NEW k \in Labels, life'[g] = "in"
      PROVE  PointInv(g, k)'
  <2>1. CASE g # f
    <3>1. life[g] = "in" /\ PointInv(g, k)
      BY <2>1, <1>2 DEF Join, TypeOK
    <3> QED BY <3>1, Frame DEF Join, rtiVars, Pending, Active
  <2>2. CASE g = f
    <3>1. \A t : ~Pending(g, t, k)'
      BY <2>2 DEF Join, LifeInv, Pending, InQueue
    <3>2. /\ g \notin members'[k] /\ busy'[g] = NoCall
          /\ state'[g][k] = IF k \in Named[g] THEN "KNOWN" ELSE "UNKNOWN"
          /\ g \notin achieved'[k] /\ round'[k] = round[k]
      BY <2>2 DEF Join, rtiVars, LifeInv, RtiInv
    <3>3. MemberInv(g, k)'
      BY <3>1, <3>2, CallsDiffer DEF MemberInv, Awaited, Held
    <3>4. RegistrarInv(g, k)'
      BY <3>1, <3>2, <2>2, CallsDiffer DEF RegistrarInv, Join, rtiVars, LifeInv, RtiInv, Active
    <3>5. UnrecognizedInv(g, k)'
      BY <3>2 DEF UnrecognizedInv
    <3> QED BY <3>3, <3>4, <3>5 DEF PointInv
  <2> QED BY <2>1, <2>2
<1> QED BY <1>1, <1>2 DEF IndInv, In, PointInv

\* Nor is anything of a federate that leaves kept.
LEMMA LeaveInv ==
  ASSUME IndInv, NEW f \in Federates, Leave(f)
  PROVE  IndInv'
<1> USE IndInvParts
<1>1. inbox' = [inbox EXCEPT ![f] = <<>>] /\ inbox'[f] = <<>>
  BY DEF Leave, TypeOK
<1>2. TypeOK'
  <2>1. NoCall \in Calls
    BY DEF Calls
  <2> QED BY <2>1, <1>1 DEF Leave, rtiVars, TypeOK
<1>3. QueueInv'
  <2>1. ASSUME NEW g \in Federates
        PROVE  Ordered(inbox'[g]) /\ \A l \in Labels : ~InQueue(inbox'[g], "failed", l)
    <3>1. CASE g = f
      BY <1>1, <3>1 DEF Ordered, InQueue
    <3>2. CASE g # f
      BY <1>1, <3>2 DEF TypeOK, QueueInv, Pending
    <3> QED BY <3>1, <3>2
  <2> QED BY <2>1 DEF QueueInv, Pending
<1>4. RtiInv' /\ LifeInv'
  BY <1>1 DEF Leave, rtiVars, TypeOK, RtiInv, LifeInv, Active
<1>5. ASSUME NEW g \in Federates, NEW k \in Labels, life'[g] = "in"
      PROVE  PointInv(g, k)'
  <2>1. g # f /\ life[g] = "in" /\ PointInv(g, k)
    BY <1>5 DEF Leave, TypeOK
  <2> QED BY <2>1, Frame DEF Leave, rtiVars, Pending, Active, TypeOK
<1> QED BY <1>2, <1>3, <1>4, <1>5 DEF IndInv, In, PointInv

\* A federate told of a point that was open before it joined waits for it.
LEMMA InformInv ==
  ASSUME IndInv, NEW f \in Federates, NEW l \in Labels, Inform(f, l)
  PROVE  IndInv'
<1> USE IndInvParts
<1>1. /\ life[f] = "in" /\ Active(l) /\ f \notin members[l]
      /\ inbox' = [inbox EXCEPT ![f] = Append(@, Msg("announced", l))]
      /\ members' = [members EXCEPT ![l] = @ \cup {f}]
      /\ UNCHANGED <<life, round, open, achieved, state, busy>>
      /\ PointInv(f, l)
  BY DEF Inform
<1>2. "announced" \in Callbacks /\ Msg("announced", l) \in Messages
  BY MsgsDiffer DEF Callbacks
<1>3. inbox[f] \in Seq(Messages) /\ inbox'[f] = Append(inbox[f], Msg("announced", l))
      /\ inbox'[f] \in Seq(Messages)
  BY <1>1, <1>2, InAppend DEF TypeOK
<1>4. TypeOK'
  <2>1. inbox' \in [Federates -> Seq(Messages)]
    BY <1>1, <1>3 DEF TypeOK
  <2> QED BY <1>1, <2>1 DEF TypeOK
<1>5. ASSUME NEW g \in Federates, NEW t \in Callbacks, NEW k \in Labels
      PROVE  Pending(g, t, k)' <=>
               Pending(g, t, k) \/ (g = f /\ t = "announced" /\ k = l)
  <2>1. CASE g = f
    BY <2>1, <1>2, <1>3, InAppend, MsgsDiffer DEF Pending
  <2>2. CASE g # f
    BY <2>2, <1>1 DEF Pending, TypeOK
  <2> QED BY <2>1, <2>2
<1>6. \A t \in Callbacks : Pending(f, t, l) => <<t, "announced">> \in Follows
  <2>1. f # Registrar[l]
    BY <1>1 DEF PointInv, RegistrarInv
  <2>2. ~Pending(f, "registered", l) /\ ~Pending(f, "announced", l)
    BY <2>1, <1>1 DEF PointInv, RegistrarInv, MemberInv, Awaited
  <2>3. ~Pending(f, "failed", l)
    BY DEF QueueInv
  <2> QED BY <2>2, <2>3 DEF Callbacks, Follows
<1>7. QueueInv'
  <2>1. Ordered(inbox'[f])
    BY <1>2, <1>3, <1>6, OrderedAppend DEF QueueInv, Pending
  <2>2. \A g \in Federates : Ordered(inbox'[g])
    BY <2>1, <1>1 DEF QueueInv, TypeOK
  <2>3. "failed" \in Callbacks
    BY DEF Callbacks
  <2> QED BY <1>5, <2>2, <2>3 DEF QueueInv
<1>8. RtiInv' /\ LifeInv'
  BY <1>1 DEF TypeOK, RtiInv, LifeInv, Active
<1>9. ASSUME NEW g \in Federates, NEW k \in Labels, life'[g] = "in"
      PROVE  PointInv(g, k)'
  <2>1. PointInv(g, k)
    BY <1>9, <1>1
  <2>2. CASE g # f \/ k # l
    <3>1. \A t \in Callbacks : Pending(g, t, k)' <=> Pending(g, t, k)
      BY <1>5, <2>2
    <3>2. (g \in members'[k] <=> g \in members[k]) /\ (Active(k)' => Active(k))
      BY <1>1, <2>2 DEF TypeOK, Active
    <3> QED BY <2>1, <3>1, <3>2, <1>1, Frame
  <2>3. CASE g = f /\ k = l
    <3>1. /\ Pending(f, "announced", l)'
          /\ Pending(f, "registered", l)' <=> Pending(f, "registered", l)
          /\ Pending(f, "synchronized", l)' <=> Pending(f, "synchronized", l)
      BY <1>5 DEF Callbacks
    <3>2. f \in members'[l] /\ f \notin achieved[l]
      BY <1>1 DEF TypeOK, RtiInv
    <3> QED BY <1>1, <2>3, <3>1, <3>2
          DEF PointInv, MemberInv, RegistrarInv, UnrecognizedInv, Awaited, Held, Active
  <2> QED BY <2>2, <2>3
<1> QED BY <1>4, <1>7, <1>8, <1>9 DEF IndInv, In, PointInv

-----------------------------------------------------------------------------
(* A step in which the RTI settles a point: f is the federate that leaves   *)
(* it or achieves it, and nothing but f's queue has been touched before.    *)

\* The other federates: a member that had achieved the point will be told that
\* it is synchronized if that is what happens; for the rest nothing changes.
LEMMA SettleOthers ==
  ASSUME IndInv, NEW f \in Federates, NEW l \in Labels, Active(l),
         NEW ms \in SUBSET Federates, NEW done \in SUBSET ms,
         NEW box \in [Federates -> Seq(Messages)], Settle(l, ms, done, box),
         \A g \in Federates \ {f} : box[g] = inbox[g],
         ms \ {f} = members[l] \ {f}, done \ {f} = achieved[l] \ {f},
         life' = life, round' = round,
         NEW g \in Federates \ {f}, life[g] = "in",
         state'[g] = state[g], busy'[g] = busy[g],
         NEW k \in Labels
  PROVE  PointInv(g, k)'
<1>1. PointInv(g, k) /\ TypeOK
  BY IndInvParts
<1>2. /\ \A t \in Callbacks : Pending(g, t, k)' <=>
            \/ Pending(g, t, k)
            \/ Complete(done, ms) /\ g \in ms /\ g \in In /\ t = "synchronized" /\ k = l
      /\ k # l => members'[k] = members[k] /\ achieved'[k] = achieved[k]
      /\ Complete(done, ms) => members'[l] = {} /\ achieved'[l] = {}
      /\ ~Complete(done, ms) => members'[l] = ms /\ achieved'[l] = done
  <2>1. ASSUME NEW t \in Callbacks
        PROVE  Pending(g, t, k)' <=>
                 \/ Pending(g, t, k)
                 \/ Complete(done, ms) /\ g \in ms /\ g \in In /\ t = "synchronized" /\ k = l
    <3>1. InQueue(inbox'[g], t, k) <=>
            \/ InQueue(box[g], t, k)
            \/ Complete(done, ms) /\ g \in ms /\ g \in In /\ t = "synchronized" /\ k = l
      BY <1>1, SettleTells
    <3> QED BY <3>1 DEF Pending
  <2>2. /\ k # l => members'[k] = members[k] /\ achieved'[k] = achieved[k]
        /\ Complete(done, ms) => members'[l] = {} /\ achieved'[l] = {}
        /\ ~Complete(done, ms) => members'[l] = ms /\ achieved'[l] = done
    BY <1>1, SettlePoint
  <2> QED BY <2>1, <2>2
<1>3. CASE k # l \/ ~Complete(done, ms) \/ g \notin ms
  <2>1. \A t \in Callbacks : Pending(g, t, k)' <=> Pending(g, t, k)
    BY <1>2, <1>3
  <2>2. /\ g \in members'[k] <=> g \in members[k]
        /\ g \in achieved'[k] <=> g \in achieved[k]
        /\ Active(k)' => Active(k)
    BY <1>2, <1>3 DEF Active
  <2> QED BY <1>1, <2>1, <2>2, Frame
<1>4. CASE k = l /\ Complete(done, ms) /\ g \in ms
  <2>1. g \in achieved[l] /\ g \notin members'[l] /\ g \notin achieved'[l] /\ ~Active(l)'
    BY <1>2, <1>4 DEF Active, Complete
  <2>2. /\ Pending(g, "synchronized", l)'
        /\ Pending(g, "registered", l)' <=> Pending(g, "registered", l)
        /\ Pending(g, "announced", l)' <=> Pending(g, "announced", l)
    BY <1>2, <1>4 DEF Callbacks, In
  <2>3. MemberInv(g, k)'
    BY <1>1, <1>4, <2>1, <2>2 DEF PointInv, MemberInv, Awaited, Held
  <2>4. RegistrarInv(g, k)' /\ UnrecognizedInv(g, k)'
    BY <1>1, <1>4, <2>1, <2>2 DEF PointInv, MemberInv, RegistrarInv, UnrecognizedInv, Awaited
  <2> QED BY <2>3, <2>4 DEF PointInv
<1> QED BY <1>3, <1>4

\* The queues and the RTI's own bookkeeping.
LEMMA SettleRti ==
  ASSUME IndInv, NEW f \in Federates, NEW l \in Labels, Active(l),
         NEW ms \in SUBSET Federates, NEW done \in SUBSET ms,
         NEW box \in [Federates -> Seq(Messages)], Settle(l, ms, done, box),
         \A g \in Federates \ {f} : box[g] = inbox[g],
         ms \ {f} = members[l] \ {f}, done \ {f} = achieved[l] \ {f},
         life' = life, round' = round,
         \A g \in Federates : busy'[g] # busy[g] => life[g] = "in",
         \A g \in Federates, k \in Labels : state'[g][k] # state[g][k] => life[g] = "in",
         Ordered(box[f]), \A k \in Labels : ~InQueue(box[f], "failed", k),
         life[f] # "in" => box[f] = inbox[f] /\ f \notin ms,
         life[f] = "in" => \A t \in Callbacks : ~InQueue(box[f], t, l)
  PROVE  QueueInv' /\ RtiInv' /\ LifeInv'
<1> USE IndInvParts
<1>1. TypeOK /\ QueueInv /\ RtiInv /\ LifeInv
  OBVIOUS
<1>2. /\ inbox' \in [Federates -> Seq(Messages)]
      /\ \A g \in Federates, t \in Callbacks, k \in Labels :
            InQueue(inbox'[g], t, k) <=>
              \/ InQueue(box[g], t, k)
              \/ Complete(done, ms) /\ g \in ms /\ g \in In /\ t = "synchronized" /\ k = l
      /\ \A k \in Labels \ {l} : members'[k] = members[k] /\ achieved'[k] = achieved[k]
      /\ Complete(done, ms) => members'[l] = {} /\ achieved'[l] = {}
      /\ ~Complete(done, ms) => members'[l] = ms /\ achieved'[l] = done
  <2>1. inbox' \in [Federates -> Seq(Messages)]
    BY <1>1, SettleEffect
  <2>2. ASSUME NEW g \in Federates, NEW t \in Callbacks, NEW k \in Labels
        PROVE  InQueue(inbox'[g], t, k) <=>
                 \/ InQueue(box[g], t, k)
                 \/ Complete(done, ms) /\ g \in ms /\ g \in In /\ t = "synchronized" /\ k = l
    BY <1>1, SettleTells
  <2>3. ASSUME NEW k \in Labels
        PROVE  /\ k # l => members'[k] = members[k] /\ achieved'[k] = achieved[k]
               /\ Complete(done, ms) => members'[l] = {} /\ achieved'[l] = {}
               /\ ~Complete(done, ms) => members'[l] = ms /\ achieved'[l] = done
    BY <1>1, SettlePoint
  <2> QED BY <2>1, <2>2, <2>3
<1>3. ASSUME NEW g \in Federates
      PROVE  Ordered(inbox'[g]) /\ \A k \in Labels : ~InQueue(inbox'[g], "failed", k)
  <2>1. Ordered(box[g]) /\ \A k \in Labels : ~InQueue(box[g], "failed", k)
    BY <1>1 DEF QueueInv, Pending
  <2>2. ASSUME Complete(done, ms), g \in ms \cap In, NEW t \in Callbacks
        PROVE  ~InQueue(box[g], t, l)
    <3>1. CASE g = f
      BY <2>2, <3>1 DEF In
    <3>2. CASE g # f
      <4>1. g \in achieved[l] /\ life[g] = "in" /\ PointInv(g, l)
        BY <2>2, <3>2 DEF In, Complete
      <4>2. /\ ~Pending(g, "announced", l) /\ ~Pending(g, "synchronized", l)
            /\ ~Pending(g, "registered", l)
        BY <4>1, CallsDiffer DEF PointInv, MemberInv, RegistrarInv, Awaited, Held
      <4>3. ~Pending(g, "failed", l)
        BY <1>1 DEF QueueInv
      <4> QED BY <3>2, <4>2, <4>3 DEF Pending, Callbacks
    <3> QED BY <3>1, <3>2
  <2>3. "failed" \in Callbacks
    BY DEF Callbacks
  <2>4. Ordered(inbox'[g])
    BY <1>1, <2>1, <2>2, SettleOrders
  <2> QED BY <1>2, <2>1, <2>3, <2>4
<1>4. QueueInv'
  BY <1>3 DEF QueueInv, Pending
<1>5. RtiInv'
  <2> SUFFICES ASSUME NEW k \in Labels
               PROVE  /\ achieved'[k] \subseteq members'[k]
                      /\ members'[k] # {} => achieved'[k] # members'[k]
                      /\ round[k] = 0 => members'[k] = {}
    BY DEF RtiInv, Active
  <2>1. CASE k = l
    BY <1>1, <1>2, <2>1 DEF RtiInv, Active, Complete
  <2>2. CASE k # l
    BY <1>1, <1>2, <2>2 DEF RtiInv, Active
  <2> QED BY <2>1, <2>2
<1>6. ASSUME NEW g \in Federates, life[g] # "in"
      PROVE  inbox'[g] = <<>>
  <2>1. box[g] = <<>>
    BY <1>1, <1>6 DEF LifeInv
  <2>2. g \notin In
    BY <1>6 DEF In
  <2> QED BY <2>1, <2>2 DEF Settle
<1>7. LifeInv'
  <2> SUFFICES ASSUME NEW g \in Federates
               PROVE  /\ life[g] # "in" => busy'[g] = NoCall /\ inbox'[g] = <<>>
                      /\ life[g] = "out" =>
                           \A k \in Labels :
                             /\ g \notin members'[k]
                             /\ state'[g][k] = IF k \in Named[g] THEN "KNOWN" ELSE "UNKNOWN"
                             /\ g = Registrar[k] => round[k] = 0
    BY DEF LifeInv
  <2>1. life[g] # "in" => busy'[g] = NoCall /\ inbox'[g] = <<>>
    BY <1>1, <1>6 DEF LifeInv
  <2>2. ASSUME life[g] = "out", NEW k \in Labels
        PROVE  g \notin members'[k]
    <3>1. g \notin members[k] /\ g \notin members[l]
      BY <1>1, <2>2 DEF LifeInv
    <3>2. g \notin ms
      BY <3>1, <2>2
    <3>3. members'[k] \in {members[k], members[l], ms, {}}
      BY <1>2
    <3> QED BY <3>1, <3>2, <3>3
  <2> QED BY <1>1, <2>1, <2>2 DEF LifeInv
<1> QED BY <1>4, <1>5, <1>7

\* When a federate that left is dropped, the others may be synchronized.
LEMMA DropInv ==
  ASSUME IndInv, NEW f \in Federates, NEW l \in Labels, Drop(f, l)
  PROVE  IndInv'
<1> DEFINE ms == members[l] \ {f}
           done == achieved[l] \ {f}
<1>1. /\ life[f] = "gone" /\ f \in members[l] /\ Active(l)
      /\ Settle(l, ms, done, inbox)
      /\ UNCHANGED <<life, round, open, state, busy>>
  BY DEF Drop, Active
<1>2. TypeOK /\ QueueInv /\ RtiInv /\ inbox \in [Federates -> Seq(Messages)]
      /\ ms \in SUBSET Federates /\ done \in SUBSET ms
  BY IndInvParts DEF TypeOK, RtiInv
<1>3. TypeOK'
  BY <1>1, <1>2, SettleEffect DEF TypeOK
<1>4. QueueInv' /\ RtiInv' /\ LifeInv'
  <2>1. Ordered(inbox[f]) /\ \A k \in Labels : ~InQueue(inbox[f], "failed", k)
    BY <1>2 DEF QueueInv, Pending
  <2> QED BY <1>1, <1>2, <2>1, SettleRti
<1>5. ASSUME NEW g \in Federates, NEW k \in Labels, life'[g] = "in"
      PROVE  PointInv(g, k)'
  BY <1>1, <1>2, <1>5, SettleOthers
<1> QED BY <1>3, <1>4, <1>5 DEF IndInv, In, PointInv

-----------------------------------------------------------------------------
(* The calls.                                                              *)

\* Registering: the registrar finds the point inactive, so it is announced
\* behind whatever is still queued, to federates that wait for nothing there.
LEMMA RegisterInv ==
  ASSUME IndInv, NEW f \in Federates, NEW l \in Labels, NEW set \in SUBSET In,
         NEW all \in BOOLEAN, f \in set, MayRegister(f, l), RegisterCall(f, l, set, all)
  PROVE  IndInv'
<1> USE IndInvParts
<1>1. /\ life[f] = "in" /\ busy[f] = NoCall /\ PointInv(f, l)
      /\ f = Registrar[l] /\ state[f][l] \in {"KNOWN", "SYNCHRONIZED"}
  BY DEF RegisterCall, Free, MayRegister
<1>2. ~Active(l)
  BY <1>1, CallsDiffer, ConstantsAssumption
     DEF PointInv, MemberInv, RegistrarInv, Awaited, Held
<1>3. /\ state' = state
      /\ busy' = [busy EXCEPT ![f] = Registering(l)]
      /\ round' = [round EXCEPT ![l] = @ + 1]
      /\ open' = [open EXCEPT ![l] = all]
      /\ members' = [members EXCEPT ![l] = set]
      /\ inbox' = [g \in Federates |->
           LET told == IF g = f THEN Append(inbox[g], Msg("registered", l))
                                ELSE inbox[g]
           IN  IF g \in set THEN Append(told, Msg("announced", l)) ELSE told]
      /\ life' = life /\ achieved' = achieved
  BY <1>1, <1>2 DEF RegisterCall, SetState, Tracked, TypeOK
<1>4. /\ "announced" \in Callbacks /\ "registered" \in Callbacks /\ "failed" \in Callbacks
      /\ Msg("announced", l) \in Messages /\ Msg("registered", l) \in Messages
      /\ set \subseteq Federates
  BY MsgsDiffer DEF Callbacks, In
<1>5. \A g \in Federates : g \notin members[l] /\ g \notin achieved[l]
  BY <1>2 DEF Active, RtiInv
<1>6. ASSUME NEW g \in set
      PROVE  /\ life[g] = "in" /\ PointInv(g, l)
             /\ ~Pending(g, "announced", l) /\ ~Pending(g, "failed", l)
             /\ g # f => ~Pending(g, "registered", l)
             /\ g = f => ~Pending(g, "registered", l) /\ ~Pending(g, "synchronized", l)
  <2>1. life[g] = "in" /\ PointInv(g, l)
    BY DEF In
  <2>2. ~Pending(g, "announced", l) /\ ~Pending(g, "failed", l)
    BY <2>1, <1>5, <1>4 DEF PointInv, MemberInv, Awaited, QueueInv
  <2>3. g # f => ~Pending(g, "registered", l)
    BY <2>1, <1>1 DEF PointInv, RegistrarInv
  <2>4. g = f => ~Pending(g, "registered", l) /\ ~Pending(g, "synchronized", l)
    BY <1>1, CallsDiffer DEF PointInv, RegistrarInv, MemberInv, Held
  <2> QED BY <2>1, <2>2, <2>3, <2>4
<1>7. ASSUME NEW g \in Federates
      PROVE  /\ inbox'[g] \in Seq(Messages) /\ Ordered(inbox'[g])
             /\ \A t \in Callbacks, k \in Labels : Pending(g, t, k)' <=>
                  \/ Pending(g, t, k)
                  \/ g \in set /\ t = "announced" /\ k = l
                  \/ g = f /\ t = "registered" /\ k = l
  <2>0. inbox[g] \in Seq(Messages) /\ Ordered(inbox[g])
    BY DEF TypeOK, QueueInv
  <2>1. CASE g \notin set
    BY <2>0, <2>1, <1>3 DEF Pending
  <2>2. CASE g \in set /\ g # f
    <3>1. inbox'[g] = Append(inbox[g], Msg("announced", l))
      BY <2>2, <1>3
    <3>2. \A t \in Callbacks : InQueue(inbox[g], t, l) => <<t, "announced">> \in Follows
      BY <1>6, <2>2 DEF Pending, Callbacks, Follows
    <3>3. Ordered(inbox'[g])
      BY <2>0, <3>1, <3>2, <1>4, OrderedAppend
    <3>4. ASSUME NEW t \in Callbacks, NEW k \in Labels
          PROVE  Pending(g, t, k)' <=> Pending(g, t, k) \/ (t = "announced" /\ k = l)
      BY <2>0, <3>1, <1>4, InAppend, MsgsDiffer DEF Pending
    <3> QED BY <2>0, <2>2, <3>1, <3>3, <3>4, <1>4, InAppend
  <2>3. CASE g = f
    <3> DEFINE told == Append(inbox[f], Msg("registered", l))
    <3>1. inbox'[f] = Append(told, Msg("announced", l)) /\ told \in Seq(Messages)
      BY <2>3, <2>0, <1>3, <1>4, InAppend
    <3>2. ASSUME NEW t \in Callbacks, NEW k \in Labels
          PROVE  /\ InQueue(told, t, k) <=> Pending(f, t, k) \/ (t = "registered" /\ k = l)
                 /\ Pending(f, t, k)' <=> InQueue(told, t, k) \/ (t = "announced" /\ k = l)
      <4>1. InQueue(told, t, k) <=> InQueue(inbox[f], t, k) \/ Msg("registered", l) = Msg(t, k)
        BY <2>0, <2>3, <1>4, InAppend
      <4>2. InQueue(inbox'[f], t, k) <=> InQueue(told, t, k) \/ Msg("announced", l) = Msg(t, k)
        <5> HIDE DEF told
        <5> QED BY <3>1, <1>4, InAppend
      <4> QED BY <4>1, <4>2, <1>4, MsgsDiffer DEF Pending
    <3>3. \A t \in Callbacks : ~InQueue(inbox[f], t, l)
      BY <1>6 DEF Pending, Callbacks
    <3>4. Ordered(told)
      BY <2>0, <2>3, <3>3, <1>4, OrderedAppend
    <3>5. \A t \in Callbacks : InQueue(told, t, l) => <<t, "announced">> \in Follows
      BY <3>2, <3>3 DEF Follows, Pending
    <3>6. Ordered(inbox'[f])
      BY <3>1, <3>4, <3>5, <1>4, OrderedAppend
    <3>7. inbox'[f] \in Seq(Messages)
      BY <3>1, <1>4, InAppend
    <3> HIDE DEF told
    <3> QED BY <2>3, <3>2, <3>6, <3>7
  <2> QED BY <2>1, <2>2, <2>3
<1>8. TypeOK'
  <2>1. inbox' \in [Federates -> Seq(Messages)]
    BY <1>3, <1>7
  <2>2. Registering(l) \in Calls
    BY CallsDiffer
  <2> QED BY <1>3, <1>4, <2>1, <2>2 DEF TypeOK
<1>9. QueueInv'
  BY <1>4, <1>7 DEF QueueInv
<1>10. RtiInv'
  BY <1>1, <1>3, <1>5 DEF TypeOK, RtiInv, Active
<1>11. LifeInv'
  BY <1>1, <1>3, <1>6 DEF TypeOK, LifeInv
<1>12. ASSUME NEW g \in Federates, NEW k \in Labels, life'[g] = "in"
       PROVE  PointInv(g, k)'
  <2>1. PointInv(g, k)
    BY <1>12, <1>3
  <2>2. CASE k # l
    <3>1. /\ \A t \in Callbacks : Pending(g, t, k)' <=> Pending(g, t, k)
          /\ members'[k] = members[k] /\ round'[k] = round[k]
      BY <1>3, <1>7, <2>2 DEF TypeOK
    <3>2. /\ busy'[g] = Registering(k) <=> busy[g] = Registering(k)
          /\ busy'[g] = Achieving(k) <=> busy[g] = Achieving(k)
      BY <1>1, <1>3, <2>2, CallsDiffer DEF TypeOK
    <3> QED BY <2>1, <3>1, <3>2, <1>3, Frame DEF Active
  <2>3. CASE k = l
    <3>1. /\ Pending(g, "announced", l)' <=> g \in set
          /\ Pending(g, "registered", l)' <=> Pending(g, "registered", l) \/ g = f
          /\ Pending(g, "synchronized", l)' <=> Pending(g, "synchronized", l)
          /\ ~Pending(g, "announced", l)
      BY <1>5, <1>7, <2>1, <2>3 DEF Callbacks, PointInv, MemberInv, Awaited
    <3>2. /\ g \in members'[l] <=> g \in set
          /\ g \notin achieved'[l] /\ g \notin achieved[l] /\ g \notin members[l]
          /\ state'[g] = state[g] /\ round'[l] = round[l] + 1 /\ round[l] \in Nat
      BY <1>3, <1>5 DEF TypeOK
    <3>3. /\ busy'[g] = Achieving(l) <=> busy[g] = Achieving(l)
          /\ busy'[g] = Registering(l) <=> busy[g] = Registering(l) \/ g = f
      BY <1>1, <1>3, CallsDiffer DEF TypeOK
    <3>4. MemberInv(g, k)'
      BY <2>1, <2>3, <3>1, <3>2, <3>3 DEF PointInv, MemberInv, Awaited, Held
    <3>5. RegistrarInv(g, k)'
      BY <2>1, <2>3, <3>1, <3>2, <3>3, <1>1 DEF PointInv, RegistrarInv
    <3>6. UnrecognizedInv(g, k)'
      BY <2>1, <2>3, <3>2, <3>3 DEF PointInv, UnrecognizedInv
    <3> QED BY <3>4, <3>5, <3>6 DEF PointInv
  <2> QED BY <2>2, <2>3
<1> QED BY <1>8, <1>9, <1>10, <1>11, <1>12 DEF IndInv, In, PointInv

\* A call that returns assigns the state of one SyncPoint object and frees the
\* mutex; that leaves everything else as it is.
LEMMA ReturnOthers ==
  ASSUME IndInv, NEW f \in Federates, NEW l \in Labels, NEW s \in States,
         busy[f] \in {Registering(l), Achieving(l)}, life[f] = "in",
         state' = [state EXCEPT ![f][l] = s],
         busy' = [busy EXCEPT ![f] = NoCall],
         UNCHANGED <<life, rtiVars, inbox>>
  PROVE  /\ TypeOK' /\ QueueInv' /\ RtiInv' /\ LifeInv'
         /\ state'[f][l] = s /\ busy'[f] = NoCall
         /\ \A g \in Federates, k \in Labels :
              life'[g] = "in" /\ (g # f \/ k # l) => PointInv(g, k)'
<1> USE IndInvParts
<1>0. NoCall \in Calls
  BY DEF Calls
<1>1. state'[f][l] = s /\ busy'[f] = NoCall
  BY DEF TypeOK
<1>2. TypeOK'
  BY <1>0 DEF rtiVars, TypeOK
<1>3. QueueInv' /\ RtiInv'
  BY DEF rtiVars, QueueInv, RtiInv, Pending, Active
<1>4. LifeInv'
  BY DEF rtiVars, LifeInv, TypeOK
<1>5. ASSUME NEW g \in Federates, NEW k \in Labels, life'[g] = "in", g # f \/ k # l
      PROVE  PointInv(g, k)'
  <2>1. PointInv(g, k)
    BY <1>5
  <2>2. state'[g][k] = state[g][k]
    BY <1>5 DEF TypeOK
  <2>3. /\ busy'[g] = Registering(k) <=> busy[g] = Registering(k)
        /\ busy'[g] = Achieving(k) <=> busy[g] = Achieving(k)
    BY <1>5, CallsDiffer DEF TypeOK
  <2> QED BY <2>1, <2>2, <2>3, Frame DEF rtiVars, Pending, Active
<1> QED BY <1>1, <1>2, <1>3, <1>4, <1>5

LEMMA RegisterReturnInv ==
  ASSUME IndInv, NEW f \in Federates, NEW l \in Labels, RegisterReturn(f, l)
  PROVE  IndInv'
<1>1. /\ busy[f] = Registering(l) /\ life[f] = "in"
      /\ state' = [state EXCEPT ![f][l] = "REGISTERED"]
      /\ busy' = [busy EXCEPT ![f] = NoCall]
      /\ UNCHANGED <<life, rtiVars, inbox>>
  BY DEF RegisterReturn, SetState
<1>2. "REGISTERED" \in States
  BY DEF States
<1>3. PointInv(f, l)
  BY <1>1, IndInvParts
<1>4. state'[f][l] = "REGISTERED" /\ busy'[f] = NoCall
  BY <1>1, <1>2, ReturnOthers
<1>5. MemberInv(f, l)'
  BY <1>1, <1>3, <1>4, CallsDiffer, ConstantsAssumption
     DEF PointInv, MemberInv, RegistrarInv, Awaited, Held, Pending, rtiVars
<1>6. RegistrarInv(f, l)' /\ UnrecognizedInv(f, l)'
  BY <1>1, <1>3, <1>4, CallsDiffer, ConstantsAssumption
     DEF PointInv, RegistrarInv, UnrecognizedInv, Active, Pending, rtiVars
<1>7. PointInv(f, l)'
  BY <1>5, <1>6 DEF PointInv
<1>8. ASSUME NEW g \in Federates, NEW k \in Labels, life'[g] = "in"
      PROVE  PointInv(g, k)'
  <2>1. CASE g = f /\ k = l
    BY <1>7, <2>1
  <2>2. CASE g # f \/ k # l
    BY <1>1, <1>2, <1>8, <2>2, ReturnOthers
  <2> QED BY <2>1, <2>2
<1> QED BY <1>1, <1>2, <1>8, ReturnOthers DEF IndInv, In, PointInv

LEMMA AchieveReturnInv ==
  ASSUME IndInv, NEW f \in Federates, NEW l \in Labels, AchieveReturn(f, l)
  PROVE  IndInv'
<1>1. /\ busy[f] = Achieving(l) /\ life[f] = "in"
      /\ state' = [state EXCEPT ![f][l] = "ACHIEVED"]
      /\ busy' = [busy EXCEPT ![f] = NoCall]
      /\ UNCHANGED <<life, rtiVars, inbox>>
  BY DEF AchieveReturn, SetState
<1>2. "ACHIEVED" \in States
  BY DEF States
<1>3. PointInv(f, l)
  BY <1>1, IndInvParts
<1>4. state'[f][l] = "ACHIEVED" /\ busy'[f] = NoCall
  BY <1>1, <1>2, ReturnOthers
<1>5. MemberInv(f, l)'
  BY <1>1, <1>3, <1>4, CallsDiffer
     DEF PointInv, MemberInv, Awaited, Held, Pending, rtiVars
<1>6. RegistrarInv(f, l)' /\ UnrecognizedInv(f, l)'
  BY <1>1, <1>3, <1>4, CallsDiffer
     DEF PointInv, MemberInv, RegistrarInv, UnrecognizedInv, Active, Pending, rtiVars
<1>7. PointInv(f, l)'
  BY <1>5, <1>6 DEF PointInv
<1>8. ASSUME NEW g \in Federates, NEW k \in Labels, life'[g] = "in"
      PROVE  PointInv(g, k)'
  <2>1. CASE g = f /\ k = l
    BY <1>7, <2>1
  <2>2. CASE g # f \/ k # l
    BY <1>1, <1>2, <1>8, <2>2, ReturnOthers
  <2> QED BY <2>1, <2>2
<1> QED BY <1>1, <1>2, <1>8, ReturnOthers DEF IndInv, In, PointInv

\* A federate that puts a label into its Unknown list is awaited there only
\* if the announcement is still to come.
LEMMA TrackInv ==
  ASSUME IndInv, NEW f \in Federates, NEW l \in Labels, Track(f, l)
  PROVE  IndInv'
<1> USE IndInvParts
<1>1. /\ life[f] = "in" /\ busy[f] = NoCall /\ state[f][l] = "UNKNOWN"
      /\ state' = [state EXCEPT ![f][l] = "KNOWN"]
      /\ UNCHANGED <<life, rtiVars, inbox, busy>> /\ PointInv(f, l)
  BY DEF Track, Free, SetState
<1>2. TypeOK'
  BY <1>1 DEF TypeOK, States, rtiVars
<1>3. state'[f][l] = "KNOWN"
  BY <1>1 DEF TypeOK
<1>4. QueueInv' /\ RtiInv'
  BY <1>1 DEF rtiVars, QueueInv, RtiInv, Pending, Active
<1>5. LifeInv'
  BY <1>1 DEF rtiVars, LifeInv, TypeOK
<1>6. PointInv(f, l)'
  <2>1. MemberInv(f, l)'
    BY <1>1, <1>3, CallsDiffer
       DEF PointInv, MemberInv, UnrecognizedInv, Awaited, Held, Pending, rtiVars
  <2>2. RegistrarInv(f, l)' /\ UnrecognizedInv(f, l)'
    BY <1>1, <1>3, CallsDiffer
       DEF PointInv, RegistrarInv, UnrecognizedInv, Active, Pending, rtiVars
  <2> QED BY <2>1, <2>2 DEF PointInv
<1>7. ASSUME NEW g \in Federates, NEW k \in Labels, life'[g] = "in"
      PROVE  PointInv(g, k)'
  <2>1. CASE g = f /\ k = l
    BY <1>6, <2>1
  <2>2. CASE g # f \/ k # l
    <3>1. state'[g][k] = state[g][k] /\ PointInv(g, k)
      BY <1>1, <1>7, <2>2 DEF TypeOK
    <3> QED BY <1>1, <3>1, Frame DEF rtiVars, Pending, Active
  <2> QED BY <2>1, <2>2
<1> QED BY <1>2, <1>4, <1>5, <1>7 DEF IndInv, In, PointInv

-----------------------------------------------------------------------------
(* Achieving a point, from the program or from the callback that announces *)
(* an unrecognized one.                                                    *)

\* The RTI takes the achievement, and the object says ANNOUNCED until the call
\* returns.
LEMMA AcceptedInv ==
  ASSUME IndInv, NEW f \in Federates, NEW l \in Labels, Free(f),
         NEW box \in [Federates -> Seq(Messages)],
         \A g \in Federates \ {f} : box[g] = inbox[g],
         Ordered(box[f]), \A k \in Labels : ~InQueue(box[f], "failed", k),
         \A t \in Callbacks : ~InQueue(box[f], t, l),
         \A t \in Callbacks, k \in Labels \ {l} :
           InQueue(box[f], t, k) <=> Pending(f, t, k),
         Awaited(f, l), AchieveFrom(f, l, "ANNOUNCED", box)
  PROVE  IndInv'
<1> DEFINE done == achieved[l] \cup {f}
<1>1. TypeOK /\ QueueInv /\ RtiInv /\ LifeInv /\ PointInv(f, l)
      /\ life[f] = "in" /\ busy[f] = NoCall /\ f \in members[l] /\ Active(l)
      /\ members[l] \in SUBSET Federates /\ done \in SUBSET members[l]
  BY IndInvParts DEF Free, Awaited, Active, TypeOK, RtiInv
<1>2. Accepts(f, l, box)
  BY DEF Accepts, Awaited, Callbacks
<1>3. /\ state' = [state EXCEPT ![f][l] = "ANNOUNCED"]
      /\ Settle(l, members[l], done, box)
      /\ busy' = [busy EXCEPT ![f] = Achieving(l)]
      /\ life' = life /\ round' = round /\ open' = open
  BY <1>2 DEF AchieveFrom, SetState
<1>4. /\ state'[f][l] = "ANNOUNCED" /\ busy'[f] = Achieving(l)
      /\ \A g \in Federates \ {f} : state'[g] = state[g] /\ busy'[g] = busy[g]
      /\ \A k \in Labels \ {l} : state'[f][k] = state[f][k]
  BY <1>1, <1>3 DEF TypeOK
<1> HIDE DEF done
<1>5. TypeOK'
  <2>1. Achieving(l) \in Calls /\ "ANNOUNCED" \in States
    BY CallsDiffer DEF States
  <2>2. /\ members' \in [Labels -> SUBSET Federates]
        /\ achieved' \in [Labels -> SUBSET Federates]
        /\ inbox' \in [Federates -> Seq(Messages)]
    BY <1>1, <1>3, SettleEffect
  <2> QED BY <1>1, <1>3, <2>1, <2>2 DEF TypeOK
<1>6. QueueInv' /\ RtiInv' /\ LifeInv'
  <2>1. members[l] \ {f} = members[l] \ {f} /\ done \ {f} = achieved[l] \ {f}
    BY DEF done
  <2>2. /\ \A g \in Federates : busy'[g] # busy[g] => life[g] = "in"
        /\ \A g \in Federates, k \in Labels : state'[g][k] # state[g][k] => life[g] = "in"
    BY <1>1, <1>4
  <2> QED BY <1>1, <1>3, <2>1, <2>2, SettleRti
<1>7. ASSUME NEW g \in Federates \ {f}, NEW k \in Labels, life'[g] = "in"
      PROVE  PointInv(g, k)'
  <2>1. members[l] \ {f} = members[l] \ {f} /\ done \ {f} = achieved[l] \ {f}
    BY DEF done
  <2> QED BY <1>1, <1>3, <1>4, <1>7, <2>1, SettleOthers
<1>8. ASSUME NEW t \in Callbacks, NEW k \in Labels
      PROVE  Pending(f, t, k)' <=>
               \/ InQueue(box[f], t, k)
               \/ Complete(done, members[l]) /\ t = "synchronized" /\ k = l
  <2>1. f \in members[l] /\ f \in In
    BY <1>1 DEF In
  <2> QED BY <1>1, <1>3, <2>1, SettleTells DEF Pending
<1>9. ASSUME NEW k \in Labels \ {l}
      PROVE  PointInv(f, k)'
  <2>1. \A t \in Callbacks : Pending(f, t, k)' <=> Pending(f, t, k)
    BY <1>8, <1>9
  <2>2. members'[k] = members[k] /\ achieved'[k] = achieved[k]
    BY <1>1, <1>3, SettlePoint
  <2>3. /\ busy'[f] = Registering(k) <=> busy[f] = Registering(k)
        /\ busy'[f] = Achieving(k) <=> busy[f] = Achieving(k)
    BY <1>1, <1>4, CallsDiffer
  <2>4. PointInv(f, k)
    BY <1>1, IndInvParts
  <2> QED BY <1>3, <1>4, <2>1, <2>2, <2>3, <2>4, Frame DEF Active
<1>10. PointInv(f, l)'
  <2>1. /\ ~Pending(f, "announced", l)' /\ ~Pending(f, "registered", l)'
        /\ Pending(f, "synchronized", l)' <=> Complete(done, members[l])
    BY <1>8 DEF Callbacks
  <2>2. /\ Complete(done, members[l]) => members'[l] = {} /\ achieved'[l] = {}
        /\ ~Complete(done, members[l]) => members'[l] = members[l] /\ achieved'[l] = done
    <3> DEFINE ms == members[l]
    <3>1. ms \in SUBSET Federates /\ done \in SUBSET ms /\ Settle(l, ms, done, box) /\ TypeOK
      BY <1>1, <1>3
    <3> HIDE DEF ms
    <3>2. /\ Complete(done, ms) => members'[l] = {} /\ achieved'[l] = {}
          /\ ~Complete(done, ms) => members'[l] = ms /\ achieved'[l] = done
      BY <3>1, SettlePoint
    <3> QED BY <3>2 DEF ms
  <2>3. f \in done
    BY DEF done
  <2>4. MemberInv(f, l)'
    BY <1>4, <2>1, <2>2, <2>3, CallsDiffer DEF MemberInv, Awaited, Held
  <2>5. RegistrarInv(f, l)'
    BY <1>1, <1>4, <2>1, <2>2, CallsDiffer DEF RegistrarInv, Active
  <2>6. UnrecognizedInv(f, l)'
    BY <1>4 DEF UnrecognizedInv
  <2> QED BY <2>4, <2>5, <2>6 DEF PointInv
<1>11. \A g \in Federates, k \in Labels : life'[g] = "in" => PointInv(g, k)'
  BY <1>7, <1>9, <1>10
<1> QED BY <1>5, <1>6, <1>11 DEF IndInv, In, PointInv

LEMMA AchieveInv ==
  ASSUME IndInv, NEW f \in Federates, NEW l \in Labels, Achieve(f, l)
  PROVE  IndInv'
<1>1. /\ state[f][l] = "ANNOUNCED" /\ Free(f) /\ life[f] = "in" /\ busy[f] = NoCall
      /\ AchieveFrom(f, l, "ANNOUNCED", inbox)
  BY DEF Achieve, AchieveCall, Marked, Free
<1>2. PointInv(f, l) /\ TypeOK /\ QueueInv
  BY <1>1, IndInvParts
<1>3. Awaited(f, l) /\ \A t \in Callbacks : ~Pending(f, t, l)
  BY <1>1, <1>2, CallsDiffer
     DEF PointInv, MemberInv, RegistrarInv, Held, QueueInv, Callbacks
<1>4. /\ inbox \in [Federates -> Seq(Messages)]
      /\ Ordered(inbox[f]) /\ \A k \in Labels : ~InQueue(inbox[f], "failed", k)
      /\ \A t \in Callbacks : ~InQueue(inbox[f], t, l)
      /\ \A t \in Callbacks, k \in Labels : InQueue(inbox[f], t, k) <=> Pending(f, t, k)
  BY <1>2, <1>3 DEF TypeOK, QueueInv, Pending
<1> QED BY <1>1, <1>3, <1>4, AcceptedInv

-----------------------------------------------------------------------------
(* The callbacks.                                                          *)

\* The queue of the federate that takes a callback.
LEMMA TakenEffect ==
  ASSUME IndInv, NEW f \in Federates, NEW u \in Callbacks, NEW l \in Labels,
         Arrives(f, u, l)
  PROVE  /\ life[f] = "in" /\ busy[f] = NoCall /\ PointInv(f, l) /\ Pending(f, u, l)
         /\ Taken(f) \in [Federates -> Seq(Messages)]
         /\ \A g \in Federates \ {f} : Taken(f)[g] = inbox[g]
         /\ Ordered(Taken(f)[f])
         /\ \A k \in Labels : ~InQueue(Taken(f)[f], "failed", k)
         /\ \A t \in Callbacks : InQueue(Taken(f)[f], t, l) =>
              Pending(f, t, l) /\ <<u, t>> \in Follows
         /\ \A t \in Callbacks :
              Pending(f, t, l) /\ t # u => InQueue(Taken(f)[f], t, l)
         /\ \A t \in Callbacks, k \in Labels \ {l} :
              InQueue(Taken(f)[f], t, k) <=> Pending(f, t, k)
<1>1. /\ inbox[f] \in Seq(Messages) /\ inbox[f] # <<>> /\ Head(inbox[f]) = Msg(u, l)
      /\ Ordered(inbox[f]) /\ life[f] = "in" /\ busy[f] = NoCall /\ PointInv(f, l)
      /\ \A k \in Labels : ~InQueue(inbox[f], "failed", k)
      /\ inbox \in [Federates -> Seq(Messages)]
  BY IndInvParts DEF Arrives, Free, TypeOK, QueueInv, Pending
<1>2. /\ Taken(f)[f] = Tail(inbox[f])
      /\ \A g \in Federates \ {f} : Taken(f)[g] = inbox[g]
  BY <1>1 DEF Taken
<1>3. Tail(inbox[f]) \in Seq(Messages) /\ Ordered(Tail(inbox[f])) /\ InQueue(inbox[f], u, l)
  BY <1>1, InTail
<1>4. Taken(f) \in [Federates -> Seq(Messages)]
  BY <1>1, <1>3 DEF Taken
<1>5. ASSUME NEW t \in Callbacks, NEW k \in Labels
      PROVE  /\ InQueue(Tail(inbox[f]), t, k) => InQueue(inbox[f], t, k)
             /\ InQueue(inbox[f], t, k) /\ Msg(t, k) # Msg(u, l)
                  => InQueue(Tail(inbox[f]), t, k)
             /\ InQueue(Tail(inbox[f]), t, l) => <<u, t>> \in Follows
  BY <1>1, InTail
<1>6. ASSUME NEW t \in Callbacks, NEW k \in Labels, t # u \/ k # l
      PROVE  Msg(t, k) # Msg(u, l)
  BY <1>6, MsgsDiffer
<1>7. "failed" \in Callbacks
  BY DEF Callbacks
<1> QED BY <1>1, <1>2, <1>3, <1>4, <1>5, <1>6, <1>7 DEF Pending

\* A callback that only assigns the state of the object: the other points.
LEMMA MarkOthers ==
  ASSUME IndInv, NEW f \in Federates, NEW u \in Callbacks, NEW l \in Labels,
         NEW s \in States, Arrives(f, u, l), Mark(f, l, s)
  PROVE  /\ TypeOK' /\ QueueInv' /\ RtiInv' /\ LifeInv'
         /\ state'[f][l] = s /\ busy'[f] = NoCall
         /\ \A t \in Callbacks :
              /\ Pending(f, t, l)' => Pending(f, t, l) /\ <<u, t>> \in Follows
              /\ Pending(f, t, l) /\ t # u => Pending(f, t, l)'
         /\ \A g \in Federates, k \in Labels :
              life'[g] = "in" /\ (g # f \/ k # l) => PointInv(g, k)'
<1>1. /\ state' = [state EXCEPT ![f][l] = s] /\ inbox' = Taken(f)
      /\ UNCHANGED <<life, rtiVars, busy>>
  BY DEF Mark, SetState
<1>2. TypeOK /\ QueueInv /\ RtiInv /\ LifeInv
  BY IndInvParts
<1>3. state'[f][l] = s /\ busy'[f] = NoCall
  BY <1>1, <1>2, TakenEffect DEF TypeOK
<1>4. inbox' \in [Federates -> Seq(Messages)]
  BY <1>1, TakenEffect
<1>5. TypeOK'
  BY <1>1, <1>2, <1>4 DEF TypeOK, rtiVars
<1>6. QueueInv'
  <2>1. ASSUME NEW g \in Federates
        PROVE  Ordered(inbox'[g]) /\ \A k \in Labels : ~InQueue(inbox'[g], "failed", k)
    <3>1. CASE g = f
      BY <1>1, <3>1, TakenEffect
    <3>2. CASE g # f
      <4>1. inbox'[g] = inbox[g]
        BY <1>1, <3>2, TakenEffect
      <4> QED BY <4>1, <1>2 DEF QueueInv, Pending
    <3> QED BY <3>1, <3>2
  <2> QED BY <2>1 DEF QueueInv, Pending
<1>7. RtiInv'
  BY <1>1, <1>2 DEF RtiInv, rtiVars, Active
<1>8. LifeInv'
  <2>1. life[f] = "in" /\ \A g \in Federates \ {f} : inbox'[g] = inbox[g]
    BY <1>1, TakenEffect
  <2> QED BY <1>1, <1>2, <2>1 DEF LifeInv, rtiVars, TypeOK
<1>9. ASSUME NEW t \in Callbacks
      PROVE  /\ Pending(f, t, l)' => Pending(f, t, l) /\ <<u, t>> \in Follows
             /\ Pending(f, t, l) /\ t # u => Pending(f, t, l)'
  <2>1. /\ InQueue(Taken(f)[f], t, l) => Pending(f, t, l) /\ <<u, t>> \in Follows
        /\ Pending(f, t, l) /\ t # u => InQueue(Taken(f)[f], t, l)
    BY TakenEffect
  <2> QED BY <1>1, <2>1 DEF Pending
<1>10. ASSUME NEW g \in Federates, NEW k \in Labels, life'[g] = "in", g # f \/ k # l
       PROVE  PointInv(g, k)'
  <2>1. PointInv(g, k)
    BY <1>1, <1>10, IndInvParts
  <2>2. ASSUME NEW t \in Callbacks
        PROVE  Pending(g, t, k)' <=> Pending(g, t, k)
    <3>1. CASE g = f
      <4>1. InQueue(Taken(f)[f], t, k) <=> Pending(f, t, k)
        BY <3>1, <1>10, TakenEffect
      <4> QED BY <1>1, <3>1, <4>1 DEF Pending
    <3>2. CASE g # f
      <4>1. inbox'[g] = inbox[g]
        BY <1>1, <3>2, TakenEffect
      <4> QED BY <4>1 DEF Pending
    <3> QED BY <3>1, <3>2
  <2>3. state'[g][k] = state[g][k]
    BY <1>1, <1>2, <1>10 DEF TypeOK
  <2> QED BY <1>1, <2>1, <2>2, <2>3, Frame DEF rtiVars, Active
<1> QED BY <1>3, <1>5, <1>6, <1>7, <1>8, <1>9, <1>10

LEMMA OnRegisteredInv ==
  ASSUME IndInv, NEW f \in Federates, NEW l \in Labels, OnRegistered(f, l)
  PROVE  IndInv'
<1>1. /\ Arrives(f, "registered", l) /\ Mark(f, l, "REGISTERED")
      /\ "registered" \in Callbacks /\ "REGISTERED" \in States
  BY DEF OnRegistered, Callbacks, States
<1>2. life[f] = "in" /\ busy[f] = NoCall /\ PointInv(f, l) /\ Pending(f, "registered", l)
  BY <1>1, TakenEffect
<1>3. state[f][l] = "REGISTERED"
  BY <1>2, CallsDiffer DEF PointInv, RegistrarInv
<1>4. /\ TypeOK' /\ QueueInv' /\ RtiInv' /\ LifeInv'
      /\ state'[f][l] = "REGISTERED" /\ busy'[f] = NoCall
  BY <1>1, MarkOthers
<1>5. ASSUME NEW t \in Callbacks
      PROVE  /\ Pending(f, t, l)' => Pending(f, t, l) /\ <<"registered", t>> \in Follows
             /\ Pending(f, t, l) /\ t # "registered" => Pending(f, t, l)'
  BY <1>1, MarkOthers
<1>6. /\ Pending(f, "announced", l)' <=> Pending(f, "announced", l)
      /\ Pending(f, "synchronized", l)' <=> Pending(f, "synchronized", l)
      /\ Pending(f, "registered", l)' => Pending(f, "registered", l)
  BY <1>5 DEF Callbacks
<1>7. UNCHANGED <<life, rtiVars, busy>>
  BY <1>1 DEF Mark
<1>8. MemberInv(f, l)' /\ RegistrarInv(f, l)' /\ UnrecognizedInv(f, l)'
  BY <1>2, <1>3, <1>4, <1>6, <1>7, CallsDiffer, ConstantsAssumption
     DEF PointInv, MemberInv, RegistrarInv, UnrecognizedInv, Awaited, Held, Active, rtiVars
<1>9. ASSUME NEW g \in Federates, NEW k \in Labels, life'[g] = "in"
      PROVE  PointInv(g, k)'
  <2>1. CASE g = f /\ k = l
    BY <1>8, <2>1 DEF PointInv
  <2>2. CASE g # f \/ k # l
    BY <1>1, <1>9, <2>2, MarkOthers
  <2> QED BY <2>1, <2>2
<1> QED BY <1>4, <1>9 DEF IndInv, In, PointInv

LEMMA OnAnnouncedInv ==
  ASSUME IndInv, NEW f \in Federates, NEW l \in Labels, OnAnnounced(f, l)
  PROVE  IndInv'
<1>1. /\ Arrives(f, "announced", l) /\ Mark(f, l, "ANNOUNCED") /\ l \in Named[f]
      /\ "announced" \in Callbacks /\ "ANNOUNCED" \in States
  BY DEF OnAnnounced, Callbacks, States
<1>2. life[f] = "in" /\ busy[f] = NoCall /\ PointInv(f, l) /\ Pending(f, "announced", l)
  BY <1>1, TakenEffect
<1>3. f \in members[l] /\ f \notin achieved[l]
  BY <1>2 DEF PointInv, MemberInv, Awaited
<1>4. /\ TypeOK' /\ QueueInv' /\ RtiInv' /\ LifeInv'
      /\ state'[f][l] = "ANNOUNCED" /\ busy'[f] = NoCall
  BY <1>1, MarkOthers
<1>5. ASSUME NEW t \in Callbacks
      PROVE  Pending(f, t, l)' => <<"announced", t>> \in Follows
  BY <1>1, MarkOthers
<1>6. /\ ~Pending(f, "announced", l)' /\ ~Pending(f, "synchronized", l)'
      /\ ~Pending(f, "registered", l)'
  BY <1>5 DEF Callbacks, Follows
<1>7. UNCHANGED <<life, rtiVars, busy>>
  BY <1>1 DEF Mark
<1>8. MemberInv(f, l)'
  BY <1>3, <1>4, <1>6, <1>7, CallsDiffer DEF MemberInv, Awaited, Held, rtiVars
<1>9. RegistrarInv(f, l)' /\ UnrecognizedInv(f, l)'
  BY <1>1, <1>3, <1>4, <1>6, <1>7, CallsDiffer
     DEF RegistrarInv, UnrecognizedInv, Active, rtiVars
<1>10. ASSUME NEW g \in Federates, NEW k \in Labels, life'[g] = "in"
       PROVE  PointInv(g, k)'
  <2>1. CASE g = f /\ k = l
    BY <1>8, <1>9, <2>1 DEF PointInv
  <2>2. CASE g # f \/ k # l
    BY <1>1, <1>10, <2>2, MarkOthers
  <2> QED BY <2>1, <2>2
<1> QED BY <1>4, <1>10 DEF IndInv, In, PointInv

LEMMA OnSynchronizedInv ==
  ASSUME IndInv, NEW f \in Federates, NEW l \in Labels, OnSynchronized(f, l)
  PROVE  IndInv'
<1>1. /\ Arrives(f, "synchronized", l) /\ Mark(f, l, "SYNCHRONIZED")
      /\ "synchronized" \in Callbacks /\ "SYNCHRONIZED" \in States
  BY DEF OnSynchronized, Callbacks, States
<1>2. life[f] = "in" /\ busy[f] = NoCall /\ PointInv(f, l) /\ Pending(f, "synchronized", l)
  BY <1>1, TakenEffect
<1>3. state[f][l] = "ACHIEVED" /\ f \notin achieved[l]
  BY <1>2, CallsDiffer DEF PointInv, MemberInv, Held
<1>4. /\ TypeOK' /\ QueueInv' /\ RtiInv' /\ LifeInv'
      /\ state'[f][l] = "SYNCHRONIZED" /\ busy'[f] = NoCall
  BY <1>1, MarkOthers
<1>5. ASSUME NEW t \in Callbacks
      PROVE  /\ Pending(f, t, l)' => Pending(f, t, l) /\ <<"synchronized", t>> \in Follows
             /\ Pending(f, t, l) /\ t # "synchronized" => Pending(f, t, l)'
  BY <1>1, MarkOthers
<1>6. /\ Pending(f, "announced", l)' <=> Pending(f, "announced", l)
      /\ ~Pending(f, "synchronized", l)' /\ ~Pending(f, "registered", l)'
  BY <1>5 DEF Callbacks, Follows
<1>7. UNCHANGED <<life, rtiVars, busy>>
  BY <1>1 DEF Mark
<1>8. MemberInv(f, l)'
  BY <1>2, <1>3, <1>4, <1>6, <1>7, CallsDiffer
     DEF PointInv, MemberInv, Awaited, Held, rtiVars
<1>9. RegistrarInv(f, l)' /\ UnrecognizedInv(f, l)'
  BY <1>2, <1>3, <1>4, <1>6, <1>7, CallsDiffer
     DEF PointInv, RegistrarInv, UnrecognizedInv, Active, rtiVars
<1>10. ASSUME NEW g \in Federates, NEW k \in Labels, life'[g] = "in"
       PROVE  PointInv(g, k)'
  <2>1. CASE g = f /\ k = l
    BY <1>8, <1>9, <2>1 DEF PointInv
  <2>2. CASE g # f \/ k # l
    BY <1>1, <1>10, <2>2, MarkOthers
  <2> QED BY <2>1, <2>2
<1> QED BY <1>4, <1>10 DEF IndInv, In, PointInv

\* A label that is not named, when it is announced: it is new and achieved, or
\* in the Unknown list already, and then nothing but the queue changes.
LEMMA UnrecognizedCases ==
  ASSUME IndInv, NEW f \in Federates, NEW l \in Labels, OnUnrecognized(f, l)
  PROVE  /\ Arrives(f, "announced", l) /\ l \notin Named[f] /\ Awaited(f, l)
         /\ \/ /\ state[f][l] = "UNKNOWN" /\ Marked(f, l) = "ANNOUNCED"
               /\ AchieveFrom(f, l, "ANNOUNCED", Taken(f))
            \/ /\ state[f][l] \in {"KNOWN", "SYNCHRONIZED"}
               /\ Mark(f, l, state[f][l]) /\ state' = state
<1>1. /\ Arrives(f, "announced", l) /\ l \notin Named[f] /\ "announced" \in Callbacks
      /\ AchieveFrom(f, l, Marked(f, l), Taken(f))
  BY DEF OnUnrecognized, Callbacks
<1>2. /\ PointInv(f, l) /\ Pending(f, "announced", l) /\ busy[f] = NoCall
      /\ TypeOK
  BY <1>1, TakenEffect, IndInvParts
<1>3. Awaited(f, l)
  BY <1>2 DEF PointInv, MemberInv
<1>4. state[f][l] \in {"UNKNOWN", "KNOWN", "SYNCHRONIZED"}
  <2>1. ~Pending(f, "synchronized", l)
    <3>1. Pending(f, "synchronized", l) => Held(f, l) /\ f \notin achieved[l]
      BY <1>2 DEF PointInv, MemberInv
    <3>2. "synchronized" \in Callbacks /\ "synchronized" # "announced"
      BY DEF Callbacks
    <3>3. Pending(f, "synchronized", l) =>
            <<"announced", "synchronized">> \in Follows
      BY <1>1, <3>2, TakenEffect
    <3> QED BY <3>3 DEF Follows
  <2>2. state[f][l] # "ACHIEVED"
    BY <1>2, <1>3, <2>1 DEF PointInv, MemberInv, Awaited, Held
  <2>3. state[f][l] # "ANNOUNCED" /\ state[f][l] # "REGISTERED"
    BY <1>1, <1>2, CallsDiffer DEF PointInv, UnrecognizedInv
  <2>4. state[f][l] \in States
    BY <1>2 DEF TypeOK
  <2> QED BY <2>2, <2>3, <2>4 DEF States
<1>5. CASE state[f][l] = "UNKNOWN"
  BY <1>1, <1>3, <1>5 DEF Marked
<1>6. CASE state[f][l] \in {"KNOWN", "SYNCHRONIZED"}
  <2>1. Marked(f, l) = state[f][l]
    BY <1>1, <1>6 DEF Marked
  <2>2. /\ SetState(f, l, state[f][l]) /\ inbox' = Taken(f)
        /\ UNCHANGED <<life, rtiVars, busy>>
    BY <1>1, <1>6, <2>1 DEF AchieveFrom, rtiVars
  <2>3. state' = state
    BY <1>2, <2>2 DEF SetState, TypeOK
  <2> QED BY <1>1, <1>3, <1>6, <2>2, <2>3 DEF Mark
<1> QED BY <1>4, <1>5, <1>6

LEMMA OnUnrecognizedInv ==
  ASSUME IndInv, NEW f \in Federates, NEW l \in Labels, OnUnrecognized(f, l)
  PROVE  IndInv'
<1>1. /\ Arrives(f, "announced", l) /\ l \notin Named[f] /\ "announced" \in Callbacks
      /\ Awaited(f, l)
  BY UnrecognizedCases DEF Callbacks
<1>2. PointInv(f, l) /\ Pending(f, "announced", l) /\ Free(f) /\ busy[f] = NoCall
  BY <1>1, TakenEffect DEF Arrives
<1>4. \A t \in Callbacks : ~InQueue(Taken(f)[f], t, l)
  <2>1. ASSUME NEW t \in Callbacks, InQueue(Taken(f)[f], t, l)
        PROVE  <<"announced", t>> \in Follows
    BY <1>1, <2>1, TakenEffect
  <2> QED BY <2>1 DEF Follows
<1>5. /\ Taken(f) \in [Federates -> Seq(Messages)]
      /\ \A g \in Federates \ {f} : Taken(f)[g] = inbox[g]
      /\ Ordered(Taken(f)[f]) /\ \A k \in Labels : ~InQueue(Taken(f)[f], "failed", k)
  BY <1>1, TakenEffect
<1>6. ASSUME NEW t \in Callbacks, NEW k \in Labels \ {l}
      PROVE  InQueue(Taken(f)[f], t, k) <=> Pending(f, t, k)
  BY <1>1, TakenEffect
<1>7. CASE AchieveFrom(f, l, "ANNOUNCED", Taken(f))
  BY <1>1, <1>2, <1>4, <1>5, <1>6, <1>7, AcceptedInv
<1>8. CASE /\ state[f][l] \in {"KNOWN", "SYNCHRONIZED"}
           /\ Mark(f, l, state[f][l]) /\ state' = state
  <2> DEFINE s == state[f][l]
  <2>1. s \in States /\ Mark(f, l, s) /\ UNCHANGED <<life, rtiVars, busy>>
    BY <1>8 DEF States, Mark
  <2> HIDE DEF s
  <2>2. /\ TypeOK' /\ QueueInv' /\ RtiInv' /\ LifeInv'
        /\ \A g \in Federates, k \in Labels :
             life'[g] = "in" /\ (g # f \/ k # l) => PointInv(g, k)'
    BY <1>1, <2>1, MarkOthers
  <2>3. \A t \in Callbacks : ~Pending(f, t, l)' /\ (Pending(f, t, l) => t = "announced")
    <3>1. ASSUME NEW t \in Callbacks
          PROVE  /\ Pending(f, t, l)' => <<"announced", t>> \in Follows
                 /\ Pending(f, t, l) /\ t # "announced" => Pending(f, t, l)'
      BY <1>1, <2>1, MarkOthers
    <3> QED BY <3>1 DEF Follows
  <2>4. PointInv(f, l)'
    <3>1. /\ ~Pending(f, "announced", l)' /\ ~Pending(f, "registered", l)'
          /\ ~Pending(f, "synchronized", l)' /\ ~Pending(f, "synchronized", l)
      BY <2>3 DEF Callbacks
    <3>2. MemberInv(f, l)'
      BY <1>1, <1>2, <1>8, <2>1, <3>1, CallsDiffer
         DEF PointInv, MemberInv, Awaited, Held, rtiVars
    <3>3. RegistrarInv(f, l)' /\ UnrecognizedInv(f, l)'
      BY <1>1, <1>2, <1>8, <2>1, <3>1, CallsDiffer
         DEF PointInv, RegistrarInv, UnrecognizedInv, Active, rtiVars
    <3> QED BY <3>2, <3>3 DEF PointInv
  <2>5. \A g \in Federates, k \in Labels : life'[g] = "in" => PointInv(g, k)'
    BY <2>2, <2>4
  <2> QED BY <2>2, <2>5 DEF IndInv, In, PointInv
<1> QED BY <1>7, <1>8, UnrecognizedCases

-----------------------------------------------------------------------------
(* The theorems.                                                           *)

\* IndInv is preserved by every step, of whatever federate.
THEOREM StepInv == IndInv /\ [Next]_vars => IndInv'
<1> SUFFICES ASSUME IndInv, [Next]_vars PROVE IndInv'
  OBVIOUS
<1>1. CASE UNCHANGED vars
  BY <1>1 DEF vars, IndInv, TypeOK, QueueInv, RtiInv, LifeInv, MemberInv, RegistrarInv,
              UnrecognizedInv, In, Active, Awaited, Held, Pending
<1>2. ASSUME NEW f \in Federates, Join(f) \/ Leave(f)
      PROVE  IndInv'
  BY <1>2, JoinInv, LeaveInv
<1>3. ASSUME NEW f \in Federates, NEW l \in Labels, Inform(f, l) \/ Drop(f, l)
      PROVE  IndInv'
  BY <1>3, InformInv, DropInv
<1>4. ASSUME NEW f \in Federates, NEW l \in Labels, RegisterForAll(f, l)
      PROVE  IndInv'
  <2>1. MayRegister(f, l) /\ RegisterCall(f, l, In, TRUE) /\ f \in In
    BY <1>4 DEF RegisterForAll, RegisterCall, Free, In
  <2> QED BY <2>1, RegisterInv
<1>5. ASSUME NEW f \in Federates, NEW l \in Labels, NEW set \in SUBSET In,
             RegisterFor(f, l, set)
      PROVE  IndInv'
  BY <1>5, RegisterInv DEF RegisterFor
<1>6. ASSUME NEW f \in Federates, NEW l \in Labels,
             \/ RegisterReturn(f, l) \/ AchieveReturn(f, l)
             \/ Track(f, l) \/ Achieve(f, l)
      PROVE  IndInv'
  BY <1>6, RegisterReturnInv, AchieveReturnInv, TrackInv, AchieveInv
<1>7. ASSUME NEW f \in Federates, NEW l \in Labels, Callback(f, l)
      PROVE  IndInv'
  BY <1>7, OnRegisteredInv, OnAnnouncedInv, OnUnrecognizedInv, OnSynchronizedInv
     DEF Callback
<1> QED BY <1>1, <1>2, <1>3, <1>4, <1>5, <1>6, <1>7 DEF Next

\* The inductive invariant holds in every behaviour.
THEOREM Invariance == Spec => []IndInv
<1> QED BY InitInv, StepInv, PTL DEF Spec

\* Every variable keeps its type, in every behaviour.
THEOREM TypeCorrect == Spec => []TypeOK
<1>1. IndInv => TypeOK
  BY DEF IndInv
<1> QED BY <1>1, Invariance, PTL

\* No announcement is lost, whatever the numbers of federates and points.
THEOREM AnnouncementsArrive == Spec => []NoLostAnnouncement
<1>1. IndInv => NoLostAnnouncement
  BY DEF IndInv, NoLostAnnouncement, MemberInv
<1> QED BY <1>1, Invariance, PTL

\* An ANNOUNCED object can be achieved, whatever the federates do.
THEOREM AnnouncedCanBeAchieved == Spec => []AnnouncedIsAwaited
<1>1. IndInv => AnnouncedIsAwaited
  BY DEF IndInv, AnnouncedIsAwaited, MemberInv
<1> QED BY <1>1, Invariance, PTL

\* No synchronization is lost: whoever achieved a point is counted or told.
THEOREM SynchronizationsArrive == Spec => []NoLostSynchronization
<1>1. IndInv => NoLostSynchronization
  BY DEF IndInv, NoLostSynchronization, MemberInv, Held
<1> QED BY <1>1, Invariance, PTL

-----------------------------------------------------------------------------
(* A label that nobody has registered.                                     *)

\* No object of it has changed but that it may be in an Unknown list, and it is
\* being registered by nobody.
Fresh(l) ==
  \A f \in Federates :
    /\ state[f][l] = "KNOWN" \/ (l \notin Named[f] /\ state[f][l] = "UNKNOWN")
    /\ busy[f] # Registering(l)
FreshInv == \A l \in Labels : round[l] = 0 => Fresh(l)

\* A step about another label leaves it fresh.
LEMMA FreshOthers ==
  ASSUME TypeOK, NEW f \in Federates, NEW l \in Labels, NEW k \in Labels \ {l},
         NEW s, NEW c \in Calls, Fresh(k), c # Registering(k),
         state' = state \/ state' = [state EXCEPT ![f][l] = s],
         busy' = busy \/ busy' = [busy EXCEPT ![f] = c]
  PROVE  Fresh(k)'
<1> SUFFICES ASSUME NEW g \in Federates
             PROVE  /\ \/ state'[g][k] = "KNOWN"
                       \/ k \notin Named[g] /\ state'[g][k] = "UNKNOWN"
                    /\ busy'[g] # Registering(k)
  BY DEF Fresh
<1>1. /\ state[g][k] = "KNOWN" \/ (k \notin Named[g] /\ state[g][k] = "UNKNOWN")
      /\ busy[g] # Registering(k)
  BY DEF Fresh
<1>2. state'[g][k] = state[g][k]
  <2>0. g \in DOMAIN state /\ DOMAIN state[g] = Labels
    BY DEF TypeOK
  <2>1. CASE state' = state
    BY <2>1
  <2>2. CASE state' = [state EXCEPT ![f][l] = s]
    BY <2>0, <2>2
  <2> QED BY <2>1, <2>2
<1>3. busy'[g] = busy[g] \/ busy'[g] = c
  <2>1. CASE busy' = busy
    BY <2>1
  <2>2. CASE busy' = [busy EXCEPT ![f] = c]
    BY <2>2 DEF TypeOK
  <2> QED BY <2>1, <2>2
<1> QED BY <1>1, <1>2, <1>3

\* Achieving takes an object that is announced.
LEMMA AchieveFresh ==
  ASSUME TypeOK, NEW f \in Federates, NEW l \in Labels, NEW box,
         AchieveFrom(f, l, Marked(f, l), box)
  PROVE  /\ round' = round
         /\ state' = [state EXCEPT ![f][l] = Marked(f, l)]
         /\ busy' = busy \/ busy' = [busy EXCEPT ![f] = Achieving(l)]
BY DEF AchieveFrom, SetState

\* Every label is fresh at first, and no step changes the object of a label
\* that nobody has registered.
LEMMA FreshInit == Init => FreshInv
<1> SUFFICES ASSUME Init, NEW l \in Labels, NEW f \in Federates
             PROVE  /\ \/ state[f][l] = "KNOWN"
                       \/ l \notin Named[f] /\ state[f][l] = "UNKNOWN"
                    /\ busy[f] # Registering(l)
  BY DEF FreshInv, Fresh
<1>1. NoCall # Registering(l)
  BY CallsDiffer
<1> QED BY <1>1 DEF Init

LEMMA FreshStep == IndInv /\ FreshInv /\ [Next]_vars => FreshInv'
<1> SUFFICES ASSUME IndInv, FreshInv, [Next]_vars PROVE FreshInv'
  OBVIOUS
<1> USE IndInvParts
<1>0. /\ NoCall \in Calls /\ \A k \in Labels : NoCall # Registering(k)
      /\ \A k \in Labels : Achieving(k) \in Calls /\ Registering(k) \in Calls
      /\ \A j, k \in Labels : Achieving(j) # Registering(k)
      /\ \A j, k \in Labels : j # k => Registering(j) # Registering(k)
  BY CallsDiffer DEF Calls
<1>1. CASE UNCHANGED vars
  BY <1>1 DEF vars, FreshInv, Fresh
<1>2. ASSUME NEW f \in Federates, Join(f) \/ Leave(f)
      PROVE  FreshInv'
  <2>1. /\ UNCHANGED <<round, state>>
        /\ busy' = busy \/ busy' = [busy EXCEPT ![f] = NoCall]
    BY <1>2 DEF Join, Leave, rtiVars
  <2> QED BY <1>0, <2>1 DEF FreshInv, Fresh, TypeOK
<1>3. ASSUME NEW f \in Federates, NEW l \in Labels, Inform(f, l) \/ Drop(f, l)
      PROVE  FreshInv'
  <2>1. UNCHANGED <<round, state, busy>>
    BY <1>3 DEF Inform, Drop
  <2> QED BY <2>1 DEF FreshInv, Fresh
<1>4. ASSUME NEW f \in Federates, NEW l \in Labels, NEW set, NEW all,
             RegisterCall(f, l, set, all)
      PROVE  FreshInv'
  <2>1. /\ round' = [round EXCEPT ![l] = @ + 1]
        /\ state' = [state EXCEPT ![f][l] = Tracked(f, l)]
        /\ busy' = [busy EXCEPT ![f] = Registering(l)]
    BY <1>4 DEF RegisterCall, SetState
  <2>2. round'[l] # 0
    BY <2>1 DEF TypeOK
  <2>3. ASSUME NEW k \in Labels \ {l}, round'[k] = 0
        PROVE  Fresh(k)'
    <3>1. round[k] = 0
      BY <2>1, <2>3 DEF TypeOK
    <3> QED BY <1>0, <2>1, <3>1, FreshOthers DEF FreshInv
  <2> QED BY <2>2, <2>3 DEF FreshInv
\* The steps below are about a label that has been registered.
<1>5. ASSUME NEW f \in Federates, NEW l \in Labels, NEW s, NEW c \in Calls,
             round[l] # 0, round' = round, \A k \in Labels : c # Registering(k),
             state' = state \/ state' = [state EXCEPT ![f][l] = s],
             busy' = busy \/ busy' = [busy EXCEPT ![f] = c]
      PROVE  FreshInv'
  <2>1. ASSUME NEW k \in Labels, round'[k] = 0
        PROVE  Fresh(k)'
    <3>1. k \in Labels \ {l} /\ Fresh(k)
      BY <1>5, <2>1 DEF FreshInv
    <3> QED BY <1>5, <3>1, FreshOthers
  <2> QED BY <2>1 DEF FreshInv
<1>6. ASSUME NEW f \in Federates, NEW l \in Labels, RegisterReturn(f, l)
      PROVE  FreshInv'
  <2>1. /\ busy[f] = Registering(l) /\ round' = round
        /\ state' = [state EXCEPT ![f][l] = "REGISTERED"]
        /\ busy' = [busy EXCEPT ![f] = NoCall]
    BY <1>6 DEF RegisterReturn, SetState, rtiVars
  <2>2. round[l] # 0
    BY <2>1 DEF FreshInv, Fresh
  <2> QED BY <1>0, <1>5, <2>1, <2>2
<1>7. ASSUME NEW f \in Federates, NEW l \in Labels, AchieveReturn(f, l)
      PROVE  FreshInv'
  <2>1. /\ busy[f] = Achieving(l) /\ life[f] = "in" /\ round' = round
        /\ state' = [state EXCEPT ![f][l] = "ACHIEVED"]
        /\ busy' = [busy EXCEPT ![f] = NoCall]
    BY <1>7 DEF AchieveReturn, SetState, rtiVars
  <2>2. state[f][l] = "ANNOUNCED"
    BY <2>1 DEF PointInv, MemberInv
  <2>3. round[l] # 0
    BY <2>2 DEF FreshInv, Fresh
  <2> QED BY <1>0, <1>5, <2>1, <2>3
<1>8. ASSUME NEW f \in Federates, NEW l \in Labels, Achieve(f, l)
      PROVE  FreshInv'
  <2>1. state[f][l] = "ANNOUNCED" /\ AchieveFrom(f, l, Marked(f, l), inbox)
    BY <1>8 DEF Achieve, AchieveCall
  <2>2. round[l] # 0
    BY <2>1 DEF FreshInv, Fresh
  <2> QED BY <1>0, <1>5, <2>1, <2>2, AchieveFresh
<1>9. ASSUME NEW f \in Federates, NEW l \in Labels, Callback(f, l)
      PROVE  FreshInv'
  <2>1. PICK t \in {"registered", "announced", "synchronized"} : Arrives(f, t, l)
    BY <1>9 DEF Callback, OnRegistered, OnAnnounced, OnUnrecognized, OnSynchronized
  <2>2. t \in Callbacks
    BY DEF Callbacks
  <2>3. PointInv(f, l) /\ Pending(f, t, l) /\ busy[f] = NoCall
    BY <2>1, <2>2, TakenEffect
  <2>4. round[l] # 0
    <3>1. CASE t = "registered"
      <4>1. state[f][l] = "REGISTERED"
        BY <2>3, <3>1, <1>0 DEF PointInv, RegistrarInv
      <4> QED BY <4>1 DEF FreshInv, Fresh
    <3>2. CASE t = "announced"
      BY <2>3, <3>2 DEF PointInv, MemberInv, Awaited, RtiInv, Active
    <3>3. CASE t = "synchronized"
      <4>1. state[f][l] = "ACHIEVED"
        BY <2>3, <3>3, CallsDiffer DEF PointInv, MemberInv, Held
      <4> QED BY <4>1 DEF FreshInv, Fresh
    <3> QED BY <3>1, <3>2, <3>3
  <2>5. CASE OnUnrecognized(f, l)
    <3>1. AchieveFrom(f, l, Marked(f, l), Taken(f))
      BY <2>5 DEF OnUnrecognized
    <3> QED BY <1>0, <1>5, <2>4, <3>1, AchieveFresh
  <2>6. CASE ~OnUnrecognized(f, l)
    <3>1. PICK s : Mark(f, l, s)
      BY <1>9, <2>6 DEF Callback, OnRegistered, OnAnnounced, OnSynchronized
    <3>2. round' = round /\ busy' = busy /\ state' = [state EXCEPT ![f][l] = s]
      BY <3>1 DEF Mark, SetState, rtiVars
    <3> QED BY <1>0, <1>5, <2>4, <3>2
  <2> QED BY <2>5, <2>6
<1>10. ASSUME NEW f \in Federates, NEW l \in Labels, Track(f, l)
       PROVE  FreshInv'
  <2>1. /\ state[f][l] = "UNKNOWN" /\ state' = [state EXCEPT ![f][l] = "KNOWN"]
        /\ round' = round /\ busy' = busy
    BY <1>10 DEF Track, SetState, rtiVars
  <2>2. ASSUME NEW k \in Labels, round'[k] = 0
        PROVE  Fresh(k)'
    <3>1. Fresh(k)
      BY <2>1, <2>2 DEF FreshInv
    <3>2. CASE k = l
      BY <2>1, <3>1, <3>2 DEF Fresh, TypeOK
    <3>3. CASE k # l
      BY <1>0, <2>1, <3>1, <3>3, FreshOthers
    <3> QED BY <3>2, <3>3
  <2> QED BY <2>2 DEF FreshInv
<1> QED BY <1>1, <1>2, <1>3, <1>4, <1>6, <1>7, <1>8, <1>9, <1>10
        DEF Next, RegisterForAll, RegisterFor

-----------------------------------------------------------------------------
(* A label that is registered once: what has happened at its point stays.  *)

\* f has achieved l, and may have been let go since.
Arrived(f, l) == Held(f, l) \/ state[f][l] = "SYNCHRONIZED"

\* The federation waits, or has waited, for f at l.
Counted(f, l) == Awaited(f, l) \/ Arrived(f, l)

\* f has been told of l.
Seen(f, l) == state[f][l] \in {"ANNOUNCED", "ACHIEVED", "SYNCHRONIZED"}

\* The federation has been synchronized at l, or everybody has left.
Over(l) == round[l] = 1 /\ ~Active(l)

\* Who is told that l is synchronized is told so when it is over.
Once(f, l) ==
  round[l] <= 1 =>
    /\ state[f][l] = "SYNCHRONIZED" \/ Pending(f, "synchronized", l) => ~Active(l)
    /\ busy[f] = Registering(l) => state[f][l] # "SYNCHRONIZED"
OnceInv == \A f \in Federates, l \in Labels : life[f] = "in" => Once(f, l)

\* What a step keeps of one federate and one point, and how f arrives there.
Keeps(f, l) ==
  /\ state[f][l] = "SYNCHRONIZED" => state'[f][l] = "SYNCHRONIZED"
  /\ Seen(f, l) => Seen(f, l)'
  /\ Arrived(f, l) => Arrived(f, l)'
  /\ Counted(f, l) => Counted(f, l)'
  /\ Arrived(f, l)' /\ ~Arrived(f, l) => busy'[f] = Achieving(l) /\ busy[f] = NoCall
  /\ Once(f, l)'

\* A step that touches neither of them, but that the point may be forgotten.
LEMMA KeepsFrame ==
  ASSUME NEW g \in Federates, NEW k \in Labels, Once(g, k),
         Pending(g, "synchronized", k)' <=> Pending(g, "synchronized", k),
         state'[g][k] = state[g][k],
         busy'[g] = Achieving(k) <=> busy[g] = Achieving(k),
         busy'[g] = Registering(k) => busy[g] = Registering(k),
         g \in members'[k] <=> g \in members[k],
         g \in achieved'[k] <=> g \in achieved[k],
         round'[k] = round[k],
         Active(k)' => Active(k)
  PROVE  Keeps(g, k)
BY DEF Keeps, Once, Seen, Arrived, Counted, Held, Awaited

\* An object or a call of one federate and one point changes.
LEMMA KeepsElsewhere ==
  ASSUME TypeOK, NEW f \in Federates, NEW l \in Labels, NEW g \in Federates, NEW k \in Labels,
         g # f \/ k # l, Once(g, k), NEW s, NEW c \in {NoCall, Registering(l), Achieving(l)},
         busy[f] \in {NoCall, Registering(l), Achieving(l)},
         state' = state \/ state' = [state EXCEPT ![f][l] = s],
         busy' = busy \/ busy' = [busy EXCEPT ![f] = c],
         Pending(g, "synchronized", k)' <=> Pending(g, "synchronized", k),
         g \in members'[k] <=> g \in members[k],
         g \in achieved'[k] <=> g \in achieved[k],
         round'[k] = round[k],
         Active(k)' => Active(k)
  PROVE  Keeps(g, k)
<1>1. state'[g][k] = state[g][k]
  <2>0. g \in DOMAIN state /\ DOMAIN state[g] = Labels
    BY DEF TypeOK
  <2>1. CASE state' = state
    BY <2>1
  <2>2. CASE state' = [state EXCEPT ![f][l] = s]
    BY <2>0, <2>2
  <2> QED BY <2>1, <2>2
<1>2. CASE g # f
  <2>1. busy'[g] = busy[g]
    <3>1. CASE busy' = busy
      BY <3>1
    <3>2. CASE busy' = [busy EXCEPT ![f] = c]
      BY <1>2, <3>2 DEF TypeOK
    <3> QED BY <3>1, <3>2
  <2> QED BY <1>1, <2>1, KeepsFrame
<1>3. CASE g = f /\ k # l
  <2>1. busy'[g] \in {busy[f], c}
    <3>1. CASE busy' = busy
      BY <1>3, <3>1
    <3>2. CASE busy' = [busy EXCEPT ![f] = c]
      BY <1>3, <3>2 DEF TypeOK
    <3> QED BY <3>1, <3>2
  <2>2. /\ busy'[g] # Achieving(k) /\ busy'[g] # Registering(k)
        /\ busy[g] # Achieving(k) /\ busy[g] # Registering(k)
    BY <1>3, <2>1, CallsDiffer
  <2> QED BY <1>1, <2>2, KeepsFrame
<1> QED BY <1>2, <1>3

LEMMA MovesKeep ==
  ASSUME IndInv, NEW f \in Federates, NEW l \in Labels, Join(f) \/ Leave(f) \/ Inform(f, l),
         NEW g \in Federates, NEW k \in Labels, Once(g, k), life[g] = "in", life'[g] = "in"
  PROVE  Keeps(g, k)
<1>0. TypeOK
  BY DEF IndInv
<1>1. CASE Join(f)
  BY <1>1, KeepsFrame DEF Join, rtiVars, Pending, Active
<1>2. CASE Leave(f)
  <2>1. g # f
    BY <1>0, <1>2 DEF Leave, TypeOK
  <2> QED BY <1>0, <1>2, <2>1, KeepsFrame DEF Leave, rtiVars, Pending, Active, TypeOK
<1>3. CASE Inform(f, l)
  <2>1. /\ Active(l) /\ f \notin members[l]
        /\ inbox' = [inbox EXCEPT ![f] = Append(@, Msg("announced", l))]
        /\ members' = [members EXCEPT ![l] = @ \cup {f}]
        /\ UNCHANGED <<life, round, open, achieved, state, busy>>
    BY <1>3 DEF Inform
  <2>2. Pending(g, "synchronized", k)' <=> Pending(g, "synchronized", k)
    <3>1. CASE g # f
      BY <1>0, <2>1, <3>1 DEF TypeOK, Pending
    <3>2. CASE g = f
      <4>1. /\ inbox'[f] = Append(inbox[f], Msg("announced", l)) /\ inbox[f] \in Seq(Messages)
            /\ "announced" \in Callbacks /\ "synchronized" \in Callbacks
            /\ Msg("announced", l) \in Messages
        BY <1>0, <2>1, MsgsDiffer DEF TypeOK, Callbacks
      <4> QED BY <3>2, <4>1, InAppend, MsgsDiffer DEF Pending
    <3> QED BY <3>1, <3>2
  <2>3. CASE g # f \/ k # l
    <3>1. (g \in members'[k] <=> g \in members[k]) /\ (Active(k)' => Active(k))
      BY <1>0, <2>1, <2>3 DEF TypeOK, Active
    <3> QED BY <2>1, <2>2, <3>1, KeepsFrame
  <2>4. CASE g = f /\ k = l
    BY <2>1, <2>2, <2>4 DEF Keeps, Once, Seen, Arrived, Counted, Held, Awaited
  <2> QED BY <2>3, <2>4
<1> QED BY <1>1, <1>2, <1>3

\* The RTI settles a point that f achieves or has left: whoever it synchronizes
\* had achieved it.
LEMMA SettleKeeps ==
  ASSUME IndInv, NEW f \in Federates, NEW l \in Labels,
         NEW ms \in SUBSET Federates, NEW done \in SUBSET ms,
         NEW box \in [Federates -> Seq(Messages)], Settle(l, ms, done, box),
         ms \ {f} = members[l] \ {f}, done \ {f} = achieved[l] \ {f},
         Active(l), round' = round,
         NEW g \in Federates, NEW k \in Labels, Once(g, k), life[g] = "in",
         InQueue(box[g], "synchronized", k) <=> Pending(g, "synchronized", k),
         g # f \/ k # l,
         state'[g][k] = state[g][k],
         busy'[g] = Achieving(k) <=> busy[g] = Achieving(k),
         busy'[g] = Registering(k) => busy[g] = Registering(k)
  PROVE  Keeps(g, k)
<1>1. TypeOK /\ PointInv(g, k) /\ "synchronized" \in Callbacks
  BY IndInvParts DEF Callbacks
<1>2. /\ k # l => members'[k] = members[k] /\ achieved'[k] = achieved[k]
      /\ Complete(done, ms) => members'[l] = {} /\ achieved'[l] = {}
      /\ ~Complete(done, ms) => members'[l] = ms /\ achieved'[l] = done
  BY <1>1, SettlePoint
<1>3. Pending(g, "synchronized", k)' <=>
        \/ Pending(g, "synchronized", k)
        \/ Complete(done, ms) /\ g \in ms /\ g \in In /\ k = l
  <2>1. InQueue(inbox'[g], "synchronized", k) <=>
          \/ InQueue(box[g], "synchronized", k)
          \/ Complete(done, ms) /\ g \in ms /\ g \in In /\ "synchronized" = "synchronized" /\ k = l
    BY <1>1, SettleTells
  <2> QED BY <2>1 DEF Pending
<1>4. CASE k # l \/ ~Complete(done, ms)
  <2>1. /\ g \in members'[k] <=> g \in members[k]
        /\ g \in achieved'[k] <=> g \in achieved[k]
        /\ Active(k)' => Active(k)
    BY <1>2, <1>4 DEF Active
  <2> QED BY <1>3, <1>4, <2>1, KeepsFrame
<1>5. CASE k = l /\ Complete(done, ms)
  <2>1. members'[k] = {} /\ ~Active(k)' /\ ~Awaited(g, k)
    BY <1>2, <1>5 DEF Active, Awaited, Complete
  <2> QED BY <2>1 DEF Keeps, Once, Seen, Arrived, Counted, Held, Awaited
<1> QED BY <1>4, <1>5

LEMMA DropKeeps ==
  ASSUME IndInv, NEW f \in Federates, NEW l \in Labels, Drop(f, l),
         NEW g \in Federates, NEW k \in Labels, Once(g, k), life[g] = "in"
  PROVE  Keeps(g, k)
<1> DEFINE ms == members[l] \ {f}
           done == achieved[l] \ {f}
<1>1. /\ life[f] = "gone" /\ f \in members[l] /\ Active(l)
      /\ Settle(l, ms, done, inbox)
      /\ UNCHANGED <<life, round, open, state, busy>>
  BY DEF Drop, Active
<1>2. inbox \in [Federates -> Seq(Messages)]
      /\ ms \in SUBSET Federates /\ done \in SUBSET ms
  BY IndInvParts DEF TypeOK, RtiInv
<1>3. g # f /\ ms \ {f} = members[l] \ {f} /\ done \ {f} = achieved[l] \ {f}
  BY <1>1
<1> HIDE DEF ms, done
<1> QED BY <1>1, <1>2, <1>3, SettleKeeps DEF Pending

\* A label is registered by its registrar, at no member of which it is active.
LEMMA RegisterKeeps ==
  ASSUME IndInv, FreshInv, NEW f \in Federates, NEW l \in Labels, NEW set \in SUBSET In,
         NEW all, MayRegister(f, l), RegisterCall(f, l, set, all),
         NEW g \in Federates, NEW k \in Labels, Once(g, k), life[g] = "in", round'[k] <= 1
  PROVE  Keeps(g, k)
<1>1. TypeOK /\ PointInv(g, k) /\ PointInv(f, l) /\ RtiInv /\ "synchronized" \in Callbacks
      /\ life[f] = "in" /\ busy[f] = NoCall
  BY IndInvParts DEF RegisterCall, Free, Callbacks
<1>2. ~Active(l)
  BY <1>1, CallsDiffer, ConstantsAssumption
     DEF MayRegister, PointInv, MemberInv, RegistrarInv, Awaited, Held
<1>3. /\ state' = state
      /\ busy' = [busy EXCEPT ![f] = Registering(l)]
      /\ round' = [round EXCEPT ![l] = @ + 1]
      /\ members' = [members EXCEPT ![l] = set]
      /\ inbox' = [h \in Federates |->
           LET told == IF h = f THEN Append(inbox[h], Msg("registered", l))
                                ELSE inbox[h]
           IN  IF h \in set THEN Append(told, Msg("announced", l)) ELSE told]
      /\ achieved' = achieved
  BY <1>1, <1>2 DEF MayRegister, RegisterCall, SetState, Tracked, TypeOK
<1>4. Pending(g, "synchronized", k)' <=> Pending(g, "synchronized", k)
  <2> DEFINE told == IF g = f THEN Append(inbox[g], Msg("registered", l)) ELSE inbox[g]
  <2>1. /\ inbox[g] \in Seq(Messages)
        /\ "announced" \in Callbacks /\ "registered" \in Callbacks
        /\ Msg("announced", l) \in Messages /\ Msg("registered", l) \in Messages
        /\ Msg("announced", l) # Msg("synchronized", k)
        /\ Msg("registered", l) # Msg("synchronized", k)
    BY <1>1, MsgsDiffer DEF TypeOK, Callbacks
  <2>2. /\ told \in Seq(Messages)
        /\ InQueue(told, "synchronized", k) <=> InQueue(inbox[g], "synchronized", k)
    BY <2>1, InAppend
  <2>3. inbox'[g] = IF g \in set THEN Append(told, Msg("announced", l)) ELSE told
    BY <1>3
  <2> HIDE DEF told
  <2>4. InQueue(Append(told, Msg("announced", l)), "synchronized", k)
          <=> InQueue(told, "synchronized", k)
    BY <2>1, <2>2, InAppend
  <2> QED BY <2>2, <2>3, <2>4 DEF Pending
<1>5. CASE k # l
  <2>1. members'[k] = members[k] /\ round'[k] = round[k]
    BY <1>1, <1>3, <1>5 DEF TypeOK
  <2>2. /\ busy'[g] = Registering(k) => busy[g] = Registering(k)
        /\ busy'[g] = Achieving(k) <=> busy[g] = Achieving(k)
    BY <1>1, <1>3, <1>5, CallsDiffer DEF TypeOK
  <2> QED BY <1>3, <1>4, <2>1, <2>2, KeepsFrame DEF Active
<1>6. CASE k = l
  <2>1. round[l] = 0 /\ Fresh(l)
    BY <1>1, <1>3, <1>6 DEF TypeOK, FreshInv
  <2>2. state[g][l] # "SYNCHRONIZED" /\ ~Seen(g, l) /\ ~Awaited(g, l)
    BY <1>2, <2>1 DEF Fresh, Seen, Awaited, Active
  <2>3. busy[g] # Achieving(l) /\ ~Held(g, l) /\ ~Pending(g, "synchronized", l)
    BY <1>1, <1>6, <2>1 DEF Fresh, PointInv, MemberInv, Held
  <2>4. busy'[g] # Achieving(l)
    BY <1>1, <1>3, <2>3, CallsDiffer DEF TypeOK
  <2>5. ~Arrived(g, l) /\ ~Arrived(g, l)'
    BY <1>3, <2>1, <2>2, <2>3, <2>4 DEF Held, Arrived, Fresh
  <2> QED BY <1>3, <1>4, <1>6, <2>2, <2>3, <2>5 DEF Keeps, Once, Arrived, Counted
<1> QED BY <1>5, <1>6

LEMMA ReturnKeeps ==
  ASSUME IndInv, NEW f \in Federates, NEW l \in Labels,
         RegisterReturn(f, l) \/ AchieveReturn(f, l),
         NEW g \in Federates, NEW k \in Labels, Once(g, k), life[g] = "in", round'[k] <= 1
  PROVE  Keeps(g, k)
<1>1. /\ TypeOK /\ PointInv(g, k) /\ PointInv(f, l) /\ life[f] = "in"
      /\ busy[f] \in {Registering(l), Achieving(l)}
      /\ \E s : state' = [state EXCEPT ![f][l] = s]
      /\ busy' = [busy EXCEPT ![f] = NoCall]
      /\ UNCHANGED <<life, rtiVars, inbox>>
  BY IndInvParts DEF RegisterReturn, AchieveReturn, SetState
<1>2. CASE g # f \/ k # l
  BY <1>1, <1>2, KeepsElsewhere DEF rtiVars, Pending, Active
<1>3. CASE g = f /\ k = l /\ RegisterReturn(f, l)
  <2>1. state[f][l] \in {"KNOWN", "SYNCHRONIZED"} /\ state'[f][l] = "REGISTERED"
        /\ busy[f] = Registering(l) /\ busy'[f] = NoCall
    BY <1>1, <1>3 DEF RegisterReturn, SetState, PointInv, RegistrarInv, TypeOK
  <2> QED BY <1>1, <1>3, <2>1, CallsDiffer
          DEF Keeps, Once, Seen, Arrived, Counted, Held, Awaited, rtiVars, Pending, Active
<1>4. CASE g = f /\ k = l /\ AchieveReturn(f, l)
  <2>1. state[f][l] = "ANNOUNCED" /\ state'[f][l] = "ACHIEVED"
        /\ busy[f] = Achieving(l) /\ busy'[f] = NoCall
    BY <1>1, <1>4 DEF AchieveReturn, SetState, PointInv, MemberInv, TypeOK
  <2> QED BY <1>1, <1>4, <2>1, CallsDiffer
          DEF Keeps, Once, Seen, Arrived, Counted, Held, Awaited, rtiVars, Pending, Active
<1> QED BY <1>1, <1>2, <1>3, <1>4

\* A label that is put into the Unknown list has not been seen.
LEMMA TrackKeeps ==
  ASSUME IndInv, NEW f \in Federates, NEW l \in Labels, Track(f, l),
         NEW g \in Federates, NEW k \in Labels, Once(g, k), life[g] = "in"
  PROVE  Keeps(g, k)
<1>1. /\ TypeOK /\ busy[f] = NoCall /\ state[f][l] = "UNKNOWN"
      /\ state' = [state EXCEPT ![f][l] = "KNOWN"]
      /\ UNCHANGED <<life, rtiVars, inbox, busy>>
  BY IndInvParts DEF Track, Free, SetState
<1>2. CASE g # f \/ k # l
  BY <1>1, <1>2, KeepsElsewhere DEF rtiVars, Pending, Active
<1>3. CASE g = f /\ k = l
  <2>1. state'[f][l] = "KNOWN"
    BY <1>1 DEF TypeOK
  <2> QED BY <1>1, <1>3, <2>1, CallsDiffer
          DEF Keeps, Once, Seen, Arrived, Counted, Held, Awaited, rtiVars, Pending, Active
<1> QED BY <1>2, <1>3

\* An announced point is achieved, by the program or by the callback.
LEMMA AchieveKeeps ==
  ASSUME IndInv, NEW f \in Federates, NEW l \in Labels, Free(f),
         NEW box \in [Federates -> Seq(Messages)], AchieveFrom(f, l, "ANNOUNCED", box),
         \A h \in Federates, k \in Labels :
           InQueue(box[h], "synchronized", k) <=> Pending(h, "synchronized", k),
         Awaited(f, l), ~InQueue(box[f], "announced", l),
         state[f][l] # "SYNCHRONIZED", state[f][l] # "ACHIEVED",
         NEW g \in Federates, NEW k \in Labels, Once(g, k), life[g] = "in"
  PROVE  Keeps(g, k)
<1> DEFINE ms == members[l]
           done == achieved[l] \cup {f}
<1>1. /\ TypeOK /\ RtiInv /\ PointInv(f, l) /\ life[f] = "in" /\ busy[f] = NoCall
      /\ Active(l) /\ ms \in SUBSET Federates /\ done \in SUBSET ms
      /\ ms \ {f} = members[l] \ {f} /\ done \ {f} = achieved[l] \ {f}
  BY IndInvParts DEF Free, Awaited, Active, TypeOK, RtiInv
<1>2. /\ state' = [state EXCEPT ![f][l] = "ANNOUNCED"]
      /\ Settle(l, ms, done, box)
      /\ busy' = [busy EXCEPT ![f] = Achieving(l)]
      /\ life' = life /\ round' = round
  BY DEF AchieveFrom, SetState, Accepts, Awaited
<1>3. f \in done
  OBVIOUS
<1> HIDE DEF ms, done
<1>4. /\ state'[f][l] = "ANNOUNCED" /\ busy'[f] = Achieving(l)
      /\ (g # f \/ k # l) => state'[g][k] = state[g][k]
      /\ g # f => busy'[g] = busy[g]
  BY <1>1, <1>2 DEF TypeOK
<1>5. CASE g # f \/ k # l
  <2>1. /\ busy'[g] = Achieving(k) <=> busy[g] = Achieving(k)
        /\ busy'[g] = Registering(k) => busy[g] = Registering(k)
    BY <1>1, <1>4, <1>5, CallsDiffer
  <2> QED BY <1>1, <1>2, <1>4, <1>5, <2>1, SettleKeeps
<1>6. CASE g = f /\ k = l
  <2>1. Arrived(f, l)' /\ Counted(f, l)' /\ Seen(f, l)'
    BY <1>4 DEF Arrived, Counted, Held, Seen
  <2>2. /\ Complete(done, ms) => members'[l] = {}
        /\ ~Complete(done, ms) => members'[l] = ms
    BY <1>1, <1>2, SettlePoint
  <2>3. Pending(f, "synchronized", l)' <=>
          Pending(f, "synchronized", l) \/ Complete(done, ms)
    <3>1. "synchronized" \in Callbacks /\ f \in ms /\ f \in In
      BY <1>1, <1>3 DEF Callbacks, In
    <3>2. InQueue(inbox'[f], "synchronized", l) <=>
            \/ InQueue(box[f], "synchronized", l)
            \/ /\ Complete(done, ms) /\ f \in ms /\ f \in In
               /\ "synchronized" = "synchronized" /\ l = l
      BY <1>1, <1>2, <3>1, SettleTells
    <3> QED BY <3>1, <3>2 DEF Pending
  <2>4. Once(f, l)'
    BY <1>1, <1>2, <1>4, <1>6, <2>2, <2>3, CallsDiffer DEF Once, Active
  <2> QED BY <1>1, <1>4, <1>6, <2>1, <2>4 DEF Keeps
<1> QED BY <1>5, <1>6

LEMMA AchievesKeep ==
  ASSUME IndInv, NEW f \in Federates, NEW l \in Labels, Achieve(f, l) \/ OnUnrecognized(f, l),
         NEW g \in Federates, NEW k \in Labels, Once(g, k), life[g] = "in"
  PROVE  Keeps(g, k)
<1>0. "synchronized" \in Callbacks /\ "announced" \in Callbacks
  BY DEF Callbacks
<1>1. CASE Achieve(f, l)
  <2>1. /\ state[f][l] = "ANNOUNCED" /\ Free(f) /\ life[f] = "in" /\ busy[f] = NoCall
        /\ AchieveFrom(f, l, "ANNOUNCED", inbox)
    BY <1>1 DEF Achieve, AchieveCall, Marked, Free
  <2>2. PointInv(f, l) /\ inbox \in [Federates -> Seq(Messages)]
    BY <2>1, IndInvParts DEF TypeOK
  <2>3. Awaited(f, l) /\ ~InQueue(inbox[f], "announced", l)
    BY <2>1, <2>2, CallsDiffer DEF PointInv, MemberInv, Pending
  <2> QED BY <2>1, <2>2, <2>3, AchieveKeeps DEF Pending
<1>2. CASE OnUnrecognized(f, l)
  <2>1. Arrives(f, "announced", l) /\ Awaited(f, l)
    BY <1>2, UnrecognizedCases
  <2>2. Free(f) /\ Taken(f) \in [Federates -> Seq(Messages)]
    BY <1>0, <2>1, TakenEffect DEF Arrives
  <2>3. ~InQueue(Taken(f)[f], "announced", l)
    <3>1. InQueue(Taken(f)[f], "announced", l) => <<"announced", "announced">> \in Follows
      BY <1>0, <2>1, TakenEffect
    <3> QED BY <3>1 DEF Follows
  <2>4. ASSUME NEW h \in Federates, NEW j \in Labels
        PROVE  InQueue(Taken(f)[h], "synchronized", j) <=> Pending(h, "synchronized", j)
    <3>1. CASE h # f
      <4>1. Taken(f)[h] = inbox[h]
        BY <1>0, <2>1, <3>1, TakenEffect
      <4> QED BY <4>1 DEF Pending
    <3>2. CASE h = f /\ j # l
      BY <1>0, <2>1, <3>2, TakenEffect
    <3>3. CASE h = f /\ j = l
      <4>1. /\ InQueue(Taken(f)[f], "synchronized", l) => Pending(f, "synchronized", l)
            /\ Pending(f, "synchronized", l) => InQueue(Taken(f)[f], "synchronized", l)
        BY <1>0, <2>1, TakenEffect
      <4> QED BY <3>3, <4>1
    <3> QED BY <3>1, <3>2, <3>3
  <2>5. CASE state[f][l] = "UNKNOWN" /\ AchieveFrom(f, l, "ANNOUNCED", Taken(f))
    BY <2>1, <2>2, <2>3, <2>4, <2>5, AchieveKeeps
  <2>6. CASE Mark(f, l, state[f][l]) /\ state' = state
    <3>1. inbox' = Taken(f) /\ UNCHANGED <<life, rtiVars, busy>>
      BY <2>6 DEF Mark
    <3>2. Pending(g, "synchronized", k)' <=> Pending(g, "synchronized", k)
      BY <2>4, <3>1 DEF Pending
    <3> QED BY <2>6, <3>1, <3>2, KeepsFrame DEF rtiVars, Active
  <2> QED BY <1>2, <2>5, <2>6, UnrecognizedCases
<1> QED BY <1>1, <1>2

\* A callback assigns the state of an object.
LEMMA MarksKeep ==
  ASSUME IndInv, NEW f \in Federates, NEW l \in Labels,
         OnRegistered(f, l) \/ OnAnnounced(f, l) \/ OnSynchronized(f, l),
         NEW g \in Federates, NEW k \in Labels, Once(g, k), life[g] = "in", round'[k] <= 1
  PROVE  Keeps(g, k)
<1>1. PICK u \in {"registered", "announced", "synchronized"} :
        /\ Arrives(f, u, l)
        /\ Mark(f, l, IF u = "registered" THEN "REGISTERED"
                      ELSE IF u = "announced" THEN "ANNOUNCED" ELSE "SYNCHRONIZED")
  BY DEF OnRegistered, OnAnnounced, OnSynchronized
<1> DEFINE s == IF u = "registered" THEN "REGISTERED"
                ELSE IF u = "announced" THEN "ANNOUNCED" ELSE "SYNCHRONIZED"
<1>2. u \in Callbacks /\ "synchronized" \in Callbacks /\ s \in States
  BY DEF Callbacks, States
<1>3. /\ Mark(f, l, s) /\ TypeOK /\ PointInv(g, k) /\ PointInv(f, l) /\ RtiInv
      /\ state' = [state EXCEPT ![f][l] = s] /\ inbox' = Taken(f)
      /\ UNCHANGED <<life, rtiVars, busy>>
      /\ busy[f] = NoCall /\ Pending(f, u, l)
  BY <1>1, <1>2, TakenEffect, IndInvParts DEF Mark, SetState
<1>4. ASSUME g # f \/ k # l
      PROVE  Pending(g, "synchronized", k)' <=> Pending(g, "synchronized", k)
  <2>1. CASE g # f
    <3>1. Taken(f)[g] = inbox[g]
      BY <1>1, <1>2, <2>1, TakenEffect
    <3> QED BY <1>3, <3>1 DEF Pending
  <2>2. CASE g = f /\ k # l
    <3>1. InQueue(Taken(f)[f], "synchronized", k) <=> Pending(f, "synchronized", k)
      BY <1>1, <1>2, <2>2, TakenEffect
    <3> QED BY <1>3, <2>2, <3>1 DEF Pending
  <2> QED BY <1>4, <2>1, <2>2
<1>5. CASE g # f \/ k # l
  BY <1>3, <1>4, <1>5, KeepsElsewhere DEF rtiVars, Active
<1>6. CASE g = f /\ k = l
  <2>1. state'[f][l] = s /\ busy'[f] = NoCall
    BY <1>3 DEF TypeOK
  <2>2. Pending(f, "synchronized", l)' => Pending(f, "synchronized", l)
    <3>1. InQueue(Taken(f)[f], "synchronized", l) => Pending(f, "synchronized", l)
      BY <1>1, <1>2, TakenEffect
    <3> QED BY <1>3, <3>1 DEF Pending
  <2>3. round[l] <= 1
    BY <1>3, <1>6 DEF rtiVars
  <2>4. CASE u = "registered"
    <3>1. state[f][l] = "REGISTERED"
      BY <1>3, <2>4, CallsDiffer DEF PointInv, RegistrarInv
    <3> QED BY <1>3, <1>6, <2>1, <2>2, <2>4, <3>1, CallsDiffer
            DEF Keeps, Once, Seen, Arrived, Counted, Held, Awaited, rtiVars, Active
  <2>5. CASE u = "announced"
    <3>1. Awaited(f, l) /\ Active(l)
      BY <1>3, <2>5 DEF PointInv, MemberInv, Awaited, Active
    <3>2. ~Arrived(f, l) /\ ~Pending(f, "synchronized", l)
      BY <1>3, <1>6, <2>3, <3>1 DEF Once, Arrived, PointInv, MemberInv, Awaited
    <3> QED BY <1>3, <1>6, <2>1, <2>2, <2>5, <3>1, <3>2, CallsDiffer
            DEF Keeps, Once, Seen, Arrived, Counted, Held, Awaited, rtiVars, Active
  <2>6. CASE u = "synchronized"
    <3>1. state[f][l] = "ACHIEVED" /\ ~Active(l)
      BY <1>3, <1>6, <2>3, <2>6, CallsDiffer DEF Once, PointInv, MemberInv, Held
    <3> QED BY <1>3, <1>6, <2>1, <2>2, <2>6, <3>1, CallsDiffer
            DEF Keeps, Once, Seen, Arrived, Counted, Held, Awaited, rtiVars, Active
  <2> QED BY <2>4, <2>5, <2>6
<1> QED BY <1>5, <1>6

\* So every step keeps what has happened at a label registered once, and
LEMMA StepKeeps ==
  ASSUME IndInv, FreshInv, [Next]_vars,
         NEW g \in Federates, NEW k \in Labels, Once(g, k),
         life[g] = "in", life'[g] = "in", round'[k] <= 1
  PROVE  Keeps(g, k)
<1>1. CASE UNCHANGED vars
  BY <1>1 DEF vars, Keeps, Once, Seen, Arrived, Counted, Held, Awaited, Pending, Active
<1>2. ASSUME NEW f \in Federates, Join(f) \/ Leave(f)
      PROVE  Keeps(g, k)
  BY <1>2, MovesKeep
<1>3. ASSUME NEW f \in Federates, NEW l \in Labels, Inform(f, l) \/ Drop(f, l)
      PROVE  Keeps(g, k)
  BY <1>3, MovesKeep, DropKeeps
<1>4. ASSUME NEW f \in Federates, NEW l \in Labels, RegisterForAll(f, l)
      PROVE  Keeps(g, k)
  BY <1>4, RegisterKeeps DEF RegisterForAll
<1>5. ASSUME NEW f \in Federates, NEW l \in Labels, NEW set \in SUBSET In,
             RegisterFor(f, l, set)
      PROVE  Keeps(g, k)
  BY <1>5, RegisterKeeps DEF RegisterFor
<1>6. ASSUME NEW f \in Federates, NEW l \in Labels,
             \/ RegisterReturn(f, l) \/ AchieveReturn(f, l)
             \/ Track(f, l) \/ Achieve(f, l)
      PROVE  Keeps(g, k)
  BY <1>6, ReturnKeeps, TrackKeeps, AchievesKeep
<1>7. ASSUME NEW f \in Federates, NEW l \in Labels, Callback(f, l)
      PROVE  Keeps(g, k)
  BY <1>7, AchievesKeep, MarksKeep DEF Callback
<1> QED BY <1>1, <1>2, <1>3, <1>4, <1>5, <1>6, <1>7 DEF Next

\* a point that is over stays so.
LEMMA StaysOver ==
  ASSUME IndInv, [Next]_vars, NEW k \in Labels, Over(k), round'[k] <= 1
  PROVE  Over(k)'
<1>1. TypeOK /\ RtiInv /\ members[k] = {} /\ round[k] = 1
  BY IndInvParts DEF Over, Active
<1> SUFFICES members'[k] = {} /\ round'[k] = 1
  BY DEF Over, Active
<1>2. CASE UNCHANGED vars
  BY <1>1, <1>2 DEF vars
<1>3. ASSUME NEW f \in Federates, Join(f) \/ Leave(f)
      PROVE  members'[k] = {} /\ round'[k] = 1
  BY <1>1, <1>3 DEF Join, Leave, rtiVars
<1>4. ASSUME NEW f \in Federates, NEW l \in Labels, Inform(f, l)
      PROVE  members'[k] = {} /\ round'[k] = 1
  BY <1>1, <1>4 DEF Inform, Active, TypeOK
<1>5. ASSUME NEW f \in Federates, NEW l \in Labels, NEW ms, NEW done, NEW box,
             Settle(l, ms, done, box), members[l] # {}, round' = round
      PROVE  members'[k] = {} /\ round'[k] = 1
  BY <1>1, <1>5 DEF Settle, TypeOK
<1>6. ASSUME NEW f \in Federates, NEW l \in Labels, Drop(f, l)
      PROVE  members'[k] = {} /\ round'[k] = 1
  BY <1>5, <1>6 DEF Drop
<1>7. ASSUME NEW f \in Federates, NEW l \in Labels, NEW set, NEW all,
             RegisterCall(f, l, set, all)
      PROVE  members'[k] = {} /\ round'[k] = 1
  <2>1. k # l
    BY <1>1, <1>7 DEF RegisterCall, TypeOK
  <2> QED BY <1>1, <1>7, <2>1 DEF RegisterCall, TypeOK
<1>8. ASSUME NEW f \in Federates, NEW l \in Labels, NEW s, NEW box, AchieveFrom(f, l, s, box)
      PROVE  members'[k] = {} /\ round'[k] = 1
  BY <1>1, <1>5, <1>8 DEF AchieveFrom, Accepts
<1>9. ASSUME NEW f \in Federates, NEW l \in Labels,
             \/ RegisterReturn(f, l) \/ AchieveReturn(f, l) \/ Track(f, l)
             \/ Achieve(f, l) \/ Callback(f, l)
      PROVE  members'[k] = {} /\ round'[k] = 1
  <2>1. CASE UNCHANGED rtiVars
    BY <1>1, <2>1 DEF rtiVars
  <2>2. CASE ~UNCHANGED rtiVars
    BY <1>8, <1>9, <2>2
       DEF RegisterReturn, AchieveReturn, Track, Achieve, AchieveCall, Callback, OnRegistered,
           OnAnnounced, OnSynchronized, OnUnrecognized, Mark
  <2> QED BY <2>1, <2>2
<1> QED BY <1>2, <1>3, <1>4, <1>6, <1>7, <1>9 DEF Next, RegisterForAll, RegisterFor

LEMMA OnceInit == Init => OnceInv
BY DEF Init, OnceInv

LEMMA OnceStep ==
  ASSUME IndInv, FreshInv, OnceInv, [Next]_vars
  PROVE  OnceInv'
<1> SUFFICES ASSUME NEW g \in Federates, NEW k \in Labels, life'[g] = "in"
             PROVE  Once(g, k)'
  BY DEF OnceInv
<1>0. round'[k] \in Nat
  <2>1. IndInv'
    BY StepInv
  <2> QED BY <2>1 DEF IndInv, TypeOK
<1>1. CASE round'[k] > 1
  BY <1>0, <1>1 DEF Once
<1>2. CASE life[g] = "in" /\ round'[k] <= 1
  <2>1. Once(g, k)
    BY <1>2 DEF OnceInv
  <2> QED BY <1>2, <2>1, StepKeeps DEF Keeps
<1>3. CASE life[g] # "in" /\ round'[k] <= 1
  <2>1. Join(g)
    <3>1. TypeOK
      BY DEF IndInv
    <3>2. ASSUME NEW f \in Federates, Join(f) \/ Leave(f)
          PROVE  f = g /\ Join(g)
      BY <1>3, <3>1, <3>2 DEF Join, Leave, TypeOK
    <3>3. life' # life
      BY <1>3
    <3>4. ~UNCHANGED vars
      BY <3>3 DEF vars
    <3>5. ASSUME NEW f \in Federates, NEW l \in Labels,
                 \/ Inform(f, l) \/ Drop(f, l) \/ RegisterForAll(f, l)
                 \/ \E set \in SUBSET In : RegisterFor(f, l, set)
                 \/ RegisterReturn(f, l) \/ Achieve(f, l) \/ AchieveReturn(f, l)
                 \/ Track(f, l) \/ Callback(f, l)
          PROVE  life' = life
      BY <3>5 DEF Inform, Drop, RegisterForAll, RegisterFor, RegisterCall, RegisterReturn,
           AchieveReturn, Track, Achieve, AchieveCall, AchieveFrom, Callback, OnRegistered,
           OnAnnounced, OnSynchronized, OnUnrecognized, Mark
    <3> QED BY <3>2, <3>3, <3>4, <3>5 DEF Next
  <2>2. /\ life[g] = "out" /\ UNCHANGED <<rtiVars, inbox, state, busy>>
        /\ inbox[g] = <<>> /\ busy[g] = NoCall
        /\ state[g][k] = IF k \in Named[g] THEN "KNOWN" ELSE "UNKNOWN"
    BY <2>1, IndInvParts DEF Join, LifeInv
  <2>3. ~Pending(g, "synchronized", k)' /\ busy'[g] # Registering(k)
    BY <2>2, CallsDiffer DEF Pending, InQueue
  <2> QED BY <2>2, <2>3 DEF Once
<1> QED BY <1>0, <1>1, <1>2, <1>3

-----------------------------------------------------------------------------
(* Who is expected at a point, and who is told that it is synchronized.    *)

\* What a step does to the members of a point that it does not register:
\* it adds who is informed, drops who has left, or forgets the point.
LEMMA MembersMove ==
  ASSUME IndInv, [Next]_vars, NEW k \in Labels, round'[k] = round[k]
  PROVE  /\ open'[k] = open[k]
         /\ \/ members'[k] = members[k]
            \/ members'[k] = {}
            \/ \E f \in Federates : Inform(f, k) /\ members'[k] = members[k] \cup {f}
            \/ \E f \in Federates : life[f] = "gone" /\ members'[k] = members[k] \ {f}
<1> DEFINE P == /\ open'[k] = open[k]
                /\ \/ members'[k] = members[k]
                   \/ members'[k] = {}
                   \/ \E f \in Federates : Inform(f, k) /\ members'[k] = members[k] \cup {f}
                   \/ \E f \in Federates : life[f] = "gone" /\ members'[k] = members[k] \ {f}
<1>0. TypeOK
  BY DEF IndInv
<1>1. CASE UNCHANGED <<open, members>>
  BY <1>1
<1>2. ASSUME NEW f \in Federates, NEW l \in Labels, Inform(f, l)
      PROVE  P
  <2>1. members' = [members EXCEPT ![l] = @ \cup {f}] /\ open' = open
    BY <1>2 DEF Inform
  <2>2. CASE k = l
    BY <1>0, <1>2, <2>1, <2>2 DEF TypeOK
  <2>3. CASE k # l
    BY <1>0, <2>1, <2>3 DEF TypeOK
  <2> QED BY <2>2, <2>3
<1>3. ASSUME NEW l \in Labels, NEW ms, NEW done, NEW box, Settle(l, ms, done, box)
      PROVE  \/ members'[k] = members[k]
             \/ k = l /\ members'[k] \in {{}, ms}
  BY <1>0, <1>3 DEF Settle, TypeOK
<1>4. ASSUME NEW f \in Federates, NEW l \in Labels, Drop(f, l)
      PROVE  P
  BY <1>3, <1>4 DEF Drop
<1>5. ASSUME NEW f \in Federates, NEW l \in Labels, NEW set, NEW all,
             RegisterCall(f, l, set, all)
      PROVE  P
  <2>1. k # l
    BY <1>0, <1>5 DEF RegisterCall, TypeOK
  <2> QED BY <1>0, <1>5, <2>1 DEF RegisterCall, TypeOK
<1>6. ASSUME NEW f \in Federates, NEW l \in Labels, NEW s, NEW box, AchieveFrom(f, l, s, box)
      PROVE  P
  BY <1>3, <1>6 DEF AchieveFrom
<1>7. ASSUME NEW f \in Federates, NEW l \in Labels,
             \/ RegisterReturn(f, l) \/ AchieveReturn(f, l) \/ Track(f, l)
             \/ Achieve(f, l) \/ Callback(f, l)
      PROVE  P
  <2>1. CASE ~UNCHANGED <<open, members>>
    BY <1>6, <1>7, <2>1
       DEF RegisterReturn, AchieveReturn, Track, Achieve, AchieveCall, Callback, OnRegistered,
           OnAnnounced, OnSynchronized, OnUnrecognized, Mark, rtiVars
  <2> QED BY <1>1, <2>1
<1>8. ASSUME NEW f \in Federates, Join(f) \/ Leave(f)
      PROVE  P
  BY <1>1, <1>8 DEF Join, Leave, rtiVars
<1>9. CASE UNCHANGED vars
  BY <1>1, <1>9 DEF vars
<1> QED BY <1>2, <1>4, <1>5, <1>7, <1>8, <1>9 DEF Next, RegisterForAll, RegisterFor

\* Who is newly told that the point is synchronized is a member of it, the
\* point is forgotten, and whoever is a member of it by then has arrived.
LEMMA ToldTogether ==
  ASSUME IndInv, [Next]_vars, NEW g \in Federates, NEW k \in Labels, life[g] = "in",
         Pending(g, "synchronized", k)', ~Pending(g, "synchronized", k)
  PROVE  /\ g \in members[k] /\ members'[k] = {} /\ round' = round
         /\ \A h \in members[k] : life[h] = "in" => Arrived(h, k)'
<1> DEFINE P == /\ g \in members[k] /\ members'[k] = {} /\ round' = round
                /\ \A h \in members[k] : life[h] = "in" => Arrived(h, k)'
<1>0. TypeOK /\ RtiInv /\ "synchronized" \in Callbacks /\ "announced" \in Callbacks
      /\ "registered" \in Callbacks
      /\ \A h \in Federates, l \in Labels : life[h] = "in" => PointInv(h, l)
  BY IndInvParts DEF Callbacks
<1>1. ASSUME inbox'[g] = inbox[g] PROVE P
  BY <1>1 DEF Pending
<1>2. ASSUME NEW q \in Seq(Messages), NEW t \in {"announced", "registered"}, NEW l \in Labels
      PROVE  /\ Append(q, Msg(t, l)) \in Seq(Messages)
             /\ InQueue(Append(q, Msg(t, l)), "synchronized", k) <=> InQueue(q, "synchronized", k)
  BY <1>0, InAppend, MsgsDiffer
<1>3. ASSUME NEW f \in Federates, NEW l \in Labels, Inform(f, l)
      PROVE  P
  <2>1. /\ inbox' = [inbox EXCEPT ![f] = Append(@, Msg("announced", l))]
        /\ inbox[g] \in Seq(Messages)
    BY <1>0, <1>3 DEF Inform, TypeOK
  <2>2. CASE g = f
    <3>1. inbox'[g] = Append(inbox[g], Msg("announced", l))
      BY <1>0, <2>1, <2>2 DEF TypeOK
    <3>2. InQueue(inbox'[g], "synchronized", k) <=> InQueue(inbox[g], "synchronized", k)
      BY <1>2, <2>1, <3>1
    <3> QED BY <3>2 DEF Pending
  <2>3. CASE g # f
    BY <1>0, <1>1, <2>1, <2>3 DEF TypeOK
  <2> QED BY <2>2, <2>3
<1>4. ASSUME NEW f \in Federates, NEW l \in Labels, NEW set, NEW all,
             MayRegister(f, l), RegisterCall(f, l, set, all)
      PROVE  P
  <2>1. /\ life[f] = "in" /\ busy[f] = NoCall /\ PointInv(f, l)
    BY <1>0, <1>4 DEF RegisterCall, Free
  <2>2. ~Active(l)
    BY <1>4, <2>1, CallsDiffer, ConstantsAssumption
       DEF MayRegister, PointInv, MemberInv, RegistrarInv, Awaited, Held
  <2> DEFINE told == IF g = f THEN Append(inbox[g], Msg("registered", l)) ELSE inbox[g]
  <2>3. inbox'[g] = IF g \in set THEN Append(told, Msg("announced", l)) ELSE told
    BY <1>4, <2>2 DEF RegisterCall
  <2>4. /\ told \in Seq(Messages)
        /\ InQueue(told, "synchronized", k) <=> InQueue(inbox[g], "synchronized", k)
    BY <1>0, <1>2 DEF TypeOK
  <2> HIDE DEF told
  <2>5. InQueue(Append(told, Msg("announced", l)), "synchronized", k)
          <=> InQueue(told, "synchronized", k)
    BY <1>2, <2>4
  <2> QED BY <2>3, <2>4, <2>5 DEF Pending
\* The steps that settle a point.
<1>5. ASSUME NEW l \in Labels, NEW ms \in SUBSET members[l], NEW done \in SUBSET ms,
             NEW box \in [Federates -> Seq(Messages)], Settle(l, ms, done, box),
             ~InQueue(box[g], "synchronized", k), round' = round,
             \A h \in members[l] \ ms : life[h] # "in",
             \A h \in done : h \in achieved[l] \/ busy'[h] = Achieving(l),
             \A h \in done : life[h] = "in" /\ busy'[h] # Achieving(l) =>
               state'[h][l] = state[h][l] /\ busy'[h] = busy[h]
      PROVE  P
  <2>1. ms \in SUBSET Federates
    BY <1>0 DEF TypeOK
  <2>2. Complete(done, ms) /\ g \in ms /\ k = l
    <3>1. InQueue(inbox'[g], "synchronized", k) <=>
            \/ InQueue(box[g], "synchronized", k)
            \/ /\ Complete(done, ms) /\ g \in ms /\ g \in In
               /\ "synchronized" = "synchronized" /\ k = l
      BY <1>0, <1>5, <2>1, SettleTells
    <3> QED BY <1>5, <3>1 DEF Pending
  <2>3. members'[k] = {}
    BY <1>0, <1>5, <2>1, <2>2, SettlePoint
  <2>4. ASSUME NEW h \in members[k], life[h] = "in"
        PROVE  Arrived(h, k)'
    <3>1. h \in done /\ h \in Federates
      BY <1>0, <1>5, <2>2, <2>4 DEF Complete, TypeOK
    <3>2. CASE busy'[h] = Achieving(l)
      BY <2>2, <3>2 DEF Arrived, Held
    <3>3. CASE busy'[h] # Achieving(l)
      <4>1. h \in achieved[l] /\ state'[h][l] = state[h][l] /\ busy'[h] = busy[h]
        BY <1>5, <2>4, <3>1, <3>3
      <4>2. Held(h, l)
        BY <1>0, <2>4, <3>1, <4>1 DEF PointInv, MemberInv
      <4> QED BY <2>2, <4>1, <4>2 DEF Arrived, Held
    <3> QED BY <3>2, <3>3
  <2> QED BY <1>5, <2>2, <2>3, <2>4
<1>6. ASSUME NEW f \in Federates, NEW l \in Labels, Drop(f, l)
      PROVE  P
  <2> DEFINE ms == members[l] \ {f}
             done == achieved[l] \ {f}
  <2>1. /\ Settle(l, ms, done, inbox) /\ life[f] = "gone"
        /\ UNCHANGED <<round, state, busy>>
        /\ ms \in SUBSET members[l] /\ done \in SUBSET ms
        /\ inbox \in [Federates -> Seq(Messages)]
        /\ \A h \in members[l] \ ms : life[h] # "in"
        /\ \A h \in done : h \in achieved[l]
    BY <1>0, <1>6 DEF Drop, TypeOK, RtiInv
  <2> HIDE DEF ms, done
  <2> QED BY <1>5, <2>1 DEF Pending
<1>7. ASSUME NEW f \in Federates, NEW l \in Labels, NEW s,
             NEW box \in [Federates -> Seq(Messages)],
             ~InQueue(box[g], "synchronized", k), AchieveFrom(f, l, s, box)
      PROVE  P
  <2> DEFINE ms == members[l]
             done == achieved[l] \cup {f}
  <2>1. CASE ~(s = "ANNOUNCED" /\ Accepts(f, l, box))
    BY <1>7, <2>1 DEF AchieveFrom, Pending
  <2>2. CASE s = "ANNOUNCED" /\ Accepts(f, l, box)
    <3>1. /\ Settle(l, ms, done, box) /\ round' = round
          /\ busy' = [busy EXCEPT ![f] = Achieving(l)]
          /\ state' = [state EXCEPT ![f][l] = s]
      BY <1>7, <2>2 DEF AchieveFrom, SetState
    <3>2. /\ ms \in SUBSET members[l] /\ done \in SUBSET ms
          /\ \A h \in members[l] \ ms : life[h] # "in"
          /\ \A h \in done : h \in Federates
      BY <1>0, <2>2 DEF Accepts, TypeOK, RtiInv
    <3>3. /\ busy'[f] = Achieving(l)
          /\ \A h \in Federates \ {f} : state'[h][l] = state[h][l] /\ busy'[h] = busy[h]
      BY <1>0, <3>1 DEF TypeOK
    <3>4. \A h \in done : h \in achieved[l] \/ h = f
      OBVIOUS
    <3> HIDE DEF ms, done
    <3>5. \A h \in done : h \in achieved[l] \/ busy'[h] = Achieving(l)
      BY <3>3, <3>4
    <3>6. \A h \in done : life[h] = "in" /\ busy'[h] # Achieving(l) =>
            state'[h][l] = state[h][l] /\ busy'[h] = busy[h]
      BY <3>2, <3>3
    <3> QED BY <1>5, <1>7, <3>1, <3>2, <3>5, <3>6
  <2> QED BY <2>1, <2>2
<1>8. ASSUME NEW f \in Federates, NEW l \in Labels, Achieve(f, l)
      PROVE  P
  <2>1. inbox \in [Federates -> Seq(Messages)]
    BY <1>0 DEF TypeOK
  <2> QED BY <1>7, <1>8, <2>1 DEF Achieve, AchieveCall, Pending
<1>9. ASSUME NEW f \in Federates, NEW l \in Labels, Callback(f, l)
      PROVE  P
  <2>1. PICK t \in {"registered", "announced", "synchronized"} : Arrives(f, t, l)
    BY <1>9 DEF Callback, OnRegistered, OnAnnounced, OnUnrecognized, OnSynchronized
  <2>2. t \in Callbacks
    BY DEF Callbacks
  <2>3. /\ Taken(f) \in [Federates -> Seq(Messages)]
        /\ ~InQueue(Taken(f)[g], "synchronized", k)
    <3>1. Taken(f) \in [Federates -> Seq(Messages)]
      BY <2>1, <2>2, TakenEffect
    <3>2. CASE g # f
      <4>1. Taken(f)[g] = inbox[g]
        BY <2>1, <2>2, <3>2, TakenEffect
      <4> QED BY <3>1, <4>1 DEF Pending
    <3>3. CASE g = f
      <4>1. \/ k = l /\ (InQueue(Taken(f)[f], "synchronized", l) => Pending(f, "synchronized", l))
            \/ k # l /\ (InQueue(Taken(f)[f], "synchronized", k) <=> Pending(f, "synchronized", k))
        <5>1. InQueue(Taken(f)[f], "synchronized", l) => Pending(f, "synchronized", l)
          BY <1>0, <2>1, <2>2, TakenEffect
        <5>2. k # l =>
                (InQueue(Taken(f)[f], "synchronized", k) <=> Pending(f, "synchronized", k))
          BY <1>0, <2>1, <2>2, TakenEffect
        <5> QED BY <5>1, <5>2
      <4> QED BY <3>1, <3>3, <4>1
    <3> QED BY <3>1, <3>2, <3>3
  <2>4. CASE OnUnrecognized(f, l)
    BY <1>7, <2>3, <2>4 DEF OnUnrecognized
  <2>5. CASE ~OnUnrecognized(f, l)
    BY <1>9, <2>3, <2>5
       DEF Callback, OnRegistered, OnAnnounced, OnSynchronized, Mark, Pending
  <2> QED BY <2>4, <2>5
<1>10. CASE \/ UNCHANGED vars
            \/ \E f \in Federates : Join(f) \/ Leave(f)
            \/ \E f \in Federates, l \in Labels :
                 RegisterReturn(f, l) \/ AchieveReturn(f, l) \/ Track(f, l)
  <2>1. inbox'[g] = inbox[g] \/ inbox'[g] = <<>>
    BY <1>0, <1>10 DEF vars, Join, Leave, RegisterReturn, AchieveReturn, Track, TypeOK
  <2>2. CASE inbox'[g] = <<>>
    BY <2>2 DEF Pending, InQueue
  <2> QED BY <1>1, <2>1, <2>2
<1> QED BY <1>3, <1>4, <1>6, <1>8, <1>9, <1>10 DEF Next, RegisterForAll, RegisterFor

-----------------------------------------------------------------------------
(* The order in which a federate is told of two points.                    *)

\* Whoever is told that r is synchronized has been told of p before.
ToldBefore(f, p, n) == Seen(f, p) \/ \E j \in 1..n : inbox[f][j] = Msg("announced", p)
Behind(f, r, p) ==
  /\ state[f][r] = "SYNCHRONIZED" => Seen(f, p)
  /\ \A i \in 1..Len(inbox[f]) :
       inbox[f][i] = Msg("synchronized", r) => ToldBefore(f, p, i - 1)

\* What a step may do to the queue of a federate that names every label.
LEMMA QueueStep ==
  ASSUME IndInv, [Next]_vars, NEW g \in Federates, life[g] = "in", life'[g] = "in",
         \A l \in Labels : l \in Named[g]
  PROVE  \/ inbox'[g] = inbox[g]
         \/ \E m \in Messages : inbox'[g] = Append(inbox[g], m)
         \/ \E l \in Labels :
              inbox'[g] = Append(Append(inbox[g], Msg("registered", l)), Msg("announced", l))
         \/ \E t \in {"registered", "announced", "synchronized"}, l \in Labels :
              /\ inbox[g] # <<>> /\ Head(inbox[g]) = Msg(t, l)
              /\ inbox'[g] = Tail(inbox[g])
              /\ t = "announced" => state'[g][l] = "ANNOUNCED"
<1> DEFINE P ==
      \/ inbox'[g] = inbox[g]
      \/ \E m \in Messages : inbox'[g] = Append(inbox[g], m)
      \/ \E l \in Labels :
           inbox'[g] = Append(Append(inbox[g], Msg("registered", l)), Msg("announced", l))
      \/ \E t \in {"registered", "announced", "synchronized"}, l \in Labels :
           /\ inbox[g] # <<>> /\ Head(inbox[g]) = Msg(t, l)
           /\ inbox'[g] = Tail(inbox[g])
           /\ t = "announced" => state'[g][l] = "ANNOUNCED"
<1>0. /\ TypeOK
      /\ \A t \in Callbacks, l \in Labels : Msg(t, l) \in Messages
      /\ {"registered", "failed", "announced", "synchronized"} \subseteq Callbacks
  BY MsgsDiffer DEF IndInv, Callbacks
<1>1. CASE inbox' = inbox
  BY <1>1
<1>2. ASSUME NEW f \in Federates, NEW l \in Labels, Inform(f, l)
      PROVE  P
  <2>1. inbox' = [inbox EXCEPT ![f] = Append(@, Msg("announced", l))]
    BY <1>2 DEF Inform
  <2> QED BY <1>0, <2>1 DEF TypeOK
<1>3. ASSUME NEW l \in Labels, NEW ms, NEW done, Settle(l, ms, done, inbox)
      PROVE  P
  BY <1>0, <1>3 DEF Settle
<1>4. ASSUME NEW f \in Federates, NEW l \in Labels, Drop(f, l)
      PROVE  P
  BY <1>3, <1>4 DEF Drop
<1>5. ASSUME NEW f \in Federates, NEW l \in Labels, NEW set, NEW all,
             RegisterCall(f, l, set, all)
      PROVE  P
  <2>1. CASE Active(l)
    <3>1. inbox' = [inbox EXCEPT ![f] = Append(@, Msg("failed", l))]
      BY <1>5, <2>1 DEF RegisterCall
    <3> QED BY <1>0, <3>1 DEF TypeOK
  <2>2. CASE ~Active(l)
    <3>1. inbox'[g] = LET told == IF g = f THEN Append(inbox[g], Msg("registered", l))
                                           ELSE inbox[g]
                      IN  IF g \in set THEN Append(told, Msg("announced", l)) ELSE told
      BY <1>5, <2>2 DEF RegisterCall
    <3> QED BY <1>0, <3>1
  <2> QED BY <2>1, <2>2
<1>6. ASSUME NEW f \in Federates, NEW l \in Labels, Achieve(f, l)
      PROVE  P
  BY <1>1, <1>3, <1>6 DEF Achieve, AchieveCall, AchieveFrom
<1>7. ASSUME NEW f \in Federates, NEW l \in Labels, Callback(f, l)
      PROVE  P
  <2>1. CASE f # g
    <3>1. CASE ~OnUnrecognized(f, l)
      <4>1. inbox' = Taken(f)
        BY <1>7, <3>1 DEF Callback, OnRegistered, OnAnnounced, OnSynchronized, Mark
      <4>2. inbox'[g] = inbox[g]
        BY <1>0, <2>1, <4>1 DEF Taken, TypeOK
      <4> QED BY <4>2
    <3>2. CASE OnUnrecognized(f, l)
      <4>1. Taken(f)[g] = inbox[g]
        BY <1>0, <2>1 DEF Taken, TypeOK
      <4>2. \/ inbox' = Taken(f)
            \/ \E ms, done : Settle(l, ms, done, Taken(f))
        BY <3>2 DEF OnUnrecognized, AchieveFrom
      <4>3. ASSUME NEW ms, NEW done, Settle(l, ms, done, Taken(f))
            PROVE  P
        BY <1>0, <4>1, <4>3 DEF Settle
      <4> QED BY <4>1, <4>2, <4>3
    <3> QED BY <3>1, <3>2
  <2>2. CASE f = g
    <3>1. PICK t \in {"registered", "announced", "synchronized"} :
            /\ Arrives(g, t, l) /\ inbox' = Taken(g)
            /\ t = "announced" => SetState(g, l, "ANNOUNCED")
      BY <1>7, <2>2 DEF Callback, OnRegistered, OnAnnounced, OnSynchronized, OnUnrecognized, Mark
    <3>2. inbox[g] # <<>> /\ Head(inbox[g]) = Msg(t, l) /\ inbox'[g] = Tail(inbox[g])
      BY <1>0, <3>1 DEF Arrives, Taken, TypeOK
    <3>3. t = "announced" => state'[g][l] = "ANNOUNCED"
      BY <1>0, <3>1 DEF SetState, TypeOK
    <3> QED BY <3>2, <3>3
  <2> QED BY <2>1, <2>2
<1>8. ASSUME NEW f \in Federates, Join(f) \/ Leave(f)
      PROVE  P
  <2>1. CASE Leave(f)
    <3>1. f # g
      BY <1>0, <2>1 DEF Leave, TypeOK
    <3> QED BY <1>0, <2>1, <3>1 DEF Leave, TypeOK
  <2> QED BY <1>8, <2>1 DEF Join
<1>9. CASE \/ UNCHANGED vars
           \/ \E f \in Federates, l \in Labels :
                RegisterReturn(f, l) \/ AchieveReturn(f, l) \/ Track(f, l)
  BY <1>1, <1>9 DEF vars, RegisterReturn, AchieveReturn, Track
<1> QED BY <1>2, <1>4, <1>5, <1>6, <1>7, <1>8, <1>9 DEF Next, RegisterForAll, RegisterFor

\* A SyncPoint object says SYNCHRONIZED when its callback has been taken.
LEMMA SynchronizedByCallback ==
  ASSUME IndInv, [Next]_vars, NEW g \in Federates, NEW k \in Labels,
         state'[g][k] = "SYNCHRONIZED", state[g][k] # "SYNCHRONIZED"
  PROVE  inbox[g] # <<>> /\ Head(inbox[g]) = Msg("synchronized", k)
<1> DEFINE P == inbox[g] # <<>> /\ Head(inbox[g]) = Msg("synchronized", k)
<1>0. TypeOK
  BY DEF IndInv
<1>1. state' # state
  OBVIOUS
<1>2. ASSUME NEW f \in Federates, NEW l \in Labels, NEW s, SetState(f, l, s)
      PROVE  f = g /\ l = k /\ s = "SYNCHRONIZED"
  BY <1>0, <1>2 DEF SetState, TypeOK
<1>3. ASSUME NEW f \in Federates, NEW l \in Labels, NEW set, NEW all,
             RegisterCall(f, l, set, all)
      PROVE  P
  BY <1>2, <1>3 DEF RegisterCall, Tracked
<1>4. ASSUME NEW f \in Federates, NEW l \in Labels, NEW box,
             AchieveFrom(f, l, Marked(f, l), box)
      PROVE  P
  BY <1>2, <1>4 DEF AchieveFrom, Marked
<1>5. ASSUME NEW f \in Federates, NEW l \in Labels, Achieve(f, l)
      PROVE  P
  BY <1>4, <1>5 DEF Achieve, AchieveCall
<1>6. ASSUME NEW f \in Federates, NEW l \in Labels,
             RegisterReturn(f, l) \/ AchieveReturn(f, l) \/ Track(f, l)
      PROVE  P
  BY <1>2, <1>6 DEF RegisterReturn, AchieveReturn, Track
<1>7. ASSUME NEW f \in Federates, NEW l \in Labels, Callback(f, l)
      PROVE  P
  BY <1>2, <1>4, <1>7
     DEF Callback, OnRegistered, OnAnnounced, OnSynchronized, OnUnrecognized, Mark, Arrives
<1>8. ~UNCHANGED vars
  BY <1>1 DEF vars
<1>9. ASSUME NEW f \in Federates, NEW l \in Labels,
             Join(f) \/ Leave(f) \/ Inform(f, l) \/ Drop(f, l)
      PROVE  P
  BY <1>1, <1>9 DEF Join, Leave, Inform, Drop
<1> QED BY <1>1, <1>3, <1>5, <1>6, <1>7, <1>8, <1>9 DEF Next, RegisterForAll, RegisterFor, Join, Leave

\* Who is counted at a point it names has been told of it, or will be first.
LEMMA CountedIsTold ==
  ASSUME IndInv, NEW g \in Federates, NEW p \in Labels, life[g] = "in",
         p \in Named[g], Counted(g, p)
  PROVE  ToldBefore(g, p, Len(inbox[g]))
<1>1. MemberInv(g, p)
  BY DEF IndInv, In
<1> QED BY <1>1 DEF Counted, Arrived, Held, MemberInv, Seen, ToldBefore, Pending, InQueue

\* Two callbacks are appended to a queue.
LEMMA TwiceAppended ==
  ASSUME NEW q \in Seq(Messages), NEW m \in Messages, NEW n \in Messages
  PROVE  /\ Len(Append(Append(q, m), n)) = Len(q) + 2
         /\ Len(Append(Append(q, m), n)) \in Nat
         /\ \A j \in 1..Len(q) : Append(Append(q, m), n)[j] = q[j]
<1>1. /\ Append(q, m) \in Seq(Messages) /\ Len(Append(q, m)) = Len(q) + 1
      /\ Len(q) \in Nat /\ \A j \in 1..Len(q) : Append(q, m)[j] = q[j]
  OBVIOUS
<1> DEFINE told == Append(q, m)
<1> HIDE DEF told
<1>2. /\ Len(Append(told, n)) = Len(told) + 1
      /\ \A j \in 1..Len(told) : Append(told, n)[j] = told[j]
  BY <1>1 DEF told
<1> QED BY <1>1, <1>2 DEF told

\* The order is kept if whoever is told of r is by then expected at p.
LEMMA BehindStep ==
  ASSUME IndInv, FreshInv, [Next]_vars, NEW g \in Federates, NEW r \in Labels, NEW p \in Labels,
         \A l \in Labels : l \in Named[g], life[g] = "in", life'[g] = "in",
         Once(g, p), round'[p] <= 1, Behind(g, r, p),
         Pending(g, "synchronized", r)' /\ ~Pending(g, "synchronized", r) => Counted(g, p)
  PROVE  Behind(g, r, p)'
<1>0. /\ Seen(g, p) => Seen(g, p)' /\ inbox[g] \in Seq(Messages)
  BY StepKeeps DEF Keeps, IndInv, TypeOK
<1>1. ASSUME state'[g][r] = "SYNCHRONIZED"
      PROVE  Seen(g, p)'
  <2>1. CASE state[g][r] = "SYNCHRONIZED"
    BY <1>0, <2>1 DEF Behind
  <2>2. CASE state[g][r] # "SYNCHRONIZED"
    <3>1. inbox[g] # <<>> /\ Head(inbox[g]) = Msg("synchronized", r)
      BY <1>1, <2>2, SynchronizedByCallback
    <3>2. 1 \in 1..Len(inbox[g]) /\ inbox[g][1] = Msg("synchronized", r)
      BY <1>0, <3>1
    <3> QED BY <1>0, <3>2 DEF Behind, ToldBefore
  <2> QED BY <2>1, <2>2
<1>2. ASSUME NEW i \in 1..Len(inbox'[g]), inbox'[g][i] = Msg("synchronized", r)
      PROVE  ToldBefore(g, p, i - 1)'
  <2>1. ASSUME NEW q, inbox'[g] = q, Len(inbox[g]) <= Len(q),
               \A j \in 1..Len(inbox[g]) : q[j] = inbox[g][j],
               \A j \in 1..Len(q) : j > Len(inbox[g]) /\ q[j] = Msg("synchronized", r) =>
                 ToldBefore(g, p, Len(inbox[g])), Len(q) \in Nat
        PROVE  ToldBefore(g, p, i - 1)'
    <3>1. PICK n \in Nat : n <= i - 1 /\ n <= Len(inbox[g]) /\ ToldBefore(g, p, n)
      <4>1. CASE i <= Len(inbox[g])
        <5>1. ToldBefore(g, p, i - 1)
          BY <1>0, <1>2, <2>1, <4>1 DEF Behind
        <5> QED BY <1>0, <1>2, <2>1, <4>1, <5>1
      <4>2. CASE i > Len(inbox[g])
        <5>1. ToldBefore(g, p, Len(inbox[g])) /\ Len(inbox[g]) \in Nat
          BY <1>0, <1>2, <2>1, <4>2
        <5> QED BY <1>0, <1>2, <2>1, <4>2, <5>1
      <4> QED BY <1>0, <1>2, <2>1, <4>1, <4>2
    <3>2. CASE Seen(g, p)
      BY <1>0, <3>2 DEF ToldBefore
    <3>3. CASE \E j \in 1..n : inbox[g][j] = Msg("announced", p)
      <4>1. PICK j \in 1..n : inbox[g][j] = Msg("announced", p)
        BY <3>3
      <4>2. j \in 1..(i - 1) /\ inbox'[g][j] = Msg("announced", p)
        BY <1>0, <1>2, <2>1, <3>1, <4>1
      <4> QED BY <4>2 DEF ToldBefore
    <3> QED BY <3>1, <3>2, <3>3 DEF ToldBefore
  <2>2. ASSUME Pending(g, "synchronized", r)'
        PROVE  ToldBefore(g, p, Len(inbox[g]))
    <3>1. CASE Pending(g, "synchronized", r)
      <4>1. PICK j \in 1..Len(inbox[g]) : inbox[g][j] = Msg("synchronized", r)
        BY <3>1 DEF Pending, InQueue
      <4>2. ToldBefore(g, p, j - 1)
        BY <4>1 DEF Behind
      <4> QED BY <1>0, <4>1, <4>2 DEF ToldBefore
    <3> QED BY <2>2, <3>1, CountedIsTold
  <2>3. Pending(g, "synchronized", r)'
    BY <1>2 DEF Pending, InQueue
  <2>4. CASE inbox'[g] = inbox[g]
    BY <1>0, <2>1, <2>4
  <2>5. CASE \E m \in Messages : inbox'[g] = Append(inbox[g], m)
    <3>1. PICK m \in Messages : inbox'[g] = Append(inbox[g], m)
      BY <2>5
    <3>2. /\ Len(inbox'[g]) = Len(inbox[g]) + 1 /\ Len(inbox[g]) \in Nat
          /\ \A j \in 1..Len(inbox[g]) : inbox'[g][j] = inbox[g][j]
      BY <1>0, <3>1
    <3> QED BY <2>1, <2>2, <2>3, <3>2
  <2>6. CASE \E l \in Labels :
               inbox'[g] = Append(Append(inbox[g], Msg("registered", l)), Msg("announced", l))
    <3>1. PICK l \in Labels :
            inbox'[g] = Append(Append(inbox[g], Msg("registered", l)), Msg("announced", l))
      BY <2>6
    <3>2. Msg("registered", l) \in Messages /\ Msg("announced", l) \in Messages
      BY MsgsDiffer DEF Callbacks
    <3>3. /\ Len(inbox'[g]) = Len(inbox[g]) + 2 /\ Len(inbox'[g]) \in Nat
          /\ \A j \in 1..Len(inbox[g]) : inbox'[g][j] = inbox[g][j]
      <4> DEFINE m == Msg("registered", l)
                 n == Msg("announced", l)
      <4>1. m \in Messages /\ n \in Messages /\ inbox'[g] = Append(Append(inbox[g], m), n)
        BY <3>1, <3>2
      <4> HIDE DEF m, n
      <4> QED BY <1>0, <4>1, TwiceAppended
    <3>4. Len(inbox[g]) \in Nat
      BY <1>0
    <3> QED BY <2>1, <2>2, <2>3, <3>3, <3>4
  <2>7. CASE \E t \in {"registered", "announced", "synchronized"}, l \in Labels :
               /\ inbox[g] # <<>> /\ Head(inbox[g]) = Msg(t, l)
               /\ inbox'[g] = Tail(inbox[g])
               /\ t = "announced" => state'[g][l] = "ANNOUNCED"
    <3>1. PICK t \in {"registered", "announced", "synchronized"}, l \in Labels :
            /\ inbox[g] # <<>> /\ Head(inbox[g]) = Msg(t, l)
            /\ inbox'[g] = Tail(inbox[g])
            /\ t = "announced" => state'[g][l] = "ANNOUNCED"
      BY <2>7
    <3>2. /\ i + 1 \in 1..Len(inbox[g]) /\ inbox[g][i + 1] = Msg("synchronized", r)
          /\ \A j \in 2..Len(inbox[g]) : inbox'[g][j - 1] = inbox[g][j]
          /\ inbox[g][1] = Msg(t, l)
      BY <1>0, <1>2, <3>1
    <3>3. ToldBefore(g, p, i)
      BY <1>2, <3>2 DEF Behind
    <3>4. CASE Seen(g, p)
      BY <1>0, <3>4 DEF ToldBefore
    <3>5. CASE \E j \in 1..i : inbox[g][j] = Msg("announced", p)
      <4>1. PICK j \in 1..i : inbox[g][j] = Msg("announced", p)
        BY <3>5
      <4>2. CASE j = 1
        <5>1. t = "announced" /\ l = p
          BY <3>2, <4>1, <4>2, MsgsDiffer DEF Callbacks
        <5> QED BY <3>1, <5>1 DEF ToldBefore, Seen
      <4>3. CASE j # 1
        <5>1. j - 1 \in 1..(i - 1) /\ inbox'[g][j - 1] = Msg("announced", p)
          BY <1>0, <1>2, <3>2, <4>1, <4>3
        <5> QED BY <5>1 DEF ToldBefore
      <4> QED BY <4>2, <4>3
    <3> QED BY <3>3, <3>4, <3>5 DEF ToldBefore
  <2> QED BY <2>4, <2>5, <2>6, <2>7, QueueStep
<1> QED BY <1>1, <1>2 DEF Behind

-----------------------------------------------------------------------------
(* SyncPoints implements SyncBarrier: the SyncPoint objects, callbacks and *)
(* calls that take time of any number of federates make barriers.  Every   *)
(* step that keeps to IndInv is a step of the barrier or leaves it alone.  *)


\* What the refinement mapping makes of a state.
Expected == [l \in Labels |-> members[l] \ achieved[l]]
Freed == [l \in Labels |-> {f \in In : Held(f, l) /\ f \notin achieved[l]}]
IsFreed(g, k) == life[g] = "in" /\ Held(g, k) /\ g \notin achieved[k]

\* Barrier!Wait, of these.
Waits(l, E, A) ==
  IF E = {}
    THEN /\ Expected' = [Expected EXCEPT ![l] = {}]
         /\ achieved' = [achieved EXCEPT ![l] = {}]
         /\ Freed' = [Freed EXCEPT ![l] = @ \cup (A \cap In)]
    ELSE /\ Expected' = [Expected EXCEPT ![l] = E]
         /\ achieved' = [achieved EXCEPT ![l] = A]
         /\ Freed' = Freed

\* Freed, by its elements.
LEMMA FreedSame ==
  ASSUME \A g \in Federates, k \in Labels : IsFreed(g, k)' <=> IsFreed(g, k)
  PROVE  Freed' = Freed
<1>1. ASSUME NEW k \in Labels
      PROVE  {f \in In : Held(f, k) /\ f \notin achieved[k]}'
               = {f \in In : Held(f, k) /\ f \notin achieved[k]}
  BY DEF In, IsFreed
<1> QED BY <1>1 DEF Freed

LEMMA FreedGrows ==
  ASSUME NEW l \in Labels, NEW S,
         \A k \in Labels \ {l} : {g \in In : Held(g, k) /\ g \notin achieved[k]}'
                                  = {g \in In : Held(g, k) /\ g \notin achieved[k]},
         {g \in In : Held(g, l) /\ g \notin achieved[l]}'
           = {g \in In : Held(g, l) /\ g \notin achieved[l]} \cup S
  PROVE  Freed' = [Freed EXCEPT ![l] = @ \cup S]
BY DEF Freed

\* A federate that joins enters.
LEMMA JoinRefines ==
  ASSUME IndInv, NEW f \in Federates, Join(f)
  PROVE  Barrier!Enter(f)
<1>1. /\ life \in [Federates -> {"out", "in", "gone"}]
      /\ life[f] = "out" /\ life' = [life EXCEPT ![f] = "in"]
      /\ UNCHANGED <<members, achieved, state, busy>>
  BY IndInvParts DEF Join, rtiVars, TypeOK
<1>2. f \notin In /\ In' = In \cup {f}
  BY <1>1 DEF In
<1>3. Expected' = Expected
  BY <1>1 DEF Expected
<1>4. ASSUME NEW g \in Federates, NEW k \in Labels
      PROVE  IsFreed(g, k)' <=> IsFreed(g, k)
  <2>1. g = f => ~Held(g, k)
    BY <1>1, IndInvParts, CallsDiffer DEF LifeInv, Held
  <2> QED BY <1>1, <2>1 DEF IsFreed, Held
<1>5. Freed' = Freed
  BY <1>4, FreedSame
<1> QED BY <1>1, <1>2, <1>3, <1>5 DEF Barrier!Enter, Expected, Freed

\* A federate that leaves departs.
LEMMA LeaveRefines ==
  ASSUME IndInv, NEW f \in Federates, Leave(f)
  PROVE  Barrier!Depart(f)
<1>1. /\ life \in [Federates -> {"out", "in", "gone"}]
      /\ busy \in [Federates -> Calls]
      /\ life[f] = "in" /\ life' = [life EXCEPT ![f] = "gone"]
      /\ busy' = [busy EXCEPT ![f] = NoCall]
      /\ UNCHANGED <<members, achieved, state>>
  BY IndInvParts DEF Leave, rtiVars, TypeOK
<1>2. f \in In /\ In' = In \ {f}
  BY <1>1 DEF In
<1>3. Expected' = Expected
  BY <1>1 DEF Expected
<1>4. Freed' = [l \in Labels |-> Freed[l] \ {f}]
  <2>1. ASSUME NEW k \in Labels
        PROVE  {g \in In : Held(g, k) /\ g \notin achieved[k]}'
                 = {g \in In : Held(g, k) /\ g \notin achieved[k]} \ {f}
    <3>1. ASSUME NEW g \in Federates, g # f
          PROVE  Held(g, k)' <=> Held(g, k)
      BY <1>1, <3>1 DEF Held
    <3> QED BY <1>1, <1>2, <3>1 DEF In
  <2> QED BY <2>1 DEF Freed
<1> QED BY <1>1, <1>2, <1>3, <1>4 DEF Barrier!Depart, Expected, Freed

\* A later joiner is added to those expected.
LEMMA InformRefines ==
  ASSUME IndInv, NEW f \in Federates, NEW l \in Labels, Inform(f, l)
  PROVE  Barrier!Enlarge(l, f)
<1>1. /\ life[f] = "in" /\ Active(l) /\ f \notin members[l]
      /\ members \in [Labels -> SUBSET Federates]
      /\ members' = [members EXCEPT ![l] = @ \cup {f}]
      /\ UNCHANGED <<life, achieved, state, busy>>
  BY IndInvParts DEF Inform, TypeOK
<1>2. achieved[l] \subseteq members[l] /\ achieved[l] # members[l]
  BY <1>1, IndInvParts DEF RtiInv
<1>3. Expected' = [Expected EXCEPT ![l] = @ \cup {f}]
  <2>1. ASSUME NEW k \in Labels, k # l
        PROVE  (members[k] \ achieved[k])' = members[k] \ achieved[k]
    BY <1>1, <2>1
  <2>2. (members[l] \ achieved[l])' = (members[l] \ achieved[l]) \cup {f}
    BY <1>1, <1>2
  <2> QED BY <2>1, <2>2 DEF Expected
<1>4. Freed' = Freed
  BY <1>1, FreedSame DEF IsFreed, Held
<1>5. f \in In \ (Expected[l] \cup achieved[l]) /\ Expected[l] # {}
  BY <1>1, <1>2 DEF Expected, In
<1> QED BY <1>1, <1>3, <1>4, <1>5 DEF Barrier!Enlarge, Barrier!IsOpen, Expected, Freed, In

\* The RTI's decision about a point is the barrier's.
LEMMA SettleRefines ==
  ASSUME IndInv, NEW l \in Labels,
         NEW ms \in SUBSET Federates, NEW done \in SUBSET ms,
         NEW box \in [Federates -> Seq(Messages)], Settle(l, ms, done, box),
         life' = life,
         \A g \in Federates, k \in Labels \ {l} : life[g] = "in" => (Held(g, k)' <=> Held(g, k)),
         \A g \in Federates : life[g] = "in" => (Held(g, l)' <=> Held(g, l) \/ g \in done),
         \A g \in Federates : life[g] = "in" /\ Held(g, l) => (g \in done <=> g \in achieved[l])
  PROVE  Waits(l, ms \ done, done)
<1>0. TypeOK
  BY IndInvParts
<1>1. \A k \in Labels \ {l} : members'[k] = members[k] /\ achieved'[k] = achieved[k]
  BY <1>0, SettlePoint
<1>2. ASSUME NEW k \in Labels \ {l}
      PROVE  /\ (members[k] \ achieved[k])' = members[k] \ achieved[k]
             /\ {g \in In : Held(g, k) /\ g \notin achieved[k]}'
                  = {g \in In : Held(g, k) /\ g \notin achieved[k]}
  BY <1>1 DEF In
<1>3. CASE done = ms
  <2>1. members'[l] = {} /\ achieved'[l] = {}
    BY <1>0, <1>3, SettlePoint DEF Complete
  <2>2. achieved' = [achieved EXCEPT ![l] = {}]
    BY <1>3 DEF Settle
  <2>3. Expected' = [Expected EXCEPT ![l] = {}]
    BY <1>2, <2>1 DEF Expected
  <2>4. {g \in In : Held(g, l) /\ g \notin achieved[l]}'
          = {g \in In : Held(g, l) /\ g \notin achieved[l]} \cup (done \cap In)
    BY <2>1 DEF In
  <2>5. Freed' = [Freed EXCEPT ![l] = @ \cup (done \cap In)]
    BY <1>2, <2>4, FreedGrows
  <2>6. ms \ done = {}
    BY <1>3
  <2> QED BY <2>2, <2>3, <2>5, <2>6 DEF Waits
<1>4. CASE done # ms
  <2>1. members'[l] = ms /\ achieved'[l] = done
    BY <1>0, <1>4, SettlePoint DEF Complete
  <2>2. achieved' = [achieved EXCEPT ![l] = done]
    BY <1>4 DEF Settle
  <2>3. Expected' = [Expected EXCEPT ![l] = ms \ done]
    BY <1>2, <2>1 DEF Expected
  <2>4. {g \in In : Held(g, l) /\ g \notin achieved[l]}'
          = {g \in In : Held(g, l) /\ g \notin achieved[l]}
    BY <2>1 DEF In
  <2>5. Freed' = Freed
    BY <1>2, <2>4 DEF Freed
  <2>6. ms \ done # {}
    BY <1>4
  <2> QED BY <2>2, <2>3, <2>5, <2>6 DEF Waits
<1> QED BY <1>3, <1>4

\* A federate that is gone withdraws when the RTI notices.
LEMMA DropRefines ==
  ASSUME IndInv, NEW f \in Federates, NEW l \in Labels, Drop(f, l)
  PROVE  Barrier!Withdraw(l, f)
<1> DEFINE ms == members[l] \ {f}
           done == achieved[l] \ {f}
<1>1. /\ life[f] = "gone" /\ f \in members[l]
      /\ Settle(l, ms, done, inbox)
      /\ UNCHANGED <<life, state, busy>>
  BY DEF Drop
<1>2. TypeOK /\ RtiInv /\ inbox \in [Federates -> Seq(Messages)]
      /\ ms \in SUBSET Federates /\ done \in SUBSET ms
  BY IndInvParts DEF TypeOK, RtiInv
<1>3. \A g \in Federates : life[g] = "in" => g # f /\ (g \in achieved[l] => Held(g, l))
  BY <1>1, IndInvParts DEF PointInv, MemberInv
<1>4. \A g \in Federates, k \in Labels : Held(g, k)' <=> Held(g, k)
  BY <1>1 DEF Held
<1> HIDE DEF ms, done
<1>5. \A g \in Federates : life[g] = "in" => (g \in done <=> g \in achieved[l])
  BY <1>3 DEF done
<1>6. Waits(l, ms \ done, done)
  <2>1. Settle(l, ms, done, inbox) /\ life' = life
    BY <1>1 DEF ms, done
  <2>2. ms \in SUBSET Federates /\ done \in SUBSET ms
    BY <1>2 DEF ms, done
  <2>3. /\ \A g \in Federates, k \in Labels \ {l} :
             life[g] = "in" => (Held(g, k)' <=> Held(g, k))
        /\ \A g \in Federates : life[g] = "in" => (Held(g, l)' <=> Held(g, l) \/ g \in done)
        /\ \A g \in Federates : life[g] = "in" /\ Held(g, l) => (g \in done <=> g \in achieved[l])
    BY <1>3, <1>4, <1>5
  <2> QED BY <1>2, <2>1, <2>2, <2>3, SettleRefines
<1>7. ms \ done = Expected[l] \ {f} /\ done = achieved[l] \ {f}
  BY DEF ms, done, Expected
<1>9. Waits(l, Expected[l] \ {f}, achieved[l] \ {f})
  BY <1>6, <1>7
<1>8. f \in (Expected[l] \cup achieved[l]) \ In /\ In' = In
  BY <1>1 DEF Expected, In
<1>10. Barrier!Wait(l, Expected[l] \ {f}, achieved[l] \ {f})
  BY <1>9 DEF Waits, Barrier!Wait, Expected, Freed
<1> QED BY <1>8, <1>10 DEF Barrier!Withdraw, Expected

-----------------------------------------------------------------------------
(* The steps of TrickHLA.                                                  *)

\* A step that changes neither members nor the Held of anybody who is in is a
\* stuttering step of the barrier.
LEMMA Stutters ==
  ASSUME UNCHANGED <<life, members, achieved>>,
         \A g \in Federates, k \in Labels : life[g] = "in" => (Held(g, k)' <=> Held(g, k))
  PROVE  UNCHANGED Barrier!vars
<1>1. Freed' = Freed
  BY FreedSame DEF IsFreed
<1>2. Expected' = Expected /\ In' = In
  BY DEF Expected, In
<1> QED BY <1>1, <1>2 DEF Barrier!vars, Expected, Freed

\* A registration opens the point.
LEMMA RegisterRefines ==
  ASSUME IndInv, NEW f \in Federates, NEW l \in Labels, NEW set \in SUBSET In,
         NEW all \in BOOLEAN, f \in set, MayRegister(f, l), RegisterCall(f, l, set, all)
  PROVE  Barrier!Open(l, set)
<1>1. /\ TypeOK /\ RtiInv /\ life[f] = "in" /\ busy[f] = NoCall /\ PointInv(f, l)
      /\ f = Registrar[l] /\ state[f][l] \in {"KNOWN", "SYNCHRONIZED"}
  BY IndInvParts DEF RegisterCall, Free, MayRegister
<1>2. ~Active(l)
  BY <1>1, CallsDiffer, ConstantsAssumption
     DEF PointInv, MemberInv, RegistrarInv, Awaited, Held
<1>3. /\ state' = state
      /\ busy' = [busy EXCEPT ![f] = Registering(l)]
      /\ members' = [members EXCEPT ![l] = set]
      /\ UNCHANGED <<life, achieved>>
  <2>1. Tracked(f, l) = state[f][l]
    BY <1>1 DEF Tracked
  <2>2. [state EXCEPT ![f][l] = state[f][l]] = state
    BY <1>1 DEF TypeOK
  <2> QED BY <1>2, <2>1, <2>2 DEF RegisterCall, SetState
<1>4. members[l] = {} /\ achieved[l] = {}
  BY <1>1, <1>2 DEF Active, RtiInv, TypeOK
<1>5. Expected' = [Expected EXCEPT ![l] = set]
  <2>1. ASSUME NEW k \in Labels, k # l
        PROVE  (members[k] \ achieved[k])' = members[k] \ achieved[k]
    BY <1>1, <1>3, <2>1 DEF TypeOK
  <2>2. (members[l] \ achieved[l])' = set
    BY <1>1, <1>3, <1>4 DEF TypeOK
  <2> QED BY <2>1, <2>2 DEF Expected
<1>6. ASSUME NEW g \in Federates, NEW k \in Labels
      PROVE  IsFreed(g, k)' <=> IsFreed(g, k)
  <2>1. busy'[g] = Achieving(k) <=> busy[g] = Achieving(k)
    BY <1>1, <1>3, CallsDiffer DEF TypeOK
  <2> QED BY <1>3, <2>1 DEF IsFreed, Held
<1>7. Freed' = Freed
  BY <1>6, FreedSame
<1>8. Expected[l] = {} /\ set # {} /\ In' = In
  BY <1>3, <1>4 DEF Expected, In
<1> QED BY <1>3, <1>5, <1>7, <1>8 DEF Barrier!Open, Barrier!IsOpen, Expected, Freed

\* The return of a call: f is not held by a registration, and goes on being
\* held by an achievement.
LEMMA ReturnRefines ==
  ASSUME IndInv, NEW f \in Federates, NEW l \in Labels,
         RegisterReturn(f, l) \/ AchieveReturn(f, l)
  PROVE  UNCHANGED Barrier!vars
<1>1. /\ TypeOK /\ life[f] = "in" /\ PointInv(f, l)
      /\ busy' = [busy EXCEPT ![f] = NoCall]
      /\ UNCHANGED <<life, members, achieved>>
  BY IndInvParts DEF RegisterReturn, AchieveReturn, rtiVars
<1>2. CASE RegisterReturn(f, l)
  <2>1. busy[f] = Registering(l) /\ state' = [state EXCEPT ![f][l] = "REGISTERED"]
    BY <1>2 DEF RegisterReturn, SetState
  <2>2. state[f][l] # "ACHIEVED" /\ state'[f][l] = "REGISTERED" /\ busy'[f] = NoCall
    BY <1>1, <2>1 DEF TypeOK, PointInv, RegistrarInv
  <2>3. ASSUME NEW g \in Federates, NEW k \in Labels
        PROVE  Held(g, k)' <=> Held(g, k)
    <3>1. CASE g = f /\ k = l
      BY <2>1, <2>2, <3>1, CallsDiffer DEF Held
    <3>2. CASE g = f /\ k # l
      BY <1>1, <2>1, <2>2, <3>2, CallsDiffer DEF Held, TypeOK
    <3>3. CASE g # f
      BY <1>1, <2>1, <3>3 DEF Held, TypeOK
    <3> QED BY <3>1, <3>2, <3>3
  <2> QED BY <1>1, <2>3, Stutters
<1>3. CASE AchieveReturn(f, l)
  <2>1. busy[f] = Achieving(l) /\ state' = [state EXCEPT ![f][l] = "ACHIEVED"]
    BY <1>3 DEF AchieveReturn, SetState
  <2>2. state'[f][l] = "ACHIEVED" /\ busy'[f] = NoCall
    BY <1>1, <2>1 DEF TypeOK
  <2>3. ASSUME NEW g \in Federates, NEW k \in Labels
        PROVE  Held(g, k)' <=> Held(g, k)
    <3>1. CASE g = f /\ k = l
      BY <2>1, <2>2, <3>1 DEF Held
    <3>2. CASE g = f /\ k # l
      BY <1>1, <2>1, <2>2, <3>2, CallsDiffer DEF Held, TypeOK
    <3>3. CASE g # f
      BY <1>1, <2>1, <3>3 DEF Held, TypeOK
    <3> QED BY <3>1, <3>2, <3>3
  <2> QED BY <1>1, <2>3, Stutters
<1> QED BY <1>2, <1>3

\* An achievement that the RTI takes is an arrival.
LEMMA AcceptedRefines ==
  ASSUME IndInv, NEW f \in Federates, NEW l \in Labels, Free(f),
         NEW box \in [Federates -> Seq(Messages)],
         \A t \in Callbacks : ~InQueue(box[f], t, l),
         ~Pending(f, "synchronized", l), Awaited(f, l),
         AchieveFrom(f, l, "ANNOUNCED", box)
  PROVE  Barrier!Arrive(l, f)
<1> DEFINE ms == members[l]
           done == achieved[l] \cup {f}
<1>1. /\ TypeOK /\ RtiInv /\ PointInv(f, l)
      /\ life[f] = "in" /\ busy[f] = NoCall /\ f \in members[l] /\ f \notin achieved[l]
      /\ ms \in SUBSET Federates /\ done \in SUBSET ms
  BY IndInvParts DEF Free, Awaited, Active, TypeOK, RtiInv
<1>2. Accepts(f, l, box)
  BY DEF Accepts, Awaited, Callbacks
<1>3. /\ state' = [state EXCEPT ![f][l] = "ANNOUNCED"]
      /\ Settle(l, ms, done, box)
      /\ busy' = [busy EXCEPT ![f] = Achieving(l)]
      /\ life' = life
  BY <1>2 DEF AchieveFrom, SetState
<1>4. ~Held(f, l) /\ state[f][l] # "ACHIEVED"
  BY <1>1 DEF PointInv, MemberInv, Held
<1> HIDE DEF ms, done
<1>5. ASSUME NEW g \in Federates, NEW k \in Labels, life[g] = "in"
      PROVE  Held(g, k)' <=> Held(g, k) \/ (g = f /\ k = l)
  <2>1. CASE g = f /\ k = l
    BY <1>1, <1>3, <2>1 DEF Held, TypeOK
  <2>2. CASE g = f /\ k # l
    BY <1>1, <1>3, <2>2, CallsDiffer DEF Held, TypeOK
  <2>3. CASE g # f
    BY <1>1, <1>3, <2>3 DEF Held, TypeOK
  <2> QED BY <2>1, <2>2, <2>3
<1>6. \A g \in Federates : life[g] = "in" /\ g \in achieved[l] => Held(g, l)
  BY IndInvParts DEF PointInv, MemberInv
<1>7. Waits(l, ms \ done, done)
  <2>1. /\ \A g \in Federates, k \in Labels \ {l} :
             life[g] = "in" => (Held(g, k)' <=> Held(g, k))
        /\ \A g \in Federates : life[g] = "in" => (Held(g, l)' <=> Held(g, l) \/ g \in done)
        /\ \A g \in Federates : life[g] = "in" /\ Held(g, l) => (g \in done <=> g \in achieved[l])
    BY <1>4, <1>5, <1>6 DEF done
  <2> QED BY <1>1, <1>3, <2>1, SettleRefines
<1>8. ms \ done = Expected[l] \ {f} /\ done = achieved[l] \cup {f}
  BY DEF ms, done, Expected
<1>9. Waits(l, Expected[l] \ {f}, achieved[l] \cup {f})
  BY <1>7, <1>8
<1>10. Barrier!Wait(l, Expected[l] \ {f}, achieved[l] \cup {f})
  BY <1>9 DEF Waits, Barrier!Wait, Expected, Freed
<1>11. f \in (Expected[l] \cap In) \ Freed[l] /\ In' = In
  BY <1>1, <1>3, <1>4 DEF Expected, Freed, In
<1> QED BY <1>10, <1>11 DEF Barrier!Arrive, Expected, Freed

\* Putting a label into the Unknown list is no step of the barrier.
LEMMA TrackRefines ==
  ASSUME IndInv, NEW f \in Federates, NEW l \in Labels, Track(f, l)
  PROVE  UNCHANGED Barrier!vars
<1>1. /\ TypeOK /\ state[f][l] = "UNKNOWN"
      /\ state' = [state EXCEPT ![f][l] = "KNOWN"]
      /\ UNCHANGED <<life, members, achieved, busy>>
  BY IndInvParts DEF Track, SetState, rtiVars
<1>2. ASSUME NEW g \in Federates, NEW k \in Labels
      PROVE  Held(g, k)' <=> Held(g, k)
  BY <1>1 DEF Held, TypeOK
<1> QED BY <1>1, <1>2, Stutters

LEMMA AchieveRefines ==
  ASSUME IndInv, NEW f \in Federates, NEW l \in Labels, Achieve(f, l)
  PROVE  Barrier!Arrive(l, f)
<1>1. /\ state[f][l] = "ANNOUNCED" /\ Free(f) /\ life[f] = "in" /\ busy[f] = NoCall
      /\ AchieveFrom(f, l, "ANNOUNCED", inbox)
  BY DEF Achieve, AchieveCall, Marked, Free
<1>2. PointInv(f, l) /\ TypeOK /\ QueueInv
  BY <1>1, IndInvParts
<1>3. Awaited(f, l) /\ \A t \in Callbacks : ~Pending(f, t, l)
  BY <1>1, <1>2, CallsDiffer
     DEF PointInv, MemberInv, RegistrarInv, Held, QueueInv, Callbacks
<1>4. inbox \in [Federates -> Seq(Messages)] /\ "synchronized" \in Callbacks
      /\ \A t \in Callbacks : ~InQueue(inbox[f], t, l)
  BY <1>2, <1>3 DEF TypeOK, Pending, Callbacks
<1> QED BY <1>1, <1>3, <1>4, AcceptedRefines

\* A callback that marks an object which is not ACHIEVED, and not so, is no
\* step of the barrier.
LEMMA MarkRefines ==
  ASSUME IndInv, NEW f \in Federates, NEW l \in Labels, NEW s \in States,
         s # "ACHIEVED", ~Held(f, l), Mark(f, l, s)
  PROVE  UNCHANGED Barrier!vars
<1>1. /\ TypeOK /\ state' = [state EXCEPT ![f][l] = s]
      /\ UNCHANGED <<life, members, achieved, busy>>
  BY IndInvParts DEF Mark, SetState, rtiVars
<1>2. ASSUME NEW g \in Federates, NEW k \in Labels
      PROVE  Held(g, k)' <=> Held(g, k)
  BY <1>1 DEF Held, TypeOK
<1> QED BY <1>1, <1>2, Stutters

\* A point in no list of f: the callback arrives; one in its Unknown list stays
\* where it is.
LEMMA OnUnrecognizedRefines ==
  ASSUME IndInv, NEW f \in Federates, NEW l \in Labels, OnUnrecognized(f, l)
  PROVE  Barrier!Arrive(l, f) \/ UNCHANGED Barrier!vars
<1>1. Arrives(f, "announced", l) /\ Awaited(f, l) /\ "announced" \in Callbacks
  BY UnrecognizedCases DEF Callbacks
<1>2. PointInv(f, l) /\ Free(f) /\ busy[f] = NoCall
      /\ Taken(f) \in [Federates -> Seq(Messages)]
  BY <1>1, TakenEffect DEF Arrives
<1>3. \A t \in Callbacks : ~InQueue(Taken(f)[f], t, l)
  <2>1. ASSUME NEW t \in Callbacks, InQueue(Taken(f)[f], t, l)
        PROVE  <<"announced", t>> \in Follows
    BY <1>1, <2>1, TakenEffect
  <2> QED BY <2>1 DEF Follows
<1>4. ~Pending(f, "synchronized", l)
  <2>1. "synchronized" \in Callbacks /\ "synchronized" # "announced"
    BY DEF Callbacks
  <2>2. Pending(f, "synchronized", l) => InQueue(Taken(f)[f], "synchronized", l)
    BY <1>1, <2>1, TakenEffect
  <2> QED BY <1>3, <2>1, <2>2
<1>5. CASE AchieveFrom(f, l, "ANNOUNCED", Taken(f))
  BY <1>1, <1>2, <1>3, <1>4, <1>5, AcceptedRefines
<1>6. CASE state[f][l] \in {"KNOWN", "SYNCHRONIZED"} /\ Mark(f, l, state[f][l])
  <2>1. ~Held(f, l) /\ state[f][l] \in States
    BY <1>2, <1>6, CallsDiffer DEF Held, States
  <2> QED BY <1>6, <2>1, MarkRefines
<1> QED BY <1>5, <1>6, UnrecognizedCases

LEMMA OnRegisteredRefines ==
  ASSUME IndInv, NEW f \in Federates, NEW l \in Labels, OnRegistered(f, l)
  PROVE  UNCHANGED Barrier!vars
<1>1. /\ Arrives(f, "registered", l) /\ Mark(f, l, "REGISTERED")
      /\ "registered" \in Callbacks /\ "REGISTERED" \in States
  BY DEF OnRegistered, Callbacks, States
<1>2. busy[f] = NoCall /\ PointInv(f, l) /\ Pending(f, "registered", l)
  BY <1>1, TakenEffect
<1>3. ~Held(f, l)
  BY <1>2, CallsDiffer DEF PointInv, RegistrarInv, Held
<1> QED BY <1>1, <1>3, MarkRefines

LEMMA OnAnnouncedRefines ==
  ASSUME IndInv, NEW f \in Federates, NEW l \in Labels, OnAnnounced(f, l)
  PROVE  UNCHANGED Barrier!vars
<1>1. /\ Arrives(f, "announced", l) /\ Mark(f, l, "ANNOUNCED")
      /\ "announced" \in Callbacks /\ "ANNOUNCED" \in States
      /\ "synchronized" \in Callbacks
  BY DEF OnAnnounced, Callbacks, States
<1>2. PointInv(f, l) /\ Pending(f, "announced", l)
  BY <1>1, TakenEffect
<1>3. ~Pending(f, "synchronized", l)
  <2>1. ASSUME Pending(f, "synchronized", l)
        PROVE  <<"announced", "synchronized">> \in Follows
    BY <1>1, <2>1, TakenEffect
  <2> QED BY <2>1 DEF Follows
<1>4. ~Held(f, l)
  BY <1>2, <1>3 DEF PointInv, MemberInv, Awaited
<1> QED BY <1>1, <1>4, MarkRefines

\* Only when it is told that the federation is synchronized f goes on.
LEMMA OnSynchronizedRefines ==
  ASSUME IndInv, NEW f \in Federates, NEW l \in Labels, OnSynchronized(f, l)
  PROVE  Barrier!GoOn(l, f)
<1>1. /\ Arrives(f, "synchronized", l) /\ Mark(f, l, "SYNCHRONIZED")
      /\ "synchronized" \in Callbacks
  BY DEF OnSynchronized, Callbacks
<1>2. life[f] = "in" /\ busy[f] = NoCall /\ PointInv(f, l) /\ Pending(f, "synchronized", l)
  BY <1>1, TakenEffect
<1>3. Held(f, l) /\ f \notin achieved[l]
  BY <1>2 DEF PointInv, MemberInv
<1>4. /\ TypeOK /\ state' = [state EXCEPT ![f][l] = "SYNCHRONIZED"]
      /\ UNCHANGED <<life, members, achieved, busy>>
  BY <1>1, IndInvParts DEF Mark, SetState, rtiVars
<1>5. ASSUME NEW g \in Federates, NEW k \in Labels
      PROVE  Held(g, k)' <=> Held(g, k) /\ ~(g = f /\ k = l)
  <2>1. CASE g = f /\ k = l
    BY <1>2, <1>4, <2>1, CallsDiffer DEF Held, TypeOK
  <2>2. CASE ~(g = f /\ k = l)
    BY <1>4, <2>2 DEF Held, TypeOK
  <2> QED BY <2>1, <2>2
<1>6. Freed' = [Freed EXCEPT ![l] = @ \ {f}]
  <2>1. ASSUME NEW k \in Labels, k # l
        PROVE  {g \in In : Held(g, k) /\ g \notin achieved[k]}'
                 = {g \in In : Held(g, k) /\ g \notin achieved[k]}
    BY <1>4, <1>5, <2>1 DEF In
  <2>2. {g \in In : Held(g, l) /\ g \notin achieved[l]}'
          = {g \in In : Held(g, l) /\ g \notin achieved[l]} \ {f}
    BY <1>4, <1>5 DEF In
  <2> QED BY <2>1, <2>2 DEF Freed
<1>7. f \in Freed[l] /\ Expected' = Expected /\ In' = In
  BY <1>2, <1>3, <1>4 DEF Freed, Expected, In
<1> QED BY <1>4, <1>6, <1>7 DEF Barrier!GoOn, Expected, Freed

-----------------------------------------------------------------------------
(* The theorem.                                                            *)

\* Nobody is in at first, and nothing is open.
LEMMA InitRefines == Init => Barrier!Init
<1> SUFFICES ASSUME Init PROVE Barrier!Init
  OBVIOUS
<1>1. In = {}
  BY DEF Init, In
<1>2. \A l \in Labels : members[l] \ achieved[l] = {}
  BY DEF Init
<1> QED BY <1>1, <1>2 DEF Barrier!Init, Barrier!Nobody, Init

\* Every step of a federate or of the RTI is a step of the barrier, or none.
LEMMA StepRefines == IndInv /\ [Next]_vars => [Barrier!Next]_(Barrier!vars)
<1> SUFFICES ASSUME IndInv, [Next]_vars, ~UNCHANGED Barrier!vars
             PROVE  Barrier!Next
  OBVIOUS
<1>1. CASE UNCHANGED vars
  <2>1. \A g \in Federates, k \in Labels : Held(g, k)' <=> Held(g, k)
    BY <1>1 DEF vars, Held
  <2>2. UNCHANGED <<life, members, achieved>>
    BY <1>1 DEF vars
  <2> QED BY <2>1, <2>2, Stutters
<1>2. ASSUME NEW f \in Federates, Join(f) \/ Leave(f)
      PROVE  Barrier!Next
  BY <1>2, JoinRefines, LeaveRefines DEF Barrier!Next
<1>3. ASSUME NEW f \in Federates, NEW l \in Labels, Inform(f, l) \/ Drop(f, l)
      PROVE  Barrier!Next
  BY <1>3, InformRefines, DropRefines DEF Barrier!Next
<1>4. ASSUME NEW f \in Federates, NEW l \in Labels, RegisterForAll(f, l)
      PROVE  Barrier!Next
  <2>1. PICK set \in SUBSET Federates : set = In
    BY DEF In
  <2>2. MayRegister(f, l) /\ RegisterCall(f, l, set, TRUE) /\ f \in set
    BY <1>4, <2>1 DEF RegisterForAll, RegisterCall, Free, In
  <2>3. Barrier!Open(l, set)
    BY <2>1, <2>2, RegisterRefines
  <2> QED BY <2>3 DEF Barrier!Next
<1>5. ASSUME NEW f \in Federates, NEW l \in Labels, NEW set \in SUBSET In,
             RegisterFor(f, l, set)
      PROVE  Barrier!Next
  <2>1. Barrier!Open(l, set) /\ set \in SUBSET Federates
    BY <1>5, RegisterRefines DEF RegisterFor, In
  <2> QED BY <2>1 DEF Barrier!Next
<1>6. ASSUME NEW f \in Federates, NEW l \in Labels,
             \/ RegisterReturn(f, l) \/ AchieveReturn(f, l)
             \/ Track(f, l) \/ Achieve(f, l)
      PROVE  Barrier!Next
  BY <1>6, ReturnRefines, TrackRefines, AchieveRefines DEF Barrier!Next
<1>7. ASSUME NEW f \in Federates, NEW l \in Labels, Callback(f, l)
      PROVE  Barrier!Next
  BY <1>7, OnRegisteredRefines, OnAnnouncedRefines, OnUnrecognizedRefines,
     OnSynchronizedRefines DEF Callback, Barrier!Next
<1> QED BY <1>1, <1>2, <1>3, <1>4, <1>5, <1>6, <1>7 DEF Next

\* The points of TrickHLA are barriers, for any federates, labels, lists and
\* registrars, and however often the points are used: no SyncPoint object
\* leaves ACHIEVED before every federate expected has come or gone.
THEOREM PointsAreBarriers == Spec => ImplementsBarrier
<1> QED BY InitRefines, Invariance, StepRefines, PTL DEF Spec, ImplementsBarrier, Barrier!Spec
=============================================================================
