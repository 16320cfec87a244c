--------------------------- MODULE OwnershipProofs ---------------------------
(***************************************************************************)
(* Proofs about Ownership, for any federates, attributes, publications,    *)
(* ways to start and bound: the invariant OwnershipInv is inductive, and   *)
(* nobody sends an attribute of another.                                   *)
(*                                                                         *)
(* What the RTI does in a call of f is summed up by RtiStep; a lemma for   *)
(* each call shows that it is one, and the other lemmas need no more of    *)
(* the calls than that.                                                    *)
(***************************************************************************)
EXTENDS Ownership, TLAPS

USE OwnershipAssumption

PerFederate == [Federates -> SUBSET Attributes]

RtiTypeOK ==
  /\ owner \in [Attributes -> Federates \cup {Nobody}]
  /\ acquiring \in [Attributes -> SUBSET Federates]
  /\ offered \subseteq Attributes
  /\ inbox \in [Federates -> Seq(Callbacks)]

\* A notice in the inbox of g is an old one, or the last but what is about other things, of
\* attributes that g has asked for and has just been given.
NoticesAreOfNew(f, asked) == \A g \in Federates : \A i \in DOMAIN inbox'[g] :
  inbox'[g][i].kind = "acquired" =>
    \/ i \in DOMAIN inbox[g] /\ inbox'[g][i] = inbox[g][i]
    \/ /\ i = Len(inbox[g]) + 1
       /\ inbox'[g][i].attrs \subseteq Owned(g)'
       /\ inbox'[g][i].attrs \cap Owned(g) = {}
       /\ \A a \in inbox'[g][i].attrs : g \in acquiring[a] \/ (g = f /\ a \in asked)

\* A call of f: f may lose what is in lost and ask for what is in asked, and nobody else
\* loses or asks for anything.
RtiStep(f, lost, asked) ==
  /\ RtiTypeOK' /\ AcquiringInv'
  /\ \A g \in Federates, a \in Attributes : owner[a] = g => owner'[a] = g \/ (g = f /\ a \in lost)
  /\ \A g \in Federates, a \in Attributes :
       g \in acquiring'[a] => g \in acquiring[a] \/ (g = f /\ a \in asked)
  /\ NoticesAreOfNew(f, asked)

-----------------------------------------------------------------------------
(* The calls.                                                              *)

\* What is appended about one kind is one callback or nothing.
LEMMA AboutType ==
  ASSUME NEW k \in DOMAIN Flag, NEW S \in SUBSET Attributes
  PROVE  /\ About(k, S) \in Seq(Callbacks)
         /\ \A i \in DOMAIN About(k, S) : i = 1 /\ About(k, S)[i] = [kind |-> k, attrs |-> S]
<1>1. CASE S = {}
  BY <1>1 DEF About
<1>2. CASE S # {}
  <2> DEFINE m == [kind |-> k, attrs |-> S]
  <2>1. m \in Callbacks
    BY DEF Callbacks
  <2>2. About(k, S) = <<m>>
    BY <1>2 DEF About
  <2> HIDE DEF m
  <2>3. <<m>> \in Seq(Callbacks) /\ \A i \in DOMAIN <<m>> : i = 1 /\ <<m>>[i] = m
    BY <2>1
  <2> QED BY <2>2, <2>3 DEF m
<1> QED BY <1>1, <1>2

\* Only what Tell appends about new is a notice.
LEMMA TellNotices ==
  ASSUME inbox \in [Federates -> Seq(Callbacks)],
         NEW new \in PerFederate, NEW wanted \in PerFederate, NEW free \in PerFederate,
         Tell(new, wanted, free)
  PROVE  /\ inbox' \in [Federates -> Seq(Callbacks)]
         /\ \A g \in Federates : \A i \in DOMAIN inbox'[g] :
              inbox'[g][i].kind = "acquired" =>
                \/ i \in DOMAIN inbox[g] /\ inbox'[g][i] = inbox[g][i]
                \/ i = Len(inbox[g]) + 1 /\ inbox'[g][i].attrs = new[g]
<1> DEFINE A(g) == About("acquired", new[g])
           B(g) == About("confirm", wanted[g] \cap offered')
           C(g) == About("release", wanted[g] \ offered')
           F(g) == IF Member(g) THEN free[g] \cap Publishes[g] ELSE {}
           D(g) == About("offer", F(g))
<1>1. \A g \in Federates : /\ new[g] \in SUBSET Attributes
                           /\ wanted[g] \cap offered' \in SUBSET Attributes
                           /\ wanted[g] \ offered' \in SUBSET Attributes
                           /\ F(g) \in SUBSET Attributes
  BY DEF PerFederate
<1>2. {"acquired", "confirm", "release", "offer"} \subseteq DOMAIN Flag
  BY DEF Flag
<1>3. ASSUME NEW g \in Federates
      PROVE  /\ A(g) \in Seq(Callbacks) /\ B(g) \in Seq(Callbacks)
             /\ C(g) \in Seq(Callbacks) /\ D(g) \in Seq(Callbacks)
             /\ \A i \in DOMAIN A(g) : i = 1 /\ A(g)[i].attrs = new[g]
             /\ \A i \in DOMAIN B(g) : B(g)[i].kind = "confirm"
             /\ \A i \in DOMAIN C(g) : C(g)[i].kind = "release"
             /\ \A i \in DOMAIN D(g) : D(g)[i].kind = "offer"
  <2>1. A(g) \in Seq(Callbacks) /\ \A i \in DOMAIN A(g) : i = 1 /\ A(g)[i].attrs = new[g]
    BY <1>1, <1>2, AboutType
  <2>2. B(g) \in Seq(Callbacks) /\ \A i \in DOMAIN B(g) : B(g)[i].kind = "confirm"
    BY <1>1, <1>2, AboutType
  <2>3. C(g) \in Seq(Callbacks) /\ \A i \in DOMAIN C(g) : C(g)[i].kind = "release"
    BY <1>1, <1>2, AboutType
  <2>4. D(g) \in Seq(Callbacks) /\ \A i \in DOMAIN D(g) : D(g)[i].kind = "offer"
    BY <1>1, <1>2, AboutType
  <2> QED BY <2>1, <2>2, <2>3, <2>4
<1>4. inbox' = [g \in Federates |-> inbox[g] \o A(g) \o B(g) \o C(g) \o D(g)]
  BY DEF Tell
<1> HIDE DEF A, B, C, D
<1>5. ASSUME NEW g \in Federates
      PROVE  /\ inbox'[g] \in Seq(Callbacks)
             /\ \A i \in DOMAIN inbox'[g] :
                  inbox'[g][i].kind = "acquired" =>
                    \/ i \in DOMAIN inbox[g] /\ inbox'[g][i] = inbox[g][i]
                    \/ i = Len(inbox[g]) + 1 /\ inbox'[g][i].attrs = new[g]
  <2> DEFINE q == inbox[g]
             r == q \o A(g)
             s == r \o B(g)
             t == s \o C(g)
             u == t \o D(g)
  <2>1. inbox'[g] = u /\ q \in Seq(Callbacks)
    BY <1>4
  <2>2. /\ r \in Seq(Callbacks)
        /\ \A i \in DOMAIN r : \/ i \in DOMAIN q /\ r[i] = q[i]
                               \/ i = Len(q) + 1 /\ r[i].attrs = new[g]
    <3> HIDE DEF q
    <3>1. r \in Seq(Callbacks)
      BY <1>3, <2>1
    <3>2. ASSUME NEW i \in DOMAIN r, i \notin DOMAIN q
          PROVE  i = Len(q) + 1 /\ r[i].attrs = new[g]
      <4>1. i - Len(q) \in DOMAIN A(g) /\ r[i] = A(g)[i - Len(q)]
        BY <1>3, <2>1, <3>2
      <4>2. i - Len(q) = 1 /\ A(g)[i - Len(q)].attrs = new[g]
        BY <1>3, <4>1
      <4> QED BY <4>1, <4>2, <2>1, <3>1
    <3>3. ASSUME NEW i \in DOMAIN r, i \in DOMAIN q
          PROVE  r[i] = q[i]
      BY <1>3, <2>1, <3>3
    <3> QED BY <3>1, <3>2, <3>3
  <2>3. /\ s \in Seq(Callbacks)
        /\ \A i \in DOMAIN s : s[i].kind = "acquired" => i \in DOMAIN r /\ s[i] = r[i]
    <3> HIDE DEF r
    <3>1. ASSUME NEW i \in DOMAIN s
          PROVE  \/ i \in DOMAIN r /\ s[i] = r[i]
                 \/ \E j \in DOMAIN B(g) : s[i] = B(g)[j]
      BY <1>3, <2>2
    <3>2. ASSUME NEW i \in DOMAIN s, s[i].kind = "acquired"
          PROVE  i \in DOMAIN r /\ s[i] = r[i]
      BY <3>1, <3>2, <1>3
    <3> QED BY <1>3, <2>2, <3>2
  <2>4. /\ t \in Seq(Callbacks)
        /\ \A i \in DOMAIN t : t[i].kind = "acquired" => i \in DOMAIN s /\ t[i] = s[i]
    <3> HIDE DEF s
    <3>1. ASSUME NEW i \in DOMAIN t
          PROVE  \/ i \in DOMAIN s /\ t[i] = s[i]
                 \/ \E j \in DOMAIN C(g) : t[i] = C(g)[j]
      BY <1>3, <2>3
    <3>2. ASSUME NEW i \in DOMAIN t, t[i].kind = "acquired"
          PROVE  i \in DOMAIN s /\ t[i] = s[i]
      BY <3>1, <3>2, <1>3
    <3> QED BY <1>3, <2>3, <3>2
  <2>5. /\ u \in Seq(Callbacks)
        /\ \A i \in DOMAIN u : u[i].kind = "acquired" => i \in DOMAIN t /\ u[i] = t[i]
    <3> HIDE DEF t
    <3>1. ASSUME NEW i \in DOMAIN u
          PROVE  \/ i \in DOMAIN t /\ u[i] = t[i]
                 \/ \E j \in DOMAIN D(g) : u[i] = D(g)[j]
      BY <1>3, <2>4
    <3>2. ASSUME NEW i \in DOMAIN u, u[i].kind = "acquired"
          PROVE  i \in DOMAIN t /\ u[i] = t[i]
      BY <3>1, <3>2, <1>3
    <3> QED BY <1>3, <2>4, <3>2
  <2> HIDE DEF q, r, s, t, u
  <2>6. ASSUME NEW i \in DOMAIN u, u[i].kind = "acquired"
        PROVE  \/ i \in DOMAIN q /\ u[i] = q[i]
               \/ i = Len(q) + 1 /\ u[i].attrs = new[g]
    <3>1. i \in DOMAIN t /\ u[i] = t[i]
      BY <2>5, <2>6
    <3>2. i \in DOMAIN s /\ u[i] = s[i]
      BY <2>4, <2>6, <3>1
    <3>3. i \in DOMAIN r /\ u[i] = r[i]
      BY <2>3, <2>6, <3>2
    <3> QED BY <2>2, <3>3
  <2> QED BY <2>1, <2>5, <2>6 DEF q
<1>6. inbox' \in [Federates -> Seq(Callbacks)]
  BY <1>4, <1>5
<1> QED BY <1>5, <1>6

\* A call that the RTI refuses.
LEMMA Refused ==
  ASSUME RtiTypeOK, AcquiringInv, UNCHANGED rtiVars, NEW f \in Federates,
         NEW lost, NEW asked
  PROVE  RtiStep(f, lost, asked)
BY DEF RtiTypeOK, AcquiringInv, RtiStep, NoticesAreOfNew, rtiVars

LEMMA AcquireStep ==
  ASSUME RtiTypeOK, AcquiringInv, NEW f \in Federates, NEW S \in SUBSET Attributes,
         Acquire(f, S)
  PROVE  RtiStep(f, {}, S)
<1>1. CASE S \cap Owned(f) # {} \/ ~(S \subseteq Publishes[f])
  <2>1. UNCHANGED rtiVars
    BY <1>1 DEF Acquire
  <2> QED BY <2>1, Refused
<1>2. CASE ~(S \cap Owned(f) # {} \/ ~(S \subseteq Publishes[f]))
  <2> DEFINE free == {a \in S : owner[a] = Nobody}
             New == {a \in S \ free : f \notin acquiring[a]}
             new == [g \in Federates |-> IF g = f THEN free ELSE {}]
             wanted == [g \in Federates |-> New \cap Owned(g)]
             none == [g \in Federates |-> {}]
  <2>1. /\ owner' = [a \in Attributes |-> IF a \in free THEN f ELSE owner[a]]
        /\ acquiring' = [a \in Attributes |->
                           acquiring[a] \cup IF a \in S \ free THEN {f} ELSE {}]
        /\ offered' = offered
        /\ Tell(new, wanted, none)
    BY <1>2 DEF Acquire, All
  <2>2. new \in PerFederate /\ wanted \in PerFederate /\ none \in PerFederate
    BY DEF PerFederate
  <2>3. new[f] = free /\ \A g \in Federates \ {f} : new[g] = {}
    OBVIOUS
  <2> HIDE DEF new, wanted, none
  <2>4. /\ inbox' \in [Federates -> Seq(Callbacks)]
        /\ \A g \in Federates : \A i \in DOMAIN inbox'[g] :
             inbox'[g][i].kind = "acquired" =>
               \/ i \in DOMAIN inbox[g] /\ inbox'[g][i] = inbox[g][i]
               \/ i = Len(inbox[g]) + 1 /\ inbox'[g][i].attrs = new[g]
    BY <2>1, <2>2, TellNotices DEF RtiTypeOK
  <2>5. RtiTypeOK'
    BY <2>1, <2>4 DEF RtiTypeOK
  <2>6. AcquiringInv'
    BY <2>1, <1>2 DEF AcquiringInv, RtiTypeOK, Owned
  <2>7. \A g \in Federates : /\ new[g] \subseteq Owned(g)' /\ new[g] \cap Owned(g) = {}
                              /\ \A a \in new[g] : g = f /\ a \in S
    BY <2>1, <2>3 DEF RtiTypeOK, Owned
  <2>8. NoticesAreOfNew(f, S)
    <3> SUFFICES ASSUME NEW g \in Federates, NEW i \in DOMAIN inbox'[g],
                        inbox'[g][i].kind = "acquired"
                 PROVE  \/ i \in DOMAIN inbox[g] /\ inbox'[g][i] = inbox[g][i]
                        \/ /\ i = Len(inbox[g]) + 1
                           /\ inbox'[g][i].attrs \subseteq Owned(g)'
                           /\ inbox'[g][i].attrs \cap Owned(g) = {}
                           /\ \A a \in inbox'[g][i].attrs : g \in acquiring[a] \/ (g = f /\ a \in S)
      BY DEF NoticesAreOfNew
    <3> QED BY <2>4, <2>7
  <2>9. \A g \in Federates, a \in Attributes : owner[a] = g => owner'[a] = g
    BY <2>1 DEF RtiTypeOK
  <2>10. \A g \in Federates, a \in Attributes :
           g \in acquiring'[a] => g \in acquiring[a] \/ (g = f /\ a \in S)
    BY <2>1 DEF RtiTypeOK
  <2> QED BY <2>5, <2>6, <2>8, <2>9, <2>10 DEF RtiStep
<1> QED BY <1>1, <1>2

LEMMA NegotiateStep ==
  ASSUME RtiTypeOK, AcquiringInv, NEW f \in Federates, NEW S \in SUBSET Attributes,
         Negotiate(f, S)
  PROVE  RtiStep(f, {}, {})
<1>1. CASE ~(S \subseteq Owned(f)) \/ S \cap offered # {}
  <2>1. UNCHANGED rtiVars
    BY <1>1 DEF Negotiate
  <2> QED BY <2>1, Refused
<1>2. CASE ~(~(S \subseteq Owned(f)) \/ S \cap offered # {})
  <2> DEFINE Want == {a \in S : acquiring[a] # {}}
             none == [g \in Federates |-> {}]
             wanted == [g \in Federates |-> IF g = f THEN Want ELSE {}]
             free == [g \in Federates |-> IF g = f THEN {} ELSE S \ Want]
  <2>1. /\ owner' = owner /\ acquiring' = acquiring /\ offered' = offered \cup S
        /\ Tell(none, wanted, free)
    BY <1>2 DEF Negotiate, All
  <2>2. none \in PerFederate /\ wanted \in PerFederate /\ free \in PerFederate
    BY DEF PerFederate
  <2>3. \A g \in Federates : none[g] = {}
    OBVIOUS
  <2> HIDE DEF none, wanted, free
  <2>4. /\ inbox' \in [Federates -> Seq(Callbacks)]
        /\ \A g \in Federates : \A i \in DOMAIN inbox'[g] :
             inbox'[g][i].kind = "acquired" =>
               \/ i \in DOMAIN inbox[g] /\ inbox'[g][i] = inbox[g][i]
               \/ i = Len(inbox[g]) + 1 /\ inbox'[g][i].attrs = none[g]
    BY <2>1, <2>2, TellNotices DEF RtiTypeOK
  <2>5. RtiTypeOK' /\ AcquiringInv'
    BY <2>1, <2>4 DEF RtiTypeOK, AcquiringInv
  <2>6. NoticesAreOfNew(f, {})
    BY <2>3, <2>4 DEF NoticesAreOfNew
  <2> QED BY <2>1, <2>5, <2>6 DEF RtiStep
<1> QED BY <1>1, <1>2

\* What f owns goes to others that have asked for it.
LEMMA HandOverStep ==
  ASSUME RtiTypeOK, AcquiringInv, NEW f \in Federates, NEW S \in SUBSET Owned(f),
         NEW to \in Takers(S), HandOver(S, to)
  PROVE  /\ RtiStep(f, S, {})
         /\ \A a \in S : owner'[a] # f
<1> DEFINE Given(g) == {a \in S : to[a] = g}
           new == [g \in Federates |-> Given(g)]
           wanted == [g \in Federates |-> {a \in Given(g) : acquiring[a] # {g}}]
           none == [g \in Federates |-> {}]
<1>1. /\ owner' = [a \in Attributes |-> IF a \in S THEN to[a] ELSE owner[a]]
      /\ acquiring' = [a \in Attributes |-> acquiring[a] \ IF a \in S THEN {to[a]} ELSE {}]
      /\ offered' = offered \ S
      /\ Tell(new, wanted, none)
  BY DEF HandOver, All
<1>2. /\ S \subseteq Attributes /\ \A a \in S : owner[a] = f
      /\ \A a \in S : to[a] \in Federates /\ to[a] \in acquiring[a] /\ to[a] # f
  BY DEF Takers, AcquiringInv, Owned
<1>3. new \in PerFederate /\ wanted \in PerFederate /\ none \in PerFederate
  BY <1>2 DEF PerFederate
<1>4. \A g \in Federates : new[g] = Given(g)
  OBVIOUS
<1> HIDE DEF new, wanted, none
<1>5. /\ inbox' \in [Federates -> Seq(Callbacks)]
      /\ \A g \in Federates : \A i \in DOMAIN inbox'[g] :
           inbox'[g][i].kind = "acquired" =>
             \/ i \in DOMAIN inbox[g] /\ inbox'[g][i] = inbox[g][i]
             \/ i = Len(inbox[g]) + 1 /\ inbox'[g][i].attrs = new[g]
  BY <1>1, <1>3, TellNotices DEF RtiTypeOK
<1>6. RtiTypeOK'
  BY <1>1, <1>2, <1>5 DEF RtiTypeOK
<1>7. AcquiringInv'
  BY <1>1, <1>2 DEF AcquiringInv, RtiTypeOK
<1>8. \A g \in Federates : /\ new[g] \subseteq Owned(g)' /\ new[g] \cap Owned(g) = {}
                             /\ \A a \in new[g] : g \in acquiring[a]
  <2>1. \A g \in Federates : \A a \in new[g] :
          a \in Attributes /\ owner'[a] = g /\ owner[a] # g /\ g \in acquiring[a]
    BY <1>1, <1>2, <1>4
  <2> QED BY <2>1 DEF Owned
<1>9. NoticesAreOfNew(f, {})
  <2> SUFFICES ASSUME NEW g \in Federates, NEW i \in DOMAIN inbox'[g],
                      inbox'[g][i].kind = "acquired"
               PROVE  \/ i \in DOMAIN inbox[g] /\ inbox'[g][i] = inbox[g][i]
                      \/ /\ i = Len(inbox[g]) + 1
                         /\ inbox'[g][i].attrs \subseteq Owned(g)'
                         /\ inbox'[g][i].attrs \cap Owned(g) = {}
                         /\ \A a \in inbox'[g][i].attrs : g \in acquiring[a]
    BY DEF NoticesAreOfNew
  <2> QED BY <1>5, <1>8
<1>10. \A a \in S : owner'[a] # f
  BY <1>1, <1>2
<1>11. /\ \A g \in Federates, a \in Attributes :
            owner[a] = g => owner'[a] = g \/ (g = f /\ a \in S)
       /\ \A g \in Federates, a \in Attributes : g \in acquiring'[a] => g \in acquiring[a]
  BY <1>1, <1>2 DEF RtiTypeOK
<1> QED BY <1>6, <1>7, <1>9, <1>10, <1>11 DEF RtiStep

\* Of what it confirms f loses what it does not own any more.
LEMMA ConfirmStep ==
  ASSUME RtiTypeOK, AcquiringInv, NEW f \in Federates, NEW S \in SUBSET Owned(f),
         Confirm(f, S)
  PROVE  RtiStep(f, {a \in S : owner'[a] # f}, {})
<1>1. CASE S # {} /\ S \subseteq Owned(f) \cap offered /\ Takers(S) # {}
  <2>1. PICK to \in Takers(S) : HandOver(S, to)
    BY <1>1 DEF Confirm
  <2>2. RtiStep(f, S, {}) /\ \A a \in S : owner'[a] # f
    BY <2>1, HandOverStep
  <2>3. {a \in S : owner'[a] # f} = S
    BY <2>2
  <2> QED BY <2>2, <2>3
<1>2. CASE ~(S # {} /\ S \subseteq Owned(f) \cap offered /\ Takers(S) # {})
  <2>1. UNCHANGED rtiVars
    BY <1>2 DEF Confirm
  <2> QED BY <2>1, Refused
<1> QED BY <1>1, <1>2

LEMMA DivestStep ==
  ASSUME RtiTypeOK, AcquiringInv, NEW f \in Federates, NEW S \in SUBSET Attributes,
         DivestIfWanted(f, S)
  PROVE  RtiStep(f, Wanted(f, S), {}) /\ Wanted(f, S) \subseteq S
<1>1. Wanted(f, S) \in SUBSET Owned(f) /\ Wanted(f, S) \subseteq S
  BY DEF Wanted
<1>2. PICK to \in Takers(Wanted(f, S)) : HandOver(Wanted(f, S), to)
  BY DEF DivestIfWanted
<1> QED BY <1>1, <1>2, HandOverStep

\* A federate that leaves loses everything.
LEMMA RemoveStep ==
  ASSUME RtiTypeOK, AcquiringInv, NEW f \in Federates, RtiRemove(f)
  PROVE  RtiStep(f, Owned(f), {}) /\ Owned(f)' = {}
<1> DEFINE left == [a \in Attributes |-> acquiring[a] \ {f}]
           want == {a \in Owned(f) : left[a] # {}}
           none == [g \in Federates |-> {}]
<1>1. PICK to \in [want -> Federates] :
        /\ \A a \in want : to[a] \in left[a]
        /\ owner' = [a \in Attributes |-> IF a \in want THEN to[a]
                                          ELSE IF owner[a] = f THEN Nobody ELSE owner[a]]
        /\ acquiring' = [a \in Attributes |-> left[a] \ IF a \in want THEN {to[a]} ELSE {}]
        /\ offered' = offered \ Owned(f)
        /\ LET Given(g) == {a \in want : to[a] = g}
           IN  Tell([g \in Federates |-> Given(g)],
                    [g \in Federates |-> {a \in Given(g) : left[a] # {g}}],
                    [g \in Federates |-> IF g = f THEN {} ELSE Owned(f) \ want])
  BY DEF RtiRemove
<1> DEFINE Given(g) == {a \in want : to[a] = g}
           new == [g \in Federates |-> Given(g)]
           wanted == [g \in Federates |-> {a \in Given(g) : left[a] # {g}}]
           free == [g \in Federates |-> IF g = f THEN {} ELSE Owned(f) \ want]
<1>2. Tell(new, wanted, free)
  BY <1>1
<1>3. /\ want \subseteq Attributes /\ \A a \in want : owner[a] = f
      /\ \A a \in want : to[a] \in Federates /\ to[a] \in acquiring[a] /\ to[a] # f
  BY <1>1 DEF Owned
<1>4. new \in PerFederate /\ wanted \in PerFederate /\ free \in PerFederate
  BY <1>3 DEF PerFederate, Owned
<1>5. \A g \in Federates : new[g] = Given(g)
  OBVIOUS
<1> HIDE DEF new, wanted, free
<1>6. /\ inbox' \in [Federates -> Seq(Callbacks)]
      /\ \A g \in Federates : \A i \in DOMAIN inbox'[g] :
           inbox'[g][i].kind = "acquired" =>
             \/ i \in DOMAIN inbox[g] /\ inbox'[g][i] = inbox[g][i]
             \/ i = Len(inbox[g]) + 1 /\ inbox'[g][i].attrs = new[g]
  BY <1>2, <1>4, TellNotices DEF RtiTypeOK
<1>7. RtiTypeOK'
  BY <1>1, <1>3, <1>6 DEF RtiTypeOK
<1>8. AcquiringInv'
  BY <1>1, <1>3 DEF AcquiringInv, RtiTypeOK, Owned
<1>9. \A g \in Federates : /\ new[g] \subseteq Owned(g)' /\ new[g] \cap Owned(g) = {}
                             /\ \A a \in new[g] : g \in acquiring[a]
  <2> HIDE DEF want
  <2>1. \A g \in Federates : \A a \in new[g] : a \in want /\ to[a] = g
    BY <1>5
  <2>2. \A a \in want : owner'[a] = to[a]
    BY <1>1, <1>3
  <2>3. \A g \in Federates : \A a \in new[g] :
          a \in Attributes /\ owner'[a] = g /\ owner[a] # g /\ g \in acquiring[a]
    BY <2>1, <2>2, <1>3
  <2> QED BY <2>3 DEF Owned
<1>10. NoticesAreOfNew(f, {})
  <2> SUFFICES ASSUME NEW g \in Federates, NEW i \in DOMAIN inbox'[g],
                      inbox'[g][i].kind = "acquired"
               PROVE  \/ i \in DOMAIN inbox[g] /\ inbox'[g][i] = inbox[g][i]
                      \/ /\ i = Len(inbox[g]) + 1
                         /\ inbox'[g][i].attrs \subseteq Owned(g)'
                         /\ inbox'[g][i].attrs \cap Owned(g) = {}
                         /\ \A a \in inbox'[g][i].attrs : g \in acquiring[a]
    BY DEF NoticesAreOfNew
  <2> QED BY <1>6, <1>9
<1>11. Owned(f)' = {}
  BY <1>1, <1>3 DEF RtiTypeOK, Owned
<1>12. /\ \A g \in Federates, a \in Attributes :
            owner[a] = g => owner'[a] = g \/ (g = f /\ a \in Owned(f))
       /\ \A g \in Federates, a \in Attributes : g \in acquiring'[a] => g \in acquiring[a]
  BY <1>1, <1>3 DEF RtiTypeOK, Owned
<1> QED BY <1>7, <1>8, <1>10, <1>11, <1>12 DEF RtiStep

-----------------------------------------------------------------------------
(* What every step of f that calls the RTI, or none, has to keep.          *)

LocalTypeOK ==
  /\ pc \in [Federates -> Pcs]
  /\ local \in [Federates -> SUBSET Attributes] /\ out \in [Federates -> SUBSET Attributes]
  /\ pulls \in [Federates -> SUBSET Attributes] /\ pushes \in [Federates -> SUBSET Attributes]
  /\ divesting \in [Federates -> SUBSET Attributes]
  /\ pulled \in [Federates -> SUBSET Attributes]
  /\ pushed \in [Federates -> SUBSET Attributes]
  /\ divestRequested \in [Federates -> BOOLEAN]
  /\ pullRequested \in [Federates -> BOOLEAN] /\ acquired \in [Federates -> BOOLEAN]
  /\ flagged \in [Federates -> {Flag[k] : k \in DOMAIN Flag}]
  /\ threads \in [Federates -> SUBSET Threads]
  /\ asks \in 0..MaxAsks

LEMMA TypesSplit == TypeOK <=> LocalTypeOK /\ RtiTypeOK
BY DEF TypeOK, LocalTypeOK, RtiTypeOK

\* Nothing changes for the other federates.
Others(f) == \A g \in Federates \ {f} :
  pc'[g] = pc[g] /\ local'[g] = local[g] /\ out'[g] = out[g] /\ threads'[g] = threads[g]

\* What f believes after the step is owned or being given away; what it has lost it believed
\* in; and what it still believes in wrongly it has not asked for.
Believes(f, lost, asked) ==
  /\ pc'[f] # "rejoin" => local'[f] \subseteq Owned(f)' \cup Giving(f)'
  /\ pc'[f] # "gone" => lost \subseteq local[f] \ Giving(f)
  /\ local'[f] \subseteq local[f] /\ local'[f] \cap Giving(f) \subseteq Giving(f)'
  /\ \A a \in local'[f] : a \in Owned(f) \cup Giving(f) \/ (f \notin acquiring[a] /\ a \notin asked)
  /\ pc'[f] = "rejoin" => pc[f] = "rejoin" /\ lost = {}
  /\ pc'[f] = "rejoin" => \A t \in threads'[f] :
       t.kind = "acquire" => t \in threads[f] \/ t.attrs \cap local[f] = {}

LEMMA StepKeeps ==
  ASSUME OwnershipInv, NEW f \in Federates, NEW lost, NEW asked,
         RtiStep(f, lost, asked), Others(f), Believes(f, lost, asked),
         LocalTypeOK', NoLostDivest',
         \A g \in Federates : pc'[g] # "gone" => pc[g] # "gone"
  PROVE  OwnershipInv'
<1>1. LocalTypeOK /\ RtiTypeOK
  BY TypesSplit DEF OwnershipInv
<1>2. BeliefInv /\ NoticeInv /\ RejoinInv
  BY DEF OwnershipInv
<1>3. RtiTypeOK' /\ AcquiringInv'
  BY DEF RtiStep
<1>4. TypeOK'
  BY <1>3 DEF TypeOK, LocalTypeOK, RtiTypeOK
<1>5. ASSUME NEW g \in Federates, g # f
      PROVE  Owned(g) \subseteq Owned(g)' /\ Giving(g)' = Giving(g)
  BY <1>5 DEF RtiStep, Others, Owned, Giving
<1>6. Owned(f) \ lost \subseteq Owned(f)'
  BY DEF RtiStep, Owned
<1>7. BeliefInv'
  <2> SUFFICES ASSUME NEW g \in Federates, pc'[g] # "rejoin"
               PROVE  local'[g] \subseteq Owned(g)' \cup Giving(g)'
    BY DEF BeliefInv
  <2>1. CASE g = f
    BY <2>1 DEF Believes
  <2>2. CASE g # f
    <3>1. local[g] \subseteq Owned(g) \cup Giving(g)
      BY <1>2, <2>2 DEF BeliefInv, Others
    <3> QED BY <3>1, <2>2, <1>5 DEF Others
  <2> QED BY <2>1, <2>2
<1>8. NoticeInv'
  <2> SUFFICES ASSUME NEW g \in Federates, pc'[g] # "gone", NEW i \in DOMAIN inbox'[g],
                      inbox'[g][i].kind = "acquired"
               PROVE  /\ inbox'[g][i].attrs \subseteq Owned(g)'
                      /\ inbox'[g][i].attrs \cap local'[g] \subseteq Giving(g)'
                      /\ \A j \in DOMAIN inbox'[g] :
                           inbox'[g][j].kind = "acquired" /\ j # i =>
                             inbox'[g][i].attrs \cap inbox'[g][j].attrs = {}
    BY DEF NoticeInv, Member
  <2>1. pc[g] # "gone"
    OBVIOUS
  <2>2. /\ local'[g] \subseteq local[g] /\ local'[g] \cap Giving(g) \subseteq Giving(g)'
        /\ \A a \in local'[g] :
             \/ a \in Owned(g) \cup Giving(g)
             \/ g \notin acquiring[a] /\ ~(g = f /\ a \in asked)
    <3>1. CASE g = f
      BY <3>1 DEF Believes
    <3>2. CASE g # f
      <4>1. CASE pc[g] = "rejoin"
        BY <4>1, <3>2, <1>2, <1>5 DEF RejoinInv, Others
      <4>2. CASE pc[g] # "rejoin"
        BY <4>2, <3>2, <1>2, <1>5 DEF BeliefInv, Others
      <4> QED BY <4>1, <4>2
    <3> QED BY <3>1, <3>2
  <2>3. ASSUME NEW j \in DOMAIN inbox'[g], inbox'[g][j].kind = "acquired"
        PROVE  \/ /\ j \in DOMAIN inbox[g] /\ inbox'[g][j] = inbox[g][j]
                  /\ inbox[g][j].attrs \subseteq Owned(g)
                  /\ inbox[g][j].attrs \cap local[g] \subseteq Giving(g)
               \/ /\ j = Len(inbox[g]) + 1
                  /\ inbox'[g][j].attrs \subseteq Owned(g)'
                  /\ inbox'[g][j].attrs \cap Owned(g) = {}
                  /\ \A a \in inbox'[g][j].attrs : g \in acquiring[a] \/ (g = f /\ a \in asked)
    <3>1. CASE j \in DOMAIN inbox[g] /\ inbox'[g][j] = inbox[g][j]
      BY <3>1, <2>3, <2>1, <1>2 DEF NoticeInv, Member
    <3>2. CASE ~(j \in DOMAIN inbox[g] /\ inbox'[g][j] = inbox[g][j])
      BY <3>2, <2>3 DEF RtiStep, NoticesAreOfNew
    <3> QED BY <3>1, <3>2
  <2>4. inbox'[g][i].attrs \subseteq Owned(g)'
    <3>1. CASE /\ i \in DOMAIN inbox[g] /\ inbox'[g][i] = inbox[g][i]
               /\ inbox[g][i].attrs \subseteq Owned(g)
               /\ inbox[g][i].attrs \cap local[g] \subseteq Giving(g)
      <4>1. CASE g = f
        <5>1. lost \subseteq local[f] \ Giving(f)
          BY <4>1 DEF Believes
        <5> QED BY <5>1, <4>1, <3>1, <1>6
      <4>2. CASE g # f
        BY <4>2, <3>1, <1>5
      <4> QED BY <4>1, <4>2
    <3> QED BY <3>1, <2>3
  <2>5. inbox'[g][i].attrs \cap local'[g] \subseteq Giving(g)'
    BY <2>2, <2>3
  <2>6. ASSUME NEW j \in DOMAIN inbox'[g], inbox'[g][j].kind = "acquired", j # i
        PROVE  inbox'[g][i].attrs \cap inbox'[g][j].attrs = {}
    <3>1. CASE /\ i \in DOMAIN inbox[g] /\ inbox'[g][i] = inbox[g][i]
               /\ j \in DOMAIN inbox[g] /\ inbox'[g][j] = inbox[g][j]
      BY <3>1, <2>6, <2>1, <1>2 DEF NoticeInv, Member
    <3>2. CASE ~(/\ i \in DOMAIN inbox[g] /\ inbox'[g][i] = inbox[g][i]
                 /\ j \in DOMAIN inbox[g] /\ inbox'[g][j] = inbox[g][j])
      <4>1. \/ i = Len(inbox[g]) + 1 /\ inbox'[g][i].attrs \cap Owned(g) = {}
            \/ inbox'[g][i].attrs \subseteq Owned(g) /\ i \in DOMAIN inbox[g] /\ inbox'[g][i] = inbox[g][i]
        BY <2>3
      <4>2. \/ j = Len(inbox[g]) + 1 /\ inbox'[g][j].attrs \cap Owned(g) = {}
            \/ inbox'[g][j].attrs \subseteq Owned(g) /\ j \in DOMAIN inbox[g] /\ inbox'[g][j] = inbox[g][j]
        BY <2>3, <2>6
      <4> QED BY <4>1, <4>2, <3>2, <2>6
    <3> QED BY <3>1, <3>2
  <2> QED BY <2>4, <2>5, <2>6
<1>9. RejoinInv'
  <2> SUFFICES ASSUME NEW g \in Federates, pc'[g] = "rejoin", NEW a \in local'[g] \ Owned(g)'
               PROVE  /\ g \notin acquiring'[a]
                      /\ \A t \in threads'[g] : t.kind = "acquire" => a \notin t.attrs
    BY DEF RejoinInv
  <2>1. pc[g] = "rejoin" /\ a \in local[g] \ Owned(g) /\ a \in Attributes
    <3>1. CASE g = f
      <4>1. a \in local[f] /\ lost = {} /\ pc[f] = "rejoin" /\ a \notin Owned(f)
        BY <3>1, <1>6 DEF Believes
      <4> QED BY <4>1, <3>1, <1>1 DEF LocalTypeOK
    <3>2. CASE g # f
      BY <3>2, <1>5, <1>1 DEF Others, LocalTypeOK
    <3> QED BY <3>1, <3>2
  <2>2. g \notin acquiring[a] /\ \A t \in threads[g] : t.kind = "acquire" => a \notin t.attrs
    BY <2>1, <1>2 DEF RejoinInv
  <2>3. ~(g = f /\ a \in asked)
    <3>1. Giving(g) = {}
      BY <2>1 DEF Giving
    <3> QED BY <3>1, <2>1 DEF Believes
  <2>4. g \notin acquiring'[a]
    BY <2>1, <2>2, <2>3 DEF RtiStep
  <2>5. ASSUME NEW t \in threads'[g], t.kind = "acquire"
        PROVE  a \notin t.attrs
    <3>1. CASE g = f
      BY <3>1, <2>5, <2>2, <2>1 DEF Believes
    <3>2. CASE g # f
      BY <3>2, <2>5, <2>2 DEF Others
    <3> QED BY <3>1, <3>2
  <2> QED BY <2>4, <2>5
<1> QED BY <1>3, <1>4, <1>7, <1>8, <1>9 DEF OwnershipInv

\* A callback changes what f believes only by the attributes it has been given.
LEMMA CallbackKeeps ==
  ASSUME OwnershipInv, NEW f \in Federates, NEW S \in SUBSET Attributes, NEW k,
         Callback(f, k, S), LocalTypeOK', NoLostDivest',
         local[f] \subseteq local'[f],
         \A a \in local'[f] \ local[f] : k = "acquired" /\ a \in S,
         \A t \in threads'[f] : t.kind = "acquire" => t \in threads[f],
         \A g \in Federates \ {f} : local'[g] = local[g] /\ threads'[g] = threads[g]
  PROVE  OwnershipInv'
<1>1. LocalTypeOK /\ RtiTypeOK /\ BeliefInv /\ NoticeInv /\ AcquiringInv /\ RejoinInv
  BY TypesSplit DEF OwnershipInv
<1>2. /\ pc' = pc /\ out' = out /\ owner' = owner /\ acquiring' = acquiring
      /\ offered' = offered /\ pc[f] # "gone"
      /\ inbox[f] # << >> /\ Head(inbox[f]).kind = k /\ S = Head(inbox[f]).attrs
      /\ inbox' = [inbox EXCEPT ![f] = Tail(@)]
  BY DEF Callback, Member
<1>3. \A g \in Federates : Owned(g)' = Owned(g) /\ Giving(g)' = Giving(g)
  BY <1>2 DEF Owned, Giving
<1>4. inbox[f] \in Seq(Callbacks) /\ Len(inbox[f]) > 0 /\ 1 \in DOMAIN inbox[f]
  BY <1>1, <1>2 DEF RtiTypeOK
<1>5. RtiTypeOK' /\ AcquiringInv'
  BY <1>1, <1>2, <1>4 DEF RtiTypeOK, AcquiringInv
<1>6. TypeOK'
  BY <1>5 DEF TypeOK, LocalTypeOK, RtiTypeOK
<1>7. inbox[f][1] = Head(inbox[f])
  BY <1>4
<1>8. \A a \in local'[f] \ local[f] : a \in Owned(f)
  <2>1. ASSUME k = "acquired"
        PROVE  S \subseteq Owned(f)
    BY <2>1, <1>1, <1>2, <1>4, <1>7 DEF NoticeInv, Member
  <2> QED BY <2>1
<1>9. BeliefInv'
  <2> SUFFICES ASSUME NEW g \in Federates, pc'[g] # "rejoin"
               PROVE  local'[g] \subseteq Owned(g)' \cup Giving(g)'
    BY DEF BeliefInv
  <2>1. local[g] \subseteq Owned(g) \cup Giving(g)
    BY <1>1, <1>2 DEF BeliefInv
  <2> QED BY <2>1, <1>3, <1>8
<1>10. RejoinInv'
  <2> SUFFICES ASSUME NEW g \in Federates, pc'[g] = "rejoin", NEW a \in local'[g] \ Owned(g)'
               PROVE  /\ g \notin acquiring'[a]
                      /\ \A t \in threads'[g] : t.kind = "acquire" => a \notin t.attrs
    BY DEF RejoinInv
  <2>1. a \in local[g] \ Owned(g) /\ pc[g] = "rejoin"
    BY <1>2, <1>3, <1>8
  <2> QED BY <2>1, <1>1, <1>2 DEF RejoinInv
<1>11. NoticeInv'
  <2> SUFFICES ASSUME NEW g \in Federates, pc'[g] # "gone", NEW i \in DOMAIN inbox'[g],
                      inbox'[g][i].kind = "acquired"
               PROVE  /\ inbox'[g][i].attrs \subseteq Owned(g)
                      /\ inbox'[g][i].attrs \cap local'[g] \subseteq Giving(g)
                      /\ \A j \in DOMAIN inbox'[g] :
                           inbox'[g][j].kind = "acquired" /\ j # i =>
                             inbox'[g][i].attrs \cap inbox'[g][j].attrs = {}
    BY <1>3 DEF NoticeInv, Member
  <2>1. CASE g # f
    BY <2>1, <1>1, <1>2 DEF NoticeInv, Member, RtiTypeOK
  <2>2. CASE g = f
    <3>1. \A j \in DOMAIN inbox'[f] : j + 1 \in DOMAIN inbox[f] /\ inbox'[f][j] = inbox[f][j + 1] /\ j + 1 # 1
      BY <1>1, <1>2, <1>4 DEF RtiTypeOK
    <3>2. /\ inbox[f][i + 1].attrs \subseteq Owned(f)
          /\ inbox[f][i + 1].attrs \cap local[f] \subseteq Giving(f)
          /\ \A j \in DOMAIN inbox[f] :
               inbox[f][j].kind = "acquired" /\ j # i + 1 =>
                 inbox[f][i + 1].attrs \cap inbox[f][j].attrs = {}
      BY <2>2, <3>1, <1>1, <1>2 DEF NoticeInv, Member
    <3>3. ASSUME k = "acquired"
          PROVE  inbox[f][i + 1].attrs \cap S = {}
      BY <3>1, <3>2, <3>3, <2>2, <1>2, <1>4, <1>7
    <3>4. inbox'[f][i].attrs \cap local'[f] \subseteq Giving(f)
      BY <3>1, <3>2, <3>3, <2>2
    <3>5. ASSUME NEW j \in DOMAIN inbox'[f], inbox'[f][j].kind = "acquired", j # i
          PROVE  inbox'[f][i].attrs \cap inbox'[f][j].attrs = {}
      <4>1. j \in Int /\ i \in Int
        BY <2>2, <1>1, <1>2, <1>4 DEF RtiTypeOK
      <4>2. j + 1 # i + 1
        BY <4>1, <3>5
      <4> QED BY <4>2, <3>1, <3>2, <3>5, <2>2
    <3> QED BY <2>2, <3>1, <3>2, <3>4, <3>5
  <2> QED BY <2>1, <2>2
<1> QED BY <1>5, <1>6, <1>9, <1>10, <1>11 DEF OwnershipInv

LEMMA CallbackingInv ==
  ASSUME OwnershipInv, NEW f \in Federates, Callbacking(f)
  PROVE  OwnershipInv'
<1>1. LocalTypeOK /\ RtiTypeOK /\ NoLostDivest
  BY TypesSplit DEF OwnershipInv
<1>2. "divest" \in {Flag[k] : k \in DOMAIN Flag} /\ "pull" \in {Flag[k] : k \in DOMAIN Flag}
      /\ "acquired" \in {Flag[k] : k \in DOMAIN Flag} /\ "none" \in {Flag[k] : k \in DOMAIN Flag}
  <2>1. /\ Flag["confirm"] = "divest" /\ Flag["release"] = "pull"
        /\ Flag["acquired"] = "acquired" /\ Flag["offer"] = "none"
        /\ {"confirm", "release", "acquired", "offer"} \subseteq DOMAIN Flag
    BY DEF Flag
  <2> QED BY <2>1
<1>3. CASE FlagDivest(f)
  <2>1. PICK S \in SUBSET Attributes :
          /\ Callback(f, "confirm", S)
          /\ divesting' = [divesting EXCEPT ![f] = @ \cup (S \cap local[f])]
          /\ flagged' = [flagged EXCEPT ![f] = IF S \cap local[f] # {} THEN "divest" ELSE @]
          /\ UNCHANGED <<local, threads, pulled, pushed>>
    BY <1>3 DEF FlagDivest
  <2>2. LocalTypeOK'
    BY <1>1, <1>2, <2>1 DEF LocalTypeOK, Callback
  <2>3. NoLostDivest'
    BY <1>1, <2>1 DEF LocalTypeOK, Callback, NoLostDivest, Flagging
  <2> QED BY <2>1, <2>2, <2>3, CallbackKeeps
<1>4. CASE FlagPull(f)
  <2>1. PICK S \in SUBSET Attributes :
          /\ Callback(f, "release", S)
          /\ pulled' = [pulled EXCEPT ![f] = @ \cup (S \cap local[f])]
          /\ flagged' = [flagged EXCEPT ![f] = IF S \cap local[f] # {} THEN "pull" ELSE @]
          /\ UNCHANGED <<local, threads, divesting, pushed>>
    BY <1>4 DEF FlagPull
  <2>2. LocalTypeOK'
    BY <1>1, <1>2, <2>1 DEF LocalTypeOK, Callback
  <2>3. NoLostDivest'
    BY <1>1, <2>1 DEF LocalTypeOK, Callback, NoLostDivest, Flagging
  <2> QED BY <2>1, <2>2, <2>3, CallbackKeeps
<1>5. CASE MarkAcquired(f)
  <2>1. PICK S \in SUBSET Attributes :
          /\ Callback(f, "acquired", S)
          /\ local' = [local EXCEPT ![f] = @ \cup ((S \ local[f]) \cap Publishes[f])]
          /\ flagged' = [flagged EXCEPT ![f] =
               IF (S \ local[f]) \cap Publishes[f] # {} THEN "acquired" ELSE @]
          /\ UNCHANGED <<threads, divesting, pulled, pushed>>
    BY <1>5 DEF MarkAcquired
  <2>2. LocalTypeOK'
    BY <1>1, <1>2, <2>1 DEF LocalTypeOK, Callback
  <2>3. NoLostDivest'
    BY <1>1, <2>1 DEF LocalTypeOK, Callback, NoLostDivest, Flagging
  <2>4. /\ local[f] \subseteq local'[f] /\ \A a \in local'[f] \ local[f] : a \in S
        /\ \A g \in Federates \ {f} : local'[g] = local[g]
    BY <1>1, <2>1 DEF LocalTypeOK
  <2> QED BY <2>1, <2>2, <2>3, <2>4, CallbackKeeps
<1>6. CASE FlagPush(f)
  <2>1. PICK S \in SUBSET Attributes :
          /\ Callback(f, "offer", S)
          /\ pushed' = [pushed EXCEPT ![f] = @ \cup ((S \ local[f]) \cap Publishes[f])]
          /\ threads' = [threads EXCEPT ![f] = @ \cup {[kind |-> "accept", attrs |-> {}]}]
          /\ UNCHANGED <<local, flagged, divesting, pulled>>
    BY <1>6 DEF FlagPush
  <2>2. [kind |-> "accept", attrs |-> {}] \in Threads
    BY DEF Threads
  <2>3. LocalTypeOK'
    BY <1>1, <2>1, <2>2 DEF LocalTypeOK, Callback
  <2>4. NoLostDivest'
    BY <1>1, <2>1 DEF Callback, NoLostDivest
  <2>5. /\ \A t \in threads'[f] : t.kind = "acquire" => t \in threads[f]
        /\ \A g \in Federates \ {f} : threads'[g] = threads[g]
    BY <1>1, <2>1 DEF LocalTypeOK
  <2> QED BY <2>1, <2>3, <2>4, <2>5, CallbackKeeps
<1>7. CASE FlagObject(f)
  <2>1. UNCHANGED <<pc, local, out, threads, rtiVars>>
    BY <1>7 DEF FlagObject, fedVars
  <2>2. LocalTypeOK' /\ NoLostDivest'
    BY <1>1, <1>2, <1>7 DEF FlagObject, fedVars, LocalTypeOK, NoLostDivest, Flagging
  <2>3. RtiStep(f, {}, {})
    BY <1>1, <2>1, Refused DEF OwnershipInv
  <2>4. Others(f)
    BY <2>1 DEF Others
  <2>5. Believes(f, {}, {})
    <3>1. Owned(f)' = Owned(f) /\ Giving(f)' = Giving(f)
      BY <2>1 DEF Owned, Giving, rtiVars
    <3>2. pc[f] # "rejoin" => local[f] \subseteq Owned(f) \cup Giving(f)
      BY DEF OwnershipInv, BeliefInv
    <3>3. pc[f] = "rejoin" => \A a \in local[f] : a \in Owned(f) \/ f \notin acquiring[a]
      BY DEF OwnershipInv, RejoinInv
    <3> QED BY <2>1, <3>1, <3>2, <3>3 DEF Believes
  <2> QED BY <2>1, <2>2, <2>3, <2>4, <2>5, StepKeeps
<1> QED BY <1>3, <1>4, <1>5, <1>6, <1>7 DEF Callbacking

-----------------------------------------------------------------------------
(* The actions of the threads and of the main thread.                      *)

\* What OwnershipInv says of one federate.
LEMMA BeliefOf ==
  ASSUME OwnershipInv, NEW f \in Federates
  PROVE  /\ pc[f] # "rejoin" => local[f] \subseteq Owned(f) \cup Giving(f)
         /\ pc[f] = "rejoin" => \A a \in local[f] \ Owned(f) :
              f \notin acquiring[a] /\ \A t \in threads[f] : t.kind = "acquire" => a \notin t.attrs
BY DEF OwnershipInv, BeliefInv, RejoinInv

\* A step that changes nothing of what f believes, is doing or has given.
LEMMA BeliefStays ==
  ASSUME OwnershipInv, NEW f \in Federates, NEW asked, RtiStep(f, {}, asked),
         UNCHANGED <<pc, local, out>>,
         pc[f] = "rejoin" => asked \cap (local[f] \ Owned(f)) = {},
         \A t \in threads'[f] : t.kind = "acquire" => t \in threads[f] \/ t.attrs \cap local[f] = {}
  PROVE  Believes(f, {}, asked)
<1>1. Owned(f) \subseteq Owned(f)' /\ Giving(f)' = Giving(f)
  BY DEF RtiStep, Owned, Giving
<1>2. pc[f] = "rejoin" =>
        \A a \in local[f] : a \in Owned(f) \/ (f \notin acquiring[a] /\ a \notin asked)
  BY BeliefOf
<1> QED BY <1>1, <1>2, BeliefOf DEF Believes

LEMMA ThreadingInv ==
  ASSUME OwnershipInv, NEW f \in Federates, Threading(f)
  PROVE  OwnershipInv'
<1>1. LocalTypeOK /\ RtiTypeOK /\ NoLostDivest /\ AcquiringInv
  BY TypesSplit DEF OwnershipInv
<1>2. CASE NegotiateDivestiture(f)
  <2>1. PICK t \in threads[f] :
          /\ Negotiate(f, t.attrs)
          /\ threads' = [threads EXCEPT ![f] = @ \ {t}]
          /\ UNCHANGED <<pc, local, pulls, pushes, out, flagVars, flagged, asks>>
    BY <1>2 DEF NegotiateDivestiture
  <2>2. t.attrs \in SUBSET Attributes
    BY <1>1 DEF LocalTypeOK, Threads
  <2>3. RtiStep(f, {}, {})
    BY <1>1, <2>1, <2>2, NegotiateStep
  <2>4. LocalTypeOK' /\ NoLostDivest' /\ Others(f) /\ threads'[f] \subseteq threads[f]
    BY <1>1, <2>1 DEF LocalTypeOK, NoLostDivest, Others, flagVars
  <2>5. Believes(f, {}, {})
    BY <2>1, <2>3, <2>4, BeliefStays
  <2> QED BY <2>1, <2>3, <2>4, <2>5, StepKeeps
<1>3. CASE AcceptPush(f)
  <2> DEFINE S == pushed[f] \ local[f]
             new == [kind |-> "acquire", attrs |-> S]
  <2>1. PICK t \in threads[f] :
          /\ threads' = [threads EXCEPT ![f] = (@ \ {t}) \cup IF S = {} THEN {} ELSE {new}]
          /\ pushed' = [pushed EXCEPT ![f] = {}]
          /\ UNCHANGED <<pc, local, pulls, pushes, out, divesting, divestRequested, pulled,
                         pullRequested, acquired, flagged, rtiVars, asks>>
    BY <1>3 DEF AcceptPush
  <2>2. new \in Threads
    BY <1>1 DEF LocalTypeOK, Threads
  <2>3. RtiStep(f, {}, {})
    BY <1>1, <2>1, Refused
  <2>4. LocalTypeOK' /\ NoLostDivest' /\ Others(f)
    <3> HIDE DEF new
    <3> QED BY <1>1, <2>1, <2>2 DEF LocalTypeOK, NoLostDivest, Others
  <2>5. \A u \in threads'[f] : u \in threads[f] \/ u.attrs \cap local[f] = {}
    BY <1>1, <2>1 DEF LocalTypeOK
  <2>6. Believes(f, {}, {})
    BY <2>1, <2>3, <2>5, BeliefStays
  <2> QED BY <2>1, <2>3, <2>4, <2>6, StepKeeps
<1>4. CASE AcquirePushed(f)
  <2>1. PICK t \in threads[f] :
          /\ t.kind = "acquire"
          /\ Acquire(f, t.attrs)
          /\ threads' = [threads EXCEPT ![f] = @ \ {t}]
          /\ UNCHANGED <<pc, local, pulls, pushes, out, flagVars, flagged, asks>>
    BY <1>4 DEF AcquirePushed
  <2>2. t.attrs \in SUBSET Attributes
    BY <1>1 DEF LocalTypeOK, Threads
  <2>3. RtiStep(f, {}, t.attrs)
    BY <1>1, <2>1, <2>2, AcquireStep
  <2>4. LocalTypeOK' /\ NoLostDivest' /\ Others(f) /\ threads'[f] \subseteq threads[f]
    BY <1>1, <2>1 DEF LocalTypeOK, NoLostDivest, Others, flagVars
  <2>5. pc[f] = "rejoin" => t.attrs \cap (local[f] \ Owned(f)) = {}
    BY <2>1, BeliefOf
  <2>6. Believes(f, {}, t.attrs)
    BY <2>1, <2>3, <2>4, <2>5, BeliefStays
  <2> QED BY <2>1, <2>3, <2>4, <2>6, StepKeeps
<1> QED BY <1>2, <1>3, <1>4 DEF Threading

\* A step of the main thread that only goes on, and may start a thread.
LEMMA GoOn ==
  ASSUME OwnershipInv, NEW f \in Federates, NEW p \in Pcs \ {"rejoin", "gone"}, Goto(f, p),
         NEW asked, RtiStep(f, {}, asked), Giving(f) = {}, pc[f] \notin {"rejoin", "gone"},
         UNCHANGED local, out' = [out EXCEPT ![f] = {}] \/ UNCHANGED out,
         LocalTypeOK', NoLostDivest', \A g \in Federates \ {f} : threads'[g] = threads[g]
  PROVE  OwnershipInv'
<1>1. LocalTypeOK
  BY TypesSplit DEF OwnershipInv
<1>2. pc'[f] = p /\ \A g \in Federates \ {f} : pc'[g] = pc[g]
  BY <1>1 DEF Goto, LocalTypeOK
<1>3. Others(f) /\ \A g \in Federates : pc'[g] # "gone" => pc[g] # "gone"
  BY <1>1, <1>2 DEF Others, LocalTypeOK
<1>4. local[f] \subseteq Owned(f) /\ Owned(f) \subseteq Owned(f)'
  BY BeliefOf DEF RtiStep, Owned
<1>5. Believes(f, {}, asked)
  BY <1>2, <1>4 DEF Believes
<1> QED BY <1>3, <1>5, StepKeeps

\* The flags of the object are taken, and what is given away is noted in out.
LEMMA GiveAway ==
  ASSUME OwnershipInv, NEW f \in Federates,
         NEW p \in {"confirmed", "granted", "confirmedAtInit", "grantedAtInit"}, Goto(f, p),
         NEW lost \in SUBSET local[f], RtiStep(f, lost, {}), out' = [out EXCEPT ![f] = lost],
         Giving(f) = {}, pc[f] \notin {"rejoin", "gone"},
         UNCHANGED <<local, threads>>, LocalTypeOK', NoLostDivest'
  PROVE  OwnershipInv'
<1>1. LocalTypeOK
  BY TypesSplit DEF OwnershipInv
<1>2. pc'[f] = p /\ out'[f] = lost
  BY <1>1 DEF Goto, LocalTypeOK
<1>3. Others(f) /\ \A g \in Federates : pc'[g] # "gone" => pc[g] # "gone"
  BY <1>1 DEF Others, LocalTypeOK, Goto
<1>4. local[f] \subseteq Owned(f) /\ Owned(f) \ lost \subseteq Owned(f)' /\ Giving(f)' = lost
  BY <1>2, BeliefOf DEF RtiStep, Owned, Giving
<1>5. Believes(f, lost, {})
  BY <1>2, <1>4 DEF Believes
<1> QED BY <1>3, <1>5, StepKeeps

LEMMA ReleaseInv ==
  ASSUME OwnershipInv, NEW f \in Federates, NEW from \in {"release", "awaitDivest"},
         NEW to \in {"confirmed", "confirmedAtInit"}, NEW done \in {"pull", "frame"},
         Release(f, from, to, done)
  PROVE  OwnershipInv'
<1>1. LocalTypeOK /\ RtiTypeOK /\ NoLostDivest /\ AcquiringInv
  BY TypesSplit DEF OwnershipInv
<1>2. pc[f] = from /\ Giving(f) = {} /\ pc[f] \notin {"rejoin", "gone"}
      /\ UNCHANGED <<local, pulls, pushes, threads, pulled, pullRequested, pushed, acquired,
                     flagged, asks>>
  BY DEF Release, Giving
<1>3. to \in Pcs /\ done \in Pcs \ {"rejoin", "gone"}
  BY DEF Pcs, StartPcs
<1>4. CASE ~divestRequested[f]
  <2>1. Goto(f, done) /\ UNCHANGED <<divesting, divestRequested, out, rtiVars>>
    BY <1>4 DEF Release
  <2>2. RtiStep(f, {}, {})
    BY <1>1, <2>1, Refused
  <2>3. LocalTypeOK' /\ NoLostDivest'
    BY <1>1, <1>2, <1>3, <2>1 DEF LocalTypeOK, NoLostDivest, Goto
  <2> QED BY <1>2, <1>3, <2>1, <2>2, <2>3, GoOn
<1>5. CASE divestRequested[f]
  <2> DEFINE S == divesting[f] \cap local[f]
             lost == {a \in S : owner'[a] # f}
  <2>1. /\ Goto(f, to) /\ Confirm(f, S) /\ out' = [out EXCEPT ![f] = lost]
        /\ divesting' = [divesting EXCEPT ![f] = {}]
        /\ divestRequested' = [divestRequested EXCEPT ![f] = FALSE]
    BY <1>5 DEF Release
  <2>2. S \in SUBSET Owned(f)
    BY <1>2, BeliefOf
  <2>3. RtiStep(f, lost, {}) /\ lost \in SUBSET local[f] /\ lost \in SUBSET Attributes
    BY <1>1, <2>1, <2>2, ConfirmStep DEF Owned
  <2> HIDE DEF lost
  <2>4. LocalTypeOK' /\ NoLostDivest'
    BY <1>1, <1>2, <1>3, <2>1, <2>3 DEF LocalTypeOK, NoLostDivest, Goto
  <2> QED BY <1>2, <2>1, <2>3, <2>4, GiveAway
<1> QED BY <1>4, <1>5

LEMMA GrantInv ==
  ASSUME OwnershipInv, NEW f \in Federates, NEW from \in {"grant", "awaitPull"},
         NEW to \in {"granted", "grantedAtInit"}, Grant(f, from, to, "frame")
  PROVE  OwnershipInv'
<1>1. LocalTypeOK /\ RtiTypeOK /\ NoLostDivest /\ AcquiringInv
  BY TypesSplit DEF OwnershipInv
<1>2. pc[f] = from /\ Giving(f) = {} /\ pc[f] \notin {"rejoin", "gone"}
      /\ UNCHANGED <<local, pulls, pushes, threads, divesting, divestRequested, pullRequested,
                     pushed, acquired, flagged, asks>>
  BY DEF Grant, Giving
<1>3. to \in Pcs /\ "frame" \in Pcs \ {"rejoin", "gone"}
  BY DEF Pcs, StartPcs
<1>4. CASE ~pullRequested[f]
  <2>1. Goto(f, "frame") /\ UNCHANGED <<pulled, out, rtiVars>>
    BY <1>4 DEF Grant
  <2>2. RtiStep(f, {}, {})
    BY <1>1, <2>1, Refused
  <2>3. LocalTypeOK' /\ NoLostDivest'
    BY <1>1, <1>2, <1>3, <2>1 DEF LocalTypeOK, NoLostDivest, Goto
  <2> QED BY <1>2, <1>3, <2>1, <2>2, <2>3, GoOn
<1>5. CASE pullRequested[f]
  <2> DEFINE S == pulled[f] \cap local[f]
  <2>1. /\ Goto(f, to) /\ DivestIfWanted(f, S) /\ out' = [out EXCEPT ![f] = Wanted(f, S)]
        /\ pulled' = [pulled EXCEPT ![f] = {}]
    BY <1>5 DEF Grant
  <2>2. S \in SUBSET Attributes
    BY <1>1 DEF LocalTypeOK
  <2>3. RtiStep(f, Wanted(f, S), {}) /\ Wanted(f, S) \in SUBSET local[f]
        /\ Wanted(f, S) \in SUBSET Attributes
    BY <1>1, <2>1, <2>2, DivestStep
  <2>4. LocalTypeOK' /\ NoLostDivest'
    BY <1>1, <1>2, <1>3, <2>1, <2>3 DEF LocalTypeOK, NoLostDivest, Goto
  <2> QED BY <1>2, <2>1, <2>3, <2>4, GiveAway
<1> QED BY <1>4, <1>5

LEMMA MarkRemoteInv ==
  ASSUME OwnershipInv, NEW f \in Federates,
         NEW from \in {"confirmed", "granted", "confirmedAtInit", "grantedAtInit"},
         NEW to \in {"pull", "frame"}, MarkRemote(f, from, to),
         UNCHANGED <<divesting, divestRequested, pulled, pushed, acquired>>,
         pullRequested' \in [Federates -> BOOLEAN]
  PROVE  OwnershipInv'
<1>1. LocalTypeOK /\ RtiTypeOK /\ NoLostDivest /\ AcquiringInv
  BY TypesSplit DEF OwnershipInv
<1>2. /\ pc[f] = from /\ Goto(f, to)
      /\ local' = [local EXCEPT ![f] = @ \ out[f]]
      /\ out' = [out EXCEPT ![f] = {}]
      /\ UNCHANGED <<pulls, pushes, threads, flagged, rtiVars, asks>>
  BY DEF MarkRemote
<1>3. to \in Pcs \ {"rejoin", "gone"}
  BY DEF Pcs, StartPcs
<1>4. RtiStep(f, {}, {})
  BY <1>1, <1>2, Refused
<1>5. LocalTypeOK' /\ NoLostDivest'
  BY <1>1, <1>2, <1>3 DEF LocalTypeOK, NoLostDivest, Goto
<1>6. /\ pc'[f] = to /\ local'[f] = local[f] \ out[f] /\ Giving(f) = out[f]
      /\ \A g \in Federates : pc'[g] # "gone" => pc[g] # "gone"
  BY <1>1, <1>2 DEF LocalTypeOK, Goto, Giving
<1>7. Others(f)
  BY <1>1, <1>2 DEF LocalTypeOK, Goto, Others
<1>8. local[f] \subseteq Owned(f) \cup out[f] /\ Owned(f)' = Owned(f)
  BY <1>2, <1>6, BeliefOf DEF Owned, rtiVars
<1>9. Believes(f, {}, {})
  BY <1>6, <1>8 DEF Believes
<1> QED BY <1>4, <1>5, <1>6, <1>7, <1>9, StepKeeps

\* What Start adds is a thread.
LEMMA StartTypes ==
  ASSUME LocalTypeOK, NEW f \in Federates, NEW k \in {"divest", "accept", "acquire"},
         NEW S \in SUBSET Attributes, Start(f, k, S)
  PROVE  /\ threads' \in [Federates -> SUBSET Threads]
         /\ \A g \in Federates \ {f} : threads'[g] = threads[g]
<1> DEFINE new == [kind |-> k, attrs |-> S]
<1>1. new \in Threads
  BY DEF Threads
<1>2. threads' = [threads EXCEPT ![f] = @ \cup IF S = {} THEN {} ELSE {new}]
  BY DEF Start
<1> HIDE DEF new
<1> QED BY <1>1, <1>2 DEF LocalTypeOK

LEMMA ProcessOwnershipInv ==
  ASSUME OwnershipInv, NEW f \in Federates, ProcessOwnership(f)
  PROVE  OwnershipInv'
<1>1. LocalTypeOK /\ RtiTypeOK /\ NoLostDivest /\ AcquiringInv
  BY TypesSplit DEF OwnershipInv
<1>2. {"release", "grant", "frame"} \subseteq Pcs \ {"rejoin", "gone"}
  BY DEF Pcs, StartPcs
<1>3. CASE Push(f)
  <2>1. /\ pc[f] = "frame" /\ Goto(f, "release") /\ Start(f, "divest", pushes[f] \cap local[f])
        /\ pushes' = [pushes EXCEPT ![f] = {}]
        /\ UNCHANGED <<local, pulls, out, flagVars, flagged, rtiVars, asks>>
    BY <1>3 DEF Push
  <2>2. /\ threads' \in [Federates -> SUBSET Threads]
        /\ \A g \in Federates \ {f} : threads'[g] = threads[g]
    BY <1>1, <2>1, StartTypes DEF LocalTypeOK
  <2>3. LocalTypeOK' /\ NoLostDivest'
    BY <1>1, <1>2, <2>1, <2>2 DEF LocalTypeOK, NoLostDivest, Goto, flagVars
  <2>4. RtiStep(f, {}, {}) /\ Giving(f) = {}
    BY <1>1, <2>1, Refused DEF Giving
  <2> QED BY <1>2, <2>1, <2>2, <2>3, <2>4, GoOn
<1>4. CASE Pull(f)
  <2> DEFINE S == (pulls[f] \ local[f]) \cap Publishes[f]
  <2>1. /\ pc[f] = "pull" /\ Goto(f, "grant")
        /\ IF S = {} THEN UNCHANGED rtiVars ELSE Acquire(f, S)
        /\ pulls' = [pulls EXCEPT ![f] = {}]
        /\ UNCHANGED <<local, pushes, out, threads, flagVars, flagged, asks>>
    BY <1>4 DEF Pull
  <2>2. LocalTypeOK' /\ NoLostDivest' /\ Giving(f) = {}
    BY <1>1, <1>2, <2>1 DEF LocalTypeOK, NoLostDivest, Goto, flagVars, Giving
  <2>3. S \in SUBSET Attributes
    BY <1>1 DEF LocalTypeOK
  <2>4. RtiStep(f, {}, S)
    BY <1>1, <2>1, <2>3, Refused, AcquireStep
  <2> QED BY <1>2, <2>1, <2>2, <2>4, GoOn
<1>5. CASE ReleaseOwnership(f)
  BY <1>5, ReleaseInv DEF ReleaseOwnership
<1>6. CASE MarkReleased(f)
  <2>1. UNCHANGED flagVars /\ MarkRemote(f, "confirmed", "pull")
    BY <1>6 DEF MarkReleased
  <2> QED BY <2>1, <1>1, MarkRemoteInv DEF flagVars, LocalTypeOK
<1>7. CASE GrantPull(f)
  BY <1>7, GrantInv DEF GrantPull
<1>8. CASE MarkGranted(f)
  <2>1. MarkRemote(f, "granted", "frame") /\ ClearPullRequested(f)
    BY <1>8 DEF MarkGranted
  <2> QED BY <2>1, <1>1, MarkRemoteInv DEF ClearPullRequested, LocalTypeOK
<1> QED BY <1>3, <1>4, <1>5, <1>6, <1>7, <1>8 DEF ProcessOwnership

LEMMA InitializeInv ==
  ASSUME OwnershipInv, NEW f \in Federates, Initialize(f)
  PROVE  OwnershipInv'
<1>1. LocalTypeOK /\ RtiTypeOK /\ NoLostDivest /\ AcquiringInv
  BY TypesSplit DEF OwnershipInv
<1>2. {"frame", "awaitAcquired", "awaitDivest", "restoring"} \subseteq Pcs \ {"rejoin", "gone"}
  BY DEF Pcs, StartPcs
<1>3. CASE PullAtInit(f)
  <2>0. /\ pc[f] = "pullAtInit"
        /\ UNCHANGED <<local, pulls, pushes, out, threads, flagVars, flagged, asks>>
    BY <1>3 DEF PullAtInit
  <2>1. PICK list \in Asked \cup {Attributes} :
          IF list \ local[f] = {}
            THEN Goto(f, "frame") /\ UNCHANGED rtiVars
            ELSE Goto(f, "awaitAcquired") /\ Acquire(f, list \ local[f])
    BY <1>3 DEF PullAtInit
  <2> DEFINE S == list \ local[f]
  <2>2. LocalTypeOK' /\ NoLostDivest' /\ Giving(f) = {}
    BY <1>1, <1>2, <2>0, <2>1 DEF LocalTypeOK, NoLostDivest, Goto, flagVars, Giving
  <2>3. S \in SUBSET Attributes
    BY <2>1, OwnershipAssumption
  <2>4. RtiStep(f, {}, S) /\ \E p \in Pcs \ {"rejoin", "gone"} : Goto(f, p)
    BY <1>1, <1>2, <2>0, <2>1, <2>3, Refused, AcquireStep
  <2> QED BY <2>0, <2>1, <2>2, <2>4, GoOn
<1>4. CASE AwaitAcquired(f)
  <2>1. /\ pc[f] = "awaitAcquired" /\ Goto(f, "frame")
        /\ acquired' = [acquired EXCEPT ![f] = FALSE]
        /\ UNCHANGED <<local, pulls, pushes, out, threads, divesting, divestRequested, pulled,
                       pullRequested, pushed, flagged, rtiVars, asks>>
    BY <1>4 DEF AwaitAcquired
  <2>2. LocalTypeOK' /\ NoLostDivest' /\ Giving(f) = {}
    BY <1>1, <1>2, <2>1 DEF LocalTypeOK, NoLostDivest, Goto, Giving
  <2>3. RtiStep(f, {}, {})
    BY <1>1, <2>1, Refused
  <2> QED BY <1>2, <2>1, <2>2, <2>3, GoOn
<1>5. CASE PushAtInit(f)
  <2>1. /\ pc[f] = "pushAtInit" /\ Goto(f, IF local[f] = {} THEN "frame" ELSE "awaitDivest")
        /\ Start(f, "divest", local[f])
        /\ UNCHANGED <<local, pulls, pushes, out, flagVars, flagged, rtiVars, asks>>
    BY <1>5 DEF PushAtInit
  <2>2. /\ threads' \in [Federates -> SUBSET Threads]
        /\ \A g \in Federates \ {f} : threads'[g] = threads[g]
    BY <1>1, <2>1, StartTypes DEF LocalTypeOK
  <2>3. LocalTypeOK' /\ NoLostDivest'
    BY <1>1, <1>2, <2>1, <2>2 DEF LocalTypeOK, NoLostDivest, Goto, flagVars
  <2>4. RtiStep(f, {}, {}) /\ Giving(f) = {}
    BY <1>1, <2>1, Refused DEF Giving
  <2>5. \E p \in Pcs \ {"rejoin", "gone"} : Goto(f, p)
    BY <1>2, <2>1
  <2> QED BY <2>1, <2>2, <2>3, <2>4, <2>5, GoOn
<1>6. CASE ReleaseAtInit(f)
  BY <1>6, ReleaseInv DEF ReleaseAtInit
<1>7. CASE MarkReleasedAtInit(f)
  <2>1. UNCHANGED flagVars /\ MarkRemote(f, "confirmedAtInit", "frame")
    BY <1>7 DEF MarkReleasedAtInit
  <2> QED BY <2>1, <1>1, MarkRemoteInv DEF flagVars, LocalTypeOK
<1>8. CASE GrantAtInit(f)
  BY <1>8, GrantInv DEF GrantAtInit
<1>9. CASE MarkGrantedAtInit(f)
  <2>1. MarkRemote(f, "grantedAtInit", "frame") /\ ClearPullRequested(f)
    BY <1>9 DEF MarkGrantedAtInit
  <2> QED BY <2>1, <1>1, MarkRemoteInv DEF ClearPullRequested, LocalTypeOK
<1>10. CASE PullUponRejoin(f)
  <2> DEFINE S == local[f] \ Owned(f)
  <2>1. /\ pc[f] = "rejoin"
        /\ local' = [local EXCEPT ![f] = @ \ S]
        /\ out' = [out EXCEPT ![f] = S]
        /\ IF S = {} THEN Goto(f, "frame") /\ UNCHANGED rtiVars
                     ELSE Goto(f, "restoring") /\ Acquire(f, S)
        /\ UNCHANGED <<pulls, pushes, threads, flagVars, flagged, asks>>
    BY <1>10 DEF PullUponRejoin
  <2>2. S \in SUBSET Attributes
    BY <1>1 DEF LocalTypeOK
  <2>3. RtiStep(f, {}, S) /\ \E p \in {"frame", "restoring"} : Goto(f, p)
    BY <1>1, <2>1, <2>2, Refused, AcquireStep
  <2>4. LocalTypeOK' /\ NoLostDivest'
    BY <1>1, <1>2, <2>1, <2>2, <2>3 DEF LocalTypeOK, NoLostDivest, Goto, flagVars
  <2>5. /\ pc'[f] \in {"frame", "restoring"} /\ local'[f] = local[f] \cap Owned(f)
        /\ Giving(f) = {} /\ \A g \in Federates : pc'[g] # "gone" => pc[g] # "gone"
    BY <1>1, <2>1, <2>3 DEF LocalTypeOK, Goto, Giving
  <2>6. Others(f)
    BY <1>1, <2>1, <2>3 DEF LocalTypeOK, Goto, Others
  <2>7. Owned(f) \subseteq Owned(f)'
    BY <2>3 DEF RtiStep, Owned
  <2>8. Believes(f, {}, S)
    BY <2>5, <2>7 DEF Believes
  <2> QED BY <2>3, <2>4, <2>5, <2>6, <2>8, StepKeeps
<1>11. CASE AwaitRestored(f)
  <2>1. /\ pc[f] = "restoring" /\ Goto(f, "frame")
        /\ out' = [out EXCEPT ![f] = {}]
        /\ UNCHANGED <<local, pulls, pushes, threads, flagVars, flagged, rtiVars, asks>>
    BY <1>11 DEF AwaitRestored
  <2>2. LocalTypeOK' /\ NoLostDivest' /\ Giving(f) = {}
    BY <1>1, <1>2, <2>1 DEF LocalTypeOK, NoLostDivest, Goto, Giving, flagVars
  <2>3. RtiStep(f, {}, {})
    BY <1>1, <2>1, Refused
  <2> QED BY <1>2, <2>1, <2>2, <2>3, GoOn
<1> QED BY <1>3, <1>4, <1>5, <1>6, <1>7, <1>8, <1>9, <1>10, <1>11 DEF Initialize

LEMMA AskInv ==
  ASSUME OwnershipInv, NEW f \in Federates, Ask(f)
  PROVE  OwnershipInv'
<1>1. LocalTypeOK /\ RtiTypeOK /\ NoLostDivest /\ AcquiringInv
  BY TypesSplit DEF OwnershipInv
<1>2. UNCHANGED <<pc, local, out, threads, flagVars, flagged, rtiVars>>
  BY DEF Ask
<1>3. LocalTypeOK' /\ NoLostDivest'
  BY <1>1 DEF Ask, LocalTypeOK, NoLostDivest, flagVars
<1>4. RtiStep(f, {}, {}) /\ Others(f)
  BY <1>1, <1>2, Refused DEF Others
<1>5. Believes(f, {}, {})
  BY <1>2, <1>4, BeliefStays
<1> QED BY <1>2, <1>3, <1>4, <1>5, StepKeeps

LEMMA LeaveInv ==
  ASSUME OwnershipInv, NEW f \in Federates, Leave(f)
  PROVE  OwnershipInv'
<1>1. LocalTypeOK /\ RtiTypeOK /\ NoLostDivest /\ AcquiringInv
  BY TypesSplit DEF OwnershipInv
<1>2. /\ Member(f) /\ Goto(f, "gone") /\ RtiRemove(f)
      /\ local' = [local EXCEPT ![f] = {}]
      /\ UNCHANGED <<pulls, pushes, out, threads, flagVars, flagged, asks>>
  BY DEF Leave
<1>3. "gone" \in Pcs
  BY DEF Pcs
<1>4. LocalTypeOK' /\ NoLostDivest'
  BY <1>1, <1>2, <1>3 DEF LocalTypeOK, NoLostDivest, Goto, flagVars
<1>5. RtiStep(f, Owned(f), {})
  BY <1>1, <1>2, RemoveStep
<1>6. pc'[f] = "gone" /\ local'[f] = {} /\ \A g \in Federates : pc'[g] # "gone" => pc[g] # "gone"
  BY <1>1, <1>2 DEF LocalTypeOK, Goto
<1>7. Others(f)
  BY <1>1, <1>2 DEF LocalTypeOK, Goto, Others
<1>8. Believes(f, Owned(f), {})
  BY <1>6 DEF Believes
<1> QED BY <1>4, <1>5, <1>6, <1>7, <1>8, StepKeeps

-----------------------------------------------------------------------------
(* The theorems.                                                           *)

LEMMA InitInv == Init => OwnershipInv
<1> SUFFICES ASSUME Init PROVE OwnershipInv
  OBVIOUS
<1>1. PICK s \in Starts : pc = s.pc /\ owner = s.owner
  BY DEF Init
<1>2. pc \in [Federates -> StartPcs] /\ owner \in [Attributes -> Federates \cup {Nobody}]
  BY <1>1
<1>3. "none" \in {Flag[k] : k \in DOMAIN Flag}
  <2>1. Flag["offer"] = "none" /\ "offer" \in DOMAIN Flag
    BY DEF Flag
  <2> QED BY <2>1
<1>4. LocalTypeOK
  BY <1>2, <1>3 DEF Init, LocalTypeOK, All, Owned, Pcs
<1>5. RtiTypeOK
  BY <1>2 DEF Init, RtiTypeOK, All
<1>6. BeliefInv /\ AcquiringInv /\ RejoinInv /\ NoLostDivest /\ NoticeInv
  BY <1>2 DEF Init, All, BeliefInv, AcquiringInv, RejoinInv, NoLostDivest, NoticeInv, Owned
<1> QED BY <1>4, <1>5, <1>6, TypesSplit DEF OwnershipInv

LEMMA NextInv == OwnershipInv /\ [Next]_vars => OwnershipInv'
<1> SUFFICES ASSUME OwnershipInv, [Next]_vars
             PROVE  OwnershipInv'
  OBVIOUS
<1>1. CASE Next
  <2>1. PICK f \in Federates :
          Callbacking(f) \/ Threading(f) \/ MainThread(f) \/ Ask(f) \/ Leave(f)
    BY <1>1 DEF Next
  <2> QED BY <2>1, CallbackingInv, ThreadingInv, ProcessOwnershipInv, InitializeInv, AskInv,
             LeaveInv DEF MainThread
<1>2. CASE UNCHANGED vars
  BY <1>2 DEF vars, fedVars, flagVars, rtiVars, OwnershipInv, TypeOK, BeliefInv, NoticeInv,
       AcquiringInv, RejoinInv, NoLostDivest, Owned, Giving, Member
<1> QED BY <1>1, <1>2

\* OwnershipInv holds in every reachable state: what a federate believes to own it owns or is
\* about to mark as given away (the calls of release_ownership and grant_pull_request), what
\* it is told it was given is still its own, and a divestiture the RTI asks to confirm is not
\* overlooked.
THEOREM Invariance == Spec => []OwnershipInv
<1>1. Init => OwnershipInv
  BY InitInv
<1>2. OwnershipInv /\ [Next]_vars => OwnershipInv'
  BY NextInv
<1> QED BY <1>1, <1>2, PTL DEF Spec

\* Whenever a federate sends the data of a frame it owns what it sends: between the jobs of
\* process_ownership nothing is taken from it that it has not marked.
THEOREM SendsOnlyItsOwn == Spec => []SendsAsOwner
<1>1. OwnershipInv => SendsAsOwner
  BY DEF OwnershipInv, BeliefInv, SendsAsOwner, Giving
<1> QED BY <1>1, Invariance, PTL

\* An attribute the RTI asks a federate to divest is flagged for the main thread, whatever
\* the callback and release_ownership do between each other's steps.
THEOREM DivestituresAreSeen == Spec => []NoLostDivest
<1>1. OwnershipInv => NoLostDivest
  BY DEF OwnershipInv
<1> QED BY <1>1, Invariance, PTL
=============================================================================
