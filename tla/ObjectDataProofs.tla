-------------------------- MODULE ObjectDataProofs --------------------------
(***************************************************************************)
(* Proofs about ObjectData, for any federates, objects, configurations,    *)
(* frames and losses: every update sent reaches the simulation exactly     *)
(* once and in order, a request for an update is answered, every           *)
(* interaction is handled once and in order, and federates that block on   *)
(* each other's cyclic data do not wait in a circle.                       *)
(***************************************************************************)
EXTENDS ObjectData, SequenceTheorems, WellFoundedInduction, TLAPS

-----------------------------------------------------------------------------
(* What one federate holds of one object.                                  *)

Copies == [queue : Seq(Nat), decoded : Nat, seen : Nat, deleted : BOOLEAN,
           blocking : BOOLEAN, first : BOOLEAN]

\* The last update the simulation has, or is about to unpack.
Latest(c) == IF c.decoded = 0 THEN c.seen ELSE c.decoded

\* What is decoded, queued and on the wire w follows what was unpacked, up to
\* the update number n.
InOrder(c, w, n) ==
  /\ c.decoded \in {0, c.seen + 1}
  /\ Follow(c.queue, Latest(c))
  /\ Follow(w, Latest(c) + Len(c.queue))
  /\ Latest(c) + Len(c.queue) + Len(w) = n

LEMMA FollowTail ==
  ASSUME NEW s \in Seq(Nat), NEW n \in Nat, Follow(s, n), s # <<>>
  PROVE  Head(s) = n + 1 /\ Follow(Tail(s), n + 1)
BY DEF Follow

LEMMA FollowAppend ==
  ASSUME NEW s \in Seq(Nat), NEW n \in Nat, Follow(s, n), NEW e \in Nat, e = n + Len(s) + 1
  PROVE  Follow(Append(s, e), n)
<1>1. \A i \in 1 .. Len(s) : s[i] = n + i
  BY DEF Follow
<1>2. /\ Len(Append(s, e)) = Len(s) + 1 /\ DOMAIN Append(s, e) = 1 .. Len(s) + 1
      /\ \A i \in 1 .. Len(s) : Append(s, e)[i] = s[i]
      /\ Append(s, e)[Len(s) + 1] = e
  BY AppendProperties
<1>3. ASSUME NEW i \in 1 .. Len(s) + 1
      PROVE  Append(s, e)[i] = n + i
  <2>1. CASE i \in 1 .. Len(s)
    BY <1>1, <1>2, <2>1
  <2>2. CASE i = Len(s) + 1
    BY <1>2, <2>2
  <2> QED BY <2>1, <2>2
<1> QED BY <1>2, <1>3 DEF Follow

\* Decoding the next update, unpacking it, sending and reflecting keep the
\* order.
LEMMA DecodeKeeps ==
  ASSUME NEW c \in Copies, NEW w \in Seq(Nat), NEW n \in Nat, InOrder(c, w, n)
  PROVE  InOrder(IsChanged(c), w, n)
<1>1. CASE c.decoded # 0 \/ c.queue = <<>>
  BY <1>1 DEF IsChanged
<1>2. CASE c.decoded = 0 /\ c.queue # <<>>
  <2> DEFINE d == IsChanged(c)
  <2>1. /\ d.decoded = Head(c.queue) /\ d.queue = Tail(c.queue) /\ d.seen = c.seen
        /\ c.queue \in Seq(Nat) /\ c.seen \in Nat
    BY <1>2 DEF IsChanged, Copies
  <2>2. Follow(c.queue, c.seen) /\ Follow(w, c.seen + Len(c.queue))
        /\ c.seen + Len(c.queue) + Len(w) = n
    BY <1>2 DEF InOrder, Latest
  <2>3. Head(c.queue) = c.seen + 1 /\ Follow(Tail(c.queue), c.seen + 1)
    BY <1>2, <2>1, <2>2, FollowTail
  <2>4. Len(Tail(c.queue)) = Len(c.queue) - 1 /\ Len(c.queue) \in Nat /\ Len(w) \in Nat
    BY <1>2, <2>1
  <2>5. Latest(d) = c.seen + 1 /\ d.decoded = d.seen + 1
    BY <2>1, <2>3 DEF Latest
  <2> HIDE DEF d
  <2>6. Latest(d) + Len(d.queue) = c.seen + Len(c.queue)
    BY <2>1, <2>4, <2>5
  <2>7. InOrder(d, w, n)
    BY <2>1, <2>2, <2>3, <2>5, <2>6 DEF InOrder
  <2> QED BY <2>7 DEF d
<1> QED BY <1>1, <1>2

LEMMA UnpackKeeps ==
  ASSUME NEW c \in Copies, NEW w \in Seq(Nat), NEW n \in Nat, InOrder(c, w, n), c.decoded # 0
  PROVE  InOrder(Unpack(c), w, n)
<1>1. /\ Unpack(c).seen = c.decoded /\ Unpack(c).decoded = 0 /\ Unpack(c).queue = c.queue
  BY DEF Unpack, Copies
<1>2. Latest(Unpack(c)) = Latest(c)
  BY <1>1 DEF Latest
<1> QED BY <1>1, <1>2 DEF InOrder

LEMMA SendKeeps ==
  ASSUME NEW c \in Copies, NEW w \in Seq(Nat), NEW n \in Nat, InOrder(c, w, n)
  PROVE  InOrder(c, Append(w, n + 1), n + 1)
<1>1. Latest(c) \in Nat /\ Len(c.queue) \in Nat
  BY DEF Copies, Latest
<1>2. Latest(c) + Len(c.queue) \in Nat /\ Latest(c) + Len(c.queue) + Len(w) = n
      /\ Follow(w, Latest(c) + Len(c.queue))
  BY <1>1 DEF InOrder
<1>3. Follow(Append(w, n + 1), Latest(c) + Len(c.queue))
  BY <1>2, FollowAppend
<1>4. Len(Append(w, n + 1)) = Len(w) + 1
  OBVIOUS
<1> QED BY <1>1, <1>2, <1>3, <1>4 DEF InOrder

LEMMA ReflectKeeps ==
  ASSUME NEW c \in Copies, NEW w \in Seq(Nat), NEW n \in Nat, InOrder(c, w, n), w # <<>>
  PROVE  InOrder([c EXCEPT !.queue = Append(@, Head(w))], Tail(w), n)
<1> DEFINE d == [c EXCEPT !.queue = Append(@, Head(w))]
           m == Latest(c) + Len(c.queue)
<1>1. /\ d.decoded = c.decoded /\ d.seen = c.seen /\ d.queue = Append(c.queue, Head(w))
      /\ c.queue \in Seq(Nat) /\ Latest(c) \in Nat /\ Len(c.queue) \in Nat
  BY DEF Copies, Latest
<1>2. Latest(d) = Latest(c)
  BY <1>1 DEF Latest
<1>3. Follow(w, m) /\ m + Len(w) = n /\ Follow(c.queue, Latest(c)) /\ m \in Nat
      /\ c.decoded \in {0, c.seen + 1}
  BY <1>1 DEF InOrder
<1>4. Head(w) = m + 1 /\ Follow(Tail(w), m + 1)
  BY <1>3, FollowTail
<1>5. Follow(d.queue, Latest(c))
  <2>1. Head(w) \in Nat /\ Head(w) = Latest(c) + Len(c.queue) + 1
    BY <1>1, <1>4
  <2>2. Follow(Append(c.queue, Head(w)), Latest(c))
    BY <1>1, <1>3, <2>1, FollowAppend
  <2> QED BY <1>1, <2>2
<1>6. /\ Len(d.queue) = Len(c.queue) + 1 /\ Len(Tail(w)) = Len(w) - 1
      /\ Len(w) \in Nat
  BY <1>1
<1> HIDE DEF d
<1>7. Latest(d) + Len(d.queue) = m + 1
  BY <1>1, <1>2, <1>6
<1>8. InOrder(d, Tail(w), n)
  BY <1>1, <1>2, <1>3, <1>4, <1>5, <1>6, <1>7 DEF InOrder
<1> QED BY <1>8 DEF d

\* Types.
LEMMA CopyTypes ==
  ASSUME NEW c \in Copies
  PROVE  IsChanged(c) \in Copies /\ Unpack(c) \in Copies
<1>1. CASE c.decoded # 0 \/ c.queue = <<>>
  BY <1>1 DEF IsChanged, Unpack, Copies
<1>2. CASE c.decoded = 0 /\ c.queue # <<>>
  <2>1. Head(c.queue) \in Nat /\ Tail(c.queue) \in Seq(Nat)
    BY <1>2 DEF Copies
  <2> QED BY <1>2, <2>1 DEF IsChanged, Unpack, Copies
<1> QED BY <1>1, <1>2

-----------------------------------------------------------------------------
(* The first object of a set is one of it.                                 *)

LEMMA FirstMember ==
  ASSUME NEW S \in SUBSET Objects, S # {}
  PROVE  First(S) \in S
<1>1. ASSUME NEW o \in Objects
      PROVE  Place(o) \in DOMAIN ObjectList
  <2>1. \E i \in DOMAIN ObjectList : ObjectList[i] = o
    BY DEF Objects
  <2> QED BY <2>1 DEF Place
<1>2. DOMAIN ObjectList \subseteq Nat
  BY ObjectsAssumption
<1> DEFINE T == {Place(o) : o \in S}
<1>3. T \subseteq Nat /\ T # {}
  BY <1>1, <1>2
<1>4. PICK x \in T : \A y \in T : ~(<<y, x>> \in OpToRel(<, Nat))
  <2> HIDE DEF T
  <2> QED BY <1>3, WFMin, NatLessThanWellFounded
<1>5. ASSUME NEW y \in T
      PROVE  x <= y
  <2> HIDE DEF T
  <2>1. x \in Nat /\ y \in Nat
    BY <1>3
  <2>2. ~(<<y, x>> \in OpToRel(<, Nat))
    BY <1>4
  <2>3. ~(y < x)
    BY <2>1, <2>2 DEF OpToRel
  <2> QED BY <2>1, <2>3
<1>6. PICK o \in S : x = Place(o)
  OBVIOUS
<1>7. \A p \in S : Place(o) <= Place(p)
  BY <1>5, <1>6
<1> QED BY <1>7 DEF First

-----------------------------------------------------------------------------
(* The jobs of a main thread: those that send are of its own objects, and  *)
(* those within the frame not of an ExecutionConfiguration.                *)

Verbs == {"send", "receive", "process", "request"}
JobKinds == Kinds \cup {"interactions", "deleted", "updates"}
Ats == {"start", "build", "wait", "check", "unpack", "pop"}

JobsOf(f) ==
  {j \in [verb : Verbs, kind : JobKinds, left : SUBSET Objects] :
     j.verb = "send" =>
       /\ j.left \subseteq Local(f)
       /\ j.kind \in {"zero_lookahead", "blocking_io"} => j.left \cap ExCO = {}}

\* What a main thread is in the middle of.
AtOk(at, j) ==
  /\ at = "build" => j.verb = "send" /\ j.left # {}
  /\ at \in {"wait", "check", "unpack"} => j.verb = "receive" /\ j.left # {}

Mains(f) ==
  {m \in [frame : Nat, at : Ats, jobs : Seq(JobsOf(f))] :
     /\ m.jobs = <<>> => m.at = "start"
     /\ m.jobs # <<>> => AtOk(m.at, Head(m.jobs))}

MainInv ==
  /\ main \in [Federates -> UNION {Mains(f) : f \in Federates}]
  /\ \A f \in Federates : main[f] \in Mains(f)

LEMMA ObjMember ==
  ASSUME NEW f \in Federates, main[f] \in Mains(f), main[f].jobs # <<>>, HasObj(f)
  PROVE  /\ Obj(f) \in Objects /\ Obj(f) \in Doing(f).left
         /\ Doing(f).verb = "send" => Owner[Obj(f)] = f
<1>1. Doing(f) \in JobsOf(f)
  BY DEF Mains, Doing
<1>2. Doing(f).left \in SUBSET Objects /\ Doing(f).left # {}
  BY <1>1 DEF JobsOf, HasObj
<1>3. Obj(f) \in Doing(f).left
  BY <1>2, FirstMember DEF Obj
<1> QED BY <1>1, <1>2, <1>3 DEF JobsOf, Local

LEMMA GoToOk ==
  ASSUME NEW f \in Federates, MainInv, main[f].jobs # <<>>, NEW at \in Ats,
         AtOk(at, Doing(f)), GoTo(f, at)
  PROVE  MainInv'
<1>1. [main[f] EXCEPT !.at = at] \in Mains(f)
  BY DEF MainInv, Mains, Doing
<1>2. main' = [main EXCEPT ![f] = [main[f] EXCEPT !.at = at]]
  BY DEF GoTo
<1> QED BY <1>1, <1>2 DEF MainInv

LEMMA NextObjectOk ==
  ASSUME NEW f \in Federates, MainInv, main[f].jobs # <<>>, NextObject(f)
  PROVE  MainInv'
<1> DEFINE m == main[f]
           j == [m.jobs[1] EXCEPT !.left = @ \ {Obj(f)}]
           jobs == [m.jobs EXCEPT ![1] = j]
           e == [m EXCEPT !.at = "start", !.jobs = jobs]
<1>1. m \in Mains(f) /\ m.jobs \in Seq(JobsOf(f)) /\ 1 \in 1 .. Len(m.jobs)
  BY DEF MainInv, Mains
<1>2. m.jobs[1] \in JobsOf(f)
  BY <1>1
<1>3. j \in JobsOf(f)
  BY <1>2 DEF JobsOf
<1>4. jobs \in Seq(JobsOf(f)) /\ jobs # <<>>
  <2> HIDE DEF j
  <2> QED BY <1>1, <1>3, ExceptSeq
<1>5. e \in Mains(f)
  <2> HIDE DEF jobs
  <2>1. /\ e \in [frame : Nat, at : Ats, jobs : Seq(JobsOf(f))]
        /\ e.at = "start" /\ e.jobs = jobs
    BY <1>1, <1>4 DEF Mains, Ats
  <2> HIDE DEF e
  <2> QED BY <2>1, <1>4 DEF Mains, AtOk
<1>6. main' = [main EXCEPT ![f] = e]
  BY <1>1 DEF NextObject, Mains
<1> HIDE DEF e
<1> QED BY <1>5, <1>6 DEF MainInv

LEMMA JobIsJob ==
  ASSUME NEW f \in Federates, NEW verb \in Verbs, NEW kind \in JobKinds,
         NEW S \in SUBSET Objects, verb = "send" => S \subseteq Local(f),
         kind \in {"zero_lookahead", "blocking_io"} => S \cap ExCO = {}
  PROVE  Job(verb, kind, S) \in JobsOf(f)
BY DEF Job, JobsOf

LEMMA SwapJobs ==
  ASSUME NEW f \in Federates, NEW n, NEW kind \in {"zero_lookahead", "blocking_io"}
  PROVE  SwapIf(f, n, kind) \in Seq(JobsOf(f))
<1>1. Having(Local(f), kind) \subseteq Local(f) /\ Having(Local(f), kind) \in SUBSET Objects
      /\ Having(Remote(f), kind) \in SUBSET Objects
  BY DEF Having, Local, Remote
<1>2. /\ Having(Local(f), kind) \cap ExCO = {} /\ Having(Remote(f), kind) \cap ExCO = {}
      /\ kind \in JobKinds /\ "send" \in Verbs /\ "receive" \in Verbs
  BY ObjectsAssumption DEF Having, JobKinds, Kinds, Verbs
<1>3. Send(f, kind) \in JobsOf(f) /\ Receive(f, kind) \in JobsOf(f)
  BY <1>1, <1>2, JobIsJob DEF Send, Receive
<1> QED BY <1>3 DEF SwapIf, Swap

\* One element added at the end of a sequence is its last.
LEMMA LastOfConcat ==
  ASSUME NEW S, NEW s \in Seq(S), NEW t \in Seq(S), Len(t) = 1
  PROVE  /\ s \o t \in Seq(S) /\ s \o t # <<>>
         /\ (s \o t)[Len(s \o t)] = t[1]
<1>1. Len(s) \in Nat
  BY LenProperties
<1>2. /\ s \o t \in Seq(S) /\ Len(s \o t) = Len(s) + Len(t)
      /\ \A i \in 1 .. Len(s) + Len(t) :
           (s \o t)[i] = IF i <= Len(s) THEN s[i] ELSE t[i - Len(s)]
  BY ConcatProperties
<1>3. (s \o t)[Len(s \o t)] = t[1]
  BY <1>1, <1>2
<1>4. Len(<<>>) = 0
  OBVIOUS
<1>5. Len(s \o t) # 0
  BY <1>1, <1>2
<1>6. s \o t # <<>>
  BY <1>4, <1>5, Zenon
<1> QED BY <1>2, <1>3, <1>6

\* The jobs of the frame end with the cyclic one.
LEMMA FrameJobsOk ==
  ASSUME NEW f \in Federates, NEW n
  PROVE  /\ FrameJobs(f, n) \in Seq(JobsOf(f)) /\ FrameJobs(f, n) # <<>>
         /\ FrameJobs(f, n)[Len(FrameJobs(f, n))] = Job("send", "cyclic", Local(f))
<1> DEFINE head == <<Job("process", "interactions", {}), Job("process", "deleted", {}),
                     Job("send", "interactions", {}), Job("request", "updates", {}),
                     Job("receive", "cyclic", {o \in Remote(f) : o \in ExCO \/ "cyclic" \in Config[o]})>>
           last == <<Job("send", "cyclic", Local(f))>>
           z == SwapIf(f, n, "zero_lookahead")
           b == SwapIf(f, n, "blocking_io")
<1>1. /\ {} \in SUBSET Objects /\ {} \subseteq Local(f)
      /\ {o \in Remote(f) : o \in ExCO \/ "cyclic" \in Config[o]} \in SUBSET Objects
      /\ Local(f) \in SUBSET Objects
  BY DEF Local, Remote
<1>2. "zero_lookahead" \in Kinds /\ "blocking_io" \in Kinds /\ "cyclic" \in JobKinds
      /\ "interactions" \in JobKinds /\ "deleted" \in JobKinds /\ "updates" \in JobKinds
      /\ "send" \in Verbs /\ "receive" \in Verbs /\ "process" \in Verbs /\ "request" \in Verbs
  BY DEF Kinds, JobKinds, Verbs
<1>3. /\ Job("process", "interactions", {}) \in JobsOf(f)
      /\ Job("process", "deleted", {}) \in JobsOf(f)
      /\ Job("send", "interactions", {}) \in JobsOf(f)
      /\ Job("request", "updates", {}) \in JobsOf(f)
      /\ Job("send", "cyclic", Local(f)) \in JobsOf(f)
  BY <1>1, <1>2, JobIsJob
<1>4. Job("receive", "cyclic", {o \in Remote(f) : o \in ExCO \/ "cyclic" \in Config[o]}) \in JobsOf(f)
  BY <1>1, <1>2, JobIsJob
<1>5. head \in Seq(JobsOf(f)) /\ last \in Seq(JobsOf(f)) /\ Len(last) = 1
  BY <1>3, <1>4
<1>6. z \in Seq(JobsOf(f)) /\ b \in Seq(JobsOf(f))
  BY SwapJobs
<1>7. FrameJobs(f, n) = head \o z \o b \o last
  BY DEF FrameJobs
<1> HIDE DEF head, z, b, last
<1> DEFINE hz == head \o z
           hzb == hz \o b
<1>8. hz \in Seq(JobsOf(f)) /\ Len(hz) = Len(head) + Len(z)
  BY <1>5, <1>6, ConcatProperties
<1> HIDE DEF hz
<1>9. hzb \in Seq(JobsOf(f)) /\ Len(hzb) = Len(hz) + Len(b)
  BY <1>6, <1>8, ConcatProperties
<1> HIDE DEF hzb
<1>10. last[1] = Job("send", "cyclic", Local(f))
  BY DEF last
<1> DEFINE all == hzb \o last
<1>11. FrameJobs(f, n) = all
  BY <1>7 DEF hz, hzb
<1>12. all \in Seq(JobsOf(f)) /\ all # <<>> /\ all[Len(all)] = last[1]
  BY <1>5, <1>9, LastOfConcat
<1> HIDE DEF all
<1> QED BY <1>10, <1>11, <1>12

LEMMA NextJobOk ==
  ASSUME NEW f \in Federates, MainInv, main[f].jobs # <<>>, NextJob(f)
  PROVE  MainInv'
<1> DEFINE m == main[f]
           n == m.frame + 1
           rest == Tail(m.jobs)
           e == IF rest # <<>> \/ n > Frames
                THEN [frame |-> m.frame, at |-> "start", jobs |-> rest]
                ELSE [frame |-> n, at |-> "start", jobs |-> FrameJobs(f, n)]
<1>1. m \in Mains(f) /\ m.jobs \in Seq(JobsOf(f)) /\ m.frame \in Nat /\ n \in Nat
  BY DEF MainInv, Mains
<1>2. rest \in Seq(JobsOf(f))
  BY <1>1
<1>3. FrameJobs(f, n) \in Seq(JobsOf(f))
  BY FrameJobsOk
<1>4. e \in Mains(f)
  <2> HIDE DEF rest, n
  <2> QED BY <1>1, <1>2, <1>3 DEF Mains, AtOk, Ats
<1>5. main' = [main EXCEPT ![f] = e]
  BY DEF NextJob
<1> HIDE DEF e
<1> QED BY <1>4, <1>5 DEF MainInv

-----------------------------------------------------------------------------
(* The invariant: the types, the jobs, the order of the updates of every   *)
(* object at every federate, and that a federate about to unpack has an    *)
(* update to unpack.                                                       *)

DataInv ==
  /\ gone \subseteq Federates
  /\ sent \in [Objects -> Nat]
  /\ wire \in [Federates -> [Objects -> [updates : Seq(Nat), removed : BOOLEAN]]]
  /\ copy \in [Federates -> [Objects -> Copies]]

OrderInv ==
  \A g \in Federates : \A o \in Objects :
    g \notin gone /\ Owner[o] # g => InOrder(copy[g][o], wire[g][o].updates, sent[o])

UnpackInv ==
  \A f \in Federates : main[f].at = "unpack" => copy[f][Obj(f)].decoded # 0

IInv == MainInv /\ DataInv /\ OrderInv /\ UnpackInv

\* Nothing of the data changes.
Quiet == UNCHANGED <<gone, sent, wire, copy>>

LEMMA QuietKeeps ==
  ASSUME IInv, Quiet
  PROVE  DataInv' /\ OrderInv'
BY DEF IInv, DataInv, OrderInv, InOrder, Latest, Follow, Quiet

\* The main thread of f replaces its copy of o by one that holds the same
\* updates.
LEMMA CopyKeeps ==
  ASSUME IInv, NEW f \in Federates, NEW o \in Objects, NEW d \in Copies,
         \A w \in Seq(Nat) : \A n \in Nat : InOrder(copy[f][o], w, n) => InOrder(d, w, n),
         copy' = [copy EXCEPT ![f][o] = d], UNCHANGED <<gone, sent, wire>>
  PROVE  /\ DataInv' /\ OrderInv'
         /\ copy'[f][o] = d
         /\ \A g \in Federates \ {f} : copy'[g] = copy[g]
<1>1. copy \in [Federates -> [Objects -> Copies]]
  BY DEF IInv, DataInv
<1>2. /\ copy' \in [Federates -> [Objects -> Copies]]
      /\ copy'[f][o] = d
      /\ \A g \in Federates \ {f} : copy'[g] = copy[g]
      /\ \A p \in Objects \ {o} : copy'[f][p] = copy[f][p]
  BY <1>1
<1>3. DataInv'
  BY <1>2 DEF IInv, DataInv
<1>4. ASSUME NEW g \in Federates, NEW p \in Objects, g \notin gone', Owner[p] # g
      PROVE  InOrder(copy'[g][p], wire'[g][p].updates, sent'[p])
  <2>1. InOrder(copy[g][p], wire[g][p].updates, sent[p])
    BY <1>4 DEF IInv, OrderInv
  <2>2. wire[g][p].updates \in Seq(Nat) /\ sent[p] \in Nat
    BY DEF IInv, DataInv
  <2>3. CASE g = f /\ p = o
    BY <1>2, <2>1, <2>2, <2>3
  <2>4. CASE ~(g = f /\ p = o)
    <3>1. copy'[g][p] = copy[g][p]
      BY <1>2, <2>4
    <3> QED BY <2>1, <3>1
  <2> QED BY <2>3, <2>4
<1>5. OrderInv'
  BY <1>4 DEF OrderInv
<1> QED BY <1>2, <1>3, <1>5

\* Whoever is elsewhere in its frame than before unpacking is so afterwards.
LEMMA UnpackElsewhere ==
  ASSUME IInv, NEW f \in Federates, main' = [main EXCEPT ![f] = main'[f]],
         main'[f].at # "unpack", \A g \in Federates \ {f} : copy'[g] = copy[g]
  PROVE  UnpackInv'
<1>1. ASSUME NEW g \in Federates, main'[g].at = "unpack"
      PROVE  (copy[g][Obj(g)].decoded # 0)'
  <2>1. g # f /\ main'[g] = main[g]
    BY <1>1 DEF IInv, MainInv
  <2>2. Obj(g)' = Obj(g) /\ copy'[g] = copy[g]
    BY <2>1 DEF Obj, Doing
  <2> QED BY <1>1, <2>1, <2>2 DEF IInv, UnpackInv
<1> QED BY <1>1 DEF UnpackInv

\* A main thread that is not unpacking, and changes no data.
LEMMA QuietStep ==
  ASSUME IInv, NEW f \in Federates, MainInv', Quiet,
         main' = [main EXCEPT ![f] = main'[f]], main'[f].at # "unpack"
  PROVE  IInv'
<1>1. \A g \in Federates \ {f} : copy'[g] = copy[g]
  BY DEF Quiet
<1>2. DataInv' /\ OrderInv'
  BY QuietKeeps
<1>3. UnpackInv'
  BY <1>1, UnpackElsewhere
<1> QED BY <1>2, <1>3 DEF IInv

\* Where each way of going on leads.
LEMMA GoToLeads ==
  ASSUME MainInv, NEW f \in Federates, NEW at, GoTo(f, at)
  PROVE  main' = [main EXCEPT ![f] = main'[f]] /\ main'[f].at = at
         /\ main'[f].jobs = main[f].jobs
<1>1. main[f] \in Mains(f) /\ main' = [main EXCEPT ![f] = [main[f] EXCEPT !.at = at]]
  BY DEF MainInv, GoTo
<1> QED BY <1>1 DEF MainInv, Mains

LEMMA NextObjectLeads ==
  ASSUME MainInv, NEW f \in Federates, NextObject(f)
  PROVE  main' = [main EXCEPT ![f] = main'[f]] /\ main'[f].at = "start"
<1>1. main[f] \in Mains(f)
  BY DEF MainInv
<1>2. main'[f].at = "start"
  BY <1>1 DEF MainInv, Mains, NextObject
<1>3. main' = [main EXCEPT ![f] = main'[f]]
  BY DEF MainInv, NextObject
<1> QED BY <1>2, <1>3

LEMMA NextJobLeads ==
  ASSUME MainInv, NEW f \in Federates, NextJob(f)
  PROVE  main' = [main EXCEPT ![f] = main'[f]] /\ main'[f].at = "start"
BY DEF MainInv, NextJob

\* A receiving main thread whose copy of the object changes to d.
LEMMA ReadKeeps ==
  ASSUME IInv, NEW f \in Federates, Running(f), Doing(f).verb = "receive", HasObj(f),
         NEW d \in Copies, SetCopy(f, d), UNCHANGED <<gone, sent, wire>>,
         \A w \in Seq(Nat) : \A n \in Nat : InOrder(Copy(f), w, n) => InOrder(d, w, n),
         \/ GoTo(f, "wait") \/ GoTo(f, "check") \/ NextObject(f)
         \/ GoTo(f, "unpack") /\ d.decoded # 0
  PROVE  IInv'
<1>1. main[f].jobs # <<>> /\ Obj(f) \in Objects /\ MainInv
  BY ObjMember DEF Running, IInv, MainInv
<1>2. /\ DataInv' /\ OrderInv'
      /\ copy'[f][Obj(f)] = d
      /\ \A g \in Federates \ {f} : copy'[g] = copy[g]
  BY <1>1, CopyKeeps DEF SetCopy, Copy
<1>3. CASE NextObject(f)
  BY <1>1, <1>2, <1>3, NextObjectOk, NextObjectLeads, UnpackElsewhere DEF IInv
<1>4. ASSUME NEW at \in {"wait", "check"}, GoTo(f, at)
      PROVE  IInv'
  <2>1. at \in Ats /\ at # "unpack" /\ AtOk(at, Doing(f))
    BY DEF Ats, AtOk, HasObj
  <2> QED BY <1>1, <1>2, <1>4, <2>1, GoToOk, GoToLeads, UnpackElsewhere DEF IInv
<1>5. CASE GoTo(f, "unpack") /\ d.decoded # 0
  <2>1. MainInv'
    <3>1. "unpack" \in Ats /\ AtOk("unpack", Doing(f))
      BY DEF Ats, AtOk, HasObj
    <3> QED BY <1>1, <1>5, <3>1, GoToOk
  <2>2. main' = [main EXCEPT ![f] = main'[f]] /\ main'[f].jobs = main[f].jobs
    BY <1>1, <1>5, GoToLeads
  <2>3. ASSUME NEW g \in Federates, main'[g].at = "unpack"
        PROVE  (copy[g][Obj(g)].decoded # 0)'
    <3>1. main'[g].jobs = main[g].jobs
      BY <2>2, <1>1 DEF MainInv
    <3>2. Obj(g)' = Obj(g)
      BY <3>1 DEF Obj, Doing
    <3>3. CASE g = f
      BY <1>2, <1>5, <3>2, <3>3
    <3>4. CASE g # f
      <4>1. copy'[g] = copy[g] /\ main'[g] = main[g]
        BY <1>1, <1>2, <2>2, <3>4 DEF MainInv
      <4> QED BY <2>3, <3>2, <4>1 DEF IInv, UnpackInv
    <3> QED BY <3>3, <3>4
  <2> QED BY <1>2, <2>1, <2>3 DEF IInv, UnpackInv
<1> QED BY <1>3, <1>4, <1>5

-----------------------------------------------------------------------------
(* Each step keeps the invariant.                                          *)

LEMMA FirstReadKeeps ==
  ASSUME IInv, NEW f \in Federates, FirstRead(f)
  PROVE  IInv'
<1> DEFINE c == IsChanged(Copy(f))
           d == [c EXCEPT !.first = FALSE]
<1>1. Running(f) /\ Doing(f).verb = "receive" /\ HasObj(f) /\ main[f].jobs # <<>>
  BY DEF FirstRead, Does, Running
<1>2. Obj(f) \in Objects
  BY <1>1, ObjMember DEF IInv, MainInv
<1>3. Copy(f) \in Copies
  BY <1>2 DEF Copy, IInv, DataInv
<1>4. c \in Copies
  BY <1>3, CopyTypes
<1>5. ASSUME NEW w \in Seq(Nat), NEW n \in Nat, InOrder(Copy(f), w, n)
      PROVE  InOrder(d, w, n)
  <2>1. InOrder(c, w, n)
    BY <1>3, <1>5, DecodeKeeps
  <2> HIDE DEF c
  <2> QED BY <1>4, <2>1 DEF InOrder, Latest, Copies
<1>6. d \in Copies
  <2> HIDE DEF c
  <2> QED BY <1>4 DEF Copies
<1>7. SetCopy(f, d) /\ UNCHANGED <<gone, sent, wire>> /\ (GoTo(f, "wait") \/ NextObject(f))
  BY DEF FirstRead, ownerVars
<1> HIDE DEF d
<1> QED BY <1>1, <1>5, <1>6, <1>7, ReadKeeps

\* The waits and the checks decode the next update.
LEMMA DecodeStepKeeps ==
  ASSUME IInv, NEW f \in Federates, DataArrives(f) \/ CheckData(f)
  PROVE  IInv'
<1> DEFINE d == IsChanged(Copy(f))
<1>1. Running(f) /\ Doing(f).verb = "receive" /\ HasObj(f) /\ main[f].jobs # <<>>
  BY DEF DataArrives, CheckData, Does, Running
<1>2. Obj(f) \in Objects
  BY <1>1, ObjMember DEF IInv, MainInv
<1>3. Copy(f) \in Copies
  BY <1>2 DEF Copy, IInv, DataInv
<1>4. d \in Copies
  BY <1>3, CopyTypes
<1>5. \A w \in Seq(Nat) : \A n \in Nat : InOrder(Copy(f), w, n) => InOrder(d, w, n)
  BY <1>3, DecodeKeeps
<1>6. SetCopy(f, d) /\ UNCHANGED <<gone, sent, wire>>
      /\ (GoTo(f, "check") \/ NextObject(f) \/ (GoTo(f, "unpack") /\ d.decoded # 0))
  BY DEF DataArrives, CheckData, ownerVars
<1> HIDE DEF d
<1> QED BY <1>1, <1>4, <1>5, <1>6, ReadKeeps

\* Cyclic data is unpacked until nothing is left.
LEMMA UnpackCyclicKeeps ==
  ASSUME IInv, NEW f \in Federates, UnpackCyclic(f)
  PROVE  IInv'
<1> DEFINE e == Unpack(Copy(f))
           d == IsChanged(e)
<1>1. /\ Running(f) /\ Doing(f).verb = "receive" /\ main[f].at = "unpack"
      /\ main[f].jobs # <<>>
  BY DEF UnpackCyclic, Does, Running
<1>2. HasObj(f)
  BY <1>1 DEF IInv, MainInv, Mains, AtOk, HasObj, Doing
<1>3. Obj(f) \in Objects
  BY <1>1, <1>2, ObjMember DEF IInv, MainInv
<1>4. Copy(f) \in Copies /\ Copy(f).decoded # 0
  BY <1>1, <1>3 DEF Copy, IInv, DataInv, UnpackInv
<1>5. e \in Copies
  BY <1>4, CopyTypes
<1>6. \A w \in Seq(Nat) : \A n \in Nat : InOrder(Copy(f), w, n) => InOrder(e, w, n)
  BY <1>4, UnpackKeeps
<1>7. SetCopy(f, d) /\ UNCHANGED <<gone, sent, wire>>
      /\ (NextObject(f) \/ (GoTo(f, "unpack") /\ d.decoded # 0))
  BY DEF UnpackCyclic, ownerVars
<1> HIDE DEF e
<1>8. d \in Copies
  BY <1>5, CopyTypes
<1>9. \A w \in Seq(Nat) : \A n \in Nat : InOrder(Copy(f), w, n) => InOrder(d, w, n)
  BY <1>5, <1>6, DecodeKeeps
<1> HIDE DEF d
<1> QED BY <1>1, <1>2, <1>7, <1>8, <1>9, ReadKeeps

\* Other data is unpacked once.
LEMMA UnpackOneKeeps ==
  ASSUME IInv, NEW f \in Federates, UnpackOne(f)
  PROVE  IInv'
<1> DEFINE d == Unpack(Copy(f))
<1>1. Running(f) /\ main[f].at = "unpack" /\ main[f].jobs # <<>>
  BY DEF UnpackOne, Running
<1>2. Doing(f).verb = "receive" /\ HasObj(f)
  BY <1>1 DEF IInv, MainInv, Mains, AtOk, HasObj, Doing
<1>3. Obj(f) \in Objects
  BY <1>1, <1>2, ObjMember DEF IInv, MainInv
<1>4. Copy(f) \in Copies /\ Copy(f).decoded # 0
  BY <1>1, <1>3 DEF Copy, IInv, DataInv, UnpackInv
<1>5. d \in Copies
  BY <1>4, CopyTypes
<1>6. \A w \in Seq(Nat) : \A n \in Nat : InOrder(Copy(f), w, n) => InOrder(d, w, n)
  BY <1>4, UnpackKeeps
<1>7. SetCopy(f, d) /\ UNCHANGED <<gone, sent, wire>> /\ NextObject(f)
  BY DEF UnpackOne, ownerVars
<1> HIDE DEF d
<1> QED BY <1>1, <1>2, <1>5, <1>6, <1>7, ReadKeeps

\* The steps of a main thread that change no data.
LEMMA QuietMainKeeps ==
  ASSUME IInv, NEW f \in Federates,
         \/ SendInit(f) \/ SendExchange(f) \/ SendCyclic(f) \/ SendRequested(f)
         \/ BlockingRead(f) \/ ReadGivesUp(f) \/ EndJob(f)
         \/ RequestUpdates(f) \/ SendInteraction(f) \/ HandleInteraction(f)
         \/ PopInteraction(f) \/ NoInteraction(f)
  PROVE  IInv'
<1>1. Quiet /\ main[f].jobs # <<>>
  BY DEF SendInit, SendExchange, SendCyclic, SendRequested, BlockingRead, ReadGivesUp,
         EndJob, RequestUpdates, SendInteraction, HandleInteraction, PopInteraction,
         NoInteraction, Quiet, ownerVars, Does, Running
<1>2. CASE NextObject(f)
  BY <1>1, <1>2, NextObjectOk, NextObjectLeads, QuietStep DEF IInv
<1>3. CASE NextJob(f)
  BY <1>1, <1>3, NextJobOk, NextJobLeads, QuietStep DEF IInv
<1>4. ASSUME NEW at \in Ats \ {"unpack"}, GoTo(f, at), AtOk(at, Doing(f))
      PROVE  IInv'
  BY <1>1, <1>4, GoToOk, GoToLeads, QuietStep DEF IInv
<1>5. ASSUME GoTo(f, "build"), Doing(f).verb = "send", HasObj(f)
      PROVE  IInv'
  <2>1. "build" \in Ats \ {"unpack"} /\ AtOk("build", Doing(f))
    BY <1>5 DEF Ats, AtOk, HasObj
  <2> QED BY <1>4, <1>5, <2>1
<1>6. CASE SendInit(f) \/ SendExchange(f) \/ SendCyclic(f) \/ SendRequested(f)
  <2>1. Doing(f).verb = "send" /\ HasObj(f)
    BY <1>6 DEF SendInit, SendExchange, SendCyclic, SendRequested, Does
  <2>2. GoTo(f, "build") \/ NextObject(f)
    BY <1>6 DEF SendInit, SendExchange, SendCyclic, SendRequested
  <2> QED BY <1>2, <1>5, <2>1, <2>2
<1>7. CASE BlockingRead(f) \/ ReadGivesUp(f)
  <2>1. Doing(f).verb = "receive" /\ (GoTo(f, "wait") \/ GoTo(f, "check"))
    BY <1>7 DEF BlockingRead, ReadGivesUp, Does
  <2>2. HasObj(f)
    <3>1. CASE BlockingRead(f)
      BY <3>1 DEF BlockingRead
    <3>2. CASE ReadGivesUp(f)
      BY <1>1, <3>2 DEF ReadGivesUp, Does, IInv, MainInv, Mains, AtOk, HasObj, Doing
    <3> QED BY <1>7, <3>1, <3>2
  <2>3. /\ "wait" \in Ats \ {"unpack"} /\ AtOk("wait", Doing(f))
        /\ "check" \in Ats \ {"unpack"} /\ AtOk("check", Doing(f))
    BY <2>1, <2>2 DEF Ats, AtOk, HasObj
  <2> QED BY <1>4, <2>1, <2>3
<1>8. CASE HandleInteraction(f) \/ PopInteraction(f)
  <2>1. GoTo(f, "pop") \/ GoTo(f, "start")
    BY <1>8 DEF HandleInteraction, PopInteraction
  <2>2. /\ "pop" \in Ats \ {"unpack"} /\ AtOk("pop", Doing(f))
        /\ "start" \in Ats \ {"unpack"} /\ AtOk("start", Doing(f))
    BY DEF Ats, AtOk
  <2> QED BY <1>4, <2>1, <2>2
<1>9. CASE EndJob(f) \/ RequestUpdates(f) \/ SendInteraction(f) \/ NoInteraction(f)
  BY <1>3, <1>9 DEF EndJob, RequestUpdates, SendInteraction, NoInteraction
<1> QED BY <1>6, <1>7, <1>8, <1>9

\* The callbacks that change no data.
LEMMA QuietCallbackKeeps ==
  ASSUME IInv, Quiet, UNCHANGED main
  PROVE  IInv'
<1>1. DataInv' /\ OrderInv'
  BY QuietKeeps
<1>2. MainInv'
  BY DEF IInv, MainInv
<1>3. UnpackInv'
  BY DEF IInv, UnpackInv, Obj, Doing, Quiet
<1> QED BY <1>1, <1>2, <1>3 DEF IInv

\* An update that is sent goes to everybody but its owner, who sends it.
LEMMA BuildKeeps ==
  ASSUME IInv, NEW f \in Federates, BuildAndSend(f)
  PROVE  IInv'
<1>1. Running(f) /\ main[f].at = "build" /\ main[f].jobs # <<>> /\ NextObject(f)
      /\ UNCHANGED <<gone, copy>>
  BY DEF BuildAndSend, Running
<1>2. Doing(f).verb = "send" /\ HasObj(f)
  BY <1>1 DEF IInv, MainInv, Mains, AtOk, HasObj, Doing
<1>3. Obj(f) \in Objects /\ Owner[Obj(f)] = f
  BY <1>1, <1>2, ObjMember DEF IInv, MainInv
<1>4. MainInv' /\ UnpackInv'
  BY <1>1, NextObjectOk, NextObjectLeads, UnpackElsewhere DEF IInv
<1>5. CASE UNCHANGED <<sent, wire>>
  <2>1. DataInv' /\ OrderInv'
    BY <1>1, <1>5, QuietKeeps DEF Quiet
  <2> QED BY <1>4, <2>1 DEF IInv
<1>6. CASE /\ sent' = [sent EXCEPT ![Obj(f)] = @ + 1]
           /\ wire' = [g \in Federates |->
                IF g = f \/ g \in gone THEN wire[g]
                ELSE [wire[g] EXCEPT ![Obj(f)].updates = Append(@, sent[Obj(f)] + 1)]]
  <2> DEFINE o == Obj(f)
  <2>1. /\ sent' \in [Objects -> Nat] /\ sent[o] \in Nat /\ sent'[o] = sent[o] + 1
        /\ \A p \in Objects \ {o} : sent'[p] = sent[p]
    BY <1>3, <1>6 DEF IInv, DataInv
  <2>2. ASSUME NEW g \in Federates
        PROVE  /\ wire'[g] \in [Objects -> [updates : Seq(Nat), removed : BOOLEAN]]
               /\ \A p \in Objects \ {o} : wire'[g][p] = wire[g][p]
               /\ g # f /\ g \notin gone =>
                    wire'[g][o].updates = Append(wire[g][o].updates, sent[o] + 1)
    <3>1. /\ wire[g] \in [Objects -> [updates : Seq(Nat), removed : BOOLEAN]]
          /\ wire[g][o].updates \in Seq(Nat)
      BY <1>3 DEF IInv, DataInv
    <3>2. Append(wire[g][o].updates, sent[o] + 1) \in Seq(Nat)
      BY <2>1, <3>1
    <3>3. CASE g = f \/ g \in gone
      BY <1>6, <3>1, <3>3
    <3>4. CASE ~(g = f \/ g \in gone)
      <4>1. wire'[g] = [wire[g] EXCEPT ![o].updates = Append(wire[g][o].updates, sent[o] + 1)]
        BY <1>6, <3>4
      <4> HIDE DEF o
      <4> QED BY <1>3, <3>1, <3>2, <4>1 DEF o
    <3> QED BY <3>3, <3>4
  <2>3. DataInv'
    BY <1>1, <1>6, <2>1, <2>2 DEF IInv, DataInv
  <2>4. ASSUME NEW g \in Federates, NEW p \in Objects, g \notin gone', Owner[p] # g
        PROVE  InOrder(copy'[g][p], wire'[g][p].updates, sent'[p])
    <3>1. /\ InOrder(copy[g][p], wire[g][p].updates, sent[p]) /\ copy'[g][p] = copy[g][p]
          /\ g \notin gone
      BY <1>1, <2>4 DEF IInv, OrderInv
    <3>2. CASE p # o
      BY <2>1, <2>2, <3>1, <3>2
    <3>3. CASE p = o
      <4>1. g # f
        BY <1>3, <2>4, <3>3
      <4>2. copy[g][o] \in Copies /\ wire[g][o].updates \in Seq(Nat)
        BY <1>3 DEF IInv, DataInv
      <4>3. InOrder(copy[g][o], Append(wire[g][o].updates, sent[o] + 1), sent[o] + 1)
        BY <2>1, <3>1, <3>3, <4>2, SendKeeps
      <4> QED BY <2>1, <2>2, <3>1, <3>3, <4>1, <4>3
    <3> QED BY <3>2, <3>3
  <2>5. OrderInv'
    BY <2>4 DEF OrderInv
  <2> QED BY <1>4, <2>3, <2>5 DEF IInv
<1>7. Doing(f).left # {}
  BY <1>2 DEF HasObj
<1> QED BY <1>5, <1>6 DEF BuildAndSend

LEMMA ReflectStepKeeps ==
  ASSUME IInv, NEW g \in Federates, NEW o \in Objects, Reflect(g, o)
  PROVE  IInv'
<1> DEFINE w == wire[g][o].updates
           d == [copy[g][o] EXCEPT !.queue = Append(@, Head(w))]
<1>1. /\ copy[g][o] \in Copies /\ w \in Seq(Nat) /\ w # <<>> /\ sent[o] \in Nat
      /\ UNCHANGED <<main, gone, sent>>
  BY DEF Reflect, ownerVars, IInv, DataInv
<1>2. Head(w) \in Nat /\ Tail(w) \in Seq(Nat)
  BY SMTT(20), <1>1
<1>3. d \in Copies /\ d.decoded = copy[g][o].decoded
  <2>1. copy[g][o].queue \in Seq(Nat)
    BY <1>1 DEF Copies
  <2> HIDE DEF w
  <2>2. Append(copy[g][o].queue, Head(w)) \in Seq(Nat)
    BY <1>2, <2>1
  <2> QED BY <1>1, <2>2 DEF Copies
<1>4. copy' = [copy EXCEPT ![g][o] = d]
  BY DEF Reflect, IInv, DataInv, Copies
<1>5. wire' = [wire EXCEPT ![g][o].updates = Tail(w)]
  BY DEF Reflect
<1>6. ASSUME g \notin gone, Owner[o] # g
      PROVE  InOrder(d, Tail(w), sent[o])
  <2>1. InOrder(copy[g][o], w, sent[o])
    BY <1>6 DEF IInv, OrderInv
  <2> QED BY <1>1, <2>1, ReflectKeeps
<1> HIDE DEF d
<1>7. /\ copy'[g][o] = d
      /\ \A h \in Federates : \A p \in Objects : (h # g \/ p # o) => copy'[h][p] = copy[h][p]
      /\ copy' \in [Federates -> [Objects -> Copies]]
  BY <1>3, <1>4 DEF IInv, DataInv
<1> HIDE DEF w
<1>8. /\ wire'[g][o].updates = Tail(w)
      /\ \A h \in Federates : \A p \in Objects : (h # g \/ p # o) => wire'[h][p] = wire[h][p]
      /\ wire' \in [Federates -> [Objects -> [updates : Seq(Nat), removed : BOOLEAN]]]
  <2> DEFINE e == [wire[g][o] EXCEPT !.updates = Tail(w)]
  <2>1. wire \in [Federates -> [Objects -> [updates : Seq(Nat), removed : BOOLEAN]]]
    BY DEF IInv, DataInv
  <2>2. wire[g][o] \in [updates : Seq(Nat), removed : BOOLEAN]
    BY <2>1
  <2>3. e \in [updates : Seq(Nat), removed : BOOLEAN] /\ e.updates = Tail(w)
    BY <1>2, <2>2
  <2>4. wire' = [wire EXCEPT ![g][o] = e]
    BY <1>5, <2>1
  <2> HIDE DEF e
  <2> QED BY <2>1, <2>3, <2>4
<1>9. DataInv'
  BY <1>1, <1>7, <1>8 DEF IInv, DataInv
<1>10. ASSUME NEW h \in Federates, NEW p \in Objects, h \notin gone', Owner[p] # h
       PROVE  InOrder(copy'[h][p], wire'[h][p].updates, sent'[p])
  <2>1. CASE h = g /\ p = o
    BY <1>1, <1>6, <1>7, <1>8, <1>10, <2>1
  <2>2. CASE h # g \/ p # o
    <3>1. InOrder(copy[h][p], wire[h][p].updates, sent[p])
      BY <1>1, <1>10 DEF IInv, OrderInv
    <3> QED BY <1>1, <1>7, <1>8, <2>2, <3>1
  <2> QED BY <2>1, <2>2
<1>11. OrderInv'
  BY <1>10 DEF OrderInv
<1>12. MainInv'
  BY <1>1 DEF IInv, MainInv
<1>13. ASSUME NEW h \in Federates, main'[h].at = "unpack"
       PROVE  (copy[h][Obj(h)].decoded # 0)'
  <2>1. Obj(h)' = Obj(h) /\ copy[h][Obj(h)].decoded # 0
    BY <1>1, <1>13 DEF IInv, UnpackInv, Obj, Doing
  <2>2. Obj(h) \in Objects
    <3>1. main[h] \in Mains(h) /\ main[h].at = "unpack"
      BY <1>1, <1>13 DEF IInv, MainInv
    <3>2. main[h].jobs # <<>> /\ HasObj(h)
      BY <3>1 DEF Mains, AtOk, HasObj, Doing
    <3> QED BY <3>1, <3>2, ObjMember
  <2> QED BY <1>3, <1>7, <2>1, <2>2
<1>14. UnpackInv'
  BY <1>13 DEF UnpackInv
<1> QED BY <1>9, <1>11, <1>12, <1>14 DEF IInv

LEMMA RemoveKeeps ==
  ASSUME IInv, NEW g \in Federates, NEW o \in Objects, RemoveInstance(g, o)
  PROVE  IInv'
<1> DEFINE d == [copy[g][o] EXCEPT !.deleted = TRUE, !.blocking = FALSE, !.first = TRUE]
           e == [wire[g][o] EXCEPT !.removed = FALSE]
<1>1. /\ copy[g][o] \in Copies /\ wire[g][o] \in [updates : Seq(Nat), removed : BOOLEAN]
      /\ UNCHANGED <<main, gone, sent>>
  BY DEF RemoveInstance, ownerVars, IInv, DataInv
<1>2. /\ d \in Copies /\ d.decoded = copy[g][o].decoded /\ d.seen = copy[g][o].seen
      /\ d.queue = copy[g][o].queue
      /\ e \in [updates : Seq(Nat), removed : BOOLEAN] /\ e.updates = wire[g][o].updates
  BY <1>1 DEF Copies
<1>3. copy' = [copy EXCEPT ![g][o] = d] /\ wire' = [wire EXCEPT ![g][o] = e]
  BY DEF RemoveInstance, IInv, DataInv, Copies
<1> HIDE DEF d, e
<1>4. DataInv'
  BY <1>1, <1>2, <1>3 DEF IInv, DataInv
<1>5. ASSUME NEW h \in Federates, NEW p \in Objects
      PROVE  /\ copy'[h][p].decoded = copy[h][p].decoded
             /\ copy'[h][p].seen = copy[h][p].seen
             /\ copy'[h][p].queue = copy[h][p].queue
             /\ wire'[h][p].updates = wire[h][p].updates
  BY <1>2, <1>3 DEF IInv, DataInv
<1>6. OrderInv'
  BY <1>1, <1>5 DEF IInv, OrderInv, InOrder, Latest
<1>7. MainInv'
  BY <1>1 DEF IInv, MainInv
<1>8. ASSUME NEW h \in Federates, main'[h].at = "unpack"
      PROVE  (copy[h][Obj(h)].decoded # 0)'
  <2>1. Obj(h)' = Obj(h) /\ copy[h][Obj(h)].decoded # 0
    BY <1>1, <1>8 DEF IInv, UnpackInv, Obj, Doing
  <2>2. Obj(h) \in Objects
    <3>1. main[h] \in Mains(h) /\ main[h].at = "unpack"
      BY <1>1, <1>8 DEF IInv, MainInv
    <3>2. main[h].jobs # <<>> /\ HasObj(h)
      BY <3>1 DEF Mains, AtOk, HasObj, Doing
    <3> QED BY <3>1, <3>2, ObjMember
  <2> QED BY <1>5, <2>1, <2>2
<1>9. UnpackInv'
  BY <1>8 DEF UnpackInv
<1> QED BY <1>4, <1>6, <1>7, <1>9 DEF IInv

LEMMA DeletedKeeps ==
  ASSUME IInv, NEW f \in Federates, ProcessDeleted(f)
  PROVE  IInv'
<1>1. /\ copy' = [copy EXCEPT ![f] = [o \in Objects |-> [copy[f][o] EXCEPT !.deleted = FALSE]]]
      /\ NextJob(f) /\ main[f].jobs # <<>> /\ UNCHANGED <<gone, sent, wire>>
  BY DEF ProcessDeleted, ownerVars, Does, Running
<1>2. /\ copy \in [Federates -> [Objects -> Copies]]
      /\ \A o \in Objects : [copy[f][o] EXCEPT !.deleted = FALSE] \in Copies
  <2>1. copy \in [Federates -> [Objects -> Copies]]
    BY DEF IInv, DataInv
  <2>2. ASSUME NEW o \in Objects
        PROVE  [copy[f][o] EXCEPT !.deleted = FALSE] \in Copies
    <3>1. copy[f][o] \in Copies
      BY <2>1
    <3> QED BY <3>1 DEF Copies
  <2> QED BY <2>1, <2>2
<1>3. /\ copy' \in [Federates -> [Objects -> Copies]]
      /\ \A g \in Federates \ {f} : copy'[g] = copy[g]
      /\ \A o \in Objects : copy'[f][o] = [copy[f][o] EXCEPT !.deleted = FALSE]
  BY <1>1, <1>2
<1>4. DataInv'
  BY <1>1, <1>3 DEF IInv, DataInv
<1>5. ASSUME NEW h \in Federates, NEW p \in Objects
      PROVE  /\ copy'[h][p].decoded = copy[h][p].decoded
             /\ copy'[h][p].seen = copy[h][p].seen
             /\ copy'[h][p].queue = copy[h][p].queue
  <2>1. CASE h # f
    BY <1>3, <2>1
  <2>2. CASE h = f
    <3>1. copy[f][p] \in Copies /\ copy'[f][p] = [copy[f][p] EXCEPT !.deleted = FALSE]
      BY <1>2, <1>3
    <3> QED BY <2>2, <3>1 DEF Copies
  <2> QED BY <2>1, <2>2
<1>6. OrderInv'
  BY <1>1, <1>5 DEF IInv, OrderInv, InOrder, Latest
<1>7. MainInv' /\ UnpackInv'
  BY <1>1, <1>3, NextJobOk, NextJobLeads, UnpackElsewhere DEF IInv
<1> QED BY <1>4, <1>6, <1>7 DEF IInv

LEMMA DepartKeeps ==
  ASSUME IInv, NEW f \in Federates, Depart(f)
  PROVE  IInv'
<1>1. gone' = gone \cup {f} /\ UNCHANGED <<main, sent, copy>>
  BY DEF Depart, ownerVars
<1>2. ASSUME NEW g \in Federates, NEW o \in Objects
      PROVE  /\ wire'[g][o] \in [updates : Seq(Nat), removed : BOOLEAN]
             /\ wire'[g][o].updates = wire[g][o].updates
  <2>1. wire[g][o] \in [updates : Seq(Nat), removed : BOOLEAN]
    BY DEF IInv, DataInv
  <2>2. \/ wire'[g][o] = wire[g][o]
        \/ wire'[g][o] = [wire[g][o] EXCEPT !.removed = TRUE]
    BY DEF Depart
  <2> QED BY <2>1, <2>2
<1>3. wire' = [g \in Federates |-> [o \in Objects |-> wire'[g][o]]]
  BY DEF Depart
<1>4. wire' \in [Federates -> [Objects -> [updates : Seq(Nat), removed : BOOLEAN]]]
  BY <1>2, <1>3
<1>5. DataInv'
  BY <1>1, <1>4 DEF IInv, DataInv
<1>6. OrderInv'
  BY <1>1, <1>2 DEF IInv, OrderInv, InOrder, Latest
<1>7. MainInv'
  BY <1>1 DEF IInv, MainInv
<1>8. UnpackInv'
  BY <1>1 DEF IInv, UnpackInv, Obj, Doing
<1> QED BY <1>5, <1>6, <1>7, <1>8 DEF IInv

LEMMA StepInv ==
  ASSUME IInv, [Next]_vars
  PROVE  IInv'
<1>1. CASE UNCHANGED vars
  BY <1>1, QuietCallbackKeeps DEF vars, ownerVars, Quiet
<1>2. ASSUME NEW f \in Federates, MainThread(f) \/ ReadGivesUp(f)
      PROVE  IInv'
  BY <1>2, QuietMainKeeps, BuildKeeps, FirstReadKeeps, DecodeStepKeeps, UnpackCyclicKeeps,
     UnpackOneKeeps, DeletedKeeps DEF MainThread
<1>3. ASSUME NEW g \in Federates, Callback(g)
      PROVE  IInv'
  <2>1. ASSUME NEW o \in Objects, Reflect(g, o) \/ RemoveInstance(g, o)
        PROVE  IInv'
    BY <2>1, ReflectStepKeeps, RemoveKeeps
  <2>2. ASSUME NEW o \in Objects, ProvideUpdate(o) \/ ProvideObject(o)
        PROVE  IInv'
    BY <2>2, QuietCallbackKeeps DEF ProvideUpdate, ProvideObject, Quiet
  <2>3. CASE ReceiveInteraction(g)
    BY <2>3, QuietCallbackKeeps DEF ReceiveInteraction, ownerVars, Quiet
  <2> QED BY <1>3, <2>1, <2>2, <2>3 DEF Callback
<1>4. ASSUME NEW f \in Federates, Leave(f) \/ Lose(f)
      PROVE  IInv'
  BY <1>4, DepartKeeps DEF Leave, Lose
<1> QED BY <1>1, <1>2, <1>3, <1>4 DEF Next

LEMMA InitInv == ASSUME Init PROVE IInv
<1>1. MainInv
  <2>1. ASSUME NEW f \in Federates
        PROVE  main[f] \in Mains(f)
    <3>1. "initialize" \in Kinds /\ "initialize" \in JobKinds
          /\ "send" \in Verbs /\ "receive" \in Verbs
      BY DEF Kinds, JobKinds, Verbs
    <3>2. Having(Local(f), "initialize") \subseteq Local(f)
          /\ Having(Local(f), "initialize") \in SUBSET Objects
          /\ Having(Remote(f), "initialize") \in SUBSET Objects
      BY DEF Having, Local, Remote
    <3>3. Send(f, "initialize") \in JobsOf(f) /\ Receive(f, "initialize") \in JobsOf(f)
      BY <3>1, <3>2, JobIsJob DEF Send, Receive
    <3>4. InitJobs(f) \in Seq(JobsOf(f)) /\ InitJobs(f) # <<>>
      BY <3>3 DEF InitJobs
    <3>5. main[f] = [frame |-> 0, at |-> "start", jobs |-> InitJobs(f)]
      BY DEF Init
    <3> QED BY <3>4, <3>5 DEF Mains, AtOk, Ats
  <2>2. main = [f \in Federates |-> main[f]]
    BY DEF Init
  <2> QED BY <2>1, <2>2 DEF MainInv
<1>2. ASSUME NEW g \in Federates, NEW o \in Objects
      PROVE  /\ copy[g][o] \in Copies
             /\ copy[g][o].queue = <<>> /\ copy[g][o].decoded = 0 /\ copy[g][o].seen = 0
             /\ wire[g][o] = [updates |-> <<>>, removed |-> FALSE]
             /\ sent[o] = 0
  BY DEF Init, Copies
<1>3. /\ copy = [g \in Federates |-> [o \in Objects |-> copy[g][o]]]
      /\ wire = [g \in Federates |-> [o \in Objects |-> wire[g][o]]]
      /\ sent \in [Objects -> Nat] /\ gone = {}
  BY DEF Init
<1>4. DataInv
  <2>1. ASSUME NEW g \in Federates, NEW o \in Objects
        PROVE  wire[g][o] \in [updates : Seq(Nat), removed : BOOLEAN]
    <3>1. \A s \in Seq(Nat) : [updates |-> s, removed |-> FALSE] \in [updates : Seq(Nat), removed : BOOLEAN]
      OBVIOUS
    <3>2. <<>> \in Seq(Nat)
      OBVIOUS
    <3>3. wire[g][o] = [updates |-> <<>>, removed |-> FALSE]
      BY <1>2
    <3> QED BY <3>1, <3>2, <3>3, Zenon
  <2>2. wire \in [Federates -> [Objects -> [updates : Seq(Nat), removed : BOOLEAN]]]
    BY <1>3, <2>1
  <2>3. copy \in [Federates -> [Objects -> Copies]]
    BY <1>2, <1>3
  <2> QED BY <1>3, <2>2, <2>3 DEF DataInv
<1>5. OrderInv
  <2>1. \A n \in Nat : Follow(<<>>, n)
    BY DEF Follow
  <2>2. ASSUME NEW g \in Federates, NEW o \in Objects
        PROVE  InOrder(copy[g][o], wire[g][o].updates, sent[o])
    <3>1. wire[g][o].updates = <<>> /\ Latest(copy[g][o]) = 0 /\ Len(copy[g][o].queue) = 0
      BY <1>2 DEF Latest
    <3> QED BY <1>2, <2>1, <3>1 DEF InOrder
  <2> QED BY <2>2 DEF OrderInv
<1>6. UnpackInv
  BY DEF Init, UnpackInv
<1> QED BY <1>1, <1>4, <1>5, <1>6 DEF IInv

\* Every update sent reaches the simulation of every other federate exactly
\* once and in order, for any federates and objects, in any interleaving of
\* the main threads with the callbacks.
THEOREM UpdatesArriveInOrder == Spec => []ReceivedInOrder
<1>1. IInv => ReceivedInOrder
  BY DEF IInv, OrderInv, InOrder, Latest, ReceivedInOrder
<1> QED BY InitInv, StepInv, <1>1, PTL DEF Spec

-----------------------------------------------------------------------------
(* Requests for an update.  The last job of a frame is the cyclic one: a   *)
(* request is answered there at the latest, because the owner of o has yet *)
(* to come to it for o as long as something is owed.                       *)

Last(f) == main[f].jobs[Len(main[f].jobs)]
IsCyclic(j) == j.verb = "send" /\ j.kind = "cyclic"

\* The last job of the present frame has o before it.
Pending(f, o) ==
  /\ IsCyclic(Last(f)) /\ o \in Last(f).left
  /\ Len(main[f].jobs) = 1 /\ o = Obj(f) => main[f].at \in {"start", "build"}

Owing(f, o) == main[f].jobs # <<>> /\ (main[f].frame < Frames \/ Pending(f, o))

\* f builds the set of attributes of o for the cyclic job.
Builds(f, o) == main[f].at = "build" /\ o = Obj(f) /\ Doing(f).kind = "cyclic"

LastInv ==
  \A f \in Federates :
    main[f].jobs # <<>> => IsCyclic(Last(f)) \/ Last(f).left \subseteq Remote(f)

FlagsInv ==
  /\ flags \in [Objects -> [object : BOOLEAN, attributes : SUBSET Kinds]]
  /\ owed \in [Objects -> SUBSET Kinds]
  /\ \A o \in Objects :
       owed[o] \subseteq flags[o].attributes /\ flags[o].attributes \subseteq Config[o]

OwedInv ==
  \A o \in Objects : owed[o] # {} =>
    /\ Owing(Owner[o], o)
    /\ o \in ExCO => flags[o].object \/ Builds(Owner[o], o)

RInv == LastInv /\ FlagsInv /\ OwedInv

\* The last element of the tail of a sequence is that of the sequence.
LEMMA LastOfTail ==
  ASSUME NEW S, NEW s \in Seq(S), s # <<>>
  PROVE  /\ Len(s) \in Nat \ {0} /\ Tail(s) \in Seq(S) /\ Len(Tail(s)) = Len(s) - 1
         /\ Tail(s) # <<>> => Tail(s)[Len(Tail(s))] = s[Len(s)]
         /\ Tail(s) = <<>> => Len(s) = 1
<1> DEFINE t == Tail(s)
<1>1. Len(s) \in Nat \ {0}
  BY LenProperties
<1>2. /\ t \in Seq(S) /\ Len(t) = Len(s) - 1
      /\ \A i \in 1 .. Len(t) : t[i] = s[i + 1]
  BY HeadTailProperties
<1> HIDE DEF t
<1>3. t # <<>> => Len(t) \in Nat \ {0}
  BY <1>2, LenProperties
<1>4. t = <<>> => Len(s) = 1
  BY <1>1, <1>2
<1>5. t # <<>> => t[Len(t)] = s[Len(s)]
  BY <1>1, <1>2, <1>3
<1> QED BY <1>1, <1>2, <1>4, <1>5 DEF t

\* What the main thread of f does leaves the others where they are.
LEMMA OthersStay ==
  ASSUME MainInv, NEW f \in Federates, main' = [main EXCEPT ![f] = main'[f]],
         NEW g \in Federates \ {f}, NEW o
  PROVE  /\ main'[g] = main[g]
         /\ Owing(g, o) => Owing(g, o)'
         /\ Builds(g, o) => Builds(g, o)'
         /\ Last(g)' = Last(g)
<1>1. main'[g] = main[g]
  BY DEF MainInv
<1>2. Last(g)' = Last(g) /\ Obj(g)' = Obj(g) /\ Doing(g)' = Doing(g)
  BY <1>1 DEF Last, Obj, Doing
<1> QED BY <1>1, <1>2 DEF Owing, Pending, Builds, IsCyclic

\* What each way of going on does to what f owes.
LEMMA GoToOwing ==
  ASSUME MainInv, NEW f \in Federates, NEW o, NEW at, GoTo(f, at), Owing(f, o),
         at \in {"start", "build"} \/ ~IsCyclic(Doing(f))
  PROVE  Owing(f, o)'
<1>1. main'[f].at = at /\ main'[f].jobs = main[f].jobs
  BY GoToLeads
<1>2. main'[f].frame = main[f].frame
  BY DEF GoTo, MainInv, Mains
<1>3. Last(f)' = Last(f) /\ Obj(f)' = Obj(f) /\ Len(main[f].jobs)' = Len(main[f].jobs)
  BY <1>1 DEF Last, Obj, Doing
<1>4. Len(main[f].jobs) = 1 => Doing(f) = Last(f)
  BY DEF Last, Doing, MainInv, Mains
<1> QED BY <1>1, <1>2, <1>3, <1>4 DEF Owing, Pending, IsCyclic

LEMMA NextObjectLast ==
  ASSUME MainInv, NEW f \in Federates, main[f].jobs # <<>>, NextObject(f)
  PROVE  /\ main'[f].frame = main[f].frame /\ main'[f].jobs # <<>>
         /\ Len(main[f].jobs)' = Len(main[f].jobs)
         /\ Last(f)'.verb = Last(f).verb /\ Last(f)'.kind = Last(f).kind
         /\ Last(f)'.left \subseteq Last(f).left
         /\ \A o \in Last(f).left :
              (o # Obj(f) \/ Len(main[f].jobs) # 1) => o \in Last(f)'.left
<1> DEFINE m == main[f]
           j == [m.jobs[1] EXCEPT !.left = @ \ {Obj(f)}]
           jobs == [m.jobs EXCEPT ![1] = j]
           e == [m EXCEPT !.at = "start", !.jobs = jobs]
<1>1. m \in Mains(f) /\ m.jobs \in Seq(JobsOf(f)) /\ 1 \in 1 .. Len(m.jobs)
  BY DEF MainInv, Mains
<1>2. m.jobs[1] \in JobsOf(f)
  BY <1>1
<1>3. /\ j \in JobsOf(f) /\ j.verb = m.jobs[1].verb /\ j.kind = m.jobs[1].kind
      /\ j.left = m.jobs[1].left \ {Obj(f)}
  BY <1>2 DEF JobsOf
<1>4. main'[f] = e
  BY <1>1 DEF NextObject, Mains, MainInv
<1> HIDE DEF j
<1>5. Len(jobs) = Len(m.jobs) /\ jobs # <<>> /\ jobs[1] = j
      /\ \A i \in 2 .. Len(m.jobs) : jobs[i] = m.jobs[i]
  BY <1>1, <1>3, ExceptSeq
<1> HIDE DEF jobs
<1>6. e.jobs = jobs /\ e.frame = m.frame
  BY <1>1 DEF Mains
<1>7. Last(f)' = jobs[Len(m.jobs)] /\ Last(f) = m.jobs[Len(m.jobs)]
  BY <1>4, <1>5, <1>6 DEF Last
<1> HIDE DEF e
<1>8. CASE Len(m.jobs) = 1
  BY <1>3, <1>4, <1>5, <1>6, <1>7, <1>8
<1>9. CASE Len(m.jobs) # 1
  <2>1. Len(m.jobs) \in 2 .. Len(m.jobs)
    <3>1. Len(m.jobs) \in Nat
      BY <1>1, LenProperties
    <3>2. \A k \in Nat : (1 \in 1 .. k /\ k # 1) => k \in 2 .. k
      OBVIOUS
    <3> QED BY <1>1, <1>9, <3>1, <3>2, Zenon
  <2> QED BY <1>4, <1>5, <1>6, <1>7, <1>9, <2>1
<1> QED BY <1>8, <1>9

LEMMA NextObjectOwing ==
  ASSUME MainInv, NEW f \in Federates, main[f].jobs # <<>>, NEW o, NextObject(f), Owing(f, o),
         o # Obj(f) \/ ~IsCyclic(Doing(f))
  PROVE  Owing(f, o)'
<1>1. main'[f].at = "start"
  BY NextObjectLeads
<1>2. Len(main[f].jobs) = 1 => Doing(f) = Last(f)
  BY DEF Last, Doing, MainInv, Mains
<1> QED BY <1>1, <1>2, NextObjectLast DEF Owing, Pending, IsCyclic

LEMMA NextJobOwing ==
  ASSUME MainInv, NEW f \in Federates, main[f].jobs # <<>>, NEW o, NextJob(f), Owing(f, o),
         o \in Local(f), ~HasObj(f) \/ ~IsCyclic(Doing(f))
  PROVE  Owing(f, o)'
<1> DEFINE m == main[f]
           n == m.frame + 1
           rest == Tail(m.jobs)
<1>1. m.jobs \in Seq(JobsOf(f)) /\ m.frame \in Nat /\ Frames \in Nat
  <2>1. Frames \in Nat
    BY FederatesAssumption DEF Frames
  <2> QED BY <2>1 DEF MainInv, Mains
<1> DEFINE jobs == m.jobs
<1>0. /\ jobs # <<>> /\ Len(jobs) \in Nat \ {0} /\ rest \in Seq(JobsOf(f))
      /\ Len(rest) = Len(jobs) - 1
      /\ rest # <<>> => rest[Len(rest)] = jobs[Len(jobs)]
      /\ rest = <<>> => Len(jobs) = 1
  <2>1. jobs \in Seq(JobsOf(f)) /\ jobs # <<>> /\ rest = Tail(jobs)
    BY <1>1
  <2> HIDE DEF jobs, rest
  <2> QED BY <2>1, LastOfTail
<1>2. CASE rest # <<>>
  <2>1. main'[f] = [frame |-> m.frame, at |-> "start", jobs |-> rest]
    BY <1>2 DEF NextJob, MainInv
  <2>2. rest[Len(rest)] = m.jobs[Len(m.jobs)]
    BY <1>0, <1>2
  <2>3. Last(f)' = Last(f)
    <3>1. main'[f].jobs = rest
      BY <2>1
    <3> HIDE DEF rest
    <3> QED BY <2>2, <3>1 DEF Last
  <2> QED BY <1>2, <2>1, <2>3 DEF Owing, Pending, IsCyclic
<1>3. CASE rest = <<>> /\ n > Frames
  <2>1. Len(m.jobs) = 1
    BY <1>0, <1>3
  <2>2. Doing(f) = Last(f) /\ ~(m.frame < Frames)
    BY <1>1, <1>3, <2>1 DEF Last, Doing
  <2>3. Pending(f, o)
    BY <2>2 DEF Owing
  <2> QED BY <2>2, <2>3 DEF Pending, HasObj
<1>4. CASE rest = <<>> /\ ~(n > Frames)
  <2>1. main'[f] = [frame |-> n, at |-> "start", jobs |-> FrameJobs(f, n)]
    BY <1>4 DEF NextJob, MainInv
  <2>2. Last(f)' = Job("send", "cyclic", Local(f)) /\ main'[f].jobs # <<>>
    BY <2>1, FrameJobsOk DEF Last
  <2> QED BY <2>1, <2>2 DEF Owing, Pending, IsCyclic, Job
<1> QED BY <1>2, <1>3, <1>4

LEMMA LastKeeps ==
  ASSUME MainInv, LastInv, NEW f \in Federates, main[f].jobs # <<>>,
         (\E at : GoTo(f, at)) \/ NextObject(f) \/ NextJob(f)
  PROVE  LastInv' /\ main' = [main EXCEPT ![f] = main'[f]]
<1>1. main' = [main EXCEPT ![f] = main'[f]]
  BY GoToLeads, NextObjectLeads, NextJobLeads
<1>2. main'[f].jobs # <<>> => IsCyclic(Last(f))' \/ Last(f)'.left \subseteq Remote(f)
  <2>1. CASE \E at : GoTo(f, at)
    BY <2>1, GoToLeads DEF Last, LastInv, IsCyclic
  <2>2. CASE NextObject(f)
    BY <2>2, NextObjectLast DEF LastInv, IsCyclic
  <2>3. CASE NextJob(f)
    <3> DEFINE m == main[f]
               n == m.frame + 1
               rest == Tail(m.jobs)
    <3>1. m.jobs \in Seq(JobsOf(f))
      BY DEF MainInv, Mains
    <3>2. CASE rest # <<>>
      <4>1. main'[f].jobs = rest
        BY <2>3, <3>2 DEF NextJob, MainInv
      <4>2. rest[Len(rest)] = m.jobs[Len(m.jobs)]
        BY <3>1, <3>2, LastOfTail
      <4> HIDE DEF rest
      <4>3. Last(f)' = Last(f)
        BY <4>1, <4>2 DEF Last
      <4> QED BY <4>3 DEF LastInv, IsCyclic
    <3>3. CASE rest = <<>> /\ n > Frames
      <4>1. main'[f].jobs = rest
        BY <2>3, <3>3 DEF NextJob, MainInv
      <4> QED BY <3>3, <4>1
    <3>4. CASE rest = <<>> /\ ~(n > Frames)
      <4>1. main'[f].jobs = FrameJobs(f, n)
        BY <2>3, <3>4 DEF NextJob, MainInv
      <4>2. Last(f)' = Job("send", "cyclic", Local(f))
        BY <4>1, FrameJobsOk DEF Last
      <4> QED BY <4>2 DEF IsCyclic, Job
    <3> QED BY <3>2, <3>3, <3>4
  <2> QED BY <2>1, <2>2, <2>3
<1>3. ASSUME NEW g \in Federates, main'[g].jobs # <<>>
      PROVE  (IsCyclic(Last(g)) \/ Last(g).left \subseteq Remote(g))'
  <2>1. CASE g = f
    BY <1>2, <1>3, <2>1
  <2>2. CASE g # f
    <3>1. main'[g] = main[g] /\ Last(g)' = Last(g)
      BY <1>1, <2>2, OthersStay
    <3> QED BY <1>3, <3>1 DEF LastInv, IsCyclic
  <2> QED BY <2>1, <2>2
<1> QED BY <1>1, <1>3 DEF LastInv

\* A step of the main thread of f keeps what is owed by the others.
LEMMA OwedStep ==
  ASSUME MainInv, OwedInv, NEW f \in Federates, main' = [main EXCEPT ![f] = main'[f]],
         \A o \in Objects : owed'[o] # {} => owed[o] # {},
         \A o \in Objects : Owner[o] # f /\ flags[o].object => flags'[o].object,
         \A o \in Objects : Owner[o] = f /\ owed'[o] # {} =>
           Owing(f, o)' /\ (o \in ExCO => flags'[o].object \/ Builds(f, o)')
  PROVE  OwedInv'
<1>1. ASSUME NEW o \in Objects, owed'[o] # {}
      PROVE  Owing(Owner[o], o)' /\ (o \in ExCO => flags'[o].object \/ Builds(Owner[o], o)')
  <2>1. CASE Owner[o] = f
    BY <1>1, <2>1
  <2>2. CASE Owner[o] # f
    <3>1. Owner[o] \in Federates \ {f}
      BY <2>2, ObjectsAssumption
    <3>2. Owing(Owner[o], o) /\ (o \in ExCO => flags[o].object \/ Builds(Owner[o], o))
      BY <1>1 DEF OwedInv
    <3>3. Owing(Owner[o], o)' /\ (Builds(Owner[o], o) => Builds(Owner[o], o)')
      BY <3>1, <3>2, OthersStay
    <3> QED BY <2>2, <3>2, <3>3
  <2> QED BY <2>1, <2>2
<1> QED BY <1>1 DEF OwedInv

\* The steps of a main thread that leave the flags alone: it is not at the
\* cyclic job, or done with it.
LEMMA PlainKeeps ==
  ASSUME MainInv, RInv, NEW f \in Federates, main[f].jobs # <<>>, main[f].at # "build",
         UNCHANGED <<flags, owed>>,
         \/ ~IsCyclic(Doing(f)) /\ ((\E at : GoTo(f, at)) \/ NextObject(f) \/ NextJob(f))
         \/ ~HasObj(f) /\ NextJob(f)
  PROVE  RInv'
<1>1. LastInv' /\ main' = [main EXCEPT ![f] = main'[f]]
  BY LastKeeps DEF RInv
<1>2. FlagsInv'
  BY DEF RInv, FlagsInv
<1>3. ASSUME NEW o \in Objects, Owner[o] = f, owed'[o] # {}
      PROVE  Owing(f, o)' /\ (o \in ExCO => flags'[o].object)
  <2>1. Owing(f, o) /\ (o \in ExCO => flags[o].object) /\ o \in Local(f)
    BY <1>3 DEF RInv, OwedInv, Builds, Local
  <2>2. Owing(f, o)'
    BY <2>1, GoToOwing, NextObjectOwing, NextJobOwing
  <2> QED BY <2>1, <2>2
<1>4. OwedInv'
  BY <1>1, <1>3, OwedStep DEF RInv
<1> QED BY <1>1, <1>2, <1>4 DEF RInv

LEMMA PlainStepKeeps ==
  ASSUME IInv, RInv, NEW f \in Federates,
         \/ SendInit(f) \/ FirstRead(f) \/ BlockingRead(f) \/ DataArrives(f)
         \/ CheckData(f) \/ UnpackCyclic(f) \/ UnpackOne(f) \/ ReadGivesUp(f)
         \/ ProcessDeleted(f) \/ EndJob(f) \/ RequestUpdates(f) \/ SendInteraction(f)
         \/ HandleInteraction(f) \/ PopInteraction(f) \/ NoInteraction(f)
  PROVE  RInv'
<1>1. main[f].jobs # <<>> /\ UNCHANGED <<flags, owed>> /\ MainInv
  BY DEF SendInit, FirstRead, BlockingRead, DataArrives, CheckData, UnpackCyclic, UnpackOne,
         ReadGivesUp, ProcessDeleted, EndJob, RequestUpdates, SendInteraction,
         HandleInteraction, PopInteraction, NoInteraction, ownerVars, Does, Running, IInv
<1>2. CASE EndJob(f)
  <2>1. ~HasObj(f) /\ NextJob(f)
    BY <1>2 DEF EndJob
  <2>2. main[f].at # "build"
    BY <1>1, <2>1 DEF MainInv, Mains, AtOk, HasObj, Doing
  <2> QED BY <1>1, <2>1, <2>2, PlainKeeps
<1>3. CASE CheckData(f) \/ UnpackOne(f) \/ UnpackCyclic(f) \/ ReadGivesUp(f)
           \/ DataArrives(f) \/ FirstRead(f) \/ BlockingRead(f)
  <2>1. main[f].at # "build"
    BY <1>3 DEF CheckData, UnpackOne, UnpackCyclic, ReadGivesUp, DataArrives, FirstRead,
                BlockingRead, Does
  <2>2. ~IsCyclic(Doing(f))
    <3>1. CASE CheckData(f) \/ UnpackCyclic(f) \/ ReadGivesUp(f) \/ DataArrives(f)
               \/ FirstRead(f) \/ BlockingRead(f)
      BY <3>1 DEF CheckData, UnpackCyclic, ReadGivesUp, DataArrives, FirstRead,
                  BlockingRead, Does, IsCyclic
    <3>2. CASE UnpackOne(f)
      BY <3>2 DEF UnpackOne, IsCyclic
    <3> QED BY <1>3, <3>1, <3>2
  <2>3. (\E at : GoTo(f, at)) \/ NextObject(f)
    BY <1>3 DEF CheckData, UnpackOne, UnpackCyclic, ReadGivesUp, DataArrives, FirstRead,
                BlockingRead
  <2> QED BY <1>1, <2>1, <2>2, <2>3, PlainKeeps
<1>4. CASE SendInit(f) \/ HandleInteraction(f) \/ PopInteraction(f)
           \/ ProcessDeleted(f) \/ RequestUpdates(f) \/ SendInteraction(f) \/ NoInteraction(f)
  <2>1. main[f].at # "build" /\ ~IsCyclic(Doing(f))
    BY <1>4 DEF SendInit, HandleInteraction, PopInteraction, ProcessDeleted, RequestUpdates,
                SendInteraction, NoInteraction, Does, IsCyclic
  <2>2. (\E at : GoTo(f, at)) \/ NextJob(f)
    BY <1>4 DEF SendInit, HandleInteraction, PopInteraction, ProcessDeleted, RequestUpdates,
                SendInteraction, NoInteraction
  <2> QED BY <1>1, <2>1, <2>2, PlainKeeps
<1> QED BY <1>2, <1>3, <1>4

\* The check before the sending lowers the flag of the object, and goes on
\* to build the set of attributes unless nothing is asked for.
LEMMA CheckKeeps ==
  ASSUME IInv, RInv, NEW f \in Federates, SendExchange(f) \/ SendCyclic(f) \/ SendRequested(f)
  PROVE  RInv'
<1>0. PICK p : p = Obj(f)
  OBVIOUS
<1>1. /\ main[f].jobs # <<>> /\ MainInv /\ main[f].at = "start" /\ HasObj(f)
      /\ Doing(f).verb = "send" /\ UNCHANGED owed
      /\ flags' = [flags EXCEPT ![p].object = FALSE]
      /\ GoTo(f, "build") \/ NextObject(f)
  BY <1>0 DEF SendExchange, SendCyclic, SendRequested, Does, Running, IInv
<1>2. p \in Objects /\ p \in Doing(f).left /\ Owner[p] = f
  BY <1>0, <1>1, ObjMember DEF MainInv
<1>3. LastInv' /\ main' = [main EXCEPT ![f] = main'[f]]
  BY <1>1, LastKeeps DEF RInv
<1>4. /\ flags \in [Objects -> [object : BOOLEAN, attributes : SUBSET Kinds]]
      /\ owed \in [Objects -> SUBSET Kinds]
  BY DEF RInv, FlagsInv
<1>5. /\ flags' \in [Objects -> [object : BOOLEAN, attributes : SUBSET Kinds]]
      /\ \A o \in Objects : flags'[o].attributes = flags[o].attributes
      /\ \A o \in Objects \ {p} : flags'[o] = flags[o]
  BY <1>1, <1>2, <1>4
<1>6. FlagsInv'
  BY <1>1, <1>4, <1>5 DEF RInv, FlagsInv
\* Objects other than p.
<1>7. ASSUME NEW o \in Objects \ {p}, Owner[o] = f, owed'[o] # {}
      PROVE  Owing(f, o)' /\ (o \in ExCO => flags'[o].object)
  <2>1. Owing(f, o) /\ (o \in ExCO => flags[o].object)
    BY <1>1, <1>7 DEF RInv, OwedInv, Builds
  <2>2. Owing(f, o)'
    BY <1>0, <1>1, <1>7, <2>1, GoToOwing, NextObjectOwing
  <2> QED BY <1>5, <2>1, <2>2
\* The object p itself.
<1>8. ASSUME owed'[p] # {}
      PROVE  Owing(f, p)' /\ (p \in ExCO => flags'[p].object \/ Builds(f, p)')
  <2>1. Owing(f, p) /\ (p \in ExCO => flags[p].object) /\ flags[p].attributes # {}
    BY <1>1, <1>2, <1>8 DEF RInv, OwedInv, FlagsInv, Builds
  <2>2. CASE SendExchange(f)
    <3>1. /\ GoTo(f, "build") /\ Doing(f).kind \in {"zero_lookahead", "blocking_io"}
      BY <2>2 DEF SendExchange, Does
    <3>2. Doing(f) \in JobsOf(f)
      BY <1>1 DEF MainInv, Mains, Doing
    <3>3. p \notin ExCO
      BY <1>1, <1>2, <3>1, <3>2 DEF JobsOf
    <3> QED BY <1>1, <2>1, <3>1, <3>3, GoToOwing
  <2>3. CASE SendCyclic(f) \/ SendRequested(f)
    <3>1. Doing(f).kind = "cyclic"
      BY <2>3 DEF SendCyclic, SendRequested, Does
    <3>2. GoTo(f, "build")
      BY <1>0, <2>1, <2>3 DEF SendCyclic, SendRequested, Requested
    <3>3. Obj(f)' = Obj(f) /\ Doing(f)' = Doing(f) /\ main'[f].at = "build"
      BY <1>1, <3>2, GoToLeads DEF Obj, Doing
    <3>4. Builds(f, p)'
      BY <1>0, <3>1, <3>3 DEF Builds
    <3> QED BY <1>1, <2>1, <3>2, <3>4, GoToOwing
  <2> QED BY <2>2, <2>3
<1>9. \A o \in Objects : Owner[o] # f /\ flags[o].object => flags'[o].object
  <2>1. ASSUME NEW o \in Objects, Owner[o] # f, flags[o].object
        PROVE  flags'[o].object
    <3>1. flags'[o] = flags[o]
      BY <1>2, <1>5, <2>1
    <3> QED BY <2>1, <3>1, Zenon
  <2> QED BY <2>1
<1>10. OwedInv'
  BY <1>1, <1>3, <1>7, <1>8, <1>9, OwedStep DEF RInv
<1> QED BY <1>3, <1>6, <1>10 DEF RInv

\* What is built is sent: the cyclic job sends everything asked for.
LEMMA SentKeeps ==
  ASSUME IInv, RInv, NEW f \in Federates, BuildAndSend(f)
  PROVE  RInv'
<1>0. PICK p : p = Obj(f)
  OBVIOUS
<1> DEFINE a == Due(p, Doing(f).kind) \cup Requested(p, Doing(f).kind)
<1>1. /\ main[f].jobs # <<>> /\ MainInv /\ main[f].at = "build" /\ NextObject(f)
      /\ flags' = [flags EXCEPT ![p].attributes = @ \ a]
      /\ owed' = [owed EXCEPT ![p] = @ \ a]
  BY <1>0 DEF BuildAndSend, Running, IInv
<1>2. HasObj(f) /\ Doing(f).verb = "send"
  BY <1>1 DEF MainInv, Mains, AtOk, HasObj, Doing
<1>3. p \in Objects /\ Owner[p] = f
  BY <1>0, <1>1, <1>2, ObjMember DEF MainInv
<1>4. LastInv' /\ main' = [main EXCEPT ![f] = main'[f]]
  BY <1>1, LastKeeps DEF RInv
<1>5. /\ flags \in [Objects -> [object : BOOLEAN, attributes : SUBSET Kinds]]
      /\ owed \in [Objects -> SUBSET Kinds]
  BY DEF RInv, FlagsInv
<1>6. Doing(f).kind = "cyclic" => flags[p].attributes \subseteq a
  BY DEF Requested
<1> HIDE DEF a
<1>7. /\ flags' \in [Objects -> [object : BOOLEAN, attributes : SUBSET Kinds]]
      /\ owed' \in [Objects -> SUBSET Kinds]
      /\ \A o \in Objects : flags'[o].object = flags[o].object
      /\ \A o \in Objects \ {p} : flags'[o] = flags[o] /\ owed'[o] = owed[o]
      /\ flags'[p].attributes = flags[p].attributes \ a /\ owed'[p] = owed[p] \ a
  BY <1>1, <1>3, <1>5
<1>8. FlagsInv'
  <2>1. ASSUME NEW o \in Objects
        PROVE  owed'[o] \subseteq flags'[o].attributes /\ flags'[o].attributes \subseteq Config[o]
    <3>1. owed[o] \subseteq flags[o].attributes /\ flags[o].attributes \subseteq Config[o]
      BY DEF RInv, FlagsInv
    <3> QED BY <1>7, <3>1
  <2> QED BY <1>7, <2>1 DEF FlagsInv
<1>9. ASSUME NEW o \in Objects, Owner[o] = f, owed'[o] # {}
      PROVE  Owing(f, o)' /\ (o \in ExCO => flags'[o].object)
  <2>1. owed[o] # {} /\ ~(o = p /\ Doing(f).kind = "cyclic")
    <3>1. owed[o] # {}
      BY <1>7, <1>9
    <3>2. CASE o = p /\ Doing(f).kind = "cyclic"
      <4>1. owed[p] \subseteq a
        BY <1>3, <1>6, <3>2 DEF RInv, FlagsInv
      <4> QED BY <1>7, <1>9, <3>2, <4>1
    <3> QED BY <3>1, <3>2
  <2>2. Owing(f, o) /\ (o \in ExCO => flags[o].object)
    BY <1>0, <1>9, <2>1 DEF RInv, OwedInv, Builds
  <2>3. Owing(f, o)'
    BY <1>0, <1>1, <2>1, <2>2, NextObjectOwing DEF IsCyclic
  <2> QED BY <1>7, <2>2, <2>3
<1>10. /\ \A o \in Objects : owed'[o] # {} => owed[o] # {}
       /\ \A o \in Objects : Owner[o] # f /\ flags[o].object => flags'[o].object
  BY <1>7
<1>11. OwedInv'
  BY <1>1, <1>4, <1>9, <1>10, OwedStep DEF RInv
<1> QED BY <1>4, <1>8, <1>11 DEF RInv

\* Nothing of the requests changes.
LEMMA AloneKeeps ==
  ASSUME RInv, UNCHANGED <<main, flags, owed>>
  PROVE  RInv'
<1>1. \A f : Last(f)' = Last(f) /\ Obj(f)' = Obj(f) /\ Doing(f)' = Doing(f)
  BY DEF Last, Obj, Doing
<1>2. LastInv'
  BY <1>1 DEF RInv, LastInv, IsCyclic
<1>3. FlagsInv'
  BY DEF RInv, FlagsInv
<1>4. \A f, o : (Owing(f, o)' <=> Owing(f, o)) /\ (Builds(f, o)' <=> Builds(f, o))
  BY <1>1 DEF Owing, Pending, Builds, IsCyclic
<1>5. OwedInv'
  BY <1>4 DEF RInv, OwedInv
<1> QED BY <1>2, <1>3, <1>5 DEF RInv

\* The callback flags the attributes first and the object afterwards: from
\* then on the request is owed.
LEMMA ProvideKeeps ==
  ASSUME IInv, RInv, NEW p \in Objects, ProvideUpdate(p) \/ ProvideObject(p)
  PROVE  RInv'
<1>1. UNCHANGED main
  BY DEF ProvideUpdate, ProvideObject
<1>2. \A f : Last(f)' = Last(f) /\ Obj(f)' = Obj(f) /\ Doing(f)' = Doing(f)
  BY <1>1 DEF Last, Obj, Doing
<1>3. LastInv'
  BY <1>1, <1>2 DEF RInv, LastInv, IsCyclic
<1>4. \A f, o : (Owing(f, o)' <=> Owing(f, o)) /\ (Builds(f, o)' <=> Builds(f, o))
  BY <1>1, <1>2 DEF Owing, Pending, Builds, IsCyclic
<1>5. /\ flags \in [Objects -> [object : BOOLEAN, attributes : SUBSET Kinds]]
      /\ owed \in [Objects -> SUBSET Kinds]
      /\ Config \in [Objects -> SUBSET Kinds]
  BY ObjectsAssumption DEF RInv, FlagsInv
<1>6. CASE ProvideUpdate(p)
  <2>1. flags' = [flags EXCEPT ![p].attributes = Config[p]] /\ UNCHANGED owed
    BY <1>6 DEF ProvideUpdate
  <2>2. /\ flags' \in [Objects -> [object : BOOLEAN, attributes : SUBSET Kinds]]
        /\ \A o \in Objects : flags'[o].object = flags[o].object
        /\ \A o \in Objects \ {p} : flags'[o] = flags[o]
        /\ flags'[p].attributes = Config[p]
    BY <1>5, <2>1
  <2>3. FlagsInv'
    BY <1>5, <2>1, <2>2 DEF RInv, FlagsInv
  <2>4. OwedInv'
    BY <1>4, <2>1, <2>2 DEF RInv, OwedInv
  <2> QED BY <1>3, <2>3, <2>4 DEF RInv
<1>7. CASE ProvideObject(p)
  <2>1. /\ flags' = [flags EXCEPT ![p].object = TRUE]
        /\ owed' = IF StillSends(p) THEN [owed EXCEPT ![p] = flags[p].attributes] ELSE owed
    BY <1>7 DEF ProvideObject
  <2>2. /\ flags' \in [Objects -> [object : BOOLEAN, attributes : SUBSET Kinds]]
        /\ \A o \in Objects : flags'[o].attributes = flags[o].attributes
        /\ \A o \in Objects \ {p} : flags'[o] = flags[o]
        /\ flags'[p].object = TRUE
    BY <1>5, <2>1
  <2>3. /\ owed' \in [Objects -> SUBSET Kinds]
        /\ \A o \in Objects \ {p} : owed'[o] = owed[o]
        /\ owed'[p] = IF StillSends(p) THEN flags[p].attributes ELSE owed[p]
    BY <1>5, <2>1
  <2>4. FlagsInv'
    <3>1. ASSUME NEW o \in Objects
          PROVE  owed'[o] \subseteq flags'[o].attributes /\ flags'[o].attributes \subseteq Config[o]
      <4>1. owed[o] \subseteq flags[o].attributes /\ flags[o].attributes \subseteq Config[o]
        BY DEF RInv, FlagsInv
      <4> QED BY <2>2, <2>3, <4>1
    <3> QED BY <2>2, <2>3, <3>1 DEF FlagsInv
  <2>5. StillSends(p) => Owing(Owner[p], p)
    <3>1. ASSUME StillSends(p), ~(main[Owner[p]].frame < Frames)
          PROVE  Pending(Owner[p], p)
      <4>1. /\ main[Owner[p]].jobs # <<>> /\ p \in Last(Owner[p]).left
            /\ Len(main[Owner[p]].jobs) = 1 /\ p = Obj(Owner[p]) => main[Owner[p]].at = "start"
        BY <3>1 DEF StillSends, Last
      <4>2. Owner[p] \in Federates /\ p \notin Remote(Owner[p])
        BY ObjectsAssumption DEF Remote
      <4>3. IsCyclic(Last(Owner[p]))
        BY <4>1, <4>2 DEF RInv, LastInv
      <4> QED BY <4>1, <4>3 DEF Pending
    <3> QED BY <3>1 DEF StillSends, Owing
  <2>6. OwedInv'
    BY <1>4, <2>2, <2>3, <2>5 DEF RInv, OwedInv
  <2> QED BY <1>3, <2>4, <2>6 DEF RInv
<1> QED BY <1>6, <1>7

LEMMA RequestStep ==
  ASSUME IInv, RInv, [Next]_vars
  PROVE  RInv'
<1>1. CASE UNCHANGED vars
  BY <1>1, AloneKeeps DEF vars, ownerVars
<1>2. ASSUME NEW f \in Federates, MainThread(f) \/ ReadGivesUp(f)
      PROVE  RInv'
  BY <1>2, PlainStepKeeps, CheckKeeps, SentKeeps DEF MainThread
<1>3. ASSUME NEW g \in Federates, Callback(g)
      PROVE  RInv'
  <2>1. ASSUME NEW o \in Objects, Reflect(g, o) \/ RemoveInstance(g, o)
        PROVE  RInv'
    BY <2>1, AloneKeeps DEF Reflect, RemoveInstance, ownerVars
  <2>2. ASSUME NEW o \in Objects, ProvideUpdate(o) \/ ProvideObject(o)
        PROVE  RInv'
    BY <2>2, ProvideKeeps
  <2>3. CASE ReceiveInteraction(g)
    BY <2>3, AloneKeeps DEF ReceiveInteraction, ownerVars
  <2> QED BY <1>3, <2>1, <2>2, <2>3 DEF Callback
<1>4. ASSUME NEW f \in Federates, Leave(f) \/ Lose(f)
      PROVE  RInv'
  BY <1>4, AloneKeeps DEF Leave, Lose, Depart, ownerVars
<1> QED BY <1>1, <1>2, <1>3, <1>4 DEF Next

LEMMA RequestInit == ASSUME Init PROVE RInv
<1>1. ASSUME NEW f \in Federates
      PROVE  Last(f).left \subseteq Remote(f)
  <2>1. main[f].jobs = InitJobs(f)
    BY DEF Init
  <2>2. Last(f) = Receive(f, "initialize")
    BY <2>1 DEF Last, InitJobs
  <2> QED BY <2>2 DEF Receive, Job, Having
<1>2. FlagsInv
  BY ObjectsAssumption DEF Init, FlagsInv
<1>3. OwedInv
  BY DEF Init, OwedInv
<1> QED BY <1>1, <1>2, <1>3 DEF RInv, LastInv

\* A request that comes before the last cyclic job of the owner is answered,
\* for any objects, configurations and frames, wherever the callback falls
\* between the tests, the set of attributes and the sending.
THEOREM RequestsGetAnswered == Spec => []RequestsAnswered
<1>1. RInv => RequestsAnswered
  BY DEF RInv, OwedInv, Owing, RequestsAnswered
<1>2. Init => IInv /\ RInv
  BY InitInv, RequestInit
<1>3. IInv /\ RInv /\ [Next]_vars => (IInv /\ RInv)'
  BY StepInv, RequestStep
<1> QED BY <1>1, <1>2, <1>3, PTL DEF Spec

-----------------------------------------------------------------------------
(* Interactions.  What g has yet to handle changes at the front when an    *)
(* item is handled, and at the end when one is sent; that it is on the     *)
(* wire or in the queue makes no difference.                               *)

Items == Federates \X Nat

\* An item of f is at place i of s.
IsFrom(s, i, f) == i \in 1 .. Len(s) /\ s[i][1] = f

\* InLine, place by place.
InPlaces(s, f, k, n) ==
  /\ k <= n
  /\ \A i \in 1 .. Len(s) : IsFrom(s, i, f) => s[i][2] \in k + 1 .. n
  /\ \A x \in k + 1 .. n : \E i \in 1 .. Len(s) : IsFrom(s, i, f) /\ s[i][2] = x
  /\ \A i, j \in 1 .. Len(s) :
       IsFrom(s, i, f) /\ IsFrom(s, j, f) /\ i < j => s[i][2] < s[j][2]

LEMMA InLineMeans ==
  ASSUME NEW s \in Seq(Items), NEW f, NEW k \in Nat, NEW n \in Nat
  PROVE  InLine(s, f, k, n) <=> InPlaces(s, f, k, n)
<1> DEFINE from == {i \in DOMAIN s : s[i][1] = f}
<1>1. DOMAIN s = 1 .. Len(s)
  OBVIOUS
<1>2. {s[i][2] : i \in from} = k + 1 .. n <=>
        /\ \A i \in 1 .. Len(s) : IsFrom(s, i, f) => s[i][2] \in k + 1 .. n
        /\ \A x \in k + 1 .. n : \E i \in 1 .. Len(s) : IsFrom(s, i, f) /\ s[i][2] = x
  <2>1. {s[i][2] : i \in from} \subseteq k + 1 .. n <=>
          \A i \in 1 .. Len(s) : IsFrom(s, i, f) => s[i][2] \in k + 1 .. n
    BY <1>1 DEF IsFrom
  <2>2. k + 1 .. n \subseteq {s[i][2] : i \in from} <=>
          \A x \in k + 1 .. n : \E i \in 1 .. Len(s) : IsFrom(s, i, f) /\ s[i][2] = x
    BY <1>1 DEF IsFrom
  <2>3. \A A, B : A = B <=> A \subseteq B /\ B \subseteq A
    OBVIOUS
  <2> HIDE DEF from
  <2> QED BY <2>1, <2>2, <2>3
<1>3. (\A i, j \in from : i < j => s[i][2] < s[j][2]) <=>
        \A i, j \in 1 .. Len(s) :
          IsFrom(s, i, f) /\ IsFrom(s, j, f) /\ i < j => s[i][2] < s[j][2]
  BY <1>1 DEF IsFrom
<1>4. InLine(s, f, k, n) <=>
        /\ k <= n /\ {s[i][2] : i \in from} = k + 1 .. n
        /\ \A i, j \in from : i < j => s[i][2] < s[j][2]
  BY DEF InLine
<1> HIDE DEF from
<1> QED BY <1>2, <1>3, <1>4 DEF InPlaces

\* An item is sent: the last in line, or one of another federate.
LEMMA InLineAppend ==
  ASSUME NEW s \in Seq(Items), NEW f \in Federates, NEW k \in Nat, NEW n \in Nat,
         InLine(s, f, k, n), NEW e \in Items
  PROVE  /\ e = <<f, n + 1>> => InLine(Append(s, e), f, k, n + 1)
         /\ e[1] # f => InLine(Append(s, e), f, k, n)
<1> DEFINE t == Append(s, e)
<1>1. /\ t \in Seq(Items) /\ Len(s) \in Nat /\ Len(t) = Len(s) + 1
      /\ \A i \in 1 .. Len(s) : t[i] = s[i]
      /\ t[Len(s) + 1] = e
  BY AppendProperties
<1> HIDE DEF t
<1>2. /\ k <= n
      /\ \A i \in 1 .. Len(s) : IsFrom(s, i, f) => s[i][2] \in k + 1 .. n
      /\ \A x \in k + 1 .. n : \E i \in 1 .. Len(s) : IsFrom(s, i, f) /\ s[i][2] = x
      /\ \A i, j \in 1 .. Len(s) :
           IsFrom(s, i, f) /\ IsFrom(s, j, f) /\ i < j => s[i][2] < s[j][2]
  BY InLineMeans DEF InPlaces
<1>3. \A i \in 1 .. Len(s) : (IsFrom(t, i, f) <=> IsFrom(s, i, f)) /\ t[i][2] = s[i][2]
  BY <1>1 DEF IsFrom
<1>4. \A i \in 1 .. Len(t) : i \in 1 .. Len(s) \/ i = Len(s) + 1
  BY <1>1
<1>5. ASSUME e = <<f, n + 1>>
      PROVE  InLine(t, f, k, n + 1)
  <2>0. IsFrom(t, Len(s) + 1, f) /\ t[Len(s) + 1][2] = n + 1
    BY <1>1, <1>5 DEF IsFrom
  <2>1. ASSUME NEW i \in 1 .. Len(t), IsFrom(t, i, f)
        PROVE  t[i][2] \in k + 1 .. n + 1
    <3>1. CASE i \in 1 .. Len(s)
      <4>1. t[i][2] \in k + 1 .. n
        BY <1>2, <1>3, <2>1, <3>1
      <4> QED BY <4>1
    <3>2. CASE i = Len(s) + 1
      <4>1. t[i][2] = n + 1 /\ k <= n
        BY <1>2, <2>0, <3>2
      <4> QED BY <4>1
    <3> QED BY <1>4, <2>1, <3>1, <3>2
  <2>2. ASSUME NEW x \in k + 1 .. n + 1
        PROVE  \E i \in 1 .. Len(t) : IsFrom(t, i, f) /\ t[i][2] = x
    <3>1. CASE x = n + 1
      BY <1>1, <2>0, <3>1
    <3>2. CASE x \in k + 1 .. n
      <4>1. PICK i \in 1 .. Len(s) : IsFrom(s, i, f) /\ s[i][2] = x
        BY <1>2, <3>2
      <4> QED BY <1>1, <1>3, <4>1
    <3> QED BY <3>1, <3>2
  <2>3. ASSUME NEW i \in 1 .. Len(t), NEW j \in 1 .. Len(t), IsFrom(t, i, f), IsFrom(t, j, f), i < j
        PROVE  t[i][2] < t[j][2]
    <3>1. i \in 1 .. Len(s)
      BY <1>1, <2>3
    <3>2. CASE j \in 1 .. Len(s)
      BY <1>2, <1>3, <2>3, <3>1, <3>2
    <3>3. CASE j = Len(s) + 1
      <4>1. t[i][2] \in k + 1 .. n
        BY <1>2, <1>3, <2>3, <3>1
      <4> QED BY <2>0, <3>3, <4>1
    <3> QED BY <1>4, <3>2, <3>3
  <2>4. InPlaces(t, f, k, n + 1) /\ n + 1 \in Nat
    BY <1>2, <2>1, <2>2, <2>3 DEF InPlaces
  <2> QED BY <1>1, <2>4, InLineMeans
<1>6. ASSUME e[1] # f
      PROVE  InLine(t, f, k, n)
  <2>1. \A i \in 1 .. Len(t) : IsFrom(t, i, f) => i \in 1 .. Len(s)
    BY <1>1, <1>4, <1>6 DEF IsFrom
  <2>2. \A i \in 1 .. Len(t) : IsFrom(t, i, f) => t[i][2] \in k + 1 .. n
    BY <1>2, <1>3, <2>1
  <2>3. \A x \in k + 1 .. n : \E i \in 1 .. Len(t) : IsFrom(t, i, f) /\ t[i][2] = x
    BY <1>1, <1>2, <1>3
  <2>4. \A i, j \in 1 .. Len(t) :
          IsFrom(t, i, f) /\ IsFrom(t, j, f) /\ i < j => t[i][2] < t[j][2]
    BY <1>2, <1>3, <2>1
  <2>5. InPlaces(t, f, k, n)
    BY <1>2, <2>2, <2>3, <2>4 DEF InPlaces
  <2> QED BY <1>1, <2>5, InLineMeans
<1> QED BY <1>5, <1>6 DEF t

\* The first item is handled: if it is of f, it is the next one of f.
LEMMA InLineHead ==
  ASSUME NEW s \in Seq(Items), s # <<>>, NEW f \in Federates, NEW k \in Nat, NEW n \in Nat,
         InLine(s, f, k, n)
  PROVE  /\ Head(s)[1] = f => Head(s)[2] = k + 1 /\ InLine(Tail(s), f, k + 1, n)
         /\ Head(s)[1] # f => InLine(Tail(s), f, k, n)
<1> DEFINE t == Tail(s)
<1>1. /\ t \in Seq(Items) /\ Len(s) \in Nat \ {0} /\ Len(t) = Len(s) - 1
      /\ \A i \in 1 .. Len(t) : t[i] = s[i + 1]
      /\ Head(s) = s[1]
  BY HeadTailProperties
<1> HIDE DEF t
<1>2. /\ k <= n
      /\ \A i \in 1 .. Len(s) : IsFrom(s, i, f) => s[i][2] \in k + 1 .. n
      /\ \A x \in k + 1 .. n : \E i \in 1 .. Len(s) : IsFrom(s, i, f) /\ s[i][2] = x
      /\ \A i, j \in 1 .. Len(s) :
           IsFrom(s, i, f) /\ IsFrom(s, j, f) /\ i < j => s[i][2] < s[j][2]
  BY InLineMeans DEF InPlaces
<1>3. \A i \in 1 .. Len(t) :
        i + 1 \in 1 .. Len(s) /\ (IsFrom(t, i, f) <=> IsFrom(s, i + 1, f)) /\ t[i][2] = s[i + 1][2]
  BY <1>1 DEF IsFrom
<1>4. \A i \in 1 .. Len(s) : i = 1 \/ (i - 1 \in 1 .. Len(t) /\ i = (i - 1) + 1)
  BY <1>1
<1>5. ASSUME NEW i \in 1 .. Len(t), NEW j \in 1 .. Len(t), IsFrom(t, i, f), IsFrom(t, j, f), i < j
      PROVE  t[i][2] < t[j][2]
  <2>1. i + 1 < j + 1
    BY <1>5
  <2> QED BY <1>2, <1>3, <1>5, <2>1
<1>6. ASSUME s[1][1] = f
      PROVE  s[1][2] = k + 1 /\ InLine(t, f, k + 1, n)
  <2>1. IsFrom(s, 1, f) /\ s[1][2] \in k + 1 .. n
    BY <1>1, <1>2, <1>6 DEF IsFrom
  <2>2. s[1][2] = k + 1
    <3>0. k + 1 \in k + 1 .. n
      BY <2>1
    <3>1. PICK i \in 1 .. Len(s) : IsFrom(s, i, f) /\ s[i][2] = k + 1
      BY <1>2, <3>0
    <3>2. CASE i > 1
      BY <1>1, <1>2, <2>1, <3>1, <3>2
    <3> QED BY <3>1, <3>2
  <2>3. \A i \in 1 .. Len(t) : IsFrom(t, i, f) => t[i][2] \in (k + 1) + 1 .. n
    <3>1. ASSUME NEW i \in 1 .. Len(t), IsFrom(t, i, f)
          PROVE  t[i][2] \in (k + 1) + 1 .. n
      <4>1. s[i + 1][2] \in k + 1 .. n /\ s[1][2] < s[i + 1][2]
        <5>1. 1 \in 1 .. Len(s) /\ 1 < i + 1 /\ i + 1 \in 1 .. Len(s) /\ IsFrom(s, i + 1, f)
          BY <1>1, <1>3, <3>1
        <5> QED BY <1>2, <2>1, <5>1
      <4> QED BY <1>3, <2>2, <4>1
    <3> QED BY <3>1
  <2>4. ASSUME NEW x \in (k + 1) + 1 .. n
        PROVE  \E i \in 1 .. Len(t) : IsFrom(t, i, f) /\ t[i][2] = x
    <3>1. PICK i \in 1 .. Len(s) : IsFrom(s, i, f) /\ s[i][2] = x
      BY <1>2
    <3>2. i # 1
      BY <2>2, <3>1
    <3> QED BY <1>3, <1>4, <3>1, <3>2
  <2>5. k + 1 <= n
    BY <2>1
  <2>6. InPlaces(t, f, k + 1, n) /\ k + 1 \in Nat
    BY <1>5, <2>3, <2>4, <2>5 DEF InPlaces
  <2> QED BY <1>1, <2>2, <2>6, InLineMeans
<1>7. ASSUME s[1][1] # f
      PROVE  InLine(t, f, k, n)
  <2>1. ASSUME NEW x \in k + 1 .. n
        PROVE  \E i \in 1 .. Len(t) : IsFrom(t, i, f) /\ t[i][2] = x
    <3>1. PICK i \in 1 .. Len(s) : IsFrom(s, i, f) /\ s[i][2] = x
      BY <1>2
    <3>2. i # 1
      BY <1>7, <3>1 DEF IsFrom
    <3> QED BY <1>3, <1>4, <3>1, <3>2
  <2>2. \A i \in 1 .. Len(t) : IsFrom(t, i, f) => t[i][2] \in k + 1 .. n
    BY <1>2, <1>3
  <2>3. InPlaces(t, f, k, n)
    BY <1>2, <1>5, <2>1, <2>2 DEF InPlaces
  <2> QED BY <1>1, <2>3, InLineMeans
<1> QED BY <1>1, <1>6, <1>7 DEF t

LEMMA HeadTailOfConcat ==
  ASSUME NEW S, NEW q \in Seq(S), NEW w \in Seq(S), q # <<>>
  PROVE  /\ q \o w \in Seq(S) /\ q \o w # <<>>
         /\ Head(q \o w) = Head(q) /\ Tail(q \o w) = Tail(q) \o w
<1> DEFINE s == q \o w
<1>1. /\ s \in Seq(S) /\ Len(s) = Len(q) + Len(w) /\ Len(q) \in Nat \ {0} /\ Len(w) \in Nat
      /\ \A i \in 1 .. Len(q) + Len(w) : s[i] = IF i <= Len(q) THEN q[i] ELSE w[i - Len(q)]
  BY ConcatProperties
<1> HIDE DEF s
<1>2. s # <<>>
  BY <1>1
<1>3. Head(s) = Head(q)
  BY <1>1, <1>2
<1>4. Tail(s) = Tail(q) \o w
  <2> DEFINE t == Tail(q)
             u == t \o w
             v == Tail(s)
  <2>1. t \in Seq(S) /\ Len(t) = Len(q) - 1 /\ \A i \in 1 .. Len(t) : t[i] = q[i + 1]
    BY HeadTailProperties
  <2>2. v \in Seq(S) /\ Len(v) = Len(s) - 1 /\ \A i \in 1 .. Len(v) : v[i] = s[i + 1]
    BY <1>1, <1>2, HeadTailProperties
  <2> HIDE DEF t, v
  <2>3. /\ u \in Seq(S) /\ Len(u) = Len(t) + Len(w)
        /\ \A i \in 1 .. Len(t) + Len(w) : u[i] = IF i <= Len(t) THEN t[i] ELSE w[i - Len(t)]
    BY <2>1, ConcatProperties
  <2> HIDE DEF u
  <2>4. Len(u) = Len(v)
    BY <1>1, <2>1, <2>2, <2>3
  <2>5. ASSUME NEW i \in 1 .. Len(u)
        PROVE  u[i] = v[i]
    <3>1. v[i] = s[i + 1] /\ i + 1 \in 1 .. Len(q) + Len(w) /\ i \in 1 .. Len(t) + Len(w)
      BY <1>1, <2>1, <2>2, <2>3, <2>4
    <3>2. CASE i <= Len(t)
      BY <1>1, <2>1, <2>3, <3>1, <3>2
    <3>3. CASE ~(i <= Len(t))
      <4>1. s[i + 1] = w[(i + 1) - Len(q)] /\ u[i] = w[i - Len(t)]
        BY <1>1, <2>1, <2>3, <3>1, <3>3
      <4>2. (i + 1) - Len(q) = i - Len(t)
        BY <1>1, <2>1
      <4> QED BY <3>1, <4>1, <4>2
    <3> QED BY <3>2, <3>3
  <2>6. u = v
    BY <2>2, <2>3, <2>4, <2>5, SeqEqual
  <2> QED BY <2>6 DEF u, v, t
<1> QED BY <1>1, <1>2, <1>3, <1>4 DEF s

\* An element that goes from one sequence to the end of the one before it, or
\* comes to the end of the second, is where it was or at the end of both.
LEMMA ConcatAppend ==
  ASSUME NEW S, NEW q \in Seq(S), NEW w \in Seq(S), NEW e \in S
  PROVE  q \o Append(w, e) = Append(q \o w, e)
<1>1. q \o w \in Seq(S) /\ <<e>> \in Seq(S)
  BY ConcatProperties
<1>2. Append(w, e) = w \o <<e>> /\ Append(q \o w, e) = (q \o w) \o <<e>>
  BY <1>1, AppendIsConcat
<1> QED BY <1>1, <1>2, ConcatAssociative

LEMMA ConcatMoves ==
  ASSUME NEW S, NEW q \in Seq(S), NEW w \in Seq(S), w # <<>>
  PROVE  Append(q, Head(w)) \o Tail(w) = q \o w
<1>1. Head(w) \in S /\ Tail(w) \in Seq(S) /\ w = <<Head(w)>> \o Tail(w)
  BY HeadTailProperties, ConcatSimplifications
<1>2. Append(q, Head(w)) = q \o <<Head(w)>> /\ <<Head(w)>> \in Seq(S)
  BY <1>1, AppendIsConcat
<1> QED BY <1>1, <1>2, ConcatAssociative

MailTypes ==
  mail \in [Federates -> [sent : Nat, wire : Seq(Items), queue : Seq(Items),
                          seen : [Federates -> Nat]]]

\* The item handled, and not yet taken off the queue, is there.
PopInv ==
  \A g \in Federates : main[g].at = "pop" =>
    Doing(g).verb = "process" /\ Doing(g).kind = "interactions" /\ mail[g].queue # <<>>

MailInv == MailTypes /\ PopInv /\ HandledInOrder

\* The items of g that count as unhandled change in none of these ways but
\* through mail.
LEMMA SamePop ==
  ASSUME NEW g \in Federates, main'[g].at = "pop" <=> main[g].at = "pop",
         mail'[g].queue = mail[g].queue, mail'[g].wire = mail[g].wire
  PROVE  Unhandled(g)' = Unhandled(g)
BY DEF Unhandled

LEMMA MailStays ==
  ASSUME MailInv, UNCHANGED mail, gone \subseteq gone',
         \A g \in Federates : main'[g].at = "pop" <=> main[g].at = "pop",
         \A g \in Federates : main'[g].at = "pop" => Doing(g)' = Doing(g)
  PROVE  MailInv'
<1>1. \A g \in Federates : Unhandled(g)' = Unhandled(g)
  BY SamePop
<1>2. MailTypes'
  BY DEF MailInv, MailTypes
<1>3. PopInv'
  BY DEF MailInv, PopInv
<1>4. HandledInOrder'
  BY <1>1 DEF MailInv, HandledInOrder
<1> QED BY <1>2, <1>3, <1>4 DEF MailInv

\* A main thread within another job than that which handles interactions.
LEMMA ElsewhereKeeps ==
  ASSUME IInv, MailInv, NEW f \in Federates,
         \/ SendInit(f) \/ SendExchange(f) \/ SendCyclic(f) \/ SendRequested(f)
         \/ BuildAndSend(f) \/ FirstRead(f) \/ BlockingRead(f) \/ DataArrives(f)
         \/ CheckData(f) \/ UnpackCyclic(f) \/ UnpackOne(f) \/ ReadGivesUp(f)
         \/ ProcessDeleted(f) \/ EndJob(f) \/ RequestUpdates(f) \/ NoInteraction(f)
  PROVE  MailInv'
<1>1. MainInv /\ UNCHANGED <<gone, mail>>
  BY DEF SendInit, SendExchange, SendCyclic, SendRequested, BuildAndSend, FirstRead,
         BlockingRead, DataArrives, CheckData, UnpackCyclic, UnpackOne, ReadGivesUp,
         ProcessDeleted, EndJob, RequestUpdates, NoInteraction, IInv
<1>2. main[f].at # "pop"
  <2>1. CASE EndJob(f)
    BY <2>1 DEF EndJob, MailInv, PopInv, Kinds
  <2>2. CASE CheckData(f) \/ BuildAndSend(f) \/ UnpackOne(f)
    BY <2>2 DEF CheckData, BuildAndSend, UnpackOne
  <2>3. CASE \/ SendInit(f) \/ SendExchange(f) \/ SendCyclic(f) \/ SendRequested(f)
             \/ FirstRead(f) \/ BlockingRead(f) \/ DataArrives(f) \/ UnpackCyclic(f)
             \/ ReadGivesUp(f) \/ ProcessDeleted(f) \/ RequestUpdates(f) \/ NoInteraction(f)
    BY <2>3 DEF SendInit, SendExchange, SendCyclic, SendRequested, FirstRead, BlockingRead,
                DataArrives, UnpackCyclic, ReadGivesUp, ProcessDeleted, RequestUpdates,
                NoInteraction, Does
  <2> QED BY <2>1, <2>2, <2>3
<1>3. (\E at \in Ats \ {"pop"} : GoTo(f, at)) \/ NextObject(f) \/ NextJob(f)
  BY DEF SendInit, SendExchange, SendCyclic, SendRequested, BuildAndSend, FirstRead,
         BlockingRead, DataArrives, CheckData, UnpackCyclic, UnpackOne, ReadGivesUp,
         ProcessDeleted, EndJob, RequestUpdates, NoInteraction, Ats
<1>4. main' = [main EXCEPT ![f] = main'[f]] /\ main'[f].at # "pop"
  BY <1>1, <1>3, GoToLeads, NextObjectLeads, NextJobLeads
<1>5. \A g \in Federates \ {f} : main'[g] = main[g]
  BY <1>1, <1>4 DEF MainInv
<1>6. \A g \in Federates : main'[g].at = "pop" <=> main[g].at = "pop"
  BY <1>2, <1>4, <1>5
<1>7. \A g \in Federates : main'[g].at = "pop" => Doing(g)' = Doing(g)
  BY <1>4, <1>5 DEF Doing
<1> QED BY <1>1, <1>6, <1>7, MailStays

\* What is sent comes last on the wire of every other federate.
LEMMA SendMailKeeps ==
  ASSUME IInv, MailInv, NEW f \in Federates, SendInteraction(f)
  PROVE  MailInv'
<1> DEFINE e == <<f, mail[f].sent + 1>>
<1>1. MainInv /\ main[f].at = "start" /\ NextJob(f) /\ UNCHANGED gone
  BY DEF SendInteraction, Does, IInv
<1>2. main' = [main EXCEPT ![f] = main'[f]] /\ main'[f].at # "pop"
  BY <1>1, NextJobLeads
<1>3. \A g \in Federates \ {f} : main'[g] = main[g]
  BY <1>1, <1>2 DEF MainInv
<1>4. \A g \in Federates : main'[g].at = "pop" <=> main[g].at = "pop"
  BY <1>1, <1>2, <1>3
<1>5. \A g \in Federates : main'[g].at = "pop" => Doing(g)' = Doing(g)
  BY <1>2, <1>3 DEF Doing
<1>6. CASE UNCHANGED mail
  BY <1>1, <1>4, <1>5, <1>6, MailStays
<1>7. CASE mail' = [g \in Federates |->
              IF g = f THEN [mail[g] EXCEPT !.sent = @ + 1]
              ELSE IF g \in gone THEN mail[g]
              ELSE [mail[g] EXCEPT !.wire = Append(@, e)]]
  <2>0. \A g \in Federates :
          /\ mail[g].sent \in Nat /\ mail[g].wire \in Seq(Items) /\ mail[g].queue \in Seq(Items)
          /\ mail[g].seen \in [Federates -> Nat]
    BY DEF MailInv, MailTypes
  <2>1. e \in Items
    BY <2>0 DEF Items
  <2>2. ASSUME NEW g \in Federates
        PROVE  /\ mail'[g] \in [sent : Nat, wire : Seq(Items), queue : Seq(Items),
                               seen : [Federates -> Nat]]
               /\ mail'[g].seen = mail[g].seen /\ mail'[g].queue = mail[g].queue
               /\ mail'[g].sent = IF g = f THEN mail[g].sent + 1 ELSE mail[g].sent
               /\ mail'[g].wire = IF g = f \/ g \in gone THEN mail[g].wire
                                  ELSE Append(mail[g].wire, e)
    <3>1. mail[g] \in [sent : Nat, wire : Seq(Items), queue : Seq(Items),
                       seen : [Federates -> Nat]]
      BY DEF MailInv, MailTypes
    <3>2. Append(mail[g].wire, e) \in Seq(Items)
      BY <2>0, <2>1
    <3> HIDE DEF e
    <3>3. CASE g = f
      BY <1>7, <3>1, <3>3
    <3>4. CASE g # f /\ g \in gone
      BY <1>7, <3>1, <3>4
    <3>5. CASE g # f /\ g \notin gone
      BY <1>7, <3>1, <3>2, <3>5
    <3> QED BY <3>3, <3>4, <3>5
  <2>3. MailTypes'
    BY <1>7, <2>2 DEF MailTypes
  <2>4. PopInv'
    BY <1>4, <1>5, <2>2 DEF MailInv, PopInv
  <2>5. ASSUME NEW g \in Federates, NEW h \in Federates \ {g}, g \notin gone'
        PROVE  InLine(Unhandled(g)', h, mail'[g].seen[h], mail'[h].sent)
    <3>1. InLine(Unhandled(g), h, mail[g].seen[h], mail[h].sent) /\ g \notin gone
      BY <1>1, <2>5 DEF MailInv, HandledInOrder
    <3>2. CASE g = f
      <4>1. Unhandled(g)' = Unhandled(g)
        BY <1>4, <2>2, <3>2, SamePop
      <4> QED BY <2>2, <2>5, <3>1, <3>2, <4>1
    <3>3. CASE g # f
      <4>1. Unhandled(g) \in Seq(Items) /\ Unhandled(g)' = Append(Unhandled(g), e)
        <5> DEFINE q == IF main[g].at = "pop" THEN Tail(mail[g].queue) ELSE mail[g].queue
        <5>1. q \in Seq(Items)
          BY <2>0 DEF MailInv, PopInv
        <5>2. Unhandled(g) = q \o mail[g].wire
          BY DEF Unhandled
        <5>3. Unhandled(g)' = q \o Append(mail[g].wire, e)
          BY <1>4, <2>2, <3>1, <3>3 DEF Unhandled
        <5> HIDE DEF q, e
        <5>4. mail[g].wire \in Seq(Items)
          BY <2>0
        <5>5. q \o mail[g].wire \in Seq(Items)
          BY <5>1, <5>4, ConcatProperties
        <5>6. q \o Append(mail[g].wire, e) = Append(q \o mail[g].wire, e)
          BY <2>1, <5>1, <5>4, ConcatAppend
        <5> QED BY <5>2, <5>3, <5>5, <5>6
      <4>2. mail[g].seen[h] \in Nat /\ mail[h].sent \in Nat
        BY <2>0
      <4>3. CASE h = f
        <5>1. InLine(Append(Unhandled(g), e), h, mail[g].seen[h], mail[h].sent + 1)
          BY <2>1, <3>1, <4>1, <4>2, <4>3, InLineAppend
        <5> QED BY <2>2, <4>1, <4>3, <5>1
      <4>4. CASE h # f
        <5>1. e[1] # h
          BY <4>4
        <5>2. InLine(Append(Unhandled(g), e), h, mail[g].seen[h], mail[h].sent)
          BY <2>1, <3>1, <4>1, <4>2, <5>1, InLineAppend
        <5> QED BY <2>2, <4>1, <4>4, <5>2
      <4> QED BY <4>3, <4>4
    <3> QED BY <3>2, <3>3
  <2>6. HandledInOrder'
    BY <2>5 DEF HandledInOrder
  <2> QED BY <2>3, <2>4, <2>6 DEF MailInv
<1> QED BY <1>6, <1>7 DEF SendInteraction

\* The front item is the next one of its sender.
LEMMA HandleKeeps ==
  ASSUME IInv, MailInv, NEW f \in Federates, HandleInteraction(f)
  PROVE  MailInv'
<1> DEFINE q == mail[f].queue
           w == mail[f].wire
           a == Head(q)[1]
           b == Head(q)[2]
<1>1. /\ MainInv /\ main[f].at = "start" /\ UNCHANGED gone /\ GoTo(f, "pop")
      /\ Doing(f).verb = "process" /\ Doing(f).kind = "interactions" /\ q # <<>>
      /\ mail' = [mail EXCEPT ![f].seen[a] = b]
  BY DEF HandleInteraction, Does, IInv
<1>2. main' = [main EXCEPT ![f] = main'[f]] /\ main'[f].at = "pop"
      /\ main'[f].jobs = main[f].jobs
  BY <1>1, GoToLeads
<1>3. \A g \in Federates \ {f} : main'[g] = main[g]
  BY <1>1, <1>2 DEF MainInv
<1>4. mail[f] \in [sent : Nat, wire : Seq(Items), queue : Seq(Items), seen : [Federates -> Nat]]
  BY DEF MailInv, MailTypes
<1>5. q \in Seq(Items) /\ w \in Seq(Items) /\ mail[f].seen \in [Federates -> Nat]
  BY <1>4
<1>6. Head(q) \in Items /\ a \in Federates /\ b \in Nat
  BY <1>1, <1>5 DEF Items
<1>7. /\ mail'[f].queue = q /\ mail'[f].wire = w /\ mail'[f].sent = mail[f].sent
      /\ mail'[f].seen = [mail[f].seen EXCEPT ![a] = b]
      /\ mail'[f] \in [sent : Nat, wire : Seq(Items), queue : Seq(Items), seen : [Federates -> Nat]]
      /\ \A g \in Federates \ {f} : mail'[g] = mail[g]
      /\ mail' = [mail EXCEPT ![f] = mail'[f]]
  <2> DEFINE m == [mail[f] EXCEPT !.seen = [mail[f].seen EXCEPT ![a] = b]]
  <2>1. mail' = [mail EXCEPT ![f] = m]
    BY <1>1, <1>4
  <2> HIDE DEF q, w, a, b
  <2>2. [mail[f].seen EXCEPT ![a] = b] \in [Federates -> Nat]
    BY <1>5, <1>6
  <2>3. /\ m \in [sent : Nat, wire : Seq(Items), queue : Seq(Items), seen : [Federates -> Nat]]
        /\ m.queue = mail[f].queue /\ m.wire = mail[f].wire /\ m.sent = mail[f].sent
        /\ m.seen = [mail[f].seen EXCEPT ![a] = b]
    BY <1>4, <2>2
  <2> HIDE DEF m
  <2>4. mail \in [Federates -> [sent : Nat, wire : Seq(Items), queue : Seq(Items),
                               seen : [Federates -> Nat]]]
    BY DEF MailInv, MailTypes
  <2>5. mail'[f] = m /\ \A g \in Federates \ {f} : mail'[g] = mail[g]
    BY <2>1, <2>4
  <2> QED BY <2>1, <2>3, <2>5 DEF q, w
<1> HIDE DEF a, b
<1>8. MailTypes'
  BY <1>7 DEF MailInv, MailTypes
<1>9. PopInv'
  <2>1. ASSUME NEW g \in Federates, main'[g].at = "pop"
        PROVE  Doing(g)'.verb = "process" /\ Doing(g)'.kind = "interactions"
               /\ mail'[g].queue # <<>>
    <3>1. CASE g = f
      BY <1>1, <1>2, <1>7, <3>1 DEF Doing
    <3>2. CASE g # f
      BY <1>3, <1>7, <2>1, <3>2 DEF MailInv, PopInv, Doing
    <3> QED BY <3>1, <3>2
  <2> QED BY <2>1 DEF PopInv
<1>10. ASSUME NEW g \in Federates, NEW h \in Federates \ {g}, g \notin gone'
       PROVE  InLine(Unhandled(g)', h, mail'[g].seen[h], mail'[h].sent)
  <2>1. InLine(Unhandled(g), h, mail[g].seen[h], mail[h].sent) /\ mail'[h].sent = mail[h].sent
    BY <1>1, <1>7, <1>10 DEF MailInv, HandledInOrder
  <2>2. CASE g # f
    <3>1. Unhandled(g)' = Unhandled(g)
      BY <1>3, <1>7, <2>2, SamePop
    <3> QED BY <1>7, <2>1, <2>2, <3>1
  <2>3. CASE g = f
    <3> DEFINE s == q \o w
    <3>1. Unhandled(g) = s /\ Unhandled(g)' = Tail(q) \o w
      BY <1>1, <1>2, <1>7, <2>3 DEF Unhandled
    <3>2. s \in Seq(Items) /\ s # <<>> /\ Head(s) = Head(q) /\ Tail(s) = Tail(q) \o w
      <4> HIDE DEF q, w
      <4> QED BY <1>1, <1>5, HeadTailOfConcat
    <3>3. mail[g].seen[h] \in Nat /\ mail[h].sent \in Nat
      BY <1>5, <2>3 DEF MailInv, MailTypes
    <3> HIDE DEF s
    <3>4. InLine(s, h, mail[g].seen[h], mail[h].sent)
      BY <2>1, <3>1
    <3>5. CASE a = h
      <4>1. b = mail[g].seen[h] + 1 /\ InLine(Tail(s), h, mail[g].seen[h] + 1, mail[h].sent)
        BY <3>2, <3>3, <3>4, <3>5, InLineHead DEF a, b
      <4>2. mail'[g].seen[h] = b
        BY <1>5, <1>6, <1>7, <2>3, <3>5
      <4> QED BY <2>1, <3>1, <3>2, <4>1, <4>2
    <3>6. CASE a # h
      <4>1. InLine(Tail(s), h, mail[g].seen[h], mail[h].sent)
        BY <3>2, <3>3, <3>4, <3>6, InLineHead DEF a
      <4>2. mail'[g].seen[h] = mail[g].seen[h]
        BY <1>5, <1>6, <1>7, <2>3, <3>6
      <4> QED BY <2>1, <3>1, <3>2, <4>1, <4>2
    <3> QED BY <3>5, <3>6
  <2> QED BY <2>2, <2>3
<1>11. HandledInOrder'
  BY <1>10 DEF HandledInOrder
<1> QED BY <1>8, <1>9, <1>11 DEF MailInv

\* Items that change in the queue and on the wire, and not in what is
\* unhandled.
LEMMA MoveKeeps ==
  ASSUME MailInv, NEW f \in Federates, NEW q \in Seq(Items), NEW w \in Seq(Items),
         mail' = [mail EXCEPT ![f] = [mail[f] EXCEPT !.queue = q, !.wire = w]],
         UNCHANGED gone, \A g \in Federates \ {f} : main'[g] = main[g],
         main'[f].at = "pop" =>
           Doing(f)'.verb = "process" /\ Doing(f)'.kind = "interactions" /\ q # <<>>,
         (IF main'[f].at = "pop" THEN Tail(q) ELSE q) \o w = Unhandled(f)
  PROVE  MailInv'
<1> DEFINE m == [mail[f] EXCEPT !.queue = q, !.wire = w]
<1>1. mail \in [Federates -> [sent : Nat, wire : Seq(Items), queue : Seq(Items),
                              seen : [Federates -> Nat]]]
  BY DEF MailInv, MailTypes
<1>2. /\ m \in [sent : Nat, wire : Seq(Items), queue : Seq(Items), seen : [Federates -> Nat]]
      /\ m.queue = q /\ m.wire = w /\ m.sent = mail[f].sent /\ m.seen = mail[f].seen
  BY <1>1
<1> HIDE DEF m
<1>3. mail' \in [Federates -> [sent : Nat, wire : Seq(Items), queue : Seq(Items),
                               seen : [Federates -> Nat]]]
      /\ mail'[f] = m /\ \A g \in Federates \ {f} : mail'[g] = mail[g]
  BY <1>1, <1>2 DEF m
<1>4. PopInv'
  <2>1. ASSUME NEW g \in Federates, main'[g].at = "pop"
        PROVE  Doing(g)'.verb = "process" /\ Doing(g)'.kind = "interactions"
               /\ mail'[g].queue # <<>>
    <3>1. CASE g = f
      BY <1>2, <1>3, <2>1, <3>1
    <3>2. CASE g # f
      BY <1>3, <2>1, <3>2 DEF MailInv, PopInv, Doing
    <3> QED BY <3>1, <3>2
  <2> QED BY <2>1 DEF PopInv
<1>5. \A g \in Federates : Unhandled(g)' = Unhandled(g)
  <2>1. Unhandled(f)' = Unhandled(f)
    BY <1>2, <1>3 DEF Unhandled
  <2>2. ASSUME NEW g \in Federates, g # f
        PROVE  Unhandled(g)' = Unhandled(g)
    BY <1>3, <2>2, SamePop
  <2> QED BY <2>1, <2>2
<1>6. \A g \in Federates : mail'[g].sent = mail[g].sent /\ mail'[g].seen = mail[g].seen
  BY <1>2, <1>3
<1>7. HandledInOrder'
  BY <1>5, <1>6 DEF MailInv, HandledInOrder
<1> QED BY <1>3, <1>4, <1>7 DEF MailInv, MailTypes

LEMMA PopKeeps ==
  ASSUME IInv, MailInv, NEW f \in Federates, PopInteraction(f)
  PROVE  MailInv'
<1> DEFINE q == mail[f].queue
           w == mail[f].wire
<1>1. /\ MainInv /\ main[f].at = "pop" /\ UNCHANGED gone /\ GoTo(f, "start")
      /\ mail' = [mail EXCEPT ![f].queue = Tail(q)]
  BY DEF PopInteraction, Does, IInv
<1>2. main' = [main EXCEPT ![f] = main'[f]] /\ main'[f].at = "start"
  BY <1>1, GoToLeads
<1>3. \A g \in Federates \ {f} : main'[g] = main[g]
  BY <1>1, <1>2 DEF MainInv
<1>4. mail[f] \in [sent : Nat, wire : Seq(Items), queue : Seq(Items), seen : [Federates -> Nat]]
      /\ q # <<>>
  BY <1>1 DEF MailInv, MailTypes, PopInv
<1>5. q \in Seq(Items) /\ w \in Seq(Items) /\ Tail(q) \in Seq(Items)
  BY <1>4
<1>6. mail' = [mail EXCEPT ![f] = [mail[f] EXCEPT !.queue = Tail(q), !.wire = w]]
  <2>1. [mail[f] EXCEPT !.queue = Tail(q)] = [mail[f] EXCEPT !.queue = Tail(q), !.wire = w]
    BY <1>4
  <2> QED BY <1>1, <2>1
<1>7. Unhandled(f) = Tail(q) \o w
  BY <1>1 DEF Unhandled
<1> HIDE DEF q, w
<1> QED BY <1>1, <1>2, <1>3, <1>5, <1>6, <1>7, MoveKeeps

\* The callback thread moves an item from the wire to the end of the queue.
LEMMA ReceiveKeeps ==
  ASSUME IInv, MailInv, NEW f \in Federates, ReceiveInteraction(f)
  PROVE  MailInv'
<1> DEFINE q == mail[f].queue
           w == mail[f].wire
           p == IF main[f].at = "pop" THEN Tail(q) ELSE q
<1>1. /\ UNCHANGED <<main, gone>> /\ w # <<>>
      /\ mail' = [mail EXCEPT ![f].queue = Append(q, Head(w)), ![f].wire = Tail(w)]
  BY DEF ReceiveInteraction
<1>2. mail[f] \in [sent : Nat, wire : Seq(Items), queue : Seq(Items), seen : [Federates -> Nat]]
      /\ mail \in [Federates -> [sent : Nat, wire : Seq(Items), queue : Seq(Items),
                                 seen : [Federates -> Nat]]]
  BY DEF MailInv, MailTypes
<1>3. q \in Seq(Items) /\ w \in Seq(Items) /\ Head(w) \in Items /\ Tail(w) \in Seq(Items)
  BY <1>1, <1>2
<1>4. Append(q, Head(w)) \in Seq(Items) /\ Append(q, Head(w)) # <<>>
  BY <1>3, AppendProperties
<1>5. mail' = [mail EXCEPT ![f] =
                [mail[f] EXCEPT !.queue = Append(q, Head(w)), !.wire = Tail(w)]]
  BY <1>1, <1>2
<1>6. main[f].at = "pop" => q # <<>> /\ Tail(q) \in Seq(Items)
  BY <1>3 DEF MailInv, PopInv
<1>7. main[f].at = "pop" => Doing(f).verb = "process" /\ Doing(f).kind = "interactions"
  BY DEF MailInv, PopInv
<1>8. Unhandled(f) = p \o w
  BY DEF Unhandled
<1> HIDE DEF q, w
<1>9. (IF main[f].at = "pop" THEN Tail(Append(q, Head(w))) ELSE Append(q, Head(w))) = Append(p, Head(w))
  BY <1>3, <1>6, HeadTailAppend
<1>10. p \in Seq(Items)
  BY <1>3, <1>6
<1> HIDE DEF p
<1>11. Append(p, Head(w)) \o Tail(w) = p \o w
  BY <1>1, <1>3, <1>10, ConcatMoves
<1>12. main'[f].at = "pop" => Doing(f)'.verb = "process" /\ Doing(f)'.kind = "interactions"
  BY <1>1, <1>7 DEF Doing
<1> DEFINE q2 == Append(q, Head(w))
           w2 == Tail(w)
<1>13. (IF main'[f].at = "pop" THEN Tail(q2) ELSE q2) \o w2 = Unhandled(f)
  BY <1>1, <1>8, <1>9, <1>11
<1>14. /\ q2 \in Seq(Items) /\ w2 \in Seq(Items) /\ q2 # <<>>
       /\ mail' = [mail EXCEPT ![f] = [mail[f] EXCEPT !.queue = q2, !.wire = w2]]
  BY <1>3, <1>4, <1>5
<1> HIDE DEF q2, w2
<1> QED BY <1>1, <1>12, <1>13, <1>14, MoveKeeps

LEMMA MailStep ==
  ASSUME IInv, MailInv, [Next]_vars
  PROVE  MailInv'
<1>1. CASE UNCHANGED <<main, mail>> /\ gone \subseteq gone'
  BY <1>1, MailStays DEF Doing
<1>2. CASE UNCHANGED vars
  BY <1>1, <1>2 DEF vars
<1>3. ASSUME NEW f \in Federates, MainThread(f) \/ ReadGivesUp(f)
      PROVE  MailInv'
  BY <1>3, ElsewhereKeeps, SendMailKeeps, HandleKeeps, PopKeeps DEF MainThread
<1>4. ASSUME NEW g \in Federates, Callback(g)
      PROVE  MailInv'
  <2>1. ASSUME NEW o \in Objects, \/ Reflect(g, o) \/ RemoveInstance(g, o)
                                  \/ ProvideUpdate(o) \/ ProvideObject(o)
        PROVE  MailInv'
    BY <1>1, <2>1 DEF Reflect, RemoveInstance, ProvideUpdate, ProvideObject
  <2>2. CASE ReceiveInteraction(g)
    BY <2>2, ReceiveKeeps
  <2> QED BY <1>4, <2>1, <2>2 DEF Callback
<1>5. ASSUME NEW f \in Federates, Leave(f) \/ Lose(f)
      PROVE  MailInv'
  BY <1>1, <1>5 DEF Leave, Lose, Depart
<1> QED BY <1>2, <1>3, <1>4, <1>5 DEF Next

LEMMA MailStart == ASSUME Init PROVE MailInv
<1>1. ASSUME NEW g \in Federates
      PROVE  /\ mail[g] = [sent |-> 0, wire |-> <<>>, queue |-> <<>>,
                           seen |-> [f \in Federates |-> 0]]
             /\ main[g].at = "start"
  BY DEF Init
<1>2. MailTypes
  <2> DEFINE none == [f \in Federates |-> 0]
  <2>1. <<>> \in Seq(Items) /\ none \in [Federates -> Nat]
    OBVIOUS
  <2>2. \A s \in Seq(Items) : \A c \in [Federates -> Nat] :
          [sent |-> 0, wire |-> s, queue |-> s, seen |-> c]
            \in [sent : Nat, wire : Seq(Items), queue : Seq(Items), seen : [Federates -> Nat]]
    OBVIOUS
  <2>3. ASSUME NEW g \in Federates
        PROVE  mail[g] \in [sent : Nat, wire : Seq(Items), queue : Seq(Items),
                            seen : [Federates -> Nat]]
    <3>1. mail[g] = [sent |-> 0, wire |-> <<>>, queue |-> <<>>, seen |-> none]
      BY <1>1
    <3> HIDE DEF none
    <3>2. [sent |-> 0, wire |-> <<>>, queue |-> <<>>, seen |-> none]
            \in [sent : Nat, wire : Seq(Items), queue : Seq(Items), seen : [Federates -> Nat]]
      BY <2>1, <2>2
    <3> QED BY <3>1, <3>2
  <2>4. mail = [g \in Federates |-> mail[g]]
    BY DEF Init
  <2> QED BY <2>3, <2>4 DEF MailTypes
<1>3. PopInv
  BY <1>1 DEF PopInv
<1>4. HandledInOrder
  <2>1. ASSUME NEW g \in Federates, NEW f \in Federates
        PROVE  InLine(Unhandled(g), f, mail[g].seen[f], mail[f].sent)
    <3>1. Unhandled(g) = <<>> \o <<>> /\ mail[g].seen[f] = 0 /\ mail[f].sent = 0
      BY <1>1 DEF Unhandled
    <3>2. <<>> \in Seq(Items) /\ <<>> \o <<>> = <<>> /\ Len(<<>>) = 0
      OBVIOUS
    <3>3. InPlaces(<<>>, f, 0, 0)
      BY <3>2 DEF InPlaces
    <3>4. InLine(<<>>, f, 0, 0)
      BY <3>2, <3>3, InLineMeans
    <3> QED BY <3>1, <3>2, <3>4
  <2> QED BY <2>1 DEF HandledInOrder
<1> QED BY <1>2, <1>3, <1>4 DEF MailInv

\* The interactions of every sender are handled by every other federate once
\* and in order, though the front item is taken off the queue after it was
\* handled, and the callback thread adds to the queue in between.
THEOREM InteractionsInOrder == Spec => []HandledInOrder
<1>1. MailInv => HandledInOrder
  BY DEF MailInv
<1>2. Init => IInv /\ MailInv
  BY InitInv, MailStart
<1>3. IInv /\ MailInv /\ [Next]_vars => (IInv /\ MailInv)'
  BY StepInv, MailStep
<1> QED BY <1>1, <1>2, <1>3, PTL DEF Spec
-----------------------------------------------------------------------------
(* Blocking reads.  A federate that has taken the last update of a federate *)
(* that is blocked has begun its own last sending later: a set of federates *)
(* each blocked on another would have no first one.                         *)

\* An object that is read blocking is sent in every cycle.
EveryCycle ==
  \A f \in Federates : \A o \in Blocking[f] \ ExCO : "cyclic" \in Config[o] => Ratio[o] = 1

CyclicRead(j) == j.verb = "receive" /\ j.kind = "cyclic"

\* e may block in the cyclic read of o.
Reads(e, o) ==
  /\ Owner[o] # e /\ o \in Blocking[e] \ ExCO
  /\ "cyclic" \in Config[o]

\* The jobs of f in its frame n: nothing is received before the cyclic data,
\* and the last job is the cyclic sending of all its objects.
JobsInOrder(f, n, js) ==
  /\ n = 0 => \A i \in 1 .. Len(js) : js[i].kind = "initialize"
  /\ n > 0 =>
       /\ \A i, j \in 1 .. Len(js) : i < j /\ CyclicRead(js[j]) => js[i].verb # "receive"
       /\ \A i \in 1 .. Len(js) : CyclicRead(js[i]) =>
            \A o \in js[i].left : Owner[o] # f /\ (o \in ExCO \/ "cyclic" \in Config[o])
       /\ js # <<>> => IsCyclic(js[Len(js)])
       /\ Len(js) > 1 => js[Len(js)].left = Local(f)
       /\ \A i \in 1 .. Len(js) : IsCyclic(js[i]) => i = Len(js)

OrderOfJobs == \A f \in Federates : JobsInOrder(f, main[f].frame, main[f].jobs)

\* The cyclic read of o by e is yet to come, or to end.
ReadToCome(e, o) ==
  \E i \in 1 .. Len(main[e].jobs) : CyclicRead(main[e].jobs[i]) /\ o \in main[e].jobs[i].left

\* The first blocking read does not block.
MayBlock ==
  \A e \in Federates : \A o \in Objects :
    /\ copy[e][o].blocking => o \in Blocking[e] \ ExCO
    /\ main[e].frame = 0 => copy[e][o].first
    /\ main[e].frame = 1 /\ ReadToCome(e, o) =>
         \/ copy[e][o].first
         \/ CyclicRead(Doing(e)) /\ o = Obj(e) /\ main[e].at # "start"

FirstReady ==
  \A e \in Federates :
    main[e].frame = 1 /\ main[e].at = "wait" /\ CyclicRead(Doing(e)) => Ready(Copy(e))

\* An update of o is on its way to e.
OnTheWay(e, o) == wire[e][o].updates # <<>> \/ Ready(copy[e][o])

\* e has read o in this frame, and has yet to begin its sending; in the first
\* frame it need not have read.
HasRead(e, o) ==
  \/ main[e].frame = 0
  \/ Len(main[e].jobs) > 1 /\ (main[e].frame = 1 \/ ~ReadToCome(e, o))

\* The owner f of o has yet to send it in the sending it is in, or for the
\* first time.
Unsent(f, o) ==
  \/ main[f].frame = 0
  \/ main[f].frame = 1 /\ Len(main[f].jobs) > 1
  \/ Len(main[f].jobs) = 1 /\ o \in Doing(f).left

\* stamp[f] orders the federates by the begin of their last sending.
SentSince(stamp) ==
  \A e \in Federates \ gone : \A o \in Objects : Reads(e, o) =>
    \/ Unsent(Owner[o], o) \/ OnTheWay(e, o) \/ HasRead(e, o)
    \/ stamp[e] > stamp[Owner[o]]

Ordered == \E clock \in Nat : \E stamp \in [Federates -> 0 .. clock] : SentSince(stamp)

WaitInv == OrderOfJobs /\ MayBlock /\ FirstReady /\ Ordered

-----------------------------------------------------------------------------
(* The order of the jobs.                                                  *)

\* The jobs of a frame: five that come first, the exchange, and the sending.
LEMMA FrameJobsAre ==
  ASSUME NEW f \in Federates, NEW n
  PROVE  LET js == FrameJobs(f, n)
         IN /\ Len(js) \in Nat /\ Len(js) > 5
            /\ \A i \in 1 .. 4 : js[i].verb # "receive" /\ js[i].kind # "cyclic"
            /\ js[5] = Job("receive", "cyclic",
                           {o \in Remote(f) : o \in ExCO \/ "cyclic" \in Config[o]})
            /\ \A i \in 6 .. Len(js) - 1 : js[i].kind # "cyclic"
            /\ js[Len(js)] = Job("send", "cyclic", Local(f))
<1> DEFINE head == <<Job("process", "interactions", {}), Job("process", "deleted", {}),
                     Job("send", "interactions", {}), Job("request", "updates", {}),
                     Job("receive", "cyclic", {o \in Remote(f) : o \in ExCO \/ "cyclic" \in Config[o]})>>
           last == <<Job("send", "cyclic", Local(f))>>
           z == SwapIf(f, n, "zero_lookahead")
           b == SwapIf(f, n, "blocking_io")
           All == JobsOf(f)
<1>1. ASSUME NEW kind \in {"zero_lookahead", "blocking_io"}
      PROVE  /\ Len(SwapIf(f, n, kind)) \in Nat /\ SwapIf(f, n, kind) \in Seq(All)
             /\ \A i \in 1 .. Len(SwapIf(f, n, kind)) : SwapIf(f, n, kind)[i].kind # "cyclic"
  <2>1. SwapIf(f, n, kind) \in Seq(JobsOf(f))
    BY SwapJobs
  <2>2. CASE kind \in Exchange[n]
    <3>1. /\ Send(f, kind).kind = kind /\ Receive(f, kind).kind = kind /\ kind # "cyclic"
      BY DEF Send, Receive, Job
    <3>2. SwapIf(f, n, kind) = IF f = Leader THEN <<Send(f, kind), Receive(f, kind)>>
                                             ELSE <<Receive(f, kind), Send(f, kind)>>
      BY <2>2 DEF SwapIf, Swap
    <3> QED BY <2>1, <3>1, <3>2
  <2>3. CASE kind \notin Exchange[n]
    BY <2>1, <2>3 DEF SwapIf
  <2> QED BY <2>1, <2>2, <2>3
<1>2. /\ z \in Seq(All) /\ Len(z) \in Nat /\ \A i \in 1 .. Len(z) : z[i].kind # "cyclic"
      /\ b \in Seq(All) /\ Len(b) \in Nat /\ \A i \in 1 .. Len(b) : b[i].kind # "cyclic"
  BY <1>1
<1> HIDE DEF z, b
<1>3. /\ Len(head) = 5 /\ Len(last) = 1
      /\ \A i \in 1 .. 4 : head[i].verb # "receive" /\ head[i].kind # "cyclic"
      /\ head[5] = Job("receive", "cyclic",
                       {o \in Remote(f) : o \in ExCO \/ "cyclic" \in Config[o]})
      /\ last[1] = Job("send", "cyclic", Local(f))
  BY DEF Job
<1>4. head \in Seq(All) /\ last \in Seq(All)
  <2>1. /\ {} \in SUBSET Objects /\ {} \subseteq Local(f)
        /\ {o \in Remote(f) : o \in ExCO \/ "cyclic" \in Config[o]} \in SUBSET Objects
        /\ Local(f) \in SUBSET Objects
    BY DEF Local, Remote
  <2>2. /\ "cyclic" \in JobKinds /\ "interactions" \in JobKinds /\ "deleted" \in JobKinds
        /\ "updates" \in JobKinds /\ "send" \in Verbs /\ "receive" \in Verbs
        /\ "process" \in Verbs /\ "request" \in Verbs
    BY DEF Kinds, JobKinds, Verbs
  <2>3. /\ Job("process", "interactions", {}) \in JobsOf(f)
        /\ Job("process", "deleted", {}) \in JobsOf(f)
        /\ Job("send", "interactions", {}) \in JobsOf(f)
        /\ Job("request", "updates", {}) \in JobsOf(f)
        /\ Job("send", "cyclic", Local(f)) \in JobsOf(f)
    BY <2>1, <2>2, JobIsJob
  <2>4. Job("receive", "cyclic", {o \in Remote(f) : o \in ExCO \/ "cyclic" \in Config[o]}) \in JobsOf(f)
    BY <2>1, <2>2, JobIsJob
  <2> QED BY <2>3, <2>4
<1> HIDE DEF head, last
<1>5. head \in Seq(All) /\ last \in Seq(All) /\ z \in Seq(All) /\ b \in Seq(All)
  BY <1>2, <1>4
<1> HIDE DEF All
<1>6. FrameJobs(f, n) = head \o z \o b \o last
  BY DEF FrameJobs, head, z, b, last
<1> DEFINE hz == head \o z
           hzb == hz \o b
           js == hzb \o last
<1>7. /\ hz \in Seq(All) /\ Len(hz) = 5 + Len(z)
      /\ \A i \in 1 .. 5 + Len(z) : hz[i] = IF i <= 5 THEN head[i] ELSE z[i - 5]
  <2>1. /\ hz \in Seq(All) /\ Len(hz) = Len(head) + Len(z)
        /\ \A i \in 1 .. Len(head) + Len(z) : hz[i] = IF i <= Len(head) THEN head[i] ELSE z[i - Len(head)]
    BY <1>5, ConcatProperties
  <2> HIDE DEF hz
  <2> QED BY <1>3, <2>1
<1> HIDE DEF hz
<1>8. /\ hzb \in Seq(All) /\ Len(hzb) = Len(hz) + Len(b)
      /\ \A i \in 1 .. Len(hz) + Len(b) : hzb[i] = IF i <= Len(hz) THEN hz[i] ELSE b[i - Len(hz)]
  BY <1>5, <1>7, ConcatProperties
<1> HIDE DEF hzb
<1>9. /\ Len(js) = Len(hzb) + 1
      /\ \A i \in 1 .. Len(hzb) + 1 : js[i] = IF i <= Len(hzb) THEN hzb[i] ELSE last[i - Len(hzb)]
  <2>1. /\ Len(js) = Len(hzb) + Len(last)
        /\ \A i \in 1 .. Len(hzb) + Len(last) :
             js[i] = IF i <= Len(hzb) THEN hzb[i] ELSE last[i - Len(hzb)]
    <3>1. hzb \in Seq(All) /\ last \in Seq(All)
      BY <1>5, <1>8
    <3> QED BY <3>1, ConcatProperties
  <2> HIDE DEF js
  <2> QED BY <1>3, <2>1
<1>10. FrameJobs(f, n) = js
  BY <1>6 DEF hz, hzb
<1> HIDE DEF js
<1>11. Len(hz) \in Nat /\ Len(hzb) \in Nat /\ Len(js) \in Nat /\ Len(js) > 5
  BY <1>2, <1>7, <1>8, <1>9
<1>12. \A i \in 1 .. 5 : js[i] = head[i]
  BY <1>2, <1>7, <1>8, <1>9, <1>11
<1>13. ASSUME NEW i \in 6 .. Len(js) - 1
       PROVE  js[i].kind # "cyclic"
  <2>1. js[i] = hzb[i] /\ i \in 1 .. Len(hzb)
    BY <1>9, <1>11
  <2>2. CASE i <= Len(hz)
    <3>1. hzb[i] = z[i - 5] /\ i - 5 \in 1 .. Len(z)
      BY <1>2, <1>7, <1>8, <1>11, <2>1, <2>2
    <3> QED BY <1>2, <2>1, <3>1
  <2>3. CASE i > Len(hz)
    <3>1. hzb[i] = b[i - Len(hz)] /\ i - Len(hz) \in 1 .. Len(b)
      BY <1>2, <1>8, <1>11, <2>1, <2>3
    <3> QED BY <1>2, <2>1, <3>1
  <2> QED BY <1>11, <2>2, <2>3
<1>14. js[Len(js)] = last[1]
  BY <1>9, <1>11
<1> QED BY <1>3, <1>10, <1>11, <1>12, <1>13, <1>14

LEMMA FrameOrder ==
  ASSUME NEW f \in Federates, NEW n \in Nat, n > 0
  PROVE  JobsInOrder(f, n, FrameJobs(f, n)) /\ Len(FrameJobs(f, n)) > 1
<1> DEFINE js == FrameJobs(f, n)
<1>1. /\ Len(js) \in Nat /\ Len(js) > 5
      /\ \A i \in 1 .. 4 : js[i].verb # "receive" /\ js[i].kind # "cyclic"
      /\ js[5] = Job("receive", "cyclic",
                     {o \in Remote(f) : o \in ExCO \/ "cyclic" \in Config[o]})
      /\ \A i \in 6 .. Len(js) - 1 : js[i].kind # "cyclic"
      /\ js[Len(js)] = Job("send", "cyclic", Local(f))
  BY FrameJobsAre
<1> HIDE DEF js
<1>2. \A i \in 1 .. Len(js) : i \in 1 .. 4 \/ i = 5 \/ i \in 6 .. Len(js) - 1 \/ i = Len(js)
  BY <1>1
<1>3. js[5].verb = "receive" /\ js[Len(js)].verb = "send" /\ js[Len(js)].kind = "cyclic"
      /\ js[Len(js)].left = Local(f)
      /\ js[5].left = {o \in Remote(f) : o \in ExCO \/ "cyclic" \in Config[o]}
  BY <1>1 DEF Job
<1>4. \A i \in 1 .. Len(js) : CyclicRead(js[i]) => i = 5
  BY <1>1, <1>2, <1>3 DEF CyclicRead
<1>5. \A i \in 1 .. Len(js) : IsCyclic(js[i]) => i = Len(js)
  BY <1>1, <1>2, <1>3 DEF IsCyclic
<1>6. \A i, j \in 1 .. Len(js) : i < j /\ CyclicRead(js[j]) => js[i].verb # "receive"
  <2>1. \A i \in 1 .. Len(js) : i < 5 => js[i].verb # "receive"
    BY <1>1
  <2> QED BY <1>4, <2>1
<1>7. \A i \in 1 .. Len(js) : CyclicRead(js[i]) =>
        \A o \in js[i].left : Owner[o] # f /\ (o \in ExCO \/ "cyclic" \in Config[o])
  BY <1>3, <1>4 DEF Remote
<1>8. IsCyclic(js[Len(js)])
  BY <1>3 DEF IsCyclic
<1>9. JobsInOrder(f, n, js)
  BY <1>3, <1>5, <1>6, <1>7, <1>8 DEF JobsInOrder
<1> QED BY <1>1, <1>9 DEF js

LEMMA TailOrder ==
  ASSUME NEW f \in Federates, NEW n \in Nat, NEW js \in Seq(JobsOf(f)), js # <<>>,
         JobsInOrder(f, n, js)
  PROVE  /\ JobsInOrder(f, n, Tail(js))
         /\ \A i \in 1 .. Len(Tail(js)) : i + 1 \in 1 .. Len(js) /\ Tail(js)[i] = js[i + 1]
         /\ Len(Tail(js)) = Len(js) - 1 /\ Len(js) \in Nat \ {0}
<1> DEFINE t == Tail(js)
<1>1. /\ t \in Seq(JobsOf(f)) /\ Len(t) = Len(js) - 1 /\ Len(js) \in Nat \ {0}
      /\ \A i \in 1 .. Len(t) : i + 1 \in 1 .. Len(js) /\ t[i] = js[i + 1]
      /\ t # <<>> => Len(t) # 0
  <2>1. /\ t \in Seq(JobsOf(f)) /\ Len(t) = Len(js) - 1 /\ Len(js) \in Nat \ {0}
        /\ \A i \in 1 .. Len(t) : t[i] = js[i + 1]
    BY HeadTailProperties, LenProperties
  <2> HIDE DEF t
  <2>2. t # <<>> => Len(t) # 0
    BY <2>1
  <2> QED BY <2>1, <2>2
<1> HIDE DEF t
<1>2. CASE n = 0
  BY <1>1, <1>2 DEF JobsInOrder, t
<1>3. CASE n > 0
  <2>1. /\ \A i, j \in 1 .. Len(js) : i < j /\ CyclicRead(js[j]) => js[i].verb # "receive"
        /\ \A i \in 1 .. Len(js) : CyclicRead(js[i]) =>
             \A o \in js[i].left : Owner[o] # f /\ (o \in ExCO \/ "cyclic" \in Config[o])
        /\ IsCyclic(js[Len(js)])
        /\ Len(js) > 1 => js[Len(js)].left = Local(f)
        /\ \A i \in 1 .. Len(js) : IsCyclic(js[i]) => i = Len(js)
    BY <1>3 DEF JobsInOrder
  <2>2. \A i, j \in 1 .. Len(t) : i < j /\ CyclicRead(t[j]) => t[i].verb # "receive"
    BY SMTT(20), <1>1, <2>1
  <2>3. \A i \in 1 .. Len(t) : CyclicRead(t[i]) =>
          \A o \in t[i].left : Owner[o] # f /\ (o \in ExCO \/ "cyclic" \in Config[o])
    BY <1>1, <2>1
  <2>4. t # <<>> => IsCyclic(t[Len(t)]) /\ t[Len(t)] = js[Len(js)]
    BY <1>1, <2>1
  <2>5. Len(t) > 1 => t[Len(t)].left = Local(f)
    BY <1>1, <2>1
  <2>6. \A i \in 1 .. Len(t) : IsCyclic(t[i]) => i = Len(t)
    BY <1>1, <2>1
  <2>7. JobsInOrder(f, n, t)
    BY <1>3, <2>2, <2>3, <2>4, <2>5, <2>6 DEF JobsInOrder
  <2> QED BY <1>1, <2>7 DEF t
<1> QED BY <1>2, <1>3

\* The first job is done with object x.
Without(js, x) == [js EXCEPT ![1].left = @ \ {x}]

LEMMA ObjectOrder ==
  ASSUME NEW f \in Federates, NEW n \in Nat, NEW js \in Seq(JobsOf(f)), js # <<>>,
         JobsInOrder(f, n, js), NEW x
  PROVE  /\ JobsInOrder(f, n, Without(js, x)) /\ Len(Without(js, x)) = Len(js)
         /\ Len(js) \in Nat \ {0}
         /\ Without(js, x)[1].verb = js[1].verb /\ Without(js, x)[1].kind = js[1].kind
         /\ Without(js, x)[1].left = js[1].left \ {x}
         /\ \A i \in 1 .. Len(js) : i # 1 => Without(js, x)[i] = js[i]
<1> DEFINE ks == Without(js, x)
<1>1. Len(js) \in Nat \ {0} /\ js[1] \in JobsOf(f) /\ DOMAIN js = 1 .. Len(js)
  BY LenProperties
<1>2. js[1] \in [verb : Verbs, kind : JobKinds, left : SUBSET Objects]
  BY <1>1 DEF JobsOf
<1>3. /\ ks \in Seq(JobsOf(f))
      /\ Len(ks) = Len(js)
      /\ ks[1].verb = js[1].verb /\ ks[1].kind = js[1].kind /\ ks[1].left = js[1].left \ {x}
      /\ \A i \in 1 .. Len(js) : i # 1 => ks[i] = js[i]
  <2> DEFINE d == [js[1] EXCEPT !.left = @ \ {x}]
             R == JobsOf(f)
  <2>0. d \in R
    BY <1>1 DEF JobsOf
  <2>1. /\ d \in R /\ d.verb = js[1].verb /\ d.kind = js[1].kind /\ d.left = js[1].left \ {x}
    BY <1>2, <2>0
  <2>2. ks = [js EXCEPT ![1] = d]
    BY DEF Without
  <2>3. js \in Seq(R)
    OBVIOUS
  <2> HIDE DEF d, R
  <2>4. ks \in Seq(R) /\ Len(ks) = Len(js) /\ ks[1] = d
        /\ \A i \in 1 .. Len(js) : i # 1 => ks[i] = js[i]
    <3> DEFINE e == [js EXCEPT ![1] = d]
    <3>0. 1 \in 1 .. Len(js)
      BY <1>1
    <3>1. /\ e \in Seq(R) /\ Len(e) = Len(js)
          /\ \A i \in 1 .. Len(js) : e[i] = IF i = 1 THEN d ELSE js[i]
      BY <2>1, <2>3, <3>0, ExceptSeq
    <3> HIDE DEF e
    <3>2. ks = e
      BY <2>2 DEF e
    <3> HIDE DEF ks
    <3> QED BY <3>0, <3>1, <3>2
  <2> QED BY <2>1, <2>4 DEF R
<1> HIDE DEF ks
<1>4. \A i \in 1 .. Len(js) : /\ ks[i].verb = js[i].verb /\ ks[i].kind = js[i].kind
                              /\ ks[i].left \subseteq js[i].left
  BY <1>3
<1>5. \A i \in 1 .. Len(js) : (CyclicRead(ks[i]) <=> CyclicRead(js[i]))
                              /\ (IsCyclic(ks[i]) <=> IsCyclic(js[i]))
  BY <1>4 DEF CyclicRead, IsCyclic
<1>6. ks # <<>>
  BY <1>1, <1>3
<1>7. JobsInOrder(f, n, ks)
  <2>1. CASE n = 0
    BY <1>3, <1>4, <2>1 DEF JobsInOrder
  <2>2. CASE n > 0
    <3>1. /\ \A i, j \in 1 .. Len(js) : i < j /\ CyclicRead(js[j]) => js[i].verb # "receive"
          /\ \A i \in 1 .. Len(js) : CyclicRead(js[i]) =>
               \A o \in js[i].left : Owner[o] # f /\ (o \in ExCO \/ "cyclic" \in Config[o])
          /\ IsCyclic(js[Len(js)])
          /\ Len(js) > 1 => js[Len(js)].left = Local(f)
          /\ \A i \in 1 .. Len(js) : IsCyclic(js[i]) => i = Len(js)
      BY <2>2 DEF JobsInOrder
    <3>2. \A i, j \in 1 .. Len(ks) : i < j /\ CyclicRead(ks[j]) => ks[i].verb # "receive"
      BY <1>3, <1>4, <1>5, <3>1
    <3>3. \A i \in 1 .. Len(ks) : CyclicRead(ks[i]) =>
            \A o \in ks[i].left : Owner[o] # f /\ (o \in ExCO \/ "cyclic" \in Config[o])
      BY <1>3, <1>4, <1>5, <3>1
    <3>0. Len(js) \in 1 .. Len(js) /\ Len(ks) = Len(js)
      BY <1>1, <1>3
    <3>4. IsCyclic(ks[Len(ks)]) /\ \A i \in 1 .. Len(ks) : IsCyclic(ks[i]) => i = Len(ks)
      BY <1>5, <3>0, <3>1
    <3>5. Len(ks) > 1 => ks[Len(ks)].left = Local(f)
      <4>0. Len(ks) = Len(js)
        BY <3>0
      <4>1. Len(js) > 1 => ks[Len(js)] = js[Len(js)]
        BY <1>3, <3>0
      <4>2. Len(js) > 1 => js[Len(js)].left = Local(f)
        BY <3>1
      <4> QED BY <4>0, <4>1, <4>2, Zenon
    <3>6. n # 0
      BY <2>2
    <3> QED BY <3>2, <3>3, <3>4, <3>5, <3>6, Zenon DEF JobsInOrder
  <2> QED BY <2>1, <2>2
<1> QED BY <1>1, <1>3, <1>7 DEF ks

\* What is left of the jobs of f after each way of going on.
SameFrame(f) ==
  /\ main'[f].frame = main[f].frame
  /\ Len(main'[f].jobs) <= Len(main[f].jobs)
  /\ \A o \in Objects : ReadToCome(f, o)' => ReadToCome(f, o)

LEMMA GoToMoves ==
  ASSUME MainInv, OrderOfJobs, NEW f \in Federates, NEW at, GoTo(f, at)
  PROVE  /\ OrderOfJobs' /\ SameFrame(f)
         /\ main'[f].jobs = main[f].jobs
         /\ \A o : ReadToCome(f, o)' <=> ReadToCome(f, o)
<1>1. main[f] \in Mains(f) /\ main' = [main EXCEPT ![f] = [main[f] EXCEPT !.at = at]]
  BY DEF MainInv, GoTo
<1>2. main'[f].frame = main[f].frame /\ main'[f].jobs = main[f].jobs
      /\ main[f].jobs \in Seq(JobsOf(f))
  BY <1>1 DEF MainInv, Mains
<1>3. \A g \in Federates \ {f} : main'[g] = main[g]
  BY <1>1 DEF MainInv
<1>4. OrderOfJobs'
  BY <1>2, <1>3 DEF OrderOfJobs
<1>5. \A o : ReadToCome(f, o)' <=> ReadToCome(f, o)
  BY <1>2 DEF ReadToCome
<1>6. Len(main[f].jobs) \in Nat
  BY <1>2
<1> QED BY <1>2, <1>4, <1>5, <1>6 DEF SameFrame

LEMMA NextObjectMoves ==
  ASSUME MainInv, OrderOfJobs, NEW f \in Federates, main[f].jobs # <<>>, NextObject(f)
  PROVE  /\ OrderOfJobs' /\ SameFrame(f)
         /\ Len(main'[f].jobs) = Len(main[f].jobs) /\ Len(main[f].jobs) \in Nat \ {0}
         /\ Doing(f)'.verb = Doing(f).verb /\ Doing(f)'.kind = Doing(f).kind
         /\ Doing(f)'.left = Doing(f).left \ {Obj(f)}
         /\ main[f].frame > 0 /\ CyclicRead(Doing(f)) =>
              \A o : o = Obj(f) => ~ReadToCome(f, o)'
<1> DEFINE js == main[f].jobs
           ks == main'[f].jobs
<1>1. /\ main[f] \in Mains(f) /\ js \in Seq(JobsOf(f)) /\ main[f].frame \in Nat
      /\ JobsInOrder(f, main[f].frame, js)
  BY DEF MainInv, Mains, OrderOfJobs
<1>2. /\ main'[f].frame = main[f].frame
      /\ \A g \in Federates \ {f} : main'[g] = main[g]
      /\ ks = [js EXCEPT ![1].left = @ \ {Obj(f)}]
  BY <1>1 DEF NextObject, MainInv, Mains
<1>3. /\ JobsInOrder(f, main[f].frame, ks) /\ Len(ks) = Len(js) /\ Len(js) \in Nat \ {0}
      /\ ks[1].verb = js[1].verb /\ ks[1].kind = js[1].kind
      /\ ks[1].left = js[1].left \ {Obj(f)}
      /\ \A i \in 1 .. Len(js) : i # 1 => ks[i] = js[i]
  <2> DEFINE x == Obj(f)
             n == main[f].frame
  <2>1. /\ ks = Without(js, x) /\ js \in Seq(JobsOf(f)) /\ js # <<>>
        /\ n \in Nat /\ JobsInOrder(f, n, js)
    BY <1>1, <1>2 DEF Without
  <2> HIDE DEF js, ks, x, n
  <2>2. /\ JobsInOrder(f, n, ks) /\ Len(ks) = Len(js) /\ Len(js) \in Nat \ {0}
        /\ ks[1].verb = js[1].verb /\ ks[1].kind = js[1].kind /\ ks[1].left = js[1].left \ {x}
        /\ \A i \in 1 .. Len(js) : i # 1 => ks[i] = js[i]
    BY <2>1, ObjectOrder
  <2> QED BY <2>2 DEF x, n
<1>4. Doing(f) = js[1] /\ Doing(f)' = ks[1]
  <2>1. js # <<>> /\ ks # <<>>
    BY <1>3
  <2> QED BY <2>1 DEF Doing
<1>5. OrderOfJobs'
  BY <1>2, <1>3 DEF OrderOfJobs
<1>6. ASSUME NEW o, ReadToCome(f, o)'
      PROVE  /\ ReadToCome(f, o)
             /\ main[f].frame > 0 /\ CyclicRead(Doing(f)) => o # Obj(f)
  <2>1. PICK i \in 1 .. Len(js) : CyclicRead(ks[i]) /\ o \in ks[i].left
    BY <1>3, <1>6 DEF ReadToCome
  <2>2. CyclicRead(js[i]) /\ o \in js[i].left
    BY <1>3, <2>1 DEF CyclicRead
  <2>3. ASSUME main[f].frame > 0, CyclicRead(Doing(f))
        PROVE  i = 1
    <3>1. js[1].verb = "receive" /\ 1 \in 1 .. Len(js)
      BY <1>3, <1>4, <2>3 DEF CyclicRead
    <3>2. \A k, j \in 1 .. Len(js) : k < j /\ CyclicRead(js[j]) => js[k].verb # "receive"
      BY <1>1, <2>3 DEF JobsInOrder
    <3>3. ~(1 < i)
      BY <2>2, <3>1, <3>2
    <3> QED BY <3>3
  <2> QED BY <1>3, <2>1, <2>2, <2>3 DEF ReadToCome
<1>7. SameFrame(f)
  BY <1>2, <1>3, <1>6 DEF SameFrame
<1> QED BY <1>3, <1>4, <1>5, <1>6, <1>7

LEMMA NextJobMoves ==
  ASSUME MainInv, OrderOfJobs, NEW f \in Federates, main[f].jobs # <<>>, NextJob(f)
  PROVE  /\ OrderOfJobs' /\ Len(main[f].jobs) \in Nat \ {0} /\ main[f].frame \in Nat
         /\ \/ /\ SameFrame(f) /\ Len(main'[f].jobs) = Len(main[f].jobs) - 1
               /\ main[f].frame > 0 /\ CyclicRead(Doing(f)) =>
                    \A o : ~ReadToCome(f, o)'
            \/ /\ Len(main[f].jobs) = 1
               /\ main'[f].frame = main[f].frame + 1 /\ Len(main'[f].jobs) > 1
<1> DEFINE js == main[f].jobs
           n == main[f].frame + 1
           rest == Tail(js)
           e == IF rest # <<>> \/ n > Frames
                THEN [frame |-> main[f].frame, at |-> "start", jobs |-> rest]
                ELSE [frame |-> n, at |-> "start", jobs |-> FrameJobs(f, n)]
<1>1. /\ main[f] \in Mains(f) /\ js \in Seq(JobsOf(f)) /\ main[f].frame \in Nat
      /\ JobsInOrder(f, main[f].frame, js)
  BY DEF MainInv, Mains, OrderOfJobs
<1>2. main'[f] = e /\ \A g \in Federates \ {f} : main'[g] = main[g]
  BY DEF NextJob, MainInv
<1>3. /\ JobsInOrder(f, main[f].frame, rest)
      /\ \A i \in 1 .. Len(rest) : i + 1 \in 1 .. Len(js) /\ rest[i] = js[i + 1]
      /\ Len(rest) = Len(js) - 1 /\ Len(js) \in Nat \ {0}
  BY <1>1, TailOrder
<1>4. n \in Nat /\ n > 0
  BY <1>1
<1>5. JobsInOrder(f, n, FrameJobs(f, n)) /\ Len(FrameJobs(f, n)) > 1
  BY <1>4, FrameOrder
<1>6. Doing(f) = js[1]
  BY DEF Doing
<1> HIDE DEF rest, n
<1>7. CASE rest # <<>> \/ n > Frames
  <2>1. main'[f].frame = main[f].frame /\ main'[f].jobs = rest
    BY <1>2, <1>7
  <2>2. OrderOfJobs'
    BY <1>2, <1>3, <2>1 DEF OrderOfJobs
  <2>3. ASSUME NEW o, ReadToCome(f, o)'
        PROVE  ReadToCome(f, o) /\ ~(main[f].frame > 0 /\ CyclicRead(Doing(f)))
    <3>1. PICK i \in 1 .. Len(rest) : CyclicRead(rest[i]) /\ o \in rest[i].left
      BY <2>1, <2>3 DEF ReadToCome
    <3>2. i + 1 \in 1 .. Len(js) /\ CyclicRead(js[i + 1]) /\ o \in js[i + 1].left
      BY <1>3, <3>1
    <3>3. ASSUME main[f].frame > 0, CyclicRead(Doing(f))
          PROVE  FALSE
      <4>1. js[1].verb = "receive" /\ 1 \in 1 .. Len(js) /\ 1 < i + 1
        BY <1>3, <1>6, <3>3 DEF CyclicRead
      <4>2. \A k, j \in 1 .. Len(js) : k < j /\ CyclicRead(js[j]) => js[k].verb # "receive"
        BY <1>1, <3>3 DEF JobsInOrder
      <4> QED BY <3>2, <4>1, <4>2
    <3> QED BY <3>2, <3>3 DEF ReadToCome
  <2>4. SameFrame(f)
    BY <1>3, <2>1, <2>3 DEF SameFrame
  <2> QED BY <1>1, <1>3, <2>1, <2>2, <2>3, <2>4
<1>8. CASE ~(rest # <<>> \/ n > Frames)
  <2>1. main'[f].frame = n /\ main'[f].jobs = FrameJobs(f, n)
    BY <1>2, <1>8
  <2>2. OrderOfJobs'
    BY <1>2, <1>5, <2>1 DEF OrderOfJobs
  <2>3. Len(js) = 1
    <3>1. rest = <<>> /\ Len(<<>>) = 0
      BY <1>8
    <3> QED BY <1>3, <3>1
  <2> QED BY <1>1, <1>3, <1>5, <2>1, <2>2, <2>3 DEF n
<1> QED BY <1>7, <1>8

-----------------------------------------------------------------------------
(* The first read does not block.                                          *)

\* The main thread goes on to at within its job.
GoesOn(f, at) ==
  /\ GoTo(f, at)
  /\ CyclicRead(Doing(f)) => at # "start"
  /\ at = "wait" /\ CyclicRead(Doing(f)) /\ main[f].frame = 1 => Ready(copy'[f][Obj(f)])

LEMMA FirstKeeps ==
  ASSUME MainInv, OrderOfJobs, MayBlock, FirstReady, NEW f \in Federates, main[f].jobs # <<>>,
         \A g \in Federates \ {f} : copy'[g] = copy[g],
         \A o \in Objects : copy'[f][o].blocking => copy[f][o].blocking,
         \A o \in Objects : copy[f][o].first =>
           copy'[f][o].first \/ (o = Obj(f) /\ CyclicRead(Doing(f)) /\ main[f].frame > 0),
         (\E at : GoesOn(f, at)) \/ NextObject(f) \/ NextJob(f)
  PROVE  OrderOfJobs' /\ MayBlock' /\ FirstReady'
<1>1. main' = [main EXCEPT ![f] = main'[f]]
  BY GoToLeads, NextObjectLeads, NextJobLeads DEF GoesOn
<1>2. \A g \in Federates \ {f} : main'[g] = main[g]
  BY <1>1 DEF MainInv
<1>3. \A g \in Federates \ {f} : \A o :
        /\ Doing(g)' = Doing(g) /\ Obj(g)' = Obj(g) /\ (ReadToCome(g, o)' <=> ReadToCome(g, o))
        /\ copy'[g] = copy[g] /\ Copy(g)' = Copy(g)
  BY <1>2 DEF Doing, Obj, ReadToCome, Copy
<1>4. ASSUME /\ OrderOfJobs'
             /\ \A o \in Objects :
                  /\ main'[f].frame = 0 => copy'[f][o].first
                  /\ main'[f].frame = 1 /\ ReadToCome(f, o)' =>
                       \/ copy'[f][o].first
                       \/ CyclicRead(Doing(f)') /\ o = Obj(f)' /\ main'[f].at # "start"
             /\ main'[f].frame = 1 /\ main'[f].at = "wait" /\ CyclicRead(Doing(f)') =>
                  Ready(Copy(f)')
      PROVE  OrderOfJobs' /\ MayBlock' /\ FirstReady'
  <2>1. \A o \in Objects : copy'[f][o].blocking => o \in Blocking[f] \ ExCO
    BY DEF MayBlock
  <2>2. MayBlock'
    BY <1>2, <1>3, <1>4, <2>1 DEF MayBlock, CyclicRead
  <2>3. FirstReady'
    BY <1>2, <1>3, <1>4 DEF FirstReady, CyclicRead, Ready
  <2> QED BY <1>4, <2>2, <2>3
<1>5. \A o \in Objects :
        /\ main[f].frame = 0 => copy[f][o].first
        /\ main[f].frame = 1 /\ ReadToCome(f, o) =>
             \/ copy[f][o].first
             \/ CyclicRead(Doing(f)) /\ o = Obj(f) /\ main[f].at # "start"
  BY DEF MayBlock
<1>6. main[f].frame \in Nat
  BY DEF MainInv, Mains
<1>7. CASE NextObject(f)
  <2>1. /\ OrderOfJobs' /\ SameFrame(f)
        /\ main[f].frame > 0 /\ CyclicRead(Doing(f)) =>
             \A o : o = Obj(f) => ~ReadToCome(f, o)'
        /\ main'[f].at = "start"
    BY <1>7, NextObjectMoves, NextObjectLeads
  <2> QED BY <1>4, <1>5, <1>6, <2>1 DEF SameFrame
<1>8. CASE NextJob(f)
  <2>1. OrderOfJobs' /\ main'[f].at = "start"
    BY <1>8, NextJobMoves, NextJobLeads
  <2>2. CASE /\ SameFrame(f)
             /\ main[f].frame > 0 /\ CyclicRead(Doing(f)) => \A o : ~ReadToCome(f, o)'
    BY <1>4, <1>5, <1>6, <2>1, <2>2 DEF SameFrame
  <2>3. CASE main'[f].frame = main[f].frame + 1
    BY <1>4, <1>5, <1>6, <2>1, <2>3
  <2> QED BY <1>8, <2>2, <2>3, NextJobMoves
<1>9. ASSUME NEW at, GoesOn(f, at)
      PROVE  OrderOfJobs' /\ MayBlock' /\ FirstReady'
  <2>1. /\ GoTo(f, at)
        /\ CyclicRead(Doing(f)) => at # "start"
        /\ at = "wait" /\ CyclicRead(Doing(f)) /\ main[f].frame = 1 => Ready(copy'[f][Obj(f)])
    BY <1>9 DEF GoesOn
  <2>2. /\ OrderOfJobs' /\ SameFrame(f) /\ main'[f].jobs = main[f].jobs
        /\ \A o : ReadToCome(f, o)' <=> ReadToCome(f, o)
    BY <2>1, GoToMoves
  <2>3. main'[f].at = at
    BY <2>1, GoToLeads
  <2>4. Doing(f)' = Doing(f) /\ Obj(f)' = Obj(f)
    BY <2>2 DEF Doing, Obj
  <2>5. Copy(f)' = copy'[f][Obj(f)]
    BY <2>4 DEF Copy
  <2>6. main'[f].frame = main[f].frame
    BY <2>2 DEF SameFrame
  <2>7. ASSUME NEW o \in Objects
        PROVE  /\ main'[f].frame = 0 => copy'[f][o].first
               /\ main'[f].frame = 1 /\ ReadToCome(f, o)' =>
                    \/ copy'[f][o].first
                    \/ CyclicRead(Doing(f)') /\ o = Obj(f)' /\ main'[f].at # "start"
    <3>1. main'[f].frame = 0 => copy'[f][o].first
      BY <1>5, <2>6
    <3>2. ASSUME main'[f].frame = 1, ReadToCome(f, o)', ~copy'[f][o].first
          PROVE  CyclicRead(Doing(f)') /\ o = Obj(f)' /\ main'[f].at # "start"
      <4>1. CyclicRead(Doing(f)) /\ o = Obj(f)
        BY <1>5, <2>2, <2>6, <3>2
      <4>2. at # "start"
        BY <2>1, <4>1
      <4>3. CyclicRead(Doing(f)') /\ o = Obj(f)'
        BY <2>4, <4>1, Zenon
      <4> QED BY <2>3, <4>2, <4>3
    <3> QED BY <3>1, <3>2
  <2>8. main'[f].frame = 1 /\ main'[f].at = "wait" /\ CyclicRead(Doing(f)') => Ready(Copy(f)')
    BY <2>1, <2>3, <2>4, <2>5, <2>6
  <2> QED BY <1>4, <2>2, <2>7, <2>8
<1> QED BY <1>7, <1>8, <1>9

-----------------------------------------------------------------------------
(* The order of the last sendings.                                         *)

\* Only f moves: an update is lost from its way only when f has read it, an
\* object goes out of Unsent only onto its way, and what f has read is
\* forgotten only when its sending begins, which then is the last one.
LEMMA OrderedStep ==
  ASSUME Ordered, NEW f \in Federates, UNCHANGED gone,
         \A g \in Federates \ {f} : main'[g] = main[g],
         \A e \in Federates \ gone : \A o \in Objects : Reads(e, o) /\ OnTheWay(e, o) =>
           OnTheWay(e, o)' \/ (e = f /\ HasRead(e, o)'),
         \A o \in Objects : Owner[o] = f /\ Unsent(f, o) =>
           \/ Unsent(f, o)'
           \/ \A e \in Federates \ gone : Reads(e, o) => OnTheWay(e, o)',
         \/ \A o \in Objects : HasRead(f, o) => HasRead(f, o)'
         \/ \A o \in Objects : Owner[o] = f => Unsent(f, o)'
  PROVE  Ordered'
<1>1. PICK clock \in Nat : \E stamp \in [Federates -> 0 .. clock] : SentSince(stamp)
  BY DEF Ordered
<1>2. PICK stamp \in [Federates -> 0 .. clock] : SentSince(stamp)
  BY <1>1
<1>3. Owner \in [Objects -> Federates]
  BY ObjectsAssumption
<1>4. ASSUME NEW g \in Federates \ {f}, NEW o
      PROVE  (Unsent(g, o)' <=> Unsent(g, o)) /\ (HasRead(g, o)' <=> HasRead(g, o))
  BY <1>4 DEF Unsent, HasRead, ReadToCome, Doing
\* What each pair keeps, and when the stamps are needed.
<1>5. ASSUME NEW e \in Federates \ gone, NEW o \in Objects, Reads(e, o)
      PROVE  \/ Unsent(Owner[o], o)' \/ OnTheWay(e, o)' \/ HasRead(e, o)'
             \/ stamp[e] > stamp[Owner[o]]
             \/ e = f /\ \A p \in Objects : Owner[p] = f => Unsent(f, p)'
  <2>1. \/ Unsent(Owner[o], o) \/ OnTheWay(e, o) \/ HasRead(e, o)
        \/ stamp[e] > stamp[Owner[o]]
    BY <1>2, <1>5 DEF SentSince
  <2>2. CASE Unsent(Owner[o], o)
    BY <1>3, <1>4, <1>5, <2>2
  <2>3. CASE OnTheWay(e, o)
    BY <1>5, <2>3
  <2>4. CASE HasRead(e, o)
    BY <1>4, <2>4
  <2> QED BY <2>1, <2>2, <2>3, <2>4
<1>6. CASE \A o \in Objects : Owner[o] = f => Unsent(f, o)'
  <2> DEFINE later == [stamp EXCEPT ![f] = clock + 1]
  <2>1. /\ later \in [Federates -> 0 .. clock + 1] /\ clock + 1 \in Nat
        /\ later[f] = clock + 1 /\ \A g \in Federates \ {f} : later[g] = stamp[g]
        /\ \A g \in Federates : stamp[g] \in 0 .. clock
    OBVIOUS
  <2> HIDE DEF later
  <2>2. ASSUME NEW e \in Federates \ gone', NEW o \in Objects, Reads(e, o)
        PROVE  \/ Unsent(Owner[o], o)' \/ OnTheWay(e, o)' \/ HasRead(e, o)'
               \/ later[e] > later[Owner[o]]
    <3>1. Owner[o] \in Federates /\ Owner[o] # e
      BY <1>3, <2>2 DEF Reads
    <3>2. CASE Owner[o] = f
      BY <1>6, <3>2
    <3>3. CASE Owner[o] # f /\ e = f
      <4>1. later[Owner[o]] \in 0 .. clock /\ later[e] = clock + 1
        BY <2>1, <3>1, <3>3
      <4> QED BY <4>1
    <3>4. CASE Owner[o] # f /\ e # f
      BY <1>5, <2>1, <2>2, <3>1, <3>4
    <3> QED BY <3>2, <3>3, <3>4
  <2>3. SentSince(later)'
    BY <2>2 DEF SentSince, Reads
  <2> QED BY <2>1, <2>3 DEF Ordered
<1>7. CASE ~\A o \in Objects : Owner[o] = f => Unsent(f, o)'
  <2>1. SentSince(stamp)'
    BY <1>5, <1>7 DEF SentSince, Reads
  <2> QED BY <2>1 DEF Ordered
<1> QED BY <1>6, <1>7

\* The job that comes last is the sending of all own objects.
LEMMA LastJobNext ==
  ASSUME MainInv, OrderOfJobs, NEW f \in Federates, NextJob(f),
         main[f].frame > 0, Len(main[f].jobs) = 2
  PROVE  Doing(f)'.left = Local(f)
<1> DEFINE js == main[f].jobs
           rest == Tail(js)
<1>1. /\ main[f] \in Mains(f) /\ js \in Seq(JobsOf(f)) /\ JobsInOrder(f, main[f].frame, js)
  BY DEF MainInv, Mains, OrderOfJobs
<1>2. js[2].left = Local(f)
  BY <1>1 DEF JobsInOrder
<1>3. rest \in Seq(JobsOf(f)) /\ Len(rest) = 1 /\ rest[1] = js[2]
  <2>1. js # <<>> /\ js \in Seq(JobsOf(f)) /\ Len(js) = 2
    BY <1>1
  <2>2. rest \in Seq(JobsOf(f)) /\ Len(rest) = Len(js) - 1 /\ \A i \in 1 .. Len(rest) : rest[i] = js[i + 1]
    BY <2>1, HeadTailProperties
  <2> HIDE DEF js, rest
  <2> QED BY <2>1, <2>2
<1>5. rest # <<>>
  <2> HIDE DEF rest
  <2>1. rest \in Seq(JobsOf(f)) /\ Len(rest) = 1
    BY <1>3
  <2>2. ASSUME rest = <<>>
        PROVE  FALSE
    BY <2>1, <2>2
  <2> QED BY <2>2
<1>4. main'[f].jobs = rest
  <2>1. rest # <<>>
    BY <1>5
  <2> QED BY <2>1, <1>1 DEF NextJob, MainInv
<1> QED BY <1>2, <1>3, <1>4, <1>5 DEF Doing

\* The main thread of f goes on, and an object it is done with in its last
\* job is on its way to those that read it.
Sends(f) ==
  \/ \E at : GoTo(f, at)
  \/ /\ NextObject(f)
     /\ IsCyclic(Doing(f)) /\ main[f].frame > 0 =>
          \A o : o = Obj(f) => \A e \in Federates \ gone : Reads(e, o) => OnTheWay(e, o)'
  \/ /\ NextJob(f)
     /\ IsCyclic(Doing(f)) => ~HasObj(f)

LEMMA OrderGoes ==
  ASSUME MainInv, OrderOfJobs, Ordered, NEW f \in Federates, main[f].jobs # <<>>,
         UNCHANGED gone, Sends(f),
         \A e \in Federates \ gone : \A o \in Objects : Reads(e, o) /\ OnTheWay(e, o) =>
           OnTheWay(e, o)' \/ (e = f /\ HasRead(e, o)')
  PROVE  Ordered'
<1> DEFINE Goes ==
      /\ \A g \in Federates \ {f} : main'[g] = main[g]
      /\ \A o \in Objects : Owner[o] = f /\ Unsent(f, o) =>
           \/ Unsent(f, o)'
           \/ \A e \in Federates \ gone : Reads(e, o) => OnTheWay(e, o)'
      /\ \/ \A o \in Objects : HasRead(f, o) => HasRead(f, o)'
         \/ \A o \in Objects : Owner[o] = f => Unsent(f, o)'
<1>1. /\ main[f].frame \in Nat /\ Len(main[f].jobs) \in Nat \ {0}
      /\ Doing(f) = main[f].jobs[1]
      /\ main[f].frame > 0 /\ Len(main[f].jobs) = 1 => IsCyclic(Doing(f))
  <2>1. main[f] \in Mains(f) /\ JobsInOrder(f, main[f].frame, main[f].jobs)
    BY DEF MainInv, OrderOfJobs
  <2>2. main[f].frame \in Nat /\ main[f].jobs \in Seq(JobsOf(f))
    BY <2>1 DEF Mains
  <2>3. Len(main[f].jobs) \in Nat \ {0} /\ Doing(f) = main[f].jobs[1]
    BY <2>2, LenProperties DEF Doing
  <2> QED BY <2>1, <2>2, <2>3 DEF JobsInOrder
<1>2. CASE \E at : GoTo(f, at)
  <2>1. PICK at : GoTo(f, at)
    BY <1>2
  <2>2. /\ main'[f].frame = main[f].frame /\ main'[f].jobs = main[f].jobs
        /\ \A o : ReadToCome(f, o)' <=> ReadToCome(f, o)
    BY <2>1, GoToMoves DEF SameFrame
  <2>3. main' = [main EXCEPT ![f] = main'[f]]
    BY <2>1, GoToLeads
  <2>4. \A o : (Unsent(f, o)' <=> Unsent(f, o)) /\ (HasRead(f, o)' <=> HasRead(f, o))
    BY <2>2 DEF Unsent, HasRead, Doing
  <2>5. Goes
    BY <2>3, <2>4 DEF MainInv
  <2> QED BY <2>5, OrderedStep
<1>3. CASE /\ NextObject(f)
           /\ IsCyclic(Doing(f)) /\ main[f].frame > 0 =>
                \A o : o = Obj(f) => \A e \in Federates \ gone : Reads(e, o) => OnTheWay(e, o)'
  <2>1. /\ main'[f].frame = main[f].frame /\ Len(main'[f].jobs) = Len(main[f].jobs)
        /\ \A o \in Objects : ReadToCome(f, o)' => ReadToCome(f, o)
        /\ Doing(f)'.left = Doing(f).left \ {Obj(f)}
    BY <1>3, NextObjectMoves DEF SameFrame
  <2>2. main' = [main EXCEPT ![f] = main'[f]]
    BY <1>3, NextObjectLeads
  <2>3. \A o \in Objects : HasRead(f, o) => HasRead(f, o)'
    BY <2>1 DEF HasRead
  <2>4. ASSUME NEW o \in Objects, Owner[o] = f, Unsent(f, o)
        PROVE  \/ Unsent(f, o)'
               \/ \A e \in Federates \ gone : Reads(e, o) => OnTheWay(e, o)'
    <3>1. CASE main[f].frame = 0 \/ (main[f].frame = 1 /\ Len(main[f].jobs) > 1)
      BY <2>1, <3>1 DEF Unsent
    <3>2. CASE Len(main[f].jobs) = 1 /\ o \in Doing(f).left /\ main[f].frame > 0
      <4>1. CASE o = Obj(f)
        BY <1>1, <1>3, <3>2, <4>1
      <4>2. CASE o # Obj(f)
        BY <2>1, <3>2, <4>2 DEF Unsent
      <4> QED BY <4>1, <4>2
    <3> QED BY <1>1, <2>4, <3>1, <3>2 DEF Unsent
  <2>5. Goes
    BY <2>2, <2>3, <2>4 DEF MainInv
  <2> QED BY <2>5, OrderedStep
<1>4. CASE NextJob(f) /\ (IsCyclic(Doing(f)) => ~HasObj(f))
  <2> DEFINE k == Len(main[f].jobs)
             l == Len(main'[f].jobs)
             n == main[f].frame
             m == main'[f].frame
  <2>1. main' = [main EXCEPT ![f] = main'[f]]
    BY <1>4, NextJobLeads
  <2>2. ~(n > 0 /\ k = 1 /\ \E o : o \in Doing(f).left)
    BY <1>1, <1>4 DEF HasObj
  <2>3. ASSUME NEW o
        PROVE  /\ Unsent(f, o) <=> n = 0 \/ (n = 1 /\ k > 1) \/ (k = 1 /\ o \in Doing(f).left)
               /\ Unsent(f, o)' <=> m = 0 \/ (m = 1 /\ l > 1) \/ (l = 1 /\ o \in Doing(f)'.left)
               /\ HasRead(f, o) <=> n = 0 \/ (k > 1 /\ (n = 1 \/ ~ReadToCome(f, o)))
               /\ HasRead(f, o)' <=> m = 0 \/ (l > 1 /\ (m = 1 \/ ~ReadToCome(f, o)'))
    BY Zenon DEF Unsent, HasRead
  <2>4. n \in Nat /\ k \in Nat \ {0}
    BY <1>1
  <2>5. ASSUME n > 0, k = 2
        PROVE  Doing(f)'.left = Local(f)
    BY <1>4, <2>5, LastJobNext
  <2>6. CASE SameFrame(f) /\ l = k - 1
    <3>1. m = n /\ \A o \in Objects : ReadToCome(f, o)' => ReadToCome(f, o)
      BY <2>6 DEF SameFrame
    <3> HIDE DEF k, l, m, n
    <3>2. ASSUME n > 0, k = 2
          PROVE  \A o \in Objects : Owner[o] = f => Unsent(f, o)'
      <4>1. l = 1
        BY <2>6, <3>2
      <4> QED BY <2>3, <2>5, <3>2, <4>1 DEF Local
    <3>3. ASSUME NEW o \in Objects, Owner[o] = f, Unsent(f, o)
          PROVE  Unsent(f, o)'
      <4>1. CASE n = 0
        BY <2>3, <3>1, <4>1
      <4>2. CASE n > 0 /\ k = 2
        BY <3>2, <3>3, <4>2
      <4>3. CASE n > 0 /\ k > 2
        <5>1. n = 1 /\ l > 1
          BY <2>3, <2>4, <2>6, <3>3, <4>3
        <5> QED BY <2>3, <3>1, <5>1
      <4>4. CASE n > 0 /\ k = 1
        <5>1. ~(n = 0) /\ ~(k > 1)
          BY <2>4, <4>4
        <5> QED BY <2>2, <2>3, <3>3, <4>4, <5>1
      <4>5. \/ n = 0 \/ (n > 0 /\ k = 1)
            \/ (n > 0 /\ k = 2) \/ (n > 0 /\ k > 2)
        BY <2>4
      <4> QED BY <4>1, <4>2, <4>3, <4>4, <4>5
    <3>4. CASE n > 0 /\ k = 2
      <4>1. Goes
        BY <2>1, <3>2, <3>3, <3>4 DEF MainInv
      <4> QED BY <4>1, OrderedStep
    <3>5. CASE ~(n > 0 /\ k = 2)
      <4>1. ASSUME NEW o \in Objects, HasRead(f, o)
            PROVE  HasRead(f, o)'
        <5>1. n = 0 \/ (k > 1 /\ (n = 1 \/ ~ReadToCome(f, o)))
          BY <2>3, <4>1
        <5>2. n = 0 \/ k = 1 \/ l > 1
          BY <2>4, <2>6, <3>5
        <5>3. k = 1 => ~(k > 1)
          BY <2>4
        <5> QED BY <2>3, <3>1, <5>1, <5>2, <5>3
      <4>2. Goes
        BY <2>1, <3>3, <4>1 DEF MainInv
      <4> QED BY <4>2, OrderedStep
    <3> QED BY <3>4, <3>5
  <2>7. CASE k = 1 /\ m = n + 1 /\ l > 1
    <3> HIDE DEF k, l, m, n
    <3>1. ~(k > 1) /\ (n = 0 => m = 1) /\ (n # 0 => n > 0)
      BY <2>4, <2>7
    <3>2. \A o \in Objects : Unsent(f, o) => Unsent(f, o)'
      BY <2>2, <2>3, <2>7, <3>1
    <3>3. \A o \in Objects : HasRead(f, o) => HasRead(f, o)'
      BY <2>3, <2>7, <3>1
    <3>4. Goes
      BY <2>1, <3>2, <3>3 DEF MainInv
    <3> QED BY <3>4, OrderedStep
  <2> QED BY <1>4, <2>6, <2>7, NextJobMoves
<1> QED BY <1>2, <1>3, <1>4 DEF Sends

-----------------------------------------------------------------------------
(* The steps.                                                              *)

\* Nobody loses an update that was on its way, or begins to block.
Kept ==
  \A e \in Federates : \A o \in Objects :
    /\ copy'[e][o].blocking => copy[e][o].blocking
    /\ copy[e][o].first => copy'[e][o].first
    /\ Ready(copy[e][o]) => Ready(copy'[e][o])
    /\ OnTheWay(e, o) => OnTheWay(e, o)'

LEMMA NothingIsKept ==
  ASSUME UNCHANGED <<wire, copy>>
  PROVE  Kept
BY DEF Kept, OnTheWay

LEMMA CallbackWaits ==
  ASSUME IInv, WaitInv, UNCHANGED main, gone \subseteq gone', Kept
  PROVE  WaitInv'
<1>1. OrderOfJobs'
  BY DEF WaitInv, OrderOfJobs
<1>2. \A e, o : /\ ReadToCome(e, o)' <=> ReadToCome(e, o)
                /\ Unsent(e, o)' <=> Unsent(e, o)
                /\ HasRead(e, o)' <=> HasRead(e, o)
  BY DEF ReadToCome, Unsent, HasRead, Doing
<1>3. \A e : Doing(e)' = Doing(e) /\ Obj(e)' = Obj(e)
  BY DEF Doing, Obj
<1>4. MayBlock'
  <2>1. ASSUME NEW e \in Federates, NEW o \in Objects
        PROVE  /\ copy'[e][o].blocking => o \in Blocking[e] \ ExCO
               /\ main[e].frame = 0 => copy'[e][o].first
               /\ main[e].frame = 1 /\ ReadToCome(e, o) =>
                    \/ copy'[e][o].first
                    \/ CyclicRead(Doing(e)) /\ o = Obj(e) /\ main[e].at # "start"
    BY DEF WaitInv, MayBlock, Kept
  <2> QED BY <1>2, <1>3, <2>1 DEF MayBlock, CyclicRead
<1>5. FirstReady'
  <2>1. ASSUME NEW e \in Federates, main[e].frame = 1, main[e].at = "wait",
               CyclicRead(Doing(e))
        PROVE  Ready(copy'[e][Obj(e)])
    <3>1. main[e] \in Mains(e)
      BY DEF IInv, MainInv
    <3>2. main[e].jobs # <<>> /\ HasObj(e)
      BY <2>1, <3>1 DEF Mains, AtOk, HasObj, Doing
    <3>3. Obj(e) \in Objects
      BY <3>1, <3>2, ObjMember
    <3>4. Ready(copy[e][Obj(e)])
      BY <2>1 DEF WaitInv, FirstReady, Copy
    <3> QED BY <3>3, <3>4 DEF Kept
  <2>2. \A e : Copy(e)' = copy'[e][Obj(e)]
    BY <1>3 DEF Copy
  <2> QED BY <1>3, <2>1, <2>2 DEF FirstReady, CyclicRead, Ready
<1>6. Ordered'
  <2>1. PICK clock \in Nat : \E stamp \in [Federates -> 0 .. clock] : SentSince(stamp)
    BY DEF WaitInv, Ordered
  <2>2. PICK stamp \in [Federates -> 0 .. clock] : SentSince(stamp)
    BY <2>1
  <2>3. ASSUME NEW e \in Federates \ gone', NEW o \in Objects, Reads(e, o)
        PROVE  \/ Unsent(Owner[o], o)' \/ OnTheWay(e, o)' \/ HasRead(e, o)'
               \/ stamp[e] > stamp[Owner[o]]
    BY <1>2, <2>2, <2>3 DEF SentSince, Kept
  <2>4. SentSince(stamp)'
    BY <2>3 DEF SentSince, Reads
  <2> QED BY <2>4 DEF Ordered
<1> QED BY <1>1, <1>4, <1>5, <1>6 DEF WaitInv

\* The steps of the main thread that only go on.
LEMMA MainWaits ==
  ASSUME IInv, WaitInv, NEW f \in Federates, main[f].jobs # <<>>, UNCHANGED gone, Kept,
         \A g \in Federates \ {f} : copy'[g] = copy[g],
         \/ \E at : GoesOn(f, at)
         \/ NextObject(f) /\ \A e \in Federates : ~Reads(e, Obj(f))
         \/ NextJob(f) /\ (IsCyclic(Doing(f)) => ~HasObj(f))
  PROVE  WaitInv'
<1>1. MainInv /\ OrderOfJobs /\ MayBlock /\ FirstReady /\ Ordered
  BY DEF IInv, WaitInv
<1>2. /\ \A o \in Objects : copy'[f][o].blocking => copy[f][o].blocking
      /\ \A o \in Objects : copy[f][o].first =>
           copy'[f][o].first \/ (o = Obj(f) /\ CyclicRead(Doing(f)) /\ main[f].frame > 0)
  BY DEF Kept
<1>3. (\E at : GoesOn(f, at)) \/ NextObject(f) \/ NextJob(f)
  OBVIOUS
<1>4. OrderOfJobs' /\ MayBlock' /\ FirstReady'
  BY <1>1, <1>2, <1>3, FirstKeeps
<1>5. Sends(f)
  <2>1. CASE \E at : GoesOn(f, at)
    BY <2>1 DEF GoesOn, Sends
  <2>2. CASE NextObject(f) /\ \A e \in Federates : ~Reads(e, Obj(f))
    BY <2>2 DEF Sends
  <2>3. CASE NextJob(f) /\ (IsCyclic(Doing(f)) => ~HasObj(f))
    BY <2>3 DEF Sends
  <2> QED BY <2>1, <2>2, <2>3
<1>6. \A e \in Federates \ gone : \A o \in Objects : Reads(e, o) /\ OnTheWay(e, o) =>
        OnTheWay(e, o)' \/ (e = f /\ HasRead(e, o)')
  BY DEF Kept
<1>7. Ordered'
  BY <1>1, <1>5, <1>6, OrderGoes
<1> QED BY <1>4, <1>7 DEF WaitInv

LEMMA QuietMainWaits ==
  ASSUME EveryCycle, IInv, WaitInv, NEW f \in Federates,
         \/ SendInit(f) \/ SendExchange(f) \/ SendCyclic(f) \/ SendRequested(f)
         \/ BlockingRead(f) \/ ReadGivesUp(f) \/ EndJob(f)
         \/ RequestUpdates(f) \/ SendInteraction(f) \/ HandleInteraction(f)
         \/ PopInteraction(f) \/ NoInteraction(f)
  PROVE  WaitInv'
<1>1. /\ UNCHANGED <<gone, wire, copy>> /\ main[f].jobs # <<>>
  BY DEF SendInit, SendExchange, SendCyclic, SendRequested, BlockingRead, ReadGivesUp,
         EndJob, RequestUpdates, SendInteraction, HandleInteraction, PopInteraction,
         NoInteraction, ownerVars, Does, Running
<1>2. Kept /\ \A g \in Federates \ {f} : copy'[g] = copy[g]
  BY <1>1, NothingIsKept
<1>3. ASSUME NEW at, GoesOn(f, at)
      PROVE  WaitInv'
  BY <1>1, <1>2, <1>3, MainWaits
<1>4. ASSUME NextObject(f), \A e \in Federates : ~Reads(e, Obj(f))
      PROVE  WaitInv'
  BY <1>1, <1>2, <1>4, MainWaits
<1>5. ASSUME NextJob(f), IsCyclic(Doing(f)) => ~HasObj(f)
      PROVE  WaitInv'
  BY <1>1, <1>2, <1>5, MainWaits
<1>6. ASSUME NEW at, GoTo(f, at), Doing(f).verb # "receive"
      PROVE  WaitInv'
  <2>1. GoesOn(f, at)
    BY <1>6 DEF GoesOn, CyclicRead
  <2> QED BY <1>3, <2>1
<1>7. CASE SendInit(f) \/ SendExchange(f)
  <2>1. GoTo(f, "build") /\ Doing(f).verb # "receive"
    BY <1>7 DEF SendInit, SendExchange, Does
  <2> QED BY <1>6, <2>1
<1>8. CASE SendCyclic(f)
  <2>1. HasObj(f) /\ Obj(f) \notin ExCO /\ Doing(f).verb # "receive"
    BY <1>8 DEF SendCyclic, Does
  <2>2. ASSUME NEW e \in Federates, Reads(e, Obj(f))
        PROVE  GoTo(f, "build")
    <3>1. "cyclic" \in Config[Obj(f)] /\ Obj(f) \in Blocking[e] \ ExCO
      BY <2>2 DEF Reads
    <3>2. Ratio[Obj(f)] = 1
      BY <3>1 DEF EveryCycle
    <3> QED BY <1>8, <3>1, <3>2 DEF SendCyclic
  <2>3. GoTo(f, "build") \/ NextObject(f)
    BY <1>8 DEF SendCyclic
  <2> QED BY <1>4, <1>6, <2>1, <2>2, <2>3
<1>9. CASE SendRequested(f)
  <2>1. Obj(f) \in ExCO /\ Doing(f).verb # "receive"
    BY <1>9 DEF SendRequested, Does
  <2>2. GoTo(f, "build") \/ NextObject(f)
    BY <1>9 DEF SendRequested
  <2> QED BY <1>4, <1>6, <2>1, <2>2 DEF Reads
<1>10. CASE BlockingRead(f)
  <2>1. /\ CyclicRead(Doing(f)) /\ HasObj(f) /\ main[f].at = "start"
        /\ ~copy[f][Obj(f)].first /\ GoTo(f, "wait")
    BY <1>10 DEF BlockingRead, Does, CyclicRead, Copy
  <2>2. main[f] \in Mains(f)
    BY DEF IInv, MainInv
  <2>3. Obj(f) \in Objects /\ Obj(f) \in Doing(f).left
    BY <1>1, <2>1, <2>2, ObjMember
  <2>4. 1 \in 1 .. Len(main[f].jobs) /\ Doing(f) = main[f].jobs[1]
    <3>1. main[f].jobs \in Seq(JobsOf(f))
      BY <2>2 DEF Mains
    <3> QED BY <1>1, <3>1, LenProperties DEF Doing
  <2>5. ReadToCome(f, Obj(f))
    BY <2>1, <2>3, <2>4 DEF ReadToCome
  <2>6. main[f].frame # 1
    BY <2>1, <2>3, <2>5 DEF WaitInv, MayBlock
  <2>7. GoesOn(f, "wait")
    BY <2>1, <2>6 DEF GoesOn
  <2> QED BY <1>3, <2>7
<1>11. CASE ReadGivesUp(f)
  <2>1. GoesOn(f, "check")
    BY <1>11 DEF ReadGivesUp, GoesOn
  <2> QED BY <1>3, <2>1
<1>12. CASE HandleInteraction(f) \/ PopInteraction(f)
  <2>1. Doing(f).verb # "receive" /\ (GoTo(f, "pop") \/ GoTo(f, "start"))
    BY <1>12 DEF HandleInteraction, PopInteraction, Does
  <2> QED BY <1>6, <2>1
<1>13. CASE EndJob(f)
  BY <1>5, <1>13 DEF EndJob
<1>14. CASE RequestUpdates(f) \/ SendInteraction(f) \/ NoInteraction(f)
  <2>1. NextJob(f) /\ ~IsCyclic(Doing(f))
    BY <1>14 DEF RequestUpdates, SendInteraction, NoInteraction, Does, IsCyclic
  <2> QED BY <1>5, <2>1
<1> QED BY <1>7, <1>8, <1>9, <1>10, <1>11, <1>12, <1>13, <1>14

\* An update that is built for the last job is on its way to all.
LEMMA BuildWaits ==
  ASSUME EveryCycle, IInv, WaitInv, NEW f \in Federates, BuildAndSend(f)
  PROVE  WaitInv'
<1>1. main[f].jobs # <<>> /\ NextObject(f) /\ UNCHANGED <<gone, copy>>
  BY DEF BuildAndSend, Running
<1>2. Doing(f).verb = "send" /\ HasObj(f)
  BY <1>1 DEF BuildAndSend, IInv, MainInv, Mains, AtOk, HasObj, Doing
<1>3. Obj(f) \in Objects /\ Owner[Obj(f)] = f
  BY <1>1, <1>2, ObjMember DEF IInv, MainInv
<1>4. MainInv /\ OrderOfJobs /\ MayBlock /\ FirstReady /\ Ordered
  BY DEF IInv, WaitInv
<1>5. OrderOfJobs' /\ MayBlock' /\ FirstReady'
  BY <1>1, <1>4, FirstKeeps
<1> DEFINE attributes == Due(Obj(f), Doing(f).kind) \cup Requested(Obj(f), Doing(f).kind)
<1>6. ASSUME attributes # {}, NEW e \in Federates \ gone, e # f
      PROVE  /\ wire'[e][Obj(f)].updates # <<>>
             /\ \A o \in Objects : o # Obj(f) => wire'[e][o] = wire[e][o]
  <2>1. wire' = [g \in Federates |->
          IF g = f \/ g \in gone THEN wire[g]
          ELSE [wire[g] EXCEPT ![Obj(f)].updates = Append(@, sent[Obj(f)] + 1)]]
    BY <1>6 DEF BuildAndSend
  <2>2. wire[e] \in [Objects -> [updates : Seq(Nat), removed : BOOLEAN]]
    BY DEF IInv, DataInv
  <2> DEFINE x == Obj(f)
             n == sent[Obj(f)] + 1
  <2>3. wire'[e] = [wire[e] EXCEPT ![x].updates = Append(wire[e][x].updates, n)]
    BY <1>6, <2>1
  <2>4. n \in Nat /\ x \in Objects
    BY <1>3 DEF IInv, DataInv
  <2> HIDE DEF x, n
  <2>5. wire[e][x].updates \in Seq(Nat)
    BY <2>2, <2>4
  <2>6. Append(wire[e][x].updates, n) # <<>>
    BY <2>4, <2>5
  <2>7. wire'[e][x].updates = Append(wire[e][x].updates, n)
    BY <2>2, <2>3, <2>4
  <2>8. \A o \in Objects : o # x => wire'[e][o] = wire[e][o]
    BY <2>2, <2>3, <2>4
  <2> QED BY <2>6, <2>7, <2>8 DEF x
<1>7. attributes = {} => UNCHANGED wire
  BY DEF BuildAndSend
<1>8. ASSUME NEW e \in Federates \ gone, NEW o \in Objects, Reads(e, o), OnTheWay(e, o)
      PROVE  OnTheWay(e, o)'
  <2>1. CASE e = f
    <3>1. wire'[f] = wire[f]
      BY <1>7 DEF BuildAndSend
    <3> QED BY <1>1, <1>8, <2>1, <3>1 DEF OnTheWay
  <2>2. CASE e # f
    BY <1>1, <1>6, <1>7, <1>8, <2>2 DEF OnTheWay
  <2> QED BY <2>1, <2>2
<1>9. ASSUME IsCyclic(Doing(f)), NEW e \in Federates \ gone, Reads(e, Obj(f))
      PROVE  wire'[e][Obj(f)].updates # <<>>
  <2>1. /\ "cyclic" \in Config[Obj(f)] /\ Obj(f) \in Blocking[e] \ ExCO
        /\ e # f /\ Doing(f).kind = "cyclic"
    BY <1>3, <1>9 DEF Reads, IsCyclic
  <2>2. Ratio[Obj(f)] = 1
    BY <2>1 DEF EveryCycle
  <2>3. "cyclic" \in Due(Obj(f), Doing(f).kind)
    BY <2>1, <2>2 DEF Due
  <2> QED BY <1>6, <2>1, <2>3
<1>10. ASSUME IsCyclic(Doing(f)), NEW o, o = Obj(f), NEW e \in Federates \ gone, Reads(e, o)
       PROVE  OnTheWay(e, o)'
  <2>1. wire'[e][o].updates # <<>>
    BY <1>9, <1>10
  <2> QED BY <2>1 DEF OnTheWay
<1>11. Sends(f)
  BY <1>1, <1>10 DEF Sends
<1>12. Ordered'
  BY <1>1, <1>4, <1>8, <1>11, OrderGoes
<1> QED BY <1>5, <1>12 DEF WaitInv

\* The object is done with in a job that receives: f has read it.
LEMMA ReadDone ==
  ASSUME MainInv, OrderOfJobs, NEW f \in Federates, main[f].jobs # <<>>,
         Doing(f).verb = "receive", NextObject(f)
  PROVE  \A o : o = Obj(f) => HasRead(f, o)'
<1> DEFINE js == main[f].jobs
<1>1. /\ js \in Seq(JobsOf(f)) /\ main[f].frame \in Nat
      /\ JobsInOrder(f, main[f].frame, js)
  BY DEF MainInv, Mains, OrderOfJobs
<1>2. Len(js) \in Nat \ {0} /\ Doing(f) = js[1]
  BY <1>1, LenProperties DEF Doing
<1>3. /\ main'[f].frame = main[f].frame /\ Len(main'[f].jobs) = Len(main[f].jobs)
      /\ \A o \in Objects : ReadToCome(f, o)' => ReadToCome(f, o)
      /\ main[f].frame > 0 /\ CyclicRead(Doing(f)) => \A o : o = Obj(f) => ~ReadToCome(f, o)'
  BY NextObjectMoves DEF SameFrame
<1>4. CASE main[f].frame = 0
  BY <1>3, <1>4 DEF HasRead
<1>5. CASE main[f].frame > 0
  <2>1. /\ \A i, j \in 1 .. Len(js) : i < j /\ CyclicRead(js[j]) => js[i].verb # "receive"
        /\ IsCyclic(js[Len(js)])
    BY <1>1, <1>5 DEF JobsInOrder
  <2>2. Len(js) # 1
    BY <1>2, <2>1 DEF IsCyclic
  <2>5. Len(main'[f].jobs) > 1
    <3> DEFINE k == Len(js)
               l == Len(main'[f].jobs)
    <3>1. k \in Nat \ {0} /\ k # 1 /\ l = k
      BY <1>2, <1>3, <2>2
    <3> HIDE DEF k, l
    <3>2. l > 1
      BY <3>1
    <3> QED BY <3>2 DEF l
  <2>3. CASE CyclicRead(Doing(f))
    <3>1. \A o : o = Obj(f) => ~ReadToCome(f, o)'
      BY <1>3, <1>5, <2>3
    <3> QED BY <2>5, <3>1 DEF HasRead
  <2>4. CASE ~CyclicRead(Doing(f))
    <3>1. \A j \in 1 .. Len(js) : ~CyclicRead(js[j])
      <4>1. \A j \in 1 .. Len(js) : j = 1 \/ 1 < j
        BY <1>2
      <4>2. 1 \in 1 .. Len(js)
        BY <1>2
      <4> QED BY <1>2, <2>1, <2>4, <4>1, <4>2
    <3>2. \A o : ~ReadToCome(f, o)
      BY <3>1 DEF ReadToCome
    <3>4. \A o : o = Obj(f) => ~ReadToCome(f, o)'
      <4>1. ASSUME NEW o, ReadToCome(f, o)'
            PROVE  FALSE
        <5>1. main'[f].jobs = Without(js, Obj(f))
          BY DEF MainInv, Mains, NextObject, Without
        <5>2. /\ Len(Without(js, Obj(f))) = Len(js)
              /\ Without(js, Obj(f))[1].verb = js[1].verb
              /\ Without(js, Obj(f))[1].kind = js[1].kind
              /\ \A i \in 1 .. Len(js) : i # 1 => Without(js, Obj(f))[i] = js[i]
          BY <1>1, ObjectOrder
        <5>3. \A i \in 1 .. Len(js) : ~CyclicRead(Without(js, Obj(f))[i])
          BY <3>1, <5>2 DEF CyclicRead
        <5> QED BY <4>1, <5>1, <5>2, <5>3 DEF ReadToCome
      <4> QED BY <4>1
    <3> QED BY <2>5, <3>4 DEF HasRead
  <2> QED BY <2>3, <2>4
<1> QED BY <1>1, <1>4, <1>5

\* What is ready stays so when it is decoded: the numbers begin with 1.
LEMMA DecodeReady ==
  ASSUME NEW c \in Copies
  PROVE  /\ IsChanged(c).first = c.first /\ IsChanged(c).blocking = c.blocking
         /\ \A w \in Seq(Nat) : \A n \in Nat : InOrder(c, w, n) /\ Ready(c) => Ready(IsChanged(c))
<1>1. CASE c.decoded # 0 \/ c.queue = <<>>
  BY <1>1 DEF IsChanged
<1>2. CASE ~(c.decoded # 0 \/ c.queue = <<>>)
  <2> DEFINE h == Head(c.queue)
             t == Tail(c.queue)
  <2>1. IsChanged(c) = [c EXCEPT !.decoded = h, !.queue = t]
    BY <1>2 DEF IsChanged
  <2>2. c.queue \in Seq(Nat) /\ c.queue # <<>> /\ c.seen \in Nat
    BY <1>2 DEF Copies
  <2>3. 1 \in DOMAIN c.queue /\ h = c.queue[1]
    <3> DEFINE q == c.queue
    <3>1. q \in Seq(Nat) /\ q # <<>>
      BY <2>2
    <3> HIDE DEF q
    <3>2. 1 \in DOMAIN q /\ Head(q) = q[1]
      BY <3>1, LenProperties
    <3> QED BY <3>2 DEF q
  <2>4. ASSUME NEW w \in Seq(Nat), NEW n \in Nat, InOrder(c, w, n)
        PROVE  h # 0
    <3>1. c.queue[1] = c.seen + 1
      BY <1>2, <2>3, <2>4 DEF InOrder, Latest, Follow
    <3> QED BY <2>2, <2>3, <3>1
  <2> HIDE DEF h, t
  <2>5. IsChanged(c).first = c.first /\ IsChanged(c).blocking = c.blocking
        /\ IsChanged(c).decoded = h
    BY <2>1 DEF Copies
  <2> QED BY <2>4, <2>5 DEF Ready
<1> QED BY <1>1, <1>2

\* A read goes on to at, or is done with its object.
ReadGoes(f, d) ==
  \/ NextObject(f)
  \/ \E at \in {"wait", "check", "unpack"} :
       /\ GoTo(f, at)
       /\ Owner[Obj(f)] # f /\ Ready(Copy(f)) => Ready(d)
       /\ at = "wait" => Ready(Copy(f))

LEMMA ReadWaits ==
  ASSUME IInv, WaitInv, NEW f \in Federates, main[f].jobs # <<>>, Doing(f).verb = "receive",
         HasObj(f), UNCHANGED <<gone, wire>>, NEW d \in Copies, SetCopy(f, d),
         d.blocking => Copy(f).blocking,
         Copy(f).first => d.first \/ Doing(f).kind = "cyclic",
         ReadGoes(f, d)
  PROVE  WaitInv'
<1>1. MainInv /\ OrderOfJobs /\ MayBlock /\ FirstReady /\ Ordered
  BY DEF IInv, WaitInv
<1>2. Obj(f) \in Objects /\ Obj(f) \in Doing(f).left
  BY <1>1, ObjMember DEF MainInv
<1>3. /\ copy'[f][Obj(f)] = d
      /\ \A o \in Objects : o # Obj(f) => copy'[f][o] = copy[f][o]
      /\ \A g \in Federates \ {f} : copy'[g] = copy[g]
  BY <1>2 DEF SetCopy, IInv, DataInv
<1>4. /\ 1 \in 1 .. Len(main[f].jobs) /\ Doing(f) = main[f].jobs[1]
      /\ JobsInOrder(f, main[f].frame, main[f].jobs) /\ main[f].frame \in Nat
  <2>1. main[f] \in Mains(f)
    BY <1>1 DEF MainInv
  <2>2. main[f].jobs \in Seq(JobsOf(f)) /\ main[f].frame \in Nat
    BY <2>1 DEF Mains
  <2> QED BY <1>1, <2>2, LenProperties DEF Doing, OrderOfJobs
<1>5. CyclicRead(Doing(f)) => main[f].frame > 0 /\ Owner[Obj(f)] # f
  <2>1. CyclicRead(Doing(f)) => main[f].frame # 0
    BY <1>4 DEF JobsInOrder, CyclicRead
  <2>2. main[f].frame > 0 /\ CyclicRead(Doing(f)) => Owner[Obj(f)] # f
    BY <1>2, <1>4 DEF JobsInOrder
  <2> QED BY <1>4, <2>1, <2>2
<1>6. \A o \in Objects : copy'[f][o].blocking => copy[f][o].blocking
  BY <1>3 DEF Copy
<1>7. \A o \in Objects : copy[f][o].first =>
        copy'[f][o].first \/ (o = Obj(f) /\ CyclicRead(Doing(f)) /\ main[f].frame > 0)
  BY <1>3, <1>5 DEF Copy, CyclicRead
<1>8. CASE NextObject(f)
  <2>1. OrderOfJobs' /\ MayBlock' /\ FirstReady'
    BY <1>1, <1>3, <1>6, <1>7, <1>8, FirstKeeps
  <2>2. \A o : o = Obj(f) => HasRead(f, o)'
    BY <1>1, <1>8, ReadDone
  <2>3. \A e \in Federates \ gone : \A o \in Objects : Reads(e, o) /\ OnTheWay(e, o) =>
          OnTheWay(e, o)' \/ (e = f /\ HasRead(e, o)')
    BY <1>3, <2>2 DEF OnTheWay
  <2>4. Sends(f)
    BY <1>8 DEF Sends, IsCyclic
  <2>5. Ordered'
    BY <1>1, <2>3, <2>4, OrderGoes
  <2> QED BY <2>1, <2>5 DEF WaitInv
<1>9. ASSUME NEW at \in {"wait", "check", "unpack"}, GoTo(f, at),
             Owner[Obj(f)] # f /\ Ready(Copy(f)) => Ready(d),
             at = "wait" => Ready(Copy(f))
      PROVE  WaitInv'
  <2>1. GoesOn(f, at)
    BY <1>3, <1>5, <1>9 DEF GoesOn
  <2>2. \E a : GoesOn(f, a)
    BY <2>1
  <2>3. OrderOfJobs' /\ MayBlock' /\ FirstReady'
    BY <1>1, <1>3, <1>6, <1>7, <2>2, FirstKeeps
  <2>4. \A e \in Federates \ gone : \A o \in Objects : Reads(e, o) /\ OnTheWay(e, o) =>
          OnTheWay(e, o)' \/ (e = f /\ HasRead(e, o)')
    BY <1>3, <1>9 DEF OnTheWay, Reads, Copy
  <2>5. Sends(f)
    BY <1>9 DEF Sends
  <2>6. Ordered'
    BY <1>1, <2>4, <2>5, OrderGoes
  <2> QED BY <2>3, <2>6 DEF WaitInv
<1> QED BY <1>8, <1>9 DEF ReadGoes

LEMMA ReadStepWaits ==
  ASSUME IInv, WaitInv, NEW f \in Federates,
         FirstRead(f) \/ DataArrives(f) \/ CheckData(f) \/ UnpackCyclic(f) \/ UnpackOne(f)
  PROVE  WaitInv'
<1>1. /\ main[f].jobs # <<>> /\ UNCHANGED <<gone, wire>> /\ f \notin gone
      /\ MainInv /\ main[f] \in Mains(f)
  BY DEF FirstRead, DataArrives, CheckData, UnpackCyclic, UnpackOne, Does, Running, IInv, MainInv
<1>2. Doing(f).verb = "receive" /\ HasObj(f)
  <2>1. CASE FirstRead(f) \/ DataArrives(f) \/ CheckData(f)
    BY <2>1 DEF FirstRead, DataArrives, CheckData, Does
  <2>2. CASE UnpackCyclic(f) \/ UnpackOne(f)
    BY <1>1, <2>2 DEF UnpackCyclic, UnpackOne, Does, Mains, AtOk, HasObj, Doing
  <2> QED BY <2>1, <2>2
<1>3. Obj(f) \in Objects
  BY <1>1, <1>2, ObjMember
<1> DEFINE c == Copy(f)
           d == IsChanged(c)
<1>4. c \in Copies
  BY <1>3 DEF Copy, IInv, DataInv
<1>5. d \in Copies /\ d.first = c.first /\ d.blocking = c.blocking
      /\ (d.decoded # 0 => Ready(d))
  BY <1>4, CopyTypes, DecodeReady DEF Ready
<1>6. Owner[Obj(f)] # f /\ Ready(c) => Ready(d)
  <2>1. Owner[Obj(f)] # f => InOrder(c, wire[f][Obj(f)].updates, sent[Obj(f)])
    BY <1>1, <1>3 DEF IInv, OrderInv, Copy
  <2>2. wire[f][Obj(f)].updates \in Seq(Nat) /\ sent[Obj(f)] \in Nat
    BY <1>3 DEF IInv, DataInv
  <2> QED BY <1>4, <2>1, <2>2, DecodeReady
<1>7. CASE FirstRead(f)
  <2> DEFINE e == [d EXCEPT !.first = FALSE]
  <2>1. SetCopy(f, e) /\ Doing(f).kind = "cyclic"
        /\ (IF Ready(c) THEN GoTo(f, "wait") ELSE NextObject(f))
    BY <1>7 DEF FirstRead, Does
  <2>2. e \in Copies /\ e.blocking = d.blocking /\ (Ready(d) => Ready(e))
    <3> HIDE DEF d
    <3> QED BY <1>5 DEF Copies, Ready
  <2> HIDE DEF e
  <2>3. ReadGoes(f, e)
    BY <1>6, <2>1, <2>2 DEF ReadGoes
  <2> HIDE DEF d
  <2> QED BY <1>1, <1>2, <1>5, <2>1, <2>2, <2>3, ReadWaits
<1>8. CASE DataArrives(f) \/ CheckData(f)
  <2>1. SetCopy(f, d) /\ (GoTo(f, "check") \/ NextObject(f) \/ GoTo(f, "unpack"))
    BY <1>8 DEF DataArrives, CheckData
  <2> HIDE DEF d
  <2>2. ReadGoes(f, d)
    BY <1>6, <2>1 DEF ReadGoes
  <2> QED BY <1>1, <1>2, <1>5, <2>1, <2>2, ReadWaits
<1>9. CASE UnpackCyclic(f) \/ UnpackOne(f)
  <2> DEFINE u == Unpack(c)
             v == IsChanged(u)
  <2>1. u \in Copies /\ u.first = c.first /\ u.blocking = c.blocking
    <3> HIDE DEF c
    <3> QED BY <1>4 DEF Unpack, Copies
  <2>2. CASE UnpackOne(f)
    <3>1. SetCopy(f, u) /\ NextObject(f)
      BY <2>2 DEF UnpackOne
    <3> HIDE DEF u
    <3>2. ReadGoes(f, u)
      BY <3>1 DEF ReadGoes
    <3> QED BY <1>1, <1>2, <2>1, <3>1, <3>2, ReadWaits
  <2>3. CASE UnpackCyclic(f)
    <3>1. SetCopy(f, v) /\ ((v.decoded # 0 /\ GoTo(f, "unpack")) \/ NextObject(f))
      BY <2>3 DEF UnpackCyclic
    <3> HIDE DEF u
    <3>2. v \in Copies /\ v.first = c.first /\ v.blocking = c.blocking
      BY <2>1, CopyTypes, DecodeReady
    <3> HIDE DEF v
    <3>3. ReadGoes(f, v)
      BY <3>1 DEF ReadGoes, Ready
    <3> QED BY <1>1, <1>2, <3>1, <3>2, <3>3, ReadWaits
  <2> QED BY <1>9, <2>2, <2>3
<1> QED BY <1>7, <1>8, <1>9

LEMMA DeletedWaits ==
  ASSUME IInv, WaitInv, NEW f \in Federates, ProcessDeleted(f)
  PROVE  WaitInv'
<1>1. /\ NextJob(f) /\ main[f].jobs # <<>> /\ UNCHANGED <<gone, wire>>
      /\ ~IsCyclic(Doing(f))
  BY DEF ProcessDeleted, Does, Running, IsCyclic
<1>2. copy \in [Federates -> [Objects -> Copies]]
  BY DEF IInv, DataInv
<1>3. /\ \A g \in Federates \ {f} : copy'[g] = copy[g]
      /\ \A o \in Objects : copy'[f][o] = [copy[f][o] EXCEPT !.deleted = FALSE]
  BY <1>2 DEF ProcessDeleted
<1>4. ASSUME NEW e \in Federates, NEW o \in Objects
      PROVE  /\ copy'[e][o].blocking = copy[e][o].blocking
             /\ copy'[e][o].first = copy[e][o].first
             /\ copy'[e][o].decoded = copy[e][o].decoded
             /\ copy'[e][o].queue = copy[e][o].queue
  <2>1. CASE e # f
    BY <1>3, <2>1
  <2>2. CASE e = f
    <3>1. copy[f][o] \in Copies /\ copy'[f][o] = [copy[f][o] EXCEPT !.deleted = FALSE]
      BY <1>2, <1>3
    <3> QED BY <2>2, <3>1 DEF Copies
  <2> QED BY <2>1, <2>2
<1>5. Kept
  BY <1>1, <1>4 DEF Kept, OnTheWay, Ready
<1> QED BY <1>1, <1>3, <1>5, MainWaits

LEMMA ReflectWaits ==
  ASSUME IInv, WaitInv, NEW g \in Federates, NEW o \in Objects, Reflect(g, o)
  PROVE  WaitInv'
<1>1. /\ UNCHANGED <<main, gone>>
      /\ copy \in [Federates -> [Objects -> Copies]]
      /\ wire \in [Federates -> [Objects -> [updates : Seq(Nat), removed : BOOLEAN]]]
  BY DEF Reflect, IInv, DataInv
<1> DEFINE q == Append(copy[g][o].queue, Head(wire[g][o].updates))
           d == [copy[g][o] EXCEPT !.queue = q]
<1>2. copy' = [copy EXCEPT ![g][o] = d]
  BY DEF Reflect
<1>3. copy[g][o] \in Copies /\ copy[g][o].queue \in Seq(Nat)
  BY <1>1 DEF Copies
<1>4. q # <<>>
  <2> DEFINE s == copy[g][o].queue
             h == Head(wire[g][o].updates)
  <2>1. wire[g][o].updates \in Seq(Nat) /\ wire[g][o].updates # <<>>
    BY <1>1 DEF Reflect
  <2>2. h \in Nat /\ s \in Seq(Nat)
    BY SMTT(20), <1>3, <2>1
  <2> HIDE DEF s, h
  <2>3. Append(s, h) # <<>>
    BY <2>2
  <2> QED BY <2>3 DEF s, h
<1> HIDE DEF q
<1>5. /\ d.queue = q /\ d.blocking = copy[g][o].blocking /\ d.first = copy[g][o].first
  BY <1>3 DEF Copies
<1>6. Ready(d)
  BY <1>4, <1>5 DEF Ready
<1> HIDE DEF d
<1>7. copy'[g][o] = d
      /\ \A h \in Federates : \A p \in Objects : (h # g \/ p # o) => copy'[h][p] = copy[h][p]
  BY <1>1, <1>2
<1>8. \A h \in Federates : \A p \in Objects : (h # g \/ p # o) => wire'[h][p] = wire[h][p]
  BY <1>1 DEF Reflect
<1>9. Kept
  <2>1. ASSUME NEW h \in Federates, NEW p \in Objects, h # g \/ p # o
        PROVE  copy'[h][p] = copy[h][p] /\ wire'[h][p] = wire[h][p]
    BY <1>7, <1>8, <2>1
  <2>2. /\ copy'[g][o].blocking => copy[g][o].blocking
        /\ copy[g][o].first => copy'[g][o].first
        /\ Ready(copy'[g][o]) /\ OnTheWay(g, o)'
    BY <1>5, <1>6, <1>7 DEF OnTheWay
  <2>3. ASSUME NEW h \in Federates, NEW p \in Objects
        PROVE  /\ copy'[h][p].blocking => copy[h][p].blocking
               /\ copy[h][p].first => copy'[h][p].first
               /\ Ready(copy[h][p]) => Ready(copy'[h][p])
               /\ OnTheWay(h, p) => OnTheWay(h, p)'
    <3>1. CASE h # g \/ p # o
      BY <2>1, <3>1 DEF OnTheWay
    <3>2. CASE h = g /\ p = o
      BY <2>2, <3>2
    <3> QED BY <3>1, <3>2
  <2> QED BY <2>3 DEF Kept
<1> QED BY <1>1, <1>9, CallbackWaits

LEMMA RemoveWaits ==
  ASSUME IInv, WaitInv, NEW g \in Federates, NEW o \in Objects, RemoveInstance(g, o)
  PROVE  WaitInv'
<1> DEFINE d == [copy[g][o] EXCEPT !.deleted = TRUE, !.blocking = FALSE, !.first = TRUE]
           e == [wire[g][o] EXCEPT !.removed = FALSE]
<1>1. /\ copy[g][o] \in Copies /\ wire[g][o] \in [updates : Seq(Nat), removed : BOOLEAN]
      /\ UNCHANGED <<main, gone>>
  BY DEF RemoveInstance, IInv, DataInv
<1>2. /\ d.decoded = copy[g][o].decoded /\ d.queue = copy[g][o].queue
      /\ d.blocking = FALSE /\ d.first = TRUE /\ e.updates = wire[g][o].updates
  BY <1>1 DEF Copies
<1>3. copy' = [copy EXCEPT ![g][o] = d] /\ wire' = [wire EXCEPT ![g][o] = e]
  BY DEF RemoveInstance, IInv, DataInv, Copies
<1> HIDE DEF d, e
<1>4. ASSUME NEW h \in Federates, NEW p \in Objects
      PROVE  /\ copy'[h][p].decoded = copy[h][p].decoded
             /\ copy'[h][p].queue = copy[h][p].queue
             /\ wire'[h][p].updates = wire[h][p].updates
             /\ copy'[h][p].blocking => copy[h][p].blocking
             /\ copy[h][p].first => copy'[h][p].first
  BY <1>2, <1>3 DEF IInv, DataInv
<1>5. Kept
  BY <1>4 DEF Kept, OnTheWay, Ready
<1> QED BY <1>1, <1>5, CallbackWaits

LEMMA DepartWaits ==
  ASSUME IInv, WaitInv, NEW f \in Federates, Depart(f)
  PROVE  WaitInv'
<1>1. gone \subseteq gone' /\ UNCHANGED <<main, copy>>
  BY DEF Depart
<1>2. ASSUME NEW g \in Federates, NEW o \in Objects
      PROVE  wire'[g][o].updates = wire[g][o].updates
  <2>1. wire[g][o] \in [updates : Seq(Nat), removed : BOOLEAN]
    BY DEF IInv, DataInv
  <2>2. \/ wire'[g][o] = wire[g][o]
        \/ wire'[g][o] = [wire[g][o] EXCEPT !.removed = TRUE]
    BY DEF Depart
  <2> QED BY <2>1, <2>2
<1>3. Kept
  BY <1>1, <1>2 DEF Kept, OnTheWay
<1> QED BY <1>1, <1>3, CallbackWaits

LEMMA WaitStep ==
  ASSUME EveryCycle, IInv, WaitInv, [Next]_vars
  PROVE  WaitInv'
<1>1. ASSUME UNCHANGED <<main, gone, wire, copy>>
      PROVE  WaitInv'
  BY <1>1, NothingIsKept, CallbackWaits
<1>2. ASSUME NEW f \in Federates, MainThread(f) \/ ReadGivesUp(f)
      PROVE  WaitInv'
  BY <1>2, QuietMainWaits, BuildWaits, ReadStepWaits, DeletedWaits DEF MainThread
<1>3. ASSUME NEW g \in Federates, Callback(g)
      PROVE  WaitInv'
  <2>1. ASSUME NEW o \in Objects, Reflect(g, o) \/ RemoveInstance(g, o)
        PROVE  WaitInv'
    BY <2>1, ReflectWaits, RemoveWaits
  <2>2. ASSUME NEW o \in Objects, ProvideUpdate(o) \/ ProvideObject(o)
        PROVE  WaitInv'
    BY <1>1, <2>2 DEF ProvideUpdate, ProvideObject
  <2>3. CASE ReceiveInteraction(g)
    BY <1>1, <2>3 DEF ReceiveInteraction
  <2> QED BY <1>3, <2>1, <2>2, <2>3 DEF Callback
<1>4. ASSUME NEW f \in Federates, Leave(f) \/ Lose(f)
      PROVE  WaitInv'
  BY <1>4, DepartWaits DEF Leave, Lose
<1>5. CASE UNCHANGED vars
  BY <1>1, <1>5 DEF vars
<1> QED BY <1>2, <1>3, <1>4, <1>5 DEF Next

LEMMA WaitStart == ASSUME Init PROVE WaitInv
<1>1. ASSUME NEW f \in Federates
      PROVE  main[f].frame = 0 /\ main[f].jobs = InitJobs(f) /\ main[f].at = "start"
  BY DEF Init
<1>2. ASSUME NEW f \in Federates
      PROVE  /\ Len(InitJobs(f)) = 2
             /\ \A i \in 1 .. 2 : InitJobs(f)[i].kind = "initialize"
  BY DEF InitJobs, Send, Receive, Job
<1>3. OrderOfJobs
  BY <1>1, <1>2 DEF OrderOfJobs, JobsInOrder
<1>4. ASSUME NEW e \in Federates, NEW o \in Objects
      PROVE  copy[e][o].blocking = (o \in Blocking[e] \ ExCO) /\ copy[e][o].first
  BY DEF Init
<1>5. MayBlock
  BY <1>1, <1>4 DEF MayBlock
<1>6. FirstReady
  BY <1>1 DEF FirstReady
<1>7. Ordered
  <2>1. [f \in Federates |-> 0] \in [Federates -> 0 .. 0] /\ 0 \in Nat
    OBVIOUS
  <2>2. SentSince([f \in Federates |-> 0])
    BY <1>1 DEF SentSince, HasRead
  <2> QED BY <2>1, <2>2 DEF Ordered
<1> QED BY <1>3, <1>5, <1>6, <1>7 DEF WaitInv

\* One that is blocked has begun its last sending after the one it waits for.
LEMMA BlockedIsLater ==
  ASSUME IInv, WaitInv, NEW stamp, SentSince(stamp), NEW f \in Federates, NEW g \in Federates,
         BlockedOn(f, g), NEW h, BlockedOn(g, h)
  PROVE  stamp[f] > stamp[g]
<1>1. ASSUME NEW e \in Federates, NEW d, BlockedOn(e, d)
      PROVE  /\ e \notin gone /\ main[e].jobs # <<>> /\ CyclicRead(Doing(e))
             /\ Obj(e) \in Objects /\ Reads(e, Obj(e)) /\ ~OnTheWay(e, Obj(e))
             /\ ~HasRead(e, Obj(e)) /\ Owner[Obj(e)] = d
             /\ main[e].frame \notin {0, 1} /\ Len(main[e].jobs) # 1
  <2>1. /\ e \notin gone /\ main[e].jobs # <<>> /\ CyclicRead(Doing(e)) /\ main[e].at = "wait"
        /\ ~Ready(copy[e][Obj(e)]) /\ wire[e][Obj(e)].updates = <<>>
        /\ copy[e][Obj(e)].blocking /\ Owner[Obj(e)] = d
    BY <1>1 DEF BlockedOn, Does, Running, CyclicRead, Copy
  <2>2. main[e] \in Mains(e) /\ JobsInOrder(e, main[e].frame, main[e].jobs)
    BY DEF IInv, MainInv, WaitInv, OrderOfJobs
  <2>3. HasObj(e)
    BY <2>1, <2>2 DEF Mains, AtOk, HasObj, Doing
  <2>4. Obj(e) \in Objects /\ Obj(e) \in Doing(e).left
    BY <2>1, <2>2, <2>3, ObjMember
  <2>5. 1 \in 1 .. Len(main[e].jobs) /\ Doing(e) = main[e].jobs[1] /\ main[e].frame \in Nat
    <3>1. main[e].jobs \in Seq(JobsOf(e)) /\ main[e].frame \in Nat
      BY <2>2 DEF Mains
    <3> QED BY <2>1, <3>1, LenProperties DEF Doing
  <2>6. main[e].frame # 0
    BY <2>1, <2>2, <2>5 DEF JobsInOrder, CyclicRead
  <2>7. main[e].frame # 1
    BY <2>1 DEF WaitInv, FirstReady, Copy
  <2>8. /\ Owner[Obj(e)] # e /\ (Obj(e) \in ExCO \/ "cyclic" \in Config[Obj(e)])
        /\ IsCyclic(main[e].jobs[Len(main[e].jobs)])
    BY <2>1, <2>2, <2>4, <2>5, <2>6 DEF JobsInOrder
  <2>9. Reads(e, Obj(e))
    BY <2>1, <2>4, <2>8 DEF Reads, WaitInv, MayBlock
  <2>10. ReadToCome(e, Obj(e))
    BY <2>1, <2>4, <2>5 DEF ReadToCome
  <2>11. ~HasRead(e, Obj(e))
    BY <2>6, <2>7, <2>10 DEF HasRead
  <2>12. Len(main[e].jobs) # 1
    BY <2>1, <2>5, <2>8 DEF CyclicRead, IsCyclic
  <2> QED BY <2>1, <2>4, <2>6, <2>7, <2>9, <2>11, <2>12 DEF OnTheWay
<1>2. ~Unsent(g, Obj(f))
  BY <1>1 DEF Unsent
<1> QED BY <1>1, <1>2 DEF SentSince

\* Federates that read cyclic data blocking do not wait for each other in a
\* circle, for any federates, objects and frames, if the objects that are read
\* blocking are sent in every cycle.
THEOREM NobodyWaitsInACircle ==
  ASSUME EveryCycle
  PROVE  Spec => []NoCyclicWait
<1>1. ASSUME IInv, WaitInv
      PROVE  NoCyclicWait
  <2>1. SUFFICES ASSUME NEW S \in (SUBSET Federates) \ {{}},
                        \A f \in S : \E g \in S : BlockedOn(f, g)
                 PROVE  FALSE
    BY DEF NoCyclicWait
  <2>2. PICK clock \in Nat : \E stamp \in [Federates -> 0 .. clock] : SentSince(stamp)
    BY <1>1 DEF WaitInv, Ordered
  <2>3. PICK stamp \in [Federates -> 0 .. clock] : SentSince(stamp)
    BY <2>2
  <2> DEFINE T == {stamp[f] : f \in S}
  <2>4. T \subseteq Nat /\ T # {}
    <3>1. S \subseteq Federates /\ S # {}
      BY Zenon
    <3>2. \A f \in S : stamp[f] \in Nat
      BY <3>1
    <3> QED BY <3>1, <3>2
  <2>5. PICK x \in T : \A y \in T : ~(<<y, x>> \in OpToRel(<, Nat))
    <3> HIDE DEF T
    <3> QED BY <2>4, WFMin, NatLessThanWellFounded
  <2>6. PICK f \in S : x = stamp[f]
    BY <2>5
  <2>7. PICK g \in S : BlockedOn(f, g)
    BY <2>1
  <2>8. PICK h \in S : BlockedOn(g, h)
    BY <2>1
  <2>9. stamp[f] > stamp[g]
    BY <1>1, <2>3, <2>7, <2>8, BlockedIsLater
  <2>10. ~(<<stamp[g], stamp[f]>> \in OpToRel(<, Nat))
    BY <2>5, <2>6
  <2>11. stamp[f] \in Nat /\ stamp[g] \in Nat
    OBVIOUS
  <2> QED BY <2>9, <2>10, <2>11 DEF OpToRel
<1>2. Init => IInv /\ WaitInv
  BY InitInv, WaitStart
<1>3. IInv /\ WaitInv /\ [Next]_vars => (IInv /\ WaitInv)'
  BY StepInv, WaitStep
<1>4. IInv /\ WaitInv => NoCyclicWait
  BY <1>1
<1> QED BY <1>2, <1>3, <1>4, PTL DEF Spec
=============================================================================
