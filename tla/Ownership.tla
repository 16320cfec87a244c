------------------------------ MODULE Ownership ------------------------------
(***************************************************************************)
(* How the attributes of one object change owner (Object, OwnershipHandler *)
(* and the ownership callbacks of FedAmb).                                 *)
(*                                                                         *)
(* Who owns an attribute is decided by the RTI; each federate keeps what   *)
(* it believes (locally_owned), and sends the attributes it believes to    *)
(* own.  The user asks to pull or push attributes.  The main thread makes  *)
(* the RTI calls in process_ownership, after it has sent the data of a     *)
(* frame; RTI callbacks leave it flags, per attribute and for the object.  *)
(* Two calls are made by threads of their own: the divestiture of a push   *)
(* and the acquisition of what another federate offers.                    *)
(*                                                                         *)
(* Everything of a federate under ownership_mutex is one step; a callback  *)
(* flags the attributes first and the object, under the mutex, in a second *)
(* step.  The RTI is external.                                             *)
(***************************************************************************)
EXTENDS Integers, Sequences, FiniteSets, SequencesExt

CONSTANTS
  Federates, Attributes,
  Publishes,    \* Publishes[f]: the attributes f is set up to publish
  Configured,   \* Configured[f]: those f is configured to own
  Nobody,       \* the owner of what nobody owns
  Starts,       \* what the federates may do about ownership when they initialize, with
                \* the owners, for the RTI, by then
  Asked,        \* the sets of attributes a user asks for at a time
  Lossy,        \* those that may leave or be lost
  MaxAsks       \* bound: how often users ask

StartPcs == {"frame", "pullAtInit", "awaitAcquired", "pushAtInit", "awaitPull", "rejoin"}

ASSUME OwnershipAssumption ==
  /\ Publishes \in [Federates -> SUBSET Attributes]
  /\ Configured \in [Federates -> SUBSET Attributes]
  /\ \A f \in Federates : Configured[f] \subseteq Publishes[f]
  /\ Nobody \notin Federates
  /\ Starts \subseteq [pc : [Federates -> StartPcs],
                       owner : [Attributes -> Federates \cup {Nobody}]]
  /\ Asked \subseteq SUBSET Attributes
  /\ Lossy \subseteq Federates /\ MaxAsks \in Nat

VARIABLES
  pc,             \* pc[f]: where the main thread of f is
  local,          \* local[f]: the attributes that are locally_owned
  pulls, pushes,  \* the requests of the user that are due
  divesting,      \* divesting[f]: attributes with divest_requested set
  divestRequested,\* divest_requested of the object
  pulled,         \* pulled[f]: attributes with pull_requested set
  pullRequested,  \* pull_requested of the object
  pushed,         \* pushed[f]: attributes with push_requested set
  acquired,       \* ownership_acquired
  out,            \* out[f]: what the RTI call of the main thread gave away
  threads,        \* threads[f]: the threads started for a push or an offer
  flagged,        \* flagged[f]: the object flag the callback in progress is to set
  owner,          \* owner[a]: the owner of a, at the RTI
  acquiring,      \* acquiring[a]: those that have asked the RTI for a
  offered,        \* attributes in a negotiated divestiture
  inbox,          \* inbox[f]: the callbacks on their way to f
  asks            \* how often users have asked

flagVars == <<divesting, divestRequested, pulled, pullRequested, pushed, acquired>>
fedVars == <<pc, local, pulls, pushes, out, threads>>
rtiVars == <<owner, acquiring, offered, inbox>>
vars == <<fedVars, flagVars, flagged, rtiVars, asks>>

-----------------------------------------------------------------------------
Pcs == StartPcs \cup {"awaitDivest", "release", "confirmed", "pull", "grant", "granted",
                      "confirmedAtInit", "grantedAtInit", "restoring", "gone"}
\* What the callbacks ask or tell, and the flag of the object each sets.
Flag == [confirm |-> "divest", release |-> "pull", acquired |-> "acquired", offer |-> "none"]
Callbacks == [kind : DOMAIN Flag, attrs : SUBSET Attributes]
\* "divest": to give attributes up; "accept": to look what is offered; "acquire": to ask for it.
Threads == [kind : {"divest", "accept", "acquire"}, attrs : SUBSET Attributes]

TypeOK ==
  /\ pc \in [Federates -> Pcs]
  /\ local \in [Federates -> SUBSET Attributes] /\ out \in [Federates -> SUBSET Attributes]
  /\ pulls \in [Federates -> SUBSET Attributes] /\ pushes \in [Federates -> SUBSET Attributes]
  /\ divesting \in [Federates -> SUBSET Attributes]
  /\ pulled \in [Federates -> SUBSET Attributes]
  /\ pushed \in [Federates -> SUBSET Attributes]
  /\ divestRequested \in [Federates -> BOOLEAN]
  /\ pullRequested \in [Federates -> BOOLEAN] /\ acquired \in [Federates -> BOOLEAN]
  /\ flagged \in [Federates -> {Flag[k] : k \in DOMAIN Flag}]
  /\ threads \in [Federates -> SUBSET Threads]
  /\ owner \in [Attributes -> Federates \cup {Nobody}]
  /\ acquiring \in [Attributes -> SUBSET Federates]
  /\ offered \subseteq Attributes
  /\ inbox \in [Federates -> Seq(Callbacks)]
  /\ asks \in 0..MaxAsks

Member(f) == pc[f] # "gone"
Owned(f) == {a \in Attributes : owner[a] = f}

All(v) == [f \in Federates |-> v]
Init ==
  /\ \E s \in Starts : pc = s.pc /\ owner = s.owner
  /\ local = [f \in Federates |-> IF pc[f] = "rejoin" THEN Configured[f] ELSE Owned(f)]
  /\ pulls = All({}) /\ pushes = All({}) /\ out = All({}) /\ threads = All({})
  /\ divesting = All({}) /\ divestRequested = All(FALSE)
  /\ pulled = All({}) /\ pullRequested = All(FALSE)
  /\ pushed = All({}) /\ acquired = All(FALSE) /\ flagged = All("none")
  /\ acquiring = [a \in Attributes |-> {}] /\ offered = {}
  /\ inbox = All(<< >>) /\ asks = 0

-----------------------------------------------------------------------------
(* The RTI. A call that it refuses, by an exception, changes nothing.      *)

\* The callbacks of kind k about the attributes for which P holds, if there are any.
About(k, S) == IF S = {} THEN << >> ELSE <<[kind |-> k, attrs |-> S]>>

\* What the RTI tells g when attributes have changed hands, or have been asked for: new is
\* what g has been given; wanted, of what g owns, what another now asks for; and free, of
\* what others own, what is now offered to anybody who publishes it.
Tell(new, wanted, free) ==
  inbox' = [g \in Federates |-> inbox[g]
    \o About("acquired", new[g])
    \o About("confirm", wanted[g] \cap offered')
    \o About("release", wanted[g] \ offered')
    \o About("offer", IF Member(g) THEN free[g] \cap Publishes[g] ELSE {})]

\* The attributes of S go to those of the federates that have asked for them.
HandOver(S, to) ==
  /\ owner' = [a \in Attributes |-> IF a \in S THEN to[a] ELSE owner[a]]
  /\ acquiring' = [a \in Attributes |-> acquiring[a] \ IF a \in S THEN {to[a]} ELSE {}]
  /\ offered' = offered \ S
  /\ LET Given(g) == {a \in S : to[a] = g}
     IN  Tell([g \in Federates |-> Given(g)],
              [g \in Federates |-> {a \in Given(g) : acquiring[a] # {g}}], All({}))

\* attributeOwnershipAcquisition
Acquire(f, S) ==
  IF S \cap Owned(f) # {} \/ ~(S \subseteq Publishes[f])
  THEN UNCHANGED rtiVars
  ELSE LET free == {a \in S : owner[a] = Nobody}
           new == {a \in S \ free : f \notin acquiring[a]}
       IN  /\ owner' = [a \in Attributes |-> IF a \in free THEN f ELSE owner[a]]
           /\ acquiring' = [a \in Attributes |->
                              acquiring[a] \cup IF a \in S \ free THEN {f} ELSE {}]
           /\ UNCHANGED offered
           /\ Tell([g \in Federates |-> IF g = f THEN free ELSE {}],
                   [g \in Federates |-> new \cap Owned(g)], All({}))

\* negotiatedAttributeOwnershipDivestiture
Negotiate(f, S) ==
  IF ~(S \subseteq Owned(f)) \/ S \cap offered # {}
  THEN UNCHANGED rtiVars
  ELSE LET wanted == {a \in S : acquiring[a] # {}}
       IN  /\ offered' = offered \cup S
           /\ UNCHANGED <<owner, acquiring>>
           /\ Tell(All({}), [g \in Federates |-> IF g = f THEN wanted ELSE {}],
                   [g \in Federates |-> IF g = f THEN {} ELSE S \ wanted])

\* The federates an attribute may go to, if it goes to one that has asked for it.
Takers(S) == {to \in [S -> Federates] : \A a \in S : to[a] \in acquiring[a]}

\* confirmDivestiture
Confirm(f, S) ==
  IF S # {} /\ S \subseteq Owned(f) \cap offered /\ Takers(S) # {}
  THEN \E to \in Takers(S) : HandOver(S, to)
  ELSE UNCHANGED rtiVars

\* attributeOwnershipDivestitureIfWanted; returns what was given away.
Wanted(f, S) == IF S \subseteq Owned(f) THEN {a \in S : acquiring[a] # {}} ELSE {}
DivestIfWanted(f, S) == \E to \in Takers(Wanted(f, S)) : HandOver(Wanted(f, S), to)

\* What a federate that leaves has owned goes to whoever has asked for it or is offered.
RtiRemove(f) ==
  LET left == [a \in Attributes |-> acquiring[a] \ {f}]
      wanted == {a \in Owned(f) : left[a] # {}}
  IN  \E to \in {h \in [wanted -> Federates] : \A a \in wanted : h[a] \in left[a]} :
        /\ owner' = [a \in Attributes |-> IF a \in wanted THEN to[a]
                                          ELSE IF owner[a] = f THEN Nobody ELSE owner[a]]
        /\ acquiring' = [a \in Attributes |-> left[a] \ IF a \in wanted THEN {to[a]} ELSE {}]
        /\ offered' = offered \ Owned(f)
        /\ LET Given(g) == {a \in wanted : to[a] = g}
           IN  Tell([g \in Federates |-> Given(g)],
                    [g \in Federates |-> {a \in Given(g) : left[a] # {g}}],
                    [g \in Federates |-> IF g = f THEN {} ELSE Owned(f) \ wanted])

-----------------------------------------------------------------------------
(* The callbacks: the flags of the attributes, and then that of the object.*)

Flagging(f) == flagged[f] # "none"
\* ownership_mutex is held over the whole wait of a federate that rejoins.
MutexFree(f) == pc[f] # "restoring"

\* What the callback finds of the attributes it is about.
Callback(f, k, S) ==
  /\ Member(f) /\ ~Flagging(f) /\ inbox[f] # << >>
  /\ Head(inbox[f]).kind = k /\ S = Head(inbox[f]).attrs
  /\ inbox' = [inbox EXCEPT ![f] = Tail(@)]
  /\ UNCHANGED <<pc, pulls, pushes, out, owner, acquiring, offered, asks,
                 divestRequested, pullRequested, acquired>>

\* (mutant of FlagDivest) The object is not flagged.
FlagDivestAttributes(f) == \E S \in SUBSET Attributes :
  /\ Callback(f, "confirm", S)
  /\ divesting' = [divesting EXCEPT ![f] = @ \cup (S \cap local[f])]
  /\ UNCHANGED <<local, threads, flagged, pulled, pushed>>

\* Attributes that are not owned any more are not flagged.
FlagDivest(f) == \E S \in SUBSET Attributes :
  /\ Callback(f, "confirm", S)
  /\ divesting' = [divesting EXCEPT ![f] = @ \cup (S \cap local[f])]
  /\ flagged' = [flagged EXCEPT ![f] = IF S \cap local[f] # {} THEN "divest" ELSE @]
  /\ UNCHANGED <<local, threads, pulled, pushed>>

FlagPull(f) == \E S \in SUBSET Attributes :
  /\ Callback(f, "release", S)
  /\ pulled' = [pulled EXCEPT ![f] = @ \cup (S \cap local[f])]
  /\ flagged' = [flagged EXCEPT ![f] = IF S \cap local[f] # {} THEN "pull" ELSE @]
  /\ UNCHANGED <<local, threads, divesting, pushed>>

\* (mutant of MarkAcquired) Whoever waits for the attributes is not told.
MarkAcquiredQuietly(f) == \E S \in SUBSET Attributes :
  /\ Callback(f, "acquired", S)
  /\ local' = [local EXCEPT ![f] = @ \cup ((S \ local[f]) \cap Publishes[f])]
  /\ UNCHANGED <<threads, flagged, divesting, pulled, pushed>>

MarkAcquired(f) == \E S \in SUBSET Attributes :
  /\ Callback(f, "acquired", S)
  /\ LET new == (S \ local[f]) \cap Publishes[f]
     IN  /\ local' = [local EXCEPT ![f] = @ \cup new]
         /\ flagged' = [flagged EXCEPT ![f] = IF new # {} THEN "acquired" ELSE @]
  /\ UNCHANGED <<threads, divesting, pulled, pushed>>

\* An offer is answered by a thread of its own, whether or not anything is flagged.
FlagPush(f) == \E S \in SUBSET Attributes :
  /\ Callback(f, "offer", S)
  /\ pushed' = [pushed EXCEPT ![f] = @ \cup ((S \ local[f]) \cap Publishes[f])]
  /\ threads' = [threads EXCEPT ![f] = @ \cup {[kind |-> "accept", attrs |-> {}]}]
  /\ UNCHANGED <<local, flagged, divesting, pulled>>

FlagObject(f) ==
  /\ Member(f) /\ Flagging(f) /\ MutexFree(f)
  /\ divestRequested' = [divestRequested EXCEPT ![f] = @ \/ flagged[f] = "divest"]
  /\ pullRequested' = [pullRequested EXCEPT ![f] = @ \/ flagged[f] = "pull"]
  /\ acquired' = [acquired EXCEPT ![f] = @ \/ flagged[f] = "acquired"]
  /\ flagged' = [flagged EXCEPT ![f] = "none"]
  /\ UNCHANGED <<fedVars, divesting, pulled, pushed, rtiVars, asks>>

-----------------------------------------------------------------------------
(* The threads.                                                            *)

NegotiateDivestiture(f) == \E t \in threads[f] :
  /\ Member(f) /\ t.kind = "divest"
  /\ Negotiate(f, t.attrs)
  /\ threads' = [threads EXCEPT ![f] = @ \ {t}]
  /\ UNCHANGED <<pc, local, pulls, pushes, out, flagVars, flagged, asks>>

\* grant_push_request: what of the offer is taken, under push_mutex, ...
AcceptPush(f) == \E t \in threads[f] :
  /\ Member(f) /\ t.kind = "accept"
  /\ LET S == pushed[f] \ local[f]
     IN  threads' = [threads EXCEPT ![f] = (@ \ {t}) \cup
                       IF S = {} THEN {} ELSE {[kind |-> "acquire", attrs |-> S]}]
  /\ pushed' = [pushed EXCEPT ![f] = {}]
  /\ UNCHANGED <<pc, local, pulls, pushes, out, divesting, divestRequested, pulled,
                 pullRequested, acquired, flagged, rtiVars, asks>>

\* (mutant of AcquirePushed) What is asked for is taken as owned.
TakePushed(f) == \E t \in threads[f] :
  /\ Member(f) /\ t.kind = "acquire"
  /\ Acquire(f, t.attrs)
  /\ local' = [local EXCEPT ![f] = @ \cup t.attrs]
  /\ threads' = [threads EXCEPT ![f] = @ \ {t}]
  /\ UNCHANGED <<pc, pulls, pushes, out, flagVars, flagged, asks>>

\* ... and the call, by when the attributes may have changed hands.
AcquirePushed(f) == \E t \in threads[f] :
  /\ Member(f) /\ t.kind = "acquire"
  /\ Acquire(f, t.attrs)
  /\ threads' = [threads EXCEPT ![f] = @ \ {t}]
  /\ UNCHANGED <<pc, local, pulls, pushes, out, flagVars, flagged, asks>>

-----------------------------------------------------------------------------
(* process_ownership, the last job of a frame that sees the attributes.    *)

Goto(f, p) == pc' = [pc EXCEPT ![f] = p]
Start(f, k, S) ==
  threads' = [threads EXCEPT ![f] = @ \cup IF S = {} THEN {} ELSE {[kind |-> k, attrs |-> S]}]

Push(f) ==
  /\ pc[f] = "frame" /\ Goto(f, "release")
  /\ Start(f, "divest", pushes[f] \cap local[f])
  /\ pushes' = [pushes EXCEPT ![f] = {}]
  /\ UNCHANGED <<local, pulls, out, flagVars, flagged, rtiVars, asks>>

\* release_ownership: the flags are taken and cleared together, and the RTI is told; done
\* is where the caller goes on when there is nothing to release.
Release(f, from, to, done) ==
  /\ pc[f] = from
  /\ \/ /\ ~divestRequested[f] /\ Goto(f, done)
        /\ UNCHANGED <<divesting, divestRequested, out, rtiVars>>
     \/ /\ divestRequested[f] /\ Goto(f, to)
        /\ LET S == divesting[f] \cap local[f]
           IN  /\ Confirm(f, S)
               /\ out' = [out EXCEPT ![f] = {a \in S : owner'[a] # f}]
        /\ divesting' = [divesting EXCEPT ![f] = {}]
        /\ divestRequested' = [divestRequested EXCEPT ![f] = FALSE]
  /\ UNCHANGED <<local, pulls, pushes, threads, pulled, pullRequested, pushed, acquired,
                 flagged, asks>>

\* What was given away is marked remotely owned when the call has returned.
MarkRemote(f, from, to) ==
  /\ pc[f] = from /\ Goto(f, to)
  /\ local' = [local EXCEPT ![f] = @ \ out[f]]
  /\ out' = [out EXCEPT ![f] = {}]
  /\ UNCHANGED <<pulls, pushes, threads, flagged, rtiVars, asks>>

ReleaseOwnership(f) == Release(f, "release", "confirmed", "pull")
MarkReleased(f) == MarkRemote(f, "confirmed", "pull") /\ UNCHANGED flagVars

Pull(f) ==
  /\ pc[f] = "pull" /\ Goto(f, "grant")
  /\ LET S == (pulls[f] \ local[f]) \cap Publishes[f]
     IN  IF S = {} THEN UNCHANGED rtiVars ELSE Acquire(f, S)
  /\ pulls' = [pulls EXCEPT ![f] = {}]
  /\ UNCHANGED <<local, pushes, out, threads, flagVars, flagged, asks>>

\* grant_pull_request: the flags of the attributes are cleared before the call, that of
\* the object after it.
Grant(f, from, to, done) ==
  /\ pc[f] = from
  /\ \/ /\ ~pullRequested[f] /\ Goto(f, done)
        /\ UNCHANGED <<pulled, out, rtiVars>>
     \/ /\ pullRequested[f] /\ Goto(f, to)
        /\ LET S == pulled[f] \cap local[f]
           IN  /\ DivestIfWanted(f, S)
               /\ out' = [out EXCEPT ![f] = Wanted(f, S)]
        /\ pulled' = [pulled EXCEPT ![f] = {}]
  /\ UNCHANGED <<local, pulls, pushes, threads, divesting, divestRequested, pullRequested,
                 pushed, acquired, flagged, asks>>

ClearPullRequested(f) ==
  /\ pullRequested' = [pullRequested EXCEPT ![f] = FALSE]
  /\ UNCHANGED <<divesting, divestRequested, pulled, pushed, acquired>>

\* (mutant of GrantPull) The flag of divestitures is looked at.
GrantIfDivesting(f) ==
  IF divestRequested[f] THEN Grant(f, "grant", "granted", "frame")
  ELSE /\ pc[f] = "grant" /\ Goto(f, "frame")
       /\ UNCHANGED <<local, pulls, pushes, out, threads, flagVars, flagged, rtiVars, asks>>

GrantPull(f) == Grant(f, "grant", "granted", "frame")
MarkGranted(f) == MarkRemote(f, "granted", "frame") /\ ClearPullRequested(f)

-----------------------------------------------------------------------------
(* Ownership during initialization: each call waits for a callback.        *)

\* The user's list, or every attribute, published or not; what the RTI refuses
\* is waited for all the same.
PullAtInit(f) ==
  /\ pc[f] = "pullAtInit"
  /\ \E list \in Asked \cup {Attributes} :
       LET S == list \ local[f]
       IN  IF S = {} THEN Goto(f, "frame") /\ UNCHANGED rtiVars
                     ELSE Goto(f, "awaitAcquired") /\ Acquire(f, S)
  /\ UNCHANGED <<local, pulls, pushes, out, threads, flagVars, flagged, asks>>

\* The end of pull_ownership_at_init, and handle_pushed_ownership_at_init.
AwaitAcquired(f) ==
  /\ pc[f] = "awaitAcquired" /\ acquired[f] /\ Goto(f, "frame")
  /\ acquired' = [acquired EXCEPT ![f] = FALSE]
  /\ UNCHANGED <<local, pulls, pushes, out, threads, divesting, divestRequested, pulled,
                 pullRequested, pushed, flagged, rtiVars, asks>>

PushAtInit(f) ==
  /\ pc[f] = "pushAtInit" /\ Goto(f, IF local[f] = {} THEN "frame" ELSE "awaitDivest")
  /\ Start(f, "divest", local[f])
  /\ UNCHANGED <<local, pulls, pushes, out, flagVars, flagged, rtiVars, asks>>

ReleaseAtInit(f) ==
  divestRequested[f] /\ Release(f, "awaitDivest", "confirmedAtInit", "frame")
MarkReleasedAtInit(f) == MarkRemote(f, "confirmedAtInit", "frame") /\ UNCHANGED flagVars

\* handle_pulled_ownership_at_init
GrantAtInit(f) == pullRequested[f] /\ Grant(f, "awaitPull", "grantedAtInit", "frame")
MarkGrantedAtInit(f) == MarkRemote(f, "grantedAtInit", "frame") /\ ClearPullRequested(f)

\* A federate that rejoins asks for what it is configured to own and has lost, and waits
\* with the mutex held until it owns as many attributes as it has asked for.
PullUponRejoin(f) ==
  /\ pc[f] = "rejoin"
  /\ LET S == local[f] \ Owned(f)
     IN  /\ local' = [local EXCEPT ![f] = @ \ S]
         /\ out' = [out EXCEPT ![f] = S]
         /\ IF S = {} THEN Goto(f, "frame") /\ UNCHANGED rtiVars
                      ELSE Goto(f, "restoring") /\ Acquire(f, S)
  /\ UNCHANGED <<pulls, pushes, threads, flagVars, flagged, asks>>

Restored(f) == Cardinality(local[f] \cap Owned(f)) >= Cardinality(out[f])
AwaitRestored(f) ==
  /\ pc[f] = "restoring" /\ Restored(f) /\ Goto(f, "frame")
  /\ out' = [out EXCEPT ![f] = {}]
  /\ UNCHANGED <<local, pulls, pushes, threads, flagVars, flagged, rtiVars, asks>>

-----------------------------------------------------------------------------
\* The user asks, through the OwnershipHandler, to pull or to push attributes.
Ask(f) == \E S \in Asked :
  /\ Member(f) /\ asks < MaxAsks /\ asks' = asks + 1
  /\ \/ pulls' = [pulls EXCEPT ![f] = @ \cup S] /\ UNCHANGED pushes
     \/ pushes' = [pushes EXCEPT ![f] = @ \cup S] /\ UNCHANGED pulls
  /\ UNCHANGED <<pc, local, out, threads, flagVars, flagged, rtiVars>>

\* A federate resigns, or is lost.
Leave(f) ==
  /\ f \in Lossy /\ Member(f) /\ Goto(f, "gone")
  /\ RtiRemove(f)
  /\ local' = [local EXCEPT ![f] = {}]
  /\ UNCHANGED <<pulls, pushes, out, threads, flagVars, flagged, asks>>

Callbacking(f) == FlagDivest(f) \/ FlagPull(f) \/ MarkAcquired(f) \/ FlagPush(f) \/ FlagObject(f)
Threading(f) == NegotiateDivestiture(f) \/ AcceptPush(f) \/ AcquirePushed(f)
ProcessOwnership(f) ==
  \/ Push(f) \/ ReleaseOwnership(f) \/ MarkReleased(f)
  \/ Pull(f) \/ GrantPull(f) \/ MarkGranted(f)
Initialize(f) ==
  \/ PullAtInit(f) \/ AwaitAcquired(f)
  \/ PushAtInit(f) \/ ReleaseAtInit(f) \/ MarkReleasedAtInit(f)
  \/ GrantAtInit(f) \/ MarkGrantedAtInit(f)
  \/ PullUponRejoin(f) \/ AwaitRestored(f)
MainThread(f) == ProcessOwnership(f) \/ Initialize(f)

Next == \E f \in Federates :
  Callbacking(f) \/ Threading(f) \/ MainThread(f) \/ Ask(f) \/ Leave(f)

Spec == Init /\ [][Next]_vars

\* The main thread goes on, callbacks are delivered, and threads that were started run.
FairSpec == Spec /\ \A f \in Federates :
  WF_vars(Callbacking(f)) /\ WF_vars(Threading(f)) /\ WF_vars(MainThread(f))
-----------------------------------------------------------------------------
(* The invariant, and safety.                                              *)

OnItsWay(f, k) == UNION {inbox[f][i].attrs : i \in {j \in DOMAIN inbox[f] : inbox[f][j].kind = k}}

\* What the RTI has taken from f and f has not yet marked.
Giving(f) ==
  IF pc[f] \in {"confirmed", "granted", "confirmedAtInit", "grantedAtInit"} THEN out[f] ELSE {}

BeliefInv ==
  \A f \in Federates : pc[f] # "rejoin" => local[f] \subseteq Owned(f) \cup Giving(f)

\* A notice is of what is owned and not believed yet, and there is one at most.
NoticeInv == \A f \in {g \in Federates : Member(g)} : \A i \in DOMAIN inbox[f] : inbox[f][i].kind = "acquired" =>
  /\ inbox[f][i].attrs \subseteq Owned(f)
  /\ inbox[f][i].attrs \cap local[f] \subseteq Giving(f)
  /\ \A j \in DOMAIN inbox[f] :
       inbox[f][j].kind = "acquired" /\ j # i => inbox[f][i].attrs \cap inbox[f][j].attrs = {}

\* The owner does not ask for its attribute, and nobody has to for one that is free.
AcquiringInv == \A a \in Attributes :
  owner[a] \notin acquiring[a] /\ (owner[a] = Nobody => acquiring[a] = {})

\* What a federate that rejoins is to ask for, it has not asked for yet.
RejoinInv == \A f \in Federates : pc[f] = "rejoin" => \A a \in local[f] \ Owned(f) :
  f \notin acquiring[a] /\ \A t \in threads[f] : t.kind = "acquire" => a \notin t.attrs

\* An attribute flagged for divestiture is seen by the main thread: the flag of the object
\* is set after those of the attributes, and cleared together with them.
NoLostDivest ==
  \A f \in Federates : divesting[f] # {} => divestRequested[f] \/ flagged[f] = "divest"

OwnershipInv ==
  TypeOK /\ BeliefInv /\ NoticeInv /\ AcquiringInv /\ RejoinInv /\ NoLostDivest

\* When a federate sends the data of a frame it owns, for the RTI, what it believes to own:
\* nobody sends an attribute another one owns.
SendsAsOwner ==
  \A f \in Federates : pc[f] = "frame" => local[f] \subseteq Owned(f)

\* The same is said of pull requests by the comment in requestAttributeOwnershipRelease:
\* the object flag is set last, so that the main thread sees the flags of the attributes.
Overlooked(f) == IF pullRequested[f] \/ flagged[f] = "pull" THEN {} ELSE pulled[f] \cap local[f]
NoLostPull == \A f \in Federates : Overlooked(f) = {}

-----------------------------------------------------------------------------
(* Liveness.                                                               *)

\* An owner that does not know that it is one, and will not be told.
Unaware(f) == Owned(f) \ (local[f] \cup OnItsWay(f, "acquired"))

\* Whoever asks for an attribute gets it, from its owner or from whom it goes to next,
\* unless the request is overlooked by an owner, or the owner does not know that it is.
PullsEnd == \A f \in Federates, a \in Attributes :
  f \in acquiring[a] ~>
    f \notin acquiring[a] \/ \E g \in Federates : a \in Overlooked(g) \cup Unaware(g)

\* Initialization ends: what is pulled is granted, what is pushed is taken, and what a
\* federate that comes back has owned is given back by the one that has it.
Initializing == (StartPcs \ {"frame"}) \cup {"awaitDivest", "restoring"}
EverybodyStarts ==
  <>(\E f \in Federates : ~Member(f)) \/ <>(\A f \in Federates : pc[f] \notin Initializing)
=============================================================================
