-------------------------- MODULE SaveRestoreProofs --------------------------
(* Proofs about SaveRestore, for any federates and labels and whatever is     *)
(* asked of them: a federation that is saved has a checkpoint of every        *)
(* federate that was in it; what a federate takes to be going on is going on  *)
(* or has just ended; and a restore is taken up by nobody unless all the      *)
(* members have loaded for it.                                                *)
EXTENDS SaveRestore, TLAPS

-----------------------------------------------------------------------------
(* The invariant of saves.                                                 *)

AllLabels == Labels \cup {NoLabel}
Kinds ==
  {"InitiateSave", "Saved", "NotSaved", "NobodyRestores", "SomebodyRestores",
   "RequestSucceeded", "RequestFailed", "RestoreBegun", "InitiateRestore", "RestoreName",
   "Restored", "NotRestored"}
Messages == [kind : Kinds, label : AllLabels]
\* The flags of a save are there, and the names; what the others are does not matter.
SaveFlags == {"announce_save", "start_to_save", "save_name", "restore_name"}
FlagsThere ==
  /\ DOMAIN flag = Federates
  /\ \A f \in Federates :
       /\ SaveFlags \subseteq DOMAIN flag[f]
       /\ flag[f].save_name \in AllLabels /\ flag[f].restore_name \in AllLabels

RtiStates ==
  [doing : {"nothing", "save", "restore"}, label : AllLabels, number : Nat,
   begun : SUBSET Federates, waiting : SUBSET Federates]

Types ==
  /\ members \subseteq Federates
  /\ DOMAIN pc = Federates
  /\ file \in [Federates -> AllLabels] /\ clicked \in [Federates -> BOOLEAN]
  /\ FlagsThere
  /\ disk \in [Federates -> SUBSET AllLabels]
  /\ inbox \in [Federates -> Seq(Messages)]
  /\ rti \in RtiStates
  /\ saves \in [Labels -> SUBSET Federates]

\* Of saves a federate is told only to begin the one that is under way.
ForThis(m, l) ==
  m.kind \notin {"Saved", "NotSaved"} /\ (m.kind = "InitiateSave" => m.label = l)
OnlyThis(s, l) == \A i \in 1..Len(s) : ForThis(s[i], l)

\* While the federation is saved as rti.label: f dumps a checkpoint of its own or
\* of that name, and whoever has told the RTI that it has begun is still to dump
\* that, or has done so.
Saving(f) ==
  /\ OnlyThis(inbox[f], rti.label)
  /\ flag[f].start_to_save => flag[f].save_name = rti.label
  /\ pc[f] \in {"setup_checkpoint", "dump"} /\ ~ clicked[f] => file[f] = rti.label
  /\ rti.label \notin disk[f] =>
       /\ f \in rti.waiting /\ pc[f] # "saved"
       /\ f \in rti.begun =>
            /\ flag[f].start_to_save /\ ~ flag[f].announce_save
            /\ pc[f] # "post_checkpoint"

Inv ==
  /\ Types
  /\ rti.doing # "save" => rti.begun = {}
  /\ rti.doing = "save" => \A f \in members : Saving(f)
  /\ SavedTogether

-----------------------------------------------------------------------------
(* Inboxes.                                                                *)

LEMMA Appended ==
  ASSUME NEW s \in Seq(Messages), NEW t \in Seq(Messages), NEW l,
         OnlyThis(s, l), OnlyThis(t, l)
  PROVE  OnlyThis(s \o t, l)
  <1> SUFFICES ASSUME NEW i \in 1..Len(s \o t) PROVE ForThis((s \o t)[i], l)
    BY DEF OnlyThis
  <1>1. CASE i \in 1..Len(s)
    BY <1>1 DEF OnlyThis
  <1>2. CASE i \notin 1..Len(s)
    <2>1. i - Len(s) \in 1..Len(t) /\ (s \o t)[i] = t[i - Len(s)]
      BY <1>2
    <2>2. QED
      BY <2>1 DEF OnlyThis
  <1>3. QED
    BY <1>1, <1>2

LEMMA Taken ==
  ASSUME NEW s \in Seq(Messages), s # <<>>
  PROVE  /\ Head(s) \in Messages /\ Tail(s) \in Seq(Messages)
         /\ \A l : OnlyThis(s, l) => OnlyThis(Tail(s), l) /\ ForThis(Head(s), l)
  <1>1. Head(s) \in Messages /\ Tail(s) \in Seq(Messages)
    OBVIOUS
  <1>2. ASSUME NEW l, OnlyThis(s, l) PROVE OnlyThis(Tail(s), l) /\ ForThis(Head(s), l)
    <2>1. 1 \in 1..Len(s) /\ Head(s) = s[1]
      OBVIOUS
    <2>2. \A i \in 1..Len(Tail(s)) : i + 1 \in 1..Len(s) /\ Tail(s)[i] = s[i + 1]
      OBVIOUS
    <2>3. QED
      BY <1>2, <2>1, <2>2 DEF OnlyThis
  <1>3. QED
    BY <1>1, <1>2

\* A message that is not about a save.
LEMMA Other ==
  ASSUME NEW k \in Kinds, NEW l \in AllLabels
  PROVE  /\ Message(k, l) \in Messages
         /\ \A x : k \notin {"Saved", "NotSaved", "InitiateSave"} => ForThis(Message(k, l), x)
         /\ k = "InitiateSave" => ForThis(Message(k, l), l)
  BY DEF Message, Messages, ForThis

-----------------------------------------------------------------------------
(* What a step of one federate has to leave alone, and to see to.          *)

Same(g) ==
  /\ pc'[g] = pc[g] /\ clicked'[g] = clicked[g] /\ file'[g] = file[g]
  /\ flag'[g] = flag[g] /\ disk'[g] = disk[g]

\* The save that is under way, if there still is one, goes on without f.
GoesOn(f) ==
  rti'.doing = "save" =>
    /\ rti.doing = "save" /\ rti'.label = rti.label
    /\ rti.waiting \ {f} \subseteq rti'.waiting
    /\ rti'.begun \subseteq rti.begun \cup {f}
    /\ \A g \in members' \ {f} : OnlyThis(inbox'[g], rti.label)

Keeps(f) ==
  /\ Types' /\ members' \subseteq members
  /\ \A g \in Federates \ {f} : Same(g)
  /\ disk[f] \subseteq disk'[f]
  /\ rti'.doing # "save" => rti'.begun = {}
  /\ GoesOn(f)
  /\ rti'.doing = "save" /\ f \in members' => Saving(f)'
  /\ saves' = saves \/ SavedTogether'

LEMMA KeepsInv ==
  ASSUME Inv, NEW f \in Federates, Keeps(f) PROVE Inv'
  <1>1. ASSUME rti'.doing = "save", NEW g \in members' PROVE Saving(g)'
    <2>1. CASE g = f
      BY <1>1, <2>1 DEF Keeps
    <2>2. CASE g # f
      <3>1. /\ rti.doing = "save" /\ rti'.label = rti.label /\ Saving(g) /\ Same(g)
            /\ g \in rti.waiting => g \in rti'.waiting
            /\ g \in rti'.begun => g \in rti.begun
            /\ OnlyThis(inbox'[g], rti.label)
        BY <1>1, <2>2 DEF Keeps, GoesOn, Inv, Types
      <3>2. QED
        BY <3>1 DEF Saving, Same
    <2>3. QED
      BY <2>1, <2>2
  <1>2. SavedTogether'
    <2>1. CASE saves' = saves
      <3>1. \A g \in Federates : disk[g] \subseteq disk'[g]
        BY DEF Keeps, Same
      <3>2. \A l \in Labels : saves[l] \subseteq Federates
        BY DEF Inv, Types
      <3>3. QED
        BY <2>1, <3>1, <3>2 DEF Inv, SavedTogether
    <2>2. QED
      BY <2>1 DEF Keeps
  <1>3. QED
    BY <1>1, <1>2 DEF Keeps, Inv

-----------------------------------------------------------------------------
(* Steps that change only f.                                               *)

\* The flags are kept, those of others with their values.
Flagged(f) ==
  FlagsThere' /\ \A g \in Federates \ {f} : flag'[g] = flag[g]

\* f goes to another place, and may take up another file.
Moves(f) ==
  /\ DOMAIN pc' = Federates /\ file' \in [Federates -> AllLabels]
  /\ clicked' \in [Federates -> BOOLEAN]
  /\ \A g \in Federates \ {f} :
       pc'[g] = pc[g] /\ file'[g] = file[g] /\ clicked'[g] = clicked[g]

\* f writes at most the checkpoint it is dumping.
Writes(f) == disk' = disk \/ disk' = [disk EXCEPT ![f] = @ \cup {file[f]}]

LEMMA WritesOwn ==
  ASSUME Types, NEW f \in Federates, Writes(f)
  PROVE  /\ disk' \in [Federates -> SUBSET AllLabels] /\ disk[f] \subseteq disk'[f]
         /\ \A g \in Federates \ {f} : disk'[g] = disk[g]
  <1>1. CASE disk' = disk
    BY <1>1 DEF Types
  <1>2. CASE disk' = [disk EXCEPT ![f] = @ \cup {file[f]}]
    <2>1. disk[f] \cup {file[f]} \in SUBSET AllLabels
      BY DEF Types
    <2>2. QED
      BY <1>2, <2>1 DEF Types
  <1>3. QED
    BY <1>1, <1>2 DEF Writes

LEMMA LocalKeeps ==
  ASSUME Inv, NEW f \in Federates, UNCHANGED federation, Moves(f), Flagged(f), Writes(f),
         rti.doing = "save" /\ f \in members => Saving(f)'
  PROVE  Keeps(f)
  <1> USE DEF federation
  <1>1. Types'
    BY WritesOwn DEF Inv, Types, Flagged, Moves
  <1>2. \A g \in Federates \ {f} : Same(g)
    BY WritesOwn DEF Inv, Same, Flagged, Moves
  <1>3. disk[f] \subseteq disk'[f]
    BY WritesOwn DEF Inv
  <1>4. GoesOn(f)
    BY DEF GoesOn, Inv, Saving, Types
  <1>5. QED
    BY <1>1, <1>2, <1>3, <1>4 DEF Keeps, Inv

LEMMA DumpKeeps ==
  ASSUME Inv, NEW f \in Federates, NEW l \in Labels, Dump(f, l) PROVE Keeps(f)
  <1> USE DEF Dump, Goto, files, federation
  <1>1. Moves(f)
    BY DEF Moves, Inv, Types, FlagsThere, job, AllLabels
  <1>2. Flagged(f) /\ Writes(f)
    BY DEF Flagged, FlagsThere, Writes, Inv, Types
  <1>3. rti.doing = "save" /\ f \in members => Saving(f)'
    BY DEF Saving, Inv, Types, FlagsThere, SaveFlags, job
  <1>4. UNCHANGED federation
    OBVIOUS
  <1>5. QED
    BY <1>1, <1>2, <1>3, <1>4, LocalKeeps

LEMMA LoadKeeps ==
  ASSUME Inv, NEW f \in Federates, NEW l \in Labels, Load(f, l) PROVE Keeps(f)
  <1> USE DEF Load, Goto, files, federation
  <1>1. Moves(f)
    BY DEF Moves, Inv, Types, FlagsThere, job, AllLabels
  <1>2. Flagged(f) /\ Writes(f)
    BY DEF Flagged, FlagsThere, Writes, Inv, Types
  <1>3. rti.doing = "save" /\ f \in members => Saving(f)'
    BY DEF Saving, Inv, Types, FlagsThere, SaveFlags, job
  <1>4. UNCHANGED federation
    OBVIOUS
  <1>5. QED
    BY <1>1, <1>2, <1>3, <1>4, LocalKeeps

LEMMA PerformCheckpointKeeps ==
  ASSUME Inv, NEW f \in Federates, PerformCheckpoint(f) PROVE Keeps(f)
  <1> USE DEF PerformCheckpoint, Goto, files, federation
  <1>1. Moves(f)
    BY DEF Moves, Inv, Types, FlagsThere, job, AllLabels
  <1>2. Flagged(f) /\ Writes(f)
    BY DEF Flagged, FlagsThere, Writes, Inv, Types
  <1>3. rti.doing = "save" /\ f \in members => Saving(f)'
    BY DEF Saving, Inv, Types, FlagsThere, SaveFlags, job
  <1>4. UNCHANGED federation
    OBVIOUS
  <1>5. QED
    BY <1>1, <1>2, <1>3, <1>4, LocalKeeps

LEMMA WriteCheckpointKeeps ==
  ASSUME Inv, NEW f \in Federates, WriteCheckpoint(f) PROVE Keeps(f)
  <1> USE DEF WriteCheckpoint, Goto, files, federation
  <1>1. Moves(f)
    BY DEF Moves, Inv, Types, FlagsThere, job, AllLabels
  <1>2. Flagged(f) /\ Writes(f)
    BY DEF Flagged, FlagsThere, Writes, Inv, Types
  <1>3. rti.doing = "save" /\ f \in members => Saving(f)'
    BY DEF Saving, Inv, Types, FlagsThere, SaveFlags, job
  <1>4. UNCHANGED federation
    OBVIOUS
  <1>5. QED
    BY <1>1, <1>2, <1>3, <1>4, LocalKeeps

LEMMA PerformRestoreKeeps ==
  ASSUME Inv, NEW f \in Federates, PerformRestore(f) PROVE Keeps(f)
  <1> USE DEF PerformRestore, Goto, files, federation
  <1>1. Moves(f)
    BY DEF Moves, Inv, Types, FlagsThere, job, AllLabels
  <1>2. Flagged(f) /\ Writes(f)
    BY DEF Flagged, FlagsThere, Writes, Inv, Types
  <1>3. rti.doing = "save" /\ f \in members => Saving(f)'
    BY DEF Saving, Inv, Types, FlagsThere, SaveFlags, job
  <1>4. UNCHANGED federation
    OBVIOUS
  <1>5. QED
    BY <1>1, <1>2, <1>3, <1>4, LocalKeeps

LEMMA LoadCheckpointKeeps ==
  ASSUME Inv, NEW f \in Federates, LoadCheckpoint(f) PROVE Keeps(f)
  <1> USE DEF LoadCheckpoint, Goto, files, federation
  <1>1. Moves(f)
    BY DEF Moves, Inv, Types, FlagsThere, job, AllLabels
  <1>2. Flagged(f) /\ Writes(f)
    BY DEF Flagged, FlagsThere, Writes, Inv, Types
  <1>3. rti.doing = "save" /\ f \in members => Saving(f)'
    BY DEF Saving, Inv, Types, FlagsThere, SaveFlags, job
  <1>4. UNCHANGED federation
    OBVIOUS
  <1>5. QED
    BY <1>1, <1>2, <1>3, <1>4, LocalKeeps

LEMMA AwaitRestoredKeeps ==
  ASSUME Inv, NEW f \in Federates, AwaitRestored(f) PROVE Keeps(f)
  <1> USE DEF AwaitRestored, Goto, files, federation
  <1>1. Moves(f)
    BY DEF Moves, Inv, Types, FlagsThere, job, AllLabels
  <1>2. Flagged(f) /\ Writes(f)
    BY DEF Flagged, FlagsThere, Writes, Inv, Types
  <1>3. rti.doing = "save" /\ f \in members => Saving(f)'
    BY DEF Saving, Inv, Types, FlagsThere, SaveFlags, job
  <1>4. UNCHANGED federation
    OBVIOUS
  <1>5. QED
    BY <1>1, <1>2, <1>3, <1>4, LocalKeeps

LEMMA SaveCompleteKeeps ==
  ASSUME Inv, NEW f \in Federates, SaveComplete(f) PROVE Keeps(f)
  <1> USE DEF SaveComplete, Goto, files, federation
  <1>1. Moves(f)
    BY DEF Moves, Inv, Types, FlagsThere, job, AllLabels
  <1>2. Flagged(f) /\ Writes(f)
    BY DEF Flagged, FlagsThere, Writes, Inv, Types
  <1>3. rti.doing = "save" /\ f \in members => Saving(f)'
    BY DEF Saving, Inv, Types, FlagsThere, SaveFlags, job
  <1>4. UNCHANGED federation
    OBVIOUS
  <1>5. QED
    BY <1>1, <1>2, <1>3, <1>4, LocalKeeps

LEMMA SetupRestoreKeeps ==
  ASSUME Inv, NEW f \in Federates, SetupRestore(f) PROVE Keeps(f)
  <1> USE DEF SetupRestore, Goto, files, federation
  <1>1. Moves(f)
    BY DEF Moves, Inv, Types, FlagsThere, job, AllLabels
  <1>2. Flagged(f) /\ Writes(f)
    BY DEF Flagged, FlagsThere, Writes, Inv, Types
  <1>3. rti.doing = "save" /\ f \in members => Saving(f)'
    BY DEF Saving, Inv, Types, FlagsThere, SaveFlags, job
  <1>4. UNCHANGED federation
    OBVIOUS
  <1>5. QED
    BY <1>1, <1>2, <1>3, <1>4, LocalKeeps

LEMMA DoNotRequestKeeps ==
  ASSUME Inv, NEW f \in Federates, DoNotRequest(f) PROVE Keeps(f)
  <1> USE DEF DoNotRequest, Goto, files, federation
  <1>1. Moves(f)
    BY DEF Moves, Inv, Types, FlagsThere, job, AllLabels
  <1>2. Flagged(f) /\ Writes(f)
    BY DEF Flagged, FlagsThere, Writes, Inv, Types
  <1>3. rti.doing = "save" /\ f \in members => Saving(f)'
    BY DEF Saving, Inv, Types, FlagsThere, SaveFlags, job
  <1>4. UNCHANGED federation
    OBVIOUS
  <1>5. QED
    BY <1>1, <1>2, <1>3, <1>4, LocalKeeps

LEMMA RequestedKeeps ==
  ASSUME Inv, NEW f \in Federates, Requested(f) PROVE Keeps(f)
  <1> USE DEF Requested, Goto, files, federation
  <1>1. Moves(f)
    BY DEF Moves, Inv, Types, FlagsThere, job, AllLabels
  <1>2. Flagged(f) /\ Writes(f)
    BY DEF Flagged, FlagsThere, Writes, Inv, Types
  <1>3. rti.doing = "save" /\ f \in members => Saving(f)'
    BY DEF Saving, Inv, Types, FlagsThere, SaveFlags, job
  <1>4. UNCHANGED federation
    OBVIOUS
  <1>5. QED
    BY <1>1, <1>2, <1>3, <1>4, LocalKeeps

LEMMA AwaitStartKeeps ==
  ASSUME Inv, NEW f \in Federates, AwaitStart(f) PROVE Keeps(f)
  <1> USE DEF AwaitStart, Goto, files, federation
  <1>1. Moves(f)
    BY DEF Moves, Inv, Types, FlagsThere, job, AllLabels
  <1>2. Flagged(f) /\ Writes(f)
    BY DEF Flagged, FlagsThere, Writes, Inv, Types
  <1>3. rti.doing = "save" /\ f \in members => Saving(f)'
    BY DEF Saving, Inv, Types, FlagsThere, SaveFlags, job
  <1>4. UNCHANGED federation
    OBVIOUS
  <1>5. QED
    BY <1>1, <1>2, <1>3, <1>4, LocalKeeps

LEMMA PostRestoreKeeps ==
  ASSUME Inv, NEW f \in Federates, PostRestore(f) PROVE Keeps(f)
  <1> USE DEF PostRestore, Goto, files, federation
  <1>1. Moves(f)
    BY DEF Moves, Inv, Types, FlagsThere, job, AllLabels
  <1>2. Flagged(f) /\ Writes(f)
    BY DEF Flagged, FlagsThere, Writes, Inv, Types
  <1>3. rti.doing = "save" /\ f \in members => Saving(f)'
    BY DEF Saving, Inv, Types, FlagsThere, SaveFlags, job
  <1>4. UNCHANGED federation
    OBVIOUS
  <1>5. QED
    BY <1>1, <1>2, <1>3, <1>4, LocalKeeps

LEMMA PreserveKeeps ==
  ASSUME Inv, NEW f \in Federates, Preserve(f) PROVE Keeps(f)
  <1> USE DEF Preserve, Goto, files, federation
  <1>1. Moves(f)
    BY DEF Moves, Inv, Types, FlagsThere, job, AllLabels
  <1>2. Flagged(f) /\ Writes(f)
    BY DEF Flagged, FlagsThere, Writes, Inv, Types
  <1>3. rti.doing = "save" /\ f \in members => Saving(f)'
    BY DEF Saving, Inv, Types, FlagsThere, SaveFlags, job
  <1>4. UNCHANGED federation
    OBVIOUS
  <1>5. QED
    BY <1>1, <1>2, <1>3, <1>4, LocalKeeps

LEMMA RebuildKeeps ==
  ASSUME Inv, NEW f \in Federates, Rebuild(f) PROVE Keeps(f)
  <1> USE DEF Rebuild, Goto, files, federation
  <1>1. Moves(f)
    BY DEF Moves, Inv, Types, FlagsThere, job, AllLabels
  <1>2. Flagged(f) /\ Writes(f)
    BY DEF Flagged, FlagsThere, Writes, Inv, Types
  <1>3. rti.doing = "save" /\ f \in members => Saving(f)'
    BY DEF Saving, Inv, Types, FlagsThere, SaveFlags, job
  <1>4. UNCHANGED federation
    OBVIOUS
  <1>5. QED
    BY <1>1, <1>2, <1>3, <1>4, LocalKeeps

-----------------------------------------------------------------------------
(* Callbacks.                                                              *)

LEMMA OnKeeps ==
  ASSUME Inv, NEW f \in Federates, NEW kinds, On(f, kinds), Flagged(f),
         rti.doing = "save" /\ Saving(f) /\ ForThis(Head(inbox[f]), rti.label) =>
           /\ flag'[f].start_to_save => flag'[f].save_name = rti.label
           /\ flag[f].start_to_save /\ ~ flag[f].announce_save
                => flag'[f].start_to_save /\ ~ flag'[f].announce_save
  PROVE  Keeps(f)
  <1> USE DEF On, job, files
  <1>1. /\ f \in members /\ inbox[f] \in Seq(Messages) /\ inbox[f] # <<>>
        /\ inbox'[f] = Tail(inbox[f])
        /\ \A g \in Federates \ {f} : inbox'[g] = inbox[g]
    BY DEF Inv, Types
  <1>2. inbox' \in [Federates -> Seq(Messages)]
    BY <1>1, Taken DEF Inv, Types
  <1>3. Types'
    BY <1>2 DEF Inv, Types, Flagged
  <1>4. \A g \in Federates \ {f} : Same(g)
    BY DEF Same, Flagged
  <1>5. GoesOn(f)
    BY <1>1 DEF GoesOn, Inv, Saving, Types
  <1>6. ASSUME rti.doing = "save" PROVE Saving(f)'
    <2>1. Saving(f)
      BY <1>1, <1>6 DEF Inv
    <2>2. OnlyThis(Tail(inbox[f]), rti.label) /\ ForThis(Head(inbox[f]), rti.label)
      BY <1>1, <2>1, Taken DEF Saving
    <2>3. QED
      BY <1>1, <1>6, <2>1, <2>2 DEF Saving
  <1>7. QED
    BY <1>3, <1>4, <1>5, <1>6 DEF Keeps, Inv

LEMMA CallbackKeeps ==
  ASSUME Inv, NEW f \in Federates, Callback(f) PROVE Keeps(f)
  <1> DEFINE Kept ==
        rti.doing = "save" /\ Saving(f) /\ ForThis(Head(inbox[f]), rti.label) =>
          /\ flag'[f].start_to_save => flag'[f].save_name = rti.label
          /\ flag[f].start_to_save /\ ~ flag[f].announce_save
               => flag'[f].start_to_save /\ ~ flag'[f].announce_save
  <1>1. FlagsThere
    BY DEF Inv, Types
  <1>2. ASSUME NEW kinds, On(f, kinds)
        PROVE  Head(inbox[f]).kind \in kinds /\ Head(inbox[f]).label \in AllLabels
    <2>1. Head(inbox[f]) \in Messages
      BY <1>2, Taken DEF On, Inv, Types
    <2>2. QED
      BY <1>2, <2>1 DEF On, Messages
  <1>3. CASE InitiateFederateSave(f)
    <2>1. Flagged(f) /\ Kept
      BY <1>1, <1>2, <1>3
      DEF InitiateFederateSave, Flagged, FlagsThere, SaveFlags, ForThis
    <2>2. QED
      BY <1>3, <2>1, OnKeeps DEF InitiateFederateSave
  <1>4. CASE FederationSaved(f)
    <2>1. Flagged(f) /\ Kept
      BY <1>1, <1>2, <1>4
      DEF FederationSaved, Flagged, FlagsThere, SaveFlags, ForThis, AllLabels
    <2>2. QED
      BY <1>4, <2>1, OnKeeps DEF FederationSaved
  <1>5. CASE InitiateFederateRestore(f)
    <2>1. Flagged(f) /\ Kept
      BY <1>1, <1>2, <1>5
      DEF InitiateFederateRestore, Flagged, FlagsThere, SaveFlags, Saving
    <2>2. QED
      BY <1>5, <2>1, OnKeeps DEF InitiateFederateRestore
  <1>6. CASE RestoreStatus(f) \/ RestoreRequested(f) \/ RestoreBegun(f)
    <2>1. Flagged(f) /\ Kept
      BY <1>1, <1>6
      DEF RestoreStatus, RestoreRequested, RestoreBegun, Flagged, FlagsThere, SaveFlags, Saving
    <2>2. QED
      BY <1>6, <2>1, OnKeeps DEF RestoreStatus, RestoreRequested, RestoreBegun
  <1>7. CASE FederationRestored(f) \/ FederationNotRestored(f)
    <2>1. Flagged(f) /\ Kept
      BY <1>1, <1>7
      DEF FederationRestored, FederationNotRestored, Flagged, FlagsThere, SaveFlags, Saving
    <2>2. QED
      BY <1>7, <2>1, OnKeeps DEF FederationRestored, FederationNotRestored
  <1>8. QED
    BY <1>3, <1>4, <1>5, <1>6, <1>7 DEF Callback

-----------------------------------------------------------------------------
(* Steps in which the RTI is told.                                         *)

\* A step of the main thread that writes nothing and takes up no other file.
LEMMA MainKeeps ==
  ASSUME Inv, NEW f \in Federates, Moves(f), Flagged(f), UNCHANGED <<disk, members>>,
         inbox' \in [Federates -> Seq(Messages)], rti' \in RtiStates,
         saves' = saves \/ (saves' \in [Labels -> SUBSET Federates] /\ SavedTogether'),
         rti'.doing # "save" => rti'.begun = {}, GoesOn(f),
         rti'.doing = "save" /\ f \in members => Saving(f)'
  PROVE  Keeps(f)
  <1>1. Types'
    BY DEF Inv, Types, Flagged, Moves
  <1>2. \A g \in Federates \ {f} : Same(g)
    BY DEF Same, Flagged, Moves
  <1>3. QED
    BY <1>1, <1>2 DEF Keeps

LEMMA SetupCheckpointKeeps ==
  ASSUME Inv, NEW f \in Federates, SetupCheckpoint(f) PROVE Keeps(f)
  <1> USE DEF SetupCheckpoint, Goto
  <1>1. Moves(f) /\ Flagged(f)
    BY DEF Moves, Flagged, FlagsThere, job, Inv, Types
  <1>2. rti' = rti \/ (rti.doing = "save" /\ rti' = [rti EXCEPT !.begun = @ \cup {f}])
    OBVIOUS
  <1>3. /\ rti' \in RtiStates /\ rti'.doing = rti.doing /\ rti'.label = rti.label
        /\ rti'.waiting = rti.waiting /\ rti'.begun \subseteq rti.begun \cup {f}
        /\ rti.doing # "save" => rti'.begun = rti.begun
    BY <1>2 DEF Inv, Types, RtiStates
  <1>4. GoesOn(f)
    BY <1>3 DEF GoesOn, Inv, Saving, Types
  <1>5. ASSUME rti.doing = "save" PROVE Saving(f)'
    BY <1>3, <1>5 DEF Saving, Inv, Types, FlagsThere, SaveFlags, job
  <1>6. QED
    BY <1>1, <1>3, <1>4, <1>5, MainKeeps DEF Inv, Types

\* To those who are told something that is not of a save, nothing is said of it.
LEMMA TellOther ==
  ASSUME Inv, NEW s \in SUBSET Federates, NEW q \in Seq(Messages), Tell(s, q),
         \A l : OnlyThis(q, l)
  PROVE  /\ inbox' \in [Federates -> Seq(Messages)]
         /\ \A g \in Federates : \A l : OnlyThis(inbox[g], l) => OnlyThis(inbox'[g], l)
  <1>1. \A g \in Federates : inbox[g] \in Seq(Messages)
    BY DEF Inv, Types
  <1>2. ASSUME NEW g \in Federates
        PROVE  /\ inbox'[g] \in Seq(Messages)
               /\ \A l : OnlyThis(inbox[g], l) => OnlyThis(inbox'[g], l)
    <2>1. inbox'[g] = inbox[g] \/ inbox'[g] = inbox[g] \o q
      BY DEF Tell
    <2>2. inbox[g] \o q \in Seq(Messages)
      BY <1>1
    <2>3. \A l : OnlyThis(inbox[g], l) => OnlyThis(inbox[g] \o q, l)
      BY <1>1, Appended
    <2>4. QED
      BY <1>1, <2>1, <2>2, <2>3
  <1>3. QED
    BY <1>2 DEF Tell

LEMMA OneOther ==
  ASSUME NEW k \in Kinds, NEW l \in AllLabels,
         k \notin {"Saved", "NotSaved", "InitiateSave"}
  PROVE  /\ <<Message(k, l)>> \in Seq(Messages)
         /\ \A x : OnlyThis(<<Message(k, l)>>, x)
  BY Other DEF OnlyThis

\* What is told to anybody is a message.
LEMMA TellTypes ==
  ASSUME Inv, NEW s, NEW q \in Seq(Messages), Tell(s, q)
  PROVE  inbox' \in [Federates -> Seq(Messages)]
  <1>1. \A g \in Federates : inbox[g] \in Seq(Messages) /\ inbox[g] \o q \in Seq(Messages)
    BY DEF Inv, Types
  <1>2. QED
    BY <1>1 DEF Tell

LEMMA PostCheckpointKeeps ==
  ASSUME Inv, NEW f \in Federates, PostCheckpoint(f) PROVE Keeps(f)
  <1>1. /\ f \in members /\ pc[f] = "post_checkpoint"
        /\ UNCHANGED <<members, job, flag, files>>
    BY DEF PostCheckpoint, Goto
  <1>2. Moves(f) /\ Flagged(f) /\ UNCHANGED disk
    BY <1>1 DEF PostCheckpoint, Goto, Moves, Flagged, FlagsThere, job, files, Inv, Types
  <1>3. CASE UNCHANGED <<inbox, rti, saves>> /\ pc' = [pc EXCEPT ![f] = "frozen"]
    <2>1. GoesOn(f) /\ (rti.doing = "save" => Saving(f)')
      BY <1>1, <1>3 DEF GoesOn, Inv, Saving, Types, job, files
    <2>2. QED
      BY <1>1, <1>2, <1>3, <2>1, MainKeeps DEF Inv, Types
  <1>4. CASE /\ f \in rti.begun /\ pc' = [pc EXCEPT ![f] = "saved"]
             /\ RtiComplete(f, "Saved")
             /\ saves' = IF rti.waiting = {f} THEN [saves EXCEPT ![rti.label] = members]
                                              ELSE saves
    \* f has begun, and is past its dump.
    <2>1. /\ rti.doing = "save" /\ rti.label \in disk[f]
          /\ \A g \in members : Saving(g)
      BY <1>1, <1>4 DEF Inv, Saving
    <2>2. CASE rti.waiting = {f}
      <3>1. rti' = Idle /\ Tell(members, <<Message("Saved", rti.label)>>)
        BY <1>4, <2>2 DEF RtiComplete
      <3>2. rti' \in RtiStates /\ rti'.doing = "nothing" /\ rti'.begun = {}
        BY <3>1 DEF Idle, RtiStates, Inv, Types
      <3>3. <<Message("Saved", rti.label)>> \in Seq(Messages)
        <4>1. rti.label \in AllLabels
          BY DEF Inv, Types, RtiStates
        <4>2. Message("Saved", rti.label) \in Messages
          BY <4>1, Other DEF Kinds
        <4>3. QED
          BY <4>2
      <3>4. inbox' \in [Federates -> Seq(Messages)]
        BY <3>1, <3>3, TellTypes
      \* So is everybody else: the RTI waits for nobody but f.
      <3>5. \A g \in members : rti.label \in disk[g]
        BY <2>1, <2>2 DEF Saving
      <3>6. saves' \in [Labels -> SUBSET Federates]
        BY <1>4, <2>2 DEF Inv, Types
      <3>7. ASSUME NEW l \in Labels, NEW g \in saves'[l] PROVE l \in disk'[g]
        <4>1. CASE l = rti.label
          BY <1>2, <1>4, <2>2, <3>5, <3>7, <4>1 DEF Inv, Types
        <4>2. CASE l # rti.label
          BY <1>2, <1>4, <2>2, <3>7, <4>2 DEF Inv, Types, SavedTogether
        <4>3. QED
          BY <4>1, <4>2
      <3>8. SavedTogether'
        BY <3>7 DEF SavedTogether
      <3>9. QED
        BY <1>1, <1>2, <3>2, <3>4, <3>6, <3>8, MainKeeps DEF GoesOn
    <2>3. CASE rti.waiting # {f}
      <3>1. rti' = [rti EXCEPT !.waiting = @ \ {f}] /\ inbox' = inbox /\ saves' = saves
        BY <1>4, <2>3 DEF RtiComplete
      <3>2. /\ rti' \in RtiStates /\ rti'.doing = "save" /\ rti'.label = rti.label
            /\ rti'.begun = rti.begun /\ rti'.waiting = rti.waiting \ {f}
        BY <2>1, <3>1 DEF RtiStates, Inv, Types
      <3>3. GoesOn(f)
        BY <1>1, <2>1, <3>1, <3>2 DEF GoesOn, Saving
      <3>4. Saving(f)'
        BY <1>1, <1>2, <1>4, <2>1, <3>1, <3>2 DEF Saving, Inv, Types
      <3>5. QED
        BY <1>1, <1>2, <3>1, <3>2, <3>3, <3>4, MainKeeps DEF Inv, Types
    <2>4. QED
      BY <2>2, <2>3
  <1>5. QED
    BY <1>3, <1>4 DEF PostCheckpoint, Goto

LEMMA AskStatusKeeps ==
  ASSUME Inv, NEW f \in Federates, AskStatus(f) PROVE Keeps(f)
  <1> DEFINE k == IF rti.doing = "restore" THEN "SomebodyRestores" ELSE "NobodyRestores"
             s == IF rti.doing = "save" THEN {} ELSE {f}
  <1>1. /\ UNCHANGED <<members, rti, saves, job, files>> /\ pc[f] = "await_required"
        /\ pc' = [pc EXCEPT ![f] = "await_status"] /\ f \in members
        /\ flag' = [flag EXCEPT ![f].request_complete = FALSE]
        /\ Tell(s, <<Message(k, NoLabel)>>)
    BY DEF AskStatus, Goto
  <1>2. s \in SUBSET Federates /\ NoLabel \in AllLabels
    BY DEF AllLabels
  <1>3. <<Message(k, NoLabel)>> \in Seq(Messages) /\ \A x : OnlyThis(<<Message(k, NoLabel)>>, x)
    <2>1. k \in {"SomebodyRestores", "NobodyRestores"}
      OBVIOUS
    <2> HIDE DEF k
    <2>2. k \in Kinds /\ k \notin {"Saved", "NotSaved", "InitiateSave"}
      BY <2>1 DEF Kinds
    <2>3. QED
      BY <1>2, <2>2, OneOther
  <1> HIDE DEF k, s
  <1>4. /\ inbox' \in [Federates -> Seq(Messages)]
        /\ \A g \in Federates : \A l : OnlyThis(inbox[g], l) => OnlyThis(inbox'[g], l)
    BY <1>1, <1>2, <1>3, TellOther
  <1>5. Moves(f) /\ Flagged(f) /\ UNCHANGED disk
    BY <1>1 DEF Moves, Flagged, FlagsThere, SaveFlags, job, files, Inv, Types
  <1>6. GoesOn(f)
    BY <1>1, <1>4 DEF GoesOn, Inv, Saving, Types
  <1>7. ASSUME rti.doing = "save" PROVE Saving(f)'
    BY <1>1, <1>4, <1>7 DEF Saving, Inv, Types, FlagsThere, SaveFlags, job, files
  <1>8. QED
    BY <1>1, <1>4, <1>5, <1>6, <1>7, MainKeeps DEF Inv, Types

\* A step of the main thread after which no save is under way.
LEMMA NoSaveKeeps ==
  ASSUME Inv, NEW f \in Federates, Moves(f), Flagged(f),
         UNCHANGED <<disk, members, saves>>,
         inbox' \in [Federates -> Seq(Messages)], rti' \in RtiStates,
         rti'.doing # "save", rti'.begun = {}
  PROVE  Keeps(f)
  BY MainKeeps DEF GoesOn

LEMMA RequestRestoreKeeps ==
  ASSUME Inv, NEW f \in Federates, RequestRestore(f) PROVE Keeps(f)
  <1>1. /\ UNCHANGED <<members, saves, job, flag, files>> /\ rti.doing = "nothing"
        /\ pc[f] = "await_status" /\ pc' = [pc EXCEPT ![f] = "requested"]
    BY DEF RequestRestore, Goto
  <1>2. Moves(f) /\ Flagged(f) /\ UNCHANGED disk
    BY <1>1 DEF Moves, Flagged, FlagsThere, job, files, Inv, Types
  <1>3. file[f] \in AllLabels /\ NoLabel \in AllLabels
    BY DEF Inv, Types, AllLabels
  <1>4. CASE saves[file[f]] = members
    <2> DEFINE q(g) == IF g = f THEN <<Message("RequestSucceeded", NoLabel)>> ELSE <<>>
               r(g) == IF g \in members
                         THEN <<Message("RestoreBegun", NoLabel),
                                Message("InitiateRestore", NoLabel),
                                Message("RestoreName", file[f])>>
                         ELSE <<>>
    <2>1. /\ rti' = Doing("restore", file[f], rti.number + 1)
          /\ inbox' = [g \in Federates |-> inbox[g] \o q(g) \o r(g)]
      BY <1>4 DEF RequestRestore
    <2>2. /\ Message("RequestSucceeded", NoLabel) \in Messages
          /\ Message("RestoreBegun", NoLabel) \in Messages
          /\ Message("InitiateRestore", NoLabel) \in Messages
          /\ Message("RestoreName", file[f]) \in Messages
      BY <1>3, Other DEF Kinds
    <2>3. \A g \in Federates : q(g) \in Seq(Messages) /\ r(g) \in Seq(Messages)
      BY <2>2
    <2> HIDE DEF q, r
    <2>4. \A g \in Federates : inbox[g] \o q(g) \o r(g) \in Seq(Messages)
      <3>1. \A x, y, z \in Seq(Messages) : x \o y \o z \in Seq(Messages)
        OBVIOUS
      <3>2. QED
        BY <2>3, <3>1 DEF Inv, Types
    <2>5. inbox' \in [Federates -> Seq(Messages)]
      BY <2>1, <2>4
    <2>6. rti' \in RtiStates /\ rti'.doing = "restore" /\ rti'.begun = {}
      BY <1>3, <2>1 DEF Doing, RtiStates, Inv, Types
    <2>7. QED
      BY <1>1, <1>2, <2>5, <2>6, NoSaveKeeps
  <1>5. CASE saves[file[f]] # members
    <2>1. UNCHANGED rti /\ Tell({f}, <<Message("RequestFailed", NoLabel)>>)
      BY <1>5 DEF RequestRestore
    <2>2. <<Message("RequestFailed", NoLabel)>> \in Seq(Messages)
      <3>1. Message("RequestFailed", NoLabel) \in Messages
        BY <1>3, Other DEF Kinds
      <3>2. QED
        BY <3>1
    <2>3. inbox' \in [Federates -> Seq(Messages)]
      BY <2>1, <2>2, TellTypes
    <2>4. QED
      BY <1>1, <1>2, <2>1, <2>3, NoSaveKeeps DEF Inv, Types
  <1>6. QED
    BY <1>4, <1>5

LEMMA InformRTIKeeps ==
  ASSUME Inv, NEW f \in Federates, InformRTI(f) PROVE Keeps(f)
  <1>1. /\ UNCHANGED <<members, saves, job, flag, files>>
        /\ pc[f] = "await_begun" /\ pc' = [pc EXCEPT ![f] = "await_restored"]
        /\ \/ UNCHANGED <<rti, inbox>>
           \/ rti.doing = "restore" /\ RtiComplete(f, "Restored")
    BY DEF InformRTI, Goto
  <1>2. Moves(f) /\ Flagged(f) /\ UNCHANGED disk
    BY <1>1 DEF Moves, Flagged, FlagsThere, job, files, Inv, Types
  <1>3. CASE UNCHANGED <<rti, inbox>>
    <2>1. GoesOn(f) /\ (rti.doing = "save" /\ f \in members => Saving(f)')
      BY <1>1, <1>3 DEF GoesOn, Inv, Saving, Types, job, files
    <2>2. QED
      BY <1>1, <1>2, <1>3, <2>1, MainKeeps DEF Inv, Types
  <1>4. CASE rti.doing = "restore" /\ RtiComplete(f, "Restored")
    <2>1. rti.begun = {}
      BY <1>4 DEF Inv
    <2>2. CASE rti.waiting = {f}
      <3>1. rti' = Idle /\ Tell(members, <<Message("Restored", rti.label)>>)
        BY <1>4, <2>2 DEF RtiComplete
      <3>2. rti' \in RtiStates /\ rti'.doing = "nothing" /\ rti'.begun = {}
        BY <3>1 DEF Idle, RtiStates, Inv, Types
      <3>3. rti.label \in AllLabels
        BY DEF Inv, Types, RtiStates
      <3>4. Message("Restored", rti.label) \in Messages
        BY <3>3, Other DEF Kinds
      <3>5. <<Message("Restored", rti.label)>> \in Seq(Messages)
        BY <3>4
      <3>6. inbox' \in [Federates -> Seq(Messages)]
        BY <3>1, <3>5, TellTypes
      <3>7. QED
        BY <1>1, <1>2, <3>2, <3>6, NoSaveKeeps
    <2>3. CASE rti.waiting # {f}
      <3>1. rti' = [rti EXCEPT !.waiting = @ \ {f}] /\ inbox' = inbox
        BY <1>4, <2>3 DEF RtiComplete
      <3>2. rti' \in RtiStates /\ rti'.doing = "restore" /\ rti'.begun = {}
        BY <1>4, <2>1, <3>1 DEF RtiStates, Inv, Types
      <3>3. QED
        BY <1>1, <1>2, <3>1, <3>2, NoSaveKeeps DEF Inv, Types
    <2>4. QED
      BY <2>2, <2>3
  <1>5. QED
    BY <1>1, <1>3, <1>4

\* A federate that leaves ends the save.
LEMMA RemoveKeeps ==
  ASSUME Inv, NEW f \in Federates, RtiRemove(f), NEW p, pc' = [pc EXCEPT ![f] = p],
         UNCHANGED <<saves, job, flag, files>>
  PROVE  Keeps(f)
  <1> DEFINE q == CASE rti.doing = "save"    -> <<Message("NotSaved", NoLabel)>>
                    [] rti.doing = "restore" -> <<Message("NotRestored", NoLabel)>>
                    [] OTHER                 -> <<>>
  <1>1. rti' = Idle /\ members' = members \ {f} /\ Tell(members', q)
    BY DEF RtiRemove
  <1>2. Message("NotSaved", NoLabel) \in Messages /\ Message("NotRestored", NoLabel) \in Messages
    BY Other DEF Kinds, AllLabels
  <1>3. q \in Seq(Messages)
    BY <1>2
  <1> HIDE DEF q
  <1>4. inbox' \in [Federates -> Seq(Messages)]
    <2>1. \A g \in Federates : inbox[g] \in Seq(Messages) /\ inbox[g] \o q \in Seq(Messages)
      BY <1>3 DEF Inv, Types
    <2>2. QED
      BY <1>1, <2>1 DEF Tell
  <1>5. rti' \in RtiStates /\ rti'.doing = "nothing" /\ rti'.begun = {}
    BY <1>1 DEF Idle, RtiStates, Inv, Types
  <1>6. Types'
    BY <1>1, <1>4, <1>5 DEF Inv, Types, FlagsThere, job, files
  <1>7. \A g \in Federates \ {f} : Same(g)
    BY DEF Same, job, files, Inv, Types
  <1>8. QED
    BY <1>1, <1>5, <1>6, <1>7 DEF Keeps, GoesOn, files

LEMMA TerminateKeeps ==
  ASSUME Inv, NEW f \in Federates, Terminate(f) PROVE Keeps(f)
  BY RemoveKeeps DEF Terminate, Goto

LEMMA LoseKeeps ==
  ASSUME Inv, NEW f \in Federates, Lose(f) PROVE Keeps(f)
  BY RemoveKeeps DEF Lose

\* A save begins when everybody is done with what went before.
LEMMA RequestSaveInv ==
  ASSUME Inv, NEW l \in Labels, RequestSave(l) PROVE Inv'
  <1> DEFINE q == <<Message("InitiateSave", l)>>
  <1>1. /\ \A f \in members : Quiet(f)
        /\ rti' = Doing("save", l, rti.number) /\ Tell(members, q)
        /\ UNCHANGED <<members, saves, pc, job, flag, files>>
    BY DEF RequestSave
  <1>2. l \in AllLabels /\ members \subseteq Federates
    BY DEF AllLabels, Inv, Types
  <1>3. Message("InitiateSave", l) \in Messages /\ ForThis(Message("InitiateSave", l), l)
    BY <1>2, Other DEF Kinds
  <1>4. q \in Seq(Messages) /\ OnlyThis(q, l)
    BY <1>3 DEF OnlyThis
  <1> HIDE DEF q
  <1>5. inbox' \in [Federates -> Seq(Messages)]
    BY <1>1, <1>4, TellTypes
  <1>6. /\ rti' \in RtiStates /\ rti'.doing = "save" /\ rti'.label = l
        /\ rti'.begun = {} /\ rti'.waiting = members
    BY <1>1, <1>2 DEF Doing, RtiStates, Inv, Types
  <1>7. Types'
    BY <1>1, <1>5, <1>6 DEF Inv, Types, FlagsThere, job, files
  <1>8. ASSUME NEW f \in members PROVE Saving(f)'
    <2>1. /\ pc[f] = "frozen" /\ inbox[f] = <<>> /\ ~ flag[f].start_to_save
          /\ f \in Federates
      BY <1>1, <1>2 DEF Quiet
    <2>2. inbox'[f] = q
      <3>1. inbox'[f] = <<>> \o q
        BY <1>1, <2>1 DEF Tell
      <3>2. QED
        BY <1>4, <3>1
    <2>3. QED
      BY <1>1, <1>4, <1>6, <2>1, <2>2 DEF Saving, job, files
  <1>9. SavedTogether'
    BY <1>1 DEF Inv, SavedTogether, files
  <1>10. QED
    BY <1>1, <1>6, <1>7, <1>8, <1>9 DEF Inv

-----------------------------------------------------------------------------
(* Saves are whole.                                                        *)

LEMMA InitInv == Init => Inv
  <1> SUFFICES ASSUME Init PROVE Inv
    OBVIOUS
  <1> USE SaveRestoreAssumption DEF Init
  <1>1. FlagsThere
    BY DEF FlagsThere, SaveFlags, AllLabels
  <1>2. Types
    BY <1>1 DEF Types, AllLabels, RtiStates
  <1>3. SavedTogether
    BY DEF SavedTogether
  <1>4. QED
    BY <1>2, <1>3 DEF Inv

LEMMA StepInv == Inv /\ [Next]_vars => Inv'
  <1> SUFFICES ASSUME Inv, [Next]_vars PROVE Inv'
    OBVIOUS
  <1>1. ASSUME NEW f \in Federates, Main(f) PROVE Keeps(f)
    BY <1>1, PerformCheckpointKeeps, SetupCheckpointKeeps, WriteCheckpointKeeps,
       PostCheckpointKeeps, SaveCompleteKeeps, PerformRestoreKeeps, SetupRestoreKeeps,
       AskStatusKeeps, RequestRestoreKeeps, DoNotRequestKeeps, RequestedKeeps,
       AwaitStartKeeps, LoadCheckpointKeeps, PostRestoreKeeps, PreserveKeeps,
       InformRTIKeeps, AwaitRestoredKeeps, RebuildKeeps, TerminateKeeps
    DEF Main
  <1>2. ASSUME NEW f \in Federates, Callback(f) \/ Lose(f) PROVE Keeps(f)
    BY <1>2, CallbackKeeps, LoseKeeps
  <1>3. ASSUME NEW f \in Federates, NEW l \in Labels, Dump(f, l) \/ Load(f, l)
        PROVE  Keeps(f)
    BY <1>3, DumpKeeps, LoadKeeps
  <1>4. CASE UNCHANGED vars
    BY <1>4 DEF vars, federation, job, files, Inv, Types, FlagsThere, Saving, SavedTogether
  <1>5. QED
    BY <1>1, <1>2, <1>3, <1>4, RequestSaveInv, KeepsInv DEF Next

\* Whenever the RTI says that the federation is saved, every federate that was in it
\* has written the checkpoint of that name, whatever it dumped by itself before,
\* and though the flags by which it learns of a save are set by another thread.
THEOREM EverybodySaved == Spec => []SavedTogether
  <1>1. Spec => []Inv
    BY InitInv, StepInv, PTL DEF Spec
  <1>2. Inv => SavedTogether
    BY DEF Inv
  <1>3. QED
    BY <1>1, <1>2, PTL

-----------------------------------------------------------------------------
(* The invariant of restores.                                              *)

Processes ==
  {"NO_RESTORE", "INITIATE_RESTORE", "REQUEST_SUCCEEDED", "REQUEST_FAILED",
   "RESTORE_IN_PROGRESS", "RESTORE_COMPLETE", "RESTORE_FAILED"}
FlagRecord ==
  [announce_save : BOOLEAN, start_to_save : BOOLEAN, save_name : AllLabels,
   save_completed : BOOLEAN,
   announce_restore : BOOLEAN, start_to_restore : BOOLEAN, restore_name : AllLabels,
   process : Processes, prev_process : Processes,
   restore_begun : BOOLEAN, restore_completed : BOOLEAN,
   request_complete : BOOLEAN, failed_callback : BOOLEAN]

MoreTypes ==
  /\ flag \in [Federates -> FlagRecord]
  /\ loaded \in [Federates -> Nat]
  /\ rti.begun \subseteq members /\ rti.waiting \subseteq members
  /\ rti.doing = "nothing" => rti.waiting = {}

Has(s, kinds) == \E i \in 1..Len(s) : s[i].kind \in kinds
\* A message of one of the kinds is behind the i-th one.
Behind(s, i, kinds) == \E j \in 1..Len(s) : i < j /\ s[j].kind \in kinds

SaveEnds == {"Saved", "NotSaved"}
RestoreEnds == {"Restored", "NotRestored"}
Statuses == {"NobodyRestores", "SomebodyRestores"}

\* During a save nothing but the call to begin it is on its way, and before
\* f has told the RTI.  One that is left over has the end of its save behind it.
BeginInv(f) ==
  /\ rti.doing = "save" /\ inbox[f] # <<>> =>
       /\ ~ flag[f].start_to_save /\ f \in rti.waiting
       /\ Len(inbox[f]) = 1 /\ inbox[f][1].kind = "InitiateSave"
  /\ rti.doing = "save" /\ f \in rti.waiting =>
       pc[f] # "saved" /\ (flag[f].start_to_save \/ inbox[f] # <<>>)
  /\ flag[f].start_to_save =>
       \/ rti.doing = "save" /\ f \in rti.waiting
       \/ pc[f] = "saved" \/ Has(inbox[f], SaveEnds)
  /\ \A i \in 1..Len(inbox[f]) : inbox[f][i].kind = "InitiateSave" =>
       rti.doing = "save" \/ Behind(inbox[f], i, SaveEnds)

\* So with the call to begin a restore, which sets a flag.
EndInv(f) ==
  /\ flag[f].start_to_restore => rti.doing = "restore" \/ Has(inbox[f], RestoreEnds)
  /\ \A i \in 1..Len(inbox[f]) : inbox[f][i].kind = "InitiateRestore" =>
       rti.doing = "restore" \/ Behind(inbox[f], i, RestoreEnds)

\* f waits for the answer that is on its way, and for one.
StatusInv(f) ==
  \A i \in 1..Len(inbox[f]) : inbox[f][i].kind \in Statuses =>
    /\ pc[f] = "await_status" /\ ~ flag[f].request_complete
    /\ \A j \in 1..Len(inbox[f]) : inbox[f][j].kind \in Statuses => j = i

Intact == members = Federates

\* What f is asked to load, or asks for, is the label of a save.
FileInv(f) ==
  /\ pc[f] = "await_status" => file[f] \in Labels
  /\ Intact /\ pc[f] = "await_required" => file[f] \in Labels
  /\ Intact /\ pc[f] = "setup_restore" => file[f] \in Labels \/ flag[f].start_to_restore

\* Nothing has failed as long as nobody has left, and only the whole federation is
\* restored.
WholeInv ==
  /\ rti.doing = "restore" => Intact
  /\ Intact \/ (\E f \in members : pc[f] = "await_status") =>
       /\ \A l \in Labels : saves[l] \in {Federates, {}}
       /\ rti.doing = "save" => Intact
  /\ Intact => \A f \in Federates :
       /\ ~ flag[f].failed_callback /\ flag[f].process # "RESTORE_FAILED"
       /\ ~ Has(inbox[f], {"NotRestored"})

\* Where f is when it has nothing to do with a restore, asks for one, and
\* has loaded for one.
Elsewhere == {"frozen", "setup_checkpoint", "await_initiate", "dump", "post_checkpoint", "saved"}
Asking == {"setup_restore", "await_required", "await_status", "requested", "await_start"}
Up == {"post_restore", "preserve", "await_begun"}
\* What is in an inbox when a restore begins.
Earlier == {"InitiateSave", "Saved", "NotSaved", "NobodyRestores", "RequestFailed"}
\* And what is before the call to load, and behind it.
Before == Earlier \cup {"RequestSucceeded", "RestoreBegun"}

HasLoaded(f) == flag[f].start_to_restore /\ loaded[f] = rti.number

\* The federation is being restored: f has yet to be told or has been, and the RTI
\* waits for it until it waits for the others, having loaded.
ToldInv(f) ==
  \/ /\ flag[f].start_to_restore
     /\ \A i \in 1..Len(inbox[f]) : inbox[f][i].kind \in {"RestoreName", "SomebodyRestores"}
  \/ /\ ~ flag[f].start_to_restore
     /\ \E i \in 1..Len(inbox[f]) :
          /\ inbox[f][i].kind = "InitiateRestore"
          /\ \A j \in 1..Len(inbox[f]) :
               /\ j < i => inbox[f][j].kind \in Before
               /\ i < j => inbox[f][j].kind \in {"RestoreName", "SomebodyRestores"}

PlaceInv(f) ==
  /\ pc[f] = "await_restored" <=> f \notin rti.waiting
  /\ pc[f] \notin {"rebuild", "ended"}
  /\ pc[f] \in {"await_restored"} \cup Up => HasLoaded(f)
  /\ pc[f] = "await_restored" => ~ flag[f].restore_completed
  /\ pc[f] = "load" => flag[f].start_to_restore
  /\ pc[f] = "preserve" => flag[f].process = "RESTORE_COMPLETE"
  /\ pc[f] = "await_begun" => flag[f].prev_process = "RESTORE_COMPLETE"
  /\ pc[f] \in Elsewhere /\ flag[f].announce_restore => HasLoaded(f)

Restoring(f) == ToldInv(f) /\ PlaceInv(f)

\* f has yet to take up what was restored, or is about to learn that it may.
Done(f) ==
  \/ pc[f] = "rebuild" \/ Has(inbox[f], {"Restored"})
  \/ pc[f] = "await_restored" /\ flag[f].restore_completed /\ ~ flag[f].failed_callback

\* As long as somebody has: everybody has loaded and told the RTI.
Restored(f) ==
  /\ loaded[f] = rti.number
  /\ ~ flag[f].failed_callback /\ flag[f].process # "RESTORE_FAILED"
  /\ pc[f] \in {"await_restored", "rebuild", "terminate"} \cup Elsewhere
  /\ pc[f] \in Elsewhere => ~ flag[f].announce_restore
  /\ inbox[f] # <<>> =>
       /\ pc[f] = "await_restored" /\ ~ flag[f].restore_completed
       /\ inbox[f][Len(inbox[f])].kind = "Restored"
       /\ \A i \in 1..Len(inbox[f]) : i < Len(inbox[f]) => inbox[f][i].kind = "RestoreName"
  /\ inbox[f] = <<>> =>
       /\ ~ flag[f].start_to_restore
       /\ pc[f] = "await_restored" => flag[f].restore_completed

\* Nobody is restoring anything.
Calm(f) ==
  /\ \A i \in 1..Len(inbox[f]) : inbox[f][i].kind \in Earlier
  /\ ~ flag[f].start_to_restore
  /\ pc[f] \in Elsewhere \cup Asking \cup {"terminate"}
  /\ pc[f] \in Elsewhere => ~ flag[f].announce_restore

SomeDone == \E f \in members : Done(f)

PhaseInv ==
  /\ rti.doing = "restore" => \A f \in members : Restoring(f)
  /\ SomeDone => rti.doing = "nothing" /\ \A f \in members : Restored(f)
  /\ Intact /\ rti.doing # "restore" /\ ~ SomeDone => \A f \in members : Calm(f)

BegunInv(f) == flag[f].restore_begun => ~ flag[f].restore_completed

RInv ==
  /\ Inv /\ MoreTypes
  /\ \A f \in members : BeginInv(f) /\ EndInv(f) /\ StatusInv(f) /\ FileInv(f) /\ BegunInv(f)
  /\ WholeInv
  /\ PhaseInv


-----------------------------------------------------------------------------
(* What a step of one federate has to leave alone, and to see to.          *)

\* The step leaves alone what the others are, and what the RTI is doing.
Aside(f) ==
  /\ members' = members /\ saves' = saves
  /\ rti'.doing = rti.doing /\ rti'.number = rti.number
  /\ \A g \in Federates \ {f} :
       /\ pc'[g] = pc[g] /\ flag'[g] = flag[g] /\ file'[g] = file[g]
       /\ loaded'[g] = loaded[g] /\ inbox'[g] = inbox[g]
       /\ g \in rti'.waiting <=> g \in rti.waiting

Fits(f) ==
  /\ BeginInv(f)' /\ EndInv(f)' /\ StatusInv(f)' /\ FileInv(f)' /\ BegunInv(f)'
  /\ Done(f)' => Done(f)
  /\ rti.doing = "restore" => Restoring(f)'
  /\ SomeDone => Restored(f)'
  /\ Intact /\ rti.doing # "restore" /\ ~ SomeDone => Calm(f)'
  /\ Intact => /\ ~ flag'[f].failed_callback /\ flag'[f].process # "RESTORE_FAILED"
               /\ ~ Has(inbox'[f], {"NotRestored"})
  /\ pc'[f] = "await_status" => pc[f] = "await_status" \/ Intact

\* Whoever is not about to take up what was restored has done with it.
LEMMA RestoredCalm ==
  ASSUME NEW f, inbox'[f] \in Seq(Messages), Restored(f)', ~ Done(f)'
  PROVE  Calm(f)'
  <1>1. inbox'[f] = <<>>
    <2> SUFFICES ASSUME inbox'[f] # <<>> PROVE FALSE
      OBVIOUS
    <2>1. Len(inbox'[f]) \in 1..Len(inbox'[f])
      OBVIOUS
    <2>2. Has(inbox'[f], {"Restored"})
      BY <2>1 DEF Restored, Has
    <2> QED BY <2>2 DEF Done
  <1>2. Len(inbox'[f]) = 0
    BY <1>1
  <1>3. pc'[f] # "await_restored" /\ pc'[f] # "rebuild"
    BY <1>1 DEF Restored, Done
  <1> QED BY <1>1, <1>2, <1>3 DEF Restored, Calm

LEMMA StepFits ==
  ASSUME RInv, Inv', MoreTypes', NEW f \in Federates, f \in members, Aside(f), Fits(f)
  PROVE  RInv'
  <1>1. members \subseteq Federates /\ inbox' \in [Federates -> Seq(Messages)]
    BY DEF RInv, Inv, Types
  <1>2. ASSUME NEW g \in members, g # f
        PROVE  /\ (BeginInv(g) <=> BeginInv(g)') /\ (EndInv(g) <=> EndInv(g)')
               /\ (StatusInv(g) <=> StatusInv(g)') /\ (FileInv(g) <=> FileInv(g)')
               /\ (BegunInv(g) <=> BegunInv(g)')
    <2>1. /\ pc'[g] = pc[g] /\ flag'[g] = flag[g] /\ file'[g] = file[g]
          /\ inbox'[g] = inbox[g] /\ (g \in rti'.waiting <=> g \in rti.waiting)
          /\ rti'.doing = rti.doing /\ members' = members
      BY <1>1, <1>2 DEF Aside
    <2> QED BY <2>1 DEF BeginInv, EndInv, StatusInv, FileInv, BegunInv, Intact
  <1>3. ASSUME NEW g \in members, g # f
        PROVE  /\ (Restoring(g) <=> Restoring(g)') /\ (Restored(g) <=> Restored(g)')
               /\ (Calm(g) <=> Calm(g)') /\ (Done(g) <=> Done(g)')
    <2>1. /\ pc'[g] = pc[g] /\ flag'[g] = flag[g] /\ loaded'[g] = loaded[g]
          /\ inbox'[g] = inbox[g] /\ (g \in rti'.waiting <=> g \in rti.waiting)
          /\ rti'.number = rti.number
      BY <1>1, <1>3 DEF Aside
    <2>2. HasLoaded(g) <=> HasLoaded(g)'
      BY <2>1 DEF HasLoaded
    <2>3. /\ (ToldInv(g) <=> ToldInv(g)') /\ (PlaceInv(g) <=> PlaceInv(g)')
      BY <2>1, <2>2 DEF ToldInv, PlaceInv
    <2> QED BY <2>1, <2>3 DEF Restoring, Restored, Calm, Done
  <1>4. \A g \in members' : /\ BeginInv(g)' /\ EndInv(g)' /\ StatusInv(g)'
                            /\ FileInv(g)' /\ BegunInv(g)'
    BY <1>2 DEF RInv, Fits, Aside
  <1>5. WholeInv'
    <2>1. /\ members' = members /\ saves' = saves /\ rti'.doing = rti.doing
          /\ \A g \in Federates \ {f} : pc'[g] = pc[g] /\ flag'[g] = flag[g] /\ inbox'[g] = inbox[g]
      BY DEF Aside
    <2>2. (\E g \in members : pc'[g] = "await_status") =>
            Intact \/ \E g \in members : pc[g] = "await_status"
      BY <1>1, <2>1 DEF Fits
    <2>3. Intact => \A g \in Federates :
            /\ ~ flag'[g].failed_callback /\ flag'[g].process # "RESTORE_FAILED"
            /\ ~ Has(inbox'[g], {"NotRestored"})
      <3> SUFFICES ASSUME Intact, NEW g \in Federates
                   PROVE  /\ ~ flag'[g].failed_callback /\ flag'[g].process # "RESTORE_FAILED"
                          /\ ~ Has(inbox'[g], {"NotRestored"})
        OBVIOUS
      <3>1. CASE g = f
        BY <3>1 DEF Fits
      <3>2. CASE g # f
        BY <2>1, <3>2 DEF RInv, WholeInv
      <3> QED BY <3>1, <3>2
    <2>4. Intact' <=> Intact
      BY <2>1 DEF Intact
    <2> QED BY <2>1, <2>2, <2>3, <2>4 DEF WholeInv, RInv
  <1>6. PhaseInv'
    <2>1. members' = members /\ rti'.doing = rti.doing /\ (Intact' <=> Intact)
      BY DEF Aside, Intact
    <2>2. SomeDone' => SomeDone
      BY <1>3, <2>1 DEF SomeDone, Fits
    <2>3. rti.doing = "restore" => \A g \in members : Restoring(g)'
      BY <1>3 DEF RInv, PhaseInv, Fits
    <2>4. SomeDone => rti.doing = "nothing" /\ \A g \in members : Restored(g)'
      BY <1>3 DEF RInv, PhaseInv, Fits
    <2>5. ASSUME Intact, rti.doing # "restore", ~ SomeDone', NEW g \in members
          PROVE  Calm(g)'
      <3>1. CASE SomeDone
        <4>1. Restored(g)' /\ ~ Done(g)'
          BY <2>1, <2>4, <2>5, <3>1 DEF SomeDone
        <4>2. inbox'[g] \in Seq(Messages)
          BY <1>1, <2>5
        <4> QED BY <4>1, <4>2, RestoredCalm
      <3>2. CASE ~ SomeDone
        BY <1>3, <2>5, <3>2 DEF RInv, PhaseInv, Fits
      <3> QED BY <3>1, <3>2
    <2> QED BY <2>1, <2>2, <2>3, <2>4, <2>5 DEF PhaseInv
  <1> QED BY <1>4, <1>5, <1>6 DEF RInv


-----------------------------------------------------------------------------
(* Steps of the main thread that send and take nothing.                    *)

\* What f has heard of restores stays, and so does its inbox.
Steady(f) ==
  /\ inbox'[f] = inbox[f] /\ (f \in rti'.waiting <=> f \in rti.waiting)
  /\ flag'[f].start_to_restore = flag[f].start_to_restore
  /\ flag'[f].restore_begun = flag[f].restore_begun
  /\ flag'[f].restore_completed = flag[f].restore_completed
  /\ flag'[f].request_complete = flag[f].request_complete
  /\ flag'[f].failed_callback = flag[f].failed_callback
  /\ flag'[f].process # flag[f].process => flag'[f].process # "RESTORE_FAILED"

\* f may go where it goes, in each phase.
Goes(f) ==
  /\ pc[f] # "saved" => flag'[f].start_to_save = flag[f].start_to_save
  /\ pc[f] = "saved" => ~ flag'[f].start_to_save
  /\ pc'[f] # "saved"
  /\ pc'[f] = "await_status" <=> pc[f] = "await_status" /\ ~ flag[f].request_complete
  /\ FileInv(f)'
  /\ pc'[f] = "rebuild" => Done(f)
  /\ pc'[f] = "await_restored" => pc[f] = "await_restored" \/ ~ flag[f].restore_completed
  /\ rti.doing = "restore" /\ Restoring(f) => PlaceInv(f)'
  /\ SomeDone /\ Restored(f) => Restored(f)'
  /\ Intact /\ Calm(f) =>
       /\ pc'[f] \in Elsewhere \cup Asking \cup {"terminate"}
       /\ pc'[f] \in Elsewhere => ~ flag'[f].announce_restore

LEMMA OwnStep ==
  ASSUME RInv, Inv', MoreTypes', NEW f \in Federates, f \in members, Aside(f),
         Steady(f), Goes(f)
  PROVE  RInv'
  <1>1. /\ BeginInv(f) /\ EndInv(f) /\ StatusInv(f) /\ BegunInv(f) /\ WholeInv /\ PhaseInv
        /\ rti'.doing = rti.doing /\ members' = members /\ inbox'[f] = inbox[f]
        /\ f \in rti'.waiting <=> f \in rti.waiting
    BY DEF RInv, Aside, Steady
  <1>2. BeginInv(f)'
    <2>1. rti.doing = "save" /\ f \in rti.waiting => pc[f] # "saved"
      BY <1>1 DEF BeginInv
    <2>2. flag'[f].start_to_save => flag[f].start_to_save /\ pc[f] # "saved"
      BY DEF Goes
    <2>3. pc[f] # "saved" /\ flag[f].start_to_save => flag'[f].start_to_save
      BY DEF Goes
    <2>4. pc'[f] # "saved"
      BY DEF Goes
    <2> QED BY <1>1, <2>1, <2>2, <2>3, <2>4 DEF BeginInv
  <1>3. EndInv(f)' /\ BegunInv(f)'
    BY <1>1 DEF EndInv, BegunInv, Steady
  <1>4. StatusInv(f)'
    BY <1>1 DEF StatusInv, Steady, Goes
  <1>5. Done(f)' => Done(f)
    BY <1>1 DEF Done, Goes, Steady
  <1>6. rti.doing = "restore" => Restoring(f)'
    <2> SUFFICES ASSUME rti.doing = "restore" PROVE Restoring(f)'
      OBVIOUS
    <2>1. Restoring(f)
      BY <1>1 DEF PhaseInv
    <2>2. PlaceInv(f)'
      BY <2>1 DEF Goes
    <2>3. ToldInv(f)'
      BY <1>1, <2>1 DEF Restoring, ToldInv, Steady
    <2> QED BY <2>2, <2>3 DEF Restoring
  <1>7. SomeDone => Restored(f)'
    BY <1>1 DEF PhaseInv, Goes
  <1>8. Intact /\ rti.doing # "restore" /\ ~ SomeDone => Calm(f)'
    BY <1>1 DEF PhaseInv, Goes, Calm, Steady
  <1>9. Intact => /\ ~ flag'[f].failed_callback /\ flag'[f].process # "RESTORE_FAILED"
                  /\ ~ Has(inbox'[f], {"NotRestored"})
    BY <1>1 DEF WholeInv, Steady
  <1>10. FileInv(f)' /\ (pc'[f] = "await_status" => pc[f] = "await_status")
    BY DEF Goes
  <1>11. Fits(f)
    BY <1>2, <1>3, <1>4, <1>5, <1>6, <1>7, <1>8, <1>9, <1>10 DEF Fits
  <1> QED BY <1>11, StepFits

\* Steps of a save: they stay outside of restores.
LEMMA ElsewhereStep ==
  ASSUME RInv, Inv', MoreTypes', NEW f \in Federates, f \in members, Aside(f), Steady(f),
         pc[f] \in Elsewhere, pc'[f] \in Elsewhere \ {"saved"}, loaded'[f] = loaded[f],
         flag'[f].announce_restore = flag[f].announce_restore,
         pc[f] # "saved" => flag'[f].start_to_save = flag[f].start_to_save,
         pc[f] = "saved" => ~ flag'[f].start_to_save
  PROVE  RInv'
  <1> USE DEF Elsewhere, Asking, Up
  <1>1. FileInv(f)'
    BY DEF FileInv
  <1>2. rti.doing = "restore" /\ Restoring(f) => PlaceInv(f)'
    BY DEF Restoring, PlaceInv, Steady, Aside, HasLoaded
  <1>3. SomeDone /\ Restored(f) => Restored(f)'
    BY DEF Restored, Steady, Aside
  <1>4. Goes(f)
    BY <1>1, <1>2, <1>3 DEF Goes, Calm
  <1> QED BY <1>4, OwnStep


LEMMA DumpRestores ==
  ASSUME RInv, Inv', NEW f \in Federates, NEW l \in Labels, Dump(f, l)
  PROVE  RInv'
  <1> USE DEF Dump, Goto, federation, files, job
  <1>1. /\ f \in members /\ pc[f] \in Elsewhere /\ pc'[f] \in Elsewhere \ {"saved"}
        /\ \A g \in Federates \ {f} : pc'[g] = pc[g]
    BY DEF RInv, Inv, Types, Elsewhere
  <1>2. flag \in [Federates -> FlagRecord]
    BY DEF RInv, MoreTypes
  <1>3. MoreTypes'
    BY <1>2 DEF RInv, MoreTypes, FlagRecord
  <1>4. Aside(f)
    BY <1>1, <1>2 DEF Aside, RInv, Inv, Types
  <1>5. /\ Steady(f) /\ loaded'[f] = loaded[f]
        /\ flag'[f].announce_restore = flag[f].announce_restore
        /\ pc[f] # "saved" => flag'[f].start_to_save = flag[f].start_to_save
        /\ pc[f] = "saved" => ~ flag'[f].start_to_save
    BY <1>1, <1>2 DEF Steady, FlagRecord, RInv, MoreTypes
  <1> QED BY <1>1, <1>3, <1>4, <1>5, ElsewhereStep

LEMMA PerformCheckpointRestores ==
  ASSUME RInv, Inv', NEW f \in Federates, PerformCheckpoint(f)
  PROVE  RInv'
  <1> USE DEF PerformCheckpoint, Goto, federation, files, job
  <1>1. /\ f \in members /\ pc[f] \in Elsewhere /\ pc'[f] \in Elsewhere \ {"saved"}
        /\ \A g \in Federates \ {f} : pc'[g] = pc[g]
    BY DEF RInv, Inv, Types, Elsewhere
  <1>2. flag \in [Federates -> FlagRecord]
    BY DEF RInv, MoreTypes
  <1>3. MoreTypes'
    BY <1>2 DEF RInv, MoreTypes, FlagRecord
  <1>4. Aside(f)
    BY <1>1, <1>2 DEF Aside, RInv, Inv, Types
  <1>5. /\ Steady(f) /\ loaded'[f] = loaded[f]
        /\ flag'[f].announce_restore = flag[f].announce_restore
        /\ pc[f] # "saved" => flag'[f].start_to_save = flag[f].start_to_save
        /\ pc[f] = "saved" => ~ flag'[f].start_to_save
    BY <1>1, <1>2 DEF Steady, FlagRecord, RInv, MoreTypes
  <1> QED BY <1>1, <1>3, <1>4, <1>5, ElsewhereStep

LEMMA WriteCheckpointRestores ==
  ASSUME RInv, Inv', NEW f \in Federates, WriteCheckpoint(f)
  PROVE  RInv'
  <1> USE DEF WriteCheckpoint, Goto, federation, files, job
  <1>1. /\ f \in members /\ pc[f] \in Elsewhere /\ pc'[f] \in Elsewhere \ {"saved"}
        /\ \A g \in Federates \ {f} : pc'[g] = pc[g]
    BY DEF RInv, Inv, Types, Elsewhere
  <1>2. flag \in [Federates -> FlagRecord]
    BY DEF RInv, MoreTypes
  <1>3. MoreTypes'
    BY <1>2 DEF RInv, MoreTypes, FlagRecord
  <1>4. Aside(f)
    BY <1>1, <1>2 DEF Aside, RInv, Inv, Types
  <1>5. /\ Steady(f) /\ loaded'[f] = loaded[f]
        /\ flag'[f].announce_restore = flag[f].announce_restore
        /\ pc[f] # "saved" => flag'[f].start_to_save = flag[f].start_to_save
        /\ pc[f] = "saved" => ~ flag'[f].start_to_save
    BY <1>1, <1>2 DEF Steady, FlagRecord, RInv, MoreTypes
  <1> QED BY <1>1, <1>3, <1>4, <1>5, ElsewhereStep

LEMMA SaveCompleteRestores ==
  ASSUME RInv, Inv', NEW f \in Federates, SaveComplete(f)
  PROVE  RInv'
  <1> USE DEF SaveComplete, Goto, federation, files, job
  <1>1. /\ f \in members /\ pc[f] \in Elsewhere /\ pc'[f] \in Elsewhere \ {"saved"}
        /\ \A g \in Federates \ {f} : pc'[g] = pc[g]
    BY DEF RInv, Inv, Types, Elsewhere
  <1>2. flag \in [Federates -> FlagRecord]
    BY DEF RInv, MoreTypes
  <1>3. MoreTypes'
    BY <1>2 DEF RInv, MoreTypes, FlagRecord
  <1>4. Aside(f)
    BY <1>1, <1>2 DEF Aside, RInv, Inv, Types
  <1>5. /\ Steady(f) /\ loaded'[f] = loaded[f]
        /\ flag'[f].announce_restore = flag[f].announce_restore
        /\ pc[f] # "saved" => flag'[f].start_to_save = flag[f].start_to_save
        /\ pc[f] = "saved" => ~ flag'[f].start_to_save
    BY <1>1, <1>2 DEF Steady, FlagRecord, RInv, MoreTypes
  <1> QED BY <1>1, <1>3, <1>4, <1>5, ElsewhereStep


LEMMA SetupCheckpointRestores ==
  ASSUME RInv, Inv', NEW f \in Federates, SetupCheckpoint(f)
  PROVE  RInv'
  <1>1. /\ f \in members /\ pc[f] = "setup_checkpoint" /\ pc'[f] \in Elsewhere \ {"saved"}
        /\ \A g \in Federates \ {f} : pc'[g] = pc[g]
        /\ loaded' = loaded /\ inbox' = inbox /\ members' = members /\ saves' = saves
        /\ file' = file
    BY DEF RInv, Inv, Types, Elsewhere, SetupCheckpoint, Goto, files, job
  <1>2. flag \in [Federates -> FlagRecord]
    BY DEF RInv, MoreTypes
  <1>3. flag' = [flag EXCEPT ![f].announce_save = ~ flag[f].start_to_save]
    BY DEF SetupCheckpoint
  <1>4. rti' = rti \/ rti' = [rti EXCEPT !.begun = @ \cup {f}]
    BY DEF SetupCheckpoint
  <1>5. /\ rti'.doing = rti.doing /\ rti'.number = rti.number /\ rti'.waiting = rti.waiting
        /\ rti'.begun \subseteq rti.begun \cup {f}
    <2>1. rti \in RtiStates
      BY DEF RInv, Inv, Types
    <2>2. CASE rti' = [rti EXCEPT !.begun = @ \cup {f}]
      BY <2>1, <2>2 DEF RtiStates
    <2>3. CASE rti' = rti
      BY <2>3
    <2> QED BY <1>4, <2>2, <2>3
  <1>6. MoreTypes'
    <2>1. flag' \in [Federates -> FlagRecord]
      <3>1. /\ flag[f] \in FlagRecord /\ flag'[f] \in FlagRecord
            /\ \A g \in Federates \ {f} : flag'[g] = flag[g]
        BY <1>2, <1>3 DEF FlagRecord
      <3> QED BY <1>2, <1>3, <3>1
    <2> QED BY <1>1, <1>5, <2>1 DEF RInv, MoreTypes
  <1>7. Aside(f)
    BY <1>1, <1>2, <1>3, <1>5 DEF Aside
  <1>8. /\ Steady(f) /\ flag'[f].announce_restore = flag[f].announce_restore
        /\ flag'[f].start_to_save = flag[f].start_to_save
    BY <1>1, <1>2, <1>3, <1>5 DEF Steady, FlagRecord
  <1>9. pc[f] \in Elsewhere /\ pc[f] # "saved" /\ loaded'[f] = loaded[f]
    BY <1>1 DEF Elsewhere
  <1> QED BY <1>1, <1>6, <1>7, <1>8, <1>9, ElsewhereStep

-----------------------------------------------------------------------------
(* Steps of a restore.                                                     *)

LEMMA PerformRestoreRestores ==
  ASSUME RInv, Inv', NEW f \in Federates, PerformRestore(f)
  PROVE  RInv'
  <1> USE DEF PerformRestore, Goto, federation, files, job, Elsewhere, Asking, Up
  <1>1. /\ f \in members /\ \A g \in Federates \ {f} : pc'[g] = pc[g]
    BY DEF RInv, Inv, Types
  <1>2. flag \in [Federates -> FlagRecord]
    BY DEF RInv, MoreTypes
  <1>3. MoreTypes'
    <2>1. flag' \in [Federates -> FlagRecord]
      BY <1>2
    <2>2. loaded' \in [Federates -> Nat]
      BY DEF RInv, MoreTypes, Inv, Types, RtiStates
    <2> QED BY <2>1, <2>2 DEF RInv, MoreTypes
  <1>4. Aside(f)
    BY <1>1, <1>2 DEF Aside, RInv, MoreTypes, Inv, Types
  <1>5. Steady(f)
    BY <1>2 DEF Steady, FlagRecord
  <1>6. FileInv(f)'
    BY <1>1, <1>2 DEF RInv, Inv, Types, FileInv, WholeInv, Intact, FlagRecord
  <1>7. ASSUME rti.doing = "restore", Restoring(f) PROVE PlaceInv(f)'
    BY <1>1, <1>2, <1>7
    DEF Restoring, PlaceInv, HasLoaded, RInv, MoreTypes, Inv, Types, FlagRecord
  <1>8. ASSUME SomeDone, Restored(f) PROVE Restored(f)'
    BY <1>1, <1>2, <1>8 DEF Restored, RInv, Inv, Types, FlagRecord
  <1>9. ASSUME Intact, Calm(f)
        PROVE  /\ pc'[f] \in Elsewhere \cup Asking \cup {"terminate"}
               /\ pc'[f] \in Elsewhere => ~ flag'[f].announce_restore
    BY <1>1, <1>2, <1>9 DEF Calm, RInv, Inv, Types, FlagRecord
  <1>10. /\ pc[f] # "saved" /\ pc'[f] # "saved" /\ flag'[f].start_to_save = flag[f].start_to_save
         /\ pc'[f] = "await_status" <=> pc[f] = "await_status" /\ ~ flag[f].request_complete
         /\ pc'[f] = "rebuild" => Done(f)
         /\ pc'[f] = "await_restored" => pc[f] = "await_restored" \/ ~ flag[f].restore_completed
    BY <1>1, <1>2 DEF Done, RInv, Inv, Types, FlagRecord
  <1>11. Goes(f)
    BY <1>6, <1>7, <1>8, <1>9, <1>10 DEF Goes
  <1> QED BY <1>1, <1>3, <1>4, <1>5, <1>11, OwnStep

LEMMA SetupRestoreRestores ==
  ASSUME RInv, Inv', NEW f \in Federates, SetupRestore(f)
  PROVE  RInv'
  <1> USE DEF SetupRestore, Goto, federation, files, job, Elsewhere, Asking, Up
  <1>1. /\ f \in members /\ \A g \in Federates \ {f} : pc'[g] = pc[g]
    BY DEF RInv, Inv, Types
  <1>2. flag \in [Federates -> FlagRecord]
    BY DEF RInv, MoreTypes
  <1>3. MoreTypes'
    <2>1. flag' \in [Federates -> FlagRecord]
      <3>1. /\ flag[f] \in FlagRecord /\ flag'[f] \in FlagRecord
            /\ \A g \in Federates \ {f} : flag'[g] = flag[g]
        BY <1>2 DEF FlagRecord, Processes
      <3> QED BY <1>2, <3>1
    <2>2. loaded' \in [Federates -> Nat]
      BY DEF RInv, MoreTypes, Inv, Types, RtiStates
    <2> QED BY <2>1, <2>2 DEF RInv, MoreTypes
  <1>4. Aside(f)
    BY <1>1, <1>2 DEF Aside, RInv, MoreTypes, Inv, Types
  <1>5. Steady(f)
    BY <1>2 DEF Steady, FlagRecord
  <1>6. FileInv(f)'
    BY <1>1, <1>2 DEF RInv, Inv, Types, FileInv, WholeInv, Intact, FlagRecord
  <1>7. ASSUME rti.doing = "restore", Restoring(f) PROVE PlaceInv(f)'
    BY <1>1, <1>2, <1>7
    DEF Restoring, PlaceInv, HasLoaded, RInv, MoreTypes, Inv, Types, FlagRecord
  <1>8. ASSUME SomeDone, Restored(f) PROVE Restored(f)'
    BY <1>1, <1>2, <1>8 DEF Restored, RInv, Inv, Types, FlagRecord
  <1>9. ASSUME Intact, Calm(f)
        PROVE  /\ pc'[f] \in Elsewhere \cup Asking \cup {"terminate"}
               /\ pc'[f] \in Elsewhere => ~ flag'[f].announce_restore
    BY <1>1, <1>2, <1>9 DEF Calm, RInv, Inv, Types, FlagRecord
  <1>10. /\ pc[f] # "saved" /\ pc'[f] # "saved" /\ flag'[f].start_to_save = flag[f].start_to_save
         /\ pc'[f] = "await_status" <=> pc[f] = "await_status" /\ ~ flag[f].request_complete
         /\ pc'[f] = "rebuild" => Done(f)
         /\ pc'[f] = "await_restored" => pc[f] = "await_restored" \/ ~ flag[f].restore_completed
    BY <1>1, <1>2 DEF Done, RInv, Inv, Types, FlagRecord
  <1>11. Goes(f)
    BY <1>6, <1>7, <1>8, <1>9, <1>10 DEF Goes
  <1> QED BY <1>1, <1>3, <1>4, <1>5, <1>11, OwnStep

LEMMA DoNotRequestRestores ==
  ASSUME RInv, Inv', NEW f \in Federates, DoNotRequest(f)
  PROVE  RInv'
  <1> USE DEF DoNotRequest, Goto, federation, files, job, Elsewhere, Asking, Up
  <1>1. /\ f \in members /\ \A g \in Federates \ {f} : pc'[g] = pc[g]
    BY DEF RInv, Inv, Types
  <1>2. flag \in [Federates -> FlagRecord]
    BY DEF RInv, MoreTypes
  <1>3. MoreTypes'
    <2>1. flag' \in [Federates -> FlagRecord]
      <3>1. /\ flag[f] \in FlagRecord /\ flag'[f] \in FlagRecord
            /\ \A g \in Federates \ {f} : flag'[g] = flag[g]
        BY <1>2 DEF FlagRecord, Processes
      <3> QED BY <1>2, <3>1
    <2>2. loaded' \in [Federates -> Nat]
      BY DEF RInv, MoreTypes, Inv, Types, RtiStates
    <2> QED BY <2>1, <2>2 DEF RInv, MoreTypes
  <1>4. Aside(f)
    BY <1>1, <1>2 DEF Aside, RInv, MoreTypes, Inv, Types
  <1>5. Steady(f)
    BY <1>2 DEF Steady, FlagRecord
  <1>6. FileInv(f)'
    BY <1>1, <1>2 DEF RInv, Inv, Types, FileInv, WholeInv, Intact, FlagRecord
  <1>7. ASSUME rti.doing = "restore", Restoring(f) PROVE PlaceInv(f)'
    BY <1>1, <1>2, <1>7
    DEF Restoring, PlaceInv, HasLoaded, RInv, MoreTypes, Inv, Types, FlagRecord
  <1>8. ASSUME SomeDone, Restored(f) PROVE Restored(f)'
    BY <1>1, <1>2, <1>8 DEF Restored, RInv, Inv, Types, FlagRecord
  <1>9. ASSUME Intact, Calm(f)
        PROVE  /\ pc'[f] \in Elsewhere \cup Asking \cup {"terminate"}
               /\ pc'[f] \in Elsewhere => ~ flag'[f].announce_restore
    BY <1>1, <1>2, <1>9 DEF Calm, RInv, Inv, Types, FlagRecord
  <1>10. /\ pc[f] # "saved" /\ pc'[f] # "saved" /\ flag'[f].start_to_save = flag[f].start_to_save
         /\ pc'[f] = "await_status" <=> pc[f] = "await_status" /\ ~ flag[f].request_complete
         /\ pc'[f] = "rebuild" => Done(f)
         /\ pc'[f] = "await_restored" => pc[f] = "await_restored" \/ ~ flag[f].restore_completed
    BY <1>1, <1>2 DEF Done, RInv, Inv, Types, FlagRecord
  <1>11. Goes(f)
    BY <1>6, <1>7, <1>8, <1>9, <1>10 DEF Goes
  <1> QED BY <1>1, <1>3, <1>4, <1>5, <1>11, OwnStep

LEMMA RequestedRestores ==
  ASSUME RInv, Inv', NEW f \in Federates, Requested(f)
  PROVE  RInv'
  <1> USE DEF Requested, Goto, federation, files, job, Elsewhere, Asking, Up
  <1>1. /\ f \in members /\ \A g \in Federates \ {f} : pc'[g] = pc[g]
    BY DEF RInv, Inv, Types
  <1>2. flag \in [Federates -> FlagRecord]
    BY DEF RInv, MoreTypes
  <1>3. MoreTypes'
    <2>1. flag' \in [Federates -> FlagRecord]
      <3>1. /\ flag[f] \in FlagRecord /\ flag'[f] \in FlagRecord
            /\ \A g \in Federates \ {f} : flag'[g] = flag[g]
        BY <1>2 DEF FlagRecord, Processes
      <3> QED BY <1>2, <3>1
    <2>2. loaded' \in [Federates -> Nat]
      BY DEF RInv, MoreTypes, Inv, Types, RtiStates
    <2> QED BY <2>1, <2>2 DEF RInv, MoreTypes
  <1>4. Aside(f)
    BY <1>1, <1>2 DEF Aside, RInv, MoreTypes, Inv, Types
  <1>5. Steady(f)
    BY <1>2 DEF Steady, FlagRecord
  <1>6. FileInv(f)'
    BY <1>1, <1>2 DEF RInv, Inv, Types, FileInv, WholeInv, Intact, FlagRecord
  <1>7. ASSUME rti.doing = "restore", Restoring(f) PROVE PlaceInv(f)'
    BY <1>1, <1>2, <1>7
    DEF Restoring, PlaceInv, HasLoaded, RInv, MoreTypes, Inv, Types, FlagRecord
  <1>8. ASSUME SomeDone, Restored(f) PROVE Restored(f)'
    BY <1>1, <1>2, <1>8 DEF Restored, RInv, Inv, Types, FlagRecord
  <1>9. ASSUME Intact, Calm(f)
        PROVE  /\ pc'[f] \in Elsewhere \cup Asking \cup {"terminate"}
               /\ pc'[f] \in Elsewhere => ~ flag'[f].announce_restore
    BY <1>1, <1>2, <1>9 DEF Calm, RInv, Inv, Types, FlagRecord
  <1>10. /\ pc[f] # "saved" /\ pc'[f] # "saved" /\ flag'[f].start_to_save = flag[f].start_to_save
         /\ pc'[f] = "await_status" <=> pc[f] = "await_status" /\ ~ flag[f].request_complete
         /\ pc'[f] = "rebuild" => Done(f)
         /\ pc'[f] = "await_restored" => pc[f] = "await_restored" \/ ~ flag[f].restore_completed
    BY <1>1, <1>2 DEF Done, RInv, Inv, Types, FlagRecord
  <1>11. Goes(f)
    BY <1>6, <1>7, <1>8, <1>9, <1>10 DEF Goes
  <1> QED BY <1>1, <1>3, <1>4, <1>5, <1>11, OwnStep

LEMMA AwaitStartRestores ==
  ASSUME RInv, Inv', NEW f \in Federates, AwaitStart(f)
  PROVE  RInv'
  <1> USE DEF AwaitStart, Goto, federation, files, job, Elsewhere, Asking, Up
  <1>1. /\ f \in members /\ \A g \in Federates \ {f} : pc'[g] = pc[g]
    BY DEF RInv, Inv, Types
  <1>2. flag \in [Federates -> FlagRecord]
    BY DEF RInv, MoreTypes
  <1>3. MoreTypes'
    <2>1. flag' \in [Federates -> FlagRecord]
      <3>1. /\ flag[f] \in FlagRecord /\ flag'[f] \in FlagRecord
            /\ \A g \in Federates \ {f} : flag'[g] = flag[g]
        BY <1>2 DEF FlagRecord, Processes
      <3> QED BY <1>2, <3>1
    <2>2. loaded' \in [Federates -> Nat]
      BY DEF RInv, MoreTypes, Inv, Types, RtiStates
    <2> QED BY <2>1, <2>2 DEF RInv, MoreTypes
  <1>4. Aside(f)
    BY <1>1, <1>2 DEF Aside, RInv, MoreTypes, Inv, Types
  <1>5. Steady(f)
    BY <1>2 DEF Steady, FlagRecord
  <1>6. FileInv(f)'
    BY <1>1, <1>2 DEF RInv, Inv, Types, FileInv, WholeInv, Intact, FlagRecord
  <1>7. ASSUME rti.doing = "restore", Restoring(f) PROVE PlaceInv(f)'
    BY <1>1, <1>2, <1>7
    DEF Restoring, PlaceInv, HasLoaded, RInv, MoreTypes, Inv, Types, FlagRecord
  <1>8. ASSUME SomeDone, Restored(f) PROVE Restored(f)'
    BY <1>1, <1>2, <1>8 DEF Restored, RInv, Inv, Types, FlagRecord
  <1>9. ASSUME Intact, Calm(f)
        PROVE  /\ pc'[f] \in Elsewhere \cup Asking \cup {"terminate"}
               /\ pc'[f] \in Elsewhere => ~ flag'[f].announce_restore
    BY <1>1, <1>2, <1>9 DEF Calm, RInv, Inv, Types, FlagRecord
  <1>10. /\ pc[f] # "saved" /\ pc'[f] # "saved" /\ flag'[f].start_to_save = flag[f].start_to_save
         /\ pc'[f] = "await_status" <=> pc[f] = "await_status" /\ ~ flag[f].request_complete
         /\ pc'[f] = "rebuild" => Done(f)
         /\ pc'[f] = "await_restored" => pc[f] = "await_restored" \/ ~ flag[f].restore_completed
    BY <1>1, <1>2 DEF Done, RInv, Inv, Types, FlagRecord
  <1>11. Goes(f)
    BY <1>6, <1>7, <1>8, <1>9, <1>10 DEF Goes
  <1> QED BY <1>1, <1>3, <1>4, <1>5, <1>11, OwnStep

LEMMA LoadCheckpointRestores ==
  ASSUME RInv, Inv', NEW f \in Federates, LoadCheckpoint(f)
  PROVE  RInv'
  <1> USE DEF LoadCheckpoint, Goto, federation, files, job, Elsewhere, Asking, Up
  <1>1. /\ f \in members /\ \A g \in Federates \ {f} : pc'[g] = pc[g]
    BY DEF RInv, Inv, Types
  <1>2. flag \in [Federates -> FlagRecord]
    BY DEF RInv, MoreTypes
  <1>3. MoreTypes'
    <2>1. flag' \in [Federates -> FlagRecord]
      BY <1>2
    <2>2. loaded' \in [Federates -> Nat]
      BY DEF RInv, MoreTypes, Inv, Types, RtiStates
    <2> QED BY <2>1, <2>2 DEF RInv, MoreTypes
  <1>4. Aside(f)
    BY <1>1, <1>2 DEF Aside, RInv, MoreTypes, Inv, Types
  <1>5. Steady(f)
    BY <1>2 DEF Steady, FlagRecord
  <1>6. FileInv(f)'
    BY <1>1, <1>2 DEF RInv, Inv, Types, FileInv, WholeInv, Intact, FlagRecord
  <1>7. ASSUME rti.doing = "restore", Restoring(f) PROVE PlaceInv(f)'
    BY <1>1, <1>2, <1>7
    DEF Restoring, PlaceInv, HasLoaded, RInv, MoreTypes, Inv, Types, FlagRecord
  <1>8. ASSUME SomeDone, Restored(f) PROVE Restored(f)'
    BY <1>1, <1>2, <1>8 DEF Restored, RInv, Inv, Types, FlagRecord
  <1>9. ASSUME Intact, Calm(f)
        PROVE  /\ pc'[f] \in Elsewhere \cup Asking \cup {"terminate"}
               /\ pc'[f] \in Elsewhere => ~ flag'[f].announce_restore
    BY <1>1, <1>2, <1>9 DEF Calm, RInv, Inv, Types, FlagRecord
  <1>10. /\ pc[f] # "saved" /\ pc'[f] # "saved" /\ flag'[f].start_to_save = flag[f].start_to_save
         /\ pc'[f] = "await_status" <=> pc[f] = "await_status" /\ ~ flag[f].request_complete
         /\ pc'[f] = "rebuild" => Done(f)
         /\ pc'[f] = "await_restored" => pc[f] = "await_restored" \/ ~ flag[f].restore_completed
    BY <1>1, <1>2 DEF Done, RInv, Inv, Types, FlagRecord
  <1>11. Goes(f)
    BY <1>6, <1>7, <1>8, <1>9, <1>10 DEF Goes
  <1> QED BY <1>1, <1>3, <1>4, <1>5, <1>11, OwnStep

LEMMA PostRestoreRestores ==
  ASSUME RInv, Inv', NEW f \in Federates, PostRestore(f)
  PROVE  RInv'
  <1> USE DEF PostRestore, Goto, federation, files, job, Elsewhere, Asking, Up
  <1>1. /\ f \in members /\ \A g \in Federates \ {f} : pc'[g] = pc[g]
    BY DEF RInv, Inv, Types
  <1>2. flag \in [Federates -> FlagRecord]
    BY DEF RInv, MoreTypes
  <1>3. MoreTypes'
    <2>1. flag' \in [Federates -> FlagRecord]
      <3>1. /\ flag[f] \in FlagRecord /\ flag'[f] \in FlagRecord
            /\ \A g \in Federates \ {f} : flag'[g] = flag[g]
        BY <1>2 DEF FlagRecord, Processes
      <3> QED BY <1>2, <3>1
    <2>2. loaded' \in [Federates -> Nat]
      BY DEF RInv, MoreTypes, Inv, Types, RtiStates
    <2> QED BY <2>1, <2>2 DEF RInv, MoreTypes
  <1>4. Aside(f)
    BY <1>1, <1>2 DEF Aside, RInv, MoreTypes, Inv, Types
  <1>5. Steady(f)
    BY <1>2 DEF Steady, FlagRecord
  <1>6. FileInv(f)'
    BY <1>1, <1>2 DEF RInv, Inv, Types, FileInv, WholeInv, Intact, FlagRecord
  <1>7. ASSUME rti.doing = "restore", Restoring(f) PROVE PlaceInv(f)'
    BY <1>1, <1>2, <1>7
    DEF Restoring, PlaceInv, HasLoaded, RInv, MoreTypes, Inv, Types, FlagRecord
  <1>8. ASSUME SomeDone, Restored(f) PROVE Restored(f)'
    BY <1>1, <1>2, <1>8 DEF Restored, RInv, Inv, Types, FlagRecord
  <1>9. ASSUME Intact, Calm(f)
        PROVE  /\ pc'[f] \in Elsewhere \cup Asking \cup {"terminate"}
               /\ pc'[f] \in Elsewhere => ~ flag'[f].announce_restore
    BY <1>1, <1>2, <1>9 DEF Calm, RInv, Inv, Types, FlagRecord
  <1>10. /\ pc[f] # "saved" /\ pc'[f] # "saved" /\ flag'[f].start_to_save = flag[f].start_to_save
         /\ pc'[f] = "await_status" <=> pc[f] = "await_status" /\ ~ flag[f].request_complete
         /\ pc'[f] = "rebuild" => Done(f)
         /\ pc'[f] = "await_restored" => pc[f] = "await_restored" \/ ~ flag[f].restore_completed
    BY <1>1, <1>2 DEF Done, RInv, Inv, Types, FlagRecord
  <1>11. Goes(f)
    BY <1>6, <1>7, <1>8, <1>9, <1>10 DEF Goes
  <1> QED BY <1>1, <1>3, <1>4, <1>5, <1>11, OwnStep

LEMMA PreserveRestores ==
  ASSUME RInv, Inv', NEW f \in Federates, Preserve(f)
  PROVE  RInv'
  <1> USE DEF Preserve, Goto, federation, files, job, Elsewhere, Asking, Up
  <1>1. /\ f \in members /\ \A g \in Federates \ {f} : pc'[g] = pc[g]
    BY DEF RInv, Inv, Types
  <1>2. flag \in [Federates -> FlagRecord]
    BY DEF RInv, MoreTypes
  <1>3. MoreTypes'
    <2>1. flag' \in [Federates -> FlagRecord]
      <3>1. /\ flag[f] \in FlagRecord /\ flag'[f] \in FlagRecord
            /\ \A g \in Federates \ {f} : flag'[g] = flag[g]
        BY <1>2 DEF FlagRecord, Processes
      <3> QED BY <1>2, <3>1
    <2>2. loaded' \in [Federates -> Nat]
      BY DEF RInv, MoreTypes, Inv, Types, RtiStates
    <2> QED BY <2>1, <2>2 DEF RInv, MoreTypes
  <1>4. Aside(f)
    BY <1>1, <1>2 DEF Aside, RInv, MoreTypes, Inv, Types
  <1>5. Steady(f)
    BY <1>2 DEF Steady, FlagRecord
  <1>6. FileInv(f)'
    BY <1>1, <1>2 DEF RInv, Inv, Types, FileInv, WholeInv, Intact, FlagRecord
  <1>7. ASSUME rti.doing = "restore", Restoring(f) PROVE PlaceInv(f)'
    BY <1>1, <1>2, <1>7
    DEF Restoring, PlaceInv, HasLoaded, RInv, MoreTypes, Inv, Types, FlagRecord
  <1>8. ASSUME SomeDone, Restored(f) PROVE Restored(f)'
    BY <1>1, <1>2, <1>8 DEF Restored, RInv, Inv, Types, FlagRecord
  <1>9. ASSUME Intact, Calm(f)
        PROVE  /\ pc'[f] \in Elsewhere \cup Asking \cup {"terminate"}
               /\ pc'[f] \in Elsewhere => ~ flag'[f].announce_restore
    BY <1>1, <1>2, <1>9 DEF Calm, RInv, Inv, Types, FlagRecord
  <1>10. /\ pc[f] # "saved" /\ pc'[f] # "saved" /\ flag'[f].start_to_save = flag[f].start_to_save
         /\ pc'[f] = "await_status" <=> pc[f] = "await_status" /\ ~ flag[f].request_complete
         /\ pc'[f] = "rebuild" => Done(f)
         /\ pc'[f] = "await_restored" => pc[f] = "await_restored" \/ ~ flag[f].restore_completed
    BY <1>1, <1>2 DEF Done, RInv, Inv, Types, FlagRecord
  <1>11. Goes(f)
    BY <1>6, <1>7, <1>8, <1>9, <1>10 DEF Goes
  <1> QED BY <1>1, <1>3, <1>4, <1>5, <1>11, OwnStep

LEMMA AwaitRestoredRestores ==
  ASSUME RInv, Inv', NEW f \in Federates, AwaitRestored(f)
  PROVE  RInv'
  <1> USE DEF AwaitRestored, Goto, federation, files, job, Elsewhere, Asking, Up
  <1>1. /\ f \in members /\ \A g \in Federates \ {f} : pc'[g] = pc[g]
    BY DEF RInv, Inv, Types
  <1>2. flag \in [Federates -> FlagRecord]
    BY DEF RInv, MoreTypes
  <1>3. MoreTypes'
    <2>1. flag' \in [Federates -> FlagRecord]
      BY <1>2
    <2>2. loaded' \in [Federates -> Nat]
      BY DEF RInv, MoreTypes, Inv, Types, RtiStates
    <2> QED BY <2>1, <2>2 DEF RInv, MoreTypes
  <1>4. Aside(f)
    BY <1>1, <1>2 DEF Aside, RInv, MoreTypes, Inv, Types
  <1>5. Steady(f)
    BY <1>2 DEF Steady, FlagRecord
  <1>6. FileInv(f)'
    BY <1>1, <1>2 DEF RInv, Inv, Types, FileInv, WholeInv, Intact, FlagRecord
  <1>7. ASSUME rti.doing = "restore", Restoring(f) PROVE PlaceInv(f)'
    <2>1. Intact /\ ~ flag[f].failed_callback /\ flag[f].process # "RESTORE_FAILED"
      BY <1>7 DEF RInv, WholeInv
    <2>2. ~ flag[f].restore_completed
      BY <1>7 DEF Restoring, PlaceInv
    <2>3. \/ flag[f].restore_completed \/ flag[f].failed_callback
          \/ flag[f].process = "RESTORE_FAILED"
      OBVIOUS
    <2> QED BY <2>1, <2>2, <2>3, Zenon
  <1>8. ASSUME SomeDone, Restored(f) PROVE Restored(f)'
    BY <1>1, <1>2, <1>8 DEF Restored, RInv, Inv, Types, FlagRecord
  <1>9. ASSUME Intact, Calm(f)
        PROVE  /\ pc'[f] \in Elsewhere \cup Asking \cup {"terminate"}
               /\ pc'[f] \in Elsewhere => ~ flag'[f].announce_restore
    BY <1>1, <1>2, <1>9 DEF Calm, RInv, Inv, Types, FlagRecord
  <1>10. /\ pc[f] # "saved" /\ pc'[f] # "saved" /\ flag'[f].start_to_save = flag[f].start_to_save
         /\ pc'[f] = "await_status" <=> pc[f] = "await_status" /\ ~ flag[f].request_complete
         /\ pc'[f] = "rebuild" => Done(f)
         /\ pc'[f] = "await_restored" => pc[f] = "await_restored" \/ ~ flag[f].restore_completed
    BY <1>1, <1>2 DEF Done, RInv, Inv, Types, FlagRecord
  <1>11. Goes(f)
    BY <1>6, <1>7, <1>8, <1>9, <1>10 DEF Goes
  <1> QED BY <1>1, <1>3, <1>4, <1>5, <1>11, OwnStep


\* Whoever has yet to take up what was restored is not done with it.
LEMMA DoneIsBusy ==
  ASSUME RInv, NEW d \in members, Done(d)
  PROVE  /\ rti.doing = "nothing" /\ Restored(d) /\ pc[d] \in {"await_restored", "rebuild"}
         /\ ~ Quiet(d) /\ SomeDone
  <1>1. SomeDone /\ Restored(d) /\ rti.doing = "nothing"
    BY DEF SomeDone, RInv, PhaseInv
  <1>2. pc[d] \in {"await_restored", "rebuild"}
    <2>1. CASE Has(inbox[d], {"Restored"})
      <3>1. inbox[d] \in Seq(Messages)
        BY DEF RInv, Inv, Types
      <3>2. inbox[d] # <<>>
        BY <2>1 DEF Has
      <3> QED BY <1>1, <3>2 DEF Restored
    <2> QED BY <2>1 DEF Done
  <1> QED BY <1>1, <1>2 DEF Quiet

LEMMA LoadRestores ==
  ASSUME RInv, Inv', NEW f \in Federates, NEW l \in Labels, Load(f, l)
  PROVE  RInv'
  <1>0. ~ SomeDone
    <2> SUFFICES ASSUME NEW d \in members, Done(d) PROVE FALSE
      BY DEF SomeDone
    <2> QED BY DoneIsBusy DEF Load
  <1> USE DEF Load, Goto, federation, files, job, Elsewhere, Asking, Up
  <1>1. /\ f \in members /\ \A g \in Federates \ {f} : pc'[g] = pc[g]
    BY DEF RInv, Inv, Types
  <1>2. flag' = flag /\ loaded' = loaded /\ rti' = rti
    OBVIOUS
  <1>3. MoreTypes'
    BY <1>2 DEF RInv, MoreTypes
  <1>4. Aside(f)
    BY <1>1, <1>2 DEF Aside, RInv, MoreTypes, Inv, Types
  <1>5. Steady(f)
    BY <1>2 DEF Steady
  <1>6. FileInv(f)'
    BY <1>1, <1>2 DEF RInv, Inv, Types, FileInv, Intact
  <1>7. ASSUME rti.doing = "restore", Restoring(f) PROVE PlaceInv(f)'
    BY <1>1, <1>2, <1>7 DEF Restoring, PlaceInv, HasLoaded, RInv, MoreTypes, Inv, Types
  <1>8. ASSUME Intact, Calm(f)
        PROVE  /\ pc'[f] \in Elsewhere \cup Asking \cup {"terminate"}
               /\ pc'[f] \in Elsewhere => ~ flag'[f].announce_restore
    BY <1>1, <1>2, <1>8 DEF Calm, RInv, Inv, Types
  <1>9. pc[f] # "saved" /\ pc'[f] = "setup_restore" /\ pc[f] = "frozen"
    BY <1>1 DEF RInv, Inv, Types
  <1>10. Goes(f)
    BY <1>0, <1>2, <1>6, <1>7, <1>8, <1>9 DEF Goes
  <1> QED BY <1>1, <1>3, <1>4, <1>5, <1>10, OwnStep

LEMMA RebuildRestores ==
  ASSUME RInv, Inv', NEW f \in Federates, Rebuild(f)
  PROVE  RInv'
  <1>1. /\ f \in members /\ pc[f] = "rebuild" /\ pc'[f] = "frozen"
        /\ \A g \in Federates \ {f} : pc'[g] = pc[g]
        /\ UNCHANGED <<members, inbox, rti, saves, file, loaded>>
    BY DEF Rebuild, Goto, RInv, Inv, Types, federation, job, files
  <1>2. flag \in [Federates -> FlagRecord]
    BY DEF RInv, MoreTypes
  <1>3. /\ flag'[f] \in FlagRecord
        /\ flag'[f].start_to_save = flag[f].start_to_save
        /\ flag'[f].failed_callback = flag[f].failed_callback
        /\ flag'[f].process = "NO_RESTORE"
        /\ ~ flag'[f].start_to_restore /\ ~ flag'[f].announce_restore
        /\ ~ flag'[f].restore_begun
    <2>1. flag'[f] = [flag[f] EXCEPT !.start_to_restore = FALSE, !.announce_restore = FALSE,
                                     !.restore_begun = FALSE, !.process = "NO_RESTORE"]
      BY <1>2 DEF Rebuild
    <2>2. flag[f] \in FlagRecord
      BY <1>2
    <2> QED BY <2>1, <2>2 DEF FlagRecord, Processes
  <1>4. \A g \in Federates \ {f} : flag'[g] = flag[g]
    BY <1>2 DEF Rebuild
  <1>5. MoreTypes'
    <2>1. flag' \in [Federates -> FlagRecord]
      BY <1>2, <1>3, <1>4 DEF Rebuild
    <2> QED BY <1>1, <2>1 DEF RInv, MoreTypes
  <1>6. Aside(f)
    BY <1>1, <1>4 DEF Aside
  <1>7. Done(f)
    BY <1>1 DEF Done
  <1>8. rti.doing = "nothing" /\ Restored(f) /\ SomeDone
    BY <1>1, <1>7, DoneIsBusy
  <1>9. inbox[f] = <<>> /\ Len(inbox[f]) = 0
    BY <1>1, <1>8 DEF Restored
  <1>10. Restored(f)'
    BY <1>1, <1>3, <1>8, <1>9 DEF Restored, Elsewhere
  <1>11. BeginInv(f) /\ WholeInv
    BY <1>1 DEF RInv
  <1>12. BeginInv(f)' /\ EndInv(f)' /\ StatusInv(f)' /\ FileInv(f)' /\ BegunInv(f)'
    BY <1>1, <1>3, <1>8, <1>9, <1>11 DEF BeginInv, EndInv, StatusInv, FileInv, BegunInv, Has
  <1>13. Intact => /\ ~ flag'[f].failed_callback /\ flag'[f].process # "RESTORE_FAILED"
                   /\ ~ Has(inbox'[f], {"NotRestored"})
    BY <1>1, <1>3, <1>11 DEF WholeInv
  <1>14. Fits(f)
    BY <1>1, <1>7, <1>8, <1>10, <1>12, <1>13 DEF Fits
  <1> QED BY <1>1, <1>5, <1>6, <1>14, StepFits

-----------------------------------------------------------------------------
(* Callbacks.                                                              *)

\* What is left when the first message is taken.
LEMMA TailOf ==
  ASSUME NEW s \in Seq(Messages), s # <<>>
  PROVE  /\ Tail(s) \in Seq(Messages) /\ Len(s) \in Nat /\ Len(s) >= 1
         /\ Len(Tail(s)) = Len(s) - 1 /\ Head(s) = s[1] /\ Head(s).kind \in Kinds
         /\ \A i \in 1..Len(Tail(s)) : i + 1 \in 1..Len(s) /\ Tail(s)[i] = s[i + 1]
         /\ \A i \in 1..Len(s) : i = 1 \/ (i - 1 \in 1..Len(Tail(s)) /\ s[i] = Tail(s)[i - 1])
  <1>1. Head(s) \in Messages
    OBVIOUS
  <1> QED BY <1>1 DEF Messages

LEMMA HasTail ==
  ASSUME NEW s \in Seq(Messages), s # <<>>, NEW kinds
  PROVE  /\ Has(Tail(s), kinds) => Has(s, kinds)
         /\ Has(s, kinds) => Head(s).kind \in kinds \/ Has(Tail(s), kinds)
         /\ Behind(s, 1, kinds) => Has(Tail(s), kinds)
         /\ \A i \in 1..Len(Tail(s)) : Behind(s, i + 1, kinds) => Behind(Tail(s), i, kinds)
  <1> DEFINE t == Tail(s)
  <1>1. /\ Len(s) \in Nat /\ Len(t) = Len(s) - 1 /\ Head(s) = s[1]
        /\ \A i \in 1..Len(t) : i + 1 \in 1..Len(s) /\ t[i] = s[i + 1]
        /\ \A i \in 1..Len(s) : i = 1 \/ (i - 1 \in 1..Len(t) /\ s[i] = t[i - 1])
    BY TailOf
  <1> HIDE DEF t
  <1>2. Has(t, kinds) => Has(s, kinds)
    BY <1>1 DEF Has
  <1>3. Has(s, kinds) => Head(s).kind \in kinds \/ Has(t, kinds)
    BY <1>1 DEF Has
  <1>4. Behind(s, 1, kinds) => Has(t, kinds)
    BY <1>1 DEF Has, Behind
  <1>5. ASSUME NEW i \in 1..Len(t), Behind(s, i + 1, kinds)
        PROVE  Behind(t, i, kinds)
    <2>1. PICK j \in 1..Len(s) : i + 1 < j /\ s[j].kind \in kinds
      BY <1>5 DEF Behind
    <2>2. j # 1 /\ i < j - 1 /\ j - 1 \in 1..Len(t) /\ s[j] = t[j - 1]
      BY <1>1, <2>1
    <2> QED BY <2>1, <2>2 DEF Behind
  <1> QED BY <1>2, <1>3, <1>4, <1>5 DEF t

\* What a callback of kind k makes of the flags u.
Sets(k, u, v) ==
  /\ v.announce_restore = u.announce_restore /\ v.prev_process = u.prev_process
  /\ v.start_to_save = IF k = "InitiateSave" THEN TRUE
                       ELSE IF k \in SaveEnds THEN FALSE ELSE u.start_to_save
  /\ v.start_to_restore = IF k = "InitiateRestore" THEN TRUE
                          ELSE IF k \in RestoreEnds THEN FALSE ELSE u.start_to_restore
  /\ v.restore_begun = IF k = "RestoreBegun" THEN TRUE
                       ELSE IF k \in RestoreEnds THEN FALSE ELSE u.restore_begun
  /\ v.restore_completed = IF k = "RestoreBegun" THEN FALSE
                           ELSE IF k \in RestoreEnds THEN TRUE ELSE u.restore_completed
  /\ v.request_complete = IF k \in Statuses THEN TRUE ELSE u.request_complete
  /\ v.failed_callback = IF k = "NotRestored" THEN TRUE ELSE u.failed_callback
  /\ k \notin {"NobodyRestores", "RequestSucceeded", "RequestFailed"} \cup RestoreEnds =>
       v.process = u.process
  /\ k # "NotRestored" /\ u.process # "RESTORE_FAILED" => v.process # "RESTORE_FAILED"

Takes(f) ==
  /\ f \in members /\ inbox[f] # <<>> /\ inbox'[f] = Tail(inbox[f])
  /\ \A g \in Federates \ {f} : inbox'[g] = inbox[g] /\ flag'[g] = flag[g]
  /\ UNCHANGED <<members, rti, saves, pc, file, loaded>>
  /\ flag' \in [Federates -> FlagRecord]
  /\ Sets(Head(inbox[f]).kind, flag[f], flag'[f])

LEMMA CallbackTakes ==
  ASSUME RInv, NEW f \in Federates, Callback(f)
  PROVE  Takes(f)
  <1>1. flag \in [Federates -> FlagRecord] /\ inbox \in [Federates -> Seq(Messages)]
    BY DEF RInv, MoreTypes, Inv, Types
  <1>2. ASSUME NEW kinds, On(f, kinds)
        PROVE  /\ f \in members /\ inbox[f] # <<>> /\ inbox'[f] = Tail(inbox[f])
               /\ \A g \in Federates \ {f} : inbox'[g] = inbox[g]
               /\ UNCHANGED <<members, rti, saves, pc, file, loaded>>
               /\ Head(inbox[f]).kind \in kinds /\ Head(inbox[f]).label \in AllLabels
    <2>1. f \in members /\ inbox[f] # <<>>
      BY <1>2 DEF On
    <2>2. Head(inbox[f]) \in Messages
      BY <1>1, <2>1
    <2> QED BY <1>1, <1>2, <2>2 DEF On, job, files, Messages
  <1> DEFINE l == Head(inbox[f]).label
             k == Head(inbox[f]).kind
             u == flag[f]
             v == flag'[f]
  <1>3. u \in FlagRecord
    BY <1>1
  \* What is set in the record is all that changes.
  <1>a. ASSUME NEW w \in FlagRecord, flag' = [flag EXCEPT ![f] = w]
        PROVE  /\ v = w /\ flag' \in [Federates -> FlagRecord]
               /\ \A g \in Federates \ {f} : flag'[g] = flag[g]
    BY <1>1, <1>a
  <1>4. CASE InitiateFederateSave(f)
    <2>1. On(f, {"InitiateSave"})
      BY <1>4 DEF InitiateFederateSave
    <2> DEFINE w == [u EXCEPT !.save_name = l, !.start_to_save = TRUE]
    <2>2. flag' = [flag EXCEPT ![f] = w]
      BY <1>4 DEF InitiateFederateSave
    <2>3. k \in {"InitiateSave"} /\ l \in AllLabels /\ NoLabel \in AllLabels
      BY <1>2, <2>1 DEF AllLabels
    <2> HIDE DEF l, k, u
    <2>6. /\ w.announce_restore = u.announce_restore /\ w.prev_process = u.prev_process
          /\ w.start_to_save = TRUE /\ w.start_to_restore = u.start_to_restore
          /\ w.restore_begun = u.restore_begun /\ w.restore_completed = u.restore_completed
          /\ w.request_complete = u.request_complete /\ w.failed_callback = u.failed_callback
          /\ w.process = u.process
      BY <1>3 DEF FlagRecord
    <2>7. w \in FlagRecord
      BY <1>3, <2>3 DEF FlagRecord, Processes
    <2> HIDE DEF w
    <2>8. /\ v = w /\ flag' \in [Federates -> FlagRecord]
          /\ \A g \in Federates \ {f} : flag'[g] = flag[g]
      BY <1>a, <2>2, <2>7
    <2>9. Sets(k, u, w)
      BY <2>3, <2>6 DEF Sets, SaveEnds, RestoreEnds, Statuses
    <2> HIDE DEF v
    <2> QED BY <1>2, <2>1, <2>8, <2>9 DEF Takes, k, u, v
  <1>5. CASE FederationSaved(f)
    <2>1. On(f, {"Saved", "NotSaved"})
      BY <1>5 DEF FederationSaved
    <2> DEFINE w == [u EXCEPT !.start_to_save = FALSE, !.save_completed = TRUE,
                              !.announce_save = FALSE, !.save_name = NoLabel]
    <2>2. flag' = [flag EXCEPT ![f] = w]
      BY <1>5 DEF FederationSaved
    <2>3. k \in {"Saved", "NotSaved"} /\ l \in AllLabels /\ NoLabel \in AllLabels
      BY <1>2, <2>1 DEF AllLabels
    <2> HIDE DEF l, k, u
    <2>6. /\ w.announce_restore = u.announce_restore /\ w.prev_process = u.prev_process
          /\ w.start_to_save = FALSE /\ w.start_to_restore = u.start_to_restore
          /\ w.restore_begun = u.restore_begun /\ w.restore_completed = u.restore_completed
          /\ w.request_complete = u.request_complete /\ w.failed_callback = u.failed_callback
          /\ w.process = u.process
      BY <1>3 DEF FlagRecord
    <2>7. w \in FlagRecord
      BY <1>3, <2>3 DEF FlagRecord, Processes
    <2> HIDE DEF w
    <2>8. /\ v = w /\ flag' \in [Federates -> FlagRecord]
          /\ \A g \in Federates \ {f} : flag'[g] = flag[g]
      BY <1>a, <2>2, <2>7
    <2>9. Sets(k, u, w)
      BY <2>3, <2>6 DEF Sets, SaveEnds, RestoreEnds, Statuses
    <2> HIDE DEF v
    <2> QED BY <1>2, <2>1, <2>8, <2>9 DEF Takes, k, u, v
  <1>6. CASE RestoreStatus(f)
    <2> DEFINE p == IF k = "NobodyRestores" THEN "INITIATE_RESTORE" ELSE u.process
    <2>1. On(f, {"NobodyRestores", "SomebodyRestores"})
      BY <1>6 DEF RestoreStatus
    <2> DEFINE w == [u EXCEPT !.request_complete = TRUE, !.process = p]
    <2>2. flag' = [flag EXCEPT ![f] = w]
      BY <1>6 DEF RestoreStatus
    <2>3. k \in {"NobodyRestores", "SomebodyRestores"} /\ l \in AllLabels /\ NoLabel \in AllLabels
      BY <1>2, <2>1 DEF AllLabels
    <2>4. k # "NobodyRestores" => p = u.process
      OBVIOUS
    <2>5. p \in Processes /\ (k = "NobodyRestores" => p # "RESTORE_FAILED")
      BY <1>3 DEF Processes, FlagRecord
    <2> HIDE DEF p, l, k, u
    <2>6. /\ w.announce_restore = u.announce_restore /\ w.prev_process = u.prev_process
          /\ w.start_to_save = u.start_to_save /\ w.start_to_restore = u.start_to_restore
          /\ w.restore_begun = u.restore_begun /\ w.restore_completed = u.restore_completed
          /\ w.request_complete = TRUE /\ w.failed_callback = u.failed_callback
          /\ w.process = p
      BY <1>3 DEF FlagRecord
    <2>7. w \in FlagRecord
      BY <1>3, <2>3, <2>5 DEF FlagRecord, Processes
    <2> HIDE DEF w
    <2>8. /\ v = w /\ flag' \in [Federates -> FlagRecord]
          /\ \A g \in Federates \ {f} : flag'[g] = flag[g]
      BY <1>a, <2>2, <2>7
    <2>9. Sets(k, u, w)
      BY <2>3, <2>4, <2>5, <2>6 DEF Sets, SaveEnds, RestoreEnds, Statuses
    <2> HIDE DEF v
    <2> QED BY <1>2, <2>1, <2>8, <2>9 DEF Takes, k, u, v
  <1>7. CASE RestoreRequested(f)
    <2> DEFINE p == IF k = "RequestSucceeded" THEN "REQUEST_SUCCEEDED" ELSE "REQUEST_FAILED"
    <2>1. On(f, {"RequestSucceeded", "RequestFailed"})
      BY <1>7 DEF RestoreRequested
    <2> DEFINE w == [u EXCEPT !.process = p]
    <2>2. flag' = [flag EXCEPT ![f] = w]
      BY <1>7 DEF RestoreRequested
    <2>3. k \in {"RequestSucceeded", "RequestFailed"} /\ l \in AllLabels /\ NoLabel \in AllLabels
      BY <1>2, <2>1 DEF AllLabels
    <2>4. p # "RESTORE_FAILED"
      OBVIOUS
    <2>5. p \in Processes
      BY <1>3 DEF Processes, FlagRecord
    <2> HIDE DEF p, l, k, u
    <2>6. /\ w.announce_restore = u.announce_restore /\ w.prev_process = u.prev_process
          /\ w.start_to_save = u.start_to_save /\ w.start_to_restore = u.start_to_restore
          /\ w.restore_begun = u.restore_begun /\ w.restore_completed = u.restore_completed
          /\ w.request_complete = u.request_complete /\ w.failed_callback = u.failed_callback
          /\ w.process = p
      BY <1>3 DEF FlagRecord
    <2>7. w \in FlagRecord
      BY <1>3, <2>3, <2>5 DEF FlagRecord, Processes
    <2> HIDE DEF w
    <2>8. /\ v = w /\ flag' \in [Federates -> FlagRecord]
          /\ \A g \in Federates \ {f} : flag'[g] = flag[g]
      BY <1>a, <2>2, <2>7
    <2>9. Sets(k, u, w)
      BY <2>3, <2>4, <2>6 DEF Sets, SaveEnds, RestoreEnds, Statuses
    <2> HIDE DEF v
    <2> QED BY <1>2, <2>1, <2>8, <2>9 DEF Takes, k, u, v
  <1>8. CASE RestoreBegun(f)
    <2>1. On(f, {"RestoreBegun"})
      BY <1>8 DEF RestoreBegun
    <2> DEFINE w == [u EXCEPT !.restore_begun = TRUE, !.restore_completed = FALSE]
    <2>2. flag' = [flag EXCEPT ![f] = w]
      BY <1>8 DEF RestoreBegun
    <2>3. k \in {"RestoreBegun"} /\ l \in AllLabels /\ NoLabel \in AllLabels
      BY <1>2, <2>1 DEF AllLabels
    <2> HIDE DEF l, k, u
    <2>6. /\ w.announce_restore = u.announce_restore /\ w.prev_process = u.prev_process
          /\ w.start_to_save = u.start_to_save /\ w.start_to_restore = u.start_to_restore
          /\ w.restore_begun = TRUE /\ w.restore_completed = FALSE
          /\ w.request_complete = u.request_complete /\ w.failed_callback = u.failed_callback
          /\ w.process = u.process
      BY <1>3 DEF FlagRecord
    <2>7. w \in FlagRecord
      BY <1>3, <2>3 DEF FlagRecord, Processes
    <2> HIDE DEF w
    <2>8. /\ v = w /\ flag' \in [Federates -> FlagRecord]
          /\ \A g \in Federates \ {f} : flag'[g] = flag[g]
      BY <1>a, <2>2, <2>7
    <2>9. Sets(k, u, w)
      BY <2>3, <2>6 DEF Sets, SaveEnds, RestoreEnds, Statuses
    <2> HIDE DEF v
    <2> QED BY <1>2, <2>1, <2>8, <2>9 DEF Takes, k, u, v
  <1>9. CASE On(f, {"InitiateRestore"}) /\ flag' = [flag EXCEPT ![f].start_to_restore = TRUE]
    <2>1. On(f, {"InitiateRestore"})
      BY <1>9
    <2> DEFINE w == [u EXCEPT !.start_to_restore = TRUE]
    <2>2. flag' = [flag EXCEPT ![f] = w]
      BY <1>9
    <2>3. k \in {"InitiateRestore"} /\ l \in AllLabels /\ NoLabel \in AllLabels
      BY <1>2, <2>1 DEF AllLabels
    <2> HIDE DEF l, k, u
    <2>6. /\ w.announce_restore = u.announce_restore /\ w.prev_process = u.prev_process
          /\ w.start_to_save = u.start_to_save /\ w.start_to_restore = TRUE
          /\ w.restore_begun = u.restore_begun /\ w.restore_completed = u.restore_completed
          /\ w.request_complete = u.request_complete /\ w.failed_callback = u.failed_callback
          /\ w.process = u.process
      BY <1>3 DEF FlagRecord
    <2>7. w \in FlagRecord
      BY <1>3, <2>3 DEF FlagRecord, Processes
    <2> HIDE DEF w
    <2>8. /\ v = w /\ flag' \in [Federates -> FlagRecord]
          /\ \A g \in Federates \ {f} : flag'[g] = flag[g]
      BY <1>a, <2>2, <2>7
    <2>9. Sets(k, u, w)
      BY <2>3, <2>6 DEF Sets, SaveEnds, RestoreEnds, Statuses
    <2> HIDE DEF v
    <2> QED BY <1>2, <2>1, <2>8, <2>9 DEF Takes, k, u, v
  <1>10. CASE On(f, {"RestoreName"}) /\ flag' = [flag EXCEPT ![f].restore_name = l]
    <2>1. On(f, {"RestoreName"})
      BY <1>10
    <2> DEFINE w == [u EXCEPT !.restore_name = l]
    <2>2. flag' = [flag EXCEPT ![f] = w]
      BY <1>10
    <2>3. k \in {"RestoreName"} /\ l \in AllLabels /\ NoLabel \in AllLabels
      BY <1>2, <2>1 DEF AllLabels
    <2> HIDE DEF l, k, u
    <2>6. /\ w.announce_restore = u.announce_restore /\ w.prev_process = u.prev_process
          /\ w.start_to_save = u.start_to_save /\ w.start_to_restore = u.start_to_restore
          /\ w.restore_begun = u.restore_begun /\ w.restore_completed = u.restore_completed
          /\ w.request_complete = u.request_complete /\ w.failed_callback = u.failed_callback
          /\ w.process = u.process
      BY <1>3 DEF FlagRecord
    <2>7. w \in FlagRecord
      BY <1>3, <2>3 DEF FlagRecord, Processes
    <2> HIDE DEF w
    <2>8. /\ v = w /\ flag' \in [Federates -> FlagRecord]
          /\ \A g \in Federates \ {f} : flag'[g] = flag[g]
      BY <1>a, <2>2, <2>7
    <2>9. Sets(k, u, w)
      BY <2>3, <2>6 DEF Sets, SaveEnds, RestoreEnds, Statuses
    <2> HIDE DEF v
    <2> QED BY <1>2, <2>1, <2>8, <2>9 DEF Takes, k, u, v
  <1>11. CASE FederationRestored(f)
    <2>1. On(f, {"Restored"})
      BY <1>11 DEF FederationRestored
    <2> DEFINE w == [u EXCEPT !.process = "RESTORE_COMPLETE",
                              !.restore_completed = TRUE, !.restore_begun = FALSE,
                              !.start_to_restore = FALSE]
    <2>2. flag' = [flag EXCEPT ![f] = w]
      BY <1>11 DEF FederationRestored
    <2>3. k \in {"Restored"} /\ l \in AllLabels /\ NoLabel \in AllLabels
      BY <1>2, <2>1 DEF AllLabels
    <2> HIDE DEF l, k, u
    <2>6. /\ w.announce_restore = u.announce_restore /\ w.prev_process = u.prev_process
          /\ w.start_to_save = u.start_to_save /\ w.start_to_restore = FALSE
          /\ w.restore_begun = FALSE /\ w.restore_completed = TRUE
          /\ w.request_complete = u.request_complete /\ w.failed_callback = u.failed_callback
          /\ w.process = "RESTORE_COMPLETE"
      BY <1>3 DEF FlagRecord
    <2>7. w \in FlagRecord
      BY <1>3, <2>3 DEF FlagRecord, Processes
    <2> HIDE DEF w
    <2>8. /\ v = w /\ flag' \in [Federates -> FlagRecord]
          /\ \A g \in Federates \ {f} : flag'[g] = flag[g]
      BY <1>a, <2>2, <2>7
    <2>9. Sets(k, u, w)
      BY <2>3, <2>6 DEF Sets, SaveEnds, RestoreEnds, Statuses
    <2> HIDE DEF v
    <2> QED BY <1>2, <2>1, <2>8, <2>9 DEF Takes, k, u, v
  <1>12. CASE FederationNotRestored(f)
    <2>1. On(f, {"NotRestored"})
      BY <1>12 DEF FederationNotRestored
    <2> DEFINE w == [u EXCEPT !.process = "RESTORE_FAILED", !.restore_completed = TRUE,
                              !.restore_begun = FALSE, !.start_to_restore = FALSE,
                              !.failed_callback = TRUE]
    <2>2. flag' = [flag EXCEPT ![f] = w]
      BY <1>12 DEF FederationNotRestored
    <2>3. k \in {"NotRestored"} /\ l \in AllLabels /\ NoLabel \in AllLabels
      BY <1>2, <2>1 DEF AllLabels
    <2> HIDE DEF l, k, u
    <2>6. /\ w.announce_restore = u.announce_restore /\ w.prev_process = u.prev_process
          /\ w.start_to_save = u.start_to_save /\ w.start_to_restore = FALSE
          /\ w.restore_begun = FALSE /\ w.restore_completed = TRUE
          /\ w.request_complete = u.request_complete /\ w.failed_callback = TRUE
          /\ w.process = "RESTORE_FAILED"
      BY <1>3 DEF FlagRecord
    <2>7. w \in FlagRecord
      BY <1>3, <2>3 DEF FlagRecord, Processes
    <2> HIDE DEF w
    <2>8. /\ v = w /\ flag' \in [Federates -> FlagRecord]
          /\ \A g \in Federates \ {f} : flag'[g] = flag[g]
      BY <1>a, <2>2, <2>7
    <2>9. Sets(k, u, w)
      BY <2>3, <2>6 DEF Sets, SaveEnds, RestoreEnds, Statuses
    <2> HIDE DEF v
    <2> QED BY <1>2, <2>1, <2>8, <2>9 DEF Takes, k, u, v
  <1> QED BY <1>4, <1>5, <1>6, <1>7, <1>8, <1>9, <1>10, <1>11, <1>12
          DEF Callback, InitiateFederateRestore


LEMMA CallbackFits ==
  ASSUME RInv, NEW f \in Federates, Takes(f)
  PROVE  Fits(f)
  <1> DEFINE s == inbox[f]
             t == Tail(inbox[f])
             k == Head(inbox[f]).kind
             u == flag[f]
             v == flag'[f]
  <1>1. /\ f \in members /\ s # <<>> /\ s \in Seq(Messages) /\ inbox'[f] = t
        /\ UNCHANGED <<members, rti, saves, pc, file, loaded>>
    BY DEF Takes, RInv, Inv, Types
  <1>2. /\ Len(s) \in Nat /\ Len(s) >= 1 /\ Len(t) = Len(s) - 1 /\ k = s[1].kind /\ k \in Kinds
        /\ \A i \in 1..Len(t) : i + 1 \in 1..Len(s) /\ t[i] = s[i + 1]
        /\ \A i \in 1..Len(s) : i = 1 \/ (i - 1 \in 1..Len(t) /\ s[i] = t[i - 1])
    BY <1>1, TailOf
  <1>a. t \in Seq(Messages) /\ (Len(t) = 0 => t = <<>>)
    <2>1. t \in Seq(Messages)
      BY <1>1, TailOf
    <2> HIDE DEF t
    <2> QED BY <2>1
  <1>3. ASSUME NEW kinds
        PROVE  /\ Has(t, kinds) => Has(s, kinds)
               /\ Has(s, kinds) => k \in kinds \/ Has(t, kinds)
               /\ Behind(s, 1, kinds) => Has(t, kinds)
               /\ \A i \in 1..Len(t) : Behind(s, i + 1, kinds) => Behind(t, i, kinds)
    BY <1>1, HasTail
  <1>4. Sets(k, u, v)
    BY DEF Takes
  <1>5. /\ BeginInv(f) /\ EndInv(f) /\ StatusInv(f) /\ FileInv(f) /\ BegunInv(f)
        /\ WholeInv /\ PhaseInv
    BY <1>1 DEF RInv
  <1>6. 1 \in 1..Len(s)
    BY <1>2
  <1>7. k = "Restored" => Done(f)
    BY <1>2, <1>6 DEF Done, Has
  <1>8. Intact => k # "NotRestored"
    BY <1>2, <1>5, <1>6 DEF WholeInv, Has
  <1>9. Done(f) => pc[f] \in {"await_restored", "rebuild"}
    BY <1>1, DoneIsBusy
  <1> HIDE DEF s, t, k, u, v
  <1>10. BeginInv(f)'
    <2>1. rti.doing = "save" =>
            ~ u.start_to_save /\ f \in rti.waiting /\ Len(s) = 1 /\ s[1].kind = "InitiateSave"
      BY <1>1, <1>5 DEF BeginInv, s, u
    <2>2. rti.doing = "save" => Len(t) = 0 /\ v.start_to_save
      <3> SUFFICES ASSUME rti.doing = "save" PROVE Len(t) = 0 /\ v.start_to_save
        OBVIOUS
      <3>1. Len(s) = 1 /\ s[1].kind = "InitiateSave"
        BY <2>1
      <3>2. Len(t) = Len(s) - 1 /\ k = s[1].kind
        BY <1>2
      <3>3. Len(t) = 0
        BY <3>1, <3>2
      <3>4. k = "InitiateSave"
        BY <3>1, <3>2
      <3>5. v.start_to_save
        BY <1>4, <3>4 DEF Sets
      <3> QED BY <3>3, <3>5
    <2>3. rti.doing = "save" => t = <<>>
      BY <1>a, <2>2
    <2>4. rti.doing = "save" /\ f \in rti.waiting => pc[f] # "saved"
      BY <1>5 DEF BeginInv
    <2>5. ASSUME v.start_to_save
          PROVE  \/ rti.doing = "save" /\ f \in rti.waiting
                 \/ pc[f] = "saved" \/ Has(t, SaveEnds)
      <3>1. CASE k = "InitiateSave"
        <4>1. rti.doing = "save" \/ Behind(s, 1, SaveEnds)
          BY <1>2, <1>5, <1>6, <3>1 DEF BeginInv, s
        <4> QED BY <1>3, <2>1, <4>1
      <3>2. CASE k # "InitiateSave"
        <4>1. k \notin SaveEnds /\ u.start_to_save
          BY <1>4, <2>5, <3>2 DEF Sets
        <4>2. \/ rti.doing = "save" /\ f \in rti.waiting
              \/ pc[f] = "saved" \/ Has(s, SaveEnds)
          BY <1>5, <4>1 DEF BeginInv, s, u
        <4> QED BY <1>3, <4>1, <4>2
      <3> QED BY <3>1, <3>2
    <2>6. ASSUME NEW i \in 1..Len(t), t[i].kind = "InitiateSave"
          PROVE  rti.doing = "save" \/ Behind(t, i, SaveEnds)
      <3>1. i + 1 \in 1..Len(s) /\ s[i + 1].kind = "InitiateSave"
        BY <1>2, <2>6
      <3>2. rti.doing = "save" \/ Behind(s, i + 1, SaveEnds)
        BY <1>5, <3>1 DEF BeginInv, s
      <3> QED BY <1>3, <3>2
    <2> QED BY <1>1, <2>2, <2>3, <2>4, <2>5, <2>6 DEF BeginInv, v
  <1>11. EndInv(f)'
    <2>1. ASSUME v.start_to_restore
          PROVE  rti.doing = "restore" \/ Has(t, RestoreEnds)
      <3>1. CASE k = "InitiateRestore"
        <4>1. rti.doing = "restore" \/ Behind(s, 1, RestoreEnds)
          BY <1>2, <1>5, <1>6, <3>1 DEF EndInv, s
        <4> QED BY <1>3, <4>1
      <3>2. CASE k # "InitiateRestore"
        <4>1. k \notin RestoreEnds /\ u.start_to_restore
          BY <1>4, <2>1, <3>2 DEF Sets
        <4>2. rti.doing = "restore" \/ Has(s, RestoreEnds)
          BY <1>5, <4>1 DEF EndInv, s, u
        <4> QED BY <1>3, <4>1, <4>2
      <3> QED BY <3>1, <3>2
    <2>2. ASSUME NEW i \in 1..Len(t), t[i].kind = "InitiateRestore"
          PROVE  rti.doing = "restore" \/ Behind(t, i, RestoreEnds)
      <3>1. i + 1 \in 1..Len(s) /\ s[i + 1].kind = "InitiateRestore"
        BY <1>2, <2>2
      <3>2. rti.doing = "restore" \/ Behind(s, i + 1, RestoreEnds)
        BY <1>5, <3>1 DEF EndInv, s
      <3> QED BY <1>3, <3>2
    <2> QED BY <1>1, <2>1, <2>2 DEF EndInv, v
  <1>12. StatusInv(f)'
    <2> SUFFICES ASSUME NEW i \in 1..Len(t), t[i].kind \in Statuses
                 PROVE  /\ pc[f] = "await_status" /\ ~ v.request_complete
                        /\ \A j \in 1..Len(t) : t[j].kind \in Statuses => j = i
      BY <1>1 DEF StatusInv, v
    <2>1. i + 1 \in 1..Len(s) /\ s[i + 1].kind \in Statuses
      BY <1>2
    <2>2. /\ pc[f] = "await_status" /\ ~ u.request_complete
          /\ \A j \in 1..Len(s) : s[j].kind \in Statuses => j = i + 1
      BY <1>5, <2>1 DEF StatusInv, s, u
    <2>3. k \notin Statuses
      <3>1. 1 # i + 1
        OBVIOUS
      <3> QED BY <1>2, <1>6, <2>2, <3>1
    <2>4. ASSUME NEW j \in 1..Len(t), t[j].kind \in Statuses
          PROVE  j = i
      <3>1. j + 1 \in 1..Len(s) /\ s[j + 1].kind \in Statuses
        BY <1>2, <2>4
      <3>2. j + 1 = i + 1
        BY <2>2, <3>1
      <3> QED BY <3>2
    <2> QED BY <1>4, <2>2, <2>3, <2>4 DEF Sets
  <1>13. FileInv(f)'
    <2>1. Intact /\ pc[f] = "setup_restore" => k \notin RestoreEnds
      BY <1>7, <1>8, <1>9 DEF RestoreEnds
    <2>2. Intact /\ pc[f] = "setup_restore" => file[f] \in Labels \/ v.start_to_restore
      BY <1>4, <1>5, <2>1 DEF Sets, FileInv, u
    <2> QED BY <1>1, <1>5, <2>2 DEF FileInv, Intact, v
  <1>14. BegunInv(f)'
    BY <1>4, <1>5 DEF Sets, BegunInv, RestoreEnds, u, v
  <1>15. Done(f)' => Done(f)
    <2>1. Has(t, {"Restored"}) => Done(f)
      BY <1>3 DEF Done, s
    <2>2. ASSUME pc[f] = "await_restored", v.restore_completed, ~ v.failed_callback
          PROVE  Done(f)
      <3>1. CASE k \in RestoreEnds
        BY <1>4, <1>7, <2>2, <3>1 DEF Sets, RestoreEnds
      <3>2. CASE k \notin RestoreEnds
        BY <1>4, <2>2, <3>2 DEF Sets, RestoreEnds, Done, u
      <3> QED BY <3>1, <3>2
    <2> QED BY <1>1, <2>1, <2>2 DEF Done, v
  <1>16. ASSUME rti.doing = "restore" PROVE Restoring(f)'
    <2>1. ToldInv(f) /\ PlaceInv(f) /\ k # "NotRestored"
      BY <1>1, <1>5, <1>8, <1>16 DEF PhaseInv, WholeInv, Restoring
    <2>2. /\ ToldInv(f)' /\ k \notin RestoreEnds
          /\ u.start_to_restore => v.start_to_restore /\ k \in {"RestoreName", "SomebodyRestores"}
      <3>1. CASE /\ u.start_to_restore
                 /\ \A i \in 1..Len(s) : s[i].kind \in {"RestoreName", "SomebodyRestores"}
        <4>1. k \in {"RestoreName", "SomebodyRestores"}
          BY <1>2, <1>6, <3>1
        <4>2. k \notin RestoreEnds /\ v.start_to_restore
          BY <1>4, <3>1, <4>1 DEF Sets, RestoreEnds
        <4>3. \A i \in 1..Len(t) : t[i].kind \in {"RestoreName", "SomebodyRestores"}
          BY <1>2, <3>1
        <4> QED BY <1>1, <4>1, <4>2, <4>3 DEF ToldInv, v
      <3>2. CASE /\ ~ u.start_to_restore
                 /\ \E i \in 1..Len(s) :
                      /\ s[i].kind = "InitiateRestore"
                      /\ \A j \in 1..Len(s) :
                           /\ j < i => s[j].kind \in Before
                           /\ i < j => s[j].kind \in {"RestoreName", "SomebodyRestores"}
        <4>1. PICK i \in 1..Len(s) :
                      /\ s[i].kind = "InitiateRestore"
                      /\ \A j \in 1..Len(s) :
                           /\ j < i => s[j].kind \in Before
                           /\ i < j => s[j].kind \in {"RestoreName", "SomebodyRestores"}
          BY <3>2
        <4>2. CASE i = 1
          <5>1. k = "InitiateRestore"
            BY <1>2, <4>1, <4>2
          <5>2. \A j \in 1..Len(t) : t[j].kind \in {"RestoreName", "SomebodyRestores"}
            <6> TAKE j \in 1..Len(t)
            <6>1. j + 1 \in 1..Len(s) /\ t[j] = s[j + 1] /\ i < j + 1
              BY <1>2, <4>2
            <6> QED BY <4>1, <6>1
          <5>3. v.start_to_restore /\ k \notin RestoreEnds
            BY <1>4, <5>1 DEF Sets, RestoreEnds
          <5> QED BY <1>1, <3>2, <5>2, <5>3 DEF ToldInv, v
        <4>3. CASE i # 1
          <5>1. k \in Before
            BY <1>2, <1>6, <4>1, <4>3
          <5>2. k \notin RestoreEnds /\ ~ v.start_to_restore
            BY <1>4, <3>2, <5>1 DEF Sets, RestoreEnds, Earlier, Before
          <5>3. i - 1 \in 1..Len(t) /\ t[i - 1].kind = "InitiateRestore"
            BY <1>2, <4>1, <4>3
          <5>4. ASSUME NEW j \in 1..Len(t)
                PROVE  /\ j < i - 1 => t[j].kind \in Before
                       /\ i - 1 < j => t[j].kind \in {"RestoreName", "SomebodyRestores"}
            <6>1. j + 1 \in 1..Len(s) /\ t[j] = s[j + 1]
              BY <1>2
            <6>2. (j < i - 1 => j + 1 < i) /\ (i - 1 < j => i < j + 1)
              OBVIOUS
            <6> QED BY <4>1, <6>1, <6>2
          <5> QED BY <1>1, <3>2, <5>2, <5>3, <5>4 DEF ToldInv, v
        <4> QED BY <4>2, <4>3
      <3> QED BY <2>1, <3>1, <3>2 DEF ToldInv, s, u
    <2>3. HasLoaded(f) => HasLoaded(f)'
      BY <1>1, <2>2 DEF HasLoaded, u, v
    <2>4. v.restore_completed => u.restore_completed
      BY <1>4, <2>2 DEF Sets
    <2>5. u.start_to_restore => v.process = u.process
      BY <1>4, <2>2 DEF Sets
    <2>6. pc[f] = "preserve" => u.start_to_restore
      BY <2>1 DEF PlaceInv, Up, HasLoaded, u
    <2>7. /\ v.announce_restore = u.announce_restore /\ v.prev_process = u.prev_process
      BY <1>4 DEF Sets
    <2>8. PlaceInv(f)'
      BY <1>1, <2>1, <2>2, <2>3, <2>4, <2>5, <2>6, <2>7 DEF PlaceInv, u, v
    <2> QED BY <2>2, <2>8 DEF Restoring
  <1>17. ASSUME SomeDone PROVE Restored(f)'
    <2>1. Restored(f)
      BY <1>1, <1>5, <1>17 DEF PhaseInv
    <2>2. /\ pc[f] = "await_restored" /\ ~ u.restore_completed /\ s[Len(s)].kind = "Restored"
          /\ \A i \in 1..Len(s) : i < Len(s) => s[i].kind = "RestoreName"
          /\ loaded[f] = rti.number /\ ~ u.failed_callback /\ u.process # "RESTORE_FAILED"
      BY <1>1, <2>1 DEF Restored, s, u
    <2>3. CASE Len(s) = 1
      <3>1. k = "Restored" /\ t = <<>>
        BY <1>2, <1>a, <2>2, <2>3
      <3>2. /\ ~ v.start_to_restore /\ v.restore_completed /\ ~ v.failed_callback
            /\ v.process # "RESTORE_FAILED"
        BY <1>4, <2>2, <3>1 DEF Sets, RestoreEnds
      <3> QED BY <1>1, <2>2, <3>1, <3>2 DEF Restored, Elsewhere, v
    <2>4. CASE Len(s) # 1
      <3>1. k = "RestoreName"
        BY <1>2, <1>6, <2>2, <2>4
      <3>2. /\ ~ v.restore_completed /\ ~ v.failed_callback /\ v.process # "RESTORE_FAILED"
        BY <1>4, <2>2, <3>1 DEF Sets, RestoreEnds
      <3>3. Len(t) \in 1..Len(t) /\ Len(t) + 1 = Len(s) /\ t[Len(t)].kind = "Restored"
        BY <1>2, <2>2, <2>4
      <3>4. t # <<>>
        BY <3>3
      <3>5. ASSUME NEW i \in 1..Len(t), i < Len(t) PROVE t[i].kind = "RestoreName"
        BY <1>2, <2>2, <3>5
      <3> QED BY <1>1, <2>2, <3>2, <3>3, <3>4, <3>5 DEF Restored, Elsewhere, v
    <2> QED BY <2>3, <2>4
  <1>18. ASSUME Intact, rti.doing # "restore", ~ SomeDone PROVE Calm(f)'
    <2>1. Calm(f)
      BY <1>1, <1>5, <1>18 DEF PhaseInv
    <2>2. \A i \in 1..Len(s) : s[i].kind \in Earlier
      BY <2>1 DEF Calm, s
    <2>3. k \in Earlier /\ \A i \in 1..Len(t) : t[i].kind \in Earlier
      BY <1>2, <1>6, <2>2
    <2>4. /\ v.start_to_restore = u.start_to_restore /\ v.announce_restore = u.announce_restore
      BY <1>4, <2>3 DEF Sets, Earlier, RestoreEnds
    <2> QED BY <1>1, <2>1, <2>3, <2>4 DEF Calm, u, v
  <1>19. ASSUME Intact
         PROVE  /\ ~ v.failed_callback /\ v.process # "RESTORE_FAILED"
                /\ ~ Has(t, {"NotRestored"})
    <2>1. ~ u.failed_callback /\ u.process # "RESTORE_FAILED" /\ ~ Has(s, {"NotRestored"})
      BY <1>5, <1>19 DEF WholeInv, s, u
    <2> QED BY <1>3, <1>4, <1>8, <1>19, <2>1 DEF Sets
  <1> QED BY <1>1, <1>10, <1>11, <1>12, <1>13, <1>14, <1>15, <1>16, <1>17, <1>18, <1>19 DEF Fits, v

LEMMA CallbackRestores ==
  ASSUME RInv, Inv', NEW f \in Federates, Callback(f)
  PROVE  RInv'
  <1>1. Takes(f)
    BY CallbackTakes
  <1>2. f \in members
    BY <1>1 DEF Takes
  <1>3. MoreTypes'
    BY <1>1 DEF Takes, RInv, MoreTypes
  <1>4. Aside(f)
    BY <1>1 DEF Takes, Aside
  <1>5. Fits(f)
    BY <1>1, CallbackFits
  <1> QED BY <1>2, <1>3, <1>4, <1>5, StepFits


-----------------------------------------------------------------------------
(* What the RTI answers or tells one of them.                              *)

\* What more there is when messages are appended.
LEMMA HasMore ==
  ASSUME NEW s \in Seq(Messages), NEW t \in Seq(Messages)
  PROVE  /\ \A kinds : Has(s \o t, kinds) <=> Has(s, kinds) \/ Has(t, kinds)
         /\ \A kinds : \A i \in 1..Len(s) :
              Behind(s, i, kinds) \/ Has(t, kinds) => Behind(s \o t, i, kinds)
         /\ \A i \in 1..Len(s) : i \in 1..Len(s \o t) /\ (s \o t)[i] = s[i]
         /\ \A i \in 1..Len(t) : i + Len(s) \in 1..Len(s \o t) /\ (s \o t)[i + Len(s)] = t[i]
         /\ \A i \in 1..Len(s \o t) :
              i \in 1..Len(s) \/ (i - Len(s) \in 1..Len(t) /\ (s \o t)[i] = t[i - Len(s)])
         /\ Len(s \o t) = Len(s) + Len(t) /\ Len(s) \in Nat /\ Len(t) \in Nat
  <1> DEFINE b == s \o t
  <1>1. Len(b) = Len(s) + Len(t) /\ Len(s) \in Nat /\ Len(t) \in Nat
    OBVIOUS
  <1>2. ASSUME NEW i \in 1..Len(s) PROVE i \in 1..Len(b) /\ b[i] = s[i]
    OBVIOUS
  <1>3. ASSUME NEW i \in 1..Len(t) PROVE i + Len(s) \in 1..Len(b) /\ b[i + Len(s)] = t[i]
    OBVIOUS
  <1>4. ASSUME NEW i \in 1..Len(b)
        PROVE  i \in 1..Len(s) \/ (i - Len(s) \in 1..Len(t) /\ b[i] = t[i - Len(s)])
    OBVIOUS
  <1> HIDE DEF b
  <1>5. ASSUME NEW kinds PROVE Has(b, kinds) <=> Has(s, kinds) \/ Has(t, kinds)
    <2>1. Has(b, kinds) => Has(s, kinds) \/ Has(t, kinds)
      BY <1>2, <1>4 DEF Has
    <2>2. Has(s, kinds) => Has(b, kinds)
      BY <1>2 DEF Has
    <2>3. Has(t, kinds) => Has(b, kinds)
      BY <1>3 DEF Has
    <2> QED BY <2>1, <2>2, <2>3
  <1>6. ASSUME NEW kinds, NEW i \in 1..Len(s), Behind(s, i, kinds) \/ Has(t, kinds)
        PROVE  Behind(b, i, kinds)
    <2>1. CASE Behind(s, i, kinds)
      BY <1>2, <2>1 DEF Behind
    <2>2. CASE Has(t, kinds)
      <3>1. PICK j \in 1..Len(t) : t[j].kind \in kinds
        BY <2>2 DEF Has
      <3>2. j + Len(s) \in 1..Len(b) /\ b[j + Len(s)] = t[j] /\ i < j + Len(s)
        BY <1>1, <1>3
      <3> QED BY <3>1, <3>2 DEF Behind
    <2> QED BY <1>6, <2>1, <2>2
  <1> QED BY <1>1, <1>2, <1>3, <1>4, <1>5, <1>6 DEF b

LEMMA OneMessage ==
  ASSUME NEW k \in Kinds, NEW l \in AllLabels
  PROVE  /\ <<Message(k, l)>> \in Seq(Messages)
         /\ Len(<<Message(k, l)>>) = 1 /\ <<Message(k, l)>>[1].kind = k
         /\ \A kinds : Has(<<Message(k, l)>>, kinds) <=> k \in kinds
  <1>1. Message(k, l) \in Messages /\ Message(k, l).kind = k
    BY DEF Message, Messages
  <1> QED BY <1>1 DEF Has

\* The invariants of f that its inbox is for hold when it gets more.
LEMMA StillHas ==
  ASSUME RInv, NEW f \in Federates, f \in members, NEW t \in Seq(Messages),
         inbox'[f] = inbox[f] \o t,
         flag'[f].start_to_save = flag[f].start_to_save,
         flag'[f].start_to_restore = flag[f].start_to_restore,
         pc[f] = "saved" => pc'[f] = "saved",
         ~ Has(t, Statuses \cup {"InitiateSave"}),
         pc[f] = "await_status" => pc'[f] = "await_status" \/ flag[f].request_complete,
         flag'[f].request_complete = flag[f].request_complete
  PROVE  /\ rti.doing # "save" \/ Has(t, SaveEnds) =>
              /\ flag'[f].start_to_save => pc'[f] = "saved" \/ Has(inbox'[f], SaveEnds)
              /\ \A i \in 1..Len(inbox'[f]) : inbox'[f][i].kind = "InitiateSave" =>
                   Behind(inbox'[f], i, SaveEnds)
         /\ rti.doing # "restore" \/ Has(t, RestoreEnds) =>
              /\ flag'[f].start_to_restore => Has(inbox'[f], RestoreEnds)
              /\ ~ Has(t, {"InitiateRestore"}) =>
                   \A i \in 1..Len(inbox'[f]) : inbox'[f][i].kind = "InitiateRestore" =>
                     Behind(inbox'[f], i, RestoreEnds)
         /\ StatusInv(f)'
  <1> DEFINE s == inbox[f]
             b == inbox'[f]
  <1>1. s \in Seq(Messages) /\ BeginInv(f) /\ EndInv(f) /\ StatusInv(f)
    BY DEF RInv, Inv, Types
  <1>2. /\ \A kinds : Has(b, kinds) <=> Has(s, kinds) \/ Has(t, kinds)
        /\ \A kinds : \A i \in 1..Len(s) :
              Behind(s, i, kinds) \/ Has(t, kinds) => Behind(b, i, kinds)
        /\ \A i \in 1..Len(s) : i \in 1..Len(b) /\ b[i] = s[i]
        /\ \A i \in 1..Len(b) : i \in 1..Len(s) \/ (i - Len(s) \in 1..Len(t) /\ b[i] = t[i - Len(s)])
    BY <1>1, HasMore
  <1>3. ASSUME NEW i \in 1..Len(b), NEW k, b[i].kind = k, ~ Has(t, {k})
        PROVE  i \in 1..Len(s) /\ s[i].kind = k
    <2>1. i \in 1..Len(s)
      BY <1>2, <1>3 DEF Has
    <2> QED BY <1>2, <1>3, <2>1
  <1>4. /\ ~ Has(t, {"InitiateSave"}) /\ \A k \in Statuses : ~ Has(t, {k})
    BY DEF Has
  <1> HIDE DEF s, b
  <1>5. ASSUME rti.doing # "save" \/ Has(t, SaveEnds)
        PROVE  /\ flag'[f].start_to_save => pc'[f] = "saved" \/ Has(b, SaveEnds)
               /\ \A i \in 1..Len(b) : b[i].kind = "InitiateSave" => Behind(b, i, SaveEnds)
    <2>1. flag'[f].start_to_save => pc'[f] = "saved" \/ Has(b, SaveEnds)
      <3>1. flag[f].start_to_save => rti.doing = "save" \/ pc[f] = "saved" \/ Has(s, SaveEnds)
        BY <1>1 DEF BeginInv, s
      <3> QED BY <1>2, <1>5, <3>1
    <2>2. ASSUME NEW i \in 1..Len(b), b[i].kind = "InitiateSave" PROVE Behind(b, i, SaveEnds)
      <3>1. i \in 1..Len(s) /\ s[i].kind = "InitiateSave"
        BY <1>3, <1>4, <2>2
      <3>2. rti.doing = "save" \/ Behind(s, i, SaveEnds)
        BY <1>1, <3>1 DEF BeginInv, s
      <3> QED BY <1>2, <1>5, <3>1, <3>2
    <2> QED BY <2>1, <2>2
  <1>6. ASSUME rti.doing # "restore" \/ Has(t, RestoreEnds)
        PROVE  /\ flag'[f].start_to_restore => Has(b, RestoreEnds)
               /\ ~ Has(t, {"InitiateRestore"}) =>
                    \A i \in 1..Len(b) : b[i].kind = "InitiateRestore" => Behind(b, i, RestoreEnds)
    <2>1. flag'[f].start_to_restore => Has(b, RestoreEnds)
      <3>1. flag[f].start_to_restore => rti.doing = "restore" \/ Has(s, RestoreEnds)
        BY <1>1 DEF EndInv, s
      <3> QED BY <1>2, <1>6, <3>1
    <2>2. ASSUME ~ Has(t, {"InitiateRestore"}), NEW i \in 1..Len(b), b[i].kind = "InitiateRestore"
          PROVE  Behind(b, i, RestoreEnds)
      <3>1. i \in 1..Len(s) /\ s[i].kind = "InitiateRestore"
        BY <1>3, <2>2
      <3>2. rti.doing = "restore" \/ Behind(s, i, RestoreEnds)
        BY <1>1, <3>1 DEF EndInv, s
      <3> QED BY <1>2, <1>6, <3>1, <3>2
    <2> QED BY <2>1, <2>2
  <1>7. StatusInv(f)'
    <2>1. \A i \in 1..Len(b) : b[i].kind \in Statuses => i \in 1..Len(s) /\ s[i].kind \in Statuses
      BY <1>3, <1>4
    <2>2. \A i \in 1..Len(s) : s[i].kind \in Statuses =>
            /\ pc[f] = "await_status" /\ ~ flag[f].request_complete
            /\ \A j \in 1..Len(s) : s[j].kind \in Statuses => j = i
      BY <1>1 DEF StatusInv, s
    <2>3. \A i \in 1..Len(b) : b[i].kind \in Statuses =>
            /\ pc'[f] = "await_status" /\ ~ flag'[f].request_complete
            /\ \A j \in 1..Len(b) : b[j].kind \in Statuses => j = i
      BY <2>1, <2>2
    <2> QED BY <2>3 DEF StatusInv, b
  <1> QED BY <1>5, <1>6, <1>7 DEF b


LEMMA AskStatusRestores ==
  ASSUME RInv, Inv', NEW f \in Federates, AskStatus(f)
  PROVE  RInv'
  <1> DEFINE k == IF rti.doing = "restore" THEN "SomebodyRestores" ELSE "NobodyRestores"
             t == <<Message(k, NoLabel)>>
             u == flag[f]
             v == flag'[f]
             s == inbox[f]
  <1>1. /\ f \in members /\ pc[f] = "await_required" /\ pc'[f] = "await_status"
        /\ \A g \in Federates \ {f} : pc'[g] = pc[g]
        /\ UNCHANGED <<members, rti, saves, file, loaded>>
    BY DEF AskStatus, Goto, RInv, Inv, Types, job, files
  <1>2. Intact
    BY DEF AskStatus, Intact, RInv, Inv, Types
  <1>3. flag \in [Federates -> FlagRecord]
    BY DEF RInv, MoreTypes
  <1>4. /\ v \in FlagRecord /\ ~ v.request_complete
        /\ v.start_to_save = u.start_to_save /\ v.start_to_restore = u.start_to_restore
        /\ v.announce_restore = u.announce_restore /\ v.process = u.process
        /\ v.restore_begun = u.restore_begun /\ v.restore_completed = u.restore_completed
        /\ v.failed_callback = u.failed_callback
    BY <1>3 DEF AskStatus, FlagRecord
  <1>5. \A g \in Federates \ {f} : flag'[g] = flag[g]
    BY <1>3 DEF AskStatus
  <1>6. flag' \in [Federates -> FlagRecord]
    BY <1>3, <1>4, <1>5 DEF AskStatus
  <1>7. inbox \in [Federates -> Seq(Messages)] /\ s \in Seq(Messages)
    BY DEF RInv, Inv, Types
  <1>8. k \in Kinds /\ NoLabel \in AllLabels
    BY DEF Kinds, AllLabels
  <1>9. /\ inbox'[f] = IF rti.doing = "save" THEN s ELSE s \o t
        /\ \A g \in Federates \ {f} : inbox'[g] = inbox[g]
    BY <1>7 DEF AskStatus, Tell
  <1>10. /\ t \in Seq(Messages) /\ Len(t) = 1 /\ t[1].kind = k
         /\ \A kinds : Has(t, kinds) <=> k \in kinds
    BY <1>8, OneMessage
  <1>11. k \in Statuses /\ (rti.doing # "restore" => k \in Earlier)
    BY DEF Statuses, Earlier
  <1> HIDE DEF k, t, u, v, s
  <1>12. MoreTypes'
    BY <1>1, <1>6 DEF RInv, MoreTypes
  <1>13. Aside(f)
    BY <1>1, <1>5, <1>9 DEF Aside
  <1>14. /\ BeginInv(f) /\ EndInv(f) /\ StatusInv(f) /\ FileInv(f) /\ BegunInv(f)
         /\ WholeInv /\ PhaseInv
    BY <1>1 DEF RInv
  <1>15. \A i \in 1..Len(s) : s[i].kind \notin Statuses
    BY <1>1, <1>14 DEF StatusInv, s
  <1>16. /\ \A kinds : Has(s \o t, kinds) <=> Has(s, kinds) \/ k \in kinds
         /\ \A kinds : \A i \in 1..Len(s) : Behind(s, i, kinds) => Behind(s \o t, i, kinds)
         /\ \A i \in 1..Len(s) : i \in 1..Len(s \o t) /\ (s \o t)[i] = s[i]
         /\ \A i \in 1..Len(s \o t) :
              i \in 1..Len(s) \/ (i = Len(s) + 1 /\ (s \o t)[i].kind = k)
         /\ Len(s) \in Nat
    <2>1. \A i \in 1..Len(s \o t) :
             i \in 1..Len(s) \/ (i - Len(s) \in 1..1 /\ (s \o t)[i] = t[i - Len(s)])
      BY <1>7, <1>10, HasMore DEF s
    <2>2. Len(s) \in Nat
      BY <1>7 DEF s
    <2>3. ASSUME NEW i \in 1..Len(s \o t), i \notin 1..Len(s)
          PROVE  i = Len(s) + 1 /\ (s \o t)[i].kind = k
      <3>1. i - Len(s) = 1 /\ (s \o t)[i] = t[i - Len(s)]
        BY <2>1, <2>2, <2>3
      <3>2. i = Len(s) + 1
        BY <2>2, <3>1
      <3> QED BY <1>10, <3>1, <3>2
    <2> QED BY SMTT(20), <1>7, <1>10, <2>2, <2>3, HasMore DEF s
  <1>17. BeginInv(f)'
    <2>1. CASE rti.doing = "save"
      BY <1>1, <1>4, <1>9, <1>14, <2>1 DEF BeginInv, s, u, v
    <2>2. CASE rti.doing # "save"
      <3>1. v.start_to_save => Has(s, SaveEnds)
        BY <1>1, <1>4, <1>14, <2>2 DEF BeginInv, s, u
      <3>2. \A i \in 1..Len(s) : s[i].kind = "InitiateSave" => Behind(s, i, SaveEnds)
        BY <1>14, <2>2 DEF BeginInv, s
      <3>3. \A i \in 1..Len(s \o t) : (s \o t)[i].kind = "InitiateSave" =>
              Behind(s \o t, i, SaveEnds)
        BY <1>11, <1>16, <3>2 DEF Statuses
      <3> QED BY <1>1, <1>9, <1>16, <2>2, <3>1, <3>3 DEF BeginInv, v
    <2> QED BY <2>1, <2>2
  <1>18. EndInv(f)'
    <2>1. CASE rti.doing = "save"
      BY <1>1, <1>4, <1>9, <1>14, <2>1 DEF EndInv, s, u, v
    <2>2. CASE rti.doing = "restore"
      BY <1>1, <2>2 DEF EndInv
    <2>3. CASE rti.doing \notin {"save", "restore"}
      <3>1. v.start_to_restore => Has(s, RestoreEnds)
        BY <1>1, <1>4, <1>14, <2>3 DEF EndInv, s, u
      <3>2. \A i \in 1..Len(s) : s[i].kind = "InitiateRestore" => Behind(s, i, RestoreEnds)
        BY <1>14, <2>3 DEF EndInv, s
      <3>3. \A i \in 1..Len(s \o t) : (s \o t)[i].kind = "InitiateRestore" =>
              Behind(s \o t, i, RestoreEnds)
        BY <1>11, <1>16, <3>2 DEF Statuses
      <3> QED BY <1>1, <1>9, <1>16, <2>3, <3>1, <3>3 DEF EndInv, v
    <2> QED BY <2>1, <2>2, <2>3
  <1>19. StatusInv(f)'
    <2>1. CASE rti.doing = "save"
      BY <1>9, <1>15, <2>1 DEF StatusInv
    <2>2. CASE rti.doing # "save"
      <3>1. \A i \in 1..Len(s \o t) : (s \o t)[i].kind \in Statuses => i = Len(s) + 1
        BY <1>15, <1>16
      <3> QED BY <1>1, <1>4, <1>9, <2>2, <3>1 DEF StatusInv, v
    <2> QED BY <2>1, <2>2
  <1>20. FileInv(f)' /\ BegunInv(f)'
    BY <1>1, <1>2, <1>4, <1>14 DEF FileInv, BegunInv, u, v
  <1>21. \A kinds : Has(inbox'[f], kinds) => Has(s, kinds) \/ k \in kinds
    BY <1>9, <1>16
  <1>22. Done(f)' => Done(f)
    BY <1>1, <1>11, <1>21 DEF Done, Statuses, s
  <1>23. ASSUME rti.doing = "restore" PROVE Restoring(f)'
    <2>1. ToldInv(f) /\ PlaceInv(f) /\ inbox'[f] = s \o t /\ k = "SomebodyRestores"
      BY <1>1, <1>9, <1>14, <1>23 DEF PhaseInv, Restoring, k
    <2>2. ToldInv(f)'
      <3>1. CASE /\ u.start_to_restore
                 /\ \A i \in 1..Len(s) : s[i].kind \in {"RestoreName", "SomebodyRestores"}
        <4>1. \A i \in 1..Len(s \o t) : (s \o t)[i].kind \in {"RestoreName", "SomebodyRestores"}
          BY <1>16, <2>1, <3>1
        <4> QED BY <1>4, <2>1, <3>1, <4>1 DEF ToldInv, v
      <3>2. CASE /\ ~ u.start_to_restore
                 /\ \E i \in 1..Len(s) :
                      /\ s[i].kind = "InitiateRestore"
                      /\ \A j \in 1..Len(s) :
                           /\ j < i => s[j].kind \in Before
                           /\ i < j => s[j].kind \in {"RestoreName", "SomebodyRestores"}
        <4>1. PICK i \in 1..Len(s) :
                      /\ s[i].kind = "InitiateRestore"
                      /\ \A j \in 1..Len(s) :
                           /\ j < i => s[j].kind \in Before
                           /\ i < j => s[j].kind \in {"RestoreName", "SomebodyRestores"}
          BY <3>2
        <4>2. i \in 1..Len(s \o t) /\ (s \o t)[i].kind = "InitiateRestore"
          BY <1>16, <4>1
        <4>3. ASSUME NEW j \in 1..Len(s \o t)
              PROVE  /\ j < i => (s \o t)[j].kind \in Before
                     /\ i < j => (s \o t)[j].kind \in {"RestoreName", "SomebodyRestores"}
          <5>1. CASE j \in 1..Len(s)
            BY <1>16, <4>1, <5>1
          <5>2. CASE j \notin 1..Len(s)
            <6>1. j = Len(s) + 1 /\ (s \o t)[j].kind = k
              BY <1>16, <5>2
            <6>2. ~ (j < i)
              BY <1>16, <6>1
            <6> QED BY <2>1, <6>1, <6>2
          <5> QED BY <5>1, <5>2
        <4> QED BY <1>4, <2>1, <3>2, <4>2, <4>3 DEF ToldInv, v
      <3> QED BY <2>1, <3>1, <3>2 DEF ToldInv, s, u
    <2>3. PlaceInv(f)'
      BY <1>1, <1>4, <2>1 DEF PlaceInv, Up, Elsewhere
    <2> QED BY <2>2, <2>3 DEF Restoring
  <1>24. ~ SomeDone
    BY <1>1, <1>14 DEF PhaseInv, Restored, Elsewhere
  <1>25. ASSUME rti.doing # "restore" PROVE Calm(f)'
    <2>1. Calm(f)
      BY <1>1, <1>2, <1>14, <1>24, <1>25 DEF PhaseInv
    <2>2. \A i \in 1..Len(inbox'[f]) : inbox'[f][i].kind \in Earlier
      <3>1. \A i \in 1..Len(s) : s[i].kind \in Earlier
        BY <2>1 DEF Calm, s
      <3> QED BY <1>9, <1>11, <1>16, <1>25, <3>1
    <2> QED BY <1>1, <1>4, <2>1, <2>2 DEF Calm, Asking, Elsewhere, u, v
  <1>26. ~ v.failed_callback /\ v.process # "RESTORE_FAILED" /\ ~ Has(inbox'[f], {"NotRestored"})
    <2>1. ~ u.failed_callback /\ u.process # "RESTORE_FAILED" /\ ~ Has(s, {"NotRestored"})
      BY <1>2, <1>14 DEF WholeInv, s, u
    <2> QED BY <1>4, <1>11, <1>21, <2>1 DEF Statuses
  <1>27. Fits(f)
    BY <1>2, <1>17, <1>18, <1>19, <1>20, <1>22, <1>23, <1>24, <1>25, <1>26 DEF Fits, v
  <1> QED BY <1>1, <1>12, <1>13, <1>27, StepFits

\* The RTI refuses.
LEMMA RequestFailsRestores ==
  ASSUME RInv, Inv', NEW f \in Federates, RequestRestore(f), saves[file[f]] # members
  PROVE  RInv'
  <1> DEFINE t == <<Message("RequestFailed", NoLabel)>>
             s == inbox[f]
  <1>1. /\ f \in members /\ pc[f] = "await_status" /\ pc'[f] = "requested"
        /\ \A g \in Federates \ {f} : pc'[g] = pc[g]
        /\ UNCHANGED <<members, rti, saves, file, loaded, flag>>
        /\ rti.doing = "nothing" /\ flag[f].request_complete
    BY DEF RequestRestore, Goto, RInv, Inv, Types, job, files
  <1>2. inbox \in [Federates -> Seq(Messages)] /\ s \in Seq(Messages)
    BY DEF RInv, Inv, Types
  <1>3. /\ inbox'[f] = s \o t /\ \A g \in Federates \ {f} : inbox'[g] = inbox[g]
    BY <1>2 DEF RequestRestore, Tell
  <1>4. /\ t \in Seq(Messages) /\ Len(t) = 1 /\ t[1].kind = "RequestFailed"
        /\ \A kinds : Has(t, kinds) <=> "RequestFailed" \in kinds
    BY OneMessage DEF Kinds, AllLabels
  <1> HIDE DEF t, s
  <1>5. MoreTypes'
    BY <1>1 DEF RInv, MoreTypes
  <1>6. Aside(f)
    BY <1>1, <1>3 DEF Aside
  <1>7. /\ StatusInv(f) /\ BegunInv(f) /\ WholeInv /\ PhaseInv
    BY <1>1 DEF RInv
  <1>8. ~ Has(t, Statuses \cup {"InitiateSave"}) /\ ~ Has(t, {"InitiateRestore"})
    BY <1>4 DEF Statuses
  <1>9. /\ flag[f].start_to_save => pc'[f] = "saved" \/ Has(inbox'[f], SaveEnds)
        /\ \A i \in 1..Len(inbox'[f]) : inbox'[f][i].kind = "InitiateSave" =>
             Behind(inbox'[f], i, SaveEnds)
        /\ flag[f].start_to_restore => Has(inbox'[f], RestoreEnds)
        /\ \A i \in 1..Len(inbox'[f]) : inbox'[f][i].kind = "InitiateRestore" =>
             Behind(inbox'[f], i, RestoreEnds)
        /\ StatusInv(f)'
    BY <1>1, <1>3, <1>4, <1>8, StillHas DEF s
  <1>10. BeginInv(f)' /\ EndInv(f)' /\ FileInv(f)' /\ BegunInv(f)'
    BY <1>1, <1>7, <1>9 DEF BeginInv, EndInv, FileInv, BegunInv
  <1>11. \A kinds : Has(inbox'[f], kinds) <=> Has(s, kinds) \/ "RequestFailed" \in kinds
    BY <1>2, <1>3, <1>4, HasMore DEF s
  <1>12. Done(f)' => Done(f)
    BY <1>1, <1>11 DEF Done, s
  <1>13. ~ SomeDone
    BY <1>1, <1>7 DEF PhaseInv, Restored, Elsewhere
  <1>14. ASSUME Intact PROVE Calm(f)'
    <2>1. Calm(f)
      BY <1>1, <1>7, <1>13, <1>14 DEF PhaseInv
    <2>2. \A i \in 1..Len(s) : s[i].kind \in Earlier
      BY <2>1 DEF Calm, s
    <2>3. \A i \in 1..Len(s \o t) : (s \o t)[i].kind \in Earlier
      <3> TAKE i \in 1..Len(s \o t)
      <3>1. CASE i \in 1..Len(s)
        <4>1. (s \o t)[i] = s[i]
          BY <1>2, <1>4, <3>1, HasMore DEF s
        <4> QED BY <2>2, <3>1, <4>1
      <3>2. CASE i \notin 1..Len(s)
        <4>1. i - Len(s) \in 1..1 /\ (s \o t)[i] = t[i - Len(s)]
          BY <1>2, <1>4, <3>2, HasMore DEF s
        <4>2. i - Len(s) = 1
          BY <1>2, <4>1 DEF s
        <4> QED BY <1>4, <4>1, <4>2 DEF Earlier
      <3> QED BY <3>1, <3>2
    <2> QED BY <1>1, <1>3, <2>1, <2>3 DEF Calm, Asking, Elsewhere
  <1>15. Intact => /\ ~ flag'[f].failed_callback /\ flag'[f].process # "RESTORE_FAILED"
                   /\ ~ Has(inbox'[f], {"NotRestored"})
    BY <1>1, <1>7, <1>11 DEF WholeInv, s
  <1>16. Fits(f)
    BY <1>1, <1>9, <1>10, <1>12, <1>13, <1>14, <1>15 DEF Fits
  <1> QED BY <1>1, <1>5, <1>6, <1>16, StepFits


-----------------------------------------------------------------------------
(* Steps that may complete what the RTI is doing: not the last of them.    *)

\* The RTI is told nothing.
LEMMA InformQuietlyRestores ==
  ASSUME RInv, Inv', NEW f \in Federates, InformRTI(f),
         ~ (rti.doing = "restore" /\ flag[f].prev_process = "RESTORE_COMPLETE")
  PROVE  RInv'
  <1>1. /\ f \in members /\ pc[f] = "await_begun" /\ pc'[f] = "await_restored"
        /\ \A g \in Federates \ {f} : pc'[g] = pc[g]
        /\ UNCHANGED <<members, saves, file, loaded, flag>>
        /\ flag[f].restore_begun
    BY DEF InformRTI, Goto, RInv, Inv, Types, job, files
  <1>2. rti' = rti /\ inbox' = inbox
    BY DEF InformRTI
  <1>3. MoreTypes'
    BY <1>1, <1>2 DEF RInv, MoreTypes
  <1>4. Aside(f) /\ Steady(f)
    BY <1>1, <1>2 DEF Aside, Steady
  <1>5. BegunInv(f) /\ PhaseInv
    BY <1>1 DEF RInv
  <1>6. rti.doing # "restore"
    BY <1>1, <1>5 DEF PhaseInv, Restoring, PlaceInv
  <1>7. FileInv(f)' /\ ~ flag[f].restore_completed
    BY <1>1, <1>5 DEF FileInv, BegunInv
  <1>8. ~ Restored(f) /\ ~ Calm(f)
    BY <1>1 DEF Restored, Calm, Elsewhere, Asking
  <1>9. Goes(f)
    BY <1>1, <1>6, <1>7, <1>8 DEF Goes
  <1> QED BY <1>1, <1>3, <1>4, <1>9, OwnStep

\* The RTI waits for one less.
LEMMA WaitsForLess ==
  ASSUME Inv, NEW f \in Federates, rti' = [rti EXCEPT !.waiting = @ \ {f}]
  PROVE  /\ rti'.doing = rti.doing /\ rti'.number = rti.number /\ rti'.begun = rti.begun
         /\ rti'.waiting = rti.waiting \ {f}
  <1>1. rti \in RtiStates
    BY DEF Inv, Types
  <1> QED BY <1>1 DEF RtiStates

LEMMA InformRestores ==
  ASSUME RInv, Inv', NEW f \in Federates, InformRTI(f),
         rti.doing = "restore", flag[f].prev_process = "RESTORE_COMPLETE", rti.waiting # {f}
  PROVE  RInv'
  <1>1. /\ f \in members /\ pc[f] = "await_begun" /\ pc'[f] = "await_restored"
        /\ \A g \in Federates \ {f} : pc'[g] = pc[g]
        /\ UNCHANGED <<members, saves, file, loaded, flag>>
        /\ flag[f].restore_begun
    BY DEF InformRTI, Goto, RInv, Inv, Types, job, files
  <1>2. rti' = [rti EXCEPT !.waiting = @ \ {f}] /\ inbox' = inbox
    BY DEF InformRTI, RtiComplete
  <1>3. /\ rti'.doing = rti.doing /\ rti'.number = rti.number /\ rti'.begun = rti.begun
        /\ rti'.waiting = rti.waiting \ {f}
    BY <1>2, WaitsForLess DEF RInv
  <1>4. MoreTypes'
    BY <1>1, <1>2, <1>3 DEF RInv, MoreTypes
  <1>5. Aside(f)
    BY <1>1, <1>2, <1>3 DEF Aside
  <1>6. /\ BeginInv(f) /\ EndInv(f) /\ StatusInv(f) /\ FileInv(f) /\ BegunInv(f)
        /\ WholeInv /\ PhaseInv
    BY <1>1 DEF RInv
  <1>7. ~ flag[f].restore_completed
    BY <1>1, <1>6 DEF BegunInv
  <1>8. BeginInv(f)'
    BY <1>1, <1>2, <1>3, <1>6 DEF BeginInv
  <1>9. EndInv(f)' /\ StatusInv(f)' /\ FileInv(f)' /\ BegunInv(f)'
    BY <1>1, <1>2, <1>3, <1>6 DEF EndInv, StatusInv, FileInv, BegunInv
  <1>10. Done(f)' => Done(f)
    BY <1>1, <1>2, <1>7 DEF Done
  <1>11. Restoring(f)'
    <2>1. ToldInv(f) /\ PlaceInv(f)
      BY <1>1, <1>6 DEF PhaseInv, Restoring
    <2>2. ToldInv(f)'
      BY <1>1, <1>2, <2>1 DEF ToldInv
    <2>3. HasLoaded(f)'
      BY <1>1, <1>3, <2>1 DEF PlaceInv, HasLoaded, Up
    <2>4. PlaceInv(f)'
      BY <1>1, <1>3, <1>7, <2>3 DEF PlaceInv, Elsewhere
    <2> QED BY <2>2, <2>4 DEF Restoring
  <1>12. ~ SomeDone
    BY <1>6 DEF PhaseInv
  <1>13. Intact => /\ ~ flag'[f].failed_callback /\ flag'[f].process # "RESTORE_FAILED"
                   /\ ~ Has(inbox'[f], {"NotRestored"})
    BY <1>1, <1>2, <1>6 DEF WholeInv
  <1>14. Fits(f)
    BY <1>1, <1>8, <1>9, <1>10, <1>11, <1>12, <1>13 DEF Fits
  <1> QED BY <1>1, <1>4, <1>5, <1>14, StepFits

\* f is not in the save that is under way, if any.
LEMMA PostQuietlyRestores ==
  ASSUME RInv, Inv', NEW f \in Federates, PostCheckpoint(f),
         ~ (flag[f].start_to_save /\ f \in rti.begun)
  PROVE  RInv'
  <1>1. /\ f \in members /\ pc[f] = "post_checkpoint" /\ pc'[f] = "frozen"
        /\ \A g \in Federates \ {f} : pc'[g] = pc[g]
        /\ UNCHANGED <<members, saves, file, loaded, flag, rti, inbox>>
    BY DEF PostCheckpoint, Goto, RInv, Inv, Types, job, files
  <1>2. MoreTypes'
    BY <1>1 DEF RInv, MoreTypes
  <1>3. Aside(f) /\ Steady(f)
    BY <1>1 DEF Aside, Steady
  <1>4. pc[f] \in Elsewhere /\ pc[f] # "saved" /\ pc'[f] \in Elsewhere \ {"saved"}
    BY <1>1 DEF Elsewhere
  <1> QED BY <1>1, <1>2, <1>3, <1>4, ElsewhereStep

LEMMA PostRestores ==
  ASSUME RInv, Inv', NEW f \in Federates, PostCheckpoint(f),
         flag[f].start_to_save, f \in rti.begun, rti.waiting # {f}
  PROVE  RInv'
  <1>1. /\ f \in members /\ pc[f] = "post_checkpoint" /\ pc'[f] = "saved"
        /\ \A g \in Federates \ {f} : pc'[g] = pc[g]
        /\ UNCHANGED <<members, saves, file, loaded, flag>>
    BY DEF PostCheckpoint, Goto, RInv, Inv, Types, job, files
  <1>2. rti' = [rti EXCEPT !.waiting = @ \ {f}] /\ inbox' = inbox
    BY DEF PostCheckpoint, RtiComplete
  <1>3. /\ rti'.doing = rti.doing /\ rti'.number = rti.number /\ rti'.begun = rti.begun
        /\ rti'.waiting = rti.waiting \ {f}
    BY <1>2, WaitsForLess DEF RInv
  <1>4. rti.doing = "save"
    BY DEF RInv, Inv
  <1>5. MoreTypes'
    BY <1>1, <1>2, <1>3, <1>4 DEF RInv, MoreTypes
  <1>6. Aside(f)
    BY <1>1, <1>2, <1>3 DEF Aside
  <1>7. /\ BeginInv(f) /\ EndInv(f) /\ StatusInv(f) /\ FileInv(f) /\ BegunInv(f)
        /\ WholeInv /\ PhaseInv
    BY <1>1 DEF RInv
  <1>8. inbox[f] = <<>>
    BY <1>4, <1>7 DEF BeginInv
  <1>9. BeginInv(f)'
    BY <1>1, <1>2, <1>3, <1>4, <1>7, <1>8 DEF BeginInv
  <1>10. EndInv(f)' /\ StatusInv(f)' /\ FileInv(f)' /\ BegunInv(f)'
    BY <1>1, <1>2, <1>3, <1>7 DEF EndInv, StatusInv, FileInv, BegunInv
  <1>11. Done(f)' => Done(f)
    BY <1>1, <1>2 DEF Done
  <1>12. ~ SomeDone
    BY <1>4, <1>7 DEF PhaseInv
  <1>13. Intact => Calm(f)'
    BY <1>1, <1>2, <1>4, <1>7, <1>12 DEF PhaseInv, Calm, Elsewhere
  <1>14. Intact => /\ ~ flag'[f].failed_callback /\ flag'[f].process # "RESTORE_FAILED"
                   /\ ~ Has(inbox'[f], {"NotRestored"})
    BY <1>1, <1>2, <1>7 DEF WholeInv
  <1>15. Fits(f)
    BY <1>1, <1>4, <1>9, <1>10, <1>11, <1>12, <1>13, <1>14 DEF Fits
  <1> QED BY <1>1, <1>5, <1>6, <1>15, StepFits


-----------------------------------------------------------------------------
(* Steps of the RTI, of which everybody is told.                           *)

LEMMA OneMore ==
  ASSUME NEW s \in Seq(Messages), NEW t \in Seq(Messages), Len(t) = 1
  PROVE  /\ Len(s \o t) = Len(s) + 1 /\ Len(s) \in Nat /\ s \o t # <<>>
         /\ (s \o t)[Len(s) + 1] = t[1]
         /\ \A i \in 1..Len(s) : (s \o t)[i] = s[i]
         /\ \A i \in 1..Len(s \o t) : i \in 1..Len(s) \/ i = Len(s) + 1
  <1>1. Len(s \o t) = Len(s) + 1 /\ Len(s) \in Nat
    <2>1. Len(s \o t) = Len(s) + Len(t) /\ Len(s) \in Nat
      BY HasMore
    <2> QED BY <2>1
  <1>2. Len(s) + 1 \in 1..Len(s \o t) /\ Len(s) + 1 \notin 1..Len(s)
    BY <1>1
  <1>3. (s \o t)[Len(s) + 1] = t[1]
    <2>1. 1 \in 1..Len(t)
      OBVIOUS
    <2>2. (s \o t)[1 + Len(s)] = t[1]
      BY <2>1, HasMore
    <2> QED BY <1>1, <2>2
  <1>4. s \o t # <<>>
    BY <1>1
  <1>5. \A i \in 1..Len(s \o t) : i \in 1..Len(s) \/ i = Len(s) + 1
    BY <1>1
  <1>6. \A i \in 1..Len(s) : (s \o t)[i] = s[i]
    BY HasMore
  <1> QED BY <1>1, <1>3, <1>4, <1>5, <1>6

LEMMA IdleIs ==
  ASSUME rti' = Idle, Inv
  PROVE  /\ rti'.doing = "nothing" /\ rti'.number = rti.number
         /\ rti'.begun = {} /\ rti'.waiting = {}
  <1>1. rti \in RtiStates
    BY DEF Inv, Types
  <1> QED BY <1>1 DEF Idle, RtiStates

\* f is told the end of what the RTI did.
LEMMA HearsTheEnd ==
  ASSUME RInv, NEW f \in Federates, f \in members, NEW t \in Seq(Messages),
         inbox'[f] = inbox[f] \o t, flag' = flag, rti'.doing = "nothing",
         pc'[f] = pc[f] \/ pc[f] \in {"post_checkpoint", "await_begun"},
         ~ Has(t, Statuses \cup {"InitiateSave"}), ~ Has(t, {"InitiateRestore"}),
         rti.doing = "save" => Has(t, SaveEnds),
         rti.doing = "restore" => Has(t, RestoreEnds)
  PROVE  BeginInv(f)' /\ EndInv(f)' /\ StatusInv(f)' /\ BegunInv(f)'
  <1>1. /\ pc[f] = "saved" => pc'[f] = "saved"
        /\ pc[f] = "await_status" => pc'[f] = "await_status" \/ flag[f].request_complete
    OBVIOUS
  <1>2. /\ flag[f].start_to_save => pc'[f] = "saved" \/ Has(inbox'[f], SaveEnds)
        /\ \A i \in 1..Len(inbox'[f]) : inbox'[f][i].kind = "InitiateSave" =>
             Behind(inbox'[f], i, SaveEnds)
        /\ flag[f].start_to_restore => Has(inbox'[f], RestoreEnds)
        /\ \A i \in 1..Len(inbox'[f]) : inbox'[f][i].kind = "InitiateRestore" =>
             Behind(inbox'[f], i, RestoreEnds)
        /\ StatusInv(f)'
    BY <1>1, StillHas
  <1>3. BeginInv(f)'
    BY <1>2 DEF BeginInv
  <1>4. EndInv(f)' /\ BegunInv(f)'
    BY <1>2 DEF EndInv, BegunInv, RInv
  <1> QED BY <1>2, <1>3, <1>4

\* The last one has told the RTI that it has saved.
LEMMA SavedRestores ==
  ASSUME RInv, Inv', NEW f \in Federates, PostCheckpoint(f),
         flag[f].start_to_save, f \in rti.begun, rti.waiting = {f}
  PROVE  RInv'
  <1> DEFINE t == <<Message("Saved", rti.label)>>
  <1>1. /\ f \in members /\ pc[f] = "post_checkpoint" /\ pc'[f] = "saved"
        /\ \A g \in Federates \ {f} : pc'[g] = pc[g]
        /\ UNCHANGED <<members, file, loaded, flag>>
        /\ saves' = [saves EXCEPT ![rti.label] = members]
    BY DEF PostCheckpoint, Goto, RInv, Inv, Types, job, files
  <1>2. /\ rti' = Idle /\ \A g \in Federates : g \in members => inbox'[g] = inbox[g] \o t
        /\ \A g \in Federates : g \notin members => inbox'[g] = inbox[g]
    BY DEF PostCheckpoint, RtiComplete, Tell
  <1>3. rti'.doing = "nothing" /\ rti'.begun = {} /\ rti'.waiting = {}
    BY <1>2, IdleIs DEF RInv
  <1>4. rti.doing = "save" /\ members \subseteq Federates /\ rti.label \in AllLabels
        /\ saves \in [Labels -> SUBSET Federates] /\ inbox \in [Federates -> Seq(Messages)]
    BY DEF RInv, Inv, Types, RtiStates
  <1>5. /\ t \in Seq(Messages) /\ Len(t) = 1 /\ t[1].kind = "Saved"
        /\ \A kinds : Has(t, kinds) <=> "Saved" \in kinds
    BY <1>4, OneMessage DEF Kinds
  <1> HIDE DEF t
  <1>6. MoreTypes'
    BY <1>1, <1>3 DEF RInv, MoreTypes
  <1>7. WholeInv /\ PhaseInv
    BY DEF RInv
  <1>8. \A g \in members : pc'[g] = pc[g] \/ pc[g] \in {"post_checkpoint", "await_begun"}
    BY <1>1, <1>4
  <1>9. /\ ~ Has(t, Statuses \cup {"InitiateSave"}) /\ ~ Has(t, {"InitiateRestore"})
        /\ Has(t, SaveEnds)
    BY <1>5 DEF Statuses, SaveEnds
  <1>10. ASSUME NEW g \in members
         PROVE  BeginInv(g)' /\ EndInv(g)' /\ StatusInv(g)' /\ BegunInv(g)' /\ FileInv(g)'
    <2>1. BeginInv(g)' /\ EndInv(g)' /\ StatusInv(g)' /\ BegunInv(g)'
      BY <1>1, <1>2, <1>3, <1>4, <1>5, <1>8, <1>9, <1>10, HearsTheEnd
    <2>2. FileInv(g)'
      BY <1>1, <1>4, <1>10 DEF RInv, FileInv, Intact
    <2> QED BY <2>1, <2>2
  <1>11. ASSUME NEW g \in members
         PROVE  \A kinds : Has(inbox'[g], kinds) <=> Has(inbox[g], kinds) \/ "Saved" \in kinds
    <2>1. inbox'[g] = inbox[g] \o t /\ inbox[g] \in Seq(Messages)
      BY <1>2, <1>4, <1>11
    <2>2. \A kinds : Has(inbox[g] \o t, kinds) <=> Has(inbox[g], kinds) \/ Has(t, kinds)
      BY <1>5, <2>1, HasMore
    <2> QED BY <1>5, <2>1, <2>2
  <1>12. WholeInv'
    <2>1. (\E g \in members : pc'[g] = "await_status") => \E g \in members : pc[g] = "await_status"
      BY <1>1, <1>4
    <2>2. Intact \/ (\E g \in members : pc'[g] = "await_status") => Intact
      BY <1>4, <1>7, <2>1 DEF WholeInv
    <2>3. Intact => \A l \in Labels : saves'[l] \in {Federates, {}}
      BY <1>1, <1>4, <1>7 DEF WholeInv, Intact
    <2>4. Intact => \A g \in Federates :
            /\ ~ flag[g].failed_callback /\ flag[g].process # "RESTORE_FAILED"
            /\ ~ Has(inbox'[g], {"NotRestored"})
      BY <1>7, <1>11 DEF WholeInv, Intact
    <2>5. Intact' <=> Intact
      BY <1>1 DEF Intact
    <2> QED BY <1>1, <1>3, <2>2, <2>3, <2>4, <2>5 DEF WholeInv
  <1>13. PhaseInv'
    <2>1. ~ SomeDone
      BY <1>4, <1>7 DEF PhaseInv
    <2>2. ~ SomeDone'
      <3>1. ASSUME NEW g \in members, Done(g)' PROVE Done(g)
        BY <1>1, <1>4, <1>11, <3>1 DEF Done
      <3> QED BY <1>1, <2>1, <3>1 DEF SomeDone
    <2>3. ASSUME Intact, NEW g \in members PROVE Calm(g)'
      <3>1. Calm(g)
        BY <1>4, <1>7, <2>1, <2>3 DEF PhaseInv
      <3>2. ASSUME NEW i \in 1..Len(inbox'[g]) PROVE inbox'[g][i].kind \in Earlier
        <4>1. inbox'[g] = inbox[g] \o t /\ inbox[g] \in Seq(Messages)
          BY <1>2, <1>4, <2>3
        <4>2. CASE i \in 1..Len(inbox[g])
          BY <1>5, <3>1, <4>1, <4>2, HasMore DEF Calm
        <4>3. CASE i \notin 1..Len(inbox[g])
          <5>1. i - Len(inbox[g]) \in 1..1 /\ inbox'[g][i] = t[i - Len(inbox[g])]
            BY <1>5, <4>1, <4>3, <3>2, HasMore
          <5>2. i - Len(inbox[g]) = 1
            BY <4>1, <5>1
          <5> QED BY <1>5, <5>1, <5>2 DEF Earlier
        <4> QED BY <4>2, <4>3
      <3>3. pc'[g] = pc[g] \/ (pc'[g] = "saved" /\ pc[g] = "post_checkpoint")
        BY <1>1, <1>4
      <3> QED BY <1>1, <3>1, <3>2, <3>3 DEF Calm, Elsewhere
    <2> QED BY <1>1, <1>3, <2>2, <2>3 DEF PhaseInv, Intact
  <1> QED BY <1>1, <1>6, <1>10, <1>12, <1>13 DEF RInv

\* The last one has told the RTI that it has restored.
LEMMA RestoredRestores ==
  ASSUME RInv, Inv', NEW f \in Federates, InformRTI(f),
         rti.doing = "restore", flag[f].prev_process = "RESTORE_COMPLETE", rti.waiting = {f}
  PROVE  RInv'
  <1> DEFINE t == <<Message("Restored", rti.label)>>
  <1>1. /\ f \in members /\ pc[f] = "await_begun" /\ pc'[f] = "await_restored"
        /\ \A g \in Federates \ {f} : pc'[g] = pc[g]
        /\ UNCHANGED <<members, saves, file, loaded, flag>>
        /\ flag[f].restore_begun
    BY DEF InformRTI, Goto, RInv, Inv, Types, job, files
  <1>2. /\ rti' = Idle /\ \A g \in Federates : g \in members => inbox'[g] = inbox[g] \o t
        /\ \A g \in Federates : g \notin members => inbox'[g] = inbox[g]
    BY DEF InformRTI, RtiComplete, Tell
  <1>3. /\ rti'.doing = "nothing" /\ rti'.number = rti.number
        /\ rti'.begun = {} /\ rti'.waiting = {}
    BY <1>2, IdleIs DEF RInv
  <1>4. members \subseteq Federates /\ rti.label \in AllLabels /\ inbox \in [Federates -> Seq(Messages)]
    BY DEF RInv, Inv, Types, RtiStates
  <1>5. /\ t \in Seq(Messages) /\ Len(t) = 1 /\ t[1].kind = "Restored"
        /\ \A kinds : Has(t, kinds) <=> "Restored" \in kinds
    BY <1>4, OneMessage DEF Kinds
  <1> HIDE DEF t
  <1>6. MoreTypes'
    BY <1>1, <1>3 DEF RInv, MoreTypes
  <1>7. WholeInv /\ PhaseInv /\ Intact
    BY DEF RInv, WholeInv
  <1>8. \A g \in members : pc'[g] = pc[g] \/ pc[g] \in {"post_checkpoint", "await_begun"}
    BY <1>1, <1>4
  <1>9. /\ ~ Has(t, Statuses \cup {"InitiateSave"}) /\ ~ Has(t, {"InitiateRestore"})
        /\ Has(t, RestoreEnds)
    BY <1>5 DEF Statuses, RestoreEnds
  <1>10. ASSUME NEW g \in members
         PROVE  BeginInv(g)' /\ EndInv(g)' /\ StatusInv(g)' /\ BegunInv(g)' /\ FileInv(g)'
    <2>1. BeginInv(g)' /\ EndInv(g)' /\ StatusInv(g)' /\ BegunInv(g)'
      BY <1>1, <1>2, <1>3, <1>4, <1>5, <1>8, <1>9, <1>10, HearsTheEnd
    <2>2. FileInv(g)'
      BY <1>1, <1>4, <1>10 DEF RInv, FileInv, Intact
    <2> QED BY <2>1, <2>2
  <1>11. ASSUME NEW g \in members
         PROVE  \A kinds : Has(inbox'[g], kinds) <=> Has(inbox[g], kinds) \/ "Restored" \in kinds
    <2>1. inbox'[g] = inbox[g] \o t /\ inbox[g] \in Seq(Messages)
      BY <1>2, <1>4, <1>11
    <2>2. \A kinds : Has(inbox[g] \o t, kinds) <=> Has(inbox[g], kinds) \/ Has(t, kinds)
      BY <1>5, <2>1, HasMore
    <2> QED BY <1>5, <2>1, <2>2
  <1>12. WholeInv'
    <2>1. \A g \in Federates :
            /\ ~ flag[g].failed_callback /\ flag[g].process # "RESTORE_FAILED"
            /\ ~ Has(inbox'[g], {"NotRestored"})
      BY <1>7, <1>11 DEF WholeInv, Intact
    <2> QED BY <1>1, <1>3, <1>7, <2>1 DEF WholeInv, Intact
  <1>13. ASSUME NEW g \in members PROVE Done(g)' /\ Restored(g)'
    <2>1. ToldInv(g) /\ PlaceInv(g) /\ BegunInv(g) /\ StatusInv(g) /\ g \in Federates
      BY <1>4, <1>7 DEF PhaseInv, Restoring, RInv
    <2>2. pc[g] \in {"await_restored", "await_begun"} /\ pc'[g] = "await_restored"
      BY <1>1, <2>1 DEF PlaceInv
    <2>3. HasLoaded(g) /\ ~ flag[g].restore_completed
      BY <1>1, <2>1, <2>2 DEF PlaceInv, Up, BegunInv
    <2>4. \A i \in 1..Len(inbox[g]) : inbox[g][i].kind = "RestoreName"
      BY <2>1, <2>2, <2>3 DEF ToldInv, HasLoaded, StatusInv, Statuses
    <2>5. Done(g)'
      BY <1>11, <1>13 DEF Done
    <2>6. inbox'[g] = inbox[g] \o t /\ inbox[g] \in Seq(Messages)
      BY <1>2, <1>4, <1>13
    <2>7. /\ Len(inbox'[g]) = Len(inbox[g]) + 1 /\ Len(inbox[g]) \in Nat
          /\ inbox'[g] # <<>> /\ inbox'[g][Len(inbox[g]) + 1] = t[1]
      <3>1. /\ Len(inbox[g] \o t) = Len(inbox[g]) + 1 /\ Len(inbox[g]) \in Nat
            /\ inbox[g] \o t # <<>> /\ (inbox[g] \o t)[Len(inbox[g]) + 1] = t[1]
        BY <1>5, <2>6, OneMore
      <3> QED BY <2>6, <3>1
    <2>8. inbox'[g][Len(inbox'[g])].kind = "Restored"
      BY <1>5, <2>7
    <2>9. ASSUME NEW i \in 1..Len(inbox'[g]), i < Len(inbox'[g])
          PROVE  inbox'[g][i].kind = "RestoreName"
      <3>1. i \in 1..Len(inbox[g])
        BY <2>7, <2>9
      <3>2. inbox'[g][i] = inbox[g][i]
        BY <1>5, <2>6, <3>1, HasMore
      <3> QED BY <2>4, <3>1, <3>2
    <2>10. ~ flag[g].failed_callback /\ flag[g].process # "RESTORE_FAILED"
      BY <1>7, <2>1 DEF WholeInv
    <2>11. Restored(g)'
      BY <1>1, <1>3, <2>2, <2>3, <2>7, <2>8, <2>9, <2>10 DEF Restored, HasLoaded, Elsewhere
    <2> QED BY <2>5, <2>11
  <1>14. PhaseInv'
    <2>1. SomeDone'
      BY <1>1, <1>13 DEF SomeDone
    <2> QED BY <1>1, <1>3, <1>13, <2>1 DEF PhaseInv
  <1> QED BY <1>1, <1>6, <1>10, <1>12, <1>14 DEF RInv


\* A save begins.
LEMMA RequestSaveRestores ==
  ASSUME RInv, Inv', NEW l \in Labels, RequestSave(l)
  PROVE  RInv'
  <1> DEFINE t == <<Message("InitiateSave", l)>>
  <1>1. /\ rti.doing = "nothing" /\ \A f \in members : Quiet(f)
        /\ rti' = Doing("save", l, rti.number) /\ Tell(members, t)
        /\ UNCHANGED <<members, saves, pc, file, loaded, flag>>
    BY DEF RequestSave, job, files
  <1>2. /\ rti'.doing = "save" /\ rti'.begun = {} /\ rti'.waiting = members
    BY <1>1 DEF Doing
  <1>3. members \subseteq Federates /\ l \in AllLabels
    BY DEF RInv, Inv, Types, AllLabels
  <1>4. /\ t \in Seq(Messages) /\ Len(t) = 1 /\ t[1].kind = "InitiateSave"
        /\ \A kinds : Has(t, kinds) <=> "InitiateSave" \in kinds
    BY <1>3, OneMessage DEF Kinds
  <1>5. ASSUME NEW f \in members
        PROVE  /\ inbox'[f] = t /\ pc[f] = "frozen"
               /\ ~ flag[f].start_to_save /\ ~ flag[f].start_to_restore
    <2>1. /\ inbox[f] = <<>> /\ pc[f] = "frozen" /\ f \in Federates
          /\ ~ flag[f].start_to_save /\ ~ flag[f].start_to_restore
      BY <1>1, <1>3 DEF Quiet
    <2>2. inbox'[f] = <<>> \o t
      BY <1>1, <2>1 DEF Tell
    <2> HIDE DEF t
    <2>3. inbox'[f] = t
      BY <1>4, <2>2
    <2> QED BY <2>1, <2>3
  <1> HIDE DEF t
  <1>6. MoreTypes'
    BY <1>1, <1>2 DEF RInv, MoreTypes
  <1>7. WholeInv /\ PhaseInv /\ \A f \in members : BegunInv(f)
    BY DEF RInv
  <1>8. ASSUME NEW f \in members
        PROVE  BeginInv(f)' /\ EndInv(f)' /\ StatusInv(f)' /\ FileInv(f)' /\ BegunInv(f)'
    <2>1. \A i \in 1..Len(inbox'[f]) : i = 1 /\ inbox'[f][i].kind = "InitiateSave"
      <3>1. inbox'[f] = t
        BY <1>5
      <3>2. \A i \in 1..Len(t) : i = 1
        BY <1>4
      <3> QED BY <1>4, <3>1, <3>2
    <2>2. inbox'[f] # <<>> /\ Len(inbox'[f]) = 1
      BY <1>4, <1>5
    <2>3. BeginInv(f)'
      BY <1>1, <1>2, <1>4, <1>5, <2>1, <2>2 DEF BeginInv
    <2>4. EndInv(f)'
      BY <1>1, <1>5, <2>1 DEF EndInv
    <2>5. StatusInv(f)'
      BY <2>1 DEF StatusInv, Statuses
    <2> QED BY <1>1, <1>5, <1>7, <2>3, <2>4, <2>5 DEF FileInv, BegunInv
  <1>9. \A f \in members : \A kinds : Has(inbox'[f], kinds) <=> "InitiateSave" \in kinds
    BY <1>4, <1>5
  <1>10. ~ SomeDone' /\ ~ SomeDone
    <2>1. ~ SomeDone'
      <3>1. ASSUME NEW f \in members, Done(f)' PROVE FALSE
        BY <1>1, <1>5, <1>9, <3>1 DEF Done
      <3> QED BY <1>1, <3>1 DEF SomeDone
    <2>2. ~ SomeDone
      <3>1. ASSUME NEW f \in members, Done(f) PROVE FALSE
        BY <1>1, <3>1, DoneIsBusy
      <3> QED BY <3>1 DEF SomeDone
    <2> QED BY <2>1, <2>2
  <1>11. WholeInv'
    <2>1. ~ \E f \in members : pc'[f] = "await_status"
      BY <1>1, <1>5
    <2>2. Intact => \A f \in Federates :
            /\ ~ flag[f].failed_callback /\ flag[f].process # "RESTORE_FAILED"
            /\ ~ Has(inbox'[f], {"NotRestored"})
      BY <1>7, <1>9 DEF WholeInv, Intact
    <2> QED BY <1>1, <1>2, <1>7, <2>1, <2>2 DEF WholeInv, Intact
  <1>12. ASSUME Intact, NEW f \in members PROVE Calm(f)'
    <2>1. Calm(f)
      BY <1>1, <1>7, <1>10, <1>12 DEF PhaseInv
    <2>2. \A i \in 1..Len(inbox'[f]) : inbox'[f][i].kind \in Earlier
      BY <1>4, <1>5 DEF Earlier
    <2> QED BY <1>1, <2>1, <2>2 DEF Calm
  <1>13. PhaseInv'
    BY <1>1, <1>2, <1>10, <1>12 DEF PhaseInv, Intact
  <1> QED BY <1>1, <1>6, <1>8, <1>11, <1>13 DEF RInv

LEMMA Regrouped ==
  ASSUME NEW a \in Seq(Messages), NEW b \in Seq(Messages), NEW c \in Seq(Messages)
  PROVE  (a \o b) \o c = a \o (b \o c)
  OBVIOUS

\* A restore begins: the whole federation is there, and nobody does anything else.
LEMMA RestoreBegins ==
  ASSUME RInv, Inv', NEW f \in Federates, RequestRestore(f), saves[file[f]] = members
  PROVE  RInv'
  <1> DEFINE r == <<Message("RestoreBegun", NoLabel), Message("InitiateRestore", NoLabel),
                    Message("RestoreName", file[f])>>
             q == <<Message("RequestSucceeded", NoLabel)>>
             p(g) == IF g = f THEN q ELSE <<>>
             t(g) == p(g) \o r
  <1>1. /\ f \in members /\ pc[f] = "await_status" /\ pc'[f] = "requested"
        /\ \A g \in Federates \ {f} : pc'[g] = pc[g]
        /\ UNCHANGED <<members, saves, file, loaded, flag>>
        /\ rti.doing = "nothing" /\ flag[f].request_complete
        /\ rti' = Doing("restore", file[f], rti.number + 1)
    BY DEF RequestRestore, Goto, RInv, Inv, Types, job, files
  <1>2. /\ rti'.doing = "restore" /\ rti'.begun = {} /\ rti'.waiting = members
    BY <1>1 DEF Doing
  <1>3. /\ members \subseteq Federates /\ inbox \in [Federates -> Seq(Messages)]
        /\ file[f] \in AllLabels
    BY DEF RInv, Inv, Types
  <1>4. WholeInv /\ PhaseInv /\ FileInv(f)
    BY <1>1 DEF RInv
  <1>5. Intact
    <2>1. file[f] \in Labels
      BY <1>1, <1>4 DEF FileInv
    <2>2. saves[file[f]] \in {Federates, {}}
      BY <1>1, <1>4, <2>1 DEF WholeInv
    <2> QED BY <1>1, <2>2 DEF Intact
  <1>6. ~ SomeDone
    BY <1>1, <1>4 DEF PhaseInv, Restored, Elsewhere
  <1>7. \A g \in members : Calm(g)
    BY <1>1, <1>4, <1>5, <1>6 DEF PhaseInv
  <1>8. /\ r \in Seq(Messages) /\ Len(r) = 3 /\ r[1].kind = "RestoreBegun"
        /\ r[2].kind = "InitiateRestore" /\ r[3].kind = "RestoreName"
    <2>1. /\ Message("RestoreBegun", NoLabel) \in Messages
          /\ Message("InitiateRestore", NoLabel) \in Messages
          /\ Message("RestoreName", file[f]) \in Messages
      BY <1>3 DEF Message, Messages, Kinds, AllLabels
    <2>2. /\ Message("RestoreBegun", NoLabel).kind = "RestoreBegun"
          /\ Message("InitiateRestore", NoLabel).kind = "InitiateRestore"
          /\ Message("RestoreName", file[f]).kind = "RestoreName"
      BY DEF Message
    <2> QED BY <2>1, <2>2
  <1>9. q \in Seq(Messages) /\ \A i \in 1..Len(q) : q[i].kind = "RequestSucceeded"
    <2>1. q \in Seq(Messages) /\ Len(q) = 1 /\ q[1].kind = "RequestSucceeded"
      BY OneMessage DEF Kinds, AllLabels
    <2> HIDE DEF q
    <2>2. \A i \in 1..Len(q) : i = 1
      BY <2>1
    <2> QED BY <2>1, <2>2
  <1>10. ASSUME NEW g \in Federates
         PROVE  /\ p(g) \in Seq(Messages) /\ Len(p(g)) \in Nat
                /\ \A i \in 1..Len(p(g)) : p(g)[i].kind = "RequestSucceeded"
    <2> HIDE DEF q
    <2>1. CASE g = f
      BY <1>9, <2>1
    <2>2. CASE g # f
      BY <2>2
    <2> QED BY <2>1, <2>2
  <1>11. ASSUME NEW g \in members
         PROVE  inbox'[g] = inbox[g] \o t(g)
    <2>1. inbox'[g] = inbox[g] \o p(g) \o r
      BY <1>3, <1>11 DEF RequestRestore
    <2> HIDE DEF p, r
    <2>2. inbox[g] \in Seq(Messages) /\ p(g) \in Seq(Messages) /\ r \in Seq(Messages)
      BY <1>3, <1>8, <1>10, <1>11
    <2>3. (inbox[g] \o p(g)) \o r = inbox[g] \o (p(g) \o r)
      BY <2>2, Regrouped
    <2> QED BY <2>1, <2>3
  <1> HIDE DEF r, q, p
  \* What is sent: the answer first, the call to load third or second.
  <1>12. ASSUME NEW g \in Federates
         PROVE  /\ t(g) \in Seq(Messages) /\ Len(t(g)) = Len(p(g)) + 3
                /\ t(g)[Len(p(g)) + 2].kind = "InitiateRestore"
                /\ \A i \in 1..Len(t(g)) :
                     /\ i < Len(p(g)) + 2 => t(g)[i].kind \in {"RequestSucceeded", "RestoreBegun"}
                     /\ Len(p(g)) + 2 < i => t(g)[i].kind = "RestoreName"
    <2> DEFINE n == Len(p(g))
               b == p(g) \o r
    <2>1. /\ Len(b) = n + 3 /\ n \in Nat /\ b \in Seq(Messages)
          /\ \A i \in 1..n : b[i] = p(g)[i]
          /\ \A i \in 1..3 : i + n \in 1..Len(b) /\ b[i + n] = r[i]
      <3>1. p(g) \in Seq(Messages) /\ r \in Seq(Messages) /\ n \in Nat
        BY <1>8, <1>10
      <3>2. b \in Seq(Messages)
        BY <3>1
      <3>3. /\ Len(b) = n + Len(r)
            /\ \A i \in 1..n : b[i] = p(g)[i]
            /\ \A i \in 1..Len(r) : i + n \in 1..Len(b) /\ b[i + n] = r[i]
        BY <3>1, HasMore
      <3> QED BY <1>8, <3>1, <3>2, <3>3
    <2> HIDE DEF b, n
    <2>2. b[n + 1].kind = "RestoreBegun" /\ b[n + 2].kind = "InitiateRestore" /\ b[n + 3].kind = "RestoreName"
      BY <1>8, <2>1
    <2>3. ASSUME NEW i \in 1..Len(b), i < n + 2
          PROVE  b[i].kind \in {"RequestSucceeded", "RestoreBegun"}
      <3>1. i \in 1..n \/ i = n + 1
        BY <2>1, <2>3
      <3>2. i \in 1..n => b[i].kind = "RequestSucceeded"
        BY <1>10, <2>1 DEF n
      <3> QED BY <2>2, <3>1, <3>2
    <2>4. ASSUME NEW i \in 1..Len(b), n + 2 < i
          PROVE  b[i].kind = "RestoreName"
      <3>1. i = n + 3
        BY <2>1, <2>4
      <3> QED BY <2>2, <3>1
    <2> QED BY <2>1, <2>2, <2>3, <2>4 DEF b, n
  <1> HIDE DEF t
  <1>13. ASSUME NEW g \in Federates, NEW i \in 1..Len(t(g))
         PROVE  t(g)[i].kind \in {"RequestSucceeded", "RestoreBegun", "InitiateRestore", "RestoreName"}
    <2>1. Len(p(g)) \in Nat
      BY <1>10
    <2>2. i < Len(p(g)) + 2 \/ i = Len(p(g)) + 2 \/ Len(p(g)) + 2 < i
      BY <1>12, <2>1
    <2> QED BY <1>12, <2>2
  <1>14. MoreTypes'
    BY <1>1, <1>2 DEF RInv, MoreTypes
  <1>15. ASSUME NEW g \in members
         PROVE  /\ inbox[g] \in Seq(Messages) /\ t(g) \in Seq(Messages)
                /\ \A kinds : Has(inbox'[g], kinds) <=> Has(inbox[g], kinds) \/ Has(t(g), kinds)
                /\ ~ Has(t(g), Statuses \cup {"InitiateSave"})
                /\ ~ Has(t(g), {"Restored"}) /\ ~ Has(t(g), {"NotRestored"})
    <2>1. inbox[g] \in Seq(Messages) /\ t(g) \in Seq(Messages) /\ inbox'[g] = inbox[g] \o t(g)
      BY <1>3, <1>11, <1>12, <1>15
    <2>2. \A kinds : Has(inbox[g] \o t(g), kinds) <=> Has(inbox[g], kinds) \/ Has(t(g), kinds)
      BY <2>1, HasMore
    <2>3. /\ ~ Has(t(g), Statuses \cup {"InitiateSave"})
          /\ ~ Has(t(g), {"Restored"}) /\ ~ Has(t(g), {"NotRestored"})
      BY <1>3, <1>13, <1>15 DEF Has, Statuses
    <2> QED BY <2>1, <2>2, <2>3
  <1>16. ASSUME NEW g \in members
         PROVE  BeginInv(g)' /\ EndInv(g)' /\ StatusInv(g)' /\ FileInv(g)' /\ BegunInv(g)'
    <2>1. /\ g \in Federates
          /\ pc[g] = "saved" => pc'[g] = "saved"
          /\ pc[g] = "await_status" => pc'[g] = "await_status" \/ flag[g].request_complete
      BY <1>1, <1>3
    <2>2. /\ flag[g].start_to_save => pc'[g] = "saved" \/ Has(inbox'[g], SaveEnds)
          /\ \A i \in 1..Len(inbox'[g]) : inbox'[g][i].kind = "InitiateSave" =>
               Behind(inbox'[g], i, SaveEnds)
          /\ StatusInv(g)'
      BY <1>1, <1>11, <1>15, <2>1, StillHas
    <2>3. BeginInv(g)' /\ EndInv(g)'
      BY <1>1, <1>2, <2>2 DEF BeginInv, EndInv
    <2>4. FileInv(g)' /\ BegunInv(g)'
      BY <1>1, <2>1 DEF RInv, FileInv, BegunInv, Intact
    <2> QED BY <2>2, <2>3, <2>4
  <1>17. WholeInv'
    <2>1. \A g \in Federates :
            /\ ~ flag[g].failed_callback /\ flag[g].process # "RESTORE_FAILED"
            /\ ~ Has(inbox'[g], {"NotRestored"})
      BY <1>4, <1>5, <1>15 DEF WholeInv, Intact
    <2> QED BY <1>1, <1>2, <1>4, <1>5, <2>1 DEF WholeInv, Intact
  <1>18. ASSUME NEW g \in members PROVE Restoring(g)' /\ ~ Done(g)'
    <2>1. /\ Calm(g) /\ g \in Federates
          /\ pc'[g] = pc[g] \/ (pc'[g] = "requested" /\ pc[g] = "await_status")
      BY <1>1, <1>3, <1>7
    <2>2. pc'[g] \in Elsewhere \cup Asking \cup {"terminate"}
      BY <2>1 DEF Calm, Asking
    <2>3. pc'[g] \in Elsewhere => ~ flag[g].announce_restore
      BY <2>1 DEF Calm, Elsewhere
    <2>4. PlaceInv(g)'
      BY <1>1, <1>2, <2>2, <2>3 DEF PlaceInv, Elsewhere, Asking, Up
    <2>5. ToldInv(g)'
      <3> DEFINE s == inbox[g]
                 n == Len(p(g))
                 b == inbox'[g]
                 i == (n + 2) + Len(s)
      <3>1. /\ b = s \o t(g) /\ s \in Seq(Messages) /\ t(g) \in Seq(Messages)
            /\ Len(t(g)) = n + 3 /\ n \in Nat /\ Len(s) \in Nat
        BY <1>3, <1>10, <1>11, <1>12, <2>1
      <3>2. /\ \A j \in 1..Len(s) : b[j] = s[j]
            /\ \A j \in 1..Len(t(g)) : j + Len(s) \in 1..Len(b) /\ b[j + Len(s)] = t(g)[j]
            /\ \A j \in 1..Len(b) :
                 j \in 1..Len(s) \/ (j - Len(s) \in 1..Len(t(g)) /\ b[j] = t(g)[j - Len(s)])
        BY <3>1, HasMore
      <3>3. \A j \in 1..Len(s) : s[j].kind \in Earlier
        BY <2>1 DEF Calm
      <3>4. /\ t(g)[n + 2].kind = "InitiateRestore"
            /\ \A j \in 1..Len(t(g)) :
                 /\ j < n + 2 => t(g)[j].kind \in {"RequestSucceeded", "RestoreBegun"}
                 /\ n + 2 < j => t(g)[j].kind = "RestoreName"
        BY <1>12, <2>1
      <3> HIDE DEF s, n, b
      <3>5. i \in 1..Len(b) /\ b[i].kind = "InitiateRestore"
        <4>1. n + 2 \in 1..Len(t(g))
          BY <3>1
        <4> QED BY <3>2, <3>4, <4>1
      <3>6. ASSUME NEW j \in 1..Len(b)
            PROVE  /\ j < i => b[j].kind \in Before
                   /\ i < j => b[j].kind \in {"RestoreName", "SomebodyRestores"}
        <4>1. CASE j \in 1..Len(s)
          <5>1. b[j].kind \in Earlier /\ ~ (i < j)
            BY <3>1, <3>2, <3>3, <4>1
          <5> QED BY <5>1 DEF Before
        <4>2. CASE j \notin 1..Len(s)
          <5>1. j - Len(s) \in 1..Len(t(g)) /\ b[j] = t(g)[j - Len(s)]
            BY <3>2, <4>2
          <5>2. (j < i => j - Len(s) < n + 2) /\ (i < j => n + 2 < j - Len(s))
            BY <3>1
          <5> QED BY <3>4, <5>1, <5>2 DEF Before
        <4> QED BY <4>1, <4>2
      <3>7. ~ flag'[g].start_to_restore
        BY <1>1, <2>1 DEF Calm
      <3> HIDE DEF i
      <3> QED BY <3>5, <3>6, <3>7 DEF ToldInv, b
    <2>6. ~ Has(inbox[g], {"Restored"})
      BY <2>1 DEF Calm, Has, Earlier
    <2>7. ~ Done(g)'
      BY <1>15, <2>2, <2>6 DEF Done, Elsewhere, Asking
    <2> QED BY <2>4, <2>5, <2>7 DEF Restoring
  <1>19. PhaseInv'
    BY <1>1, <1>2, <1>18 DEF PhaseInv, SomeDone
  <1> QED BY <1>1, <1>14, <1>16, <1>17, <1>19 DEF RInv


\* f leaves, whatever it was doing: what is under way fails for the others.
LEMMA RemoveRestores ==
  ASSUME RInv, Inv', NEW f \in Federates, f \in members, RtiRemove(f),
         pc' = [pc EXCEPT ![f] = "ended"],
         UNCHANGED <<saves, job, flag, files>>
  PROVE  RInv'
  <1> DEFINE t == CASE rti.doing = "save"    -> <<Message("NotSaved", NoLabel)>>
                    [] rti.doing = "restore" -> <<Message("NotRestored", NoLabel)>>
                    [] OTHER                 -> <<>>
  <1>1. /\ members' = members \ {f} /\ rti' = Idle /\ Tell(members', t)
        /\ \A g \in Federates \ {f} : pc'[g] = pc[g]
        /\ UNCHANGED <<saves, file, loaded, flag>>
    BY DEF RtiRemove, RInv, Inv, Types, job, files
  <1>2. /\ rti'.doing = "nothing" /\ rti'.number = rti.number
        /\ rti'.begun = {} /\ rti'.waiting = {}
    BY <1>1, IdleIs DEF RInv
  <1>3. /\ members \subseteq Federates /\ inbox \in [Federates -> Seq(Messages)]
    BY DEF RInv, Inv, Types
  <1>4. /\ t \in Seq(Messages)
        /\ \A kinds : Has(t, kinds) =>
             (rti.doing = "save" /\ "NotSaved" \in kinds)
               \/ (rti.doing = "restore" /\ "NotRestored" \in kinds)
        /\ rti.doing = "save" => Has(t, SaveEnds)
        /\ rti.doing = "restore" => Has(t, RestoreEnds)
        /\ rti.doing = "nothing" => t = <<>>
    <2>1. "NotSaved" \in Kinds /\ "NotRestored" \in Kinds /\ NoLabel \in AllLabels
      BY DEF Kinds, AllLabels
    <2>2. CASE rti.doing = "save"
      <3>1. t = <<Message("NotSaved", NoLabel)>>
        BY <2>2
      <3> HIDE DEF t
      <3>2. t \in Seq(Messages) /\ \A kinds : Has(t, kinds) <=> "NotSaved" \in kinds
        BY <2>1, <3>1, OneMessage
      <3> QED BY <2>2, <3>2 DEF SaveEnds
    <2>3. CASE rti.doing = "restore"
      <3>1. t = <<Message("NotRestored", NoLabel)>>
        BY <2>3
      <3> HIDE DEF t
      <3>2. t \in Seq(Messages) /\ \A kinds : Has(t, kinds) <=> "NotRestored" \in kinds
        BY <2>1, <3>1, OneMessage
      <3> QED BY <2>3, <3>2 DEF RestoreEnds
    <2>4. CASE rti.doing \notin {"save", "restore"}
      <3>1. t = <<>>
        BY <2>4
      <3> HIDE DEF t
      <3>2. t \in Seq(Messages) /\ \A kinds : ~ Has(t, kinds)
        BY <3>1 DEF Has
      <3> QED BY <2>4, <3>1, <3>2
    <2> QED BY <2>2, <2>3, <2>4
  <1> HIDE DEF t
  <1>5. ~ Has(t, Statuses \cup {"InitiateSave"}) /\ ~ Has(t, {"InitiateRestore"}) /\ ~ Has(t, {"Restored"})
    BY <1>4 DEF Statuses
  <1>6. ASSUME NEW g \in members'
        PROVE  g \in members /\ g \in Federates /\ pc'[g] = pc[g] /\ inbox'[g] = inbox[g] \o t
    BY <1>1, <1>3, <1>6 DEF Tell
  <1>7. MoreTypes'
    BY <1>1, <1>2 DEF RInv, MoreTypes
  <1>8. ~ Intact'
    BY <1>1 DEF Intact
  <1>9. ASSUME NEW g \in members'
        PROVE  BeginInv(g)' /\ EndInv(g)' /\ StatusInv(g)' /\ BegunInv(g)' /\ FileInv(g)'
    <2>1. BeginInv(g)' /\ EndInv(g)' /\ StatusInv(g)' /\ BegunInv(g)'
      BY <1>1, <1>2, <1>4, <1>5, <1>6, HearsTheEnd
    <2>2. FileInv(g)'
      BY <1>1, <1>6, <1>8 DEF RInv, FileInv
    <2> QED BY <2>1, <2>2
  <1>10. WholeInv'
    BY <1>1, <1>2, <1>6, <1>8 DEF RInv, WholeInv
  <1>11. ASSUME NEW g \in members', Done(g)' PROVE Done(g)
    <2>1. Has(inbox'[g], {"Restored"}) => Has(inbox[g], {"Restored"})
      <3>1. inbox'[g] = inbox[g] \o t /\ inbox[g] \in Seq(Messages)
        BY <1>3, <1>6, <1>11
      <3>2. \A kinds : Has(inbox[g] \o t, kinds) <=> Has(inbox[g], kinds) \/ Has(t, kinds)
        BY <1>4, <3>1, HasMore
      <3> QED BY <1>5, <3>1, <3>2
    <2> QED BY <1>1, <1>6, <1>11, <2>1 DEF Done
  <1>12. ASSUME SomeDone', NEW g \in members' PROVE Restored(g)'
    <2>1. SomeDone
      BY <1>6, <1>11, <1>12 DEF SomeDone
    <2>2. rti.doing = "nothing" /\ Restored(g)
      BY <1>6, <2>1 DEF RInv, PhaseInv
    <2>3. inbox'[g] = inbox[g]
      <3>1. inbox[g] \in Seq(Messages) /\ inbox'[g] = inbox[g] \o <<>>
        BY <1>3, <1>4, <1>6, <2>2
      <3> QED BY <3>1
    <2> QED BY <1>1, <1>2, <1>6, <2>2, <2>3 DEF Restored
  <1>13. PhaseInv'
    BY <1>2, <1>8, <1>12 DEF PhaseInv
  <1> QED BY <1>7, <1>9, <1>10, <1>13 DEF RInv

LEMMA PostCheckpointRestores ==
  ASSUME RInv, Inv', NEW f \in Federates, PostCheckpoint(f)
  PROVE  RInv'
  BY PostQuietlyRestores, PostRestores, SavedRestores

LEMMA InformRTIRestores ==
  ASSUME RInv, Inv', NEW f \in Federates, InformRTI(f)
  PROVE  RInv'
  BY InformQuietlyRestores, InformRestores, RestoredRestores

LEMMA RequestRestoreRestores ==
  ASSUME RInv, Inv', NEW f \in Federates, RequestRestore(f)
  PROVE  RInv'
  BY RequestFailsRestores, RestoreBegins

LEMMA TerminateRestores ==
  ASSUME RInv, Inv', NEW f \in Federates, Terminate(f)
  PROVE  RInv'
  BY RemoveRestores DEF Terminate, Goto

LEMMA LoseRestores ==
  ASSUME RInv, Inv', NEW f \in Federates, Lose(f)
  PROVE  RInv'
  BY RemoveRestores DEF Lose

-----------------------------------------------------------------------------
(* Restores are whole.                                                     *)

LEMMA InitRInv == Init => RInv
  <1> SUFFICES ASSUME Init PROVE RInv
    OBVIOUS
  <1>1. Inv
    BY InitInv
  <1>2. /\ members = Federates /\ saves = [l \in Labels |-> IF l = FirstLabel THEN Federates ELSE {}]
        /\ loaded = [f \in Federates |-> 0]
        /\ rti = [doing |-> "nothing", label |-> NoLabel, number |-> 0, begun |-> {}, waiting |-> {}]
    BY DEF Init
  <1>3. ASSUME NEW f \in Federates
        PROVE  /\ pc[f] = "frozen" /\ inbox[f] = <<>> /\ flag[f] \in FlagRecord
               /\ ~ flag[f].start_to_save /\ ~ flag[f].start_to_restore
               /\ ~ flag[f].restore_begun /\ ~ flag[f].restore_completed
               /\ ~ flag[f].failed_callback /\ flag[f].process = "NO_RESTORE"
               /\ ~ flag[f].announce_restore
    BY DEF Init, FlagRecord, Processes, AllLabels
  <1>4. MoreTypes
    <2>1. flag \in [Federates -> FlagRecord]
      BY <1>3 DEF Init
    <2> QED BY <1>2, <2>1 DEF MoreTypes
  <1>5. rti.doing = "nothing" /\ rti.waiting = {}
    BY <1>2
  <1>6. ASSUME NEW f \in members
        PROVE  /\ BeginInv(f) /\ EndInv(f) /\ StatusInv(f) /\ FileInv(f) /\ BegunInv(f)
               /\ Calm(f) /\ ~ Done(f) /\ \A kinds : ~ Has(inbox[f], kinds)
    <2>1. /\ f \in Federates /\ Len(inbox[f]) = 0
      BY <1>2, <1>3
    <2>2. \A kinds : ~ Has(inbox[f], kinds)
      BY <2>1 DEF Has
    <2>3. Calm(f)
      BY <1>3, <2>1 DEF Calm, Elsewhere
    <2>4. ~ Done(f)
      BY <1>3, <2>1, <2>2 DEF Done
    <2>5. BeginInv(f) /\ EndInv(f)
      BY <1>3, <1>5, <2>1 DEF BeginInv, EndInv
    <2>6. StatusInv(f) /\ FileInv(f) /\ BegunInv(f)
      BY <1>3, <2>1 DEF StatusInv, FileInv, BegunInv
    <2> QED BY <2>2, <2>3, <2>4, <2>5, <2>6
  <1>7. WholeInv
    BY <1>2, <1>3, <1>5, <1>6 DEF WholeInv
  <1>8. PhaseInv
    BY <1>5, <1>6 DEF PhaseInv, SomeDone
  <1> QED BY <1>1, <1>4, <1>6, <1>7, <1>8 DEF RInv

LEMMA StepRInv == RInv /\ [Next]_vars => RInv'
  <1> SUFFICES ASSUME RInv, [Next]_vars PROVE RInv'
    OBVIOUS
  <1>1. Inv'
    BY StepInv DEF RInv
  <1>2. ASSUME NEW f \in Federates, Main(f) PROVE RInv'
    BY <1>1, <1>2, PerformCheckpointRestores, SetupCheckpointRestores, WriteCheckpointRestores,
       PostCheckpointRestores, SaveCompleteRestores, PerformRestoreRestores, SetupRestoreRestores,
       AskStatusRestores, RequestRestoreRestores, DoNotRequestRestores, RequestedRestores,
       AwaitStartRestores, LoadCheckpointRestores, PostRestoreRestores, PreserveRestores,
       InformRTIRestores, AwaitRestoredRestores, RebuildRestores, TerminateRestores
    DEF Main
  <1>3. ASSUME NEW f \in Federates, Callback(f) \/ Lose(f) PROVE RInv'
    BY <1>1, <1>3, CallbackRestores, LoseRestores
  <1>4. ASSUME NEW f \in Federates, NEW l \in Labels, Dump(f, l) \/ Load(f, l)
        PROVE  RInv'
    BY <1>1, <1>4, DumpRestores, LoadRestores
  <1>5. ASSUME NEW l \in Labels, RequestSave(l) PROVE RInv'
    BY <1>1, <1>5, RequestSaveRestores
  <1>6. CASE UNCHANGED vars
    <2>1. /\ UNCHANGED <<members, inbox, rti, saves, pc, file, flag, loaded>>
      BY <1>6 DEF vars, federation, job, files
    <2>2. \A f \in members :
            /\ BeginInv(f)' = BeginInv(f) /\ EndInv(f)' = EndInv(f) /\ StatusInv(f)' = StatusInv(f)
            /\ FileInv(f)' = FileInv(f) /\ BegunInv(f)' = BegunInv(f)
      BY <2>1 DEF BeginInv, EndInv, StatusInv, FileInv, BegunInv, Intact
    <2>3. \A f \in members :
            /\ Restoring(f)' = Restoring(f) /\ Restored(f)' = Restored(f)
            /\ Calm(f)' = Calm(f) /\ Done(f)' = Done(f)
      BY <2>1 DEF Restoring, ToldInv, PlaceInv, HasLoaded, Restored, Calm, Done
    <2>4. PhaseInv'
      BY <2>1, <2>3 DEF RInv, PhaseInv, SomeDone, Intact
    <2>5. WholeInv' /\ MoreTypes'
      BY <2>1 DEF RInv, WholeInv, MoreTypes, Intact
    <2> QED BY <1>1, <2>1, <2>2, <2>4, <2>5 DEF RInv
  <1> QED BY <1>2, <1>3, <1>4, <1>5, <1>6 DEF Next

\* What a federate takes to be going on is going on or has just ended, and whoever
\* the RTI waits for knows or is about to.
THEOREM EndsAreKnown == Spec => []SaveRestoreInv
  <1>1. Spec => []RInv
    BY InitRInv, StepRInv, PTL DEF Spec
  <1>2. RInv => SaveRestoreInv
    <2> SUFFICES ASSUME RInv PROVE SaveRestoreInv
      OBVIOUS
    <2>1. TypeOK
      BY DEF TypeOK, RInv, Inv, Types, RtiStates, MoreTypes, AllLabels
    <2>2. ASSUME NEW f \in members, NEW kind
          PROVE  Has(inbox[f], {kind}) => Coming(f, kind)
      <3>1. DOMAIN inbox[f] = 1..Len(inbox[f])
        BY DEF RInv, Inv, Types
      <3> QED BY <3>1 DEF Has, Coming
    <2>3. ASSUME NEW f \in members
          PROVE  /\ Has(inbox[f], SaveEnds) => Coming(f, "Saved") \/ Coming(f, "NotSaved")
                 /\ Has(inbox[f], RestoreEnds) => Coming(f, "Restored") \/ Coming(f, "NotRestored")
      <3>1. /\ Has(inbox[f], SaveEnds) => Has(inbox[f], {"Saved"}) \/ Has(inbox[f], {"NotSaved"})
            /\ Has(inbox[f], RestoreEnds) => Has(inbox[f], {"Restored"}) \/ Has(inbox[f], {"NotRestored"})
        BY DEF Has, SaveEnds, RestoreEnds
      <3> QED BY <2>2, <3>1
    <2>4. ASSUME NEW f \in members, flag[f].start_to_save
          PROVE  \/ f \in rti.waiting /\ rti.doing = "save"
                 \/ pc[f] = "saved" \/ Coming(f, "Saved") \/ Coming(f, "NotSaved")
      BY <2>3, <2>4 DEF RInv, BeginInv
    <2>5. ASSUME NEW f \in members, flag[f].start_to_restore
          PROVE  rti.doing = "restore" \/ Coming(f, "Restored") \/ Coming(f, "NotRestored")
      BY <2>3, <2>5 DEF RInv, EndInv
    <2>6. ASSUME NEW f \in members, f \in rti.waiting
          PROVE  \/ rti.doing = "save" /\ (flag[f].start_to_save \/ Coming(f, "InitiateSave"))
                 \/ rti.doing = "restore" /\ (flag[f].start_to_restore \/ Coming(f, "InitiateRestore"))
      <3>1. rti.doing \in {"nothing", "save", "restore"} /\ rti.doing # "nothing"
        BY <2>6 DEF RInv, MoreTypes, Inv, Types, RtiStates
      <3>2. CASE rti.doing = "save"
        <4>1. flag[f].start_to_save \/ (Len(inbox[f]) = 1 /\ inbox[f][1].kind = "InitiateSave")
          BY <2>6, <3>2 DEF RInv, BeginInv
        <4>2. Len(inbox[f]) = 1 /\ inbox[f][1].kind = "InitiateSave" => Has(inbox[f], {"InitiateSave"})
          BY DEF Has
        <4> QED BY <2>2, <3>2, <4>1, <4>2
      <3>3. CASE rti.doing = "restore"
        <4>1. ToldInv(f)
          BY <3>3 DEF RInv, PhaseInv, Restoring
        <4>2. flag[f].start_to_restore \/ Has(inbox[f], {"InitiateRestore"})
          BY <4>1 DEF ToldInv, Has
        <4> QED BY <2>2, <3>3, <4>2
      <3> QED BY <3>1, <3>2, <3>3
    <2> QED BY <2>1, <2>4, <2>5, <2>6 DEF SaveRestoreInv
  <1> QED BY <1>1, <1>2, PTL

\* When a federate takes up its restored state, every member of the federation has
\* loaded for the same restore, wherever federates are lost.
THEOREM EverybodyRestored == Spec => []RestoredTogether
  <1>1. Spec => []RInv
    BY InitRInv, StepRInv, PTL DEF Spec
  <1>2. RInv => RestoredTogether
    <2> SUFFICES ASSUME RInv, NEW f \in members, pc[f] = "rebuild", NEW g \in members
                 PROVE  loaded[g] = loaded[f]
      BY DEF RestoredTogether
    <2>1. SomeDone
      BY DEF SomeDone, Done
    <2>2. Restored(f) /\ Restored(g)
      BY <2>1 DEF RInv, PhaseInv
    <2> QED BY <2>2 DEF Restored
  <1> QED BY <1>1, <1>2, PTL
==============================================================================
