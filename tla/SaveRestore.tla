----------------------------- MODULE SaveRestore -----------------------------
(***************************************************************************)
(* Federation saves and restores of a running, frozen federation.          *)
(*                                                                         *)
(* A save is asked of the RTI by a tool outside; every federate dumps a    *)
(* checkpoint and tells the RTI.  A restore is asked for by the user of a  *)
(* federate, who loads a checkpoint by its simulation control panel; the   *)
(* RTI tells every federate to load the checkpoint of that label.  The     *)
(* callbacks of the RTI set flags on a thread of their own and without a   *)
(* mutex; the main thread polls them, in the freeze loop of Trick.         *)
(***************************************************************************)
EXTENDS Naturals, Sequences

CONSTANTS
  Federates,
  Labels,      \* save names
  FirstLabel,  \* all of them have been saved with this label before
  Scripts      \* how many saves, loads, dumps and losses there may be

ASSUME SaveRestoreAssumption ==
  /\ FirstLabel \in Labels
  /\ Scripts \subseteq [{"saves", "loads", "dumps", "losses"} -> Nat]

VARIABLES
  members,  \* the federates in the federation
  pc,       \* pc[f]: where the main thread of f is
  file,     \* file[f]: the label f is dumping or loading
  clicked,  \* clicked[f]: and whether its user has asked for that
  flag,     \* flag[f]: the state of SaveRestoreServices
  disk,     \* disk[f]: the labels f has a checkpoint of
  feds,     \* feds[f]: the labels f has a .running_feds file of
  loaded,   \* loaded[f]: the number of the restore f has last told Trick to load for
  inbox,    \* inbox[f]: callbacks on their way to f
  rti,      \* what the RTI is doing, and for whom it waits
  saves,    \* saves[l]: the members of the federation that was saved as l
  left      \* what may still be asked

job == <<file, clicked>>
files == <<disk, feds, loaded>>
federation == <<members, inbox, rti, saves>>
vars == <<federation, pc, job, flag, files, left>>

NoLabel == "none"

Init ==
  /\ members = Federates
  /\ pc = [f \in Federates |-> "frozen"]
  /\ file = [f \in Federates |-> NoLabel]
  /\ clicked = [f \in Federates |-> FALSE]
  /\ flag = [f \in Federates |->
       [announce_save |-> FALSE, start_to_save |-> FALSE, save_name |-> NoLabel,
        save_completed |-> FALSE,
        announce_restore |-> FALSE, start_to_restore |-> FALSE, restore_name |-> NoLabel,
        process |-> "NO_RESTORE", prev_process |-> "NO_RESTORE",
        restore_begun |-> FALSE, restore_completed |-> FALSE,
        request_complete |-> FALSE, failed_callback |-> FALSE]]
  /\ disk = [f \in Federates |-> {FirstLabel}]
  /\ saves = [l \in Labels |-> IF l = FirstLabel THEN Federates ELSE {}]
  /\ feds = [f \in Federates |-> {FirstLabel}]
  /\ loaded = [f \in Federates |-> 0]
  /\ inbox = [f \in Federates |-> <<>>]
  /\ rti = [doing |-> "nothing", label |-> NoLabel, number |-> 0, begun |-> {}, waiting |-> {}]
  /\ left \in Scripts

-----------------------------------------------------------------------------
(* The RTI.                                                                *)

Message(kind, l) == [kind |-> kind, label |-> l]

Tell(s, messages) ==
  inbox' = [f \in Federates |-> IF f \in s THEN inbox[f] \o messages ELSE inbox[f]]

Idle == [rti EXCEPT !.doing = "nothing", !.begun = {}, !.waiting = {}]
Doing(what, l, n) ==
  [doing |-> what, label |-> l, number |-> n, begun |-> {}, waiting |-> members]

\* A save or a restore under way fails when a federate leaves.
RtiRemove(f) ==
  /\ members' = members \ {f}
  /\ rti' = Idle
  /\ Tell(members', CASE rti.doing = "save"    -> <<Message("NotSaved", NoLabel)>>
                      [] rti.doing = "restore" -> <<Message("NotRestored", NoLabel)>>
                      [] OTHER                 -> <<>>)

\* f has done its part: the last one to do so completes the whole.
RtiComplete(f, kind) ==
  IF rti.waiting = {f}
    THEN rti' = Idle /\ Tell(members, <<Message(kind, rti.label)>>)
    ELSE rti' = [rti EXCEPT !.waiting = @ \ {f}] /\ UNCHANGED inbox

-----------------------------------------------------------------------------
(* Callbacks.  Each sets flags, one assignment after the other.            *)

On(f, kinds) ==
  /\ f \in members /\ inbox[f] # <<>> /\ Head(inbox[f]).kind \in kinds
  /\ inbox' = [inbox EXCEPT ![f] = Tail(@)]
  /\ UNCHANGED <<members, rti, saves, pc, job, files, left>>

InitiateFederateSave(f) ==
  /\ On(f, {"InitiateSave"})
  /\ flag' = [flag EXCEPT ![f].save_name = Head(inbox[f]).label, ![f].start_to_save = TRUE]

\* federationSaved and federationNotSaved do the same.
FederationSaved(f) ==
  /\ On(f, {"Saved", "NotSaved"})
  /\ flag' = [flag EXCEPT ![f].start_to_save = FALSE, ![f].save_completed = TRUE,
                          ![f].announce_save = FALSE, ![f].save_name = NoLabel]

RestoreStatus(f) ==
  /\ On(f, {"NobodyRestores", "SomebodyRestores"})
  /\ flag' = [flag EXCEPT ![f].request_complete = TRUE,
                          ![f].process = IF Head(inbox[f]).kind = "NobodyRestores"
                                           THEN "INITIATE_RESTORE" ELSE @]

RestoreRequested(f) ==
  /\ On(f, {"RequestSucceeded", "RequestFailed"})
  /\ flag' = [flag EXCEPT ![f].process = IF Head(inbox[f]).kind = "RequestSucceeded"
                                           THEN "REQUEST_SUCCEEDED" ELSE "REQUEST_FAILED"]

RestoreBegun(f) ==
  /\ On(f, {"RestoreBegun"})
  /\ flag' = [flag EXCEPT ![f].restore_begun = TRUE, ![f].restore_completed = FALSE]

\* The name follows the flag that says it is there.
InitiateFederateRestore(f) ==
  \/ /\ On(f, {"InitiateRestore"})
     /\ flag' = [flag EXCEPT ![f].start_to_restore = TRUE]
  \/ /\ On(f, {"RestoreName"})
     /\ flag' = [flag EXCEPT ![f].restore_name = Head(inbox[f]).label]

\* (mutant of FederationRestored) The end of the restore is not recorded.
FederationRestoredUnmarked(f) ==
  /\ On(f, {"Restored"})
  /\ flag' = [flag EXCEPT ![f].process = "RESTORE_COMPLETE",
                          ![f].restore_begun = FALSE, ![f].start_to_restore = FALSE]
FederationRestored(f) ==
  /\ On(f, {"Restored"})
  /\ flag' = [flag EXCEPT ![f].process = "RESTORE_COMPLETE", ![f].restore_completed = TRUE,
                          ![f].restore_begun = FALSE, ![f].start_to_restore = FALSE]

FederationNotRestored(f) ==
  /\ On(f, {"NotRestored"})
  /\ flag' = [flag EXCEPT ![f].process = "RESTORE_FAILED", ![f].restore_completed = TRUE,
                          ![f].restore_begun = FALSE, ![f].start_to_restore = FALSE,
                          ![f].failed_callback = TRUE]

Callback(f) ==
  \/ InitiateFederateSave(f) \/ FederationSaved(f)
  \/ RestoreStatus(f) \/ RestoreRequested(f) \/ RestoreBegun(f)
  \/ InitiateFederateRestore(f) \/ FederationRestored(f) \/ FederationNotRestored(f)

-----------------------------------------------------------------------------
(* A save: the freeze job perform_checkpoint, or Dump Chkpnt.              *)

Goto(f, a, b) ==
  /\ f \in members /\ pc[f] = a
  /\ pc' = [pc EXCEPT ![f] = b]

Ask(what) == left[what] > 0 /\ left' = [left EXCEPT ![what] = @ - 1]

\* f has done with what went before.
Quiet(f) ==
  /\ pc[f] = "frozen" /\ inbox[f] = <<>>
  /\ ~ flag[f].start_to_save /\ ~ flag[f].start_to_restore

\* requestFederationSave, by a tool that waits until all of them have.
RequestSave(l) ==
  /\ Ask("saves")
  /\ rti.doing = "nothing" /\ members # {} /\ \A f \in members : Quiet(f)
  /\ rti' = Doing("save", l, rti.number)
  /\ Tell(members, <<Message("InitiateSave", l)>>)
  /\ UNCHANGED <<members, saves, pc, job, flag, files>>

\* The user of f dumps a checkpoint.
Dump(f, l) ==
  /\ Ask("dumps") /\ l \notin disk[f]
  /\ Goto(f, "frozen", "setup_checkpoint")
  /\ file' = [file EXCEPT ![f] = l]
  /\ clicked' = [clicked EXCEPT ![f] = TRUE]
  /\ UNCHANGED <<federation, flag, files>>

PerformCheckpoint(f) ==
  /\ flag[f].start_to_save
  /\ \/ /\ flag[f].announce_save
        /\ Goto(f, "frozen", "post_checkpoint")
        /\ UNCHANGED job
     \/ /\ ~ flag[f].announce_save
        /\ Goto(f, "frozen", "setup_checkpoint")
        /\ file' = [file EXCEPT ![f] = flag[f].save_name]
        /\ clicked' = [clicked EXCEPT ![f] = FALSE]
  /\ UNCHANGED <<federation, flag, files, left>>

\* (mutant of SetupCheckpoint) The RTI is told before the checkpoint is written.
SetupCheckpointOnly(f) ==
  /\ flag' = [flag EXCEPT ![f].announce_save = ~ flag[f].start_to_save]
  /\ Goto(f, "setup_checkpoint", "post_checkpoint")
  /\ rti' = IF rti.doing = "save" THEN [rti EXCEPT !.begun = @ \cup {f}] ELSE rti
  /\ UNCHANGED <<members, inbox, saves, job, files, left>>
\* Whoever finds no save under way takes itself for the one that announces
\* it, and waits for initiate_save_flag, unless there has been a save before.
\* The file of the running federates is named for save_label, which is empty.
SetupCheckpoint(f) ==
  /\ flag' = [flag EXCEPT ![f].announce_save = ~ flag[f].start_to_save]
  /\ \/ /\ flag[f].start_to_save
        /\ Goto(f, "setup_checkpoint", "dump")
        /\ rti' = IF rti.doing = "save" THEN [rti EXCEPT !.begun = @ \cup {f}] ELSE rti
        /\ feds' = [feds EXCEPT ![f] = @ \cup {NoLabel}]
     \/ /\ ~ flag[f].start_to_save
        /\ Goto(f, "setup_checkpoint",
                IF flag[f].save_completed THEN "dump" ELSE "await_initiate")
        /\ UNCHANGED <<rti, feds>>
  /\ UNCHANGED <<members, inbox, saves, job, disk, loaded, left>>

\* Trick writes the checkpoint.
WriteCheckpoint(f) ==
  /\ Goto(f, "dump", IF clicked[f] THEN "frozen" ELSE "post_checkpoint")
  /\ disk' = [disk EXCEPT ![f] = @ \cup {file[f]}]
  /\ UNCHANGED <<federation, job, flag, feds, loaded, left>>

\* (mutant of PostCheckpoint) The flag is left to the callback.
PostCheckpointOnly(f) ==
  /\ \/ /\ flag[f].start_to_save /\ f \in rti.begun
        /\ Goto(f, "post_checkpoint", "frozen")
        /\ RtiComplete(f, "Saved")
        /\ saves' = IF rti.waiting = {f} THEN [saves EXCEPT ![rti.label] = members] ELSE saves
     \/ /\ flag[f].start_to_save => f \notin rti.begun
        /\ Goto(f, "post_checkpoint", "frozen")
        /\ UNCHANGED <<inbox, rti, saves>>
  /\ UNCHANGED <<members, job, flag, files, left>>
\* federateSaveComplete, which f has to have begun.
PostCheckpoint(f) ==
  /\ \/ /\ flag[f].start_to_save /\ f \in rti.begun
        /\ Goto(f, "post_checkpoint", "saved")
        /\ RtiComplete(f, "Saved")
        /\ saves' = IF rti.waiting = {f} THEN [saves EXCEPT ![rti.label] = members] ELSE saves
     \/ /\ flag[f].start_to_save => f \notin rti.begun
        /\ Goto(f, "post_checkpoint", "frozen")
        /\ UNCHANGED <<inbox, rti, saves>>
  /\ UNCHANGED <<members, job, flag, files, left>>

SaveComplete(f) ==
  /\ Goto(f, "saved", "frozen")
  /\ flag' = [flag EXCEPT ![f].start_to_save = FALSE]
  /\ UNCHANGED <<federation, job, files, left>>

-----------------------------------------------------------------------------
(* A restore: the freeze job perform_restore, or Load Chkpnt.              *)

\* The user of f loads a checkpoint: when nobody is still at the end of what
\* went before, or another has done so, or a save or a restore is under way.
Load(f, l) ==
  /\ Ask("loads") /\ l \in disk[f]
  /\ \/ rti.doing # "nothing"
     \/ \A g \in members : Quiet(g) \/ pc[g] \in {"setup_restore", "await_required"}
  /\ Goto(f, "frozen", "setup_restore")
  /\ file' = [file EXCEPT ![f] = l]
  /\ clicked' = [clicked EXCEPT ![f] = TRUE]
  /\ UNCHANGED <<federation, flag, files>>

PerformRestore(f) ==
  /\ flag[f].start_to_restore
  /\ \/ /\ flag[f].announce_restore
        /\ Goto(f, "frozen", "post_restore")
        /\ UNCHANGED job
     \/ /\ ~ flag[f].announce_restore
        /\ Goto(f, "frozen", "setup_restore")
        /\ file' = [file EXCEPT ![f] = flag[f].restore_name]
        /\ clicked' = [clicked EXCEPT ![f] = FALSE]
  /\ UNCHANGED <<federation, flag, files, left>>

\* The job before every load: whoever finds no restore under way announces
\* one.  It needs the file of the federates that have to be there.
SetupRestore(f) ==
  /\ flag' = [flag EXCEPT ![f].announce_restore = ~ flag[f].start_to_restore,
                          ![f].process = IF flag[f].start_to_restore
                                           THEN "RESTORE_IN_PROGRESS" ELSE @]
  /\ Goto(f, "setup_restore",
          IF flag[f].start_to_restore THEN "load"
          ELSE IF file[f] \in feds[f] THEN "await_required" ELSE "terminate")
  /\ UNCHANGED <<federation, job, files, left>>

\* wait_for_required_federates_to_join, then the query of the status: the RTI
\* refuses it during a save.
AskStatus(f) ==
  /\ Federates \subseteq members
  /\ Goto(f, "await_required", "await_status")
  /\ flag' = [flag EXCEPT ![f].request_complete = FALSE]
  /\ Tell(IF rti.doing = "save" THEN {} ELSE {f},
          <<Message(IF rti.doing = "restore" THEN "SomebodyRestores" ELSE "NobodyRestores",
                    NoLabel)>>)
  /\ UNCHANGED <<members, rti, saves, job, files, left>>

\* requestFederationRestore, if nobody else has: the federation has to consist
\* of the federates that were saved.
RequestRestore(f) ==
  /\ flag[f].request_complete /\ flag[f].process = "INITIATE_RESTORE"
  /\ Goto(f, "await_status", "requested")
  /\ IF saves[file[f]] = members
       THEN /\ rti' = Doing("restore", file[f], rti.number + 1)
            /\ inbox' = [g \in Federates |->
                 inbox[g] \o (IF g = f THEN <<Message("RequestSucceeded", NoLabel)>> ELSE <<>>)
                 \o (IF g \in members
                       THEN <<Message("RestoreBegun", NoLabel), Message("InitiateRestore", NoLabel),
                              Message("RestoreName", file[f])>>
                       ELSE <<>>)]
       ELSE /\ Tell({f}, <<Message("RequestFailed", NoLabel)>>)
            /\ UNCHANGED rti
  /\ rti.doing = "nothing"
  /\ UNCHANGED <<members, saves, job, flag, files, left>>

\* The RTI is busy, or somebody else restores.
DoNotRequest(f) ==
  /\ flag[f].request_complete
  /\ flag[f].process = "INITIATE_RESTORE" => rti.doing # "nothing"
  /\ Goto(f, "await_status", "await_start")
  /\ flag' = [flag EXCEPT ![f].process = IF @ = "INITIATE_RESTORE" /\ rti.doing = "save"
                                           THEN "NO_RESTORE" ELSE @]
  /\ UNCHANGED <<federation, job, files, left>>

Requested(f) ==
  /\ Goto(f, "requested", "await_start")
  /\ flag' = [flag EXCEPT ![f].process = "RESTORE_IN_PROGRESS"]
  /\ UNCHANGED <<federation, job, files, left>>

AwaitStart(f) ==
  /\ flag[f].start_to_restore
  /\ Goto(f, "await_start", "load")
  /\ flag' = [flag EXCEPT ![f].process = "RESTORE_IN_PROGRESS"]
  /\ UNCHANGED <<federation, job, files, left>>

\* Trick loads the checkpoint, if there is one of that name.
LoadCheckpoint(f) ==
  /\ Goto(f, "load", IF clicked[f] THEN "frozen" ELSE "post_restore")
  /\ loaded' = [loaded EXCEPT ![f] = rti.number]
  /\ UNCHANGED <<federation, job, flag, disk, feds, left>>

PostRestore(f) ==
  /\ Goto(f, "post_restore", IF flag[f].start_to_restore THEN "preserve" ELSE "frozen")
  /\ flag' = [flag EXCEPT ![f].process = IF flag[f].start_to_restore
                                           THEN "RESTORE_COMPLETE" ELSE @]
  /\ UNCHANGED <<federation, job, files, left>>

Preserve(f) ==
  /\ Goto(f, "preserve", "await_begun")
  /\ flag' = [flag EXCEPT ![f].prev_process = flag[f].process]
  /\ UNCHANGED <<federation, job, files, left>>

\* (mutant of InformRTI) The RTI is told, and nobody waits for the others.
InformRTIOnly(f) ==
  /\ flag[f].restore_begun
  /\ Goto(f, "await_begun", "rebuild")
  /\ IF rti.doing = "restore" THEN RtiComplete(f, "Restored") ELSE UNCHANGED <<rti, inbox>>
  /\ UNCHANGED <<members, saves, job, flag, files, left>>
\* wait_for_federation_restore_begun, inform_RTI_of_restore_completion.  A
\* process that the callback has made RESTORE_FAILED is of a restore that is over.
InformRTI(f) ==
  /\ flag[f].restore_begun
  /\ Goto(f, "await_begun", "await_restored")
  /\ IF rti.doing = "restore" /\ flag[f].prev_process = "RESTORE_COMPLETE"
       THEN RtiComplete(f, "Restored")
       ELSE UNCHANGED <<rti, inbox>>
  /\ UNCHANGED <<members, saves, job, flag, files, left>>

\* wait_for_federation_restore_to_complete, and the callback of a failure.
AwaitRestored(f) ==
  /\ flag[f].restore_completed \/ flag[f].failed_callback \/ flag[f].process = "RESTORE_FAILED"
  /\ Goto(f, "await_restored",
          IF flag[f].failed_callback \/ flag[f].process = "RESTORE_FAILED"
            THEN "terminate" ELSE "rebuild")
  /\ UNCHANGED <<federation, job, flag, files, left>>

\* The handles are rebuilt; federation_restored.
Rebuild(f) ==
  /\ Goto(f, "rebuild", "frozen")
  /\ flag' = [flag EXCEPT ![f].start_to_restore = FALSE, ![f].announce_restore = FALSE,
                          ![f].restore_begun = FALSE, ![f].process = "NO_RESTORE"]
  /\ UNCHANGED <<federation, job, files, left>>

-----------------------------------------------------------------------------
(* The end of a federate.                                                  *)

Terminate(f) ==
  /\ Goto(f, "terminate", "ended")
  /\ RtiRemove(f)
  /\ UNCHANGED <<saves, job, flag, files, left>>

Lose(f) ==
  /\ Ask("losses")
  /\ f \in members /\ pc' = [pc EXCEPT ![f] = "ended"]
  /\ RtiRemove(f)
  /\ UNCHANGED <<saves, job, flag, files>>

-----------------------------------------------------------------------------
Main(f) ==
  \/ PerformCheckpoint(f) \/ SetupCheckpoint(f) \/ WriteCheckpoint(f)
  \/ PostCheckpoint(f) \/ SaveComplete(f)
  \/ PerformRestore(f) \/ SetupRestore(f) \/ AskStatus(f) \/ RequestRestore(f)
  \/ DoNotRequest(f) \/ Requested(f) \/ AwaitStart(f) \/ LoadCheckpoint(f)
  \/ PostRestore(f) \/ Preserve(f) \/ InformRTI(f) \/ AwaitRestored(f) \/ Rebuild(f)
  \/ Terminate(f)

Next ==
  \/ \E l \in Labels : RequestSave(l)
  \/ \E f \in Federates :
       \/ Callback(f) \/ Main(f) \/ Lose(f)
       \/ \E l \in Labels : Dump(f, l) \/ Load(f, l)

Spec == Init /\ [][Next]_vars

\* The threads of a federate run; nobody has to ask for anything.
FairSpec == Spec /\ \A f \in Federates : WF_vars(Callback(f)) /\ WF_vars(Main(f))

-----------------------------------------------------------------------------
(* Properties.                                                             *)

TypeOK ==
  /\ members \subseteq Federates
  /\ file \in [Federates -> Labels \cup {NoLabel}]
  /\ disk \in [Federates -> SUBSET (Labels \cup {NoLabel})]
  /\ rti.doing \in {"nothing", "save", "restore"}
  /\ rti.begun \subseteq members /\ rti.waiting \subseteq members

Coming(f, kind) == \E i \in DOMAIN inbox[f] : inbox[f][i].kind = kind

\* What a federate takes to be going on is going on, or has just ended: while
\* it has a save or a restore to do, the RTI waits for it or the end is on its
\* way; and whoever the RTI waits for knows, or is about to.
SaveRestoreInv ==
  /\ TypeOK
  /\ \A f \in members :
       /\ flag[f].start_to_save =>
            \/ f \in rti.waiting /\ rti.doing = "save"
            \/ pc[f] = "saved" \/ Coming(f, "Saved") \/ Coming(f, "NotSaved")
       /\ flag[f].start_to_restore =>
            rti.doing = "restore" \/ Coming(f, "Restored") \/ Coming(f, "NotRestored")
       /\ f \in rti.waiting =>
            \/ rti.doing = "save" /\ (flag[f].start_to_save \/ Coming(f, "InitiateSave"))
            \/ rti.doing = "restore" /\ (flag[f].start_to_restore \/ Coming(f, "InitiateRestore"))

\* When the RTI says that the federation is saved, every one of the federates
\* that were in it has written the checkpoint of that name.
SavedTogether ==
  \A l \in Labels : \A f \in saves[l] : l \in disk[f]

\* A federate takes up its restored state only when all the members of the
\* federation have loaded for the same restore: a restore that fails, because
\* a federate is lost at any point of it, is taken up by nobody.
RestoredTogether ==
  \A f \in members : pc[f] = "rebuild" =>
    \A g \in members : loaded[g] = loaded[f]

\* The ways in which a federate waits for what does not come.
Blocked(f) ==
  \/ pc[f] = "await_initiate"                                    \* the dump
  \/ pc[f] = "await_required" /\ ~ Federates \subseteq members   \* one was lost
  \/ pc[f] = "await_status" /\ ~ flag[f].request_complete        \* refused in a save
  \/ pc[f] = "await_start" /\ rti.doing # "restore"              \* refused, or failed
  \/ pc[f] = "await_begun" /\ ~ flag[f].restore_begun            \* failed
  \/ flag[f].announce_save /\ flag[f].start_to_save              \* a save after a dump

\* Saves and restores end, with or without success: everybody gets back to
\* the freeze loop with nothing left to do, or leaves, unless somebody is in
\* one of the waits of Blocked.
EverybodyReturns ==
  \A f \in Federates :
    []<>(f \notin members \/ Quiet(f) \/ \E g \in members : Blocked(g))
=============================================================================
