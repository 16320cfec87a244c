--------------------------- MODULE ModeTransitions ---------------------------
(***************************************************************************)
(* Freeze, run and shutdown of a running Space Reference FOM federation.   *)
(*                                                                         *)
(* The other federates ask the master for a mode by an interaction (MTR),  *)
(* or the master's user by the simulation control panel.  The master sends *)
(* an update of the Execution Configuration Object (ExCO) that says when,  *)
(* and everybody gathers at the synchronization point of the transition.   *)
(* The points are those of SyncPoints, instantiated here; they are used    *)
(* again and again.  A frame is one step of time, and the time management  *)
(* of the RTI keeps the frames in step.                                    *)
(***************************************************************************)
EXTENDS Naturals, Sequences

CONSTANTS
  Federates,
  Master,
  Step,        \* Step[f]: the data cycle of f, in frames
  LCTS,        \* the least common time step, a multiple of every Step[f]
  Padding,     \* time_padding, in frames
  MaxDelay,    \* the RTI reflects an update before this many frames pass
  LastFrame,   \* the simulations stop by themselves at this time
  Cte,         \* a central timing equipment timeline exists
  Scripts,     \* the requests that may be made: a set of [Requests -> Nat]
  Uses         \* bound on the registrations of a point

MtrRun == "mtr_run"
MtrFreeze == "mtr_freeze"
MtrShutdown == "mtr_shutdown"
Labels == {MtrRun, MtrFreeze, MtrShutdown}

Mtrs == {"to_run", "to_freeze", "to_shutdown"}
Panel == {"press_freeze", "press_run", "press_exit"}
Requests == Mtrs \cup Panel

\* The ExCO only just arrives in time for the freeze.
ASSUME ModesAssumption ==
  /\ Master \in Federates
  /\ Step \in [Federates -> Nat \ {0}]
  /\ LCTS \in Nat \ {0} /\ \A f \in Federates : LCTS % Step[f] = 0
  /\ Padding \in Nat /\ Padding >= LCTS /\ Padding % LCTS = 0  \* set_time_padding
  /\ MaxDelay \in Nat /\ MaxDelay <= Padding
  /\ LastFrame \in Nat /\ LastFrame % LCTS = 0
  /\ Cte \in BOOLEAN
  /\ Scripts \subseteq [Requests -> Nat]

VARIABLES
  life, round, open, members, achieved, inbox, state, busy,  \* of SyncPoints
  pc,        \* pc[f]: where the main thread of f is
  time,      \* time[f]: the time f is granted
  mode,      \* mode[f]: current_execution_control_mode
  wanted,    \* requested_execution_control_mode of the master
  sched,     \* sched[f]: when Trick of f freezes; 0: it does not
  stop,      \* stop[f]: when Trick of f stops
  exco,      \* the master's ExCO: current and next mode, and when
  wire,      \* wire[f]: updates of the ExCO on their way to f
  queue,     \* queue[f]: updates f has yet to take
  mtr,       \* the request in the master: its flag, pending_mtr, and the
             \* value the main thread has read
  calling,   \* the request the callback thread of the master is handling
  cmd,       \* the command of the master's control panel
  left       \* left[r]: how often r may still be requested

syncVars == <<life, round, open, members, achieved, inbox, state, busy>>
trick == <<sched, stop>>
requests == <<mtr, calling, cmd, left>>
vars == <<syncVars, pc, time, mode, wanted, trick, exco, wire, queue, requests>>

SP == INSTANCE SyncPoints WITH
  Named     <- [f \in Federates |-> Labels],
  Registrar <- [l \in Labels |-> Master],
  MaxRounds <- Uses

Others == Federates \ {Master}
NoRequest == "none"

\* The federation runs, and has not used the points.
Init ==
  /\ life = [f \in Federates |-> "in"]
  /\ round = [l \in Labels |-> 0]
  /\ open = [l \in Labels |-> FALSE]
  /\ members = [l \in Labels |-> {}]
  /\ achieved = [l \in Labels |-> {}]
  /\ inbox = [f \in Federates |-> <<>>]
  /\ state = [f \in Federates |-> [l \in Labels |-> "KNOWN"]]
  /\ busy = [f \in Federates |-> SP!NoCall]
  /\ pc = [f \in Federates |-> "tag"]
  /\ time = [f \in Federates |-> 0]
  /\ mode = [f \in Federates |-> "RUNNING"]
  /\ wanted = "RUNNING"
  /\ sched = [f \in Federates |-> 0]
  /\ stop = [f \in Federates |-> LastFrame]
  /\ exco = [cur |-> "RUNNING", next |-> "RUNNING", at |-> 0]
  /\ wire = [f \in Federates |-> <<>>]
  /\ queue = [f \in Federates |-> <<>>]
  /\ mtr = [flag |-> FALSE, pending |-> NoRequest, read |-> NoRequest]
  /\ calling = NoRequest
  /\ cmd = "none"
  /\ left \in Scripts

\* The main thread of f, which is in no call, goes on from a to b.
Goto(f, a, b) ==
  /\ SP!Free(f) /\ pc[f] = a
  /\ pc' = [pc EXCEPT ![f] = b]

Is(f, l, s) == state[f][l] = s

-----------------------------------------------------------------------------
(* What the master sends, and when the others get it.                      *)

\* set_next_execution_control_mode: a freeze is at the next common time step
\* after the padding, anything else is immediate.
NextCommon(t) == ((t + LCTS - 1) \div LCTS) * LCTS
\* (mutant of NextMode) The time of the freeze is not rounded.
NextModeUnrounded(m) ==
  [exco EXCEPT !.next = m, !.at = IF m = "FREEZE" THEN time[Master] + Padding ELSE @]
NextMode(m) ==
  [exco EXCEPT !.next = m,
               !.at = IF m = "FREEZE" THEN NextCommon(time[Master] + Padding) ELSE @]

\* ExCO->send_init_data.
SendExCO(x) ==
  wire' = [f \in Federates |->
             IF f \in Others /\ f \in SP!In
               THEN Append(wire[f], [x |-> x, sent |-> time[Master]])
               ELSE wire[f]]

Reflect(f) ==
  /\ f \in SP!In /\ wire[f] # <<>>
  /\ queue' = [queue EXCEPT ![f] = Append(@, Head(wire[f]).x)]
  /\ wire' = [wire EXCEPT ![f] = Tail(@)]
  /\ UNCHANGED <<syncVars, pc, time, mode, wanted, trick, exco, requests>>

-----------------------------------------------------------------------------
(* A frame.                                                                *)

\* f has requested the advance to its next time: it does so at the end of a
\* frame, before it may freeze.
HasAsked(f) ==
  mode[f] = "FREEZE" \/ pc[f] \notin {"mtr", "read", "set", "act", "receive"}

\* The RTI grants t to f when nobody can send anything before it any more.
Grant(f) ==
  LET t == time[f] + Step[f]
  IN /\ Goto(f, "tag", IF f = Master THEN "mtr" ELSE "receive")
     /\ \A g \in SP!In \ {f} :
          t < time[g] + Step[g] + (IF HasAsked(g) THEN Step[g] ELSE 0)
     /\ \A i \in DOMAIN wire[f] : t < wire[f][i].sent + MaxDelay
     /\ time' = [time EXCEPT ![f] = t]
     /\ UNCHANGED <<syncVars, mode, wanted, trick, exco, wire, queue, requests>>

\* The end_of_frame job: the freeze button of the control panel.  Only that
\* of the master commands a freeze; pressed again it is taken back.
EnterFreeze(f) ==
  /\ Goto(f, "end", "eof")
  /\ IF f = Master /\ cmd = "freeze" /\ wanted # "FREEZE"
     THEN LET x == NextMode("FREEZE")
          IN /\ exco' = x /\ SendExCO(x)
             /\ wanted' = "FREEZE" /\ cmd' = "none"
             /\ sched' = [sched EXCEPT ![f] = x.at]
             /\ SP!RegisterCall(f, MtrFreeze, SP!In, TRUE)
     ELSE /\ cmd' = IF f = Master /\ cmd = "freeze" /\ time[f] < exco.at
                    THEN "none" ELSE cmd
          /\ UNCHANGED <<syncVars, wanted, sched, exco, wire>>
  /\ UNCHANGED <<time, mode, stop, queue, mtr, calling, left>>

\* Trick at the end of the frame: stop, freeze or go on.
MustStop(f) == stop[f] <= time[f] \/ (f = Master /\ cmd = "exit")
MustFreeze(f) == (sched[f] # 0 /\ sched[f] <= time[f]) \/ (f = Master /\ cmd = "freeze")

EndFrame(f) ==
  /\ \/ MustStop(f) /\ Goto(f, "eof", "shutdown") /\ UNCHANGED <<sched, cmd>>
     \/ /\ MustFreeze(f) /\ Goto(f, "eof", "freeze")
        /\ sched' = [sched EXCEPT ![f] = 0]
        /\ cmd' = IF f = Master THEN "none" ELSE cmd
     \/ /\ ~MustStop(f) /\ ~MustFreeze(f)
        /\ Goto(f, "eof", "tag")
        /\ UNCHANGED <<sched, cmd>>
  /\ UNCHANGED <<syncVars, time, mode, wanted, stop, exco, wire, queue, mtr, calling, left>>

-----------------------------------------------------------------------------
(* Requests for a mode.  The interaction is handled by the callback thread *)
(* of the master: it raises the flag and then sets pending_mtr, which the  *)
(* main thread checks, reads, assigns and reads again, without a mutex.    *)

IsValid(m) ==
  \/ m = "to_run" /\ exco.cur = "FREEZE"
  \/ m = "to_freeze" /\ exco.cur = "RUNNING"
  \/ m = "to_shutdown"

\* MTRInteractionHandler::receive_interaction
RequestFlag(m) ==
  /\ Master \in SP!In /\ calling = NoRequest /\ left[m] > 0
  /\ left' = [left EXCEPT ![m] = @ - 1]
  /\ IF IsValid(m)
     THEN mtr' = [mtr EXCEPT !.flag = TRUE] /\ calling' = m
     ELSE UNCHANGED <<mtr, calling>>
  /\ UNCHANGED <<syncVars, pc, time, mode, wanted, trick, exco, wire, queue, cmd>>

\* set_pending_mtr
RequestPending(m) ==
  /\ Master \in SP!In /\ calling = m /\ m # NoRequest
  /\ mtr' = IF IsValid(m) THEN [mtr EXCEPT !.pending = m] ELSE mtr
  /\ calling' = NoRequest
  /\ UNCHANGED <<syncVars, pc, time, mode, wanted, trick, exco, wire, queue, cmd, left>>

\* Where the master goes on after process_mode_transition_request.
Resume == IF mode[Master] = "FREEZE" THEN "frozen" ELSE "end"

CheckRequest ==
  /\ \E a \in {"mtr", "frozen"} :
       Goto(Master, a, IF mtr.flag /\ IsValid(mtr.pending) THEN "read" ELSE Resume)
  /\ UNCHANGED <<syncVars, time, mode, wanted, trick, exco, wire, queue, requests>>

ReadRequest ==
  /\ Goto(Master, "read", "set")
  /\ mtr' = [mtr EXCEPT !.read = mtr.pending]
  /\ UNCHANGED <<syncVars, time, mode, wanted, trick, exco, wire, queue, calling, cmd, left>>

ModeOf(m) ==
  CASE m = "to_run" -> "RUNNING" [] m = "to_freeze" -> "FREEZE" [] OTHER -> "SHUTDOWN"

\* set_mode_request_from_mtr
SetRequest ==
  /\ Goto(Master, "set", "act")
  /\ mtr' = [mtr EXCEPT !.pending = mtr.read, !.read = NoRequest]
  /\ exco' = NextMode(ModeOf(mtr.read))
  /\ wanted' = ModeOf(mtr.read)
  /\ UNCHANGED <<syncVars, time, mode, trick, wire, queue, calling, cmd, left>>

\* The rest of process_mode_transition_request.
ActOnRequest ==
  /\ Goto(Master, "act",
          IF mtr.pending = "to_run" /\ mode[Master] = "FREEZE" THEN "thaw" ELSE Resume)
  /\ mtr' = [mtr EXCEPT !.flag = FALSE]
  /\ \/ /\ mtr.pending = "to_run" \/ (mtr.pending = "to_freeze" /\ mode[Master] # "RUNNING")
        /\ UNCHANGED <<syncVars, wanted, trick, exco, wire>>
     \/ /\ mtr.pending = "to_freeze" /\ mode[Master] = "RUNNING"
        /\ SendExCO(exco)
        /\ SP!RegisterCall(Master, MtrFreeze, SP!In, TRUE)
        /\ sched' = [sched EXCEPT ![Master] = exco.at]
        /\ UNCHANGED <<wanted, stop, exco>>
     \/ /\ mtr.pending = "to_shutdown"
        /\ exco' = NextMode("SHUTDOWN") /\ SendExCO(exco')
        /\ wanted' = "SHUTDOWN"
        /\ stop' = [stop EXCEPT ![Master] = time[Master] + Padding]
        /\ UNCHANGED <<syncVars, sched>>
  /\ UNCHANGED <<time, mode, queue, calling, cmd, left>>

\* The user of the master: freeze, run (while frozen) and exit.  A freeze
\* commanded after the end_of_frame job belongs to the next frame.
Press(r, c) ==
  /\ pc[Master] \notin {"shutdown", "closing", "close", "down"}
  /\ left[r] > 0 /\ cmd = "none"
  /\ left' = [left EXCEPT ![r] = @ - 1]
  /\ cmd' = c
  /\ UNCHANGED <<syncVars, pc, time, mode, wanted, trick, exco, wire, queue, mtr, calling>>
PressFreeze ==
  /\ mode[Master] = "RUNNING" /\ pc[Master] # "eof"
  /\ Press("press_freeze", "freeze")
PressExit == Press("press_exit", "exit")
PressRun ==
  /\ left["press_run"] > 0
  /\ Goto(Master, "frozen", "thaw")
  /\ left' = [left EXCEPT !["press_run"] = @ - 1]
  /\ UNCHANGED <<syncVars, time, mode, wanted, trick, exco, wire, queue, mtr, calling, cmd>>

-----------------------------------------------------------------------------
(* The updates, in the other federates.                                    *)

\* process_execution_control_updates, for the update at the head of the
\* queue: of the cyclic job, of the frozen federate, or of the run transition.
ProcessUpdate(f) ==
  /\ f \in Others /\ queue[f] # <<>>
  /\ LET x == Head(queue[f])
         changes(m, n) == x.next # x.cur /\ mode[f] = m /\ x.next = n
         down == \E m \in {"RUNNING", "FREEZE"} : changes(m, "SHUTDOWN")
     IN /\ \/ Goto(f, "receive", "receive")
           \/ Goto(f, "cte", "tag")
           \/ Goto(f, "frozen",
                   CASE down -> "shutdown"
                     [] changes("FREEZE", "RUNNING") -> "thaw"
                     [] OTHER -> "frozen")
        /\ mode' = IF down THEN [mode EXCEPT ![f] = "SHUTDOWN"] ELSE mode
        /\ stop' = IF down THEN [stop EXCEPT ![f] = time[f]] ELSE stop
        /\ sched' = IF changes("RUNNING", "FREEZE")
                    THEN [sched EXCEPT ![f] = x.at] ELSE sched
  /\ queue' = [queue EXCEPT ![f] = Tail(@)]
  /\ UNCHANGED <<syncVars, time, wanted, exco, wire, requests>>

NoUpdate(f) ==
  /\ queue[f] = <<>>
  /\ Goto(f, "receive", "end")
  /\ UNCHANGED <<syncVars, time, mode, wanted, trick, exco, wire, queue, requests>>

-----------------------------------------------------------------------------
(* The transitions.                                                        *)

\* Wait until the point is announced, and achieve it.
Achieve(f, l, a, b) ==
  /\ Goto(f, a, b)
  /\ Is(f, l, "ANNOUNCED")
  /\ SP!AchieveCall(f, l)
  /\ UNCHANGED <<time, mode, wanted, trick, exco, wire, queue, requests>>
AchieveFreeze(f) == Achieve(f, MtrFreeze, "freeze", "freezing")
AchieveRun(f) == Achieve(f, MtrRun, "run", "running")

InMode(f, m) ==
  /\ mode' = [mode EXCEPT ![f] = m]
  /\ exco' = IF f = Master THEN [exco EXCEPT !.cur = m] ELSE exco

\* freeze_mode_transition, after the federation is synchronized.
Frozen(f) ==
  /\ Goto(f, "freezing", "frozen")
  /\ Is(f, MtrFreeze, "SYNCHRONIZED")
  /\ InMode(f, "FREEZE")
  /\ UNCHANGED <<syncVars, time, wanted, trick, wire, queue, requests>>

\* exit_freeze: the master says so, and registers mtr_run.
ExitFreeze(f) ==
  /\ Goto(f, "thaw", "run")
  /\ IF f = Master
     THEN /\ exco' = NextMode("RUNNING") /\ SendExCO(exco')
          /\ wanted' = "RUNNING"
          /\ SP!RegisterCall(f, MtrRun, SP!In, TRUE)
     ELSE UNCHANGED <<syncVars, wanted, exco, wire>>
  /\ UNCHANGED <<time, mode, trick, queue, requests>>

\* (mutant of Run) A federate does not wait for the others.
RunWhenAchieved(f) ==
  /\ Goto(f, "running", IF Cte /\ f # Master THEN "cte" ELSE "tag")
  /\ InMode(f, "RUNNING")
  /\ IF Cte /\ f = Master THEN SendExCO(exco') ELSE UNCHANGED wire
  /\ UNCHANGED <<syncVars, time, wanted, trick, queue, requests>>

\* run_mode_transition, after the federation is synchronized; with a CTE the
\* others wait for one more update.
Run(f) ==
  /\ Goto(f, "running", IF Cte /\ f # Master THEN "cte" ELSE "tag")
  /\ Is(f, MtrRun, "SYNCHRONIZED")
  /\ InMode(f, "RUNNING")
  /\ IF Cte /\ f = Master THEN SendExCO(exco') ELSE UNCHANGED wire
  /\ UNCHANGED <<syncVars, time, wanted, trick, queue, requests>>

\* The exit button, seen by check_freeze_exit.
ExitFrozen ==
  /\ cmd = "exit"
  /\ Goto(Master, "frozen", "shutdown")
  /\ UNCHANGED <<syncVars, time, mode, wanted, trick, exco, wire, queue, requests>>

Resign(f) ==
  /\ SP!Leave(f)
  /\ UNCHANGED <<time, mode, wanted, trick, exco, wire, queue, requests>>

\* Federate::shutdown: the master announces it,
Shutdown(f) ==
  IF f = Master
  THEN /\ Goto(f, "shutdown", "closing")
       /\ exco' = NextMode("SHUTDOWN") /\ SendExCO(exco')
       /\ wanted' = "SHUTDOWN" /\ mtr' = [mtr EXCEPT !.flag = FALSE]
       /\ UNCHANGED <<syncVars, time, mode, trick, queue, calling, cmd, left>>
  ELSE Goto(f, "shutdown", "down") /\ Resign(f)

\* and, a second later, registers mtr_shutdown and waits for its announcement.
Closing ==
  /\ Goto(Master, "closing", "close")
  /\ SP!RegisterCall(Master, MtrShutdown, SP!In, TRUE)
  /\ UNCHANGED <<time, mode, wanted, trick, exco, wire, queue, requests>>
Close ==
  /\ Goto(Master, "close", "down")
  /\ Is(Master, MtrShutdown, "ANNOUNCED")
  /\ Resign(Master)

Waits == {"tag", "freeze", "freezing", "frozen", "run", "running", "cte"}

\* (mutant of CheckForShutdown) A frozen federate does not check.
CheckForShutdownUnfrozen(f) ==
  /\ f \in Others
  /\ Is(f, MtrShutdown, "ANNOUNCED") \/ Master \notin SP!In
  /\ \E a \in Waits \ {"frozen"} : Goto(f, a, "down")
  /\ Resign(f)

\* check_for_shutdown_with_termination, in every wait: mtr_shutdown is
\* announced, or the ExCO was deleted with its owner.
CheckForShutdown(f) ==
  /\ f \in Others
  /\ Is(f, MtrShutdown, "ANNOUNCED") \/ Master \notin SP!In
  /\ \E a \in Waits : Goto(f, a, "down")
  /\ Resign(f)

-----------------------------------------------------------------------------
Callback(f, l) ==
  /\ \/ SP!OnRegistered(f, l) \/ SP!OnAnnounced(f, l)
     \/ SP!OnSynchronized(f, l)
  /\ UNCHANGED <<pc, time, mode, wanted, trick, exco, wire, queue, requests>>

\* A registration is refused when the point is still in use, which requests
\* that are made one after the other never cause.
Refused(f, l) ==
  /\ SP!OnFailed(f, l)
  /\ UNCHANGED <<pc, time, mode, wanted, trick, exco, wire, queue, requests>>

Rti(f, l) ==
  /\ SP!Drop(f, l) \/ SP!RegisterReturn(f, l) \/ SP!AchieveReturn(f, l)
  /\ UNCHANGED <<pc, time, mode, wanted, trick, exco, wire, queue, requests>>

MainThread(f) ==
  \/ Grant(f) \/ EnterFreeze(f) \/ EndFrame(f)
  \/ ProcessUpdate(f) \/ NoUpdate(f)
  \/ AchieveFreeze(f) \/ Frozen(f) \/ ExitFreeze(f) \/ AchieveRun(f) \/ Run(f)
  \/ Shutdown(f) \/ CheckForShutdown(f)
  \/ /\ f = Master
     /\ \/ CheckRequest \/ ReadRequest \/ SetRequest \/ ActOnRequest
        \/ ExitFrozen \/ Closing \/ Close

User ==
  \/ \E m \in Mtrs : RequestFlag(m)
  \/ PressFreeze \/ PressRun \/ PressExit

Next ==
  \/ \E f \in Federates : MainThread(f) \/ Reflect(f)
  \/ \E f \in Federates, l \in Labels : Callback(f, l) \/ Rti(f, l)
  \/ \E m \in Mtrs : RequestPending(m)
  \/ User

Spec == Init /\ [][Next]_vars

\* Main threads and callback threads run, and the RTI delivers.  Nobody has
\* to request anything.
Fairness ==
  /\ \A f \in Federates :
       /\ WF_vars(MainThread(f)) /\ WF_vars(Reflect(f))
       /\ WF_vars(\E l \in Labels : Callback(f, l) \/ Rti(f, l))
  /\ WF_vars(\E m \in Mtrs : RequestPending(m))

FairSpec == Spec /\ Fairness

\* Requests may also be made while another one is carried out.
AnySpec ==
  /\ Init /\ [][Next \/ \E f \in Federates, l \in Labels : Refused(f, l)]_vars
  /\ Fairness /\ \A f \in Federates : WF_vars(\E l \in Labels : Refused(f, l))

-----------------------------------------------------------------------------
(* Properties.                                                             *)

InFreeze(f) == pc[f] \in {"freeze", "freezing", "frozen", "thaw", "run", "running"}

\* All the federates freeze at the same time, the one the ExCO says, however
\* long their data cycles are and whenever the update reaches them; and none
\* of them runs a frame later than that while the freeze is to come.
FreezeOnTime ==
  /\ \A f, g \in SP!In : InFreeze(f) /\ InFreeze(g) => time[f] = time[g]
  /\ exco.next = "FREEZE" => \A f \in SP!In : time[f] <= exco.at

\* Nobody runs a frame after the freeze before everybody is about to: one
\* that is behind in a freeze has achieved mtr_run.
RunTogether ==
  \A f, g \in SP!In : time[f] > time[g] /\ InFreeze(g) => pc[g] = "running"

\* Whatever is requested and when, no transition is left half way: in the end
\* everybody has shut down, or is frozen with the master.
EverybodySettles ==
  <>[](\A f \in Federates :
         pc[f] = "down" \/ (pc[f] = "frozen" /\ pc[Master] = "frozen"))

\* Trick goes into freeze at the appointed time: the transition ends.
FreezeEnds == pc[Master] = "freeze" ~> pc[Master] # "freeze"

=============================================================================
