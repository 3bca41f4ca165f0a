-------------------------------- MODULE Pause --------------------------------
(***************************************************************************)
(* The callbacks at the end of a frame (src/vice/src/vsync.c), the pause   *)
(* of the GTK3 UI that is built on them (arch/gtk3/ui.c, vsyncarch.c), and *)
(* the monitor that opens from a pause and may leave into one (monitor.c). *)
(*                                                                         *)
(* The emulation is paused by a callback that sleeps and queues itself     *)
(* again.  UI actions hold main_lock, so each is one step, taken while the *)
(* emulation has yielded: in a frame, in the sleep of a pause, at the      *)
(* monitor's prompt.                                                       *)
(***************************************************************************)
EXTENDS PauseParams, Integers, Sequences, FiniteSets

VARIABLES
  isPaused,    \* is_paused
  enterMonitor,\* enter_monitor_while_paused
  pausePending,\* pause_pending
  shouldPause, \* should_pause_on_exit_mon
  queue,       \* the queue that collects callbacks
  executing,   \* what is left of the queue that is executed
  traps,       \* monitor traps in the trap queue
  batch,       \* traps interrupt_do_trap() has yet to call
  reset,       \* IK_RESET is pending
  caller,      \* what called the callbacks or the monitor
  pc,          \* where the emulation is
  asked,       \* history: the number of other callbacks that were queued
  called       \* history: the other callbacks in the order they were called

ui == <<isPaused, enterMonitor, pausePending, shouldPause>>
cpu == <<traps, batch, reset>>
history == <<asked, called>>
vars == <<ui, queue, executing, cpu, caller, pc, history>>

\* A callback: pause_loop(), or another one by its number.
pauseLoop == 0
Jobs == 1 .. MaxCalls

\* The callbacks in the order they are to be called, and where each kind is.
Waiting == executing \o queue
LoopAt == {i \in DOMAIN Waiting : Waiting[i] = pauseLoop}
JobAt == {i \in DOMAIN Waiting : Waiting[i] \in Jobs}

-----------------------------------------------------------------------------
(* Pausing, from either thread.                                            *)

\* ui_pause_enable()
PauseEnable ==
  /\ isPaused' = TRUE
  /\ queue' = IF isPaused THEN queue ELSE Append(queue, pauseLoop)

\* monitor_startup_trap()
StartupTrap ==
  traps' = IF pc = "monitor" THEN traps ELSE traps + 1

\* monitor_startup(), up to the prompt.
MonitorStartup ==
  /\ shouldPause' = (shouldPause \/ isPaused)
  /\ isPaused' = FALSE
  /\ pc' = "monitor"

-----------------------------------------------------------------------------
(* The UI thread.                                                          *)

UiRuns == pc \in {"run", "sleep", "monSleep", "monitor"}

Bounded == Cardinality(LoopAt) < MaxLoops /\ traps < MaxTraps

\* ui_pause_toggle(); the dialogs that pause while they are open do the same.
PauseToggle ==
  /\ UiRuns
  /\ IF isPaused
       THEN isPaused' = FALSE /\ UNCHANGED queue
       ELSE Bounded /\ PauseEnable
  /\ UNCHANGED <<enterMonitor, pausePending, shouldPause, executing, cpu, caller,
                 pc, history>>

\* advance_frame_action()
AdvanceFrame ==
  /\ UiRuns /\ Bounded
  /\ IF isPaused
       THEN isPaused' = FALSE /\ pausePending' = TRUE /\ UNCHANGED queue
       ELSE PauseEnable /\ UNCHANGED pausePending
  /\ UNCHANGED <<enterMonitor, shouldPause, executing, cpu, caller, pc, history>>

\* monitor_open_action()
MonitorOpen ==
  /\ UiRuns /\ Bounded
  /\ IF isPaused
       THEN enterMonitor' = TRUE /\ UNCHANGED traps
       ELSE StartupTrap /\ UNCHANGED enterMonitor
  /\ UNCHANGED <<isPaused, pausePending, shouldPause, queue, executing, batch,
                 reset, caller, pc, history>>

\* machine_reset_action(), or a setting that resets the machine: only the first
\* ends a pause.
MachineReset ==
  /\ UiRuns
  /\ reset' = TRUE
  /\ isPaused' \in {isPaused, FALSE}
  /\ UNCHANGED <<enterMonitor, pausePending, shouldPause, queue, executing, traps,
                 batch, caller, pc, history>>

\* vsync_on_vsync_do(); in the monitor a screenshot is taken at once instead.
OnVsyncDo ==
  /\ pc \in {"run", "sleep", "monSleep"}
  /\ asked < MaxCalls
  /\ queue' = Append(queue, asked + 1)
  /\ asked' = asked + 1
  /\ UNCHANGED <<ui, executing, cpu, caller, pc, called>>

-----------------------------------------------------------------------------
(* The emulation: the end of a frame.                                      *)

\* Mutant: the frame after a single step does not pause again.
DoVsyncStepped ==
  /\ pc = "run"
  /\ IF pausePending THEN isPaused' = TRUE ELSE UNCHANGED isPaused
  /\ pausePending' = FALSE
  /\ caller' = "vsync" /\ pc' = "callbacks"
  /\ UNCHANGED <<enterMonitor, shouldPause, queue, executing, cpu, history>>

\* vsync_do_vsync() with vsyncarch_postsync(), up to the callbacks.
DoVsync ==
  /\ pc = "run"
  /\ IF pausePending THEN PauseEnable ELSE UNCHANGED <<isPaused, queue>>
  /\ pausePending' = FALSE
  /\ caller' = "vsync" /\ pc' = "callbacks"
  /\ UNCHANGED <<enterMonitor, shouldPause, executing, cpu, history>>

\* Mutant: what is queued while callbacks are called joins the same queue.
FlipOnce ==
  /\ pc = "callbacks" /\ executing = <<>> /\ queue # <<>>
  /\ executing' = <<Head(queue)>> /\ queue' = <<>>
  /\ UNCHANGED <<ui, cpu, caller, pc, history>>

\* execute_vsync_callbacks() takes the queue; new callbacks go to the other one.
Flip ==
  /\ pc = "callbacks" /\ executing = <<>> /\ queue # <<>>
  /\ executing' = queue /\ queue' = <<>>
  /\ UNCHANGED <<ui, cpu, caller, pc, history>>

CallJob ==
  /\ pc = "callbacks" /\ executing # <<>> /\ Head(executing) \in Jobs
  /\ called' = Append(called, Head(executing))
  /\ executing' = Tail(executing)
  /\ UNCHANGED <<ui, queue, cpu, caller, pc, asked>>

\* pause_loop() with ui_pause_loop_iteration(), up to the sleep.
PauseLoop ==
  /\ pc = "callbacks" /\ executing # <<>> /\ Head(executing) = pauseLoop
  /\ IF isPaused /\ enterMonitor
       THEN StartupTrap /\ enterMonitor' = FALSE
       ELSE UNCHANGED <<traps, enterMonitor>>
  /\ IF isPaused /\ ~ enterMonitor
       THEN pc' = "sleep" /\ UNCHANGED executing
       ELSE executing' = Tail(executing) /\ UNCHANGED pc
  /\ UNCHANGED <<isPaused, pausePending, shouldPause, queue, batch, reset, caller,
                 history>>

\* Mutant: the sleep goes on in place, with no return to the callbacks.
SleepInPlace ==
  /\ pc = "sleep"
  /\ IF isPaused
       THEN UNCHANGED <<executing, pc>>
       ELSE executing' = Tail(executing) /\ pc' = "callbacks"
  /\ UNCHANGED <<ui, queue, cpu, caller, history>>

\* ... and after it: "Still paused, schedule another run".
SleepEnds ==
  /\ pc = "sleep"
  /\ queue' = IF isPaused THEN Append(queue, pauseLoop) ELSE queue
  /\ executing' = Tail(executing)
  /\ pc' = "callbacks"
  /\ UNCHANGED <<ui, cpu, caller, history>>

\* No callbacks left: the frame goes on, or the reset has been served.
CallbacksEnd ==
  /\ pc = "callbacks" /\ executing = <<>> /\ queue = <<>>
  /\ reset' = (reset /\ caller = "vsync")
  /\ pc' = "run"
  /\ UNCHANGED <<ui, queue, executing, traps, batch, caller, history>>

-----------------------------------------------------------------------------
(* The emulation: traps, resets and the monitor.                           *)

\* DO_INTERRUPT() with IK_TRAP or IK_RESET.
Interrupt ==
  /\ pc = "run"
  /\ traps > 0 \/ reset
  /\ batch' = traps /\ traps' = 0
  /\ caller' = "trap" /\ pc' = "traps"
  /\ UNCHANGED <<ui, queue, executing, reset, history>>

\* monitor_trap()
MonitorTrap ==
  /\ pc = "traps" /\ batch > 0
  /\ batch' = batch - 1
  /\ MonitorStartup
  /\ UNCHANGED <<enterMonitor, pausePending, queue, executing, traps, reset, caller,
                 history>>

\* A breakpoint opens the monitor from the CPU loop.
Breakpoint ==
  /\ pc = "run" /\ Bounded
  /\ caller' = "breakpoint"
  /\ MonitorStartup
  /\ UNCHANGED <<enterMonitor, pausePending, queue, executing, cpu, history>>

MonitorReturns == pc' = IF caller = "breakpoint" THEN "run" ELSE "traps"

\* mon_go() or mon_exit(), and the end of monitor_startup().
Go ==
  /\ pc = "monitor"
  /\ shouldPause' = FALSE
  /\ IF shouldPause \/ isPaused
       THEN PauseEnable /\ pc' = "monLoop"
       ELSE MonitorReturns /\ UNCHANGED <<isPaused, queue>>
  /\ UNCHANGED <<enterMonitor, pausePending, executing, cpu, caller, history>>

\* mon_jump(), a step or a return: the flags are left alone; the monitor's reset
\* command leaves in the same way.
LeaveUnpaused ==
  /\ pc = "monitor"
  /\ reset' \in {reset, TRUE}
  /\ MonitorReturns
  /\ UNCHANGED <<ui, queue, executing, traps, batch, caller, history>>

\* Mutant: the loop looks at is_paused only before it begins.
MonitorPauseUnchecked ==
  /\ pc = "monLoop"
  /\ IF enterMonitor
       THEN StartupTrap /\ enterMonitor' = FALSE /\ MonitorReturns
       ELSE pc' = "monSleep" /\ UNCHANGED <<traps, enterMonitor>>
  /\ UNCHANGED <<isPaused, pausePending, shouldPause, queue, executing, batch,
                 reset, caller, history>>

\* while (ui_pause_loop_iteration()); inside the trap.
MonitorPause ==
  /\ pc = "monLoop"
  /\ IF isPaused /\ enterMonitor
       THEN StartupTrap /\ enterMonitor' = FALSE
       ELSE UNCHANGED <<traps, enterMonitor>>
  /\ IF isPaused /\ ~ enterMonitor THEN pc' = "monSleep" ELSE MonitorReturns
  /\ UNCHANGED <<isPaused, pausePending, shouldPause, queue, executing, batch,
                 reset, caller, history>>

MonitorSleepEnds ==
  /\ pc = "monSleep"
  /\ pc' = "monLoop"
  /\ UNCHANGED <<ui, queue, executing, cpu, caller, history>>

\* Mutant: a reset is left pending for its own callbacks to clear, traps as well.
TrapsEndKeeps ==
  /\ pc = "traps" /\ batch = 0
  /\ traps' = traps + 1
  /\ IF reset
       THEN caller' = "reset" /\ pc' = "callbacks"
       ELSE pc' = "run" /\ UNCHANGED caller
  /\ reset' = FALSE
  /\ UNCHANGED <<ui, queue, executing, batch, history>>

\* The traps are done: cpu_reset() up to vsync_reset_hook(), or go on.
TrapsEnd ==
  /\ pc = "traps" /\ batch = 0
  /\ IF reset
       THEN traps' = 0 /\ caller' = "reset" /\ pc' = "callbacks"
       ELSE pc' = "run" /\ UNCHANGED <<traps, caller>>
  /\ reset' = FALSE
  /\ UNCHANGED <<ui, queue, executing, batch, history>>

-----------------------------------------------------------------------------

Init ==
  /\ isPaused = FALSE /\ enterMonitor = FALSE
  /\ pausePending = FALSE /\ shouldPause = FALSE
  /\ queue = <<>> /\ executing = <<>>
  /\ traps = 0 /\ batch = 0 /\ reset = FALSE
  /\ caller = "vsync" /\ pc = "run"
  /\ asked = 0 /\ called = <<>>

User ==
  \/ PauseToggle \/ AdvanceFrame \/ MonitorOpen \/ MachineReset
  \/ OnVsyncDo \/ Go \/ LeaveUnpaused

Step ==
  \/ Flip \/ CallJob \/ PauseLoop \/ SleepEnds \/ CallbacksEnd
  \/ MonitorTrap \/ MonitorPause \/ MonitorSleepEnds \/ TrapsEnd

Next == User \/ Step \/ DoVsync \/ Interrupt \/ Breakpoint

Spec == Init /\ [][Next]_vars

\* The emulation goes on: between two frames it serves what is pending.
Fairness == WF_vars(Step) /\ SF_vars(DoVsync) /\ SF_vars(Interrupt)

FairSpec == Spec /\ Fairness

-----------------------------------------------------------------------------
(* What makes pausing correct.                                             *)

\* Every variable keeps its type.
TypeOK ==
  /\ {isPaused, enterMonitor, pausePending, shouldPause, reset} \subseteq BOOLEAN
  /\ {queue, executing} \subseteq Seq(Jobs \cup {pauseLoop})
  /\ traps \in 0 .. MaxTraps + 1 /\ batch \in 0 .. MaxTraps + 1
  /\ caller \in {"vsync", "reset", "trap", "breakpoint"}
  /\ pc \in {"run", "callbacks", "sleep", "traps", "monitor", "monLoop", "monSleep"}
  /\ asked \in 0 .. MaxCalls /\ called \in Seq(Jobs)

\* The emulation does not run past the end of a frame while is_paused is set: a
\* pause_loop() is queued or asleep, or the monitor, which takes over the pause,
\* is on its way.
PauseHolds ==
  isPaused => LoopAt # {} \/ traps > 0 \/ batch > 0

\* "Call callback_func(callback_param) once at vsync time" (vsync.c:109), in the
\* order of the calls, also across pauses and resets.
CallbacksInOrder ==
  /\ called = [n \in 1 .. Len(called) |-> n] /\ Len(called) <= asked
  /\ {Waiting[i] : i \in JobAt} = Len(called) + 1 .. asked
  /\ \A i, j \in JobAt : i < j => Waiting[i] < Waiting[j]

\* A pause lets "other, perhaps newly queued, vsync_on_vsync_do callbacks" be
\* called (ui.c:2677): none waits for its end, unless the monitor is open or has
\* left into a pause, which sleeps inside its trap.
CallbacksServed ==
  JobAt # {} ~>
    Len(called) = asked \/ pc \in {"monitor", "monSleep"}

\* When a pause ends the emulation runs, however many loops are queued.
Resumes == ~ isPaused ~> isPaused \/ pc \in {"run", "monitor"}
=============================================================================
