------------------------------ MODULE Mainlock ------------------------------
(***************************************************************************)
(* The lock that the UI thread and the emulation ("VICE") thread share     *)
(* (src/vice/src/mainlock.c), with the shutdown that ends the VICE thread  *)
(* (archdep_exit.c, main_exit() and ui_exit() of the GTK3 UI, main.c).     *)
(*                                                                         *)
(* The VICE thread owns main_lock except while it yields; the UI waits on  *)
(* ui_waiting_cond until it is told of a yield, and the VICE thread then   *)
(* waits on ui_has_lock_cond until the UI has the lock.  A section under   *)
(* internal_lock takes no other lock, so it is one step.  A signal wakes   *)
(* a thread that waits and is lost otherwise; a wait may end by itself     *)
(* when Spurious.                                                          *)
(***************************************************************************)
EXTENDS Naturals

CONSTANTS
  MaxDepth,    \* bound: nesting of the UI's handlers
  Spurious,    \* may pthread_cond_wait() return without a signal?
  Quits        \* the threads that call archdep_vice_exit()

VARIABLES
  mainLock,    \* owner of main_lock
  depth,       \* main_lock_obtain_depth
  uiIsWaiting, \* ui_is_waiting
  keepalive,   \* vice_thread_keepalive
  isRunning,   \* vice_thread_is_running
  exitQueued,  \* exit_on_main_thread() is in the UI's event queue
  vice,        \* where the VICE thread is
  ui,          \* where the UI thread is in mainlock_obtain(); "code" outside
  phase        \* where the UI thread is in the life of the program

vars == <<mainLock, depth, uiIsWaiting, keepalive, isRunning, exitQueued,
          vice, ui, phase>>

ASSUME MainlockAssumption ==
  /\ MaxDepth \in Nat \ {0}
  /\ Spurious \in BOOLEAN
  /\ Quits \subseteq {"ui", "vice"}

-----------------------------------------------------------------------------
(* The VICE thread.                                                        *)

\* mainlock_set_vice_thread(), up to pthread_mutex_lock(&main_lock).
SetViceThread ==
  /\ vice = "start"
  /\ isRunning' = TRUE
  /\ vice' = "enter"
  /\ UNCHANGED <<mainLock, depth, uiIsWaiting, keepalive, exitQueued, ui, phase>>

FirstLock ==
  /\ vice = "enter"
  /\ mainLock = "none"
  /\ mainLock' = "vice"
  /\ vice' = "run"
  /\ UNCHANGED <<depth, uiIsWaiting, keepalive, isRunning, exitQueued, ui, phase>>

\* mainlock_yield_begin(): unlock ...
YieldBegin ==
  /\ vice = "run"
  /\ mainLock' = "none"
  /\ vice' = "yield"
  /\ UNCHANGED <<depth, uiIsWaiting, keepalive, isRunning, exitQueued, ui, phase>>

\* Mutant: the VICE thread does not wait until the UI has the lock.
HandOverAtOnce ==
  /\ vice = "yield"
  /\ ui' = IF uiIsWaiting /\ ui = "waiting" THEN "woken" ELSE ui
  /\ vice' = "sleep"
  /\ UNCHANGED <<mainLock, depth, uiIsWaiting, keepalive, isRunning,
                 exitQueued, phase>>

\* ... then, if the UI waits, wake it and wait until it has the lock.
HandOver ==
  /\ vice = "yield"
  /\ ui' = IF uiIsWaiting /\ ui = "waiting" THEN "woken" ELSE ui
  /\ vice' = IF uiIsWaiting THEN "waitUi" ELSE "sleep"
  /\ UNCHANGED <<mainLock, depth, uiIsWaiting, keepalive, isRunning,
                 exitQueued, phase>>

\* mainlock_yield_end(), after the sleep or the write to the sound device.
YieldEnd ==
  /\ vice = "sleep"
  /\ mainLock = "none"
  /\ mainLock' = "vice"
  /\ vice' = "consider"
  /\ UNCHANGED <<depth, uiIsWaiting, keepalive, isRunning, exitQueued, ui, phase>>

\* Mutant: the VICE thread leaves without waking the UI.
ConsiderExitSilently ==
  /\ vice = "consider"
  /\ IF keepalive
       THEN vice' = "run" /\ UNCHANGED isRunning
       ELSE vice' = "leave" /\ isRunning' = FALSE
  /\ UNCHANGED <<mainLock, depth, uiIsWaiting, keepalive, exitQueued, ui, phase>>

\* consider_exit()
ConsiderExit ==
  /\ vice = "consider"
  /\ IF keepalive
       THEN vice' = "run" /\ UNCHANGED <<isRunning, ui>>
       ELSE /\ isRunning' = FALSE
            /\ ui' = IF uiIsWaiting /\ ui = "waiting" THEN "woken" ELSE ui
            /\ vice' = "leave"
  /\ UNCHANGED <<mainLock, depth, uiIsWaiting, keepalive, exitQueued, phase>>

\* pthread_exit()
Leave ==
  /\ vice = "leave"
  /\ mainLock' = "none"
  /\ vice' = "gone"
  /\ UNCHANGED <<depth, uiIsWaiting, keepalive, isRunning, exitQueued, ui, phase>>

\* archdep_vice_exit() called by the emulation (the monitor's quit, the JAM
\* action, the cycle limit): the exit is queued for the UI thread ...
ViceExit ==
  /\ "vice" \in Quits
  /\ vice = "run"
  /\ exitQueued' = TRUE
  /\ vice' = "exit"
  /\ UNCHANGED <<mainLock, depth, uiIsWaiting, keepalive, isRunning, ui, phase>>

\* ... and mainlock_initiate_shutdown() should not return.  If it does, the
\* next line is assert(false).
InitiateOnVice ==
  /\ vice = "exit"
  /\ keepalive' = FALSE
  /\ vice' = IF keepalive THEN "consider" ELSE "assert"
  /\ UNCHANGED <<mainLock, depth, uiIsWaiting, isRunning, exitQueued, ui, phase>>

ViceSpurious ==
  /\ Spurious
  /\ vice = "waitUi"
  /\ vice' = "sleep"
  /\ UNCHANGED <<mainLock, depth, uiIsWaiting, keepalive, isRunning,
                 exitQueued, ui, phase>>

-----------------------------------------------------------------------------
(* The UI thread: mainlock_obtain() and mainlock_release() around handlers *)
(* that may nest, and around the cleaning up in ui_exit().                 *)

Obtain ==
  /\ ui = "code"
  /\ phase \in {"loop", "uiExit", "cleanup"}
  /\ depth < MaxDepth
  /\ depth' = depth + 1
  /\ ui' = IF depth > 0 THEN "code" ELSE "obtain"
  /\ UNCHANGED <<mainLock, uiIsWaiting, keepalive, isRunning, exitQueued,
                 vice, phase>>

\* Mutant: the UI waits for a thread that may not be there.
WaitAlways ==
  /\ ui = "obtain"
  /\ uiIsWaiting' = TRUE
  /\ ui' = "waiting"
  /\ UNCHANGED <<mainLock, depth, keepalive, isRunning, exitQueued, vice, phase>>

Wait ==
  /\ ui = "obtain"
  /\ IF isRunning
       THEN uiIsWaiting' = TRUE /\ ui' = "waiting"
       ELSE ui' = "locking" /\ UNCHANGED uiIsWaiting
  /\ UNCHANGED <<mainLock, depth, keepalive, isRunning, exitQueued, vice, phase>>

UiSpurious ==
  /\ Spurious
  /\ ui = "waiting"
  /\ ui' = "woken"
  /\ UNCHANGED <<mainLock, depth, uiIsWaiting, keepalive, isRunning,
                 exitQueued, vice, phase>>

Awake ==
  /\ ui = "woken"
  /\ uiIsWaiting' = FALSE
  /\ ui' = "locking"
  /\ UNCHANGED <<mainLock, depth, keepalive, isRunning, exitQueued, vice, phase>>

Lock ==
  /\ ui = "locking"
  /\ mainLock = "none"
  /\ mainLock' = "ui"
  /\ ui' = "locked"
  /\ UNCHANGED <<depth, uiIsWaiting, keepalive, isRunning, exitQueued, vice, phase>>

\* Mutant: ui_has_lock_cond is not signalled.
HasLockSilently ==
  /\ ui = "locked"
  /\ ui' = "code"
  /\ phase' = IF phase = "uiExit" THEN "cleanup" ELSE phase
  /\ UNCHANGED <<mainLock, depth, uiIsWaiting, keepalive, isRunning, exitQueued,
                 vice>>

\* Signal ui_has_lock_cond and return.
HasLock ==
  /\ ui = "locked"
  /\ vice' = IF vice = "waitUi" THEN "sleep" ELSE vice
  /\ ui' = "code"
  /\ phase' = IF phase = "uiExit" THEN "cleanup" ELSE phase
  /\ UNCHANGED <<mainLock, depth, uiIsWaiting, keepalive, isRunning, exitQueued>>

\* Mutant: a nested handler gives the lock away.
ReleaseNested ==
  /\ ui = "code"
  /\ IF phase = "cleanup" THEN depth > 1 ELSE depth > 0
  /\ depth' = depth - 1
  /\ mainLock' = "none"
  /\ UNCHANGED <<uiIsWaiting, keepalive, isRunning, exitQueued, vice, ui, phase>>

\* A handler ends; ui_exit() keeps the lock until it has cleaned up.
Release ==
  /\ ui = "code"
  /\ IF phase = "cleanup" THEN depth > 1 ELSE depth > 0
  /\ depth' = depth - 1
  /\ mainLock' = IF depth = 1 THEN "none" ELSE mainLock
  /\ UNCHANGED <<uiIsWaiting, keepalive, isRunning, exitQueued, vice, ui, phase>>

\* archdep_vice_exit() on the UI thread: quit_action(), an unlocked handler, or
\* confirm_exit_callback() after its mainlock_release().
UiExit ==
  /\ "ui" \in Quits
  /\ ui = "code" /\ phase = "loop" /\ depth = 0
  /\ phase' = "uiExit"
  /\ UNCHANGED <<mainLock, depth, uiIsWaiting, keepalive, isRunning,
                 exitQueued, vice, ui>>

\* exit_on_main_thread(); actually_exit() ignores a second call.
ExitOnMainThread ==
  /\ exitQueued
  /\ ui = "code" /\ phase = "loop" /\ depth = 0
  /\ exitQueued' = FALSE
  /\ phase' = "uiExit"
  /\ UNCHANGED <<mainLock, depth, uiIsWaiting, keepalive, isRunning, vice, ui>>

\* The end of ui_exit().
UiExitEnds ==
  /\ phase = "cleanup" /\ ui = "code" /\ depth = 1
  /\ depth' = 0
  /\ mainLock' = "none"
  /\ phase' = "shutdown"
  /\ UNCHANGED <<uiIsWaiting, keepalive, isRunning, exitQueued, vice, ui>>

\* vice_thread_shutdown(): mainlock_initiate_shutdown() ...
InitiateOnUi ==
  /\ phase = "shutdown"
  /\ keepalive' = FALSE
  /\ phase' = "join"
  /\ UNCHANGED <<mainLock, depth, uiIsWaiting, isRunning, exitQueued, vice, ui>>

\* ... and pthread_join(), after which the machine is taken down.
Join ==
  /\ phase = "join"
  /\ vice = "gone"
  /\ phase' = "joined"
  /\ UNCHANGED <<mainLock, depth, uiIsWaiting, keepalive, isRunning,
                 exitQueued, vice, ui>>

-----------------------------------------------------------------------------

Init ==
  /\ mainLock = "none" /\ depth = 0
  /\ uiIsWaiting = FALSE /\ keepalive = TRUE /\ isRunning = FALSE
  /\ exitQueued = FALSE
  /\ vice = "start" /\ ui = "code" /\ phase = "loop"

ViceStep ==
  SetViceThread \/ FirstLock \/ HandOver \/ YieldEnd \/ ConsiderExit \/ Leave
  \/ InitiateOnVice

ViceChoice == YieldBegin \/ ViceExit \/ ViceSpurious

UiStep ==
  \/ Obtain \/ Wait \/ UiSpurious \/ Awake \/ Lock \/ HasLock \/ Release
  \/ UiExit \/ ExitOnMainThread \/ UiExitEnds \/ InitiateOnUi \/ Join

\* A failed assertion ends the process.
Next ==
  /\ vice # "assert"
  /\ ViceStep \/ ViceChoice \/ UiStep

Spec == Init /\ [][Next]_vars

HandlerEnds(d) == Release /\ depth = d
UiExitObtains == phase = "uiExit" /\ Obtain

\* Threads are scheduled; the emulation yields in every frame, also when paused,
\* jammed or in the monitor; handlers and the event loops they run end.
Fairness ==
  /\ WF_vars(ViceStep) /\ WF_vars(YieldBegin)
  /\ WF_vars(Wait) /\ WF_vars(Awake) /\ WF_vars(Lock) /\ WF_vars(HasLock)
  /\ \A d \in 1 .. MaxDepth : SF_vars(HandlerEnds(d))
  /\ SF_vars(UiExitEnds) /\ SF_vars(ExitOnMainThread)
  /\ WF_vars(UiExitObtains) /\ WF_vars(InitiateOnUi) /\ WF_vars(Join)

FairSpec == Spec /\ Fairness

\* The UI gets a mutex that is free again and again.
FairMutex == SF_vars(Lock)

-----------------------------------------------------------------------------
(* What makes the lock correct.                                            *)

\* Every variable keeps its type.
TypeOK ==
  /\ mainLock \in {"none", "vice", "ui"}
  /\ depth \in 0 .. MaxDepth
  /\ uiIsWaiting \in BOOLEAN /\ keepalive \in BOOLEAN
  /\ isRunning \in BOOLEAN /\ exitQueued \in BOOLEAN
  /\ vice \in {"start", "enter", "run", "yield", "waitUi", "sleep", "consider",
                "exit", "leave", "gone", "assert"}
  /\ ui \in {"code", "obtain", "waiting", "woken", "locking", "locked"}
  /\ phase \in {"loop", "uiExit", "cleanup", "shutdown", "join", "joined"}

\* "This is lock coordinates access to VICE data structures" (mainlock.c:51):
\* neither the emulation nor a handler, however nested, runs without it.
Exclusive ==
  /\ vice \in {"run", "exit"} => mainLock = "vice"
  /\ ui = "code" /\ depth > 0 => mainLock = "ui"

\* No wake-up is lost: the VICE thread waits only for a UI that is on its way to
\* the lock, the UI only for a VICE thread that has not left.
NoLostWakeup ==
  /\ vice = "waitUi" => ui \in {"woken", "locking", "locked"}
  /\ ui = "waiting" => vice \notin {"start", "leave", "gone"}

\* A UI that waits for the lock gets it, however unfair the mutex is: "This
\* ensures that thread priorities don't affect sharing of this lock"
\* (mainlock.c:170).  A spurious wake-up forfeits the turn it ends, so this is
\* claimed of behaviours without one.
UiServed == ui = "waiting" ~> ui = "code"

\* A VICE thread that yielded runs again, or has been told to exit.
ViceResumes == vice \in {"yield", "waitUi", "sleep"} ~> vice \in {"run", "gone"}

\* Once an exit is asked for the program ends, with the VICE thread joined
\* unless the assertion below failed: nobody waits forever.
ShutdownEnds ==
  FairMutex =>
    (exitQueued \/ phase = "uiExit" ~> phase = "joined" \/ vice = "assert")

\* "The vice thread will shut itself down so that archdep_vice_exit does not
\* return" (archdep_exit.c:199), and assert(false) if it does.
ExitNeverReturns == vice # "assert"
=============================================================================
