------------------------------ MODULE MCThreads ------------------------------
(* The threads of the GTK3 UI: main_lock, the pause and the render queue.    *)
(* The three share no variable, so a behaviour moves one of them: the states *)
(* of the run are those of the three instances, not of their product.        *)
EXTENDS Mainlock, PauseParams, RenderQueueParams

VARIABLES isPaused, enterMonitor, pausePending, shouldPause, queue, executing,
          traps, batch, reset, caller, pc, asked, called
VARIABLES pool, frames, drawing, frame, content, texture, jobs, render, stopping
VARIABLE part \* the one that moves

P == INSTANCE Pause
R == INSTANCE RenderQueue WITH queue <- frames

pauseVars == <<isPaused, enterMonitor, pausePending, shouldPause, queue, executing,
               traps, batch, reset, caller, pc, asked, called>>
renderVars == <<pool, frames, drawing, frame, content, texture, jobs, render,
                stopping>>

\* "quiet" is the lock without spurious wake-ups.
LockParts == {"lock", "quiet"}

\* The others rest where no step is due: the program has ended, the monitor is at
\* its prompt, the widget is not realized.
ThreadsInit ==
  /\ part \in LockParts \cup {"pause", "render"}
  /\ mainLock = "none" /\ depth = 0
  /\ uiIsWaiting = FALSE /\ keepalive = TRUE /\ isRunning = FALSE
  /\ exitQueued = FALSE
  /\ vice = IF part \in LockParts THEN "start" ELSE "gone"
  /\ ui = "code"
  /\ phase = IF part \in LockParts THEN "loop" ELSE "joined"
  /\ isPaused = FALSE /\ enterMonitor = FALSE
  /\ pausePending = FALSE /\ shouldPause = FALSE
  /\ queue = <<>> /\ executing = <<>>
  /\ traps = 0 /\ batch = 0 /\ reset = FALSE
  /\ caller = "vsync"
  /\ pc = IF part = "pause" THEN "run" ELSE "monitor"
  /\ asked = 0 /\ called = <<>>
  /\ R!Init

ThreadsNext ==
  /\ UNCHANGED part
  /\ \/ /\ part \in LockParts
        /\ Next
        /\ part = "quiet" => ~ ViceSpurious /\ ~ UiSpurious
        /\ UNCHANGED <<pauseVars, renderVars>>
     \/ part = "pause" /\ P!Next /\ UNCHANGED <<vars, renderVars>>
     \/ part = "render" /\ R!Next /\ UNCHANGED <<vars, pauseVars>>

ThreadsSpec ==
  /\ ThreadsInit /\ [][ThreadsNext]_<<part, vars, pauseVars, renderVars>>
  /\ Fairness /\ P!Fairness

\* A UI that waits for the lock gets it, however unfair the mutex is: Mainlock.tla.
WaitingUiServed == part = "quiet" => UiServed

\* A VICE thread that yielded runs again: Mainlock.tla.
YieldingViceResumes == part = "quiet" => ViceResumes

\* Every variable of the lock, the pause and the render queue keeps its type.
ThreadsTypeOK == TypeOK /\ P!TypeOK /\ R!TypeOK

\* A pause stops the emulation at the end of the frame: Pause.tla.
PauseHolds == P!PauseHolds

\* The callbacks of a frame are called once each and in order: Pause.tla.
CallbacksInOrder == P!CallbacksInOrder

\* Callbacks are called also during a pause: Pause.tla.
CallbacksServed == P!CallbacksServed

\* The emulation runs again after a pause: Pause.tla.
Resumes == P!Resumes

\* No back buffer is lost or used twice: RenderQueue.tla.
OneOwner == R!OneOwner

\* Frames are shown in the order they were drawn: RenderQueue.tla.
FramesInOrder == R!FramesInOrder

\* Every queued frame has a job that shows it: RenderQueue.tla.
FramesHaveJobs == R!FramesHaveJobs
==============================================================================
