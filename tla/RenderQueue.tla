----------------------------- MODULE RenderQueue -----------------------------
(***************************************************************************)
(* The way of a frame to the screen in the GTK3 UI: the pool and queue of  *)
(* back buffers (src/vice/src/arch/gtk3/render_queue.c), the jobs of the   *)
(* render thread (render_thread.c) and the OpenGL renderer that uses both  *)
(* from the VICE, UI and render threads (opengl_renderer.c).               *)
(*                                                                         *)
(* What is done under the canvas lock is one step; the lock is free while  *)
(* the emulated picture is drawn into a back buffer and while the GPU      *)
(* draws.                                                                  *)
(***************************************************************************)
EXTENDS RenderQueueParams, Sequences

VARIABLES
  pool,        \* backbuffer_stack
  queue,       \* render_queue, from render_queue_next
  drawing,     \* the buffer of vice_opengl_refresh_rect()
  frame,       \* history: the number of the last frame that was begun
  content,     \* the frame each buffer holds
  texture,     \* the frame in the texture that is shown
  jobs,        \* what waits in the thread pool of the render thread
  render,      \* where the render thread is
  stopping     \* is_shutdown_initiated

queues == <<pool, queue>>
vars == <<queues, drawing, frame, content, texture, jobs, render, stopping>>

Realized == render # "none"

\* The elements of a sequence.
Elements(s) == {s[i] : i \in DOMAIN s}

\* render_thread_push_job()
PushJob == jobs' = IF stopping THEN jobs ELSE Append(jobs, "render")

-----------------------------------------------------------------------------
(* The VICE thread draws a frame: vice_opengl_refresh_rect().              *)

\* render_queue_get_from_pool(); without a free buffer the frame is skipped.
GetFromPool ==
  /\ drawing = NoBuffer /\ frame < MaxFrame
  /\ frame' = frame + 1
  /\ IF pool = <<>>
       THEN UNCHANGED <<pool, drawing, content>>
       ELSE LET top == pool[Len(pool)] IN
            /\ drawing' = top
            /\ content' = [content EXCEPT ![top] = frame + 1]
            /\ pool' = SubSeq(pool, 1, Len(pool) - 1)
  /\ UNCHANGED <<queue, texture, jobs, render, stopping>>

\* Mutants: the new frame is queued before the others; the job is forgotten when
\* another one waits.
DrawnFirst ==
  /\ drawing # NoBuffer
  /\ drawing' = NoBuffer
  /\ IF Realized
       THEN queue' = <<drawing>> \o queue /\ PushJob /\ UNCHANGED pool
       ELSE pool' = Append(pool, drawing) /\ UNCHANGED <<queue, jobs>>
  /\ UNCHANGED <<frame, content, texture, render, stopping>>

DrawnOneJob ==
  /\ drawing # NoBuffer
  /\ drawing' = NoBuffer
  /\ IF Realized
       THEN /\ queue' = Append(queue, drawing)
            /\ IF jobs # <<>> \/ stopping
                 THEN UNCHANGED jobs
                 ELSE PushJob
            /\ UNCHANGED pool
       ELSE pool' = Append(pool, drawing) /\ UNCHANGED <<queue, jobs>>
  /\ UNCHANGED <<frame, content, texture, render, stopping>>

\* video_canvas_render() has drawn: queue the buffer and push a job, or give it
\* back when there is no render thread.
Drawn ==
  /\ drawing # NoBuffer
  /\ drawing' = NoBuffer
  /\ IF Realized
       THEN queue' = Append(queue, drawing) /\ PushJob /\ UNCHANGED pool
       ELSE pool' = Append(pool, drawing) /\ UNCHANGED <<queue, jobs>>
  /\ UNCHANGED <<frame, content, texture, render, stopping>>

-----------------------------------------------------------------------------
(* The UI thread.                                                          *)

\* on_widget_realized(): render_thread_create() pushes the first job.
Realize ==
  /\ ~ Realized /\ ~ stopping
  /\ render' = "idle"
  /\ jobs' = <<"init">>
  /\ UNCHANGED <<queues, drawing, frame, content, texture, stopping>>

\* vice_opengl_on_ui_frame_clock() while paused, jammed or in the monitor.
FrameClock ==
  /\ Realized
  /\ Len(jobs) < MaxJobs
  /\ PushJob
  /\ UNCHANGED <<queues, drawing, frame, content, texture, render, stopping>>

\* render_thread_initiate_shutdown()
InitiateShutdown ==
  /\ Realized /\ ~ stopping
  /\ stopping' = TRUE
  /\ jobs' = Append(jobs, "shutdown")
  /\ UNCHANGED <<queues, drawing, frame, content, texture, render>>

\* render_thread_join(): the jobs that wait are dropped, the one that runs ends.
Join ==
  /\ stopping /\ render = "idle"
  /\ jobs' = <<>>
  /\ render' = "joined"
  /\ UNCHANGED <<queues, drawing, frame, content, texture, stopping>>

-----------------------------------------------------------------------------
(* The render thread: render().                                            *)

TakeJob ==
  /\ render = "idle" /\ jobs # <<>>
  /\ render' = IF Head(jobs) = "render" THEN "begin" ELSE "idle"
  /\ jobs' = Tail(jobs)
  /\ UNCHANGED <<queues, drawing, frame, content, texture, stopping>>

\* Mutant: the buffer is not returned while the thread is being shut down.
UploadKeeps ==
  /\ render = "begin"
  /\ IF queue = <<>>
       THEN UNCHANGED <<queues, texture>>
       ELSE /\ texture' = content[Head(queue)]
            /\ queue' = Tail(queue)
            /\ pool' = IF stopping THEN pool ELSE Append(pool, Head(queue))
  /\ render' = "present"
  /\ UNCHANGED <<drawing, frame, content, jobs, stopping>>

\* render_queue_dequeue_for_display(), update_frame_textures() and
\* render_queue_return_to_pool() under the canvas lock.
Upload ==
  /\ render = "begin"
  /\ IF queue = <<>>
       THEN UNCHANGED <<queues, texture>>
       ELSE /\ texture' = content[Head(queue)]
            /\ queue' = Tail(queue)
            /\ pool' = Append(pool, Head(queue))
  /\ render' = "present"
  /\ UNCHANGED <<drawing, frame, content, jobs, stopping>>

\* glFinish(): the texture is on the screen.
Present ==
  /\ render = "present"
  /\ render' = "idle"
  /\ UNCHANGED <<queues, drawing, frame, content, texture, jobs, stopping>>

-----------------------------------------------------------------------------

Init ==
  /\ pool = CHOOSE s \in [1 .. Cardinality(Buffers) -> Buffers] : Elements(s) = Buffers
  /\ queue = <<>> /\ drawing = NoBuffer
  /\ frame = 0 /\ content = [b \in Buffers |-> 0] /\ texture = 0
  /\ jobs = <<>> /\ render = "none" /\ stopping = FALSE

Next ==
  \/ GetFromPool \/ Drawn
  \/ Realize \/ FrameClock \/ InitiateShutdown \/ Join
  \/ TakeJob \/ Upload \/ Present

Spec == Init /\ [][Next]_vars

-----------------------------------------------------------------------------
(* What makes the queue correct.                                           *)

\* Every variable keeps its type.
TypeOK ==
  /\ {pool, queue} \subseteq Seq(Buffers)
  /\ drawing \in Buffers \cup {NoBuffer}
  /\ frame \in 0 .. MaxFrame /\ texture \in 0 .. MaxFrame
  /\ content \in [Buffers -> 0 .. MaxFrame]
  /\ jobs \in Seq({"init", "render", "shutdown"})
  /\ render \in {"none", "idle", "begin", "present", "joined"}
  /\ stopping \in BOOLEAN

\* Each back buffer is in one place: free, being drawn or queued, so none is lost
\* or drawn into while it is shown, and neither assertion of render_queue.c fails.
OneOwner ==
  LET places == pool \o queue
                  \o (IF drawing = NoBuffer THEN <<>> ELSE <<drawing>>) IN
  /\ Elements(places) = Buffers
  /\ Len(places) = Cardinality(Buffers)

\* The picture never goes back to an earlier frame.
FramesInOrder == [][texture' >= texture]_vars

\* Unless the render thread is being shut down each queued frame has a job to come
\* that shows it, whatever jobs the UI adds: none waits for the next frame.
FramesHaveJobs ==
  LET coming == Cardinality({i \in DOMAIN jobs : jobs[i] = "render"})
                  + (IF render = "begin" THEN 1 ELSE 0) IN
  ~ stopping => Len(queue) <= coming
=============================================================================
