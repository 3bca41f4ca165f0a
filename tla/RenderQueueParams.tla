-------------------------- MODULE RenderQueueParams --------------------------
(* The parameters of RenderQueue and what is assumed of them.                *)
EXTENDS Naturals, FiniteSets

CONSTANTS
  Buffers,     \* the back buffers, RENDER_QUEUE_MAX_BACKBUFFERS of them
  NoBuffer,    \* a null pointer
  MaxFrame,    \* bound: frames that are drawn
  MaxJobs      \* bound: jobs the UI pushes are at most this many in the pool

ASSUME RenderQueueAssumption ==
  /\ IsFiniteSet(Buffers)
  /\ NoBuffer \notin Buffers
  /\ MaxFrame \in Nat /\ MaxJobs \in Nat
=============================================================================
