---------------------------- MODULE MCInterrupt ----------------------------
(* A small instance of Interrupt in two parts, to be checked in one run: in *)
(* one devices pull and release the lines, in the other traps are           *)
(* triggered and the monitor is called.  Each is whole but for what the     *)
(* other is about, and the CPU, resets and snapshots are in both.           *)
EXTENDS Interrupt

VARIABLE part

PartOK ==
  /\ part = "lines" => triggered' = 0 /\ "MONITOR" \notin global'
  /\ part = "traps" => pendingIrq' = {} /\ pendingNmi' = {}

MCInit == Init /\ part \in {"lines", "traps"}

MCNext == Next /\ PartOK /\ UNCHANGED part

MCSpec == MCInit /\ [][MCNext]_<<vars, part>> /\ WF_vars(Cpu)
=============================================================================
