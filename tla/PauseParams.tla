----------------------------- MODULE PauseParams -----------------------------
(* The bounds of Pause.                                                      *)
EXTENDS Naturals

CONSTANTS
  MaxCalls,    \* bound: callbacks other than pause_loop(): a screenshot, a border
  MaxLoops,    \* bound: pause_loop() callbacks that are queued
  MaxTraps     \* bound: monitor traps that are pending

ASSUME PauseAssumption == {MaxCalls, MaxLoops, MaxTraps} \subseteq Nat
=============================================================================
