----------------------------- MODULE AlarmSpec -----------------------------
(***************************************************************************)
(* What an alarm context promises to the CPU that owns it, without the     *)
(* pending array: a partial function from alarms to the clock tick each is *)
(* due at.  The CPU dispatches, between two instructions, the alarms that  *)
(* are due, always one of the earliest, and executes no instruction while  *)
(* one is due.  Module Alarm shows that src/vice/src/alarm.{c,h} does it.  *)
(***************************************************************************)
EXTENDS Integers, FiniteSets

CONSTANTS
  Alarm,        \* the alarms a machine may create
  NoAlarm,      \* "no alarm is being dispatched"
  MaxPending,   \* how many alarms can be pending at once
  ClockMax      \* CLOCK_MAX: a clock that is never reached

VARIABLES
  alarms,       \* the alarms that exist
  due,          \* [pending alarms -> clock tick]
  clk,          \* the CPU clock
  pc,           \* where the CPU is: "process", "callback" or "execute"
  running,      \* the alarm whose callback runs, or NoAlarm
  offset        \* how late that callback was called

vars == <<alarms, due, clk, pc, running, offset>>

Pending == DOMAIN due

Clock == 0 .. ClockMax

Earliest(a) == a \in Pending /\ \A b \in Pending : due[a] <= due[b]

Without(S) == [a \in Pending \ S |-> due[a]]

Active == pc \in {"callback", "execute"}

-----------------------------------------------------------------------------

Init ==
  /\ alarms = {}
  /\ due = [a \in {} |-> 0]
  /\ clk = 0
  /\ pc = "process"
  /\ running = NoAlarm
  /\ offset = 0

New(a) ==
  /\ Active
  /\ alarms' = alarms \cup {a}
  /\ UNCHANGED <<due, clk, pc, running, offset>>

Destroy(a) ==
  /\ Active
  /\ alarms' = alarms \ {a}
  /\ due' = Without({a})
  /\ UNCHANGED <<clk, pc, running, offset>>

\* An alarm that is not pending is refused when the context is full.
Set(a, c) ==
  /\ Active
  /\ a \in alarms
  /\ a \in Pending \/ Cardinality(Pending) < MaxPending
  /\ due' = [b \in Pending \cup {a} |-> IF b = a THEN c ELSE due[b]]
  /\ UNCHANGED <<alarms, clk, pc, running, offset>>

Unset(a) ==
  /\ Active
  /\ due' = Without({a})
  /\ UNCHANGED <<alarms, clk, pc, running, offset>>

Advance(c) ==
  /\ Active
  /\ c < ClockMax
  /\ clk' = c
  /\ pc' \in {pc, "process"}
  /\ UNCHANGED <<alarms, due, running, offset>>

Return ==
  /\ pc = "callback"
  /\ pc' = "process"
  /\ running' = NoAlarm
  /\ offset' = 0
  /\ UNCHANGED <<alarms, due, clk>>

Dispatch(a) ==
  /\ pc = "process"
  /\ Earliest(a)
  /\ due[a] <= clk
  /\ pc' = "callback"
  /\ running' = a
  /\ offset' = clk - due[a]
  /\ UNCHANGED <<alarms, due, clk>>

Execute ==
  /\ pc = "process"
  /\ \A a \in Pending : due[a] > clk
  /\ pc' = "execute"
  /\ UNCHANGED <<alarms, due, clk, running, offset>>

Next ==
  \/ \E a \in Alarm : New(a) \/ Destroy(a) \/ Unset(a) \/ Dispatch(a)
  \/ \E a \in Alarm, c \in Clock : Set(a, c)
  \/ \E c \in Clock : Advance(c)
  \/ Return
  \/ Execute

Spec == Init /\ [][Next]_vars

=============================================================================
