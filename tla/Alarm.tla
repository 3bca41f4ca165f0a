------------------------------- MODULE Alarm -------------------------------
(***************************************************************************)
(* The alarm context of one emulated CPU (src/vice/src/alarm.c, alarm.h)   *)
(* and the PROCESS_ALARMS loop of the CPU core (6510core.c) that drives    *)
(* it.  An alarm is a callback that a chip model wants called at a clock   *)
(* tick.  Pending alarms sit in an array with no order; removing one moves *)
(* the last entry into the hole; each alarm keeps the index of its entry,  *)
(* and the context caches the index and the clock of the earliest one, so  *)
(* that the CPU compares one number per instruction.                       *)
(***************************************************************************)
EXTENDS Integers

CONSTANTS
  Alarm,        \* the alarms a machine may create
  NoAlarm,      \* a NULL alarm pointer
  MaxPending,   \* ALARM_CONTEXT_MAX_PENDING_ALARMS
  ClockMax,     \* CLOCK_MAX
  MaxCycles,    \* bound: cycles an instruction or a DMA steal takes
  ResetClk      \* what cpu_reset() sets the clock to

ASSUME AlarmAssumption ==
  /\ NoAlarm \notin Alarm
  /\ MaxPending \in Nat \ {0}
  /\ ClockMax \in Nat \ {0}
  /\ MaxCycles \in Nat \ {0}
  /\ ResetClk \in Nat /\ ResetClk < ClockMax

VARIABLES
  alarms,         \* context->alarms, as a set
  pendingIdx,     \* alarm->pending_idx, -1 when not pending
  pendingAlarm,   \* context->pending_alarms[].alarm
  pendingClk,     \* context->pending_alarms[].clk
  numPending,     \* context->num_pending_alarms
  nextClk,        \* context->next_pending_alarm_clk
  nextIdx,        \* context->next_pending_alarm_idx
  clk,            \* the clock of the CPU
  pc,             \* "process": in PROCESS_ALARMS; "callback"; "execute"
  running,        \* the alarm whose callback runs, or NoAlarm
  offset          \* the offset argument of that callback

ctx == <<pendingIdx, pendingAlarm, pendingClk, numPending, nextClk, nextIdx>>
cpu == <<clk, pc, running, offset>>
vars == <<alarms, pendingIdx, pendingAlarm, pendingClk, numPending, nextClk,
          nextIdx, clk, pc, running, offset>>

Slot == 0 .. MaxPending - 1
Clock == 0 .. ClockMax

\* The entries in use: slots at or above numPending hold leftovers.
Used(n) == 0 .. n - 1

\* The entry alarm_context_update_next_pending() ends with: the last of the
\* earliest ones, because it compares with <=.
LastEarliest(clks, n, i) ==
  /\ i \in Used(n)
  /\ \A j \in Used(n) : clks[i] < clks[j] \/ (clks[i] = clks[j] /\ j <= i)

\* alarm_context_update_next_pending() on the array clks with n entries.
UpdateNextPending(clks, n) ==
  IF n > 0
    THEN LET i == CHOOSE i \in Used(n) : LastEarliest(clks, n, i)
         IN  nextIdx' = i /\ nextClk' = clks[i]
    ELSE nextIdx' = nextIdx /\ nextClk' = ClockMax

-----------------------------------------------------------------------------
(* The array: alarm_set() and alarm_unset().                               *)

Init ==
  /\ alarms = {}
  /\ pendingIdx = [a \in Alarm |-> -1]
  /\ pendingAlarm = [i \in Slot |-> NoAlarm]
  /\ pendingClk = [i \in Slot |-> 0]
  /\ numPending = 0
  /\ nextClk = ClockMax
  /\ nextIdx \in Slot \cup {-1}   \* alarm_context_init() leaves it unset
  /\ clk = 0
  /\ pc = "process"
  /\ running = NoAlarm
  /\ offset = 0

\* Mutant: without the check for room.
AddPendingUnchecked(a, c) ==
  /\ pendingIdx[a] < 0
  /\ pendingAlarm' = [pendingAlarm EXCEPT ![numPending] = a]
  /\ pendingClk' = [pendingClk EXCEPT ![numPending] = c]
  /\ numPending' = numPending + 1
  /\ IF c < nextClk
       THEN nextClk' = c /\ nextIdx' = numPending
       ELSE UNCHANGED <<nextClk, nextIdx>>
  /\ pendingIdx' = [pendingIdx EXCEPT ![a] = numPending]

\* alarm_set() of an alarm that is not pending, when the array has room.
AddPending(a, c) ==
  /\ pendingIdx[a] < 0
  /\ numPending < MaxPending
  /\ pendingAlarm' = [pendingAlarm EXCEPT ![numPending] = a]
  /\ pendingClk' = [pendingClk EXCEPT ![numPending] = c]
  /\ numPending' = numPending + 1
  /\ IF c < nextClk
       THEN nextClk' = c /\ nextIdx' = numPending
       ELSE UNCHANGED <<nextClk, nextIdx>>
  /\ pendingIdx' = [pendingIdx EXCEPT ![a] = numPending]

\* Mutant: the next alarm is not looked up again when it is itself postponed.
ModifyPendingKeepsNext(a, c) ==
  /\ pendingIdx[a] >= 0
  /\ pendingClk' = [pendingClk EXCEPT ![pendingIdx[a]] = c]
  /\ IF nextClk > c
       THEN UpdateNextPending(pendingClk', numPending)
       ELSE UNCHANGED <<nextClk, nextIdx>>
  /\ UNCHANGED <<pendingIdx, pendingAlarm, numPending>>

\* alarm_set() of a pending alarm: only its clock changes.
ModifyPending(a, c) ==
  /\ pendingIdx[a] >= 0
  /\ pendingClk' = [pendingClk EXCEPT ![pendingIdx[a]] = c]
  /\ IF nextClk > c \/ pendingIdx[a] = nextIdx
       THEN UpdateNextPending(pendingClk', numPending)
       ELSE UNCHANGED <<nextClk, nextIdx>>
  /\ UNCHANGED <<pendingIdx, pendingAlarm, numPending>>

\* Mutants: the index of the moved entry, or the next alarm, is not updated.
RemovePendingStaleIdx(a) ==
  LET idx == pendingIdx[a]
      last == numPending - 1
  IN  /\ idx >= 0
      /\ numPending > 1
      /\ numPending' = last
      /\ pendingAlarm' = [pendingAlarm EXCEPT ![idx] = pendingAlarm[last]]
      /\ pendingClk' = [pendingClk EXCEPT ![idx] = pendingClk[last]]
      /\ pendingIdx' = [pendingIdx EXCEPT ![a] = -1]
      /\ UpdateNextPending(pendingClk', last)

RemovePendingStaleNext(a) ==
  LET idx == pendingIdx[a]
      last == numPending - 1
      moved == pendingAlarm[last]
  IN  /\ idx >= 0
      /\ numPending > 1
      /\ numPending' = last
      /\ pendingAlarm' = [pendingAlarm EXCEPT ![idx] = moved]
      /\ pendingClk' = [pendingClk EXCEPT ![idx] = pendingClk[last]]
      /\ pendingIdx' = [pendingIdx EXCEPT ![moved] = idx, ![a] = -1]
      /\ nextIdx' = IF nextIdx = last THEN idx ELSE nextIdx
      /\ UNCHANGED nextClk

\* alarm_unset() with other alarms pending: the last entry moves into the hole.
RemovePending(a) ==
  LET idx == pendingIdx[a]
      last == numPending - 1
      moved == pendingAlarm[last]
  IN  /\ idx >= 0
      /\ numPending > 1
      /\ numPending' = last
      /\ pendingAlarm' = [pendingAlarm EXCEPT ![idx] = moved]
      /\ pendingClk' = [pendingClk EXCEPT ![idx] = pendingClk[last]]
      /\ pendingIdx' = [pendingIdx EXCEPT ![moved] = idx, ![a] = -1]
      /\ IF nextIdx = idx
           THEN UpdateNextPending(pendingClk', last)
           ELSE /\ nextIdx' = IF nextIdx = last THEN idx ELSE nextIdx
                /\ UNCHANGED nextClk

\* alarm_unset() of the only pending alarm.
RemoveOnly(a) ==
  /\ pendingIdx[a] >= 0
  /\ numPending <= 1
  /\ numPending' = 0
  /\ nextClk' = ClockMax
  /\ nextIdx' = -1
  /\ pendingIdx' = [pendingIdx EXCEPT ![a] = -1]
  /\ UNCHANGED <<pendingAlarm, pendingClk>>

AlarmSet(a, c) ==
  /\ a \in alarms
  /\ AddPending(a, c) \/ ModifyPending(a, c)
  /\ UNCHANGED alarms

\* "Too many alarms set!": the alarm is dropped.
AlarmSetFull(a) ==
  /\ a \in alarms
  /\ pendingIdx[a] < 0
  /\ numPending >= MaxPending
  /\ UNCHANGED <<alarms, ctx>>

AlarmUnset(a) ==
  /\ a \in alarms
  /\ \/ RemovePending(a)
     \/ RemoveOnly(a)
     \/ pendingIdx[a] < 0 /\ UNCHANGED ctx
  /\ UNCHANGED alarms

AlarmNew(a) ==
  /\ a \notin alarms
  /\ alarms' = alarms \cup {a}
  /\ pendingIdx' = [pendingIdx EXCEPT ![a] = -1]
  /\ UNCHANGED <<pendingAlarm, pendingClk, numPending, nextClk, nextIdx>>

AlarmDestroy(a) ==
  /\ a \in alarms
  /\ \/ RemovePending(a)
     \/ RemoveOnly(a)
     \/ pendingIdx[a] < 0 /\ UNCHANGED ctx
  /\ alarms' = alarms \ {a}

-----------------------------------------------------------------------------
(* The CPU.  Chip models create, set, unset and destroy alarms from the    *)
(* code an instruction runs ("execute") and from callbacks ("callback").   *)

Use ==
  /\ pc \in {"callback", "execute"}
  /\ \E a \in Alarm :
       \/ AlarmNew(a)
       \/ AlarmDestroy(a)
       \/ AlarmUnset(a)
       \/ AlarmSetFull(a)
       \/ \E c \in Clock : AlarmSet(a, c)
  /\ UNCHANGED cpu

\* The end of an instruction, or cycles that a callback steals from the CPU.
Cycles ==
  /\ pc \in {"callback", "execute"}
  /\ \E n \in 1 .. MaxCycles : clk + n < ClockMax /\ clk' = clk + n
  /\ pc' = IF pc = "execute" THEN "process" ELSE pc
  /\ UNCHANGED <<alarms, ctx, running, offset>>

\* cpu_reset() restarts the clock; the alarms keep their absolute ticks.
CpuReset ==
  /\ pc = "execute"
  /\ clk' = ResetClk
  /\ UNCHANGED <<alarms, ctx, pc, running, offset>>

\* alarm_context_dispatch(): the entry stays; the callback must move it.
Dispatch ==
  /\ pc = "process"
  /\ clk >= nextClk
  /\ pc' = "callback"
  /\ running' = pendingAlarm[nextIdx]
  /\ offset' = clk - nextClk
  /\ UNCHANGED <<alarms, ctx, clk>>

Return ==
  /\ pc = "callback"
  /\ pc' = "process"
  /\ running' = NoAlarm
  /\ offset' = 0
  /\ UNCHANGED <<alarms, ctx, clk>>

\* PROCESS_ALARMS ends and the next instruction begins.
Execute ==
  /\ pc = "process"
  /\ clk < nextClk
  /\ pc' = "execute"
  /\ UNCHANGED <<alarms, ctx, clk, running, offset>>

Next == Use \/ Cycles \/ CpuReset \/ Dispatch \/ Return \/ Execute

Spec == Init /\ [][Next]_vars

-----------------------------------------------------------------------------
(* What makes the context correct.                                         *)

\* Every variable keeps its type.
TypeOK ==
  /\ alarms \subseteq Alarm
  /\ pendingIdx \in [Alarm -> Slot \cup {-1}]
  /\ pendingAlarm \in [Slot -> Alarm \cup {NoAlarm}]
  /\ pendingClk \in [Slot -> Clock]
  /\ numPending \in 0 .. MaxPending
  /\ nextClk \in Clock
  /\ nextIdx \in Slot \cup {-1}
  /\ clk \in Nat /\ clk < ClockMax
  /\ pc \in {"process", "callback", "execute"}
  /\ running \in Alarm \cup {NoAlarm}
  /\ offset \in Nat

\* The index an alarm keeps and the entry of the array point at each other,
\* whatever was moved into a hole: else a callback fires for another device.
IndexesAgree ==
  /\ \A a \in Alarm : pendingIdx[a] >= 0 =>
       /\ a \in alarms
       /\ pendingIdx[a] < numPending
       /\ pendingAlarm[pendingIdx[a]] = a
  /\ \A i \in Used(numPending) :
       /\ pendingAlarm[i] \in Alarm
       /\ pendingIdx[pendingAlarm[i]] = i

\* The cached clock is the earliest of the array, and the cached index leads
\* to an entry with that clock: else an alarm comes late or never.
NextIsEarliest ==
  /\ \A i \in Used(numPending) : nextClk <= pendingClk[i]
  /\ nextClk < ClockMax =>
       /\ nextIdx \in Used(numPending)
       /\ pendingClk[nextIdx] = nextClk

\* The pending array read as the agenda of AlarmSpec.
Due == [a \in {b \in Alarm : pendingIdx[b] >= 0} |-> pendingClk[pendingIdx[a]]]

Agenda == INSTANCE AlarmSpec WITH due <- Due

\* The array with its cache behaves like the agenda: an alarm that is due is
\* dispatched before the next instruction, the earliest first, with the true
\* lateness, and only a full context refuses one.
ImplementsAgenda == Agenda!Spec
=============================================================================
