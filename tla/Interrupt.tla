----------------------------- MODULE Interrupt -----------------------------
(***************************************************************************)
(* Interrupt lines and traps of the main CPU (src/vice/src/interrupt.c,    *)
(* interrupt.h) with the part of the 6510 core that serves them            *)
(* (DO_INTERRUPT and the tail of the main loop, 6510core.c) and the        *)
(* snapshot functions of maincpu.c.  Several chips share one IRQ and one   *)
(* NMI line; traps are functions that other parts want called between two  *)
(* instructions.                                                           *)
(*                                                                         *)
(* Clocks are abstracted to the comparisons the code makes with them:      *)
(* nmiDue says that an NMI has been pending for INTERRUPT_DELAY cycles,    *)
(* irqPend where irq_pending_clk lies; the delay of an IRQ is a choice.    *)
(***************************************************************************)
EXTENDS Integers, Sequences, FiniteSets

CONSTANTS
  Source,           \* interrupt sources (int_num)
  NoSnapshot,
  MaxTraps,         \* bound: traps triggered in a behaviour
  NestingTraps,     \* positions in a batch from which a trap triggers traps
  Raised,           \* bound: the flags that other code raises
  SnapshotPoints,   \* where snapshots are saved and loaded (values of pc)
  MaxSavedLines,    \* bound: the lines counted in a snapshot
  Restores,         \* sources whose module restores the line with the machine
  Pullers           \* sources whose module pulls the line anew (aciacore.c)

VARIABLES
  pendingIrq,   \* {s : pending_int[s] & IK_IRQ}
  pendingNmi,   \* {s : pending_int[s] & IK_NMI}
  nirq,         \* cs->nirq
  nnmi,         \* cs->nnmi
  global,       \* cs->global_pending_int, as the set of its flags
  nmiDue,       \* the NMI flag is set and CLK >= nmi_clk + INTERRUPT_DELAY
  irqPend,      \* irq_pending_clk: "max", "ahead" of CLK or "passed"
  trapFunc,     \* cs->trap_func: the ids of the traps, 0 when never written
  trapsNext,    \* cs->traps_next
  trapsCount,   \* cs->traps_count
  jammed,       \* maincpu_jammed
  pc,           \* where the CPU is
  ik,           \* the flags this DO_INTERRUPT serves
  forNmi,       \* the interrupt sequence was entered because of an NMI of this
                \* machine
  batch,        \* interrupt_do_trap(): traps_this_cycle
  done,         \* interrupt_do_trap(): i, the traps that have returned
  triggered,    \* history: number of traps triggered, their last id
  lastRun,      \* history: the last trap called, or dropped by a reset
  saved,        \* the snapshot on disk
  origin,       \* history: the lines are of one machine ("whole"), of a load
                \* that failed ("half"), or lack what no module restores ("parts")
  deaf,         \* history: they come from a CPU that a JAM had made ignore them
  loadedAt      \* history: triggered when a load last overwrote global

lines == <<pendingIrq, pendingNmi, nirq, nnmi, nmiDue, irqPend>>
traps == <<trapFunc, trapsNext, trapsCount, triggered, lastRun>>
flow == <<pc, ik, forNmi, batch, done, jammed>>
disk == <<saved, origin, deaf, loadedAt>>
vars == <<lines, global, traps, flow, disk>>

Flag == {"NMI", "IRQ", "RESET", "TRAP", "MONITOR", "DMA", "IRQPEND"}

Origin == {"whole", "half", "parts"}

Snapshot == [irq : SUBSET Source, nmi : SUBSET Source, nirq : Nat, nnmi : Nat,
             global : SUBSET Flag, origin : Origin, deaf : BOOLEAN]

ASSUME InterruptAssumption ==
  /\ MaxTraps \in Nat
  /\ NestingTraps \subseteq Nat
  /\ Raised \subseteq {"RESET", "DMA", "MONITOR"}
  /\ SnapshotPoints \subseteq {"trapfn", "monitor", "run", "vector", "jam"}
  /\ MaxSavedLines \in Nat
  /\ IsFiniteSet(Source)
  /\ Restores \subseteq Source /\ Pullers \subseteq Source \ Restores
  /\ NoSnapshot \notin Snapshot

\* Where code of chips, alarms, traps, the monitor or (between two frames)
\* the UI thread runs.
Outside == pc \in {"run", "jam", "vector", "trapfn", "monitor"}

-----------------------------------------------------------------------------
(* The lines: interrupt_set_irq() and interrupt_set_nmi().                 *)

AssertIrq(s) ==
  /\ s \notin pendingIrq
  /\ pendingIrq' = pendingIrq \cup {s}
  /\ nirq' = nirq + 1
  /\ IF nirq = 0
       THEN /\ global' = global \cup {"IRQ", "IRQPEND"}
            /\ irqPend' = "max"
       ELSE UNCHANGED <<global, irqPend>>
  /\ UNCHANGED <<pendingNmi, nnmi, nmiDue>>

\* Mutants: a source that does not pull the line releases it; a release clears
\* the flag while another source still pulls the line.
ReleaseIrqUnpaired(s) ==
  /\ pendingIrq' = pendingIrq \ {s}
  /\ nirq' = nirq - 1
  /\ IF nirq = 1
       THEN global' = global \ {"IRQ"} /\ irqPend' = "ahead"
       ELSE UNCHANGED <<global, irqPend>>
  /\ UNCHANGED <<pendingNmi, nnmi, nmiDue>>

ReleaseIrqForAll(s) ==
  /\ s \in pendingIrq
  /\ nirq > 0
  /\ pendingIrq' = pendingIrq \ {s}
  /\ nirq' = nirq - 1
  /\ global' = global \ {"IRQ"}
  /\ irqPend' = "ahead"
  /\ UNCHANGED <<pendingNmi, nnmi, nmiDue>>

ReleaseIrq(s) ==
  /\ s \in pendingIrq
  /\ nirq > 0
  /\ pendingIrq' = pendingIrq \ {s}
  /\ nirq' = nirq - 1
  /\ IF nirq = 1
       THEN global' = global \ {"IRQ"} /\ irqPend' = "ahead"
       ELSE UNCHANGED <<global, irqPend>>
  /\ UNCHANGED <<pendingNmi, nnmi, nmiDue>>

\* nmi_clk is the time of the call, or corrected for stolen cycles by
\* interrupt_fixup_int_clk(), which may put it in the past.
AssertNmi(s) ==
  /\ s \notin pendingNmi
  /\ pendingNmi' = pendingNmi \cup {s}
  /\ nnmi' = nnmi + 1
  /\ IF nnmi = 0 /\ "NMI" \notin global
       THEN global' = global \cup {"NMI"} /\ nmiDue' \in BOOLEAN
       ELSE UNCHANGED <<global, nmiDue>>
  /\ UNCHANGED <<pendingIrq, nirq, irqPend>>

\* Mutant: the release of the line removes the latched edge.
ReleaseNmiEdge(s) ==
  /\ s \in pendingNmi
  /\ nnmi > 0
  /\ pendingNmi' = pendingNmi \ {s}
  /\ nnmi' = nnmi - 1
  /\ global' = IF nnmi = 1 THEN global \ {"NMI"} ELSE global
  /\ UNCHANGED <<pendingIrq, nirq, nmiDue, irqPend>>

\* The edge stays latched: only interrupt_ack_nmi() removes it.
ReleaseNmi(s) ==
  /\ s \in pendingNmi
  /\ nnmi > 0
  /\ pendingNmi' = pendingNmi \ {s}
  /\ nnmi' = nnmi - 1
  /\ UNCHANGED <<pendingIrq, nirq, global, nmiDue, irqPend>>

SetLine ==
  /\ Outside
  /\ \E s \in Source :
       AssertIrq(s) \/ ReleaseIrq(s) \/ AssertNmi(s) \/ ReleaseNmi(s)
  /\ UNCHANGED <<traps, flow, disk>>

\* interrupt_trigger_reset(), interrupt_trigger_dma() and the monitor's flag.
SetFlag ==
  /\ Outside
  /\ \/ \E f \in Raised : global' = global \cup {f}
     \/ global' = global \ {"MONITOR"}
  /\ UNCHANGED <<lines, traps, flow, disk>>

\* Mutants: the slot does not take traps_next into account; the flag is not set.
TriggerTrapAtCount ==
  LET index == trapsCount + 1
  IN  /\ Outside
      /\ pc = "trapfn" => done \in NestingTraps
      /\ triggered < MaxTraps
      /\ triggered' = triggered + 1
      /\ trapsCount' = trapsCount + 1
      /\ trapFunc' = [i \in 1 .. (IF index > Len(trapFunc)
                                    THEN index ELSE Len(trapFunc)) |->
                        IF i = index THEN triggered + 1 ELSE trapFunc[i]]
      /\ global' = global \cup {"TRAP"}
      /\ UNCHANGED <<lines, trapsNext, lastRun, flow, disk>>

TriggerTrapUnflagged ==
  /\ Outside
  /\ pc = "trapfn" => done \in NestingTraps
  /\ triggered < MaxTraps
  /\ triggered' = triggered + 1
  /\ trapsCount' = trapsCount + 1
  /\ trapFunc' = SubSeq(trapFunc, 1, trapsNext + trapsCount)
                   \o <<triggered + 1>>
  /\ UNCHANGED <<lines, global, trapsNext, lastRun, flow, disk>>

\* interrupt_maincpu_trigger_trap(): the array grows to the index it writes.
TriggerTrap ==
  LET index == trapsNext + trapsCount + 1
  IN  /\ Outside
      /\ pc = "trapfn" => done \in NestingTraps
      /\ triggered < MaxTraps
      /\ triggered' = triggered + 1
      /\ trapsCount' = trapsCount + 1
      /\ trapFunc' = [i \in 1 .. (IF index > Len(trapFunc)
                                    THEN index ELSE Len(trapFunc)) |->
                        IF i = index THEN triggered + 1
                        ELSE IF i <= Len(trapFunc) THEN trapFunc[i] ELSE 0]
      /\ global' = global \cup {"TRAP"}
      /\ UNCHANGED <<lines, trapsNext, lastRun, flow, disk>>

-----------------------------------------------------------------------------
(* Snapshots.  interrupt_write_new_snapshot() saves the counters and the   *)
(* flags, not the sources and not the trap queue.  When a snapshot is      *)
(* loaded, the CPU's module sets all sources to none and reads the         *)
(* counters and flags (interrupt_read_snapshot(),                          *)
(* interrupt_read_new_snapshot()); then come the modules of the chips.     *)

SaveSnapshot ==
  /\ pc \in SnapshotPoints
  /\ nirq + nnmi <= MaxSavedLines
  /\ saved' = [irq |-> pendingIrq, nmi |-> pendingNmi, nirq |-> nirq,
               nnmi |-> nnmi, global |-> global, origin |-> origin,
               deaf |-> jammed \/ deaf \/ "RESET" \in ik]
  /\ UNCHANGED <<lines, global, traps, flow, origin, deaf, loadedAt>>

\* The modules of chips have been read: those in Restores have set their
\* source, interrupt_restore_irq() and interrupt_restore_nmi(), and no more;
\* those in Pullers have called interrupt_set_int(), which counts again what
\* the counter from the snapshot counts already.
ChipsRead(chips) ==
  LET pulled == saved.irq \cap chips \cap Pullers
  IN  /\ pendingIrq' = (saved.irq \cap chips \cap Restores) \cup pulled
      /\ pendingNmi' = saved.nmi \cap chips \cap Restores
      /\ nirq' = saved.nirq + Cardinality(pulled)
      /\ nnmi' = saved.nnmi

FlagsRead(chips) ==
  IF saved.nirq = 0 /\ saved.irq \cap chips \cap Pullers # {}
    THEN saved.global \cup {"IRQ", "IRQPEND"} ELSE saved.global

\* The machine is another one now: the clocks are any (they matter while a flag is
\* set), and an interrupt sequence that was begun is none of its own.
Overwritten ==
  /\ irqPend' \in IF global' \cap {"IRQ", "IRQPEND"} = {}
                    THEN {irqPend} ELSE {"max", "ahead", "passed"}
  /\ nmiDue' \in IF "NMI" \in global' THEN BOOLEAN ELSE {FALSE}
  /\ forNmi' = FALSE
  /\ loadedAt' = triggered
  /\ UNCHANGED <<traps, pc, ik, batch, done, jammed, saved>>

\* Mutant: the sources are not cleared first.
LoadSnapshotOverOld ==
  /\ pc \in SnapshotPoints
  /\ saved # NoSnapshot
  /\ pendingIrq' = pendingIrq \cup (saved.irq \cap Restores)
  /\ pendingNmi' = pendingNmi \cup (saved.nmi \cap Restores)
  /\ nirq' = saved.nirq
  /\ nnmi' = saved.nnmi
  /\ global' = saved.global
  /\ origin' = saved.origin
  /\ deaf' = saved.deaf
  /\ Overwritten

\* Every module is read.
LoadSnapshot ==
  /\ pc \in SnapshotPoints
  /\ saved # NoSnapshot
  /\ ChipsRead(Source)
  /\ global' = FlagsRead(Source)
  /\ origin' = IF saved.origin = "whole"
                  /\ ~ saved.irq \cup saved.nmi \subseteq Restores
                 THEN "parts" ELSE saved.origin
  /\ deaf' = saved.deaf
  /\ Overwritten

\* Mutant: the machine goes on with what has been read.
LoadFailsQuietly ==
  /\ pc \in SnapshotPoints
  /\ saved # NoSnapshot
  /\ \E chips \in SUBSET Source :
       ChipsRead(chips) /\ global' = FlagsRead(chips)
  /\ origin' = "half"
  /\ UNCHANGED deaf
  /\ Overwritten

\* A wrong version, a module that is missing or too short: what has been read so
\* far stays, and machine_trigger_reset() is called (nobody plays back events or
\* netplay).  The CPU's module may end before any of its fields: read counts those
\* of nirq, nnmi and global_pending_int that were there.
LoadFails ==
  /\ pc \in SnapshotPoints
  /\ \/ /\ global' = global \cup {"RESET"}
        /\ UNCHANGED <<lines, traps, flow, disk>>
     \/ /\ saved # NoSnapshot
        /\ \/ \E chips \in SUBSET Source :
                ChipsRead(chips) /\ global' = FlagsRead(chips) \cup {"RESET"}
           \/ \E read \in 0 .. 2 :
                /\ pendingIrq' = {} /\ pendingNmi' = {}
                /\ nirq' = IF read >= 1 THEN saved.nirq ELSE 0
                /\ nnmi' = IF read = 2 THEN saved.nnmi ELSE 0
                /\ global' = {"RESET"}
        /\ origin' = "half"
        /\ UNCHANGED deaf
        /\ Overwritten

-----------------------------------------------------------------------------
(* The CPU.                                                                *)

\* Time passes: an NMI that was due stays due.
Elapse ==
  /\ nmiDue' \in {nmiDue, "NMI" \in global}
  /\ irqPend' \in IF irqPend = "ahead" THEN {"ahead", "passed"} ELSE {irqPend}
  /\ UNCHANGED <<pendingIrq, pendingNmi, nirq, nnmi>>

\* The instruction ends.
EndInstruction ==
  /\ pc = "run"
  /\ pc' = "tail"
  /\ Elapse
  /\ UNCHANGED <<global, traps, ik, forNmi, batch, done, jammed, disk>>

\* A JAM opcode: machine_jam() asks the user once.
Jam ==
  /\ pc = "run"
  /\ ~ jammed
  /\ jammed' = TRUE
  /\ pc' = "jam"
  /\ UNCHANGED <<lines, global, traps, ik, forNmi, batch, done, disk>>

JamContinue ==
  /\ pc = "jam"
  /\ pc' = "run"
  /\ UNCHANGED <<lines, global, traps, ik, forNmi, batch, done, jammed, disk>>

\* cpu_reset() and interrupt_ack_reset(): everything pending is dropped, the
\* trap queue included; only the monitor's flag is kept.
Reset ==
  /\ pendingIrq' = {}
  /\ pendingNmi' = {}
  /\ nirq' = 0
  /\ nnmi' = 0
  /\ global' = global \cap {"MONITOR"}
  /\ nmiDue' = FALSE
  /\ irqPend' = "max"
  /\ trapFunc' = <<>>
  /\ trapsNext' = 0
  /\ trapsCount' = 0
  /\ lastRun' = triggered
  /\ jammed' = FALSE
  /\ origin' = "whole"
  /\ deaf' = FALSE
  /\ UNCHANGED <<triggered, forNmi, batch, done, saved, loadedAt>>

\* The user chose a reset: DO_INTERRUPT(IK_RESET) from the middle of the opcode.
JamReset ==
  /\ pc = "jam"
  /\ Reset
  /\ pc' = "run"
  /\ ik' = {}

\* The tail of the main loop, after its PROCESS_ALARMS: a jammed CPU loses its
\* interrupts, an expired IRQ is acknowledged, the flags to serve are taken.
LoopTail ==
  LET kept == IF jammed THEN global \ {"IRQPEND", "IRQ", "NMI"} ELSE global
      expired == "IRQ" \notin kept /\ "IRQPEND" \in kept /\ irqPend = "passed"
  IN  /\ pc = "tail"
      /\ global' = IF expired THEN kept \ {"IRQPEND"} ELSE kept
      /\ irqPend' = IF jammed \/ expired THEN "max" ELSE irqPend
      /\ jammed' = (jammed /\ "RESET" \notin kept)
      /\ ik' = global'
      /\ pc' = IF global' = {} THEN "run" ELSE "serve"
      /\ nmiDue' = (nmiDue /\ ~ jammed)
      /\ UNCHANGED <<pendingIrq, pendingNmi, nirq, nnmi, traps, forNmi, batch,
                     done, disk>>

\* DO_INTERRUPT: is an interrupt sequence begun?  brk: the last opcode was a
\* BRK; open: the IRQ is not masked and past its delay; enables: the last opcode
\* cleared the I flag.  From here ik holds what is still to serve.
Serve ==
  /\ pc = "serve"
  /\ \E brk, open, enables \in BOOLEAN :
       LET nmi == "NMI" \in ik /\ nmiDue /\ ~ brk
           irqOpen == ik \cap {"IRQ", "IRQPEND"} # {} /\ open
           irq == ~ nmi /\ irqOpen /\ ~ enables
       IN  /\ forNmi' = nmi
           /\ pc' = IF nmi \/ irq THEN "vector" ELSE "traps"
           /\ global' = IF ~ nmi /\ irqOpen /\ enables
                          THEN global \cup {"IRQPEND"} ELSE global
  /\ ik' = ik \ {"IRQ", "IRQPEND", "NMI"}
  /\ batch' = trapsCount
  /\ UNCHANGED <<lines, traps, done, jammed, disk>>

\* After the pushes and another PROCESS_ALARMS the vector is chosen.
TakeVector ==
  /\ pc = "vector"
  /\ IF "NMI" \in global /\ nmiDue
       THEN /\ global' = global \ {"NMI"}
            /\ nmiDue' = FALSE
            /\ UNCHANGED irqPend
       ELSE /\ global' = global \ {"IRQPEND"}
            /\ irqPend' = "max"
            /\ UNCHANGED nmiDue
  /\ forNmi' = FALSE
  /\ batch' = trapsCount
  /\ pc' = "traps"
  /\ UNCHANGED <<pendingIrq, pendingNmi, nirq, nnmi, traps, ik, done, jammed, disk>>

\* interrupt_do_trap() calls the trap at traps_next.
CallTrap ==
  /\ pc = "traps"
  /\ "TRAP" \in ik
  /\ done < batch
  /\ pc' = "trapfn"
  /\ lastRun' = trapFunc[trapsNext + 1]
  /\ UNCHANGED <<lines, global, trapFunc, trapsNext, trapsCount, triggered,
                 ik, forNmi, batch, done, jammed, disk>>

TrapReturns ==
  /\ pc = "trapfn"
  /\ pc' = "traps"
  /\ trapsNext' = trapsNext + 1
  /\ done' = done + 1
  /\ UNCHANGED <<lines, global, trapFunc, trapsCount, triggered, lastRun,
                 ik, forNmi, batch, jammed, disk>>

\* Mutant: the flag is cleared although traps wait.
EndTrapsUnflags ==
  /\ pc = "traps"
  /\ "TRAP" \in ik
  /\ done = batch
  /\ trapsCount' = trapsCount - batch
  /\ trapsNext' = IF trapsCount > batch THEN trapsNext ELSE 0
  /\ global' = global \ {"TRAP"}
  /\ ik' = ik \cup (global \cap {"RESET"})
  /\ pc' = "reset"
  /\ done' = 0
  /\ batch' = 0
  /\ UNCHANGED <<lines, trapFunc, triggered, lastRun, forNmi, jammed, disk>>

\* The batch is over; traps triggered meanwhile wait for the next cycle.
EndTraps ==
  /\ pc = "traps"
  /\ "TRAP" \in ik
  /\ done = batch
  /\ IF trapsCount > batch
       THEN trapsCount' = trapsCount - batch /\ UNCHANGED <<trapsNext, global>>
       ELSE trapsCount' = 0 /\ trapsNext' = 0 /\ global' = global \ {"TRAP"}
  /\ ik' = ik \cup (global \cap {"RESET"})
  /\ pc' = "reset"
  /\ done' = 0
  /\ batch' = 0
  /\ UNCHANGED <<lines, trapFunc, triggered, lastRun, forNmi, jammed, disk>>

NoTraps ==
  /\ pc = "traps"
  /\ "TRAP" \notin ik
  /\ pc' = "reset"
  /\ batch' = 0
  /\ UNCHANGED <<lines, global, traps, ik, forNmi, done, jammed, disk>>

ServeReset ==
  /\ pc = "reset"
  /\ IF "RESET" \in ik
       THEN Reset
       ELSE UNCHANGED <<lines, global, traps, forNmi, batch, done, jammed, disk>>
  /\ pc' = IF ik \cap {"MONITOR", "DMA"} # {} THEN "monitor" ELSE "end"
  /\ UNCHANGED ik

\* The monitor or the DMA function returns; the DMA is acknowledged.
EndMonitor ==
  /\ pc = "monitor"
  /\ global' = IF "DMA" \in ik THEN global \ {"DMA"} ELSE global
  /\ pc' = "end"
  /\ UNCHANGED <<lines, traps, ik, forNmi, batch, done, jammed, disk>>

\* After DO_INTERRUPT a released IRQ is forgotten.
EndInterrupt ==
  /\ pc = "end"
  /\ global' = IF "IRQ" \notin global THEN global \ {"IRQPEND"} ELSE global
  /\ pc' = "run"
  /\ ik' = {}
  /\ UNCHANGED <<lines, traps, forNmi, batch, done, jammed, disk>>

-----------------------------------------------------------------------------

Init ==
  /\ pendingIrq = {} /\ pendingNmi = {}
  /\ nirq = 0 /\ nnmi = 0
  /\ global = {"RESET"}      \* maincpu_mainloop() triggers one
  /\ nmiDue = FALSE /\ irqPend = "max"
  /\ trapFunc = <<>> /\ trapsNext = 0 /\ trapsCount = 0
  /\ triggered = 0 /\ lastRun = 0
  /\ jammed = FALSE
  /\ pc = "tail"
  /\ ik = {} /\ forNmi = FALSE /\ batch = 0 /\ done = 0
  /\ saved = NoSnapshot /\ origin = "whole" /\ deaf = FALSE /\ loadedAt = 0

Device ==
  \/ SetLine \/ SetFlag \/ TriggerTrap
  \/ SaveSnapshot \/ LoadSnapshot \/ LoadFails

Cpu ==
  \/ EndInstruction \/ Jam \/ JamContinue \/ JamReset
  \/ LoopTail \/ Serve \/ TakeVector
  \/ CallTrap \/ TrapReturns \/ EndTraps \/ NoTraps
  \/ ServeReset \/ EndMonitor \/ EndInterrupt

Next == Device \/ Cpu

Spec == Init /\ [][Next]_vars

\* The emulation thread keeps running the CPU.
FairSpec == Spec /\ WF_vars(Cpu)

-----------------------------------------------------------------------------
(* What makes the interrupts correct.                                      *)

LineTypeOK ==
  /\ pendingIrq \subseteq Source /\ pendingNmi \subseteq Source
  /\ nirq \in Nat /\ nnmi \in Nat
  /\ global \subseteq Flag /\ ik \subseteq Flag
  /\ nmiDue \in BOOLEAN /\ irqPend \in {"max", "ahead", "passed"}
  /\ jammed \in BOOLEAN /\ forNmi \in BOOLEAN
  /\ pc \in {"run", "jam", "tail", "serve", "vector", "traps", "trapfn",
            "reset", "monitor", "end"}
  /\ saved \in Snapshot \cup {NoSnapshot}
  /\ origin \in Origin /\ deaf \in BOOLEAN

TrapTypeOK ==
  /\ trapFunc \in Seq(Nat) /\ trapsNext \in Nat /\ trapsCount \in Nat
  /\ triggered \in Nat /\ lastRun \in Nat
  /\ batch \in Nat /\ done \in Nat /\ loadedAt \in Nat

\* Every variable keeps its type.
TypeOK == LineTypeOK /\ TrapTypeOK

\* The counters are the number of sources that pull each line, after any mix
\* of assertions, releases, resets and snapshots whose lines the modules restore:
\* else a line sticks.
CountsAgree ==
  origin = "whole" =>
    /\ nirq = Cardinality(pendingIrq)
    /\ nnmi = Cardinality(pendingNmi)

\* The CPU sees the IRQ line exactly while a source pulls it, except that a
\* jammed CPU ignores it until the reset that ends the jam, and that what it
\* ignored stays so in a snapshot it saves.
IrqVisible ==
  origin = "whole" =>
    /\ "IRQ" \in global => nirq > 0
    /\ nirq > 0 => "IRQ" \in global \/ jammed \/ deaf \/ "RESET" \in ik

\* A machine left with the parts of two states by a load that failed will be
\* reset before its next instruction: no later load, save, trap or jam, and no
\* flag that is cleared in between, takes the reset back.
FailedLoadResets == origin = "half" => "RESET" \in global

\* An interrupt sequence begun for an NMI finds it still latched and due when
\* it picks the vector, whatever the alarms in between did.
NmiKept == pc = "vector" /\ forNmi => "NMI" \in global /\ nmiDue

\* The traps that have not run are in the array, in the order they were
\* triggered, each once: none is lost, doubled or read from a slot that was
\* never written ("traps can trigger traps", interrupt.c).
TrapsInOrder ==
  LET called == IF pc = "trapfn" THEN 1 ELSE 0
      waiting == triggered - lastRun
  IN  /\ waiting = trapsCount - done - called
      /\ \A k \in 1 .. waiting : trapFunc[trapsNext + called + k] = lastRun + k

\* A trap triggered since a snapshot was last loaded is served at the next
\* instruction boundary, and with it those that waited already: the CPU is told.
TrapFlagged ==
  pc = "tail" /\ trapsCount > 0 /\ triggered > loadedAt => "TRAP" \in global

\* "Trigger a TRAP next cycle" (interrupt.c:316), without that exception.
TrapNextCycle == pc = "tail" /\ trapsCount > 0 => "TRAP" \in global

\* Traps that wait are called in the end, unless a reset drops them or the
\* snapshot that was loaded last has overwritten the flag of all of them.
TrapsServed == trapsCount > 0 ~> trapsCount = 0 \/ triggered = loadedAt
=============================================================================
