--------------------------------- MODULE Cia ---------------------------------
(* A CIA (core/ciacore.c): two timers, B possibly counting the underflows of *)
(* A, and the interrupt control register with its delays, as the emulation   *)
(* computes them: at the alarms it could not do without and when the CPU     *)
(* reads or writes a register. Beside it runs the chip cycle by cycle, with  *)
(* every cycle computed in its turn. Everything is relative to the present   *)
(* cycle, for which the CPU's access comes first and the alarms follow.      *)
(*                                                                           *)
(* A program is a set of accesses; no program of the model uses the ports,   *)
(* the serial register or the time of day.                                   *)
EXTENDS CiaTimer

CONSTANTS Programs,  \* records of a model ("old" 6526, "new" 6526A) and accesses
          Gap,       \* the cycles from one access to the next, at least
          MaxIdle    \* CIA_MAX_IDLE_CYCLES

(* What a program can access: a half of a latch is written with a byte, a    *)
(* control register and the mask with the bits the model knows.              *)
Accesses ==
  [reg : {"TAL", "TAH", "TBL", "TBH"}, value : 0 .. LoSize - 1]
    \cup [reg : {"CRA", "CRB"},
          byte : SUBSET {"START", "CR_ONESHOT", "FLOAD", "CNT", "INMODE_TA"}]
    \cup [reg : {"IMR"}, set : BOOLEAN, byte : SUBSET {"TA", "TB"}]
    \cup [reg : {"ICR", "TA", "TB"}]

ASSUME CiaAssumption ==
  /\ \A p \in Programs : p.accesses \subseteq Accesses
  /\ {Gap, MaxIdle} \subseteq Nat \ {0}

VARIABLES cia,       \* the emulated chip
          ref,       \* the chip computed cycle by cycle
          program,   \* the chip's model and the accesses the CPU makes
          bus        \* the cycles to the CPU's next turn, 0 when it is now

vars == <<cia, ref, program, bus>>

model == program.model \* cia_context->model

RdiCap == MaxIdle + 2  \* an ICR read longer ago makes no difference

(* cia_run_ifr_cycle() for the cycle ifr cycles ago.                         *)
Shift(delay) ==
  {b \in {"ACK0"} : "ACK1" \in delay} \cup {b \in {"ACK_1"} : "ACK0" \in delay}
    \cup {b \in {"D7SET0"} : "D7SET1" \in delay}
    \cup {b \in {"RAISE0"} : "RAISE1" \in delay}
    \cup {b \in {"READ1"} : "READ0" \in delay}

RunIfrCycle(c) ==
  LET acked == IF "ACK0" \notin c.delay THEN c.irqflags
               ELSE IF model = "old" THEN c.irqflags \ (c.ack \cup {"SET"})
               ELSE c.irqflags \ c.ack
      late == model = "old" \/ c.rdi = c.ifr + 1
      new == IF c.new \cap c.mask = {} THEN {}
             ELSE IF late THEN {"RAISE1", "D7SET1"} ELSE {"RAISE0", "D7SET0"}
      delay == c.delay \cup new
      raise == "RAISE0" \in delay
  IN  [c EXCEPT !.irqflags = IF "D7SET0" \in delay THEN acked \cup {"SET"}
                                                   ELSE acked,
                !.ack = IF "ACK0" \in c.delay THEN {} ELSE @,
                !.new = {},
                !.line = IF raise /\ @ # "on" THEN "on" ELSE @,
                !.irqEnabled = raise \/ @,
                !.delay = Shift(delay),
                !.ifr = @ - 1]

IfrRound(c) ==
  IF c.ifr > 0 /\ c.delay \cup c.new \cup c.ack # {} THEN RunIfrCycle(c) ELSE c

IfrCycles(c) ==
  LET after[k \in 0 .. c.ifr] == IF k = 0 THEN c ELSE IfrRound(after[k - 1])
  IN  after[c.ifr]

IfrCatchup(c) ==
  IF c.ifr > 0 THEN [IfrCycles(c) EXCEPT !.ifr = 0] ELSE c

(* cia_ifr_current(): the present cycle, and a look at the next ones.        *)
AlarmsDue(c) == c.ta.due = 0 \/ c.tb.due = 0

IfrNow(c) == IF AlarmsDue(c) THEN c ELSE RunIfrCycle(c)

\* Mutant: an interrupt that is two cycles away is not looked after.
IfrNextShort(c) ==
  IF ~ AlarmsDue(c) /\ "RAISE0" \in c.delay
  THEN [c EXCEPT !.line = IF @ = "off" THEN "next" ELSE @, !.irqEnabled = TRUE]
  ELSE c

IfrNext(c) ==
  IF AlarmsDue(c) THEN c
  ELSE IF "RAISE0" \in c.delay
       THEN [c EXCEPT !.line = IF @ = "off" THEN "next" ELSE @,
                      !.irqEnabled = TRUE]
  ELSE IF "RAISE1" \in c.delay THEN [c EXCEPT !.idle = 1]
  ELSE c

Ifr(c) == IfrNext(IfrNow(IfrCatchup(c)))

SetIrqFlag(c, bits) ==
  [IfrCatchup(c) EXCEPT !.irqflags = @ \cup bits, !.new = @ \cup bits,
                        !.ack = @ \ bits]

(* cia_do_update_ta(), cia_do_update_tb(), cia_do_step_tb().                 *)
TaUpdated(c, ta) ==
  LET d == [c EXCEPT !.ta = [ta EXCEPT !.n = 0]]
  IN  IF ta.n = 0 THEN d
      ELSE [SetIrqFlag(d, {"TA"}) EXCEPT !.tat = (@ + ta.n) % 2]

DoUpdateTa(c) == TaUpdated(c, Update(c.ta))

TimerBBug(c) == model = "old" /\ c.rdi = 1

TbUpdated(c, tb) ==
  LET d == [c EXCEPT !.tb = [tb EXCEPT !.n = 0]]
  IN  IF tb.n = 0 THEN d
      ELSE [SetIrqFlag(d, {"TB"}) EXCEPT
              !.irqflags = IF TimerBBug(c) THEN @ \cup {"TBB"} ELSE @ \ {"TBB"},
              !.tbt = (@ + tb.n) % 2]

DoUpdateTb(c) == TbUpdated(c, Update(c.tb))

Chained(c) == {"START", "INMODE_TA"} \subseteq c.crb

(* A timer that is up to date: its next alarm is set, unless nobody seems to *)
(* need it.                                                                  *)
RenewTb(c) ==
  LET again == /\ "START" \in c.crb
               /\ c.crb \cap {"CR_ONESHOT", "CNT", "INMODE_TA"} = {}
               /\ "TB" \in c.mask
  IN  [c EXCEPT !.tb = IF again THEN SetAlarm(AckAlarm(@)) ELSE AckAlarm(@)]

Inttb(c) == RenewTb(DoUpdateTb(c))

(* The rest of cia_update_tb() once timer A is up to date.                   *)
UpdateTbOnly(c) == IF c.tb.due = 0 THEN Inttb(c) ELSE DoUpdateTb(c)

\* Mutant: nobody seems to need the underflows that timer B counts.
RenewTaAlone(c) ==
  LET again == /\ "START" \in c.cra
               /\ c.cra \cap {"CR_ONESHOT", "CNT"} = {}
               /\ "TA" \in c.mask /\ "SET" \notin c.irqflags
  IN  [c EXCEPT !.ta = IF again THEN SetAlarm(AckAlarm(@)) ELSE AckAlarm(@)]

RenewTa(c) ==
  LET again == /\ "START" \in c.cra
               /\ c.cra \cap {"CR_ONESHOT", "CNT"} = {}
               /\ \/ "TA" \in c.mask /\ "SET" \notin c.irqflags
                  \/ "INMODE_TA" \in c.crb
  IN  [c EXCEPT !.ta = IF again THEN SetAlarm(AckAlarm(@)) ELSE AckAlarm(@)]

StepTb(c) ==
  IF Chained(c) THEN [UpdateTbOnly(c) EXCEPT !.tb = SingleStep(@)] ELSE c

Intta(c) == StepTb(RenewTa(DoUpdateTa(c)))

UpdateTa(c) == IF c.ta.due = 0 THEN Intta(c) ELSE DoUpdateTa(c)

UpdateTb(c) == UpdateTbOnly(IF Chained(c) THEN UpdateTa(c) ELSE c)

(* The callbacks of the alarms. *)
InttaEntry(c) == Ifr(Intta(c))

InttbEntry(c) == Ifr(Inttb(c))

\* Mutant: without "don't call it twice".
IdleEntryTwice(c) ==
  IfrNext(IfrNow(IfrCatchup([UpdateTb(UpdateTa(c)) EXCEPT !.idle = MaxIdle])))

IfrOnce(c) == IF c.ifr = 0 THEN IfrNext(IfrNow(c)) ELSE c

IdleEntry(c) ==
  IfrOnce(IfrCatchup([UpdateTb(UpdateTa(c)) EXCEPT !.idle = MaxIdle]))

(* ciacore_store_internal() and ciacore_read(), by register. An access to a  *)
(* timer's counter or latch brings the timer and the interrupts up to date.  *)
AccessTa(c) == Ifr(UpdateTa(c))

AccessTb(c) == Ifr(UpdateTb(c))

(* Both timers and the interrupts of this cycle, no look ahead.              *)
AccessIcr(c) == IfrNow(IfrCatchup(UpdateTb(UpdateTa(c))))

(* The interrupts already pending become due when their mask is written.     *)
SetMask(c, set, byte) ==
  [c EXCEPT !.mask = IF set THEN @ \cup byte ELSE @ \ byte]

MaskWritten(c) ==
  LET raise == IF model = "old" THEN {"RAISE1", "D7SET1"}
               ELSE IF "READ1" \in c.delay THEN {} ELSE {"RAISE0", "D7SET0"}
      delay == IF c.irqflags \cap c.mask # {}
               THEN IF c.irqEnabled THEN c.delay ELSE c.delay \cup raise
               ELSE IF model = "old" /\ "ACK_1" \in c.delay
                    THEN c.delay \ {"RAISE0", "D7SET0"}
               ELSE c.delay
  IN  [c EXCEPT !.delay = delay,
                !.ta = IF "TA" \in c.mask THEN SetAlarm(@) ELSE @,
                !.tb = IF "TB" \in c.mask THEN SetAlarm(@) ELSE @]

StoreIcr(c, set, byte) == IfrNext(MaskWritten(SetMask(AccessIcr(c), set, byte)))

StoreCra(c, byte) ==
  LET starts == "START" \in byte /\ "START" \notin c.cra
  IN  Ifr([UpdateTa(c) EXCEPT !.tat = IF starts THEN 1 ELSE @,
                              !.ta = SetCtrl(@, byte),
                              !.cra = byte \ {"FLOAD"}])

StoreCrb(c, byte) ==
  LET starts == "START" \in byte /\ "START" \notin c.crb
      d == UpdateTb(UpdateTa([c EXCEPT !.tbt = IF starts THEN 1 ELSE @]))
      chain == "INMODE_TA" \in byte
  IN  Ifr([d EXCEPT !.ta = IF chain THEN SetAlarm(@) ELSE @,
                    !.tb = SetCtrl(@, IF chain THEN byte \cup {"CNT"} ELSE byte),
                    !.crb = byte \ {"FLOAD"}])

ForgetTb(c) ==
  IF "TBB" \in c.irqflags
  THEN [c EXCEPT !.irqflags = @ \ {"TBB", "TB"}] ELSE c

EarlySet(c) ==
  IF model = "new" /\ "RAISE0" \in c.delay /\ c.irqflags \cap {"TA", "TB"} # {}
  THEN [c EXCEPT !.irqflags = @ \cup {"SET"}] ELSE c

BeforeIcrRead(c) ==
  EarlySet(ForgetTb([AccessIcr(c) EXCEPT !.rdi = 0, !.ta = SetAlarm(@),
                                         !.tb = SetAlarm(@)]))

IcrResult(c) == BeforeIcrRead(c).irqflags

Acknowledge(c) ==
  IF model = "new"
  THEN [c EXCEPT !.ack = IF c.irqflags # {} THEN @ \cup c.irqflags \cup {"SET"}
                                            ELSE @,
                 !.delay = (@ \cup {"ACK1", "READ0"}) \ {"RAISE0", "D7SET0"}]
  ELSE [c EXCEPT !.irqflags = @ \cap {"SET"}, !.new = {},
                 !.delay = (@ \cup {"ACK1", "READ0"}) \ {"RAISE0"}]

ReadIcr(c) ==
  IfrNext([Acknowledge(BeforeIcrRead(c)) EXCEPT !.line = "off",
                                                !.irqEnabled = FALSE])

\* One store or one read.  "TA" is a read of TAL, TAH or CRA, "TB" one of TBL, TBH
\* or CRB: they do the same to the chip.  What a read of port B does when timers
\* show there, and the first store of a read-modify-write instruction, which is made
\* a cycle back in time, are not among the accesses.
Access(c, a) ==
  CASE a.reg = "TAL" -> [AccessTa(c) EXCEPT !.ta = SetLatchLo(@, a.value)]
    [] a.reg = "TAH" -> [AccessTa(c) EXCEPT !.ta = SetLatchHi(@, a.value)]
    [] a.reg = "TBL" -> [AccessTb(c) EXCEPT !.tb = SetLatchLo(@, a.value)]
    [] a.reg = "TBH" -> [AccessTb(c) EXCEPT !.tb = SetLatchHi(@, a.value)]
    [] a.reg = "IMR" -> StoreIcr(c, a.set, a.byte)
    [] a.reg = "CRA" -> StoreCra(c, a.byte)
    [] a.reg = "CRB" -> StoreCrb(c, a.byte)
    [] a.reg = "ICR" -> ReadIcr(c)
    [] a.reg = "TA"  -> AccessTa(c)
    [] a.reg = "TB"  -> AccessTb(c)
-----------------------------------------------------------------------------
(* One cycle passes for a chip that is not computed.                         *)
Older(c) ==
  LET Wait(tm) == [tm EXCEPT !.lag = @ + 1,
                             !.due = IF @ = Never THEN Never ELSE @ - 1]
  IN  [c EXCEPT !.ta = Wait(@), !.tb = Wait(@),
                !.ifr = IF c.delay \cup c.new \cup c.ack = {} /\ @ >= 0
                        THEN 1 ELSE @ + 1,
                !.rdi = IF @ < RdiCap THEN @ + 1 ELSE @,
                !.idle = @ - 1,
                !.line = IF @ = "next" THEN "on" ELSE @]

(* The chip computed cycle by cycle needs no alarm and looks at no cycle in  *)
(* advance.                                                                  *)
Plain(c) ==
  LET ahead == c.line = "next"
  IN  [c EXCEPT !.ta.due = Never, !.tb.due = Never, !.idle = 0,
                !.line = IF ahead THEN "off" ELSE @,
                !.irqEnabled = @ /\ ~ ahead]

Finished(c) == IF c.ifr = 0 THEN RunIfrCycle(c) ELSE c

(* One cycle of it: both timers count, B steps when A has underflowed and it *)
(* counts A.                                                                 *)
Count(tm) == Cycle([tm EXCEPT !.n = 0])

CountedA(c) ==
  IF c.ta.n = 0 THEN c ELSE [SetIrqFlag(c, {"TA"}) EXCEPT !.tat = 1 - @]

CycleA(c) == CountedA([c EXCEPT !.ta = Count(@)])

SteppedB(c) ==
  LET steps == Chained(c) /\ c.ta.n = 1 /\ "START" \in c.tb.bits
  IN  [c EXCEPT !.tb.bits = IF steps THEN @ \cup {"STEP"} ELSE @]

CountedB(c) ==
  IF c.tb.n = 0 THEN c
  ELSE [SetIrqFlag(c, {"TB"}) EXCEPT
          !.irqflags = IF TimerBBug(c) THEN @ \cup {"TBB"} ELSE @ \ {"TBB"},
          !.tbt = 1 - @]

CycleB(c) == SteppedB(CountedB([c EXCEPT !.tb = Count(@)]))

WholeCycle(c) ==
  LET d == CycleB(CycleA(Older(Plain(Finished(c)))))
  IN  [d EXCEPT !.ta.n = 0, !.tb.n = 0, !.idle = 0]
-----------------------------------------------------------------------------
ResetChip ==
  [ta |-> ResetTimer, tb |-> ResetTimer, cra |-> {}, crb |-> {}, mask |-> {},
   irqflags |-> {}, new |-> {}, ack |-> {}, delay |-> {}, ifr |-> 1,
   rdi |-> RdiCap, irqEnabled |-> FALSE, line |-> "off", idle |-> MaxIdle,
   tat |-> 0, tbt |-> 0]

Init ==
  /\ cia = ResetChip
  /\ ref = [ResetChip EXCEPT !.idle = 0, !.ifr = 0]
  /\ program \in Programs
  /\ bus = 0

(* The CPU reads or writes a register, in its turn of the cycle.             *)
CpuAccess ==
  /\ bus = 0
  /\ \E a \in program.accesses : /\ cia' = Access(cia, a)
                                 /\ ref' = Plain(Access(ref, a))
  /\ bus' = Gap
  /\ UNCHANGED program

AlarmRuns(after) ==
  /\ cia' = after
  /\ bus' = IF bus = 0 THEN 1 ELSE bus
  /\ UNCHANGED <<ref, program>>

TaAlarm == cia.ta.due = 0 /\ AlarmRuns(InttaEntry(cia))

TbAlarm == cia.tb.due = 0 /\ AlarmRuns(InttbEntry(cia))

IdleAlarm == cia.idle = 0 /\ AlarmRuns(IdleEntry(cia))

(* The next cycle begins once every alarm of this one has run.               *)
Tick ==
  /\ ~ AlarmsDue(cia)
  /\ cia.idle > 0
  /\ cia' = Older(cia)
  /\ ref' = WholeCycle(ref)
  /\ bus' = IF bus = 0 THEN 0 ELSE bus - 1
  /\ UNCHANGED program

(* ciacore_reset() leaves the two toggles as they were last computed.        *)
Reset ==
  /\ cia' = [ResetChip EXCEPT !.tat = cia.tat, !.tbt = cia.tbt]
  /\ ref' = [ResetChip EXCEPT !.tat = cia.tat, !.tbt = cia.tbt,
                              !.idle = 0, !.ifr = 0]
  /\ bus' = 0
  /\ UNCHANGED program

Next == CpuAccess \/ TaAlarm \/ TbAlarm \/ IdleAlarm \/ Tick \/ Reset

Spec == Init /\ [][Next]_vars
-----------------------------------------------------------------------------
(* The registers hold what they can, and the idle alarm keeps every timer    *)
(* less than a counter's range behind.                                       *)
TypeOK ==
  /\ cia.ta.bits \subseteq Bits /\ cia.tb.bits \subseteq Bits
  /\ \A tm \in {cia.ta, cia.tb} :
       /\ {tm.cnt, tm.latch} \subseteq 0 .. Width - 1
       /\ tm.lag \in 0 .. MaxIdle
       /\ tm.due \in Nat \cup {Never}
  /\ cia.irqflags \subseteq {"TA", "TB", "TBB", "SET"}
  /\ cia.idle \in 0 .. MaxIdle
  /\ bus \in 0 .. Gap

(* "cia_ifr_current() must NOT be called more than once for a cycle!"        *)
(* (ciacore.c:550): the interrupt register never runs ahead of the clock.    *)
OncePerCycle == cia.ifr >= -1

(* Whenever somebody looks at a timer, its counter and its running and       *)
(* underflow bits are what the chip computed cycle by cycle would show, and  *)
(* so is A's output on port B: the jumps of ciat_update() over several       *)
(* cycles and underflows lose nothing. Of timer B that is so in a program    *)
(* that never makes it count A. No register shows the bit COUNT: it only     *)
(* tells a jump that the timer has been counting.                            *)
Shown(tm) == [bits |-> tm.bits \ {"COUNT"}, cnt |-> tm.cnt]

Unchained ==
  \A a \in program.accesses : a.reg = "CRB" => "INMODE_TA" \notin a.byte

TimersExact ==
  LET c == UpdateTb(UpdateTa(cia))
  IN  /\ Shown(c.ta) = Shown(ref.ta) /\ c.tat = ref.tat
      /\ Unchained => Shown(c.tb) = Shown(ref.tb)

(* Whatever the program reads of timer B and of the ICR in its turn of a     *)
(* cycle is so too: B counting A through A's alarm, the skipped alarms and   *)
(* the interrupt delays caught up late lose nothing.                         *)
ReadsExact ==
  bus = 0 =>
    LET c == UpdateTb(UpdateTa(cia))
    IN  /\ Shown(c.tb) = Shown(ref.tb) /\ c.tbt = ref.tbt
        /\ IcrResult(cia) = IcrResult(ref)

(* A timer counts what its control register says: "count system 02 pulses"   *)
(* or "count timer A underflows" (ciacore.c:1533), and nothing else.         *)
CountsWhatItShould ==
  bus = 0 => UpdateTb(UpdateTa(cia)).tb.cnt = ref.tb.cnt

(* The interrupt line is asserted in the very cycle in which the chip        *)
(* computed cycle by cycle asserts it, neither late for an alarm that was    *)
(* skipped nor early for a look ahead, and released with it.                 *)
LineExact ==
  ~ AlarmsDue(cia) /\ cia.idle > 0 =>
    ((cia.line = "on") <=> (Finished(ref).line = "on"))

(* An alarm that is set comes at the first underflow since the timer was     *)
(* computed: none has passed before it, and it never finds none.             *)
AlarmIsFirstUnderflow ==
  \A tm \in {cia.ta, cia.tb} :
    tm.due # Never => Update(tm).n = (IF tm.due = 0 THEN 1 ELSE 0)
=============================================================================
