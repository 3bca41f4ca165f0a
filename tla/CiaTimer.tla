------------------------------ MODULE CiaTimer ------------------------------
(* One timer of a MOS 6526 (CIA) as core/ciatimer.h computes it: only when   *)
(* somebody looks, from the cycle it was last computed for, in jumps where   *)
(* the state allows one. The clock is relative: a timer is lag cycles behind *)
(* the present, and its alarm is due in so many cycles.                      *)
(*                                                                           *)
(* The bits of ciat_tstate_t are a set of names. A counter of 16 bits in two *)
(* bytes is scaled to Width values, LoSize of them in the low byte.          *)
EXTENDS Integers

CONSTANTS Width,    \* 65536 in the code: the values of cnt and latch
          LoSize    \* 256 in the code: the values of their low byte

ASSUME TimerAssumption == LoSize \in Nat \ {0} /\ Width = LoSize * LoSize

Never == -1         \* CLOCK_MAX: no alarm

CrBits == {"START", "CR_ONESHOT", "FLOAD", "PHI2IN"}
Counting == {"COUNT2", "COUNT3", "COUNT"}
Bits == CrBits \cup Counting
          \cup {"STEP", "LOAD1", "LOAD", "ONESHOT0", "ONESHOT", "OUT"}

(* ciat_table: the bits of the next cycle. *)
Pipeline(t) ==
  (t \cap {"START", "CR_ONESHOT", "PHI2IN"})
    \cup {b \in {"COUNT2"} : {"START", "PHI2IN"} \subseteq t}
    \cup {b \in {"COUNT3"} : "COUNT2" \in t \/ {"STEP", "START"} \subseteq t}
    \cup {b \in {"COUNT"} : "COUNT3" \in t}
    \cup {b \in {"LOAD1"} : "FLOAD" \in t}
    \cup {b \in {"LOAD"} : "LOAD1" \in t}
    \cup {b \in {"ONESHOT0"} : "CR_ONESHOT" \in t}
    \cup {b \in {"ONESHOT"} : "ONESHOT0" \in t}

(* A timer with the cycle's consequences drawn: an underflow loads the       *)
(* latch and stops a one-shot timer. n counts the underflows seen.           *)
Underflows(tm) == tm.cnt = 0 /\ "COUNT3" \in tm.bits

Settle(tm) ==
  LET t1 == IF Underflows(tm) THEN tm.bits \cup {"LOAD", "OUT"} ELSE tm.bits
      load == "LOAD" \in t1
      t2 == IF load THEN t1 \ {"COUNT3"} ELSE t1
      stop == "OUT" \in t2 /\ t2 \cap {"ONESHOT", "ONESHOT0"} # {}
  IN  [tm EXCEPT !.bits = IF stop THEN t2 \ {"START", "COUNT2"} ELSE t2,
                 !.cnt = IF load THEN tm.latch ELSE tm.cnt,
                 !.n = tm.n + (IF Underflows(tm) THEN 1 ELSE 0)]

(* One cycle: the "inc" branch. *)
Increment(tm) ==
  [tm EXCEPT !.bits = Pipeline(tm.bits),
             !.cnt = IF @ # 0 /\ "COUNT3" \in tm.bits THEN @ - 1 ELSE @,
             !.lag = @ - 1]

Cycle(tm) == Settle(Increment(tm))

OneshotSettled(t) ==
  \/ {"CR_ONESHOT", "ONESHOT0", "ONESHOT"} \subseteq t
  \/ {"CR_ONESHOT", "ONESHOT0", "ONESHOT"} \cap t = {}

WarpCounting(t) ==
  /\ t \cap ({"START", "FLOAD", "LOAD1", "PHI2IN", "LOAD"} \cup Counting)
       = {"START", "PHI2IN"} \cup Counting
  /\ OneshotSettled(t)

WarpStopped(t) ==
  /\ t \cap Counting = {}
  /\ "START" \notin t \/ t \cap {"PHI2IN", "STEP"} = {}
  /\ OneshotSettled(t)

(* Latch and counter are 1 and the timer has just underflowed. *)
WarpByTwo(tm) ==
  /\ tm.bits = {"COUNT", "OUT", "LOAD", "PHI2IN", "COUNT2", "START"}
  /\ tm.cnt = 1
  /\ tm.latch = 1

(* The counter reaches zero in one jump and, when the timer is not one-shot, *)
(* as many whole periods follow as fit.                                      *)
\* Mutant: it is not asked whether the counter gets to zero.
JumpToZeroUnchecked(tm) ==
  IF tm.bits \cap {"CR_ONESHOT", "ONESHOT0"} # {}
  THEN [tm EXCEPT !.cnt = 0, !.lag = @ - tm.cnt]
  ELSE [tm EXCEPT !.cnt = @ - tm.lag, !.lag = 0]

JumpToZero(tm) ==
  LET rest == tm.lag - tm.cnt
      periods == IF rest % Width >= tm.latch + 1 THEN rest \div (tm.latch + 1)
                                                 ELSE 0
  IN  IF tm.cnt > tm.lag
      THEN [tm EXCEPT !.cnt = @ - (tm.lag % Width), !.lag = 0]
      ELSE IF tm.bits \cap {"CR_ONESHOT", "ONESHOT0"} # {}
           THEN [tm EXCEPT !.cnt = 0, !.lag = rest]
           ELSE [tm EXCEPT !.cnt = 0, !.n = @ + periods,
                           !.lag = rest - periods * (tm.latch + 1)]

\* Mutant: an odd number of cycles is jumped over.
JumpByTwoOdd(tm) ==
  IF tm.lag >= 2 THEN [tm EXCEPT !.lag = 0, !.n = @ + tm.lag \div 2]
  ELSE [tm EXCEPT !.bits = Pipeline(@), !.lag = @ - 1]

JumpByTwo(tm) ==
  IF tm.lag >= 2
  THEN [tm EXCEPT !.lag = @ % 2, !.n = @ + tm.lag \div 2]
  ELSE [tm EXCEPT !.bits = Pipeline(@), !.lag = @ - 1]

Advance(tm) ==
  IF WarpCounting(tm.bits) THEN JumpToZero(tm)
  ELSE IF WarpStopped(tm.bits) /\ tm.bits \cap {"FLOAD", "LOAD1", "LOAD"} = {}
       THEN [tm EXCEPT !.lag = 0]
  ELSE IF WarpByTwo(tm) THEN JumpByTwo(tm)
  ELSE Increment(tm)

(* ciat_update(): computes the timer for the present. A round of its loop    *)
(* takes a cycle at least.                                                   *)
Round(tm) == IF tm.lag > 0 THEN Settle(Advance(tm)) ELSE tm

CatchUp(tm) ==
  LET after[k \in 0 .. tm.lag] == IF k = 0 THEN tm ELSE Round(after[k - 1])
  IN  after[tm.lag]

Update(tm) == CatchUp([tm EXCEPT !.n = 0])

(* ciat_set_alarm(): the cycles until the next underflow of a timer that is  *)
(* up to date, from a walk without the by-two jump and without Settle's end. *)
(* It walks until the state is one that lasts, or the timer underflows: the  *)
(* delays of the pipeline are over in four cycles.                           *)
WalkEnds(tm) ==
  WarpCounting(tm.bits) \/ WarpStopped(tm.bits) \/ Underflows(Increment(tm))

Walk(tm) == IF WalkEnds(tm) THEN tm ELSE Cycle(tm)

NextUnderflow(tm) ==
  LET after[k \in 0 .. 4] == IF k = 0 THEN tm ELSE Walk(after[k - 1])
      end == after[4]
      walked == tm.lag - end.lag
  IN  IF WarpCounting(end.bits) THEN walked + end.cnt
      ELSE IF WarpStopped(end.bits) THEN Never ELSE walked + 1

SetAlarm(tm) == [tm EXCEPT !.due = NextUnderflow(tm)]

AckAlarm(tm) == [tm EXCEPT !.due = Never]

(* ciat_set_ctrl(): the bit that selects what is counted is inverted. *)
SetCtrl(tm, byte) ==
  SetAlarm([tm EXCEPT !.bits = (@ \ CrBits) \cup (byte \cap {"START", "CR_ONESHOT", "FLOAD"})
                                 \cup {b \in {"PHI2IN"} : "CNT" \notin byte}])

\* Mutant: the alarm is not set again.
SetLatchHiKeepsAlarm(tm, byte) ==
  LET latch == (tm.latch % LoSize) + (byte * LoSize)
  IN  [tm EXCEPT !.latch = latch,
                 !.cnt = IF "LOAD" \in tm.bits \/ "START" \notin tm.bits
                         THEN latch ELSE @]

SetLatchHi(tm, byte) ==
  LET latch == (tm.latch % LoSize) + (byte * LoSize)
  IN  SetAlarm([tm EXCEPT !.latch = latch,
                          !.cnt = IF "LOAD" \in tm.bits \/ "START" \notin tm.bits
                                  THEN latch ELSE @])

SetLatchLo(tm, byte) ==
  LET Low(v) == (v \div LoSize) * LoSize + byte
  IN  SetAlarm([tm EXCEPT !.latch = Low(@),
                          !.cnt = IF "LOAD" \in tm.bits THEN Low(@) ELSE @])

SingleStep(tm) ==
  IF "START" \in tm.bits THEN SetAlarm([tm EXCEPT !.bits = @ \cup {"STEP"}])
                         ELSE tm

(* ciat_reset() *)
ResetTimer ==
  [bits |-> {}, cnt |-> Width - 1, latch |-> Width - 1, lag |-> 0, n |-> 0,
   due |-> Never]
=============================================================================
