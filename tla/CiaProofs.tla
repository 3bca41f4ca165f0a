------------------------------ MODULE CiaProofs ------------------------------
(***************************************************************************)
(* Proofs about Cia, for counters of any width and any set of programs.    *)
(* First the timer: which states ciat_update() leaves, and that its jumps  *)
(* bring the underflow nearer by the cycles they take, so that the alarm   *)
(* of ciat_set_alarm() is the first underflow, whatever is looked at in    *)
(* between; and that the jumps are exact. Then the interrupt register,     *)
(* which never runs ahead of the clock, and the handlers and accesses one  *)
(* by one. At last the chip computed cycle by cycle, of which timer A, and *)
(* timer B unless it counts A, cannot be told from the emulated one.       *)
(*                                                                         *)
(* The loops are recursive functions over the cycles to catch up; what     *)
(* holds after any number of rounds is proved by induction over a set of   *)
(* numbers (Induct).                                                       *)
(***************************************************************************)
EXTENDS Cia, WellFoundedInduction, TLAPS

-----------------------------------------------------------------------------
(* The timer.                                                                *)

\* The assumed constants as numbers.
LEMMA TimerConstants == Width \in Nat /\ Width >= 1 /\ LoSize \in Nat /\ LoSize >= 1
<1>1. LoSize \in Nat /\ LoSize >= 1
  BY TimerAssumption
<1>2. Width = LoSize * LoSize
  BY TimerAssumption
<1>3. \A a \in Nat : a >= 1 => a * a \in Nat /\ a * a >= 1
  OBVIOUS
<1> QED BY <1>1, <1>2, <1>3

\* The state of a timer.
Timer == [bits : SUBSET Bits, cnt : 0 .. Width - 1, latch : 0 .. Width - 1,
          lag : Int, n : Nat, due : Nat \cup {Never}]

\* The bits of the next cycle, one by one (ciat_table).
LEMMA PipelineBits ==
  ASSUME NEW t \in SUBSET Bits
  PROVE  /\ Pipeline(t) \in SUBSET Bits
         /\ "START" \in Pipeline(t) <=> "START" \in t
         /\ "CR_ONESHOT" \in Pipeline(t) <=> "CR_ONESHOT" \in t
         /\ "PHI2IN" \in Pipeline(t) <=> "PHI2IN" \in t
         /\ "FLOAD" \notin Pipeline(t)
         /\ "STEP" \notin Pipeline(t)
         /\ "OUT" \notin Pipeline(t)
         /\ "COUNT2" \in Pipeline(t) <=> "START" \in t /\ "PHI2IN" \in t
         /\ "COUNT3" \in Pipeline(t) <=> "COUNT2" \in t \/ ("STEP" \in t /\ "START" \in t)
         /\ "COUNT" \in Pipeline(t) <=> "COUNT3" \in t
         /\ "LOAD1" \in Pipeline(t) <=> "FLOAD" \in t
         /\ "LOAD" \in Pipeline(t) <=> "LOAD1" \in t
         /\ "ONESHOT0" \in Pipeline(t) <=> "CR_ONESHOT" \in t
         /\ "ONESHOT" \in Pipeline(t) <=> "ONESHOT0" \in t
BY SMTT(30) DEF Pipeline, Bits, CrBits, Counting

\* The end of a cycle: no counting from zero, no pulse without a load.
LEMMA SettleFacts ==
  ASSUME NEW tm \in Timer
  PROVE  LET s == Settle(tm) IN
         /\ s \in Timer /\ s.latch = tm.latch /\ s.lag = tm.lag /\ s.due = tm.due
         /\ "COUNT3" \in s.bits => s.cnt > 0 /\ "LOAD" \notin s.bits
         /\ ("OUT" \in tm.bits => "LOAD" \in tm.bits) => ("OUT" \in s.bits => "LOAD" \in s.bits)
         /\ Underflows(tm) => s.n = tm.n + 1
         /\ ~ Underflows(tm) => s.n = tm.n
<1> DEFINE under == tm.cnt = 0 /\ "COUNT3" \in tm.bits
           t1 == IF under THEN tm.bits \cup {"LOAD", "OUT"} ELSE tm.bits
           load == "LOAD" \in t1
           t2 == IF load THEN t1 \ {"COUNT3"} ELSE t1
           stop == "OUT" \in t2 /\ t2 \cap {"ONESHOT", "ONESHOT0"} # {}
           b == IF stop THEN t2 \ {"START", "COUNT2"} ELSE t2
           k == IF load THEN tm.latch ELSE tm.cnt
           m == tm.n + (IF under THEN 1 ELSE 0)
<1>1. Settle(tm) = [tm EXCEPT !.bits = b, !.cnt = k, !.n = m]
  BY Zenon DEF Settle, Underflows
<1>2. tm.bits \in SUBSET Bits /\ tm.cnt \in Nat /\ tm.n \in Nat
  BY TimerConstants DEF Timer
<1>3. b \in SUBSET Bits
  BY <1>2 DEF Bits
<1>4. k \in 0 .. Width - 1 /\ m \in Nat
  BY <1>2 DEF Timer
<1>5. /\ "COUNT3" \in b => k > 0 /\ "LOAD" \notin b
      /\ ("OUT" \in tm.bits => "LOAD" \in tm.bits) => ("OUT" \in b => "LOAD" \in b)
      /\ under => m = tm.n + 1
      /\ ~ under => m = tm.n
  BY <1>2
<1> HIDE DEF b, k, m
<1>6. Settle(tm) \in Timer
  BY <1>1, <1>3, <1>4 DEF Timer
<1>7. /\ Settle(tm).bits = b /\ Settle(tm).cnt = k /\ Settle(tm).n = m
      /\ Settle(tm).latch = tm.latch /\ Settle(tm).lag = tm.lag /\ Settle(tm).due = tm.due
  BY <1>1 DEF Timer
<1> QED BY <1>5, <1>6, <1>7 DEF Underflows

\* Nothing happens to a timer that neither underflows nor has a pulse to put out, but for
\* a forced load.
LEMMA QuietSettle ==
  ASSUME NEW tm \in Timer, ~ Underflows(tm), "OUT" \notin tm.bits
  PROVE  /\ Settle(tm).bits = IF "LOAD" \in tm.bits THEN tm.bits \ {"COUNT3"} ELSE tm.bits
         /\ Settle(tm).cnt = IF "LOAD" \in tm.bits THEN tm.latch ELSE tm.cnt
<1> DEFINE b == IF "LOAD" \in tm.bits THEN tm.bits \ {"COUNT3"} ELSE tm.bits
           k == IF "LOAD" \in tm.bits THEN tm.latch ELSE tm.cnt
<1>1. Settle(tm) = [tm EXCEPT !.bits = b, !.cnt = k, !.n = tm.n + 0]
  BY Zenon DEF Settle
<1> HIDE DEF b, k
<1>2. Settle(tm).bits = b /\ Settle(tm).cnt = k
  BY <1>1 DEF Timer
<1> QED BY <1>2 DEF b, k

\* A single cycle's count.
LEMMA IncrementFacts ==
  ASSUME NEW tm \in Timer
  PROVE  LET i == Increment(tm) IN
         /\ i \in Timer /\ i.bits = Pipeline(tm.bits) /\ i.latch = tm.latch
         /\ i.lag = tm.lag - 1 /\ i.n = tm.n /\ i.due = tm.due
         /\ i.cnt = IF tm.cnt # 0 /\ "COUNT3" \in tm.bits THEN tm.cnt - 1 ELSE tm.cnt
<1>1. /\ tm.bits \in SUBSET Bits /\ Pipeline(tm.bits) \in SUBSET Bits
      /\ tm.cnt \in 0 .. Width - 1 /\ tm.lag \in Int
  BY PipelineBits DEF Timer
<1> DEFINE k == IF tm.cnt # 0 /\ "COUNT3" \in tm.bits THEN tm.cnt - 1 ELSE tm.cnt
<1>2. k \in 0 .. Width - 1 /\ tm.lag - 1 \in Int
  BY <1>1, TimerConstants
<1>3. Increment(tm) = [tm EXCEPT !.bits = Pipeline(tm.bits), !.cnt = k, !.lag = tm.lag - 1]
  BY DEF Increment
<1> HIDE DEF k
<1>4. Increment(tm) \in Timer
  BY <1>1, <1>2, <1>3 DEF Timer
<1>5. Increment(tm).cnt = k
  BY <1>3 DEF Timer
<1> QED BY <1>3, <1>4, <1>5 DEF Timer, k

\* A whole cycle: it counts an underflow when there is one.
LEMMA CycleFacts ==
  ASSUME NEW tm \in Timer
  PROVE  LET c == Cycle(tm) IN
         /\ c \in Timer /\ c.latch = tm.latch /\ c.lag = tm.lag - 1 /\ c.due = tm.due
         /\ "COUNT3" \in c.bits => c.cnt > 0 /\ "LOAD" \notin c.bits
         /\ "OUT" \in c.bits => "LOAD" \in c.bits
         /\ Underflows(Increment(tm)) => c.n = tm.n + 1
         /\ ~ Underflows(Increment(tm)) => c.n = tm.n
<1>1. tm.bits \in SUBSET Bits
  BY DEF Timer
<1>2. "OUT" \notin Increment(tm).bits
  BY <1>1, IncrementFacts, PipelineBits
<1> QED BY <1>2, IncrementFacts, SettleFacts DEF Cycle

\* A cycle without an underflow.
LEMMA QuietCycle ==
  ASSUME NEW tm \in Timer, ~ Underflows(Increment(tm))
  PROVE  LET c == Cycle(tm) IN
         /\ "START" \in c.bits <=> "START" \in tm.bits
         /\ "CR_ONESHOT" \in c.bits <=> "CR_ONESHOT" \in tm.bits
         /\ "PHI2IN" \in c.bits <=> "PHI2IN" \in tm.bits
         /\ "FLOAD" \notin c.bits
         /\ "STEP" \notin c.bits
         /\ "OUT" \notin c.bits
         /\ "COUNT2" \in c.bits <=> "START" \in tm.bits /\ "PHI2IN" \in tm.bits
         /\ "COUNT3" \in c.bits <=>
              /\ "COUNT2" \in tm.bits \/ ("STEP" \in tm.bits /\ "START" \in tm.bits)
              /\ "LOAD1" \notin tm.bits
         /\ "COUNT" \in c.bits <=> "COUNT3" \in tm.bits
         /\ "LOAD1" \in c.bits <=> "FLOAD" \in tm.bits
         /\ "LOAD" \in c.bits <=> "LOAD1" \in tm.bits
         /\ "ONESHOT0" \in c.bits <=> "CR_ONESHOT" \in tm.bits
         /\ "ONESHOT" \in c.bits <=> "ONESHOT0" \in tm.bits
<1>1. tm.bits \in SUBSET Bits
  BY DEF Timer
<1> DEFINE i == Increment(tm)
           t == Pipeline(tm.bits)
<1>2. i \in Timer /\ i.bits = t
  BY IncrementFacts
<1>3. "OUT" \notin i.bits
  BY <1>1, <1>2, PipelineBits
<1>4. Cycle(tm).bits = IF "LOAD" \in t THEN t \ {"COUNT3"} ELSE t
  BY <1>2, <1>3, QuietSettle DEF Cycle
<1> QED BY <1>1, <1>4, PipelineBits

\* The delays of the pipeline are over in four cycles (ciatimer.h: ciat_set_alarm).
LEMMA WalkIsShort ==
  ASSUME NEW tm \in Timer
  PROVE  WalkEnds(Walk(Walk(Walk(Walk(tm)))))
<1> DEFINE c1 == Cycle(tm)
           c2 == Cycle(c1)
           c3 == Cycle(c2)
           c4 == Cycle(c3)
<1>1. SUFFICES ASSUME ~ WalkEnds(tm), ~ WalkEnds(c1), ~ WalkEnds(c2), ~ WalkEnds(c3)
               PROVE  WalkEnds(c4)
  BY DEF Walk
<1>2. c1 \in Timer /\ c2 \in Timer /\ c3 \in Timer /\ c4 \in Timer
  BY CycleFacts
<1> HIDE DEF c1, c2, c3, c4
<1>q. /\ ~ Underflows(Increment(tm)) /\ ~ Underflows(Increment(c1))
      /\ ~ Underflows(Increment(c2)) /\ ~ Underflows(Increment(c3))
  BY <1>1 DEF WalkEnds
<1>3. /\ "START" \in c1.bits <=> "START" \in tm.bits
      /\ "PHI2IN" \in c1.bits <=> "PHI2IN" \in tm.bits
      /\ "CR_ONESHOT" \in c1.bits <=> "CR_ONESHOT" \in tm.bits
      /\ "ONESHOT0" \in c1.bits <=> "CR_ONESHOT" \in tm.bits
      /\ "FLOAD" \notin c1.bits /\ "STEP" \notin c1.bits
      /\ "COUNT2" \in c1.bits <=> "START" \in tm.bits /\ "PHI2IN" \in tm.bits
  BY <1>q, QuietCycle DEF c1
<1>4. /\ "START" \in c2.bits <=> "START" \in tm.bits
      /\ "PHI2IN" \in c2.bits <=> "PHI2IN" \in tm.bits
      /\ "CR_ONESHOT" \in c2.bits <=> "CR_ONESHOT" \in tm.bits
      /\ "ONESHOT0" \in c2.bits <=> "CR_ONESHOT" \in tm.bits
      /\ "ONESHOT" \in c2.bits <=> "CR_ONESHOT" \in tm.bits
      /\ "FLOAD" \notin c2.bits /\ "STEP" \notin c2.bits /\ "LOAD1" \notin c2.bits
      /\ "COUNT2" \in c2.bits <=> "START" \in tm.bits /\ "PHI2IN" \in tm.bits
  BY <1>2, <1>3, <1>q, QuietCycle DEF c2
<1>5. /\ "START" \in c3.bits <=> "START" \in tm.bits
      /\ "PHI2IN" \in c3.bits <=> "PHI2IN" \in tm.bits
      /\ "CR_ONESHOT" \in c3.bits <=> "CR_ONESHOT" \in tm.bits
      /\ "ONESHOT0" \in c3.bits <=> "CR_ONESHOT" \in tm.bits
      /\ "ONESHOT" \in c3.bits <=> "CR_ONESHOT" \in tm.bits
      /\ "FLOAD" \notin c3.bits /\ "STEP" \notin c3.bits /\ "LOAD1" \notin c3.bits
      /\ "LOAD" \notin c3.bits
      /\ "COUNT2" \in c3.bits <=> "START" \in tm.bits /\ "PHI2IN" \in tm.bits
      /\ "COUNT3" \in c3.bits <=> "START" \in tm.bits /\ "PHI2IN" \in tm.bits
  BY <1>2, <1>4, <1>q, QuietCycle DEF c3
<1>6. /\ "START" \in c4.bits <=> "START" \in tm.bits
      /\ "PHI2IN" \in c4.bits <=> "PHI2IN" \in tm.bits
      /\ "CR_ONESHOT" \in c4.bits <=> "CR_ONESHOT" \in tm.bits
      /\ "ONESHOT0" \in c4.bits <=> "CR_ONESHOT" \in tm.bits
      /\ "ONESHOT" \in c4.bits <=> "CR_ONESHOT" \in tm.bits
      /\ "FLOAD" \notin c4.bits /\ "STEP" \notin c4.bits /\ "LOAD1" \notin c4.bits
      /\ "LOAD" \notin c4.bits
      /\ "COUNT2" \in c4.bits <=> "START" \in tm.bits /\ "PHI2IN" \in tm.bits
      /\ "COUNT3" \in c4.bits <=> "START" \in tm.bits /\ "PHI2IN" \in tm.bits
      /\ "COUNT" \in c4.bits <=> "START" \in tm.bits /\ "PHI2IN" \in tm.bits
  BY <1>2, <1>5, <1>q, QuietCycle DEF c4
<1>7. CASE "START" \in tm.bits /\ "PHI2IN" \in tm.bits
  <2>1. WarpCounting(c4.bits)
    BY <1>6, <1>7 DEF WarpCounting, OneshotSettled, Counting
  <2> QED BY <2>1 DEF WalkEnds
<1>8. CASE ~ ("START" \in tm.bits /\ "PHI2IN" \in tm.bits)
  <2>1. WarpStopped(c4.bits)
    BY <1>6, <1>8 DEF WarpStopped, OneshotSettled, Counting
  <2> QED BY <2>1 DEF WalkEnds
<1> QED BY <1>7, <1>8

\* Timers with the same state, apart from the clock.
Alike(a, b) == a.bits = b.bits /\ a.cnt = b.cnt /\ a.latch = b.latch

\* The end of a cycle depends on the timer's state alone.
LEMMA AlikeSettle ==
  ASSUME NEW a \in Timer, NEW b \in Timer, Alike(a, b)
  PROVE  Alike(Settle(a), Settle(b))
<1> DEFINE under == a.cnt = 0 /\ "COUNT3" \in a.bits
           t1 == IF under THEN a.bits \cup {"LOAD", "OUT"} ELSE a.bits
           load == "LOAD" \in t1
           t2 == IF load THEN t1 \ {"COUNT3"} ELSE t1
           stop == "OUT" \in t2 /\ t2 \cap {"ONESHOT", "ONESHOT0"} # {}
           t == IF stop THEN t2 \ {"START", "COUNT2"} ELSE t2
           k == IF load THEN a.latch ELSE a.cnt
           m(n) == n + (IF under THEN 1 ELSE 0)
<1>1. Settle(a) = [a EXCEPT !.bits = t, !.cnt = k, !.n = m(a.n)]
  BY Zenon DEF Settle, Underflows
<1>2. Settle(b) = [b EXCEPT !.bits = t, !.cnt = k, !.n = m(b.n)]
  BY Zenon DEF Settle, Underflows, Alike
<1> HIDE DEF t, k, m
<1>3. /\ Settle(a).bits = t /\ Settle(a).cnt = k /\ Settle(a).latch = a.latch
      /\ Settle(b).bits = t /\ Settle(b).cnt = k /\ Settle(b).latch = b.latch
  BY <1>1, <1>2 DEF Timer
<1> QED BY <1>3 DEF Alike

\* So does ciat_set_alarm()'s walk, and the cycles it takes.
LEMMA AlikeWalk ==
  ASSUME NEW a \in Timer, NEW b \in Timer, Alike(a, b)
  PROVE  /\ Walk(a) \in Timer /\ Walk(b) \in Timer
         /\ Alike(Walk(a), Walk(b))
         /\ a.lag - Walk(a).lag = b.lag - Walk(b).lag
         /\ a.lag - Walk(a).lag \in Nat
         /\ WalkEnds(a) <=> WalkEnds(b)
<1>1. Alike(Increment(a), Increment(b))
  BY IncrementFacts DEF Alike
<1>2. WalkEnds(a) <=> WalkEnds(b)
  BY <1>1 DEF WalkEnds, Underflows, Alike
<1>3. Alike(Cycle(a), Cycle(b))
  BY <1>1, IncrementFacts, AlikeSettle DEF Cycle
<1>4. /\ Cycle(a) \in Timer /\ Cycle(a).lag = a.lag - 1
      /\ Cycle(b) \in Timer /\ Cycle(b).lag = b.lag - 1
      /\ a.lag \in Int /\ b.lag \in Int
  BY CycleFacts DEF Timer
<1>5. CASE WalkEnds(a)
  BY <1>2, <1>4, <1>5 DEF Walk
<1>6. CASE ~ WalkEnds(a)
  BY <1>2, <1>3, <1>4, <1>6 DEF Walk
<1> QED BY <1>2, <1>5, <1>6

\* The walk goes forward in time.
LEMMA WalkType ==
  ASSUME NEW a \in Timer
  PROVE  /\ Walk(a) \in Timer /\ a.lag - Walk(a).lag \in Nat
         /\ Walk(a) # a => Walk(a).lag < a.lag
<1>1. Cycle(a) \in Timer /\ Cycle(a).lag = a.lag - 1 /\ a.lag \in Int
  BY CycleFacts DEF Timer
<1> QED BY <1>1 DEF Walk

\* ciat_set_alarm() by the four steps of its walk.
LEMMA FourSteps ==
  ASSUME NEW tm
  PROVE  LET end == Walk(Walk(Walk(Walk(tm)))) IN
         NextUnderflow(tm) = IF WarpCounting(end.bits) THEN tm.lag - end.lag + end.cnt
                             ELSE IF WarpStopped(end.bits) THEN Never ELSE tm.lag - end.lag + 1
<1> DEFINE w1 == Walk(tm)
           w2 == Walk(w1)
           w3 == Walk(w2)
           w4 == Walk(w3)
           after == CHOOSE f : f = [k \in 0 .. 4 |-> IF k = 0 THEN tm ELSE Walk(f[k - 1])]
           g == [k \in 0 .. 4 |-> IF k = 0 THEN tm ELSE IF k = 1 THEN w1 ELSE IF k = 2 THEN w2
                                  ELSE IF k = 3 THEN w3 ELSE w4]
<1>1. \E f : f = [k \in 0 .. 4 |-> IF k = 0 THEN tm ELSE Walk(f[k - 1])]
  <2>1. g[0] = tm /\ g[1] = w1 /\ g[2] = w2 /\ g[3] = w3 /\ g[4] = w4
    OBVIOUS
  <2>2. ASSUME NEW k \in 0 .. 4 PROVE g[k] = IF k = 0 THEN tm ELSE Walk(g[k - 1])
    <3>1. k = 0 \/ k = 1 \/ k = 2 \/ k = 3 \/ k = 4
      OBVIOUS
    <3>2. 1 - 1 = 0 /\ 2 - 1 = 1 /\ 3 - 1 = 2 /\ 4 - 1 = 3
      OBVIOUS
    <3> HIDE DEF g
    <3> QED BY <2>1, <3>1, <3>2
  <2>3. g = [k \in 0 .. 4 |-> g[k]]
    OBVIOUS
  <2> HIDE DEF g
  <2>4. g = [k \in 0 .. 4 |-> IF k = 0 THEN tm ELSE Walk(g[k - 1])]
    BY <2>2, <2>3
  <2> QED BY <2>4
<1>2. after = [k \in 0 .. 4 |-> IF k = 0 THEN tm ELSE Walk(after[k - 1])]
  BY <1>1
<1>3. NextUnderflow(tm) = LET end == after[4]
                              walked == tm.lag - end.lag
                          IN  IF WarpCounting(end.bits) THEN walked + end.cnt
                              ELSE IF WarpStopped(end.bits) THEN Never ELSE walked + 1
  BY DEF NextUnderflow
<1> HIDE DEF after
<1>4. \A k \in 0 .. 4 : after[k] = IF k = 0 THEN tm ELSE Walk(after[k - 1])
  BY <1>2
<1>5. after[0] = tm
  BY <1>4
<1>6. after[1] = Walk(after[0]) /\ after[2] = Walk(after[1])
        /\ after[3] = Walk(after[2]) /\ after[4] = Walk(after[3])
  BY <1>4
<1>7. after[4] = Walk(Walk(Walk(Walk(tm))))
  BY <1>5, <1>6
<1> QED BY <1>3, <1>7

\* When the next underflow comes does not depend on the clock.
LEMMA AlikeUnderflow ==
  ASSUME NEW a \in Timer, NEW b \in Timer, Alike(a, b)
  PROVE  NextUnderflow(a) = NextUnderflow(b)
<1> DEFINE a1 == Walk(a)
           b1 == Walk(b)
           a2 == Walk(a1)
           b2 == Walk(b1)
           a3 == Walk(a2)
           b3 == Walk(b2)
           a4 == Walk(a3)
           b4 == Walk(b3)
<1>1. /\ a1 \in Timer /\ b1 \in Timer /\ Alike(a1, b1) /\ a.lag - a1.lag = b.lag - b1.lag
  BY AlikeWalk
<1> HIDE DEF a1, b1
<1>2. /\ a2 \in Timer /\ b2 \in Timer /\ Alike(a2, b2) /\ a1.lag - a2.lag = b1.lag - b2.lag
  BY <1>1, AlikeWalk
<1> HIDE DEF a2, b2
<1>3. /\ a3 \in Timer /\ b3 \in Timer /\ Alike(a3, b3) /\ a2.lag - a3.lag = b2.lag - b3.lag
  BY <1>2, AlikeWalk
<1> HIDE DEF a3, b3
<1>4. /\ a4 \in Timer /\ b4 \in Timer /\ Alike(a4, b4) /\ a3.lag - a4.lag = b3.lag - b4.lag
  BY <1>3, AlikeWalk
<1>5. NextUnderflow(a) = IF WarpCounting(a4.bits) THEN a.lag - a4.lag + a4.cnt
                         ELSE IF WarpStopped(a4.bits) THEN Never ELSE a.lag - a4.lag + 1
  BY FourSteps DEF a1, a2, a3, a4
<1>6. NextUnderflow(b) = IF WarpCounting(b4.bits) THEN b.lag - b4.lag + b4.cnt
                         ELSE IF WarpStopped(b4.bits) THEN Never ELSE b.lag - b4.lag + 1
  BY FourSteps DEF b1, b2, b3, b4
<1> HIDE DEF a4, b4
<1>7. /\ a.lag \in Int /\ a1.lag \in Int /\ a2.lag \in Int /\ a3.lag \in Int /\ a4.lag \in Int
      /\ b.lag \in Int /\ b1.lag \in Int /\ b2.lag \in Int /\ b3.lag \in Int /\ b4.lag \in Int
  BY <1>1, <1>2, <1>3, <1>4 DEF Timer
<1>8. a.lag - a4.lag = b.lag - b4.lag
  <2>1. /\ a.lag - a1.lag = b.lag - b1.lag
        /\ a1.lag - a2.lag = b1.lag - b2.lag
        /\ a2.lag - a3.lag = b2.lag - b3.lag
        /\ a3.lag - a4.lag = b3.lag - b4.lag
    BY <1>1, <1>2, <1>3, <1>4
  <2> QED BY <1>7, <2>1
<1> QED BY <1>4, <1>5, <1>6, <1>8 DEF Alike

\* The underflow is a cycle away or more.
LEMMA UnderflowType ==
  ASSUME NEW tm \in Timer, "COUNT3" \in tm.bits => tm.cnt > 0 \/ "START" \notin tm.bits
  PROVE  NextUnderflow(tm) \in (Nat \ {0}) \cup {Never}
<1> DEFINE w1 == Walk(tm)
           w2 == Walk(w1)
           w3 == Walk(w2)
           w4 == Walk(w3)
<1>1. w1 \in Timer /\ tm.lag - w1.lag \in Nat /\ (w1 # tm => w1.lag < tm.lag)
  BY WalkType
<1> HIDE DEF w1
<1>2. w2 \in Timer /\ w1.lag - w2.lag \in Nat /\ (w2 # w1 => w2.lag < w1.lag)
  BY <1>1, WalkType
<1> HIDE DEF w2
<1>3. w3 \in Timer /\ w2.lag - w3.lag \in Nat /\ (w3 # w2 => w3.lag < w2.lag)
  BY <1>2, WalkType
<1> HIDE DEF w3
<1>4. w4 \in Timer /\ w3.lag - w4.lag \in Nat /\ (w4 # w3 => w4.lag < w3.lag)
  BY <1>3, WalkType
<1>5. NextUnderflow(tm) = IF WarpCounting(w4.bits) THEN tm.lag - w4.lag + w4.cnt
                          ELSE IF WarpStopped(w4.bits) THEN Never ELSE tm.lag - w4.lag + 1
  BY FourSteps DEF w1, w2, w3, w4
<1> HIDE DEF w4
<1>6. /\ tm.lag \in Int /\ w1.lag \in Int /\ w2.lag \in Int /\ w3.lag \in Int /\ w4.lag \in Int
      /\ w4.cnt \in Nat
  BY <1>1, <1>2, <1>3, <1>4, TimerConstants DEF Timer
<1>7. tm.lag - w4.lag \in Nat
  BY <1>1, <1>2, <1>3, <1>4, <1>6
<1>8. CASE w4 = tm
  <2>1. WarpCounting(w4.bits) => w4.cnt > 0
    BY <1>8 DEF WarpCounting, Counting
  <2> QED BY <1>5, <1>6, <1>7, <2>1
<1>9. CASE w4 # tm
  <2>1. tm.lag - w4.lag > 0
    BY <1>1, <1>2, <1>3, <1>4, <1>6, <1>9
  <2> QED BY <1>5, <1>6, <1>7, <2>1
<1> QED BY <1>8, <1>9

\* A cycle before the underflow brings it a cycle nearer.
LEMMA UnderflowNears ==
  ASSUME NEW tm \in Timer, ~ WalkEnds(tm)
  PROVE  NextUnderflow(tm) = IF NextUnderflow(Cycle(tm)) = Never THEN Never
                             ELSE NextUnderflow(Cycle(tm)) + 1
<1> DEFINE c == Cycle(tm)
           w == Walk(Walk(Walk(c)))
<1>1. Walk(tm) = c
  BY DEF Walk
<1>2. c \in Timer /\ c.lag = tm.lag - 1 /\ tm.lag \in Int
  BY CycleFacts DEF Timer
<1>3. Walk(Walk(Walk(Walk(tm)))) = w
  BY <1>1
<1>4. WalkEnds(w)
  BY <1>3, WalkIsShort
<1>5. Walk(w) = w
  BY <1>4 DEF Walk
<1>6. NextUnderflow(tm) = IF WarpCounting(w.bits) THEN tm.lag - w.lag + w.cnt
                          ELSE IF WarpStopped(w.bits) THEN Never ELSE tm.lag - w.lag + 1
  BY <1>3, FourSteps
<1>7. NextUnderflow(c) = IF WarpCounting(w.bits) THEN c.lag - w.lag + w.cnt
                         ELSE IF WarpStopped(w.bits) THEN Never ELSE c.lag - w.lag + 1
  BY <1>5, FourSteps
<1>8. w \in Timer /\ c.lag - w.lag \in Nat
  <2> DEFINE u == Walk(c)
             v == Walk(u)
  <2>1. u \in Timer /\ c.lag - u.lag \in Nat
    BY <1>2, WalkType
  <2> HIDE DEF u, c
  <2>2. v \in Timer /\ u.lag - v.lag \in Nat
    BY <2>1, WalkType
  <2> HIDE DEF v
  <2>3. Walk(v) \in Timer /\ v.lag - Walk(v).lag \in Nat
    BY <2>2, WalkType
  <2>4. w = Walk(v)
    BY DEF u, v
  <2>5. c.lag \in Int /\ u.lag \in Int /\ v.lag \in Int /\ Walk(v).lag \in Int
    BY <1>2, <2>1, <2>2, <2>3 DEF Timer
  <2>6. c.lag - Walk(v).lag \in Nat
    BY <2>1, <2>2, <2>3, <2>5
  <2> HIDE DEF w
  <2> QED BY <2>3, <2>4, <2>6
<1> HIDE DEF c, w
<1>9. w.lag \in Int /\ w.cnt \in Nat /\ c.lag \in Int
  BY <1>2, <1>8, TimerConstants DEF Timer
<1>10. NextUnderflow(c) # Never \/ (~ WarpCounting(w.bits) /\ WarpStopped(w.bits))
  BY <1>7, <1>8, <1>9 DEF Never
<1>11. NextUnderflow(tm) = IF NextUnderflow(c) = Never THEN Never ELSE NextUnderflow(c) + 1
  BY <1>2, <1>6, <1>7, <1>8, <1>9, <1>10 DEF Never
<1> QED BY <1>11 DEF c

\* The alarm of a timer in a state that lasts.
LEMMA UnderflowEnds ==
  ASSUME NEW tm \in Timer, WalkEnds(tm)
  PROVE  NextUnderflow(tm) = IF WarpCounting(tm.bits) THEN tm.cnt
                             ELSE IF WarpStopped(tm.bits) THEN Never ELSE 1
<1>1. Walk(tm) = tm
  BY DEF Walk
<1>2. tm.lag - tm.lag = 0 /\ 0 + tm.cnt = tm.cnt /\ 0 + 1 = 1
  BY TimerConstants DEF Timer
<1>3. NextUnderflow(tm) = IF WarpCounting(tm.bits) THEN (tm.lag - tm.lag) + tm.cnt
                          ELSE IF WarpStopped(tm.bits) THEN Never ELSE (tm.lag - tm.lag) + 1
  BY <1>1, FourSteps
<1> QED BY <1>2, <1>3

\* What holds of a timer at any time: one that counts is not at zero, unless it was stopped,
\* and a pulse comes with a load.
Sound(tm) ==
  /\ tm \in Timer /\ tm.lag \in Nat
  /\ "COUNT3" \in tm.bits => tm.cnt > 0 \/ "START" \notin tm.bits
  /\ "OUT" \in tm.bits => "LOAD" \in tm.bits

\* ... and of one that has just been computed.
Settled(tm) == "COUNT3" \in tm.bits => tm.cnt > 0 /\ "LOAD" \notin tm.bits

\* The periods that fit.
LEMMA DivFacts ==
  ASSUME NEW a \in Nat, NEW b \in Nat, b > 0
  PROVE  a \div b \in Nat /\ (a \div b) * b \in Nat /\ (a \div b) * b <= a
<1>1. a \div b \in Nat
  OBVIOUS
<1>2. (a \div b) * b <= a
  OBVIOUS
<1>3. \A d \in Nat : d * b \in Nat
  OBVIOUS
<1> QED BY <1>1, <1>2, <1>3

\* A timer but for some of its fields.
Made(a, tm, t, k, n, l) ==
  /\ a \in Timer
  /\ a.bits = t /\ a.cnt = k /\ a.n = n /\ a.lag = l /\ a.latch = tm.latch /\ a.due = tm.due

\* What an assignment of these fields makes of a timer: counter, underflows, lag.
LEMMA MadeCount ==
  ASSUME NEW tm \in Timer, NEW k \in 0 .. Width - 1, NEW l \in Int, NEW n \in Nat,
         NEW a, a = [tm EXCEPT !.cnt = k, !.n = n, !.lag = l]
  PROVE  Made(a, tm, tm.bits, k, n, l)
BY DEF Timer, Made

\* ... counter and lag,
LEMMA MadeStop ==
  ASSUME NEW tm \in Timer, NEW k \in 0 .. Width - 1, NEW l \in Int,
         NEW a, a = [tm EXCEPT !.cnt = k, !.lag = l]
  PROVE  Made(a, tm, tm.bits, k, tm.n, l)
BY DEF Timer, Made

\* ... lag and underflows,
LEMMA MadeSkip ==
  ASSUME NEW tm \in Timer, NEW l \in Int, NEW n \in Nat,
         NEW a, a = [tm EXCEPT !.lag = l, !.n = n]
  PROVE  Made(a, tm, tm.bits, tm.cnt, n, l)
BY DEF Timer, Made

\* ... bits and lag.
LEMMA MadeStep ==
  ASSUME NEW tm \in Timer, NEW t \in SUBSET Bits, NEW l \in Int,
         NEW a, a = [tm EXCEPT !.bits = t, !.lag = l]
  PROVE  Made(a, tm, t, tm.cnt, tm.n, l)
BY DEF Timer, Made

\* The jump over a whole count.
LEMMA JumpFacts ==
  ASSUME NEW tm \in Timer, tm.lag \in Nat, tm.lag > 0, tm.cnt > 0
  PROVE  LET a == JumpToZero(tm) IN
         /\ a \in Timer /\ a.lag \in 0 .. tm.lag - 1
         /\ a.bits = tm.bits /\ a.latch = tm.latch /\ a.due = tm.due
         /\ tm.cnt > tm.lag => a.lag = 0 /\ a.n = tm.n /\ a.cnt = tm.cnt - tm.lag
         /\ tm.cnt = tm.lag => a.lag = 0 /\ a.n = tm.n /\ a.cnt = 0
         /\ ~ (tm.cnt > tm.lag) => a.cnt = 0
         /\ ~ (tm.cnt > tm.lag) /\ tm.bits \cap {"CR_ONESHOT", "ONESHOT0"} # {} =>
              a.n = tm.n /\ a.lag = tm.lag - tm.cnt
         /\ ~ (tm.cnt > tm.lag) /\ tm.bits \cap {"CR_ONESHOT", "ONESHOT0"} = {} =>
              \E p \in Nat : /\ a.n = tm.n + p
                            /\ a.lag = (tm.lag - tm.cnt) - p * (tm.latch + 1)
<1> USE TimerConstants
<1>1. /\ tm.cnt \in Nat /\ tm.cnt < Width /\ tm.latch \in Nat /\ tm.n \in Nat
  BY DEF Timer
<1> DEFINE rest == tm.lag - tm.cnt
           periods == IF rest % Width >= tm.latch + 1 THEN rest \div (tm.latch + 1) ELSE 0
<1>2. CASE tm.cnt > tm.lag
  <2>1. tm.lag % Width = tm.lag
    BY <1>1, <1>2
  <2>2. JumpToZero(tm) = [tm EXCEPT !.cnt = tm.cnt - tm.lag, !.lag = 0]
    BY <1>2, <2>1 DEF JumpToZero
  <2>3. tm.cnt - tm.lag \in 0 .. Width - 1
    BY <1>1, <1>2
  <2> DEFINE k == tm.cnt - tm.lag
  <2> HIDE DEF k
  <2>4. JumpToZero(tm) = [tm EXCEPT !.cnt = k, !.lag = 0] /\ k \in 0 .. Width - 1
    BY <2>2, <2>3 DEF k
  <2>5. Made(JumpToZero(tm), tm, tm.bits, k, tm.n, 0)
    <3> DEFINE z == 0
    <3>1. JumpToZero(tm) = [tm EXCEPT !.cnt = k, !.lag = z] /\ z \in Int
      BY <2>4
    <3> HIDE DEF z
    <3>2. Made(JumpToZero(tm), tm, tm.bits, k, tm.n, z)
      BY <2>4, <3>1, MadeStop
    <3> QED BY <3>2 DEF z
  <2> QED BY <1>1, <1>2, <2>5 DEF k, Made
<1>3. CASE ~ (tm.cnt > tm.lag) /\ tm.bits \cap {"CR_ONESHOT", "ONESHOT0"} # {}
  <2>1. JumpToZero(tm) = [tm EXCEPT !.cnt = 0, !.lag = tm.lag - tm.cnt]
    BY <1>3 DEF JumpToZero
  <2>2. tm.lag - tm.cnt \in 0 .. tm.lag - 1 /\ (tm.cnt = tm.lag => tm.lag - tm.cnt = 0)
    BY <1>1, <1>3
  <2>3. 0 \in 0 .. Width - 1
    OBVIOUS
  <2> DEFINE l == tm.lag - tm.cnt
  <2> HIDE DEF l
  <2>4. JumpToZero(tm) = [tm EXCEPT !.cnt = 0, !.lag = l] /\ l \in 0 .. tm.lag - 1
        /\ (tm.cnt = tm.lag => l = 0)
    BY <2>1, <2>2 DEF l
  <2>5. Made(JumpToZero(tm), tm, tm.bits, 0, tm.n, l)
    <3> DEFINE z == 0
    <3>1. JumpToZero(tm) = [tm EXCEPT !.cnt = z, !.lag = l] /\ z \in 0 .. Width - 1 /\ l \in Int
      BY <2>3, <2>4
    <3> HIDE DEF z
    <3>2. Made(JumpToZero(tm), tm, tm.bits, z, tm.n, l)
      BY <3>1, MadeStop
    <3> QED BY <3>2 DEF z
  <2>6. l = tm.lag - tm.cnt
    BY DEF l
  <2> QED BY <1>1, <1>3, <2>4, <2>5, <2>6 DEF Made
<1>4. CASE ~ (tm.cnt > tm.lag) /\ tm.bits \cap {"CR_ONESHOT", "ONESHOT0"} = {}
  <2>1. rest \in Nat /\ rest <= tm.lag - 1
    BY <1>1, <1>4
  <2>2. periods \in Nat /\ periods * (tm.latch + 1) \in Nat /\ periods * (tm.latch + 1) <= rest
    <3>1. CASE rest % Width >= tm.latch + 1
      <4> DEFINE b == tm.latch + 1
      <4>1. b \in Nat /\ b > 0
        BY <1>1
      <4> HIDE DEF b, rest
      <4>2. rest \div b \in Nat /\ (rest \div b) * b \in Nat /\ (rest \div b) * b <= rest
        BY <2>1, <4>1, DivFacts
      <4> QED BY <3>1, <4>2 DEF b
    <3>2. CASE ~ (rest % Width >= tm.latch + 1)
      <4>1. periods = 0
        BY <3>2
      <4> HIDE DEF periods, rest
      <4> QED BY <1>1, <2>1, <4>1
    <3> QED BY <3>1, <3>2
  <2> DEFINE span == periods * (tm.latch + 1)
             l == rest - span
             m == tm.n + periods
  <2>3. JumpToZero(tm) = [tm EXCEPT !.cnt = 0, !.n = m, !.lag = l]
    BY <1>4 DEF JumpToZero
  <2>4. rest = 0 => periods = 0
    BY <1>1
  <2>5. tm.cnt = tm.lag => rest = 0
    BY <1>1
  <2>z. periods = 0 => span = 0
    BY <1>1
  <2>y. span \in Nat /\ span <= rest
    BY <2>2
  <2>x. \E p \in Nat : m = tm.n + p /\ l = (tm.lag - tm.cnt) - p * (tm.latch + 1)
    BY <2>2
  <2> HIDE DEF span, periods, rest
  <2>6. l \in 0 .. tm.lag - 1 /\ m \in Nat /\ (tm.cnt = tm.lag => l = 0 /\ m = tm.n)
    BY <1>1, <2>1, <2>2, <2>4, <2>5, <2>y, <2>z
  <2> HIDE DEF l, m
  <2>7. 0 \in 0 .. Width - 1 /\ l \in Int
    BY <2>6
  <2>8. Made(JumpToZero(tm), tm, tm.bits, 0, m, l)
    BY <2>3, <2>6, <2>7, MadeCount DEF Timer
  <2> QED BY <1>1, <1>4, <2>6, <2>8, <2>x DEF Made
<1> QED BY <1>2, <1>3, <1>4

\* The jump over underflows in every other cycle.
LEMMA ByTwoFacts ==
  ASSUME NEW tm \in Timer, tm.lag \in Nat, tm.lag > 0
  PROVE  LET a == JumpByTwo(tm) IN
         /\ a \in Timer /\ a.lag \in 0 .. tm.lag - 1
         /\ a.latch = tm.latch /\ a.due = tm.due /\ a.cnt = tm.cnt
         /\ a.bits \in {tm.bits, Pipeline(tm.bits)}
         /\ tm.lag = 1 => a.bits = Pipeline(tm.bits) /\ a.lag = 0 /\ a.n = tm.n
         /\ tm.lag = 2 => a.bits = tm.bits /\ a.lag = 0 /\ a.n = tm.n + 1
<1>1. Pipeline(tm.bits) \in SUBSET Bits /\ tm.n \in Nat
  BY PipelineBits DEF Timer
<1>2. CASE tm.lag >= 2
  <2> DEFINE l == tm.lag % 2
             m == tm.n + tm.lag \div 2
  <2>1. l \in 0 .. tm.lag - 1 /\ m \in Nat /\ (tm.lag = 2 => l = 0 /\ m = tm.n + 1)
    BY <1>1, <1>2
  <2>2. JumpByTwo(tm) = [tm EXCEPT !.lag = l, !.n = m]
    BY <1>2 DEF JumpByTwo
  <2> HIDE DEF l, m
  <2>3. l \in Int
    BY <2>1
  <2>4. Made(JumpByTwo(tm), tm, tm.bits, tm.cnt, m, l)
    BY <2>1, <2>2, <2>3, MadeSkip DEF Timer
  <2> QED BY <1>2, <2>1, <2>4 DEF Made
<1>3. CASE ~ (tm.lag >= 2)
  <2>1. tm.lag = 1 /\ tm.lag - 1 = 0
    BY <1>3
  <2>2. JumpByTwo(tm) = [tm EXCEPT !.bits = Pipeline(tm.bits), !.lag = 0]
    BY <1>3, <2>1 DEF JumpByTwo
  <2>3. Made(JumpByTwo(tm), tm, Pipeline(tm.bits), tm.cnt, tm.n, 0)
    <3> DEFINE z == 0
    <3>1. JumpByTwo(tm) = [tm EXCEPT !.bits = Pipeline(tm.bits), !.lag = z] /\ z \in Int
      BY <2>2
    <3> HIDE DEF z
    <3>2. Made(JumpByTwo(tm), tm, Pipeline(tm.bits), tm.cnt, tm.n, z)
      BY <1>1, <3>1, MadeStep
    <3> QED BY <3>2 DEF z
  <2> QED BY <2>1, <2>3 DEF Made
<1> QED BY <1>2, <1>3

\* A round of ciat_update().
LEMMA RoundFacts ==
  ASSUME NEW tm, Sound(tm), tm.lag > 0
  PROVE  LET s == Round(tm) IN
         /\ Sound(s) /\ Settled(s) /\ s.lag \in 0 .. tm.lag - 1
         /\ s.latch = tm.latch /\ s.due = tm.due
<1> DEFINE a == Advance(tm)
<1>1. tm \in Timer /\ tm.lag \in Nat /\ tm.bits \in SUBSET Bits
  BY DEF Sound, Timer
<1>2. SUFFICES /\ a \in Timer /\ a.lag \in 0 .. tm.lag - 1 /\ a.latch = tm.latch
               /\ a.due = tm.due /\ ("OUT" \in a.bits => "LOAD" \in a.bits)
  <2>1. Round(tm) = Settle(a)
    BY <1>1 DEF Round
  <2> HIDE DEF a
  <2> QED BY <1>1, <1>2, <2>1, SettleFacts DEF Sound, Settled
<1>3. CASE WarpCounting(tm.bits)
  <2>1. tm.cnt > 0
    BY <1>3 DEF Sound, WarpCounting, Counting
  <2>2. a = JumpToZero(tm)
    BY <1>3 DEF Advance
  <2> QED BY <1>1, <2>1, <2>2, JumpFacts DEF Sound
<1>4. CASE /\ ~ WarpCounting(tm.bits)
           /\ WarpStopped(tm.bits) /\ tm.bits \cap {"FLOAD", "LOAD1", "LOAD"} = {}
  <2>1. a = [tm EXCEPT !.lag = 0]
    BY <1>4 DEF Advance
  <2> QED BY <1>1, <2>1 DEF Sound, Timer
<1>5. CASE /\ ~ WarpCounting(tm.bits)
           /\ ~ (WarpStopped(tm.bits) /\ tm.bits \cap {"FLOAD", "LOAD1", "LOAD"} = {})
           /\ WarpByTwo(tm)
  <2>1. a = JumpByTwo(tm)
    BY <1>5 DEF Advance
  <2>2. "OUT" \notin Pipeline(tm.bits)
    BY <1>1, PipelineBits
  <2> QED BY <1>1, <2>1, <2>2, ByTwoFacts DEF Sound
<1>6. CASE /\ ~ WarpCounting(tm.bits)
           /\ ~ (WarpStopped(tm.bits) /\ tm.bits \cap {"FLOAD", "LOAD1", "LOAD"} = {})
           /\ ~ WarpByTwo(tm)
  <2>1. a = Increment(tm)
    BY <1>6 DEF Advance
  <2>2. "OUT" \notin Pipeline(tm.bits)
    BY <1>1, PipelineBits
  <2>3. tm.lag - 1 \in 0 .. tm.lag - 1
    BY <1>1
  <2> QED BY <1>1, <2>1, <2>2, <2>3, IncrementFacts
<1> QED BY <1>3, <1>4, <1>5, <1>6

\* A timer in which a whole count is jumped over does not settle before the count is over.
LEMMA CountingSettles ==
  ASSUME NEW a \in Timer, WarpCounting(a.bits), "OUT" \notin a.bits
  PROVE  /\ a.cnt > 0 => Alike(Settle(a), a) /\ ~ Underflows(a)
         /\ a.cnt = 0 => Underflows(a)
<1>1. "LOAD" \notin a.bits /\ "COUNT3" \in a.bits
  BY DEF WarpCounting, Counting
<1>2. ASSUME a.cnt > 0 PROVE Alike(Settle(a), a) /\ ~ Underflows(a)
  <2>1. ~ Underflows(a)
    BY <1>2, TimerConstants DEF Underflows, Timer
  <2> QED BY <1>1, <2>1, QuietSettle, SettleFacts DEF Alike
<1> QED BY <1>1, <1>2 DEF Underflows

\* A round does not pass the next underflow without counting it, and comes nearer to it.
LEMMA RoundUnderflow ==
  ASSUME NEW tm, Sound(tm), tm.lag > 0,
         NextUnderflow(tm) # Never, tm.lag <= NextUnderflow(tm)
  PROVE  LET s == Round(tm) IN
         \/ /\ s.n = tm.n
            /\ NextUnderflow(s) # Never
            /\ NextUnderflow(s) = NextUnderflow(tm) - (tm.lag - s.lag)
         \/ s.n = tm.n + 1 /\ s.lag = 0 /\ NextUnderflow(tm) = tm.lag
<1> DEFINE a == Advance(tm)
           s == Round(tm)
           u == NextUnderflow(tm)
<1>1. /\ tm \in Timer /\ tm.lag \in Nat /\ tm.bits \in SUBSET Bits
      /\ tm.cnt \in Nat /\ tm.cnt < Width /\ tm.n \in Nat
  BY TimerConstants DEF Sound, Timer
<1>2. s = Settle(a)
  BY <1>1 DEF Round
<1>3. ~ WarpStopped(tm.bits)
  <2>1. ASSUME WarpStopped(tm.bits) PROVE FALSE
    <3>1. WalkEnds(tm) /\ ~ WarpCounting(tm.bits)
      BY <2>1 DEF WalkEnds, WarpCounting, WarpStopped, Counting
    <3> QED BY <1>1, <2>1, <3>1, UnderflowEnds
  <2> QED BY <2>1
<1>4. CASE WarpCounting(tm.bits)
  <2>1. u = tm.cnt /\ tm.cnt > 0 /\ "OUT" \notin tm.bits
    BY <1>1, <1>4, UnderflowEnds DEF WalkEnds, Sound, WarpCounting, Counting
  <2>2. a = JumpToZero(tm)
    BY <1>4 DEF Advance
  <2> HIDE DEF a, s
  <2>3. a \in Timer /\ a.bits = tm.bits /\ a.latch = tm.latch /\ a.lag = 0 /\ a.n = tm.n
        /\ a.cnt = tm.cnt - tm.lag
    <3>1. CASE tm.cnt > tm.lag
      BY <1>1, <2>1, <2>2, <3>1, JumpFacts
    <3>2. CASE tm.cnt = tm.lag
      BY <1>1, <2>1, <2>2, <3>2, JumpFacts
    <3> QED BY <1>1, <2>1, <3>1, <3>2
  <2>4. CASE tm.cnt > tm.lag
    <3>1. Alike(s, a) /\ ~ Underflows(a) /\ a.cnt > 0
      BY <1>1, <1>2, <1>4, <2>1, <2>3, <2>4, CountingSettles
    <3>2. s \in Timer /\ s.n = tm.n /\ s.lag = 0
      BY <1>2, <2>3, <3>1, SettleFacts
    <3>3. WarpCounting(s.bits) /\ s.cnt = tm.cnt - tm.lag
      BY <1>4, <2>3, <3>1 DEF Alike
    <3>4. NextUnderflow(s) = tm.cnt - tm.lag
      BY <3>2, <3>3, UnderflowEnds DEF WalkEnds
    <3> QED BY <1>1, <2>1, <3>2, <3>4 DEF Never, s
  <2>5. CASE tm.cnt = tm.lag
    <3>1. Underflows(a)
      BY <1>1, <1>4, <2>1, <2>3, <2>5, CountingSettles
    <3>2. s.n = tm.n + 1 /\ s.lag = 0
      BY <1>2, <2>3, <3>1, SettleFacts
    <3> QED BY <2>1, <2>5, <3>2 DEF s
  <2> QED BY <1>1, <2>1, <2>4, <2>5
<1>5. CASE ~ WarpCounting(tm.bits) /\ WarpByTwo(tm)
  <2> DEFINE c == Cycle(tm)
  <2>1. a = JumpByTwo(tm)
    BY <1>3, <1>5 DEF Advance
  <2>2. /\ tm.bits = {"COUNT", "OUT", "LOAD", "PHI2IN", "COUNT2", "START"}
        /\ tm.cnt = 1 /\ tm.latch = 1
    BY <1>5 DEF WarpByTwo
  <2>3. /\ Increment(tm) \in Timer /\ Increment(tm).bits = Pipeline(tm.bits)
        /\ Increment(tm).cnt = 1 /\ Increment(tm).latch = 1
        /\ Increment(tm).lag = tm.lag - 1 /\ Increment(tm).n = tm.n
    BY <1>1, <2>2, IncrementFacts
  <2>4. /\ "COUNT3" \in Pipeline(tm.bits) /\ "COUNT" \notin Pipeline(tm.bits)
        /\ "LOAD" \notin Pipeline(tm.bits) /\ "OUT" \notin Pipeline(tm.bits)
        /\ "START" \in Pipeline(tm.bits) /\ "PHI2IN" \in Pipeline(tm.bits)
    BY <1>1, <2>2, PipelineBits
  <2>5. ~ Underflows(Increment(tm))
    BY <2>3 DEF Underflows
  <2>6. /\ c \in Timer /\ Alike(c, Increment(tm)) /\ c.lag = tm.lag - 1 /\ c.n = tm.n
    <3>1. Alike(Settle(Increment(tm)), Increment(tm))
      BY <2>3, <2>4, <2>5, QuietSettle, SettleFacts DEF Alike
    <3> QED BY <1>1, <2>5, <3>1, CycleFacts DEF Cycle
  <2> HIDE DEF c
  <2>7. c.cnt = 1 /\ c.bits = Pipeline(tm.bits)
    BY <2>3, <2>6 DEF Alike
  <2>8. ~ WarpCounting(c.bits) /\ ~ WarpStopped(c.bits)
    BY <2>4, <2>7 DEF WarpCounting, WarpStopped, Counting
  <2>9. Underflows(Increment(c))
    <3>1. "COUNT3" \in Pipeline(c.bits)
      BY <1>1, <2>2, <2>6, <2>7, PipelineBits DEF Timer
    <3> QED BY <2>4, <2>6, <2>7, <3>1, IncrementFacts DEF Underflows
  <2>10. NextUnderflow(c) = 1
    BY <2>6, <2>8, <2>9, UnderflowEnds DEF WalkEnds
  <2>11. u = 2
    <3>1. ~ WalkEnds(tm)
      BY <1>3, <1>5, <2>5 DEF WalkEnds
    <3> QED BY <1>1, <2>10, <3>1, UnderflowNears DEF c, Never
  <2>12. CASE tm.lag = 1
    <3>1. a.bits = Pipeline(tm.bits) /\ a.cnt = 1 /\ a.latch = 1 /\ a.lag = 0 /\ a.n = tm.n
          /\ a \in Timer
      BY <1>1, <2>1, <2>2, <2>12, ByTwoFacts
    <3> HIDE DEF a, s
    <3>2. Alike(s, a) /\ s.lag = 0 /\ s.n = tm.n /\ s \in Timer
      <4>1. ~ Underflows(a)
        BY <3>1 DEF Underflows
      <4> QED BY <1>2, <2>4, <3>1, <4>1, QuietSettle, SettleFacts DEF Alike
    <3>3. Alike(s, c)
      BY <2>3, <2>6, <3>1, <3>2 DEF Alike
    <3>4. NextUnderflow(s) = 1
      BY <2>6, <2>10, <3>2, <3>3, AlikeUnderflow
    <3> QED BY <2>11, <2>12, <3>2, <3>4 DEF s, Never
  <2>13. CASE tm.lag = 2
    <3>1. a.bits = tm.bits /\ a.cnt = 1 /\ a.lag = 0 /\ a.n = tm.n + 1 /\ a \in Timer
      BY <1>1, <2>1, <2>2, <2>13, ByTwoFacts
    <3> HIDE DEF a, s
    <3>2. ~ Underflows(a)
      BY <3>1 DEF Underflows
    <3>3. s.lag = 0 /\ s.n = tm.n + 1
      BY <1>2, <3>1, <3>2, SettleFacts
    <3> QED BY <2>11, <2>13, <3>3 DEF s
  <2> QED BY <1>1, <2>11, <2>12, <2>13
<1>6. CASE ~ WarpCounting(tm.bits) /\ ~ WarpByTwo(tm)
  <2>1. s = Cycle(tm)
    BY <1>2, <1>3, <1>6 DEF Advance, Cycle
  <2>2. CASE Underflows(Increment(tm))
    <3>1. u = 1
      BY <1>1, <1>3, <1>6, <2>2, UnderflowEnds DEF WalkEnds
    <3> QED BY <1>1, <2>1, <2>2, <3>1, CycleFacts
  <2>3. CASE ~ Underflows(Increment(tm))
    <3>1. ~ WalkEnds(tm)
      BY <1>3, <1>6, <2>3 DEF WalkEnds
    <3>2. /\ s.n = tm.n /\ s.lag = tm.lag - 1 /\ s \in Timer
          /\ "COUNT3" \in s.bits => s.cnt > 0
      BY <1>1, <2>1, <2>3, CycleFacts
    <3>3. NextUnderflow(s) # Never /\ u = NextUnderflow(s) + 1
      BY <1>1, <2>1, <3>1, UnderflowNears
    <3>4. NextUnderflow(s) \in Nat
      BY <3>2, <3>3, UnderflowType
    <3> HIDE DEF s
    <3>5. NextUnderflow(s) = NextUnderflow(tm) - (tm.lag - s.lag)
      BY <1>1, <3>2, <3>3, <3>4
    <3> QED BY <3>2, <3>3, <3>5 DEF s
  <2> QED BY <2>2, <2>3
<1> QED BY <1>4, <1>5, <1>6
-----------------------------------------------------------------------------
(* The loops are recursive functions: induction over the naturals, in sets.  *)

\* The order of the natural numbers.
NatLess == {p \in Nat \X Nat : p[1] < p[2]}

\* A set of numbers with a member has a least one.
LEMMA LeastNat ==
  ASSUME NEW S \in SUBSET Nat, S # {}
  PROVE  \E x \in S : \A y \in S : x <= y
<1>1. IsWellFoundedOn(NatLess, Nat)
  BY NatLessThanWellFounded, SMT DEF NatLess, OpToRel
<1>2. PICK x \in S : \A y \in S : <<y, x>> \notin NatLess
  BY <1>1, WFMin
<1>3. ASSUME NEW y \in S PROVE x <= y
  <2>1. x \in Nat /\ y \in Nat /\ <<y, x>> \in Nat \X Nat
    OBVIOUS
  <2>2. ~ (y < x)
    BY <1>2, <2>1 DEF NatLess
  <2> QED BY <2>1, <2>2
<1> QED BY <1>3

\* Induction for a set, since the induction theorem takes an operator.
LEMMA Induct ==
  ASSUME NEW S \in SUBSET Nat, 0 \in S, \A k \in S : k + 1 \in S
  PROVE  S = Nat
<1>1. ASSUME NEW n \in Nat, n \notin S PROVE FALSE
  <2> DEFINE B == Nat \ S
  <2>1. PICK m \in B : \A k \in B : m <= k
    BY <1>1, LeastNat
  <2>2. m # 0 /\ m - 1 \in Nat /\ m - 1 \notin B
    BY <2>1
  <2>3. m - 1 \in S /\ (m - 1) + 1 = m
    BY <2>1, <2>2
  <2> QED BY <2>1, <2>3
<1> QED BY <1>1

\* The sound timers.
Sounds == {tm \in Timer : Sound(tm)}

\* A round of ciat_update() keeps a timer sound.
LEMMA RoundSounds == \A tm \in Sounds : Round(tm) \in Sounds
<1> TAKE tm \in Sounds
<1>1. Sound(tm) /\ tm.lag \in Nat
  BY DEF Sounds, Sound
<1>2. CASE tm.lag > 0
  BY <1>1, <1>2, RoundFacts DEF Sounds, Sound
<1>3. CASE ~ (tm.lag > 0)
  BY <1>3 DEF Round
<1> QED BY <1>2, <1>3

\* As many rounds as one likes.
LEMMA Rounds ==
  ASSUME NEW tm \in Sounds, NEW n \in Nat
  PROVE  \E f \in [0 .. n -> Sounds] : f[0] = tm /\ \A i \in 1 .. n : f[i] = Round(f[i - 1])
<1> DEFINE S == {m \in Nat : \E f \in [0 .. m -> Sounds] :
                   f[0] = tm /\ \A i \in 1 .. m : f[i] = Round(f[i - 1])}
<1>1. 0 \in S
  <2> DEFINE f == [i \in 0 .. 0 |-> tm]
  <2>1. f \in [0 .. 0 -> Sounds] /\ f[0] = tm /\ \A i \in 1 .. 0 : f[i] = Round(f[i - 1])
    OBVIOUS
  <2> HIDE DEF f
  <2> QED BY <2>1
<1>2. ASSUME NEW m \in S PROVE m + 1 \in S
  <2>1. PICK f \in [0 .. m -> Sounds] : f[0] = tm /\ \A i \in 1 .. m : f[i] = Round(f[i - 1])
    BY <1>2
  <2> DEFINE g == [i \in 0 .. m + 1 |-> IF i = m + 1 THEN Round(f[m]) ELSE f[i]]
  <2>2. g \in [0 .. m + 1 -> Sounds]
    BY <2>1, RoundSounds
  <2>3. g[0] = tm /\ \A i \in 1 .. m + 1 : g[i] = Round(g[i - 1])
    BY <2>1
  <2> HIDE DEF g
  <2> QED BY <2>2, <2>3
<1> HIDE DEF S
<1>3. S = Nat
  <2>1. S \in SUBSET Nat
    BY DEF S
  <2> QED BY <1>1, <1>2, <2>1, Induct
<1> QED BY <1>3 DEF S

\* The loop of ciat_update(), round by round.
LEMMA CatchUpRounds ==
  ASSUME NEW tm \in Sounds
  PROVE  \E r : /\ r[0] = tm
                /\ \A i \in 1 .. tm.lag : r[i] = Round(r[i - 1])
                /\ CatchUp(tm) = r[tm.lag]
<1>1. tm.lag \in Nat
  BY DEF Sounds, Sound
<1>2. PICK f \in [0 .. tm.lag -> Sounds] :
        f[0] = tm /\ \A i \in 1 .. tm.lag : f[i] = Round(f[i - 1])
  BY <1>1, Rounds
<1>3. f = [k \in 0 .. tm.lag |-> IF k = 0 THEN tm ELSE Round(f[k - 1])]
  BY <1>1, <1>2
<1> DEFINE r == CHOOSE g : g = [k \in 0 .. tm.lag |-> IF k = 0 THEN tm ELSE Round(g[k - 1])]
<1>4. r = [k \in 0 .. tm.lag |-> IF k = 0 THEN tm ELSE Round(r[k - 1])]
  BY <1>3
<1>5. CatchUp(tm) = r[tm.lag]
  BY DEF CatchUp
<1> HIDE DEF r
<1>6. r[0] = tm /\ \A i \in 1 .. tm.lag : r[i] = Round(r[i - 1])
  BY <1>1, <1>4
<1> QED BY <1>5, <1>6

\* What ciat_update() leaves: the timer is computed for the present; when no more than one
\* underflow can have passed, it has counted it.
LEMMA CatchUpFacts ==
  ASSUME NEW tm, Sound(tm)
  PROVE  LET c == CatchUp(tm) IN
         /\ Sound(c) /\ c.lag = 0 /\ c.latch = tm.latch /\ c.due = tm.due
         /\ tm.lag > 0 => Settled(c)
         /\ tm.lag = 0 => c = tm
         /\ NextUnderflow(tm) # Never /\ tm.lag < NextUnderflow(tm) =>
              /\ c.n = tm.n
              /\ NextUnderflow(c) = NextUnderflow(tm) - tm.lag
         /\ NextUnderflow(tm) = tm.lag => c.n = tm.n + 1
<1> DEFINE u == NextUnderflow(tm)
           l == tm.lag
<1>1. tm \in Sounds /\ l \in Nat /\ tm.n \in Nat
  BY DEF Sounds, Sound, Timer
<1>2. PICK r : r[0] = tm /\ (\A i \in 1 .. l : r[i] = Round(r[i - 1])) /\ CatchUp(tm) = r[l]
  BY <1>1, CatchUpRounds
<1>3. u \in (Nat \ {0}) \cup {Never}
  BY <1>1, UnderflowType DEF Sound
<1> DEFINE Near(s) == \/ /\ s.n = tm.n /\ NextUnderflow(s) # Never
                         /\ NextUnderflow(s) = u - (l - s.lag)
                      \/ s.n = tm.n + 1 /\ s.lag = 0 /\ u = l
           P(m) == /\ Sound(r[m]) /\ r[m].latch = tm.latch /\ r[m].due = tm.due
                   /\ r[m].lag = 0 \/ r[m].lag <= l - m
                   /\ m > 0 => Settled(r[m])
                   /\ u # Never /\ l <= u => Near(r[m])
           S == {m \in Nat : m <= l => P(m)}
<1> HIDE DEF u, l
<1>4. P(0)
  <2>1. u # Never /\ l <= u => u = u - (l - tm.lag)
    BY <1>1, <1>3 DEF l
  <2> QED BY <1>1, <1>2, <2>1 DEF u, l
<1>5. ASSUME NEW m \in Nat, m + 1 <= l, P(m) PROVE P(m + 1)
  <2>1. r[m + 1] = Round(r[m])
    BY <1>1, <1>2, <1>5
  <2> DEFINE a == r[m]
             b == r[m + 1]
  <2>2. a.lag \in Nat /\ b = Round(a)
    BY <1>5, <2>1 DEF Sound
  <2>3. P(m)
    BY <1>5
  <2>4. CASE a.lag > 0
    <3>1. /\ Sound(b) /\ Settled(b) /\ b.lag \in 0 .. a.lag - 1
          /\ b.latch = a.latch /\ b.due = a.due
      BY <2>2, <2>3, <2>4, RoundFacts
    <3>2. b.lag = 0 \/ b.lag <= l - (m + 1)
      BY <1>1, <2>2, <2>3, <2>4, <3>1
    <3>3. ASSUME u # Never, l <= u PROVE Near(b)
      <4>1. a.n = tm.n /\ NextUnderflow(a) # Never /\ NextUnderflow(a) = u - (l - a.lag)
        BY <2>2, <2>3, <2>4, <3>3
      <4>2. a.lag <= NextUnderflow(a)
        BY <1>1, <1>3, <2>2, <3>3, <4>1
      <4>3. \/ /\ b.n = a.n
               /\ NextUnderflow(b) # Never
               /\ NextUnderflow(b) = NextUnderflow(a) - (a.lag - b.lag)
            \/ b.n = a.n + 1 /\ b.lag = 0 /\ NextUnderflow(a) = a.lag
        BY <2>2, <2>3, <2>4, <4>1, <4>2, RoundUnderflow
      <4>4. b.lag \in Nat
        BY <3>1 DEF Sound
      <4> HIDE DEF a, b
      <4> QED BY <1>1, <1>3, <2>2, <3>3, <4>1, <4>3, <4>4
    <3> QED BY <2>3, <3>1, <3>2, <3>3
  <2>5. CASE a.lag = 0
    <3>1. b = a
      BY <2>2, <2>5 DEF Round
    <3>2. Settled(b)
      <4>1. m > 0
        BY <1>1, <1>2, <1>5, <2>5 DEF l
      <4> QED BY <2>3, <3>1, <4>1
    <3> QED BY <2>3, <2>5, <3>1, <3>2
  <2> QED BY <2>2, <2>4, <2>5
<1> HIDE DEF P
<1>6. S = Nat
  <2>1. S \in SUBSET Nat
    OBVIOUS
  <2>2. 0 \in S
    BY <1>4
  <2>3. ASSUME NEW m \in S PROVE m + 1 \in S
    BY <1>1, <1>5, <2>3
  <2> HIDE DEF S
  <2> QED BY <2>1, <2>2, <2>3, Induct
<1>7. P(l)
  BY <1>1, <1>6
<1> DEFINE c == CatchUp(tm)
<1>8. /\ Sound(c) /\ c.lag = 0 /\ c.latch = tm.latch /\ c.due = tm.due
      /\ l > 0 => Settled(c)
      /\ u # Never /\ l <= u => Near(c)
  BY <1>1, <1>2, <1>7 DEF P, Sound
<1>9. l = 0 => c = tm
  BY <1>2
<1> HIDE DEF c
<1>10. ASSUME u # Never, l < u PROVE c.n = tm.n /\ NextUnderflow(c) = u - l
  BY <1>1, <1>3, <1>8, <1>10
<1>11. ASSUME u = l PROVE c.n = tm.n + 1
  <2>1. u # Never /\ l <= u
    BY <1>1, <1>11 DEF Never
  <2>2. c.n # tm.n \/ NextUnderflow(c) = 0
    BY <1>1, <1>8, <1>11, <2>1
  <2>3. NextUnderflow(c) # 0
    BY <1>8, UnderflowType DEF Sound, Never
  <2> QED BY <1>8, <2>1, <2>2, <2>3
<1> QED BY <1>8, <1>9, <1>10, <1>11 DEF c, l, u
-----------------------------------------------------------------------------
(* The jumps are exact: ciat_update() leaves the timer of so many cycles     *)
(* computed one by one.                                                      *)

\* The timer of the present, cycle by cycle.
Cycles(tm) ==
  LET after[k \in 0 .. tm.lag] == IF k = 0 THEN tm ELSE Cycle(after[k - 1])
  IN  after[tm.lag]

\* The bits on which the next cycle depends: all but COUNT, which only tells a jump that
\* the pipeline is full.
Shape(t) == t \ {"COUNT"}

\* A timer of this state, but for COUNT.
Close(a, tm, t, k, n, l) ==
  /\ a \in Timer
  /\ Shape(a.bits) = Shape(t)
  /\ a.cnt = k /\ a.n = n /\ a.lag = l /\ a.latch = tm.latch /\ a.due = tm.due

\* The step of timer B stays in a state that ciat_update() takes for one that lasts.
Stalled(tm) == "STEP" \in tm.bits /\ (WarpCounting(tm.bits) \/ WarpStopped(tm.bits))

\* m cycles, one by one.
Runs(f, m) ==
  /\ m \in Nat
  /\ \A i \in 0 .. m : f[i] \in Timer
  /\ \A i \in 1 .. m : f[i] = Cycle(f[i - 1])

\* Timers with the same fields are the same.
LEMMA SameFields ==
  ASSUME NEW a \in Timer, NEW b \in Timer, a.bits = b.bits, a.cnt = b.cnt,
         a.latch = b.latch, a.lag = b.lag, a.n = b.n, a.due = b.due
  PROVE  a = b
BY DEF Timer

\* The next cycle does not depend on COUNT.
LEMMA PipelineShape ==
  ASSUME NEW t \in SUBSET Bits, NEW s \in SUBSET Bits, Shape(t) = Shape(s)
  PROVE  Pipeline(t) = Pipeline(s)
<1>1. \A b : b # "COUNT" => (b \in t <=> b \in s)
  BY DEF Shape
<1> QED BY <1>1 DEF Pipeline

\* Neither does the timer after it.
LEMMA CycleShape ==
  ASSUME NEW a \in Timer, NEW b \in Timer, Close(a, b, b.bits, b.cnt, b.n, b.lag)
  PROVE  Cycle(a) = Cycle(b)
<1>1. a.bits \in SUBSET Bits /\ b.bits \in SUBSET Bits
  BY DEF Timer
<1>2. Pipeline(a.bits) = Pipeline(b.bits)
  BY <1>1, PipelineShape DEF Close
<1>3. "COUNT3" \in a.bits <=> "COUNT3" \in b.bits
  BY DEF Close, Shape
<1>4. Increment(a) = Increment(b)
  BY <1>2, <1>3, IncrementFacts, SameFields DEF Close
<1> QED BY <1>4 DEF Cycle

\* The step to the next cycle.
LEMMA NextCycle ==
  ASSUME NEW f, NEW m, Runs(f, m), NEW i \in 0 .. m - 1,
         NEW a \in Timer, Close(f[i], a, a.bits, a.cnt, a.n, a.lag)
  PROVE  i + 1 \in 0 .. m /\ f[i + 1] = Cycle(a)
<1>1. m \in Nat /\ i + 1 \in 1 .. m /\ (i + 1) - 1 = i /\ i \in 0 .. m
  BY DEF Runs
<1>2. f[i + 1] = Cycle(f[i]) /\ f[i] \in Timer
  BY <1>1 DEF Runs
<1> QED BY <1>1, <1>2, CycleShape

\* The bits of a timer that counts for more than a cycle: continuous or one-shot.
Full == {"START", "PHI2IN", "COUNT2", "COUNT3", "COUNT"}
Shot == {"CR_ONESHOT", "ONESHOT0", "ONESHOT"}

\* ... and what the underflow makes of them.
Pulse == {"COUNT", "OUT", "LOAD", "PHI2IN", "COUNT2", "START"}
Ended(t) == IF t = Full THEN Pulse ELSE Shot \cup {"PHI2IN", "COUNT", "LOAD", "OUT"}

\* No other bits pass for counting.
LEMMA FullBits ==
  ASSUME NEW t \in SUBSET Bits, WarpCounting(t), "STEP" \notin t, "OUT" \notin t
  PROVE  /\ t \in {Full, Full \cup Shot}
         /\ t \cap {"CR_ONESHOT", "ONESHOT0"} = {} => t = Full
<1>1. /\ "START" \in t /\ "PHI2IN" \in t /\ "COUNT2" \in t /\ "COUNT3" \in t /\ "COUNT" \in t
      /\ "FLOAD" \notin t /\ "LOAD1" \notin t /\ "LOAD" \notin t
  BY DEF WarpCounting, Counting
<1>2. CASE {"CR_ONESHOT", "ONESHOT0", "ONESHOT"} \subseteq t
  BY <1>1, <1>2 DEF Full, Shot, Bits, CrBits, Counting
<1>3. CASE {"CR_ONESHOT", "ONESHOT0", "ONESHOT"} \cap t = {}
  BY <1>1, <1>3 DEF Full, Shot, Bits, CrBits, Counting
<1> QED BY <1>2, <1>3 DEF WarpCounting, OneshotSettled

\* They stay from cycle to cycle.
LEMMA FullPipeline ==
  ASSUME NEW t \in {Full, Full \cup Shot}
  PROVE  t \in SUBSET Bits /\ Pipeline(t) = t /\ WarpCounting(t) /\ "OUT" \notin t /\ "STEP" \notin t
<1>1. CASE t = Full
  <2>1. Pipeline(t) = Full
    BY <1>1 DEF Full, Pipeline
  <2>2. WarpCounting(t)
    BY <1>1 DEF Full, WarpCounting, OneshotSettled, Counting
  <2> QED BY <1>1, <2>1, <2>2 DEF Full, Bits, CrBits, Counting
<1>2. CASE t = Full \cup Shot
  <2>1. Pipeline(t) = Full \cup Shot
    BY <1>2 DEF Full, Shot, Pipeline
  <2>2. WarpCounting(t)
    BY <1>2 DEF Full, Shot, WarpCounting, OneshotSettled, Counting
  <2> QED BY <1>2, <2>1, <2>2 DEF Full, Shot, Bits, CrBits, Counting
<1> QED BY <1>1, <1>2

\* Where a count ends.
LEMMA CountEnds ==
  ASSUME NEW a \in Timer, a.bits \in {Full, Full \cup Shot}, a.cnt = 0
  PROVE  Made(Settle(a), a, Ended(a.bits), a.latch, a.n + 1, a.lag)
<1>1. Underflows(a) /\ "COUNT3" \in a.bits
  BY DEF Underflows, Full
<1>2. Settle(a) = [a EXCEPT !.bits = Ended(a.bits), !.cnt = a.latch, !.n = a.n + 1]
  <2>1. CASE a.bits = Full
    <3>1. (a.bits \cup {"LOAD", "OUT"}) \ {"COUNT3"} = Pulse
      BY <2>1 DEF Full, Pulse
    <3>2. Pulse \cap {"ONESHOT", "ONESHOT0"} = {} /\ "LOAD" \in a.bits \cup {"LOAD", "OUT"}
      BY DEF Pulse
    <3>3. Ended(a.bits) = Pulse
      BY <2>1 DEF Ended
    <3> QED BY <1>1, <3>1, <3>2, <3>3 DEF Settle
  <2>2. CASE a.bits = Full \cup Shot
    <3>1. (a.bits \cup {"LOAD", "OUT"}) \ {"COUNT3"} = Pulse \cup Shot
      BY <2>2 DEF Full, Pulse, Shot
    <3>2. /\ (Pulse \cup Shot) \cap {"ONESHOT", "ONESHOT0"} # {} /\ "OUT" \in Pulse \cup Shot
          /\ "LOAD" \in a.bits \cup {"LOAD", "OUT"}
      BY DEF Pulse, Shot
    <3>3. Full \cup Shot # Full
      BY DEF Full, Shot
    <3>4. Ended(a.bits) = (Pulse \cup Shot) \ {"START", "COUNT2"}
      BY <2>2, <3>3 DEF Ended, Pulse, Shot
    <3> QED BY <1>1, <3>1, <3>2, <3>4 DEF Settle
  <2> QED BY <2>1, <2>2
<1>3. Ended(a.bits) \in SUBSET Bits /\ a.n + 1 \in Nat
  BY DEF Ended, Pulse, Shot, Bits, CrBits, Counting, Timer
<1> DEFINE e == Ended(a.bits)
<1> HIDE DEF e
<1>4. Settle(a) = [a EXCEPT !.bits = e, !.cnt = a.latch, !.n = a.n + 1] /\ e \in SUBSET Bits
  BY <1>2, <1>3 DEF e
<1>5. Made(Settle(a), a, e, a.latch, a.n + 1, a.lag)
  BY <1>3, <1>4 DEF Timer, Made
<1> QED BY <1>5 DEF e

\* A cycle in which a timer counts.
LEMMA CountCycle ==
  ASSUME NEW a \in Timer, NEW t \in {Full, Full \cup Shot}, Shape(a.bits) = Shape(t), a.cnt > 0
  PROVE  /\ a.cnt > 1 => Made(Cycle(a), a, t, a.cnt - 1, a.n, a.lag - 1)
         /\ a.cnt = 1 => Made(Cycle(a), a, Ended(t), a.latch, a.n + 1, a.lag - 1)
<1> DEFINE b == Increment(a)
<1>1. /\ a.bits \in SUBSET Bits /\ a.cnt \in Nat /\ "COUNT3" \in a.bits
      /\ a.n \in Nat /\ a.lag \in Int
  <2>1. "COUNT3" \in t
    BY DEF Full
  <2> QED BY <2>1, TimerConstants DEF Timer, Shape
<1>2. Pipeline(a.bits) = t
  BY <1>1, FullPipeline, PipelineShape
<1>3. /\ b \in Timer /\ b.bits = t /\ b.cnt = a.cnt - 1 /\ b.latch = a.latch
      /\ b.lag = a.lag - 1 /\ b.n = a.n /\ b.due = a.due
  BY <1>1, <1>2, IncrementFacts
<1>4. Cycle(a) = Settle(b)
  BY DEF Cycle
<1> HIDE DEF b
<1>5. ASSUME a.cnt > 1 PROVE Made(Cycle(a), a, t, a.cnt - 1, a.n, a.lag - 1)
  <2>1. b.cnt > 0
    BY <1>1, <1>3, <1>5
  <2>2. Alike(Settle(b), b) /\ ~ Underflows(b)
    BY <1>3, <2>1, FullPipeline, CountingSettles
  <2> QED BY <1>3, <1>4, <2>2, SettleFacts DEF Alike, Made
<1>6. ASSUME a.cnt = 1 PROVE Made(Cycle(a), a, Ended(t), a.latch, a.n + 1, a.lag - 1)
  <2>1. b.cnt = 0
    BY <1>3, <1>6
  <2> QED BY <1>3, <1>4, <2>1, CountEnds DEF Made
<1> QED BY <1>5, <1>6

\* Made and Close: the same state is close.
LEMMA MadeClose ==
  ASSUME NEW a, NEW tm, NEW t, NEW k, NEW n, NEW l, Made(a, tm, t, k, n, l)
  PROVE  Close(a, tm, t, k, n, l) /\ Close(a, a, a.bits, a.cnt, a.n, a.lag)
BY DEF Made, Close

\* A count, cycle by cycle.
LEMMA CountDown ==
  ASSUME NEW f, NEW m, Runs(f, m), NEW i \in Nat, NEW tm \in Timer,
         NEW t \in {Full, Full \cup Shot}, NEW k \in Nat, NEW n \in Nat, NEW l \in Int,
         Close(f[i], tm, t, k, n, l), NEW j \in Nat, j > 0, j <= k, i + j <= m
  PROVE  /\ j < k => Made(f[i + j], tm, t, k - j, n, l - j)
         /\ j = k => Made(f[i + j], tm, Ended(t), tm.latch, n + 1, l - j)
<1> DEFINE P(h) == h > 0 /\ h <= k /\ i + h <= m =>
                     /\ h < k => Made(f[i + h], tm, t, k - h, n, l - h)
                     /\ h = k => Made(f[i + h], tm, Ended(t), tm.latch, n + 1, l - h)
           S == {h \in Nat : P(h)}
<1>0. m \in Nat
  BY DEF Runs
<1>1. 0 \in S
  OBVIOUS
<1>2. ASSUME NEW h \in S PROVE h + 1 \in S
  <2>1. SUFFICES ASSUME h + 1 <= k, i + (h + 1) <= m
                 PROVE  /\ h + 1 < k => Made(f[i + (h + 1)], tm, t, k - (h + 1), n, l - (h + 1))
                        /\ h + 1 = k => Made(f[i + (h + 1)], tm, Ended(t), tm.latch, n + 1, l - (h + 1))
    BY <2>1
  <2> DEFINE a == f[i + h]
  <2>2. i + h \in 0 .. m - 1 /\ i + h \in 0 .. m /\ (i + h) + 1 = i + (h + 1) /\ h < k
        /\ k - h \in Nat /\ k - h > 0 /\ (k - h) - 1 = k - (h + 1) /\ (l - h) - 1 = l - (h + 1)
        /\ h \in Nat /\ i + h <= m
    BY <1>0, <2>1
  <2>3. Close(a, tm, t, k - h, n, l - h)
    <3>1. CASE h = 0
      <4>1. i + h = i /\ k - h = k /\ l - h = l
        BY <3>1
      <4> QED BY <4>1
    <3>2. CASE h # 0
      <4>1. Made(a, tm, t, k - h, n, l - h)
        BY <2>2, <3>2
      <4> QED BY <4>1, MadeClose
    <3> QED BY <3>1, <3>2
  <2>4. a \in Timer /\ Close(a, a, a.bits, a.cnt, a.n, a.lag)
    BY <2>3 DEF Close
  <2>5. f[i + (h + 1)] = Cycle(a)
    BY <2>2, <2>4, NextCycle
  <2> HIDE DEF a
  <2>6. /\ a.cnt > 1 => Made(Cycle(a), a, t, a.cnt - 1, a.n, a.lag - 1)
        /\ a.cnt = 1 => Made(Cycle(a), a, Ended(t), a.latch, a.n + 1, a.lag - 1)
    BY <2>2, <2>3, CountCycle DEF Close
  <2>7. a.cnt = k - h /\ a.n = n /\ a.lag = l - h /\ a.latch = tm.latch /\ a.due = tm.due
    BY <2>3 DEF Close
  <2>8. ASSUME h + 1 < k PROVE Made(Cycle(a), tm, t, k - (h + 1), n, l - (h + 1))
    <3>1. a.cnt > 1
      BY <2>2, <2>7, <2>8
    <3> QED BY <2>2, <2>6, <2>7, <3>1 DEF Made
  <2>9. ASSUME h + 1 = k PROVE Made(Cycle(a), tm, Ended(t), tm.latch, n + 1, l - (h + 1))
    <3>1. a.cnt = 1
      BY <2>2, <2>7, <2>9
    <3> QED BY <2>2, <2>6, <2>7, <3>1 DEF Made
  <2> QED BY <2>5, <2>8, <2>9
<1> HIDE DEF P
<1>3. S = Nat
  BY <1>1, <1>2, Induct
<1>4. P(j)
  BY <1>3
<1> QED BY <1>4 DEF P

\* The cycle after an underflow loads the latch and does not count.
LEMMA PulseCycle ==
  ASSUME NEW a \in Timer, Shape(a.bits) = Shape(Pulse), a.cnt = a.latch
  PROVE  /\ a.latch = 0 => Close(Cycle(a), a, Pulse, a.latch, a.n + 1, a.lag - 1)
         /\ a.latch > 0 => Close(Cycle(a), a, Full, a.latch, a.n, a.lag - 1)
<1> DEFINE b == Increment(a)
           t == Shape(Full)
<1>1. a.bits \in SUBSET Bits /\ a.n \in Nat /\ a.latch \in Nat /\ "COUNT3" \notin a.bits
  <2>1. "COUNT3" \notin Pulse
    BY DEF Pulse
  <2> QED BY <2>1, TimerConstants DEF Timer, Shape
<1>2. Pipeline(a.bits) = t
  <2>1. Pulse \in SUBSET Bits
    BY DEF Pulse, Bits, CrBits, Counting
  <2>2. Pipeline(Pulse) = t
    BY DEF Pulse, Full, Shape, Pipeline
  <2> QED BY <1>1, <2>1, <2>2, PipelineShape
<1>3. /\ b \in Timer /\ b.bits = t /\ b.cnt = a.latch /\ b.latch = a.latch
      /\ b.lag = a.lag - 1 /\ b.n = a.n /\ b.due = a.due
  BY <1>1, <1>2, IncrementFacts
<1>4. Cycle(a) = Settle(b)
  BY DEF Cycle
<1>5. t = {"START", "PHI2IN", "COUNT2", "COUNT3"} /\ Shape(t) = Shape(Full)
  BY DEF Full, Shape
<1> HIDE DEF b, t
<1>6. ASSUME a.latch = 0 PROVE Close(Cycle(a), a, Pulse, a.latch, a.n + 1, a.lag - 1)
  <2> DEFINE e == {"START", "PHI2IN", "COUNT2", "LOAD", "OUT"}
  <2>1. Underflows(b)
    BY <1>3, <1>5, <1>6 DEF Underflows
  <2>2. /\ (b.bits \cup {"LOAD", "OUT"}) \ {"COUNT3"} = e /\ e \cap {"ONESHOT", "ONESHOT0"} = {}
        /\ "LOAD" \in b.bits \cup {"LOAD", "OUT"}
    BY <1>3, <1>5
  <2>3. e \in SUBSET Bits /\ Shape(e) = Shape(Pulse)
    BY DEF Bits, CrBits, Counting, Shape, Pulse
  <2> HIDE DEF e
  <2>4. Settle(b) = [b EXCEPT !.bits = e, !.cnt = b.latch, !.n = b.n + 1]
    BY <2>1, <2>2 DEF Settle
  <2>5. b.n + 1 \in Nat
    BY <1>1, <1>3
  <2>6. Made(Settle(b), b, e, b.latch, b.n + 1, b.lag)
    BY <1>3, <2>3, <2>4, <2>5 DEF Timer, Made
  <2> QED BY <1>3, <1>4, <2>3, <2>6 DEF Made, Close
<1>7. ASSUME a.latch > 0 PROVE Close(Cycle(a), a, Full, a.latch, a.n, a.lag - 1)
  <2>1. ~ Underflows(b)
    BY <1>1, <1>3, <1>7 DEF Underflows
  <2>2. "OUT" \notin b.bits /\ "LOAD" \notin b.bits
    BY <1>3, <1>5
  <2>3. Settle(b).bits = t /\ Settle(b).cnt = a.latch
    BY <1>3, <2>1, <2>2, QuietSettle
  <2> QED BY <1>3, <1>4, <1>5, <2>1, <2>3, SettleFacts DEF Close
<1> QED BY <1>6, <1>7

\* A whole period of a continuous timer.
LEMMA OnePeriod ==
  ASSUME NEW f, NEW m, Runs(f, m), NEW i \in Nat, NEW tm \in Timer, NEW n \in Nat, NEW l \in Int,
         Close(f[i], tm, Pulse, tm.latch, n, l), i + (tm.latch + 1) <= m
  PROVE  Close(f[i + (tm.latch + 1)], tm, Pulse, tm.latch, n + 1, l - (tm.latch + 1))
<1> DEFINE c == f[i + 1]
           h == tm.latch
<1>1. m \in Nat /\ h \in Nat
  BY TimerConstants DEF Runs, Timer
<1>2. i \in 0 .. m - 1
  BY <1>1
<1>3. f[i] \in Timer /\ Close(f[i], f[i], f[i].bits, f[i].cnt, f[i].n, f[i].lag)
  BY DEF Close
<1>4. c = Cycle(f[i])
  BY <1>2, <1>3, NextCycle
<1> HIDE DEF c
<1>5. /\ h = 0 => Close(c, tm, Pulse, h, n + 1, l - 1)
      /\ h > 0 => Close(c, tm, Full, h, n, l - 1)
  <2> DEFINE a == f[i]
  <2>1. /\ a \in Timer /\ Shape(a.bits) = Shape(Pulse) /\ a.cnt = a.latch
        /\ a.latch = h /\ a.n = n /\ a.lag = l /\ a.due = tm.due
    BY DEF Close
  <2> HIDE DEF a
  <2>2. /\ a.latch = 0 => Close(Cycle(a), a, Pulse, a.latch, a.n + 1, a.lag - 1)
        /\ a.latch > 0 => Close(Cycle(a), a, Full, a.latch, a.n, a.lag - 1)
    BY <2>1, PulseCycle
  <2>3. c = Cycle(a)
    BY <1>4 DEF a
  <2> QED BY <2>1, <2>2, <2>3 DEF Close
<1>6. CASE h = 0
  <2>1. i + (h + 1) = i + 1 /\ l - (h + 1) = l - 1
    BY <1>6
  <2> QED BY <1>5, <1>6, <2>1 DEF c
<1>7. CASE h > 0
  <2>1. /\ i + 1 \in Nat /\ (i + 1) + h <= m /\ (i + 1) + h = i + (h + 1)
        /\ (l - 1) - h = l - (h + 1) /\ l - 1 \in Int /\ h <= h
    BY <1>1, <1>7
  <2>2. Close(f[i + 1], tm, Full, h, n, l - 1)
    BY <1>5, <1>7 DEF c
  <2> HIDE DEF h
  <2>3. Made(f[(i + 1) + h], tm, Ended(Full), tm.latch, n + 1, (l - 1) - h)
    BY <1>1, <1>7, <2>1, <2>2, CountDown
  <2>4. Ended(Full) = Pulse
    BY DEF Ended
  <2> QED BY <2>1, <2>3, <2>4, MadeClose DEF h
<1> QED BY <1>1, <1>6, <1>7

\* As many periods as one likes.
LEMMA Periods ==
  ASSUME NEW f, NEW m, Runs(f, m), NEW i \in Nat, NEW tm \in Timer, NEW n \in Nat, NEW l \in Int,
         Close(f[i], tm, Pulse, tm.latch, n, l), NEW p \in Nat, i + p * (tm.latch + 1) <= m
  PROVE  Close(f[i + p * (tm.latch + 1)], tm, Pulse, tm.latch, n + p, l - p * (tm.latch + 1))
<1> DEFINE L == tm.latch + 1
           P(h) == i + h * L <= m => Close(f[i + h * L], tm, Pulse, tm.latch, n + h, l - h * L)
           S == {h \in Nat : P(h)}
<1>0. m \in Nat /\ L \in Nat /\ L > 0
  BY TimerConstants DEF Runs, Timer
<1>1. 0 \in S
  <2>1. 0 * L = 0 /\ i + 0 = i /\ n + 0 = n /\ l - 0 = l
    BY <1>0
  <2> QED BY <2>1
<1>2. ASSUME NEW h \in S PROVE h + 1 \in S
  <2> DEFINE q == h * L
  <2>1. h \in Nat /\ q \in Nat /\ (h + 1) * L = q + L
    <3> HIDE DEF L
    <3>1. \A x, y \in Nat : x * y \in Nat /\ (x + 1) * y = x * y + y
      OBVIOUS
    <3> QED BY <1>0, <3>1
  <2>2. SUFFICES ASSUME i + (q + L) <= m
                 PROVE  Close(f[i + (q + L)], tm, Pulse, tm.latch, n + (h + 1), l - (q + L))
    BY <2>1, <2>2
  <2>3. P(h)
    OBVIOUS
  <2> HIDE DEF q
  <2>4. i + q <= m /\ i + q \in Nat /\ n + h \in Nat /\ l - q \in Int /\ (i + q) + L = i + (q + L)
        /\ (l - q) - L = l - (q + L) /\ (n + h) + 1 = n + (h + 1)
    BY <1>0, <2>1, <2>2
  <2>5. Close(f[i + q], tm, Pulse, tm.latch, n + h, l - q)
    BY <2>3, <2>4 DEF q
  <2>6. Close(f[(i + q) + L], tm, Pulse, tm.latch, (n + h) + 1, (l - q) - L)
    BY <2>2, <2>4, <2>5, OnePeriod
  <2> QED BY <2>4, <2>6
<1> HIDE DEF P
<1>3. S = Nat
  BY <1>1, <1>2, Induct
<1>4. P(p)
  BY <1>3
<1> QED BY <1>4 DEF P

\* A timer that has stopped, cycle by cycle.
LEMMA Stands ==
  ASSUME NEW f, NEW m, Runs(f, m), NEW i \in Nat, NEW tm, Sound(tm),
         WarpStopped(tm.bits), tm.bits \cap {"FLOAD", "LOAD1", "LOAD"} = {}, "STEP" \notin tm.bits,
         Close(f[i], tm, tm.bits, tm.cnt, tm.n, tm.lag), NEW j \in Nat, i + j <= m
  PROVE  Close(f[i + j], tm, tm.bits, tm.cnt, tm.n, tm.lag - j)
<1> DEFINE P(h) == i + h <= m => Close(f[i + h], tm, tm.bits, tm.cnt, tm.n, tm.lag - h)
           S == {h \in Nat : P(h)}
           t == tm.bits
<1>0. m \in Nat /\ tm \in Timer /\ tm.lag \in Nat /\ t \in SUBSET Bits
  BY DEF Runs, Sound, Timer
<1>1. 0 \in S
  <2>1. i + 0 = i /\ tm.lag - 0 = tm.lag
    BY <1>0
  <2> QED BY <2>1
<1>2. "OUT" \notin t /\ "COUNT3" \notin t /\ Pipeline(t) = t
  <2>1. /\ "OUT" \notin t /\ "COUNT3" \notin t /\ "COUNT2" \notin t /\ "COUNT" \notin t
        /\ "START" \notin t \/ "PHI2IN" \notin t
    BY DEF Sound, WarpStopped, Counting
  <2>2. CASE {"CR_ONESHOT", "ONESHOT0", "ONESHOT"} \subseteq t
    BY <1>0, <2>1, <2>2 DEF Pipeline, Bits, CrBits, Counting
  <2>3. CASE {"CR_ONESHOT", "ONESHOT0", "ONESHOT"} \cap t = {}
    BY <1>0, <2>1, <2>3 DEF Pipeline, Bits, CrBits, Counting
  <2> QED BY <2>1, <2>2, <2>3 DEF WarpStopped, OneshotSettled
<1>3. ASSUME NEW h \in S PROVE h + 1 \in S
  <2>1. SUFFICES ASSUME i + (h + 1) <= m
                 PROVE  Close(f[i + (h + 1)], tm, t, tm.cnt, tm.n, tm.lag - (h + 1))
    OBVIOUS
  <2> DEFINE a == f[i + h]
             b == Increment(a)
  <2>2. /\ i + h \in 0 .. m - 1 /\ (i + h) + 1 = i + (h + 1) /\ i + h <= m
        /\ (tm.lag - h) - 1 = tm.lag - (h + 1)
    BY <1>0, <2>1
  <2>3. Close(a, tm, t, tm.cnt, tm.n, tm.lag - h)
    BY <2>2
  <2>4. a \in Timer /\ Close(a, a, a.bits, a.cnt, a.n, a.lag)
    BY <2>3 DEF Close
  <2>5. f[i + (h + 1)] = Settle(b)
    BY <2>2, <2>4, NextCycle DEF Cycle
  <2> HIDE DEF a
  <2>6. "COUNT3" \notin a.bits /\ Pipeline(a.bits) = t
    <3>1. "COUNT3" \notin a.bits
      BY <1>2, <2>3 DEF Close, Shape
    <3>2. a.bits \in SUBSET Bits
      BY <2>4 DEF Timer
    <3> QED BY <1>0, <1>2, <2>3, <3>1, <3>2, PipelineShape DEF Close
  <2>7. /\ b \in Timer /\ b.bits = t /\ b.cnt = tm.cnt /\ b.latch = tm.latch
        /\ b.lag = tm.lag - (h + 1) /\ b.n = tm.n /\ b.due = tm.due
    BY <2>2, <2>3, <2>4, <2>6, IncrementFacts DEF Close
  <2> HIDE DEF b
  <2>8. ~ Underflows(b) /\ "LOAD" \notin t
    BY <1>2, <2>7 DEF Underflows
  <2>9. Settle(b).bits = t /\ Settle(b).cnt = tm.cnt
    BY <1>2, <2>7, <2>8, QuietSettle
  <2> QED BY <2>5, <2>7, <2>8, <2>9, SettleFacts DEF Close
<1> HIDE DEF P
<1>4. S = Nat
  BY <1>1, <1>3, Induct
<1>5. P(j)
  BY <1>4
<1> QED BY <1>5 DEF P

\* The state of the emulated timer, but for COUNT.
At(a, s) == Close(a, s, s.bits, s.cnt, s.n, s.lag)

\* A timer that has just underflowed stays so at the end of a round.
LEMMA PulseSettles ==
  ASSUME NEW a \in Timer, a.bits = Pulse, a.cnt = a.latch
  PROVE  Made(Settle(a), a, Pulse, a.latch, a.n, a.lag)
<1>1. /\ ~ Underflows(a) /\ "LOAD" \in a.bits /\ Pulse \ {"COUNT3"} = Pulse
      /\ Pulse \cap {"ONESHOT", "ONESHOT0"} = {}
  BY DEF Underflows, Pulse
<1>2. Settle(a) = [a EXCEPT !.bits = Pulse, !.cnt = a.latch, !.n = a.n + 0]
  BY <1>1 DEF Settle
<1>3. a.n + 0 = a.n /\ Pulse \in SUBSET Bits
  BY DEF Timer, Pulse, Bits, CrBits, Counting
<1> QED BY <1>2, <1>3 DEF Made, Timer

\* A jump over a count: as many cycles, one by one, count the same.
LEMMA CountExact ==
  ASSUME NEW f, NEW m, Runs(f, m), NEW i \in Nat, NEW tm, Sound(tm), tm.lag > 0,
         WarpCounting(tm.bits), "STEP" \notin tm.bits, At(f[i], tm), i + tm.lag <= m
  PROVE  LET s == Round(tm) IN
         At(f[i + (tm.lag - s.lag)], s) /\ "STEP" \notin s.bits
<1> DEFINE t == tm.bits
           a == JumpToZero(tm)
           s == Round(tm)
<1>1. /\ tm \in Timer /\ tm.lag \in Nat /\ t \in SUBSET Bits /\ tm.cnt \in Nat /\ tm.n \in Nat
      /\ tm.latch \in Nat /\ m \in Nat
  BY TimerConstants DEF Sound, Timer, Runs
<1>2. tm.cnt > 0 /\ "OUT" \notin t
  BY <1>1 DEF Sound, WarpCounting, Counting
<1>3. t \in {Full, Full \cup Shot} /\ (t \cap {"CR_ONESHOT", "ONESHOT0"} = {} => t = Full)
  BY <1>1, <1>2, FullBits
<1>4. s = Settle(a)
  BY DEF Round, Advance
<1>5. /\ a \in Timer /\ a.lag \in 0 .. tm.lag - 1
      /\ a.bits = t /\ a.latch = tm.latch /\ a.due = tm.due
      /\ tm.cnt > tm.lag => a.lag = 0 /\ a.n = tm.n /\ a.cnt = tm.cnt - tm.lag
      /\ ~ (tm.cnt > tm.lag) => a.cnt = 0
      /\ ~ (tm.cnt > tm.lag) /\ t \cap {"CR_ONESHOT", "ONESHOT0"} # {} =>
           a.n = tm.n /\ a.lag = tm.lag - tm.cnt
      /\ ~ (tm.cnt > tm.lag) /\ t \cap {"CR_ONESHOT", "ONESHOT0"} = {} =>
           \E p \in Nat : a.n = tm.n + p /\ a.lag = (tm.lag - tm.cnt) - p * (tm.latch + 1)
  BY <1>1, <1>2, JumpFacts
<1>6. Close(f[i], tm, t, tm.cnt, tm.n, tm.lag)
  BY DEF At
<1> HIDE DEF a, s, t
<1>a. ASSUME NEW j \in Nat, j > 0, j <= tm.cnt, i + j <= m
      PROVE  /\ j < tm.cnt => Made(f[i + j], tm, t, tm.cnt - j, tm.n, tm.lag - j)
             /\ j = tm.cnt => Made(f[i + j], tm, Ended(t), tm.latch, tm.n + 1, tm.lag - j)
  <2> DEFINE k == tm.cnt
             n == tm.n
             l == tm.lag
  <2>1. k \in Nat /\ n \in Nat /\ l \in Int /\ j <= k /\ Close(f[i], tm, t, k, n, l)
    BY <1>1, <1>6, <1>a
  <2> HIDE DEF k, n, l
  <2>2. /\ j < k => Made(f[i + j], tm, t, k - j, n, l - j)
        /\ j = k => Made(f[i + j], tm, Ended(t), tm.latch, n + 1, l - j)
    BY <1>1, <1>3, <1>a, <2>1, CountDown
  <2> QED BY <2>2 DEF k, n, l
<1>7. CASE tm.cnt > tm.lag
  <2>1. Made(f[i + tm.lag], tm, t, tm.cnt - tm.lag, tm.n, tm.lag - tm.lag)
    BY <1>1, <1>7, <1>a
  <2>2. a.cnt > 0 /\ tm.lag - tm.lag = 0 /\ tm.lag - 0 = tm.lag
    BY <1>1, <1>5, <1>7
  <2>3. Alike(s, a) /\ ~ Underflows(a)
    BY <1>2, <1>4, <1>5, <2>2, CountingSettles DEF t
  <2>4. s.n = a.n /\ s.lag = a.lag /\ s.due = a.due
    BY <1>4, <1>5, <2>3, SettleFacts
  <2> QED BY <1>5, <1>7, <2>1, <2>2, <2>3, <2>4, MadeClose DEF t, s, Alike, At, Close
<1>8. CASE ~ (tm.cnt > tm.lag)
  <2>1. tm.cnt <= tm.lag /\ i + tm.cnt <= m /\ i + tm.cnt \in Nat /\ tm.lag - tm.cnt \in Int
    BY <1>1, <1>8
  <2>2. Made(f[i + tm.cnt], tm, Ended(t), tm.latch, tm.n + 1, tm.lag - tm.cnt)
    BY <1>1, <1>2, <2>1, <1>a
  <2>3. Made(s, a, Ended(t), a.latch, a.n + 1, a.lag)
    BY <1>3, <1>4, <1>5, <1>8, CountEnds
  <2>4. "STEP" \notin Ended(t)
    BY DEF Ended, Pulse, Shot
  <2>5. CASE t \cap {"CR_ONESHOT", "ONESHOT0"} # {}
    <3>1. a.n = tm.n /\ a.lag = tm.lag - tm.cnt
      BY <1>5, <1>8, <2>5
    <3>2. tm.lag - s.lag = tm.cnt
      BY <1>1, <2>3, <3>1 DEF Made
    <3>3. At(f[i + tm.cnt], s)
      BY <1>5, <2>2, <2>3, <3>1 DEF Made, At, Close
    <3> QED BY <2>3, <2>4, <3>2, <3>3 DEF s, Made
  <2>6. CASE t \cap {"CR_ONESHOT", "ONESHOT0"} = {}
    <3>1. PICK p \in Nat : a.n = tm.n + p /\ a.lag = (tm.lag - tm.cnt) - p * (tm.latch + 1)
      BY <1>5, <1>8, <2>6
    <3>2. Ended(t) = Pulse
      BY <1>3, <2>6 DEF Ended
    <3>3. Close(f[i + tm.cnt], tm, Pulse, tm.latch, tm.n + 1, tm.lag - tm.cnt)
      BY <2>2, <3>2, MadeClose
    <3> DEFINE d == p * (tm.latch + 1)
    <3>4. d \in Nat
      <4>1. \A x, y \in Nat : x * (y + 1) \in Nat
        OBVIOUS
      <4> QED BY <1>1, <4>1
    <3>5. (i + tm.cnt) + d <= m
      <4>1. a.lag = (tm.lag - tm.cnt) - d
        BY <3>1
      <4> HIDE DEF d
      <4> QED BY <1>1, <1>5, <3>4, <4>1
    <3>6. Close(f[(i + tm.cnt) + d], tm, Pulse, tm.latch, (tm.n + 1) + p, (tm.lag - tm.cnt) - d)
      <4> DEFINE j == i + tm.cnt
                 n == tm.n + 1
                 l == tm.lag - tm.cnt
      <4>1. /\ j \in Nat /\ n \in Nat /\ l \in Int /\ j + p * (tm.latch + 1) <= m
            /\ Close(f[j], tm, Pulse, tm.latch, n, l)
        BY <1>1, <2>1, <3>3, <3>5
      <4> HIDE DEF j, n, l
      <4>2. Close(f[j + p * (tm.latch + 1)], tm, Pulse, tm.latch, n + p, l - p * (tm.latch + 1))
        BY <1>1, <4>1, Periods
      <4> QED BY <4>2 DEF j, n, l
    <3>7. a.lag = (tm.lag - tm.cnt) - d
      BY <3>1
    <3> HIDE DEF d
    <3>8. s.lag = a.lag /\ s.n = (tm.n + 1) + p /\ i + (tm.lag - s.lag) = (i + tm.cnt) + d
      BY <1>1, <2>3, <3>1, <3>4, <3>7 DEF Made
    <3>9. At(f[(i + tm.cnt) + d], s)
      BY <1>5, <2>3, <3>2, <3>6, <3>7, <3>8 DEF Made, At, Close
    <3> QED BY <2>3, <2>4, <3>8, <3>9 DEF s, Made
  <2> QED BY <2>5, <2>6
<1> QED BY <1>7, <1>8

\* The jump over underflows in every other cycle: the same.
LEMMA ByTwoExact ==
  ASSUME NEW f, NEW m, Runs(f, m), NEW i \in Nat, NEW tm, Sound(tm), tm.lag >= 2,
         WarpByTwo(tm), At(f[i], tm), i + tm.lag <= m
  PROVE  LET s == Settle(JumpByTwo(tm)) IN
         At(f[i + (tm.lag - s.lag)], s) /\ "STEP" \notin s.bits
<1> DEFINE p == tm.lag \div 2
           l == tm.lag % 2
           k == tm.n + p
           a == JumpByTwo(tm)
           s == Settle(a)
<1>1. /\ tm \in Timer /\ tm.lag \in Nat /\ tm.n \in Nat /\ m \in Nat
      /\ tm.bits = Pulse /\ tm.cnt = 1 /\ tm.latch = 1 /\ tm.latch + 1 = 2
  BY DEF Sound, Timer, Runs, WarpByTwo, Pulse
<1>2. /\ p \in Nat /\ k \in Nat /\ l \in Nat /\ p * 2 = tm.lag - l
      /\ i + p * 2 <= m /\ tm.lag - p * 2 = l
  BY <1>1
<1>3. a = [tm EXCEPT !.lag = l, !.n = k]
  BY DEF JumpByTwo
<1>4. Close(f[i], tm, Pulse, tm.latch, tm.n, tm.lag)
  BY <1>1 DEF At
<1> HIDE DEF p, l, k, a
<1>5. Made(a, tm, tm.bits, tm.cnt, k, l)
  <2>1. tm \in Timer /\ l \in Int /\ k \in Nat
    BY <1>1, <1>2
  <2> HIDE DEF s
  <2> QED BY <1>3, <2>1, MadeSkip
<1>6. Made(s, a, Pulse, a.latch, a.n, a.lag)
  BY <1>1, <1>5, PulseSettles DEF Made
<1>7. Close(f[i + p * (tm.latch + 1)], tm, Pulse, tm.latch, tm.n + p, tm.lag - p * (tm.latch + 1))
  BY <1>1, <1>2, <1>4, Periods
<1>8. Close(f[i + (tm.lag - l)], tm, Pulse, tm.latch, k, l)
  BY <1>1, <1>2, <1>7 DEF k
<1>9. s.lag = l /\ s.bits = Pulse
  BY <1>5, <1>6 DEF Made
<1>10. At(f[i + (tm.lag - l)], s)
  BY <1>5, <1>6, <1>8 DEF Made, At, Close
<1>11. "STEP" \notin Pulse
  BY DEF Pulse
<1> QED BY <1>9, <1>10, <1>11 DEF a

\* The end of a cycle adds no step.
LEMMA SettleStep ==
  ASSUME NEW a \in Timer, "STEP" \notin a.bits
  PROVE  "STEP" \notin Settle(a).bits
<1> DEFINE t1 == IF Underflows(a) THEN a.bits \cup {"LOAD", "OUT"} ELSE a.bits
           load == "LOAD" \in t1
           t2 == IF load THEN t1 \ {"COUNT3"} ELSE t1
           stop == "OUT" \in t2 /\ t2 \cap {"ONESHOT", "ONESHOT0"} # {}
           t == IF stop THEN t2 \ {"START", "COUNT2"} ELSE t2
           k == IF load THEN a.latch ELSE a.cnt
           n == a.n + (IF Underflows(a) THEN 1 ELSE 0)
<1>1. Settle(a) = [a EXCEPT !.bits = t, !.cnt = k, !.n = n]
  BY Zenon DEF Settle
<1>2. "STEP" \notin t
  OBVIOUS
<1> HIDE DEF t, k, n
<1> QED BY <1>1, <1>2 DEF Timer

\* A cycle that ciat_update() computes by itself.
LEMMA CycleExact ==
  ASSUME NEW f, NEW m, Runs(f, m), NEW i \in Nat, NEW tm, Sound(tm), tm.lag > 0,
         At(f[i], tm), i + tm.lag <= m
  PROVE  LET s == Cycle(tm) IN
         At(f[i + (tm.lag - s.lag)], s) /\ "STEP" \notin s.bits
<1>1. tm \in Timer /\ tm.lag \in Nat /\ m \in Nat /\ i \in 0 .. m - 1
  BY DEF Sound, Runs
<1>2. f[i] \in Timer /\ f[i + 1] = Cycle(f[i])
  <2>1. At(f[i], f[i])
    BY DEF At, Close
  <2>2. f[i] \in Timer
    BY DEF At, Close
  <2> QED BY <1>1, <2>1, <2>2, NextCycle DEF At
<1>3. Cycle(f[i]) = Cycle(tm)
  BY <1>1, <1>2, CycleShape DEF At
<1>4. Cycle(tm) \in Timer /\ Cycle(tm).lag = tm.lag - 1
  BY <1>1, CycleFacts
<1>5. tm.lag - (tm.lag - 1) = 1
  BY <1>1
<1>6. "STEP" \notin Cycle(tm).bits
  <2> DEFINE b == Increment(tm)
  <2>1. b \in Timer /\ "STEP" \notin b.bits
    <3>1. tm.bits \in SUBSET Bits
      BY <1>1 DEF Timer
    <3> QED BY <1>1, <3>1, IncrementFacts, PipelineBits
  <2>2. Cycle(tm) = Settle(b)
    BY DEF Cycle
  <2> HIDE DEF b
  <2> QED BY <2>1, <2>2, SettleStep
<1> QED BY <1>2, <1>3, <1>4, <1>5, <1>6 DEF At, Close

\* A round of ciat_update(): so many cycles one by one.
LEMMA RoundExact ==
  ASSUME NEW f, NEW m, Runs(f, m), NEW i \in Nat, NEW tm, Sound(tm), tm.lag > 0,
         ~ Stalled(tm), At(f[i], tm), i + tm.lag <= m
  PROVE  LET s == Round(tm) IN
         At(f[i + (tm.lag - s.lag)], s) /\ "STEP" \notin s.bits
<1>1. tm \in Timer /\ tm.lag \in Nat /\ m \in Nat
  BY DEF Sound, Runs
<1> DEFINE stands == WarpStopped(tm.bits) /\ tm.bits \cap {"FLOAD", "LOAD1", "LOAD"} = {}
<1>2. CASE WarpCounting(tm.bits)
  <2>1. "STEP" \notin tm.bits
    BY <1>2 DEF Stalled
  <2> QED BY <1>2, <2>1, CountExact
<1>3. CASE ~ WarpCounting(tm.bits) /\ stands
  <2> DEFINE a == [tm EXCEPT !.lag = 0]
             s == Settle(a)
  <2>1. "STEP" \notin tm.bits
    BY <1>3 DEF Stalled
  <2>2. Round(tm) = s
    BY <1>3 DEF Round, Advance
  <2>3. Made(a, tm, tm.bits, tm.cnt, tm.n, 0)
    BY <1>1 DEF Made, Timer
  <2> HIDE DEF a
  <2>4. "OUT" \notin a.bits /\ "LOAD" \notin a.bits /\ ~ Underflows(a)
    BY <1>3, <2>3 DEF Made, Sound, Underflows, WarpStopped, Counting
  <2>5. s.bits = a.bits /\ s.cnt = a.cnt /\ s.n = a.n /\ s.lag = a.lag /\ s.latch = a.latch /\ s.due = a.due
    BY <2>3, <2>4, QuietSettle, SettleFacts DEF Made
  <2> HIDE DEF s
  <2>6. Close(f[i + tm.lag], tm, tm.bits, tm.cnt, tm.n, tm.lag - tm.lag)
    BY <1>1, <1>3, <2>1, Stands DEF At
  <2>7. tm.lag - tm.lag = 0 /\ tm.lag - 0 = tm.lag
    BY <1>1
  <2> QED BY <2>1, <2>2, <2>3, <2>5, <2>6, <2>7 DEF Made, At, Close
<1>4. CASE ~ WarpCounting(tm.bits) /\ ~ stands /\ WarpByTwo(tm) /\ tm.lag >= 2
  <2>1. Round(tm) = Settle(JumpByTwo(tm))
    BY <1>4 DEF Round, Advance
  <2> QED BY <1>4, <2>1, ByTwoExact
<1>5. CASE ~ WarpCounting(tm.bits) /\ ~ stands /\ WarpByTwo(tm) /\ ~ (tm.lag >= 2)
  <2>1. Round(tm) = Settle(JumpByTwo(tm))
    BY <1>1, <1>5 DEF Round, Advance
  <2>2. JumpByTwo(tm) = Increment(tm)
    <3>1. "COUNT3" \notin tm.bits
      BY <1>5 DEF WarpByTwo
    <3>2. /\ JumpByTwo(tm) \in Timer /\ JumpByTwo(tm).bits = Pipeline(tm.bits)
          /\ JumpByTwo(tm).cnt = tm.cnt /\ JumpByTwo(tm).latch = tm.latch
          /\ JumpByTwo(tm).lag = tm.lag - 1 /\ JumpByTwo(tm).n = tm.n
          /\ JumpByTwo(tm).due = tm.due
      <4>1. tm.lag = 1 /\ tm.lag - 1 = 0
        BY <1>1, <1>5
      <4> QED BY <1>1, <4>1, ByTwoFacts
    <3> QED BY <1>1, <3>1, <3>2, IncrementFacts, SameFields
  <2>3. Round(tm) = Cycle(tm)
    BY <2>1, <2>2 DEF Cycle
  <2> QED BY <2>3, CycleExact
<1>6. CASE ~ WarpCounting(tm.bits) /\ ~ stands /\ ~ WarpByTwo(tm)
  <2>1. Round(tm) = Cycle(tm)
    BY <1>6 DEF Round, Advance, Cycle
  <2> QED BY <2>1, CycleExact
<1> QED BY <1>2, <1>3, <1>4, <1>5, <1>6

\* The cycles one by one, as many as one likes.
LEMMA CyclesRun ==
  ASSUME NEW tm \in Timer, NEW n \in Nat
  PROVE  \E f \in [0 .. n -> Timer] : f[0] = tm /\ \A i \in 1 .. n : f[i] = Cycle(f[i - 1])
<1> DEFINE S == {m \in Nat : \E f \in [0 .. m -> Timer] :
                   f[0] = tm /\ \A i \in 1 .. m : f[i] = Cycle(f[i - 1])}
<1>1. 0 \in S
  <2> DEFINE f == [i \in 0 .. 0 |-> tm]
  <2>1. f \in [0 .. 0 -> Timer] /\ f[0] = tm /\ \A i \in 1 .. 0 : f[i] = Cycle(f[i - 1])
    OBVIOUS
  <2> HIDE DEF f
  <2> QED BY <2>1
<1>2. ASSUME NEW m \in S PROVE m + 1 \in S
  <2>1. PICK f \in [0 .. m -> Timer] : f[0] = tm /\ \A i \in 1 .. m : f[i] = Cycle(f[i - 1])
    BY <1>2
  <2> DEFINE g == [i \in 0 .. m + 1 |-> IF i = m + 1 THEN Cycle(f[m]) ELSE f[i]]
  <2>2. g \in [0 .. m + 1 -> Timer]
    <3>1. \A a \in Timer : Cycle(a) \in Timer
      BY CycleFacts
    <3> QED BY <2>1, <3>1
  <2>3. g[0] = tm /\ \A i \in 1 .. m + 1 : g[i] = Cycle(g[i - 1])
    BY <2>1
  <2> HIDE DEF g
  <2> QED BY <2>2, <2>3
<1> HIDE DEF S
<1>3. S = Nat
  <2>1. S \in SUBSET Nat
    BY DEF S
  <2> QED BY <1>1, <1>2, <2>1, Induct
<1> QED BY <1>3 DEF S

\* The chip's timer, cycle by cycle.
LEMMA CyclesAreRuns ==
  ASSUME NEW tm \in Timer, tm.lag \in Nat
  PROVE  \E f : Runs(f, tm.lag) /\ f[0] = tm /\ Cycles(tm) = f[tm.lag]
<1>1. PICK f \in [0 .. tm.lag -> Timer] :
        f[0] = tm /\ \A i \in 1 .. tm.lag : f[i] = Cycle(f[i - 1])
  BY CyclesRun
<1>2. f = [k \in 0 .. tm.lag |-> IF k = 0 THEN tm ELSE Cycle(f[k - 1])]
  BY <1>1
<1> DEFINE r == CHOOSE g : g = [k \in 0 .. tm.lag |-> IF k = 0 THEN tm ELSE Cycle(g[k - 1])]
<1>3. r = [k \in 0 .. tm.lag |-> IF k = 0 THEN tm ELSE Cycle(r[k - 1])]
  BY <1>2
<1>4. Cycles(tm) = r[tm.lag]
  BY DEF Cycles
<1> HIDE DEF r
<1>5. r[0] = tm /\ \A i \in 1 .. tm.lag : r[i] = Cycle(r[i - 1])
  BY <1>3
<1>6. \A i \in 0 .. tm.lag : r[i] \in Timer
  <2> DEFINE S == {i \in Nat : i <= tm.lag => r[i] \in Timer}
  <2>1. 0 \in S
    BY <1>5
  <2>2. ASSUME NEW i \in S PROVE i + 1 \in S
    <3>1. i \in Nat /\ i + 1 \in Nat /\ (i + 1) - 1 = i
      OBVIOUS
    <3>2. ASSUME i + 1 <= tm.lag PROVE r[i + 1] \in Timer
      <4>1. i + 1 \in 1 .. tm.lag /\ r[i] \in Timer
        BY <3>1, <3>2
      <4>2. r[i + 1] = Cycle(r[i])
        BY <1>5, <3>1, <4>1
      <4> QED BY <4>1, <4>2, CycleFacts
    <3> QED BY <3>1, <3>2
  <2>3. S = Nat
    BY <2>1, <2>2, Induct
  <2> QED BY <2>3
<1> QED BY <1>4, <1>5, <1>6 DEF Runs

\* ciat_update() computes the timer that so many cycles one by one would make: its counter,
\* its underflows and every bit but COUNT, which only its jumps look at. What is excepted is a
\* timer stopped in the cycle in which the other one underflowed (ciatimer.h:303).
THEOREM JumpsAreExact ==
  ASSUME NEW tm, Sound(tm), ~ Stalled(tm)
  PROVE  At(Cycles(tm), CatchUp(tm))
<1> DEFINE l == tm.lag
<1>1. tm \in Timer /\ l \in Nat /\ tm \in Sounds
  BY DEF Sound, Sounds
<1>2. PICK r : r[0] = tm /\ (\A i \in 1 .. l : r[i] = Round(r[i - 1])) /\ CatchUp(tm) = r[l]
  BY <1>1, CatchUpRounds
<1>3. PICK f : Runs(f, l) /\ f[0] = tm /\ Cycles(tm) = f[l]
  BY <1>1, CyclesAreRuns
<1> DEFINE P(s) == Sound(s) /\ s.lag <= l /\ ~ Stalled(s) /\ At(f[l - s.lag], s)
           S == {k \in Nat : k <= l => P(r[k])}
<1>4. 0 \in S
  <2>1. At(tm, tm)
    BY <1>1 DEF At, Close
  <2>2. l - l = 0 /\ l <= l
    BY <1>1
  <2> QED BY <1>2, <1>3, <2>1, <2>2
<1>5. ASSUME NEW s, P(s) PROVE P(Round(s))
  <2>1. s.lag \in Nat
    BY <1>5 DEF Sound
  <2>2. CASE s.lag > 0
    <3> DEFINE i == l - s.lag
               q == Round(s)
    <3>1. i \in Nat /\ i + s.lag <= l
      BY <1>1, <1>5, <2>1
    <3>2. Sound(s) /\ ~ Stalled(s) /\ At(f[i], s)
      BY <1>5
    <3> HIDE DEF i
    <3>3. At(f[i + (s.lag - q.lag)], q) /\ "STEP" \notin q.bits
      BY <1>3, <2>2, <3>1, <3>2, RoundExact
    <3>4. Sound(q) /\ q.lag \in 0 .. s.lag - 1
      BY <2>2, <3>2, RoundFacts
    <3> HIDE DEF q
    <3>5. i + (s.lag - q.lag) = l - q.lag /\ q.lag <= l
      BY <1>1, <2>1, <3>1, <3>4 DEF i
    <3> QED BY <3>3, <3>4, <3>5 DEF q, Stalled
  <2>3. CASE ~ (s.lag > 0)
    BY <1>5, <2>3 DEF Round
  <2> QED BY <2>2, <2>3
<1>6. ASSUME NEW k \in S PROVE k + 1 \in S
  <2>1. ASSUME k + 1 <= l PROVE P(r[k + 1])
    <3>1. k + 1 \in 1 .. l /\ (k + 1) - 1 = k /\ k <= l
      BY <1>1, <2>1
    <3>2. r[k + 1] = Round(r[k]) /\ P(r[k])
      <4> HIDE DEF P
      <4> QED BY <1>2, <3>1
    <3> HIDE DEF P
    <3> QED BY <1>5, <3>2
  <2> HIDE DEF P
  <2> QED BY <2>1
<1>7. P(r[l])
  <2> HIDE DEF P
  <2>1. S = Nat
    BY <1>4, <1>6, Induct
  <2> QED BY <1>1, <2>1
<1>8. r[l].lag = 0
  BY <1>2, CatchUpFacts
<1>9. l - 0 = l
  BY <1>1
<1> QED BY <1>2, <1>3, <1>7, <1>8, <1>9
-----------------------------------------------------------------------------
(* The interrupt register.                                                   *)

\* What the interrupt register, its delays and the control registers hold.
Flags == {"TA", "TB", "TBB", "SET"}
DelayBits == {"ACK1", "ACK0", "ACK_1", "D7SET1", "D7SET0", "RAISE1", "RAISE0", "READ0", "READ1"}
ControlBits == {"START", "CR_ONESHOT", "FLOAD", "CNT", "INMODE_TA"}

\* The state of a chip.
Chip ==
  [ta : Timer, tb : Timer, cra : SUBSET ControlBits, crb : SUBSET ControlBits,
   mask : SUBSET {"TA", "TB"}, irqflags : SUBSET Flags, new : SUBSET Flags,
   ack : SUBSET Flags, delay : SUBSET DelayBits, ifr : Int, rdi : Nat,
   irqEnabled : BOOLEAN, line : {"off", "next", "on"}, idle : Int, tat : 0 .. 1, tbt : 0 .. 1]

\* A timer, its toggle and the control registers are left alone,
KeepsA(c, d) == d.ta = c.ta /\ d.tat = c.tat /\ d.cra = c.cra /\ d.crb = c.crb
KeepsB(c, d) == d.tb = c.tb /\ d.tbt = c.tbt /\ d.cra = c.cra /\ d.crb = c.crb

\* or both and the idle alarm.
Same(c, d) == d \in Chip /\ d.idle = c.idle /\ KeepsA(c, d) /\ KeepsB(c, d)

\* The delays move on by a cycle (cia_run_ifr_cycle).
LEMMA ShiftType ==
  ASSUME NEW t
  PROVE  Shift(t) \in SUBSET DelayBits /\ "RAISE1" \notin Shift(t)
BY DEF Shift, DelayBits

\* A cycle of the interrupt register leaves timers and idle alarm alone.
LEMMA RunIfrCycleFacts ==
  ASSUME NEW c \in Chip
  PROVE  /\ Same(c, RunIfrCycle(c)) /\ RunIfrCycle(c).ifr = c.ifr - 1
         /\ "RAISE1" \notin RunIfrCycle(c).delay
<1> DEFINE acked == IF "ACK0" \notin c.delay THEN c.irqflags
                    ELSE IF model = "old" THEN c.irqflags \ (c.ack \cup {"SET"})
                    ELSE c.irqflags \ c.ack
           late == model = "old" \/ c.rdi = c.ifr + 1
           new == IF c.new \cap c.mask = {} THEN {}
                  ELSE IF late THEN {"RAISE1", "D7SET1"} ELSE {"RAISE0", "D7SET0"}
           delay == c.delay \cup new
           raise == "RAISE0" \in delay
           f == IF "D7SET0" \in delay THEN acked \cup {"SET"} ELSE acked
           k == IF "ACK0" \in c.delay THEN {} ELSE c.ack
           l == IF raise /\ c.line # "on" THEN "on" ELSE c.line
           on == raise \/ c.irqEnabled
           d == Shift(delay)
           i == c.ifr - 1
           w == {}
<1>1. PICK e \in BOOLEAN : e = on
  BY DEF Chip
<1> DEFINE r == [c EXCEPT !.irqflags = f, !.ack = k, !.new = w, !.line = l,
                          !.irqEnabled = e, !.delay = d, !.ifr = i]
<1>2. RunIfrCycle(c) = r
  BY <1>1, Zenon DEF RunIfrCycle
<1>3. /\ c.irqflags \in SUBSET Flags /\ c.ack \in SUBSET Flags
      /\ c.line \in {"off", "next", "on"} /\ c.ifr \in Int
  BY DEF Chip
<1>4. f \in SUBSET Flags
  BY <1>3 DEF Flags
<1>5. k \in SUBSET Flags /\ l \in {"off", "next", "on"} /\ w \in SUBSET Flags /\ i \in Int
  BY <1>3
<1>6. d \in SUBSET DelayBits /\ "RAISE1" \notin d
  BY ShiftType
<1> HIDE DEF f, k, l, d, i, w
<1>7. r \in Chip
  <2>1. /\ c \in Chip /\ f \in SUBSET Flags /\ k \in SUBSET Flags /\ w \in SUBSET Flags
        /\ l \in {"off", "next", "on"} /\ e \in BOOLEAN /\ d \in SUBSET DelayBits /\ i \in Int
    BY <1>1, <1>4, <1>5, <1>6
  <2> QED BY ONLY <2>1 DEF Chip
<1>8. KeepsA(c, r) /\ KeepsB(c, r) /\ r.idle = c.idle /\ r.ifr = i /\ r.delay = d
  BY DEF Chip, KeepsA, KeepsB
<1> QED BY <1>2, <1>6, <1>7, <1>8 DEF Same, KeepsA, KeepsB, i

\* So does a round of the loop that catches it up.
LEMMA IfrRoundType == \A c \in Chip : Same(c, IfrRound(c))
BY RunIfrCycleFacts DEF IfrRound, Same, KeepsA, KeepsB

\* As many rounds as one likes.
LEMMA IfrRounds ==
  ASSUME NEW c \in Chip, NEW n \in Nat
  PROVE  \E f \in [0 .. n -> Chip] : f[0] = c /\ \A i \in 1 .. n : f[i] = IfrRound(f[i - 1])
<1> DEFINE S == {m \in Nat : \E f \in [0 .. m -> Chip] :
                   f[0] = c /\ \A i \in 1 .. m : f[i] = IfrRound(f[i - 1])}
<1>1. 0 \in S
  <2> DEFINE f == [i \in 0 .. 0 |-> c]
  <2>1. f \in [0 .. 0 -> Chip] /\ f[0] = c /\ \A i \in 1 .. 0 : f[i] = IfrRound(f[i - 1])
    OBVIOUS
  <2> HIDE DEF f
  <2> QED BY <2>1
<1>2. ASSUME NEW m \in S PROVE m + 1 \in S
  <2>1. PICK f \in [0 .. m -> Chip] : f[0] = c /\ \A i \in 1 .. m : f[i] = IfrRound(f[i - 1])
    BY <1>2
  <2> DEFINE g == [i \in 0 .. m + 1 |-> IF i = m + 1 THEN IfrRound(f[m]) ELSE f[i]]
  <2>2. IfrRound(f[m]) \in Chip
    BY <2>1, IfrRoundType DEF Same, KeepsA, KeepsB
  <2>3. g \in [0 .. m + 1 -> Chip]
    BY <2>1, <2>2
  <2>4. g[0] = c /\ \A i \in 1 .. m + 1 : g[i] = IfrRound(g[i - 1])
    BY <2>1
  <2> HIDE DEF g
  <2> QED BY <2>3, <2>4
<1> HIDE DEF S
<1>3. S = Nat
  <2>1. S \in SUBSET Nat
    BY DEF S
  <2> QED BY <1>1, <1>2, <2>1, Induct
<1> QED BY <1>3 DEF S

\* All the rounds of cia_ifr_catchup().
LEMMA IfrCyclesFacts ==
  ASSUME NEW c \in Chip, c.ifr \in Nat
  PROVE  Same(c, IfrCycles(c))
<1>1. PICK f \in [0 .. c.ifr -> Chip] :
        f[0] = c /\ \A i \in 1 .. c.ifr : f[i] = IfrRound(f[i - 1])
  BY IfrRounds
<1>2. f = [k \in 0 .. c.ifr |-> IF k = 0 THEN c ELSE IfrRound(f[k - 1])]
  BY <1>1
<1> DEFINE r == CHOOSE g : g = [k \in 0 .. c.ifr |-> IF k = 0 THEN c ELSE IfrRound(g[k - 1])]
<1>3. r = [k \in 0 .. c.ifr |-> IF k = 0 THEN c ELSE IfrRound(r[k - 1])]
  BY <1>2
<1>4. IfrCycles(c) = r[c.ifr]
  BY DEF IfrCycles
<1> HIDE DEF r
<1>5. r[0] = c /\ \A i \in 1 .. c.ifr : r[i] = IfrRound(r[i - 1])
  BY <1>3
<1> DEFINE S == {m \in Nat : m <= c.ifr => Same(c, r[m])}
<1>6. S = Nat
  <2>1. S \in SUBSET Nat
    OBVIOUS
  <2>2. 0 \in S
    BY <1>5 DEF Same, KeepsA, KeepsB
  <2>3. ASSUME NEW m \in S PROVE m + 1 \in S
    <3>1. CASE m + 1 <= c.ifr
      <4>1. r[m + 1] = IfrRound(r[m]) /\ Same(c, r[m])
        BY <1>5, <2>3, <3>1
      <4>2. Same(c, r[m + 1])
        BY <4>1, IfrRoundType DEF Same, KeepsA, KeepsB
      <4> QED BY <4>2
    <3>2. CASE ~ (m + 1 <= c.ifr)
      BY <3>2
    <3> QED BY <3>1, <3>2
  <2> HIDE DEF S
  <2> QED BY <2>1, <2>2, <2>3, Induct
<1> QED BY <1>4, <1>6

\* cia_ifr_catchup(): no cycle behind, and none ahead that was not.
LEMMA IfrCatchupFacts ==
  ASSUME NEW c \in Chip
  PROVE  /\ Same(c, IfrCatchup(c))
         /\ IfrCatchup(c).ifr = IF c.ifr > 0 THEN 0 ELSE c.ifr
<1> DEFINE d == IfrCycles(c)
           z == 0
<1>1. c.ifr \in Int
  BY DEF Chip
<1>2. CASE c.ifr > 0
  <2>1. Same(c, d) /\ z \in Int
    BY <1>1, <1>2, IfrCyclesFacts
  <2>2. IfrCatchup(c) = [d EXCEPT !.ifr = z]
    BY <1>2 DEF IfrCatchup
  <2> HIDE DEF d, z
  <2>3. IfrCatchup(c).ifr = z /\ Same(d, IfrCatchup(c))
    BY <2>1, <2>2 DEF Same, KeepsA, KeepsB, Chip
  <2> QED BY <1>2, <2>1, <2>3 DEF Same, KeepsA, KeepsB, z
<1>3. CASE ~ (c.ifr > 0)
  BY <1>3 DEF IfrCatchup, Same, KeepsA, KeepsB
<1> QED BY <1>2, <1>3

\* The present cycle of the interrupt register, unless an alarm is due in it.
LEMMA IfrNowFacts ==
  ASSUME NEW c \in Chip
  PROVE  /\ Same(c, IfrNow(c))
         /\ IfrNow(c).ifr = IF AlarmsDue(c) THEN c.ifr ELSE c.ifr - 1
         /\ ~ AlarmsDue(c) => "RAISE1" \notin IfrNow(c).delay
BY RunIfrCycleFacts DEF IfrNow, Same, KeepsA, KeepsB

\* A look at the next cycles brings the idle alarm forward when they raise the interrupt.
LEMMA IfrNextFacts ==
  ASSUME NEW c \in Chip
  PROVE  LET d == IfrNext(c) IN
         /\ d \in Chip /\ KeepsA(c, d) /\ KeepsB(c, d) /\ d.ifr = c.ifr
         /\ d.idle = c.idle \/ (d.idle = 1 /\ ~ AlarmsDue(c) /\ "RAISE1" \in c.delay)
<1>1. CASE AlarmsDue(c)
  BY <1>1 DEF IfrNext, KeepsA, KeepsB
<1>2. CASE ~ AlarmsDue(c) /\ "RAISE0" \in c.delay
  <2> DEFINE l == IF c.line = "off" THEN "next" ELSE c.line
             e == TRUE
  <2>1. l \in {"off", "next", "on"} /\ e \in BOOLEAN
    BY DEF Chip
  <2>2. IfrNext(c) = [c EXCEPT !.line = l, !.irqEnabled = e]
    BY <1>2 DEF IfrNext
  <2> HIDE DEF l, e
  <2> QED BY <2>1, <2>2 DEF Chip, KeepsA, KeepsB
<1>3. CASE ~ AlarmsDue(c) /\ "RAISE0" \notin c.delay /\ "RAISE1" \in c.delay
  <2> DEFINE o == 1
  <2>1. o \in Int
    OBVIOUS
  <2>2. IfrNext(c) = [c EXCEPT !.idle = o]
    BY <1>3 DEF IfrNext
  <2> HIDE DEF o
  <2>3. /\ IfrNext(c) \in Chip /\ IfrNext(c).idle = o
        /\ KeepsA(c, IfrNext(c)) /\ KeepsB(c, IfrNext(c)) /\ IfrNext(c).ifr = c.ifr
    BY <2>1, <2>2 DEF Chip, KeepsA, KeepsB
  <2> QED BY <1>3, <2>3 DEF o
<1>4. CASE ~ AlarmsDue(c) /\ "RAISE0" \notin c.delay /\ "RAISE1" \notin c.delay
  BY <1>4 DEF IfrNext, KeepsA, KeepsB
<1> QED BY <1>1, <1>2, <1>3, <1>4

\* The interrupt register after an alarm or an access to a timer: its cycle of now runs
\* unless another alarm is still due in it.
LEMMA IfrFacts ==
  ASSUME NEW c \in Chip
  PROVE  /\ Same(c, Ifr(c))
         /\ c.ifr >= 0 => Ifr(c).ifr = IF AlarmsDue(c) THEN 0 ELSE -1
<1> DEFINE d == IfrCatchup(c)
           e == IfrNow(d)
<1>1. Same(c, d) /\ d.ifr = IF c.ifr > 0 THEN 0 ELSE c.ifr
  BY IfrCatchupFacts
<1> HIDE DEF d
<1>2. /\ Same(d, e) /\ e.ifr = IF AlarmsDue(d) THEN d.ifr ELSE d.ifr - 1
      /\ ~ AlarmsDue(d) => "RAISE1" \notin e.delay
  BY <1>1, IfrNowFacts DEF Same, KeepsA, KeepsB
<1> HIDE DEF e
<1>3. /\ IfrNext(e) \in Chip /\ KeepsA(e, IfrNext(e)) /\ KeepsB(e, IfrNext(e))
      /\ IfrNext(e).ifr = e.ifr
      /\ IfrNext(e).idle = e.idle \/ (~ AlarmsDue(e) /\ "RAISE1" \in e.delay)
  BY <1>2, IfrNextFacts DEF Same, KeepsA, KeepsB
<1>4. /\ AlarmsDue(d) <=> AlarmsDue(c)
      /\ AlarmsDue(e) <=> AlarmsDue(c)
  BY <1>1, <1>2 DEF AlarmsDue, Same, KeepsA, KeepsB
<1>5. Ifr(c) = IfrNext(e)
  BY DEF Ifr, d, e
<1>6. Same(c, Ifr(c))
  BY <1>1, <1>2, <1>3, <1>4, <1>5 DEF Same, KeepsA, KeepsB
<1>7. c.ifr \in Int
  BY DEF Chip
<1> QED BY <1>1, <1>2, <1>3, <1>4, <1>5, <1>6, <1>7

\* cia_set_irq_flag(), which catches the interrupt register up.
LEMMA SetIrqFlagFacts ==
  ASSUME NEW c \in Chip, NEW bits \in SUBSET Flags
  PROVE  /\ Same(c, SetIrqFlag(c, bits))
         /\ SetIrqFlag(c, bits).ifr = IF c.ifr > 0 THEN 0 ELSE c.ifr
<1> DEFINE d == IfrCatchup(c)
           f == d.irqflags \cup bits
           w == d.new \cup bits
           k == d.ack \ bits
<1>1. Same(c, d) /\ d.ifr = IF c.ifr > 0 THEN 0 ELSE c.ifr
  BY IfrCatchupFacts
<1> HIDE DEF d
<1>2. SetIrqFlag(c, bits) = [d EXCEPT !.irqflags = f, !.new = w, !.ack = k]
  BY DEF SetIrqFlag, d
<1>3. d \in Chip
  BY <1>1 DEF Same, KeepsA, KeepsB
<1>4. d.irqflags \in SUBSET Flags /\ d.new \in SUBSET Flags /\ d.ack \in SUBSET Flags
  BY <1>3 DEF Chip
<1>5. f \in SUBSET Flags /\ w \in SUBSET Flags /\ k \in SUBSET Flags
  BY <1>4
<1> HIDE DEF f, w, k
<1>6. Same(d, SetIrqFlag(c, bits)) /\ SetIrqFlag(c, bits).ifr = d.ifr
  BY <1>2, <1>3, <1>5 DEF Chip, Same, KeepsA, KeepsB
<1> QED BY <1>1, <1>6 DEF Same, KeepsA, KeepsB-----------------------------------------------------------------------------
(* The timers of a chip.                                                     *)

\* A timer's alarm, when it has one, comes at its first underflow.
Kept(tm) == tm.due # Never => NextUnderflow(tm) = tm.lag + tm.due

\* A timer is computed for the present or has not been looked at.
Fresh(tm) == tm.lag > 0 \/ Settled(tm)

\* A timer computed for the present, with an alarm to come or none.
Armed(tm) == Sound(tm) /\ tm.lag = 0 /\ Kept(tm) /\ tm.due # 0

\* The same timer, but for the alarm.
Rearmed(t, u) ==
  /\ u \in Timer
  /\ u.bits = t.bits /\ u.cnt = t.cnt /\ u.latch = t.latch /\ u.lag = t.lag

\* Another alarm for a timer.
LEMMA DuePut ==
  ASSUME NEW tm \in Timer, NEW v \in Nat \cup {Never}
  PROVE  LET u == [tm EXCEPT !.due = v] IN
         u \in Timer /\ u.due = v /\ u.bits = tm.bits /\ u.cnt = tm.cnt
           /\ u.latch = tm.latch /\ u.lag = tm.lag /\ u.n = tm.n
BY DEF Timer

\* ciat_set_alarm() for a timer computed for the present.
LEMMA SetAlarmFacts ==
  ASSUME NEW tm, Sound(tm), tm.lag = 0
  PROVE  /\ Armed(SetAlarm(tm)) /\ Rearmed(tm, SetAlarm(tm))
         /\ Settled(tm) => Settled(SetAlarm(tm))
<1> DEFINE v == NextUnderflow(tm)
           u == [tm EXCEPT !.due = v]
<1>1. tm \in Timer /\ tm.lag = 0
  BY DEF Sound
<1>2. v \in (Nat \ {0}) \cup {Never}
  BY UnderflowType DEF Sound
<1> HIDE DEF v
<1>3. /\ u \in Timer /\ u.due = v /\ u.bits = tm.bits /\ u.cnt = tm.cnt
      /\ u.latch = tm.latch /\ u.lag = tm.lag
  BY <1>1, <1>2, DuePut
<1>4. SetAlarm(tm) = u
  BY DEF SetAlarm, v
<1> HIDE DEF u
<1>5. NextUnderflow(u) = v
  <2>1. Alike(u, tm)
    BY <1>3 DEF Alike
  <2> QED BY <1>1, <1>3, <2>1, AlikeUnderflow DEF v
<1>6. Sound(u) /\ (Settled(tm) => Settled(u))
  BY <1>1, <1>3 DEF Sound, Settled
<1>7. u.due # Never => NextUnderflow(u) = u.lag + u.due
  BY <1>1, <1>2, <1>3, <1>5
<1>8. u.due # 0
  BY <1>2, <1>3 DEF Never
<1> QED BY <1>1, <1>3, <1>4, <1>6, <1>7, <1>8 DEF Armed, Kept, Rearmed

\* A timer without an alarm.
LEMMA AckAlarmFacts ==
  ASSUME NEW tm, Sound(tm)
  PROVE  LET u == AckAlarm(tm) IN
         /\ Sound(u) /\ Kept(u) /\ u.due = Never /\ Rearmed(tm, u)
         /\ Settled(tm) => Settled(u)
<1> DEFINE v == Never
           u == [tm EXCEPT !.due = v]
<1>1. tm \in Timer /\ v \in Nat \cup {Never}
  BY DEF Sound
<1>2. AckAlarm(tm) = u
  BY DEF AckAlarm
<1> HIDE DEF v
<1>3. /\ u \in Timer /\ u.due = v /\ u.bits = tm.bits /\ u.cnt = tm.cnt
      /\ u.latch = tm.latch /\ u.lag = tm.lag
  BY <1>1, DuePut
<1> HIDE DEF u
<1>4. Sound(u) /\ (Settled(tm) => Settled(u))
  BY <1>1, <1>3 DEF Sound, Settled
<1> QED BY <1>2, <1>3, <1>4 DEF Kept, Rearmed, v

\* ciat_update() before the alarm, at it, and for a timer with none.
LEMMA UpdateFacts ==
  ASSUME NEW tm, Sound(tm)
  PROVE  LET u == Update(tm) IN
         /\ Sound(u) /\ u.lag = 0 /\ u.due = tm.due
         /\ Fresh(tm) => Settled(u)
         /\ Kept(tm) /\ tm.due # 0 => Kept(u)
         /\ Kept(tm) /\ tm.due # Never => u.n = IF tm.due = 0 THEN 1 ELSE 0
<1> DEFINE z == 0
           t == [tm EXCEPT !.n = z]
           u == CatchUp(t)
<1>1. tm \in Timer /\ tm.lag \in Nat /\ tm.due \in Nat \cup {Never} /\ z \in Nat
  BY DEF Sound, Timer
<1>2. Update(tm) = u
  BY DEF Update
<1> HIDE DEF z
<1>3. /\ t \in Timer /\ t.n = z /\ t.bits = tm.bits /\ t.cnt = tm.cnt
      /\ t.latch = tm.latch /\ t.lag = tm.lag /\ t.due = tm.due
  BY <1>1 DEF Timer
<1> HIDE DEF t
<1>4. Sound(t) /\ (Settled(tm) => Settled(t))
  BY <1>1, <1>3 DEF Sound, Settled
<1>5. NextUnderflow(t) = NextUnderflow(tm)
  <2>1. Alike(t, tm)
    BY <1>3 DEF Alike
  <2> QED BY <1>1, <1>3, <2>1, AlikeUnderflow
<1>6. /\ Sound(u) /\ u.lag = 0 /\ u.due = t.due
      /\ t.lag > 0 => Settled(u)
      /\ t.lag = 0 => u = t
      /\ NextUnderflow(t) # Never /\ t.lag < NextUnderflow(t) =>
           /\ u.n = t.n
           /\ NextUnderflow(u) = NextUnderflow(t) - t.lag
      /\ NextUnderflow(t) = t.lag => u.n = t.n + 1
  BY <1>4, CatchUpFacts
<1> HIDE DEF u
<1>7. Fresh(tm) => Settled(u)
  BY <1>1, <1>3, <1>4, <1>6 DEF Fresh
<1>8. ASSUME Kept(tm), tm.due # Never, tm.due # 0 PROVE u.n = 0 /\ NextUnderflow(u) = u.lag + u.due
  <2>1. NextUnderflow(t) = t.lag + t.due /\ t.due \in Nat \ {0}
    BY <1>1, <1>3, <1>5, <1>8 DEF Kept
  <2>2. NextUnderflow(t) # Never /\ t.lag < NextUnderflow(t)
    BY <1>1, <1>3, <2>1 DEF Never
  <2> QED BY <1>1, <1>3, <1>6, <2>1, <2>2 DEF z
<1>9. ASSUME Kept(tm), tm.due = 0 PROVE u.n = 1
  <2>1. NextUnderflow(t) = t.lag
    BY <1>1, <1>3, <1>5, <1>9 DEF Kept, Never
  <2> QED BY <1>3, <1>6, <2>1 DEF z
<1> QED BY <1>2, <1>3, <1>6, <1>7, <1>8, <1>9 DEF Kept

\* A timer that ciat_update() has computed, with its underflows told to the chip.
Computed(t, u) ==
  /\ Sound(u) /\ u.lag = 0 /\ u.due = t.due
  /\ Fresh(t) => Settled(u)
  /\ Kept(t) /\ t.due # 0 => Kept(u)

\* The same, with the underflows passed on.
LEMMA ComputedFacts ==
  ASSUME NEW t, Sound(t)
  PROVE  Computed(t, [Update(t) EXCEPT !.n = 0])
<1> DEFINE z == 0
           s == Update(t)
           u == [s EXCEPT !.n = z]
<1>1. /\ Sound(s) /\ s.lag = 0 /\ s.due = t.due
      /\ Fresh(t) => Settled(s)
      /\ Kept(t) /\ t.due # 0 => Kept(s)
  BY UpdateFacts
<1> HIDE DEF s
<1>2. s \in Timer /\ z \in Nat
  BY <1>1 DEF Sound
<1> HIDE DEF z
<1>3. /\ u \in Timer /\ u.n = z /\ u.bits = s.bits /\ u.cnt = s.cnt
      /\ u.latch = s.latch /\ u.lag = s.lag /\ u.due = s.due
  BY <1>2 DEF Timer
<1> HIDE DEF u
<1>4. NextUnderflow(u) = NextUnderflow(s)
  <2>1. Alike(u, s)
    BY <1>3 DEF Alike
  <2> QED BY <1>2, <1>3, <2>1, AlikeUnderflow
<1>5. Sound(u) /\ (Settled(s) => Settled(u)) /\ (Kept(s) => Kept(u))
  BY <1>1, <1>3, <1>4 DEF Sound, Settled, Kept
<1>6. Computed(t, u)
  BY <1>1, <1>3, <1>5 DEF Computed
<1> QED BY <1>6 DEF u, s, z

\* The interrupt register does not get ahead of the clock, and the idle alarm stays.
IfrKept(c, d) ==
  /\ d.idle = c.idle
  /\ c.ifr >= 0 => d.ifr >= 0
  /\ c.ifr >= -1 => d.ifr >= -1

\* Another timer for a chip.
LEMMA TimerPut ==
  ASSUME NEW c \in Chip, NEW t \in Timer
  PROVE  /\ LET d == [c EXCEPT !.ta = t] IN
            /\ d \in Chip /\ d.ta = t /\ d.tat = c.tat /\ KeepsB(c, d)
            /\ d.idle = c.idle /\ d.ifr = c.ifr
         /\ LET d == [c EXCEPT !.tb = t] IN
            /\ d \in Chip /\ d.tb = t /\ d.tbt = c.tbt /\ KeepsA(c, d)
            /\ d.idle = c.idle /\ d.ifr = c.ifr
BY DEF Chip, KeepsA, KeepsB

\* cia_set_irq_flag() as part of a handler.
LEMMA SetIrqFlagKept ==
  ASSUME NEW c \in Chip, NEW bits \in SUBSET Flags
  PROVE  Same(c, SetIrqFlag(c, bits)) /\ IfrKept(c, SetIrqFlag(c, bits))
<1>1. c.ifr \in Int
  BY DEF Chip
<1> QED BY <1>1, SetIrqFlagFacts DEF Same, KeepsA, KeepsB, IfrKept

\* cia_do_update_ta()
LEMMA DoUpdateTaFacts ==
  ASSUME NEW c \in Chip, Sound(c.ta)
  PROVE  LET d == DoUpdateTa(c) IN
         /\ d \in Chip /\ Computed(c.ta, d.ta) /\ KeepsB(c, d) /\ IfrKept(c, d)
         /\ d.ta = [Update(c.ta) EXCEPT !.n = 0]
         /\ d.tat = (c.tat + Update(c.ta).n) % 2
<1> DEFINE z == 0
           s == Update(c.ta)
           t == [s EXCEPT !.n = z]
           d == [c EXCEPT !.ta = t]
           f == {"TA"}
           e == SetIrqFlag(d, f)
           p == (e.tat + s.n) % 2
           g == [e EXCEPT !.tat = p]
<1>1. DoUpdateTa(c) = IF s.n = 0 THEN d ELSE g
  BY Zenon DEF DoUpdateTa, TaUpdated
<1>2. Computed(c.ta, t) /\ Sound(s)
  BY ComputedFacts, UpdateFacts
<1>3. t \in Timer /\ s.n \in Nat
  BY <1>2 DEF Computed, Sound, Timer
<1> HIDE DEF t, s
<1>4. d \in Chip /\ d.ta = t /\ d.tat = c.tat /\ KeepsB(c, d) /\ d.idle = c.idle /\ d.ifr = c.ifr
  BY <1>3, TimerPut
<1> HIDE DEF d
<1>5. Same(d, e) /\ IfrKept(d, e)
  BY <1>4, SetIrqFlagKept DEF Flags
<1> HIDE DEF e
<1>6. e \in Chip
  BY <1>5 DEF Same, KeepsA, KeepsB
<1>7. e.tat \in 0 .. 1
  BY <1>6 DEF Chip
<1>8. p \in 0 .. 1
  BY <1>3, <1>7
<1>9. c.tat \in 0 .. 1 /\ (s.n = 0 => (c.tat + s.n) % 2 = c.tat)
  <2>1. c.tat \in 0 .. 1
    BY DEF Chip
  <2> QED BY <2>1
<1>10. p = (c.tat + s.n) % 2
  BY <1>4, <1>5 DEF Same, KeepsA
<1> HIDE DEF p
<1>11. g \in Chip /\ g.ta = e.ta /\ g.tat = p /\ KeepsB(e, g) /\ g.idle = e.idle /\ g.ifr = e.ifr
  BY <1>6, <1>8 DEF Chip, KeepsB
<1>12. CASE s.n = 0
  BY <1>1, <1>2, <1>4, <1>9, <1>12 DEF IfrKept, s, t
<1>13. CASE s.n # 0
  <2>1. DoUpdateTa(c) = g
    BY <1>1, <1>13
  <2> HIDE DEF g
  <2>2. g.ta = t /\ KeepsB(c, g)
    BY <1>4, <1>5, <1>11 DEF Same, KeepsA, KeepsB
  <2>3. IfrKept(c, g)
    BY <1>4, <1>5, <1>11 DEF IfrKept
  <2>4. g \in Chip /\ g.tat = (c.tat + s.n) % 2
    BY <1>10, <1>11
  <2> QED BY <1>2, <2>1, <2>2, <2>3, <2>4 DEF s, t
<1> QED BY <1>12, <1>13

\* cia_do_update_tb()
LEMMA DoUpdateTbFacts ==
  ASSUME NEW c \in Chip, Sound(c.tb)
  PROVE  LET d == DoUpdateTb(c) IN
         /\ d \in Chip /\ Computed(c.tb, d.tb) /\ KeepsA(c, d) /\ IfrKept(c, d)
         /\ d.tb = [Update(c.tb) EXCEPT !.n = 0]
         /\ d.tbt = (c.tbt + Update(c.tb).n) % 2
<1> DEFINE z == 0
           s == Update(c.tb)
           t == [s EXCEPT !.n = z]
           d == [c EXCEPT !.tb = t]
           f == {"TB"}
           e == SetIrqFlag(d, f)
           q == IF TimerBBug(c) THEN e.irqflags \cup {"TBB"} ELSE e.irqflags \ {"TBB"}
           p == (e.tbt + s.n) % 2
           g == [e EXCEPT !.irqflags = q, !.tbt = p]
<1>1. DoUpdateTb(c) = IF s.n = 0 THEN d ELSE g
  BY Zenon DEF DoUpdateTb, TbUpdated
<1>2. Computed(c.tb, t) /\ Sound(s)
  BY ComputedFacts, UpdateFacts
<1>3. t \in Timer /\ s.n \in Nat
  BY <1>2 DEF Computed, Sound, Timer
<1> HIDE DEF t, s
<1>4. d \in Chip /\ d.tb = t /\ d.tbt = c.tbt /\ KeepsA(c, d) /\ d.idle = c.idle /\ d.ifr = c.ifr
  BY <1>3, TimerPut
<1> HIDE DEF d
<1>5. Same(d, e) /\ IfrKept(d, e)
  BY <1>4, SetIrqFlagKept DEF Flags
<1> HIDE DEF e
<1>6. e \in Chip
  BY <1>5 DEF Same, KeepsA, KeepsB
<1>7. e.tbt \in 0 .. 1 /\ e.irqflags \in SUBSET Flags
  BY <1>6 DEF Chip
<1>8. p \in 0 .. 1
  BY <1>3, <1>7
<1>9. q \in SUBSET Flags
  BY <1>7 DEF Flags
<1>10. c.tbt \in 0 .. 1 /\ (s.n = 0 => (c.tbt + s.n) % 2 = c.tbt)
  <2>1. c.tbt \in 0 .. 1
    BY DEF Chip
  <2> QED BY <2>1
<1>11. p = (c.tbt + s.n) % 2
  BY <1>4, <1>5 DEF Same, KeepsB
<1> HIDE DEF p, q
<1>12. g \in Chip /\ g.tb = e.tb /\ g.tbt = p /\ KeepsA(e, g) /\ g.idle = e.idle /\ g.ifr = e.ifr
  BY <1>6, <1>8, <1>9 DEF Chip, KeepsA
<1>13. CASE s.n = 0
  BY <1>1, <1>2, <1>4, <1>10, <1>13 DEF IfrKept, s, t
<1>14. CASE s.n # 0
  <2>1. DoUpdateTb(c) = g
    BY <1>1, <1>14
  <2> HIDE DEF g
  <2>2. g.tb = t /\ KeepsA(c, g)
    BY <1>4, <1>5, <1>12 DEF Same, KeepsA, KeepsB
  <2>3. IfrKept(c, g)
    BY <1>4, <1>5, <1>12 DEF IfrKept
  <2>4. g \in Chip /\ g.tbt = (c.tbt + s.n) % 2
    BY <1>11, <1>12
  <2> QED BY <1>2, <2>1, <2>2, <2>3, <2>4 DEF s, t
<1> QED BY <1>13, <1>14

\* Both timers are sound and their alarms are the first underflows.
Good(c) == c \in Chip /\ Sound(c.ta) /\ Kept(c.ta) /\ Sound(c.tb) /\ Kept(c.tb)

\* A timer some handlers later in the same cycle: it is computed, or as it was.
Later(t, u) ==
  /\ u.lag \in {0, t.lag}
  /\ Fresh(t) => Fresh(u)
  /\ u.due = 0 => t.due = 0

\* A chip some handlers later.
After(c, d) ==
  Good(d) /\ Later(c.ta, d.ta) /\ Later(c.tb, d.tb) /\ IfrKept(c, d)

\* A handler may do nothing.
LEMMA AfterSame == ASSUME NEW c, Good(c) PROVE After(c, c)
BY DEF After, Later, IfrKept

\* Handlers call one another.
LEMMA AfterAfter ==
  ASSUME NEW c, NEW d, NEW e, After(c, d), After(d, e)
  PROVE  After(c, e)
BY DEF After, Later, IfrKept

\* An armed timer that was computed in time is settled.
LEMMA LaterArmed ==
  ASSUME NEW t, NEW u, Later(t, u), u.lag = 0, Fresh(t)
  PROVE  Settled(u)
BY DEF Later, Fresh

\* The alarm of timer B after its handler: one to come, or none.
LEMMA RenewTbFacts ==
  ASSUME NEW c \in Chip, Sound(c.tb), c.tb.lag = 0
  PROVE  LET d == RenewTb(c) IN
         /\ d \in Chip /\ Armed(d.tb) /\ Rearmed(c.tb, d.tb) /\ (Settled(c.tb) => Settled(d.tb))
         /\ KeepsA(c, d) /\ d.tbt = c.tbt /\ IfrKept(c, d)
<1> DEFINE a == AckAlarm(c.tb)
           b == SetAlarm(a)
           again == /\ "START" \in c.crb
                    /\ c.crb \cap {"CR_ONESHOT", "CNT", "INMODE_TA"} = {}
                    /\ "TB" \in c.mask
           t == IF again THEN b ELSE a
<1>1. RenewTb(c) = [c EXCEPT !.tb = t]
  BY Zenon DEF RenewTb
<1>2. Sound(a) /\ Kept(a) /\ a.due = Never /\ a.lag = 0 /\ Rearmed(c.tb, a) /\ (Settled(c.tb) => Settled(a))
  BY AckAlarmFacts DEF Rearmed
<1> HIDE DEF a
<1>3. Armed(b) /\ Rearmed(a, b) /\ (Settled(a) => Settled(b))
  BY <1>2, SetAlarmFacts
<1> HIDE DEF b
<1>4. Armed(t) /\ Rearmed(c.tb, t) /\ (Settled(c.tb) => Settled(t))
  BY <1>2, <1>3 DEF Armed, Never, Rearmed
<1> HIDE DEF t
<1>5. t \in Timer
  BY <1>4 DEF Armed, Sound
<1> DEFINE d == [c EXCEPT !.tb = t]
<1>6. d \in Chip /\ d.tb = t /\ d.tbt = c.tbt /\ KeepsA(c, d) /\ d.idle = c.idle /\ d.ifr = c.ifr
  BY <1>5, TimerPut
<1> HIDE DEF d
<1> QED BY <1>1, <1>4, <1>6 DEF IfrKept, d

\* The alarm of timer A after its handler.
LEMMA RenewTaFacts ==
  ASSUME NEW c \in Chip, Sound(c.ta), c.ta.lag = 0
  PROVE  LET d == RenewTa(c) IN
         /\ d \in Chip /\ Armed(d.ta) /\ Rearmed(c.ta, d.ta) /\ (Settled(c.ta) => Settled(d.ta))
         /\ KeepsB(c, d) /\ d.tat = c.tat /\ IfrKept(c, d)
<1> DEFINE a == AckAlarm(c.ta)
           b == SetAlarm(a)
           again == /\ "START" \in c.cra
                    /\ c.cra \cap {"CR_ONESHOT", "CNT"} = {}
                    /\ \/ "TA" \in c.mask /\ "SET" \notin c.irqflags
                       \/ "INMODE_TA" \in c.crb
           t == IF again THEN b ELSE a
<1>1. RenewTa(c) = [c EXCEPT !.ta = t]
  BY Zenon DEF RenewTa
<1>2. Sound(a) /\ Kept(a) /\ a.due = Never /\ a.lag = 0 /\ Rearmed(c.ta, a) /\ (Settled(c.ta) => Settled(a))
  BY AckAlarmFacts DEF Rearmed
<1> HIDE DEF a
<1>3. Armed(b) /\ Rearmed(a, b) /\ (Settled(a) => Settled(b))
  BY <1>2, SetAlarmFacts
<1> HIDE DEF b
<1>4. Armed(t) /\ Rearmed(c.ta, t) /\ (Settled(c.ta) => Settled(t))
  BY <1>2, <1>3 DEF Armed, Never, Rearmed
<1> HIDE DEF t
<1>5. t \in Timer
  BY <1>4 DEF Armed, Sound
<1> DEFINE d == [c EXCEPT !.ta = t]
<1>6. d \in Chip /\ d.ta = t /\ d.tat = c.tat /\ KeepsB(c, d) /\ d.idle = c.idle /\ d.ifr = c.ifr
  BY <1>5, TimerPut
<1> HIDE DEF d
<1> QED BY <1>1, <1>4, <1>6 DEF IfrKept, d

\* ciacore_inttb(): timer B alone.
LEMMA InttbFacts ==
  ASSUME NEW c, Good(c)
  PROVE  After(c, Inttb(c)) /\ Armed(Inttb(c).tb) /\ KeepsA(c, Inttb(c))
<1> DEFINE d == DoUpdateTb(c)
           e == RenewTb(d)
<1>1. c \in Chip /\ Sound(c.tb)
  BY DEF Good
<1>2. d \in Chip /\ Computed(c.tb, d.tb) /\ KeepsA(c, d) /\ IfrKept(c, d)
  BY <1>1, DoUpdateTbFacts
<1> HIDE DEF d
<1>3. /\ e \in Chip /\ Armed(e.tb) /\ (Settled(d.tb) => Settled(e.tb))
      /\ KeepsA(d, e) /\ IfrKept(d, e)
  BY <1>2, RenewTbFacts DEF Computed
<1>4. Inttb(c) = e
  BY DEF Inttb, d
<1> HIDE DEF e
<1>5. Later(c.tb, e.tb) /\ Later(c.ta, e.ta)
  BY <1>2, <1>3 DEF Later, Computed, Armed, Fresh, KeepsA
<1>6. Good(e) /\ IfrKept(c, e)
  BY <1>2, <1>3 DEF Good, Armed, IfrKept, KeepsA
<1> QED BY <1>2, <1>3, <1>4, <1>5, <1>6 DEF After, KeepsA

\* Timer B brought up to date, through its handler when its alarm is due.
LEMMA UpdateTbOnlyFacts ==
  ASSUME NEW c, Good(c)
  PROVE  /\ After(c, UpdateTbOnly(c)) /\ Armed(UpdateTbOnly(c).tb)
         /\ KeepsA(c, UpdateTbOnly(c))
<1>1. CASE c.tb.due = 0
  BY <1>1, InttbFacts DEF UpdateTbOnly
<1>2. CASE c.tb.due # 0
  <2> DEFINE d == DoUpdateTb(c)
  <2>1. c \in Chip /\ Sound(c.tb) /\ Kept(c.tb)
    BY DEF Good
  <2>2. d \in Chip /\ Computed(c.tb, d.tb) /\ KeepsA(c, d) /\ IfrKept(c, d)
    BY <2>1, DoUpdateTbFacts
  <2>3. UpdateTbOnly(c) = d
    BY <1>2 DEF UpdateTbOnly
  <2> HIDE DEF d
  <2>4. Armed(d.tb)
    BY <1>2, <2>1, <2>2 DEF Computed, Armed
  <2>5. Later(c.tb, d.tb) /\ Later(c.ta, d.ta)
    BY <2>2 DEF Later, Computed, Fresh, KeepsA
  <2>6. Good(d)
    BY <2>2, <2>4 DEF Good, Armed, KeepsA
  <2> QED BY <2>2, <2>3, <2>4, <2>5, <2>6 DEF After
<1> QED BY <1>1, <1>2

\* ciat_single_step(): B is given a pulse of A.
LEMMA SingleStepFacts ==
  ASSUME NEW tm, Armed(tm)
  PROVE  Armed(SingleStep(tm)) /\ (Settled(tm) => Settled(SingleStep(tm)))
<1> DEFINE b == tm.bits \cup {"STEP"}
           t == [tm EXCEPT !.bits = b]
<1>1. CASE "START" \in tm.bits
  <2>1. SingleStep(tm) = SetAlarm(t)
    BY <1>1 DEF SingleStep
  <2>2. tm \in Timer /\ tm.lag = 0 /\ Sound(tm)
    BY DEF Armed, Sound
  <2>3. b \in SUBSET Bits
    BY <2>2 DEF Timer, Bits
  <2>4. /\ "COUNT3" \in b <=> "COUNT3" \in tm.bits
        /\ "LOAD" \in b <=> "LOAD" \in tm.bits
        /\ "OUT" \in b <=> "OUT" \in tm.bits
        /\ "START" \in b <=> "START" \in tm.bits
    OBVIOUS
  <2> HIDE DEF b
  <2>5. t \in Timer /\ t.bits = b /\ t.cnt = tm.cnt /\ t.lag = tm.lag
    BY <2>2, <2>3 DEF Timer
  <2> HIDE DEF t
  <2>6. Sound(t) /\ t.lag = 0 /\ (Settled(tm) => Settled(t))
    BY <2>2, <2>4, <2>5 DEF Sound, Settled
  <2> QED BY <2>1, <2>6, SetAlarmFacts
<1>2. CASE "START" \notin tm.bits
  BY <1>2 DEF SingleStep
<1> QED BY <1>1, <1>2

\* cia_do_step_tb()
LEMMA StepTbFacts ==
  ASSUME NEW c, Good(c)
  PROVE  After(c, StepTb(c)) /\ KeepsA(c, StepTb(c))
<1>1. CASE Chained(c)
  <2> DEFINE d == UpdateTbOnly(c)
             t == SingleStep(d.tb)
             e == [d EXCEPT !.tb = t]
  <2>1. After(c, d) /\ Armed(d.tb) /\ KeepsA(c, d)
    BY UpdateTbOnlyFacts
  <2>2. StepTb(c) = e
    BY <1>1 DEF StepTb
  <2> HIDE DEF d
  <2>3. Armed(t) /\ (Settled(d.tb) => Settled(t))
    BY <2>1, SingleStepFacts
  <2> HIDE DEF t
  <2>4. d \in Chip /\ t \in Timer /\ Good(d)
    BY <2>1, <2>3 DEF After, Good, Armed, Sound
  <2>5. e \in Chip /\ e.tb = t /\ KeepsA(d, e) /\ e.idle = d.idle /\ e.ifr = d.ifr
    BY <2>4, TimerPut
  <2> HIDE DEF e
  <2>6. Later(d.tb, e.tb) /\ Later(d.ta, e.ta)
    BY <2>1, <2>3, <2>5 DEF Later, Armed, Fresh, KeepsA
  <2>7. Good(e) /\ IfrKept(d, e)
    BY <2>3, <2>4, <2>5 DEF Good, Armed, IfrKept, KeepsA
  <2>8. After(d, e)
    BY <2>6, <2>7 DEF After
  <2> QED BY <2>1, <2>2, <2>5, <2>8, AfterAfter DEF KeepsA
<1>2. CASE ~ Chained(c)
  BY <1>2, AfterSame DEF StepTb, KeepsA
<1> QED BY <1>1, <1>2

\* ciacore_intta(): timer A, and timer B when it counts A's underflows.
LEMMA InttaFacts ==
  ASSUME NEW c, Good(c)
  PROVE  After(c, Intta(c)) /\ Armed(Intta(c).ta)
<1> DEFINE d == DoUpdateTa(c)
           e == RenewTa(d)
<1>1. c \in Chip /\ Sound(c.ta)
  BY DEF Good
<1>2. d \in Chip /\ Computed(c.ta, d.ta) /\ KeepsB(c, d) /\ IfrKept(c, d)
  BY <1>1, DoUpdateTaFacts
<1> HIDE DEF d
<1>3. /\ e \in Chip /\ Armed(e.ta) /\ (Settled(d.ta) => Settled(e.ta))
      /\ KeepsB(d, e) /\ IfrKept(d, e)
  BY <1>2, RenewTaFacts DEF Computed
<1>4. Intta(c) = StepTb(e)
  BY DEF Intta, d
<1> HIDE DEF e
<1>5. Later(c.ta, e.ta) /\ Later(c.tb, e.tb)
  BY <1>2, <1>3 DEF Later, Computed, Armed, Fresh, KeepsB
<1>6. Good(e) /\ IfrKept(c, e)
  BY <1>2, <1>3 DEF Good, Armed, IfrKept, KeepsB
<1>7. After(c, e)
  BY <1>5, <1>6 DEF After
<1>8. After(e, StepTb(e)) /\ KeepsA(e, StepTb(e))
  BY <1>6, StepTbFacts
<1> QED BY <1>3, <1>4, <1>7, <1>8, AfterAfter DEF KeepsA

\* cia_update_ta(): timer A brought up to date, through its handler when due.
LEMMA UpdateTaFacts ==
  ASSUME NEW c, Good(c)
  PROVE  After(c, UpdateTa(c)) /\ Armed(UpdateTa(c).ta)
<1>1. CASE c.ta.due = 0
  BY <1>1, InttaFacts DEF UpdateTa
<1>2. CASE c.ta.due # 0
  <2> DEFINE d == DoUpdateTa(c)
  <2>1. c \in Chip /\ Sound(c.ta) /\ Kept(c.ta)
    BY DEF Good
  <2>2. d \in Chip /\ Computed(c.ta, d.ta) /\ KeepsB(c, d) /\ IfrKept(c, d)
    BY <2>1, DoUpdateTaFacts
  <2>3. UpdateTa(c) = d
    BY <1>2 DEF UpdateTa
  <2> HIDE DEF d
  <2>4. Armed(d.ta)
    BY <1>2, <2>1, <2>2 DEF Computed, Armed
  <2>5. Later(c.tb, d.tb) /\ Later(c.ta, d.ta)
    BY <2>2 DEF Later, Computed, Fresh, KeepsB
  <2>6. Good(d)
    BY <2>2, <2>4 DEF Good, Armed, KeepsB
  <2> QED BY <2>2, <2>3, <2>4, <2>5, <2>6 DEF After
<1> QED BY <1>1, <1>2

\* cia_update_tb(), which brings timer A up to date first when B counts its underflows.
LEMMA UpdateTbFacts ==
  ASSUME NEW c, Good(c)
  PROVE  After(c, UpdateTb(c)) /\ Armed(UpdateTb(c).tb)
<1> DEFINE d == IF Chained(c) THEN UpdateTa(c) ELSE c
<1>1. After(c, d)
  BY UpdateTaFacts, AfterSame
<1>2. UpdateTb(c) = UpdateTbOnly(d)
  BY Zenon DEF UpdateTb
<1> HIDE DEF d
<1>3. After(d, UpdateTbOnly(d)) /\ Armed(UpdateTbOnly(d).tb)
  BY <1>1, UpdateTbOnlyFacts DEF After
<1> QED BY <1>1, <1>2, <1>3, AfterAfter

\* Both timers brought up to date.
LEMMA UpdateBothFacts ==
  ASSUME NEW c, Good(c)
  PROVE  LET d == UpdateTb(UpdateTa(c)) IN
         After(c, d) /\ Armed(d.ta) /\ Armed(d.tb)
<1> DEFINE d == UpdateTa(c)
           e == UpdateTb(d)
<1>1. After(c, d) /\ Armed(d.ta)
  BY UpdateTaFacts
<1> HIDE DEF d
<1>2. After(d, e) /\ Armed(e.tb)
  BY <1>1, UpdateTbFacts DEF After
<1> HIDE DEF e
<1>3. Armed(e.ta)
  BY <1>1, <1>2 DEF After, Good, Later, Armed
<1>4. After(c, e)
  BY <1>1, <1>2, AfterAfter
<1> QED BY <1>2, <1>3, <1>4 DEF d, e
-----------------------------------------------------------------------------
(* The alarms and the accesses.                                              *)

\* What an alarm's handler or an access leaves. The idle alarm is as it was and no timer is
\* further behind, or both timers are computed.
Done(c, d) ==
  /\ Good(d)
  /\ d.ifr >= -1
  /\ AlarmsDue(d) => d.ifr >= 0
  /\ \/ /\ d.idle = c.idle
        /\ d.ta.lag \in {0, c.ta.lag}
        /\ d.tb.lag \in {0, c.tb.lag}
     \/ d.idle \in {1, MaxIdle, c.idle} /\ d.ta.lag = 0 /\ d.tb.lag = 0

\* The interrupt register does not disturb the timers.
LEMMA GoodSame ==
  ASSUME NEW c, NEW d, Good(c), Same(c, d)
  PROVE  Good(d)
BY DEF Good, Same, KeepsA, KeepsB

\* The interrupts of this cycle, once per cycle.
LEMMA IfrDone ==
  ASSUME NEW c, Good(c), c.ifr >= 0
  PROVE  LET d == Ifr(c) IN
         /\ Good(d) /\ Same(c, d) /\ d.ifr >= -1 /\ (AlarmsDue(d) => d.ifr >= 0)
<1>1. c \in Chip
  BY DEF Good
<1>2. Same(c, Ifr(c)) /\ Ifr(c).ifr = IF AlarmsDue(c) THEN 0 ELSE -1
  BY <1>1, IfrFacts
<1>3. AlarmsDue(Ifr(c)) <=> AlarmsDue(c)
  BY <1>2 DEF Same, KeepsA, KeepsB, AlarmsDue
<1>4. Good(Ifr(c))
  BY <1>2, GoodSame
<1> QED BY <1>2, <1>3, <1>4

\* A handler followed by the interrupts of its cycle.
LEMMA EntryDone ==
  ASSUME NEW c, NEW d, After(c, d), c.ifr >= 0
  PROVE  Done(c, Ifr(d))
<1>1. Good(d) /\ d.ifr >= 0 /\ d.idle = c.idle
  BY DEF After, IfrKept
<1>2. /\ Good(Ifr(d)) /\ Same(d, Ifr(d)) /\ Ifr(d).ifr >= -1
      /\ AlarmsDue(Ifr(d)) => Ifr(d).ifr >= 0
  BY <1>1, IfrDone
<1>3. d.ta.lag \in {0, c.ta.lag} /\ d.tb.lag \in {0, c.tb.lag}
  BY DEF After, Later
<1> QED BY <1>1, <1>2, <1>3 DEF Done, Same, KeepsA, KeepsB

\* The alarms of the two timers.
LEMMA AlarmEntries ==
  ASSUME NEW c, Good(c), c.ifr >= 0
  PROVE  Done(c, InttaEntry(c)) /\ Done(c, InttbEntry(c))
BY InttaFacts, InttbFacts, EntryDone DEF InttaEntry, InttbEntry

\* The idle alarm: its guard keeps the interrupts of a cycle from being run twice.
LEMMA IdleEntryDone ==
  ASSUME NEW c, Good(c), c.ifr >= -1
  PROVE  Done(c, IdleEntry(c))
<1> DEFINE d == UpdateTb(UpdateTa(c))
           m == MaxIdle
           e == [d EXCEPT !.idle = m]
           f == IfrCatchup(e)
           g == IfrNow(f)
           h == IfrNext(g)
<1>1. IdleEntry(c) = IF f.ifr = 0 THEN h ELSE f
  BY Zenon DEF IdleEntry, IfrOnce
<1>2. After(c, d) /\ Armed(d.ta) /\ Armed(d.tb)
  BY UpdateBothFacts
<1> HIDE DEF d
<1>3. m \in Int /\ d \in Chip /\ d.ifr >= -1
  BY <1>2, CiaAssumption DEF After, Good, IfrKept
<1> HIDE DEF m
<1>4. e \in Chip /\ e.ta = d.ta /\ e.tb = d.tb /\ e.idle = m /\ e.ifr = d.ifr
  BY <1>3 DEF Chip
<1> HIDE DEF e
<1>5. Same(e, f) /\ f.ifr = IF e.ifr > 0 THEN 0 ELSE e.ifr
  BY <1>4, IfrCatchupFacts
<1> HIDE DEF f
<1>6. Same(f, g) /\ g.ifr = IF AlarmsDue(f) THEN f.ifr ELSE f.ifr - 1
  BY <1>5, IfrNowFacts DEF Same, KeepsA, KeepsB
<1> HIDE DEF g
<1>7. h \in Chip /\ KeepsA(g, h) /\ KeepsB(g, h) /\ h.ifr = g.ifr /\ h.idle \in {g.idle, 1}
  BY <1>6, IfrNextFacts DEF Same, KeepsA, KeepsB
<1> HIDE DEF h
<1> DEFINE k == IF f.ifr = 0 THEN h ELSE f
<1>8. k \in Chip /\ k.ta = d.ta /\ k.tb = d.tb /\ k.idle \in {m, 1}
  BY <1>4, <1>5, <1>6, <1>7 DEF Same, KeepsA, KeepsB
<1>9. k.ifr >= -1
  <2>1. f.ifr \in Int
    BY <1>5 DEF Same, KeepsA, KeepsB, Chip
  <2> QED BY <1>3, <1>4, <1>5, <1>6, <1>7, <2>1
<1> HIDE DEF k
<1>10. ~ AlarmsDue(k)
  BY <1>2, <1>8 DEF AlarmsDue, Armed
<1>11. Good(k)
  BY <1>2, <1>8 DEF Good, Armed
<1>12. Done(c, k)
  BY <1>2, <1>8, <1>9, <1>10, <1>11 DEF Done, Armed, m
<1> QED BY <1>1, <1>12 DEF k

\* A timer's alarm set again after the interrupts have run.
LEMMA TimerStored ==
  ASSUME NEW c, NEW d, NEW t, Done(c, d), Armed(t)
  PROVE  Done(c, [d EXCEPT !.ta = t]) /\ Done(c, [d EXCEPT !.tb = t])
<1> DEFINE a == [d EXCEPT !.ta = t]
           b == [d EXCEPT !.tb = t]
<1>1. d \in Chip /\ t \in Timer
  BY DEF Done, Good, Armed, Sound
<1>2. /\ a \in Chip /\ a.ta = t /\ a.tb = d.tb /\ a.idle = d.idle /\ a.ifr = d.ifr
      /\ b \in Chip /\ b.tb = t /\ b.ta = d.ta /\ b.idle = d.idle /\ b.ifr = d.ifr
  BY <1>1, TimerPut
<1> HIDE DEF a, b
<1>3. Good(a) /\ Good(b)
  BY <1>2 DEF Done, Good, Armed
<1>4. (AlarmsDue(a) => AlarmsDue(d)) /\ (AlarmsDue(b) => AlarmsDue(d))
  BY <1>2 DEF AlarmsDue, Armed
<1>5. Done(c, a) /\ Done(c, b)
  BY <1>2, <1>3, <1>4 DEF Done, Armed
<1> QED BY <1>5 DEF a, b

\* Multiplication is monotonic.
LEMMA Times == ASSUME NEW a \in Nat, NEW b \in Nat, NEW c \in Nat, a <= b PROVE a * c <= b * c
<1>1. \A x \in Nat : a * c <= (a + x) * c
  <2> TAKE x \in Nat
  <2>1. (a + x) * c = a * c + x * c /\ x * c \in Nat /\ a * c \in Nat
    OBVIOUS
  <2> QED BY <2>1
<1>2. b - a \in Nat /\ b = a + (b - a)
  OBVIOUS
<1> QED BY <1>1, <1>2

\* A value of a counter is two bytes.
LEMMA TwoBytes ==
  ASSUME NEW hi \in 0 .. LoSize - 1, NEW lo \in 0 .. LoSize - 1
  PROVE  lo + (hi * LoSize) \in 0 .. Width - 1
<1>1. LoSize \in Nat /\ LoSize >= 1 /\ hi \in Nat /\ LoSize - 1 \in Nat /\ hi <= LoSize - 1
  BY TimerConstants
<1>2. hi * LoSize <= (LoSize - 1) * LoSize /\ hi * LoSize \in Nat
  BY <1>1, Times
<1>3. (LoSize - 1) * LoSize = LoSize * LoSize - LoSize /\ LoSize * LoSize \in Nat
  BY <1>1
<1>4. Width = LoSize * LoSize
  BY TimerAssumption
<1> QED BY <1>1, <1>2, <1>3, <1>4

\* The bytes of a counter's value.
LEMMA HighByte ==
  ASSUME NEW v \in 0 .. Width - 1
  PROVE  v \div LoSize \in 0 .. LoSize - 1 /\ v % LoSize \in 0 .. LoSize - 1
<1> DEFINE q == v \div LoSize
<1>1. LoSize \in Nat /\ LoSize >= 1 /\ v \in Nat /\ v < LoSize * LoSize
  BY TimerConstants, TimerAssumption
<1>2. q \in Nat /\ q * LoSize <= v
  BY <1>1, DivFacts
<1>3. v % LoSize \in 0 .. LoSize - 1
  BY <1>1
<1> HIDE DEF q
<1>4. q < LoSize
  <2>1. SUFFICES ASSUME q >= LoSize PROVE FALSE
    BY <1>1, <1>2
  <2>2. LoSize * LoSize <= q * LoSize
    BY <1>1, <1>2, <2>1, Times
  <2>3. LoSize * LoSize \in Nat /\ q * LoSize \in Nat
    BY <1>1, <1>2
  <2> QED BY <1>1, <1>2, <2>2, <2>3
<1> QED BY <1>1, <1>2, <1>3, <1>4 DEF q

\* Another latch and counter for a timer.
LEMMA LatchPut ==
  ASSUME NEW tm \in Timer, NEW k \in 0 .. Width - 1, NEW l \in 0 .. Width - 1
  PROVE  LET u == [tm EXCEPT !.latch = l, !.cnt = k] IN
         u \in Timer /\ u.latch = l /\ u.cnt = k /\ u.bits = tm.bits /\ u.lag = tm.lag
BY DEF Timer

\* Writing a latch to a computed timer. The counter may be loaded with zero: no longer while
\* it is counting.
LEMMA SetLatchHiFacts ==
  ASSUME NEW tm, Armed(tm), Settled(tm), NEW byte \in 0 .. LoSize - 1
  PROVE  LET u == SetLatchHi(tm, byte)
             l == (tm.latch % LoSize) + (byte * LoSize)
         IN  /\ Armed(u) /\ u.bits = tm.bits /\ u.latch = l
             /\ u.cnt = IF "LOAD" \in tm.bits \/ "START" \notin tm.bits THEN l ELSE tm.cnt
<1> DEFINE l == (tm.latch % LoSize) + (byte * LoSize)
           k == IF "LOAD" \in tm.bits \/ "START" \notin tm.bits THEN l ELSE tm.cnt
           u == [tm EXCEPT !.latch = l, !.cnt = k]
<1>1. tm \in Timer /\ Sound(tm) /\ tm.lag = 0
  BY DEF Armed, Sound
<1>2. tm.latch \in 0 .. Width - 1 /\ tm.cnt \in 0 .. Width - 1
  BY <1>1 DEF Timer
<1>3. l \in 0 .. Width - 1
  BY <1>2, HighByte, TwoBytes
<1>4. SetLatchHi(tm, byte) = SetAlarm(u)
  BY Zenon DEF SetLatchHi
<1> HIDE DEF l
<1>5. k \in 0 .. Width - 1
  BY <1>2, <1>3
<1>6. "COUNT3" \in tm.bits => k > 0 \/ "START" \notin tm.bits
  BY DEF Settled
<1> HIDE DEF k
<1>7. u \in Timer /\ u.latch = l /\ u.cnt = k /\ u.bits = tm.bits /\ u.lag = tm.lag
  BY <1>1, <1>3, <1>5 DEF Timer
<1> HIDE DEF u
<1>8. Sound(u) /\ u.lag = 0
  BY <1>1, <1>6, <1>7 DEF Sound
<1>9. Armed(SetAlarm(u)) /\ Rearmed(u, SetAlarm(u))
  BY <1>8, SetAlarmFacts
<1> QED BY <1>4, <1>7, <1>9 DEF Rearmed, l, k

\* The low half of a latch.
LEMMA SetLatchLoFacts ==
  ASSUME NEW tm, Armed(tm), Settled(tm), NEW byte \in 0 .. LoSize - 1
  PROVE  LET u == SetLatchLo(tm, byte)
             Low(v) == (v \div LoSize) * LoSize + byte
         IN  /\ Armed(u) /\ u.bits = tm.bits /\ u.latch = Low(tm.latch)
             /\ u.cnt = IF "LOAD" \in tm.bits THEN Low(tm.cnt) ELSE tm.cnt
<1> DEFINE l == (tm.latch \div LoSize) * LoSize + byte
           v == (tm.cnt \div LoSize) * LoSize + byte
           k == IF "LOAD" \in tm.bits THEN v ELSE tm.cnt
           u == [tm EXCEPT !.latch = l, !.cnt = k]
<1>1. tm \in Timer /\ Sound(tm) /\ tm.lag = 0
  BY DEF Armed, Sound
<1>2. tm.latch \in 0 .. Width - 1 /\ tm.cnt \in 0 .. Width - 1
  BY <1>1 DEF Timer
<1>3. l \in 0 .. Width - 1 /\ v \in 0 .. Width - 1
  <2>1. \A h \in 0 .. LoSize - 1 : byte + (h * LoSize) \in 0 .. Width - 1
    BY TwoBytes
  <2>2. \A h \in 0 .. LoSize - 1 : h * LoSize + byte = byte + (h * LoSize)
    BY TimerConstants
  <2>3. tm.latch \div LoSize \in 0 .. LoSize - 1 /\ tm.cnt \div LoSize \in 0 .. LoSize - 1
    BY <1>2, HighByte
  <2> QED BY <2>1, <2>2, <2>3
<1>4. SetLatchLo(tm, byte) = SetAlarm(u)
  BY Zenon DEF SetLatchLo
<1> HIDE DEF l, v
<1>5. k \in 0 .. Width - 1
  BY <1>2, <1>3
<1>6. "COUNT3" \in tm.bits => k > 0 \/ "START" \notin tm.bits
  BY DEF Settled
<1> HIDE DEF k
<1>7. u \in Timer /\ u.latch = l /\ u.cnt = k /\ u.bits = tm.bits /\ u.lag = tm.lag
  BY <1>1, <1>3, <1>5 DEF Timer
<1> HIDE DEF u
<1>8. Sound(u) /\ u.lag = 0
  BY <1>1, <1>6, <1>7 DEF Sound
<1>9. Armed(SetAlarm(u)) /\ Rearmed(u, SetAlarm(u))
  BY <1>8, SetAlarmFacts
<1> QED BY <1>4, <1>7, <1>9 DEF Rearmed, l, v, k

\* Writing a control register to a computed timer: it may be started in mid-count.
LEMMA SetCtrlFacts ==
  ASSUME NEW tm, Armed(tm), Settled(tm), NEW byte
  PROVE  LET u == SetCtrl(tm, byte) IN
         /\ Armed(u) /\ u.cnt = tm.cnt /\ u.latch = tm.latch
         /\ u.bits = (tm.bits \ CrBits) \cup (byte \cap {"START", "CR_ONESHOT", "FLOAD"})
                       \cup {x \in {"PHI2IN"} : "CNT" \notin byte}
<1> DEFINE b == (tm.bits \ CrBits) \cup (byte \cap {"START", "CR_ONESHOT", "FLOAD"})
                  \cup {x \in {"PHI2IN"} : "CNT" \notin byte}
           u == [tm EXCEPT !.bits = b]
<1>1. tm \in Timer /\ Sound(tm) /\ tm.lag = 0
  BY DEF Armed, Sound
<1>2. SetCtrl(tm, byte) = SetAlarm(u)
  BY Zenon DEF SetCtrl
<1>3. tm.bits \in SUBSET Bits
  BY <1>1 DEF Timer
<1>4. b \in SUBSET Bits
  BY <1>3 DEF Bits, CrBits
<1>5. /\ "COUNT3" \in b <=> "COUNT3" \in tm.bits
      /\ "LOAD" \in b <=> "LOAD" \in tm.bits
      /\ "OUT" \in b <=> "OUT" \in tm.bits
  BY DEF CrBits
<1> HIDE DEF b
<1>6. u \in Timer /\ u.bits = b /\ u.cnt = tm.cnt /\ u.latch = tm.latch /\ u.lag = tm.lag
  BY <1>1, <1>4 DEF Timer
<1> HIDE DEF u
<1>7. Sound(u) /\ u.lag = 0
  BY <1>1, <1>5, <1>6 DEF Sound, Settled
<1>8. Armed(SetAlarm(u)) /\ Rearmed(u, SetAlarm(u))
  BY <1>7, SetAlarmFacts
<1> QED BY <1>2, <1>6, <1>8 DEF Rearmed, b

\* The CPU's turn comes when nothing has been looked at in this cycle, or only what a reset
\* has left.
Turn(c) == Good(c) /\ c.ifr >= 0 /\ Fresh(c.ta) /\ Fresh(c.tb)

\* Reading a counter, and the first part of writing a latch.
LEMMA AccessTimer ==
  ASSUME NEW c, Turn(c)
  PROVE  /\ Done(c, AccessTa(c)) /\ Armed(AccessTa(c).ta) /\ Settled(AccessTa(c).ta)
         /\ Done(c, AccessTb(c)) /\ Armed(AccessTb(c).tb) /\ Settled(AccessTb(c).tb)
<1>1. Good(c) /\ c.ifr >= 0
  BY DEF Turn
<1>2. /\ After(c, UpdateTa(c)) /\ Armed(UpdateTa(c).ta)
      /\ After(c, UpdateTb(c)) /\ Armed(UpdateTb(c).tb)
  BY <1>1, UpdateTaFacts, UpdateTbFacts
<1>3. Settled(UpdateTa(c).ta) /\ Settled(UpdateTb(c).tb)
  BY <1>2, LaterArmed DEF After, Armed, Turn
<1>4. Done(c, Ifr(UpdateTa(c))) /\ Done(c, Ifr(UpdateTb(c)))
  BY <1>1, <1>2, EntryDone
<1>5. Same(UpdateTa(c), Ifr(UpdateTa(c))) /\ Same(UpdateTb(c), Ifr(UpdateTb(c)))
  BY <1>1, <1>2, IfrDone DEF After, IfrKept
<1> QED BY <1>2, <1>3, <1>4, <1>5 DEF AccessTa, AccessTb, Same, KeepsA, KeepsB

\* Writing a half of a latch.
LEMMA StoreLatchDone ==
  ASSUME NEW c, Turn(c), NEW byte \in 0 .. LoSize - 1
  PROVE  /\ Done(c, [AccessTa(c) EXCEPT !.ta = SetLatchLo(@, byte)])
         /\ Done(c, [AccessTa(c) EXCEPT !.ta = SetLatchHi(@, byte)])
         /\ Done(c, [AccessTb(c) EXCEPT !.tb = SetLatchLo(@, byte)])
         /\ Done(c, [AccessTb(c) EXCEPT !.tb = SetLatchHi(@, byte)])
<1> DEFINE d == AccessTa(c)
           e == AccessTb(c)
<1>1. /\ Done(c, d) /\ Armed(d.ta) /\ Settled(d.ta)
      /\ Done(c, e) /\ Armed(e.tb) /\ Settled(e.tb)
  BY AccessTimer
<1> HIDE DEF d, e
<1>2. /\ Armed(SetLatchLo(d.ta, byte)) /\ Armed(SetLatchHi(d.ta, byte))
      /\ Armed(SetLatchLo(e.tb, byte)) /\ Armed(SetLatchHi(e.tb, byte))
  BY <1>1, SetLatchLoFacts, SetLatchHiFacts
<1>3. /\ Done(c, [d EXCEPT !.ta = SetLatchLo(d.ta, byte)])
      /\ Done(c, [d EXCEPT !.ta = SetLatchHi(d.ta, byte)])
      /\ Done(c, [e EXCEPT !.tb = SetLatchLo(e.tb, byte)])
      /\ Done(c, [e EXCEPT !.tb = SetLatchHi(e.tb, byte)])
  BY <1>1, <1>2, TimerStored
<1> QED BY <1>3 DEF d, e

\* Writing control register A.
LEMMA StoreCraDone ==
  ASSUME NEW c, Turn(c), NEW byte \in SUBSET ControlBits
  PROVE  Done(c, StoreCra(c, byte))
<1> DEFINE starts == "START" \in byte /\ "START" \notin c.cra
           d == UpdateTa(c)
           o == 1
           p == IF starts THEN o ELSE d.tat
           t == SetCtrl(d.ta, byte)
           b == byte \ {"FLOAD"}
           e == [d EXCEPT !.tat = p, !.ta = t, !.cra = b]
<1>1. StoreCra(c, byte) = Ifr(e)
  BY Zenon DEF StoreCra
<1>2. Good(c) /\ c.ifr >= 0
  BY DEF Turn
<1>3. After(c, d) /\ Armed(d.ta)
  BY <1>2, UpdateTaFacts
<1>4. Settled(d.ta)
  BY <1>3, LaterArmed DEF After, Armed, Turn
<1> HIDE DEF d
<1>5. Armed(t)
  BY <1>3, <1>4, SetCtrlFacts
<1> HIDE DEF t
<1>6. d \in Chip /\ t \in Timer /\ b \in SUBSET ControlBits
  BY <1>3, <1>5 DEF After, Good, Armed, Sound
<1>7. p \in 0 .. 1
  BY <1>6 DEF Chip
<1> HIDE DEF p, b
<1>8. e \in Chip /\ e.ta = t /\ e.tb = d.tb /\ e.idle = d.idle /\ e.ifr = d.ifr
  BY <1>6, <1>7 DEF Chip
<1> HIDE DEF e
<1>9. Good(e) /\ IfrKept(c, e)
  BY <1>3, <1>5, <1>8 DEF After, Good, Armed, IfrKept
<1>10. /\ Good(Ifr(e)) /\ Same(e, Ifr(e)) /\ Ifr(e).ifr >= -1
       /\ AlarmsDue(Ifr(e)) => Ifr(e).ifr >= 0
  BY <1>2, <1>9, IfrDone DEF IfrKept
<1>11. Done(c, Ifr(e))
  BY <1>3, <1>5, <1>8, <1>9, <1>10 DEF Done, Same, KeepsA, KeepsB, After, Later, Armed, IfrKept
<1> QED BY <1>1, <1>11

\* Writing control register B, which may also chain B to A.
LEMMA StoreCrbDone ==
  ASSUME NEW c, Turn(c), NEW byte \in SUBSET ControlBits
  PROVE  Done(c, StoreCrb(c, byte))
<1> DEFINE starts == "START" \in byte /\ "START" \notin c.crb
           o == 1
           p == IF starts THEN o ELSE c.tbt
           a == [c EXCEPT !.tbt = p]
           d == UpdateTb(UpdateTa(a))
           chain == "INMODE_TA" \in byte
           s == IF chain THEN SetAlarm(d.ta) ELSE d.ta
           t == SetCtrl(d.tb, IF chain THEN byte \cup {"CNT"} ELSE byte)
           b == byte \ {"FLOAD"}
           e == [d EXCEPT !.ta = s, !.tb = t, !.crb = b]
<1>1. StoreCrb(c, byte) = Ifr(e)
  BY Zenon DEF StoreCrb
<1>2. Good(c) /\ c.ifr >= 0 /\ c \in Chip
  BY DEF Turn, Good
<1>3. p \in 0 .. 1
  BY <1>2 DEF Chip
<1> HIDE DEF p
<1>4. a \in Chip /\ a.ta = c.ta /\ a.tb = c.tb /\ a.idle = c.idle /\ a.ifr = c.ifr
  BY <1>2, <1>3 DEF Chip
<1> HIDE DEF a
<1>5. Good(a)
  BY <1>2, <1>4 DEF Good
<1>6. After(a, d) /\ Armed(d.ta) /\ Armed(d.tb)
  BY <1>5, UpdateBothFacts
<1>7. Settled(d.ta) /\ Settled(d.tb)
  BY <1>4, <1>6, LaterArmed DEF After, Armed, Turn
<1> HIDE DEF d
<1>8. Armed(s) /\ Armed(t)
  BY <1>6, <1>7, SetAlarmFacts, SetCtrlFacts DEF Armed
<1> HIDE DEF s, t
<1>9. d \in Chip /\ s \in Timer /\ t \in Timer /\ b \in SUBSET ControlBits
  BY <1>6, <1>8 DEF After, Good, Armed, Sound
<1> HIDE DEF b
<1>10. e \in Chip /\ e.ta = s /\ e.tb = t /\ e.idle = d.idle /\ e.ifr = d.ifr
  BY <1>9 DEF Chip
<1> HIDE DEF e
<1>11. Good(e) /\ IfrKept(c, e)
  BY <1>4, <1>6, <1>8, <1>10 DEF After, Good, Armed, IfrKept
<1>12. /\ Good(Ifr(e)) /\ Same(e, Ifr(e)) /\ Ifr(e).ifr >= -1
       /\ AlarmsDue(Ifr(e)) => Ifr(e).ifr >= 0
  BY <1>2, <1>11, IfrDone DEF IfrKept
<1>13. Done(c, Ifr(e))
  BY <1>8, <1>10, <1>11, <1>12 DEF Done, Same, KeepsA, KeepsB, Armed, IfrKept
<1> QED BY <1>1, <1>13

\* A chip with both timers computed for the present, its interrupts of this cycle run or not.
Now(c) == c \in Chip /\ Armed(c.ta) /\ Armed(c.tb) /\ c.ifr >= -1

\* A register of such a chip is written.
LEMMA NowPut ==
  ASSUME NEW c, Now(c), NEW d \in Chip, d.ifr = c.ifr,
         d.ta = c.ta \/ Armed(d.ta), d.tb = c.tb \/ Armed(d.tb)
  PROVE  Now(d)
BY DEF Now

\* The look ahead at the end of an access: the idle alarm may come next cycle.
LEMMA NowDone ==
  ASSUME NEW c, NEW d, Now(d), d.idle = c.idle
  PROVE  Done(c, IfrNext(d))
<1>1. /\ IfrNext(d) \in Chip /\ IfrNext(d).ta = d.ta /\ IfrNext(d).tb = d.tb
      /\ IfrNext(d).ifr = d.ifr /\ IfrNext(d).idle \in {d.idle, 1}
  BY IfrNextFacts DEF Now, KeepsA, KeepsB
<1> QED BY <1>1 DEF Done, Good, AlarmsDue, Now, Armed

\* The first part of every access to the interrupt register.
LEMMA AccessIcrFacts ==
  ASSUME NEW c, Turn(c)
  PROVE  Now(AccessIcr(c)) /\ AccessIcr(c).idle = c.idle
<1> DEFINE d == UpdateTb(UpdateTa(c))
           e == IfrCatchup(d)
           f == IfrNow(e)
<1>1. After(c, d) /\ Armed(d.ta) /\ Armed(d.tb)
  BY UpdateBothFacts DEF Turn
<1>2. AccessIcr(c) = f
  BY DEF AccessIcr
<1> HIDE DEF d
<1>3. d \in Chip /\ d.ifr \in Int /\ d.ifr >= 0 /\ d.idle = c.idle
  BY <1>1 DEF After, Good, IfrKept, Turn, Chip
<1>4. Same(d, e) /\ e.ifr = IF d.ifr > 0 THEN 0 ELSE d.ifr
  BY <1>3, IfrCatchupFacts
<1> HIDE DEF e
<1>5. Same(e, f) /\ f.ifr = IF AlarmsDue(e) THEN e.ifr ELSE e.ifr - 1
  BY <1>4, IfrNowFacts DEF Same, KeepsA, KeepsB
<1> HIDE DEF f
<1>6. f.ifr >= -1
  BY <1>3, <1>4, <1>5
<1> QED BY <1>1, <1>2, <1>3, <1>4, <1>5, <1>6 DEF Now, Same, KeepsA, KeepsB

\* The mask is written.
LEMMA SetMaskFacts ==
  ASSUME NEW c, Now(c), NEW set, NEW byte \in SUBSET {"TA", "TB"}
  PROVE  Now(SetMask(c, set, byte)) /\ SetMask(c, set, byte).idle = c.idle
<1> DEFINE m == IF set THEN c.mask \cup byte ELSE c.mask \ byte
           d == [c EXCEPT !.mask = m]
<1>1. SetMask(c, set, byte) = d
  BY Zenon DEF SetMask
<1>2. c \in Chip
  BY DEF Now
<1>3. m \in SUBSET {"TA", "TB"}
  BY <1>2 DEF Chip
<1> HIDE DEF m
<1>4. d \in Chip /\ d.ta = c.ta /\ d.tb = c.tb /\ d.idle = c.idle /\ d.ifr = c.ifr
  BY <1>2, <1>3 DEF Chip
<1> HIDE DEF d
<1> QED BY <1>1, <1>4, NowPut

\* The interrupts that are pending under the new mask.
LEMMA MaskWrittenFacts ==
  ASSUME NEW c, Now(c)
  PROVE  Now(MaskWritten(c)) /\ MaskWritten(c).idle = c.idle
<1> DEFINE raise == IF model = "old" THEN {"RAISE1", "D7SET1"}
                    ELSE IF "READ1" \in c.delay THEN {} ELSE {"RAISE0", "D7SET0"}
           delay == IF c.irqflags \cap c.mask # {}
                    THEN IF c.irqEnabled THEN c.delay ELSE c.delay \cup raise
                    ELSE IF model = "old" /\ "ACK_1" \in c.delay
                         THEN c.delay \ {"RAISE0", "D7SET0"}
                    ELSE c.delay
           s == IF "TA" \in c.mask THEN SetAlarm(c.ta) ELSE c.ta
           t == IF "TB" \in c.mask THEN SetAlarm(c.tb) ELSE c.tb
           d == [c EXCEPT !.delay = delay, !.ta = s, !.tb = t]
<1>1. MaskWritten(c) = d
  BY Zenon DEF MaskWritten
<1>2. c \in Chip /\ c.delay \in SUBSET DelayBits
  BY DEF Now, Chip
<1>3. delay \in SUBSET DelayBits
  BY <1>2 DEF DelayBits
<1>4. Armed(s) /\ Armed(t)
  BY SetAlarmFacts DEF Now, Armed
<1>5. s \in Timer /\ t \in Timer
  BY <1>4 DEF Armed, Sound
<1> HIDE DEF delay, s, t
<1>6. d \in Chip /\ d.ta = s /\ d.tb = t /\ d.idle = c.idle /\ d.ifr = c.ifr
  BY <1>2, <1>3, <1>5 DEF Chip
<1> HIDE DEF d
<1> QED BY <1>1, <1>4, <1>6, NowPut

\* Writing the interrupt mask.
LEMMA StoreIcrDone ==
  ASSUME NEW c, Turn(c), NEW set, NEW byte \in SUBSET {"TA", "TB"}
  PROVE  Done(c, StoreIcr(c, set, byte))
<1> DEFINE d == AccessIcr(c)
           e == SetMask(d, set, byte)
           f == MaskWritten(e)
<1>1. Now(d) /\ d.idle = c.idle
  BY AccessIcrFacts
<1>2. Now(e) /\ e.idle = d.idle
  BY <1>1, SetMaskFacts
<1>3. Now(f) /\ f.idle = e.idle
  BY <1>2, MaskWrittenFacts
<1>4. Done(c, IfrNext(f))
  BY <1>1, <1>2, <1>3, NowDone
<1> QED BY <1>4 DEF StoreIcr

\* The timer B bug of the old CIA.
LEMMA ForgetTbFacts ==
  ASSUME NEW c, Now(c)
  PROVE  Now(ForgetTb(c)) /\ ForgetTb(c).idle = c.idle
<1> DEFINE f == c.irqflags \ {"TBB", "TB"}
           d == [c EXCEPT !.irqflags = f]
<1>1. ForgetTb(c) = IF "TBB" \in c.irqflags THEN d ELSE c
  BY DEF ForgetTb
<1>2. c \in Chip /\ f \in SUBSET Flags
  BY DEF Now, Chip
<1> HIDE DEF f
<1>3. d \in Chip /\ d.ta = c.ta /\ d.tb = c.tb /\ d.idle = c.idle /\ d.ifr = c.ifr
  BY <1>2 DEF Chip
<1> HIDE DEF d
<1> QED BY <1>1, <1>3, NowPut

\* Bit 7 read a cycle early on the new CIA.
LEMMA EarlySetFacts ==
  ASSUME NEW c, Now(c)
  PROVE  Now(EarlySet(c)) /\ EarlySet(c).idle = c.idle
<1> DEFINE f == c.irqflags \cup {"SET"}
           d == [c EXCEPT !.irqflags = f]
<1>1. EarlySet(c) = d \/ EarlySet(c) = c
  BY DEF EarlySet
<1>2. c \in Chip /\ f \in SUBSET Flags
  BY DEF Now, Chip, Flags
<1> HIDE DEF f
<1>3. d \in Chip /\ d.ta = c.ta /\ d.tb = c.tb /\ d.idle = c.idle /\ d.ifr = c.ifr
  BY <1>2 DEF Chip
<1> HIDE DEF d
<1> QED BY <1>1, <1>3, NowPut

\* The acknowledge of what was read.
LEMMA AcknowledgeFacts ==
  ASSUME NEW c, Now(c)
  PROVE  Now(Acknowledge(c)) /\ Acknowledge(c).idle = c.idle
<1> DEFINE k == IF c.irqflags # {} THEN c.ack \cup c.irqflags \cup {"SET"} ELSE c.ack
           t == (c.delay \cup {"ACK1", "READ0"}) \ {"RAISE0", "D7SET0"}
           d == [c EXCEPT !.ack = k, !.delay = t]
           f == c.irqflags \cap {"SET"}
           w == {}
           u == (c.delay \cup {"ACK1", "READ0"}) \ {"RAISE0"}
           e == [c EXCEPT !.irqflags = f, !.new = w, !.delay = u]
<1>1. Acknowledge(c) = IF model = "new" THEN d ELSE e
  BY Zenon DEF Acknowledge
<1>2. /\ c \in Chip /\ c.irqflags \in SUBSET Flags /\ c.ack \in SUBSET Flags
      /\ c.delay \in SUBSET DelayBits
  BY DEF Now, Chip
<1>3. k \in SUBSET Flags /\ f \in SUBSET Flags /\ w \in SUBSET Flags
  BY <1>2 DEF Flags
<1>4. t \in SUBSET DelayBits /\ u \in SUBSET DelayBits
  BY <1>2 DEF DelayBits
<1> HIDE DEF k, t, f, w, u
<1>5. d \in Chip /\ d.ta = c.ta /\ d.tb = c.tb /\ d.idle = c.idle /\ d.ifr = c.ifr
  BY <1>2, <1>3, <1>4 DEF Chip
<1>6. e \in Chip /\ e.ta = c.ta /\ e.tb = c.tb /\ e.idle = c.idle /\ e.ifr = c.ifr
  BY <1>2, <1>3, <1>4 DEF Chip
<1> HIDE DEF d, e
<1> QED BY <1>1, <1>5, <1>6, NowPut

\* Reading the interrupt register.
LEMMA ReadIcrDone ==
  ASSUME NEW c, Turn(c)
  PROVE  Done(c, ReadIcr(c))
<1> DEFINE a == AccessIcr(c)
           z == 0
           s == SetAlarm(a.ta)
           t == SetAlarm(a.tb)
           b == [a EXCEPT !.rdi = z, !.ta = s, !.tb = t]
           d == ForgetTb(b)
           e == EarlySet(d)
           f == Acknowledge(e)
           l == "off"
           n == FALSE
           g == [f EXCEPT !.line = l, !.irqEnabled = n]
<1>1. Now(a) /\ a.idle = c.idle
  BY AccessIcrFacts
<1>2. ReadIcr(c) = IfrNext(g)
  BY Zenon DEF ReadIcr, BeforeIcrRead
<1> HIDE DEF a
<1>3. Armed(s) /\ Armed(t)
  BY <1>1, SetAlarmFacts DEF Now, Armed
<1> HIDE DEF s, t
<1>4. a \in Chip /\ s \in Timer /\ t \in Timer /\ z \in Nat
  BY <1>1, <1>3 DEF Now, Armed, Sound
<1> HIDE DEF z
<1>5. b \in Chip /\ b.ta = s /\ b.tb = t /\ b.idle = a.idle /\ b.ifr = a.ifr
  BY <1>4 DEF Chip
<1> HIDE DEF b
<1>6. Now(b)
  BY <1>1, <1>3, <1>5, NowPut
<1>7. Now(d) /\ d.idle = b.idle
  BY <1>6, ForgetTbFacts
<1> HIDE DEF d
<1>8. Now(e) /\ e.idle = d.idle
  BY <1>7, EarlySetFacts
<1> HIDE DEF e
<1>9. Now(f) /\ f.idle = e.idle
  BY <1>8, AcknowledgeFacts
<1> HIDE DEF f
<1>10. f \in Chip /\ l \in {"off", "next", "on"} /\ n \in BOOLEAN
  BY <1>9 DEF Now
<1> HIDE DEF l, n
<1>11. g \in Chip /\ g.ta = f.ta /\ g.tb = f.tb /\ g.idle = f.idle /\ g.ifr = f.ifr
  BY <1>10 DEF Chip
<1> HIDE DEF g
<1>12. Now(g)
  BY <1>9, <1>11, NowPut
<1>13. Done(c, IfrNext(g))
  BY <1>1, <1>5, <1>7, <1>8, <1>9, <1>11, <1>12, NowDone
<1> QED BY <1>2, <1>13

\* Every access of the CPU.
LEMMA AccessDone ==
  ASSUME NEW c, Turn(c), NEW a \in Accesses
  PROVE  Done(c, Access(c, a))
<1>1. CASE a \in [reg : {"TAL", "TAH", "TBL", "TBH"}, value : 0 .. LoSize - 1]
  <2>1. a.value \in 0 .. LoSize - 1 /\ a.reg \in {"TAL", "TAH", "TBL", "TBH"}
    BY <1>1
  <2>2. CASE a.reg = "TAL"
    <3>1. Access(c, a) = [AccessTa(c) EXCEPT !.ta = SetLatchLo(@, a.value)]
      BY <2>2 DEF Access
    <3>2. Done(c, [AccessTa(c) EXCEPT !.ta = SetLatchLo(@, a.value)])
      BY <2>1, StoreLatchDone
    <3> QED BY <3>1, <3>2
  <2>3. CASE a.reg = "TAH"
    <3>1. Access(c, a) = [AccessTa(c) EXCEPT !.ta = SetLatchHi(@, a.value)]
      BY <2>3 DEF Access
    <3>2. Done(c, [AccessTa(c) EXCEPT !.ta = SetLatchHi(@, a.value)])
      BY <2>1, StoreLatchDone
    <3> QED BY <3>1, <3>2
  <2>4. CASE a.reg = "TBL"
    <3>1. Access(c, a) = [AccessTb(c) EXCEPT !.tb = SetLatchLo(@, a.value)]
      BY <2>4 DEF Access
    <3>2. Done(c, [AccessTb(c) EXCEPT !.tb = SetLatchLo(@, a.value)])
      BY <2>1, StoreLatchDone
    <3> QED BY <3>1, <3>2
  <2>5. CASE a.reg = "TBH"
    <3>1. Access(c, a) = [AccessTb(c) EXCEPT !.tb = SetLatchHi(@, a.value)]
      BY <2>5 DEF Access
    <3>2. Done(c, [AccessTb(c) EXCEPT !.tb = SetLatchHi(@, a.value)])
      BY <2>1, StoreLatchDone
    <3> QED BY <3>1, <3>2
  <2> QED BY <2>1, <2>2, <2>3, <2>4, <2>5
<1>2. CASE a \in [reg : {"CRA", "CRB"}, byte : SUBSET ControlBits]
  <2>1. a.byte \in SUBSET ControlBits /\ a.reg \in {"CRA", "CRB"}
    BY <1>2
  <2>2. CASE a.reg = "CRA"
    BY <2>1, <2>2, StoreCraDone DEF Access
  <2>3. CASE a.reg = "CRB"
    BY <2>1, <2>3, StoreCrbDone DEF Access
  <2> QED BY <2>1, <2>2, <2>3
<1>3. CASE a \in [reg : {"IMR"}, set : BOOLEAN, byte : SUBSET {"TA", "TB"}]
  <2>1. a.byte \in SUBSET {"TA", "TB"} /\ a.reg = "IMR"
    BY <1>3
  <2>2. Access(c, a) = StoreIcr(c, a.set, a.byte)
    BY <2>1 DEF Access
  <2> QED BY <2>1, <2>2, StoreIcrDone
<1>4. CASE a \in [reg : {"ICR", "TA", "TB"}]
  <2>1. a.reg \in {"ICR", "TA", "TB"}
    BY <1>4
  <2>2. CASE a.reg = "ICR"
    BY <2>2, ReadIcrDone DEF Access
  <2>3. CASE a.reg = "TA"
    BY <2>3, AccessTimer DEF Access
  <2>4. CASE a.reg = "TB"
    BY <2>4, AccessTimer DEF Access
  <2> QED BY <2>1, <2>2, <2>3, <2>4
<1> QED BY <1>1, <1>2, <1>3, <1>4 DEF Accesses, ControlBits
-----------------------------------------------------------------------------
(* The inductive invariant.                                                  *)

\* Both alarms are kept, no timer is further behind than the idle alarm allows, and the
\* CPU's turn finds a cycle in which nothing has been computed yet.
CiaInv ==
  /\ Good(cia)
  /\ cia.idle \in Nat
  /\ cia.ta.lag + cia.idle <= MaxIdle
  /\ cia.tb.lag + cia.idle <= MaxIdle
  /\ cia.ifr >= -1
  /\ AlarmsDue(cia) => cia.ifr >= 0
  /\ bus \in 0 .. Gap
  /\ bus = 0 => Turn(cia)
  /\ program \in Programs

\* The assumed limits as numbers.
LEMMA Limits == Gap \in Nat /\ Gap >= 1 /\ MaxIdle \in Nat /\ MaxIdle >= 1
<1>1. Gap \in Nat \ {0} /\ MaxIdle \in Nat \ {0}
  BY CiaAssumption
<1> QED BY <1>1

\* The invariant after a handler or an access: the idle alarm is not too late.
LEMMA DoneInv ==
  ASSUME CiaInv, Done(cia, cia'), bus' \in 1 .. Gap, program' = program
  PROVE  CiaInv'
<1>1. cia'.idle \in Nat
  BY Limits DEF Done, CiaInv
<1>2. cia'.ta.lag + cia'.idle <= MaxIdle
  <2>1. cia.ta.lag \in Nat /\ cia.idle \in Nat /\ cia.ta.lag + cia.idle <= MaxIdle
    BY DEF CiaInv, Good, Sound
  <2> QED BY <2>1, Limits DEF Done
<1>3. cia'.tb.lag + cia'.idle <= MaxIdle
  <2>1. cia.tb.lag \in Nat /\ cia.idle \in Nat /\ cia.tb.lag + cia.idle <= MaxIdle
    BY DEF CiaInv, Good, Sound
  <2> QED BY <2>1, Limits DEF Done
<1>4. bus' \in 0 .. Gap /\ bus' # 0
  BY Limits
<1>5. Good(cia') /\ cia'.ifr >= -1 /\ (AlarmsDue(cia') => cia'.ifr >= 0)
  BY DEF Done
<1>6. program' \in Programs
  BY DEF CiaInv
<1> QED BY <1>1, <1>2, <1>3, <1>4, <1>5, <1>6 DEF CiaInv

\* A timer after a reset.
LEMMA ResetTimerFacts ==
  Sound(ResetTimer) /\ Kept(ResetTimer) /\ Fresh(ResetTimer) /\ ResetTimer.lag = 0
    /\ ResetTimer.due = Never
<1> DEFINE w == Width - 1
           z == 0
           b == {}
           r == [bits |-> b, cnt |-> w, latch |-> w, lag |-> z, n |-> z, due |-> Never]
<1>1. w \in 0 .. Width - 1 /\ z \in Nat /\ z \in Int /\ b \in SUBSET Bits
  BY TimerConstants
<1>2. ResetTimer = r
  BY DEF ResetTimer
<1> HIDE DEF w, b
<1>3. r \in Timer
  BY <1>1 DEF Timer
<1>4. r.bits = b /\ r.lag = 0 /\ r.due = Never
  OBVIOUS
<1> HIDE DEF r
<1>5. Sound(r) /\ Kept(r) /\ Fresh(r)
  BY <1>3, <1>4 DEF Sound, Kept, Fresh, Settled, b
<1> QED BY <1>2, <1>4, <1>5

\* A chip after a reset.
LEMMA ResetChipFacts ==
  ASSUME NEW a \in 0 .. 1, NEW b \in 0 .. 1
  PROVE  LET c == [ResetChip EXCEPT !.tat = a, !.tbt = b] IN
         /\ Turn(c) /\ c.idle = MaxIdle /\ c.ta.lag = 0 /\ c.tb.lag = 0 /\ Turn(ResetChip)
         /\ ResetChip.idle = MaxIdle /\ ResetChip.ta.lag = 0 /\ ResetChip.tb.lag = 0
<1> DEFINE r == ResetTimer
           e == {}
           o == 1
           z == 0
           n == FALSE
           l == "off"
           k == RdiCap
           m == MaxIdle
           s == [ta |-> r, tb |-> r, cra |-> e, crb |-> e, mask |-> e, irqflags |-> e,
                 new |-> e, ack |-> e, delay |-> e, ifr |-> o, rdi |-> k,
                 irqEnabled |-> n, line |-> l, idle |-> m, tat |-> z, tbt |-> z]
           c == [s EXCEPT !.tat = a, !.tbt = b]
<1>1. /\ Sound(r) /\ Kept(r) /\ Fresh(r) /\ r.lag = 0 /\ r \in Timer
  BY ResetTimerFacts DEF Sound
<1>2. /\ e \in SUBSET ControlBits /\ e \in SUBSET {"TA", "TB"} /\ e \in SUBSET Flags
      /\ e \in SUBSET DelayBits /\ o \in Int /\ o >= 0 /\ z \in 0 .. 1 /\ n \in BOOLEAN
      /\ l \in {"off", "next", "on"} /\ k \in Nat /\ m \in Int
  BY Limits DEF RdiCap
<1>3. ResetChip = s
  BY Zenon DEF ResetChip
<1> HIDE DEF r, e, o, z, n, l, k, m
<1>4. s \in Chip
  BY <1>1, <1>2 DEF Chip
<1>5. s.ta = r /\ s.tb = r /\ s.ifr = o /\ s.idle = m
  OBVIOUS
<1> HIDE DEF s
<1>6. c \in Chip /\ c.ta = r /\ c.tb = r /\ c.ifr = o /\ c.idle = m
  BY <1>4, <1>5 DEF Chip
<1> HIDE DEF c
<1>7. Turn(s) /\ Turn(c)
  BY <1>1, <1>2, <1>4, <1>5, <1>6 DEF Turn, Good
<1>8. Turn(c) /\ c.idle = MaxIdle /\ c.ta.lag = 0 /\ c.tb.lag = 0
  BY <1>1, <1>6, <1>7 DEF m
<1>9. Turn(s) /\ s.idle = MaxIdle /\ s.ta.lag = 0 /\ s.tb.lag = 0
  BY <1>1, <1>5, <1>7 DEF m
<1> QED BY <1>3, <1>8, <1>9 DEF c

\* The invariant after a reset.
LEMMA ResetInv ==
  ASSUME Turn(cia), cia.idle = MaxIdle, cia.ta.lag = 0, cia.tb.lag = 0, bus = 0,
         program \in Programs
  PROVE  CiaInv
<1>1. Good(cia) /\ cia.ifr >= 0 /\ cia.ifr \in Int
  BY DEF Turn, Good, Chip
<1> QED BY <1>1, Limits DEF CiaInv

\* A cycle passes for a timer that is not computed.
LEMMA WaitFacts ==
  ASSUME NEW tm, Sound(tm), Kept(tm), tm.due # 0
  PROVE  LET u == [tm EXCEPT !.lag = tm.lag + 1,
                             !.due = IF tm.due = Never THEN Never ELSE tm.due - 1]
         IN  Sound(u) /\ Kept(u) /\ Fresh(u) /\ u.lag = tm.lag + 1
<1> DEFINE l == tm.lag + 1
           v == IF tm.due = Never THEN Never ELSE tm.due - 1
           u == [tm EXCEPT !.lag = l, !.due = v]
<1>1. tm \in Timer /\ tm.lag \in Nat /\ tm.due \in Nat \cup {Never}
  BY DEF Sound, Timer
<1>2. l \in Int /\ l >= 1 /\ v \in Nat \cup {Never}
  BY <1>1
<1>3. v # Never => tm.due # Never /\ l + v = tm.lag + tm.due
  BY <1>1
<1> HIDE DEF l, v
<1>4. u \in Timer /\ u.lag = l /\ u.due = v /\ u.bits = tm.bits /\ u.cnt = tm.cnt /\ u.latch = tm.latch
  BY <1>1, <1>2 DEF Timer
<1> HIDE DEF u
<1>5. NextUnderflow(u) = NextUnderflow(tm)
  <2>1. Alike(u, tm)
    BY <1>4 DEF Alike
  <2> QED BY <1>1, <1>4, <2>1, AlikeUnderflow
<1>6. Sound(u) /\ Kept(u)
  BY <1>2, <1>3, <1>4, <1>5 DEF Sound, Kept
<1>7. Fresh(u)
  BY <1>2, <1>4 DEF Fresh
<1> QED BY <1>4, <1>6, <1>7 DEF u, l, v

\* A cycle passes for the chip.
LEMMA OlderFacts ==
  ASSUME NEW c, Good(c), ~ AlarmsDue(c), c.ifr >= -1
  PROVE  LET d == Older(c) IN
         /\ Turn(d) /\ d.idle = c.idle - 1
         /\ d.ta.lag = c.ta.lag + 1 /\ d.tb.lag = c.tb.lag + 1
<1> DEFINE Wait(tm) == [tm EXCEPT !.lag = tm.lag + 1,
                                  !.due = IF tm.due = Never THEN Never ELSE tm.due - 1]
           s == Wait(c.ta)
           t == Wait(c.tb)
           o == 1
           f == IF c.delay \cup c.new \cup c.ack = {} /\ c.ifr >= 0 THEN o ELSE c.ifr + 1
           r == IF c.rdi < RdiCap THEN c.rdi + 1 ELSE c.rdi
           i == c.idle - 1
           l == IF c.line = "next" THEN "on" ELSE c.line
           d == [c EXCEPT !.ta = s, !.tb = t, !.ifr = f, !.rdi = r, !.idle = i, !.line = l]
<1>1. Older(c) = d
  BY Zenon DEF Older
<1>2. c \in Chip /\ Sound(c.ta) /\ Sound(c.tb) /\ Kept(c.ta) /\ Kept(c.tb)
  BY DEF Good
<1>3. c.ta.due # 0 /\ c.tb.due # 0
  BY DEF AlarmsDue
<1>4. /\ Sound(s) /\ Kept(s) /\ Fresh(s) /\ s.lag = c.ta.lag + 1
      /\ Sound(t) /\ Kept(t) /\ Fresh(t) /\ t.lag = c.tb.lag + 1
  BY <1>2, <1>3, WaitFacts
<1>5. c.ifr \in Int /\ c.rdi \in Nat /\ c.idle \in Int /\ c.line \in {"off", "next", "on"}
  BY <1>2 DEF Chip
<1>6. f \in Int /\ f >= 0 /\ r \in Nat /\ i \in Int /\ l \in {"off", "next", "on"}
  BY <1>5
<1>7. s \in Timer /\ t \in Timer
  BY <1>4 DEF Sound
<1> HIDE DEF s, t, f, r, i, l
<1>8. d \in Chip /\ d.ta = s /\ d.tb = t /\ d.ifr = f /\ d.idle = i
  BY <1>2, <1>6, <1>7 DEF Chip
<1> HIDE DEF d
<1>9. Turn(d)
  BY <1>4, <1>6, <1>8 DEF Turn, Good
<1> QED BY <1>1, <1>4, <1>8, <1>9 DEF i

\* The invariant holds at first.
LEMMA CiaInvInit == Init => CiaInv
<1> SUFFICES ASSUME Init PROVE CiaInv
  OBVIOUS
<1>1. cia = ResetChip /\ bus = 0 /\ program \in Programs
  BY DEF Init
<1>2. Turn(ResetChip) /\ ResetChip.idle = MaxIdle /\ ResetChip.ta.lag = 0 /\ ResetChip.tb.lag = 0
  BY ResetChipFacts
<1> QED BY <1>1, <1>2, ResetInv

\* Every step keeps the invariant.
LEMMA CiaInvNext == CiaInv /\ [Next]_vars => CiaInv'
<1> SUFFICES ASSUME CiaInv, [Next]_vars PROVE CiaInv'
  OBVIOUS
<1>1. Good(cia) /\ cia \in Chip /\ cia.ifr >= -1 /\ (AlarmsDue(cia) => cia.ifr >= 0)
  BY DEF CiaInv, Good
<1>2. ASSUME AlarmRuns(cia'), Done(cia, cia') PROVE CiaInv'
  <2>1. program' = program /\ bus' = IF bus = 0 THEN 1 ELSE bus
    BY <1>2 DEF AlarmRuns
  <2>2. bus' \in 1 .. Gap
    BY <2>1, Limits DEF CiaInv
  <2> QED BY <1>2, <2>1, <2>2, DoneInv
<1>3. CASE CpuAccess
  <2>1. PICK a \in program.accesses : cia' = Access(cia, a)
    BY <1>3 DEF CpuAccess
  <2>2. bus = 0 /\ bus' = Gap /\ program' = program
    BY <1>3 DEF CpuAccess
  <2>3. a \in Accesses
    BY <2>1, CiaAssumption DEF CiaInv
  <2>4. Turn(cia)
    BY <2>2 DEF CiaInv
  <2>5. Done(cia, cia')
    BY <2>1, <2>3, <2>4, AccessDone
  <2>6. bus' \in 1 .. Gap
    BY <2>2, Limits
  <2> QED BY <2>2, <2>5, <2>6, DoneInv
<1>4. CASE TaAlarm
  <2>1. cia' = InttaEntry(cia) /\ AlarmsDue(cia) /\ AlarmRuns(cia')
    BY <1>4 DEF TaAlarm, AlarmRuns, AlarmsDue
  <2>2. Done(cia, cia')
    BY <1>1, <2>1, AlarmEntries
  <2> QED BY <1>2, <2>1, <2>2
<1>5. CASE TbAlarm
  <2>1. cia' = InttbEntry(cia) /\ AlarmsDue(cia) /\ AlarmRuns(cia')
    BY <1>5 DEF TbAlarm, AlarmRuns, AlarmsDue
  <2>2. Done(cia, cia')
    BY <1>1, <2>1, AlarmEntries
  <2> QED BY <1>2, <2>1, <2>2
<1>6. CASE IdleAlarm
  <2>1. cia' = IdleEntry(cia) /\ AlarmRuns(cia')
    BY <1>6 DEF IdleAlarm, AlarmRuns
  <2>2. Done(cia, cia')
    BY <1>1, <2>1, IdleEntryDone
  <2> QED BY <1>2, <2>1, <2>2
<1>7. CASE Tick
  <2>1. /\ ~ AlarmsDue(cia) /\ cia.idle > 0 /\ cia' = Older(cia)
        /\ bus' = (IF bus = 0 THEN 0 ELSE bus - 1) /\ program' = program
    BY <1>7 DEF Tick
  <2>2. /\ Turn(Older(cia)) /\ Older(cia).idle = cia.idle - 1
        /\ Older(cia).ta.lag = cia.ta.lag + 1 /\ Older(cia).tb.lag = cia.tb.lag + 1
    BY <1>1, <2>1, OlderFacts
  <2>3. cia.ta.lag \in Nat /\ cia.tb.lag \in Nat /\ cia.idle \in Nat
    BY <1>1 DEF CiaInv, Good, Sound
  <2>4. /\ cia'.idle \in Nat /\ cia'.ta.lag + cia'.idle <= MaxIdle
        /\ cia'.tb.lag + cia'.idle <= MaxIdle
    BY <2>1, <2>2, <2>3, Limits DEF CiaInv
  <2>5. Good(cia') /\ cia'.ifr >= -1 /\ (AlarmsDue(cia') => cia'.ifr >= 0) /\ Turn(cia')
    <3>1. Good(cia') /\ cia'.ifr >= 0 /\ cia'.ifr \in Int /\ Turn(cia')
      BY <2>1, <2>2 DEF Turn, Good, Chip
    <3> QED BY <3>1
  <2>6. bus' \in 0 .. Gap /\ program' \in Programs
    BY <2>1, Limits DEF CiaInv
  <2> QED BY <2>4, <2>5, <2>6 DEF CiaInv
<1>8. CASE Reset
  <2> DEFINE a == cia.tat
             b == cia.tbt
             c == [ResetChip EXCEPT !.tat = a, !.tbt = b]
  <2>1. cia' = c /\ bus' = 0 /\ program' = program
    BY <1>8 DEF Reset
  <2>2. a \in 0 .. 1 /\ b \in 0 .. 1
    BY <1>1 DEF Chip
  <2>3. Turn(c) /\ c.idle = MaxIdle /\ c.ta.lag = 0 /\ c.tb.lag = 0
    BY <2>2, ResetChipFacts
  <2> HIDE DEF c
  <2>4. Good(cia') /\ cia'.ifr >= 0 /\ cia'.ifr \in Int
    BY <2>1, <2>3 DEF Turn, Good, Chip
  <2>5. program' \in Programs
    BY <2>1 DEF CiaInv
  <2> QED BY <2>1, <2>3, <2>4, <2>5, Limits DEF CiaInv
<1>9. CASE UNCHANGED vars
  BY <1>9 DEF vars, CiaInv, Turn, Good, Sound, Kept, Fresh, AlarmsDue
<1> QED BY <1>3, <1>4, <1>5, <1>6, <1>7, <1>8, <1>9 DEF Next

\* The registers hold what they can, and the idle alarm runs before any timer is
\* CIA_MAX_IDLE_CYCLES behind.
THEOREM CiaTypes == Spec => []TypeOK
<1>1. CiaInv => TypeOK
  <2> SUFFICES ASSUME CiaInv PROVE TypeOK
    OBVIOUS
  <2>1. cia \in Chip /\ Sound(cia.ta) /\ Sound(cia.tb)
    BY DEF CiaInv, Good
  <2>2. ASSUME NEW tm, Sound(tm), tm.lag + cia.idle <= MaxIdle
        PROVE  /\ tm.bits \subseteq Bits
               /\ tm.cnt \in 0 .. Width - 1 /\ tm.latch \in 0 .. Width - 1
               /\ tm.lag \in 0 .. MaxIdle /\ tm.due \in Nat \cup {Never}
    <3>1. tm \in Timer /\ tm.lag \in Nat /\ cia.idle \in Nat
      BY <2>2 DEF Sound, CiaInv
    <3>2. tm.lag \in 0 .. MaxIdle
      BY <2>2, <3>1, Limits
    <3> QED BY <3>1, <3>2 DEF Timer
  <2>3. cia.idle \in 0 .. MaxIdle
    <3>1. cia.ta.lag \in Nat /\ cia.idle \in Nat /\ cia.ta.lag + cia.idle <= MaxIdle
      BY <2>1 DEF Sound, CiaInv
    <3> QED BY <3>1, Limits
  <2>4. cia.irqflags \subseteq {"TA", "TB", "TBB", "SET"}
    BY <2>1 DEF Chip, Flags
  <2>5. bus \in 0 .. Gap /\ cia.ta.lag + cia.idle <= MaxIdle /\ cia.tb.lag + cia.idle <= MaxIdle
    BY DEF CiaInv
  <2> QED BY <2>1, <2>2, <2>3, <2>4, <2>5 DEF TypeOK
<1> QED BY <1>1, CiaInvInit, CiaInvNext, PTL DEF Spec

\* cia_ifr_current() is called at most once for a cycle, whichever alarms and accesses
\* come in it: the interrupt register never runs ahead of the clock.
THEOREM InterruptsOncePerCycle == Spec => []OncePerCycle
<1>1. CiaInv => OncePerCycle
  BY DEF CiaInv, OncePerCycle
<1> QED BY <1>1, CiaInvInit, CiaInvNext, PTL DEF Spec

\* An alarm of a timer comes at the first underflow since the timer was computed, although
\* ciat_update() jumps over cycles, and every access in between computes the timer and
\* leaves the alarm alone or sets it again.
THEOREM AlarmsFindTheirUnderflow == Spec => []AlarmIsFirstUnderflow
<1>1. CiaInv => AlarmIsFirstUnderflow
  BY UpdateFacts DEF CiaInv, Good, AlarmIsFirstUnderflow
<1> QED BY <1>1, CiaInvInit, CiaInvNext, PTL DEF Spec
-----------------------------------------------------------------------------
(* Timer A is exact: what a chip shows of it does not depend on when it is   *)
(* computed.                                                                 *)

\* Like timers: the next cycles are the same for both.
Like(a, b) == Shape(a.bits) = Shape(b.bits) /\ a.cnt = b.cnt /\ a.latch = b.latch

\* A cycle of like timers.
LEMMA LikeCycle ==
  ASSUME NEW a \in Timer, NEW b \in Timer, Like(a, b)
  PROVE  /\ Cycle(a) \in Timer /\ Cycle(b) \in Timer
         /\ Alike(Cycle(a), Cycle(b))
         /\ Cycle(a).n - a.n = Cycle(b).n - b.n /\ Cycle(a).n - a.n \in {0, 1}
<1> DEFINE i == Increment(a)
           j == Increment(b)
<1>1. Pipeline(a.bits) = Pipeline(b.bits) /\ ("COUNT3" \in a.bits <=> "COUNT3" \in b.bits)
  <2>1. a.bits \in SUBSET Bits /\ b.bits \in SUBSET Bits
    BY DEF Timer
  <2>2. Pipeline(a.bits) = Pipeline(b.bits)
    BY <2>1, PipelineShape DEF Like
  <2> QED BY <2>2 DEF Like, Shape
<1>2. /\ i \in Timer /\ j \in Timer /\ Alike(i, j) /\ i.n = a.n /\ j.n = b.n
  BY <1>1, IncrementFacts DEF Like, Alike
<1>3. Cycle(a) = Settle(i) /\ Cycle(b) = Settle(j)
  BY DEF Cycle
<1> HIDE DEF i, j
<1>4. Alike(Settle(i), Settle(j)) /\ (Underflows(i) <=> Underflows(j))
  BY <1>2, AlikeSettle DEF Alike, Underflows
<1>5. /\ Settle(i) \in Timer /\ Settle(j) \in Timer
      /\ Underflows(i) => Settle(i).n = i.n + 1 /\ Settle(j).n = j.n + 1
      /\ ~ Underflows(i) => Settle(i).n = i.n /\ Settle(j).n = j.n
  BY <1>2, <1>4, SettleFacts
<1>6. a.n \in Nat /\ b.n \in Nat
  BY DEF Timer
<1> QED BY <1>2, <1>3, <1>4, <1>5, <1>6

\* A cycle uses the step up.
LEMMA CycleStep == ASSUME NEW tm \in Timer PROVE "STEP" \notin Cycle(tm).bits
<1> DEFINE i == Increment(tm)
<1>1. i \in Timer /\ "STEP" \notin i.bits
  <2>1. tm.bits \in SUBSET Bits
    BY DEF Timer
  <2> QED BY <2>1, IncrementFacts, PipelineBits
<1>2. Cycle(tm) = Settle(i)
  BY DEF Cycle
<1> HIDE DEF i
<1> DEFINE t1 == IF Underflows(i) THEN i.bits \cup {"LOAD", "OUT"} ELSE i.bits
           load == "LOAD" \in t1
           t2 == IF load THEN t1 \ {"COUNT3"} ELSE t1
           stop == "OUT" \in t2 /\ t2 \cap {"ONESHOT", "ONESHOT0"} # {}
           t == IF stop THEN t2 \ {"START", "COUNT2"} ELSE t2
           k == IF load THEN i.latch ELSE i.cnt
           n == i.n + (IF Underflows(i) THEN 1 ELSE 0)
<1>3. Settle(i) = [i EXCEPT !.bits = t, !.cnt = k, !.n = n]
  BY Zenon DEF Settle
<1>4. "STEP" \notin t
  BY <1>1
<1> HIDE DEF t, k, n
<1>5. [i EXCEPT !.bits = t, !.cnt = k, !.n = n].bits = t
  BY <1>1 DEF Timer
<1> QED BY <1>2, <1>3, <1>4, <1>5

\* A timer as it looks now: its state, and the toggle with the underflows not yet told.
Seen(t, k) ==
  LET s == Cycles([t EXCEPT !.n = 0])
  IN  [bits |-> Shape(s.bits), cnt |-> s.cnt, latch |-> s.latch, toggle |-> (k + s.n) % 2]

\* The same timer, with the underflows told.
LEMMA Told ==
  ASSUME NEW t, Sound(t)
  PROVE  LET u == [t EXCEPT !.n = 0] IN
         /\ Sound(u) /\ u.n = 0 /\ u.bits = t.bits /\ u.cnt = t.cnt /\ u.latch = t.latch
         /\ u.lag = t.lag /\ u.due = t.due
<1> DEFINE z == 0
           u == [t EXCEPT !.n = z]
<1>1. t \in Timer /\ z \in Nat
  BY DEF Sound
<1> HIDE DEF z
<1>2. /\ u \in Timer /\ u.n = z /\ u.bits = t.bits /\ u.cnt = t.cnt /\ u.latch = t.latch
      /\ u.lag = t.lag /\ u.due = t.due
  BY <1>1 DEF Timer
<1> HIDE DEF u
<1>3. Sound(u)
  BY <1>2 DEF Sound
<1> QED BY <1>2, <1>3 DEF u, z

\* A timer that is computed for the present is seen as it is.
LEMMA SeenNow ==
  ASSUME NEW t, Sound(t), t.lag = 0, NEW k \in 0 .. 1
  PROVE  Seen(t, k) = [bits |-> Shape(t.bits), cnt |-> t.cnt, latch |-> t.latch, toggle |-> k]
<1> DEFINE u == [t EXCEPT !.n = 0]
<1>1. /\ Sound(u) /\ u.n = 0 /\ u.bits = t.bits /\ u.cnt = t.cnt /\ u.latch = t.latch
      /\ u.lag = 0 /\ u \in Timer
  BY Told DEF Sound
<1>2. Seen(t, k) = LET s == Cycles(u) IN
        [bits |-> Shape(s.bits), cnt |-> s.cnt, latch |-> s.latch, toggle |-> (k + s.n) % 2]
  BY DEF Seen
<1> HIDE DEF u
<1>3. Cycles(u) = u
  BY <1>1, CyclesAreRuns
<1>4. (k + 0) % 2 = k
  OBVIOUS
<1> QED BY <1>1, <1>2, <1>3, <1>4

\* ciat_update() does not change how a timer looks when its underflows are told.
LEMMA SeenUpdate ==
  ASSUME NEW t, Sound(t), "STEP" \notin t.bits, NEW k \in 0 .. 1
  PROVE  LET u == [Update(t) EXCEPT !.n = 0] IN
         /\ Seen(u, (k + Update(t).n) % 2) = Seen(t, k)
         /\ "STEP" \notin u.bits
<1> DEFINE v == [t EXCEPT !.n = 0]
           s == Update(t)
           u == [s EXCEPT !.n = 0]
           a == Cycles(v)
           q == (k + s.n) % 2
<1>1. /\ Sound(v) /\ v.bits = t.bits /\ v.lag = t.lag /\ v \in Timer /\ v.lag \in Nat
  BY Told DEF Sound
<1>2. s = CatchUp(v)
  BY DEF Update
<1>3. Seen(t, k) = [bits |-> Shape(a.bits), cnt |-> a.cnt, latch |-> a.latch,
                    toggle |-> (k + a.n) % 2]
  BY DEF Seen
<1> HIDE DEF v, s
<1>4. At(a, s)
  BY <1>1, <1>2, JumpsAreExact DEF Stalled
<1>5. Sound(s) /\ s.lag = 0
  BY UpdateFacts DEF s
<1>6. "STEP" \notin a.bits
  <2>1. PICK f : Runs(f, v.lag) /\ f[0] = v /\ a = f[v.lag]
    BY <1>1, CyclesAreRuns
  <2>2. CASE v.lag = 0
    BY <1>1, <2>1, <2>2
  <2>3. CASE v.lag # 0
    <3>1. v.lag \in 1 .. v.lag /\ v.lag - 1 \in 0 .. v.lag
      BY <1>1, <2>3
    <3>2. a = Cycle(f[v.lag - 1]) /\ f[v.lag - 1] \in Timer
      BY <2>1, <3>1 DEF Runs
    <3> QED BY <3>2, CycleStep
  <2> QED BY <2>2, <2>3
<1> HIDE DEF a
<1>7. /\ Shape(a.bits) = Shape(s.bits) /\ a.cnt = s.cnt /\ a.n = s.n /\ a.latch = s.latch
  BY <1>4 DEF At, Close
<1>8. "STEP" \notin s.bits
  BY <1>6, <1>7 DEF Shape
<1>9. /\ Sound(u) /\ u.bits = s.bits /\ u.cnt = s.cnt /\ u.latch = s.latch /\ u.lag = 0
  BY <1>5, Told
<1> HIDE DEF u
<1>10. q \in 0 .. 1
  BY <1>5 DEF Sound, Timer
<1> HIDE DEF q
<1>11. Seen(u, q) = [bits |-> Shape(u.bits), cnt |-> u.cnt, latch |-> u.latch, toggle |-> q]
  BY <1>9, <1>10, SeenNow
<1>12. Seen(u, q) = Seen(t, k)
  BY <1>3, <1>7, <1>9, <1>11 DEF q
<1> QED BY <1>8, <1>9, <1>12 DEF u, q, s

\* A chip as a program sees it of timer A.
FaceA(c) == [timer |-> Seen(c.ta, c.tat), cra |-> c.cra]

\* What a handler does does not show. Timer A never waits for a step.
Tells(c, d) ==
  "STEP" \notin c.ta.bits => "STEP" \notin d.ta.bits /\ FaceA(d) = FaceA(c)

\* One handler after another.
LEMMA TellsTells ==
  ASSUME NEW c, NEW d, NEW e, Tells(c, d), Tells(d, e)
  PROVE  Tells(c, e)
BY DEF Tells

\* A handler of something else.
LEMMA KeepsTells ==
  ASSUME NEW c, NEW d, KeepsA(c, d)
  PROVE  Tells(c, d)
BY DEF Tells, KeepsA, FaceA

\* An alarm of timer A set or taken back.
LEMMA RearmTells ==
  ASSUME NEW c, NEW d, c \in Chip, d \in Chip, Sound(c.ta), Sound(d.ta), c.ta.lag = 0,
         Rearmed(c.ta, d.ta), d.tat = c.tat, d.cra = c.cra
  PROVE  Tells(c, d)
<1>1. c.tat \in 0 .. 1
  BY DEF Chip
<1>2. Seen(c.ta, c.tat) = Seen(d.ta, d.tat)
  BY <1>1, SeenNow DEF Rearmed
<1> QED BY <1>2 DEF Tells, FaceA, Rearmed

\* cia_do_update_ta()
LEMMA DoUpdateTaTells ==
  ASSUME NEW c, Good(c)
  PROVE  Tells(c, DoUpdateTa(c))
<1> DEFINE d == DoUpdateTa(c)
           u == [Update(c.ta) EXCEPT !.n = 0]
           q == (c.tat + Update(c.ta).n) % 2
<1>1. c \in Chip /\ Sound(c.ta) /\ c.tat \in 0 .. 1
  BY DEF Good, Chip
<1>2. d.ta = u /\ d.tat = q /\ d.cra = c.cra
  BY <1>1, DoUpdateTaFacts DEF KeepsB
<1>3. ASSUME "STEP" \notin c.ta.bits PROVE Seen(u, q) = Seen(c.ta, c.tat) /\ "STEP" \notin u.bits
  BY <1>1, <1>3, SeenUpdate
<1> HIDE DEF d, u, q
<1> QED BY <1>2, <1>3 DEF Tells, FaceA, d

\* ciacore_intta()
LEMMA InttaTells ==
  ASSUME NEW c, Good(c)
  PROVE  Tells(c, Intta(c))
<1> DEFINE d == DoUpdateTa(c)
           e == RenewTa(d)
<1>1. c \in Chip /\ Sound(c.ta)
  BY DEF Good
<1>2. d \in Chip /\ Computed(c.ta, d.ta) /\ KeepsB(c, d) /\ Tells(c, d)
  BY <1>1, DoUpdateTaFacts, DoUpdateTaTells
<1> HIDE DEF d
<1>3. /\ e \in Chip /\ Armed(e.ta) /\ Rearmed(d.ta, e.ta) /\ KeepsB(d, e) /\ e.tat = d.tat
  BY <1>2, RenewTaFacts DEF Computed
<1>4. Intta(c) = StepTb(e)
  BY DEF Intta, d
<1> HIDE DEF e
<1>5. Tells(d, e)
  BY <1>2, <1>3, RearmTells DEF Computed, Armed, KeepsB
<1>6. Good(e)
  BY <1>1, <1>2, <1>3 DEF Good, Armed, KeepsB
<1>7. Tells(e, StepTb(e))
  BY <1>6, StepTbFacts, KeepsTells
<1> QED BY <1>2, <1>4, <1>5, <1>7, TellsTells

\* cia_update_ta(), cia_update_tb() and both.
LEMMA UpdateTells ==
  ASSUME NEW c, Good(c)
  PROVE  Tells(c, UpdateTa(c)) /\ Tells(c, UpdateTb(c)) /\ Tells(c, UpdateTb(UpdateTa(c)))
<1>1. ASSUME NEW d, Good(d) PROVE Tells(d, UpdateTa(d)) /\ Good(UpdateTa(d))
  BY <1>1, InttaTells, DoUpdateTaTells, UpdateTaFacts DEF UpdateTa, After
<1>2. ASSUME NEW d, Good(d) PROVE Tells(d, UpdateTb(d))
  <2> DEFINE e == IF Chained(d) THEN UpdateTa(d) ELSE d
  <2>1. Tells(d, e) /\ Good(e)
    BY <1>1, <1>2 DEF Tells
  <2>2. UpdateTb(d) = UpdateTbOnly(e)
    BY Zenon DEF UpdateTb
  <2> HIDE DEF e
  <2>3. Tells(e, UpdateTbOnly(e))
    BY <2>1, UpdateTbOnlyFacts, KeepsTells
  <2> QED BY <2>1, <2>2, <2>3, TellsTells
<1> QED BY <1>1, <1>2, TellsTells

\* The interrupts of the cycle show nothing of a timer.
LEMMA IfrTells ==
  ASSUME NEW c, Good(c)
  PROVE  Tells(c, Ifr(c)) /\ Good(Ifr(c))
<1>1. Same(c, Ifr(c))
  BY IfrFacts DEF Good
<1> QED BY <1>1, KeepsTells, GoodSame DEF Same

\* The alarms' handlers.
LEMMA EntriesTell ==
  ASSUME NEW c, Good(c)
  PROVE  Tells(c, InttaEntry(c)) /\ Tells(c, InttbEntry(c)) /\ Tells(c, IdleEntry(c))
<1>1. Tells(c, InttaEntry(c))
  BY InttaFacts, InttaTells, IfrTells, TellsTells DEF InttaEntry, After
<1>2. Tells(c, InttbEntry(c))
  BY InttbFacts, KeepsTells, IfrTells, TellsTells DEF InttbEntry, After
<1>3. Tells(c, IdleEntry(c))
  <2> DEFINE d == UpdateTb(UpdateTa(c))
             m == MaxIdle
             e == [d EXCEPT !.idle = m]
             f == IfrCatchup(e)
             g == IfrNow(f)
             h == IfrNext(g)
  <2>1. IdleEntry(c) = IF f.ifr = 0 THEN h ELSE f
    BY Zenon DEF IdleEntry, IfrOnce
  <2>2. After(c, d) /\ Tells(c, d)
    BY UpdateBothFacts, UpdateTells
  <2> HIDE DEF d
  <2>3. m \in Int /\ d \in Chip
    BY <2>2, CiaAssumption DEF After, Good
  <2> HIDE DEF m
  <2>4. e \in Chip /\ KeepsA(d, e)
    BY <2>3 DEF Chip, KeepsA
  <2> HIDE DEF e
  <2>5. Same(e, f)
    BY <2>4, IfrCatchupFacts
  <2> HIDE DEF f
  <2>6. Same(f, g)
    BY <2>5, IfrNowFacts DEF Same
  <2> HIDE DEF g
  <2>7. KeepsA(g, h)
    BY <2>6, IfrNextFacts DEF Same
  <2> HIDE DEF h
  <2>8. KeepsA(d, f) /\ KeepsA(d, h)
    BY <2>4, <2>5, <2>6, <2>7 DEF Same, KeepsA
  <2> QED BY <2>1, <2>2, <2>8, KeepsTells, TellsTells
<1> QED BY <1>1, <1>2, <1>3

\* Reading a counter, and what comes before a latch is written.
LEMMA AccessTimerTells ==
  ASSUME NEW c, Good(c)
  PROVE  Tells(c, AccessTa(c)) /\ Tells(c, AccessTb(c))
BY UpdateTells, UpdateTaFacts, UpdateTbFacts, IfrTells, TellsTells
  DEF AccessTa, AccessTb, After

\* What comes before the interrupt register is read or its mask is written.
LEMMA AccessIcrTells ==
  ASSUME NEW c, Turn(c)
  PROVE  Tells(c, AccessIcr(c))
<1> DEFINE d == UpdateTb(UpdateTa(c))
           e == IfrCatchup(d)
<1>1. After(c, d) /\ Tells(c, d)
  BY UpdateBothFacts, UpdateTells DEF Turn
<1>2. AccessIcr(c) = IfrNow(e)
  BY DEF AccessIcr
<1> HIDE DEF d
<1>3. Same(d, e)
  BY <1>1, IfrCatchupFacts DEF After, Good
<1> HIDE DEF e
<1>4. Same(e, IfrNow(e))
  BY <1>3, IfrNowFacts DEF Same
<1> QED BY <1>1, <1>2, <1>3, <1>4, KeepsTells, TellsTells DEF Same

\* Writing the interrupt mask.
LEMMA StoreIcrTells ==
  ASSUME NEW c, Turn(c), NEW set, NEW byte \in SUBSET {"TA", "TB"}
  PROVE  Tells(c, StoreIcr(c, set, byte))
<1> DEFINE d == AccessIcr(c)
           e == SetMask(d, set, byte)
           f == MaskWritten(e)
<1>1. Now(d) /\ Tells(c, d)
  BY AccessIcrFacts, AccessIcrTells
<1>2. StoreIcr(c, set, byte) = IfrNext(f)
  BY DEF StoreIcr
<1> HIDE DEF d
<1>3. Now(e) /\ KeepsA(d, e)
  <2> DEFINE m == IF set THEN d.mask \cup byte ELSE d.mask \ byte
  <2>1. Now(e)
    BY <1>1, SetMaskFacts
  <2>2. e = [d EXCEPT !.mask = m]
    BY Zenon DEF SetMask
  <2> HIDE DEF m
  <2>3. KeepsA(d, [d EXCEPT !.mask = m])
    BY <1>1 DEF Now, Chip, KeepsA
  <2> QED BY <2>1, <2>2, <2>3
<1> HIDE DEF e
<1>4. Now(f)
  BY <1>3, MaskWrittenFacts
<1>5. Rearmed(e.ta, f.ta) /\ f.tat = e.tat /\ f.cra = e.cra
  <2> DEFINE raise == IF model = "old" THEN {"RAISE1", "D7SET1"}
                      ELSE IF "READ1" \in e.delay THEN {} ELSE {"RAISE0", "D7SET0"}
             delay == IF e.irqflags \cap e.mask # {}
                      THEN IF e.irqEnabled THEN e.delay ELSE e.delay \cup raise
                      ELSE IF model = "old" /\ "ACK_1" \in e.delay
                           THEN e.delay \ {"RAISE0", "D7SET0"}
                      ELSE e.delay
             s == IF "TA" \in e.mask THEN SetAlarm(e.ta) ELSE e.ta
             t == IF "TB" \in e.mask THEN SetAlarm(e.tb) ELSE e.tb
  <2>1. f = [e EXCEPT !.delay = delay, !.ta = s, !.tb = t]
    BY Zenon DEF MaskWritten
  <2>2. Rearmed(e.ta, s)
    BY <1>3, SetAlarmFacts DEF Now, Armed, Rearmed, Sound
  <2> HIDE DEF delay, s, t
  <2>3. f.ta = s /\ f.tat = e.tat /\ f.cra = e.cra
    BY <1>3, <2>1 DEF Now, Chip
  <2> QED BY <2>2, <2>3
<1>6. Tells(e, f)
  BY <1>3, <1>4, <1>5, RearmTells DEF Now, Armed
<1>7. Tells(f, IfrNext(f))
  BY <1>4, IfrNextFacts, KeepsTells DEF Now
<1> HIDE DEF f
<1> QED BY <1>1, <1>2, <1>3, <1>6, <1>7, KeepsTells, TellsTells

\* The parts of a read of the interrupt register that show nothing of timer A.
LEMMA IcrKeeps ==
  ASSUME NEW c \in Chip
  PROVE  KeepsA(c, ForgetTb(c)) /\ KeepsA(c, EarlySet(c)) /\ KeepsA(c, Acknowledge(c))
<1>1. KeepsA(c, ForgetTb(c))
  BY DEF ForgetTb, Chip, KeepsA
<1>2. KeepsA(c, EarlySet(c))
  BY DEF EarlySet, Chip, KeepsA
<1>3. KeepsA(c, Acknowledge(c))
  <2> DEFINE k == IF c.irqflags # {} THEN c.ack \cup c.irqflags \cup {"SET"} ELSE c.ack
             t == (c.delay \cup {"ACK1", "READ0"}) \ {"RAISE0", "D7SET0"}
             f == c.irqflags \cap {"SET"}
             w == {}
             u == (c.delay \cup {"ACK1", "READ0"}) \ {"RAISE0"}
  <2>1. Acknowledge(c) = IF model = "new" THEN [c EXCEPT !.ack = k, !.delay = t]
                         ELSE [c EXCEPT !.irqflags = f, !.new = w, !.delay = u]
    BY Zenon DEF Acknowledge
  <2> HIDE DEF k, t, f, w, u
  <2> QED BY <2>1 DEF Chip, KeepsA
<1> QED BY <1>1, <1>2, <1>3

\* Reading the interrupt register.
LEMMA ReadIcrTells ==
  ASSUME NEW c, Turn(c)
  PROVE  Tells(c, ReadIcr(c))
<1> DEFINE a == AccessIcr(c)
           z == 0
           s == SetAlarm(a.ta)
           t == SetAlarm(a.tb)
           b == [a EXCEPT !.rdi = z, !.ta = s, !.tb = t]
           d == ForgetTb(b)
           e == EarlySet(d)
           f == Acknowledge(e)
           l == "off"
           n == FALSE
           g == [f EXCEPT !.line = l, !.irqEnabled = n]
<1>1. Now(a) /\ Tells(c, a)
  BY AccessIcrFacts, AccessIcrTells
<1>2. ReadIcr(c) = IfrNext(g)
  BY Zenon DEF ReadIcr, BeforeIcrRead
<1> HIDE DEF a
<1>3. Armed(s) /\ Armed(t) /\ Rearmed(a.ta, s)
  BY <1>1, SetAlarmFacts DEF Now, Armed
<1> HIDE DEF s, t
<1>4. a \in Chip /\ s \in Timer /\ t \in Timer /\ z \in Nat
  BY <1>1, <1>3 DEF Now, Armed, Sound
<1> HIDE DEF z
<1>5. b \in Chip /\ b.ta = s /\ b.tb = t /\ b.ifr = a.ifr /\ b.tat = a.tat /\ b.cra = a.cra
  BY <1>4 DEF Chip
<1> HIDE DEF b
<1>6. Now(b) /\ Tells(a, b)
  BY <1>1, <1>3, <1>4, <1>5, NowPut, RearmTells DEF Now, Armed
<1>7. Now(d) /\ KeepsA(b, d)
  BY <1>6, ForgetTbFacts, IcrKeeps DEF Now
<1> HIDE DEF d
<1>8. Now(e) /\ KeepsA(d, e)
  BY <1>7, EarlySetFacts, IcrKeeps DEF Now
<1> HIDE DEF e
<1>9. Now(f) /\ KeepsA(e, f)
  BY <1>8, AcknowledgeFacts, IcrKeeps DEF Now
<1> HIDE DEF f
<1>10. f \in Chip /\ l \in {"off", "next", "on"} /\ n \in BOOLEAN
  BY <1>9 DEF Now
<1> HIDE DEF l, n
<1>11. g \in Chip /\ KeepsA(f, g)
  BY <1>10 DEF Chip, KeepsA
<1> HIDE DEF g
<1>12. KeepsA(g, IfrNext(g))
  BY <1>11, IfrNextFacts
<1>13. KeepsA(b, IfrNext(g))
  BY <1>7, <1>8, <1>9, <1>11, <1>12 DEF KeepsA
<1> QED BY <1>1, <1>2, <1>6, <1>13, KeepsTells, TellsTells

\* Writing control register B.
LEMMA StoreCrbTells ==
  ASSUME NEW c, Turn(c), NEW byte \in SUBSET ControlBits
  PROVE  Tells(c, StoreCrb(c, byte))
<1> DEFINE starts == "START" \in byte /\ "START" \notin c.crb
           o == 1
           p == IF starts THEN o ELSE c.tbt
           a == [c EXCEPT !.tbt = p]
           d == UpdateTb(UpdateTa(a))
           chain == "INMODE_TA" \in byte
           s == IF chain THEN SetAlarm(d.ta) ELSE d.ta
           t == SetCtrl(d.tb, IF chain THEN byte \cup {"CNT"} ELSE byte)
           b == byte \ {"FLOAD"}
           e == [d EXCEPT !.ta = s, !.tb = t, !.crb = b]
<1>1. StoreCrb(c, byte) = Ifr(e)
  BY Zenon DEF StoreCrb
<1>2. Good(c) /\ c \in Chip
  BY DEF Turn, Good
<1>3. p \in 0 .. 1
  BY <1>2 DEF Chip
<1> HIDE DEF p
<1>4. a \in Chip /\ a.tb = c.tb /\ KeepsA(c, a)
  BY <1>2, <1>3 DEF Chip, KeepsA
<1> HIDE DEF a
<1>5. Good(a) /\ a.ta = c.ta
  BY <1>2, <1>4 DEF Good, KeepsA
<1>6. After(a, d) /\ Armed(d.ta) /\ Armed(d.tb) /\ Tells(a, d)
  BY <1>5, UpdateBothFacts, UpdateTells
<1>7. Settled(d.ta) /\ Settled(d.tb)
  BY <1>4, <1>5, <1>6, LaterArmed DEF After, Armed, Turn
<1> HIDE DEF d
<1>8. Armed(s) /\ Armed(t) /\ Rearmed(d.ta, s)
  BY <1>6, <1>7, SetAlarmFacts, SetCtrlFacts DEF Armed, Rearmed, Sound
<1> HIDE DEF s, t
<1>9. d \in Chip /\ s \in Timer /\ t \in Timer /\ b \in SUBSET ControlBits
  BY <1>6, <1>8 DEF After, Good, Armed, Sound
<1> HIDE DEF b
<1>10. e \in Chip /\ e.ta = s /\ e.tb = t /\ e.tat = d.tat /\ e.cra = d.cra
  BY <1>9 DEF Chip
<1> HIDE DEF e
<1>11. Good(e)
  BY <1>8, <1>10 DEF Good, Armed
<1>12. Tells(d, e)
  BY <1>6, <1>8, <1>9, <1>10, RearmTells DEF Armed
<1> QED BY <1>1, <1>4, <1>6, <1>11, <1>12, KeepsTells, IfrTells, TellsTells

\* Timer B's latch.
LEMMA StoreTbTells ==
  ASSUME NEW c, Turn(c), NEW t \in Timer
  PROVE  Tells(c, [AccessTb(c) EXCEPT !.tb = t])
<1>1. AccessTb(c) \in Chip /\ Tells(c, AccessTb(c))
  BY AccessTimer, AccessTimerTells DEF Turn, Done, Good
<1> QED BY <1>1, TimerPut, KeepsTells, TellsTells

\* Two chips that look the same of timer A.
Twins(c, e) ==
  /\ "STEP" \notin c.ta.bits /\ "STEP" \notin e.ta.bits
  /\ FaceA(c) = FaceA(e)

\* They still do after handlers that do not show.
LEMMA TwinsTell ==
  ASSUME NEW c, NEW e, NEW d, NEW h, Twins(c, e), Tells(c, d), Tells(e, h)
  PROVE  Twins(d, h)
BY DEF Twins, Tells

\* When both are computed for the present, they are alike.
LEMMA TwinsNow ==
  ASSUME NEW c \in Chip, NEW e \in Chip, Sound(c.ta), Sound(e.ta), c.ta.lag = 0, e.ta.lag = 0
  PROVE  (FaceA(c) = FaceA(e)) <=> Like(c.ta, e.ta) /\ c.tat = e.tat /\ c.cra = e.cra
<1>1. c.tat \in 0 .. 1 /\ e.tat \in 0 .. 1
  BY DEF Chip
<1>2. /\ Seen(c.ta, c.tat) = [bits |-> Shape(c.ta.bits), cnt |-> c.ta.cnt, latch |-> c.ta.latch,
                              toggle |-> c.tat]
      /\ Seen(e.ta, e.tat) = [bits |-> Shape(e.ta.bits), cnt |-> e.ta.cnt, latch |-> e.ta.latch,
                              toggle |-> e.tat]
  BY <1>1, SeenNow
<1>3. (Seen(c.ta, c.tat) = Seen(e.ta, e.tat)) <=> Like(c.ta, e.ta) /\ c.tat = e.tat
  BY <1>2 DEF Like
<1>4. (FaceA(c) = FaceA(e)) <=> (Seen(c.ta, c.tat) = Seen(e.ta, e.tat)) /\ c.cra = e.cra
  BY DEF FaceA
<1> QED BY <1>3, <1>4

\* Another state of timer A in both.
LEMMA TwinsPut ==
  ASSUME NEW c \in Chip, NEW e \in Chip, NEW s, NEW t, Armed(s), Armed(t), Like(s, t),
         "STEP" \notin s.bits, c.tat = e.tat, c.cra = e.cra
  PROVE  Twins([c EXCEPT !.ta = s], [e EXCEPT !.ta = t])
<1> DEFINE d == [c EXCEPT !.ta = s]
           h == [e EXCEPT !.ta = t]
<1>1. s \in Timer /\ t \in Timer /\ Sound(s) /\ Sound(t) /\ s.lag = 0 /\ t.lag = 0
  BY DEF Armed, Sound
<1>2. /\ d \in Chip /\ d.ta = s /\ d.tat = c.tat /\ d.cra = c.cra
      /\ h \in Chip /\ h.ta = t /\ h.tat = e.tat /\ h.cra = e.cra
  BY <1>1, TimerPut DEF KeepsB
<1> HIDE DEF d, h
<1>3. FaceA(d) = FaceA(h)
  BY <1>1, <1>2, TwinsNow
<1>4. "STEP" \notin t.bits
  BY DEF Like, Shape
<1> QED BY <1>2, <1>3, <1>4 DEF Twins, d, h

\* A half of a latch written in both.
LEMMA LatchTwins ==
  ASSUME NEW c, NEW e, Turn(c), Turn(e), Twins(c, e), NEW byte \in 0 .. LoSize - 1
  PROVE  /\ Twins([AccessTa(c) EXCEPT !.ta = SetLatchLo(@, byte)],
                  [AccessTa(e) EXCEPT !.ta = SetLatchLo(@, byte)])
         /\ Twins([AccessTa(c) EXCEPT !.ta = SetLatchHi(@, byte)],
                  [AccessTa(e) EXCEPT !.ta = SetLatchHi(@, byte)])
<1> DEFINE d == AccessTa(c)
           h == AccessTa(e)
<1>1. /\ Done(c, d) /\ Armed(d.ta) /\ Settled(d.ta)
      /\ Done(e, h) /\ Armed(h.ta) /\ Settled(h.ta)
  BY AccessTimer
<1>2. Twins(d, h)
  BY AccessTimerTells, TwinsTell DEF Turn
<1> HIDE DEF d, h
<1>3. d \in Chip /\ h \in Chip /\ Sound(d.ta) /\ Sound(h.ta) /\ d.ta.lag = 0 /\ h.ta.lag = 0
  BY <1>1 DEF Done, Good, Armed
<1>4. /\ Like(d.ta, h.ta) /\ d.tat = h.tat /\ d.cra = h.cra
      /\ "STEP" \notin d.ta.bits /\ "STEP" \notin h.ta.bits
  BY <1>2, <1>3, TwinsNow DEF Twins
<1>5. \A b : b # "COUNT" => (b \in d.ta.bits <=> b \in h.ta.bits)
  BY <1>4 DEF Like, Shape
<1> DEFINE Lo(v) == (v \div LoSize) * LoSize + byte
           Hi(v) == (v % LoSize) + (byte * LoSize)
<1>6. ASSUME NEW s, NEW t, Armed(s), Armed(t), Like(s, t), s.bits = d.ta.bits
      PROVE  Twins([d EXCEPT !.ta = s], [h EXCEPT !.ta = t])
  BY <1>3, <1>4, <1>6, TwinsPut
<1>7. Twins([d EXCEPT !.ta = SetLatchLo(d.ta, byte)], [h EXCEPT !.ta = SetLatchLo(h.ta, byte)])
  <2> DEFINE s == SetLatchLo(d.ta, byte)
             t == SetLatchLo(h.ta, byte)
  <2>1. /\ Armed(s) /\ s.bits = d.ta.bits /\ s.latch = Lo(d.ta.latch)
        /\ s.cnt = IF "LOAD" \in d.ta.bits THEN Lo(d.ta.cnt) ELSE d.ta.cnt
        /\ Armed(t) /\ t.bits = h.ta.bits /\ t.latch = Lo(h.ta.latch)
        /\ t.cnt = IF "LOAD" \in h.ta.bits THEN Lo(h.ta.cnt) ELSE h.ta.cnt
    BY <1>1, SetLatchLoFacts
  <2> HIDE DEF s, t, Lo
  <2>2. Like(s, t)
    BY <1>4, <1>5, <2>1 DEF Like
  <2> QED BY <1>6, <2>1, <2>2 DEF s, t
<1>8. Twins([d EXCEPT !.ta = SetLatchHi(d.ta, byte)], [h EXCEPT !.ta = SetLatchHi(h.ta, byte)])
  <2> DEFINE s == SetLatchHi(d.ta, byte)
             t == SetLatchHi(h.ta, byte)
  <2>1. /\ Armed(s) /\ s.bits = d.ta.bits /\ s.latch = Hi(d.ta.latch)
        /\ s.cnt = IF "LOAD" \in d.ta.bits \/ "START" \notin d.ta.bits THEN Hi(d.ta.latch)
                   ELSE d.ta.cnt
        /\ Armed(t) /\ t.bits = h.ta.bits /\ t.latch = Hi(h.ta.latch)
        /\ t.cnt = IF "LOAD" \in h.ta.bits \/ "START" \notin h.ta.bits THEN Hi(h.ta.latch)
                   ELSE h.ta.cnt
    BY <1>1, SetLatchHiFacts
  <2> HIDE DEF s, t, Hi
  <2>2. Like(s, t)
    BY <1>4, <1>5, <2>1 DEF Like
  <2> QED BY <1>6, <2>1, <2>2 DEF s, t
<1> QED BY <1>7, <1>8 DEF d, h

\* Control register A written in both.
LEMMA CraTwins ==
  ASSUME NEW c, NEW e, Turn(c), Turn(e), Twins(c, e), NEW byte \in SUBSET ControlBits
  PROVE  Twins(StoreCra(c, byte), StoreCra(e, byte))
<1> DEFINE starts(x) == "START" \in byte /\ "START" \notin x.cra
           o == 1
           U(x) == UpdateTa(x)
           p(x) == IF starts(x) THEN o ELSE U(x).tat
           t(x) == SetCtrl(U(x).ta, byte)
           b == byte \ {"FLOAD"}
           F(x) == [U(x) EXCEPT !.tat = p(x), !.ta = t(x), !.cra = b]
           Bits2(x) == (U(x).ta.bits \ CrBits) \cup (byte \cap {"START", "CR_ONESHOT", "FLOAD"})
                         \cup {y \in {"PHI2IN"} : "CNT" \notin byte}
<1>1. ASSUME NEW x, Turn(x)
      PROVE  /\ StoreCra(x, byte) = Ifr(F(x)) /\ Good(F(x)) /\ F(x).ta = t(x)
             /\ F(x).tat = p(x) /\ F(x).cra = b /\ F(x) \in Chip /\ Armed(t(x))
             /\ t(x).cnt = U(x).ta.cnt /\ t(x).latch = U(x).ta.latch /\ t(x).bits = Bits2(x)
             /\ U(x) \in Chip /\ Armed(U(x).ta) /\ Tells(x, U(x))
  <2>1. StoreCra(x, byte) = Ifr(F(x))
    BY Zenon DEF StoreCra
  <2>2. Good(x) /\ x \in Chip
    BY <1>1 DEF Turn, Good
  <2>3. After(x, U(x)) /\ Armed(U(x).ta) /\ Tells(x, U(x))
    BY <2>2, UpdateTaFacts, UpdateTells
  <2>4. Settled(U(x).ta)
    BY <1>1, <2>3, LaterArmed DEF After, Armed, Turn
  <2> DEFINE d == U(x)
             k == Bits2(x)
             s == t(x)
             q == p(x)
  <2>5. Armed(s) /\ s.cnt = d.ta.cnt /\ s.latch = d.ta.latch /\ s.bits = k
    BY <2>3, <2>4, SetCtrlFacts
  <2>6. d \in Chip /\ s \in Timer /\ b \in SUBSET ControlBits /\ Good(d)
    BY <2>3, <2>5 DEF After, Good, Armed, Sound
  <2>7. q \in 0 .. 1
    BY <2>6 DEF Chip
  <2> DEFINE g == [d EXCEPT !.tat = q, !.ta = s, !.cra = b]
  <2>8. g = F(x)
    OBVIOUS
  <2> HIDE DEF d, s, q, k, b
  <2>9. g \in Chip /\ g.ta = s /\ g.tb = d.tb /\ g.tat = q /\ g.cra = b
    BY <2>6, <2>7 DEF Chip
  <2> HIDE DEF g
  <2>10. Good(g)
    BY <2>5, <2>6, <2>9 DEF Good, Armed
  <2> QED BY <2>1, <2>3, <2>5, <2>6, <2>8, <2>9, <2>10 DEF d, s, q, k
<1>2. Tells(c, U(c)) /\ Tells(e, U(e)) /\ Twins(U(c), U(e))
  BY <1>1, TwinsTell
<1>3. c.cra = e.cra
  BY DEF Twins, FaceA
<1> HIDE DEF U
<1>4. /\ Like(U(c).ta, U(e).ta) /\ U(c).tat = U(e).tat
      /\ "STEP" \notin U(c).ta.bits /\ "STEP" \notin U(e).ta.bits
  BY <1>1, <1>2, TwinsNow DEF Twins, Armed
<1>5. p(c) = p(e)
  BY <1>3, <1>4
<1>6. Shape(Bits2(c)) = Shape(Bits2(e)) /\ "STEP" \notin Bits2(c) /\ "STEP" \notin Bits2(e)
  BY <1>4 DEF Like, Shape
<1> HIDE DEF F, p, t, b, Bits2
<1>7. Like(F(c).ta, F(e).ta)
  BY <1>1, <1>4, <1>6 DEF Like
<1>8. FaceA(F(c)) = FaceA(F(e))
  BY <1>1, <1>5, <1>7, TwinsNow DEF Armed
<1>9. Twins(F(c), F(e))
  BY <1>1, <1>6, <1>8 DEF Twins
<1>10. Tells(F(c), Ifr(F(c))) /\ Tells(F(e), Ifr(F(e)))
  BY <1>1, IfrTells
<1> QED BY <1>1, <1>9, <1>10, TwinsTell

\* Every access, made to both.
LEMMA AccessTwins ==
  ASSUME NEW c, NEW e, Turn(c), Turn(e), Twins(c, e), NEW a \in Accesses
  PROVE  Twins(Access(c, a), Access(e, a))
<1>1. CASE a \in [reg : {"TAL", "TAH", "TBL", "TBH"}, value : 0 .. LoSize - 1]
  <2>1. a.value \in 0 .. LoSize - 1 /\ a.reg \in {"TAL", "TAH", "TBL", "TBH"}
    BY <1>1
  <2>2. CASE a.reg = "TAL"
    <3>1. \A x : Access(x, a) = [AccessTa(x) EXCEPT !.ta = SetLatchLo(@, a.value)]
      BY <2>2 DEF Access
    <3>2. Twins([AccessTa(c) EXCEPT !.ta = SetLatchLo(@, a.value)],
                [AccessTa(e) EXCEPT !.ta = SetLatchLo(@, a.value)])
      BY <2>1, LatchTwins
    <3> QED BY <3>1, <3>2
  <2>3. CASE a.reg = "TAH"
    <3>1. \A x : Access(x, a) = [AccessTa(x) EXCEPT !.ta = SetLatchHi(@, a.value)]
      BY <2>3 DEF Access
    <3>2. Twins([AccessTa(c) EXCEPT !.ta = SetLatchHi(@, a.value)],
                [AccessTa(e) EXCEPT !.ta = SetLatchHi(@, a.value)])
      BY <2>1, LatchTwins
    <3> QED BY <3>1, <3>2
  <2>4. CASE a.reg \in {"TBL", "TBH"}
    <3>1. ASSUME NEW x, Turn(x) PROVE Tells(x, Access(x, a))
      <4>1. Armed(AccessTb(x).tb) /\ Settled(AccessTb(x).tb)
        BY <3>1, AccessTimer
      <4>2. CASE a.reg = "TBL"
        <5> DEFINE t == SetLatchLo(AccessTb(x).tb, a.value)
        <5>1. Access(x, a) = [AccessTb(x) EXCEPT !.tb = t]
          BY <4>2 DEF Access
        <5>2. t \in Timer
          BY <2>1, <4>1, SetLatchLoFacts DEF Armed, Sound
        <5> HIDE DEF t
        <5> QED BY <3>1, <5>1, <5>2, StoreTbTells
      <4>3. CASE a.reg = "TBH"
        <5> DEFINE t == SetLatchHi(AccessTb(x).tb, a.value)
        <5>1. Access(x, a) = [AccessTb(x) EXCEPT !.tb = t]
          BY <4>3 DEF Access
        <5>2. t \in Timer
          BY <2>1, <4>1, SetLatchHiFacts DEF Armed, Sound
        <5> HIDE DEF t
        <5> QED BY <3>1, <5>1, <5>2, StoreTbTells
      <4> QED BY <2>4, <4>2, <4>3
    <3> QED BY <3>1, TwinsTell
  <2> QED BY <2>1, <2>2, <2>3, <2>4
<1>2. CASE a \in [reg : {"CRA", "CRB"}, byte : SUBSET ControlBits]
  <2>1. a.byte \in SUBSET ControlBits /\ a.reg \in {"CRA", "CRB"}
    BY <1>2
  <2>2. CASE a.reg = "CRA"
    BY <2>1, <2>2, CraTwins DEF Access
  <2>3. CASE a.reg = "CRB"
    <3>1. Tells(c, Access(c, a)) /\ Tells(e, Access(e, a))
      BY <2>1, <2>3, StoreCrbTells DEF Access
    <3> QED BY <3>1, TwinsTell
  <2> QED BY <2>1, <2>2, <2>3
<1>3. CASE a \in [reg : {"IMR"}, set : BOOLEAN, byte : SUBSET {"TA", "TB"}]
  <2>1. a.byte \in SUBSET {"TA", "TB"} /\ a.reg = "IMR"
    BY <1>3
  <2>2. \A x : Access(x, a) = StoreIcr(x, a.set, a.byte)
    BY <2>1 DEF Access
  <2>3. Tells(c, Access(c, a)) /\ Tells(e, Access(e, a))
    BY <2>1, <2>2, StoreIcrTells
  <2> QED BY <2>3, TwinsTell
<1>4. CASE a \in [reg : {"ICR", "TA", "TB"}]
  <2>1. a.reg \in {"ICR", "TA", "TB"}
    BY <1>4
  <2>2. ASSUME NEW x, Turn(x) PROVE Tells(x, Access(x, a))
    <3>1. CASE a.reg = "ICR"
      BY <2>2, <3>1, ReadIcrTells DEF Access
    <3>2. CASE a.reg = "TA"
      BY <2>2, <3>2, AccessTimerTells DEF Access, Turn
    <3>3. CASE a.reg = "TB"
      BY <2>2, <3>3, AccessTimerTells DEF Access, Turn
    <3> QED BY <2>1, <3>1, <3>2, <3>3
  <2> QED BY <2>2, TwinsTell
<1> QED BY <1>1, <1>2, <1>3, <1>4 DEF Accesses, ControlBits

\* One cycle more: it can as well come after the others.
LEMMA OneMore ==
  ASSUME NEW t \in Timer, t.lag \in Nat,
         NEW u \in Timer, Alike(u, t), u.n = t.n, u.lag = t.lag + 1
  PROVE  /\ Cycles(t) \in Timer /\ Cycles(u) \in Timer
         /\ Alike(Cycles(u), Cycle(Cycles(t))) /\ Cycles(u).n = Cycle(Cycles(t)).n
<1> DEFINE l == t.lag
<1>1. PICK f : Runs(f, l) /\ f[0] = t /\ Cycles(t) = f[l]
  BY CyclesAreRuns
<1>2. l + 1 \in Nat
  OBVIOUS
<1>3. PICK g : Runs(g, l + 1) /\ g[0] = u /\ Cycles(u) = g[l + 1]
  BY <1>2, CyclesAreRuns
<1> DEFINE P(i) == Alike(g[i], f[i]) /\ g[i].n = f[i].n
           S == {i \in Nat : i <= l => P(i)}
<1> HIDE DEF l
<1>4. ASSUME NEW a \in Timer, NEW b \in Timer, Alike(a, b), a.n = b.n
      PROVE  Alike(Cycle(a), Cycle(b)) /\ Cycle(a).n = Cycle(b).n
  <2>1. Like(a, b)
    BY <1>4 DEF Like, Alike
  <2>2. Cycle(a) \in Timer /\ Cycle(b) \in Timer /\ Alike(Cycle(a), Cycle(b))
        /\ Cycle(a).n - a.n = Cycle(b).n - b.n
    BY <2>1, LikeCycle
  <2> QED BY <1>4, <2>2 DEF Timer
<1>5. l \in Nat
  BY DEF l
<1>6. /\ \A i \in 0 .. l : f[i] \in Timer /\ g[i] \in Timer
      /\ \A i \in 1 .. l : f[i] = Cycle(f[i - 1]) /\ g[i] = Cycle(g[i - 1])
  BY <1>1, <1>3, <1>5 DEF Runs
<1>7. 0 \in S
  BY <1>1, <1>3
<1>8. ASSUME NEW i \in S PROVE i + 1 \in S
  <2>1. i \in Nat /\ i + 1 \in Nat
    OBVIOUS
  <2>2. ASSUME i + 1 <= l PROVE P(i + 1)
    <3>1. i \in 0 .. l /\ i + 1 \in 1 .. l /\ (i + 1) - 1 = i /\ i <= l
      BY <1>5, <2>1, <2>2
    <3>2. P(i)
      BY <3>1
    <3> QED BY <1>4, <1>6, <3>1, <3>2
  <2> HIDE DEF P
  <2> QED BY <2>1, <2>2
<1>9. P(l)
  <2> HIDE DEF P
  <2>1. S = Nat
    BY <1>7, <1>8, Induct
  <2> QED BY <1>5, <2>1
<1>10. g[l + 1] = Cycle(g[l]) /\ g[l] \in Timer /\ f[l] \in Timer /\ g[l + 1] \in Timer
  <2>1. l + 1 \in 1 .. l + 1 /\ (l + 1) - 1 = l /\ l \in 0 .. l + 1 /\ l + 1 \in 0 .. l + 1
    BY <1>5
  <2> QED BY <1>3, <1>5, <1>6, <2>1 DEF Runs
<1> QED BY <1>1, <1>3, <1>4, <1>9, <1>10 DEF l

-----------------------------------------------------------------------------
(* What a program sees of timer B when B never counts A.                     *)
\* Timer B as it would look if it were computed now, its toggle, and its mode.
FaceB(c) == [timer |-> Seen(c.tb, c.tbt), crb |-> c.crb]
Alone(c) == "INMODE_TA" \notin c.crb /\ "STEP" \notin c.tb.bits
TellsB(c, d) == Alone(c) => Alone(d) /\ FaceB(d) = FaceB(c)
KeptB(c, d) == d.tb = c.tb /\ d.tbt = c.tbt /\ d.crb = c.crb

\* The toggle apart: a start sets it before the timer is computed (ciacore.c:1071).
Sight(t) == [bits |-> Seen(t, 0).bits, cnt |-> Seen(t, 0).cnt, latch |-> Seen(t, 0).latch]
Sights(c) == [timer |-> Sight(c.tb), crb |-> c.crb]
Toggle(c) == Seen(c.tb, c.tbt).toggle

LEMMA FaceParts ==
  ASSUME NEW c, NEW d, FaceB(c) = FaceB(d)
  PROVE  Sights(c) = Sights(d) /\ Toggle(c) = Toggle(d)
<1>1. Seen(c.tb, c.tbt) = Seen(d.tb, d.tbt) /\ c.crb = d.crb
  BY DEF FaceB
<1>2. ASSUME NEW t, NEW k
      PROVE  Sight(t) = [bits |-> Seen(t, k).bits, cnt |-> Seen(t, k).cnt,
                         latch |-> Seen(t, k).latch]
  <2>1. /\ Seen(t, 0).bits = Seen(t, k).bits /\ Seen(t, 0).cnt = Seen(t, k).cnt
        /\ Seen(t, 0).latch = Seen(t, k).latch
    BY DEF Seen
  <2> QED BY <2>1 DEF Sight
<1> QED BY <1>1, <1>2, Zenon DEF Sights, Toggle

\* What a handler does not show, looked at without the toggle.
LooksB(c, d) == Alone(c) => Alone(d) /\ Sights(d) = Sights(c)

LEMMA TellsLooks ==
  ASSUME NEW c, NEW d, TellsB(c, d)
  PROVE  LooksB(c, d) /\ (Alone(c) => Toggle(d) = Toggle(c))
BY FaceParts DEF TellsB, LooksB

\* One handler after another.
LEMMA TellsTellsB ==
  ASSUME NEW c, NEW d, NEW e, TellsB(c, d), TellsB(d, e)
  PROVE  TellsB(c, e)
BY DEF TellsB

\* A handler of something else.
LEMMA KeepsTellsB ==
  ASSUME NEW c, NEW d, KeptB(c, d)
  PROVE  TellsB(c, d)
BY DEF TellsB, KeptB, FaceB, Alone

\* A timer that is computed for the present is seen as it is.
LEMMA SightNow ==
  ASSUME NEW t, Sound(t), t.lag = 0
  PROVE  Sight(t) = [bits |-> Shape(t.bits), cnt |-> t.cnt, latch |-> t.latch]
<1>1. 0 \in 0 .. 1
  OBVIOUS
<1> QED BY <1>1, SeenNow DEF Sight

\* An alarm of timer B set or taken back.
LEMMA RearmTellsB ==
  ASSUME NEW c, NEW d, c \in Chip, d \in Chip, Sound(c.tb), Sound(d.tb), c.tb.lag = 0,
         Rearmed(c.tb, d.tb), d.tbt = c.tbt, d.crb = c.crb
  PROVE  TellsB(c, d)
<1>1. c.tbt \in 0 .. 1
  BY DEF Chip
<1>2. Seen(c.tb, c.tbt) = Seen(d.tb, d.tbt)
  BY <1>1, SeenNow DEF Rearmed
<1> QED BY <1>2 DEF TellsB, FaceB, Alone, Rearmed

\* cia_do_update_tb()
LEMMA DoUpdateTbTells ==
  ASSUME NEW c, Good(c)
  PROVE  TellsB(c, DoUpdateTb(c))
<1> DEFINE d == DoUpdateTb(c)
           u == [Update(c.tb) EXCEPT !.n = 0]
           q == (c.tbt + Update(c.tb).n) % 2
<1>1. c \in Chip /\ Sound(c.tb) /\ c.tbt \in 0 .. 1
  BY DEF Good, Chip
<1>2. d.tb = u /\ d.tbt = q /\ d.crb = c.crb
  BY <1>1, DoUpdateTbFacts DEF KeepsA
<1>3. ASSUME "STEP" \notin c.tb.bits PROVE Seen(u, q) = Seen(c.tb, c.tbt) /\ "STEP" \notin u.bits
  BY <1>1, <1>3, SeenUpdate
<1> HIDE DEF d, u, q
<1> QED BY <1>2, <1>3 DEF TellsB, FaceB, Alone, d

\* ciacore_inttb()
LEMMA InttbTells ==
  ASSUME NEW c, Good(c)
  PROVE  TellsB(c, Inttb(c))
<1> DEFINE d == DoUpdateTb(c)
           e == RenewTb(d)
<1>1. c \in Chip /\ Sound(c.tb)
  BY DEF Good
<1>2. d \in Chip /\ Computed(c.tb, d.tb) /\ TellsB(c, d)
  BY <1>1, DoUpdateTbFacts, DoUpdateTbTells
<1> HIDE DEF d
<1>3. Armed(e.tb) /\ Rearmed(d.tb, e.tb) /\ KeepsA(d, e) /\ e \in Chip /\ e.tbt = d.tbt
  BY <1>2, RenewTbFacts DEF Computed
<1>4. Inttb(c) = e
  BY DEF Inttb, d
<1> HIDE DEF e
<1>5. TellsB(d, e)
  BY <1>2, <1>3, RearmTellsB DEF Computed, Armed, KeepsA
<1> QED BY <1>2, <1>4, <1>5, TellsTellsB

\* Timer B brought up to date.
LEMMA UpdateTbOnlyTells ==
  ASSUME NEW c, Good(c)
  PROVE  TellsB(c, UpdateTbOnly(c))
BY InttbTells, DoUpdateTbTells DEF UpdateTbOnly

\* The handler of timer A gives B no pulse when B does not count it.
LEMMA InttaTellsB ==
  ASSUME NEW c, Good(c)
  PROVE  TellsB(c, Intta(c)) /\ TellsB(c, DoUpdateTa(c))
<1> DEFINE d == DoUpdateTa(c)
           e == RenewTa(d)
<1>1. c \in Chip /\ Sound(c.ta)
  BY DEF Good
<1>2. d \in Chip /\ Computed(c.ta, d.ta) /\ KeepsB(c, d)
  BY <1>1, DoUpdateTaFacts
<1>3. TellsB(c, d)
  BY <1>2, KeepsTellsB DEF KeepsB, KeptB
<1> HIDE DEF d
<1>4. KeepsB(d, e)
  BY <1>2, RenewTaFacts DEF Computed
<1>5. Intta(c) = StepTb(e)
  BY DEF Intta, d
<1> HIDE DEF e
<1>6. TellsB(c, e)
  BY <1>2, <1>4, KeepsTellsB DEF KeepsB, KeptB
<1>7. ASSUME Alone(e) PROVE StepTb(e) = e
  <2>1. ~ Chained(e)
    BY <1>7 DEF Alone, Chained
  <2> QED BY <2>1 DEF StepTb
<1> QED BY <1>3, <1>5, <1>6, <1>7 DEF TellsB, d

\* cia_update_ta(), cia_update_tb() and both.
LEMMA UpdateTellsB ==
  ASSUME NEW c, Good(c)
  PROVE  TellsB(c, UpdateTa(c)) /\ TellsB(c, UpdateTb(c)) /\ TellsB(c, UpdateTb(UpdateTa(c)))
<1>1. ASSUME NEW d, Good(d) PROVE TellsB(d, UpdateTa(d)) /\ Good(UpdateTa(d))
  BY <1>1, InttaTellsB, UpdateTaFacts DEF UpdateTa, After
<1>2. ASSUME NEW d, Good(d) PROVE TellsB(d, UpdateTb(d))
  <2> DEFINE e == IF Chained(d) THEN UpdateTa(d) ELSE d
  <2>1. TellsB(d, e) /\ Good(e)
    BY <1>1, <1>2 DEF TellsB
  <2>2. UpdateTb(d) = UpdateTbOnly(e)
    BY Zenon DEF UpdateTb
  <2> HIDE DEF e
  <2> QED BY <2>1, <2>2, UpdateTbOnlyTells, TellsTellsB
<1> QED BY <1>1, <1>2, TellsTellsB

\* The interrupts of the cycle show nothing of a timer.
LEMMA IfrTellsB ==
  ASSUME NEW c, Good(c)
  PROVE  TellsB(c, Ifr(c)) /\ Good(Ifr(c))
<1>1. Same(c, Ifr(c))
  BY IfrFacts DEF Good
<1> QED BY <1>1, KeepsTellsB, GoodSame DEF Same, KeepsB, KeptB

\* The alarms' handlers.
LEMMA EntriesTellB ==
  ASSUME NEW c, Good(c)
  PROVE  TellsB(c, InttaEntry(c)) /\ TellsB(c, InttbEntry(c)) /\ TellsB(c, IdleEntry(c))
<1>1. TellsB(c, InttaEntry(c))
  BY InttaFacts, InttaTellsB, IfrTellsB, TellsTellsB DEF InttaEntry, After
<1>2. TellsB(c, InttbEntry(c))
  BY InttbFacts, InttbTells, IfrTellsB, TellsTellsB DEF InttbEntry, After
<1>3. TellsB(c, IdleEntry(c))
  <2> DEFINE d == UpdateTb(UpdateTa(c))
             m == MaxIdle
             e == [d EXCEPT !.idle = m]
             f == IfrCatchup(e)
             g == IfrNow(f)
             h == IfrNext(g)
  <2>1. IdleEntry(c) = IF f.ifr = 0 THEN h ELSE f
    BY Zenon DEF IdleEntry, IfrOnce
  <2>2. After(c, d) /\ TellsB(c, d)
    BY UpdateBothFacts, UpdateTellsB
  <2> HIDE DEF d
  <2>3. m \in Int /\ d \in Chip
    BY <2>2, CiaAssumption DEF After, Good
  <2> HIDE DEF m
  <2>4. e \in Chip /\ KeptB(d, e)
    BY <2>3 DEF Chip, KeptB
  <2> HIDE DEF e
  <2>5. Same(e, f)
    BY <2>4, IfrCatchupFacts
  <2> HIDE DEF f
  <2>6. Same(f, g)
    BY <2>5, IfrNowFacts DEF Same
  <2> HIDE DEF g
  <2>7. KeepsB(g, h)
    BY <2>6, IfrNextFacts DEF Same
  <2> HIDE DEF h
  <2>8. KeptB(d, f) /\ KeptB(d, h)
    BY <2>4, <2>5, <2>6, <2>7 DEF Same, KeepsB, KeptB
  <2> QED BY <2>1, <2>2, <2>8, KeepsTellsB, TellsTellsB
<1> QED BY <1>1, <1>2, <1>3

\* Reading a counter, and what comes before a latch is written.
LEMMA AccessTimerTellsB ==
  ASSUME NEW c, Good(c)
  PROVE  TellsB(c, AccessTa(c)) /\ TellsB(c, AccessTb(c))
BY UpdateTellsB, UpdateTaFacts, UpdateTbFacts, IfrTellsB, TellsTellsB
  DEF AccessTa, AccessTb, After

\* What comes before the interrupt register is read or its mask is written.
LEMMA AccessIcrTellsB ==
  ASSUME NEW c, Turn(c)
  PROVE  TellsB(c, AccessIcr(c))
<1> DEFINE d == UpdateTb(UpdateTa(c))
           e == IfrCatchup(d)
<1>1. After(c, d) /\ TellsB(c, d)
  BY UpdateBothFacts, UpdateTellsB DEF Turn
<1>2. AccessIcr(c) = IfrNow(e)
  BY DEF AccessIcr
<1> HIDE DEF d
<1>3. Same(d, e)
  BY <1>1, IfrCatchupFacts DEF After, Good
<1> HIDE DEF e
<1>4. Same(e, IfrNow(e))
  BY <1>3, IfrNowFacts DEF Same
<1>5. KeptB(d, IfrNow(e))
  BY <1>3, <1>4 DEF Same, KeepsB, KeptB
<1> QED BY <1>1, <1>2, <1>5, KeepsTellsB, TellsTellsB

\* Writing the interrupt mask.
LEMMA StoreIcrTellsB ==
  ASSUME NEW c, Turn(c), NEW set, NEW byte \in SUBSET {"TA", "TB"}
  PROVE  TellsB(c, StoreIcr(c, set, byte))
<1> DEFINE d == AccessIcr(c)
           e == SetMask(d, set, byte)
           f == MaskWritten(e)
<1>1. Now(d) /\ TellsB(c, d)
  BY AccessIcrFacts, AccessIcrTellsB
<1>2. StoreIcr(c, set, byte) = IfrNext(f)
  BY DEF StoreIcr
<1> HIDE DEF d
<1>3. Now(e) /\ KeptB(d, e)
  <2> DEFINE m == IF set THEN d.mask \cup byte ELSE d.mask \ byte
  <2>1. Now(e)
    BY <1>1, SetMaskFacts
  <2>2. e = [d EXCEPT !.mask = m]
    BY Zenon DEF SetMask
  <2> HIDE DEF m
  <2>3. KeptB(d, [d EXCEPT !.mask = m])
    BY <1>1 DEF Now, Chip, KeptB
  <2> QED BY <2>1, <2>2, <2>3
<1> HIDE DEF e
<1>4. Now(f)
  BY <1>3, MaskWrittenFacts
<1>5. Rearmed(e.tb, f.tb) /\ f.tbt = e.tbt /\ f.crb = e.crb
  <2> DEFINE raise == IF model = "old" THEN {"RAISE1", "D7SET1"}
                      ELSE IF "READ1" \in e.delay THEN {} ELSE {"RAISE0", "D7SET0"}
             delay == IF e.irqflags \cap e.mask # {}
                      THEN IF e.irqEnabled THEN e.delay ELSE e.delay \cup raise
                      ELSE IF model = "old" /\ "ACK_1" \in e.delay
                           THEN e.delay \ {"RAISE0", "D7SET0"}
                      ELSE e.delay
             s == IF "TA" \in e.mask THEN SetAlarm(e.ta) ELSE e.ta
             t == IF "TB" \in e.mask THEN SetAlarm(e.tb) ELSE e.tb
  <2>1. f = [e EXCEPT !.delay = delay, !.ta = s, !.tb = t]
    BY Zenon DEF MaskWritten
  <2>2. Rearmed(e.tb, t)
    BY <1>3, SetAlarmFacts DEF Now, Armed, Rearmed, Sound
  <2> HIDE DEF delay, s, t
  <2>3. f.tb = t /\ f.tbt = e.tbt /\ f.crb = e.crb
    BY <1>3, <2>1 DEF Now, Chip
  <2> QED BY <2>2, <2>3
<1>6. TellsB(e, f)
  BY <1>3, <1>4, <1>5, RearmTellsB DEF Now, Armed
<1>7. TellsB(f, IfrNext(f))
  BY <1>4, IfrNextFacts, KeepsTellsB DEF Now, KeepsB, KeptB
<1> HIDE DEF f
<1> QED BY <1>1, <1>2, <1>3, <1>6, <1>7, KeepsTellsB, TellsTellsB

\* The parts of a read of the interrupt register that show nothing of timer B.
LEMMA IcrKeepsB ==
  ASSUME NEW c \in Chip
  PROVE  KeptB(c, ForgetTb(c)) /\ KeptB(c, EarlySet(c)) /\ KeptB(c, Acknowledge(c))
<1>1. KeptB(c, ForgetTb(c))
  BY DEF ForgetTb, Chip, KeptB
<1>2. KeptB(c, EarlySet(c))
  BY DEF EarlySet, Chip, KeptB
<1>3. KeptB(c, Acknowledge(c))
  <2> DEFINE k == IF c.irqflags # {} THEN c.ack \cup c.irqflags \cup {"SET"} ELSE c.ack
             t == (c.delay \cup {"ACK1", "READ0"}) \ {"RAISE0", "D7SET0"}
             f == c.irqflags \cap {"SET"}
             w == {}
             u == (c.delay \cup {"ACK1", "READ0"}) \ {"RAISE0"}
  <2>1. Acknowledge(c) = IF model = "new" THEN [c EXCEPT !.ack = k, !.delay = t]
                         ELSE [c EXCEPT !.irqflags = f, !.new = w, !.delay = u]
    BY Zenon DEF Acknowledge
  <2> HIDE DEF k, t, f, w, u
  <2> QED BY <2>1 DEF Chip, KeptB
<1> QED BY <1>1, <1>2, <1>3

\* Reading the interrupt register.
LEMMA ReadIcrTellsB ==
  ASSUME NEW c, Turn(c)
  PROVE  TellsB(c, ReadIcr(c))
<1> DEFINE a == AccessIcr(c)
           z == 0
           s == SetAlarm(a.ta)
           t == SetAlarm(a.tb)
           b == [a EXCEPT !.rdi = z, !.ta = s, !.tb = t]
           d == ForgetTb(b)
           e == EarlySet(d)
           f == Acknowledge(e)
           l == "off"
           n == FALSE
           g == [f EXCEPT !.line = l, !.irqEnabled = n]
<1>1. Now(a) /\ TellsB(c, a)
  BY AccessIcrFacts, AccessIcrTellsB
<1>2. ReadIcr(c) = IfrNext(g)
  BY Zenon DEF ReadIcr, BeforeIcrRead
<1> HIDE DEF a
<1>3. Armed(s) /\ Armed(t) /\ Rearmed(a.tb, t)
  BY <1>1, SetAlarmFacts DEF Now, Armed
<1> HIDE DEF s, t
<1>4. a \in Chip /\ s \in Timer /\ t \in Timer /\ z \in Nat
  BY <1>1, <1>3 DEF Now, Armed, Sound
<1> HIDE DEF z
<1>5. /\ b \in Chip /\ b.ta = s /\ b.tb = t /\ b.ifr = a.ifr /\ b.tbt = a.tbt
      /\ b.crb = a.crb
  BY <1>4 DEF Chip
<1> HIDE DEF b
<1>6. Now(b) /\ TellsB(a, b)
  BY <1>1, <1>3, <1>4, <1>5, NowPut, RearmTellsB DEF Now, Armed
<1>7. Now(d) /\ KeptB(b, d)
  BY <1>6, ForgetTbFacts, IcrKeepsB DEF Now
<1> HIDE DEF d
<1>8. Now(e) /\ KeptB(d, e)
  BY <1>7, EarlySetFacts, IcrKeepsB DEF Now
<1> HIDE DEF e
<1>9. Now(f) /\ KeptB(e, f)
  BY <1>8, AcknowledgeFacts, IcrKeepsB DEF Now
<1> HIDE DEF f
<1>10. f \in Chip /\ l \in {"off", "next", "on"} /\ n \in BOOLEAN
  BY <1>9 DEF Now
<1> HIDE DEF l, n
<1>11. g \in Chip /\ KeptB(f, g)
  BY <1>10 DEF Chip, KeptB
<1> HIDE DEF g
<1>12. KeepsB(g, IfrNext(g))
  BY <1>11, IfrNextFacts
<1>13. KeptB(b, IfrNext(g))
  BY <1>7, <1>8, <1>9, <1>11, <1>12 DEF KeepsB, KeptB
<1> QED BY <1>1, <1>2, <1>6, <1>13, KeepsTellsB, TellsTellsB

\* Writing control register A.
LEMMA StoreCraTellsB ==
  ASSUME NEW c, Turn(c), NEW byte \in SUBSET ControlBits
  PROVE  TellsB(c, StoreCra(c, byte))
<1> DEFINE starts == "START" \in byte /\ "START" \notin c.cra
           o == 1
           d == UpdateTa(c)
           p == IF starts THEN o ELSE d.tat
           t == SetCtrl(d.ta, byte)
           b == byte \ {"FLOAD"}
           e == [d EXCEPT !.tat = p, !.ta = t, !.cra = b]
<1>1. StoreCra(c, byte) = Ifr(e)
  BY Zenon DEF StoreCra
<1>2. Good(c)
  BY DEF Turn
<1>3. After(c, d) /\ Armed(d.ta) /\ TellsB(c, d)
  BY <1>2, UpdateTaFacts, UpdateTellsB
<1>4. Settled(d.ta)
  BY <1>3, LaterArmed DEF After, Armed, Turn
<1> HIDE DEF d
<1>5. Armed(t)
  BY <1>3, <1>4, SetCtrlFacts
<1> HIDE DEF t
<1>6. d \in Chip /\ t \in Timer /\ b \in SUBSET ControlBits /\ p \in 0 .. 1
  BY <1>3, <1>5 DEF After, Good, Armed, Sound, Chip
<1> HIDE DEF b, p
<1>7. e \in Chip /\ e.ta = t /\ KeptB(d, e)
  BY <1>6 DEF Chip, KeptB
<1> HIDE DEF e
<1>8. Good(e)
  BY <1>3, <1>5, <1>7 DEF Good, Armed, After, KeptB
<1> QED BY <1>1, <1>3, <1>7, <1>8, KeepsTellsB, IfrTellsB, TellsTellsB

\* Timer A's latch.
LEMMA StoreTaTells ==
  ASSUME NEW c, Turn(c), NEW t \in Timer
  PROVE  TellsB(c, [AccessTa(c) EXCEPT !.ta = t])
<1>1. AccessTa(c) \in Chip /\ TellsB(c, AccessTa(c))
  BY AccessTimer, AccessTimerTellsB DEF Turn, Done, Good
<1> DEFINE d == AccessTa(c)
           e == [d EXCEPT !.ta = t]
<1> HIDE DEF d
<1>2. e.tb = d.tb /\ e.tbt = d.tbt /\ e.crb = d.crb /\ e.cra = d.cra
  BY <1>1 DEF Chip
<1>3. TellsB(d, e)
  BY Zenon, <1>2 DEF TellsB, Alone, FaceB
<1> QED BY Zenon, <1>1, <1>3, TellsTellsB DEF d

\* Two chips that look the same of timer B, which counts A in neither.
TwinsB(c, e) == Alone(c) /\ Alone(e) /\ Sights(c) = Sights(e)

\* They still do after handlers that do not show.
LEMMA TwinsTellB ==
  ASSUME NEW c, NEW e, NEW d, NEW h, TwinsB(c, e), TellsB(c, d), TellsB(e, h)
  PROVE  TwinsB(d, h)
BY TellsLooks DEF TwinsB, LooksB

\* When both are computed for the present, they are alike.
LEMMA TwinsNowB ==
  ASSUME NEW c, NEW e, Sound(c.tb), Sound(e.tb), c.tb.lag = 0, e.tb.lag = 0
  PROVE  (Sights(c) = Sights(e)) <=> Like(c.tb, e.tb) /\ c.crb = e.crb
<1>1. /\ Sight(c.tb) = [bits |-> Shape(c.tb.bits), cnt |-> c.tb.cnt, latch |-> c.tb.latch]
      /\ Sight(e.tb) = [bits |-> Shape(e.tb.bits), cnt |-> e.tb.cnt, latch |-> e.tb.latch]
  BY SightNow
<1>2. (Sight(c.tb) = Sight(e.tb)) <=> Like(c.tb, e.tb)
  BY <1>1 DEF Like
<1>3. (Sights(c) = Sights(e)) <=> (Sight(c.tb) = Sight(e.tb)) /\ c.crb = e.crb
  BY DEF Sights
<1> QED BY <1>2, <1>3

\* Another state of timer B in both.
LEMMA TwinsPutB ==
  ASSUME NEW c \in Chip, NEW e \in Chip, NEW s, NEW t, Armed(s), Armed(t), Like(s, t),
         "STEP" \notin s.bits, c.crb = e.crb, "INMODE_TA" \notin c.crb
  PROVE  TwinsB([c EXCEPT !.tb = s], [e EXCEPT !.tb = t])
<1> DEFINE d == [c EXCEPT !.tb = s]
           h == [e EXCEPT !.tb = t]
<1>1. s \in Timer /\ t \in Timer /\ Sound(s) /\ Sound(t) /\ s.lag = 0 /\ t.lag = 0
  BY DEF Armed, Sound
<1>2. d.tb = s /\ d.crb = c.crb /\ h.tb = t /\ h.crb = e.crb
  BY <1>1, TimerPut DEF KeepsA
<1> HIDE DEF d, h
<1>3. Sights(d) = Sights(h)
  BY <1>1, <1>2, TwinsNowB
<1>4. "STEP" \notin t.bits
  BY DEF Like, Shape
<1> QED BY <1>2, <1>3, <1>4 DEF TwinsB, Alone, d, h

\* A half of a latch written in both.
LEMMA LatchTwinsB ==
  ASSUME NEW c, NEW e, Turn(c), Turn(e), TwinsB(c, e), NEW byte \in 0 .. LoSize - 1
  PROVE  /\ TwinsB([AccessTb(c) EXCEPT !.tb = SetLatchLo(@, byte)],
                   [AccessTb(e) EXCEPT !.tb = SetLatchLo(@, byte)])
         /\ TwinsB([AccessTb(c) EXCEPT !.tb = SetLatchHi(@, byte)],
                   [AccessTb(e) EXCEPT !.tb = SetLatchHi(@, byte)])
<1> DEFINE d == AccessTb(c)
           h == AccessTb(e)
<1>1. /\ Done(c, d) /\ Armed(d.tb) /\ Settled(d.tb)
      /\ Done(e, h) /\ Armed(h.tb) /\ Settled(h.tb)
  BY AccessTimer
<1>2. TwinsB(d, h)
  BY AccessTimerTellsB, TwinsTellB DEF Turn
<1> HIDE DEF d, h
<1>3. d \in Chip /\ h \in Chip /\ Sound(d.tb) /\ Sound(h.tb) /\ d.tb.lag = 0 /\ h.tb.lag = 0
  BY <1>1 DEF Done, Good, Armed
<1>4. /\ Like(d.tb, h.tb) /\ d.crb = h.crb /\ "INMODE_TA" \notin d.crb
      /\ "STEP" \notin d.tb.bits /\ "STEP" \notin h.tb.bits
  BY <1>2, <1>3, TwinsNowB DEF TwinsB, Alone
<1>5. \A b : b # "COUNT" => (b \in d.tb.bits <=> b \in h.tb.bits)
  BY <1>4 DEF Like, Shape
<1> DEFINE Lo(v) == (v \div LoSize) * LoSize + byte
           Hi(v) == (v % LoSize) + (byte * LoSize)
<1>6. ASSUME NEW s, NEW t, Armed(s), Armed(t), Like(s, t), s.bits = d.tb.bits
      PROVE  TwinsB([d EXCEPT !.tb = s], [h EXCEPT !.tb = t])
  BY <1>3, <1>4, <1>6, TwinsPutB
<1>7. TwinsB([d EXCEPT !.tb = SetLatchLo(d.tb, byte)], [h EXCEPT !.tb = SetLatchLo(h.tb, byte)])
  <2> DEFINE s == SetLatchLo(d.tb, byte)
             t == SetLatchLo(h.tb, byte)
  <2>1. /\ Armed(s) /\ s.bits = d.tb.bits /\ s.latch = Lo(d.tb.latch)
        /\ s.cnt = IF "LOAD" \in d.tb.bits THEN Lo(d.tb.cnt) ELSE d.tb.cnt
        /\ Armed(t) /\ t.bits = h.tb.bits /\ t.latch = Lo(h.tb.latch)
        /\ t.cnt = IF "LOAD" \in h.tb.bits THEN Lo(h.tb.cnt) ELSE h.tb.cnt
    BY <1>1, SetLatchLoFacts
  <2> HIDE DEF s, t, Lo
  <2>2. Like(s, t)
    BY <1>4, <1>5, <2>1 DEF Like
  <2> QED BY <1>6, <2>1, <2>2 DEF s, t
<1>8. TwinsB([d EXCEPT !.tb = SetLatchHi(d.tb, byte)], [h EXCEPT !.tb = SetLatchHi(h.tb, byte)])
  <2> DEFINE s == SetLatchHi(d.tb, byte)
             t == SetLatchHi(h.tb, byte)
  <2>1. /\ Armed(s) /\ s.bits = d.tb.bits /\ s.latch = Hi(d.tb.latch)
        /\ s.cnt = IF "LOAD" \in d.tb.bits \/ "START" \notin d.tb.bits THEN Hi(d.tb.latch)
                   ELSE d.tb.cnt
        /\ Armed(t) /\ t.bits = h.tb.bits /\ t.latch = Hi(h.tb.latch)
        /\ t.cnt = IF "LOAD" \in h.tb.bits \/ "START" \notin h.tb.bits THEN Hi(h.tb.latch)
                   ELSE h.tb.cnt
    BY <1>1, SetLatchHiFacts
  <2> HIDE DEF s, t, Hi
  <2>2. Like(s, t)
    BY <1>4, <1>5, <2>1 DEF Like
  <2> QED BY <1>6, <2>1, <2>2 DEF s, t
<1> QED BY <1>7, <1>8 DEF d, h

\* Control register B written, without making B count A: both timers are brought up to date
\* after the toggle is set by a start.
CrbWritten(x, byte, d, g) ==
  /\ StoreCrb(x, byte) = Ifr(g) /\ Good(g) /\ g.crb = byte \ {"FLOAD"}
  /\ g.tb = SetCtrl(d.tb, byte) /\ g.tbt = d.tbt
  /\ Good(d) /\ Armed(d.tb) /\ Settled(d.tb) /\ LooksB(x, d)
  /\ LET starts == "START" \in byte /\ "START" \notin x.crb
     IN  Alone(x) => Toggle(d) = Seen(x.tb, IF starts THEN 1 ELSE x.tbt).toggle

LEMMA CrbParts ==
  ASSUME NEW x, Turn(x), NEW byte \in SUBSET ControlBits, "INMODE_TA" \notin byte
  PROVE  \E d, g : CrbWritten(x, byte, d, g)
<1> DEFINE b == byte \ {"FLOAD"}
           starts == "START" \in byte /\ "START" \notin x.crb
           o == 1
           p == IF starts THEN o ELSE x.tbt
           a == [x EXCEPT !.tbt = p]
           d == UpdateTb(UpdateTa(a))
           chain == "INMODE_TA" \in byte
           s == IF chain THEN SetAlarm(d.ta) ELSE d.ta
           t == SetCtrl(d.tb, IF chain THEN byte \cup {"CNT"} ELSE byte)
           g == [d EXCEPT !.ta = s, !.tb = t, !.crb = b]
<1>1. StoreCrb(x, byte) = Ifr(g)
  BY Zenon DEF StoreCrb
<1>2. Good(x) /\ x \in Chip
  BY DEF Turn, Good
<1>3. p \in 0 .. 1
  BY <1>2 DEF Chip
<1> HIDE DEF p
<1>4. a \in Chip /\ a.ta = x.ta /\ a.tb = x.tb /\ a.crb = x.crb /\ a.tbt = p
  BY <1>2, <1>3 DEF Chip
<1> HIDE DEF a
<1>5. Good(a) /\ LooksB(x, a) /\ (Alone(x) => Alone(a)) /\ Toggle(a) = Seen(x.tb, p).toggle
  BY <1>2, <1>4 DEF Good, LooksB, Alone, Sights, Toggle
<1>6. After(a, d) /\ Armed(d.ta) /\ Armed(d.tb) /\ TellsB(a, d)
  BY <1>5, UpdateBothFacts, UpdateTellsB
<1>7. Settled(d.ta) /\ Settled(d.tb)
  BY <1>4, <1>6, LaterArmed DEF After, Armed, Turn
<1> HIDE DEF d
<1>8. s = d.ta /\ t = SetCtrl(d.tb, byte)
  OBVIOUS
<1>9. Armed(t)
  BY <1>6, <1>7, <1>8, SetCtrlFacts
<1>10. d \in Chip /\ s \in Timer /\ t \in Timer /\ b \in SUBSET ControlBits
  BY <1>6, <1>8, <1>9 DEF After, Good, Armed, Sound
<1> HIDE DEF s, t, b
<1>11. g \in Chip /\ g.ta = s /\ g.tb = t /\ g.crb = b /\ g.tbt = d.tbt
  BY <1>10 DEF Chip
<1> HIDE DEF g
<1>12. Good(g)
  BY <1>6, <1>8, <1>9, <1>11 DEF Good, Armed
<1>13. LooksB(x, d) /\ (Alone(x) => Toggle(d) = Seen(x.tb, p).toggle)
  BY <1>5, <1>6, TellsLooks DEF LooksB
<1>14. CrbWritten(x, byte, d, g)
  BY <1>1, <1>6, <1>7, <1>8, <1>11, <1>12, <1>13 DEF CrbWritten, After, b, p
<1> QED BY <1>14

\* Control register B written in both.
LEMMA CrbTwinsB ==
  ASSUME NEW c, NEW e, Turn(c), Turn(e), TwinsB(c, e),
         NEW byte \in SUBSET ControlBits, "INMODE_TA" \notin byte
  PROVE  TwinsB(StoreCrb(c, byte), StoreCrb(e, byte))
<1> DEFINE Bits2(k) == (k \ CrBits) \cup (byte \cap {"START", "CR_ONESHOT", "FLOAD"})
                         \cup {y \in {"PHI2IN"} : "CNT" \notin byte}
<1>1. PICK d, g : CrbWritten(c, byte, d, g)
  BY CrbParts
<1>2. PICK h, k : CrbWritten(e, byte, h, k)
  BY CrbParts
<1>3. /\ Armed(g.tb) /\ g.tb.cnt = d.tb.cnt /\ g.tb.latch = d.tb.latch
      /\ g.tb.bits = Bits2(d.tb.bits)
      /\ Armed(k.tb) /\ k.tb.cnt = h.tb.cnt /\ k.tb.latch = h.tb.latch
      /\ k.tb.bits = Bits2(h.tb.bits)
  BY <1>1, <1>2, SetCtrlFacts DEF CrbWritten
<1> HIDE DEF Bits2
<1>4. TwinsB(d, h)
  BY <1>1, <1>2 DEF TwinsB, LooksB, CrbWritten
<1>5. Like(d.tb, h.tb) /\ "STEP" \notin d.tb.bits /\ "STEP" \notin h.tb.bits
  BY <1>1, <1>2, <1>4, TwinsNowB DEF TwinsB, Alone, Armed, CrbWritten
<1>6. /\ Shape(Bits2(d.tb.bits)) = Shape(Bits2(h.tb.bits))
      /\ "STEP" \notin Bits2(d.tb.bits) /\ "STEP" \notin Bits2(h.tb.bits)
  BY <1>5 DEF Like, Shape, Bits2
<1>7. Like(g.tb, k.tb)
  BY <1>3, <1>5, <1>6 DEF Like
<1>8. g.crb = k.crb /\ "INMODE_TA" \notin g.crb
  BY <1>1, <1>2 DEF CrbWritten
<1>9. TwinsB(g, k)
  BY <1>3, <1>6, <1>7, <1>8, TwinsNowB DEF TwinsB, Alone, Armed
<1> QED BY <1>1, <1>2, <1>9, IfrTellsB, TwinsTellB DEF CrbWritten

\* The other accesses show nothing of timer B.
LEMMA AccessTellsB ==
  ASSUME NEW x, Turn(x), NEW a \in Accesses, a.reg \notin {"TBL", "TBH", "CRB"}
  PROVE  TellsB(x, Access(x, a))
<1>1. CASE a \in [reg : {"TAL", "TAH", "TBL", "TBH"}, value : 0 .. LoSize - 1]
  <2>1. a.value \in 0 .. LoSize - 1 /\ a.reg \in {"TAL", "TAH"}
    BY <1>1
  <2>2. Armed(AccessTa(x).ta) /\ Settled(AccessTa(x).ta)
    BY AccessTimer
  <2>3. CASE a.reg = "TAL"
    <3> DEFINE t == SetLatchLo(AccessTa(x).ta, a.value)
    <3>1. Access(x, a) = [AccessTa(x) EXCEPT !.ta = t]
      BY <2>3 DEF Access
    <3>2. t \in Timer
      BY <2>1, <2>2, SetLatchLoFacts DEF Armed, Sound
    <3> HIDE DEF t
    <3> QED BY <3>1, <3>2, StoreTaTells
  <2>4. CASE a.reg = "TAH"
    <3> DEFINE t == SetLatchHi(AccessTa(x).ta, a.value)
    <3>1. Access(x, a) = [AccessTa(x) EXCEPT !.ta = t]
      BY <2>4 DEF Access
    <3>2. t \in Timer
      BY <2>1, <2>2, SetLatchHiFacts DEF Armed, Sound
    <3> HIDE DEF t
    <3> QED BY <3>1, <3>2, StoreTaTells
  <2> QED BY <2>1, <2>3, <2>4
<1>2. CASE a \in [reg : {"CRA", "CRB"}, byte : SUBSET ControlBits]
  <2>1. a.byte \in SUBSET ControlBits /\ a.reg = "CRA"
    BY <1>2
  <2> QED BY <2>1, StoreCraTellsB DEF Access
<1>3. CASE a \in [reg : {"IMR"}, set : BOOLEAN, byte : SUBSET {"TA", "TB"}]
  <2>1. a.byte \in SUBSET {"TA", "TB"} /\ a.reg = "IMR"
    BY <1>3
  <2>2. Access(x, a) = StoreIcr(x, a.set, a.byte)
    BY <2>1 DEF Access
  <2> QED BY <2>1, <2>2, StoreIcrTellsB
<1>4. CASE a \in [reg : {"ICR", "TA", "TB"}]
  <2>1. a.reg \in {"ICR", "TA", "TB"}
    BY <1>4
  <2>2. CASE a.reg = "ICR"
    BY <2>2, ReadIcrTellsB DEF Access
  <2>3. CASE a.reg \in {"TA", "TB"}
    BY <2>3, AccessTimerTellsB DEF Access, Turn
  <2> QED BY <2>1, <2>2, <2>3
<1> QED BY <1>1, <1>2, <1>3, <1>4 DEF Accesses, ControlBits

\* Every access that does not make B count A, made to both.
LEMMA AccessTwinsB ==
  ASSUME NEW c, NEW e, Turn(c), Turn(e), TwinsB(c, e),
         NEW a \in Accesses, a.reg = "CRB" => "INMODE_TA" \notin a.byte
  PROVE  TwinsB(Access(c, a), Access(e, a))
<1>1. CASE a.reg = "TBL"
  <2>1. a.value \in 0 .. LoSize - 1
    BY <1>1 DEF Accesses
  <2>2. \A x : Access(x, a) = [AccessTb(x) EXCEPT !.tb = SetLatchLo(@, a.value)]
    BY <1>1 DEF Access
  <2>3. TwinsB([AccessTb(c) EXCEPT !.tb = SetLatchLo(@, a.value)],
               [AccessTb(e) EXCEPT !.tb = SetLatchLo(@, a.value)])
    BY <2>1, LatchTwinsB
  <2> QED BY <2>2, <2>3
<1>2. CASE a.reg = "TBH"
  <2>1. a.value \in 0 .. LoSize - 1
    BY <1>2 DEF Accesses
  <2>2. \A x : Access(x, a) = [AccessTb(x) EXCEPT !.tb = SetLatchHi(@, a.value)]
    BY <1>2 DEF Access
  <2>3. TwinsB([AccessTb(c) EXCEPT !.tb = SetLatchHi(@, a.value)],
               [AccessTb(e) EXCEPT !.tb = SetLatchHi(@, a.value)])
    BY <2>1, LatchTwinsB
  <2> QED BY <2>2, <2>3
<1>3. CASE a.reg = "CRB"
  <2>1. a.byte \in SUBSET ControlBits
    BY <1>3 DEF Accesses, ControlBits
  <2> QED BY <1>3, <2>1, CrbTwinsB DEF Access
<1>4. CASE a.reg \notin {"TBL", "TBH", "CRB"}
  <2>1. TellsB(c, Access(c, a)) /\ TellsB(e, Access(e, a))
    BY <1>4, AccessTellsB
  <2> QED BY <2>1, TwinsTellB
<1> QED BY <1>1, <1>2, <1>3, <1>4

\* A timer and a cycle more: it looks as if the cycle came after the others.
LEMMA SightOlder ==
  ASSUME NEW a, NEW b, Sound(a), Sound(b), Alike(b, a), b.lag = a.lag + 1, NEW t \in Timer,
         Sight(a) = [bits |-> Shape(t.bits), cnt |-> t.cnt, latch |-> t.latch]
  PROVE  Sight(b) = [bits |-> Shape(Cycle(t).bits), cnt |-> Cycle(t).cnt,
                     latch |-> Cycle(t).latch]
<1> DEFINE v == [a EXCEPT !.n = 0]
           u == [b EXCEPT !.n = 0]
           x == Cycles(v)
           w == Cycles(u)
<1>1. /\ Sound(v) /\ v \in Timer /\ v.lag \in Nat /\ v.n = 0 /\ Alike(v, a) /\ v.lag = a.lag
      /\ Sound(u) /\ u \in Timer /\ u.n = 0 /\ Alike(u, b) /\ u.lag = b.lag
  BY Told DEF Alike, Sound
<1>2. /\ Sight(a) = [bits |-> Shape(x.bits), cnt |-> x.cnt, latch |-> x.latch]
      /\ Sight(b) = [bits |-> Shape(w.bits), cnt |-> w.cnt, latch |-> w.latch]
  BY DEF Sight, Seen
<1> HIDE DEF v, u
<1>3. x \in Timer /\ Alike(w, Cycle(x))
  <2>1. Alike(u, v)
    BY <1>1 DEF Alike
  <2> QED BY <1>1, <2>1, OneMore
<1> HIDE DEF x, w
<1>4. Like(x, t)
  BY <1>2 DEF Like
<1>5. Alike(Cycle(x), Cycle(t))
  BY <1>3, <1>4, LikeCycle
<1> QED BY <1>2, <1>3, <1>5 DEF Alike

-----------------------------------------------------------------------------
(* The chip computed cycle by cycle.                                         *)

\* The chip computed cycle by cycle: both timers are at the present and have no alarm.
Exact(c) ==
  /\ Good(c) /\ c.ifr >= -1
  /\ c.ta.lag = 0 /\ c.ta.due = Never
  /\ c.tb.lag = 0 /\ c.tb.due = Never

\* A cycle passes: the timers, the toggles and the control registers stay as they are.
LEMMA OlderKeeps ==
  ASSUME NEW c \in Chip, c.ta \in Timer, c.tb \in Timer
  PROVE  LET d == Older(c) IN
         /\ Alike(d.ta, c.ta) /\ (c.ta.due = Never => d.ta.due = Never)
         /\ Alike(d.tb, c.tb) /\ (c.tb.due = Never => d.tb.due = Never)
         /\ d.tat = c.tat /\ d.tbt = c.tbt /\ d.cra = c.cra /\ d.crb = c.crb
<1> DEFINE Wait(tm) == [tm EXCEPT !.lag = tm.lag + 1,
                                  !.due = IF tm.due = Never THEN Never ELSE tm.due - 1]
           a == Wait(c.ta)
           b == Wait(c.tb)
           o == 1
           k == IF c.delay \cup c.new \cup c.ack = {} /\ c.ifr >= 0 THEN o ELSE c.ifr + 1
           r == IF c.rdi < RdiCap THEN c.rdi + 1 ELSE c.rdi
           i == c.idle - 1
           l == IF c.line = "next" THEN "on" ELSE c.line
           d == [c EXCEPT !.ta = a, !.tb = b, !.ifr = k, !.rdi = r, !.idle = i, !.line = l]
<1>1. Older(c) = d
  BY Zenon DEF Older
<1>2. /\ a.bits = c.ta.bits /\ a.cnt = c.ta.cnt /\ a.latch = c.ta.latch
      /\ c.ta.due = Never => a.due = Never
      /\ b.bits = c.tb.bits /\ b.cnt = c.tb.cnt /\ b.latch = c.tb.latch
      /\ c.tb.due = Never => b.due = Never
  BY DEF Timer
<1> HIDE DEF a, b, o, k, r, i, l
<1>3. /\ d.ta = a /\ d.tb = b /\ d.tat = c.tat /\ d.tbt = c.tbt /\ d.cra = c.cra
      /\ d.crb = c.crb
  BY DEF Chip
<1> HIDE DEF d
<1> QED BY <1>1, <1>2, <1>3 DEF Alike

\* Its timers have no alarm.
LEMMA PlainFacts ==
  ASSUME NEW c, Good(c)
  PROVE  LET d == Plain(c) IN
         /\ Good(d) /\ Rearmed(c.ta, d.ta) /\ d.ta.due = Never
         /\ Rearmed(c.tb, d.tb) /\ d.tb.due = Never
         /\ d.ifr = c.ifr /\ d.tat = c.tat /\ d.tbt = c.tbt
         /\ d.cra = c.cra /\ d.crb = c.crb
<1> DEFINE v == Never
           z == 0
           s == [c.ta EXCEPT !.due = v]
           t == [c.tb EXCEPT !.due = v]
           ahead == c.line = "next"
           l == IF ahead THEN "off" ELSE c.line
           q == c.irqEnabled /\ ~ ahead
           d == [c EXCEPT !.ta = s, !.tb = t, !.idle = z, !.line = l, !.irqEnabled = q]
<1>1. c \in Chip /\ Sound(c.ta) /\ Sound(c.tb) /\ c.ta \in Timer /\ c.tb \in Timer
  BY DEF Good, Sound
<1>2. Plain(c) = d
  BY <1>1, Zenon DEF Plain, Chip
<1>3. v \in Nat \cup {Never} /\ v = Never
  OBVIOUS
<1> HIDE DEF v
<1>4. /\ s \in Timer /\ s.due = v /\ s.n = c.ta.n /\ Rearmed(c.ta, s)
      /\ t \in Timer /\ t.due = v /\ t.n = c.tb.n /\ Rearmed(c.tb, t)
  BY <1>1, <1>3, DuePut DEF Rearmed
<1>5. z \in Int /\ l \in {"off", "next", "on"} /\ q \in BOOLEAN
  BY <1>1 DEF Chip
<1> HIDE DEF s, t, z, l, q
<1>6. /\ d \in Chip /\ d.ta = s /\ d.tb = t /\ d.ifr = c.ifr /\ d.tat = c.tat /\ d.cra = c.cra
      /\ d.crb = c.crb /\ d.tbt = c.tbt
  BY <1>1, <1>4, <1>5 DEF Chip
<1> HIDE DEF d
<1>7. Sound(s) /\ Sound(t) /\ Kept(s) /\ Kept(t)
  BY <1>1, <1>3, <1>4 DEF Sound, Rearmed, Kept
<1> QED BY <1>2, <1>3, <1>4, <1>6, <1>7 DEF Good

\* It makes an access as the emulated chip does.
LEMMA PlainTells ==
  ASSUME NEW c, Good(c), c.ta.lag = 0
  PROVE  Tells(c, Plain(c))
<1>1. c \in Chip /\ Sound(c.ta) /\ Plain(c) \in Chip /\ Sound(Plain(c).ta)
  BY PlainFacts DEF Good
<1> QED BY <1>1, PlainFacts, RearmTells

\* So it does of timer B.
LEMMA PlainTellsB ==
  ASSUME NEW c, Good(c), c.tb.lag = 0
  PROVE  TellsB(c, Plain(c))
<1>1. c \in Chip /\ Sound(c.tb) /\ Plain(c) \in Chip /\ Sound(Plain(c).tb)
  BY PlainFacts DEF Good
<1> QED BY <1>1, PlainFacts, RearmTellsB

\* A timer of it in a cycle.
LEMMA CountFacts ==
  ASSUME NEW tm, Sound(tm), tm.lag = 1
  PROVE  /\ Sound(Count(tm)) /\ Settled(Count(tm)) /\ Count(tm).lag = 0
         /\ Count(tm).due = tm.due /\ Count(tm).n \in {0, 1} /\ "STEP" \notin Count(tm).bits
<1> DEFINE u == [tm EXCEPT !.n = 0]
<1>1. Sound(u) /\ u \in Timer /\ u.n = 0 /\ u.lag = 1 /\ u.due = tm.due
  BY Told DEF Sound
<1>2. Count(tm) = Cycle(u)
  BY DEF Count
<1> HIDE DEF u
<1>3. /\ Cycle(u) \in Timer /\ Cycle(u).lag = 0 /\ Cycle(u).due = tm.due /\ Cycle(u).n \in {0, 1}
      /\ "COUNT3" \in Cycle(u).bits => Cycle(u).cnt > 0 /\ "LOAD" \notin Cycle(u).bits
      /\ "OUT" \in Cycle(u).bits => "LOAD" \in Cycle(u).bits
  BY <1>1, CycleFacts
<1>4. "STEP" \notin Cycle(u).bits
  BY <1>1, CycleStep
<1> QED BY <1>2, <1>3, <1>4 DEF Sound, Settled

\* A cycle of timer A.
LEMMA CycleAFacts ==
  ASSUME NEW c \in Chip, Sound(c.ta), c.ta.lag = 1
  PROVE  LET d == CycleA(c) IN
         /\ d \in Chip /\ d.ta = Count(c.ta) /\ KeepsB(c, d) /\ IfrKept(c, d)
         /\ d.tat = IF Count(c.ta).n = 0 THEN c.tat ELSE 1 - c.tat
<1> DEFINE t == Count(c.ta)
           d == [c EXCEPT !.ta = t]
           f == {"TA"}
           e == SetIrqFlag(d, f)
           p == 1 - e.tat
           g == [e EXCEPT !.tat = p]
<1>1. t \in Timer
  BY CountFacts DEF Sound
<1> HIDE DEF t
<1>2. d \in Chip /\ d.ta = t /\ d.tat = c.tat /\ KeepsB(c, d) /\ d.idle = c.idle /\ d.ifr = c.ifr
  BY <1>1, TimerPut
<1>3. CycleA(c) = IF t.n = 0 THEN d ELSE g
  <2>1. CycleA(c) = CountedA(d)
    BY DEF CycleA, t
  <2> HIDE DEF d
  <2> QED BY <1>2, <2>1, Zenon DEF CountedA
<1> HIDE DEF d
<1>4. f \in SUBSET Flags
  BY DEF Flags
<1> HIDE DEF f
<1>5. Same(d, e) /\ IfrKept(d, e)
  BY <1>2, <1>4, SetIrqFlagKept
<1> HIDE DEF e
<1>6. e \in Chip /\ p \in 0 .. 1
  BY <1>5 DEF Same, Chip
<1> HIDE DEF p
<1>7. /\ g \in Chip /\ g.tat = p /\ g.ta = e.ta /\ KeepsB(e, g) /\ g.idle = e.idle
      /\ g.ifr = e.ifr
  BY <1>6 DEF Chip, KeepsB
<1> HIDE DEF g
<1>8. /\ g.ta = t /\ g.tat = 1 - c.tat /\ KeepsB(c, g) /\ IfrKept(c, g)
  BY <1>2, <1>5, <1>7 DEF Same, KeepsA, KeepsB, IfrKept, p
<1>9. IfrKept(c, d)
  BY <1>2 DEF IfrKept
<1> QED BY <1>2, <1>3, <1>7, <1>8, <1>9 DEF t

\* A cycle of timer B, and a step when A underflows.
LEMMA CycleBFacts ==
  ASSUME NEW c \in Chip, Sound(c.tb), c.tb.lag = 1
  PROVE  LET d == CycleB(c) IN
         /\ d \in Chip /\ KeepsA(c, d) /\ IfrKept(c, d)
         /\ Sound(d.tb) /\ Settled(d.tb) /\ d.tb.lag = 0 /\ d.tb.due = c.tb.due
         /\ ~ Chained(c) => Alike(d.tb, Count(c.tb)) /\ "STEP" \notin d.tb.bits
         /\ d.tbt = IF Count(c.tb).n = 0 THEN c.tbt ELSE 1 - c.tbt
<1> DEFINE t == Count(c.tb)
           d == [c EXCEPT !.tb = t]
           f == {"TB"}
           e == SetIrqFlag(d, f)
           i == IF TimerBBug(d) THEN e.irqflags \cup {"TBB"} ELSE e.irqflags \ {"TBB"}
           p == 1 - e.tbt
           g == [e EXCEPT !.irqflags = i, !.tbt = p]
           h == IF t.n = 0 THEN d ELSE g
           steps == Chained(h) /\ h.ta.n = 1 /\ "START" \in h.tb.bits
           b == IF steps THEN h.tb.bits \cup {"STEP"} ELSE h.tb.bits
           u == [h.tb EXCEPT !.bits = b]
<1>1. /\ Sound(t) /\ Settled(t) /\ t.lag = 0 /\ t.due = c.tb.due /\ t \in Timer
      /\ "STEP" \notin t.bits
  BY CountFacts DEF Sound
<1>2. CycleB(c) = SteppedB(CountedB(d))
  BY DEF CycleB
<1> HIDE DEF t
<1>3. d \in Chip /\ d.tb = t /\ d.tbt = c.tbt /\ KeepsA(c, d) /\ d.idle = c.idle /\ d.ifr = c.ifr
  BY <1>1, TimerPut
<1> HIDE DEF d
<1>4. CountedB(d) = h
  BY <1>3, Zenon DEF CountedB
<1>5. f \in SUBSET Flags
  BY DEF Flags
<1> HIDE DEF f
<1>6. Same(d, e) /\ IfrKept(d, e)
  BY <1>3, <1>5, SetIrqFlagKept
<1> HIDE DEF e
<1>7. e \in Chip /\ p \in 0 .. 1 /\ i \in SUBSET Flags
  BY <1>6 DEF Same, Chip, Flags
<1>7a. p = 1 - c.tbt
  BY <1>3, <1>6 DEF Same, KeepsB
<1> HIDE DEF p, i
<1>8. /\ g \in Chip /\ g.tb = e.tb /\ g.tbt = p /\ KeepsA(e, g) /\ g.idle = e.idle /\ g.ifr = e.ifr
  BY <1>7 DEF Chip, KeepsA
<1> HIDE DEF g
<1>9. h \in Chip /\ h.tb = t /\ KeepsA(c, h) /\ IfrKept(c, h)
  BY <1>3, <1>6, <1>8 DEF Same, KeepsA, KeepsB, IfrKept
<1>9a. h.tbt = IF t.n = 0 THEN c.tbt ELSE 1 - c.tbt
  BY <1>3, <1>7a, <1>8
<1> HIDE DEF h
<1>10. SteppedB(h) = [h EXCEPT !.tb = u]
  BY <1>9, Zenon DEF SteppedB, Chip
<1>11. b \in SUBSET Bits /\ h.tb \in Timer /\ Shape(b) \subseteq Bits
       /\ (b = t.bits \/ b = t.bits \cup {"STEP"})
  BY <1>1, <1>9 DEF Timer, Bits, Shape
<1>12. ~ Chained(c) => b = t.bits
  BY <1>9 DEF Chained, KeepsA
<1> HIDE DEF b
<1>13. /\ u \in Timer /\ u.bits = b /\ u.cnt = t.cnt /\ u.latch = t.latch
       /\ u.lag = t.lag /\ u.due = t.due
  BY <1>9, <1>11 DEF Timer
<1> HIDE DEF u
<1>14. Sound(u) /\ Settled(u)
  BY <1>1, <1>11, <1>13 DEF Sound, Settled
<1> DEFINE k == [h EXCEPT !.tb = u]
<1>15. k \in Chip /\ k.tb = u /\ k.tbt = h.tbt /\ KeepsA(h, k) /\ k.idle = h.idle /\ k.ifr = h.ifr
  BY <1>9, <1>13, TimerPut
<1> HIDE DEF k
<1>16. KeepsA(c, k) /\ IfrKept(c, k)
  BY <1>9, <1>15 DEF KeepsA, IfrKept
<1>17. ~ Chained(c) => Alike(u, t) /\ "STEP" \notin u.bits
  BY <1>1, <1>12, <1>13 DEF Alike
<1> QED BY <1>1, <1>2, <1>4, <1>9a, <1>10, <1>13, <1>14, <1>15, <1>16, <1>17 DEF k, t

\* The interrupts of a cycle, when nobody has asked for them.
LEMMA FinishedFacts ==
  ASSUME NEW c, Exact(c)
  PROVE  Exact(Finished(c)) /\ Same(c, Finished(c))
<1>1. c \in Chip /\ c.ifr \in Int
  BY DEF Exact, Good, Chip
<1>2. Same(c, Finished(c)) /\ Finished(c).ifr >= -1
  BY <1>1, RunIfrCycleFacts DEF Finished, Same, KeepsA, KeepsB, Exact
<1>3. Good(Finished(c))
  BY <1>2, GoodSame DEF Exact
<1> QED BY <1>2, <1>3 DEF Exact, Same, KeepsA, KeepsB

\* A whole cycle of the chip: timer A makes one, and its toggle turns when it underflows.
LEMMA WholeCycleFacts ==
  ASSUME NEW c, Exact(c)
  PROVE  LET d == WholeCycle(c) IN
         /\ Exact(d) /\ Turn(d) /\ d.cra = c.cra /\ d.crb = c.crb
         /\ \E t \in Timer :
              /\ Alike(t, c.ta) /\ t.n = 0 /\ "STEP" \notin d.ta.bits
              /\ Alike(d.ta, Cycle(t)) /\ Cycle(t).n \in {0, 1}
              /\ d.tat = IF Cycle(t).n = 0 THEN c.tat ELSE 1 - c.tat
         /\ "INMODE_TA" \notin c.crb =>
              /\ "STEP" \notin d.tb.bits
              /\ \E t \in Timer :
                   /\ Alike(t, c.tb) /\ t.n = 0 /\ Alike(d.tb, Cycle(t))
                   /\ d.tbt = IF Cycle(t).n = 0 THEN c.tbt ELSE 1 - c.tbt
<1> DEFINE e == Plain(Finished(c))
           f == Older(e)
           g == CycleA(f)
           h == CycleB(g)
           z == 0
           s == [h.ta EXCEPT !.n = z]
           t == [h.tb EXCEPT !.n = z]
           d == [h EXCEPT !.ta = s, !.tb = t, !.idle = z]
           u == [f.ta EXCEPT !.n = z]
           v == [f.tb EXCEPT !.n = z]
<1>1. /\ Good(e) /\ Alike(e.ta, c.ta) /\ e.ta.lag = 0 /\ e.ta.due = Never
      /\ e.tb.lag = 0 /\ e.tb.due = Never /\ e.ifr >= -1 /\ e.tat = c.tat /\ e.tbt = c.tbt /\ e.cra = c.cra
      /\ Alike(e.tb, c.tb) /\ e.crb = c.crb
  <2>1. Exact(Finished(c)) /\ Same(c, Finished(c))
    BY FinishedFacts
  <2> QED BY <2>1, PlainFacts DEF Exact, Same, KeepsA, KeepsB, Rearmed, Alike
<1> HIDE DEF e
<1>2. /\ Turn(f) /\ Alike(f.ta, e.ta) /\ f.ta.lag = 1 /\ f.ta.due = Never
      /\ Alike(f.tb, e.tb) /\ f.tb.lag = 1 /\ f.tb.due = Never
      /\ f.tat = e.tat /\ f.tbt = e.tbt /\ f.cra = e.cra /\ f.crb = e.crb
  <2>1. ~ AlarmsDue(e) /\ e \in Chip /\ e.ta \in Timer /\ e.tb \in Timer
    BY <1>1 DEF AlarmsDue, Never, Good, Sound
  <2>2. Turn(f) /\ f.ta.lag = 1 /\ f.tb.lag = 1
    BY <1>1, <2>1, OlderFacts
  <2> HIDE DEF f
  <2> QED BY <1>1, <2>1, <2>2, OlderKeeps DEF f
<1> HIDE DEF f
<1>3. f \in Chip /\ Sound(f.ta) /\ Sound(f.tb) /\ f.ifr >= 0 /\ f.ifr \in Int
  BY <1>2 DEF Turn, Good, Chip
<1>4. /\ g \in Chip /\ g.ta = Count(f.ta) /\ KeepsB(f, g) /\ IfrKept(f, g)
      /\ g.tat = IF Count(f.ta).n = 0 THEN f.tat ELSE 1 - f.tat
  BY <1>2, <1>3, CycleAFacts
<1> HIDE DEF g
<1>5. /\ h \in Chip /\ KeepsA(g, h) /\ IfrKept(g, h)
      /\ Sound(h.tb) /\ Settled(h.tb) /\ h.tb.lag = 0 /\ h.tb.due = Never
      /\ ~ Chained(g) => Alike(h.tb, Count(f.tb)) /\ "STEP" \notin h.tb.bits
      /\ h.tbt = IF Count(f.tb).n = 0 THEN f.tbt ELSE 1 - f.tbt
  BY <1>2, <1>3, <1>4, CycleBFacts DEF KeepsB
<1>6. /\ Sound(h.ta) /\ Settled(h.ta) /\ h.ta.lag = 0 /\ h.ta.due = Never
      /\ h.ta = Count(f.ta) /\ h.ta.n \in {0, 1} /\ "STEP" \notin h.ta.bits
  BY <1>2, <1>3, <1>4, <1>5, CountFacts DEF KeepsA
<1>7. h.ifr >= 0 /\ h.tat = g.tat /\ h.cra = f.cra /\ h.crb = f.crb /\ g.crb = f.crb
  BY <1>3, <1>4, <1>5 DEF KeepsA, KeepsB, IfrKept
<1>8. WholeCycle(c) = d
  <2>1. WholeCycle(c) = [h EXCEPT !.ta.n = 0, !.tb.n = 0, !.idle = 0]
    BY Zenon DEF WholeCycle, e, f, g
  <2>2. h \in Chip /\ h.ta \in Timer /\ h.tb \in Timer
    BY <1>5, <1>6 DEF Sound
  <2> HIDE DEF h
  <2> QED BY <2>1, <2>2, Zenon DEF Chip
<1> HIDE DEF h
<1>9. /\ Sound(s) /\ Alike(s, h.ta) /\ s.lag = 0 /\ s.due = Never
      /\ Sound(t) /\ Alike(t, h.tb) /\ t.lag = 0 /\ t.due = Never
  BY <1>5, <1>6, Told DEF Alike
<1>10. s \in Timer /\ t \in Timer /\ z \in Int
  BY <1>9 DEF Sound
<1>11. /\ Sound(u) /\ u.n = 0 /\ Alike(u, f.ta) /\ u \in Timer
       /\ v.n = 0 /\ Alike(v, f.tb) /\ v \in Timer
  BY <1>3, Told DEF Alike, Sound
<1>12. Count(f.ta) = Cycle(u) /\ Count(f.tb) = Cycle(v)
  BY DEF Count
<1> HIDE DEF s, t, u, v, z
<1>13. /\ d \in Chip /\ d.ta = s /\ d.tb = t /\ d.ifr = h.ifr /\ d.tat = h.tat /\ d.cra = h.cra
       /\ d.crb = h.crb /\ d.tbt = h.tbt
  BY <1>5, <1>10 DEF Chip
<1> HIDE DEF d
<1>14. Good(d)
  BY <1>9, <1>13 DEF Good, Kept
<1>15. Exact(d)
  <2>1. d.ifr >= -1
    BY <1>7, <1>13, <1>14 DEF Good, Chip
  <2> QED BY <2>1, <1>9, <1>13, <1>14 DEF Exact
<1>16. Turn(d)
  <2>1. Settled(s) /\ Settled(t)
    BY <1>5, <1>6, <1>9 DEF Settled, Alike
  <2> QED BY <2>1, <1>7, <1>13, <1>14 DEF Turn, Fresh
<1>17. /\ Alike(u, c.ta) /\ "STEP" \notin d.ta.bits /\ Alike(d.ta, Cycle(u))
       /\ Cycle(u).n \in {0, 1} /\ d.tat = IF Cycle(u).n = 0 THEN c.tat ELSE 1 - c.tat
  BY <1>1, <1>2, <1>4, <1>6, <1>7, <1>9, <1>11, <1>12, <1>13 DEF Alike
<1>18. d.cra = c.cra /\ d.crb = c.crb
  BY <1>1, <1>2, <1>7, <1>13
<1>19. ASSUME "INMODE_TA" \notin c.crb
       PROVE  /\ "STEP" \notin d.tb.bits /\ Alike(v, c.tb) /\ v.n = 0 /\ Alike(d.tb, Cycle(v))
              /\ d.tbt = IF Cycle(v).n = 0 THEN c.tbt ELSE 1 - c.tbt
  <2>1. ~ Chained(g)
    BY <1>1, <1>2, <1>7, <1>19 DEF Chained
  <2> QED BY <1>1, <1>2, <1>5, <1>9, <1>11, <1>12, <1>13, <2>1 DEF Alike
<1> QED BY <1>8, <1>11, <1>15, <1>16, <1>17, <1>18, <1>19

\* The emulated chip lets a cycle pass while the other computes it: they stay alike.
LEMMA OlderTwins ==
  ASSUME NEW c, NEW e, Good(c), ~ AlarmsDue(c), c.ifr >= -1, Exact(e), Twins(c, e)
  PROVE  Twins(Older(c), WholeCycle(e))
<1> DEFINE d == Older(c)
           h == WholeCycle(e)
           v == [c.ta EXCEPT !.n = 0]
           u == [d.ta EXCEPT !.n = 0]
           x == Cycles(v)
           y == Cycle(x)
           w == Cycles(u)
<1>1. c \in Chip /\ Sound(c.ta) /\ c.ta \in Timer /\ c.ta.lag \in Nat /\ c.tat \in 0 .. 1
  BY DEF Good, Sound, Chip
<1>2. /\ Good(d) /\ Sound(d.ta) /\ Alike(d.ta, c.ta) /\ d.ta.lag = c.ta.lag + 1
      /\ d.tat = c.tat /\ d.cra = c.cra
  <2>1. Turn(d) /\ d.ta.lag = c.ta.lag + 1
    BY OlderFacts
  <2>2. c.tb \in Timer
    BY DEF Good, Sound
  <2> HIDE DEF d
  <2> QED BY <1>1, <2>1, <2>2, OlderKeeps DEF Turn, Good, d
<1>3. /\ Exact(h) /\ h.cra = e.cra
      /\ \E t \in Timer :
           /\ Alike(t, e.ta) /\ t.n = 0 /\ "STEP" \notin h.ta.bits
           /\ Alike(h.ta, Cycle(t)) /\ Cycle(t).n \in {0, 1}
           /\ h.tat = IF Cycle(t).n = 0 THEN e.tat ELSE 1 - e.tat
  BY WholeCycleFacts
<1>4. PICK t \in Timer :
           /\ Alike(t, e.ta) /\ t.n = 0 /\ "STEP" \notin h.ta.bits
           /\ Alike(h.ta, Cycle(t)) /\ Cycle(t).n \in {0, 1}
           /\ h.tat = IF Cycle(t).n = 0 THEN e.tat ELSE 1 - e.tat
  BY <1>3
<1> HIDE DEF d, h
<1>5. /\ Sound(v) /\ v \in Timer /\ v.n = 0 /\ Alike(v, c.ta) /\ v.lag = c.ta.lag
      /\ Sound(u) /\ u \in Timer /\ u.n = 0 /\ Alike(u, d.ta) /\ u.lag = d.ta.lag
  BY <1>1, <1>2, Told DEF Alike, Sound
<1>6. Seen(c.ta, c.tat) = [bits |-> Shape(x.bits), cnt |-> x.cnt, latch |-> x.latch,
                           toggle |-> (c.tat + x.n) % 2]
  BY DEF Seen
<1>7. Seen(d.ta, d.tat) = [bits |-> Shape(w.bits), cnt |-> w.cnt, latch |-> w.latch,
                           toggle |-> (d.tat + w.n) % 2]
  BY DEF Seen
<1> HIDE DEF v, u
<1>8. x \in Timer /\ w \in Timer /\ Alike(w, y) /\ w.n = y.n
  <2>1. Alike(u, v)
    BY <1>2, <1>5 DEF Alike
  <2> QED BY <1>1, <1>2, <1>5, <2>1, OneMore
<1> HIDE DEF x, w
<1>9. /\ e \in Chip /\ Sound(e.ta) /\ e.ta.lag = 0 /\ e.tat \in 0 .. 1
      /\ h \in Chip /\ Sound(h.ta) /\ h.ta.lag = 0 /\ h.tat \in 0 .. 1
  BY <1>3 DEF Exact, Good, Chip
<1>10. Seen(e.ta, e.tat) = [bits |-> Shape(e.ta.bits), cnt |-> e.ta.cnt, latch |-> e.ta.latch,
                            toggle |-> e.tat]
  BY <1>9, SeenNow
<1>11. Seen(h.ta, h.tat) = [bits |-> Shape(h.ta.bits), cnt |-> h.ta.cnt, latch |-> h.ta.latch,
                            toggle |-> h.tat]
  BY <1>9, SeenNow
<1>12. /\ Seen(c.ta, c.tat) = Seen(e.ta, e.tat) /\ c.cra = e.cra
       /\ "STEP" \notin c.ta.bits /\ "STEP" \notin e.ta.bits
  BY DEF Twins, FaceA
<1>13. Like(x, e.ta) /\ (c.tat + x.n) % 2 = e.tat
  BY <1>6, <1>10, <1>12 DEF Like
<1>14. Like(x, t)
  BY <1>4, <1>13 DEF Like, Alike
<1>15. /\ y \in Timer /\ Alike(y, Cycle(t)) /\ y.n - x.n = Cycle(t).n
  <2>1. y \in Timer /\ Cycle(t) \in Timer /\ Alike(y, Cycle(t)) /\ y.n - x.n = Cycle(t).n - t.n
    BY <1>8, <1>14, LikeCycle
  <2> QED BY <1>4, <2>1
<1> HIDE DEF y
<1>16. Shape(w.bits) = Shape(h.ta.bits) /\ w.cnt = h.ta.cnt /\ w.latch = h.ta.latch
  BY <1>4, <1>8, <1>15 DEF Alike
<1>17. (d.tat + w.n) % 2 = h.tat
  <2>1. x.n \in Nat /\ y.n \in Nat /\ w.n = y.n
    BY <1>8, <1>15 DEF Timer
  <2>2. CASE Cycle(t).n = 0
    BY <1>2, <1>4, <1>13, <1>15, <2>1, <2>2
  <2>3. CASE Cycle(t).n = 1
    <3>1. w.n = x.n + 1 /\ h.tat = 1 - e.tat
      BY <1>4, <1>15, <2>1, <2>3
    <3>2. ASSUME NEW j \in Nat PROVE (j + 1) % 2 = 1 - (j % 2)
      OBVIOUS
    <3>3. c.tat + x.n \in Nat /\ d.tat + w.n = (c.tat + x.n) + 1
      BY <1>1, <1>2, <2>1, <3>1
    <3> QED BY <1>13, <3>1, <3>2, <3>3
  <2> QED BY <1>4, <2>2, <2>3
<1>18. Seen(d.ta, d.tat) = Seen(h.ta, h.tat)
  BY <1>7, <1>11, <1>16, <1>17
<1> QED BY <1>2, <1>3, <1>4, <1>12, <1>18 DEF Twins, FaceA, Alike, d, h

\* So they do of timer B.
LEMMA OlderTwinsB ==
  ASSUME NEW c, NEW e, Good(c), ~ AlarmsDue(c), c.ifr >= -1, Exact(e), TwinsB(c, e)
  PROVE  TwinsB(Older(c), WholeCycle(e))
<1> DEFINE d == Older(c)
           h == WholeCycle(e)
<1>1. /\ "INMODE_TA" \notin c.crb /\ "STEP" \notin c.tb.bits /\ "INMODE_TA" \notin e.crb
      /\ Sight(c.tb) = Sight(e.tb) /\ c.crb = e.crb
  BY DEF TwinsB, Alone, Sights
<1>2. Sound(c.tb) /\ Sound(d.tb) /\ d.tb.lag = c.tb.lag + 1
  BY OlderFacts DEF Turn, Good
<1>3. Alike(d.tb, c.tb) /\ d.crb = c.crb
  <2>1. c \in Chip /\ c.ta \in Timer /\ c.tb \in Timer
    BY DEF Good, Sound
  <2> QED BY <2>1, OlderKeeps
<1>4. /\ Exact(h) /\ h.crb = e.crb /\ "STEP" \notin h.tb.bits
      /\ \E t \in Timer : Alike(t, e.tb) /\ Alike(h.tb, Cycle(t))
  BY <1>1, WholeCycleFacts
<1> HIDE DEF d, h
<1>5. PICK t \in Timer : Alike(t, e.tb) /\ Alike(h.tb, Cycle(t))
  BY <1>4
<1>6. Sound(e.tb) /\ e.tb.lag = 0 /\ Sound(h.tb) /\ h.tb.lag = 0
  BY <1>4 DEF Exact, Good
<1>7. Sight(c.tb) = [bits |-> Shape(t.bits), cnt |-> t.cnt, latch |-> t.latch]
  BY <1>1, <1>5, <1>6, SightNow DEF Alike
<1>8. Sight(d.tb) = [bits |-> Shape(Cycle(t).bits), cnt |-> Cycle(t).cnt,
                     latch |-> Cycle(t).latch]
  BY <1>2, <1>3, <1>7, SightOlder
<1>9. Sight(d.tb) = Sight(h.tb)
  BY <1>5, <1>6, <1>8, SightNow DEF Alike
<1>10. "STEP" \notin d.tb.bits
  BY <1>1, <1>3 DEF Alike
<1> QED BY <1>1, <1>3, <1>4, <1>9, <1>10 DEF TwinsB, Alone, Sights, d, h

-----------------------------------------------------------------------------
(* The inductive invariant of both chips.                                    *)

\* The chip computed cycle by cycle is at the present, timer A looks the same in both, and so
\* does timer B when the program never makes it count A.
RefInv ==
  /\ Exact(ref)
  /\ Twins(cia, ref)
  /\ Unchained => TwinsB(cia, ref)
  /\ bus = 0 => Turn(ref)

\* It holds after a reset.
LEMMA ResetTwins ==
  ASSUME NEW c \in Chip, c.ta = ResetTimer, c.tb = ResetTimer, c.crb = {},
         NEW e \in Chip, e.ta = ResetTimer, e.tb = ResetTimer, e.crb = {}, e.ifr = 0,
         c.tat = e.tat, c.cra = e.cra
  PROVE  Exact(e) /\ Turn(e) /\ Twins(c, e) /\ TwinsB(c, e)
<1>1. /\ Sound(ResetTimer) /\ Kept(ResetTimer) /\ Fresh(ResetTimer) /\ ResetTimer.lag = 0
      /\ ResetTimer.due = Never
  BY ResetTimerFacts
<1>2. ResetTimer.bits = {}
  BY DEF ResetTimer
<1>3. Exact(e) /\ Turn(e)
  BY <1>1 DEF Exact, Turn, Good
<1>4. FaceA(c) = FaceA(e) /\ Sights(c) = Sights(e)
  BY DEF FaceA, Sights
<1> QED BY <1>2, <1>3, <1>4 DEF Twins, TwinsB, Alone

\* The states of both chips after a reset.
LEMMA ResetChips ==
  ASSUME NEW a \in 0 .. 1, NEW b \in 0 .. 1
  PROVE  LET c == [ResetChip EXCEPT !.tat = a, !.tbt = b]
             e == [ResetChip EXCEPT !.tat = a, !.tbt = b, !.idle = 0, !.ifr = 0]
             h == [ResetChip EXCEPT !.idle = 0, !.ifr = 0]
         IN  /\ Exact(e) /\ Turn(e) /\ Twins(c, e) /\ TwinsB(c, e)
             /\ Exact(h) /\ Turn(h) /\ Twins(ResetChip, h) /\ TwinsB(ResetChip, h)
<1> DEFINE z == 0
           r == ResetChip
           c == [r EXCEPT !.tat = a, !.tbt = b]
           e == [r EXCEPT !.tat = a, !.tbt = b, !.idle = z, !.ifr = z]
           h == [r EXCEPT !.idle = z, !.ifr = z]
<1>1. r \in Chip
  BY ResetChipFacts DEF Turn, Good
<1>2. r.ta = ResetTimer /\ r.tb = ResetTimer /\ r.crb = {}
  BY DEF ResetChip
<1>3. z \in Int
  OBVIOUS
<1> HIDE DEF r, z
<1>4. /\ c \in Chip /\ c.ta = r.ta /\ c.tb = r.tb /\ c.tat = a /\ c.cra = r.cra /\ c.crb = r.crb
      /\ e \in Chip /\ e.ta = r.ta /\ e.tb = r.tb /\ e.tat = a /\ e.cra = r.cra /\ e.ifr = z
      /\ e.crb = r.crb /\ h.crb = r.crb
      /\ h \in Chip /\ h.ta = r.ta /\ h.tb = r.tb /\ h.tat = r.tat /\ h.cra = r.cra /\ h.ifr = z
  BY <1>1, <1>3 DEF Chip
<1> HIDE DEF c, e, h
<1>5. /\ Exact(e) /\ Turn(e) /\ Twins(c, e) /\ TwinsB(c, e)
      /\ Exact(h) /\ Turn(h) /\ Twins(r, h) /\ TwinsB(r, h)
  BY <1>1, <1>2, <1>4, ResetTwins DEF z
<1> QED BY <1>5 DEF c, e, h, r, z

\* It holds at first.
LEMMA RefInvInit == Init => RefInv
<1> SUFFICES ASSUME Init PROVE RefInv
  OBVIOUS
<1>1. cia = ResetChip /\ ref = [ResetChip EXCEPT !.idle = 0, !.ifr = 0]
  BY DEF Init
<1>2. 0 \in 0 .. 1
  OBVIOUS
<1>3. LET h == [ResetChip EXCEPT !.idle = 0, !.ifr = 0]
      IN  Exact(h) /\ Turn(h) /\ Twins(ResetChip, h) /\ TwinsB(ResetChip, h)
  BY <1>2, ResetChips
<1> QED BY <1>1, <1>3 DEF RefInv

\* Every step keeps it.
LEMMA RefInvNext == CiaInv /\ RefInv /\ [Next]_vars => RefInv'
<1> SUFFICES ASSUME CiaInv, RefInv, [Next]_vars PROVE RefInv'
  OBVIOUS
<1>1. /\ Good(cia) /\ cia \in Chip /\ cia.ifr >= -1 /\ Exact(ref) /\ Good(ref) /\ Twins(cia, ref)
      /\ Unchained => TwinsB(cia, ref)
  BY DEF CiaInv, RefInv, Good, Exact
<1>2. ASSUME AlarmRuns(cia'), Tells(cia, cia'), TellsB(cia, cia') PROVE RefInv'
  <2>1. ref' = ref /\ program' = program /\ bus' = IF bus = 0 THEN 1 ELSE bus
    BY <1>2 DEF AlarmRuns
  <2>2. bus' # 0
    BY <2>1
  <2>3. Twins(cia', ref')
    BY <1>1, <1>2, <2>1, TwinsTell DEF Tells
  <2>4. Unchained' => TwinsB(cia', ref')
    BY <1>1, <1>2, <2>1, TellsLooks DEF LooksB, TwinsB, Unchained
  <2> QED BY <1>1, <2>1, <2>2, <2>3, <2>4 DEF RefInv
<1>3. CASE CpuAccess
  <2>1. PICK a \in program.accesses : cia' = Access(cia, a) /\ ref' = Plain(Access(ref, a))
    BY <1>3 DEF CpuAccess
  <2>2. bus = 0 /\ bus' = Gap /\ program' = program
    BY <1>3 DEF CpuAccess
  <2>3. a \in Accesses
    BY <2>1, CiaAssumption DEF CiaInv
  <2>4. Turn(cia) /\ Turn(ref)
    BY <2>2 DEF CiaInv, RefInv
  <2> DEFINE c == Access(cia, a)
             e == Access(ref, a)
  <2>5. Twins(c, e)
    BY <1>1, <2>3, <2>4, AccessTwins
  <2>6. Unchained => TwinsB(c, e)
    BY <1>1, <2>1, <2>3, <2>4, AccessTwinsB DEF Unchained
  <2>7. Done(ref, e)
    BY <2>3, <2>4, AccessDone
  <2> HIDE DEF c, e
  <2>8. Good(e) /\ e.ta.lag = 0 /\ e.tb.lag = 0 /\ e.ifr >= -1
    BY <1>1, <2>7 DEF Done, Exact
  <2>9. Exact(Plain(e))
    BY <2>8, PlainFacts DEF Exact, Rearmed
  <2>10. Twins(c, Plain(e))
    BY <2>5, <2>8, PlainTells DEF Tells, Twins
  <2>11. bus' # 0
    BY <2>2, Limits
  <2>12. Unchained => TwinsB(c, Plain(e))
    BY <2>6, <2>8, PlainTellsB, TellsLooks DEF LooksB, TwinsB
  <2>13. Unchained' <=> Unchained
    BY <2>2 DEF Unchained
  <2> QED BY <2>1, <2>9, <2>10, <2>11, <2>12, <2>13 DEF RefInv, c, e
<1>4. CASE TaAlarm
  <2>1. cia' = InttaEntry(cia) /\ AlarmRuns(cia')
    BY <1>4 DEF TaAlarm, AlarmRuns
  <2> QED BY <1>1, <1>2, <2>1, EntriesTell, EntriesTellB
<1>5. CASE TbAlarm
  <2>1. cia' = InttbEntry(cia) /\ AlarmRuns(cia')
    BY <1>5 DEF TbAlarm, AlarmRuns
  <2> QED BY <1>1, <1>2, <2>1, EntriesTell, EntriesTellB
<1>6. CASE IdleAlarm
  <2>1. cia' = IdleEntry(cia) /\ AlarmRuns(cia')
    BY <1>6 DEF IdleAlarm, AlarmRuns
  <2> QED BY <1>1, <1>2, <2>1, EntriesTell, EntriesTellB
<1>7. CASE Tick
  <2>1. ~ AlarmsDue(cia) /\ cia' = Older(cia) /\ ref' = WholeCycle(ref) /\ program' = program
    BY <1>7 DEF Tick
  <2>2. Twins(Older(cia), WholeCycle(ref))
    BY <1>1, <2>1, OlderTwins
  <2>3. Exact(WholeCycle(ref)) /\ Turn(WholeCycle(ref))
    BY <1>1, WholeCycleFacts
  <2>4. Unchained' => TwinsB(Older(cia), WholeCycle(ref))
    BY <1>1, <2>1, OlderTwinsB DEF Unchained
  <2> QED BY <2>1, <2>2, <2>3, <2>4 DEF RefInv
<1>8. CASE Reset
  <2> DEFINE a == cia.tat
             b == cia.tbt
             c == [ResetChip EXCEPT !.tat = a, !.tbt = b]
             e == [ResetChip EXCEPT !.tat = a, !.tbt = b, !.idle = 0, !.ifr = 0]
  <2>1. cia' = c /\ ref' = e
    BY <1>8 DEF Reset
  <2>2. a \in 0 .. 1 /\ b \in 0 .. 1
    BY <1>1 DEF Chip
  <2>3. Exact(e) /\ Turn(e) /\ Twins(c, e) /\ TwinsB(c, e)
    <3> HIDE DEF a, b
    <3> QED BY <2>2, ResetChips
  <2> HIDE DEF c, e
  <2> QED BY <2>1, <2>3 DEF RefInv
<1>9. CASE UNCHANGED vars
  BY <1>9 DEF vars, RefInv, Exact, Twins, FaceA, TwinsB, Alone, Sights, Unchained, Turn, Good, Sound,
              Kept, Fresh
<1> QED BY <1>3, <1>4, <1>5, <1>6, <1>7, <1>8, <1>9 DEF Next

\* A timer is exact at any time, whatever alarms were skipped and however far behind it was:
\* whoever has ciat_update() compute it finds what the chip computed cycle by cycle shows.
\* Timer A is so for every program, timer B for those that never make it count A.
THEOREM TimersAreExact == Spec => []TimersExact
<1>1. CiaInv /\ RefInv => TimersExact
  <2> SUFFICES ASSUME CiaInv, RefInv PROVE TimersExact
    OBVIOUS
  <2> DEFINE c == UpdateTb(UpdateTa(cia))
  <2>1. Good(c) /\ Armed(c.ta) /\ Armed(c.tb) /\ Tells(cia, c) /\ TellsB(cia, c)
    BY UpdateBothFacts, UpdateTells, UpdateTellsB DEF CiaInv, After
  <2>2. Twins(c, ref) /\ Exact(ref) /\ (Unchained => TwinsB(c, ref))
    BY <2>1, TellsLooks DEF RefInv, Twins, Tells, TwinsB, LooksB
  <2> HIDE DEF c
  <2>3. Like(c.ta, ref.ta) /\ c.tat = ref.tat
    BY <2>1, <2>2, TwinsNow DEF Twins, Exact, Good, Armed
  <2>4. Unchained => Like(c.tb, ref.tb)
    BY <2>1, <2>2, TwinsNowB DEF TwinsB, Exact, Good, Armed
  <2>5. Shown(c.ta) = Shown(ref.ta) /\ (Unchained => Shown(c.tb) = Shown(ref.tb))
    BY <2>3, <2>4 DEF Shown, Like, Shape
  <2> QED BY <2>3, <2>5 DEF TimersExact, c
<1> QED BY <1>1, CiaInvInit, CiaInvNext, RefInvInit, RefInvNext, PTL DEF Spec
=============================================================================
