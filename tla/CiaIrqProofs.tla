---------------------------- MODULE CiaIrqProofs ----------------------------
(***************************************************************************)
(* Proofs about the interrupts of a Cia whose timer B counts cycles only,  *)
(* for counters of any width and any set of programs: what is read of      *)
(* timer B and of the ICR, and the cycle in which the line is asserted and *)
(* released, are those of the chip computed cycle by cycle.                *)
(*                                                                         *)
(* First the interrupt register with its delays, one cycle of it and any   *)
(* number of them caught up late. Then the underflows that nobody has      *)
(* computed yet, and what they will do to the register once they are: the  *)
(* register of a chip as it would be in the present cycle (Present), and   *)
(* with the underflows that came too late for their own cycle (Whole). The *)
(* handlers and accesses leave of it what can be told (View), and so does  *)
(* a cycle that passes without being computed. Last, timer B's toggle.     *)
(***************************************************************************)
EXTENDS CiaProofs

-----------------------------------------------------------------------------
(* The interrupt register.                                                   *)

\* The interrupt register with its delays,
Reg(c) ==
  [mask |-> c.mask, flags |-> c.irqflags, new |-> c.new, ack |-> c.ack,
   delay |-> c.delay, on |-> c.line = "on"]

Regs ==
  [mask : SUBSET {"TA", "TB"}, flags : SUBSET Flags, new : SUBSET Flags, ack : SUBSET Flags,
   delay : SUBSET DelayBits, on : BOOLEAN]

\* a cycle later (cia_run_ifr_cycle: an ICR is read in the cycle that carries ACK1),
Delays(q) ==
  q.delay \cup
    (IF q.new \cap q.mask = {} THEN {}
     ELSE IF model = "old" \/ "ACK1" \in q.delay THEN {"RAISE1", "D7SET1"}
     ELSE {"RAISE0", "D7SET0"})

Elapse(q) ==
  [mask |-> q.mask,
   flags |-> (IF "ACK0" \notin q.delay THEN q.flags
              ELSE IF model = "old" THEN q.flags \ (q.ack \cup {"SET"})
              ELSE q.flags \ q.ack) \cup {b \in {"SET"} : "D7SET0" \in Delays(q)},
   new |-> {},
   ack |-> IF "ACK0" \in q.delay THEN {} ELSE q.ack,
   delay |-> Shift(Delays(q)),
   on |-> "RAISE0" \in Delays(q) \/ q.on]

\* and with underflows told (cia_set_irq_flag, and the old chip's bug of timer B).
Bug(q) == model = "old" /\ "ACK1" \in q.delay

Mark(q, L) ==
  [mask |-> q.mask,
   flags |-> (IF "TB" \notin L THEN q.flags
              ELSE IF Bug(q) THEN q.flags \cup {"TBB"} ELSE q.flags \ {"TBB"}) \cup L,
   new |-> q.new \cup L, ack |-> q.ack \ L, delay |-> q.delay, on |-> q.on]

\* An interrupt that is asserted and stays so, one that comes with the next cycle,
Asserted(q) == q.on /\ "SET" \in q.flags /\ "ACK0" \notin q.delay /\ "ACK1" \notin q.delay
Pending(q) == "RAISE0" \in q.delay /\ "D7SET0" \in q.delay /\ "ACK1" \notin q.delay

\* what of the register anybody can tell, and nothing that still has to be drawn.
View(q) ==
  [mask |-> q.mask, flags |-> q.flags, ack |-> q.ack, on |-> q.on,
   delay |-> q.delay \ ({b \in {"RAISE0"} : Asserted(q)}
               \cup {b \in {"D7SET0"} : "SET" \in q.flags /\ "ACK0" \notin q.delay})]

Calm(q) == q.new \cap q.mask = {} \/ Asserted(q)

LEMMA RegEqual ==
  ASSUME NEW p \in Regs, NEW q \in Regs, p.mask = q.mask, p.flags = q.flags, p.new = q.new,
         p.ack = q.ack, p.delay = q.delay, p.on = q.on
  PROVE  p = q
BY DEF Regs

LEMMA RegType == ASSUME NEW c \in Chip PROVE Reg(c) \in Regs
BY DEF Reg, Regs, Chip

LEMMA MarkType ==
  ASSUME NEW q \in Regs, NEW L \in SUBSET {"TA", "TB"}
  PROVE  /\ Mark(q, L) \in Regs
         /\ Mark(q, L).mask = q.mask /\ Mark(q, L).new = q.new \cup L
         /\ Mark(q, L).ack = q.ack \ L /\ Mark(q, L).delay = q.delay /\ Mark(q, L).on = q.on
         /\ \A f : f \in Mark(q, L).flags <=>
              \/ f \in L
              \/ f # "TBB" /\ f \in q.flags
              \/ f = "TBB" /\ IF "TB" \in L THEN Bug(q) ELSE f \in q.flags
BY DEF Mark, Regs, Flags

LEMMA ElapseType ==
  ASSUME NEW q \in Regs
  PROVE  /\ Elapse(q) \in Regs
         /\ Elapse(q).mask = q.mask /\ Elapse(q).new = {}
         /\ Elapse(q).ack = IF "ACK0" \in q.delay THEN {} ELSE q.ack
         /\ Elapse(q).on <=> "RAISE0" \in Delays(q) \/ q.on
         /\ Elapse(q).delay = Shift(Delays(q))
         /\ \A f : f \in Elapse(q).flags <=>
              \/ f = "SET" /\ "D7SET0" \in Delays(q)
              \/ /\ f \in q.flags
                 /\ "ACK0" \in q.delay => f \notin q.ack /\ (model = "old" => f # "SET")
BY ShiftType DEF Elapse, Regs, Flags

LEMMA MarkMark ==
  ASSUME NEW q \in Regs, NEW L \in SUBSET {"TA", "TB"}, NEW U \in SUBSET {"TA", "TB"}
  PROVE  Mark(Mark(q, L), U) = Mark(q, L \cup U)
<1> DEFINE m == Mark(q, L)
           a == Mark(m, U)
           b == Mark(q, L \cup U)
<1>1. L \cup U \in SUBSET {"TA", "TB"} /\ m \in Regs
  BY MarkType
<1>2. /\ m.mask = q.mask /\ m.new = q.new \cup L /\ m.ack = q.ack \ L /\ m.delay = q.delay
      /\ m.on = q.on
  BY MarkType
<1>3. \A f : f \in m.flags <=>
         \/ f \in L
         \/ f # "TBB" /\ f \in q.flags
         \/ f = "TBB" /\ IF "TB" \in L THEN Bug(q) ELSE f \in q.flags
  BY MarkType
<1> HIDE DEF m
<1>4. /\ b \in Regs /\ b.mask = q.mask /\ b.new = q.new \cup (L \cup U)
      /\ b.ack = q.ack \ (L \cup U) /\ b.delay = q.delay /\ b.on = q.on
  BY <1>1, MarkType
<1>5. \A f : f \in b.flags <=>
         \/ f \in L \cup U
         \/ f # "TBB" /\ f \in q.flags
         \/ f = "TBB" /\ IF "TB" \in L \cup U THEN Bug(q) ELSE f \in q.flags
  BY <1>1, MarkType
<1> HIDE DEF b
<1>6. /\ a \in Regs /\ a.mask = m.mask /\ a.new = m.new \cup U
      /\ a.ack = m.ack \ U /\ a.delay = m.delay /\ a.on = m.on
  BY <1>1, MarkType
<1>7. \A f : f \in a.flags <=>
         \/ f \in U
         \/ f # "TBB" /\ f \in m.flags
         \/ f = "TBB" /\ IF "TB" \in U THEN Bug(m) ELSE f \in m.flags
  BY <1>1, MarkType
<1> HIDE DEF a
<1>8. Bug(m) <=> Bug(q)
  BY <1>2 DEF Bug
<1>9. ASSUME NEW f PROVE f \in a.flags <=> f \in b.flags
  BY <1>3, <1>5, <1>7, <1>8
<1>10. a.flags = b.flags
  BY <1>4, <1>6, <1>9 DEF Regs
<1>11. a.new = b.new /\ a.ack = b.ack
  BY <1>2, <1>4, <1>6
<1>12. a = b
  BY <1>2, <1>4, <1>6, <1>10, <1>11, RegEqual
<1> QED BY <1>12 DEF a, b, m
LEMMA RecordEq ==
  ASSUME NEW a, NEW b, NEW c, NEW d, NEW e, NEW a1, NEW b1, NEW c1, NEW d1, NEW e1
  PROVE  [mask |-> a, flags |-> b, ack |-> c, on |-> d, delay |-> e] =
           [mask |-> a1, flags |-> b1, ack |-> c1, on |-> d1, delay |-> e1]
         <=> a = a1 /\ b = b1 /\ c = c1 /\ d = d1 /\ e = e1
<1> DEFINE f == [mask |-> a, flags |-> b, ack |-> c, on |-> d, delay |-> e]
           g == [mask |-> a1, flags |-> b1, ack |-> c1, on |-> d1, delay |-> e1]
<1>1. f = g => f.mask = g.mask /\ f.flags = g.flags /\ f.ack = g.ack /\ f.on = g.on /\ f.delay = g.delay
  BY Zenon
<1> QED BY <1>1

LEMMA ViewIs ==
  ASSUME NEW p \in Regs, NEW q \in Regs
  PROVE  View(p) = View(q) <=>
           /\ p.mask = q.mask /\ p.flags = q.flags /\ p.ack = q.ack /\ p.on = q.on
           /\ \A b \in DelayBits :
                \/ b \in p.delay <=> b \in q.delay
                \/ b = "RAISE0" /\ Asserted(p)
                \/ b = "D7SET0" /\ "SET" \in p.flags /\ "ACK0" \notin p.delay
<1> DEFINE s == p.delay \ ({b \in {"RAISE0"} : Asserted(p)}
                      \cup {b \in {"D7SET0"} : "SET" \in p.flags /\ "ACK0" \notin p.delay})
           t == q.delay \ ({b \in {"RAISE0"} : Asserted(q)}
                      \cup {b \in {"D7SET0"} : "SET" \in q.flags /\ "ACK0" \notin q.delay})
           near == \A b \in DelayBits :
                \/ b \in p.delay <=> b \in q.delay
                \/ b = "RAISE0" /\ Asserted(p)
                \/ b = "D7SET0" /\ "SET" \in p.flags /\ "ACK0" \notin p.delay
<1>1. View(p) = View(q) <=>
        p.mask = q.mask /\ p.flags = q.flags /\ p.ack = q.ack /\ p.on = q.on /\ s = t
  BY RecordEq, Zenon DEF View
<1>2. ASSUME p.flags = q.flags, p.on = q.on
      PROVE  s = t <=> near
  <2>1. p.delay \in SUBSET DelayBits /\ q.delay \in SUBSET DelayBits
    BY DEF Regs
  <2>2. ASSUME s = t PROVE near
    <3>1. /\ "ACK0" \in p.delay <=> "ACK0" \in q.delay
          /\ "ACK1" \in p.delay <=> "ACK1" \in q.delay
      BY <2>2
    <3> QED BY <2>1, <2>2, <3>1, <1>2 DEF Asserted
  <2>3. ASSUME near PROVE s = t
    <3>1. /\ "ACK0" \in p.delay <=> "ACK0" \in q.delay
          /\ "ACK1" \in p.delay <=> "ACK1" \in q.delay
      BY <2>3 DEF DelayBits
    <3>2. Asserted(p) <=> Asserted(q)
      BY <3>1, <1>2 DEF Asserted
    <3>3. ASSUME NEW x PROVE x \in s <=> x \in t
      BY <2>1, <2>3, <3>1, <3>2, <1>2 DEF DelayBits
    <3> QED BY <3>3
  <2> QED BY <2>2, <2>3
<1> QED BY <1>1, <1>2

LEMMA ShiftIs ==
  ASSUME NEW d
  PROVE  \A b : b \in Shift(d) <=>
           \/ b = "ACK0" /\ "ACK1" \in d
           \/ b = "ACK_1" /\ "ACK0" \in d
           \/ b = "D7SET0" /\ "D7SET1" \in d
           \/ b = "RAISE0" /\ "RAISE1" \in d
           \/ b = "READ1" /\ "READ0" \in d
BY DEF Shift

LEMMA DelaysAre ==
  ASSUME NEW q \in Regs
  PROVE  /\ Delays(q) \in SUBSET DelayBits
         /\ \A b : b \in Delays(q) <=>
              \/ b \in q.delay
              \/ /\ q.new \cap q.mask # {}
                 /\ model = "old" \/ "ACK1" \in q.delay
                 /\ b \in {"RAISE1", "D7SET1"}
              \/ /\ q.new \cap q.mask # {}
                 /\ ~ (model = "old" \/ "ACK1" \in q.delay)
                 /\ b \in {"RAISE0", "D7SET0"}
BY DEF Delays, Regs, DelayBits

LEMMA ElapseIs ==
  ASSUME NEW q \in Regs
  PROVE  LET e == Elapse(q)
             late == model = "old" \/ "ACK1" \in q.delay
             new == q.new \cap q.mask # {}
         IN
         /\ e \in Regs /\ e.mask = q.mask /\ e.new = {}
         /\ e.ack = IF "ACK0" \in q.delay THEN {} ELSE q.ack
         /\ e.on <=> q.on \/ "RAISE0" \in q.delay \/ (new /\ ~ late)
         /\ \A f : f \in e.flags <=>
              \/ f = "SET" /\ ("D7SET0" \in q.delay \/ (new /\ ~ late))
              \/ /\ f \in q.flags
                 /\ "ACK0" \in q.delay => f \notin q.ack /\ (model = "old" => f # "SET")
         /\ \A b : b \in e.delay <=>
              \/ b = "ACK0" /\ "ACK1" \in q.delay
              \/ b = "ACK_1" /\ "ACK0" \in q.delay
              \/ b = "D7SET0" /\ ("D7SET1" \in q.delay \/ (new /\ late))
              \/ b = "RAISE0" /\ ("RAISE1" \in q.delay \/ (new /\ late))
              \/ b = "READ1" /\ "READ0" \in q.delay
<1> DEFINE e == Elapse(q)
           d == Delays(q)
           late == model = "old" \/ "ACK1" \in q.delay
           new == q.new \cap q.mask # {}
<1>1. /\ e \in Regs /\ e.mask = q.mask /\ e.new = {}
      /\ e.ack = IF "ACK0" \in q.delay THEN {} ELSE q.ack
      /\ e.on <=> "RAISE0" \in d \/ q.on
      /\ e.delay = Shift(d)
      /\ \A f : f \in e.flags <=>
           \/ f = "SET" /\ "D7SET0" \in d
           \/ /\ f \in q.flags
              /\ "ACK0" \in q.delay => f \notin q.ack /\ (model = "old" => f # "SET")
  BY ElapseType
<1>2. \A b : b \in d <=>
        \/ b \in q.delay
        \/ new /\ late /\ b \in {"RAISE1", "D7SET1"}
        \/ new /\ ~ late /\ b \in {"RAISE0", "D7SET0"}
  BY DelaysAre
<1> HIDE DEF e, d
<1>3. \A b : b \in e.delay <=>
        \/ b = "ACK0" /\ "ACK1" \in d
        \/ b = "ACK_1" /\ "ACK0" \in d
        \/ b = "D7SET0" /\ "D7SET1" \in d
        \/ b = "RAISE0" /\ "RAISE1" \in d
        \/ b = "READ1" /\ "READ0" \in d
  BY <1>1, ShiftIs
<1>4. \A b : b \in e.delay <=>
              \/ b = "ACK0" /\ "ACK1" \in q.delay
              \/ b = "ACK_1" /\ "ACK0" \in q.delay
              \/ b = "D7SET0" /\ ("D7SET1" \in q.delay \/ (new /\ late))
              \/ b = "RAISE0" /\ ("RAISE1" \in q.delay \/ (new /\ late))
              \/ b = "READ1" /\ "READ0" \in q.delay
  BY <1>2, <1>3
<1>5. /\ e.on <=> q.on \/ "RAISE0" \in q.delay \/ (new /\ ~ late)
      /\ \A f : f \in e.flags <=>
              \/ f = "SET" /\ ("D7SET0" \in q.delay \/ (new /\ ~ late))
              \/ /\ f \in q.flags
                 /\ "ACK0" \in q.delay => f \notin q.ack /\ (model = "old" => f # "SET")
  BY <1>1, <1>2
<1> QED BY <1>1, <1>4, <1>5 DEF e

LEMMA NearAlike ==
  ASSUME NEW p \in Regs, NEW q \in Regs, View(p) = View(q)
  PROVE  /\ p.mask = q.mask /\ p.flags = q.flags /\ p.ack = q.ack /\ p.on = q.on
         /\ \A b \in DelayBits \ {"RAISE0", "D7SET0"} : b \in p.delay <=> b \in q.delay
         /\ Asserted(p) <=> Asserted(q)
         /\ ~ Asserted(p) => ("RAISE0" \in p.delay <=> "RAISE0" \in q.delay)
         /\ ~ ("SET" \in p.flags /\ "ACK0" \notin p.delay) =>
              ("D7SET0" \in p.delay <=> "D7SET0" \in q.delay)
<1>1. /\ p.mask = q.mask /\ p.flags = q.flags /\ p.ack = q.ack /\ p.on = q.on
      /\ \A b \in DelayBits :
           \/ b \in p.delay <=> b \in q.delay
           \/ b = "RAISE0" /\ Asserted(p)
           \/ b = "D7SET0" /\ "SET" \in p.flags /\ "ACK0" \notin p.delay
  BY ViewIs
<1>2. \A b \in DelayBits \ {"RAISE0", "D7SET0"} : b \in p.delay <=> b \in q.delay
  BY <1>1
<1>3. "ACK0" \in DelayBits /\ "ACK1" \in DelayBits /\ "RAISE0" \in DelayBits /\ "D7SET0" \in DelayBits
  BY DEF DelayBits
<1>4. Asserted(p) <=> Asserted(q)
  BY <1>1, <1>2, <1>3 DEF Asserted
<1> QED BY <1>1, <1>2, <1>3, <1>4

LEMMA NearElapse ==
  ASSUME NEW p \in Regs, NEW q \in Regs, View(p) = View(q), Calm(p), Calm(q),
         NEW U \in SUBSET {"TA", "TB"}
  PROVE  View(Elapse(Mark(p, U))) = View(Elapse(Mark(q, U)))
<1> DEFINE mp == Mark(p, U)
           mq == Mark(q, U)
           ep == Elapse(mp)
           eq == Elapse(mq)
           late == model = "old" \/ "ACK1" \in p.delay
           newp == (p.new \cup U) \cap p.mask # {}
           newq == (q.new \cup U) \cap q.mask # {}
<1>1. /\ p.mask = q.mask /\ p.flags = q.flags /\ p.ack = q.ack /\ p.on = q.on
      /\ \A b \in DelayBits \ {"RAISE0", "D7SET0"} : b \in p.delay <=> b \in q.delay
      /\ Asserted(p) <=> Asserted(q)
      /\ ~ Asserted(p) => ("RAISE0" \in p.delay <=> "RAISE0" \in q.delay)
      /\ ~ ("SET" \in p.flags /\ "ACK0" \notin p.delay) =>
              ("D7SET0" \in p.delay <=> "D7SET0" \in q.delay)
  BY NearAlike
<1>2. /\ "ACK0" \in p.delay <=> "ACK0" \in q.delay
      /\ "ACK1" \in p.delay <=> "ACK1" \in q.delay
      /\ "RAISE1" \in p.delay <=> "RAISE1" \in q.delay
      /\ "D7SET1" \in p.delay <=> "D7SET1" \in q.delay
      /\ "READ0" \in p.delay <=> "READ0" \in q.delay
  BY <1>1 DEF DelayBits
<1>3. /\ mp \in Regs /\ mp.mask = p.mask /\ mp.new = p.new \cup U
      /\ mp.ack = p.ack \ U /\ mp.delay = p.delay /\ mp.on = p.on
      /\ mq \in Regs /\ mq.mask = q.mask /\ mq.new = q.new \cup U
      /\ mq.ack = q.ack \ U /\ mq.delay = q.delay /\ mq.on = q.on
  BY MarkType
<1>4. mp.flags = mq.flags
  BY <1>1, <1>2 DEF Mark, Bug
<1>5. "SET" \in mp.flags <=> "SET" \in p.flags
  BY MarkType
<1> HIDE DEF mp, mq
<1>6. /\ late \in BOOLEAN /\ newp \in BOOLEAN /\ newq \in BOOLEAN
      /\ late <=> model = "old" \/ "ACK1" \in mp.delay
      /\ late <=> model = "old" \/ "ACK1" \in mq.delay
      /\ newp <=> mp.new \cap mp.mask # {}
      /\ newq <=> mq.new \cap mq.mask # {}
  BY <1>2, <1>3
<1>7. ~ Asserted(p) => (newp <=> newq)
  <2>1. ~ Asserted(p) => p.new \cap p.mask = {} /\ q.new \cap q.mask = {}
    BY <1>1 DEF Calm
  <2>2. \A N, M : N \cap M = {} => ((N \cup U) \cap M = U \cap M)
    OBVIOUS
  <2> QED BY <2>1, <2>2, <1>1
<1> HIDE DEF late, newp, newq
<1>8. /\ ep \in Regs /\ ep.mask = mp.mask /\ ep.new = {}
      /\ ep.ack = IF "ACK0" \in mp.delay THEN {} ELSE mp.ack
      /\ ep.on <=> mp.on \/ "RAISE0" \in mp.delay \/ (newp /\ ~ late)
      /\ \A f : f \in ep.flags <=>
              \/ f = "SET" /\ ("D7SET0" \in mp.delay \/ (newp /\ ~ late))
              \/ /\ f \in mp.flags
                 /\ "ACK0" \in mp.delay => f \notin mp.ack /\ (model = "old" => f # "SET")
      /\ \A b : b \in ep.delay <=>
              \/ b = "ACK0" /\ "ACK1" \in mp.delay
              \/ b = "ACK_1" /\ "ACK0" \in mp.delay
              \/ b = "D7SET0" /\ ("D7SET1" \in mp.delay \/ (newp /\ late))
              \/ b = "RAISE0" /\ ("RAISE1" \in mp.delay \/ (newp /\ late))
              \/ b = "READ1" /\ "READ0" \in mp.delay
  <2>1. late = (model = "old" \/ "ACK1" \in mp.delay) /\ newp = (mp.new \cap mp.mask # {})
    BY <1>6
  <2> QED BY <1>3, <2>1, ElapseIs
<1>9. /\ eq \in Regs /\ eq.mask = mq.mask /\ eq.new = {}
      /\ eq.ack = IF "ACK0" \in mq.delay THEN {} ELSE mq.ack
      /\ eq.on <=> mq.on \/ "RAISE0" \in mq.delay \/ (newq /\ ~ late)
      /\ \A f : f \in eq.flags <=>
              \/ f = "SET" /\ ("D7SET0" \in mq.delay \/ (newq /\ ~ late))
              \/ /\ f \in mq.flags
                 /\ "ACK0" \in mq.delay => f \notin mq.ack /\ (model = "old" => f # "SET")
      /\ \A b : b \in eq.delay <=>
              \/ b = "ACK0" /\ "ACK1" \in mq.delay
              \/ b = "ACK_1" /\ "ACK0" \in mq.delay
              \/ b = "D7SET0" /\ ("D7SET1" \in mq.delay \/ (newq /\ late))
              \/ b = "RAISE0" /\ ("RAISE1" \in mq.delay \/ (newq /\ late))
              \/ b = "READ1" /\ "READ0" \in mq.delay
  BY <1>3, <1>6, ElapseIs
<1> HIDE DEF ep, eq
<1>10. ep.mask = eq.mask /\ ep.ack = eq.ack
  BY <1>1, <1>2, <1>3, <1>8, <1>9
<1>11. ASSUME Asserted(p)
       PROVE  /\ ep.on /\ eq.on /\ "SET" \in ep.flags /\ "SET" \in eq.flags
              /\ Asserted(ep) /\ "ACK0" \notin ep.delay
              /\ \A f : f \in ep.flags <=> f \in eq.flags
  <2>1. p.on /\ "SET" \in p.flags /\ "ACK0" \notin p.delay /\ "ACK1" \notin p.delay
    BY <1>11 DEF Asserted
  <2>2. ep.on /\ eq.on /\ "SET" \in ep.flags /\ "SET" \in eq.flags
    BY <2>1, <1>1, <1>2, <1>3, <1>4, <1>5, <1>8, <1>9
  <2>3. "ACK0" \notin ep.delay /\ "ACK1" \notin ep.delay
    BY <2>1, <1>3, <1>8
  <2>4. \A f : f \in ep.flags <=> f \in eq.flags
    BY <2>1, <2>2, <1>2, <1>3, <1>4, <1>5, <1>8, <1>9
  <2> QED BY <2>2, <2>3, <2>4 DEF Asserted
<1>12. ASSUME ~ Asserted(p)
       PROVE  /\ ep.on = eq.on
              /\ \A f : f \in ep.flags <=> f \in eq.flags
              /\ \A b : b \in ep.delay <=> b \in eq.delay
  <2>1. newp <=> newq
    BY <1>7, <1>12
  <2>2. ep.on <=> eq.on
    BY <2>1, <1>1, <1>3, <1>8, <1>9, <1>12
  <2>3. \A f : f \in ep.flags <=> f \in eq.flags
    <3>1. \/ "D7SET0" \in mp.delay <=> "D7SET0" \in mq.delay
          \/ "SET" \in mp.flags /\ "ACK0" \notin mp.delay
      BY <1>1, <1>3, <1>5
    <3>2. mp.ack = mq.ack
      BY <1>1, <1>3
    <3> QED BY <2>1, <3>1, <3>2, <1>2, <1>3, <1>4, <1>8, <1>9
  <2>4. \A b : b \in ep.delay <=> b \in eq.delay
    BY <2>1, <1>2, <1>3, <1>8, <1>9
  <2>5. ep.on \in BOOLEAN /\ eq.on \in BOOLEAN
    BY <1>8, <1>9 DEF Regs
  <2> QED BY <2>2, <2>3, <2>4, <2>5
<1>13. ep.flags = eq.flags
  BY <1>11, <1>12, <1>8, <1>9 DEF Regs
<1>14. ep.on = eq.on
  <2>1. ep.on \in BOOLEAN /\ eq.on \in BOOLEAN
    BY <1>8, <1>9 DEF Regs
  <2> QED BY <1>11, <1>12, <2>1
<1>15. ASSUME NEW b \in DelayBits
       PROVE  \/ b \in ep.delay <=> b \in eq.delay
              \/ b = "RAISE0" /\ Asserted(ep)
              \/ b = "D7SET0" /\ "SET" \in ep.flags /\ "ACK0" \notin ep.delay
  <2>1. CASE Asserted(p)
    <3>1. b # "RAISE0" /\ b # "D7SET0" => (b \in ep.delay <=> b \in eq.delay)
      BY <1>2, <1>3, <1>8, <1>9
    <3> QED BY <3>1, <2>1, <1>11
  <2> QED BY <2>1, <1>12
<1>16. View(ep) = View(eq)
  BY <1>8, <1>9, <1>10, <1>13, <1>14, <1>15, ViewIs
<1> QED BY <1>16 DEF ep, eq, mp, mq

LEMMA MarkAsserted ==
  ASSUME NEW q \in Regs, NEW L \in SUBSET {"TA", "TB"}
  PROVE  /\ Asserted(Mark(q, L)) <=> Asserted(q)
         /\ Pending(Mark(q, L)) <=> Pending(q)
         /\ "SET" \in Mark(q, L).flags <=> "SET" \in q.flags
BY MarkType DEF Asserted, Pending

LEMMA StaysAsserted ==
  ASSUME NEW q \in Regs, Asserted(q) \/ Pending(q)
  PROVE  Asserted(Elapse(q))
BY ElapseIs DEF Asserted, Pending

LEMMA NewAsserted ==
  ASSUME NEW q \in Regs, q.new \cap q.mask # {}
  PROVE  Asserted(Elapse(q)) \/ Pending(Elapse(q))
BY ElapseIs DEF Asserted, Pending

LEMMA LateTold ==
  ASSUME NEW p \in Regs, NEW L \in SUBSET {"TA", "TB"}, L \cap p.ack = {},
         L \cap p.mask = {} \/ Asserted(Elapse(p)), "TB" \in L => ~ Bug(p)
  PROVE  /\ View(Mark(Elapse(p), L)) = View(Elapse(Mark(p, L)))
         /\ Calm(Mark(Elapse(p), L)) /\ Calm(Elapse(Mark(p, L)))
<1> DEFINE e == Elapse(p)
           f == Mark(e, L)
           m == Mark(p, L)
           g == Elapse(m)
           late == model = "old" \/ "ACK1" \in p.delay
           new == p.new \cap p.mask # {}
           more == (p.new \cup L) \cap p.mask # {}
<1>1. /\ e \in Regs /\ e.mask = p.mask /\ e.new = {}
      /\ e.ack = IF "ACK0" \in p.delay THEN {} ELSE p.ack
      /\ e.on <=> p.on \/ "RAISE0" \in p.delay \/ (new /\ ~ late)
      /\ \A x : x \in e.flags <=>
              \/ x = "SET" /\ ("D7SET0" \in p.delay \/ (new /\ ~ late))
              \/ /\ x \in p.flags
                 /\ "ACK0" \in p.delay => x \notin p.ack /\ (model = "old" => x # "SET")
      /\ \A b : b \in e.delay <=>
              \/ b = "ACK0" /\ "ACK1" \in p.delay
              \/ b = "ACK_1" /\ "ACK0" \in p.delay
              \/ b = "D7SET0" /\ ("D7SET1" \in p.delay \/ (new /\ late))
              \/ b = "RAISE0" /\ ("RAISE1" \in p.delay \/ (new /\ late))
              \/ b = "READ1" /\ "READ0" \in p.delay
  BY ElapseIs
<1> HIDE DEF e
<1>2. /\ f \in Regs /\ f.mask = e.mask /\ f.new = e.new \cup L
      /\ f.ack = e.ack \ L /\ f.delay = e.delay /\ f.on = e.on
      /\ \A x : x \in f.flags <=>
              \/ x \in L
              \/ x # "TBB" /\ x \in e.flags
              \/ x = "TBB" /\ IF "TB" \in L THEN Bug(e) ELSE x \in e.flags
  <2>1. e \in Regs
    BY <1>1
  <2> QED BY <2>1, MarkType
<1> HIDE DEF f
<1>3. /\ m \in Regs /\ m.mask = p.mask /\ m.new = p.new \cup L
      /\ m.ack = p.ack \ L /\ m.delay = p.delay /\ m.on = p.on
      /\ \A x : x \in m.flags <=>
              \/ x \in L
              \/ x # "TBB" /\ x \in p.flags
              \/ x = "TBB" /\ IF "TB" \in L THEN Bug(p) ELSE x \in p.flags
  BY MarkType
<1> HIDE DEF m
<1>4. late = (model = "old" \/ "ACK1" \in m.delay) /\ more = (m.new \cap m.mask # {})
  BY <1>3
<1>5. /\ L \cap p.mask = {} => (more <=> new)
      /\ new => more
  <2>1. \A N, M : L \cap M = {} => ((N \cup L) \cap M = N \cap M)
    OBVIOUS
  <2>2. \A N, M : N \cap M # {} => (N \cup L) \cap M # {}
    OBVIOUS
  <2> QED BY <2>1, <2>2
<1> HIDE DEF late, new, more
<1>6. /\ g \in Regs /\ g.mask = m.mask /\ g.new = {}
      /\ g.ack = IF "ACK0" \in m.delay THEN {} ELSE m.ack
      /\ g.on <=> m.on \/ "RAISE0" \in m.delay \/ (more /\ ~ late)
      /\ \A x : x \in g.flags <=>
              \/ x = "SET" /\ ("D7SET0" \in m.delay \/ (more /\ ~ late))
              \/ /\ x \in m.flags
                 /\ "ACK0" \in m.delay => x \notin m.ack /\ (model = "old" => x # "SET")
      /\ \A b : b \in g.delay <=>
              \/ b = "ACK0" /\ "ACK1" \in m.delay
              \/ b = "ACK_1" /\ "ACK0" \in m.delay
              \/ b = "D7SET0" /\ ("D7SET1" \in m.delay \/ (more /\ late))
              \/ b = "RAISE0" /\ ("RAISE1" \in m.delay \/ (more /\ late))
              \/ b = "READ1" /\ "READ0" \in m.delay
  BY <1>3, <1>4, ElapseIs
<1> HIDE DEF g
<1>7. m.ack = p.ack
  BY <1>3
<1>8. f.mask = g.mask
  BY <1>1, <1>2, <1>3, <1>6
<1>9. f.ack = g.ack
  <2>1. e.ack \ L = e.ack
    BY <1>1
  <2> QED BY <2>1, <1>1, <1>2, <1>3, <1>6, <1>7
<1>10. Asserted(e) =>
        /\ e.on /\ g.on /\ "SET" \in e.flags /\ "SET" \in f.flags /\ "SET" \in g.flags
        /\ "ACK0" \notin f.delay /\ Asserted(f) /\ Asserted(g)
  <2>1. ASSUME Asserted(e)
        PROVE  /\ e.on /\ g.on /\ "SET" \in e.flags /\ "SET" \in f.flags /\ "SET" \in g.flags
               /\ "ACK0" \notin f.delay /\ Asserted(f) /\ Asserted(g)
    <3>1. e.on /\ "SET" \in e.flags /\ "ACK0" \notin e.delay /\ "ACK1" \notin e.delay
      BY <2>1 DEF Asserted
    <3>2. g.on
      BY <3>1, <1>1, <1>3, <1>5, <1>6
    <3>3. "SET" \in g.flags
      BY <3>1, <1>1, <1>3, <1>5, <1>6, <1>7
    <3>4. "SET" \in f.flags /\ f.on /\ "ACK0" \notin f.delay /\ "ACK1" \notin f.delay
      BY <3>1, <1>2
    <3>5. "ACK0" \notin g.delay /\ "ACK1" \notin g.delay
      BY <3>1, <1>1, <1>3, <1>6
    <3> QED BY <3>1, <3>2, <3>3, <3>4, <3>5 DEF Asserted
  <2> QED BY <2>1
<1>11. "TB" \in L => ~ Bug(e)
  BY <1>1 DEF Bug
<1>12. ASSUME NEW x, x # "SET" PROVE x \in f.flags <=> x \in g.flags
  BY <1>1, <1>2, <1>3, <1>6, <1>7, <1>11, <1>12
<1>13. ASSUME L \cap p.mask = {}
       PROVE  /\ "SET" \in f.flags <=> "SET" \in g.flags
              /\ f.on <=> g.on
              /\ \A b : b \in f.delay <=> b \in g.delay
  <2>1. more <=> new
    BY <1>5, <1>13
  <2>2. "SET" \in f.flags <=> "SET" \in g.flags
    BY <2>1, <1>1, <1>2, <1>3, <1>6, <1>7
  <2>3. f.on <=> g.on
    BY <2>1, <1>1, <1>2, <1>3, <1>6
  <2>4. \A b : b \in f.delay <=> b \in g.delay
    BY <2>1, <1>1, <1>2, <1>3, <1>6
  <2> QED BY <2>2, <2>3, <2>4
<1>14. f.flags = g.flags
  <2>1. "SET" \in f.flags <=> "SET" \in g.flags
    BY <1>10, <1>13 DEF e
  <2>2. \A x : x \in f.flags <=> x \in g.flags
    BY <2>1, <1>12
  <2> QED BY <2>2, <1>2, <1>6 DEF Regs
<1>15. f.on = g.on
  <2>1. f.on \in BOOLEAN /\ g.on \in BOOLEAN
    BY <1>2, <1>6 DEF Regs
  <2>2. f.on <=> g.on
    BY <1>2, <1>10, <1>13 DEF e
  <2> QED BY <2>1, <2>2
<1>16. ASSUME NEW b \in DelayBits
       PROVE  \/ b \in f.delay <=> b \in g.delay
              \/ b = "RAISE0" /\ Asserted(f)
              \/ b = "D7SET0" /\ "SET" \in f.flags /\ "ACK0" \notin f.delay
  <2>1. CASE L \cap p.mask = {}
    BY <1>13, <2>1
  <2>2. CASE Asserted(e)
    <3>1. b # "RAISE0" /\ b # "D7SET0" => (b \in f.delay <=> b \in g.delay)
      BY <1>1, <1>2, <1>3, <1>6
    <3> QED BY <3>1, <2>2, <1>10
  <2> QED BY <2>1, <2>2 DEF e
<1>17. View(f) = View(g)
  BY <1>2, <1>6, <1>8, <1>9, <1>14, <1>15, <1>16, ViewIs
<1>18. Calm(f)
  BY <1>1, <1>2, <1>10 DEF Calm, e
<1>19. Calm(g)
  BY <1>6 DEF Calm
<1> QED BY <1>17, <1>18, <1>19 DEF e, f, g, m

-----------------------------------------------------------------------------
(* The register of a chip.                                                   *)

\* The ICR was read rdi cycles ago and the register is ifr cycles behind.
Clock(c) ==
  /\ c \in Chip
  /\ c.ifr >= -1
  /\ c.rdi > c.ifr
  /\ "ACK1" \in c.delay <=> c.rdi = c.ifr + 1
  /\ c.irqEnabled <=> c.line # "off"
  /\ c.line = "next" => c.ifr = -1 /\ "RAISE0" \in c.delay

LEMMA RunClock ==
  ASSUME NEW c, Clock(c), c.ifr >= 0
  PROVE  LET d == RunIfrCycle(c) IN
         /\ Clock(d) /\ d.ifr = c.ifr - 1 /\ d.rdi = c.rdi /\ Same(c, d)
         /\ Reg(d) = Elapse(Reg(c)) /\ d.new = {} /\ "ACK1" \notin d.delay
<1> DEFINE acked == IF "ACK0" \notin c.delay THEN c.irqflags
                    ELSE IF model = "old" THEN c.irqflags \ (c.ack \cup {"SET"})
                    ELSE c.irqflags \ c.ack
           late == model = "old" \/ c.rdi = c.ifr + 1
           new == IF c.new \cap c.mask = {} THEN {}
                  ELSE IF late THEN {"RAISE1", "D7SET1"} ELSE {"RAISE0", "D7SET0"}
           delay == c.delay \cup new
           raise == "RAISE0" \in delay
           f == IF "D7SET0" \in delay THEN acked \cup {"SET"} ELSE acked
           k == IF "ACK0" \in c.delay THEN {} ELSE c.ack
           l == IF raise /\ c.line # "on" THEN "on" ELSE c.line
           on == raise \/ c.irqEnabled
           d == Shift(delay)
           i == c.ifr - 1
           w == {}
           q == Reg(c)
<1>a. /\ c \in Chip /\ c.rdi > c.ifr /\ ("ACK1" \in c.delay <=> c.rdi = c.ifr + 1)
      /\ c.irqEnabled <=> c.line # "off"
      /\ c.line # "next"
  BY DEF Clock
<1>1. PICK e \in BOOLEAN : e = on
  BY <1>a DEF Chip
<1> DEFINE r == [c EXCEPT !.irqflags = f, !.ack = k, !.new = w, !.line = l,
                          !.irqEnabled = e, !.delay = d, !.ifr = i]
<1>2. RunIfrCycle(c) = r
  BY <1>1, Zenon DEF RunIfrCycle
<1>3. /\ c.irqflags \in SUBSET Flags /\ c.ack \in SUBSET Flags
      /\ c.line \in {"off", "next", "on"} /\ c.ifr \in Int /\ c.rdi \in Nat
  BY <1>a DEF Chip
<1>4. Same(c, r) /\ r.ifr = c.ifr - 1
  BY <1>a, <1>2, RunIfrCycleFacts
<1>5. "RAISE0" \in Delays(q) <=> raise
  BY <1>a DEF Delays, Reg
<1>6. delay = Delays(q)
  BY <1>a DEF Delays, Reg
<1>7. (e <=> l # "off") /\ l # "next" /\ (l = "on" <=> raise \/ c.line = "on")
  BY <1>1, <1>3, <1>a
<1>8. f = Elapse(q).flags
  BY <1>6 DEF Elapse, Reg
<1>9. k = Elapse(q).ack /\ w = Elapse(q).new /\ d = Elapse(q).delay
  BY <1>6 DEF Elapse, Reg
<1>10. (l = "on") = Elapse(q).on
  BY <1>5, <1>7 DEF Elapse, Reg
<1>11. Elapse(q).mask = c.mask
  BY DEF Elapse, Reg
<1>12. "ACK1" \notin d
  BY ShiftIs
<1> HIDE DEF f, k, l, d, i, w, delay, q, raise
<1>13. /\ r.irqflags = f /\ r.ack = k /\ r.new = w /\ r.line = l /\ r.irqEnabled = e
       /\ r.delay = d /\ r.ifr = i /\ r.rdi = c.rdi /\ r.mask = c.mask
  BY <1>a DEF Chip
<1>14. Reg(r) = [mask |-> c.mask, flags |-> f, new |-> w, ack |-> k, delay |-> d,
                 on |-> l = "on"]
  BY <1>13 DEF Reg
<1>15. r \in Chip /\ c.ifr \in Int
  BY <1>3, <1>4 DEF Same, KeepsA, KeepsB
<1>16. Reg(r) \in Regs /\ Elapse(q) \in Regs
  BY <1>a, <1>15, RegType, ElapseType DEF q
<1>17. Reg(r) = Elapse(q)
  <2>1. /\ Reg(r).mask = c.mask /\ Reg(r).flags = f /\ Reg(r).new = w /\ Reg(r).ack = k
        /\ Reg(r).delay = d /\ Reg(r).on = (l = "on")
    BY <1>14
  <2> QED BY <2>1, <1>8, <1>9, <1>10, <1>11, <1>16, RegEqual
<1>18. Clock(r)
  BY <1>3, <1>4, <1>7, <1>12, <1>13, <1>15, <1>a DEF Clock
<1> QED BY <1>2, <1>4, <1>12, <1>13, <1>17, <1>18 DEF q, w

\* Nothing is on its way in the register.
Still(q) == q.delay = {} /\ q.new = {} /\ q.ack = {}

LEMMA StillElapse ==
  ASSUME NEW q \in Regs, Still(q)
  PROVE  Elapse(q) = q
<1> DEFINE e == Elapse(q)
<1>1. /\ e \in Regs /\ e.mask = q.mask /\ e.new = {}
      /\ e.ack = {}
      /\ e.on <=> q.on
      /\ \A f : f \in e.flags <=> f \in q.flags
      /\ \A b : b \notin e.delay
  BY ElapseIs DEF Still
<1> HIDE DEF e
<1>2. e.flags = q.flags /\ e.delay = {} /\ e.on = q.on
  BY <1>1 DEF Regs
<1>3. e = q
  BY <1>1, <1>2, RegEqual DEF Still
<1> QED BY <1>3 DEF e

\* The register some cycles later.
Drawn(q, n) ==
  LET f[k \in 0 .. n] == IF k = 0 THEN q ELSE Elapse(f[k - 1]) IN f[n]

Draws(f, q, n) == f[0] = q /\ \A i \in 1 .. n : f[i] = Elapse(f[i - 1])

LEMMA DrawnExists ==
  ASSUME NEW q \in Regs, NEW n \in Nat
  PROVE  \E f \in [0 .. n -> Regs] : Draws(f, q, n)
<1> DEFINE S == {m \in Nat : \E f \in [0 .. m -> Regs] : Draws(f, q, m)}
<1>1. 0 \in S
  <2> DEFINE f == [i \in 0 .. 0 |-> q]
  <2>1. f \in [0 .. 0 -> Regs] /\ f[0] = q /\ \A i \in 1 .. 0 : f[i] = Elapse(f[i - 1])
    OBVIOUS
  <2> HIDE DEF f
  <2> QED BY <2>1 DEF Draws
<1>2. ASSUME NEW m \in S PROVE m + 1 \in S
  <2>1. PICK f \in [0 .. m -> Regs] : Draws(f, q, m)
    BY <1>2
  <2> DEFINE g == [i \in 0 .. m + 1 |-> IF i = m + 1 THEN Elapse(f[m]) ELSE f[i]]
  <2>2. Elapse(f[m]) \in Regs
    BY <2>1, ElapseType
  <2>3. g \in [0 .. m + 1 -> Regs]
    BY <2>1, <2>2
  <2>4. g[0] = q /\ \A i \in 1 .. m + 1 : g[i] = Elapse(g[i - 1])
    BY <2>1 DEF Draws
  <2> HIDE DEF g
  <2> QED BY <2>3, <2>4 DEF Draws
<1> HIDE DEF S
<1>3. S = Nat
  <2>1. S \in SUBSET Nat
    BY DEF S
  <2> QED BY <1>1, <1>2, <2>1, Induct
<1> QED BY <1>3 DEF S

LEMMA DrawnIs ==
  ASSUME NEW q \in Regs, NEW n \in Nat
  PROVE  \E f \in [0 .. n -> Regs] : Draws(f, q, n) /\ Drawn(q, n) = f[n]
<1>1. PICK f \in [0 .. n -> Regs] : Draws(f, q, n)
  BY DrawnExists
<1>2. f = [k \in 0 .. n |-> IF k = 0 THEN q ELSE Elapse(f[k - 1])]
  BY <1>1 DEF Draws
<1> DEFINE r == CHOOSE g : g = [k \in 0 .. n |-> IF k = 0 THEN q ELSE Elapse(g[k - 1])]
<1>3. r = [k \in 0 .. n |-> IF k = 0 THEN q ELSE Elapse(r[k - 1])]
  BY <1>2
<1>4. Drawn(q, n) = r[n]
  BY DEF Drawn
<1> HIDE DEF r
<1>5. r[0] = q /\ \A i \in 1 .. n : r[i] = Elapse(r[i - 1])
  BY <1>3
<1> DEFINE S == {m \in Nat : m <= n => r[m] = f[m]}
<1>6. S = Nat
  <2>1. S \in SUBSET Nat
    OBVIOUS
  <2>2. 0 \in S
    BY <1>1, <1>5 DEF Draws
  <2>3. ASSUME NEW m \in S PROVE m + 1 \in S
    <3>1. CASE m + 1 <= n
      <4>1. r[m + 1] = Elapse(r[m]) /\ r[m] = f[m] /\ f[m + 1] = Elapse(f[m])
        BY <1>1, <1>5, <2>3, <3>1 DEF Draws
      <4> QED BY <4>1
    <3>2. CASE ~ (m + 1 <= n)
      BY <3>2
    <3> QED BY <3>1, <3>2
  <2> HIDE DEF S
  <2> QED BY <2>1, <2>2, <2>3, Induct
<1> QED BY <1>1, <1>4, <1>6

\* Two of them agree where both go.
LEMMA DrawsAgree ==
  ASSUME NEW q, NEW n \in Nat, NEW f, Draws(f, q, n), NEW m \in Nat, m >= n, NEW g, Draws(g, q, m)
  PROVE  f[n] = g[n]
<1> DEFINE S == {k \in Nat : k <= n => f[k] = g[k]}
<1>1. S = Nat
  <2>1. S \in SUBSET Nat
    OBVIOUS
  <2>2. 0 \in S
    BY DEF Draws
  <2>3. ASSUME NEW k \in S PROVE k + 1 \in S
    <3>1. CASE k + 1 <= n
      <4>1. f[k + 1] = Elapse(f[k]) /\ g[k + 1] = Elapse(g[k]) /\ f[k] = g[k]
        BY <2>3, <3>1 DEF Draws
      <4> QED BY <4>1
    <3>2. CASE ~ (k + 1 <= n)
      BY <3>2
    <3> QED BY <3>1, <3>2
  <2> HIDE DEF S
  <2> QED BY <2>1, <2>2, <2>3, Induct
<1> QED BY <1>1

LEMMA DrawnNext ==
  ASSUME NEW q \in Regs, NEW n \in Nat
  PROVE  /\ Drawn(q, 0) = q /\ Drawn(q, n) \in Regs
         /\ Drawn(q, n + 1) = Elapse(Drawn(q, n))
         /\ Still(q) => Drawn(q, n) = q
<1>1. PICK f \in [0 .. n -> Regs] : Draws(f, q, n) /\ Drawn(q, n) = f[n]
  BY DrawnIs
<1>2. PICK g \in [0 .. n + 1 -> Regs] : Draws(g, q, n + 1) /\ Drawn(q, n + 1) = g[n + 1]
  <2>1. n + 1 \in Nat
    OBVIOUS
  <2> QED BY <2>1, DrawnIs
<1>3. PICK h \in [0 .. 0 -> Regs] : Draws(h, q, 0) /\ Drawn(q, 0) = h[0]
  BY DrawnIs
<1>4. f[n] = g[n]
  BY <1>1, <1>2, DrawsAgree
<1>5. g[n + 1] = Elapse(g[n])
  BY <1>2 DEF Draws
<1>6. ASSUME Still(q) PROVE f[n] = q
  <2> DEFINE S == {k \in Nat : k <= n => f[k] = q}
  <2>1. S = Nat
    <3>1. S \in SUBSET Nat
      OBVIOUS
    <3>2. 0 \in S
      BY <1>1 DEF Draws
    <3>3. ASSUME NEW k \in S PROVE k + 1 \in S
      <4>1. CASE k + 1 <= n
        <5>1. f[k + 1] = Elapse(f[k]) /\ f[k] = q
          BY <3>3, <4>1, <1>1 DEF Draws
        <5> QED BY <5>1, <1>6, StillElapse
      <4>2. CASE ~ (k + 1 <= n)
        BY <4>2
      <4> QED BY <4>1, <4>2
    <3> HIDE DEF S
    <3> QED BY <3>1, <3>2, <3>3, Induct
  <2> QED BY <2>1
<1> QED BY <1>1, <1>2, <1>3, <1>4, <1>5, <1>6 DEF Draws

LEMMA StillChip ==
  ASSUME NEW c \in Chip
  PROVE  Still(Reg(c)) <=> c.delay \cup c.new \cup c.ack = {}
BY DEF Still, Reg

LEMMA CyclesDrawn ==
  ASSUME NEW c, Clock(c), c.ifr > 0
  PROVE  LET d == IfrCycles(c) IN
         /\ Clock(d) /\ d.rdi = c.rdi /\ Same(c, d) /\ Reg(d) = Drawn(Reg(c), c.ifr)
         /\ d.ifr >= 0 /\ "ACK1" \notin d.delay /\ d.line # "next"
<1>0. c \in Chip /\ c.ifr \in Nat /\ Reg(c) \in Regs /\ c.rdi > c.ifr
  BY RegType DEF Clock, Chip
<1>1. PICK f \in [0 .. c.ifr -> Chip] :
        f[0] = c /\ \A i \in 1 .. c.ifr : f[i] = IfrRound(f[i - 1])
  BY <1>0, IfrRounds
<1>2. f = [k \in 0 .. c.ifr |-> IF k = 0 THEN c ELSE IfrRound(f[k - 1])]
  BY <1>1
<1> DEFINE r == CHOOSE g : g = [k \in 0 .. c.ifr |-> IF k = 0 THEN c ELSE IfrRound(g[k - 1])]
<1>3. r = [k \in 0 .. c.ifr |-> IF k = 0 THEN c ELSE IfrRound(r[k - 1])]
  BY <1>2
<1>4. IfrCycles(c) = r[c.ifr]
  BY DEF IfrCycles
<1> HIDE DEF r
<1>5. r[0] = c /\ \A i \in 1 .. c.ifr : r[i] = IfrRound(r[i - 1])
  BY <1>0, <1>3
<1>6. PICK h \in [0 .. c.ifr -> Regs] : Draws(h, Reg(c), c.ifr) /\ Drawn(Reg(c), c.ifr) = h[c.ifr]
  BY <1>0, DrawnIs
<1> DEFINE P(m) ==
             /\ Clock(r[m]) /\ r[m].rdi = c.rdi /\ Same(c, r[m]) /\ Reg(r[m]) = h[m]
             /\ r[m].ifr >= 0
             /\ r[m].ifr = c.ifr - m \/ Still(Reg(r[m]))
             /\ m > 0 => "ACK1" \notin r[m].delay
           S == {m \in Nat : m <= c.ifr => P(m)}
<1>7. S = Nat
  <2>1. S \in SUBSET Nat
    OBVIOUS
  <2>2. 0 \in S
    <3>1. Same(c, c)
      BY <1>0 DEF Same, KeepsA, KeepsB
    <3>2. r[0] = c /\ h[0] = Reg(c)
      BY <1>5, <1>6 DEF Draws
    <3>3. P(0)
      BY <3>1, <3>2, <1>0
    <3> QED BY <3>3
  <2>3. ASSUME NEW m \in S PROVE m + 1 \in S
    <3>1. CASE m + 1 <= c.ifr
      <4> DEFINE a == r[m]
      <4>1. m < c.ifr /\ P(m)
        BY <2>3, <3>1, <1>0
      <4>2. r[m + 1] = IfrRound(a) /\ h[m + 1] = Elapse(h[m])
        BY <3>1, <4>1, <1>5, <1>6 DEF Draws
      <4>3. a \in Chip /\ a.ifr \in Int
        BY <4>1 DEF Clock, Chip
      <4>4. CASE Still(Reg(a))
        <5>1. IfrRound(a) = a
          BY <4>3, <4>4, StillChip DEF IfrRound
        <5>2. Elapse(Reg(a)) = Reg(a)
          BY <4>3, <4>4, StillElapse, RegType
        <5>3. "ACK1" \notin a.delay
          BY <4>4 DEF Still, Reg
        <5>4. P(m + 1)
          BY <5>1, <5>2, <5>3, <4>1, <4>2, <4>4
        <5> QED BY <5>4
      <4>5. CASE ~ Still(Reg(a))
        <5>1. a.ifr = c.ifr - m /\ a.ifr > 0
          BY <4>1, <4>5, <1>0
        <5>2. IfrRound(a) = RunIfrCycle(a)
          BY <4>3, <4>5, <5>1, StillChip DEF IfrRound
        <5> DEFINE d == RunIfrCycle(a)
        <5>3. /\ Clock(d) /\ d.ifr = a.ifr - 1 /\ d.rdi = a.rdi /\ Same(a, d)
              /\ Reg(d) = Elapse(Reg(a)) /\ "ACK1" \notin d.delay
          BY <4>1, <5>1, RunClock
        <5> HIDE DEF d
        <5>4. r[m + 1] = d
          BY <4>2, <5>2 DEF d
        <5>5. Same(c, d)
          BY <4>1, <5>3 DEF Same, KeepsA, KeepsB
        <5>6. d.ifr = c.ifr - (m + 1) /\ d.ifr >= 0
          BY <5>1, <5>3, <1>0, <4>1
        <5>7. P(m + 1)
          BY <5>3, <5>4, <5>5, <5>6, <4>1, <4>2
        <5> QED BY <5>7
      <4> QED BY <4>4, <4>5
    <3>2. CASE ~ (m + 1 <= c.ifr)
      BY <3>2
    <3> QED BY <3>1, <3>2
  <2> HIDE DEF S
  <2> QED BY <2>1, <2>2, <2>3, Induct
<1>8. P(c.ifr)
  BY <1>0, <1>7
<1>9. r[c.ifr].line # "next"
  BY <1>8 DEF Clock
<1> QED BY <1>0, <1>4, <1>6, <1>8, <1>9

\* The register with the cycles drawn that have passed (cia_ifr_catchup).
Past(c) == Reg(IfrCatchup(c))

LEMMA CatchupClock ==
  ASSUME NEW c, Clock(c)
  PROVE  LET d == IfrCatchup(c) IN
         /\ Clock(d) /\ d.rdi = c.rdi /\ Same(c, d)
         /\ d.ifr = IF c.ifr > 0 THEN 0 ELSE c.ifr
         /\ c.ifr <= 0 => d = c
         /\ c.ifr > 0 => "ACK1" \notin d.delay
         /\ Past(c) \in Regs /\ Past(c) = Drawn(Reg(c), IF c.ifr > 0 THEN c.ifr ELSE 0)
<1>1. c \in Chip /\ c.ifr \in Int /\ c.rdi \in Nat /\ c.rdi > c.ifr
  BY DEF Clock, Chip
<1>2. CASE c.ifr > 0
  <2> DEFINE d == IfrCycles(c)
             z == 0
  <2>1. /\ Clock(d) /\ d.rdi = c.rdi /\ Same(c, d) /\ Reg(d) = Drawn(Reg(c), c.ifr)
        /\ d.ifr >= 0 /\ "ACK1" \notin d.delay /\ d.line # "next"
    BY <1>2, CyclesDrawn
  <2>2. IfrCatchup(c) = [d EXCEPT !.ifr = z]
    BY <1>2 DEF IfrCatchup
  <2> HIDE DEF d
  <2> DEFINE e == [d EXCEPT !.ifr = z]
  <2>3. d \in Chip /\ z \in Int
    BY <2>1 DEF Clock
  <2> HIDE DEF z
  <2>4. /\ e \in Chip /\ e.ifr = z /\ e.rdi = d.rdi /\ e.delay = d.delay /\ e.line = d.line
        /\ e.irqEnabled = d.irqEnabled /\ e.idle = d.idle /\ KeepsA(d, e) /\ KeepsB(d, e)
    BY <2>3 DEF Chip, KeepsA, KeepsB
  <2>5. Reg(e) = Reg(d)
    BY <2>3 DEF Chip, Reg
  <2> HIDE DEF e
  <2>6. z = 0 /\ c.rdi > 1
    BY <1>1, <1>2 DEF z
  <2>7. Clock(e)
    BY <2>1, <2>4, <2>6, <1>1 DEF Clock
  <2>8. Same(c, e)
    BY <2>1, <2>4 DEF Same, KeepsA, KeepsB
  <2>9. Past(c) = Reg(e)
    BY <2>2 DEF Past, e
  <2>10. Reg(e) \in Regs
    BY <2>4, RegType
  <2>11. IfrCatchup(c) = e /\ e.rdi = c.rdi /\ e.ifr = 0 /\ "ACK1" \notin e.delay
    BY <2>1, <2>2, <2>4, <2>6 DEF e
  <2>12. Past(c) \in Regs /\ Past(c) = Drawn(Reg(c), c.ifr) /\ ~ (c.ifr <= 0)
    BY <2>1, <2>5, <2>9, <2>10, <1>1, <1>2
  <2> QED BY <1>2, <2>7, <2>8, <2>11, <2>12
<1>3. CASE ~ (c.ifr > 0)
  <2>1. IfrCatchup(c) = c
    BY <1>3 DEF IfrCatchup
  <2>2. Past(c) = Reg(c) /\ Reg(c) \in Regs
    BY <2>1, <1>1, RegType DEF Past
  <2>3. Drawn(Reg(c), 0) = Reg(c)
    BY <2>2, DrawnNext
  <2> QED BY <1>1, <1>3, <2>1, <2>2, <2>3 DEF Same, KeepsA, KeepsB
<1> QED BY <1>2, <1>3

-----------------------------------------------------------------------------
(* The underflows of a timer that nobody has computed yet.                   *)

\* A timer that will not count.
Idle(t) ==
  /\ "COUNT2" \notin t /\ "COUNT3" \notin t /\ "STEP" \notin t
  /\ "START" \notin t \/ "PHI2IN" \notin t

LEMMA IdleCycle ==
  ASSUME NEW tm \in Timer, Idle(tm.bits)
  PROVE  ~ Underflows(Increment(tm)) /\ Cycle(tm) \in Timer /\ Idle(Cycle(tm).bits)
<1>1. tm.bits \in SUBSET Bits
  BY DEF Timer
<1>2. "COUNT3" \notin Increment(tm).bits
  BY <1>1, IncrementFacts, PipelineBits DEF Idle
<1>3. ~ Underflows(Increment(tm))
  BY <1>2 DEF Underflows
<1>4. Cycle(tm) \in Timer
  BY CycleFacts
<1>5. Idle(Cycle(tm).bits)
  BY <1>3, QuietCycle DEF Idle
<1> QED BY <1>3, <1>4, <1>5

LEMMA IdleNever ==
  ASSUME NEW tm \in Timer, Idle(tm.bits)
  PROVE  NextUnderflow(tm) = Never
<1>1. ASSUME NEW a \in Timer, Idle(a.bits) PROVE Walk(a) \in Timer /\ Idle(Walk(a).bits)
  BY <1>1, IdleCycle DEF Walk
<1> DEFINE a == Walk(tm)
           b == Walk(a)
           c == Walk(b)
           d == Walk(c)
<1>2. a \in Timer /\ Idle(a.bits)
  BY <1>1
<1> HIDE DEF a
<1>3. b \in Timer /\ Idle(b.bits)
  BY <1>1, <1>2
<1> HIDE DEF b
<1>4. c \in Timer /\ Idle(c.bits)
  BY <1>1, <1>3
<1> HIDE DEF c
<1>5. d \in Timer /\ Idle(d.bits)
  BY <1>1, <1>4
<1>6. d = Walk(Walk(Walk(Walk(tm))))
  BY DEF a, b, c, d
<1> HIDE DEF d
<1>7. WalkEnds(d)
  BY <1>6, WalkIsShort
<1>8. ~ Underflows(Increment(d))
  BY <1>5, IdleCycle
<1>9. ~ WarpCounting(d.bits)
  BY <1>5 DEF WarpCounting, Counting, Idle
<1>10. WarpStopped(d.bits)
  BY <1>7, <1>8, <1>9 DEF WalkEnds
<1> QED BY <1>6, <1>9, <1>10, FourSteps

\* A timer that will not underflow does not in the next cycle nor after it.
LEMMA NeverCycle ==
  ASSUME NEW tm \in Timer, NextUnderflow(tm) = Never
  PROVE  /\ ~ Underflows(Increment(tm)) /\ Cycle(tm).n = tm.n
         /\ NextUnderflow(Cycle(tm)) = Never
<1>0. tm.cnt \in Nat /\ tm.bits \in SUBSET Bits
  BY TimerConstants DEF Timer
<1>1. CASE ~ WalkEnds(tm)
  <2>1. ~ Underflows(Increment(tm))
    BY <1>1 DEF WalkEnds
  <2>2. NextUnderflow(Cycle(tm)) = Never
    <3>1. NextUnderflow(Cycle(tm)) # Never => NextUnderflow(tm) = NextUnderflow(Cycle(tm)) + 1
      BY <1>1, UnderflowNears
    <3> DEFINE v == NextUnderflow(Cycle(tm))
    <3>2. v \in (Nat \ {0}) \cup {Never}
      <4>1. Cycle(tm) \in Timer /\ ("COUNT3" \in Cycle(tm).bits => Cycle(tm).cnt > 0)
        BY CycleFacts
      <4> QED BY <4>1, UnderflowType
    <3> HIDE DEF v
    <3>3. v # Never => NextUnderflow(tm) = v + 1
      BY <3>1 DEF v
    <3>4. v = Never
      BY <3>2, <3>3 DEF Never
    <3> QED BY <3>4 DEF v
  <2> QED BY <2>1, <2>2, CycleFacts
<1>2. CASE WalkEnds(tm)
  <2>1. ~ WarpCounting(tm.bits) /\ WarpStopped(tm.bits)
    BY <1>0, <1>2, UnderflowEnds DEF Never
  <2>2. /\ "COUNT2" \notin tm.bits /\ "COUNT3" \notin tm.bits
        /\ "START" \notin tm.bits \/ ("PHI2IN" \notin tm.bits /\ "STEP" \notin tm.bits)
    BY <2>1 DEF WarpStopped, Counting
  <2>3. "COUNT3" \notin Increment(tm).bits
    BY <1>0, <2>2, IncrementFacts, PipelineBits
  <2>4. ~ Underflows(Increment(tm))
    BY <2>3 DEF Underflows
  <2>5. Cycle(tm) \in Timer
    BY CycleFacts
  <2>6. Idle(Cycle(tm).bits)
    BY <2>2, <2>4, QuietCycle DEF Idle
  <2>7. NextUnderflow(Cycle(tm)) = Never
    BY <2>5, <2>6, IdleNever
  <2> QED BY <2>4, <2>7, CycleFacts
<1> QED BY <1>1, <1>2

LEMMA NeverRound ==
  ASSUME NEW tm, Sound(tm), tm.lag > 0, NextUnderflow(tm) = Never
  PROVE  Round(tm).n = tm.n /\ NextUnderflow(Round(tm)) = Never
<1> DEFINE a == Advance(tm)
<1>0. tm \in Timer /\ tm.lag \in Nat /\ tm.bits \in SUBSET Bits /\ tm.cnt \in Nat /\ tm.n \in Nat
  BY TimerConstants DEF Timer, Sound
<1>1. Round(tm) = Settle(a)
  BY DEF Round
<1>2. ~ WarpCounting(tm.bits)
  <2>1. WarpCounting(tm.bits) => NextUnderflow(tm) = tm.cnt
    BY <1>0, UnderflowEnds DEF WalkEnds
  <2> QED BY <1>0, <2>1 DEF Never
<1>3. CASE WarpStopped(tm.bits) /\ tm.bits \cap {"FLOAD", "LOAD1", "LOAD"} = {}
  <2> DEFINE z == 0
             b == [tm EXCEPT !.lag = z]
  <2>1. a = b
    BY <1>2, <1>3 DEF Advance
  <2>2. z \in Int
    OBVIOUS
  <2> HIDE DEF z
  <2>3. b \in Timer /\ b.bits = tm.bits /\ b.cnt = tm.cnt /\ b.latch = tm.latch /\ b.n = tm.n
    BY <1>0, <2>2 DEF Timer
  <2> HIDE DEF a, b
  <2>4. "OUT" \notin b.bits /\ "COUNT3" \notin b.bits /\ "LOAD" \notin b.bits
    BY <1>3, <2>3 DEF Sound, WarpStopped, Counting
  <2>5. ~ Underflows(b)
    BY <2>4 DEF Underflows
  <2>6. Settle(b).bits = b.bits /\ Settle(b).cnt = b.cnt
    BY <2>3, <2>4, <2>5, QuietSettle
  <2>7. Settle(b) \in Timer /\ Settle(b).latch = b.latch /\ Settle(b).n = b.n
    BY <2>3, <2>5, SettleFacts
  <2>8. Alike(Settle(b), tm)
    BY <2>3, <2>6, <2>7 DEF Alike
  <2>9. NextUnderflow(Settle(b)) = NextUnderflow(tm)
    BY <1>0, <2>7, <2>8, AlikeUnderflow
  <2> QED BY <1>1, <2>1, <2>3, <2>7, <2>9
<1>4. CASE ~ (WarpStopped(tm.bits) /\ tm.bits \cap {"FLOAD", "LOAD1", "LOAD"} = {})
  <2>1. ~ WarpByTwo(tm)
    <3> SUFFICES ASSUME WarpByTwo(tm) PROVE FALSE
      OBVIOUS
    <3> DEFINE c == Cycle(tm)
    <3>1. tm.bits = Pulse /\ tm.cnt = 1 /\ tm.latch = 1
      BY DEF WarpByTwo, Pulse
    <3>2. Close(c, tm, Full, 1, tm.n, tm.lag - 1)
      BY <1>0, <3>1, PulseCycle
    <3>3. c \in Timer /\ c.cnt = 1 /\ {"START", "COUNT2", "COUNT3"} \subseteq c.bits
      BY <3>2 DEF Close, Shape, Full
    <3>4. NextUnderflow(c) = Never
      BY <1>0, NeverCycle
    <3> HIDE DEF c
    <3>5. ~ Underflows(Increment(c))
      BY <3>3, <3>4, NeverCycle
    <3>6. Increment(c).cnt = 0 /\ "COUNT3" \in Increment(c).bits
      <4>1. c.bits \in SUBSET Bits
        BY <3>3 DEF Timer
      <4> QED BY <3>3, <4>1, IncrementFacts, PipelineBits
    <3> QED BY <3>5, <3>6 DEF Underflows
  <2>2. a = Increment(tm)
    BY <1>2, <1>4, <2>1 DEF Advance
  <2>3. Round(tm) = Cycle(tm)
    BY <1>1, <2>2 DEF Cycle
  <2> QED BY <1>0, <2>3, NeverCycle
<1> QED BY <1>3, <1>4

LEMMA NeverCatchUp ==
  ASSUME NEW tm, Sound(tm), NextUnderflow(tm) = Never
  PROVE  CatchUp(tm).n = tm.n /\ NextUnderflow(CatchUp(tm)) = Never
<1>1. tm \in Sounds /\ tm.lag \in Nat
  BY DEF Sounds, Sound
<1>2. PICK r : r[0] = tm /\ (\A i \in 1 .. tm.lag : r[i] = Round(r[i - 1])) /\ CatchUp(tm) = r[tm.lag]
  BY <1>1, CatchUpRounds
<1> DEFINE P(m) == Sound(r[m]) /\ r[m].n = tm.n /\ NextUnderflow(r[m]) = Never
           S == {m \in Nat : m <= tm.lag => P(m)}
<1>3. P(0)
  BY <1>2
<1>4. ASSUME NEW m \in S PROVE m + 1 \in S
  <2> SUFFICES ASSUME m + 1 <= tm.lag PROVE P(m + 1)
    OBVIOUS
  <2>1. r[m + 1] = Round(r[m]) /\ P(m)
    BY <1>1, <1>2, <1>4
  <2> DEFINE a == r[m]
  <2>2. Sound(a) /\ a.n = tm.n /\ NextUnderflow(a) = Never /\ a.lag \in Nat
    BY <2>1 DEF Sound
  <2> HIDE DEF a
  <2>3. CASE a.lag > 0
    <3>1. Sound(Round(a)) /\ Round(a).n = a.n /\ NextUnderflow(Round(a)) = Never
      BY <2>2, <2>3, RoundFacts, NeverRound
    <3> QED BY <2>1, <2>2, <3>1 DEF a
  <2>4. CASE ~ (a.lag > 0)
    <3>1. Round(a) = a
      BY <2>4 DEF Round
    <3> QED BY <2>1, <2>2, <3>1 DEF a
  <2> QED BY <2>3, <2>4
<1> HIDE DEF P
<1>5. S = Nat
  <2>1. S \in SUBSET Nat /\ 0 \in S
    BY <1>3
  <2> HIDE DEF S
  <2> QED BY <1>4, <2>1, Induct
<1>6. P(tm.lag)
  BY <1>1, <1>5
<1> QED BY <1>2, <1>6 DEF P

\* The underflows that have not been told.
Owes(t) == Update(t).n > 0

\* A timer's underflow is where its alarm is.
Watched(t) == t.due = Never => NextUnderflow(t) = Never

LEMMA OwesFacts ==
  ASSUME NEW t, Sound(t), Kept(t)
  PROVE  /\ t.lag = 0 => ~ Owes(t)
         /\ t.due = 0 => Update(t).n = 1
         /\ t.due # 0 /\ (t.due # Never \/ Watched(t)) => ~ Owes(t)
         /\ Watched(t) => Watched(Update(t))
         /\ ~ Owes(t) => Update(t).n = 0
<1> DEFINE v == [t EXCEPT !.n = 0]
           c == CatchUp(v)
<1>1. /\ Sound(v) /\ v.n = 0 /\ v.bits = t.bits /\ v.cnt = t.cnt /\ v.latch = t.latch
      /\ v.lag = t.lag /\ v.due = t.due
  BY Told
<1>2. Update(t) = c
  BY DEF Update
<1> HIDE DEF v
<1>3. Sound(c) /\ c.due = t.due /\ (t.lag = 0 => c = v)
  BY <1>1, CatchUpFacts
<1>4. NextUnderflow(v) = NextUnderflow(t)
  <2>1. Alike(v, t) /\ v \in Timer /\ t \in Timer
    BY <1>1 DEF Alike, Sound
  <2> QED BY <2>1, AlikeUnderflow
<1>5. NextUnderflow(t) = Never => c.n = 0 /\ NextUnderflow(c) = Never
  BY <1>1, <1>4, NeverCatchUp
<1>6. t.due # Never => c.n = IF t.due = 0 THEN 1 ELSE 0
  BY <1>2, UpdateFacts
<1> HIDE DEF c
<1>7. c.n \in Nat
  BY <1>3 DEF Sound, Timer
<1>8. t.lag = 0 => c.n = 0
  BY <1>1, <1>3
<1>9. Watched(t) => Watched(c)
  BY <1>3, <1>5 DEF Watched
<1>10. t.due # 0 /\ (t.due # Never \/ Watched(t)) => c.n = 0
  BY <1>5, <1>6 DEF Watched
<1>11. t.due = 0 => c.n = 1
  BY <1>6 DEF Never
<1> QED BY <1>2, <1>7, <1>8, <1>9, <1>10, <1>11 DEF Owes

\* A timer of one cycle ago owes what the cycle adds, as the chip counts it.
LEMMA OwesOlder ==
  ASSUME NEW t, Sound(t), "STEP" \notin t.bits, NEW u, Sound(u), Alike(u, t), u.lag = t.lag + 1,
         NEW s \in Timer, s.n = 0,
         Sight(t) = [bits |-> Shape(s.bits), cnt |-> s.cnt, latch |-> s.latch]
  PROVE  Update(u).n = Update(t).n + Cycle(s).n /\ Cycle(s).n \in {0, 1}
<1> DEFINE v == [t EXCEPT !.n = 0]
           w == [u EXCEPT !.n = 0]
           x == Cycles(v)
           y == Cycles(w)
<1>1. /\ Sound(v) /\ v.n = 0 /\ v.bits = t.bits /\ v.cnt = t.cnt /\ v.latch = t.latch
      /\ v.lag = t.lag
  BY Told
<1>2. /\ Sound(w) /\ w.n = 0 /\ w.bits = u.bits /\ w.cnt = u.cnt /\ w.latch = u.latch
      /\ w.lag = u.lag
  BY Told
<1>3. Update(t) = CatchUp(v) /\ Update(u) = CatchUp(w)
  BY DEF Update
<1>4. Sight(t) = [bits |-> Shape(x.bits), cnt |-> x.cnt, latch |-> x.latch]
  BY DEF Sight, Seen
<1> HIDE DEF v, w
<1>5. x.n = CatchUp(v).n
  <2>1. ~ Stalled(v)
    BY <1>1 DEF Stalled
  <2> QED BY <1>1, <2>1, JumpsAreExact DEF At, Close
<1>6. y.n = CatchUp(w).n
  <2>1. ~ Stalled(w)
    BY <1>2 DEF Stalled, Alike
  <2> QED BY <1>2, <2>1, JumpsAreExact DEF At, Close
<1>7. x \in Timer /\ y.n = Cycle(x).n
  <2>1. v \in Timer /\ w \in Timer /\ v.lag \in Nat
    BY <1>1, <1>2 DEF Sound
  <2>2. Alike(w, v) /\ w.n = v.n /\ w.lag = v.lag + 1
    BY <1>1, <1>2 DEF Alike
  <2> QED BY <2>1, <2>2, OneMore
<1> HIDE DEF x, y
<1>8. Like(x, s)
  BY <1>4 DEF Like
<1>9. Cycle(x).n - x.n = Cycle(s).n - s.n /\ Cycle(x).n - x.n \in {0, 1} /\ Cycle(x) \in Timer
      /\ Cycle(s) \in Timer
  BY <1>7, <1>8, LikeCycle
<1>10. Cycle(x).n \in Nat /\ x.n \in Nat /\ Cycle(s).n \in Nat
  BY <1>7, <1>9 DEF Timer
<1> QED BY <1>3, <1>5, <1>6, <1>7, <1>9, <1>10

-----------------------------------------------------------------------------
(* What the handlers do to the interrupts.                                   *)

\* The interrupt register is left alone.
SameIrq(c, d) ==
  Reg(d) = Reg(c) /\ d.ifr = c.ifr /\ d.rdi = c.rdi /\ d.line = c.line /\ d.irqEnabled = c.irqEnabled

LEMMA SameIrqClock ==
  ASSUME NEW c, Clock(c), NEW d \in Chip, SameIrq(c, d)
  PROVE  Clock(d) /\ Past(d) = Past(c)
<1>1. d.delay = c.delay
  BY DEF SameIrq, Reg
<1>2. Clock(d)
  BY <1>1 DEF Clock, SameIrq
<1>3. Past(d) = Past(c)
  BY <1>2, CatchupClock DEF SameIrq
<1> QED BY <1>2, <1>3

LEMMA SameIrqPut ==
  ASSUME NEW c \in Chip, NEW t \in Timer, NEW k \in 0 .. 1
  PROVE  /\ SameIrq(c, [c EXCEPT !.ta = t]) /\ SameIrq(c, [c EXCEPT !.tb = t])
         /\ SameIrq(c, [c EXCEPT !.tat = k]) /\ SameIrq(c, [c EXCEPT !.tbt = k])
BY DEF SameIrq, Reg, Chip

LEMMA SameIrqTrans ==
  ASSUME NEW c, NEW d, NEW e, SameIrq(c, d), SameIrq(d, e)
  PROVE  SameIrq(c, e)
BY DEF SameIrq

\* An underflow is told to the register of the present (cia_set_irq_flag).
LEMMA FlagTold ==
  ASSUME NEW c, Clock(c), NEW x \in {"TA", "TB"}
  PROVE  LET e == SetIrqFlag(c, {x}) IN
         /\ Clock(e) /\ Same(c, e) /\ e.rdi = c.rdi
         /\ e.ifr = IF c.ifr > 0 THEN 0 ELSE c.ifr
         /\ e.mask = Past(c).mask /\ e.irqflags = Past(c).flags \cup {x}
         /\ e.new = Past(c).new \cup {x} /\ e.ack = Past(c).ack \ {x}
         /\ e.delay = Past(c).delay /\ (e.line = "on" <=> Past(c).on)
<1> DEFINE h == IfrCatchup(c)
           s == {x}
           f == h.irqflags \cup s
           n == h.new \cup s
           k == h.ack \ s
           e == [h EXCEPT !.irqflags = f, !.new = n, !.ack = k]
<1>1. /\ Clock(h) /\ h.rdi = c.rdi /\ Same(c, h)
      /\ h.ifr = IF c.ifr > 0 THEN 0 ELSE c.ifr
  BY CatchupClock
<1>2. SetIrqFlag(c, s) = e
  BY Zenon DEF SetIrqFlag
<1>3. Past(c) = Reg(h)
  BY DEF Past
<1> HIDE DEF h
<1>4. h \in Chip
  BY <1>1 DEF Clock
<1>5. f \in SUBSET Flags /\ n \in SUBSET Flags /\ k \in SUBSET Flags
  BY <1>4 DEF Chip, Flags
<1> HIDE DEF f, n, k
<1>6. /\ e \in Chip /\ e.irqflags = f /\ e.new = n /\ e.ack = k /\ e.mask = h.mask
      /\ e.delay = h.delay /\ e.line = h.line /\ e.irqEnabled = h.irqEnabled /\ e.ifr = h.ifr
      /\ e.rdi = h.rdi /\ e.idle = h.idle /\ KeepsA(h, e) /\ KeepsB(h, e)
  BY <1>4, <1>5 DEF Chip, KeepsA, KeepsB
<1> HIDE DEF e
<1>7. Clock(e)
  BY <1>1, <1>6 DEF Clock
<1>8. Same(c, e)
  BY <1>1, <1>6 DEF Same, KeepsA, KeepsB
<1>9. /\ e.mask = Reg(h).mask /\ e.irqflags = Reg(h).flags \cup s
      /\ e.new = Reg(h).new \cup s /\ e.ack = Reg(h).ack \ s
      /\ e.delay = Reg(h).delay /\ (e.line = "on" <=> Reg(h).on)
  BY <1>6 DEF Reg, f, n, k
<1> QED BY <1>1, <1>2, <1>3, <1>6, <1>7, <1>8, <1>9

\* The bug of timer B as the register of the present shows it.
LEMMA BugShows ==
  ASSUME NEW c, Clock(c), c.ifr >= 0 \/ c.rdi >= 2
  PROVE  /\ Bug(Past(c)) <=> TimerBBug(c)
         /\ c.rdi >= 2 => ~ Bug(Past(c))
<1>1. c \in Chip /\ c.ifr \in Int /\ c.rdi \in Nat /\ c.rdi > c.ifr /\ c.ifr >= -1
      /\ ("ACK1" \in c.delay <=> c.rdi = c.ifr + 1)
  BY DEF Clock, Chip
<1>2. Past(c).delay = IfrCatchup(c).delay
  BY DEF Past, Reg
<1>3. CASE c.ifr > 0
  <2>1. "ACK1" \notin Past(c).delay
    BY <1>2, <1>3, CatchupClock
  <2> QED BY <1>1, <1>3, <2>1 DEF Bug, TimerBBug
<1>4. CASE c.ifr <= 0
  <2>1. Past(c).delay = c.delay
    BY <1>2, <1>4, CatchupClock
  <2> QED BY <1>1, <1>4, <2>1 DEF Bug, TimerBBug
<1> QED BY <1>1, <1>3, <1>4

\* A chip whose register is told of x.
Tolds(c, d, x) ==
  /\ Clock(d) /\ d.rdi = c.rdi /\ d.ifr = (IF c.ifr > 0 THEN 0 ELSE c.ifr)
  /\ Reg(d) = Mark(Past(c), {x}) /\ Past(d) = Reg(d)

LEMMA TaTold ==
  ASSUME NEW c, Clock(c), Sound(c.ta)
  PROVE  LET d == DoUpdateTa(c) IN
         /\ ~ Owes(c.ta) => SameIrq(c, d)
         /\ Owes(c.ta) => Tolds(c, d, "TA")
<1> DEFINE z == 0
           s == Update(c.ta)
           t == [s EXCEPT !.n = z]
           d == [c EXCEPT !.ta = t]
           f == {"TA"}
           e == SetIrqFlag(d, f)
           p == (e.tat + s.n) % 2
           g == [e EXCEPT !.tat = p]
<1>1. DoUpdateTa(c) = IF s.n = 0 THEN d ELSE g
  BY Zenon DEF DoUpdateTa, TaUpdated
<1>2. Computed(c.ta, t) /\ Sound(s)
  BY ComputedFacts, UpdateFacts
<1>3. t \in Timer /\ s.n \in Nat /\ c \in Chip
  BY <1>2 DEF Computed, Sound, Timer, Clock
<1>4. Owes(c.ta) <=> s.n > 0
  BY DEF Owes
<1> HIDE DEF t, s
<1>5. SameIrq(c, d) /\ d \in Chip
  <2>1. 0 \in 0 .. 1
    OBVIOUS
  <2> QED BY <1>3, <2>1, SameIrqPut, TimerPut
<1> HIDE DEF d
<1>6. Clock(d) /\ Past(d) = Past(c)
  BY <1>5, SameIrqClock
<1>7. CASE s.n = 0
  BY <1>1, <1>3, <1>4, <1>5, <1>7
<1>8. CASE s.n # 0
  <2>1. /\ Clock(e) /\ e.rdi = d.rdi
        /\ e.ifr = IF d.ifr > 0 THEN 0 ELSE d.ifr
        /\ e.mask = Past(d).mask /\ e.irqflags = Past(d).flags \cup f
        /\ e.new = Past(d).new \cup f /\ e.ack = Past(d).ack \ f
        /\ e.delay = Past(d).delay /\ (e.line = "on" <=> Past(d).on)
    BY <1>6, FlagTold
  <2> HIDE DEF e
  <2>2. e \in Chip /\ e.tat \in 0 .. 1
    BY <2>1 DEF Clock, Chip
  <2>3. p \in 0 .. 1
    BY <1>3, <2>2
  <2> HIDE DEF p
  <2>4. g \in Chip /\ SameIrq(e, g)
    BY <2>2, <2>3, SameIrqPut DEF Chip
  <2> HIDE DEF g
  <2>5. Clock(g) /\ g.ifr = e.ifr /\ g.rdi = e.rdi /\ Reg(g) = Reg(e)
    BY <2>1, <2>4, SameIrqClock DEF SameIrq
  <2>6. Past(c) \in Regs
    BY CatchupClock
  <2>7. Reg(e) = Mark(Past(c), f)
    <3> DEFINE q == Past(c)
               m == Mark(q, f)
    <3>1. q \in Regs /\ f \in SUBSET {"TA", "TB"}
      BY <2>6
    <3>2. /\ m \in Regs /\ m.mask = q.mask /\ m.new = q.new \cup f
          /\ m.ack = q.ack \ f /\ m.delay = q.delay /\ m.on = q.on
          /\ \A b : b \in m.flags <=>
              \/ b \in f
              \/ b # "TBB" /\ b \in q.flags
              \/ b = "TBB" /\ IF "TB" \in f THEN Bug(q) ELSE b \in q.flags
      <4> HIDE DEF q
      <4> QED BY <3>1, MarkType
    <3> HIDE DEF m
    <3>3. m.flags = q.flags \cup f
      BY <3>2
    <3>4. Reg(e) \in Regs
      BY <2>2, RegType
    <3>5. /\ Reg(e).mask = q.mask /\ Reg(e).flags = q.flags \cup f /\ Reg(e).new = q.new \cup f
          /\ Reg(e).ack = q.ack \ f /\ Reg(e).delay = q.delay /\ (Reg(e).on <=> q.on)
      BY <1>6, <2>1 DEF Reg
    <3> HIDE DEF q, f
    <3>6. Reg(e).on = m.on
      BY <3>1, <3>2, <3>4, <3>5 DEF Regs
    <3>7. Reg(e) = m
      BY <3>2, <3>3, <3>4, <3>5, <3>6, RegEqual
    <3> QED BY <3>7 DEF m, q
  <2>8. g.ifr = IF c.ifr > 0 THEN 0 ELSE c.ifr
    BY <1>5, <2>1, <2>5 DEF SameIrq
  <2>9. IfrCatchup(g) = g
    <3>1. g.ifr <= 0
      BY <1>3, <2>8 DEF Chip
    <3> QED BY <2>5, <3>1, CatchupClock
  <2>10. Tolds(c, g, "TA")
    BY <1>5, <2>1, <2>5, <2>7, <2>8, <2>9 DEF Tolds, Past, SameIrq
  <2> QED BY <1>1, <1>3, <1>4, <1>8, <2>10
<1> QED BY <1>7, <1>8

LEMMA TbTold ==
  ASSUME NEW c, Clock(c), Sound(c.tb), c.ifr >= 0 \/ c.rdi >= 2
  PROVE  LET d == DoUpdateTb(c) IN
         /\ ~ Owes(c.tb) => SameIrq(c, d)
         /\ Owes(c.tb) => Tolds(c, d, "TB")
<1> DEFINE z == 0
           s == Update(c.tb)
           t == [s EXCEPT !.n = z]
           d == [c EXCEPT !.tb = t]
           f == {"TB"}
           e == SetIrqFlag(d, f)
           q1 == IF TimerBBug(c) THEN e.irqflags \cup {"TBB"} ELSE e.irqflags \ {"TBB"}
           p == (e.tbt + s.n) % 2
           g == [e EXCEPT !.irqflags = q1, !.tbt = p]
<1>1. DoUpdateTb(c) = IF s.n = 0 THEN d ELSE g
  BY Zenon DEF DoUpdateTb, TbUpdated
<1>2. Computed(c.tb, t) /\ Sound(s)
  BY ComputedFacts, UpdateFacts
<1>3. t \in Timer /\ s.n \in Nat /\ c \in Chip
  BY <1>2 DEF Computed, Sound, Timer, Clock
<1>4. Owes(c.tb) <=> s.n > 0
  BY DEF Owes
<1> HIDE DEF t, s
<1>5. SameIrq(c, d) /\ d \in Chip
  <2>1. 0 \in 0 .. 1
    OBVIOUS
  <2> QED BY <1>3, <2>1, SameIrqPut, TimerPut
<1> HIDE DEF d
<1>6. Clock(d) /\ Past(d) = Past(c)
  BY <1>5, SameIrqClock
<1>7. CASE s.n = 0
  BY <1>1, <1>3, <1>4, <1>5, <1>7
<1>8. CASE s.n # 0
  <2>1. /\ Clock(e) /\ e.rdi = d.rdi
        /\ e.ifr = IF d.ifr > 0 THEN 0 ELSE d.ifr
        /\ e.mask = Past(d).mask /\ e.irqflags = Past(d).flags \cup f
        /\ e.new = Past(d).new \cup f /\ e.ack = Past(d).ack \ f
        /\ e.delay = Past(d).delay /\ (e.line = "on" <=> Past(d).on)
    BY <1>6, FlagTold
  <2> HIDE DEF e
  <2>2. e \in Chip /\ e.tbt \in 0 .. 1 /\ e.irqflags \in SUBSET Flags
    BY <2>1 DEF Clock, Chip
  <2>3. p \in 0 .. 1 /\ q1 \in SUBSET Flags
    BY <1>3, <2>2 DEF Flags
  <2>0. \A b : b \in q1 <=> IF b = "TBB" THEN TimerBBug(c) ELSE b \in e.irqflags
    OBVIOUS
  <2> HIDE DEF p, q1
  <2>4. /\ g \in Chip /\ g.mask = e.mask /\ g.irqflags = q1 /\ g.new = e.new /\ g.ack = e.ack
        /\ g.delay = e.delay /\ g.line = e.line /\ g.irqEnabled = e.irqEnabled
        /\ g.ifr = e.ifr /\ g.rdi = e.rdi
    BY <2>2, <2>3 DEF Chip
  <2> HIDE DEF g
  <2>5. Clock(g)
    BY <2>1, <2>4 DEF Clock
  <2>6. Past(c) \in Regs
    BY CatchupClock
  <2>7. Reg(g) = Mark(Past(c), f)
    <3> DEFINE q == Past(c)
               m == Mark(q, f)
    <3>0. Bug(q) <=> TimerBBug(c)
      BY BugShows
    <3>1. q \in Regs /\ f \in SUBSET {"TA", "TB"}
      BY <2>6
    <3>2. /\ m \in Regs /\ m.mask = q.mask /\ m.new = q.new \cup f
          /\ m.ack = q.ack \ f /\ m.delay = q.delay /\ m.on = q.on
          /\ \A b : b \in m.flags <=>
              \/ b \in f
              \/ b # "TBB" /\ b \in q.flags
              \/ b = "TBB" /\ IF "TB" \in f THEN Bug(q) ELSE b \in q.flags
      <4> HIDE DEF q
      <4> QED BY <3>1, MarkType
    <3> HIDE DEF m
    <3>3. m.flags = q1
      <4>1. e.irqflags = q.flags \cup f
        BY <1>6, <2>1
      <4> HIDE DEF q
      <4> QED BY <2>0, <3>0, <3>2, <4>1
    <3>4. Reg(g) \in Regs
      BY <2>4, RegType
    <3>5. /\ Reg(g).mask = q.mask /\ Reg(g).flags = q1 /\ Reg(g).new = q.new \cup f
          /\ Reg(g).ack = q.ack \ f /\ Reg(g).delay = q.delay /\ (Reg(g).on <=> q.on)
      BY <1>6, <2>1, <2>4 DEF Reg
    <3> HIDE DEF q, f
    <3>6. Reg(g).on = m.on
      BY <3>1, <3>2, <3>4, <3>5 DEF Regs
    <3>7. Reg(g) = m
      BY <3>2, <3>3, <3>4, <3>5, <3>6, RegEqual
    <3> QED BY <3>7 DEF m, q
  <2>8. g.ifr = IF c.ifr > 0 THEN 0 ELSE c.ifr
    BY <1>5, <2>1, <2>4 DEF SameIrq
  <2>9. IfrCatchup(g) = g
    <3>1. g.ifr <= 0
      BY <1>3, <2>8 DEF Chip
    <3> QED BY <2>5, <3>1, CatchupClock
  <2>10. Tolds(c, g, "TB")
    BY <1>5, <2>1, <2>4, <2>5, <2>7, <2>8, <2>9 DEF Tolds, Past, SameIrq
  <2> QED BY <1>1, <1>3, <1>4, <1>8, <2>10
<1> QED BY <1>7, <1>8

-----------------------------------------------------------------------------
(* The chip whose alarms and late timers are still to run.                   *)

\* The timers with an alarm in this cycle, and those that owe an underflow without one,
Due(c) == {x \in {"TA"} : c.ta.due = 0} \cup {x \in {"TB"} : c.tb.due = 0}
Late(c) ==
  {x \in {"TA"} : c.ta.due # 0 /\ Owes(c.ta)} \cup {x \in {"TB"} : c.tb.due # 0 /\ Owes(c.tb)}

\* the register at the end of the cycle without and with the late ones,
Present(c) == IF c.ifr = -1 THEN Past(c) ELSE Elapse(Mark(Past(c), Due(c)))
Whole(c) == Mark(Present(c), Late(c))

\* which nobody can tell from the one it would be had they been told in time.
Harmless(c, x) ==
  /\ x \notin Past(c).ack /\ c.rdi >= 2
  /\ x \notin Past(c).mask \/ Asserted(Present(c))

\* A timer that may get late.
Free(x, m) ==
  /\ x \notin m.ack /\ "ACK1" \notin m.delay
  /\ x \notin m.mask \/ Asserted(m) \/ Pending(m)

Cover(c) ==
  /\ Watched(c.ta) \/ Free("TA", Present(c))
  /\ Watched(c.tb) \/ Free("TB", Present(c))

\* A chip whose timer B counts cycles, and whose register waits for the alarms.
Fit(c) ==
  /\ Good(c) /\ "STEP" \notin c.ta.bits /\ Alone(c)
  /\ AlarmsDue(c) => c.ifr >= 0

Irq(c) ==
  /\ Fit(c) /\ Clock(c)
  /\ \A x \in Late(c) : Harmless(c, x)
  /\ Calm(Present(c))

\* What a handler does to the interrupts does not show.
TellsIrq(c, d) ==
  Irq(c) => /\ Irq(d) /\ View(Whole(d)) = View(Whole(c))
            /\ Cover(c) => Cover(d)
            /\ Due(d) \subseteq Due(c)

LEMMA TellsTellsIrq ==
  ASSUME NEW c, NEW d, NEW e, TellsIrq(c, d), TellsIrq(d, e)
  PROVE  TellsIrq(c, e)
BY DEF TellsIrq

LEMMA PresentFacts ==
  ASSUME NEW c, Clock(c)
  PROVE  /\ Due(c) \in SUBSET {"TA", "TB"} /\ Late(c) \in SUBSET {"TA", "TB"}
         /\ Past(c) \in Regs /\ Present(c) \in Regs /\ Whole(c) \in Regs
         /\ Present(c).mask = Past(c).mask /\ Present(c).ack \subseteq Past(c).ack
         /\ c.ifr # -1 => Present(c).new = {} /\ "ACK1" \notin Present(c).delay
         /\ c.ifr = -1 => Present(c) = Reg(c) /\ Past(c) = Reg(c)
<1>1. Due(c) \in SUBSET {"TA", "TB"} /\ Late(c) \in SUBSET {"TA", "TB"}
  BY DEF Due, Late
<1>2. Past(c) \in Regs /\ (c.ifr = -1 => Past(c) = Reg(c))
  <2>1. c.ifr = -1 => c.ifr <= 0
    OBVIOUS
  <2> QED BY <2>1, CatchupClock DEF Past
<1> DEFINE m == Mark(Past(c), Due(c))
           e == Elapse(m)
<1>3. m \in Regs /\ m.mask = Past(c).mask /\ m.ack = Past(c).ack \ Due(c)
  BY <1>1, <1>2, MarkType
<1>4. e \in Regs /\ e.mask = m.mask /\ e.new = {} /\ "ACK1" \notin e.delay
      /\ e.ack = IF "ACK0" \in m.delay THEN {} ELSE m.ack
  <2> HIDE DEF m
  <2>1. /\ e \in Regs /\ e.mask = m.mask /\ e.new = {}
        /\ e.ack = IF "ACK0" \in m.delay THEN {} ELSE m.ack
    BY <1>3, ElapseType
  <2>2. e.delay = Shift(Delays(m))
    BY <1>3, ElapseType
  <2>3. "ACK1" \notin e.delay
    BY <2>2 DEF Shift
  <2> QED BY <2>1, <2>3
<1>5. Present(c) = IF c.ifr = -1 THEN Past(c) ELSE e
  BY DEF Present
<1> HIDE DEF e, m
<1>6. Present(c) \in Regs
  BY <1>2, <1>4, <1>5
<1>7. Whole(c) \in Regs
  BY <1>1, <1>6, MarkType DEF Whole
<1>8. Present(c).mask = Past(c).mask /\ Present(c).ack \subseteq Past(c).ack
  BY <1>3, <1>4, <1>5
<1> QED BY <1>1, <1>2, <1>4, <1>5, <1>6, <1>7, <1>8

\* More underflows told, an interrupt that is asserted or comes stays so.
LEMMA AssertedGrows ==
  ASSUME NEW q \in Regs, NEW U \in SUBSET {"TA", "TB"}
  PROVE  /\ Asserted(Elapse(q)) => Asserted(Elapse(Mark(q, U)))
         /\ Pending(Elapse(q)) => Pending(Elapse(Mark(q, U)))
<1> DEFINE m == Mark(q, U)
           e == Elapse(q)
           f == Elapse(m)
           late == model = "old" \/ "ACK1" \in q.delay
           newq == q.new \cap q.mask # {}
           newm == m.new \cap m.mask # {}
<1>1. /\ m \in Regs /\ m.mask = q.mask /\ m.new = q.new \cup U
      /\ m.ack = q.ack \ U /\ m.delay = q.delay /\ m.on = q.on
      /\ "SET" \in m.flags <=> "SET" \in q.flags
  BY MarkType
<1> HIDE DEF m
<1>2. /\ e.on <=> q.on \/ "RAISE0" \in q.delay \/ (newq /\ ~ late)
      /\ "SET" \in e.flags <=>
              \/ "D7SET0" \in q.delay \/ (newq /\ ~ late)
              \/ /\ "SET" \in q.flags
                 /\ "ACK0" \in q.delay => "SET" \notin q.ack /\ model # "old"
      /\ "ACK0" \in e.delay <=> "ACK1" \in q.delay
      /\ "ACK1" \notin e.delay
      /\ "D7SET0" \in e.delay <=> "D7SET1" \in q.delay \/ (newq /\ late)
      /\ "RAISE0" \in e.delay <=> "RAISE1" \in q.delay \/ (newq /\ late)
  BY ElapseIs
<1>3. /\ f.on <=> m.on \/ "RAISE0" \in m.delay \/ (newm /\ ~ late)
      /\ "SET" \in f.flags <=>
              \/ "D7SET0" \in m.delay \/ (newm /\ ~ late)
              \/ /\ "SET" \in m.flags
                 /\ "ACK0" \in m.delay => "SET" \notin m.ack /\ model # "old"
      /\ "ACK0" \in f.delay <=> "ACK1" \in m.delay
      /\ "ACK1" \notin f.delay
      /\ "D7SET0" \in f.delay <=> "D7SET1" \in m.delay \/ (newm /\ late)
      /\ "RAISE0" \in f.delay <=> "RAISE1" \in m.delay \/ (newm /\ late)
  BY <1>1, ElapseIs
<1> HIDE DEF e, f
<1>4. newq => newm
  BY <1>1
<1>5. /\ f.on <=> q.on \/ "RAISE0" \in q.delay \/ (newm /\ ~ late)
      /\ ("SET" \in e.flags => "SET" \in f.flags)
      /\ "ACK0" \in f.delay <=> "ACK1" \in q.delay
      /\ "D7SET0" \in f.delay <=> "D7SET1" \in q.delay \/ (newm /\ late)
      /\ "RAISE0" \in f.delay <=> "RAISE1" \in q.delay \/ (newm /\ late)
  BY <1>1, <1>2, <1>3, <1>4
<1> HIDE DEF newq, newm, late
<1>6. (e.on => f.on) /\ ("D7SET0" \in e.delay => "D7SET0" \in f.delay)
      /\ ("RAISE0" \in e.delay => "RAISE0" \in f.delay)
  BY <1>2, <1>4, <1>5
<1>7. Asserted(e) => Asserted(f)
  BY <1>2, <1>3, <1>5, <1>6 DEF Asserted
<1>8. Pending(e) => Pending(f)
  BY <1>3, <1>6 DEF Pending
<1> QED BY <1>7, <1>8 DEF e, f, m

LEMMA FreeGrows ==
  ASSUME NEW q \in Regs, NEW U \in SUBSET {"TA", "TB"}, NEW x
  PROVE  /\ Free(x, Elapse(q)) => Free(x, Elapse(Mark(q, U)))
         /\ Free(x, q) => Free(x, Mark(q, U))
<1> DEFINE m == Mark(q, U)
           e == Elapse(q)
           f == Elapse(m)
<1>1. /\ m \in Regs /\ m.mask = q.mask /\ m.ack = q.ack \ U /\ m.delay = q.delay
  BY MarkType
<1>2. /\ Asserted(e) => Asserted(f)
      /\ Pending(e) => Pending(f)
  BY AssertedGrows
<1>3. (Asserted(m) <=> Asserted(q)) /\ (Pending(m) <=> Pending(q))
  BY MarkAsserted
<1> HIDE DEF m
<1>4. e.mask = q.mask /\ e.ack = (IF "ACK0" \in q.delay THEN {} ELSE q.ack)
  BY ElapseType
<1>5. f.mask = m.mask /\ f.ack = (IF "ACK0" \in m.delay THEN {} ELSE m.ack)
      /\ f.delay = Shift(Delays(m))
  BY <1>1, ElapseType
<1>6. "ACK1" \notin f.delay
  BY <1>5 DEF Shift
<1> HIDE DEF e, f
<1>7. Free(x, e) => Free(x, f)
  BY <1>1, <1>2, <1>4, <1>5, <1>6 DEF Free
<1>8. Free(x, q) => Free(x, m)
  BY <1>1, <1>3 DEF Free
<1> QED BY <1>7, <1>8 DEF e, f, m

\* The late ones can as well be told before the cycle is drawn.
LEMMA LateView ==
  ASSUME NEW c, Clock(c), c.ifr # -1, \A x \in Late(c) : Harmless(c, x)
  PROVE  View(Whole(c)) = View(Elapse(Mark(Past(c), Due(c) \cup Late(c))))
<1> DEFINE p == Past(c)
           q == Mark(p, Due(c))
           L == Late(c)
<1>1. p \in Regs /\ Due(c) \in SUBSET {"TA", "TB"} /\ L \in SUBSET {"TA", "TB"}
  BY PresentFacts
<1>2. Present(c) = Elapse(q)
  BY DEF Present
<1>3. ASSUME "TB" \in L PROVE ~ Bug(p)
  <2>1. c.rdi >= 2
    BY <1>3 DEF Harmless
  <2> QED BY <2>1, BugShows
<1>4. L \cap p.ack = {} /\ (L \cap p.mask = {} \/ Asserted(Elapse(q)))
  BY <1>2 DEF Harmless
<1>5. Mark(q, L) = Mark(p, Due(c) \cup L)
  <2> HIDE DEF p, L
  <2> QED BY <1>1, MarkMark
<1>6. Whole(c) = Mark(Elapse(q), L)
  BY <1>2 DEF Whole
<1> HIDE DEF p, L
<1>7. q \in Regs /\ q.mask = p.mask /\ q.ack = p.ack \ Due(c) /\ q.delay = p.delay
  BY <1>1, MarkType
<1> HIDE DEF q
<1>8. "TB" \in L => ~ Bug(q)
  BY <1>3, <1>7 DEF Bug
<1>9. L \cap q.ack = {} /\ (L \cap q.mask = {} \/ Asserted(Elapse(q)))
  BY <1>4, <1>7
<1>10. View(Mark(Elapse(q), L)) = View(Elapse(Mark(q, L)))
  BY <1>1, <1>7, <1>8, <1>9, LateTold
<1> QED BY <1>5, <1>6, <1>10 DEF p, L

LEMMA CalmWhole ==
  ASSUME NEW c, Irq(c)
  PROVE  Calm(Whole(c))
<1> DEFINE p == Present(c)
           L == Late(c)
           w == Mark(p, L)
<1>1. p \in Regs /\ L \in SUBSET {"TA", "TB"} /\ p.mask = Past(c).mask
  BY PresentFacts DEF Irq
<1>2. Calm(p) /\ (L \cap Past(c).mask = {} \/ Asserted(p))
  BY DEF Irq, Harmless
<1> HIDE DEF p, L
<1>3. w.mask = p.mask /\ w.new = p.new \cup L /\ (Asserted(w) <=> Asserted(p))
  BY <1>1, MarkType, MarkAsserted
<1> HIDE DEF w
<1>4. Calm(w)
  BY <1>1, <1>2, <1>3 DEF Calm
<1> QED BY <1>4 DEF Whole, w, p, L

\* A timer's underflow is told, in time by its alarm or late.
LEMMA ToldTells ==
  ASSUME NEW c, Irq(c), NEW x \in {"TA", "TB"}, NEW d, Fit(d), Tolds(c, d, x),
         \/ x \in Late(c) /\ Late(d) = Late(c) \ {x} /\ Due(d) = Due(c)
         \/ x \in Due(c) /\ Due(d) = Due(c) \ {x} /\ Late(d) = Late(c)
  PROVE  /\ Irq(d) /\ View(Whole(d)) = View(Whole(c)) /\ Due(d) \subseteq Due(c)
         /\ \A y : Free(y, Present(c)) => Free(y, Present(d))
         /\ x \in Due(c) => Present(d) = Present(c)
<1> DEFINE p == Past(c)
           D == Due(c)
           L == Late(c)
           q == Mark(p, D)
           o == {x}
           m == Mark(p, o)
<1>1. /\ p \in Regs /\ D \in SUBSET {"TA", "TB"} /\ L \in SUBSET {"TA", "TB"}
      /\ o \in SUBSET {"TA", "TB"} /\ Clock(c) /\ Clock(d)
  BY PresentFacts DEF Irq, Tolds
<1>2. /\ Past(d) = m /\ Reg(d) = m /\ d.rdi = c.rdi
      /\ d.ifr = IF c.ifr > 0 THEN 0 ELSE c.ifr
  BY DEF Tolds
<1>3. c.ifr \in Int /\ c.ifr >= -1
  BY <1>1 DEF Clock, Chip
<1>4. x \in D => c.ifr # -1 /\ d.ifr # -1
  <2>1. x \in D => AlarmsDue(c)
    BY DEF Due, AlarmsDue
  <2> QED BY <1>2, <1>3, <2>1 DEF Irq, Fit
<1>5. c.ifr = -1 <=> d.ifr = -1
  BY <1>2, <1>3
<1>6. \A y \in L : y \notin p.ack /\ c.rdi >= 2 /\ (y \notin p.mask \/ Asserted(Present(c)))
  BY DEF Irq, Harmless
<1>7. c.ifr = -1 => Present(c) = p /\ Present(d) = m
  BY <1>2, <1>5 DEF Present
<1>8. c.ifr # -1 => Present(c) = Elapse(q) /\ Present(d) = Elapse(Mark(m, Due(d)))
  BY <1>2, <1>5 DEF Present
<1>9. Due(d) \in SUBSET {"TA", "TB"} /\ Late(d) \in SUBSET {"TA", "TB"} /\ Late(d) \subseteq L
      /\ Due(d) \subseteq D
  BY <1>1
<1>10. Calm(Present(c))
  BY DEF Irq
<1>20. \/ x \in L /\ Late(d) = L \ {x} /\ Due(d) = D
       \/ x \in D /\ Due(d) = D \ {x} /\ Late(d) = L
  OBVIOUS
<1>21. x \in Due(c) => x \in D
  OBVIOUS
<1> HIDE DEF p, D, L
<1>11. m \in Regs /\ m.mask = p.mask /\ m.new = p.new \cup o /\ m.ack = p.ack \ o
       /\ m.delay = p.delay /\ m.on = p.on /\ (Asserted(m) <=> Asserted(p))
  BY <1>1, MarkType, MarkAsserted
<1>12. q \in Regs
  BY <1>1, MarkType
<1>13. Mark(m, Due(d)) = Mark(p, o \cup Due(d)) /\ Mark(q, o) = Mark(p, D \cup o)
  BY <1>1, <1>9, MarkMark
<1>14. x \in D => Mark(m, Due(d)) = q
  <2>1. x \in D => o \cup Due(d) = D
    BY <1>1, <1>9, <1>20
  <2> QED BY <1>13, <2>1
<1>15. x \notin D => Mark(m, Due(d)) = Mark(q, o)
  <2>1. x \notin D => o \cup Due(d) = D \cup o
    BY <1>20
  <2> QED BY <1>13, <2>1
<1> HIDE DEF q
<1>16. x \in D => Present(d) = Present(c)
  BY <1>4, <1>8, <1>14
<1>17. ASSUME Asserted(Present(c)) PROVE Asserted(Present(d))
  <2>1. CASE c.ifr = -1
    BY <1>7, <1>11, <1>17, <2>1
  <2>2. CASE c.ifr # -1
    <3>1. Asserted(Elapse(q)) => Asserted(Elapse(Mark(q, o)))
      BY <1>1, <1>12, AssertedGrows
    <3> QED BY <1>8, <1>14, <1>15, <1>17, <2>2, <3>1
  <2> QED BY <2>1, <2>2
<1>18. ASSUME NEW y, Free(y, Present(c)) PROVE Free(y, Present(d))
  <2>1. CASE c.ifr = -1
    <3>1. Free(y, p) => Free(y, m)
      BY <1>1, FreeGrows
    <3> QED BY <1>7, <1>18, <2>1, <3>1
  <2>2. CASE c.ifr # -1
    <3>1. Free(y, Elapse(q)) => Free(y, Elapse(Mark(q, o)))
      BY <1>1, <1>12, FreeGrows
    <3> QED BY <1>8, <1>14, <1>15, <1>18, <2>2, <3>1
  <2> QED BY <2>1, <2>2
<1>19. ASSUME NEW y \in Late(d) PROVE Harmless(d, y)
  <2>1. y \notin p.ack /\ c.rdi >= 2 /\ (y \notin p.mask \/ Asserted(Present(c)))
    BY <1>6, <1>9
  <2>2. y \notin m.ack /\ d.rdi >= 2 /\ (y \notin m.mask \/ Asserted(Present(d)))
    BY <1>2, <1>11, <1>17, <2>1
  <2> QED BY <1>2, <2>2 DEF Harmless
<1>22. Calm(Present(d))
  <2>1. CASE c.ifr = -1
    <3>1. x \in L
      BY <1>4, <1>20, <2>1
    <3>2. x \notin p.mask \/ Asserted(p)
      BY <1>6, <1>7, <2>1, <3>1
    <3>3. Calm(p)
      BY <1>7, <1>10, <2>1
    <3>4. Calm(m)
      BY <1>11, <3>2, <3>3 DEF Calm
    <3> QED BY <1>7, <2>1, <3>4
  <2>2. CASE c.ifr # -1
    <3>1. Present(d).new = {}
      BY <1>1, <1>5, <2>2, PresentFacts
    <3> QED BY <3>1 DEF Calm
  <2> QED BY <2>1, <2>2
<1>23. Irq(d)
  BY <1>1, <1>19, <1>22 DEF Irq
<1>24. View(Whole(d)) = View(Whole(c))
  <2>1. CASE c.ifr = -1
    <3>1. x \in L /\ Late(d) = L \ {x}
      BY <1>4, <1>20, <2>1
    <3>2. Whole(c) = Mark(p, L) /\ Whole(d) = Mark(m, Late(d))
      BY <1>7, <2>1 DEF Whole, L
    <3>3. Mark(m, Late(d)) = Mark(p, o \cup Late(d))
      BY <1>1, <1>9, MarkMark
    <3>4. o \cup Late(d) = L
      BY <1>1, <3>1
    <3> QED BY <3>2, <3>3, <3>4
  <2>2. CASE c.ifr # -1
    <3>1. View(Whole(c)) = View(Elapse(Mark(p, D \cup L)))
      BY <1>1, <2>2, LateView DEF Irq, p, D, L
    <3>2. View(Whole(d)) = View(Elapse(Mark(m, Due(d) \cup Late(d))))
      BY <1>1, <1>2, <1>5, <1>19, <2>2, LateView
    <3>3. Due(d) \cup Late(d) \in SUBSET {"TA", "TB"}
      BY <1>9
    <3>4. Mark(m, Due(d) \cup Late(d)) = Mark(p, o \cup (Due(d) \cup Late(d)))
      BY <1>1, <3>3, MarkMark
    <3>5. o \cup (Due(d) \cup Late(d)) = D \cup L
      BY <1>1, <1>20
    <3> QED BY <3>1, <3>2, <3>4, <3>5
  <2> QED BY <2>1, <2>2
<1> QED BY <1>9, <1>16, <1>18, <1>23, <1>24 DEF D

\* The register and what is due and late are left alone.
LEMMA PutTells ==
  ASSUME NEW c, Irq(c), NEW d, Fit(d), SameIrq(c, d), Due(d) = Due(c), Late(d) = Late(c)
  PROVE  Irq(d) /\ Present(d) = Present(c) /\ Whole(d) = Whole(c)
<1>1. Clock(c) /\ d \in Chip
  BY DEF Irq, Fit, Good
<1>2. Clock(d) /\ Past(d) = Past(c) /\ d.ifr = c.ifr /\ d.rdi = c.rdi
  BY <1>1, SameIrqClock DEF SameIrq
<1>3. Present(d) = Present(c)
  BY <1>2 DEF Present
<1>4. Whole(d) = Whole(c)
  BY <1>3 DEF Whole
<1>5. \A x \in Late(d) : Harmless(d, x)
  BY <1>2, <1>3 DEF Irq, Harmless
<1>6. Irq(d)
  BY <1>2, <1>3, <1>5 DEF Irq
<1> QED BY <1>3, <1>4, <1>6

\* An underflow told in its cycle leaves a timer that may get late.
LEMMA ToldFree ==
  ASSUME NEW c, NEW x \in {"TA", "TB"}, NEW d, Clock(c), Tolds(c, d, x), d.ifr # -1
  PROVE  Free(x, Present(d))
<1> DEFINE p == Past(c)
           o == {x}
           m == Mark(p, o)
           q == Mark(m, Due(d))
           e == Elapse(q)
<1>1. p \in Regs /\ o \in SUBSET {"TA", "TB"} /\ Clock(d) /\ Due(d) \in SUBSET {"TA", "TB"}
  BY PresentFacts DEF Tolds
<1>2. Present(d) = e
  BY DEF Tolds, Present
<1> HIDE DEF p
<1>3. m \in Regs /\ m.mask = p.mask /\ m.new = p.new \cup o /\ m.ack = p.ack \ o
  BY <1>1, MarkType
<1> HIDE DEF m
<1>4. q \in Regs /\ q.mask = m.mask /\ q.new = m.new \cup Due(d) /\ q.ack = m.ack \ Due(d)
  BY <1>1, <1>3, MarkType
<1> HIDE DEF q
<1>5. /\ e.mask = q.mask /\ e.ack = (IF "ACK0" \in q.delay THEN {} ELSE q.ack)
      /\ e.delay = Shift(Delays(q))
  BY <1>4, ElapseType
<1>6. "ACK1" \notin e.delay
  BY <1>5 DEF Shift
<1>7. x \in q.mask => Asserted(e) \/ Pending(e)
  <2>1. x \in q.mask => q.new \cap q.mask # {}
    BY <1>3, <1>4
  <2> QED BY <1>4, <2>1, NewAsserted
<1> HIDE DEF e
<1>8. Free(x, e)
  BY <1>3, <1>4, <1>5, <1>6, <1>7 DEF Free
<1> QED BY <1>2, <1>8

LEMMA FitAfter ==
  ASSUME NEW c, Fit(c), NEW d, Good(d), Tells(c, d), TellsB(c, d), AlarmsDue(d) => AlarmsDue(c),
         c.ifr >= 0 => d.ifr >= 0
  PROVE  Fit(d)
BY DEF Fit, Tells, TellsB

\* A timer that is watched stays so when it is computed.
LEMMA WatchedUpdate ==
  ASSUME NEW t, Sound(t), Kept(t), NEW u \in Timer, u = [Update(t) EXCEPT !.n = 0], Watched(t)
  PROVE  Watched(u)
<1> DEFINE s == Update(t)
           z == 0
<1>1. Watched(s) /\ s \in Timer
  BY OwesFacts, UpdateFacts DEF Sound
<1> HIDE DEF s
<1>2. u = [s EXCEPT !.n = z]
  BY DEF s
<1>3. z \in Nat
  OBVIOUS
<1> HIDE DEF z
<1>4. Alike(u, s) /\ u.due = s.due
  BY <1>1, <1>2, <1>3 DEF Timer, Alike
<1>5. NextUnderflow(u) = NextUnderflow(s)
  BY <1>1, <1>4, AlikeUnderflow
<1> QED BY <1>1, <1>4, <1>5 DEF Watched

\* ... or its alarm is set.
LEMMA WatchedSet ==
  ASSUME NEW t, Sound(t), t.lag = 0
  PROVE  Watched(SetAlarm(t))
<1>1. Rearmed(t, SetAlarm(t)) /\ Sound(t)
  BY SetAlarmFacts
<1>2. NextUnderflow(SetAlarm(t)) = NextUnderflow(t)
  BY <1>1, AlikeUnderflow DEF Rearmed, Alike, Sound
<1>3. SetAlarm(t).due = NextUnderflow(t)
  BY DEF SetAlarm, Sound, Timer
<1> QED BY <1>2, <1>3 DEF Watched

LEMMA RenewTaSame ==
  ASSUME NEW c \in Chip, Sound(c.ta), c.ta.lag = 0
  PROVE  SameIrq(c, RenewTa(c))
<1> DEFINE t == RenewTa(c).ta
<1>1. t \in Timer
  BY RenewTaFacts DEF Armed, Sound
<1>2. RenewTa(c) = [c EXCEPT !.ta = t]
  BY DEF RenewTa, Chip
<1> HIDE DEF t
<1>3. 0 \in 0 .. 1
  OBVIOUS
<1>4. SameIrq(c, [c EXCEPT !.ta = t])
  BY <1>1, <1>3, SameIrqPut
<1> QED BY <1>2, <1>4

LEMMA RenewTbSame ==
  ASSUME NEW c \in Chip, Sound(c.tb), c.tb.lag = 0
  PROVE  SameIrq(c, RenewTb(c))
<1> DEFINE t == RenewTb(c).tb
<1>1. t \in Timer
  BY RenewTbFacts DEF Armed, Sound
<1>2. RenewTb(c) = [c EXCEPT !.tb = t]
  BY DEF RenewTb, Chip
<1> HIDE DEF t
<1>3. 0 \in 0 .. 1
  OBVIOUS
<1>4. SameIrq(c, [c EXCEPT !.tb = t])
  BY <1>1, <1>3, SameIrqPut
<1> QED BY <1>2, <1>4

LEMMA SameTolds ==
  ASSUME NEW c, NEW e, NEW d \in Chip, NEW x, Tolds(c, e, x), SameIrq(e, d)
  PROVE  Tolds(c, d, x)
BY SameIrqClock DEF Tolds, SameIrq

\* The handlers of the alarms.
LEMMA InttaIrq ==
  ASSUME NEW c, c.ta.due = 0
  PROVE  TellsIrq(c, Intta(c))
<1> SUFFICES ASSUME Irq(c)
             PROVE  /\ Irq(Intta(c)) /\ View(Whole(Intta(c))) = View(Whole(c))
                    /\ Cover(c) => Cover(Intta(c))
                    /\ Due(Intta(c)) \subseteq Due(c)
  BY DEF TellsIrq
<1> DEFINE e == DoUpdateTa(c)
           r == RenewTa(e)
           d == Intta(c)
<1>1. /\ Good(c) /\ c \in Chip /\ Sound(c.ta) /\ Kept(c.ta) /\ Fit(c) /\ Clock(c) /\ Alone(c)
      /\ c.ifr >= 0
  <2>1. AlarmsDue(c)
    BY DEF AlarmsDue
  <2> QED BY <2>1 DEF Irq, Fit, Good
<1>2. e \in Chip /\ Sound(e.ta) /\ e.ta.lag = 0 /\ KeepsB(c, e)
  BY <1>1, DoUpdateTaFacts DEF Computed
<1>3. Tolds(c, e, "TA")
  <2>1. Owes(c.ta)
    BY <1>1, OwesFacts DEF Owes
  <2> QED BY <1>1, <2>1, TaTold
<1> HIDE DEF e
<1>4. r \in Chip /\ KeepsB(e, r) /\ SameIrq(e, r)
  BY <1>2, RenewTaFacts, RenewTaSame
<1>5. d = StepTb(r)
  BY DEF Intta, e
<1>6. d = r
  <2>1. r.crb = c.crb
    BY <1>2, <1>4 DEF KeepsB
  <2> HIDE DEF r, d
  <2>2. ~ Chained(r)
    BY <1>1, <2>1 DEF Chained, Alone
  <2> QED BY <1>5, <2>2 DEF StepTb
<1>7. After(c, d) /\ Armed(d.ta)
  BY <1>1, InttaFacts
<1>8. Fit(d)
  <2>1. Tells(c, d) /\ TellsB(c, d)
    BY <1>1, InttaTells, InttaTellsB
  <2>2. Good(d) /\ (AlarmsDue(d) => AlarmsDue(c)) /\ (c.ifr >= 0 => d.ifr >= 0)
    BY <1>7 DEF After, Later, IfrKept, AlarmsDue
  <2> HIDE DEF d
  <2> QED BY <1>1, <2>1, <2>2, FitAfter
<1>9. Tolds(c, d, "TA")
  <2> HIDE DEF d, r
  <2> QED BY <1>3, <1>4, <1>6, SameTolds
<1>10. d.tb = c.tb
  BY <1>2, <1>4, <1>6 DEF KeepsB
<1> HIDE DEF d, r
<1>11. ~ Owes(d.ta) /\ d.ta.due # 0
  BY <1>7, OwesFacts DEF Armed
<1>12. Due(d) = Due(c) \ {"TA"} /\ "TA" \in Due(c)
  BY <1>10, <1>11 DEF Due
<1>13. Late(d) = Late(c)
  BY <1>10, <1>11 DEF Late
<1>14. /\ Irq(d) /\ View(Whole(d)) = View(Whole(c)) /\ Due(d) \subseteq Due(c)
       /\ \A y : Free(y, Present(c)) => Free(y, Present(d))
  BY <1>8, <1>9, <1>12, <1>13, ToldTells
<1>15. Free("TA", Present(d))
  <2>1. d.ifr # -1
    BY <1>1, <1>7 DEF After, IfrKept
  <2> QED BY <1>1, <1>9, <2>1, ToldFree
<1>16. Cover(c) => Cover(d)
  BY <1>10, <1>14, <1>15 DEF Cover
<1> QED BY <1>14, <1>16 DEF d

LEMMA InttbIrq ==
  ASSUME NEW c, c.tb.due = 0
  PROVE  TellsIrq(c, Inttb(c))
<1> SUFFICES ASSUME Irq(c)
             PROVE  /\ Irq(Inttb(c)) /\ View(Whole(Inttb(c))) = View(Whole(c))
                    /\ Cover(c) => Cover(Inttb(c))
                    /\ Due(Inttb(c)) \subseteq Due(c)
  BY DEF TellsIrq
<1> DEFINE e == DoUpdateTb(c)
           d == Inttb(c)
<1>1. /\ Good(c) /\ c \in Chip /\ Sound(c.tb) /\ Kept(c.tb) /\ Fit(c) /\ Clock(c)
      /\ c.ifr >= 0
  <2>1. AlarmsDue(c)
    BY DEF AlarmsDue
  <2> QED BY <2>1 DEF Irq, Fit, Good
<1>2. e \in Chip /\ Sound(e.tb) /\ e.tb.lag = 0 /\ KeepsA(c, e)
  BY <1>1, DoUpdateTbFacts DEF Computed
<1>3. Tolds(c, e, "TB")
  <2>1. Owes(c.tb)
    BY <1>1, OwesFacts DEF Owes
  <2> QED BY <1>1, <2>1, TbTold
<1>4. d = RenewTb(e)
  BY DEF Inttb
<1> HIDE DEF e
<1>5. d \in Chip /\ KeepsA(e, d) /\ SameIrq(e, d)
  BY <1>2, <1>4, RenewTbFacts, RenewTbSame
<1>7. After(c, d) /\ Armed(d.tb)
  BY <1>1, InttbFacts
<1>8. Fit(d)
  <2>1. Tells(c, d) /\ TellsB(c, d)
    BY <1>1, InttbFacts, InttbTells, KeepsTells
  <2>2. Good(d) /\ (AlarmsDue(d) => AlarmsDue(c)) /\ (c.ifr >= 0 => d.ifr >= 0)
    BY <1>7 DEF After, Later, IfrKept, AlarmsDue
  <2> HIDE DEF d
  <2> QED BY <1>1, <2>1, <2>2, FitAfter
<1>9. Tolds(c, d, "TB")
  <2> HIDE DEF d
  <2> QED BY <1>3, <1>5, SameTolds
<1>10. d.ta = c.ta
  BY <1>2, <1>5 DEF KeepsA
<1> HIDE DEF d
<1>11. ~ Owes(d.tb) /\ d.tb.due # 0
  BY <1>7, OwesFacts DEF Armed
<1>12. Due(d) = Due(c) \ {"TB"} /\ "TB" \in Due(c)
  BY <1>10, <1>11 DEF Due
<1>13. Late(d) = Late(c)
  BY <1>10, <1>11 DEF Late
<1>14. /\ Irq(d) /\ View(Whole(d)) = View(Whole(c)) /\ Due(d) \subseteq Due(c)
       /\ \A y : Free(y, Present(c)) => Free(y, Present(d))
  BY <1>8, <1>9, <1>12, <1>13, ToldTells
<1>15. Free("TB", Present(d))
  <2>1. d.ifr # -1
    BY <1>1, <1>7 DEF After, IfrKept
  <2> QED BY <1>1, <1>9, <2>1, ToldFree
<1>16. Cover(c) => Cover(d)
  BY <1>10, <1>14, <1>15 DEF Cover
<1> QED BY <1>14, <1>16 DEF d

\* A timer brought up to date.
LEMMA UpdateTaIrq ==
  ASSUME NEW c
  PROVE  TellsIrq(c, UpdateTa(c))
<1>1. CASE c.ta.due = 0
  BY <1>1, InttaIrq DEF UpdateTa
<1>2. CASE c.ta.due # 0
  <2> SUFFICES ASSUME Irq(c)
               PROVE  /\ Irq(UpdateTa(c)) /\ View(Whole(UpdateTa(c))) = View(Whole(c))
                      /\ Cover(c) => Cover(UpdateTa(c))
                      /\ Due(UpdateTa(c)) \subseteq Due(c)
    BY DEF TellsIrq
  <2> DEFINE d == UpdateTa(c)
  <2>1. /\ Good(c) /\ c \in Chip /\ Sound(c.ta) /\ Kept(c.ta) /\ Fit(c) /\ Clock(c)
    BY DEF Irq, Fit, Good
  <2>2. d = DoUpdateTa(c)
    BY <1>2 DEF UpdateTa
  <2>3. /\ ~ Owes(c.ta) => SameIrq(c, d)
        /\ Owes(c.ta) => Tolds(c, d, "TA")
    BY <2>1, <2>2, TaTold
  <2>4. After(c, d) /\ Armed(d.ta) /\ Tells(c, d) /\ TellsB(c, d)
    BY <2>1, UpdateTaFacts, UpdateTells, UpdateTellsB
  <2>5. d.tb = c.tb /\ d.ta = [Update(c.ta) EXCEPT !.n = 0] /\ d.ta.due = c.ta.due
    BY <2>1, <2>2, DoUpdateTaFacts DEF KeepsB, Computed
  <2> HIDE DEF d
  <2>6. Fit(d)
    <3>1. Good(d) /\ (AlarmsDue(d) => AlarmsDue(c)) /\ (c.ifr >= 0 => d.ifr >= 0)
      BY <2>4 DEF After, Later, IfrKept, AlarmsDue
    <3> QED BY <2>1, <2>4, <3>1, FitAfter
  <2>7. ~ Owes(d.ta)
    BY <2>4, OwesFacts DEF Armed
  <2>8. Due(d) = Due(c) /\ Late(d) = Late(c) \ {"TA"}
    BY <2>5, <2>7 DEF Due, Late
  <2>9. Watched(c.ta) => Watched(d.ta)
    <3>1. d.ta \in Timer
      BY <2>4 DEF Armed, Sound
    <3> QED BY <2>1, <2>5, <3>1, WatchedUpdate
  <2>10. CASE Owes(c.ta)
    <3>1. "TA" \in Late(c)
      BY <1>2, <2>10 DEF Late
    <3>2. /\ Irq(d) /\ View(Whole(d)) = View(Whole(c)) /\ Due(d) \subseteq Due(c)
          /\ \A y : Free(y, Present(c)) => Free(y, Present(d))
      BY <2>3, <2>6, <2>8, <2>10, <3>1, ToldTells
    <3>3. Cover(c) => Cover(d)
      BY <2>5, <2>9, <3>2 DEF Cover
    <3> QED BY <3>2, <3>3 DEF d
  <2>11. CASE ~ Owes(c.ta)
    <3>1. "TA" \notin Late(c)
      BY <2>11 DEF Late
    <3>2. Late(d) = Late(c)
      BY <2>8, <3>1
    <3>3. Irq(d) /\ Present(d) = Present(c) /\ Whole(d) = Whole(c)
      BY <2>3, <2>6, <2>8, <2>11, <3>2, PutTells
    <3>4. Cover(c) => Cover(d)
      BY <2>5, <2>9, <3>3 DEF Cover
    <3> QED BY <2>8, <3>3, <3>4 DEF d
  <2> QED BY <2>10, <2>11
<1> QED BY <1>1, <1>2

LEMMA UpdateTbIrq ==
  ASSUME NEW c
  PROVE  TellsIrq(c, UpdateTb(c))
<1> SUFFICES ASSUME Irq(c) PROVE TellsIrq(c, UpdateTb(c))
  BY DEF TellsIrq
<1>0. UpdateTb(c) = UpdateTbOnly(c)
  <2>1. ~ Chained(c)
    BY DEF Irq, Fit, Alone, Chained
  <2> QED BY <2>1 DEF UpdateTb
<1>1. CASE c.tb.due = 0
  BY <1>0, <1>1, InttbIrq DEF UpdateTbOnly
<1>2. CASE c.tb.due # 0
  <2> SUFFICES /\ Irq(UpdateTb(c)) /\ View(Whole(UpdateTb(c))) = View(Whole(c))
               /\ Cover(c) => Cover(UpdateTb(c))
               /\ Due(UpdateTb(c)) \subseteq Due(c)
    BY DEF TellsIrq
  <2> DEFINE d == UpdateTb(c)
  <2>1. /\ Good(c) /\ c \in Chip /\ Sound(c.tb) /\ Kept(c.tb) /\ Fit(c) /\ Clock(c)
    BY DEF Irq, Fit, Good
  <2>2. d = DoUpdateTb(c)
    BY <1>0, <1>2 DEF UpdateTbOnly
  <2>4. After(c, d) /\ Armed(d.tb) /\ Tells(c, d) /\ TellsB(c, d)
    BY <2>1, UpdateTbFacts, UpdateTells, UpdateTellsB
  <2>5. d.ta = c.ta /\ d.tb = [Update(c.tb) EXCEPT !.n = 0] /\ d.tb.due = c.tb.due
    BY <2>1, <2>2, DoUpdateTbFacts DEF KeepsA, Computed
  <2>3. /\ ~ Owes(c.tb) => SameIrq(c, d)
        /\ Owes(c.tb) => Tolds(c, d, "TB")
    <3>1. Owes(c.tb) => c.rdi >= 2
      <4>1. Owes(c.tb) => "TB" \in Late(c)
        BY <1>2 DEF Late
      <4> QED BY <4>1 DEF Irq, Harmless
    <3>2. CASE Owes(c.tb)
      BY <2>1, <2>2, <3>1, <3>2, TbTold
    <3>3. CASE ~ Owes(c.tb)
      <4> DEFINE t == d.tb
      <4>1. Update(c.tb).n = 0
        BY <2>1, <3>3, OwesFacts
      <4>2. d = [c EXCEPT !.tb = t]
        <5>1. d = [c EXCEPT !.tb = [Update(c.tb) EXCEPT !.n = 0]]
          BY <2>2, <4>1, Zenon DEF DoUpdateTb, TbUpdated
        <5> HIDE DEF d
        <5> QED BY <2>5, <5>1
      <4>3. t \in Timer
        BY <2>4 DEF Armed, Sound
      <4>4. 0 \in 0 .. 1
        OBVIOUS
      <4> HIDE DEF t, d
      <4>5. SameIrq(c, [c EXCEPT !.tb = t])
        BY <2>1, <4>3, <4>4, SameIrqPut
      <4> QED BY <3>3, <4>2, <4>5
    <3> QED BY <3>2, <3>3
  <2> HIDE DEF d
  <2>6. Fit(d)
    <3>1. Good(d) /\ (AlarmsDue(d) => AlarmsDue(c)) /\ (c.ifr >= 0 => d.ifr >= 0)
      BY <2>4 DEF After, Later, IfrKept, AlarmsDue
    <3> QED BY <2>1, <2>4, <3>1, FitAfter
  <2>7. ~ Owes(d.tb)
    BY <2>4, OwesFacts DEF Armed
  <2>8. Due(d) = Due(c) /\ Late(d) = Late(c) \ {"TB"}
    BY <2>5, <2>7 DEF Due, Late
  <2>9. Watched(c.tb) => Watched(d.tb)
    <3>1. d.tb \in Timer
      BY <2>4 DEF Armed, Sound
    <3> QED BY <2>1, <2>5, <3>1, WatchedUpdate
  <2>10. CASE Owes(c.tb)
    <3>1. "TB" \in Late(c)
      BY <1>2, <2>10 DEF Late
    <3>2. /\ Irq(d) /\ View(Whole(d)) = View(Whole(c)) /\ Due(d) \subseteq Due(c)
          /\ \A y : Free(y, Present(c)) => Free(y, Present(d))
      BY <2>3, <2>6, <2>8, <2>10, <3>1, ToldTells
    <3>3. Cover(c) => Cover(d)
      BY <2>5, <2>9, <3>2 DEF Cover
    <3> QED BY <3>2, <3>3 DEF d
  <2>11. CASE ~ Owes(c.tb)
    <3>1. "TB" \notin Late(c)
      BY <2>11 DEF Late
    <3>2. Late(d) = Late(c)
      BY <2>8, <3>1
    <3>3. Irq(d) /\ Present(d) = Present(c) /\ Whole(d) = Whole(c)
      BY <2>3, <2>6, <2>8, <2>11, <3>2, PutTells
    <3>4. Cover(c) => Cover(d)
      BY <2>5, <2>9, <3>3 DEF Cover
    <3> QED BY <2>8, <3>3, <3>4 DEF d
  <2> QED BY <2>10, <2>11
<1> QED BY <1>1, <1>2

-----------------------------------------------------------------------------
(* What the accesses do to them.                                             *)

\* The interrupts of the same timers at another point of the present cycle.
LEMMA StayTells ==
  ASSUME NEW c, Irq(c), NEW d, Good(d), Clock(d), KeepsA(c, d), KeepsB(c, d), d.rdi = c.rdi,
         Present(d) = Present(c), Past(d).ack \subseteq Past(c).ack, Past(d).mask = Past(c).mask,
         AlarmsDue(d) => d.ifr >= 0
  PROVE  Irq(d) /\ Whole(d) = Whole(c) /\ TellsIrq(c, d)
<1>1. d.ta = c.ta /\ d.tb = c.tb /\ d.crb = c.crb
  BY DEF KeepsA, KeepsB
<1>2. Fit(d)
  BY <1>1 DEF Irq, Fit, Alone
<1>3. Due(d) = Due(c) /\ Late(d) = Late(c)
  BY <1>1 DEF Due, Late
<1>4. Whole(d) = Whole(c)
  BY <1>3 DEF Whole
<1>5. \A x \in Late(d) : Harmless(d, x)
  BY <1>3 DEF Irq, Harmless
<1>6. Irq(d)
  BY <1>2, <1>5 DEF Irq
<1>7. Cover(c) => Cover(d)
  BY <1>1 DEF Cover
<1> QED BY <1>3, <1>4, <1>6, <1>7 DEF TellsIrq

\* The register is brought up to the present (cia_ifr_catchup).
LEMMA CatchupTells ==
  ASSUME NEW c
  PROVE  TellsIrq(c, IfrCatchup(c))
<1> SUFFICES ASSUME Irq(c) PROVE TellsIrq(c, IfrCatchup(c))
  BY DEF TellsIrq
<1> DEFINE d == IfrCatchup(c)
<1>1. Good(c) /\ c \in Chip /\ Clock(c) /\ (AlarmsDue(c) => c.ifr >= 0)
  BY DEF Irq, Fit, Good
<1>2. /\ Clock(d) /\ d.rdi = c.rdi /\ Same(c, d)
      /\ d.ifr = IF c.ifr > 0 THEN 0 ELSE c.ifr
  BY <1>1, CatchupClock
<1>3. c.ifr \in Int
  BY <1>1 DEF Chip
<1>4. Past(d) = Past(c)
  <2>1. d.ifr <= 0
    BY <1>2, <1>3
  <2>2. IfrCatchup(d) = d
    <3> HIDE DEF d
    <3> QED BY <1>2, <2>1, CatchupClock
  <2> QED BY <2>2 DEF Past
<1> HIDE DEF d
<1>5. Good(d)
  BY <1>1, <1>2, GoodSame
<1>6. d.ta = c.ta /\ d.tb = c.tb /\ KeepsA(c, d) /\ KeepsB(c, d)
  BY <1>2 DEF Same, KeepsA, KeepsB
<1>7. Present(d) = Present(c)
  <2>1. Due(d) = Due(c)
    BY <1>6 DEF Due
  <2>2. d.ifr = -1 <=> c.ifr = -1
    BY <1>2, <1>3
  <2> QED BY <1>4, <2>1, <2>2 DEF Present
<1>8. AlarmsDue(d) => d.ifr >= 0
  BY <1>1, <1>2, <1>3, <1>6 DEF AlarmsDue
<1>9. TellsIrq(c, d)
  BY <1>2, <1>4, <1>5, <1>6, <1>7, <1>8, StayTells
<1> QED BY <1>9 DEF d

LEMMA MarkNone ==
  ASSUME NEW q \in Regs
  PROVE  Mark(q, {}) = q
<1> DEFINE m == Mark(q, {})
<1>1. /\ m \in Regs /\ m.mask = q.mask /\ m.new = q.new \cup {} /\ m.ack = q.ack \ {}
      /\ m.delay = q.delay /\ m.on = q.on
      /\ \A f : f \in m.flags <=>
              \/ f \in {}
              \/ f # "TBB" /\ f \in q.flags
              \/ f = "TBB" /\ IF "TB" \in {} THEN Bug(q) ELSE f \in q.flags
  BY MarkType, Zenon
<1> HIDE DEF m
<1>2. m.flags = q.flags
  BY <1>1
<1>3. m.new = q.new /\ m.ack = q.ack
  BY <1>1
<1>4. m = q
  BY <1>1, <1>2, <1>3, RegEqual
<1> QED BY <1>4 DEF m

\* The register of the present cycle is computed (cia_ifr_current).
LEMMA NowTells ==
  ASSUME NEW c, AlarmsDue(c) \/ c.ifr = 0
  PROVE  TellsIrq(c, IfrNow(c))
<1> SUFFICES ASSUME Irq(c) PROVE TellsIrq(c, IfrNow(c))
  BY DEF TellsIrq
<1>1. Good(c) /\ c \in Chip /\ Clock(c) /\ (AlarmsDue(c) => c.ifr >= 0)
  BY DEF Irq, Fit, Good
<1>2. CASE AlarmsDue(c)
  <2>1. IfrNow(c) = c
    BY <1>2 DEF IfrNow
  <2> QED BY <2>1 DEF TellsIrq
<1>3. CASE ~ AlarmsDue(c)
  <2> DEFINE d == RunIfrCycle(c)
  <2>1. IfrNow(c) = d /\ c.ifr = 0
    BY <1>3 DEF IfrNow
  <2>2. /\ Clock(d) /\ d.ifr = c.ifr - 1 /\ d.rdi = c.rdi /\ Same(c, d)
        /\ Reg(d) = Elapse(Reg(c))
    BY <1>1, <2>1, RunClock
  <2> HIDE DEF d
  <2>3. Good(d)
    BY <1>1, <2>2, GoodSame
  <2>4. d.ta = c.ta /\ d.tb = c.tb /\ KeepsA(c, d) /\ KeepsB(c, d)
    BY <2>2 DEF Same, KeepsA, KeepsB
  <2>5. Due(c) = {}
    BY <1>3 DEF Due, AlarmsDue
  <2>6. c.ifr <= 0 /\ d.ifr = -1 /\ d.ifr <= 0
    BY <2>1, <2>2
  <2>7. Past(c) = Reg(c)
    BY <1>1, <2>6, CatchupClock DEF Past
  <2>8. Past(d) = Reg(d)
    BY <2>2, <2>6, CatchupClock DEF Past
  <2>9. Reg(c) \in Regs
    BY <1>1, RegType
  <2>10. Present(c) = Elapse(Reg(c))
    BY <2>1, <2>5, <2>7, <2>9, MarkNone DEF Present
  <2>11. Present(d) = Present(c)
    BY <2>2, <2>6, <2>8, <2>10 DEF Present
  <2>12. Past(d) = Present(c)
    BY <2>2, <2>8, <2>10
  <2>13. Past(d).ack \subseteq Past(c).ack /\ Past(d).mask = Past(c).mask
    BY <1>1, <2>12, PresentFacts
  <2>14. ~ AlarmsDue(d)
    BY <1>3, <2>4 DEF AlarmsDue
  <2>15. TellsIrq(c, d)
    BY <2>2, <2>3, <2>4, <2>11, <2>13, <2>14, StayTells
  <2> QED BY <2>1, <2>15
<1> QED BY <1>2, <1>3

\* The look at the next cycles (the rest of cia_ifr_current): an interrupt that comes then
\* has the line ready, one that comes later has the idle alarm set.
Ready(d) ==
  /\ "RAISE0" \in d.delay => d.line # "off"
  /\ "RAISE1" \in d.delay => d.idle = 1 \/ d.line # "off"
\* A handler has done with the register, or leaves it to the alarms that are due.
End(d) == d.ifr <= 0 /\ (d.ifr = -1 \/ AlarmsDue(d)) /\ (d.ifr = -1 => Ready(d))

LEMMA NextClock ==
  ASSUME NEW c, Clock(c), AlarmsDue(c) \/ c.ifr = -1
  PROVE  LET d == IfrNext(c) IN
         /\ d \in Chip /\ Clock(d) /\ d.rdi = c.rdi /\ Reg(d) = Reg(c) /\ d.ifr = c.ifr
         /\ ~ AlarmsDue(c) => Ready(d)
         /\ (d.line = "on" <=> c.line = "on")
<1> DEFINE d == IfrNext(c)
<1>1. c \in Chip /\ c.ifr \in Int
  BY DEF Clock, Chip
<1>2. CASE AlarmsDue(c)
  BY <1>1, <1>2 DEF IfrNext
<1>3. CASE ~ AlarmsDue(c) /\ "RAISE0" \in c.delay
  <2> DEFINE l == IF c.line = "off" THEN "next" ELSE c.line
  <2>1. d = [c EXCEPT !.line = l, !.irqEnabled = TRUE]
    BY <1>3, Zenon DEF IfrNext
  <2>2. l \in {"off", "next", "on"} /\ l # "off" /\ (l = "on" <=> c.line = "on")
    BY <1>1 DEF Chip
  <2> HIDE DEF l, d
  <2>3. /\ d \in Chip /\ d.line = l /\ d.irqEnabled = TRUE /\ d.mask = c.mask
        /\ d.irqflags = c.irqflags /\ d.new = c.new /\ d.ack = c.ack /\ d.delay = c.delay
        /\ d.ifr = c.ifr /\ d.rdi = c.rdi
    BY <1>1, <2>1, <2>2 DEF Chip
  <2>4. Reg(d) = Reg(c)
    BY <2>2, <2>3 DEF Reg
  <2>5. Clock(d)
    BY <1>3, <2>2, <2>3 DEF Clock
  <2>6. Ready(d)
    BY <2>2, <2>3 DEF Ready
  <2>7. d.line = "on" <=> c.line = "on"
    BY <2>2, <2>3
  <2> QED BY <2>3, <2>4, <2>5, <2>6, <2>7 DEF d
<1>4. CASE ~ AlarmsDue(c) /\ "RAISE0" \notin c.delay /\ "RAISE1" \in c.delay
  <2>1. d = [c EXCEPT !.idle = 1]
    BY <1>4 DEF IfrNext
  <2> HIDE DEF d
  <2>3. /\ d \in Chip /\ d.line = c.line /\ d.irqEnabled = c.irqEnabled /\ d.mask = c.mask
        /\ d.irqflags = c.irqflags /\ d.new = c.new /\ d.ack = c.ack /\ d.delay = c.delay
        /\ d.ifr = c.ifr /\ d.rdi = c.rdi /\ d.idle = 1
    BY <1>1, <2>1 DEF Chip
  <2>4. Reg(d) = Reg(c)
    BY <2>3 DEF Reg
  <2>5. Clock(d)
    BY <2>3 DEF Clock
  <2>6. Ready(d)
    BY <1>4, <2>3 DEF Ready
  <2> QED BY <2>3, <2>4, <2>5, <2>6 DEF d
<1>5. CASE ~ AlarmsDue(c) /\ "RAISE0" \notin c.delay /\ "RAISE1" \notin c.delay
  <2>1. d = c
    BY <1>5 DEF IfrNext
  <2> QED BY <1>1, <1>5, <2>1 DEF Ready
<1> QED BY <1>2, <1>3, <1>4, <1>5

LEMMA NextTells ==
  ASSUME NEW c, AlarmsDue(c) \/ c.ifr = -1
  PROVE  TellsIrq(c, IfrNext(c)) /\ (Irq(c) /\ c.ifr <= 0 => End(IfrNext(c)))
<1> SUFFICES ASSUME Irq(c)
             PROVE  TellsIrq(c, IfrNext(c)) /\ (c.ifr <= 0 => End(IfrNext(c)))
  BY DEF TellsIrq
<1> DEFINE d == IfrNext(c)
<1>1. Good(c) /\ c \in Chip /\ Clock(c) /\ (AlarmsDue(c) => c.ifr >= 0) /\ c.ifr \in Int
  BY DEF Irq, Fit, Good, Chip
<1>2. /\ d \in Chip /\ Clock(d) /\ d.rdi = c.rdi /\ Reg(d) = Reg(c) /\ d.ifr = c.ifr
      /\ ~ AlarmsDue(c) => Ready(d)
  BY <1>1, NextClock
<1>3. KeepsA(c, d) /\ KeepsB(c, d)
  BY <1>1, IfrNextFacts
<1> HIDE DEF d
<1>4. d.ta = c.ta /\ d.tb = c.tb
  BY <1>3 DEF KeepsA, KeepsB
<1>5. Good(d)
  BY <1>1, <1>2, <1>4 DEF Good
<1>6. Past(d) = Past(c)
  BY <1>1, <1>2, CatchupClock
<1>7. Present(d) = Present(c)
  <2>1. Due(d) = Due(c)
    BY <1>4 DEF Due
  <2> QED BY <1>2, <1>6, <2>1 DEF Present
<1>8. AlarmsDue(d) <=> AlarmsDue(c)
  BY <1>4 DEF AlarmsDue
<1>9. TellsIrq(c, d)
  BY <1>1, <1>2, <1>3, <1>5, <1>6, <1>7, <1>8, StayTells
<1>10. c.ifr <= 0 => End(d)
  <2> SUFFICES ASSUME c.ifr <= 0 PROVE End(d)
    OBVIOUS
  <2>1. d.ifr <= 0 /\ (d.ifr = -1 \/ AlarmsDue(d))
    BY <1>2, <1>8
  <2>2. d.ifr = -1 => Ready(d)
    BY <1>1, <1>2
  <2> QED BY <2>1, <2>2 DEF End
<1> QED BY <1>9, <1>10 DEF d

\* cia_ifr_current() as the handlers call it.
LEMMA IfrTellsIrq ==
  ASSUME NEW c, c.ifr >= 0
  PROVE  TellsIrq(c, Ifr(c)) /\ (Irq(c) => End(Ifr(c)))
<1> SUFFICES ASSUME Irq(c) PROVE TellsIrq(c, Ifr(c)) /\ End(Ifr(c))
  BY DEF TellsIrq
<1> DEFINE d == IfrCatchup(c)
           e == IfrNow(d)
<1>1. Good(c) /\ c \in Chip /\ Clock(c) /\ c.ifr \in Int
  BY DEF Irq, Fit, Good, Chip
<1>2. d \in Chip /\ d.ifr = 0 /\ TellsIrq(c, d)
  BY <1>1, IfrCatchupFacts, CatchupTells DEF Same
<1> HIDE DEF d
<1>3. TellsIrq(d, e)
  BY <1>2, NowTells
<1>4. Same(d, e) /\ e.ifr = IF AlarmsDue(d) THEN d.ifr ELSE d.ifr - 1
  BY <1>2, IfrNowFacts
<1> HIDE DEF e
<1>5. AlarmsDue(e) <=> AlarmsDue(d)
  BY <1>4 DEF Same, KeepsA, KeepsB, AlarmsDue
<1>6. (AlarmsDue(e) \/ e.ifr = -1) /\ e.ifr <= 0
  BY <1>2, <1>4, <1>5
<1>7. TellsIrq(c, e)
  BY <1>2, <1>3, TellsTellsIrq
<1>8. Irq(e)
  BY <1>7 DEF TellsIrq
<1>9. TellsIrq(e, IfrNext(e)) /\ End(IfrNext(e))
  BY <1>6, <1>8, NextTells
<1>10. Ifr(c) = IfrNext(e)
  BY DEF Ifr, d, e
<1> QED BY <1>7, <1>9, <1>10, TellsTellsIrq

\* A timer that is up to date gets another state and an alarm with it.
Set(t, u) == t.lag = 0 /\ t.due # 0 /\ Armed(u) /\ Watched(u) /\ "STEP" \notin u.bits

LEMMA SetTells ==
  ASSUME NEW c, NEW d \in Chip, SameIrq(c, d), "INMODE_TA" \notin d.crb,
         d.ta = c.ta \/ Set(c.ta, d.ta), d.tb = c.tb \/ Set(c.tb, d.tb)
  PROVE  TellsIrq(c, d)
<1> SUFFICES ASSUME Irq(c) PROVE TellsIrq(c, d)
  BY DEF TellsIrq
<1>1. Good(c) /\ Fit(c)
  BY DEF Irq, Fit
<1>2. Sound(d.ta) /\ Kept(d.ta) /\ "STEP" \notin d.ta.bits
  BY <1>1 DEF Set, Armed, Good, Fit
<1>3. Sound(d.tb) /\ Kept(d.tb) /\ "STEP" \notin d.tb.bits
  BY <1>1 DEF Set, Armed, Good, Fit, Alone
<1>4. Good(d)
  BY <1>2, <1>3 DEF Good
<1>5. (d.ta.due = 0 <=> c.ta.due = 0) /\ (d.tb.due = 0 <=> c.tb.due = 0)
  BY DEF Set, Armed
<1>6. Owes(d.ta) <=> Owes(c.ta)
  <2>1. Set(c.ta, d.ta) => ~ Owes(c.ta) /\ ~ Owes(d.ta)
    BY <1>1, OwesFacts DEF Set, Armed, Good
  <2> QED BY <2>1
<1>7. Owes(d.tb) <=> Owes(c.tb)
  <2>1. Set(c.tb, d.tb) => ~ Owes(c.tb) /\ ~ Owes(d.tb)
    BY <1>1, OwesFacts DEF Set, Armed, Good
  <2> QED BY <2>1
<1>8. Due(d) = Due(c) /\ Late(d) = Late(c)
  BY <1>5, <1>6, <1>7 DEF Due, Late
<1>9. Fit(d)
  <2>1. AlarmsDue(d) => d.ifr >= 0
    BY <1>1, <1>5 DEF Fit, AlarmsDue, SameIrq
  <2> QED BY <1>2, <1>3, <1>4, <2>1 DEF Fit, Alone
<1>10. Irq(d) /\ Present(d) = Present(c) /\ Whole(d) = Whole(c)
  BY <1>8, <1>9, PutTells
<1>11. Cover(c) => Cover(d)
  BY <1>10 DEF Cover, Set
<1> QED BY <1>8, <1>10, <1>11 DEF TellsIrq

\* It leaves the end of a handler as it is.
LEMMA SetEnd ==
  ASSUME NEW c, NEW d, End(c), d.ifr = c.ifr, d.delay = c.delay, d.line = c.line, d.idle = c.idle,
         d.ta = c.ta \/ Set(c.ta, d.ta), d.tb = c.tb \/ Set(c.tb, d.tb)
  PROVE  End(d)
<1>1. AlarmsDue(d) <=> AlarmsDue(c)
  BY DEF Set, Armed, AlarmsDue
<1> QED BY <1>1 DEF End, Ready

\* An access to a timer's counter, and the first part of writing a latch.
LEMMA AccessTimerIrq ==
  ASSUME NEW c, Turn(c)
  PROVE  /\ TellsIrq(c, AccessTa(c)) /\ (Irq(c) => End(AccessTa(c)))
         /\ TellsIrq(c, AccessTb(c)) /\ (Irq(c) => End(AccessTb(c)))
<1>1. Good(c) /\ c.ifr >= 0
  BY DEF Turn
<1>2. UpdateTa(c).ifr >= 0 /\ UpdateTb(c).ifr >= 0
  BY <1>1, UpdateTaFacts, UpdateTbFacts DEF After, IfrKept
<1>3. TellsIrq(c, UpdateTa(c)) /\ TellsIrq(c, UpdateTb(c))
  BY UpdateTaIrq, UpdateTbIrq
<1>4. /\ TellsIrq(UpdateTa(c), AccessTa(c)) /\ (Irq(UpdateTa(c)) => End(AccessTa(c)))
      /\ TellsIrq(UpdateTb(c), AccessTb(c)) /\ (Irq(UpdateTb(c)) => End(AccessTb(c)))
  BY <1>2, IfrTellsIrq DEF AccessTa, AccessTb
<1>5. Irq(c) => Irq(UpdateTa(c)) /\ Irq(UpdateTb(c))
  BY <1>3 DEF TellsIrq
<1> QED BY <1>3, <1>4, <1>5, TellsTellsIrq

\* Writing a latch.
LEMMA LatchIrq ==
  ASSUME NEW c, Turn(c), NEW d, NEW t, Armed(t), Watched(t), "STEP" \notin t.bits,
         \/ d = [AccessTa(c) EXCEPT !.ta = t]
         \/ d = [AccessTb(c) EXCEPT !.tb = t]
  PROVE  TellsIrq(c, d) /\ (Irq(c) => End(d))
<1> SUFFICES ASSUME Irq(c) PROVE TellsIrq(c, d) /\ End(d)
  BY DEF TellsIrq
<1>1. t \in Timer /\ 0 \in 0 .. 1
  BY DEF Armed, Sound
<1>2. CASE d = [AccessTa(c) EXCEPT !.ta = t]
  <2> DEFINE e == AccessTa(c)
  <2>1. TellsIrq(c, e) /\ End(e) /\ Armed(e.ta) /\ Irq(e) /\ d = [e EXCEPT !.ta = t]
    BY <1>2, AccessTimer, AccessTimerIrq DEF TellsIrq
  <2> HIDE DEF e
  <2>2. e \in Chip /\ "INMODE_TA" \notin e.crb
    BY <2>1 DEF Irq, Fit, Good, Alone
  <2>3. Set(e.ta, t)
    BY <2>1 DEF Armed, Set
  <2>4. SameIrq(e, d)
    BY <1>1, <2>1, <2>2, SameIrqPut
  <2>5. /\ d \in Chip /\ d.ta = t /\ d.tb = e.tb /\ d.crb = e.crb
        /\ d.ifr = e.ifr /\ d.delay = e.delay /\ d.line = e.line /\ d.idle = e.idle
    BY <1>1, <2>1, <2>2 DEF Chip
  <2>6. TellsIrq(e, d)
    BY <2>2, <2>3, <2>4, <2>5, SetTells
  <2>7. End(d)
    BY <2>1, <2>3, <2>5, SetEnd
  <2> QED BY <2>1, <2>6, <2>7, TellsTellsIrq
<1>3. CASE d = [AccessTb(c) EXCEPT !.tb = t]
  <2> DEFINE e == AccessTb(c)
  <2>1. TellsIrq(c, e) /\ End(e) /\ Armed(e.tb) /\ Irq(e) /\ d = [e EXCEPT !.tb = t]
    BY <1>3, AccessTimer, AccessTimerIrq DEF TellsIrq
  <2> HIDE DEF e
  <2>2. e \in Chip /\ "INMODE_TA" \notin e.crb
    BY <2>1 DEF Irq, Fit, Good, Alone
  <2>3. Set(e.tb, t)
    BY <2>1 DEF Armed, Set
  <2>4. SameIrq(e, d)
    BY <1>1, <2>1, <2>2, SameIrqPut
  <2>5. /\ d \in Chip /\ d.tb = t /\ d.ta = e.ta /\ d.crb = e.crb
        /\ d.ifr = e.ifr /\ d.delay = e.delay /\ d.line = e.line /\ d.idle = e.idle
    BY <1>1, <2>1, <2>2 DEF Chip
  <2>6. TellsIrq(e, d)
    BY <2>2, <2>3, <2>4, <2>5, SetTells
  <2>7. End(d)
    BY <2>1, <2>3, <2>5, SetEnd
  <2> QED BY <2>1, <2>6, <2>7, TellsTellsIrq
<1> QED BY <1>2, <1>3

\* A stored timer has its alarm set (the calls of ciat_set_alarm).
LEMMA AlarmWatched ==
  ASSUME NEW x \in Timer, SetAlarm(x) \in Timer
  PROVE  Watched(SetAlarm(x))
<1> DEFINE v == NextUnderflow(x)
           u == [x EXCEPT !.due = v]
<1>1. u \in Timer /\ SetAlarm(x) = u
  BY DEF SetAlarm
<1> HIDE DEF v
<1>2. u.due = v /\ Alike(u, x)
  BY DEF Timer, Alike
<1> HIDE DEF u
<1>3. NextUnderflow(u) = NextUnderflow(x)
  BY <1>1, <1>2, AlikeUnderflow
<1>4. NextUnderflow(u) = u.due
  BY <1>2, <1>3 DEF v
<1> QED BY <1>1, <1>4 DEF Watched

LEMMA LatchWatched ==
  ASSUME NEW tm, Armed(tm), Settled(tm), NEW byte \in 0 .. LoSize - 1
  PROVE  Watched(SetLatchHi(tm, byte)) /\ Watched(SetLatchLo(tm, byte))
<1>1. tm \in Timer
  BY DEF Armed, Sound
<1>2. Watched(SetLatchHi(tm, byte))
  <2> DEFINE l == (tm.latch % LoSize) + (byte * LoSize)
             k == IF "LOAD" \in tm.bits \/ "START" \notin tm.bits THEN l ELSE tm.cnt
             x == [tm EXCEPT !.latch = l, !.cnt = k]
             u == SetLatchHi(tm, byte)
  <2>1. u = SetAlarm(x)
    BY Zenon DEF SetLatchHi
  <2>2. Armed(u) /\ u.latch = l /\ u.cnt = k
    BY SetLatchHiFacts
  <2>3. u \in Timer
    BY <2>2 DEF Armed, Sound
  <2> HIDE DEF u
  <2>4. l \in 0 .. Width - 1 /\ k \in 0 .. Width - 1
    BY <2>2, <2>3 DEF Timer
  <2> HIDE DEF l, k
  <2>5. x \in Timer
    BY <1>1, <2>4, LatchPut
  <2> HIDE DEF x
  <2>6. Watched(u)
    BY <2>1, <2>3, <2>5, AlarmWatched
  <2> QED BY <2>6 DEF u
<1>3. Watched(SetLatchLo(tm, byte))
  <2> DEFINE l == (tm.latch \div LoSize) * LoSize + byte
             k == IF "LOAD" \in tm.bits THEN (tm.cnt \div LoSize) * LoSize + byte ELSE tm.cnt
             x == [tm EXCEPT !.latch = l, !.cnt = k]
             u == SetLatchLo(tm, byte)
  <2>1. u = SetAlarm(x)
    BY Zenon DEF SetLatchLo
  <2>2. Armed(u) /\ u.latch = l /\ u.cnt = k
    BY SetLatchLoFacts
  <2>3. u \in Timer
    BY <2>2 DEF Armed, Sound
  <2> HIDE DEF u
  <2>4. l \in 0 .. Width - 1 /\ k \in 0 .. Width - 1
    BY <2>2, <2>3 DEF Timer
  <2> HIDE DEF l, k
  <2>5. x \in Timer
    BY <1>1, <2>4, LatchPut
  <2> HIDE DEF x
  <2>6. Watched(u)
    BY <2>1, <2>3, <2>5, AlarmWatched
  <2> QED BY <2>6 DEF u
<1> QED BY <1>2, <1>3

LEMMA CtrlSet ==
  ASSUME NEW tm, Armed(tm), Settled(tm), "STEP" \notin tm.bits, NEW byte
  PROVE  Set(tm, SetCtrl(tm, byte))
<1> DEFINE b == (tm.bits \ CrBits) \cup (byte \cap {"START", "CR_ONESHOT", "FLOAD"})
                  \cup {y \in {"PHI2IN"} : "CNT" \notin byte}
           x == [tm EXCEPT !.bits = b]
           u == SetCtrl(tm, byte)
<1>1. u = SetAlarm(x)
  BY Zenon DEF SetCtrl
<1>2. Armed(u) /\ u.bits = b
  BY SetCtrlFacts
<1>3. u \in Timer /\ tm \in Timer
  BY <1>2 DEF Armed, Sound
<1> HIDE DEF u
<1>4. b \in SUBSET Bits
  BY <1>2, <1>3 DEF Timer
<1>5. "STEP" \notin b
  OBVIOUS
<1> HIDE DEF b
<1>6. x \in Timer
  BY <1>3, <1>4 DEF Timer
<1> HIDE DEF x
<1>7. Watched(u)
  BY <1>1, <1>3, <1>6, AlarmWatched
<1> QED BY <1>2, <1>5, <1>7 DEF Set, Armed, u

\* Writing control register A, ...
LEMMA StoreCraIrq ==
  ASSUME NEW c, Turn(c), NEW byte \in SUBSET ControlBits
  PROVE  TellsIrq(c, StoreCra(c, byte)) /\ (Irq(c) => End(StoreCra(c, byte)))
<1> SUFFICES ASSUME Irq(c)
             PROVE  TellsIrq(c, StoreCra(c, byte)) /\ End(StoreCra(c, byte))
  BY DEF TellsIrq
<1> DEFINE starts == "START" \in byte /\ "START" \notin c.cra
           d == UpdateTa(c)
           o == 1
           p == IF starts THEN o ELSE d.tat
           t == SetCtrl(d.ta, byte)
           b == byte \ {"FLOAD"}
           e == [d EXCEPT !.tat = p, !.ta = t, !.cra = b]
<1>1. StoreCra(c, byte) = Ifr(e)
  BY Zenon DEF StoreCra
<1>2. Good(c) /\ c.ifr >= 0
  BY DEF Turn
<1>3. After(c, d) /\ Armed(d.ta)
  BY <1>2, UpdateTaFacts
<1>4. Settled(d.ta)
  BY <1>3, LaterArmed DEF After, Armed, Turn
<1>5. TellsIrq(c, d) /\ Irq(d)
  BY UpdateTaIrq DEF TellsIrq
<1> HIDE DEF d
<1>6. Set(d.ta, t)
  <2>1. "STEP" \notin d.ta.bits
    BY <1>5 DEF Irq, Fit
  <2> QED BY <1>3, <1>4, <2>1, CtrlSet
<1> HIDE DEF t
<1>7. d \in Chip /\ t \in Timer /\ b \in SUBSET ControlBits /\ d.ifr >= 0
  BY <1>2, <1>3, <1>6 DEF After, Good, Set, Armed, Sound, IfrKept
<1>8. p \in 0 .. 1
  BY <1>7 DEF Chip
<1> HIDE DEF p, b
<1>9. /\ e \in Chip /\ e.ta = t /\ e.tb = d.tb /\ e.crb = d.crb /\ SameIrq(d, e) /\ e.ifr = d.ifr
  BY <1>7, <1>8 DEF Chip, SameIrq, Reg
<1> HIDE DEF e
<1>10. "INMODE_TA" \notin e.crb
  BY <1>5, <1>9 DEF Irq, Fit, Alone
<1>11. TellsIrq(d, e)
  BY <1>6, <1>9, <1>10, SetTells
<1>12. TellsIrq(c, e) /\ Irq(e)
  BY <1>5, <1>11, TellsTellsIrq DEF TellsIrq
<1>13. TellsIrq(e, Ifr(e)) /\ End(Ifr(e))
  BY <1>7, <1>9, <1>12, IfrTellsIrq
<1> QED BY <1>1, <1>12, <1>13, TellsTellsIrq

\* ... and B, in a program that does not make it count A.
LEMMA StoreCrbIrq ==
  ASSUME NEW c, Turn(c), NEW byte \in SUBSET ControlBits, "INMODE_TA" \notin byte
  PROVE  TellsIrq(c, StoreCrb(c, byte)) /\ (Irq(c) => End(StoreCrb(c, byte)))
<1> SUFFICES ASSUME Irq(c)
             PROVE  TellsIrq(c, StoreCrb(c, byte)) /\ End(StoreCrb(c, byte))
  BY DEF TellsIrq
<1> DEFINE starts == "START" \in byte /\ "START" \notin c.crb
           o == 1
           p == IF starts THEN o ELSE c.tbt
           a == [c EXCEPT !.tbt = p]
           d == UpdateTb(UpdateTa(a))
           chain == "INMODE_TA" \in byte
           s == IF chain THEN SetAlarm(d.ta) ELSE d.ta
           t == SetCtrl(d.tb, IF chain THEN byte \cup {"CNT"} ELSE byte)
           b == byte \ {"FLOAD"}
           e == [d EXCEPT !.ta = s, !.tb = t, !.crb = b]
<1>1. StoreCrb(c, byte) = Ifr(e)
  BY Zenon DEF StoreCrb
<1>2. Good(c) /\ c.ifr >= 0 /\ c \in Chip
  BY DEF Turn, Good
<1>3. p \in 0 .. 1
  BY <1>2 DEF Chip
<1> HIDE DEF p
<1>4. a \in Chip /\ a.ta = c.ta /\ a.tb = c.tb /\ a.ifr = c.ifr /\ a.crb = c.crb /\ SameIrq(c, a)
  BY <1>2, <1>3 DEF Chip, SameIrq, Reg
<1> HIDE DEF a
<1>5. Good(a)
  BY <1>2, <1>4 DEF Good
<1>6. TellsIrq(c, a)
  <2>1. "INMODE_TA" \notin a.crb
    BY <1>4 DEF Irq, Fit, Alone
  <2> QED BY <1>4, <2>1, SetTells
<1>7. After(a, d) /\ Armed(d.ta) /\ Armed(d.tb)
  BY <1>5, UpdateBothFacts
<1>8. Settled(d.tb)
  BY <1>4, <1>7, LaterArmed DEF After, Armed, Turn
<1>9. TellsIrq(a, d)
  BY UpdateTaIrq, UpdateTbIrq, TellsTellsIrq
<1> HIDE DEF d
<1>10. TellsIrq(c, d) /\ Irq(d)
  BY <1>6, <1>9, TellsTellsIrq DEF TellsIrq
<1>11. Set(d.tb, t)
  <2>1. "STEP" \notin d.tb.bits
    BY <1>10 DEF Irq, Fit, Alone
  <2> QED BY <1>7, <1>8, <2>1, CtrlSet
<1>12. s = d.ta
  OBVIOUS
<1> HIDE DEF s, t
<1>13. d \in Chip /\ s \in Timer /\ t \in Timer /\ b \in SUBSET ControlBits /\ d.ifr >= 0
  BY <1>2, <1>4, <1>7, <1>11, <1>12 DEF After, Good, Set, Armed, Sound, IfrKept
<1>14. "INMODE_TA" \notin b
  OBVIOUS
<1> HIDE DEF b
<1>15. /\ e \in Chip /\ e.ta = s /\ e.tb = t /\ e.crb = b /\ SameIrq(d, e) /\ e.ifr = d.ifr
  BY <1>13 DEF Chip, SameIrq, Reg
<1> HIDE DEF e
<1>16. TellsIrq(d, e)
  BY <1>11, <1>12, <1>14, <1>15, SetTells
<1>17. TellsIrq(c, e) /\ Irq(e)
  BY <1>10, <1>16, TellsTellsIrq DEF TellsIrq
<1>18. TellsIrq(e, Ifr(e)) /\ End(Ifr(e))
  BY <1>13, <1>15, <1>17, IfrTellsIrq
<1> QED BY <1>1, <1>17, <1>18, TellsTellsIrq

\* The callbacks of the alarms: of the timers, ...
LEMMA EntriesIrq ==
  ASSUME NEW c, Good(c), c.ifr >= 0
  PROVE  /\ c.ta.due = 0 => TellsIrq(c, InttaEntry(c)) /\ (Irq(c) => End(InttaEntry(c)))
         /\ c.tb.due = 0 => TellsIrq(c, InttbEntry(c)) /\ (Irq(c) => End(InttbEntry(c)))
<1>1. Intta(c).ifr >= 0 /\ Inttb(c).ifr >= 0
  BY InttaFacts, InttbFacts DEF After, IfrKept
<1>2. /\ TellsIrq(Intta(c), InttaEntry(c)) /\ (Irq(Intta(c)) => End(InttaEntry(c)))
      /\ TellsIrq(Inttb(c), InttbEntry(c)) /\ (Irq(Inttb(c)) => End(InttbEntry(c)))
  BY <1>1, IfrTellsIrq DEF InttaEntry, InttbEntry
<1>3. CASE c.ta.due = 0
  <2>1. TellsIrq(c, Intta(c))
    BY <1>3, InttaIrq
  <2>2. TellsIrq(c, InttaEntry(c)) /\ (Irq(c) => End(InttaEntry(c)))
    BY <1>2, <2>1, TellsTellsIrq DEF TellsIrq
  <2>3. c.tb.due = 0 => TellsIrq(c, Inttb(c))
    BY InttbIrq
  <2>4. c.tb.due = 0 => TellsIrq(c, InttbEntry(c)) /\ (Irq(c) => End(InttbEntry(c)))
    BY <1>2, <2>3, TellsTellsIrq DEF TellsIrq
  <2> QED BY <2>2, <2>4
<1>4. CASE c.ta.due # 0
  <2>3. c.tb.due = 0 => TellsIrq(c, Inttb(c))
    BY InttbIrq
  <2>4. c.tb.due = 0 => TellsIrq(c, InttbEntry(c)) /\ (Irq(c) => End(InttbEntry(c)))
    BY <1>2, <2>3, TellsTellsIrq DEF TellsIrq
  <2> QED BY <1>4, <2>4
<1> QED BY <1>3, <1>4

\* (an underflow told after the register has been computed leaves the line and the delays)
LEMMA FlagLater ==
  ASSUME NEW c \in Chip, c.ifr <= 0, NEW bits \in SUBSET Flags
  PROVE  LET e == SetIrqFlag(c, bits) IN e \in Chip /\ e.delay = c.delay /\ e.line = c.line
<1>1. IfrCatchup(c) = c
  <2>1. c.ifr \in Int
    BY DEF Chip
  <2>2. ~ (c.ifr > 0)
    BY <2>1
  <2> QED BY <2>2 DEF IfrCatchup
<1> DEFINE f == c.irqflags \cup bits
           n == c.new \cup bits
           a == c.ack \ bits
<1>2. SetIrqFlag(c, bits) = [c EXCEPT !.irqflags = f, !.new = n, !.ack = a]
  BY <1>1, Zenon DEF SetIrqFlag
<1>3. f \in SUBSET Flags /\ n \in SUBSET Flags /\ a \in SUBSET Flags
  BY DEF Chip
<1> HIDE DEF f, n, a
<1> QED BY <1>2, <1>3 DEF Chip

LEMMA UpdateLater ==
  ASSUME NEW c, Good(c), c.ifr <= 0, ~ AlarmsDue(c)
  PROVE  /\ UpdateTa(c).delay = c.delay /\ UpdateTa(c).line = c.line
         /\ ~ Chained(c) => UpdateTb(c).delay = c.delay /\ UpdateTb(c).line = c.line
<1>1. c \in Chip /\ Sound(c.ta) /\ Sound(c.tb) /\ c.ta.due # 0 /\ c.tb.due # 0
  BY DEF Good, AlarmsDue
<1>2. UpdateTa(c).delay = c.delay /\ UpdateTa(c).line = c.line
  <2> DEFINE u == Update(c.ta)
             t == [u EXCEPT !.n = 0]
             d == [c EXCEPT !.ta = t]
             e == SetIrqFlag(d, {"TA"})
             k == (e.tat + u.n) % 2
  <2>1. DoUpdateTa(c) = IF u.n = 0 THEN d ELSE [e EXCEPT !.tat = k]
    BY Zenon DEF DoUpdateTa, TaUpdated
  <2>2. t \in Timer
    BY <1>1, ComputedFacts DEF Computed, Sound
  <2> HIDE DEF t
  <2>3. d \in Chip /\ d.ifr <= 0 /\ d.delay = c.delay /\ d.line = c.line
    BY <1>1, <2>2 DEF Chip
  <2> HIDE DEF d
  <2>4. {"TA"} \in SUBSET Flags
    BY DEF Flags
  <2>5. e \in Chip /\ e.delay = c.delay /\ e.line = c.line
    BY <2>3, <2>4, FlagLater
  <2> HIDE DEF e, k
  <2>6. [e EXCEPT !.tat = k].delay = c.delay /\ [e EXCEPT !.tat = k].line = c.line
    BY <2>5 DEF Chip
  <2>7. UpdateTa(c) = DoUpdateTa(c)
    BY <1>1 DEF UpdateTa
  <2> QED BY <2>1, <2>3, <2>6, <2>7
<1>3. ~ Chained(c) => UpdateTb(c).delay = c.delay /\ UpdateTb(c).line = c.line
  <2> DEFINE u == Update(c.tb)
             t == [u EXCEPT !.n = 0]
             d == [c EXCEPT !.tb = t]
             e == SetIrqFlag(d, {"TB"})
             k == (e.tbt + u.n) % 2
             f == IF TimerBBug(c) THEN e.irqflags \cup {"TBB"} ELSE e.irqflags \ {"TBB"}
  <2>1. DoUpdateTb(c) = IF u.n = 0 THEN d ELSE [e EXCEPT !.irqflags = f, !.tbt = k]
    BY Zenon DEF DoUpdateTb, TbUpdated
  <2>2. t \in Timer
    BY <1>1, ComputedFacts DEF Computed, Sound
  <2> HIDE DEF t
  <2>3. d \in Chip /\ d.ifr <= 0 /\ d.delay = c.delay /\ d.line = c.line
    BY <1>1, <2>2 DEF Chip
  <2> HIDE DEF d
  <2>4. {"TB"} \in SUBSET Flags
    BY DEF Flags
  <2>5. e \in Chip /\ e.delay = c.delay /\ e.line = c.line
    BY <2>3, <2>4, FlagLater
  <2> HIDE DEF e, k, f
  <2>6. /\ [e EXCEPT !.irqflags = f, !.tbt = k].delay = c.delay
        /\ [e EXCEPT !.irqflags = f, !.tbt = k].line = c.line
    BY <2>5 DEF Chip
  <2>7. ~ Chained(c) => UpdateTb(c) = DoUpdateTb(c)
    BY <1>1 DEF UpdateTb, UpdateTbOnly
  <2> QED BY <2>1, <2>3, <2>6, <2>7
<1> QED BY <1>2, <1>3

\* ... and the idle alarm.
LEMMA IdleEntryIrq ==
  ASSUME NEW c, Good(c), c.ifr >= -1, c.idle = 0, c.ifr = -1 => Ready(c)
  PROVE  TellsIrq(c, IdleEntry(c)) /\ (Irq(c) => End(IdleEntry(c)))
<1> SUFFICES ASSUME Irq(c)
             PROVE  TellsIrq(c, IdleEntry(c)) /\ End(IdleEntry(c))
  BY DEF TellsIrq
<1> DEFINE b == UpdateTa(c)
           d == UpdateTb(b)
           e == [d EXCEPT !.idle = MaxIdle]
           f == IfrCatchup(e)
<1>1. TellsIrq(c, b) /\ Irq(b)
  BY UpdateTaIrq DEF TellsIrq
<1>2. After(c, b) /\ Armed(b.ta)
  BY UpdateTaFacts
<1>3. TellsIrq(c, d) /\ Irq(d)
  BY <1>1, UpdateTbIrq, TellsTellsIrq DEF TellsIrq
<1>4. After(c, d) /\ Armed(d.ta) /\ Armed(d.tb)
  BY UpdateBothFacts
<1>5. c.ifr = -1 => d.delay = c.delay /\ d.line = c.line
  <2> SUFFICES ASSUME c.ifr = -1 PROVE d.delay = c.delay /\ d.line = c.line
    OBVIOUS
  <2>1. ~ AlarmsDue(c) /\ c.ifr <= 0
    BY DEF Irq, Fit
  <2>2. b.delay = c.delay /\ b.line = c.line
    BY <2>1, UpdateLater
  <2>3. Good(b) /\ b.ifr = -1
    <3>1. Tolds(c, b, "TA") \/ SameIrq(c, b)
      <4>1. b = DoUpdateTa(c)
        BY <2>1 DEF UpdateTa, AlarmsDue
      <4> QED BY <4>1, TaTold DEF Irq, Good
    <3> QED BY <1>2, <3>1 DEF Tolds, SameIrq, After
  <2>4. ~ AlarmsDue(b) /\ b.ifr <= 0
    BY <1>1, <2>3 DEF Irq, Fit
  <2>5. ~ Chained(b)
    BY <1>1 DEF Irq, Fit, Alone, Chained
  <2> HIDE DEF b
  <2> QED BY <2>2, <2>3, <2>4, <2>5, UpdateLater
<1> HIDE DEF d
<1>6. d \in Chip /\ d.ifr >= -1 /\ (d.ifr = -1 => c.ifr = -1)
  <2>1. c.ifr \in Int
    BY DEF Good, Chip
  <2> QED BY <1>4, <2>1 DEF After, IfrKept, Good
<1>7. MaxIdle \in Nat
  BY Limits
<1>8. /\ e \in Chip /\ e.idle = MaxIdle /\ e.ta = d.ta /\ e.tb = d.tb /\ e.crb = d.crb
      /\ SameIrq(d, e) /\ e.ifr = d.ifr /\ e.delay = d.delay /\ e.line = d.line
  BY <1>6, <1>7 DEF Chip, SameIrq, Reg
<1> HIDE DEF e
<1>9. TellsIrq(d, e)
  BY <1>3, <1>8, SetTells DEF Irq, Fit, Alone
<1>10. TellsIrq(e, f)
  BY CatchupTells
<1>11. TellsIrq(c, f) /\ Irq(f)
  <2>1. TellsIrq(c, f)
    BY <1>3, <1>9, <1>10, TellsTellsIrq
  <2> QED BY <2>1 DEF TellsIrq
<1>12. Same(e, f) /\ f.ifr = IF e.ifr > 0 THEN 0 ELSE e.ifr
  BY <1>8, IfrCatchupFacts
<1>13. IdleEntry(c) = IfrOnce(f)
  BY DEF IdleEntry, f, e, d, b
<1>14. ~ AlarmsDue(f)
  BY <1>4, <1>8, <1>12 DEF Same, KeepsA, KeepsB, AlarmsDue, Armed
<1>15. CASE f.ifr = 0
  <2> HIDE DEF f
  <2> DEFINE g == IfrNow(f)
  <2>1. TellsIrq(f, g) /\ Irq(g)
    BY <1>11, <1>15, NowTells DEF TellsIrq
  <2>2. g.ifr = -1
    BY <1>11, <1>14, <1>15, IfrNowFacts DEF Irq, Fit, Good
  <2> HIDE DEF g
  <2>3. TellsIrq(g, IfrNext(g)) /\ End(IfrNext(g))
    BY <2>1, <2>2, NextTells
  <2>4. IfrOnce(f) = IfrNext(g)
    BY <1>15 DEF IfrOnce, g
  <2> QED BY <1>11, <1>13, <2>1, <2>3, <2>4, TellsTellsIrq
<1>16. CASE f.ifr # 0
  <2>1. IfrOnce(f) = f
    BY <1>16 DEF IfrOnce
  <2>2. e.ifr = -1 /\ f.ifr = -1 /\ c.ifr = -1
    <3>1. e.ifr \in Int
      BY <1>8 DEF Chip
    <3> QED BY <1>6, <1>8, <1>12, <1>16, <3>1
  <2>3. f = e
    <3>1. ~ (e.ifr > 0)
      BY <2>2
    <3> QED BY <3>1 DEF IfrCatchup
  <2>4. Ready(f)
    BY <1>5, <1>8, <2>2, <2>3 DEF Ready
  <2>5. End(f)
    BY <2>2, <2>4 DEF End
  <2> QED BY <1>11, <1>13, <2>1, <2>5
<1> QED BY <1>15, <1>16

\* The register after the mask has been written to it, ...
Masked(q, k) ==
  [mask |-> k, flags |-> q.flags, new |-> q.new, ack |-> q.ack, on |-> q.on,
   delay |-> IF q.flags \cap k # {}
             THEN IF q.on THEN q.delay
                  ELSE q.delay \cup (IF model = "old" THEN {"RAISE1", "D7SET1"}
                                     ELSE IF "READ1" \in q.delay THEN {}
                                     ELSE {"RAISE0", "D7SET0"})
             ELSE IF model = "old" /\ "ACK_1" \in q.delay THEN q.delay \ {"RAISE0", "D7SET0"}
             ELSE q.delay]
\* what is read of it, and what is left of it.
Result(q) ==
  LET known == IF "TBB" \in q.flags THEN q.flags \ {"TBB", "TB"} ELSE q.flags
  IN  IF model = "new" /\ "RAISE0" \in q.delay /\ known \cap {"TA", "TB"} # {}
      THEN known \cup {"SET"} ELSE known
Cleared(q) ==
  LET known == Result(q) IN
  [mask |-> q.mask, new |-> IF model = "new" THEN q.new ELSE {}, on |-> FALSE,
   flags |-> IF model = "new" THEN known ELSE known \cap {"SET"},
   ack |-> IF model = "new" /\ known # {} THEN q.ack \cup known \cup {"SET"} ELSE q.ack,
   delay |-> (q.delay \cup {"ACK1", "READ0"})
               \ (IF model = "new" THEN {"RAISE0", "D7SET0"} ELSE {"RAISE0"})]

LEMMA MaskedType ==
  ASSUME NEW q \in Regs, NEW k \in SUBSET {"TA", "TB"}
  PROVE  /\ Masked(q, k) \in Regs
         /\ Masked(q, k).mask = k /\ Masked(q, k).flags = q.flags /\ Masked(q, k).new = q.new
         /\ Masked(q, k).ack = q.ack /\ Masked(q, k).on = q.on
         /\ \A b : b \in Masked(q, k).delay <=>
              LET due == q.flags \cap k # {} IN
              \/ b \in q.delay /\ (due \/ ~ (model = "old" /\ "ACK_1" \in q.delay)
                                   \/ b \notin {"RAISE0", "D7SET0"})
              \/ due /\ ~ q.on /\ model = "old" /\ b \in {"RAISE1", "D7SET1"}
              \/ due /\ ~ q.on /\ model # "old" /\ "READ1" \notin q.delay /\ b \in {"RAISE0", "D7SET0"}
<1> DEFINE due == q.flags \cap k # {}
           raise == IF model = "old" THEN {"RAISE1", "D7SET1"}
                    ELSE IF "READ1" \in q.delay THEN {} ELSE {"RAISE0", "D7SET0"}
           delay == IF due
             THEN IF q.on THEN q.delay ELSE q.delay \cup raise
             ELSE IF model = "old" /\ "ACK_1" \in q.delay THEN q.delay \ {"RAISE0", "D7SET0"}
             ELSE q.delay
<1>1. Masked(q, k) = [mask |-> k, flags |-> q.flags, new |-> q.new, ack |-> q.ack, on |-> q.on,
                      delay |-> delay]
  BY DEF Masked
<1>2. \A b : b \in delay <=>
              \/ b \in q.delay /\ (due \/ ~ (model = "old" /\ "ACK_1" \in q.delay)
                                   \/ b \notin {"RAISE0", "D7SET0"})
              \/ due /\ ~ q.on /\ model = "old" /\ b \in {"RAISE1", "D7SET1"}
              \/ due /\ ~ q.on /\ model # "old" /\ "READ1" \notin q.delay /\ b \in {"RAISE0", "D7SET0"}
  <2> HIDE DEF due
  <2>1. CASE due
    BY <2>1
  <2>2. CASE ~ due
    BY <2>2
  <2> QED BY <2>1, <2>2
<1>3. q.delay \in SUBSET DelayBits
  BY DEF Regs
<1>4. delay \in SUBSET DelayBits
  <2>1. {"RAISE1", "D7SET1", "RAISE0", "D7SET0"} \subseteq DelayBits
    BY DEF DelayBits
  <2> QED BY <1>2, <1>3, <2>1
<1> HIDE DEF delay
<1>5. Masked(q, k) \in Regs
  BY <1>1, <1>4 DEF Regs
<1> QED BY <1>1, <1>2, <1>5

\* Two registers nobody can tell apart take a mask the same way.
LEMMA MaskedView ==
  ASSUME NEW p \in Regs, NEW q \in Regs, View(p) = View(q), NEW k \in SUBSET {"TA", "TB"}
  PROVE  View(Masked(p, k)) = View(Masked(q, k))
<1> DEFINE u == Masked(p, k)
           v == Masked(q, k)
           due == q.flags \cap k # {}
<1>1. /\ p.mask = q.mask /\ p.flags = q.flags /\ p.ack = q.ack /\ p.on = q.on
      /\ \A b \in DelayBits \ {"RAISE0", "D7SET0"} : b \in p.delay <=> b \in q.delay
      /\ Asserted(p) <=> Asserted(q)
      /\ ~ Asserted(p) => ("RAISE0" \in p.delay <=> "RAISE0" \in q.delay)
      /\ ~ ("SET" \in p.flags /\ "ACK0" \notin p.delay) =>
           ("D7SET0" \in p.delay <=> "D7SET0" \in q.delay)
  BY NearAlike
<1>2. /\ "ACK_1" \in p.delay <=> "ACK_1" \in q.delay
      /\ "READ1" \in p.delay <=> "READ1" \in q.delay
      /\ "ACK0" \in p.delay <=> "ACK0" \in q.delay
      /\ "ACK1" \in p.delay <=> "ACK1" \in q.delay
  BY <1>1 DEF DelayBits
<1>3. /\ u \in Regs /\ u.mask = k /\ u.flags = p.flags /\ u.ack = p.ack /\ u.on = p.on
      /\ \A b : b \in u.delay <=>
              \/ b \in p.delay /\ (due \/ ~ (model = "old" /\ "ACK_1" \in p.delay)
                                   \/ b \notin {"RAISE0", "D7SET0"})
              \/ due /\ ~ p.on /\ model = "old" /\ b \in {"RAISE1", "D7SET1"}
              \/ due /\ ~ p.on /\ model # "old" /\ "READ1" \notin p.delay /\ b \in {"RAISE0", "D7SET0"}
  BY <1>1, MaskedType
<1>4. /\ v \in Regs /\ v.mask = k /\ v.flags = q.flags /\ v.ack = q.ack /\ v.on = q.on
      /\ \A b : b \in v.delay <=>
              \/ b \in q.delay /\ (due \/ ~ (model = "old" /\ "ACK_1" \in q.delay)
                                   \/ b \notin {"RAISE0", "D7SET0"})
              \/ due /\ ~ q.on /\ model = "old" /\ b \in {"RAISE1", "D7SET1"}
              \/ due /\ ~ q.on /\ model # "old" /\ "READ1" \notin q.delay /\ b \in {"RAISE0", "D7SET0"}
  BY MaskedType
<1> HIDE DEF u, v, due
<1>5. "ACK0" \in u.delay <=> "ACK0" \in p.delay
  BY <1>3
<1>6. "ACK1" \in u.delay <=> "ACK1" \in p.delay
  BY <1>3
<1>7. Asserted(u) <=> Asserted(p)
  BY <1>3, <1>5, <1>6 DEF Asserted
<1>8. ASSUME NEW b \in DelayBits
      PROVE  \/ b \in u.delay <=> b \in v.delay
             \/ b = "RAISE0" /\ Asserted(u)
             \/ b = "D7SET0" /\ "SET" \in u.flags /\ "ACK0" \notin u.delay
  <2>1. \/ b \in p.delay <=> b \in q.delay
        \/ b = "RAISE0" /\ Asserted(u)
        \/ b = "D7SET0" /\ "SET" \in u.flags /\ "ACK0" \notin u.delay
    BY <1>1, <1>3, <1>5, <1>7
  <2> QED BY <1>1, <1>2, <1>3, <1>4, <2>1
<1>9. View(u) = View(v)
  BY <1>1, <1>3, <1>4, <1>8, ViewIs
<1> QED BY <1>9 DEF u, v

LEMMA ClearedType ==
  ASSUME NEW q \in Regs
  PROVE  /\ Cleared(q) \in Regs /\ Cleared(q).mask = q.mask
         /\ Result(q) \in SUBSET Flags
         /\ q.new = {} => Cleared(q).new = {}
         /\ ~ Cleared(q).on
         /\ Cleared(q).flags = IF model = "new" THEN Result(q) ELSE Result(q) \cap {"SET"}
         /\ Cleared(q).ack = IF model = "new" /\ Result(q) # {} THEN q.ack \cup Result(q) \cup {"SET"}
                             ELSE q.ack
         /\ \A b : b \in Cleared(q).delay <=>
              /\ b \in q.delay \/ b \in {"ACK1", "READ0"}
              /\ b # "RAISE0" /\ (model = "new" => b # "D7SET0")
<1> DEFINE known == Result(q)
           new == IF model = "new" THEN q.new ELSE {}
           flags == IF model = "new" THEN known ELSE known \cap {"SET"}
           ack == IF model = "new" /\ known # {} THEN q.ack \cup known \cup {"SET"} ELSE q.ack
           delay == (q.delay \cup {"ACK1", "READ0"})
                      \ (IF model = "new" THEN {"RAISE0", "D7SET0"} ELSE {"RAISE0"})
<1>1. Cleared(q) = [mask |-> q.mask, new |-> new, on |-> FALSE, flags |-> flags, ack |-> ack,
                    delay |-> delay]
  BY DEF Cleared
<1>2. known \in SUBSET Flags
  BY DEF Regs, Result, Flags
<1> HIDE DEF known
<1>3. q.ack \in SUBSET Flags /\ q.new \in SUBSET Flags /\ q.delay \in SUBSET DelayBits
  BY DEF Regs
<1>4. new \in SUBSET Flags /\ flags \in SUBSET Flags /\ ack \in SUBSET Flags
  BY <1>2, <1>3 DEF Flags
<1>5. delay \in SUBSET DelayBits
  BY <1>3 DEF DelayBits
<1>6. \A b : b \in delay <=>
              /\ b \in q.delay \/ b \in {"ACK1", "READ0"}
              /\ b # "RAISE0" /\ (model = "new" => b # "D7SET0")
  OBVIOUS
<1>7. q.new = {} => new = {}
  OBVIOUS
<1>8. flags = (IF model = "new" THEN known ELSE known \cap {"SET"})
      /\ ack = (IF model = "new" /\ known # {} THEN q.ack \cup known \cup {"SET"} ELSE q.ack)
  OBVIOUS
<1> HIDE DEF new, flags, ack, delay
<1>9. Cleared(q) \in Regs
  BY <1>1, <1>4, <1>5 DEF Regs
<1> QED BY <1>1, <1>2, <1>6, <1>7, <1>8, <1>9 DEF known

\* ... and give the same when they are read.
LEMMA ClearedView ==
  ASSUME NEW p \in Regs, NEW q \in Regs, View(p) = View(q)
  PROVE  Result(p) = Result(q) /\ View(Cleared(p)) = View(Cleared(q))
<1> DEFINE u == Cleared(p)
           v == Cleared(q)
<1>1. /\ p.mask = q.mask /\ p.flags = q.flags /\ p.ack = q.ack /\ p.on = q.on
      /\ \A b \in DelayBits \ {"RAISE0", "D7SET0"} : b \in p.delay <=> b \in q.delay
      /\ Asserted(p) <=> Asserted(q)
      /\ ~ Asserted(p) => ("RAISE0" \in p.delay <=> "RAISE0" \in q.delay)
      /\ ~ ("SET" \in p.flags /\ "ACK0" \notin p.delay) =>
           ("D7SET0" \in p.delay <=> "D7SET0" \in q.delay)
  BY NearAlike
<1>2. "ACK0" \in p.delay <=> "ACK0" \in q.delay
  BY <1>1 DEF DelayBits
<1>3. Result(p) = Result(q)
  <2>1. CASE Asserted(p)
    <3>1. "SET" \in p.flags /\ "SET" \in q.flags
      BY <1>1, <2>1 DEF Asserted
    <3>2. ASSUME NEW r, "SET" \in r.flags
          PROVE  Result(r) = IF "TBB" \in r.flags THEN r.flags \ {"TBB", "TB"} ELSE r.flags
      BY <3>2 DEF Result
    <3> QED BY <1>1, <3>1, <3>2
  <2>2. CASE ~ Asserted(p)
    BY <1>1, <2>2 DEF Result
  <2> QED BY <2>1, <2>2
<1>4. /\ u \in Regs /\ u.mask = p.mask /\ ~ u.on
      /\ u.flags = IF model = "new" THEN Result(p) ELSE Result(p) \cap {"SET"}
      /\ u.ack = IF model = "new" /\ Result(p) # {} THEN p.ack \cup Result(p) \cup {"SET"} ELSE p.ack
      /\ \A b : b \in u.delay <=>
              /\ b \in p.delay \/ b \in {"ACK1", "READ0"}
              /\ b # "RAISE0" /\ (model = "new" => b # "D7SET0")
  BY ClearedType
<1>5. /\ v \in Regs /\ v.mask = q.mask /\ ~ v.on
      /\ v.flags = IF model = "new" THEN Result(q) ELSE Result(q) \cap {"SET"}
      /\ v.ack = IF model = "new" /\ Result(q) # {} THEN q.ack \cup Result(q) \cup {"SET"} ELSE q.ack
      /\ \A b : b \in v.delay <=>
              /\ b \in q.delay \/ b \in {"ACK1", "READ0"}
              /\ b # "RAISE0" /\ (model = "new" => b # "D7SET0")
  BY ClearedType
<1> HIDE DEF u, v
<1>6. u.mask = v.mask /\ u.flags = v.flags /\ u.ack = v.ack /\ u.on = v.on
  <2>1. u.on \in BOOLEAN /\ v.on \in BOOLEAN
    BY <1>4, <1>5 DEF Regs
  <2> QED BY <1>1, <1>3, <1>4, <1>5, <2>1
<1>7. model # "new" /\ "SET" \in p.flags => "SET" \in u.flags
  <2>1. model # "new" /\ "SET" \in p.flags => "SET" \in Result(p)
    BY DEF Result
  <2> QED BY <1>4, <2>1
<1>8. "ACK0" \in u.delay <=> "ACK0" \in p.delay
  BY <1>4
<1>9. ASSUME NEW b \in DelayBits
      PROVE  \/ b \in u.delay <=> b \in v.delay
             \/ b = "RAISE0" /\ Asserted(u)
             \/ b = "D7SET0" /\ "SET" \in u.flags /\ "ACK0" \notin u.delay
  <2>1. CASE b = "D7SET0"
    BY <1>1, <1>2, <1>4, <1>5, <1>7, <1>8, <2>1
  <2>2. CASE b = "RAISE0"
    BY <1>4, <1>5, <2>2
  <2>3. CASE b \notin {"RAISE0", "D7SET0"}
    BY <1>1, <1>4, <1>5, <2>3
  <2> QED BY <2>1, <2>2, <2>3
<1>10. View(u) = View(v)
  BY <1>4, <1>5, <1>6, <1>9, ViewIs
<1> QED BY <1>3, <1>10 DEF u, v

\* A chip computed for the present cycle, its register too (before the ICR is accessed).
Quiet(d) ==
  /\ Irq(d) /\ Now(d) /\ d.ifr = -1 /\ d.new = {} /\ "ACK1" \notin d.delay
  /\ d.line # "next"

\* Nothing is due or late then, and the register is that of the end of the cycle.
LEMMA QuietFacts ==
  ASSUME NEW d, Now(d), d.ifr = -1, Clock(d)
  PROVE  /\ Due(d) = {} /\ Late(d) = {} /\ ~ AlarmsDue(d)
         /\ Past(d) = Reg(d) /\ Present(d) = Reg(d) /\ Whole(d) = Reg(d)
<1>1. ~ Owes(d.ta) /\ ~ Owes(d.tb) /\ d.ta.due # 0 /\ d.tb.due # 0
  BY OwesFacts DEF Now, Armed
<1>2. Due(d) = {} /\ Late(d) = {} /\ ~ AlarmsDue(d)
  BY <1>1 DEF Due, Late, AlarmsDue
<1>3. Past(d) = Reg(d) /\ Present(d) = Reg(d)
  BY PresentFacts
<1>4. Reg(d) \in Regs
  BY RegType DEF Clock
<1>5. Whole(d) = Reg(d)
  BY <1>2, <1>3, <1>4, MarkNone DEF Whole
<1> QED BY <1>2, <1>3, <1>5

LEMMA AccessIcrIrq ==
  ASSUME NEW c, Turn(c), Irq(c)
  PROVE  LET d == AccessIcr(c) IN
         /\ Quiet(d) /\ View(Reg(d)) = View(Whole(c))
         /\ Cover(c) => Cover(d)
<1> DEFINE a == UpdateTb(UpdateTa(c))
           e == IfrCatchup(a)
           d == IfrNow(e)
<1>1. TellsIrq(c, a) /\ Irq(a)
  BY UpdateTaIrq, UpdateTbIrq, TellsTellsIrq DEF TellsIrq
<1>2. After(c, a) /\ Armed(a.ta) /\ Armed(a.tb)
  BY UpdateBothFacts DEF Turn
<1>3. Now(d) /\ d = AccessIcr(c)
  BY AccessIcrFacts DEF AccessIcr
<1> HIDE DEF a
<1>4. TellsIrq(a, e)
  BY CatchupTells
<1>5. a \in Chip /\ a.ifr \in Int /\ a.ifr >= 0 /\ Clock(a)
  BY <1>1, <1>2 DEF After, Good, IfrKept, Turn, Chip, Irq
<1>6. Clock(e) /\ Same(a, e) /\ e.ifr = 0
  BY <1>5, CatchupClock
<1> HIDE DEF e
<1>7. ~ AlarmsDue(e)
  BY <1>2, <1>6 DEF AlarmsDue, Same, KeepsA, KeepsB, Armed
<1>8. TellsIrq(e, d)
  BY <1>6, NowTells
<1>9. d = RunIfrCycle(e)
  BY <1>7 DEF IfrNow
<1>10. d.ifr = -1 /\ d.new = {} /\ "ACK1" \notin d.delay
  BY <1>6, <1>9, RunClock
<1>11. d.line # "next"
  <2>1. e.line # "next" /\ e \in Chip
    BY <1>6 DEF Clock
  <2> QED BY <1>9, <2>1 DEF RunIfrCycle, Chip
<1>12. TellsIrq(c, d)
  BY <1>1, <1>4, <1>8, TellsTellsIrq
<1> HIDE DEF d
<1>13. Irq(d) /\ Clock(d)
  BY <1>12 DEF TellsIrq, Irq
<1>14. Whole(d) = Reg(d)
  BY <1>3, <1>10, <1>13, QuietFacts
<1> QED BY <1>3, <1>10, <1>11, <1>12, <1>13, <1>14 DEF Quiet, TellsIrq

\* The mask is written.
LEMMA MaskWrittenIrq ==
  ASSUME NEW c, Quiet(c), NEW set, NEW byte \in SUBSET {"TA", "TB"}
  PROVE  LET k == IF set THEN c.mask \cup byte ELSE c.mask \ byte
             d == MaskWritten(SetMask(c, set, byte))
         IN  /\ Irq(d) /\ Now(d) /\ d.ifr = -1 /\ Reg(d) = Masked(Reg(c), k)
             /\ k \in SUBSET {"TA", "TB"}
             /\ Cover(c) => Cover(d)
<1> DEFINE k == IF set THEN c.mask \cup byte ELSE c.mask \ byte
           e == [c EXCEPT !.mask = k]
           raise == IF model = "old" THEN {"RAISE1", "D7SET1"}
                    ELSE IF "READ1" \in e.delay THEN {} ELSE {"RAISE0", "D7SET0"}
           delay == IF e.irqflags \cap e.mask # {}
                    THEN IF e.irqEnabled THEN e.delay ELSE e.delay \cup raise
                    ELSE IF model = "old" /\ "ACK_1" \in e.delay
                         THEN e.delay \ {"RAISE0", "D7SET0"}
                    ELSE e.delay
           s == IF "TA" \in e.mask THEN SetAlarm(e.ta) ELSE e.ta
           t == IF "TB" \in e.mask THEN SetAlarm(e.tb) ELSE e.tb
           d == [e EXCEPT !.delay = delay, !.ta = s, !.tb = t]
<1>1. MaskWritten(SetMask(c, set, byte)) = d
  <2>1. SetMask(c, set, byte) = e
    BY Zenon DEF SetMask
  <2> HIDE DEF e
  <2>2. MaskWritten(e) = d
    BY Zenon DEF MaskWritten
  <2> QED BY <2>1, <2>2
<1>2. /\ Irq(c) /\ Now(c) /\ c \in Chip /\ c.ifr = -1 /\ Clock(c) /\ c.new = {}
      /\ Armed(c.ta) /\ Armed(c.tb) /\ "ACK1" \notin c.delay /\ c.line # "next"
  BY DEF Quiet, Irq, Now
<1>3. k \in SUBSET {"TA", "TB"}
  BY <1>2 DEF Chip
<1> HIDE DEF k
<1>4. /\ e \in Chip /\ e.mask = k /\ e.delay = c.delay /\ e.irqflags = c.irqflags /\ e.ta = c.ta
      /\ e.tb = c.tb /\ e.irqEnabled = c.irqEnabled /\ e.ifr = c.ifr /\ e.rdi = c.rdi
      /\ e.new = c.new /\ e.ack = c.ack /\ e.line = c.line /\ e.crb = c.crb
  BY <1>2, <1>3 DEF Chip
<1> HIDE DEF e
<1>5. c.irqEnabled <=> c.line = "on"
  BY <1>2 DEF Clock, Chip
<1>6. delay = Masked(Reg(c), k).delay
  BY <1>4, <1>5 DEF Reg, Masked
<1>7. Reg(c) \in Regs
  BY <1>2, RegType
<1>8. Masked(Reg(c), k) \in Regs /\ Masked(Reg(c), k).new = {}
      /\ ("ACK1" \notin delay)
  <2>1. Reg(c).delay = c.delay /\ Reg(c).new = {}
    BY <1>2 DEF Reg
  <2> QED BY <1>2, <1>3, <1>6, <1>7, <2>1, MaskedType
<1>9. delay \in SUBSET DelayBits
  BY <1>6, <1>8 DEF Regs
<1>10. /\ Armed(s) /\ s.bits = c.ta.bits /\ ("TA" \in k => Watched(s)) /\ ("TA" \notin k => s = c.ta)
       /\ Armed(t) /\ t.bits = c.tb.bits /\ ("TB" \in k => Watched(t)) /\ ("TB" \notin k => t = c.tb)
  BY <1>2, <1>4, SetAlarmFacts, WatchedSet DEF Armed, Rearmed
<1>11. s \in Timer /\ t \in Timer
  BY <1>10 DEF Armed, Sound
<1> HIDE DEF delay, s, t
<1>12. /\ d \in Chip /\ d.mask = k /\ d.delay = delay /\ d.irqflags = c.irqflags /\ d.ta = s
       /\ d.tb = t /\ d.irqEnabled = c.irqEnabled /\ d.ifr = c.ifr /\ d.rdi = c.rdi
       /\ d.new = c.new /\ d.ack = c.ack /\ d.line = c.line /\ d.crb = c.crb
  BY <1>4, <1>9, <1>11 DEF Chip
<1> HIDE DEF d
<1>13. Reg(d) = Masked(Reg(c), k)
  BY <1>6, <1>12 DEF Reg, Masked
<1>14. Clock(d)
  BY <1>2, <1>8, <1>12 DEF Clock
<1>15. Now(d)
  BY <1>2, <1>10, <1>12 DEF Now
<1>16. Due(d) = {} /\ Late(d) = {} /\ ~ AlarmsDue(d) /\ Present(d) = Reg(d)
  BY <1>2, <1>12, <1>14, <1>15, QuietFacts
<1>17. Good(d)
  BY <1>10, <1>12 DEF Good, Armed
<1>18. Fit(d)
  BY <1>2, <1>10, <1>12, <1>16, <1>17 DEF Irq, Fit, Alone
<1>19. Calm(Present(d))
  BY <1>8, <1>13, <1>16 DEF Calm
<1>20. Irq(d)
  BY <1>14, <1>16, <1>18, <1>19 DEF Irq
<1>21. Cover(c) => Cover(d)
  <2> SUFFICES ASSUME Cover(c) PROVE Cover(d)
    OBVIOUS
  <2>1. Present(c) = Reg(c)
    BY <1>2, QuietFacts
  <2>2. /\ Reg(c).ack = c.ack
        /\ Reg(d).ack = c.ack /\ Reg(d).mask = k /\ Reg(d).delay = delay
    BY <1>12 DEF Reg
  <2>3. Watched(d.ta) \/ Free("TA", Present(d))
    <3>1. CASE "TA" \in k
      BY <1>10, <1>12, <3>1
    <3>2. CASE "TA" \notin k
      BY <1>8, <1>10, <1>12, <1>16, <2>1, <2>2, <3>2 DEF Cover, Free
    <3> QED BY <3>1, <3>2
  <2>4. Watched(d.tb) \/ Free("TB", Present(d))
    <3>1. CASE "TB" \in k
      BY <1>10, <1>12, <3>1
    <3>2. CASE "TB" \notin k
      BY <1>8, <1>10, <1>12, <1>16, <2>1, <2>2, <3>2 DEF Cover, Free
    <3> QED BY <3>1, <3>2
  <2> QED BY <2>3, <2>4 DEF Cover
<1> QED BY <1>1, <1>2, <1>3, <1>12, <1>13, <1>15, <1>20, <1>21 DEF k

\* The ICR is read: what is read of a register that is computed, ...
LEMMA BeforeRead ==
  ASSUME NEW c, Quiet(c)
  PROVE  LET b == [c EXCEPT !.rdi = 0, !.ta = SetAlarm(@), !.tb = SetAlarm(@)]
             d == EarlySet(ForgetTb(b))
         IN  /\ d \in Chip /\ d.irqflags = Result(Reg(c))
             /\ d.mask = c.mask /\ d.new = c.new /\ d.ack = c.ack /\ d.delay = c.delay
             /\ d.ifr = c.ifr /\ d.rdi = 0 /\ d.crb = c.crb
             /\ Armed(d.ta) /\ Watched(d.ta) /\ d.ta.bits = c.ta.bits
             /\ Armed(d.tb) /\ Watched(d.tb) /\ d.tb.bits = c.tb.bits
<1> DEFINE s == SetAlarm(c.ta)
           t == SetAlarm(c.tb)
           z == 0
           b == [c EXCEPT !.rdi = z, !.ta = s, !.tb = t]
           f == b.irqflags \ {"TBB", "TB"}
           x == [b EXCEPT !.irqflags = f]
           a == ForgetTb(b)
           g == a.irqflags \cup {"SET"}
           y == [a EXCEPT !.irqflags = g]
           d == EarlySet(a)
<1>1. c \in Chip /\ Armed(c.ta) /\ Armed(c.tb) /\ z \in Nat
  BY DEF Quiet, Now
<1>2. /\ Armed(s) /\ Watched(s) /\ s.bits = c.ta.bits
      /\ Armed(t) /\ Watched(t) /\ t.bits = c.tb.bits
  BY <1>1, SetAlarmFacts, WatchedSet DEF Armed, Rearmed
<1>3. s \in Timer /\ t \in Timer
  BY <1>2 DEF Armed, Sound
<1> HIDE DEF s, t, z
<1>4. /\ b \in Chip /\ b.irqflags = c.irqflags /\ b.mask = c.mask /\ b.new = c.new
      /\ b.ack = c.ack /\ b.delay = c.delay /\ b.ifr = c.ifr /\ b.rdi = z /\ b.crb = c.crb
      /\ b.ta = s /\ b.tb = t
  BY <1>1, <1>3 DEF Chip
<1> HIDE DEF b
<1>5. a = IF "TBB" \in b.irqflags THEN x ELSE b
  BY DEF ForgetTb
<1>6. f \in SUBSET Flags
  BY <1>4 DEF Chip
<1> HIDE DEF f
<1>7. /\ x \in Chip /\ x.irqflags = f /\ x.mask = b.mask /\ x.new = b.new
      /\ x.ack = b.ack /\ x.delay = b.delay /\ x.ifr = b.ifr /\ x.rdi = b.rdi /\ x.crb = b.crb
      /\ x.ta = b.ta /\ x.tb = b.tb
  BY <1>4, <1>6 DEF Chip
<1> HIDE DEF x, a
<1>8. /\ a \in Chip /\ a.irqflags = (IF "TBB" \in b.irqflags THEN f ELSE b.irqflags)
      /\ a.mask = b.mask /\ a.new = b.new
      /\ a.ack = b.ack /\ a.delay = b.delay /\ a.ifr = b.ifr /\ a.rdi = b.rdi /\ a.crb = b.crb
      /\ a.ta = b.ta /\ a.tb = b.tb
  BY <1>4, <1>5, <1>7
<1>9. d = IF model = "new" /\ "RAISE0" \in a.delay /\ a.irqflags \cap {"TA", "TB"} # {}
          THEN y ELSE a
  BY DEF EarlySet
<1>10. g \in SUBSET Flags
  BY <1>8 DEF Chip, Flags
<1> HIDE DEF g
<1>11. /\ y \in Chip /\ y.irqflags = g /\ y.mask = a.mask /\ y.new = a.new
       /\ y.ack = a.ack /\ y.delay = a.delay /\ y.ifr = a.ifr /\ y.rdi = a.rdi /\ y.crb = a.crb
       /\ y.ta = a.ta /\ y.tb = a.tb
  BY <1>8, <1>10 DEF Chip
<1> HIDE DEF y, d
<1>12. /\ d \in Chip
       /\ d.mask = b.mask /\ d.new = b.new
       /\ d.ack = b.ack /\ d.delay = b.delay /\ d.ifr = b.ifr /\ d.rdi = b.rdi /\ d.crb = b.crb
       /\ d.ta = b.ta /\ d.tb = b.tb
  BY <1>8, <1>9, <1>11
<1>13. d.irqflags = Result(Reg(c))
  <2> DEFINE q == Reg(c)
             known == IF "TBB" \in q.flags THEN q.flags \ {"TBB", "TB"} ELSE q.flags
  <2>1. q.flags = c.irqflags /\ q.delay = c.delay
    BY DEF Reg
  <2> HIDE DEF q
  <2>2. a.irqflags = known
    BY <1>4, <1>8, <2>1 DEF f
  <2>3. d.irqflags = IF model = "new" /\ "RAISE0" \in a.delay /\ a.irqflags \cap {"TA", "TB"} # {}
                     THEN a.irqflags \cup {"SET"} ELSE a.irqflags
    BY <1>9, <1>11 DEF g
  <2>4. a.delay = q.delay
    BY <1>4, <1>8, <2>1
  <2>5. d.irqflags = Result(q)
    BY <2>2, <2>3, <2>4 DEF Result
  <2> QED BY <2>5 DEF q
<1>14. b = [c EXCEPT !.rdi = 0, !.ta = SetAlarm(@), !.tb = SetAlarm(@)] /\ z = 0
  BY DEF b, s, t, z
<1>15. d = EarlySet(ForgetTb(b))
  BY DEF d, a
<1> QED BY <1>2, <1>4, <1>12, <1>13, <1>14, <1>15

\* and what is left of it.
LEMMA ReadLeaves ==
  ASSUME NEW c, Quiet(c)
  PROVE  LET b == [c EXCEPT !.rdi = 0, !.ta = SetAlarm(@), !.tb = SetAlarm(@)]
             d == [Acknowledge(EarlySet(ForgetTb(b))) EXCEPT !.line = "off", !.irqEnabled = FALSE]
         IN  Irq(d) /\ d.ifr = -1 /\ Now(d) /\ Reg(d) = Cleared(Reg(c)) /\ Cover(d)
<1> DEFINE b == [c EXCEPT !.rdi = 0, !.ta = SetAlarm(@), !.tb = SetAlarm(@)]
           a == EarlySet(ForgetTb(b))
           ack == IF a.irqflags # {} THEN a.ack \cup a.irqflags \cup {"SET"} ELSE a.ack
           w1 == (a.delay \cup {"ACK1", "READ0"}) \ {"RAISE0", "D7SET0"}
           w2 == (a.delay \cup {"ACK1", "READ0"}) \ {"RAISE0"}
           k == a.irqflags \cap {"SET"}
           n == {}
           off == "off"
           x == [a EXCEPT !.ack = ack, !.delay = w1]
           y == [a EXCEPT !.irqflags = k, !.new = n, !.delay = w2]
           e == Acknowledge(a)
           d == [e EXCEPT !.line = off, !.irqEnabled = FALSE]
<1>1. /\ Irq(c) /\ Now(c) /\ c \in Chip /\ c.ifr = -1 /\ Clock(c) /\ c.new = {}
      /\ Armed(c.ta) /\ Armed(c.tb) /\ "ACK1" \notin c.delay /\ c.line # "next"
  BY DEF Quiet, Irq, Now
<1>2. /\ a \in Chip /\ a.irqflags = Result(Reg(c))
      /\ a.mask = c.mask /\ a.new = c.new /\ a.ack = c.ack /\ a.delay = c.delay
      /\ a.ifr = c.ifr /\ a.rdi = 0 /\ a.crb = c.crb
      /\ Armed(a.ta) /\ Watched(a.ta) /\ a.ta.bits = c.ta.bits
      /\ Armed(a.tb) /\ Watched(a.tb) /\ a.tb.bits = c.tb.bits
  BY BeforeRead
<1> HIDE DEF b, a
<1>3. e = IF model = "new" THEN x ELSE y
  BY Zenon DEF Acknowledge
<1>4. /\ ack \in SUBSET Flags /\ w1 \in SUBSET DelayBits /\ w2 \in SUBSET DelayBits
      /\ k \in SUBSET Flags /\ n \in SUBSET Flags /\ off \in {"off", "next", "on"} /\ off = "off"
  BY <1>2 DEF Chip, Flags, DelayBits
<1>5. LET q == Reg(c) IN
      /\ k = Result(q) \cap {"SET"} /\ n = {}
      /\ ack = (IF Result(q) # {} THEN q.ack \cup Result(q) \cup {"SET"} ELSE q.ack)
      /\ w1 = (q.delay \cup {"ACK1", "READ0"}) \ {"RAISE0", "D7SET0"}
      /\ w2 = (q.delay \cup {"ACK1", "READ0"}) \ {"RAISE0"}
      /\ q.mask = c.mask /\ q.new = c.new /\ q.ack = c.ack
  BY <1>2 DEF Reg
<1>6. "ACK1" \in w1 /\ "ACK1" \in w2
  OBVIOUS
<1> HIDE DEF ack, w1, w2, k, n, off
<1>7. /\ x \in Chip /\ x.ack = ack /\ x.delay = w1 /\ x.irqflags = a.irqflags /\ x.new = a.new
      /\ x.mask = a.mask /\ x.ifr = a.ifr /\ x.rdi = a.rdi /\ x.crb = a.crb
      /\ x.ta = a.ta /\ x.tb = a.tb
      /\ y \in Chip /\ y.ack = a.ack /\ y.delay = w2 /\ y.irqflags = k /\ y.new = n
      /\ y.mask = a.mask /\ y.ifr = a.ifr /\ y.rdi = a.rdi /\ y.crb = a.crb
      /\ y.ta = a.ta /\ y.tb = a.tb
  BY <1>2, <1>4 DEF Chip
<1> HIDE DEF x, y, e
<1>8. /\ e \in Chip
      /\ e.mask = a.mask /\ e.ifr = a.ifr /\ e.rdi = a.rdi /\ e.crb = a.crb
      /\ e.ta = a.ta /\ e.tb = a.tb /\ "ACK1" \in e.delay
      /\ e.ack = (IF model = "new" THEN ack ELSE a.ack)
      /\ e.delay = (IF model = "new" THEN w1 ELSE w2)
      /\ e.irqflags = (IF model = "new" THEN a.irqflags ELSE k)
      /\ e.new = (IF model = "new" THEN a.new ELSE n)
  BY <1>3, <1>6, <1>7
<1>9. /\ d \in Chip /\ d.line = "off" /\ d.irqEnabled = FALSE /\ d.mask = e.mask /\ d.ifr = e.ifr
      /\ d.rdi = e.rdi /\ d.crb = e.crb /\ d.ta = e.ta /\ d.tb = e.tb /\ d.ack = e.ack
      /\ d.delay = e.delay /\ d.irqflags = e.irqflags /\ d.new = e.new
  BY <1>4, <1>8 DEF Chip
<1>10. d = [Acknowledge(EarlySet(ForgetTb(b))) EXCEPT !.line = "off", !.irqEnabled = FALSE]
  BY DEF e, a, off
<1> HIDE DEF d
<1>11. Reg(d) = Cleared(Reg(c))
  <2> DEFINE q == Reg(c)
             new == IF model = "new" THEN q.new ELSE {}
             flags == IF model = "new" THEN Result(q) ELSE Result(q) \cap {"SET"}
             ack1 == IF model = "new" /\ Result(q) # {} THEN q.ack \cup Result(q) \cup {"SET"}
                     ELSE q.ack
             delay == (q.delay \cup {"ACK1", "READ0"})
                      \ (IF model = "new" THEN {"RAISE0", "D7SET0"} ELSE {"RAISE0"})
  <2>1. Cleared(q) = [mask |-> q.mask, new |-> new, on |-> FALSE, flags |-> flags, ack |-> ack1,
                      delay |-> delay]
    BY DEF Cleared
  <2>2. d.irqflags = flags
    BY <1>2, <1>5, <1>8, <1>9
  <2>3. d.new = new
    BY <1>2, <1>5, <1>8, <1>9
  <2>4. d.ack = ack1
    BY <1>2, <1>5, <1>8, <1>9
  <2>5. d.delay = delay
    BY <1>5, <1>8, <1>9
  <2>6. d.mask = q.mask /\ (d.line = "on") = FALSE
    BY <1>2, <1>5, <1>8, <1>9
  <2> HIDE DEF q, new, flags, ack1, delay
  <2>7. Reg(d) = Cleared(q)
    BY <2>1, <2>2, <2>3, <2>4, <2>5, <2>6 DEF Reg
  <2> QED BY <2>7 DEF q
<1>12. Clock(d)
  BY <1>1, <1>2, <1>8, <1>9 DEF Clock
<1>13. Now(d)
  BY <1>1, <1>2, <1>8, <1>9 DEF Now
<1>14. d.ifr = -1
  BY <1>1, <1>2, <1>8, <1>9
<1>15. Due(d) = {} /\ Late(d) = {} /\ ~ AlarmsDue(d) /\ Present(d) = Reg(d)
  BY <1>12, <1>13, <1>14, QuietFacts
<1>16. Good(d)
  BY <1>2, <1>8, <1>9 DEF Good, Armed
<1>17. Fit(d)
  BY <1>1, <1>2, <1>8, <1>9, <1>15, <1>16 DEF Irq, Fit, Alone
<1>18. Calm(Present(d))
  <2>1. d.new = {} /\ Reg(d).new = {}
    BY <1>1, <1>2, <1>5, <1>8, <1>9 DEF Reg
  <2> QED BY <1>15, <2>1 DEF Calm
<1>19. Irq(d)
  BY <1>12, <1>15, <1>17, <1>18 DEF Irq
<1>20. Cover(d)
  BY <1>2, <1>8, <1>9 DEF Cover
<1>21. Irq(d) /\ d.ifr = -1 /\ Now(d) /\ Reg(d) = Cleared(Reg(c)) /\ Cover(d)
  BY <1>11, <1>13, <1>14, <1>19, <1>20
<1> QED BY <1>10, <1>21 DEF b

\* No access to a timer shows in the interrupts.
LEMMA TimerAccessIrq ==
  ASSUME NEW c, Turn(c), Irq(c), NEW a \in Accesses, a.reg \notin {"IMR", "ICR"},
         a.reg = "CRB" => "INMODE_TA" \notin a.byte
  PROVE  TellsIrq(c, Access(c, a)) /\ End(Access(c, a))
<1>1. CASE a \in [reg : {"TAL", "TAH", "TBL", "TBH"}, value : 0 .. LoSize - 1]
  <2>1. a.value \in 0 .. LoSize - 1 /\ a.reg \in {"TAL", "TAH", "TBL", "TBH"}
    BY <1>1
  <2>2. CASE a.reg \in {"TBL", "TBH"}
    <3> DEFINE lo == SetLatchLo(AccessTb(c).tb, a.value)
               hi == SetLatchHi(AccessTb(c).tb, a.value)
    <3>1. Armed(AccessTb(c).tb) /\ Settled(AccessTb(c).tb)
      BY AccessTimer
    <3>2. "STEP" \notin AccessTb(c).tb.bits
      BY AccessTimerIrq DEF TellsIrq, Irq, Fit, Alone
    <3>3. /\ Armed(lo) /\ Watched(lo) /\ "STEP" \notin lo.bits
          /\ Armed(hi) /\ Watched(hi) /\ "STEP" \notin hi.bits
      BY <2>1, <3>1, <3>2, SetLatchLoFacts, SetLatchHiFacts, LatchWatched
    <3>4. a.reg = "TBL" => Access(c, a) = [AccessTb(c) EXCEPT !.tb = lo]
      BY DEF Access
    <3>5. a.reg = "TBH" => Access(c, a) = [AccessTb(c) EXCEPT !.tb = hi]
      BY DEF Access
    <3> HIDE DEF lo, hi
    <3>6. a.reg = "TBL" => TellsIrq(c, Access(c, a)) /\ End(Access(c, a))
      BY <3>3, <3>4, LatchIrq
    <3>7. a.reg = "TBH" => TellsIrq(c, Access(c, a)) /\ End(Access(c, a))
      BY <3>3, <3>5, LatchIrq
    <3> QED BY <2>2, <3>6, <3>7
  <2>3. CASE a.reg \in {"TAL", "TAH"}
    <3> DEFINE lo == SetLatchLo(AccessTa(c).ta, a.value)
               hi == SetLatchHi(AccessTa(c).ta, a.value)
    <3>1. Armed(AccessTa(c).ta) /\ Settled(AccessTa(c).ta)
      BY AccessTimer
    <3>2. "STEP" \notin AccessTa(c).ta.bits
      BY AccessTimerIrq DEF TellsIrq, Irq, Fit
    <3>3. /\ Armed(lo) /\ Watched(lo) /\ "STEP" \notin lo.bits
          /\ Armed(hi) /\ Watched(hi) /\ "STEP" \notin hi.bits
      BY <2>1, <3>1, <3>2, SetLatchLoFacts, SetLatchHiFacts, LatchWatched
    <3>4. a.reg = "TAL" => Access(c, a) = [AccessTa(c) EXCEPT !.ta = lo]
      BY DEF Access
    <3>5. a.reg = "TAH" => Access(c, a) = [AccessTa(c) EXCEPT !.ta = hi]
      BY DEF Access
    <3> HIDE DEF lo, hi
    <3>6. a.reg = "TAL" => TellsIrq(c, Access(c, a)) /\ End(Access(c, a))
      BY <3>3, <3>4, LatchIrq
    <3>7. a.reg = "TAH" => TellsIrq(c, Access(c, a)) /\ End(Access(c, a))
      BY <3>3, <3>5, LatchIrq
    <3> QED BY <2>3, <3>6, <3>7
  <2> QED BY <2>1, <2>2, <2>3
<1>2. CASE a \in [reg : {"CRA", "CRB"}, byte : SUBSET ControlBits]
  <2>1. a.byte \in SUBSET ControlBits /\ a.reg \in {"CRA", "CRB"}
    BY <1>2
  <2>2. CASE a.reg = "CRB"
    BY <2>1, <2>2, StoreCrbIrq DEF Access
  <2>3. CASE a.reg = "CRA"
    BY <2>1, <2>3, StoreCraIrq DEF Access
  <2> QED BY <2>1, <2>2, <2>3
<1>3. CASE a \in [reg : {"IMR"}, set : BOOLEAN, byte : SUBSET {"TA", "TB"}]
  BY <1>3
<1>4. CASE a \in [reg : {"ICR", "TA", "TB"}]
  <2>1. a.reg \in {"TA", "TB"}
    BY <1>4
  <2>2. CASE a.reg = "TA"
    BY <2>2, AccessTimerIrq DEF Access
  <2>3. CASE a.reg = "TB"
    BY <2>3, AccessTimerIrq DEF Access
  <2> QED BY <2>1, <2>2, <2>3
<1> QED BY <1>1, <1>2, <1>3, <1>4 DEF Accesses, ControlBits

\* The ICR's mask is written, ...
MaskAfter(q, set, byte) == IF set THEN q.mask \cup byte ELSE q.mask \ byte

LEMMA StoreIcrIrq ==
  ASSUME NEW c, Turn(c), Irq(c), NEW set, NEW byte \in SUBSET {"TA", "TB"}
  PROVE  LET d == StoreIcr(c, set, byte)
             q == Reg(AccessIcr(c))
             k == MaskAfter(q, set, byte)
         IN  /\ Irq(d) /\ End(d) /\ Due(d) = {} /\ (Cover(c) => Cover(d))
             /\ q \in Regs /\ View(q) = View(Whole(c)) /\ k \in SUBSET {"TA", "TB"}
             /\ View(Whole(d)) = View(Masked(q, k))
<1> DEFINE b == AccessIcr(c)
           e == MaskWritten(SetMask(b, set, byte))
           k == IF set THEN b.mask \cup byte ELSE b.mask \ byte
<1>1. Quiet(b) /\ View(Reg(b)) = View(Whole(c)) /\ (Cover(c) => Cover(b))
  BY AccessIcrIrq
<1> HIDE DEF b
<1>2. /\ Irq(e) /\ Now(e) /\ e.ifr = -1 /\ Reg(e) = Masked(Reg(b), k) /\ k \in SUBSET {"TA", "TB"}
      /\ Cover(b) => Cover(e)
  BY <1>1, MaskWrittenIrq
<1>3. StoreIcr(c, set, byte) = IfrNext(e)
  BY DEF StoreIcr, e, b
<1> HIDE DEF e, k
<1>4. Whole(e) = Reg(e) /\ Due(e) = {}
  BY <1>2, QuietFacts DEF Irq
<1>5. TellsIrq(e, IfrNext(e)) /\ End(IfrNext(e))
  BY <1>2, NextTells
<1>6. Reg(b) \in Regs /\ Reg(b).mask = b.mask
  BY <1>1, RegType DEF Quiet, Now, Reg
<1>7. k = MaskAfter(Reg(b), set, byte)
  BY <1>6 DEF k, MaskAfter
<1>8. /\ Irq(IfrNext(e)) /\ Due(IfrNext(e)) = {} /\ (Cover(c) => Cover(IfrNext(e)))
      /\ View(Whole(IfrNext(e))) = View(Masked(Reg(b), k))
  BY <1>1, <1>2, <1>4, <1>5 DEF TellsIrq
<1> QED BY <1>1, <1>2, <1>3, <1>5, <1>6, <1>7, <1>8 DEF b

\* or it is read.
LEMMA ReadIcrIrq ==
  ASSUME NEW c, Turn(c), Irq(c)
  PROVE  LET d == ReadIcr(c)
             q == Reg(AccessIcr(c))
         IN  /\ Irq(d) /\ End(d) /\ Due(d) = {} /\ Cover(d)
             /\ q \in Regs /\ View(q) = View(Whole(c)) /\ IcrResult(c) = Result(q)
             /\ View(Whole(d)) = View(Cleared(q))
<1> DEFINE b == AccessIcr(c)
           g == [b EXCEPT !.rdi = 0, !.ta = SetAlarm(@), !.tb = SetAlarm(@)]
           e == [Acknowledge(EarlySet(ForgetTb(g))) EXCEPT !.line = "off", !.irqEnabled = FALSE]
<1>1. Quiet(b) /\ View(Reg(b)) = View(Whole(c))
  BY AccessIcrIrq
<1> HIDE DEF b
<1>2. Irq(e) /\ e.ifr = -1 /\ Now(e) /\ Reg(e) = Cleared(Reg(b)) /\ Cover(e)
  BY <1>1, ReadLeaves, Zenon
<1>3. EarlySet(ForgetTb(g)).irqflags = Result(Reg(b))
  BY <1>1, BeforeRead
<1>4. BeforeIcrRead(c) = EarlySet(ForgetTb(g))
  BY Zenon DEF BeforeIcrRead, b
<1>5. ReadIcr(c) = IfrNext(e)
  BY <1>4, Zenon DEF ReadIcr
<1>6. IcrResult(c) = Result(Reg(b))
  BY <1>3, <1>4 DEF IcrResult
<1> HIDE DEF e, g
<1>7. Whole(e) = Reg(e) /\ Due(e) = {}
  BY <1>2, QuietFacts DEF Irq
<1>8. TellsIrq(e, IfrNext(e)) /\ End(IfrNext(e))
  BY <1>2, NextTells
<1>9. Reg(b) \in Regs
  BY <1>1, RegType DEF Quiet, Now
<1>10. /\ Irq(IfrNext(e)) /\ Due(IfrNext(e)) = {} /\ Cover(IfrNext(e))
      /\ View(Whole(IfrNext(e))) = View(Cleared(Reg(b)))
  BY <1>2, <1>7, <1>8 DEF TellsIrq
<1> QED BY <1>1, <1>5, <1>6, <1>8, <1>9, <1>10 DEF b

\* What an access does to the interrupts.
LEMMA AccessIrq ==
  ASSUME NEW c, Turn(c), Irq(c), NEW a \in Accesses, a.reg = "CRB" => "INMODE_TA" \notin a.byte
  PROVE  LET d == Access(c, a) IN
         Irq(d) /\ End(d) /\ Due(d) \subseteq Due(c) /\ (Cover(c) => Cover(d))
<1>1. CASE a.reg \notin {"IMR", "ICR"}
  BY <1>1, TimerAccessIrq DEF TellsIrq
<1>2. CASE a.reg = "IMR"
  <2> DEFINE s == a.set
             b == a.byte
  <2>1. b \in SUBSET {"TA", "TB"}
    BY <1>2 DEF Accesses
  <2>2. Access(c, a) = StoreIcr(c, s, b)
    BY <1>2 DEF Access
  <2> HIDE DEF s, b
  <2>3. LET d == StoreIcr(c, s, b) IN Irq(d) /\ End(d) /\ Due(d) = {} /\ (Cover(c) => Cover(d))
    BY <2>1, StoreIcrIrq
  <2> QED BY <2>2, <2>3
<1>3. CASE a.reg = "ICR"
  <2>1. Access(c, a) = ReadIcr(c)
    BY <1>3 DEF Access
  <2> QED BY <2>1, ReadIcrIrq
<1> QED BY <1>1, <1>2, <1>3

\* Two chips nobody can tell apart read the same and cannot be told apart afterwards.
LEMMA AccessAlike ==
  ASSUME NEW c, Turn(c), Irq(c), NEW e, Turn(e), Irq(e), View(Whole(c)) = View(Whole(e)),
         NEW a \in Accesses, a.reg = "CRB" => "INMODE_TA" \notin a.byte
  PROVE  /\ View(Whole(Access(c, a))) = View(Whole(Access(e, a)))
         /\ IcrResult(c) = IcrResult(e)
<1>0. IcrResult(c) = IcrResult(e)
  BY ReadIcrIrq, ClearedView
<1>1. CASE a.reg \notin {"IMR", "ICR"}
  BY <1>0, <1>1, TimerAccessIrq DEF TellsIrq
<1>2. CASE a.reg = "IMR"
  <2> DEFINE s == a.set
             b == a.byte
  <2>1. b \in SUBSET {"TA", "TB"}
    BY <1>2 DEF Accesses
  <2>2. Access(c, a) = StoreIcr(c, s, b) /\ Access(e, a) = StoreIcr(e, s, b)
    BY <1>2 DEF Access
  <2> HIDE DEF s, b
  <2> DEFINE p == Reg(AccessIcr(c))
             q == Reg(AccessIcr(e))
             k == MaskAfter(p, s, b)
             l == MaskAfter(q, s, b)
  <2>3. /\ p \in Regs /\ View(p) = View(Whole(c)) /\ k \in SUBSET {"TA", "TB"}
        /\ View(Whole(StoreIcr(c, s, b))) = View(Masked(p, k))
    BY <2>1, StoreIcrIrq
  <2>4. /\ q \in Regs /\ View(q) = View(Whole(e))
        /\ View(Whole(StoreIcr(e, s, b))) = View(Masked(q, l))
    BY <2>1, StoreIcrIrq
  <2> HIDE DEF p, q
  <2>5. k = l
    BY <2>3, <2>4, NearAlike DEF MaskAfter
  <2> HIDE DEF k, l
  <2>6. View(Masked(p, k)) = View(Masked(q, k))
    BY <2>3, <2>4, MaskedView
  <2> QED BY <1>0, <2>2, <2>3, <2>4, <2>5, <2>6
<1>3. CASE a.reg = "ICR"
  <2>1. Access(c, a) = ReadIcr(c) /\ Access(e, a) = ReadIcr(e)
    BY <1>3 DEF Access
  <2> QED BY <1>0, <2>1, ReadIcrIrq, ClearedView
<1> QED BY <1>1, <1>2, <1>3

-----------------------------------------------------------------------------
(* The two chips from cycle to cycle.                                        *)

\* A line that is seen to rise a cycle ahead makes no difference to the next cycle.
LEMMA ElapseAhead ==
  ASSUME NEW p \in Regs, NEW q \in Regs, p.mask = q.mask, p.flags = q.flags, p.new = q.new,
         p.ack = q.ack, p.delay = q.delay, p.on # q.on => "RAISE0" \in p.delay,
         NEW U \in SUBSET {"TA", "TB"}
  PROVE  Elapse(Mark(p, U)) = Elapse(Mark(q, U))
<1> DEFINE a == Mark(p, U)
           b == Mark(q, U)
           e == Elapse(a)
           f == Elapse(b)
<1>1. /\ a \in Regs /\ a.mask = p.mask /\ a.new = p.new \cup U /\ a.ack = p.ack \ U
      /\ a.delay = p.delay /\ a.on = p.on
      /\ \A x : x \in a.flags <=>
              \/ x \in U
              \/ x # "TBB" /\ x \in p.flags
              \/ x = "TBB" /\ IF "TB" \in U THEN Bug(p) ELSE x \in p.flags
  BY MarkType
<1>2. /\ b \in Regs /\ b.mask = q.mask /\ b.new = q.new \cup U /\ b.ack = q.ack \ U
      /\ b.delay = q.delay /\ b.on = q.on
      /\ \A x : x \in b.flags <=>
              \/ x \in U
              \/ x # "TBB" /\ x \in q.flags
              \/ x = "TBB" /\ IF "TB" \in U THEN Bug(q) ELSE x \in q.flags
  BY MarkType
<1>3. Bug(p) <=> Bug(q)
  BY DEF Bug
<1> HIDE DEF a, b
<1>4. a.flags = b.flags
  BY <1>1, <1>2, <1>3
<1>5. /\ e \in Regs /\ e.mask = a.mask /\ e.new = {}
      /\ e.ack = IF "ACK0" \in a.delay THEN {} ELSE a.ack
      /\ e.on <=> "RAISE0" \in Delays(a) \/ a.on
      /\ e.delay = Shift(Delays(a))
      /\ \A x : x \in e.flags <=>
           \/ x = "SET" /\ "D7SET0" \in Delays(a)
           \/ /\ x \in a.flags
              /\ "ACK0" \in a.delay => x \notin a.ack /\ (model = "old" => x # "SET")
  BY <1>1, ElapseType
<1>6. /\ f \in Regs /\ f.mask = b.mask /\ f.new = {}
      /\ f.ack = IF "ACK0" \in b.delay THEN {} ELSE b.ack
      /\ f.on <=> "RAISE0" \in Delays(b) \/ b.on
      /\ f.delay = Shift(Delays(b))
      /\ \A x : x \in f.flags <=>
           \/ x = "SET" /\ "D7SET0" \in Delays(b)
           \/ /\ x \in b.flags
              /\ "ACK0" \in b.delay => x \notin b.ack /\ (model = "old" => x # "SET")
  BY <1>2, ElapseType
<1>7. Delays(a) = Delays(b)
  BY <1>1, <1>2 DEF Delays
<1>8. a.on # b.on => "RAISE0" \in Delays(a)
  BY <1>1, <1>2 DEF Delays
<1> HIDE DEF e, f
<1>9. e.flags = f.flags
  <2>1. \A x : x \in e.flags <=> x \in f.flags
    BY <1>1, <1>2, <1>4, <1>5, <1>6, <1>7
  <2>2. e.flags \in SUBSET Flags /\ f.flags \in SUBSET Flags
    BY <1>5, <1>6 DEF Regs
  <2> QED BY <2>1, <2>2
<1>10. e.on = f.on
  <2>1. e.on \in BOOLEAN /\ f.on \in BOOLEAN /\ a.on \in BOOLEAN /\ b.on \in BOOLEAN
    BY <1>1, <1>2, <1>5, <1>6 DEF Regs
  <2> QED BY <1>5, <1>6, <1>7, <1>8, <2>1
<1>11. e \in Regs /\ f \in Regs /\ e.mask = f.mask /\ e.new = f.new /\ e.ack = f.ack
       /\ e.delay = f.delay
  BY <1>1, <1>2, <1>5, <1>6, <1>7
<1>12. e = f
  BY <1>9, <1>10, <1>11, RegEqual
<1> QED BY <1>12 DEF e, f, a, b

\* A cycle passes for the register, whose last computed cycle stays behind.
Roomy(c) == c.ifr < MaxIdle \/ (c.ifr = 1 /\ Still(Reg(c)))

LEMMA OlderFields ==
  ASSUME NEW c, Good(c), ~ AlarmsDue(c), c.ifr >= -1
  PROVE  LET d == Older(c) IN
         /\ d \in Chip /\ d.mask = c.mask /\ d.irqflags = c.irqflags /\ d.new = c.new
         /\ d.ack = c.ack /\ d.delay = c.delay /\ d.irqEnabled = c.irqEnabled
         /\ d.line = IF c.line = "next" THEN "on" ELSE c.line
         /\ d.ifr = IF Still(Reg(c)) /\ c.ifr >= 0 THEN 1 ELSE c.ifr + 1
         /\ d.rdi = IF c.rdi < RdiCap THEN c.rdi + 1 ELSE c.rdi
         /\ d.ta.due = (IF c.ta.due = Never THEN Never ELSE c.ta.due - 1)
         /\ d.tb.due = (IF c.tb.due = Never THEN Never ELSE c.tb.due - 1)
         /\ d.ta.n = c.ta.n /\ d.tb.n = c.tb.n
<1> DEFINE Wait(tm) == [tm EXCEPT !.lag = tm.lag + 1,
                                  !.due = IF tm.due = Never THEN Never ELSE tm.due - 1]
           s == Wait(c.ta)
           t == Wait(c.tb)
           o == 1
           f == IF c.delay \cup c.new \cup c.ack = {} /\ c.ifr >= 0 THEN o ELSE c.ifr + 1
           r == IF c.rdi < RdiCap THEN c.rdi + 1 ELSE c.rdi
           i == c.idle - 1
           l == IF c.line = "next" THEN "on" ELSE c.line
           d == [c EXCEPT !.ta = s, !.tb = t, !.ifr = f, !.rdi = r, !.idle = i, !.line = l]
<1>1. Older(c) = d
  BY Zenon DEF Older
<1>2. d \in Chip
  BY <1>1, OlderFacts DEF Turn, Good
<1>3. c \in Chip /\ c.ta \in Timer /\ c.tb \in Timer
  BY DEF Good, Sound
<1>4. /\ s.due = (IF c.ta.due = Never THEN Never ELSE c.ta.due - 1) /\ s.n = c.ta.n
      /\ t.due = (IF c.tb.due = Never THEN Never ELSE c.tb.due - 1) /\ t.n = c.tb.n
  BY <1>3 DEF Timer
<1>5. f = IF Still(Reg(c)) /\ c.ifr >= 0 THEN 1 ELSE c.ifr + 1
  BY <1>3, StillChip
<1>6. r = (IF c.rdi < RdiCap THEN c.rdi + 1 ELSE c.rdi)
      /\ l = IF c.line = "next" THEN "on" ELSE c.line
  OBVIOUS
<1> HIDE DEF s, t, f, r, i, l
<1>7. /\ d.mask = c.mask /\ d.irqflags = c.irqflags /\ d.new = c.new
      /\ d.ack = c.ack /\ d.delay = c.delay /\ d.irqEnabled = c.irqEnabled
      /\ d.line = l /\ d.ifr = f /\ d.rdi = r /\ d.ta = s /\ d.tb = t
  BY <1>3 DEF Chip
<1> HIDE DEF d
<1> QED BY <1>1, <1>2, <1>4, <1>5, <1>6, <1>7

LEMMA OlderPast ==
  ASSUME NEW c, Good(c), Clock(c), ~ AlarmsDue(c), Roomy(c)
  PROVE  LET d == Older(c) IN
         /\ Clock(d) /\ d.ifr >= 0 /\ d.line # "next"
         /\ \A U \in SUBSET {"TA", "TB"} : Elapse(Mark(Past(d), U)) = Elapse(Mark(Present(c), U))
         /\ Past(d).mask = Present(c).mask /\ Past(d).ack = Present(c).ack
         /\ c.rdi >= 1 => d.rdi >= 2
         /\ c.rdi >= 0 => d.rdi >= 1
         /\ c.ifr >= 0 => Past(d) = Present(c)
         /\ c.ifr = -1 => d.ifr = 0
         /\ c.ifr = 1 /\ Still(Reg(c)) => d.ifr = 1 /\ Still(Reg(d))
         /\ d.ifr <= c.ifr + 1 \/ (d.ifr = 1 /\ Still(Reg(d)))
<1> DEFINE d == Older(c)
<1>0. c \in Chip /\ c.ifr >= -1 /\ c.ifr \in Int /\ c.rdi \in Nat /\ c.rdi > c.ifr
  BY DEF Clock, Chip
<1>1. /\ d \in Chip /\ d.mask = c.mask /\ d.irqflags = c.irqflags /\ d.new = c.new
      /\ d.ack = c.ack /\ d.delay = c.delay /\ d.irqEnabled = c.irqEnabled
      /\ d.line = (IF c.line = "next" THEN "on" ELSE c.line)
      /\ d.ifr = (IF Still(Reg(c)) /\ c.ifr >= 0 THEN 1 ELSE c.ifr + 1)
      /\ d.rdi = (IF c.rdi < RdiCap THEN c.rdi + 1 ELSE c.rdi)
  BY <1>0, OlderFields
<1> HIDE DEF d
<1>2. RdiCap = MaxIdle + 2 /\ MaxIdle \in Nat /\ MaxIdle >= 1
  BY Limits DEF RdiCap
<1>3. d.ifr >= 0 /\ d.line # "next" /\ d.ifr \in Int
  BY <1>0, <1>1
<1>4. Still(Reg(c)) => "ACK1" \notin c.delay
  BY DEF Still, Reg
<1>5. d.rdi > d.ifr /\ ("ACK1" \in d.delay <=> d.rdi = d.ifr + 1)
  <2>0. "ACK1" \in c.delay <=> c.rdi = c.ifr + 1
    BY DEF Clock
  <2>1. CASE Still(Reg(c)) /\ c.ifr >= 0
    <3>1. d.ifr = 1 /\ "ACK1" \notin d.delay
      BY <1>1, <1>4, <2>1
    <3>2. c.rdi >= 2
      BY <1>0, <1>4, <2>0, <2>1
    <3>3. d.rdi >= 3
      BY <1>0, <1>1, <1>2, <3>2
    <3> QED BY <1>0, <1>1, <3>1, <3>3
  <2>2. CASE ~ (Still(Reg(c)) /\ c.ifr >= 0)
    <3>1. d.ifr = c.ifr + 1
      BY <1>1, <2>2
    <3>2. c.ifr < MaxIdle
      BY <2>2 DEF Roomy
    <3>3. CASE c.rdi < RdiCap
      BY <1>0, <1>1, <2>0, <3>1, <3>3
    <3>4. CASE ~ (c.rdi < RdiCap)
      BY <1>0, <1>1, <1>2, <2>0, <3>1, <3>2, <3>4
    <3> QED BY <3>3, <3>4
  <2> QED BY <2>1, <2>2
<1>6. Clock(d)
  <2>1. d.irqEnabled <=> d.line # "off"
    BY <1>1 DEF Clock
  <2> QED BY <1>1, <1>3, <1>5, <2>1 DEF Clock
<1>7. /\ Reg(d).mask = Reg(c).mask /\ Reg(d).flags = Reg(c).flags /\ Reg(d).new = Reg(c).new
      /\ Reg(d).ack = Reg(c).ack /\ Reg(d).delay = Reg(c).delay
      /\ Reg(c) \in Regs /\ Reg(d) \in Regs
  BY <1>0, <1>1, RegType DEF Reg
<1>8. Due(c) = {}
  BY DEF Due, AlarmsDue
<1>9. CASE c.ifr >= 0
  <2>1. c.line # "next"
    BY <1>9, <1>0 DEF Clock
  <2>2. Reg(d) = Reg(c)
    BY <1>1, <2>1 DEF Reg
  <2>3. Past(c) = Drawn(Reg(c), c.ifr) /\ Past(c) \in Regs
    <3>1. c.ifr \in Nat /\ (IF c.ifr > 0 THEN c.ifr ELSE 0) = c.ifr
      BY <1>0, <1>9
    <3> QED BY <3>1, CatchupClock
  <2>4. Present(c) = Drawn(Reg(c), c.ifr + 1)
    <3>1. Present(c) = Elapse(Past(c))
      BY <1>8, <1>9, <2>3, MarkNone DEF Present
    <3>2. c.ifr \in Nat
      BY <1>0, <1>9
    <3> QED BY <1>7, <2>3, <3>1, <3>2, DrawnNext
  <2>5. d.ifr > 0
    BY <1>0, <1>1, <1>9
  <2>6. Past(d) = Drawn(Reg(c), d.ifr)
    BY <1>6, <2>2, <2>5, CatchupClock
  <2>7. Past(d) = Present(c)
    <3>1. CASE Still(Reg(c))
      <4>1. d.ifr = 1 /\ c.ifr + 1 \in Nat /\ 1 \in Nat
        BY <1>0, <1>1, <1>9, <3>1
      <4> QED BY <1>7, <2>4, <2>6, <3>1, <4>1, DrawnNext
    <3>2. CASE ~ Still(Reg(c))
      BY <1>1, <2>4, <2>6, <3>2
    <3> QED BY <3>1, <3>2
  <2>8. Still(Reg(c)) => d.ifr = 1 /\ Still(Reg(d))
    BY <1>1, <1>9, <2>2
  <2>9. ~ Still(Reg(c)) => d.ifr = c.ifr + 1
    BY <1>1
  <2>10. d.rdi >= 1 /\ (c.rdi >= 1 => d.rdi >= 2)
    BY <1>0, <1>1, <1>2
  <2> QED BY <1>0, <1>3, <1>6, <1>9, <2>7, <2>8, <2>9, <2>10 DEF d
<1>10. CASE c.ifr = -1
  <2>1. Past(c) = Reg(c) /\ Present(c) = Reg(c)
    BY <1>10, PresentFacts
  <2>2. d.ifr = 0 /\ d.ifr <= 0
    BY <1>1, <1>10
  <2>3. Past(d) = Reg(d)
    BY <1>6, <2>2, CatchupClock DEF Past
  <2>4. Reg(d).on # Reg(c).on => "RAISE0" \in Reg(d).delay
    <3>1. Reg(d).on # Reg(c).on => c.line = "next"
      BY <1>1 DEF Reg
    <3>2. c.line = "next" => "RAISE0" \in c.delay
      BY DEF Clock
    <3> QED BY <1>1, <3>1, <3>2 DEF Reg
  <2>5. \A U \in SUBSET {"TA", "TB"} : Elapse(Mark(Past(d), U)) = Elapse(Mark(Present(c), U))
    BY <1>7, <2>1, <2>3, <2>4, ElapseAhead
  <2>6. d.rdi >= 1 /\ (c.rdi >= 1 => d.rdi >= 2)
    BY <1>0, <1>1, <1>2
  <2>7. ~ (c.ifr >= 0) /\ c.ifr # 1 /\ d.ifr <= c.ifr + 1
    BY <1>10, <2>2
  <2> QED BY <1>3, <1>6, <1>7, <2>1, <2>2, <2>3, <2>5, <2>6, <2>7 DEF d
<1> QED BY <1>0, <1>9, <1>10

\* A timer a cycle later that has an underflow nobody was told of had no alarm before.
LEMMA OlderTimer ==
  ASSUME NEW t, Sound(t), Kept(t), t.due # 0, NEW u, Sound(u), Kept(u), Alike(u, t),
         u.due = IF t.due = Never THEN Never ELSE t.due - 1
  PROVE  /\ Watched(t) => Watched(u)
         /\ u.due # 0 /\ Owes(u) => ~ Watched(t)
         /\ u.due = 0 => Owes(u)
<1>1. NextUnderflow(u) = NextUnderflow(t)
  BY AlikeUnderflow DEF Sound
<1>2. t.due # Never => u.due # Never
  BY DEF Sound, Timer, Never
<1>3. Watched(t) => Watched(u)
  BY <1>1, <1>2 DEF Watched
<1>4. u.due # 0 /\ (u.due # Never \/ Watched(u)) => ~ Owes(u)
  BY OwesFacts
<1>5. u.due = 0 => Owes(u)
  BY OwesFacts DEF Owes
<1> QED BY <1>3, <1>4, <1>5 DEF Watched

\* What is free to be late stays so.
LEMMA FreeElapse ==
  ASSUME NEW q \in Regs, NEW x, Free(x, q), NEW U \in SUBSET {"TA", "TB"}
  PROVE  /\ Free(x, Elapse(Mark(q, U)))
         /\ x \notin q.mask \/ Asserted(Elapse(Mark(q, U)))
<1>1. /\ Elapse(q).mask = q.mask /\ Elapse(q) \in Regs
      /\ Elapse(q).ack = (IF "ACK0" \in q.delay THEN {} ELSE q.ack)
      /\ Elapse(q).delay = Shift(Delays(q))
  BY ElapseType
<1>2. "ACK1" \notin Elapse(q).delay
  BY <1>1, ElapseIs
<1>3. Asserted(q) \/ Pending(q) => Asserted(Elapse(q))
  BY StaysAsserted
<1>4. Free(x, Elapse(q))
  BY <1>1, <1>2, <1>3 DEF Free
<1>5. Asserted(Elapse(q)) => Asserted(Elapse(Mark(q, U)))
  BY AssertedGrows
<1> QED BY <1>3, <1>4, <1>5, FreeGrows DEF Free

\* A cycle passes for a chip: all that is due now or late counts in it.
Owing(c) == {x \in {"TA"} : Owes(c.ta)} \cup {x \in {"TB"} : Owes(c.tb)}

LEMMA OlderIrq ==
  ASSUME NEW c, Irq(c), Cover(c), ~ AlarmsDue(c), Roomy(c)
  PROVE  LET d == Older(c) IN
         /\ Irq(d) /\ Cover(d) /\ Due(d) \cup Late(d) = Owing(d)
         /\ Present(d) = Elapse(Mark(Present(c), Due(d)))
         /\ View(Whole(d)) = View(Elapse(Mark(Present(c), Owing(d))))
<1> DEFINE d == Older(c)
<1>0. Good(c) /\ Clock(c) /\ c.ifr >= -1 /\ Fit(c) /\ c \in Chip
  BY DEF Irq, Fit, Clock
<1>1. /\ Clock(d) /\ d.ifr >= 0
      /\ \A U \in SUBSET {"TA", "TB"} : Elapse(Mark(Past(d), U)) = Elapse(Mark(Present(c), U))
      /\ Past(d).mask = Present(c).mask /\ Past(d).ack = Present(c).ack
      /\ c.rdi >= 1 => d.rdi >= 2
  BY <1>0, OlderPast
<1>2. Turn(d) /\ Good(d) /\ d.ta.lag = c.ta.lag + 1 /\ d.tb.lag = c.tb.lag + 1
  BY <1>0, OlderFacts DEF Turn
<1>3. Alike(d.ta, c.ta) /\ Alike(d.tb, c.tb) /\ d.crb = c.crb
  BY <1>0, OlderKeeps DEF Good, Sound
<1>4. /\ d.ta.due = (IF c.ta.due = Never THEN Never ELSE c.ta.due - 1)
      /\ d.tb.due = (IF c.tb.due = Never THEN Never ELSE c.tb.due - 1)
  BY <1>0, OlderFields
<1> HIDE DEF d
<1>5. Fit(d)
  BY <1>0, <1>1, <1>2, <1>3 DEF Fit, Alone, Alike
<1>6. c.ta.due # 0 /\ c.tb.due # 0
  BY DEF AlarmsDue
<1>7. /\ Watched(c.ta) => Watched(d.ta)
      /\ d.ta.due # 0 /\ Owes(d.ta) => ~ Watched(c.ta)
      /\ d.ta.due = 0 => Owes(d.ta)
  BY <1>0, <1>2, <1>3, <1>4, <1>6, OlderTimer DEF Good
<1>8. /\ Watched(c.tb) => Watched(d.tb)
      /\ d.tb.due # 0 /\ Owes(d.tb) => ~ Watched(c.tb)
      /\ d.tb.due = 0 => Owes(d.tb)
  BY <1>0, <1>2, <1>3, <1>4, <1>6, OlderTimer DEF Good
<1>9. Due(d) \cup Late(d) = Owing(d) /\ Owing(d) \in SUBSET {"TA", "TB"}
  BY <1>7, <1>8, Zenon DEF Due, Late, Owing
<1>10. /\ Due(d) \in SUBSET {"TA", "TB"} /\ Late(d) \in SUBSET {"TA", "TB"}
       /\ Present(c) \in Regs
       /\ Present(d).new = {}
       /\ c.ifr = -1 => Present(c) = Reg(c)
  <2>1. d.ifr # -1
    BY <1>1
  <2> QED BY <1>0, <1>1, <2>1, PresentFacts
<1>11. Present(d) = Elapse(Mark(Present(c), Due(d)))
  <2>1. d.ifr # -1
    BY <1>1
  <2> QED BY <1>1, <1>10, <2>1 DEF Present
<1>12. \A x : Free(x, Present(c)) =>
          /\ Free(x, Present(d)) /\ (x \notin Present(c).mask \/ Asserted(Present(d)))
          /\ x \notin Present(c).ack /\ c.rdi >= 1
  <2> SUFFICES ASSUME NEW x, Free(x, Present(c))
               PROVE  /\ Free(x, Present(d)) /\ (x \notin Present(c).mask \/ Asserted(Present(d)))
                      /\ x \notin Present(c).ack /\ c.rdi >= 1
    OBVIOUS
  <2>1. Free(x, Present(d)) /\ (x \notin Present(c).mask \/ Asserted(Present(d)))
    BY <1>10, <1>11, FreeElapse
  <2>2. x \notin Present(c).ack /\ "ACK1" \notin Present(c).delay
    BY DEF Free
  <2>3. c.rdi >= 1
    <3>1. c.ifr = -1 => "ACK1" \notin c.delay
      BY <1>10, <2>2 DEF Reg
    <3> QED BY <1>0, <3>1 DEF Clock, Chip
  <2> QED BY <2>1, <2>2, <2>3
<1>13. \A x \in Late(d) : Free(x, Present(c))
  BY <1>7, <1>8 DEF Late, Cover
<1>14. \A x \in Late(d) : Harmless(d, x)
  BY <1>1, <1>12, <1>13 DEF Harmless
<1>15. Irq(d)
  BY <1>1, <1>5, <1>10, <1>14 DEF Irq, Calm
<1>16. Cover(d)
  BY <1>7, <1>8, <1>12 DEF Cover
<1>17. View(Whole(d)) = View(Elapse(Mark(Present(c), Owing(d))))
  <2>1. d.ifr # -1
    BY <1>1
  <2>2. View(Whole(d)) = View(Elapse(Mark(Past(d), Due(d) \cup Late(d))))
    BY <1>1, <1>14, <2>1, LateView
  <2> QED BY <1>1, <1>9, <2>2
<1> QED BY <1>9, <1>11, <1>15, <1>16, <1>17 DEF d

-----------------------------------------------------------------------------
(* A cycle of the chip computed cycle by cycle, seen from its register.      *)

LEMMA MarkIs ==
  ASSUME NEW q \in Regs, NEW x \in {"TA", "TB"}, NEW r \in Regs,
         r.mask = q.mask, r.new = q.new \cup {x}, r.ack = q.ack \ {x}, r.delay = q.delay,
         r.on <=> q.on,
         \A b : b \in r.flags <=>
            \/ b = x
            \/ b # "TBB" /\ b \in q.flags
            \/ b = "TBB" /\ IF x = "TB" THEN Bug(q) ELSE b \in q.flags
  PROVE  r = Mark(q, {x})
<1> DEFINE f == {x}
           m == Mark(q, f)
<1>1. f \in SUBSET {"TA", "TB"}
  OBVIOUS
<1>2. /\ m \in Regs /\ m.mask = q.mask /\ m.new = q.new \cup f
      /\ m.ack = q.ack \ f /\ m.delay = q.delay /\ m.on = q.on
      /\ \A b : b \in m.flags <=>
          \/ b \in f
          \/ b # "TBB" /\ b \in q.flags
          \/ b = "TBB" /\ IF "TB" \in f THEN Bug(q) ELSE b \in q.flags
  BY <1>1, MarkType
<1> HIDE DEF m
<1>3. \A b : b \in r.flags <=> b \in m.flags
  BY <1>2
<1>4. r.flags \in SUBSET Flags /\ m.flags \in SUBSET Flags /\ r.on \in BOOLEAN /\ m.on \in BOOLEAN
  BY <1>2 DEF Regs
<1>5. r.flags = m.flags /\ r.on = m.on
  BY <1>2, <1>3, <1>4
<1>6. r = m
  BY <1>2, <1>5, RegEqual
<1> QED BY <1>6 DEF m

\* An underflow of timer A is told to the register of the cycle,
LEMMA CycleATold ==
  ASSUME NEW c, Clock(c), c.ifr = 0, Sound(c.ta), c.ta.lag = 1
  PROVE  LET d == CycleA(c) IN
         /\ Clock(d) /\ d.ifr = 0 /\ d.rdi = c.rdi
         /\ Count(c.ta).n = 0 => Reg(d) = Reg(c)
         /\ Count(c.ta).n # 0 => Reg(d) = Mark(Reg(c), {"TA"})
<1> DEFINE t == Count(c.ta)
           d == [c EXCEPT !.ta = t]
           f == {"TA"}
           e == SetIrqFlag(d, f)
           p == 1 - e.tat
           g == [e EXCEPT !.tat = p]
<1>1. t \in Timer /\ c \in Chip
  BY CountFacts DEF Sound, Clock
<1> HIDE DEF t
<1>2. d \in Chip /\ d.ta = t /\ SameIrq(c, d)
  <2>1. 0 \in 0 .. 1
    OBVIOUS
  <2> QED BY <1>1, <2>1, SameIrqPut, TimerPut
<1>3. CycleA(c) = IF t.n = 0 THEN d ELSE g
  <2>1. CycleA(c) = CountedA(d)
    BY DEF CycleA, t
  <2> HIDE DEF d
  <2> QED BY <1>2, <2>1, Zenon DEF CountedA
<1> HIDE DEF d
<1>4. Clock(d) /\ Past(d) = Past(c) /\ d.ifr = 0 /\ d.rdi = c.rdi /\ Reg(d) = Reg(c)
  BY <1>2, SameIrqClock DEF SameIrq
<1>5. Past(d) = Reg(d) /\ Reg(c) \in Regs
  BY <1>1, <1>4, CatchupClock, RegType DEF Past
<1>6. /\ Clock(e) /\ e.rdi = d.rdi
      /\ e.ifr = IF d.ifr > 0 THEN 0 ELSE d.ifr
      /\ e.mask = Past(d).mask /\ e.irqflags = Past(d).flags \cup f
      /\ e.new = Past(d).new \cup f /\ e.ack = Past(d).ack \ f
      /\ e.delay = Past(d).delay /\ (e.line = "on" <=> Past(d).on)
  BY <1>4, FlagTold
<1> HIDE DEF e
<1>7. e \in Chip /\ e.tat \in 0 .. 1 /\ p \in 0 .. 1
  BY <1>6 DEF Clock, Chip
<1> HIDE DEF p
<1>8. g \in Chip /\ SameIrq(e, g)
  BY <1>7, SameIrqPut DEF Chip
<1> HIDE DEF g
<1>9. Clock(g) /\ g.ifr = 0 /\ g.rdi = c.rdi /\ Reg(g) = Reg(e)
  BY <1>4, <1>6, <1>8, SameIrqClock DEF SameIrq
<1>10. Reg(e) = Mark(Reg(c), f)
  <2> DEFINE q == Reg(c)
             r == Reg(e)
  <2>1. /\ r \in Regs /\ r.mask = q.mask /\ r.new = q.new \cup {"TA"} /\ r.ack = q.ack \ {"TA"}
        /\ r.delay = q.delay /\ (r.on <=> q.on) /\ r.flags = q.flags \cup {"TA"}
    <3>1. r \in Regs
      BY <1>7, RegType
    <3>2. Past(d) = q
      BY <1>4, <1>5
    <3> HIDE DEF q
    <3> QED BY <1>6, <3>1, <3>2 DEF Reg
  <2> HIDE DEF q, r
  <2>2. r = Mark(q, {"TA"})
    <3>1. q \in Regs
      BY <1>5 DEF q
    <3> QED BY <2>1, <3>1, MarkIs
  <2> QED BY <2>2 DEF q, r
<1> QED BY <1>3, <1>4, <1>9, <1>10 DEF t

\* and one of timer B.
LEMMA CycleBTold ==
  ASSUME NEW c, Clock(c), c.ifr = 0, Sound(c.tb), c.tb.lag = 1, "INMODE_TA" \notin c.crb
  PROVE  LET d == CycleB(c) IN
         /\ Clock(d) /\ d.ifr = 0 /\ d.rdi = c.rdi
         /\ Count(c.tb).n = 0 => Reg(d) = Reg(c)
         /\ Count(c.tb).n # 0 => Reg(d) = Mark(Reg(c), {"TB"})
<1> DEFINE t == Count(c.tb)
           d == [c EXCEPT !.tb = t]
           f == {"TB"}
           e == SetIrqFlag(d, f)
           i == IF TimerBBug(d) THEN e.irqflags \cup {"TBB"} ELSE e.irqflags \ {"TBB"}
           p == 1 - e.tbt
           g == [e EXCEPT !.irqflags = i, !.tbt = p]
           h == IF t.n = 0 THEN d ELSE g
           u == [h.tb EXCEPT !.bits = h.tb.bits]
           k == [h EXCEPT !.tb = u]
<1>1. t \in Timer /\ c \in Chip
  BY CountFacts DEF Sound, Clock
<1>2. CycleB(c) = SteppedB(CountedB(d))
  BY DEF CycleB
<1> HIDE DEF t
<1>3. d \in Chip /\ d.tb = t /\ SameIrq(c, d) /\ d.crb = c.crb
  <2>1. 0 \in 0 .. 1
    OBVIOUS
  <2> QED BY <1>1, <2>1, SameIrqPut, TimerPut DEF KeepsA
<1> HIDE DEF d
<1>4. CountedB(d) = h
  BY <1>3, Zenon DEF CountedB
<1>5. Clock(d) /\ Past(d) = Past(c) /\ d.ifr = 0 /\ d.rdi = c.rdi /\ Reg(d) = Reg(c)
  BY <1>3, SameIrqClock DEF SameIrq
<1>6. Past(d) = Reg(d) /\ Reg(c) \in Regs
  BY <1>1, <1>5, CatchupClock, RegType DEF Past
<1>7. /\ Clock(e) /\ e.rdi = d.rdi /\ Same(d, e)
      /\ e.ifr = IF d.ifr > 0 THEN 0 ELSE d.ifr
      /\ e.mask = Past(d).mask /\ e.irqflags = Past(d).flags \cup f
      /\ e.new = Past(d).new \cup f /\ e.ack = Past(d).ack \ f
      /\ e.delay = Past(d).delay /\ (e.line = "on" <=> Past(d).on)
  BY <1>5, FlagTold
<1> HIDE DEF e
<1>8. e \in Chip /\ e.tbt \in 0 .. 1 /\ e.irqflags \in SUBSET Flags /\ e.crb = c.crb
  BY <1>3, <1>7 DEF Clock, Chip, Same, KeepsA
<1>9. p \in 0 .. 1 /\ i \in SUBSET Flags
  BY <1>8 DEF Flags
<1>10. \A b : b \in i <=> IF b = "TBB" THEN TimerBBug(d) ELSE b \in e.irqflags
  OBVIOUS
<1> HIDE DEF p, i
<1>11. /\ g \in Chip /\ g.mask = e.mask /\ g.irqflags = i /\ g.new = e.new /\ g.ack = e.ack
       /\ g.delay = e.delay /\ g.line = e.line /\ g.irqEnabled = e.irqEnabled
       /\ g.ifr = e.ifr /\ g.rdi = e.rdi /\ g.crb = c.crb
  BY <1>8, <1>9 DEF Chip
<1> HIDE DEF g
<1>12. Clock(g) /\ g.ifr = 0 /\ g.rdi = c.rdi
  BY <1>5, <1>7, <1>11 DEF Clock
<1>13. Reg(g) = Mark(Reg(c), f)
  <2> DEFINE q == Reg(c)
             r == Reg(g)
  <2>0. Past(d) = q /\ q \in Regs
    BY <1>5, <1>6
  <2>1. Bug(q) <=> TimerBBug(d)
    BY <1>5, <2>0, BugShows
  <2>2. /\ r \in Regs /\ r.mask = q.mask /\ r.new = q.new \cup {"TB"} /\ r.ack = q.ack \ {"TB"}
        /\ r.delay = q.delay /\ (r.on <=> q.on) /\ r.flags = i
        /\ e.irqflags = q.flags \cup {"TB"}
    <3>1. r \in Regs
      BY <1>11, RegType
    <3> HIDE DEF q
    <3> QED BY <1>7, <1>11, <2>0, <3>1 DEF Reg
  <2> HIDE DEF q, r
  <2>3. \A b : b \in r.flags <=>
            \/ b = "TB"
            \/ b # "TBB" /\ b \in q.flags
            \/ b = "TBB" /\ Bug(q)
    BY <1>10, <2>1, <2>2
  <2>4. r = Mark(q, {"TB"})
    BY <2>0, <2>2, <2>3, MarkIs
  <2> QED BY <2>4 DEF q, r
<1>14. h \in Chip /\ Clock(h) /\ h.ifr = 0 /\ h.rdi = c.rdi /\ h.crb = c.crb
  BY <1>3, <1>5, <1>11, <1>12
<1>15. /\ t.n = 0 => Reg(h) = Reg(c)
       /\ t.n # 0 => Reg(h) = Mark(Reg(c), {"TB"})
  BY <1>5, <1>13
<1> HIDE DEF h
<1>16. SteppedB(h) = k
  <2>1. ~ Chained(h)
    BY <1>14 DEF Chained
  <2> QED BY <1>14, <2>1, Zenon DEF SteppedB, Chip
<1>17. u \in Timer
  BY <1>14 DEF Chip, Timer
<1> HIDE DEF u
<1>18. k \in Chip /\ SameIrq(h, k)
  <2>1. 0 \in 0 .. 1
    OBVIOUS
  <2> QED BY <1>14, <1>17, <2>1, SameIrqPut, TimerPut
<1> HIDE DEF k
<1>19. Clock(k) /\ k.ifr = 0 /\ k.rdi = c.rdi /\ Reg(k) = Reg(h)
  BY <1>14, <1>18, SameIrqClock DEF SameIrq
<1> QED BY <1>2, <1>4, <1>15, <1>16, <1>19 DEF t

\* Alike timers count alike.
LEMMA CountAlike ==
  ASSUME NEW a, Sound(a), NEW b, Sound(b), Alike(a, b)
  PROVE  Count(a).n = Count(b).n
<1> DEFINE z == 0
           s == [a EXCEPT !.n = z]
           t == [b EXCEPT !.n = z]
<1>1. s \in Timer /\ t \in Timer /\ s.n = 0 /\ t.n = 0 /\ Like(s, t)
  BY Told DEF Sound, Like, Alike
<1>2. Count(a) = Cycle(s) /\ Count(b) = Cycle(t)
  BY DEF Count
<1> HIDE DEF s, t
<1>3. /\ Cycle(s) \in Timer /\ Cycle(t) \in Timer /\ Cycle(s).n - s.n = Cycle(t).n - t.n
  BY <1>1, LikeCycle
<1> QED BY <1>1, <1>2, <1>3 DEF Timer

\* The underflows of the chip computed cycle by cycle.
Counts(e) == {x \in {"TA"} : Count(e.ta).n # 0} \cup {x \in {"TB"} : Count(e.tb).n # 0}

RefIrq(e) == Exact(e) /\ Irq(e) /\ e.line # "next" /\ e.ifr <= 0

\* Nothing of it is due or late.
LEMMA ExactOwesNothing ==
  ASSUME NEW e, Exact(e), Clock(e)
  PROVE  /\ Due(e) = {} /\ Late(e) = {} /\ ~ AlarmsDue(e)
         /\ Whole(e) = Present(e) /\ Present(e) \in Regs
<1>1. Due(e) = {} /\ ~ AlarmsDue(e)
  BY DEF Exact, Due, AlarmsDue, Never
<1>2. ~ Owes(e.ta) /\ ~ Owes(e.tb)
  BY OwesFacts DEF Exact, Good
<1>3. Late(e) = {}
  BY <1>2 DEF Late
<1>4. Present(e) \in Regs
  BY PresentFacts
<1> QED BY <1>1, <1>3, <1>4, MarkNone DEF Whole

LEMMA FinishedReg ==
  ASSUME NEW e, RefIrq(e)
  PROVE  LET f == Finished(e) IN
         /\ Exact(f) /\ Same(e, f) /\ Clock(f) /\ f.ifr = -1 /\ f.rdi = e.rdi
         /\ f.line # "next" /\ Reg(f) = Whole(e) /\ Whole(e) = Present(e)
<1> DEFINE f == Finished(e)
<1>1. Exact(f) /\ Same(e, f)
  BY FinishedFacts DEF RefIrq
<1>2. Clock(e) /\ e \in Chip /\ e.ifr \in Int /\ e.ifr >= -1 /\ e.ifr <= 0 /\ e.line # "next"
  BY DEF RefIrq, Irq, Clock, Chip
<1>3. Due(e) = {} /\ Whole(e) = Present(e)
  BY <1>2, ExactOwesNothing DEF RefIrq
<1>4. CASE e.ifr = -1
  <2>1. f = e
    BY <1>4 DEF Finished
  <2>2. Present(e) = Reg(e)
    BY <1>2, <1>4, PresentFacts
  <2> QED BY <1>1, <1>2, <1>3, <1>4, <2>1, <2>2
<1>5. CASE e.ifr = 0
  <2>1. f = RunIfrCycle(e)
    BY <1>5 DEF Finished
  <2>2. Clock(f) /\ f.ifr = -1 /\ f.rdi = e.rdi /\ Reg(f) = Elapse(Reg(e))
    BY <1>2, <1>5, <2>1, RunClock
  <2>3. Past(e) = Reg(e) /\ Past(e) \in Regs
    BY <1>2, <1>5, CatchupClock DEF Past
  <2>4. Present(e) = Elapse(Reg(e))
    BY <1>3, <1>5, <2>3, MarkNone DEF Present
  <2>5. f.line # "next"
    <3>1. RunIfrCycle(e).line \in {"on", e.line}
      BY <1>2 DEF RunIfrCycle, Chip
    <3> QED BY <1>2, <2>1, <3>1
  <2> QED BY <1>1, <1>3, <2>2, <2>4, <2>5
<1> QED BY <1>2, <1>4, <1>5

\* It looks at no cycle in advance.
LEMMA PlainReg ==
  ASSUME NEW c, Good(c), Clock(c)
  PROVE  LET d == Plain(c) IN
         /\ Clock(d) /\ d.line # "next" /\ Reg(d) = Reg(c) /\ d.ifr = c.ifr /\ d.rdi = c.rdi
         /\ d.new = c.new /\ d.delay = c.delay
<1> DEFINE ahead == c.line = "next"
           v == Never
           s == [c.ta EXCEPT !.due = v]
           t == [c.tb EXCEPT !.due = v]
           z == 0
           l == IF ahead THEN "off" ELSE c.line
           i == c.irqEnabled /\ ~ ahead
           d == [c EXCEPT !.ta = s, !.tb = t, !.idle = z, !.line = l, !.irqEnabled = i]
<1>1. c \in Chip /\ c.ta \in Timer /\ c.tb \in Timer
  BY DEF Good, Sound
<1>2. Plain(c) = d
  <2>1. Plain(c) = [c EXCEPT !.ta.due = Never, !.tb.due = Never, !.idle = 0,
                             !.line = IF ahead THEN "off" ELSE @,
                             !.irqEnabled = @ /\ ~ ahead]
    BY Zenon DEF Plain
  <2> QED BY <1>1, <2>1, Zenon DEF Chip
<1>3. s \in Timer /\ t \in Timer
  BY <1>1, DuePut
<1>4. l \in {"off", "next", "on"} /\ i \in BOOLEAN /\ z \in Int
  BY <1>1 DEF Chip
<1>5. l # "next" /\ (l = "on" <=> c.line = "on") /\ (i <=> l # "off")
  BY <1>4 DEF Clock
<1> HIDE DEF s, t, z, l, i
<1>6. /\ d \in Chip /\ d.mask = c.mask /\ d.irqflags = c.irqflags /\ d.new = c.new
      /\ d.ack = c.ack /\ d.delay = c.delay /\ d.irqEnabled = i /\ d.line = l
      /\ d.ifr = c.ifr /\ d.rdi = c.rdi
  BY <1>1, <1>3, <1>4 DEF Chip
<1> HIDE DEF d
<1>7. Clock(d)
  BY <1>5, <1>6 DEF Clock
<1>8. Reg(d) = Reg(c)
  BY <1>5, <1>6 DEF Reg
<1> QED BY <1>2, <1>5, <1>6, <1>7, <1>8

\* Its cycle.
LEMMA WholeCycleReg ==
  ASSUME NEW e, RefIrq(e), "INMODE_TA" \notin e.crb
  PROVE  LET d == WholeCycle(e) IN
         RefIrq(d) /\ Whole(d) = Elapse(Mark(Whole(e), Counts(e)))
<1> DEFINE f == Finished(e)
           p == Plain(f)
           g == Older(p)
           h == CycleA(g)
           b == CycleB(h)
           z == 0
           s == [b.ta EXCEPT !.n = z]
           t == [b.tb EXCEPT !.n = z]
           d == [b EXCEPT !.ta = s, !.tb = t, !.idle = z]
           q == Whole(e)
<1>1. /\ Exact(f) /\ Same(e, f) /\ Clock(f) /\ f.ifr = -1 /\ f.rdi = e.rdi
      /\ f.line # "next" /\ Reg(f) = q
  BY FinishedReg
<1>2. q \in Regs
  <2>1. Clock(f) => Reg(f) \in Regs
    BY RegType DEF Clock
  <2> QED BY <1>1, <2>1
<1> HIDE DEF f, q
<1>3. /\ Good(p) /\ Rearmed(f.ta, p.ta) /\ p.ta.due = Never
      /\ Rearmed(f.tb, p.tb) /\ p.tb.due = Never /\ p.crb = f.crb
  BY <1>1, PlainFacts DEF Exact
<1>4. Clock(p) /\ p.line # "next" /\ Reg(p) = q /\ p.ifr = -1
  BY <1>1, PlainReg DEF Exact
<1>5. ~ AlarmsDue(p) /\ p.ifr >= -1 /\ p \in Chip /\ p.ta \in Timer /\ p.tb \in Timer
  BY <1>3, <1>4 DEF AlarmsDue, Never, Good, Sound
<1> HIDE DEF p
<1>6. Clock(g) /\ g.ifr = 0
  <2>1. Roomy(p)
    BY <1>4, Limits DEF Roomy
  <2> QED BY <1>3, <1>4, <1>5, <2>1, OlderPast
<1>7. Reg(g) = q
  <2>1. /\ g.mask = p.mask /\ g.irqflags = p.irqflags /\ g.new = p.new
        /\ g.ack = p.ack /\ g.delay = p.delay /\ g.line = p.line
    BY <1>3, <1>4, <1>5, OlderFields
  <2> QED BY <1>4, <2>1 DEF Reg
<1>8. /\ Turn(g) /\ g.ta.lag = 1 /\ g.tb.lag = 1
      /\ Alike(g.ta, p.ta) /\ Alike(g.tb, p.tb) /\ g.crb = p.crb
  <2>1. p.ta.lag = 0 /\ p.tb.lag = 0
    BY <1>1, <1>3 DEF Exact, Rearmed
  <2>2. Turn(g) /\ g.ta.lag = 1 /\ g.tb.lag = 1
    BY <1>3, <1>5, <2>1, OlderFacts
  <2> HIDE DEF g
  <2> QED BY <1>5, <2>2, OlderKeeps DEF g
<1> HIDE DEF g
<1>9. g \in Chip /\ Sound(g.ta) /\ Sound(g.tb) /\ Sound(e.ta) /\ Sound(e.tb)
  BY <1>8 DEF Turn, Good, RefIrq, Exact
<1>10. Count(g.ta).n = Count(e.ta).n /\ Count(g.tb).n = Count(e.tb).n
  <2>1. Alike(g.ta, e.ta) /\ Alike(g.tb, e.tb)
    BY <1>1, <1>3, <1>8 DEF Same, KeepsA, KeepsB, Rearmed, Alike
  <2> QED BY <1>9, <2>1, CountAlike
<1>11. g.crb = e.crb
  BY <1>1, <1>3, <1>8 DEF Same, KeepsA
<1>12. /\ Clock(h) /\ h.ifr = 0
       /\ Count(e.ta).n = 0 => Reg(h) = q
       /\ Count(e.ta).n # 0 => Reg(h) = Mark(q, {"TA"})
  BY <1>6, <1>7, <1>8, <1>9, <1>10, CycleATold
<1>13. KeepsB(g, h)
  BY <1>8, <1>9, CycleAFacts
<1> HIDE DEF h
<1>14. h.crb = g.crb /\ h.tb = g.tb
  BY <1>13 DEF KeepsB
<1>15. /\ Clock(b) /\ b.ifr = 0
       /\ Count(e.tb).n = 0 => Reg(b) = Reg(h)
       /\ Count(e.tb).n # 0 => Reg(b) = Mark(Reg(h), {"TB"})
  BY <1>8, <1>9, <1>10, <1>11, <1>12, <1>14, CycleBTold
<1>16. Reg(b) = Mark(q, Counts(e))
  <2>1. CASE Count(e.ta).n = 0 /\ Count(e.tb).n = 0
    <3>1. Counts(e) = {}
      BY <2>1 DEF Counts
    <3> QED BY <1>2, <1>12, <1>15, <2>1, <3>1, MarkNone
  <2>2. CASE Count(e.ta).n # 0 /\ Count(e.tb).n = 0
    <3>1. Counts(e) = {"TA"}
      BY <2>2 DEF Counts
    <3> QED BY <1>12, <1>15, <2>2, <3>1
  <2>3. CASE Count(e.ta).n = 0 /\ Count(e.tb).n # 0
    <3>1. Counts(e) = {"TB"}
      BY <2>3 DEF Counts
    <3> QED BY <1>12, <1>15, <2>3, <3>1
  <2>4. CASE Count(e.ta).n # 0 /\ Count(e.tb).n # 0
    <3> DEFINE A == {"TA"}
               B == {"TB"}
    <3>1. Counts(e) = A \cup B
      BY <2>4 DEF Counts
    <3>2. A \in SUBSET {"TA", "TB"} /\ B \in SUBSET {"TA", "TB"}
      OBVIOUS
    <3>3. Reg(b) = Mark(Mark(q, A), B)
      BY <1>12, <1>15, <2>4
    <3> HIDE DEF A, B
    <3> QED BY <1>2, <3>1, <3>2, <3>3, MarkMark
  <2> QED BY <2>1, <2>2, <2>3, <2>4
<1>17. b \in Chip
  BY <1>15 DEF Clock
<1>18. WholeCycle(e) = d
  <2>1. WholeCycle(e) = [b EXCEPT !.ta.n = 0, !.tb.n = 0, !.idle = 0]
    BY Zenon DEF WholeCycle, f, p, g, h
  <2> HIDE DEF b
  <2> QED BY <1>17, <2>1, Zenon DEF Chip
<1> HIDE DEF b
<1>19. Exact(d) /\ Turn(d) /\ d.crb = e.crb /\ "STEP" \notin d.ta.bits /\ "STEP" \notin d.tb.bits
  <2> HIDE DEF d
  <2> QED BY <1>18, WholeCycleFacts DEF RefIrq
<1>20. SameIrq(b, d)
  <2>1. s \in Timer /\ t \in Timer /\ z \in Int
    BY <1>17 DEF Chip, Timer
  <2> HIDE DEF s, t, z
  <2> QED BY <1>17, <2>1 DEF Chip, SameIrq, Reg
<1> HIDE DEF d
<1>21. Clock(d) /\ d.ifr = 0 /\ Reg(d) = Reg(b)
  BY <1>15, <1>19, <1>20, SameIrqClock DEF SameIrq, Turn, Good
<1>22. Due(d) = {} /\ Late(d) = {} /\ ~ AlarmsDue(d) /\ Whole(d) = Present(d)
  BY <1>19, <1>21, ExactOwesNothing
<1>23. Whole(d) = Elapse(Mark(q, Counts(e)))
  <2>1. Past(d) = Reg(d) /\ Past(d) \in Regs
    BY <1>21, CatchupClock DEF Past
  <2>2. Present(d) = Elapse(Reg(d))
    BY <1>21, <1>22, <2>1, MarkNone DEF Present
  <2> QED BY <1>16, <1>21, <1>22, <2>2
<1>24. Irq(d)
  <2>1. Fit(d)
    BY <1>19, <1>21, <1>22 DEF Fit, Turn, Alone
  <2>2. Present(d).new = {}
    BY <1>21, PresentFacts
  <2> QED BY <1>21, <1>22, <2>1, <2>2 DEF Irq, Calm
<1>25. d.line # "next" /\ d.ifr <= 0
  BY <1>21 DEF Clock
<1> QED BY <1>18, <1>19, <1>23, <1>24, <1>25 DEF RefIrq, q

\* What a timer owes a cycle later is what it owed and what the other one counts.
LEMMA OwesNext ==
  ASSUME NEW t, Sound(t), "STEP" \notin t.bits, NEW u, Sound(u), Alike(u, t), u.lag = t.lag + 1,
         NEW r, Sound(r), r.lag = 0, Sight(t) = Sight(r)
  PROVE  Owes(u) <=> Owes(t) \/ Count(r).n # 0
<1> DEFINE z == 0
           s == [r EXCEPT !.n = z]
<1>1. s \in Timer /\ s.n = 0 /\ s.bits = r.bits /\ s.cnt = r.cnt /\ s.latch = r.latch
  BY Told DEF Sound
<1>2. Count(r) = Cycle(s)
  BY DEF Count
<1> HIDE DEF s
<1>3. Sight(t) = [bits |-> Shape(s.bits), cnt |-> s.cnt, latch |-> s.latch]
  BY <1>1, SightNow
<1>4. Update(u).n = Update(t).n + Cycle(s).n /\ Cycle(s).n \in {0, 1}
  BY <1>1, <1>3, OwesOlder
<1>5. Update(t).n \in Nat
  BY UpdateFacts DEF Sound, Timer
<1> QED BY <1>2, <1>4, <1>5 DEF Owes

LEMMA OwingNext ==
  ASSUME NEW c, Fit(c), c.ifr >= -1, ~ AlarmsDue(c), NEW e, Exact(e), Twins(c, e), TwinsB(c, e)
  PROVE  Owing(Older(c)) = Late(c) \cup Counts(e)
<1> DEFINE d == Older(c)
<1>1. Good(c) /\ c \in Chip /\ "STEP" \notin c.ta.bits /\ "STEP" \notin c.tb.bits
  BY DEF Fit, Good, Alone
<1>2. Good(d) /\ d.ta.lag = c.ta.lag + 1 /\ d.tb.lag = c.tb.lag + 1
  BY <1>1, OlderFacts DEF Turn
<1>3. Alike(d.ta, c.ta) /\ Alike(d.tb, c.tb)
  BY <1>1, OlderKeeps DEF Good, Sound
<1> HIDE DEF d
<1>4. Sight(c.ta) = Sight(e.ta) /\ Sight(c.tb) = Sight(e.tb)
  <2>1. Seen(c.ta, c.tat) = Seen(e.ta, e.tat)
    BY DEF Twins, FaceA
  <2>2. Sight(c.ta) = Sight(e.ta)
    BY <2>1 DEF Sight, Seen
  <2> QED BY <2>2 DEF TwinsB, Sights
<1>5. Sound(e.ta) /\ Sound(e.tb) /\ e.ta.lag = 0 /\ e.tb.lag = 0
  BY DEF Exact, Good
<1>6. /\ Owes(d.ta) <=> Owes(c.ta) \/ Count(e.ta).n # 0
      /\ Owes(d.tb) <=> Owes(c.tb) \/ Count(e.tb).n # 0
  BY <1>1, <1>2, <1>3, <1>4, <1>5, OwesNext DEF Good
<1>7. c.ta.due # 0 /\ c.tb.due # 0
  BY DEF AlarmsDue
<1> QED BY <1>6, <1>7, Zenon DEF Owing, Late, Counts, d

\* The emulated chip lets a cycle pass while the other computes it: the interrupts stay alike.
LEMMA OlderView ==
  ASSUME NEW c, Irq(c), Cover(c), ~ AlarmsDue(c), Roomy(c),
         NEW e, RefIrq(e), Twins(c, e), TwinsB(c, e), View(Whole(c)) = View(Whole(e))
  PROVE  /\ RefIrq(WholeCycle(e))
         /\ View(Whole(Older(c))) = View(Whole(WholeCycle(e)))
<1>1. Fit(c) /\ Clock(c) /\ c.ifr >= -1 /\ Exact(e) /\ Irq(e) /\ Clock(e)
  BY DEF Irq, Clock, RefIrq
<1>2. "INMODE_TA" \notin e.crb
  BY DEF TwinsB, Alone
<1>3. RefIrq(WholeCycle(e)) /\ Whole(WholeCycle(e)) = Elapse(Mark(Whole(e), Counts(e)))
  BY <1>2, WholeCycleReg
<1>4. /\ Late(c) \in SUBSET {"TA", "TB"} /\ Counts(e) \in SUBSET {"TA", "TB"}
      /\ Present(c) \in Regs /\ Whole(c) \in Regs /\ Whole(e) \in Regs
  BY <1>1, PresentFacts DEF Counts
<1>5. View(Whole(Older(c))) = View(Elapse(Mark(Present(c), Late(c) \cup Counts(e))))
  BY <1>1, OwingNext, OlderIrq
<1>6. Mark(Present(c), Late(c) \cup Counts(e)) = Mark(Whole(c), Counts(e))
  BY <1>4, MarkMark DEF Whole
<1>7. Calm(Whole(c)) /\ Calm(Whole(e))
  BY <1>1, CalmWhole
<1>8. View(Elapse(Mark(Whole(c), Counts(e)))) = View(Elapse(Mark(Whole(e), Counts(e))))
  BY <1>4, <1>7, NearElapse
<1> QED BY <1>3, <1>5, <1>6, <1>8

-----------------------------------------------------------------------------
(* The interrupt line, which the emulation sets when it looks ahead.         *)

\* A line that has risen stays so until it is acknowledged.
LEMMA LineStays ==
  ASSUME NEW q \in Regs, q.on, NEW n \in Nat
  PROVE  Drawn(q, n).on
<1> DEFINE S == {k \in Nat : Drawn(q, k).on}
<1>1. 0 \in S
  BY DrawnNext
<1>2. \A k \in S : k + 1 \in S
  <2> SUFFICES ASSUME NEW k \in Nat, Drawn(q, k).on
               PROVE  Drawn(q, k + 1).on
    OBVIOUS
  <2> DEFINE p == Drawn(q, k)
  <2>1. p \in Regs /\ Drawn(q, k + 1) = Elapse(p)
    BY DrawnNext
  <2> HIDE DEF p
  <2>2. Elapse(p).on <=> "RAISE0" \in Delays(p) \/ p.on
    BY <2>1, ElapseType
  <2> QED BY <2>1, <2>2 DEF p
<1>3. S \in SUBSET Nat
  OBVIOUS
<1> HIDE DEF S
<1>4. n \in S
  BY <1>1, <1>2, <1>3, Induct
<1> QED BY <1>4 DEF S

LEMMA LineOn ==
  ASSUME NEW c, Clock(c), c.line = "on"
  PROVE  Present(c).on
<1> DEFINE n == IF c.ifr > 0 THEN c.ifr ELSE 0
           q == Reg(c)
           p == Past(c)
<1>1. c \in Chip /\ c.ifr \in Int /\ n \in Nat
  BY DEF Clock, Chip
<1>2. q \in Regs /\ q.on
  <2>1. q \in Regs
    BY <1>1, RegType
  <2> QED BY <2>1 DEF Reg
<1>3. p = Drawn(q, n) /\ p \in Regs
  BY CatchupClock
<1> HIDE DEF n, q
<1>4. p.on
  BY <1>1, <1>2, <1>3, LineStays
<1>5. Due(c) \in SUBSET {"TA", "TB"}
  BY PresentFacts
<1> HIDE DEF p
<1>6. Mark(p, Due(c)) \in Regs /\ Mark(p, Due(c)).on = p.on
  BY <1>3, <1>5, MarkType
<1>7. Elapse(Mark(p, Due(c))).on
  BY <1>4, <1>6, ElapseType
<1> QED BY <1>4, <1>7 DEF Present, p

\* It is set with the cycle in which the register asserts it, once no alarm of the cycle is
\* left, and by then every cycle of the next ones that asserts it is looked after.
Prompt(c) ==
  c.ifr = -1 \/ (~ AlarmsDue(c) /\ c.idle > 0) =>
    /\ Present(c).on => c.line = "on"
    /\ "RAISE0" \in Present(c).delay => c.line # "off"
    /\ "RAISE1" \in Present(c).delay => c.idle = 1 \/ c.line # "off"

LEMMA EndPrompt ==
  ASSUME NEW c, Clock(c), End(c)
  PROVE  Prompt(c)
<1>1. CASE c.ifr = -1
  <2>1. Present(c) = Reg(c) /\ Ready(c)
    BY <1>1, PresentFacts DEF End
  <2>2. Reg(c).delay = c.delay /\ Reg(c).on = (c.line = "on")
    BY DEF Reg
  <2> QED BY <2>1, <2>2 DEF Prompt, Ready
<1>2. CASE c.ifr # -1
  <2>1. AlarmsDue(c)
    BY <1>2 DEF End
  <2> QED BY <1>2, <2>1, Zenon DEF Prompt
<1> QED BY <1>1, <1>2

LEMMA OlderPrompt ==
  ASSUME NEW c, Irq(c), Cover(c), ~ AlarmsDue(c), Roomy(c), c.idle > 0, Prompt(c)
  PROVE  Prompt(Older(c))
<1> DEFINE d == Older(c)
           p == Present(c)
           e == Elapse(p)
<1>1. Good(c) /\ Clock(c) /\ c.ifr >= -1 /\ c \in Chip /\ p \in Regs
  BY PresentFacts DEF Irq, Fit, Clock
<1>2. /\ d.line = (IF c.line = "next" THEN "on" ELSE c.line)
      /\ d.idle = c.idle - 1 /\ d.ifr >= 0
  BY <1>1, OlderFields, OlderFacts, OlderPast
<1>3. Present(d) = Elapse(Mark(p, Due(d)))
  BY OlderIrq
<1> HIDE DEF d
<1>4. /\ p.on => c.line = "on"
      /\ "RAISE0" \in p.delay => c.line # "off"
      /\ "RAISE1" \in p.delay => c.idle = 1 \/ c.line # "off"
  BY DEF Prompt
<1>5. p.new \cap p.mask # {} => p.on
  BY DEF Irq, Calm, Asserted
<1> HIDE DEF p
<1>6. SUFFICES ASSUME d.ifr = -1 \/ (~ AlarmsDue(d) /\ d.idle > 0)
               PROVE  /\ Present(d).on => d.line = "on"
                      /\ "RAISE0" \in Present(d).delay => d.line # "off"
                      /\ "RAISE1" \in Present(d).delay => d.idle = 1 \/ d.line # "off"
  BY DEF Prompt, d
<1>7. ~ AlarmsDue(d) /\ d.idle > 0
  BY <1>2, <1>6
<1>8. Present(d) = e
  <2>1. Due(d) = {}
    BY <1>7 DEF Due, AlarmsDue
  <2> QED BY <1>1, <1>3, <2>1, MarkNone
<1>9. e.on => p.on \/ "RAISE0" \in p.delay
  BY <1>1, <1>5, ElapseIs
<1>10. "RAISE0" \in e.delay => p.on \/ "RAISE1" \in p.delay
  BY <1>1, <1>5, ElapseIs
<1>11. "RAISE1" \notin e.delay
  BY <1>1, ElapseIs
<1> HIDE DEF e
<1>12. c.line \in {"off", "next", "on"} /\ c.idle \in Int
  BY <1>1 DEF Chip
<1>13. c.idle # 1
  BY <1>2, <1>7, <1>12
<1>14. c.line # "off" => d.line = "on"
  BY <1>2, <1>12
<1>15. e.on => d.line = "on"
  BY <1>4, <1>9, <1>12, <1>14
<1>16. "RAISE0" \in e.delay => d.line = "on"
  BY <1>4, <1>10, <1>13, <1>14
<1> QED BY <1>8, <1>11, <1>15, <1>16

\* Once the alarms have run, the line is the one the register shows.
LEMMA LineShown ==
  ASSUME NEW c, Clock(c), Prompt(c), ~ AlarmsDue(c), c.idle > 0
  PROVE  Whole(c).on <=> c.line = "on"
<1>1. Late(c) \in SUBSET {"TA", "TB"} /\ Present(c) \in Regs
  BY PresentFacts
<1>2. Whole(c).on = Present(c).on
  BY <1>1, MarkType DEF Whole
<1>3. Present(c).on => c.line = "on"
  BY DEF Prompt
<1>4. c.line = "on" => Present(c).on
  BY LineOn
<1> QED BY <1>2, <1>3, <1>4

\* The register is never further behind than the idle alarm lets it be.
Bound(c) == c.ifr + c.idle <= MaxIdle \/ (c.ifr = 1 /\ Still(Reg(c)))

LEMMA OlderBound ==
  ASSUME NEW c, Good(c), Clock(c), ~ AlarmsDue(c), Bound(c), c.idle > 0
  PROVE  Roomy(c) /\ Bound(Older(c))
<1>1. c.ifr \in Int /\ c.idle \in Int /\ c.ifr >= -1 /\ MaxIdle \in Nat
  BY Limits DEF Clock, Chip
<1>2. Roomy(c)
  BY <1>1 DEF Roomy, Bound
<1> DEFINE d == Older(c)
<1>3. d.idle = c.idle - 1 /\ d.ifr \in Int
  BY <1>1, OlderFacts DEF Turn, Good, Chip
<1>4. /\ c.ifr = 1 /\ Still(Reg(c)) => d.ifr = 1 /\ Still(Reg(d))
      /\ d.ifr <= c.ifr + 1 \/ (d.ifr = 1 /\ Still(Reg(d)))
  BY <1>2, OlderPast
<1> HIDE DEF d
<1>5. Bound(d)
  BY <1>1, <1>3, <1>4 DEF Bound
<1> QED BY <1>2, <1>5 DEF d

\* The chip computed cycle by cycle after an access.
LEMMA PlainIrq ==
  ASSUME NEW h, Irq(h), h.ifr = -1, h.ta.lag = 0, h.tb.lag = 0,
         Exact(Plain(h)), "STEP" \notin Plain(h).ta.bits, Alone(Plain(h)), ~ AlarmsDue(h)
  PROVE  RefIrq(Plain(h)) /\ Whole(Plain(h)) = Whole(h)
<1> DEFINE d == Plain(h)
<1>1. Good(h) /\ Clock(h)
  BY DEF Irq, Fit
<1>2. Clock(d) /\ d.line # "next" /\ Reg(d) = Reg(h) /\ d.ifr = -1
  BY <1>1, PlainReg
<1> HIDE DEF d
<1>3. Exact(d) /\ "STEP" \notin d.ta.bits /\ Alone(d)
  BY DEF d
<1>4. Due(d) = {} /\ Late(d) = {} /\ ~ AlarmsDue(d) /\ Whole(d) = Present(d)
  BY <1>2, <1>3, ExactOwesNothing
<1>5. Present(d) = Reg(d) /\ Present(h) = Reg(h) /\ Present(h) \in Regs
  BY <1>1, <1>2, PresentFacts
<1>6. Whole(h) = Present(h)
  <2>1. ~ Owes(h.ta) /\ ~ Owes(h.tb)
    BY <1>1, OwesFacts DEF Good
  <2>2. Late(h) = {}
    BY <2>1 DEF Late
  <2> QED BY <1>5, <2>2, MarkNone DEF Whole
<1>7. Irq(d)
  <2>1. Fit(d)
    BY <1>3, <1>4 DEF Fit, Exact
  <2>2. Calm(Present(d))
    BY <1>2, <1>5 DEF Irq
  <2> QED BY <1>2, <1>4, <2>1, <2>2 DEF Irq
<1> QED BY <1>2, <1>3, <1>4, <1>5, <1>6, <1>7 DEF RefIrq, d

-----------------------------------------------------------------------------
(* Both chips, as long as the program does not make B count A.               *)

\* Both show the same interrupts, whatever of them is still to be drawn.
Pair(c, e) ==
  /\ Irq(c) /\ Cover(c) /\ Bound(c) /\ Prompt(c)
  /\ RefIrq(e)
  /\ View(Whole(c)) = View(Whole(e))

\* The alarms keep it,
LEMMA HandlerPair ==
  ASSUME NEW c, NEW e, Pair(c, e), NEW d, TellsIrq(c, d), End(d), d.idle \in Int, d.idle <= MaxIdle
  PROVE  Pair(d, e)
<1>1. Irq(d) /\ Cover(d) /\ View(Whole(d)) = View(Whole(c))
  BY DEF Pair, TellsIrq
<1>2. Clock(d) /\ d.ifr \in Int /\ d.ifr <= 0
  BY <1>1 DEF Irq, Clock, Chip, End
<1>3. Prompt(d)
  BY <1>2, EndPrompt
<1>4. Bound(d)
  BY <1>2, Limits DEF Bound
<1> QED BY <1>1, <1>3, <1>4 DEF Pair

\* the accesses,
LEMMA AccessPair ==
  ASSUME NEW c, Turn(c), NEW e, Turn(e), Pair(c, e), NEW a \in Accesses,
         a.reg = "CRB" => "INMODE_TA" \notin a.byte,
         Access(c, a).idle \in Int, Access(c, a).idle <= MaxIdle,
         Exact(Plain(Access(e, a))), "STEP" \notin Plain(Access(e, a)).ta.bits,
         Alone(Plain(Access(e, a)))
  PROVE  Pair(Access(c, a), Plain(Access(e, a)))
<1> DEFINE d == Access(c, a)
           h == Access(e, a)
           p == Plain(h)
<1>1. Irq(c) /\ Cover(c) /\ Irq(e) /\ Exact(e) /\ View(Whole(c)) = View(Whole(e))
  BY DEF Pair, RefIrq
<1>2. Irq(d) /\ End(d) /\ Cover(d)
  BY <1>1, AccessIrq
<1>3. Irq(h) /\ End(h) /\ Due(h) \subseteq Due(e)
  BY <1>1, AccessIrq
<1>4. View(Whole(d)) = View(Whole(h))
  BY <1>1, AccessAlike
<1>5. Done(e, h)
  BY AccessDone
<1> HIDE DEF d, h
<1>6. h.ta.lag = 0 /\ h.tb.lag = 0
  BY <1>1, <1>5 DEF Done, Exact
<1>7. ~ AlarmsDue(h) /\ h.ifr = -1
  <2>1. Due(e) = {}
    BY <1>1, ExactOwesNothing DEF Irq
  <2>2. ~ AlarmsDue(h)
    BY <1>3, <2>1 DEF AlarmsDue, Due
  <2> QED BY <1>3, <2>2 DEF End
<1>8. RefIrq(p) /\ Whole(p) = Whole(h)
  <2>1. Exact(p) /\ "STEP" \notin p.ta.bits /\ Alone(p)
    BY DEF h
  <2> QED BY <1>3, <1>6, <1>7, <2>1, PlainIrq
<1> HIDE DEF p
<1>9. Clock(d) /\ d.ifr \in Int /\ d.ifr <= 0 /\ d.idle \in Int /\ d.idle <= MaxIdle
  BY <1>2 DEF Irq, Clock, Chip, End, d
<1>10. Prompt(d) /\ Bound(d)
  <2>1. Prompt(d)
    BY <1>2, <1>9, EndPrompt
  <2>2. Bound(d)
    BY <1>9, Limits DEF Bound
  <2> QED BY <2>1, <2>2
<1>11. Pair(d, p)
  BY <1>2, <1>4, <1>8, <1>10 DEF Pair
<1> QED BY <1>11 DEF d, p, h

\* a cycle,
LEMMA TickPair ==
  ASSUME NEW c, NEW e, Pair(c, e), Twins(c, e), TwinsB(c, e), ~ AlarmsDue(c), c.idle > 0
  PROVE  Pair(Older(c), WholeCycle(e))
<1>1. /\ Irq(c) /\ Cover(c) /\ Bound(c) /\ Prompt(c) /\ RefIrq(e)
      /\ View(Whole(c)) = View(Whole(e)) /\ Good(c) /\ Clock(c)
  BY DEF Pair, Irq, Fit
<1>2. Roomy(c) /\ Bound(Older(c))
  BY <1>1, OlderBound
<1>3. Irq(Older(c)) /\ Cover(Older(c))
  BY <1>1, <1>2, OlderIrq
<1>4. Prompt(Older(c))
  BY <1>1, <1>2, OlderPrompt
<1>5. RefIrq(WholeCycle(e)) /\ View(Whole(Older(c))) = View(Whole(WholeCycle(e)))
  BY <1>1, <1>2, OlderView
<1> QED BY <1>2, <1>3, <1>4, <1>5 DEF Pair

\* and a reset begins with it.
Cold(c) ==
  /\ Good(c) /\ c.ta = ResetTimer /\ c.tb = ResetTimer /\ c.crb = {} /\ c.mask = {}
  /\ c.irqflags = {} /\ c.new = {} /\ c.ack = {} /\ c.delay = {} /\ c.rdi = RdiCap
  /\ c.irqEnabled = FALSE /\ c.line = "off" /\ c.ifr \in {0, 1}

LEMMA ColdIrq ==
  ASSUME NEW c, Cold(c)
  PROVE  /\ Irq(c) /\ Cover(c) /\ Prompt(c) /\ Whole(c) = Reg(c) /\ Still(Reg(c))
         /\ Reg(c) = [mask |-> {}, flags |-> {}, new |-> {}, ack |-> {}, delay |-> {}, on |-> FALSE]
<1> DEFINE q == Reg(c)
<1>1. c \in Chip /\ c.ifr \in Int /\ c.ifr >= 0 /\ c.ifr <= 1 /\ c.ifr # -1
  BY DEF Cold, Good
<1>2. RdiCap = MaxIdle + 2 /\ MaxIdle \in Nat /\ MaxIdle >= 1
  BY Limits DEF RdiCap
<1>3. Clock(c)
  BY <1>1, <1>2 DEF Clock, Cold
<1>4. q \in Regs /\ Still(q) /\ ~ q.on /\ q.delay = {} /\ q.new = {} /\ q.ack = {} /\ q.mask = {}
  <2>1. q \in Regs
    BY <1>1, RegType
  <2> QED BY <2>1 DEF Cold, Still, Reg
<1>5. q = [mask |-> {}, flags |-> {}, new |-> {}, ack |-> {}, delay |-> {}, on |-> FALSE]
  BY DEF Reg, Cold
<1>6. Past(c) = q
  <2> DEFINE n == IF c.ifr > 0 THEN c.ifr ELSE 0
  <2>1. n \in Nat /\ Past(c) = Drawn(q, n)
    BY <1>1, <1>3, CatchupClock
  <2> HIDE DEF n, q
  <2> QED BY <1>4, <2>1, DrawnNext
<1>7. /\ ResetTimer.lag = 0 /\ ResetTimer.due = Never /\ ResetTimer.bits = {}
      /\ Sound(c.ta) /\ Kept(c.ta) /\ Sound(c.tb) /\ Kept(c.tb) /\ c.ta = ResetTimer /\ c.tb = ResetTimer
  BY ResetTimerFacts DEF ResetTimer, Cold, Good
<1>8. Due(c) = {} /\ Late(c) = {} /\ ~ AlarmsDue(c)
  <2>1. ~ Owes(c.ta) /\ ~ Owes(c.tb)
    BY <1>7, OwesFacts
  <2>2. c.ta.due # 0 /\ c.tb.due # 0
    BY <1>7 DEF Never
  <2> QED BY <2>1, <2>2 DEF Due, Late, AlarmsDue
<1> HIDE DEF q
<1>9. Present(c) = q /\ Whole(c) = q
  <2>1. Mark(q, {}) = q /\ Elapse(q) = q
    BY <1>4, MarkNone, StillElapse
  <2>2. Present(c) = q
    BY <1>1, <1>6, <1>8, <2>1 DEF Present
  <2> QED BY <1>8, <2>1, <2>2 DEF Whole
<1>10. Fit(c)
  BY <1>7, <1>8 DEF Fit, Cold, Alone
<1>11. Irq(c)
  BY <1>3, <1>4, <1>8, <1>9, <1>10 DEF Irq, Calm
<1>12. Cover(c)
  BY <1>4, <1>9 DEF Cover, Free
<1>13. Prompt(c)
  BY <1>4, <1>9 DEF Prompt
<1> QED BY <1>4, <1>5, <1>9, <1>11, <1>12, <1>13 DEF q

LEMMA ColdPair ==
  ASSUME NEW c, Cold(c), c.ifr = 1, NEW e, Cold(e), e.ifr = 0, Exact(e)
  PROVE  Pair(c, e)
<1>1. Irq(c) /\ Cover(c) /\ Prompt(c) /\ Whole(c) = Reg(c) /\ Still(Reg(c))
  BY ColdIrq
<1>2. Irq(e) /\ Whole(e) = Reg(e)
  BY ColdIrq
<1>3. Reg(c) = Reg(e)
  BY ColdIrq
<1>4. RefIrq(e)
  BY <1>2 DEF RefIrq, Cold
<1>5. Bound(c)
  BY <1>1 DEF Bound
<1> QED BY <1>1, <1>2, <1>3, <1>4, <1>5 DEF Pair

LEMMA ResetPairs ==
  ASSUME NEW a \in 0 .. 1, NEW b \in 0 .. 1
  PROVE  LET c == [ResetChip EXCEPT !.tat = a, !.tbt = b]
             e == [ResetChip EXCEPT !.tat = a, !.tbt = b, !.idle = 0, !.ifr = 0]
             h == [ResetChip EXCEPT !.idle = 0, !.ifr = 0]
         IN  Pair(c, e) /\ Pair(ResetChip, h)
<1> DEFINE z == 0
           r == ResetChip
           c == [r EXCEPT !.tat = a, !.tbt = b]
           e == [r EXCEPT !.tat = a, !.tbt = b, !.idle = z, !.ifr = z]
           h == [r EXCEPT !.idle = z, !.ifr = z]
<1>1. Good(r) /\ Good(c)
  BY ResetChipFacts DEF Turn
<1>2. Exact(e) /\ Exact(h)
  BY ResetChips
<1>3. Good(e) /\ Good(h)
  BY <1>2 DEF Exact
<1>4. /\ r.ta = ResetTimer /\ r.tb = ResetTimer /\ r.crb = {} /\ r.mask = {}
      /\ r.irqflags = {} /\ r.new = {} /\ r.ack = {} /\ r.delay = {} /\ r.rdi = RdiCap
      /\ r.irqEnabled = FALSE /\ r.line = "off" /\ r.ifr = 1
  BY DEF ResetChip
<1>5. r \in Chip /\ z = 0 /\ z \in Int
  BY <1>1 DEF Good
<1> HIDE DEF r, z
<1>6. Cold(r)
  BY <1>1, <1>4 DEF Cold
<1>7. Cold(c) /\ c.ifr = 1
  BY <1>1, <1>4, <1>5 DEF Cold, Chip
<1>8. Cold(e) /\ e.ifr = 0
  BY <1>3, <1>4, <1>5 DEF Cold, Chip
<1>9. Cold(h) /\ h.ifr = 0
  BY <1>3, <1>4, <1>5 DEF Cold, Chip
<1> HIDE DEF c, e, h
<1>10. Pair(c, e) /\ Pair(r, h)
  BY <1>2, <1>4, <1>6, <1>7, <1>8, <1>9, ColdPair
<1> QED BY <1>10 DEF c, e, h, r, z

-----------------------------------------------------------------------------
(* The program never changes, and with it the model of the chip.             *)

LEMMA SameModel ==
  ASSUME program' = program
  PROVE  /\ \A c : RunIfrCycle(c)' = RunIfrCycle(c)
         /\ \A q : Bug(q)' = Bug(q)
         /\ \A q : Delays(q)' = Delays(q)
         /\ \A q : Elapse(q)' = Elapse(q)
<1>1. \A c : RunIfrCycle(c)' = RunIfrCycle(c)
  BY DEF RunIfrCycle, model
<1>2. \A q : Bug(q)' = Bug(q)
  BY DEF Bug, model
<1>3. \A q : Delays(q)' = Delays(q)
  BY DEF Delays, model
<1>4. \A q : Elapse(q)' = Elapse(q)
  BY <1>3 DEF Elapse, model
<1> QED BY <1>1, <1>2, <1>3, <1>4

LEMMA SameRegister ==
  ASSUME program' = program
  PROVE  /\ \A c : Past(c)' = Past(c)
         /\ \A c : Present(c)' = Present(c)
         /\ \A c : Whole(c)' = Whole(c)
<1>1. \A c : RunIfrCycle(c)' = RunIfrCycle(c)
  BY SameModel
<1>2. \A c : IfrRound(c)' = IfrRound(c)
  BY <1>1 DEF IfrRound
<1>3. \A c : IfrCycles(c)' = IfrCycles(c)
  BY <1>2 DEF IfrCycles
<1>4. \A c : IfrCatchup(c)' = IfrCatchup(c)
  BY <1>3 DEF IfrCatchup
<1>5. \A c : Past(c)' = Past(c)
  BY <1>4 DEF Past, Reg
<1>6. \A q : Bug(q)' = Bug(q)
  BY SameModel
<1>7. \A q, L : Mark(q, L)' = Mark(q, L)
  BY <1>6 DEF Mark
<1>8. \A q : Elapse(q)' = Elapse(q)
  BY SameModel
<1>9. \A c : Due(c)' = Due(c) /\ Late(c)' = Late(c)
  BY DEF Due, Late
<1>10. \A c : Present(c)' = Present(c)
  BY <1>5, <1>7, <1>8, <1>9 DEF Present
<1>11. \A c : Whole(c)' = Whole(c)
  BY <1>7, <1>9, <1>10 DEF Whole
<1> QED BY <1>5, <1>10, <1>11

LEMMA SamePair ==
  ASSUME program' = program
  PROVE  \A c, e : Pair(c, e)' <=> Pair(c, e)
<1>1. /\ \A c : Past(c)' = Past(c)
      /\ \A c : Present(c)' = Present(c)
      /\ \A c : Whole(c)' = Whole(c)
  BY SameRegister
<1>2. \A c, x : Harmless(c, x)' <=> Harmless(c, x)
  BY <1>1 DEF Harmless, Asserted
<1>3. \A c : Irq(c)' <=> Irq(c)
  BY <1>1, <1>2 DEF Irq
<1>4. \A c : Cover(c)' <=> Cover(c)
  BY <1>1 DEF Cover, Free, Asserted, Pending
<1>5. \A c : Prompt(c)' <=> Prompt(c)
  BY <1>1 DEF Prompt
<1>6. \A e : RefIrq(e)' <=> RefIrq(e)
  BY <1>3 DEF RefIrq
<1>7. \A c : Bound(c)' <=> Bound(c)
  BY DEF Bound
<1> QED BY <1>1, <1>3, <1>4, <1>5, <1>6, <1>7 DEF Pair, View, Asserted

IrqInv == Unchained => Pair(cia, ref)

LEMMA IrqInvInit == Init => IrqInv
<1> SUFFICES ASSUME Init PROVE IrqInv
  OBVIOUS
<1>1. cia = ResetChip /\ ref = [ResetChip EXCEPT !.idle = 0, !.ifr = 0]
  BY DEF Init
<1>2. 0 \in 0 .. 1
  OBVIOUS
<1>3. LET h == [ResetChip EXCEPT !.idle = 0, !.ifr = 0] IN Pair(ResetChip, h)
  BY <1>2, ResetPairs
<1> QED BY <1>1, <1>3 DEF IrqInv

\* Every step keeps it.
LEMMA IrqInvNext ==
  CiaInv /\ RefInv /\ IrqInv /\ CiaInv' /\ RefInv' /\ [Next]_vars => IrqInv'
<1> SUFFICES ASSUME CiaInv, RefInv, IrqInv, CiaInv', RefInv', [Next]_vars, Unchained'
             PROVE  Pair(cia, ref)'
  BY DEF IrqInv
<1>1. program' = program
  BY DEF Next, vars, CpuAccess, TaAlarm, TbAlarm, IdleAlarm, AlarmRuns, Tick, Reset
<1>2. SUFFICES Pair(cia', ref')
  BY <1>1, SamePair
<1>3. Unchained
  BY <1>1 DEF Unchained
<1>4. /\ Pair(cia, ref) /\ TwinsB(cia, ref) /\ Twins(cia, ref) /\ Exact(ref)
      /\ Good(cia) /\ cia \in Chip /\ cia.ifr >= -1 /\ (AlarmsDue(cia) => cia.ifr >= 0)
  BY <1>3 DEF IrqInv, RefInv, CiaInv, Good
<1>5. Exact(ref') /\ Twins(cia', ref') /\ TwinsB(cia', ref')
  BY DEF RefInv
<1>6. cia'.idle \in Int /\ cia'.idle <= MaxIdle
  <2>1. cia'.idle \in Nat /\ cia'.ta.lag \in Nat /\ cia'.ta.lag + cia'.idle <= MaxIdle
    BY DEF CiaInv, Good, Sound
  <2> QED BY <2>1, Limits
<1>7. ASSUME AlarmRuns(cia'), TellsIrq(cia, cia'), Irq(cia) => End(cia')
      PROVE  Pair(cia', ref')
  <2>1. ref' = ref
    BY <1>7 DEF AlarmRuns
  <2>2. End(cia')
    BY <1>4, <1>7 DEF Pair
  <2> QED BY <1>4, <1>6, <1>7, <2>1, <2>2, HandlerPair
<1>8. CASE CpuAccess
  <2>1. PICK a \in program.accesses : cia' = Access(cia, a) /\ ref' = Plain(Access(ref, a))
    BY <1>8 DEF CpuAccess
  <2>2. a \in Accesses /\ (a.reg = "CRB" => "INMODE_TA" \notin a.byte)
    BY <1>3, <2>1, CiaAssumption DEF CiaInv, Unchained
  <2>3. Turn(cia) /\ Turn(ref)
    BY <1>8 DEF CpuAccess, CiaInv, RefInv
  <2>4. "STEP" \notin ref'.ta.bits /\ Alone(ref')
    BY <1>5 DEF Twins, TwinsB
  <2> QED BY <1>4, <1>5, <1>6, <2>1, <2>2, <2>3, <2>4, AccessPair
<1>9. CASE TaAlarm
  <2>1. cia' = InttaEntry(cia) /\ AlarmRuns(cia') /\ cia.ta.due = 0 /\ AlarmsDue(cia)
    BY <1>9 DEF TaAlarm, AlarmRuns, AlarmsDue
  <2> QED BY <1>4, <1>7, <2>1, EntriesIrq
<1>10. CASE TbAlarm
  <2>1. cia' = InttbEntry(cia) /\ AlarmRuns(cia') /\ cia.tb.due = 0 /\ AlarmsDue(cia)
    BY <1>10 DEF TbAlarm, AlarmRuns, AlarmsDue
  <2> QED BY <1>4, <1>7, <2>1, EntriesIrq
<1>11. CASE IdleAlarm
  <2>1. cia' = IdleEntry(cia) /\ AlarmRuns(cia') /\ cia.idle = 0
    BY <1>11 DEF IdleAlarm, AlarmRuns
  <2>2. cia.ifr = -1 => Ready(cia)
    <3>1. cia.ifr = -1 => Present(cia) = Reg(cia)
      BY <1>4, PresentFacts DEF Pair, Irq
    <3> QED BY <1>4, <3>1 DEF Pair, Prompt, Ready, Reg
  <2> QED BY <1>4, <1>7, <2>1, <2>2, IdleEntryIrq
<1>12. CASE Tick
  <2>1. ~ AlarmsDue(cia) /\ cia.idle > 0 /\ cia' = Older(cia) /\ ref' = WholeCycle(ref)
    BY <1>12 DEF Tick
  <2> QED BY <1>4, <2>1, TickPair
<1>13. CASE Reset
  <2> DEFINE a == cia.tat
             b == cia.tbt
             c == [ResetChip EXCEPT !.tat = a, !.tbt = b]
             e == [ResetChip EXCEPT !.tat = a, !.tbt = b, !.idle = 0, !.ifr = 0]
  <2>1. cia' = c /\ ref' = e
    BY <1>13 DEF Reset
  <2>2. a \in 0 .. 1 /\ b \in 0 .. 1
    BY <1>4 DEF Chip
  <2>3. Pair(c, e)
    <3> HIDE DEF a, b
    <3> QED BY <2>2, ResetPairs
  <2> HIDE DEF c, e
  <2> QED BY <2>1, <2>3
<1>14. CASE UNCHANGED vars
  BY <1>4, <1>14 DEF vars
<1> QED BY <1>8, <1>9, <1>10, <1>11, <1>12, <1>13, <1>14 DEF Next

LEMMA IrqInvAlways == Spec => [](CiaInv /\ RefInv /\ IrqInv)
<1>1. CiaInv /\ RefInv /\ IrqInv /\ [Next]_vars => (CiaInv /\ RefInv /\ IrqInv)'
  BY CiaInvNext, RefInvNext, IrqInvNext
<1> QED BY <1>1, CiaInvInit, RefInvInit, IrqInvInit, PTL DEF Spec

\* The interrupt line is asserted and released in the very cycle in which it is by the chip
\* computed cycle by cycle, whatever alarms were skipped, interrupts looked ahead for or
\* delays caught up late, for every program that never makes timer B count A.
THEOREM LinesAreExact == Spec => [](Unchained => LineExact)
<1>1. CiaInv /\ RefInv /\ IrqInv => (Unchained => LineExact)
  <2> SUFFICES ASSUME CiaInv, RefInv, IrqInv, Unchained, ~ AlarmsDue(cia), cia.idle > 0
               PROVE  (cia.line = "on") <=> (Finished(ref).line = "on")
    BY DEF LineExact
  <2>1. /\ Pair(cia, ref) /\ Irq(cia) /\ Clock(cia) /\ Prompt(cia) /\ RefIrq(ref) /\ Clock(ref)
        /\ View(Whole(cia)) = View(Whole(ref))
    BY DEF IrqInv, Pair, Irq, RefIrq
  <2>2. Whole(cia).on <=> cia.line = "on"
    BY <2>1, LineShown
  <2>3. Whole(cia) \in Regs /\ Whole(ref) \in Regs
    BY <2>1, PresentFacts
  <2>4. Whole(cia).on = Whole(ref).on
    BY <2>1, <2>3, NearAlike
  <2>5. Whole(ref) = Reg(Finished(ref))
    BY <2>1, FinishedReg
  <2>6. Whole(ref).on <=> Finished(ref).line = "on"
    <3>1. Reg(Finished(ref)).on = (Finished(ref).line = "on")
      BY DEF Reg
    <3> QED BY <2>5, <3>1
  <2> QED BY <2>2, <2>4, <2>6
<1> QED BY <1>1, IrqInvAlways, PTL

\* Whatever such a program reads of the ICR is what the chip computed cycle by cycle holds.
IcrExact == bus = 0 => IcrResult(cia) = IcrResult(ref)

THEOREM IcrIsExact == Spec => [](Unchained => IcrExact)
<1>1. CiaInv /\ RefInv /\ IrqInv => (Unchained => IcrExact)
  <2> SUFFICES ASSUME CiaInv, RefInv, IrqInv, Unchained, bus = 0
               PROVE  IcrResult(cia) = IcrResult(ref)
    BY DEF IcrExact
  <2>1. Turn(cia) /\ Turn(ref) /\ Pair(cia, ref)
    BY DEF CiaInv, RefInv, IrqInv
  <2> DEFINE a == [reg |-> "ICR"]
  <2>2. a \in Accesses /\ a.reg # "CRB"
    BY DEF Accesses
  <2> HIDE DEF a
  <2> QED BY <2>1, <2>2, AccessAlike DEF Pair, RefIrq
<1> QED BY <1>1, IrqInvAlways, PTL
-----------------------------------------------------------------------------
(* Timer B's toggle. A start sets it before the timer is computed            *)
(* (ciacore.c:1071), so no underflow may be owed when B is started.          *)

\* B is stopped a cycle at least before the next access, or it is never stopped.
Restart ==
  Gap >= 2 \/ \A a \in program.accesses : a.reg = "CRB" => "START" \in a.byte

\* A stopped timer lets its last pulse go and does not count then.
LEMMA StoppedCycle ==
  ASSUME NEW tm \in Timer, "START" \notin tm.bits, "STEP" \notin tm.bits
  PROVE  /\ "START" \notin Cycle(tm).bits /\ "COUNT2" \notin Cycle(tm).bits
         /\ "COUNT2" \notin tm.bits => Cycle(tm).n = tm.n
<1> DEFINE i == Increment(tm)
<1>1. tm.bits \in SUBSET Bits
  BY DEF Timer
<1>2. i \in Timer /\ i.bits = Pipeline(tm.bits) /\ i.n = tm.n
  BY IncrementFacts
<1>3. /\ "START" \notin i.bits /\ "COUNT2" \notin i.bits
      /\ "COUNT2" \notin tm.bits => "COUNT3" \notin i.bits
  BY <1>1, <1>2, PipelineBits
<1>4. "COUNT2" \notin tm.bits => Cycle(tm).n = tm.n
  BY <1>3, CycleFacts DEF Underflows
<1>5. Cycle(tm) = Settle(i)
  BY DEF Cycle
<1> HIDE DEF i
<1> DEFINE t1 == IF Underflows(i) THEN i.bits \cup {"LOAD", "OUT"} ELSE i.bits
           load == "LOAD" \in t1
           t2 == IF load THEN t1 \ {"COUNT3"} ELSE t1
           stop == "OUT" \in t2 /\ t2 \cap {"ONESHOT", "ONESHOT0"} # {}
           t == IF stop THEN t2 \ {"START", "COUNT2"} ELSE t2
           k == IF load THEN i.latch ELSE i.cnt
           n == i.n + (IF Underflows(i) THEN 1 ELSE 0)
<1>6. Settle(i) = [i EXCEPT !.bits = t, !.cnt = k, !.n = n]
  BY Zenon DEF Settle
<1>7. "START" \notin t /\ "COUNT2" \notin t
  BY <1>3
<1> HIDE DEF t, k, n
<1>8. [i EXCEPT !.bits = t, !.cnt = k, !.n = n].bits = t
  BY <1>2 DEF Timer
<1> QED BY <1>4, <1>5, <1>6, <1>7, <1>8

\* A timer that a handler leaves alone.
Stays(t, u) == Alike(u, t) /\ u.lag = t.lag /\ u.due = t.due

LEMMA StaysFacts ==
  ASSUME NEW t, Sound(t), NEW u, Sound(u), Stays(t, u)
  PROVE  /\ Owes(u) <=> Owes(t)
         /\ Watched(u) <=> Watched(t)
<1> DEFINE v == [t EXCEPT !.n = 0]
           w == [u EXCEPT !.n = 0]
<1>1. /\ v \in Timer /\ v.n = 0 /\ v.bits = t.bits /\ v.cnt = t.cnt /\ v.latch = t.latch
      /\ v.lag = t.lag /\ v.due = t.due
      /\ w \in Timer /\ w.n = 0 /\ w.bits = u.bits /\ w.cnt = u.cnt /\ w.latch = u.latch
      /\ w.lag = u.lag /\ w.due = u.due
  BY Told DEF Sound
<1> HIDE DEF v, w
<1>2. v = w
  BY <1>1, SameFields DEF Stays, Alike
<1>3. Update(t) = Update(u)
  BY <1>2 DEF Update, v, w
<1>4. NextUnderflow(t) = NextUnderflow(u)
  BY AlikeUnderflow DEF Stays, Sound
<1> QED BY <1>3, <1>4 DEF Owes, Watched, Stays

\* What a handler does to timer B: nothing, or it is computed and had not been before.
HandB(c, d) ==
  \/ Stays(c.tb, d.tb)
  \/ d.tb.lag = 0 /\ (c.tb.lag # 0 \/ c.tb.due = 0)

\* Timer A's handlers do nothing to it when it does not count A.
LEMMA UpdateTaLeavesB ==
  ASSUME NEW c, Good(c), Alone(c)
  PROVE  Intta(c).tb = c.tb /\ UpdateTa(c).tb = c.tb
<1> DEFINE d == DoUpdateTa(c)
           e == RenewTa(d)
<1>1. c \in Chip /\ Sound(c.ta)
  BY DEF Good
<1>2. d \in Chip /\ Computed(c.ta, d.ta) /\ KeepsB(c, d)
  BY <1>1, DoUpdateTaFacts
<1>3. Intta(c) = StepTb(e) /\ (UpdateTa(c) = Intta(c) \/ UpdateTa(c) = d)
  BY DEF Intta, UpdateTa
<1> HIDE DEF d
<1>4. KeepsB(d, e)
  BY <1>2, RenewTaFacts DEF Computed
<1> HIDE DEF e
<1>5. StepTb(e) = e
  <2>1. ~ Chained(e)
    BY <1>2, <1>4 DEF Alone, Chained, KeepsB
  <2> QED BY <2>1 DEF StepTb
<1> QED BY <1>2, <1>3, <1>4, <1>5 DEF KeepsB

LEMMA UpdateTbHand ==
  ASSUME NEW c, Good(c), Alone(c)
  PROVE  HandB(c, UpdateTb(c))
<1>1. ~ Chained(c)
  BY DEF Alone, Chained
<1>2. UpdateTb(c) = UpdateTbOnly(c)
  BY <1>1 DEF UpdateTb
<1>3. UpdateTbOnly(c).tb.lag = 0
  BY UpdateTbOnlyFacts DEF Armed
<1>4. CASE c.tb.lag # 0 \/ c.tb.due = 0
  BY <1>2, <1>3, <1>4 DEF HandB
<1>5. CASE c.tb.lag = 0 /\ c.tb.due # 0
  <2> DEFINE v == [c.tb EXCEPT !.n = 0]
             w == [v EXCEPT !.n = 0]
  <2>1. c \in Chip /\ Sound(c.tb)
    BY DEF Good
  <2>2. UpdateTb(c).tb = [Update(c.tb) EXCEPT !.n = 0]
    BY <1>2, <1>5, <2>1, DoUpdateTbFacts DEF UpdateTbOnly
  <2>3. Sound(v) /\ Stays(c.tb, v) /\ v.lag = 0
    BY <1>5, <2>1, Told DEF Stays, Alike
  <2>4. Update(c.tb) = CatchUp(v)
    BY DEF Update
  <2> HIDE DEF v
  <2>5. CatchUp(v) = v
    BY <2>3, CatchUpFacts
  <2>6. Stays(v, w)
    BY <2>3, Told DEF Stays, Alike
  <2>7. UpdateTb(c).tb = w
    BY <2>2, <2>4, <2>5
  <2> HIDE DEF w
  <2>8. Stays(c.tb, w)
    BY <2>3, <2>6 DEF Stays, Alike
  <2> QED BY <2>7, <2>8 DEF HandB
<1> QED BY <1>4, <1>5

\* The alarms' handlers.
LEMMA EntriesHand ==
  ASSUME NEW c, Good(c), Alone(c)
  PROVE  /\ HandB(c, InttaEntry(c)) /\ HandB(c, IdleEntry(c))
         /\ c.tb.due = 0 => HandB(c, InttbEntry(c))
<1>1. HandB(c, InttaEntry(c))
  <2>1. Good(Intta(c)) /\ Intta(c).tb = c.tb
    BY InttaFacts, UpdateTaLeavesB DEF After
  <2>2. Same(Intta(c), Ifr(Intta(c)))
    BY <2>1, IfrFacts DEF Good
  <2>3. InttaEntry(c).tb = c.tb
    BY <2>1, <2>2 DEF InttaEntry, Same, KeepsB
  <2> QED BY <2>3 DEF HandB, Stays, Alike
<1>2. c.tb.due = 0 => HandB(c, InttbEntry(c))
  <2>1. Good(Inttb(c)) /\ Inttb(c).tb.lag = 0
    BY InttbFacts DEF After, Armed
  <2>2. Same(Inttb(c), Ifr(Inttb(c)))
    BY <2>1, IfrFacts DEF Good
  <2> QED BY <2>1, <2>2 DEF InttbEntry, Same, KeepsB, HandB
<1>3. HandB(c, IdleEntry(c))
  <2> DEFINE a == UpdateTa(c)
             d == UpdateTb(a)
             m == MaxIdle
             e == [d EXCEPT !.idle = m]
             f == IfrCatchup(e)
             g == IfrNow(f)
             h == IfrNext(g)
  <2>1. IdleEntry(c) = IF f.ifr = 0 THEN h ELSE f
    BY Zenon DEF IdleEntry, IfrOnce
  <2>2. Good(a) /\ TellsB(c, a) /\ a.tb = c.tb
    BY UpdateTaFacts, UpdateTellsB, UpdateTaLeavesB DEF After
  <2> HIDE DEF a
  <2>3. HandB(a, d) /\ Good(d)
    BY <2>2, UpdateTbHand, UpdateTbFacts DEF TellsB, After
  <2> HIDE DEF d
  <2>4. m \in Int /\ d \in Chip
    BY <2>3, CiaAssumption DEF Good
  <2> HIDE DEF m
  <2>5. e \in Chip /\ e.tb = d.tb
    BY <2>4 DEF Chip
  <2> HIDE DEF e
  <2>6. Same(e, f)
    BY <2>5, IfrCatchupFacts
  <2> HIDE DEF f
  <2>7. Same(f, g)
    BY <2>6, IfrNowFacts DEF Same
  <2> HIDE DEF g
  <2>8. KeepsB(g, h)
    BY <2>7, IfrNextFacts DEF Same
  <2> HIDE DEF h
  <2>9. f.tb = d.tb /\ h.tb = d.tb
    BY <2>5, <2>6, <2>7, <2>8 DEF Same, KeepsB
  <2> QED BY <2>1, <2>2, <2>3, <2>9 DEF HandB
<1> QED BY <1>1, <1>2, <1>3


\* While B is stopped it owes nothing at an access: what was on its way comes with the
\* next cycle, at an alarm that runs before the next access.
Halted(c, b) ==
  "START" \notin c.crb =>
    /\ "START" \notin Sight(c.tb).bits
    /\ IF "COUNT2" \in Sight(c.tb).bits
       THEN Gap >= 2 /\ b = Gap /\ c.tb.lag = 0 /\ c.tb.due # 0 /\ Watched(c.tb)
       ELSE ~ Owes(c.tb) \/ (c.tb.due = 0 /\ b >= 1)

\* The alarms keep it,
LEMMA HandlerHalted ==
  ASSUME NEW c, Good(c), Alone(c), NEW d, Good(d), TellsB(c, d), HandB(c, d),
         NEW b \in Nat, Halted(c, b)
  PROVE  Halted(d, IF b = 0 THEN 1 ELSE b)
<1> DEFINE k == IF b = 0 THEN 1 ELSE b
<1>1. k \in Nat /\ k >= 1 /\ (Gap >= 2 /\ b = Gap => k = Gap)
  OBVIOUS
<1>2. Sight(d.tb) = Sight(c.tb) /\ d.crb = c.crb
  BY TellsLooks DEF LooksB, Sights
<1>3. d.tb.lag = 0 => ~ Owes(d.tb)
  BY OwesFacts DEF Good
<1>4. Stays(c.tb, d.tb) => (Owes(d.tb) <=> Owes(c.tb)) /\ (Watched(d.tb) <=> Watched(c.tb))
  BY StaysFacts DEF Good
<1>5. SUFFICES ASSUME "START" \notin c.crb
               PROVE  /\ "START" \notin Sight(d.tb).bits
                      /\ IF "COUNT2" \in Sight(d.tb).bits
                         THEN Gap >= 2 /\ k = Gap /\ d.tb.lag = 0 /\ d.tb.due # 0 /\ Watched(d.tb)
                         ELSE ~ Owes(d.tb) \/ (d.tb.due = 0 /\ k >= 1)
  BY <1>2 DEF Halted
<1> HIDE DEF k
<1>6. CASE "COUNT2" \in Sight(d.tb).bits
  BY <1>1, <1>2, <1>4, <1>5, <1>6 DEF Halted, HandB, Stays
<1>7. CASE "COUNT2" \notin Sight(d.tb).bits
  BY <1>1, <1>2, <1>3, <1>4, <1>5, <1>7 DEF Halted, HandB, Stays
<1> QED BY <1>6, <1>7

\* and a cycle that passes.
LEMMA TickHalted ==
  ASSUME NEW c, Good(c), ~ AlarmsDue(c), c.ifr >= -1, NEW e, Exact(e), TwinsB(c, e),
         NEW b \in Nat, Halted(c, b)
  PROVE  Halted(Older(c), IF b = 0 THEN 0 ELSE b - 1)
<1> DEFINE d == Older(c)
           k == IF b = 0 THEN 0 ELSE b - 1
           t == c.tb
           u == d.tb
           r == e.tb
<1>1. c \in Chip /\ Sound(t) /\ t \in Timer /\ c.ta \in Timer /\ Kept(t) /\ t.due # 0
      /\ "STEP" \notin t.bits
  BY DEF Good, Sound, AlarmsDue, TwinsB, Alone
<1>2. Good(d) /\ u.lag = t.lag + 1 /\ Sound(u) /\ Kept(u)
  BY OlderFacts DEF Turn, Good
<1>3. Alike(u, t) /\ d.crb = c.crb
  BY <1>1, OlderKeeps
<1>4. u.due = IF t.due = Never THEN Never ELSE t.due - 1
  BY OlderFields
<1>5. Sound(r) /\ r \in Timer /\ r.lag = 0 /\ "STEP" \notin r.bits /\ Sight(t) = Sight(r)
  BY DEF Exact, Good, Sound, TwinsB, Alone, Sights
<1> HIDE DEF d
<1>6. Sight(t) = [bits |-> Shape(r.bits), cnt |-> r.cnt, latch |-> r.latch]
  BY <1>5, SightNow
<1> HIDE DEF t, u, r
<1>7. Sight(u) = [bits |-> Shape(Cycle(r).bits), cnt |-> Cycle(r).cnt, latch |-> Cycle(r).latch]
  BY <1>1, <1>2, <1>3, <1>5, <1>6, SightOlder
<1>8. Owes(u) <=> Owes(t) \/ Count(r).n # 0
  BY <1>1, <1>2, <1>3, <1>5, OwesNext
<1>9. u.due # 0 /\ Owes(u) => ~ Watched(t)
  BY <1>1, <1>2, <1>3, <1>4, OlderTimer
<1>10. Sight(t).bits = Shape(r.bits) /\ Sight(u).bits = Shape(Cycle(r).bits)
  BY <1>6, <1>7
<1>11. "START" \notin r.bits =>
         /\ "START" \notin Cycle(r).bits /\ "COUNT2" \notin Cycle(r).bits
         /\ "COUNT2" \notin r.bits => Count(r).n = 0
  <2> DEFINE v == [r EXCEPT !.n = 0]
  <2>1. v \in Timer /\ v.bits = r.bits /\ v.n = 0
    BY <1>5, Told DEF Sound
  <2>2. Count(r) = Cycle(v)
    BY DEF Count
  <2> HIDE DEF v
  <2> QED BY <1>5, <2>1, <2>2, StoppedCycle
<1>12. SUFFICES ASSUME "START" \notin c.crb
                PROVE  /\ "START" \notin Sight(u).bits
                       /\ "COUNT2" \notin Sight(u).bits
                       /\ ~ Owes(u) \/ (u.due = 0 /\ k >= 1)
  BY <1>3 DEF Halted, d, u
<1>13. "START" \notin r.bits
  BY <1>10, <1>12 DEF Halted, t, Shape
<1>14. "START" \notin Sight(u).bits /\ "COUNT2" \notin Sight(u).bits
  BY <1>10, <1>11, <1>13 DEF Shape
<1>15. CASE "COUNT2" \in r.bits
  <2>1. Gap >= 2 /\ b = Gap /\ Watched(t)
    BY <1>10, <1>12, <1>15 DEF Halted, t, Shape
  <2>2. k >= 1
    BY <2>1, Limits
  <2> QED BY <1>9, <1>14, <2>1, <2>2
<1>16. CASE "COUNT2" \notin r.bits
  <2>1. ~ Owes(t)
    BY <1>1, <1>10, <1>12, <1>16 DEF Halted, t, Shape
  <2> QED BY <1>8, <1>11, <1>13, <1>14, <1>16, <2>1
<1> QED BY <1>15, <1>16

\* An access that leaves B's bits and its control register.
LEMMA BitsHalted ==
  ASSUME NEW c, Good(c), Halted(c, 0), NEW d, Good(d), d.crb = c.crb,
         Sight(d.tb).bits = Sight(c.tb).bits, d.tb = c.tb \/ d.tb.lag = 0
  PROVE  Halted(d, Gap)
<1>1. d.tb.lag = 0 => ~ Owes(d.tb)
  BY OwesFacts DEF Good
<1>2. ~ (0 = Gap)
  BY Limits
<1> QED BY <1>1, <1>2 DEF Halted

\* Timer B is left alone or computed.
LEMMA AccessHand ==
  ASSUME NEW c, Turn(c), Irq(c), NEW a \in Accesses, a.reg \notin {"TBL", "TBH", "CRB"}
  PROVE  Access(c, a).tb = c.tb \/ Access(c, a).tb.lag = 0
<1>1. Good(c) /\ Alone(c)
  BY DEF Turn, Irq, Fit
<1>2. AccessTa(c) \in Chip /\ AccessTa(c).tb = c.tb
  <2>1. Good(UpdateTa(c)) /\ UpdateTa(c).tb = c.tb
    BY <1>1, UpdateTaFacts, UpdateTaLeavesB DEF After
  <2>2. Same(UpdateTa(c), Ifr(UpdateTa(c)))
    BY <2>1, IfrFacts DEF Good
  <2> QED BY <2>1, <2>2 DEF AccessTa, Same, KeepsB
<1>3. ASSUME NEW t PROVE [AccessTa(c) EXCEPT !.ta = t].tb = c.tb
  <2> DEFINE x == AccessTa(c)
  <2>1. x \in Chip /\ x.tb = c.tb
    BY <1>2
  <2> HIDE DEF x
  <2>2. [x EXCEPT !.ta = t].tb = c.tb
    BY <2>1 DEF Chip
  <2> QED BY <2>2 DEF x
<1>4. CASE a.reg \in {"TAL", "TAH"}
  BY <1>3, <1>4 DEF Access
<1>5. CASE a.reg = "TA"
  BY <1>2, <1>5 DEF Access
<1>6. CASE a.reg = "TB"
  <2>1. AccessTb(c).tb.lag = 0
    BY AccessTimer DEF Armed
  <2> QED BY <1>6, <2>1 DEF Access
<1>7. CASE a.reg = "CRA"
  <2> DEFINE u == UpdateTa(c)
             starts == "START" \in a.byte /\ "START" \notin c.cra
             k == IF starts THEN 1 ELSE u.tat
             t == SetCtrl(u.ta, a.byte)
             b == a.byte \ {"FLOAD"}
             g == [u EXCEPT !.tat = k, !.ta = t, !.cra = b]
  <2>1. Good(u) /\ u.tb = c.tb /\ Armed(u.ta) /\ Settled(u.ta)
    <3>1. After(c, u) /\ Armed(u.ta) /\ Fresh(c.ta)
      BY <1>1, UpdateTaFacts DEF Turn
    <3>2. u.tb = c.tb
      BY <1>1, UpdateTaLeavesB
    <3> HIDE DEF u
    <3> QED BY <3>1, <3>2, LaterArmed DEF After, Armed
  <2>2. StoreCra(c, a.byte) = Ifr(g)
    BY Zenon DEF StoreCra
  <2> HIDE DEF u
  <2>3. t \in Timer
    BY <2>1, SetCtrlFacts DEF Armed, Sound
  <2>4. b \in SUBSET ControlBits /\ k \in 0 .. 1 /\ u \in Chip
    <3>1. a.byte \in SUBSET ControlBits
      BY <1>7 DEF Accesses, ControlBits
    <3>2. u \in Chip
      BY <2>1 DEF Good
    <3> QED BY <3>1, <3>2 DEF Chip
  <2> HIDE DEF b, k, t
  <2>5. g \in Chip /\ g.tb = u.tb
    BY <2>3, <2>4 DEF Chip
  <2> HIDE DEF g
  <2>6. Ifr(g).tb = c.tb
    BY <2>1, <2>5, IfrFacts DEF Same, KeepsB
  <2> QED BY <1>7, <2>2, <2>6 DEF Access
<1>8. CASE a.reg = "IMR"
  <2> DEFINE f == MaskWritten(SetMask(AccessIcr(c), a.set, a.byte))
  <2>1. a.byte \in SUBSET {"TA", "TB"}
    BY <1>8 DEF Accesses
  <2>2. Now(f)
    BY <2>1, AccessIcrFacts, SetMaskFacts, MaskWrittenFacts
  <2>3. Access(c, a) = IfrNext(f)
    BY <1>8 DEF Access, StoreIcr
  <2> HIDE DEF f
  <2>4. IfrNext(f).tb = f.tb /\ f.tb.lag = 0
    BY <2>2, IfrNextFacts DEF Now, Armed, KeepsB
  <2> QED BY <2>3, <2>4
<1>9. CASE a.reg = "ICR"
  <2> DEFINE q == AccessIcr(c)
             b == [q EXCEPT !.rdi = 0, !.ta = SetAlarm(@), !.tb = SetAlarm(@)]
             g == [Acknowledge(EarlySet(ForgetTb(b))) EXCEPT !.line = "off",
                                                             !.irqEnabled = FALSE]
  <2>1. Quiet(q)
    BY AccessIcrIrq
  <2>2. Access(c, a) = IfrNext(g)
    BY <1>9 DEF Access, ReadIcr, BeforeIcrRead
  <2> HIDE DEF q
  <2>3. Now(g)
    BY <2>1, ReadLeaves
  <2> HIDE DEF g
  <2>4. IfrNext(g).tb = g.tb /\ g.tb.lag = 0
    BY <2>3, IfrNextFacts DEF Now, Armed, KeepsB
  <2> QED BY <2>2, <2>4
<1> QED BY <1>4, <1>5, <1>6, <1>7, <1>8, <1>9 DEF Accesses

\* The halves of B's latch.
LatchedB(c, a, s) ==
  /\ Access(c, a) = [AccessTb(c) EXCEPT !.tb = s]
  /\ Armed(s) /\ s.bits = AccessTb(c).tb.bits

LEMMA AccessLatchB ==
  ASSUME NEW c, Turn(c), NEW a \in Accesses, a.reg \in {"TBL", "TBH"}
  PROVE  \E s : LatchedB(c, a, s)
<1>1. Armed(AccessTb(c).tb) /\ Settled(AccessTb(c).tb)
  BY AccessTimer
<1>2. a.value \in 0 .. LoSize - 1
  BY DEF Accesses
<1>3. CASE a.reg = "TBL"
  <2> DEFINE s == SetLatchLo(AccessTb(c).tb, a.value)
  <2>1. Access(c, a) = [AccessTb(c) EXCEPT !.tb = s]
    BY <1>3 DEF Access
  <2>2. Armed(s) /\ s.bits = AccessTb(c).tb.bits
    BY <1>1, <1>2, SetLatchLoFacts
  <2> HIDE DEF s
  <2> QED BY <2>1, <2>2 DEF LatchedB
<1>4. CASE a.reg = "TBH"
  <2> DEFINE s == SetLatchHi(AccessTb(c).tb, a.value)
  <2>1. Access(c, a) = [AccessTb(c) EXCEPT !.tb = s]
    BY <1>4 DEF Access
  <2>2. Armed(s) /\ s.bits = AccessTb(c).tb.bits
    BY <1>1, <1>2, SetLatchHiFacts
  <2> HIDE DEF s
  <2> QED BY <2>1, <2>2 DEF LatchedB
<1> QED BY <1>3, <1>4

\* Every access of a program that leaves B stopped for a cycle at least.
LEMMA AccessHalted ==
  ASSUME NEW c, Turn(c), Irq(c), Halted(c, 0), NEW a \in Accesses,
         a.reg = "CRB" => "INMODE_TA" \notin a.byte,
         a.reg = "CRB" /\ "START" \notin a.byte => Gap >= 2
  PROVE  Halted(Access(c, a), Gap)
<1>1. Good(c) /\ Alone(c)
  BY DEF Turn, Irq, Fit
<1>2. Good(Access(c, a))
  BY AccessDone DEF Done
<1>3. CASE a.reg \notin {"TBL", "TBH", "CRB"}
  <2>1. Sights(Access(c, a)) = Sights(c)
    BY <1>1, <1>3, AccessTellsB, TellsLooks DEF LooksB
  <2>2. Access(c, a).tb = c.tb \/ Access(c, a).tb.lag = 0
    BY <1>3, AccessHand
  <2> QED BY <1>1, <1>2, <2>1, <2>2, BitsHalted DEF Sights
<1>4. CASE a.reg \in {"TBL", "TBH"}
  <2> DEFINE d == Access(c, a)
             x == AccessTb(c)
  <2>1. PICK s : LatchedB(c, a, s)
    BY <1>4, AccessLatchB
  <2>2. Done(c, x) /\ Armed(x.tb) /\ Sights(x) = Sights(c)
    BY <1>1, AccessTimer, AccessTimerTellsB, TellsLooks DEF LooksB
  <2>3. d = [x EXCEPT !.tb = s] /\ Armed(s) /\ s.bits = x.tb.bits
    BY <2>1 DEF LatchedB
  <2>4. Good(d)
    BY <1>2
  <2> HIDE DEF d, x
  <2>5. d.tb = s /\ d.crb = x.crb
    BY <2>2, <2>3 DEF Chip, Done, Good
  <2>6. Sight(d.tb).bits = Sight(x.tb).bits
    BY <2>2, <2>3, <2>5, SightNow DEF Armed
  <2>7. d.crb = c.crb /\ Sight(d.tb).bits = Sight(c.tb).bits /\ d.tb.lag = 0
    BY <2>2, <2>3, <2>5, <2>6 DEF Sights, Armed
  <2>8. Halted(d, Gap)
    BY <1>1, <2>4, <2>7, BitsHalted
  <2> QED BY <2>8 DEF d
<1>5. CASE a.reg = "CRB"
  <2>1. a.byte \in SUBSET ControlBits /\ "INMODE_TA" \notin a.byte
    BY <1>5 DEF Accesses, ControlBits
  <2>2. PICK d, g : CrbWritten(c, a.byte, d, g)
    BY <2>1, CrbParts
  <2>3. Access(c, a) = Ifr(g) /\ Good(g) /\ g.crb = a.byte \ {"FLOAD"}
        /\ g.tb = SetCtrl(d.tb, a.byte) /\ Armed(d.tb) /\ Settled(d.tb) /\ LooksB(c, d)
    BY <1>5, <2>2 DEF Access, CrbWritten
  <2>4. Set(d.tb, g.tb)
    BY <1>1, <2>3, CtrlSet DEF LooksB, Alone
  <2>5. "START" \in g.tb.bits => "START" \in a.byte
    BY <2>3, SetCtrlFacts DEF CrBits
  <2>6. Ifr(g).tb = g.tb /\ Ifr(g).crb = g.crb
    BY <2>3, IfrFacts DEF Good, Same, KeepsB
  <2>7. Sight(g.tb).bits = Shape(g.tb.bits)
    BY <2>4, SightNow DEF Set, Armed
  <2>8. g.tb.lag = 0 /\ g.tb.due # 0 /\ Watched(g.tb) /\ ~ Owes(g.tb)
    BY <2>4, OwesFacts DEF Set, Armed
  <2> QED BY <1>5, <2>3, <2>5, <2>6, <2>7, <2>8 DEF Halted, Shape
<1> QED BY <1>3, <1>4, <1>5

\* The toggle of a timer that is computed, and of one that owes nothing.
LEMMA ToggleNow ==
  ASSUME NEW t, Sound(t), NEW k \in 0 .. 1
  PROVE  /\ t.lag = 0 => Seen(t, k).toggle = k
         /\ "STEP" \notin t.bits => Seen(t, k).toggle = (k + Update(t).n) % 2
<1>1. t.lag = 0 => Seen(t, k).toggle = k
  BY SeenNow
<1>2. ASSUME "STEP" \notin t.bits
      PROVE  Seen(t, k).toggle = (k + Update(t).n) % 2
  <2> DEFINE n == Update(t).n
             u == [Update(t) EXCEPT !.n = 0]
             j == (k + n) % 2
  <2>1. Sound(Update(t)) /\ Update(t).lag = 0
    BY UpdateFacts
  <2>2. n \in Nat
    BY <2>1 DEF Sound, Timer
  <2>3. j \in 0 .. 1
    BY <2>2
  <2>4. Sound(u) /\ u.lag = 0
    BY <2>1, Told
  <2>5. Seen(u, j) = Seen(t, k)
    BY <1>2, SeenUpdate
  <2> HIDE DEF u, j
  <2>6. Seen(u, j).toggle = j
    BY <2>3, <2>4, SeenNow
  <2> QED BY <2>5, <2>6 DEF j
<1> QED BY <1>1, <1>2

\* An access leaves B's toggle as it shows, but for a start, which sets it.
ToggleAfter(x, a) ==
  IF a.reg = "CRB" /\ "START" \in a.byte /\ "START" \notin x.crb THEN 1 ELSE Toggle(x)

LEMMA AccessToggle ==
  ASSUME NEW x, Turn(x), Alone(x), "START" \notin x.crb => ~ Owes(x.tb),
         NEW a \in Accesses, a.reg = "CRB" => "INMODE_TA" \notin a.byte
  PROVE  Toggle(Access(x, a)) = ToggleAfter(x, a)
<1>1. Good(x) /\ Sound(x.tb) /\ Kept(x.tb) /\ x.tbt \in 0 .. 1
  BY DEF Turn, Good, Chip
<1>2. CASE a.reg \notin {"TBL", "TBH", "CRB"}
  BY <1>2, AccessTellsB, TellsLooks DEF ToggleAfter
<1>3. CASE a.reg \in {"TBL", "TBH"}
  <2> DEFINE y == AccessTb(x)
             d == Access(x, a)
  <2>1. PICK s : LatchedB(x, a, s)
    BY <1>3, AccessLatchB
  <2>2. Good(y) /\ Armed(y.tb) /\ Toggle(y) = Toggle(x)
    BY <1>1, AccessTimer, AccessTimerTellsB, TellsLooks DEF Done
  <2>3. d = [y EXCEPT !.tb = s] /\ Armed(s)
    BY <2>1 DEF LatchedB
  <2> HIDE DEF d, y
  <2>4. d.tb = s /\ d.tbt = y.tbt /\ y.tbt \in 0 .. 1
    BY <2>2, <2>3 DEF Chip, Good
  <2>5. Toggle(y) = y.tbt /\ Toggle(d) = d.tbt
    BY <2>2, <2>3, <2>4, ToggleNow DEF Toggle, Armed
  <2> QED BY <1>3, <2>2, <2>4, <2>5 DEF d, ToggleAfter
<1>4. CASE a.reg = "CRB"
  <2> DEFINE starts == "START" \in a.byte /\ "START" \notin x.crb
             k == IF starts THEN 1 ELSE x.tbt
  <2>1. a.byte \in SUBSET ControlBits /\ "INMODE_TA" \notin a.byte
    BY <1>4 DEF Accesses, ControlBits
  <2>2. PICK d, g : CrbWritten(x, a.byte, d, g)
    BY <2>1, CrbParts
  <2>3. /\ Access(x, a) = Ifr(g) /\ Good(g) /\ g.tb = SetCtrl(d.tb, a.byte) /\ g.tbt = d.tbt
        /\ Good(d) /\ Armed(d.tb) /\ Settled(d.tb)
    BY <1>4, <2>2 DEF Access, CrbWritten
  <2>4. Toggle(d) = Seen(x.tb, k).toggle
    BY <2>2 DEF CrbWritten
  <2>5. Armed(g.tb) /\ d.tbt \in 0 .. 1
    BY <2>3, SetCtrlFacts DEF Good, Chip
  <2>6. Ifr(g).tb = g.tb /\ Ifr(g).tbt = g.tbt
    BY <2>3, IfrFacts DEF Good, Same, KeepsB
  <2>7. Toggle(Access(x, a)) = g.tbt /\ Toggle(d) = d.tbt
    BY <2>3, <2>5, <2>6, ToggleNow DEF Toggle, Armed
  <2>8. CASE starts
    <3>1. Update(x.tb).n = 0
      BY <1>1, <2>8, OwesFacts
    <3>2. Seen(x.tb, 1).toggle = (1 + Update(x.tb).n) % 2
      BY <1>1, ToggleNow DEF Alone
    <3>3. Seen(x.tb, 1).toggle = 1
      BY <3>1, <3>2
    <3> QED BY <1>4, <2>3, <2>4, <2>7, <2>8, <3>3 DEF ToggleAfter
  <2>9. CASE ~ starts
    <3>1. Toggle(d) = Toggle(x)
      BY <2>4, <2>9 DEF Toggle
    <3> QED BY <1>4, <2>3, <2>7, <2>9, <3>1 DEF ToggleAfter
  <2> QED BY <2>8, <2>9
<1> QED BY <1>2, <1>3, <1>4

\* A cycle passes: the toggle shows what that cycle counts.
LEMMA OlderToggle ==
  ASSUME NEW c, Good(c), ~ AlarmsDue(c), c.ifr >= -1, NEW e, Exact(e), TwinsB(c, e),
         Toggle(c) = Toggle(e)
  PROVE  Toggle(Older(c)) = Toggle(WholeCycle(e))
<1> DEFINE d == Older(c)
           h == WholeCycle(e)
           p == Update(c.tb).n
           q == Update(d.tb).n
<1>1. /\ c \in Chip /\ Sound(c.tb) /\ c.ta \in Timer /\ c.tb \in Timer /\ c.tbt \in 0 .. 1
      /\ "STEP" \notin c.tb.bits
  BY DEF Good, Sound, Chip, TwinsB, Alone
<1>2. Sound(d.tb) /\ d.tb.lag = c.tb.lag + 1
  BY OlderFacts DEF Turn, Good
<1>3. Alike(d.tb, c.tb) /\ d.tbt = c.tbt
  BY <1>1, OlderKeeps
<1>4. "INMODE_TA" \notin e.crb
  BY DEF TwinsB, Alone
<1>5. /\ Exact(h)
      /\ \E t \in Timer :
           /\ Alike(t, e.tb) /\ t.n = 0 /\ Alike(h.tb, Cycle(t))
           /\ h.tbt = IF Cycle(t).n = 0 THEN e.tbt ELSE 1 - e.tbt
  BY <1>4, WholeCycleFacts
<1>6. PICK t \in Timer :
           /\ Alike(t, e.tb) /\ t.n = 0 /\ Alike(h.tb, Cycle(t))
           /\ h.tbt = IF Cycle(t).n = 0 THEN e.tbt ELSE 1 - e.tbt
  BY <1>5
<1>7. /\ Sound(e.tb) /\ e.tb.lag = 0 /\ e.tbt \in 0 .. 1
      /\ Sound(h.tb) /\ h.tb.lag = 0 /\ h.tbt \in 0 .. 1
  BY <1>5 DEF Exact, Good, Chip
<1> HIDE DEF d, h
<1>8. Sight(c.tb) = [bits |-> Shape(t.bits), cnt |-> t.cnt, latch |-> t.latch]
  <2>1. Sight(c.tb) = Sight(e.tb)
    BY DEF TwinsB, Sights
  <2>2. Sight(e.tb) = [bits |-> Shape(e.tb.bits), cnt |-> e.tb.cnt, latch |-> e.tb.latch]
    BY <1>7, SightNow
  <2> QED BY <1>6, <2>1, <2>2 DEF Alike
<1>9. q = p + Cycle(t).n /\ Cycle(t).n \in {0, 1}
  BY <1>1, <1>2, <1>3, <1>6, <1>8, OwesOlder
<1>10. p \in Nat
  <2>1. Sound(Update(c.tb))
    BY <1>1, UpdateFacts
  <2> QED BY <2>1 DEF Sound, Timer
<1>11. "STEP" \notin d.tb.bits
  BY <1>1, <1>3 DEF Alike
<1>12. Toggle(c) = (c.tbt + p) % 2 /\ Toggle(d) = (c.tbt + q) % 2
  BY <1>1, <1>2, <1>3, <1>11, ToggleNow DEF Toggle
<1>13. Toggle(e) = e.tbt /\ Toggle(h) = h.tbt
  BY <1>7, ToggleNow DEF Toggle
<1> HIDE DEF p, q
<1>14. CASE Cycle(t).n = 0
  <2>1. q = p /\ h.tbt = e.tbt
    BY <1>6, <1>9, <1>10, <1>14
  <2> QED BY <1>12, <1>13, <2>1 DEF d, h
<1>15. CASE Cycle(t).n = 1
  <2>1. q = p + 1 /\ h.tbt = 1 - e.tbt
    BY <1>6, <1>9, <1>15
  <2>2. ASSUME NEW j \in Nat PROVE (j + 1) % 2 = 1 - (j % 2)
    OBVIOUS
  <2>3. c.tbt + p \in Nat /\ c.tbt + q = (c.tbt + p) + 1
    BY <1>1, <1>10, <2>1
  <2> QED BY <1>12, <1>13, <2>1, <2>2, <2>3 DEF d, h
<1> QED BY <1>9, <1>14, <1>15

ToggleInv ==
  Unchained /\ Restart => Halted(cia, bus) /\ Toggle(cia) = Toggle(ref)

\* It holds after a reset.
LEMMA ResetToggle ==
  ASSUME NEW c \in Chip, c.tb = ResetTimer, NEW e \in Chip, e.tb = ResetTimer, c.tbt = e.tbt
  PROVE  Halted(c, 0) /\ Toggle(c) = Toggle(e)
<1>1. Sound(ResetTimer) /\ Kept(ResetTimer) /\ ResetTimer.lag = 0
  BY ResetTimerFacts
<1>2. ResetTimer.bits = {}
  BY DEF ResetTimer
<1>3. Sight(ResetTimer).bits = {} /\ ~ Owes(ResetTimer)
  BY <1>1, <1>2, SightNow, OwesFacts DEF Shape
<1> QED BY <1>3 DEF Halted, Toggle

LEMMA ResetToggles ==
  ASSUME NEW a \in 0 .. 1, NEW b \in 0 .. 1
  PROVE  LET c == [ResetChip EXCEPT !.tat = a, !.tbt = b]
             e == [ResetChip EXCEPT !.tat = a, !.tbt = b, !.idle = 0, !.ifr = 0]
             h == [ResetChip EXCEPT !.idle = 0, !.ifr = 0]
         IN  /\ Halted(c, 0) /\ Toggle(c) = Toggle(e)
             /\ Halted(ResetChip, 0) /\ Toggle(ResetChip) = Toggle(h)
<1> DEFINE z == 0
           r == ResetChip
           c == [r EXCEPT !.tat = a, !.tbt = b]
           e == [r EXCEPT !.tat = a, !.tbt = b, !.idle = z, !.ifr = z]
           h == [r EXCEPT !.idle = z, !.ifr = z]
<1>1. r \in Chip
  BY ResetChipFacts DEF Turn, Good
<1>2. r.tb = ResetTimer
  BY DEF ResetChip
<1>3. z \in Int
  OBVIOUS
<1> HIDE DEF r, z
<1>4. /\ c \in Chip /\ c.tb = r.tb /\ c.tbt = b /\ e \in Chip /\ e.tb = r.tb /\ e.tbt = b
      /\ h \in Chip /\ h.tb = r.tb /\ h.tbt = r.tbt
  BY <1>1, <1>3 DEF Chip
<1> HIDE DEF c, e, h
<1>5. /\ Halted(c, 0) /\ Toggle(c) = Toggle(e)
      /\ Halted(r, 0) /\ Toggle(r) = Toggle(h)
  BY <1>1, <1>2, <1>4, ResetToggle
<1> QED BY <1>5 DEF c, e, h, r, z

LEMMA ToggleInvInit == Init => ToggleInv
<1> SUFFICES ASSUME Init PROVE ToggleInv
  OBVIOUS
<1>1. cia = ResetChip /\ ref = [ResetChip EXCEPT !.idle = 0, !.ifr = 0] /\ bus = 0
  BY DEF Init
<1>2. 0 \in 0 .. 1
  OBVIOUS
<1>3. LET h == [ResetChip EXCEPT !.idle = 0, !.ifr = 0]
      IN  Halted(ResetChip, 0) /\ Toggle(ResetChip) = Toggle(h)
  BY <1>2, ResetToggles
<1> QED BY <1>1, <1>3 DEF ToggleInv

\* Every step keeps it.
LEMMA ToggleInvNext ==
  CiaInv /\ RefInv /\ IrqInv /\ ToggleInv /\ [Next]_vars => ToggleInv'
<1> SUFFICES ASSUME CiaInv, RefInv, IrqInv, ToggleInv, [Next]_vars, Unchained', Restart'
             PROVE  Halted(cia', bus') /\ Toggle(cia') = Toggle(ref')
  BY DEF ToggleInv
<1>1. program' = program
  BY DEF Next, vars, CpuAccess, TaAlarm, TbAlarm, IdleAlarm, AlarmRuns, Tick, Reset
<1>2. Unchained /\ Restart
  BY <1>1 DEF Unchained, Restart
<1>3. /\ Irq(cia) /\ TwinsB(cia, ref) /\ Alone(cia) /\ Alone(ref) /\ Exact(ref) /\ Good(ref)
      /\ Good(cia) /\ cia.ifr >= -1 /\ bus \in Nat
      /\ Halted(cia, bus) /\ Toggle(cia) = Toggle(ref)
  BY <1>2, Limits DEF IrqInv, Pair, RefInv, CiaInv, ToggleInv, TwinsB, Exact
<1>4. ASSUME AlarmRuns(cia'), Good(cia'), TellsB(cia, cia'), HandB(cia, cia')
      PROVE  Halted(cia', bus') /\ Toggle(cia') = Toggle(ref')
  <2>1. ref' = ref /\ bus' = IF bus = 0 THEN 1 ELSE bus
    BY <1>4 DEF AlarmRuns
  <2>2. Toggle(cia') = Toggle(cia)
    BY <1>3, <1>4, TellsLooks
  <2>3. Halted(cia', bus')
    BY <1>3, <1>4, <2>1, HandlerHalted
  <2> QED BY <1>3, <2>1, <2>2, <2>3
<1>5. CASE CpuAccess
  <2>1. PICK a \in program.accesses : cia' = Access(cia, a) /\ ref' = Plain(Access(ref, a))
    BY <1>5 DEF CpuAccess
  <2>2. bus = 0 /\ bus' = Gap /\ Turn(cia) /\ Turn(ref)
    BY <1>5 DEF CpuAccess, CiaInv, RefInv
  <2>3. a \in Accesses /\ (a.reg = "CRB" => "INMODE_TA" \notin a.byte)
    BY <1>2, <2>1, CiaAssumption DEF CiaInv, Unchained
  <2>4. a.reg = "CRB" /\ "START" \notin a.byte => Gap >= 2
    BY <1>2, <2>1 DEF Restart
  <2>5. Halted(cia', bus')
    BY <1>3, <2>1, <2>2, <2>3, <2>4, AccessHalted
  <2>6. "START" \notin cia.crb => ~ Owes(cia.tb)
    <3>1. ~ (0 = Gap)
      BY Limits
    <3> QED BY <1>3, <2>2, <3>1 DEF Halted
  <2>7. ~ Owes(ref.tb) /\ ref.crb = cia.crb
    BY <1>3, OwesFacts DEF Exact, Good, TwinsB, Sights
  <2> DEFINE e == Access(ref, a)
  <2>8. Toggle(Access(cia, a)) = ToggleAfter(cia, a) /\ Toggle(e) = ToggleAfter(ref, a)
    BY <1>3, <2>2, <2>3, <2>6, <2>7, AccessToggle
  <2>9. ToggleAfter(cia, a) = ToggleAfter(ref, a)
    BY <1>3, <2>7 DEF ToggleAfter
  <2>10. Good(e) /\ e.tb.lag = 0 /\ Alone(e)
    <3>1. Done(ref, e) /\ TwinsB(Access(cia, a), e)
      BY <1>3, <2>2, <2>3, AccessDone, AccessTwinsB
    <3> HIDE DEF e
    <3> QED BY <1>3, <3>1 DEF Done, Exact, TwinsB
  <2> HIDE DEF e
  <2>11. Toggle(Plain(e)) = Toggle(e)
    BY <2>10, PlainTellsB, TellsLooks
  <2> QED BY <2>1, <2>5, <2>8, <2>9, <2>11 DEF e
<1>6. CASE TaAlarm
  <2>1. cia' = InttaEntry(cia) /\ AlarmRuns(cia')
    BY <1>6 DEF TaAlarm, AlarmRuns
  <2>2. Good(cia')
    BY <1>3, <2>1, InttaFacts, IfrTellsB DEF InttaEntry, After
  <2> QED BY <1>3, <1>4, <2>1, <2>2, EntriesTellB, EntriesHand
<1>7. CASE TbAlarm
  <2>1. cia' = InttbEntry(cia) /\ AlarmRuns(cia') /\ cia.tb.due = 0
    BY <1>7 DEF TbAlarm, AlarmRuns
  <2>2. Good(cia')
    BY <1>3, <2>1, InttbFacts, IfrTellsB DEF InttbEntry, After
  <2> QED BY <1>3, <1>4, <2>1, <2>2, EntriesTellB, EntriesHand
<1>8. CASE IdleAlarm
  <2>1. cia' = IdleEntry(cia) /\ AlarmRuns(cia')
    BY <1>8 DEF IdleAlarm, AlarmRuns
  <2>2. Good(cia')
    BY <1>3, <2>1, IdleEntryDone DEF Done
  <2> QED BY <1>3, <1>4, <2>1, <2>2, EntriesTellB, EntriesHand
<1>9. CASE Tick
  <2>1. ~ AlarmsDue(cia) /\ cia' = Older(cia) /\ ref' = WholeCycle(ref)
        /\ bus' = IF bus = 0 THEN 0 ELSE bus - 1
    BY <1>9 DEF Tick
  <2>2. Toggle(cia') = Toggle(ref')
    BY <1>3, <2>1, OlderToggle
  <2>3. Halted(cia', bus')
    BY <1>3, <2>1, TickHalted
  <2> QED BY <2>2, <2>3
<1>10. CASE Reset
  <2> DEFINE a == cia.tat
             b == cia.tbt
             c == [ResetChip EXCEPT !.tat = a, !.tbt = b]
             e == [ResetChip EXCEPT !.tat = a, !.tbt = b, !.idle = 0, !.ifr = 0]
  <2>1. cia' = c /\ ref' = e /\ bus' = 0
    BY <1>10 DEF Reset
  <2>2. a \in 0 .. 1 /\ b \in 0 .. 1
    BY <1>3 DEF Good, Chip
  <2>3. Halted(c, 0) /\ Toggle(c) = Toggle(e)
    <3> HIDE DEF a, b
    <3> QED BY <2>2, ResetToggles
  <2> HIDE DEF c, e
  <2> QED BY <2>1, <2>3
<1>11. CASE UNCHANGED vars
  BY <1>3, <1>11 DEF vars
<1> QED BY <1>5, <1>6, <1>7, <1>8, <1>9, <1>10, <1>11 DEF Next

\* Whatever a program reads of timer B and of the ICR in its turn of a cycle is what the chip
\* computed cycle by cycle shows: the counter, the bits, the output on port B and the flags.
\* It is so for every program that never makes B count A, when it cannot start B in the cycle
\* after it has stopped it: the start sets the toggle before it counts an underflow of that
\* cycle (ciacore.c:1071).
THEOREM ReadsAreExact == Spec => [](Unchained /\ Restart => ReadsExact)
<1>1. CiaInv /\ RefInv /\ IrqInv /\ ToggleInv => (Unchained /\ Restart => ReadsExact)
  <2> SUFFICES ASSUME CiaInv, RefInv, IrqInv, ToggleInv, Unchained, Restart, bus = 0
               PROVE  LET c == UpdateTb(UpdateTa(cia))
                      IN  /\ Shown(c.tb) = Shown(ref.tb) /\ c.tbt = ref.tbt
                          /\ IcrResult(cia) = IcrResult(ref)
    BY DEF ReadsExact
  <2> DEFINE c == UpdateTb(UpdateTa(cia))
  <2>1. Good(c) /\ Armed(c.tb) /\ TellsB(cia, c)
    BY UpdateBothFacts, UpdateTellsB DEF CiaInv, After
  <2>2. TwinsB(c, ref) /\ Toggle(c) = Toggle(cia) /\ Exact(ref)
    BY <2>1, TellsLooks DEF RefInv, TwinsB, LooksB
  <2> HIDE DEF c
  <2>3. Like(c.tb, ref.tb)
    BY <2>1, <2>2, TwinsNowB DEF TwinsB, Exact, Good, Armed
  <2>4. Shown(c.tb) = Shown(ref.tb)
    BY <2>3 DEF Shown, Like, Shape
  <2>5. c.tbt \in 0 .. 1 /\ ref.tbt \in 0 .. 1
    BY <2>1, <2>2 DEF Exact, Good, Chip
  <2>6. Toggle(c) = c.tbt /\ Toggle(ref) = ref.tbt
    BY <2>1, <2>2, <2>5, ToggleNow DEF Toggle, Armed, Exact, Good
  <2>7. Toggle(cia) = Toggle(ref)
    BY DEF ToggleInv
  <2>8. IcrResult(cia) = IcrResult(ref)
    <3>1. Turn(cia) /\ Turn(ref) /\ Pair(cia, ref)
      BY DEF CiaInv, RefInv, IrqInv
    <3> DEFINE a == [reg |-> "ICR"]
    <3>2. a \in Accesses /\ a.reg # "CRB"
      BY DEF Accesses
    <3> HIDE DEF a
    <3> QED BY <3>1, <3>2, AccessAlike DEF Pair, RefIrq
  <2> QED BY <2>2, <2>4, <2>6, <2>7, <2>8 DEF c
<1>2. CiaInv /\ RefInv /\ IrqInv /\ ToggleInv /\ [Next]_vars => ToggleInv'
  BY ToggleInvNext
<1> QED BY <1>1, <1>2, IrqInvAlways, ToggleInvInit, PTL DEF Spec
=============================================================================
