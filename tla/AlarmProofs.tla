---------------------------- MODULE AlarmProofs ----------------------------
(***************************************************************************)
(* Proofs about Alarm for every number of alarms, array size and clock     *)
(* range: the array and its cache stay consistent.  The three invariants   *)
(* are inductive together.                                                 *)
(***************************************************************************)
EXTENDS Alarm, WellFoundedInduction, FiniteSetTheorems, TLAPS

IInv == TypeOK /\ IndexesAgree /\ NextIsEarliest

-----------------------------------------------------------------------------
(* A nonempty array has a last earliest entry.                             *)

NatLess == {p \in Nat \X Nat : p[1] < p[2]}

\* A nonempty set of naturals has a least element (alarm.h:118 finds it).
LEMMA LeastNat ==
  ASSUME NEW S \in SUBSET Nat, S # {}
  PROVE  \E x \in S : \A y \in S : x <= y
<1>1. IsWellFoundedOn(NatLess, Nat)
  BY NatLessThanWellFounded, SMT DEF NatLess, OpToRel
<1>2. PICK x \in S : \A y \in S : <<y, x>> \notin NatLess
  BY <1>1, WFMin
<1>3. ASSUME NEW y \in S PROVE x <= y
  <2>1. x \in Nat /\ y \in Nat /\ <<y, x>> \in Nat \X Nat
    OBVIOUS
  <2>2. ~ (y < x)
    BY <1>2, <2>1 DEF NatLess
  <2> QED BY <2>1, <2>2
<1> QED BY <1>3

\* The search of alarm_context_update_next_pending() finds an entry.
LEMMA LastEarliestExists ==
  ASSUME NEW clks \in [Slot -> Clock], NEW n \in 1 .. MaxPending
  PROVE  \E i \in Used(n) : LastEarliest(clks, n, i)
<1> USE AlarmAssumption DEF Used, Slot, Clock
<1> DEFINE Clks == {clks[i] : i \in Used(n)}
<1>1. Clks \in SUBSET Nat /\ clks[0] \in Clks
  OBVIOUS
<1>2. PICK m \in Clks : \A y \in Clks : m <= y
  BY <1>1, LeastNat
<1> DEFINE Dist == {n - i : i \in {j \in Used(n) : clks[j] = m}}
<1>3. Dist \in SUBSET Nat /\ Dist # {}
  BY <1>2
<1>4. PICK d \in Dist : \A y \in Dist : d <= y
  BY <1>3, LeastNat
<1>5. PICK i \in Used(n) : clks[i] = m /\ d = n - i
  BY <1>4
<1>6. \A j \in Used(n) : clks[j] \in Nat /\ m <= clks[j] /\ (clks[j] = m => n - i <= n - j)
  BY <1>1, <1>2, <1>4, <1>5
<1>7. LastEarliest(clks, n, i)
  BY <1>5, <1>6 DEF LastEarliest
<1> QED BY <1>7

\* What UpdateNextPending leaves in the cache.
LEMMA UpdateNextPendingFinds ==
  ASSUME NEW clks \in [Slot -> Clock], NEW n \in 1 .. MaxPending,
         UpdateNextPending(clks, n)
  PROVE  /\ nextIdx' \in Used(n)
         /\ nextClk' = clks[nextIdx']
         /\ \A j \in Used(n) : nextClk' <= clks[j]
<1> DEFINE i == CHOOSE i \in Used(n) : LastEarliest(clks, n, i)
<1>1. i \in Used(n) /\ LastEarliest(clks, n, i)
  BY LastEarliestExists
<1>2. n > 0
  OBVIOUS
<1>3. nextIdx' = i /\ nextClk' = clks[i]
  BY <1>2 DEF UpdateNextPending
<1> HIDE DEF i
<1>4. \A j \in Used(n) : clks[j] \in Nat /\ clks[i] \in Nat
  BY <1>1, AlarmAssumption DEF Used, Slot, Clock
<1>5. \A j \in Used(n) : clks[i] <= clks[j]
  BY <1>1, <1>4 DEF LastEarliest
<1> QED BY <1>5, <1>1, <1>3, <1>4 DEF LastEarliest
-----------------------------------------------------------------------------
(* Each operation of the context keeps the invariant.                      *)

\* alarm_set() of an alarm that is not pending.
LEMMA AddPendingKeeps ==
  ASSUME IInv, NEW a \in alarms, NEW c \in Clock, AddPending(a, c),
         UNCHANGED alarms, UNCHANGED cpu
  PROVE  IInv'
<1> USE AlarmAssumption DEF IInv, Slot, Clock, Used
<1>1. TypeOK'
  BY DEF TypeOK, AddPending, cpu
<1>2. IndexesAgree'
  BY DEF TypeOK, AddPending, IndexesAgree
<1>3. NextIsEarliest'
  BY DEF TypeOK, AddPending, NextIsEarliest
<1> QED BY <1>1, <1>2, <1>3

\* alarm_set() of a pending alarm.
LEMMA ModifyPendingKeeps ==
  ASSUME IInv, NEW a \in alarms, NEW c \in Clock, ModifyPending(a, c),
         UNCHANGED alarms, UNCHANGED cpu
  PROVE  IInv'
<1> USE AlarmAssumption DEF IInv
<1>1. /\ numPending \in 1 .. MaxPending
      /\ pendingClk' \in [Slot -> Clock]
  BY DEF TypeOK, ModifyPending, IndexesAgree, Used, Slot
<1>2. CASE nextClk > c \/ pendingIdx[a] = nextIdx
  <2>1. UpdateNextPending(pendingClk', numPending)
    BY <1>2 DEF ModifyPending
  <2>2. /\ nextIdx' \in Used(numPending)
        /\ nextClk' = pendingClk'[nextIdx']
        /\ \A j \in Used(numPending) : nextClk' <= pendingClk'[j]
    BY <1>1, <2>1, UpdateNextPendingFinds
  <2>3. TypeOK'
    BY <1>1, <2>2 DEF TypeOK, ModifyPending, cpu, Used, Slot
  <2>4. IndexesAgree'
    BY DEF ModifyPending, IndexesAgree, Used
  <2>5. NextIsEarliest'
    BY <2>2 DEF NextIsEarliest, ModifyPending, Used
  <2> QED BY <2>3, <2>4, <2>5
<1>3. CASE ~ (nextClk > c \/ pendingIdx[a] = nextIdx)
  <2>1. UNCHANGED <<nextClk, nextIdx, pendingIdx, pendingAlarm, numPending>>
    BY <1>3 DEF ModifyPending
  <2>2. TypeOK'
    BY <1>1, <2>1 DEF TypeOK, cpu
  <2>3. IndexesAgree'
    BY <2>1 DEF IndexesAgree, Used
  <2>4. NextIsEarliest'
    BY <1>3, <2>1
    DEF TypeOK, NextIsEarliest, ModifyPending, Used, Slot, Clock
  <2> QED BY <2>2, <2>3, <2>4
<1> QED BY <1>2, <1>3

\* alarm_unset() that moves the last entry into the hole.
LEMMA RemovePendingKeeps ==
  ASSUME IInv, NEW a \in alarms, RemovePending(a),
         alarms' \in {alarms, alarms \ {a}}, UNCHANGED cpu
  PROVE  IInv'
<1> USE AlarmAssumption DEF IInv
<1> DEFINE idx == pendingIdx[a]
           last == numPending - 1
           moved == pendingAlarm[last]
<1>1. /\ idx \in Used(numPending) /\ idx \in Slot
      /\ last \in 1 .. MaxPending /\ last \in Slot
      /\ moved \in Alarm /\ a \in Alarm
      /\ pendingIdx[moved] = last /\ pendingAlarm[idx] = a
      /\ pendingClk[last] \in Clock
  BY DEF TypeOK, RemovePending, IndexesAgree, Used, Slot
<1>2. /\ numPending' = last
      /\ pendingAlarm' = [pendingAlarm EXCEPT ![idx] = moved]
      /\ pendingClk' = [pendingClk EXCEPT ![idx] = pendingClk[last]]
      /\ pendingIdx' = [pendingIdx EXCEPT ![moved] = idx, ![a] = -1]
  BY DEF RemovePending
<1>3. /\ pendingClk' \in [Slot -> Clock]
      /\ pendingAlarm' \in [Slot -> Alarm \cup {NoAlarm}]
      /\ pendingIdx' \in [Alarm -> Slot \cup {-1}]
      /\ numPending' \in 0 .. MaxPending
      /\ alarms' \subseteq Alarm
  BY <1>1, <1>2 DEF TypeOK
<1>4. IndexesAgree'
  BY <1>1, <1>2 DEF TypeOK, IndexesAgree, Used, Slot
<1>5. CASE nextIdx = idx
  <2>1. UpdateNextPending(pendingClk', last)
    BY <1>5 DEF RemovePending
  <2>2. /\ nextIdx' \in Used(last)
        /\ nextClk' = pendingClk'[nextIdx']
        /\ \A j \in Used(last) : nextClk' <= pendingClk'[j]
    BY <1>1, <1>3, <2>1, UpdateNextPendingFinds
  <2>3. TypeOK'
    BY <1>1, <1>3, <2>2 DEF TypeOK, cpu, Used, Slot
  <2>4. NextIsEarliest'
    BY <1>2, <2>2 DEF NextIsEarliest, Used
  <2> QED BY <1>4, <2>3, <2>4
<1>6. CASE nextIdx # idx
  <2>1. /\ nextIdx' = IF nextIdx = last THEN idx ELSE nextIdx
        /\ nextClk' = nextClk
    BY <1>6 DEF RemovePending
  <2>2. TypeOK'
    BY <1>1, <1>3, <2>1 DEF TypeOK, cpu
  <2>3. NextIsEarliest'
    BY <1>1, <1>2, <1>6, <2>1 DEF TypeOK, NextIsEarliest, Used, Slot, Clock
  <2> QED BY <1>4, <2>2, <2>3
<1> QED BY <1>5, <1>6

\* alarm_unset() of the only pending alarm.
LEMMA RemoveOnlyKeeps ==
  ASSUME IInv, NEW a \in alarms, RemoveOnly(a),
         alarms' \in {alarms, alarms \ {a}}, UNCHANGED cpu
  PROVE  IInv'
<1> USE AlarmAssumption DEF IInv
<1>1. TypeOK'
  BY DEF TypeOK, RemoveOnly, cpu, Slot, Clock
<1>2. IndexesAgree'
  BY DEF TypeOK, RemoveOnly, IndexesAgree, Used, Slot
<1>3. NextIsEarliest'
  BY DEF TypeOK, RemoveOnly, NextIsEarliest, Used, Slot, Clock
<1> QED BY <1>1, <1>2, <1>3

-----------------------------------------------------------------------------
(* The invariant.                                                          *)

LEMMA InitIInv == Init => IInv
  BY AlarmAssumption
  DEF Init, IInv, TypeOK, IndexesAgree, NextIsEarliest, Used, Slot, Clock

\* alarm_unset() in all its cases, also inside alarm_destroy().
LEMMA UnsetKeeps ==
  ASSUME IInv, NEW a \in alarms, UNCHANGED cpu,
         alarms' = alarms \/ (alarms' = alarms \ {a}),
         \/ RemovePending(a)
         \/ RemoveOnly(a)
         \/ pendingIdx[a] < 0 /\ UNCHANGED ctx
  PROVE  IInv'
<1>1. CASE RemovePending(a)
  BY <1>1, RemovePendingKeeps
<1>2. CASE RemoveOnly(a)
  BY <1>2, RemoveOnlyKeeps
<1>3. CASE pendingIdx[a] < 0 /\ UNCHANGED ctx
  BY <1>3, AlarmAssumption
  DEF IInv, TypeOK, IndexesAgree, NextIsEarliest, ctx, cpu, Used, Slot
<1> QED BY <1>1, <1>2, <1>3

\* A step that leaves the context alone keeps what is said of it.
LEMMA CpuStepKeeps ==
  ASSUME IInv, UNCHANGED <<alarms, ctx>>, TypeOK'
  PROVE  IInv'
  BY DEF IInv, IndexesAgree, NextIsEarliest, ctx, Used

LEMMA NextIInv == IInv /\ [Next]_vars => IInv'
<1> SUFFICES ASSUME IInv, [Next]_vars PROVE IInv'
  OBVIOUS
<1>1. ASSUME NEW a \in Alarm, AlarmNew(a), UNCHANGED cpu PROVE IInv'
  <2>1. pendingIdx[a] = -1
    BY <1>1, AlarmAssumption
    DEF AlarmNew, IInv, TypeOK, IndexesAgree, Slot
  <2>2. pendingIdx' = pendingIdx
    BY <1>1, <2>1 DEF AlarmNew, IInv, TypeOK
  <2> QED BY <1>1, <2>2
          DEF AlarmNew, IInv, TypeOK, IndexesAgree, NextIsEarliest, cpu, Used
<1>2. ASSUME NEW a \in Alarm, AlarmDestroy(a), UNCHANGED cpu PROVE IInv'
  BY <1>2, UnsetKeeps DEF AlarmDestroy
<1>3. ASSUME NEW a \in Alarm, AlarmUnset(a), UNCHANGED cpu PROVE IInv'
  BY <1>3, UnsetKeeps DEF AlarmUnset
<1>4. ASSUME NEW a \in Alarm, AlarmSetFull(a), UNCHANGED cpu PROVE IInv'
  <2>1. TypeOK'
    BY <1>4 DEF AlarmSetFull, IInv, TypeOK, ctx, cpu
  <2> QED BY <1>4, <2>1, CpuStepKeeps DEF AlarmSetFull
<1>5. ASSUME NEW a \in Alarm, NEW c \in Clock, AlarmSet(a, c), UNCHANGED cpu
      PROVE  IInv'
  BY <1>5, AddPendingKeeps, ModifyPendingKeeps DEF AlarmSet
<1>6. CASE Cycles
  <2>1. TypeOK'
    BY <1>6, AlarmAssumption DEF Cycles, IInv, TypeOK, ctx
  <2> QED BY <1>6, <2>1, CpuStepKeeps DEF Cycles
<1>7. CASE CpuReset
  <2>1. TypeOK'
    BY <1>7, AlarmAssumption DEF CpuReset, IInv, TypeOK, ctx
  <2> QED BY <1>7, <2>1, CpuStepKeeps DEF CpuReset
<1>8. CASE Dispatch
  <2>1. /\ nextClk < ClockMax /\ nextClk \in Nat /\ clk \in Nat
        /\ clk - nextClk \in Nat /\ nextIdx \in Slot
    BY <1>8, AlarmAssumption
    DEF Dispatch, IInv, TypeOK, NextIsEarliest, Clock, Used, Slot
  <2>2. TypeOK'
    BY <1>8, <2>1 DEF Dispatch, IInv, TypeOK, ctx
  <2> QED BY <1>8, <2>2, CpuStepKeeps DEF Dispatch
<1>9. CASE Return
  <2>1. TypeOK'
    BY <1>9 DEF Return, IInv, TypeOK, ctx
  <2> QED BY <1>9, <2>1, CpuStepKeeps DEF Return
<1>10. CASE Execute
  <2>1. TypeOK'
    BY <1>10 DEF Execute, IInv, TypeOK, ctx
  <2> QED BY <1>10, <2>1, CpuStepKeeps DEF Execute
<1>11. CASE UNCHANGED vars
  <2>1. TypeOK'
    BY <1>11 DEF vars, IInv, TypeOK
  <2> QED BY <1>11, <2>1, CpuStepKeeps DEF vars, ctx
<1> QED BY <1>1, <1>2, <1>3, <1>4, <1>5, <1>6, <1>7, <1>8, <1>9, <1>10, <1>11
        DEF Next, Use

\* The inductive invariant holds in every reachable state.
THEOREM Consistent == Spec => []IInv
  BY InitIInv, NextIInv, PTL DEF Spec

\* Every variable keeps its type.
THEOREM TypeCorrect == Spec => []TypeOK
<1>1. IInv => TypeOK
  BY DEF IInv
<1> QED BY <1>1, Consistent, PTL

\* Alarms and array entries point at each other whatever is moved or removed.
THEOREM IndexesAlwaysAgree == Spec => []IndexesAgree
<1>1. IInv => IndexesAgree
  BY DEF IInv
<1> QED BY <1>1, Consistent, PTL

\* The cached clock and index are those of the earliest alarm.
THEOREM NextAlwaysEarliest == Spec => []NextIsEarliest
<1>1. IInv => NextIsEarliest
  BY DEF IInv
<1> QED BY <1>1, Consistent, PTL

-----------------------------------------------------------------------------
(* Alarm implements AlarmSpec.                                             *)

PendingSet == {b \in Alarm : pendingIdx[b] >= 0}

LEMMA DueDomain ==
  /\ DOMAIN Due = PendingSet
  /\ \A b \in PendingSet : Due[b] = pendingClk[pendingIdx[b]]
  BY DEF Due, PendingSet

\* Two agendas are equal when they have the same alarms at the same ticks.
LEMMA SameDue ==
  ASSUME NEW f, NEW S, f = [b \in S |-> f[b]],
         PendingSet' = S,
         \A b \in S : pendingClk'[pendingIdx'[b]] = f[b]
  PROVE  Due' = f
  BY DEF Due, PendingSet

\* A context that is not full has fewer pending alarms than entries.
LEMMA RoomInAgenda ==
  ASSUME IInv, numPending < MaxPending
  PROVE  Cardinality(PendingSet) < MaxPending
<1> USE AlarmAssumption DEF IInv
<1> DEFINE f == [i \in 1 .. numPending |-> pendingAlarm[i - 1]]
<1>1. \A i \in 1 .. numPending : i - 1 \in Used(numPending)
  BY DEF TypeOK, Used
<1>2. \A i \in 1 .. numPending : pendingAlarm[i - 1] \in PendingSet
  BY <1>1 DEF TypeOK, IndexesAgree, PendingSet, Used
<1>3. ASSUME NEW a \in PendingSet
      PROVE  /\ pendingIdx[a] + 1 \in 1 .. numPending
             /\ f[pendingIdx[a] + 1] = a
  <2>1. /\ pendingIdx[a] \in Nat /\ pendingIdx[a] < numPending
        /\ pendingAlarm[pendingIdx[a]] = a
    BY DEF TypeOK, IndexesAgree, PendingSet, Slot
  <2>2. /\ pendingIdx[a] + 1 \in 1 .. numPending
        /\ (pendingIdx[a] + 1) - 1 = pendingIdx[a]
    BY <2>1 DEF TypeOK
  <2> QED BY <2>1, <2>2
<1>4. f \in Surjection(1 .. numPending, PendingSet)
  BY <1>2, <1>3 DEF Surjection
<1>5. Cardinality(PendingSet) <= numPending
  <2>1. ExistsSurjection(1 .. numPending, PendingSet)
    BY <1>4 DEF ExistsSurjection
  <2>2. numPending \in Nat
    BY DEF TypeOK
  <2> QED BY <2>1, <2>2, FS_SurjCardinalityBound
<1>6. IsFiniteSet(PendingSet)
  BY <1>4, FS_Surjection, FS_Interval, numPending \in Int DEF TypeOK
<1>7. Cardinality(PendingSet) \in Nat
  BY <1>6, FS_CardinalityType
<1> QED BY <1>5, <1>7 DEF TypeOK

\* alarm_set() puts the alarm on the agenda.
LEMMA SetIsSet ==
  ASSUME IInv, NEW a \in Alarm, NEW c \in Clock, AlarmSet(a, c),
         pc \in {"callback", "execute"}, UNCHANGED cpu
  PROVE  Agenda!Set(a, c)
<1> USE AlarmAssumption DEF IInv
<1> DEFINE f == [b \in PendingSet \cup {a} |-> IF b = a THEN c ELSE Due[b]]
<1>1. /\ PendingSet' = PendingSet \cup {a}
      /\ \A b \in PendingSet \cup {a} : pendingClk'[pendingIdx'[b]] = f[b]
      /\ a \in PendingSet \/ numPending < MaxPending
  <2>1. CASE AddPending(a, c)
    BY <2>1, DueDomain
    DEF AddPending, PendingSet, TypeOK, IndexesAgree, Slot
  <2>2. CASE ModifyPending(a, c)
    BY <2>2, DueDomain
    DEF ModifyPending, PendingSet, TypeOK, IndexesAgree, Slot
  <2> QED BY <2>1, <2>2 DEF AlarmSet
<1>2. Due' = f
  <2>1. f = [b \in PendingSet \cup {a} |-> f[b]]
    OBVIOUS
  <2> HIDE DEF f
  <2> QED BY <1>1, <2>1, SameDue
<1>3. a \in PendingSet \/ Cardinality(PendingSet) < MaxPending
  BY <1>1, RoomInAgenda
<1>4. Agenda!Cardinality(PendingSet) = Cardinality(PendingSet)
  BY DEF Agenda!Cardinality, Cardinality
<1> QED BY <1>2, <1>3, <1>4, DueDomain
        DEF Agenda!Set, Agenda!Active, Agenda!Pending, AlarmSet, cpu

\* What alarm_unset() leaves is the agenda without the alarm.
LEMMA UnsetRemoves ==
  ASSUME IInv, NEW a \in alarms,
         \/ RemovePending(a)
         \/ RemoveOnly(a)
         \/ pendingIdx[a] < 0 /\ UNCHANGED ctx
  PROVE  Due' = Agenda!Without({a})
<1> USE AlarmAssumption DEF IInv
<1> DEFINE f == [b \in PendingSet \ {a} |-> Due[b]]
<1>0. a \in Alarm
  BY DEF TypeOK
<1>1. /\ PendingSet' = PendingSet \ {a}
      /\ \A b \in PendingSet \ {a} : pendingClk'[pendingIdx'[b]] = f[b]
  <2>1. CASE RemovePending(a)
    <3> DEFINE idx == pendingIdx[a]
               last == numPending - 1
               moved == pendingAlarm[last]
    <3>1. /\ idx \in Used(numPending) /\ idx \in Slot
          /\ last \in Slot /\ last \in Used(numPending)
          /\ moved \in Alarm /\ pendingIdx[moved] = last
      BY <1>0, <2>1 DEF TypeOK, RemovePending, IndexesAgree, Used, Slot
    <3>2. /\ pendingClk' = [pendingClk EXCEPT ![idx] = pendingClk[last]]
          /\ pendingIdx' = [pendingIdx EXCEPT ![moved] = idx, ![a] = -1]
      BY <2>1 DEF RemovePending
    <3>3. PendingSet' = PendingSet \ {a}
      BY <1>0, <3>1, <3>2 DEF TypeOK, PendingSet, Slot
    <3>4. ASSUME NEW b \in PendingSet \ {a}
          PROVE  pendingClk'[pendingIdx'[b]] = pendingClk[pendingIdx[b]]
      <4>1. pendingIdx[b] \in Slot /\ pendingIdx[b] # idx
        BY <1>0 DEF TypeOK, IndexesAgree, PendingSet, Slot
      <4> QED BY <1>0, <3>1, <3>2, <4>1 DEF TypeOK, PendingSet
    <3> QED BY <3>3, <3>4, DueDomain
  <2>2. CASE RemoveOnly(a)
    <3>1. numPending = 1 /\ PendingSet = {a}
      BY <1>0, <2>2 DEF RemoveOnly, PendingSet, TypeOK, IndexesAgree, Slot
    <3>2. PendingSet' = {}
      BY <1>0, <2>2, <3>1 DEF RemoveOnly, PendingSet, TypeOK
    <3> QED BY <3>1, <3>2
  <2>3. CASE pendingIdx[a] < 0 /\ UNCHANGED ctx
    BY <1>0, <2>3, DueDomain DEF PendingSet, ctx, TypeOK, Slot
  <2> QED BY <2>1, <2>2, <2>3
<1>2. Due' = f
  <2>1. f = [b \in PendingSet \ {a} |-> f[b]]
    OBVIOUS
  <2> HIDE DEF f
  <2> QED BY <1>1, <2>1, SameDue
<1> QED BY <1>2, DueDomain DEF Agenda!Without, Agenda!Pending

\* With the entries and indexes unchanged the agenda is unchanged.
LEMMA SameAgenda == UNCHANGED <<pendingIdx, pendingClk>> => Due' = Due
  BY DEF Due

\* The cached entry is an earliest alarm of the agenda, with its clock.
LEMMA CachedIsEarliest ==
  ASSUME IInv, nextClk < ClockMax
  PROVE  /\ pendingAlarm[nextIdx] \in Alarm
         /\ Agenda!Earliest(pendingAlarm[nextIdx])
         /\ Due[pendingAlarm[nextIdx]] = nextClk
<1> DEFINE a == pendingAlarm[nextIdx]
<1>1. a \in Alarm /\ a \in PendingSet /\ pendingIdx[a] = nextIdx
  BY AlarmAssumption
  DEF IInv, TypeOK, NextIsEarliest, IndexesAgree, PendingSet, Used
<1>2. Due[a] = nextClk
  BY <1>1, DueDomain DEF IInv, NextIsEarliest
<1>3. ASSUME NEW b \in PendingSet PROVE nextClk <= Due[b]
  BY DueDomain, AlarmAssumption
  DEF IInv, TypeOK, NextIsEarliest, IndexesAgree, PendingSet, Used, Slot
<1> QED BY <1>1, <1>2, <1>3, DueDomain DEF Agenda!Earliest, Agenda!Pending

LEMMA InitMaps == Init => Agenda!Init
<1> SUFFICES ASSUME Init PROVE Agenda!Init
  OBVIOUS
<1>1. PendingSet = {}
  BY DEF Init, PendingSet
<1>2. Due = [a \in {} |-> 0]
  BY <1>1, DueDomain DEF Due, PendingSet
<1> QED BY <1>2 DEF Init, Agenda!Init

LEMMA NextMaps == IInv /\ [Next]_vars => [Agenda!Next]_Agenda!vars
<1> SUFFICES ASSUME IInv, [Next]_vars PROVE [Agenda!Next]_Agenda!vars
  OBVIOUS
<1>1. ASSUME NEW a \in Alarm, AlarmNew(a), UNCHANGED cpu,
             pc \in {"callback", "execute"}
      PROVE  Agenda!Next
  <2>1. pendingIdx' = pendingIdx
    BY <1>1, AlarmAssumption
    DEF AlarmNew, IInv, TypeOK, IndexesAgree, Slot
  <2>2. Agenda!New(a)
    BY <1>1, <2>1, SameAgenda DEF AlarmNew, Agenda!New, Agenda!Active, cpu
  <2> QED BY <1>1, <2>2 DEF Agenda!Next
<1>2. ASSUME NEW a \in Alarm, AlarmDestroy(a), UNCHANGED cpu,
             pc \in {"callback", "execute"}
      PROVE  Agenda!Next
  <2>1. Due' = Agenda!Without({a})
    BY <1>2, UnsetRemoves DEF AlarmDestroy
  <2>2. Agenda!Destroy(a)
    BY <1>2, <2>1 DEF AlarmDestroy, Agenda!Destroy, Agenda!Active, cpu
  <2> QED BY <1>2, <2>2 DEF Agenda!Next
<1>3. ASSUME NEW a \in Alarm, AlarmUnset(a), UNCHANGED cpu,
             pc \in {"callback", "execute"}
      PROVE  Agenda!Next
  <2>1. Due' = Agenda!Without({a})
    BY <1>3, UnsetRemoves DEF AlarmUnset
  <2>2. Agenda!Unset(a)
    BY <1>3, <2>1 DEF AlarmUnset, Agenda!Unset, Agenda!Active, cpu
  <2> QED BY <1>3, <2>2 DEF Agenda!Next
<1>4. ASSUME NEW a \in Alarm, AlarmSetFull(a), UNCHANGED cpu
      PROVE  UNCHANGED Agenda!vars
  BY <1>4, SameAgenda DEF AlarmSetFull, ctx, cpu, Agenda!vars
<1>5. ASSUME NEW a \in Alarm, NEW c \in Clock, AlarmSet(a, c), UNCHANGED cpu,
             pc \in {"callback", "execute"}
      PROVE  Agenda!Next
  BY <1>5, SetIsSet DEF Agenda!Next, Agenda!Clock, Clock
<1>6. CASE Cycles
  <2>1. clk' \in Agenda!Clock /\ Agenda!Advance(clk')
    BY <1>6, SameAgenda, AlarmAssumption
    DEF Cycles, Agenda!Advance, Agenda!Active, Agenda!Clock, ctx, IInv, TypeOK
  <2> QED BY <2>1 DEF Agenda!Next
<1>7. CASE CpuReset
  <2>1. clk' \in Agenda!Clock /\ Agenda!Advance(clk')
    BY <1>7, SameAgenda, AlarmAssumption
    DEF CpuReset, Agenda!Advance, Agenda!Active, Agenda!Clock, ctx
  <2> QED BY <2>1 DEF Agenda!Next
<1>8. CASE Dispatch
  <2> DEFINE a == pendingAlarm[nextIdx]
  <2>1. nextClk < ClockMax
    BY <1>8, AlarmAssumption DEF Dispatch, IInv, TypeOK, Clock
  <2>2. a \in Alarm /\ Agenda!Earliest(a) /\ Due[a] = nextClk
    BY <2>1, CachedIsEarliest
  <2>3. Due[a] <= clk
    BY <1>8, <2>2 DEF Dispatch, IInv, TypeOK, Clock
  <2>4. Agenda!Dispatch(a)
    BY <1>8, <2>2, <2>3, SameAgenda DEF Dispatch, Agenda!Dispatch, ctx
  <2> QED BY <2>2, <2>4 DEF Agenda!Next
<1>9. CASE Return
  BY <1>9, SameAgenda DEF Return, Agenda!Return, Agenda!Next, ctx
<1>10. CASE Execute
  <2>1. ASSUME NEW a \in PendingSet PROVE Due[a] > clk
    <3>1. /\ pendingIdx[a] \in Used(numPending) /\ pendingIdx[a] \in Slot
      BY DEF IInv, TypeOK, IndexesAgree, PendingSet, Used, Slot
    <3>2. Due[a] \in Nat /\ nextClk <= Due[a] /\ nextClk \in Nat
      BY <3>1, DueDomain, AlarmAssumption
      DEF IInv, TypeOK, NextIsEarliest, Clock
    <3> QED BY <1>10, <3>2 DEF Execute, IInv, TypeOK
  <2>2. Agenda!Execute
    BY <1>10, <2>1, SameAgenda, DueDomain
    DEF Execute, Agenda!Execute, Agenda!Pending, ctx
  <2> QED BY <2>2 DEF Agenda!Next
<1>11. CASE UNCHANGED vars
  BY <1>11, SameAgenda DEF vars, Agenda!vars
<1> QED BY <1>1, <1>2, <1>3, <1>4, <1>5, <1>6, <1>7, <1>8, <1>9, <1>10, <1>11
        DEF Next, Use

\* The pending array implements the agenda: no instruction starts while an
\* alarm is due, and each dispatch takes an earliest alarm with its true
\* lateness, for any number of alarms.
THEOREM AlarmImplementsAgenda == Spec => ImplementsAgenda
  BY Consistent, InitMaps, NextMaps, PTL
  DEF Spec, ImplementsAgenda, Agenda!Spec
=============================================================================
