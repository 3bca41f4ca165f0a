-------------------------- MODULE InterruptProofs --------------------------
(***************************************************************************)
(* Proofs about Interrupt for any number of sources and traps, wherever    *)
(* snapshots are saved and loaded: the line counters agree with the        *)
(* sources, the CPU sees the IRQ line as it is, a load that fails ends in  *)
(* a reset, the CPU is told of a trap triggered since the last load, and   *)
(* (when only the first trap of a batch triggers traps) traps are called   *)
(* in order, each once.                                                    *)
(***************************************************************************)
EXTENDS Interrupt, FiniteSetTheorems, TLAPS

-----------------------------------------------------------------------------
(* The lines.                                                              *)

\* A saved snapshot is itself consistent and has a visible IRQ line, or it is of
\* a machine that is about to be reset.
SavedAgrees ==
  saved # NoSnapshot =>
    /\ saved.origin = "whole" =>
         /\ saved.nirq = Cardinality(saved.irq)
         /\ saved.nnmi = Cardinality(saved.nmi)
         /\ "IRQ" \in saved.global => saved.nirq > 0
         /\ saved.nirq > 0 => "IRQ" \in saved.global \/ saved.deaf
    /\ saved.origin = "half" => "RESET" \in saved.global

\* IrqVisible, with the phases in which a reset is still to be served.
IrqSeen ==
  origin = "whole" =>
    /\ "IRQ" \in global => nirq > 0
    /\ nirq > 0 => \/ "IRQ" \in global
                   \/ jammed \/ deaf
                   \/ /\ "RESET" \in ik
                      /\ pc \in {"serve", "vector", "traps", "trapfn", "reset"}

LineInv ==
  LineTypeOK /\ CountsAgree /\ IrqSeen /\ SavedAgrees /\ FailedLoadResets

\* Counting the sources of a line.
LEMMA SourceCount ==
  ASSUME NEW S \in SUBSET Source
  PROVE  /\ Cardinality(S) \in Nat
         /\ \A s \in Source \ S : Cardinality(S \cup {s}) = Cardinality(S) + 1
         /\ \A s \in S : Cardinality(S \ {s}) = Cardinality(S) - 1
<1>1. IsFiniteSet(S)
  BY InterruptAssumption, FS_Subset
<1> QED BY <1>1, FS_CardinalityType, FS_AddElement, FS_RemoveElement

LEMMA LineInit == Init => LineInv
<1> SUFFICES ASSUME Init PROVE LineInv
  OBVIOUS
<1>1. LineTypeOK
  BY DEF Init, LineTypeOK, Flag, Origin
<1>2. CountsAgree
  BY FS_EmptySet DEF Init, CountsAgree
<1>3. IrqSeen /\ SavedAgrees /\ FailedLoadResets
  BY DEF Init, IrqSeen, SavedAgrees, FailedLoadResets
<1> QED BY <1>1, <1>2, <1>3 DEF LineInv

\* Steps that change the lines.
LEMMA AssertReleaseKeep ==
  ASSUME LineInv, SetLine PROVE LineInv'
<1> USE DEF LineInv
<1>0. PICK s \in Source :
        AssertIrq(s) \/ ReleaseIrq(s) \/ AssertNmi(s) \/ ReleaseNmi(s)
  BY DEF SetLine
<1>1. UNCHANGED <<flow, disk>>
  BY DEF SetLine
<1>2. SavedAgrees' /\ FailedLoadResets'
  <2>1. "RESET" \in global => "RESET" \in global'
    BY <1>0 DEF AssertIrq, ReleaseIrq, AssertNmi, ReleaseNmi
  <2> QED BY <1>1, <2>1 DEF SavedAgrees, FailedLoadResets, disk
<1>3. LineTypeOK'
  <2>1. /\ pendingIrq' \subseteq Source /\ pendingNmi' \subseteq Source
        /\ nirq' \in Nat /\ nnmi' \in Nat
    BY <1>0 DEF LineTypeOK, AssertIrq, ReleaseIrq, AssertNmi, ReleaseNmi
  <2>2. global' \subseteq Flag
    BY <1>0 DEF LineTypeOK, AssertIrq, ReleaseIrq, AssertNmi, ReleaseNmi, Flag
  <2>3. nmiDue' \in BOOLEAN /\ irqPend' \in {"max", "ahead", "passed"}
    BY <1>0 DEF LineTypeOK, AssertIrq, ReleaseIrq, AssertNmi, ReleaseNmi
  <2> QED BY <1>1, <2>1, <2>2, <2>3 DEF LineTypeOK, flow, disk
<1>4. CountsAgree'
  <2>1. UNCHANGED origin
    BY <1>1 DEF disk
  <2> QED BY <1>0, <2>1, SourceCount
          DEF LineTypeOK, CountsAgree, AssertIrq, ReleaseIrq, AssertNmi, ReleaseNmi
<1>5. IrqSeen'
  <2>1. UNCHANGED <<pc, ik, jammed, origin, deaf>>
    BY <1>1 DEF flow, disk
  <2>2. CASE AssertIrq(s)
    <3>1. nirq' = nirq + 1 /\ nirq' > 0
      BY <2>2 DEF AssertIrq, LineTypeOK
    <3>2. CASE nirq = 0
      BY <2>2, <3>1, <3>2 DEF AssertIrq, IrqSeen
    <3>3. CASE nirq > 0
      BY <2>1, <2>2, <3>1, <3>3 DEF AssertIrq, IrqSeen
    <3> QED BY <3>2, <3>3 DEF LineTypeOK
  <2>3. CASE ReleaseIrq(s)
    <3>1. CASE nirq = 1
      <4>1. ~ (nirq' > 0) /\ "IRQ" \notin global'
        BY <2>3, <3>1 DEF ReleaseIrq
      <4> QED BY <4>1 DEF IrqSeen
    <3>2. CASE nirq > 1
      <4>1. nirq' > 0 /\ UNCHANGED global
        BY <2>3, <3>2 DEF ReleaseIrq, LineTypeOK
      <4> QED BY <2>1, <3>2, <4>1 DEF IrqSeen, LineTypeOK
    <3> QED BY <2>3, <3>1, <3>2 DEF ReleaseIrq, LineTypeOK
  <2>4. CASE AssertNmi(s) \/ ReleaseNmi(s)
    <3>1. nirq' = nirq /\ ("IRQ" \in global' <=> "IRQ" \in global)
      BY <2>4 DEF AssertNmi, ReleaseNmi
    <3> QED BY <2>1, <3>1 DEF IrqSeen
  <2> QED BY <1>0, <2>2, <2>3, <2>4
<1> QED BY <1>2, <1>3, <1>4, <1>5

\* A step that leaves the sources, the counters and the snapshot alone, shows the
\* CPU the same IRQ line, or one it may ignore, and keeps a reset it is to serve.
LEMMA SameLines ==
  ASSUME LineInv, LineTypeOK',
         UNCHANGED <<pendingIrq, pendingNmi, nirq, nnmi, saved, origin, deaf>>,
         "IRQ" \in global' => "IRQ" \in global,
         "RESET" \in global => "RESET" \in global',
         origin = "whole" /\ nirq > 0 /\ "IRQ" \notin global' =>
           \/ jammed' \/ deaf
           \/ /\ "RESET" \in ik'
              /\ pc' \in {"serve", "vector", "traps", "trapfn", "reset"}
  PROVE  LineInv'
<1>1. CountsAgree' /\ SavedAgrees' /\ FailedLoadResets'
  BY DEF LineInv, CountsAgree, SavedAgrees, FailedLoadResets
<1>2. IrqSeen'
  BY Zenon DEF LineInv, IrqSeen
<1> QED BY <1>1, <1>2 DEF LineInv

\* cpu_reset() drops everything.
LEMMA ResetKeeps ==
  ASSUME LineInv, Reset, LineTypeOK'
  PROVE  LineInv'
<1>1. CountsAgree'
  BY FS_EmptySet DEF Reset, CountsAgree
<1>2. IrqSeen' /\ FailedLoadResets'
  BY DEF Reset, IrqSeen, FailedLoadResets
<1>3. SavedAgrees'
  BY DEF Reset, LineInv, SavedAgrees
<1> QED BY <1>1, <1>2, <1>3 DEF LineInv

\* What the modules of chips leave has the right types, whichever were read.
LEMMA ReadTypes ==
  ASSUME LineInv, saved # NoSnapshot, NEW chips \in SUBSET Source, ChipsRead(chips)
  PROVE  /\ pendingIrq' \subseteq Source /\ pendingNmi' \subseteq Source
         /\ nirq' \in Nat /\ nnmi' \in Nat
         /\ FlagsRead(chips) \subseteq Flag
<1>1. saved \in Snapshot
  BY DEF LineInv, LineTypeOK
<1>2. saved.irq \cap chips \cap Pullers \in SUBSET Source
  BY InterruptAssumption
<1>3. Cardinality(saved.irq \cap chips \cap Pullers) \in Nat
  BY <1>2, SourceCount
<1>4. FlagsRead(chips) \subseteq Flag
  BY <1>1 DEF FlagsRead, Snapshot, Flag
<1> QED BY <1>1, <1>2, <1>3, <1>4, InterruptAssumption DEF ChipsRead, Snapshot

LEMMA SaveKeeps ==
  ASSUME LineInv, SaveSnapshot
  PROVE  LineInv'
<1> USE DEF LineInv
<1>1. UNCHANGED <<lines, global, traps, flow, origin, deaf>>
  BY DEF SaveSnapshot
<1>2. saved' = [irq |-> pendingIrq, nmi |-> pendingNmi, nirq |-> nirq,
                nnmi |-> nnmi, global |-> global, origin |-> origin,
                deaf |-> jammed \/ deaf \/ "RESET" \in ik]
  BY DEF SaveSnapshot
<1>3. saved' \in Snapshot
  BY <1>2 DEF LineTypeOK, Snapshot
<1>4. LineTypeOK'
  BY <1>1, <1>3 DEF LineTypeOK, lines, flow
<1>5. saved'.origin = "whole" =>
        /\ saved'.nirq = Cardinality(saved'.irq)
        /\ saved'.nnmi = Cardinality(saved'.nmi)
  BY <1>2 DEF CountsAgree
<1>6. saved'.origin = "whole" =>
        /\ "IRQ" \in saved'.global => saved'.nirq > 0
        /\ saved'.nirq > 0 => "IRQ" \in saved'.global \/ saved'.deaf
  BY <1>2 DEF IrqSeen
<1>7. saved'.origin = "half" => "RESET" \in saved'.global
  BY <1>2 DEF FailedLoadResets
<1>8. CountsAgree' /\ FailedLoadResets'
  BY <1>1 DEF CountsAgree, FailedLoadResets, lines
<1>9. IrqSeen'
  BY <1>1 DEF IrqSeen, lines, flow
<1> QED BY <1>4, <1>5, <1>6, <1>7, <1>8, <1>9 DEF SavedAgrees

\* A snapshot that is read whole brings its own agreement when every source it
\* holds restores its line; else the lines are "parts".
LEMMA LoadKeeps ==
  ASSUME LineInv, LoadSnapshot
  PROVE  LineInv'
<1> USE DEF LineInv
<1>1. saved # NoSnapshot /\ saved \in Snapshot
  BY DEF LoadSnapshot, LineTypeOK
<1>2. /\ ChipsRead(Source) /\ global' = FlagsRead(Source)
      /\ origin' = IF saved.origin = "whole"
                      /\ ~ saved.irq \cup saved.nmi \subseteq Restores
                     THEN "parts" ELSE saved.origin
      /\ deaf' = saved.deaf
  BY DEF LoadSnapshot
<1>3. /\ UNCHANGED <<pc, ik, jammed, saved>> /\ forNmi' = FALSE
      /\ irqPend' \in {"max", "ahead", "passed"} /\ nmiDue' \in BOOLEAN
  BY DEF LoadSnapshot, Overwritten, LineTypeOK
<1>4. LineTypeOK'
  <2>1. /\ pendingIrq' \subseteq Source /\ pendingNmi' \subseteq Source
        /\ nirq' \in Nat /\ nnmi' \in Nat /\ global' \subseteq Flag
    BY <1>1, <1>2, ReadTypes
  <2>2. origin' \in Origin /\ deaf' \in BOOLEAN
    BY <1>1, <1>2 DEF Snapshot, Origin
  <2> QED BY <1>3, <2>1, <2>2 DEF LineTypeOK
<1>5. SavedAgrees'
  BY <1>3 DEF SavedAgrees
<1>6. ASSUME origin' = "whole"
      PROVE  /\ pendingIrq' = saved.irq /\ pendingNmi' = saved.nmi
             /\ nirq' = saved.nirq /\ nnmi' = saved.nnmi
             /\ global' = saved.global /\ saved.origin = "whole"
  <2>1. saved.origin = "whole" /\ saved.irq \cup saved.nmi \subseteq Restores
    BY <1>2, <1>6
  <2>2. saved.irq \cap Source \cap Pullers = {}
    BY <2>1, InterruptAssumption
  <2>3. Cardinality(saved.irq \cap Source \cap Pullers) = 0 /\ saved.nirq \in Nat
    BY <1>1, <2>2, FS_EmptySet DEF Snapshot
  <2>4. (saved.irq \cap Source \cap Restores) \cup {} = saved.irq
        /\ saved.nmi \cap Source \cap Restores = saved.nmi
    BY <1>1, <2>1 DEF Snapshot
  <2>5. global' = saved.global
    BY <1>2, <2>2 DEF FlagsRead
  <2> QED BY <1>2, <2>1, <2>2, <2>3, <2>4, <2>5 DEF ChipsRead
<1>7. CountsAgree'
  BY <1>1, <1>6 DEF CountsAgree, SavedAgrees
<1>8. IrqSeen'
  BY <1>1, <1>2, <1>6 DEF IrqSeen, SavedAgrees
<1>9. FailedLoadResets'
  <2>1. origin' = "half" => saved.origin = "half"
    BY <1>2
  <2> QED BY <1>1, <1>2, <2>1 DEF FailedLoadResets, SavedAgrees, FlagsRead
<1> QED BY <1>4, <1>5, <1>7, <1>8, <1>9

\* A load that fails leaves the machine as it was, or with a reset to serve.
LEMMA FailureKeeps ==
  ASSUME LineInv, LoadFails
  PROVE  LineInv'
<1> USE DEF LineInv
<1>1. CASE global' = global \cup {"RESET"} /\ UNCHANGED <<lines, traps, flow, disk>>
  <2>1. LineTypeOK'
    BY <1>1 DEF LineTypeOK, Flag, lines, flow, disk
  <2> QED BY <1>1, <2>1, SameLines DEF IrqSeen, lines, flow, disk
<1>2. CASE saved # NoSnapshot /\ origin' = "half" /\ UNCHANGED deaf /\ Overwritten
           /\ "RESET" \in global' /\ global' \subseteq Flag
           /\ pendingIrq' \subseteq Source /\ pendingNmi' \subseteq Source
           /\ nirq' \in Nat /\ nnmi' \in Nat
  <2>1. LineTypeOK'
    BY <1>2 DEF Overwritten, LineTypeOK, Origin
  <2>2. SavedAgrees'
    BY <1>2 DEF Overwritten, SavedAgrees
  <2>3. CountsAgree' /\ IrqSeen' /\ FailedLoadResets'
    BY <1>2 DEF CountsAgree, IrqSeen, FailedLoadResets
  <2> QED BY <2>1, <2>2, <2>3
<1>3. ASSUME saved # NoSnapshot, origin' = "half", UNCHANGED deaf, Overwritten,
             NEW chips \in SUBSET Source,
             ChipsRead(chips), global' = FlagsRead(chips) \cup {"RESET"}
      PROVE  LineInv'
  <2>1. global' \subseteq Flag /\ "RESET" \in global'
    BY <1>3, ReadTypes DEF Flag
  <2> QED BY <1>2, <1>3, <2>1, ReadTypes
<1>4. ASSUME saved # NoSnapshot, origin' = "half", UNCHANGED deaf, Overwritten,
             NEW read \in 0 .. 2,
             pendingIrq' = {}, pendingNmi' = {},
             nirq' = IF read >= 1 THEN saved.nirq ELSE 0,
             nnmi' = IF read = 2 THEN saved.nnmi ELSE 0,
             global' = {"RESET"}
      PROVE  LineInv'
  <2>1. saved \in Snapshot
    BY <1>4 DEF LineTypeOK
  <2>2. nirq' \in Nat /\ nnmi' \in Nat
    BY <1>4, <2>1 DEF Snapshot
  <2>3. global' \subseteq Flag /\ "RESET" \in global'
    BY <1>4 DEF Flag
  <2> QED BY <1>2, <1>4, <2>2, <2>3
<1> QED BY <1>1, <1>3, <1>4 DEF LoadFails

LEMMA LineNext == LineInv /\ [Next]_vars => LineInv'
<1> SUFFICES ASSUME LineInv, [Next]_vars PROVE LineInv'
  OBVIOUS
<1> USE DEF LineInv
<1>1. CASE SetLine
  BY <1>1, AssertReleaseKeep
<1>2. CASE SaveSnapshot \/ LoadSnapshot \/ LoadFails
  BY <1>2, SaveKeeps, LoadKeeps, FailureKeeps
<1>3. CASE SetFlag
  <2>1. UNCHANGED <<lines, flow, disk>>
    BY <1>3 DEF SetFlag
  <2>2. PICK f \in {"RESET", "DMA", "MONITOR"} :
          global' = global \cup {f} \/ global' = global \ {"MONITOR"}
    BY <1>3, InterruptAssumption DEF SetFlag
  <2>3. /\ global' \subseteq Flag
        /\ "IRQ" \in global' <=> "IRQ" \in global
        /\ "RESET" \in global => "RESET" \in global'
    BY <2>2 DEF LineTypeOK, Flag
  <2>4. LineTypeOK'
    BY <2>1, <2>3 DEF LineTypeOK, lines, disk, flow
  <2> QED BY <2>1, <2>3, <2>4, SameLines DEF IrqSeen, lines, disk, flow
<1>4. CASE TriggerTrap
  <2>1. LineTypeOK'
    BY <1>4 DEF TriggerTrap, LineTypeOK, Flag, lines, disk, flow
  <2>2. UNCHANGED <<pendingIrq, pendingNmi, nirq, nnmi, saved, origin, deaf>>
    BY <1>4 DEF TriggerTrap, lines, disk
  <2> QED BY <1>4, <2>1, <2>2, SameLines
          DEF TriggerTrap, LineInv, IrqSeen, flow
<1>5. CASE EndInstruction
  <2> DEFINE flagged == "NMI" \in global
  <2>0. nmiDue' \in BOOLEAN
    <3>1. nmiDue' = nmiDue \/ nmiDue' = flagged
      BY <1>5 DEF EndInstruction, Elapse
    <3>2. nmiDue \in BOOLEAN /\ flagged \in BOOLEAN
      BY DEF LineTypeOK
    <3> HIDE DEF flagged
    <3> QED BY <3>1, <3>2
  <2>1. LineTypeOK'
    BY <1>5, <2>0 DEF EndInstruction, LineTypeOK, Flag, lines, disk, flow, Elapse
  <2>2. UNCHANGED <<pendingIrq, pendingNmi, nirq, nnmi, saved, origin, deaf>>
    BY <1>5 DEF EndInstruction, lines, disk, Elapse
  <2> QED BY <1>5, <2>1, <2>2, SameLines
          DEF EndInstruction, LineInv, IrqSeen, flow
<1>6. CASE Jam
  <2>1. LineTypeOK'
    BY <1>6 DEF Jam, LineTypeOK, Flag, lines, disk, flow
  <2>2. UNCHANGED <<pendingIrq, pendingNmi, nirq, nnmi, saved, origin, deaf>>
    BY <1>6 DEF Jam, lines, disk
  <2> QED BY <1>6, <2>1, <2>2, SameLines
          DEF Jam, LineInv, IrqSeen, flow
<1>7. CASE JamContinue
  <2>1. LineTypeOK'
    BY <1>7 DEF JamContinue, LineTypeOK, Flag, lines, disk, flow
  <2>2. UNCHANGED <<pendingIrq, pendingNmi, nirq, nnmi, saved, origin, deaf>>
    BY <1>7 DEF JamContinue, lines, disk
  <2> QED BY <1>7, <2>1, <2>2, SameLines
          DEF JamContinue, LineInv, IrqSeen, flow
<1>8. CASE JamReset
  <2>1. LineTypeOK'
    BY <1>8 DEF JamReset, Reset, LineTypeOK, Flag, Origin
  <2> QED BY <1>8, <2>1, ResetKeeps DEF JamReset
<1>9. CASE LoopTail
  <2>1. LineTypeOK'
    BY <1>9 DEF LoopTail, LineTypeOK, Flag, lines, disk, flow
  <2>2. UNCHANGED <<pendingIrq, pendingNmi, nirq, nnmi, saved, origin, deaf>>
    BY <1>9 DEF LoopTail, lines, disk
  <2> QED BY <1>9, <2>1, <2>2, SameLines
          DEF LoopTail, LineInv, IrqSeen, flow
<1>10. CASE Serve
  <2>1. LineTypeOK'
    BY <1>10 DEF Serve, LineTypeOK, Flag, lines, disk, flow
  <2>2. UNCHANGED <<pendingIrq, pendingNmi, nirq, nnmi, saved, origin, deaf>>
    BY <1>10 DEF Serve, lines, disk
  <2> QED BY <1>10, <2>1, <2>2, SameLines
          DEF Serve, LineInv, IrqSeen, flow
<1>11. CASE TakeVector
  <2>1. LineTypeOK'
    BY <1>11 DEF TakeVector, LineTypeOK, Flag, lines, disk, flow
  <2>2. UNCHANGED <<pendingIrq, pendingNmi, nirq, nnmi, saved, origin, deaf>>
    BY <1>11 DEF TakeVector, lines, disk
  <2> QED BY <1>11, <2>1, <2>2, SameLines
          DEF TakeVector, LineInv, IrqSeen, flow
<1>12. CASE CallTrap
  <2>1. LineTypeOK'
    BY <1>12 DEF CallTrap, LineTypeOK, Flag, lines, disk, flow
  <2>2. UNCHANGED <<pendingIrq, pendingNmi, nirq, nnmi, saved, origin, deaf>>
    BY <1>12 DEF CallTrap, lines, disk
  <2> QED BY <1>12, <2>1, <2>2, SameLines
          DEF CallTrap, LineInv, IrqSeen, flow
<1>13. CASE TrapReturns
  <2>1. LineTypeOK'
    BY <1>13 DEF TrapReturns, LineTypeOK, Flag, lines, disk, flow
  <2>2. UNCHANGED <<pendingIrq, pendingNmi, nirq, nnmi, saved, origin, deaf>>
    BY <1>13 DEF TrapReturns, lines, disk
  <2> QED BY <1>13, <2>1, <2>2, SameLines
          DEF TrapReturns, LineInv, IrqSeen, flow
<1>14. CASE EndTraps
  <2>1. LineTypeOK'
    BY <1>14 DEF EndTraps, LineTypeOK, Flag, lines, disk, flow
  <2>2. UNCHANGED <<pendingIrq, pendingNmi, nirq, nnmi, saved, origin, deaf>>
    BY <1>14 DEF EndTraps, lines, disk
  <2> QED BY <1>14, <2>1, <2>2, SameLines
          DEF EndTraps, LineInv, IrqSeen, flow
<1>15. CASE NoTraps
  <2>1. LineTypeOK'
    BY <1>15 DEF NoTraps, LineTypeOK, Flag, lines, disk, flow
  <2>2. UNCHANGED <<pendingIrq, pendingNmi, nirq, nnmi, saved, origin, deaf>>
    BY <1>15 DEF NoTraps, lines, disk
  <2> QED BY <1>15, <2>1, <2>2, SameLines
          DEF NoTraps, LineInv, IrqSeen, flow
<1>16. CASE ServeReset
  <2>1. CASE "RESET" \in ik
    <3>1. Reset /\ UNCHANGED ik
      BY <1>16, <2>1 DEF ServeReset
    <3>2. pc' \in {"monitor", "end"}
      BY <1>16 DEF ServeReset
    <3>3. LineTypeOK'
      BY <3>1, <3>2 DEF Reset, LineTypeOK, Flag, Origin
    <3> QED BY <3>1, <3>3, ResetKeeps
  <2>2. CASE "RESET" \notin ik
    <3>1. UNCHANGED <<lines, global, forNmi, jammed, disk, ik>>
      BY <1>16, <2>2 DEF ServeReset
    <3>2. pc' \in {"monitor", "end"}
      BY <1>16 DEF ServeReset
    <3>3. LineTypeOK'
      BY <3>1, <3>2 DEF LineTypeOK, lines, disk
    <3> QED BY <2>2, <3>1, <3>3, SameLines DEF lines, disk, IrqSeen
  <2> QED BY <2>1, <2>2
<1>17. CASE EndMonitor
  <2>1. LineTypeOK'
    BY <1>17 DEF EndMonitor, LineTypeOK, Flag, lines, disk, flow
  <2>2. UNCHANGED <<pendingIrq, pendingNmi, nirq, nnmi, saved, origin, deaf>>
    BY <1>17 DEF EndMonitor, lines, disk
  <2> QED BY <1>17, <2>1, <2>2, SameLines
          DEF EndMonitor, LineInv, IrqSeen, flow
<1>18. CASE EndInterrupt
  <2>1. LineTypeOK'
    BY <1>18 DEF EndInterrupt, LineTypeOK, Flag, lines, disk, flow
  <2>2. UNCHANGED <<pendingIrq, pendingNmi, nirq, nnmi, saved, origin, deaf>>
    BY <1>18 DEF EndInterrupt, lines, disk
  <2> QED BY <1>18, <2>1, <2>2, SameLines
          DEF EndInterrupt, LineInv, IrqSeen, flow
<1>19. CASE UNCHANGED vars
  BY <1>19 DEF vars, lines, disk, traps, flow, LineTypeOK, CountsAgree, IrqSeen, SavedAgrees,
              FailedLoadResets, disk
<1> QED BY <1>1, <1>2, <1>3, <1>4, <1>5, <1>6, <1>7, <1>8, <1>9, <1>10, <1>11,
           <1>12, <1>13, <1>14, <1>15, <1>16, <1>17, <1>18, <1>19
        DEF Next, Device, Cpu

\* The inductive invariant of the lines.
THEOREM LinesConsistent == Spec => []LineInv
  BY LineInit, LineNext, PTL DEF Spec

\* The line counters equal the number of sources that pull the line, in a machine
\* that has run from its reset or come whole from a snapshot.
THEOREM CountsAlwaysAgree == Spec => []CountsAgree
<1>1. LineInv => CountsAgree
  BY DEF LineInv
<1> QED BY <1>1, LinesConsistent, PTL

\* The CPU of such a machine sees the IRQ line as the sources pull it.
THEOREM IrqAlwaysVisible == Spec => []IrqVisible
<1>1. LineInv => IrqVisible
  BY DEF LineInv, IrqSeen, IrqVisible
<1> QED BY <1>1, LinesConsistent, PTL

\* A load that fails half-way always ends in a reset of the machine.
THEOREM FailedLoadsReset == Spec => []FailedLoadResets
<1>1. LineInv => FailedLoadResets
  BY DEF LineInv
<1> QED BY <1>1, LinesConsistent, PTL

-----------------------------------------------------------------------------
(* The NMI edge.                                                           *)

NmiInv == NmiKept /\ (pc = "serve" => ik = global)

LEMMA NmiNext ==
  ASSUME NmiInv, [Next]_vars
  PROVE  NmiInv'
<1> USE DEF NmiInv, NmiKept
<1>1. CASE SetLine
  BY <1>1 DEF SetLine, Outside, flow,
              AssertIrq, ReleaseIrq, AssertNmi, ReleaseNmi
<1>2. CASE SetFlag \/ TriggerTrap
  BY <1>2, InterruptAssumption
  DEF SetFlag, TriggerTrap, Outside, lines, flow
<1>3. CASE SaveSnapshot \/ LoadSnapshot \/ LoadFails
  <2>1. pc # "serve"
    BY <1>3, InterruptAssumption DEF SaveSnapshot, LoadSnapshot, LoadFails
  <2>2. CASE UNCHANGED <<pc, forNmi, nmiDue>> /\ global \subseteq global'
    BY <2>1, <2>2
  <2>3. CASE UNCHANGED pc /\ forNmi' = FALSE
    BY <2>1, <2>3
  <2>4. SaveSnapshot => UNCHANGED <<pc, forNmi, nmiDue, global>>
    BY DEF SaveSnapshot, lines, flow
  <2>5. LoadSnapshot => UNCHANGED pc /\ forNmi' = FALSE
    BY DEF LoadSnapshot, Overwritten
  <2>6. LoadFails => \/ UNCHANGED <<pc, forNmi, nmiDue>> /\ global \subseteq global'
                     \/ UNCHANGED pc /\ forNmi' = FALSE
    BY DEF LoadFails, Overwritten, lines, flow
  <2> QED BY <1>3, <2>2, <2>3, <2>4, <2>5, <2>6
<1>4. CASE LoopTail
  BY <1>4 DEF LoopTail
<1>5. CASE Serve
  BY <1>5 DEF Serve, lines
<1>6. CASE Cpu /\ ~ LoopTail /\ ~ Serve
  BY <1>6 DEF Cpu, EndInstruction, Jam, JamContinue, JamReset, TakeVector,
              CallTrap, TrapReturns, EndTraps, NoTraps, ServeReset, EndMonitor,
              EndInterrupt
<1>7. CASE UNCHANGED vars
  BY <1>7 DEF vars, lines, flow
<1> QED BY <1>1, <1>2, <1>3, <1>4, <1>5, <1>6, <1>7 DEF Next, Device

\* An interrupt sequence begun for an NMI always takes the NMI vector, unless
\* another machine is loaded in the middle of it.
THEOREM NmiAlwaysKept == Spec => []NmiKept
<1>1. Init => NmiInv
  BY DEF Init, NmiInv, NmiKept
<1>2. NmiInv /\ [Next]_vars => NmiInv'
  BY NmiNext
<1>3. NmiInv => NmiKept
  BY DEF NmiInv
<1> QED BY <1>1, <1>2, <1>3, PTL DEF Spec

-----------------------------------------------------------------------------
(* The trap queue.                                                         *)

Called == IF pc = "trapfn" THEN 1 ELSE 0

\* The end of the array in use, and where the running batch stands in it.
TrapShape ==
  /\ lastRun <= triggered
  /\ trapsNext - done + trapsCount <= Len(trapFunc)
  /\ pc \in {"traps", "trapfn"} => done + Called <= batch /\ batch <= trapsCount
  /\ pc \notin {"traps", "trapfn"} => done = 0
  /\ done + Called > 0 => "TRAP" \in ik

TrapInv == TrapTypeOK /\ TrapShape /\ TrapsInOrder

LEMMA TrapInit == Init => TrapInv
<1> SUFFICES ASSUME Init PROVE TrapInv
  OBVIOUS
<1> USE DEF Init
<1>1. TrapTypeOK
  BY DEF TrapTypeOK
<1>2. TrapsInOrder
  <2>1. triggered - lastRun = 0 /\ trapsCount - done - 0 = 0 /\ pc # "trapfn"
    OBVIOUS
  <2> QED BY <2>1 DEF TrapsInOrder
<1>3. TrapShape
  BY DEF TrapShape, Called
<1> QED BY <1>1, <1>2, <1>3 DEF TrapInv

\* interrupt_maincpu_trigger_trap(), called by the first trap of a batch or
\* outside of traps, writes the slot behind the last waiting trap.
LEMMA TriggerTrapKeeps ==
  ASSUME NestingTraps \subseteq {0}, TrapInv, TriggerTrap
  PROVE  TrapInv'
<1> USE DEF TrapInv
<1> DEFINE index == trapsNext + trapsCount + 1
           size == IF index > Len(trapFunc) THEN index ELSE Len(trapFunc)
<1>1. done = 0
  BY DEF TriggerTrap, Outside, TrapShape
<1>2. UNCHANGED <<pc, batch, done, trapsNext, lastRun, ik, loadedAt>>
  BY DEF TriggerTrap, flow, disk
<1>3. /\ index \in Nat \ {0} /\ index <= Len(trapFunc) + 1
      /\ size \in Nat /\ index <= size /\ Len(trapFunc) <= size
  BY <1>1 DEF TrapTypeOK, TrapShape
<1>4. trapFunc' = [i \in 1 .. size |->
                    IF i = index THEN triggered + 1
                    ELSE IF i <= Len(trapFunc) THEN trapFunc[i] ELSE 0]
  BY DEF TriggerTrap
<1>5. trapFunc' \in Seq(Nat) /\ Len(trapFunc') = size
  <2>1. \A i \in 1 .. size : trapFunc'[i] \in Nat
    BY <1>4 DEF TrapTypeOK
  <2> HIDE DEF size
  <2>2. trapFunc' \in [1 .. size -> Nat]
    BY <1>4, <2>1
  <2> QED BY <1>3, <2>2
<1>6. trapsCount' = trapsCount + 1 /\ triggered' = triggered + 1
  BY DEF TriggerTrap
<1>7. TrapTypeOK'
  BY <1>2, <1>5, <1>6 DEF TrapTypeOK
<1>8. TrapShape'
  BY <1>1, <1>2, <1>3, <1>5, <1>6 DEF TrapShape, TrapTypeOK, Called
<1>9. TrapsInOrder'
  <2>1. triggered - lastRun = trapsCount - Called
    BY <1>1 DEF TrapsInOrder, Called, TrapTypeOK
  <2>2. (triggered - lastRun)' = triggered - lastRun + 1 /\ Called' = Called
    BY <1>2, <1>6 DEF TrapTypeOK, Called
  <2>3. ASSUME NEW k \in 1 .. (triggered - lastRun + 1)
        PROVE  trapFunc'[trapsNext + Called + k] = lastRun + k
    <3> DEFINE j == trapsNext + Called + k
    <3>1. j \in 1 .. size /\ j <= index
      BY <1>3, <2>1 DEF TrapTypeOK, Called
    <3>2. CASE k = triggered - lastRun + 1
      <4>1. j = index /\ lastRun + k = triggered + 1
        BY <2>1, <3>2 DEF TrapTypeOK, Called
      <4> HIDE DEF size, index, j
      <4> QED BY <1>4, <3>1, <4>1 DEF j
    <3>3. CASE k \in 1 .. (triggered - lastRun)
      <4>1. j # index /\ j <= Len(trapFunc)
        BY <1>1, <2>1, <3>3 DEF TrapTypeOK, TrapShape, Called
      <4>2. trapFunc[j] = lastRun + k
        BY <3>3 DEF TrapsInOrder, Called
      <4> HIDE DEF size, index, j
      <4>3. trapFunc'[j] = trapFunc[j]
        BY <1>4, <3>1, <4>1
      <4> QED BY <4>2, <4>3 DEF j
    <3> QED BY <3>2, <3>3 DEF TrapTypeOK, TrapShape
  <2> QED BY <1>1, <1>2, <1>6, <2>1, <2>2, <2>3
          DEF TrapsInOrder, Called, TrapTypeOK
<1> QED BY <1>7, <1>8, <1>9

LEMMA TrapNext ==
  ASSUME NestingTraps \subseteq {0}, TrapInv, [Next]_vars
  PROVE  TrapInv'
<1> USE DEF TrapInv
<1>0. loadedAt' \in Nat
  <2>1. CASE Cpu \/ TriggerTrap
    BY <2>1 DEF TriggerTrap, Cpu, EndInstruction, Jam, JamContinue, JamReset,
           LoopTail, Serve, TakeVector, CallTrap, TrapReturns, EndTraps, NoTraps,
           ServeReset, EndMonitor, EndInterrupt, Reset, disk, TrapTypeOK
  <2>2. CASE SetLine \/ SetFlag \/ SaveSnapshot \/ LoadSnapshot \/ LoadFails
             \/ UNCHANGED vars
    BY <2>2 DEF SetLine, SetFlag, SaveSnapshot, LoadSnapshot, LoadFails,
                Overwritten, disk, vars, TrapTypeOK
  <2> QED BY <2>1, <2>2 DEF Next, Device
<1> USE <1>0
<1>1. CASE TriggerTrap
  BY <1>1, TriggerTrapKeeps
<1>2. CASE SetLine \/ SetFlag \/ SaveSnapshot \/ LoadSnapshot \/ LoadFails
           \/ UNCHANGED vars
  <2>1. UNCHANGED <<traps, pc, ik, batch, done>>
    BY <1>2 DEF SetLine, SetFlag, SaveSnapshot, LoadSnapshot, LoadFails,
                Overwritten, flow, vars
  <2> QED BY <2>1 DEF traps, TrapTypeOK, TrapShape, TrapsInOrder, Called
<1>3. CASE EndInstruction \/ Jam \/ JamContinue \/ LoopTail
           \/ EndMonitor \/ EndInterrupt
  <2>1. /\ UNCHANGED <<traps, batch, done>>
        /\ pc \notin {"traps", "trapfn"} /\ pc' \notin {"traps", "trapfn"}
    BY <1>3 DEF EndInstruction, Jam, JamContinue, LoopTail, EndMonitor,
                EndInterrupt
  <2> QED BY <2>1 DEF traps, TrapTypeOK, TrapShape, TrapsInOrder, Called
<1>4. CASE Serve \/ TakeVector
  <2>1. /\ UNCHANGED <<traps, done>> /\ batch' = trapsCount
        /\ pc \notin {"traps", "trapfn"} /\ pc' \in {"vector", "traps"}
    BY <1>4 DEF Serve, TakeVector
  <2>2. TrapTypeOK'
    BY <2>1 DEF traps, TrapTypeOK
  <2>3. TrapShape'
    BY <2>1 DEF traps, TrapTypeOK, TrapShape, Called
  <2>4. TrapsInOrder'
    BY <2>1 DEF traps, TrapTypeOK, TrapShape, TrapsInOrder, Called
  <2> QED BY <2>2, <2>3, <2>4
<1>5. CASE CallTrap
  <2>1. /\ pc = "traps" /\ pc' = "trapfn" /\ done < batch /\ "TRAP" \in ik
        /\ lastRun' = trapFunc[trapsNext + 1]
        /\ UNCHANGED <<trapFunc, trapsNext, trapsCount, triggered, batch, done,
                       ik>>
    BY <1>5 DEF CallTrap
  <2>2. lastRun' = lastRun + 1
    BY <2>1 DEF TrapsInOrder, TrapTypeOK, TrapShape, Called
  <2>3. TrapTypeOK' /\ TrapShape'
    BY <2>1, <2>2 DEF TrapTypeOK, TrapShape, TrapsInOrder, Called
  <2>4. TrapsInOrder'
    <3>1. (triggered - lastRun)' = triggered - lastRun - 1
      BY <2>1, <2>2 DEF TrapTypeOK
    <3>2. ASSUME NEW k \in 1 .. (triggered - lastRun - 1)
          PROVE  trapFunc[trapsNext + 1 + k] = lastRun + 1 + k
      <4>1. /\ k + 1 \in 1 .. (triggered - lastRun)
            /\ trapsNext + 0 + (k + 1) = trapsNext + 1 + k
            /\ lastRun + (k + 1) = lastRun + 1 + k
        BY DEF TrapTypeOK
      <4>2. trapFunc[trapsNext + 0 + (k + 1)] = lastRun + (k + 1)
        BY <2>1, <4>1 DEF TrapsInOrder
      <4> QED BY <4>1, <4>2
    <3> QED BY <2>1, <2>2, <3>1, <3>2 DEF TrapsInOrder, TrapTypeOK, Called
  <2> QED BY <2>3, <2>4
<1>6. CASE TrapReturns
  <2>1. /\ pc = "trapfn" /\ pc' = "traps"
        /\ trapsNext' = trapsNext + 1 /\ done' = done + 1
        /\ UNCHANGED <<trapFunc, trapsCount, triggered, lastRun, batch, ik>>
    BY <1>6 DEF TrapReturns
  <2>2. TrapTypeOK' /\ TrapShape'
    BY <2>1 DEF TrapTypeOK, TrapShape, Called
  <2>3. TrapsInOrder'
    BY <2>1 DEF TrapsInOrder, TrapTypeOK, Called
  <2> QED BY <2>2, <2>3
<1>7. CASE EndTraps
  <2>1. /\ pc = "traps" /\ pc' = "reset" /\ done = batch
        /\ done' = 0 /\ batch' = 0
        /\ UNCHANGED <<trapFunc, triggered, lastRun>>
        /\ \/ /\ trapsCount > batch /\ trapsCount' = trapsCount - batch
              /\ trapsNext' = trapsNext
           \/ /\ trapsCount <= batch /\ trapsCount' = 0 /\ trapsNext' = 0
    BY <1>7 DEF EndTraps, TrapTypeOK
  <2>2. TrapTypeOK'
    BY <2>1 DEF TrapTypeOK
  <2>3. TrapShape'
    BY <2>1 DEF TrapTypeOK, TrapShape, Called
  <2>4. CASE trapsCount > batch
    <3>1. trapsNext' = trapsNext /\ trapsCount' - done' = trapsCount - done
      BY <2>1, <2>4 DEF TrapTypeOK
    <3>2. TrapsInOrder'
      BY <2>1, <3>1 DEF TrapsInOrder, TrapTypeOK
    <3> QED BY <2>2, <2>3, <3>2
  <2>5. CASE trapsCount <= batch
    <3>1. triggered - lastRun = 0 /\ trapsCount' = 0
      BY <2>1, <2>5 DEF TrapsInOrder, TrapTypeOK, TrapShape, Called
    <3>2. TrapsInOrder'
      BY <2>1, <3>1 DEF TrapsInOrder, TrapTypeOK
    <3> QED BY <2>2, <2>3, <3>2
  <2> QED BY <2>1, <2>4, <2>5
<1>8. CASE NoTraps
  <2>1. /\ pc = "traps" /\ pc' = "reset" /\ batch' = 0 /\ "TRAP" \notin ik
        /\ UNCHANGED <<traps, done, ik>>
    BY <1>8 DEF NoTraps
  <2>2. TrapTypeOK'
    BY <2>1 DEF traps, TrapTypeOK
  <2>3. TrapShape'
    BY <2>1 DEF traps, TrapTypeOK, TrapShape, Called
  <2>4. TrapsInOrder'
    BY <2>1 DEF traps, TrapTypeOK, TrapShape, TrapsInOrder, Called
  <2> QED BY <2>2, <2>3, <2>4
<1>9. ASSUME Reset, pc \notin {"traps", "trapfn"}, pc' \notin {"traps", "trapfn"}
      PROVE  TrapInv'
  <2>1. /\ trapFunc' = <<>> /\ trapsNext' = 0 /\ trapsCount' = 0
        /\ lastRun' = triggered /\ UNCHANGED <<triggered, batch, done>>
    BY <1>9 DEF Reset
  <2>2. done = 0 /\ done \in Nat /\ triggered \in Nat /\ batch \in Nat
    BY <1>9 DEF TrapShape, TrapTypeOK
  <2>3. TrapTypeOK'
    BY <2>1, <2>2 DEF TrapTypeOK
  <2>4. TrapShape'
    BY <1>9, <2>1, <2>2 DEF TrapShape, Called
  <2>5. TrapsInOrder'
    <3>1. triggered' - lastRun' = 0 /\ trapsCount' - done' = 0
      BY <2>1, <2>2
    <3>2. pc' # "trapfn"
      BY <1>9
    <3> QED BY <3>1, <3>2 DEF TrapsInOrder
  <2> QED BY <2>3, <2>4, <2>5
<1>10. CASE JamReset
  BY <1>9, <1>10 DEF JamReset
<1>11. CASE ServeReset
  <2>1. pc = "reset" /\ pc' \in {"monitor", "end"}
    BY <1>11 DEF ServeReset
  <2>2. CASE "RESET" \in ik
    BY <1>9, <1>11, <2>1, <2>2 DEF ServeReset
  <2>3. CASE "RESET" \notin ik
    <3>1. UNCHANGED <<traps, batch, done>>
      BY <1>11, <2>3 DEF ServeReset
    <3>2. TrapTypeOK'
      BY <3>1 DEF traps, TrapTypeOK
    <3>3. TrapShape'
      BY <2>1, <3>1 DEF traps, TrapTypeOK, TrapShape, Called
    <3>4. TrapsInOrder'
      BY <2>1, <3>1 DEF traps, TrapTypeOK, TrapShape, TrapsInOrder, Called
    <3> QED BY <3>2, <3>3, <3>4
  <2> QED BY <2>2, <2>3
<1> QED BY <1>1, <1>2, <1>3, <1>4, <1>5, <1>6, <1>7, <1>8, <1>10, <1>11
        DEF Next, Device, Cpu

\* When only the first trap of a batch may trigger traps, the traps that wait
\* are always in the array, in order, and each is called once.
THEOREM TrapsAlwaysInOrder ==
  ASSUME NestingTraps \subseteq {0}
  PROVE  Spec => []TrapsInOrder
<1>1. TrapInv => TrapsInOrder
  BY DEF TrapInv
<1> QED BY <1>1, TrapInit, TrapNext, PTL DEF Spec

\* Type correctness of lines and traps.
THEOREM TypeCorrect ==
  ASSUME NestingTraps \subseteq {0}
  PROVE  Spec => []TypeOK
<1>1. LineInv /\ TrapInv => TypeOK
  BY DEF LineInv, TrapInv, TypeOK
<1> QED BY <1>1, LinesConsistent, TrapInit, TrapNext, PTL DEF Spec

-----------------------------------------------------------------------------
(* The flag of the trap queue.                                             *)

\* Traps that wait are flagged, unless the last load has overwritten the flag and
\* no trap has been triggered since.
FlagInv ==
  /\ trapsCount \in Nat /\ batch \in Nat
  /\ triggered \in Nat /\ loadedAt \in Nat /\ loadedAt <= triggered
  /\ trapsCount > 0 => "TRAP" \in global \/ loadedAt = triggered

LEMMA FlagNext ==
  ASSUME FlagInv, [Next]_vars
  PROVE  FlagInv'
<1> USE DEF FlagInv
<1>1. ASSUME UNCHANGED <<trapsCount, triggered, loadedAt>>, batch' \in Nat,
             "TRAP" \in global => "TRAP" \in global'
      PROVE  FlagInv'
  BY <1>1
<1>2. ASSUME trapsCount' = 0, UNCHANGED <<triggered, loadedAt>>, batch' \in Nat
      PROVE  FlagInv'
  BY <1>2
<1>3. CASE SetLine
  <2>1. "TRAP" \in global => "TRAP" \in global'
    BY <1>3 DEF SetLine, AssertIrq, ReleaseIrq, AssertNmi, ReleaseNmi
  <2> QED BY <1>1, <1>3, <2>1 DEF SetLine, traps, flow, disk
<1>4. CASE SetFlag
  BY <1>1, <1>4 DEF SetFlag, traps, flow, disk
<1>5. CASE TriggerTrap
  BY <1>5 DEF TriggerTrap, flow, disk
<1>6. CASE SaveSnapshot
  BY <1>1, <1>6 DEF SaveSnapshot, traps, flow
<1>7. CASE LoadSnapshot \/ LoadFails
  <2>1. CASE Overwritten
    BY <2>1 DEF Overwritten, traps
  <2>2. CASE UNCHANGED <<traps, flow, disk>> /\ global' = global \cup {"RESET"}
    BY <1>1, <2>2 DEF traps, flow, disk
  <2> QED BY <1>7, <2>1, <2>2 DEF LoadSnapshot, LoadFails
<1>8. CASE EndInstruction \/ Jam \/ JamContinue \/ LoopTail
           \/ EndMonitor \/ EndInterrupt
  BY <1>1, <1>8 DEF EndInstruction, Jam, JamContinue, LoopTail, EndMonitor,
                    EndInterrupt, traps, disk
<1>9. CASE Serve \/ TakeVector
  BY <1>1, <1>9 DEF Serve, TakeVector, traps, disk
<1>10. CASE CallTrap \/ TrapReturns \/ NoTraps
  BY <1>1, <1>10 DEF CallTrap, TrapReturns, NoTraps, traps, disk
<1>11. CASE EndTraps
  <2>1. /\ UNCHANGED <<triggered, loadedAt>> /\ batch' = 0
        /\ \/ /\ trapsCount > batch /\ trapsCount' = trapsCount - batch
              /\ global' = global
           \/ trapsCount' = 0
    BY <1>11 DEF EndTraps, disk
  <2> QED BY <1>2, <2>1
<1>12. CASE JamReset
  BY <1>2, <1>12 DEF JamReset, Reset
<1>13. CASE ServeReset
  <2>1. CASE "RESET" \in ik
    BY <1>2, <1>13, <2>1 DEF ServeReset, Reset
  <2>2. CASE "RESET" \notin ik
    BY <1>1, <1>13, <2>2 DEF ServeReset, traps, disk
  <2> QED BY <2>1, <2>2
<1>14. CASE UNCHANGED vars
  BY <1>1, <1>14 DEF vars, traps, flow, disk
<1> QED BY <1>3, <1>4, <1>5, <1>6, <1>7, <1>8, <1>9, <1>10, <1>11, <1>12,
           <1>13, <1>14
        DEF Next, Device, Cpu

\* Wherever snapshots are loaded, and whatever traps trigger: the CPU is told, at
\* the next instruction boundary, of a trap triggered since the last load, and so
\* of those whose flag that load has overwritten.
THEOREM TrapsAlwaysFlagged == Spec => []TrapFlagged
<1>1. Init => FlagInv
  BY DEF Init, FlagInv
<1>2. FlagInv /\ [Next]_vars => FlagInv'
  BY FlagNext
<1>3. FlagInv => TrapFlagged
  BY DEF FlagInv, TrapFlagged
<1> QED BY <1>1, <1>2, <1>3, PTL DEF Spec
=============================================================================
