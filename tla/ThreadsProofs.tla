---------------------------- MODULE ThreadsProofs ----------------------------
(***************************************************************************)
(* Proofs about main_lock, about the render queue, and of what is proved   *)
(* of them and of the pause for the threads together (MCThreads): each     *)
(* part's invariant is kept by its own steps, and by those of the others   *)
(* because they share no variable. Of the render queue: no back buffer is  *)
(* lost or used twice, every queued frame has a job that shows it, and the *)
(* picture never goes back, for every number of buffers and frames and     *)
(* however many jobs wait.                                                 *)
(***************************************************************************)
EXTENDS MCThreads, FiniteSetTheorems, SequenceTheorems, TLAPS

PP == INSTANCE PauseProofs

-----------------------------------------------------------------------------
(* The lock: mutual exclusion and the absence of lost wake-ups.              *)

\* The lock's owner is known from where the threads are.
Owners ==
  /\ mainLock = "vice" <=> vice \in {"run", "consider", "exit", "leave", "assert"}
  /\ mainLock = "ui" <=> ui = "locked" \/ (ui = "code" /\ depth > 0)

\* The flags that each thread reads of the other.
Flags ==
  /\ uiIsWaiting <=> ui \in {"waiting", "woken"}
  /\ isRunning <=> vice \notin {"start", "leave", "gone"}

\* mainlock_obtain() is entered at depth 0; the UI joins without the lock.
Nesting ==
  /\ ui # "code" => depth = 1
  /\ phase = "uiExit" /\ ui = "code" => depth = 0
  /\ phase \in {"shutdown", "join", "joined"} => ui = "code" /\ depth = 0

MainlockInv == TypeOK /\ Owners /\ Flags /\ Nesting /\ NoLostWakeup

LEMMA MainlockInit == Init => MainlockInv
<1> SUFFICES ASSUME Init PROVE MainlockInv
  OBVIOUS
<1>1. TypeOK
  <2>1. depth \in 0 .. MaxDepth
    BY MainlockAssumption DEF Init
  <2> QED BY <2>1, Zenon DEF Init, TypeOK
<1>2. Owners /\ Flags /\ Nesting /\ NoLostWakeup
  BY DEF Init, Owners, Flags, Nesting, NoLostWakeup
<1> QED BY <1>1, <1>2 DEF MainlockInv

\* Every step of the VICE thread keeps the invariant.
LEMMA ViceKeeps ==
  ASSUME MainlockInv, ViceStep \/ ViceChoice
  PROVE  MainlockInv'
<1> USE MainlockAssumption
    DEF MainlockInv, TypeOK, Owners, Flags, Nesting, NoLostWakeup
<1>1. CASE SetViceThread
  BY <1>1 DEF SetViceThread
<1>2. CASE FirstLock
  BY <1>2 DEF FirstLock
<1>3. CASE HandOver
  BY <1>3 DEF HandOver
<1>4. CASE YieldEnd
  BY <1>4 DEF YieldEnd
<1>5. CASE ConsiderExit
  BY <1>5 DEF ConsiderExit
<1>6. CASE Leave
  BY <1>6 DEF Leave
<1>7. CASE InitiateOnVice
  BY <1>7 DEF InitiateOnVice
<1>8. CASE YieldBegin
  BY <1>8 DEF YieldBegin
<1>9. CASE ViceExit
  BY <1>9 DEF ViceExit
<1>10. CASE ViceSpurious
  BY <1>10 DEF ViceSpurious
<1> QED BY <1>1, <1>2, <1>3, <1>4, <1>5, <1>6, <1>7, <1>8, <1>9, <1>10
        DEF ViceStep, ViceChoice

\* Every step of the UI thread keeps the invariant.
LEMMA UiKeeps ==
  ASSUME MainlockInv, UiStep
  PROVE  MainlockInv'
<1> USE MainlockAssumption
    DEF MainlockInv, TypeOK, Owners, Flags, Nesting, NoLostWakeup
<1>1. CASE Obtain
  BY <1>1 DEF Obtain
<1>2. CASE Wait
  BY <1>2 DEF Wait
<1>3. CASE UiSpurious
  BY <1>3 DEF UiSpurious
<1>4. CASE Awake
  BY <1>4 DEF Awake
<1>5. CASE Lock
  BY <1>5 DEF Lock
<1>6. CASE HasLock
  BY <1>6 DEF HasLock
<1>7. CASE Release
  BY <1>7 DEF Release
<1>8. CASE UiExit
  BY <1>8 DEF UiExit
<1>9. CASE ExitOnMainThread
  BY <1>9 DEF ExitOnMainThread
<1>10. CASE UiExitEnds
  BY <1>10 DEF UiExitEnds
<1>11. CASE InitiateOnUi
  BY <1>11 DEF InitiateOnUi
<1>12. CASE Join
  BY <1>12 DEF Join
<1> QED BY <1>1, <1>2, <1>3, <1>4, <1>5, <1>6, <1>7, <1>8, <1>9, <1>10, <1>11,
           <1>12 DEF UiStep

\* Every step of the lock keeps the invariant.
LEMMA MainlockNext == MainlockInv /\ [Next]_vars => MainlockInv'
<1> SUFFICES ASSUME MainlockInv, [Next]_vars PROVE MainlockInv'
  OBVIOUS
<1>1. CASE Next
  BY <1>1, ViceKeeps, UiKeeps DEF Next
<1>2. CASE UNCHANGED vars
  BY <1>2 DEF vars, MainlockInv, TypeOK, Owners, Flags, Nesting, NoLostWakeup
<1> QED BY <1>1, <1>2

\* What it says.
LEMMA MainlockSafe == MainlockInv => TypeOK /\ Exclusive /\ NoLostWakeup
BY DEF MainlockInv, Owners, Exclusive

\* Type correctness of the lock, for handlers nested to any depth.
THEOREM LockTypes == Spec => []TypeOK
BY MainlockInit, MainlockNext, MainlockSafe, PTL DEF Spec

\* Neither the emulation nor a handler of the UI runs without the lock, so that
\* they never run together.
THEOREM AlwaysExclusive == Spec => []Exclusive
BY MainlockInit, MainlockNext, MainlockSafe, PTL DEF Spec

\* No thread waits for a signal that cannot come, whoever asks for the exit and
\* whether or not condition variables wake up by themselves.
THEOREM WakeupsNeverLost == Spec => []NoLostWakeup
BY MainlockInit, MainlockNext, MainlockSafe, PTL DEF Spec

-----------------------------------------------------------------------------
(* The render queue: elements of sequences.                                  *)

LEMMA ElementsConcat ==
  ASSUME NEW s \in Seq(Buffers), NEW t \in Seq(Buffers)
  PROVE  /\ s \o t \in Seq(Buffers)
         /\ Len(s \o t) = Len(s) + Len(t)
         /\ R!Elements(s \o t) = R!Elements(s) \cup R!Elements(t)
<1>1. s \o t \in Seq(Buffers) /\ Len(s \o t) = Len(s) + Len(t)
  BY ConcatProperties
<1>2. DOMAIN s = 1 .. Len(s) /\ DOMAIN t = 1 .. Len(t)
      /\ DOMAIN (s \o t) = 1 .. Len(s) + Len(t)
      /\ Len(s) \in Nat /\ Len(t) \in Nat
  BY <1>1, LenProperties
<1>3. ASSUME NEW i \in DOMAIN (s \o t)
      PROVE  (s \o t)[i] \in R!Elements(s) \cup R!Elements(t)
  <2>1. (s \o t)[i] = IF i <= Len(s) THEN s[i] ELSE t[i - Len(s)]
    BY <1>2, <1>3, ConcatProperties
  <2>2. IF i <= Len(s) THEN i \in DOMAIN s ELSE i - Len(s) \in DOMAIN t
    BY <1>2, <1>3
  <2> QED BY <2>1, <2>2 DEF R!Elements
<1>4. ASSUME NEW i \in DOMAIN s PROVE s[i] \in R!Elements(s \o t)
  <2>1. (s \o t)[i] = s[i] /\ i \in DOMAIN (s \o t)
    BY <1>2, <1>4, ConcatProperties
  <2> QED BY <2>1 DEF R!Elements
<1>5. ASSUME NEW i \in DOMAIN t PROVE t[i] \in R!Elements(s \o t)
  <2>1. i + Len(s) \in 1 .. Len(s) + Len(t) /\ ~ (i + Len(s) <= Len(s))
        /\ (i + Len(s)) - Len(s) = i
    BY <1>2, <1>5
  <2>2. (s \o t)[i + Len(s)] = t[i]
    BY <2>1, ConcatProperties
  <2> QED BY <1>2, <2>1, <2>2 DEF R!Elements
<1> QED BY <1>1, <1>3, <1>4, <1>5 DEF R!Elements

\* An element in front or behind.
LEMMA ElementsSingle ==
  ASSUME NEW s \in Seq(Buffers), NEW e \in Buffers
  PROVE  /\ <<e>> \o s \in Seq(Buffers) /\ s \o <<e>> \in Seq(Buffers)
         /\ Len(<<e>> \o s) = Len(s) + 1 /\ Len(s \o <<e>>) = Len(s) + 1
         /\ R!Elements(<<e>> \o s) = R!Elements(s) \cup {e}
         /\ R!Elements(s \o <<e>>) = R!Elements(s) \cup {e}
<1>1. <<e>> \in Seq(Buffers) /\ Len(<<e>>) = 1 /\ R!Elements(<<e>>) = {e}
  BY DEF R!Elements
<1>2. /\ s \o <<e>> \in Seq(Buffers)
      /\ Len(s \o <<e>>) = Len(s) + Len(<<e>>)
      /\ R!Elements(s \o <<e>>) = R!Elements(s) \cup R!Elements(<<e>>)
  BY <1>1, ElementsConcat, Zenon
<1>3. /\ <<e>> \o s \in Seq(Buffers)
      /\ Len(<<e>> \o s) = Len(<<e>>) + Len(s)
      /\ R!Elements(<<e>> \o s) = R!Elements(<<e>>) \cup R!Elements(s)
  BY <1>1, ElementsConcat, Zenon
<1>4. Len(s) \in Nat
  BY LenProperties
<1>5. R!Elements(<<e>> \o s) = R!Elements(s) \cup {e}
      /\ R!Elements(s \o <<e>>) = R!Elements(s) \cup {e}
  BY <1>1, <1>2, <1>3, Zenon
<1>6. Len(<<e>> \o s) = Len(s) + 1 /\ Len(s \o <<e>>) = Len(s) + 1
  BY <1>1, <1>2, <1>3, <1>4
<1> QED BY <1>2, <1>3, <1>5, <1>6, Zenon

LEMMA ElementsAppend ==
  ASSUME NEW s \in Seq(Buffers), NEW e \in Buffers
  PROVE  /\ Append(s, e) \in Seq(Buffers)
         /\ Len(Append(s, e)) = Len(s) + 1
         /\ R!Elements(Append(s, e)) = R!Elements(s) \cup {e}
<1>1. Append(s, e) = s \o <<e>>
  BY AppendIsConcat
<1> QED BY <1>1, ElementsSingle, Zenon

\* A sequence without its first element, and without its last.
LEMMA ElementsTail ==
  ASSUME NEW s \in Seq(Buffers), s # <<>>
  PROVE  /\ Head(s) \in Buffers
         /\ Tail(s) \in Seq(Buffers)
         /\ Len(Tail(s)) = Len(s) - 1
         /\ R!Elements(s) = {Head(s)} \cup R!Elements(Tail(s))
<1>1. Head(s) \in Buffers /\ Tail(s) \in Seq(Buffers) /\ Len(Tail(s)) = Len(s) - 1
  BY HeadTailProperties
<1>2. s = <<Head(s)>> \o Tail(s)
  <2>1. SubSeq(s, 1, Len(s)) = <<s[1]>> \o SubSeq(s, 2, Len(s))
    BY SubSeqRecursiveFirst, EmptySeq
  <2> QED BY <2>1, SubSeqFull, TailIsSubSeq
<1>3. R!Elements(<<Head(s)>> \o Tail(s)) = R!Elements(Tail(s)) \cup {Head(s)}
  BY <1>1, ElementsSingle, Zenon
<1> QED BY <1>1, <1>2, <1>3, Zenon

LEMMA ElementsFront ==
  ASSUME NEW s \in Seq(Buffers), s # <<>>
  PROVE  /\ s[Len(s)] \in Buffers
         /\ SubSeq(s, 1, Len(s) - 1) \in Seq(Buffers)
         /\ Len(SubSeq(s, 1, Len(s) - 1)) = Len(s) - 1
         /\ R!Elements(s) = R!Elements(SubSeq(s, 1, Len(s) - 1)) \cup {s[Len(s)]}
<1> DEFINE n == Len(s)
           front == SubSeq(s, 1, n - 1)
<1>1. n \in Nat \ {0} /\ \A i \in 1 .. n : s[i] \in Buffers
  BY EmptySeq, ElementOfSeq
<1>2. front \in Seq(Buffers) /\ Len(front) = n - 1
  <2>1. n - 1 \in Int /\ \A i \in 1 .. n - 1 : s[i] \in Buffers
    BY <1>1
  <2>2. front \in Seq(Buffers) /\ Len(front) = IF 1 <= n - 1 THEN (n - 1) - 1 + 1 ELSE 0
    BY <2>1, SubSeqProperties
  <2> HIDE DEF front, n
  <2> QED BY <1>1, <2>2
<1>3. s = front \o <<s[n]>>
  <2>1. SubSeq(s, 1, n) = front \o <<s[n]>>
    BY <1>1, SubSeqRecursiveSecond
  <2> QED BY <2>1, SubSeqFull
<1>4. s[n] \in Buffers
  BY <1>1
<1>5. R!Elements(front \o <<s[n]>>) = R!Elements(front) \cup {s[n]}
  BY <1>2, <1>4, ElementsSingle, Zenon
<1> QED BY <1>2, <1>3, <1>4, <1>5, Zenon

-----------------------------------------------------------------------------
(* One owner for each buffer.                                                *)

InUse == IF drawing = NoBuffer THEN {} ELSE {drawing}
InUseCount == IF drawing = NoBuffer THEN 0 ELSE 1

\* OneOwner without the sequence of places.
Owned ==
  /\ R!Elements(pool) \cup R!Elements(frames) \cup InUse = Buffers
  /\ Len(pool) + Len(frames) + InUseCount = Cardinality(Buffers)

QueueTypes ==
  /\ pool \in Seq(Buffers) /\ frames \in Seq(Buffers)
  /\ drawing \in Buffers \cup {NoBuffer}

\* Cardinality is that of the instance, too.
LEMMA CardinalitySame == \A S : R!Cardinality(S) = Cardinality(S)
BY DEF Cardinality, R!Cardinality

LEMMA OwnedIsOneOwner ==
  ASSUME QueueTypes
  PROVE  Owned <=> R!OneOwner
<1> DEFINE last == IF drawing = NoBuffer THEN <<>> ELSE <<drawing>>
<1>1. last \in Seq(Buffers) /\ Len(last) = InUseCount /\ R!Elements(last) = InUse
  BY DEF QueueTypes, InUse, InUseCount, R!Elements
<1> HIDE DEF last
<1>2. /\ pool \o frames \in Seq(Buffers)
      /\ Len(pool \o frames) = Len(pool) + Len(frames)
      /\ R!Elements(pool \o frames) = R!Elements(pool) \cup R!Elements(frames)
  BY ElementsConcat DEF QueueTypes
<1>3. /\ Len((pool \o frames) \o last) = Len(pool) + Len(frames) + InUseCount
      /\ R!Elements((pool \o frames) \o last)
           = R!Elements(pool) \cup R!Elements(frames) \cup InUse
  BY <1>1, <1>2, ElementsConcat, Zenon
<1>4. R!OneOwner <=> /\ R!Elements((pool \o frames) \o last) = Buffers
                   /\ Len((pool \o frames) \o last) = Cardinality(Buffers)
  BY CardinalitySame DEF R!OneOwner, last
<1> QED BY <1>3, <1>4, Zenon DEF Owned

\* There are as many places as buffers: no buffer is in two of them.
LEMMA OwnedIsDistinct ==
  ASSUME QueueTypes, Owned
  PROVE  /\ \A i \in DOMAIN pool : \A j \in DOMAIN frames : pool[i] # frames[j]
         /\ \A i \in DOMAIN frames : frames[i] # drawing
<1> DEFINE p == Len(pool)
           n == Len(pool) + Len(frames) + InUseCount
           place == [i \in 1 .. n |-> IF i <= p THEN pool[i]
                                      ELSE IF i <= p + Len(frames) THEN frames[i - p]
                                      ELSE drawing]
<1>1. /\ p \in Nat /\ Len(frames) \in Nat /\ n \in Nat
      /\ DOMAIN pool = 1 .. p /\ DOMAIN frames = 1 .. Len(frames)
      /\ \A i \in 1 .. p : pool[i] \in Buffers
      /\ \A i \in 1 .. Len(frames) : frames[i] \in Buffers
  BY LenProperties, ElementOfSeq DEF QueueTypes, InUseCount
<1>2. place \in [1 .. n -> Buffers]
  <2> SUFFICES ASSUME NEW i \in 1 .. n PROVE place[i] \in Buffers
    OBVIOUS
  <2>1. CASE i <= p
    BY <1>1, <2>1
  <2>2. CASE ~ (i <= p) /\ i <= p + Len(frames)
    <3>1. i - p \in 1 .. Len(frames)
      BY <1>1, <2>2
    <3> QED BY <1>1, <2>2, <3>1
  <2>3. CASE ~ (i <= p) /\ ~ (i <= p + Len(frames))
    <3>1. drawing # NoBuffer
      BY <1>1, <2>3 DEF InUseCount
    <3> QED BY <2>3, <3>1 DEF QueueTypes
  <2> QED BY <2>1, <2>2, <2>3
<1>3. \A b \in Buffers : \E i \in 1 .. n : place[i] = b
  <2> SUFFICES ASSUME NEW b \in Buffers PROVE \E i \in 1 .. n : place[i] = b
    OBVIOUS
  <2>1. CASE b \in R!Elements(pool)
    <3>1. PICK i \in 1 .. p : pool[i] = b
      BY <1>1, <2>1 DEF R!Elements
    <3> QED BY <1>1, <3>1 DEF InUseCount
  <2>2. CASE b \in R!Elements(frames)
    <3>1. PICK i \in 1 .. Len(frames) : frames[i] = b
      BY <1>1, <2>2 DEF R!Elements
    <3>2. i + p \in 1 .. n /\ ~ (i + p <= p) /\ i + p <= p + Len(frames)
          /\ (i + p) - p = i
      BY <1>1 DEF InUseCount
    <3>3. place[i + p] = b
      BY <3>1, <3>2
    <3> QED BY <3>2, <3>3
  <2>3. CASE b \in InUse
    <3>1. drawing = b /\ n = p + Len(frames) + 1
      BY <2>3 DEF InUse, InUseCount
    <3>2. n \in 1 .. n /\ ~ (n <= p) /\ ~ (n <= p + Len(frames))
      BY <1>1, <3>1
    <3> QED BY <3>1, <3>2
  <2> QED BY <2>1, <2>2, <2>3 DEF Owned
<1>4. IsFiniteSet(1 .. n) /\ Cardinality(1 .. n) = Cardinality(Buffers)
  BY <1>1, FS_Interval DEF Owned
<1>5. place \in Surjection(1 .. n, Buffers)
  <2> HIDE DEF place, n
  <2> QED BY <1>2, <1>3 DEF Surjection
<1>6. \A i, j \in 1 .. n : place[i] = place[j] => i = j
  <2> HIDE DEF place, n
  <2>1. place \in Injection(1 .. n, Buffers)
    BY <1>4, <1>5, FS_SurjSameCardinalityImpliesInj
  <2> QED BY <2>1, Zenon DEF Injection, IsInjective
<1>7. ASSUME NEW i \in DOMAIN pool, NEW j \in DOMAIN frames
      PROVE  pool[i] # frames[j]
  <2>1. /\ i \in 1 .. n /\ i <= p
        /\ j + p \in 1 .. n /\ ~ (j + p <= p) /\ j + p <= p + Len(frames)
        /\ (j + p) - p = j /\ i # j + p
    BY <1>1 DEF InUseCount
  <2>2. place[i] = pool[i] /\ place[j + p] = frames[j]
    BY <2>1
  <2> QED BY <1>6, <2>1, <2>2
<1>8. ASSUME NEW j \in DOMAIN frames, drawing # NoBuffer
      PROVE  frames[j] # drawing
  <2>1. /\ j + p \in 1 .. n /\ ~ (j + p <= p) /\ j + p <= p + Len(frames)
        /\ (j + p) - p = j /\ n # j + p
        /\ n \in 1 .. n /\ ~ (n <= p) /\ ~ (n <= p + Len(frames))
    BY <1>1, <1>8 DEF InUseCount
  <2>2. place[j + p] = frames[j] /\ place[n] = drawing
    BY <2>1
  <2> QED BY <1>6, <2>1, <2>2
<1>9. \A j \in DOMAIN frames : frames[j] # NoBuffer
  BY <1>1, RenderQueueAssumption
<1> QED BY <1>7, <1>8, <1>9

-----------------------------------------------------------------------------
(* The jobs that show a frame.                                               *)

Job == {"init", "render", "shutdown"}
RenderAt(js) == {i \in DOMAIN js : js[i] = "render"}
Renders(js) == Cardinality(RenderAt(js))

LEMMA RendersType ==
  ASSUME NEW js \in Seq(Job)
  PROVE  IsFiniteSet(RenderAt(js)) /\ Renders(js) \in Nat
<1>1. RenderAt(js) \subseteq 1 .. Len(js) /\ IsFiniteSet(1 .. Len(js))
  <2>1. Len(js) \in Nat /\ DOMAIN js = 1 .. Len(js)
    BY LenProperties
  <2>2. IsFiniteSet(1 .. Len(js))
    BY <2>1, FS_Interval
  <2> QED BY <2>1, <2>2 DEF RenderAt
<1>2. IsFiniteSet(RenderAt(js))
  BY <1>1, FS_Subset
<1> QED BY <1>2, FS_CardinalityType DEF Renders

LEMMA RendersAppend ==
  ASSUME NEW js \in Seq(Job), NEW j \in Job
  PROVE  /\ Append(js, j) \in Seq(Job)
         /\ Renders(Append(js, j)) = IF j = "render" THEN Renders(js) + 1 ELSE Renders(js)
<1> DEFINE n == Len(js)
<1>1. /\ n \in Nat /\ DOMAIN js = 1 .. n
      /\ Append(js, j) \in Seq(Job)
      /\ DOMAIN Append(js, j) = 1 .. n + 1
      /\ \A i \in 1 .. n : Append(js, j)[i] = js[i]
      /\ Append(js, j)[n + 1] = j
  <2>1. n \in Nat /\ DOMAIN js = 1 .. n
    BY LenProperties
  <2>2. /\ Append(js, j) \in Seq(Job)
        /\ Len(Append(js, j)) = n + 1
        /\ \A i \in 1 .. n : Append(js, j)[i] = js[i]
        /\ Append(js, j)[n + 1] = j
    BY AppendProperties
  <2>3. DOMAIN Append(js, j) = 1 .. n + 1
    BY <2>2, LenProperties, Zenon
  <2> QED BY <2>1, <2>2, <2>3, Zenon
<1>2. n + 1 \notin RenderAt(js)
  BY <1>1 DEF RenderAt
<1>3. RenderAt(Append(js, j)) = IF j = "render" THEN RenderAt(js) \cup {n + 1}
                                ELSE RenderAt(js)
  <2> HIDE DEF n
  <2>1. 1 .. n + 1 = (1 .. n) \cup {n + 1}
    BY <1>1
  <2> QED BY <1>1, <2>1 DEF RenderAt
<1> QED BY <1>1, <1>2, <1>3, RendersType, FS_AddElement DEF Renders

LEMMA RendersTail ==
  ASSUME NEW js \in Seq(Job), js # <<>>
  PROVE  /\ Tail(js) \in Seq(Job) /\ Head(js) \in Job
         /\ Renders(js) = IF Head(js) = "render" THEN Renders(Tail(js)) + 1
                                                 ELSE Renders(Tail(js))
<1> DEFINE n == Len(js)
           later == RenderAt(js) \ {1}
           shift == [i \in RenderAt(Tail(js)) |-> i + 1]
<1>1. /\ n \in Nat \ {0} /\ DOMAIN js = 1 .. n
      /\ Tail(js) \in Seq(Job) /\ Head(js) \in Job
      /\ DOMAIN Tail(js) = 1 .. n - 1
      /\ \A i \in 1 .. n - 1 : Tail(js)[i] = js[i + 1]
      /\ Head(js) = js[1]
  BY HeadTailProperties, LenProperties, EmptySeq
<1>2. \A i \in RenderAt(Tail(js)) : i \in 1 .. n - 1 /\ i + 1 \in later
  BY <1>1 DEF RenderAt
<1>3. \A k \in later : k - 1 \in RenderAt(Tail(js)) /\ (k - 1) + 1 = k
  <2> SUFFICES ASSUME NEW k \in later
               PROVE  k - 1 \in RenderAt(Tail(js)) /\ (k - 1) + 1 = k
    OBVIOUS
  <2>1. k \in 2 .. n /\ js[k] = "render"
    BY <1>1 DEF RenderAt
  <2>2. k - 1 \in 1 .. n - 1 /\ (k - 1) + 1 = k
    BY <1>1, <2>1
  <2>3. Tail(js)[k - 1] = js[k]
    BY <1>1, <2>2
  <2> QED BY <1>1, <2>1, <2>2, <2>3 DEF RenderAt
<1>4. shift \in Bijection(RenderAt(Tail(js)), later)
  <2>1. shift \in [RenderAt(Tail(js)) -> later]
    BY <1>2
  <2>2. \A i, k \in RenderAt(Tail(js)) : shift[i] = shift[k] => i = k
    BY <1>2
  <2>3. \A k \in later : \E i \in RenderAt(Tail(js)) : shift[i] = k
    BY <1>3
  <2> HIDE DEF shift, later
  <2> QED BY <2>1, <2>2, <2>3, Zenon DEF Bijection, Injection, Surjection, IsInjective
<1>5. Cardinality(later) = Renders(Tail(js))
  BY <1>1, <1>4, RendersType, FS_Bijection DEF ExistsBijection, Renders
<1>6. Cardinality(later) = IF 1 \in RenderAt(js) THEN Renders(js) - 1 ELSE Renders(js)
  BY RendersType, FS_RemoveElement DEF Renders
<1>7. 1 \in RenderAt(js) <=> Head(js) = "render"
  BY <1>1 DEF RenderAt
<1>8. Renders(js) \in Nat /\ Renders(Tail(js)) \in Nat
  BY <1>1, RendersType
<1> QED BY <1>1, <1>5, <1>6, <1>7, <1>8

-----------------------------------------------------------------------------
(* The inductive invariant.                                                  *)

\* Before the widget is realized nothing is queued; after the join the render
\* thread is gone for good.
Lifetime ==
  /\ render = "none" => jobs = <<>> /\ frames = <<>> /\ ~ stopping
  /\ render = "joined" => stopping

\* What is shown is older than what is queued, in the order of the queue, and
\* that is older than what is drawn.
InOrder ==
  /\ texture <= frame
  /\ \A b \in Buffers : content[b] <= frame
  /\ \A i \in DOMAIN frames : texture <= content[frames[i]]
  /\ \A i, j \in DOMAIN frames : i < j => content[frames[i]] <= content[frames[j]]
  /\ drawing # NoBuffer => content[drawing] = frame

Coming == Renders(jobs) + (IF render = "begin" THEN 1 ELSE 0)

QueueInv == R!TypeOK /\ Owned /\ Lifetime /\ InOrder /\ (~ stopping => Len(frames) <= Coming)

LEMMA TypesOfQueue ==
  ASSUME R!TypeOK
  PROVE  QueueTypes /\ jobs \in Seq(Job)
BY DEF R!TypeOK, QueueTypes, Job

LEMMA QueueInit == R!Init => QueueInv
<1> SUFFICES ASSUME R!Init PROVE QueueInv
  OBVIOUS
<1> DEFINE n == Cardinality(Buffers)
<1>1. n \in Nat /\ ExistsBijection(1 .. n, Buffers)
  BY RenderQueueAssumption, FS_CardinalityType
<1>2. PICK s \in [1 .. n -> Buffers] : R!Elements(s) = Buffers
  <2> HIDE DEF n
  <2>1. PICK s \in Bijection(1 .. n, Buffers) : TRUE
    BY <1>1, Zenon DEF ExistsBijection
  <2>2. s \in [1 .. n -> Buffers] /\ \A b \in Buffers : \E i \in 1 .. n : s[i] = b
    BY <2>1, Zenon DEF Bijection, Injection, Surjection
  <2>3. R!Elements(s) = Buffers
    BY <2>2 DEF R!Elements
  <2> QED BY <2>2, <2>3
<1>3. pool \in [1 .. n -> Buffers] /\ R!Elements(pool) = Buffers
  BY <1>2, CardinalitySame DEF R!Init
<1>4. pool \in Seq(Buffers) /\ Len(pool) = n
  <2> HIDE DEF n
  <2>1. pool \in Seq(Buffers)
    BY <1>1, <1>3, SeqDef
  <2>2. DOMAIN pool = 1 .. n
    BY <1>3
  <2> QED BY <1>1, <2>1, <2>2, LenProperties
<1>5. Renders(jobs) = 0
  <2>1. RenderAt(jobs) = {}
    BY DEF R!Init, RenderAt
  <2> QED BY <2>1, FS_EmptySet DEF Renders
<1>6. R!TypeOK
  <2>1. frames \in Seq(Buffers) /\ jobs \in Seq({"init", "render", "shutdown"})
    BY DEF R!Init
  <2>2. content \in [Buffers -> 0 .. MaxFrame] /\ frame \in 0 .. MaxFrame
        /\ texture \in 0 .. MaxFrame
    BY RenderQueueAssumption DEF R!Init
  <2> QED BY <1>4, <2>1, <2>2 DEF R!Init, R!TypeOK
<1>7. Owned
  <2>1. frames = <<>> /\ drawing = NoBuffer
    BY DEF R!Init
  <2>2. R!Elements(frames) = {} /\ Len(frames) = 0
    BY <2>1 DEF R!Elements
  <2> QED BY <1>1, <1>3, <1>4, <2>1, <2>2 DEF Owned, InUse, InUseCount
<1>8. Lifetime /\ InOrder
  BY DEF R!Init, Lifetime, InOrder
<1> QED BY <1>5, <1>6, <1>7, <1>8 DEF QueueInv, Coming, R!Init

-----------------------------------------------------------------------------
(* Every step keeps it.                                                      *)

LEMMA PushJobKeeps ==
  ASSUME jobs \in Seq(Job), R!PushJob
  PROVE  /\ jobs' \in Seq(Job)
         /\ Renders(jobs') = IF stopping THEN Renders(jobs) ELSE Renders(jobs) + 1
BY RendersAppend DEF R!PushJob, Job

LEMMA GetFromPoolKeeps ==
  ASSUME QueueInv, R!GetFromPool
  PROVE  QueueInv'
<1> USE DEF QueueInv
<1>1. QueueTypes /\ Owned
  BY TypesOfQueue
<1>2. UNCHANGED <<frames, texture, jobs, render, stopping>> /\ drawing = NoBuffer
      /\ frame' = frame + 1 /\ frame' \in 0 .. MaxFrame /\ frame \in Nat
  BY RenderQueueAssumption DEF R!GetFromPool, R!TypeOK
<1>3. Lifetime' /\ (~ stopping' => Len(frames') <= Coming')
  BY <1>2 DEF Lifetime, Coming, Renders, RenderAt
<1>4. CASE pool = <<>>
  <2>1. UNCHANGED <<pool, drawing, content>>
    BY <1>4 DEF R!GetFromPool
  <2>2. R!TypeOK'
    BY <1>2, <2>1 DEF R!TypeOK
  <2>3. Owned'
    BY <1>2, <2>1 DEF Owned, InUse, InUseCount, R!Elements
  <2>4. InOrder'
    BY <1>2, <2>1 DEF InOrder, R!TypeOK
  <2> QED BY <1>3, <2>2, <2>3, <2>4
<1>5. CASE pool # <<>>
  <2> DEFINE top == pool[Len(pool)]
  <2>1. /\ top \in Buffers /\ top # NoBuffer
        /\ drawing' = top
        /\ content' = [content EXCEPT ![top] = frame + 1]
        /\ pool' \in Seq(Buffers)
        /\ Len(pool') = Len(pool) - 1
        /\ R!Elements(pool) = R!Elements(pool') \cup {top}
    BY <1>1, <1>5, ElementsFront, RenderQueueAssumption DEF R!GetFromPool, QueueTypes
  <2>2. content' \in [Buffers -> 0 .. MaxFrame]
    BY <1>2, <2>1 DEF R!TypeOK
  <2>3. R!TypeOK'
    BY <1>2, <2>1, <2>2 DEF R!TypeOK
  <2>4. Owned'
    <3>1. Len(pool) \in Nat /\ Len(frames) \in Nat
      BY <1>1, LenProperties DEF QueueTypes
    <3>2. InUse' = {top} /\ InUseCount' = 1 /\ InUse = {} /\ InUseCount = 0
      BY <1>2, <2>1 DEF InUse, InUseCount
    <3>3. R!Elements(pool') \cup R!Elements(frames') \cup InUse' = Buffers
      BY <1>1, <1>2, <2>1, <3>2 DEF Owned
    <3>4. Len(pool') + Len(frames') + InUseCount' = Cardinality(Buffers)
      BY <1>1, <1>2, <2>1, <3>1, <3>2 DEF Owned
    <3> QED BY <3>3, <3>4 DEF Owned
  <2>5. \A i \in DOMAIN frames : frames[i] # top /\ content'[frames[i]] = content[frames[i]]
    <3>1. Len(pool) \in DOMAIN pool
      BY <1>1, <1>5, LenProperties, EmptySeq DEF QueueTypes
    <3>2. \A i \in DOMAIN frames : frames[i] # top /\ frames[i] \in Buffers
      BY <1>1, <3>1, OwnedIsDistinct, LenProperties, ElementOfSeq DEF QueueTypes
    <3> QED BY <2>1, <3>2 DEF R!TypeOK
  <2>6. InOrder'
    <3>1. \A b \in Buffers : content'[b] <= frame'
      BY <1>2, <2>1 DEF InOrder, R!TypeOK
    <3>2. content'[drawing'] = frame' /\ texture' <= frame'
      BY <1>2, <2>1 DEF InOrder, R!TypeOK
    <3> QED BY <1>2, <2>5, <3>1, <3>2 DEF InOrder
  <2> QED BY <1>3, <2>3, <2>4, <2>6
<1> QED BY <1>4, <1>5

LEMMA DrawnKeeps ==
  ASSUME QueueInv, R!Drawn
  PROVE  QueueInv'
<1> USE DEF QueueInv
<1>1. QueueTypes /\ Owned /\ jobs \in Seq(Job)
  BY TypesOfQueue
<1>2. /\ drawing \in Buffers /\ drawing # NoBuffer /\ drawing' = NoBuffer
      /\ UNCHANGED <<frame, content, texture, render, stopping>>
  BY <1>1 DEF R!Drawn, QueueTypes
<1>3. Len(pool) \in Nat /\ Len(frames) \in Nat
  BY <1>1, LenProperties DEF QueueTypes
<1>4. InUse = {drawing} /\ InUseCount = 1 /\ InUse' = {} /\ InUseCount' = 0
  BY <1>2 DEF InUse, InUseCount
<1>5. CASE R!Realized
  <2>1. frames' = Append(frames, drawing) /\ R!PushJob /\ pool' = pool
    BY <1>5 DEF R!Drawn
  <2>2. /\ frames' \in Seq(Buffers)
        /\ Len(frames') = Len(frames) + 1
        /\ R!Elements(frames') = R!Elements(frames) \cup {drawing}
    BY <1>1, <1>2, <2>1, ElementsAppend DEF QueueTypes
  <2>3. /\ jobs' \in Seq(Job)
        /\ Renders(jobs') = IF stopping THEN Renders(jobs) ELSE Renders(jobs) + 1
    BY <1>1, <2>1, PushJobKeeps
  <2>4. R!TypeOK'
    BY <1>2, <2>1, <2>2, <2>3 DEF R!TypeOK, Job
  <2>5. Owned'
    <3>1. R!Elements(pool') \cup R!Elements(frames') \cup InUse' = Buffers
      BY <1>1, <1>4, <2>1, <2>2 DEF Owned
    <3>2. Len(pool') + Len(frames') + InUseCount' = Cardinality(Buffers)
      BY <1>1, <1>3, <1>4, <2>1, <2>2 DEF Owned
    <3> QED BY <3>1, <3>2 DEF Owned
  <2>6. Lifetime'
    BY <1>2, <1>5 DEF Lifetime, R!Realized
  <2>7. ~ stopping' => Len(frames') <= Coming'
    <3>1. Renders(jobs) \in Nat
      BY <1>1, RendersType
    <3> QED BY <1>2, <1>3, <2>2, <2>3, <3>1 DEF Coming
  <2>8. InOrder'
    <3>1. /\ DOMAIN frames = 1 .. Len(frames) /\ DOMAIN frames' = 1 .. Len(frames) + 1
          /\ \A i \in 1 .. Len(frames) : frames'[i] = frames[i] /\ frames[i] \in Buffers
          /\ frames'[Len(frames) + 1] = drawing
      <4>1. DOMAIN frames = 1 .. Len(frames) /\ DOMAIN frames' = 1 .. Len(frames) + 1
        BY <1>1, <2>2, LenProperties DEF QueueTypes
      <4>2. \A i \in 1 .. Len(frames) : frames[i] \in Buffers
        BY <1>1, ElementOfSeq DEF QueueTypes
      <4>3. /\ \A i \in 1 .. Len(frames) : frames'[i] = frames[i]
            /\ frames'[Len(frames) + 1] = drawing
        BY <1>1, <1>2, <2>1, AppendProperties DEF QueueTypes
      <4> QED BY <4>1, <4>2, <4>3, Zenon
    <3>2. \A i \in DOMAIN frames' :
            texture' <= content'[frames'[i]] /\ content'[frames'[i]] <= frame
      <4> SUFFICES ASSUME NEW i \in DOMAIN frames'
                   PROVE  texture <= content[frames'[i]] /\ content[frames'[i]] <= frame
        BY <1>2
      <4>1. CASE i = Len(frames) + 1
        <5>1. frame \in Nat /\ texture <= frame /\ content[drawing] = frame
          BY <1>2, RenderQueueAssumption DEF InOrder, R!TypeOK
        <5> QED BY <3>1, <4>1, <5>1
      <4>2. CASE i # Len(frames) + 1
        <5>1. i \in DOMAIN frames /\ frames'[i] = frames[i] /\ frames[i] \in Buffers
          BY <1>3, <3>1, <4>2
        <5> QED BY <5>1 DEF InOrder
      <4> QED BY <4>1, <4>2
    <3>3. \A i, j \in DOMAIN frames' : i < j => content'[frames'[i]] <= content'[frames'[j]]
      <4> SUFFICES ASSUME NEW i \in DOMAIN frames', NEW j \in DOMAIN frames', i < j
                   PROVE  content'[frames'[i]] <= content'[frames'[j]]
        OBVIOUS
      <4>1. CASE j = Len(frames) + 1
        <5>1. content'[frames'[j]] = frame
          BY <1>2, <3>1, <4>1 DEF InOrder
        <5> QED BY <3>2, <5>1
      <4>2. CASE j # Len(frames) + 1
        <5>1. i \in DOMAIN frames /\ j \in DOMAIN frames
          BY <1>3, <3>1, <4>2
        <5> QED BY <1>2, <3>1, <5>1 DEF InOrder
      <4> QED BY <4>1, <4>2
    <3> QED BY <1>2, <3>2, <3>3 DEF InOrder
  <2> QED BY <2>4, <2>5, <2>6, <2>7, <2>8
<1>6. CASE ~ R!Realized
  <2>1. pool' = Append(pool, drawing) /\ UNCHANGED <<frames, jobs>>
    BY <1>6 DEF R!Drawn
  <2>2. /\ pool' \in Seq(Buffers)
        /\ Len(pool') = Len(pool) + 1
        /\ R!Elements(pool') = R!Elements(pool) \cup {drawing}
    BY <1>1, <1>2, <2>1, ElementsAppend DEF QueueTypes
  <2>3. R!TypeOK'
    BY <1>2, <2>1, <2>2 DEF R!TypeOK
  <2>4. Owned'
    <3>1. R!Elements(pool') \cup R!Elements(frames') \cup InUse' = Buffers
      BY <1>1, <1>4, <2>1, <2>2 DEF Owned
    <3>2. Len(pool') + Len(frames') + InUseCount' = Cardinality(Buffers)
      BY <1>1, <1>3, <1>4, <2>1, <2>2 DEF Owned
    <3> QED BY <3>1, <3>2 DEF Owned
  <2>5. Lifetime' /\ InOrder' /\ (~ stopping' => Len(frames') <= Coming')
    BY <1>2, <2>1 DEF Lifetime, InOrder, Coming, Renders, RenderAt
  <2> QED BY <2>3, <2>4, <2>5
<1> QED BY <1>5, <1>6

LEMMA UploadStepKeeps ==
  ASSUME QueueInv, R!Upload
  PROVE  QueueInv'
<1> USE DEF QueueInv
<1>1. QueueTypes /\ Owned /\ jobs \in Seq(Job)
  BY TypesOfQueue
<1>2. /\ render = "begin" /\ render' = "present"
      /\ UNCHANGED <<drawing, frame, content, jobs, stopping>>
  BY DEF R!Upload
<1>3. Lifetime'
  BY <1>2 DEF Lifetime
<1>4. Renders(jobs) \in Nat /\ Coming = Renders(jobs) + 1 /\ Coming' = Renders(jobs)
  <2>1. Renders(jobs) \in Nat
    BY <1>1, RendersType
  <2>2. Renders(jobs)' = Renders(jobs)
    BY <1>2 DEF Renders, RenderAt
  <2> QED BY <1>2, <2>1, <2>2 DEF Coming
<1>5. CASE frames = <<>>
  <2>1. UNCHANGED <<pool, frames, texture>>
    BY <1>5 DEF R!Upload, R!queues
  <2>2. R!TypeOK' /\ InOrder'
    BY <1>2, <2>1 DEF R!TypeOK, InOrder
  <2>3. Owned'
    BY <1>2, <2>1 DEF Owned, InUse, InUseCount, R!Elements
  <2>4. ~ stopping' => Len(frames') <= Coming'
    BY <1>4, <1>5, <2>1, EmptySeq
  <2> QED BY <1>3, <2>2, <2>3, <2>4
<1>6. CASE frames # <<>>
  <2>1. /\ texture' = content[Head(frames)]
        /\ frames' = Tail(frames)
        /\ pool' = Append(pool, Head(frames))
    BY <1>6 DEF R!Upload
  <2>2. /\ Head(frames) \in Buffers
        /\ frames' \in Seq(Buffers)
        /\ Len(frames') = Len(frames) - 1
        /\ R!Elements(frames) = {Head(frames)} \cup R!Elements(frames')
    BY <1>1, <1>6, <2>1, ElementsTail DEF QueueTypes
  <2>3. /\ pool' \in Seq(Buffers)
        /\ Len(pool') = Len(pool) + 1
        /\ R!Elements(pool') = R!Elements(pool) \cup {Head(frames)}
    BY <1>1, <2>1, <2>2, ElementsAppend DEF QueueTypes
  <2>4. Len(pool) \in Nat /\ Len(frames) \in Nat \ {0}
    BY <1>1, <1>6, LenProperties, EmptySeq DEF QueueTypes
  <2>5. R!TypeOK'
    <3>1. texture' \in 0 .. MaxFrame
      BY <2>1, <2>2 DEF R!TypeOK
    <3> QED BY <1>2, <2>2, <2>3, <3>1 DEF R!TypeOK
  <2>6. Owned'
    <3>1. InUse' = InUse /\ InUseCount' = InUseCount /\ InUseCount \in Nat
      BY <1>2 DEF InUse, InUseCount
    <3>2. R!Elements(pool') \cup R!Elements(frames') \cup InUse' = Buffers
      BY <1>1, <2>2, <2>3, <3>1 DEF Owned
    <3>3. Len(pool') + Len(frames') + InUseCount' = Cardinality(Buffers)
      BY <1>1, <2>2, <2>3, <2>4, <3>1 DEF Owned
    <3> QED BY <3>2, <3>3 DEF Owned
  <2>7. InOrder'
    <3>1. /\ DOMAIN frames = 1 .. Len(frames) /\ DOMAIN frames' = 1 .. Len(frames) - 1
          /\ Head(frames) = frames[1]
          /\ \A i \in 1 .. Len(frames) - 1 : frames'[i] = frames[i + 1]
      BY <1>1, <1>6, <2>1, <2>2, LenProperties, HeadTailProperties DEF QueueTypes
    <3>2. \A i \in DOMAIN frames' :
            i + 1 \in DOMAIN frames /\ 1 < i + 1 /\ 1 \in DOMAIN frames
      BY <2>4, <3>1
    <3>3. \A i \in DOMAIN frames' : texture' <= content'[frames'[i]]
      BY <1>2, <2>1, <3>1, <3>2 DEF InOrder
    <3>4. \A i, j \in DOMAIN frames' : i < j => content'[frames'[i]] <= content'[frames'[j]]
      <4> SUFFICES ASSUME NEW i \in DOMAIN frames', NEW j \in DOMAIN frames', i < j
                   PROVE  content'[frames'[i]] <= content'[frames'[j]]
        OBVIOUS
      <4>1. i + 1 \in DOMAIN frames /\ j + 1 \in DOMAIN frames /\ i + 1 < j + 1
        BY <2>4, <3>1
      <4> QED BY <1>2, <3>1, <4>1 DEF InOrder
    <3>5. texture' <= frame'
      BY <1>2, <2>1, <2>2 DEF InOrder
    <3> QED BY <1>2, <3>3, <3>4, <3>5 DEF InOrder
  <2>8. ~ stopping' => Len(frames') <= Coming'
    BY <1>2, <1>4, <2>2, <2>4
  <2> QED BY <1>3, <2>5, <2>6, <2>7, <2>8
<1> QED BY <1>5, <1>6

\* The other steps touch neither the buffers nor what they hold.
LEMMA BuffersUntouched ==
  ASSUME QueueInv, UNCHANGED <<pool, frames, drawing, frame, content, texture>>
  PROVE  Owned' /\ InOrder'
BY DEF QueueInv, Owned, InUse, InUseCount, R!Elements, InOrder

LEMMA JobsKeep ==
  ASSUME QueueInv,
         R!Realize \/ R!FrameClock \/ R!InitiateShutdown \/ R!Join \/ R!TakeJob \/ R!Present
  PROVE  QueueInv'
<1> USE DEF QueueInv
<1>1. jobs \in Seq(Job) /\ Renders(jobs) \in Nat
  BY TypesOfQueue, RendersType
<1>2. UNCHANGED <<pool, frames, drawing, frame, content, texture>>
  BY DEF R!Realize, R!FrameClock, R!InitiateShutdown, R!Join, R!TakeJob, R!Present, R!queues
<1>3. Owned' /\ InOrder'
  BY <1>2, BuffersUntouched
<1>4. ASSUME jobs' \in Seq(Job), render' \in {"none", "idle", "begin", "present", "joined"},
             stopping' \in BOOLEAN
      PROVE  R!TypeOK'
  BY <1>2, <1>4 DEF R!TypeOK, Job
<1>5. Len(frames) \in Nat
  BY TypesOfQueue, LenProperties DEF QueueTypes
<1>6. CASE R!Realize
  <2>1. /\ jobs' = <<"init">> /\ render' = "idle" /\ stopping' = stopping
        /\ frames = <<>>
    BY <1>6 DEF R!Realize, R!Realized, Lifetime
  <2>2. jobs' \in Seq(Job)
    BY <2>1 DEF Job
  <2>3. Coming' \in Nat
    <3>1. Renders(jobs') \in Nat
      BY <2>2, RendersType
    <3> QED BY <3>1 DEF Coming
  <2>4. Len(frames') = 0
    BY <1>2, <2>1
  <2> QED BY <1>3, <1>4, <2>1, <2>2, <2>3, <2>4 DEF Lifetime, R!TypeOK
<1>7. CASE R!FrameClock
  <2>1. R!PushJob /\ UNCHANGED <<render, stopping>> /\ render # "none"
    BY <1>7 DEF R!FrameClock, R!Realized
  <2>2. /\ jobs' \in Seq(Job)
        /\ Renders(jobs') = IF stopping THEN Renders(jobs) ELSE Renders(jobs) + 1
    BY <1>1, <2>1, PushJobKeeps
  <2>3. ~ stopping' => Len(frames') <= Coming'
    BY <1>1, <1>2, <1>5, <2>1, <2>2 DEF Coming
  <2> QED BY <1>3, <1>4, <2>1, <2>2, <2>3 DEF Lifetime, R!TypeOK
<1>8. CASE R!InitiateShutdown
  <2>1. jobs' = Append(jobs, "shutdown") /\ stopping' = TRUE /\ render' = render
        /\ render # "none"
    BY <1>8 DEF R!InitiateShutdown, R!Realized
  <2>2. jobs' \in Seq(Job)
    BY <1>1, <2>1, RendersAppend DEF Job
  <2> QED BY <1>3, <1>4, <2>1, <2>2 DEF Lifetime, R!TypeOK
<1>9. CASE R!Join
  <2>1. jobs' = <<>> /\ stopping /\ stopping' = stopping /\ render' = "joined"
    BY <1>9 DEF R!Join
  <2>2. jobs' \in Seq(Job)
    BY <2>1
  <2> QED BY <1>3, <1>4, <2>1, <2>2 DEF Lifetime, R!TypeOK
<1>10. CASE R!TakeJob
  <2>1. /\ render = "idle" /\ jobs # <<>> /\ stopping' = stopping
        /\ render' = IF Head(jobs) = "render" THEN "begin" ELSE "idle"
        /\ jobs' = Tail(jobs)
    BY <1>10 DEF R!TakeJob
  <2>2. /\ jobs' \in Seq(Job) /\ Renders(jobs') \in Nat
        /\ Renders(jobs) = IF Head(jobs) = "render" THEN Renders(jobs') + 1
                                                    ELSE Renders(jobs')
    BY <1>1, <2>1, RendersTail, RendersType
  <2>3. Coming' = Coming
    BY <2>1, <2>2 DEF Coming
  <2> QED BY <1>2, <1>3, <1>4, <2>1, <2>2, <2>3 DEF Lifetime, R!TypeOK
<1>11. CASE R!Present
  <2>1. render = "present" /\ render' = "idle" /\ UNCHANGED <<jobs, stopping>>
    BY <1>11 DEF R!Present
  <2>2. Coming' = Coming
    BY <2>1 DEF Coming, Renders, RenderAt
  <2> QED BY <1>1, <1>2, <1>3, <1>4, <2>1, <2>2 DEF Lifetime, R!TypeOK
<1> QED BY <1>6, <1>7, <1>8, <1>9, <1>10, <1>11

-----------------------------------------------------------------------------

\* Every step of the three threads keeps the invariant.
LEMMA QueueStepKeeps ==
  ASSUME QueueInv, [R!Next]_(R!vars)
  PROVE  QueueInv'
<1>1. CASE R!Next
  BY <1>1, GetFromPoolKeeps, DrawnKeeps, UploadStepKeeps, JobsKeep DEF R!Next
<1>2. CASE UNCHANGED R!vars
  <2>1. UNCHANGED <<pool, frames, drawing, frame, content, texture, jobs, render, stopping>>
    BY <1>2 DEF R!vars, R!queues
  <2>2. Owned' /\ InOrder'
    BY <2>1, BuffersUntouched
  <2>3. R!TypeOK' /\ Lifetime' /\ (~ stopping' => Len(frames') <= Coming')
    BY <2>1 DEF QueueInv, R!TypeOK, Lifetime, Coming, Renders, RenderAt
  <2> QED BY <2>2, <2>3 DEF QueueInv
<1> QED BY <1>1, <1>2

\* The inductive invariant of the render queue.
THEOREM QueueConsistent == R!Spec => []QueueInv
<1>1. QueueInv /\ [R!Next]_(R!vars) => QueueInv'
  BY QueueStepKeeps
<1> QED BY <1>1, QueueInit, PTL DEF R!Spec

\* What the invariant says of buffers and of jobs.
LEMMA QueueOwned == QueueInv => R!OneOwner
BY TypesOfQueue, OwnedIsOneOwner DEF QueueInv

LEMMA QueueHasJobs == QueueInv => R!FramesHaveJobs
BY CardinalitySame DEF QueueInv, R!FramesHaveJobs, Coming, Renders, RenderAt

\* Uploading takes the frame at the head of the queue, the oldest one.
LEMMA TextureAdvances ==
  ASSUME QueueInv, R!Next
  PROVE  texture' >= texture
<1>1. texture \in Nat
  BY RenderQueueAssumption DEF QueueInv, R!TypeOK
<1>2. CASE R!Upload /\ frames # <<>>
  <2>1. 1 \in DOMAIN frames /\ Head(frames) = frames[1]
    BY <1>2, TypesOfQueue, LenProperties, EmptySeq, HeadTailProperties
       DEF QueueInv, QueueTypes
  <2>2. texture <= content[Head(frames)] /\ texture' = content[Head(frames)]
    BY <1>2, <2>1 DEF QueueInv, InOrder, R!Upload
  <2>3. content[Head(frames)] \in Nat
    BY <1>2, TypesOfQueue, HeadTailProperties, RenderQueueAssumption
       DEF QueueInv, QueueTypes, R!TypeOK
  <2> QED BY <1>1, <2>2, <2>3
<1>3. CASE ~ (R!Upload /\ frames # <<>>)
  <2>1. texture' = texture
    BY <1>3 DEF R!Next, R!GetFromPool, R!Drawn, R!Realize, R!FrameClock, R!InitiateShutdown,
                R!Join, R!TakeJob, R!Upload, R!Present
  <2> QED BY <1>1, <2>1
<1> QED BY <1>2, <1>3

-----------------------------------------------------------------------------
(* The instances that are proved about are the instances that run.           *)

\* A step of the pause.
LEMMA PauseStepSame == P!Next => PP!Next
<1>1. P!User => PP!User
  <2>1. P!PauseToggle => PP!PauseToggle
    BY DEF P!PauseToggle, PP!PauseToggle, P!UiRuns, PP!UiRuns, P!Bounded,
       PP!Bounded, P!LoopAt, PP!LoopAt, P!Waiting, PP!Waiting, P!Cardinality,
       PP!Cardinality, P!PauseEnable, PP!PauseEnable, P!pauseLoop, PP!pauseLoop,
       P!cpu, PP!cpu, P!history, PP!history
  <2>2. P!AdvanceFrame => PP!AdvanceFrame
    BY DEF P!AdvanceFrame, PP!AdvanceFrame, P!UiRuns, PP!UiRuns, P!Bounded,
       PP!Bounded, P!LoopAt, PP!LoopAt, P!Waiting, PP!Waiting, P!Cardinality,
       PP!Cardinality, P!PauseEnable, PP!PauseEnable, P!pauseLoop, PP!pauseLoop,
       P!cpu, PP!cpu, P!history, PP!history
  <2>3. P!MonitorOpen => PP!MonitorOpen
    BY DEF P!MonitorOpen, PP!MonitorOpen, P!UiRuns, PP!UiRuns, P!Bounded,
       PP!Bounded, P!LoopAt, PP!LoopAt, P!Waiting, PP!Waiting, P!Cardinality,
       PP!Cardinality, P!StartupTrap, PP!StartupTrap, P!pauseLoop, PP!pauseLoop,
       P!history, PP!history
  <2>4. P!MachineReset => PP!MachineReset
    BY DEF P!MachineReset, PP!MachineReset, P!UiRuns, PP!UiRuns, P!history,
       PP!history
  <2>5. P!OnVsyncDo => PP!OnVsyncDo
    BY DEF P!OnVsyncDo, PP!OnVsyncDo, P!ui, PP!ui, P!cpu, PP!cpu
  <2>6. P!Go => PP!Go
    BY DEF P!Go, PP!Go, P!PauseEnable, PP!PauseEnable, P!pauseLoop,
       PP!pauseLoop, P!MonitorReturns, PP!MonitorReturns, P!cpu, PP!cpu,
       P!history, PP!history
  <2>7. P!LeaveUnpaused => PP!LeaveUnpaused
    BY DEF P!LeaveUnpaused, PP!LeaveUnpaused, P!MonitorReturns,
       PP!MonitorReturns, P!ui, PP!ui, P!history, PP!history
  <2> QED BY <2>1, <2>2, <2>3, <2>4, <2>5, <2>6, <2>7 DEF P!User, PP!User
<1>2. P!Step => PP!Step
  <2>1. P!Flip => PP!Flip
    BY DEF P!Flip, PP!Flip, P!ui, PP!ui, P!cpu, PP!cpu, P!history, PP!history
  <2>2. P!CallJob => PP!CallJob
    BY DEF P!CallJob, PP!CallJob, P!Jobs, PP!Jobs, P!ui, PP!ui, P!cpu, PP!cpu
  <2>3. P!PauseLoop => PP!PauseLoop
    BY DEF P!PauseLoop, PP!PauseLoop, P!StartupTrap, PP!StartupTrap,
       P!pauseLoop, PP!pauseLoop, P!history, PP!history
  <2>4. P!SleepEnds => PP!SleepEnds
    BY DEF P!SleepEnds, PP!SleepEnds, P!pauseLoop, PP!pauseLoop, P!ui, PP!ui,
       P!cpu, PP!cpu, P!history, PP!history
  <2>5. P!CallbacksEnd => PP!CallbacksEnd
    BY DEF P!CallbacksEnd, PP!CallbacksEnd, P!ui, PP!ui, P!history, PP!history
  <2>6. P!MonitorTrap => PP!MonitorTrap
    BY DEF P!MonitorTrap, PP!MonitorTrap, P!MonitorStartup, PP!MonitorStartup,
       P!history, PP!history
  <2>7. P!MonitorPause => PP!MonitorPause
    BY DEF P!MonitorPause, PP!MonitorPause, P!StartupTrap, PP!StartupTrap,
       P!MonitorReturns, PP!MonitorReturns, P!history, PP!history
  <2>8. P!MonitorSleepEnds => PP!MonitorSleepEnds
    BY DEF P!MonitorSleepEnds, PP!MonitorSleepEnds, P!ui, PP!ui, P!cpu, PP!cpu,
       P!history, PP!history
  <2>9. P!TrapsEnd => PP!TrapsEnd
    BY DEF P!TrapsEnd, PP!TrapsEnd, P!ui, PP!ui, P!history, PP!history
  <2> QED BY <2>1, <2>2, <2>3, <2>4, <2>5, <2>6, <2>7, <2>8, <2>9 DEF P!Step,
       PP!Step
<1>3. P!DoVsync => PP!DoVsync
  BY DEF P!DoVsync, PP!DoVsync, P!cpu, PP!cpu, P!PauseEnable, PP!PauseEnable,
       P!pauseLoop, PP!pauseLoop, P!history, PP!history
<1>4. P!Interrupt => PP!Interrupt
  BY DEF P!Interrupt, PP!Interrupt, P!ui, PP!ui, P!history, PP!history
<1>5. P!Breakpoint => PP!Breakpoint
  BY DEF P!Breakpoint, PP!Breakpoint, P!Bounded, PP!Bounded, P!LoopAt,
       PP!LoopAt, P!Waiting, PP!Waiting, P!Cardinality, PP!Cardinality,
       P!pauseLoop, PP!pauseLoop, P!MonitorStartup, PP!MonitorStartup, P!cpu,
       PP!cpu, P!history, PP!history
<1> QED BY <1>1, <1>2, <1>3, <1>4, <1>5 DEF P!Next, PP!Next

\* What is said of the pause.
LEMMA PauseSame ==
  /\ P!PauseHolds = PP!PauseHolds
  /\ P!CallbacksInOrder = PP!CallbacksInOrder
  /\ P!TypeOK = PP!TypeOK
<1>1. P!PauseHolds = PP!PauseHolds
  BY DEF P!PauseHolds, PP!PauseHolds, P!LoopAt, PP!LoopAt, P!pauseLoop,
         PP!pauseLoop, P!Waiting, PP!Waiting
<1>2. P!CallbacksInOrder = PP!CallbacksInOrder
  BY DEF P!CallbacksInOrder, PP!CallbacksInOrder, P!JobAt, PP!JobAt,
         P!Jobs, PP!Jobs, P!Waiting, PP!Waiting
<1>3. P!TypeOK = PP!TypeOK
  BY DEF P!TypeOK, PP!TypeOK, P!Jobs, PP!Jobs, P!pauseLoop, PP!pauseLoop
<1> QED BY <1>1, <1>2, <1>3

-----------------------------------------------------------------------------
(* The invariant of the parts.                                               *)

PartsInv == MainlockInv /\ PP!PauseInv /\ QueueInv

\* Each part begins in its invariant, whichever moves.
LEMMA PartsInit == ThreadsInit => PartsInv
<1> SUFFICES ASSUME ThreadsInit PROVE PartsInv
  OBVIOUS
<1>1. PP!Quiet
  BY DEF ThreadsInit, PP!Quiet
<1>2. PP!PauseInv
  BY <1>1, PP!QuietKeeps, PauseAssumption
<1>3. QueueInv
  BY QueueInit DEF ThreadsInit
<1>4. MainlockInv
  <2>1. TypeOK
    <3>1. depth \in 0 .. MaxDepth
      BY MainlockAssumption DEF ThreadsInit
    <3>2. vice \in {"start", "gone"} /\ phase \in {"loop", "joined"}
      BY DEF ThreadsInit
    <3> QED BY <3>1, <3>2 DEF ThreadsInit, TypeOK
  <2>2. Owners /\ Flags /\ Nesting /\ NoLostWakeup
    BY DEF ThreadsInit, LockParts, Owners, Flags, Nesting, NoLostWakeup
  <2> QED BY <2>1, <2>2 DEF MainlockInv
<1> QED BY <1>2, <1>3, <1>4 DEF PartsInv

\* A step of a part is one of its own, and leaves the others alone.
LEMMA PartsStep ==
  ASSUME [ThreadsNext]_<<part, vars, pauseVars, renderVars>>
  PROVE  [Next]_vars /\ [PP!Next]_(PP!vars) /\ [R!Next]_(R!vars)
<1>1. UNCHANGED pauseVars <=> UNCHANGED PP!vars
  BY DEF pauseVars, PP!vars, PP!ui, PP!cpu, PP!history
<1>2. UNCHANGED renderVars <=> UNCHANGED R!vars
  BY DEF renderVars, R!vars, R!queues
<1>3. CASE ThreadsNext
  BY <1>1, <1>2, <1>3, PauseStepSame DEF ThreadsNext
<1>4. CASE UNCHANGED <<part, vars, pauseVars, renderVars>>
  BY <1>1, <1>2, <1>4
<1> QED BY <1>3, <1>4

\* The invariants of the lock, the pause and the render queue hold in the run's
\* specification, where one part moves and the others rest.
THEOREM PartsConsistent == ThreadsSpec => []PartsInv
<1>1. PartsInv /\ [ThreadsNext]_<<part, vars, pauseVars, renderVars>> => PartsInv'
  <2> SUFFICES ASSUME PartsInv, [ThreadsNext]_<<part, vars, pauseVars, renderVars>>
               PROVE  PartsInv'
    OBVIOUS
  <2>1. PP!PauseInv'
    BY PartsStep, PP!PauseStepKeeps, PauseAssumption DEF PartsInv
  <2>2. QueueInv'
    BY PartsStep, QueueStepKeeps DEF PartsInv
  <2>3. MainlockInv'
    BY PartsStep, MainlockNext DEF PartsInv
  <2> QED BY <2>1, <2>2, <2>3 DEF PartsInv
<1> QED BY <1>1, PartsInit, PTL DEF ThreadsSpec

\* What is said of the lock holds in the run's specification, too.
THEOREM LockInThreads == ThreadsSpec => [](Exclusive /\ NoLostWakeup)
<1>1. PartsInv => Exclusive /\ NoLostWakeup
  BY MainlockSafe DEF PartsInv
<1> QED BY <1>1, PartsConsistent, PTL

\* Every variable of the lock, the pause and the render queue keeps its type.
THEOREM TypeCorrect == ThreadsSpec => []ThreadsTypeOK
<1>1. PartsInv => ThreadsTypeOK
  BY PauseSame, MainlockSafe
     DEF PartsInv, PP!PauseInv, QueueInv, ThreadsTypeOK
<1> QED BY <1>1, PartsConsistent, PTL

\* While is_paused is set a pause_loop() is queued or asleep, or the monitor is on
\* its way, whatever the UI does between the steps of the emulation.
THEOREM PauseAlwaysHolds == ThreadsSpec => []PauseHolds
<1>1. PartsInv => PauseHolds
  <2>1. PP!PauseInv => PP!PauseHolds
    BY DEF PP!PauseInv, PP!PauseHeld, PP!PauseHolds
  <2> QED BY <2>1, PauseSame DEF PartsInv, PauseHolds
<1> QED BY <1>1, PartsConsistent, PTL

\* vsync_on_vsync_do() calls each callback once and in the order they were queued,
\* whatever pauses, resets and monitors come between.
THEOREM CallbacksAlwaysInOrder == ThreadsSpec => []CallbacksInOrder
<1>1. PartsInv => CallbacksInOrder
  BY PauseSame DEF PartsInv, PP!PauseInv, CallbacksInOrder
<1> QED BY <1>1, PartsConsistent, PTL

\* Each back buffer is free, being drawn or queued, and only one of these, on
\* whichever of the three threads the next step is taken.
THEOREM AlwaysOneOwner == ThreadsSpec => []OneOwner
<1>1. PartsInv => OneOwner
  BY QueueOwned DEF PartsInv, OneOwner
<1> QED BY <1>1, PartsConsistent, PTL

\* Unless the render thread is being shut down, each queued frame has a job of the
\* render thread to come that shows it.
THEOREM FramesAlwaysHaveJobs == ThreadsSpec => []FramesHaveJobs
<1>1. PartsInv => FramesHaveJobs
  BY QueueHasJobs DEF PartsInv, FramesHaveJobs
<1> QED BY <1>1, PartsConsistent, PTL

\* update_frame_textures() never gets a frame that is older than the one in the
\* texture.
THEOREM FramesAlwaysInOrder == ThreadsSpec => FramesInOrder
<1>1. PartsInv /\ [ThreadsNext]_<<part, vars, pauseVars, renderVars>>
        => [texture' >= texture]_(R!vars)
  BY PartsStep, TextureAdvances
     DEF PartsInv, R!vars, R!queues
<1> QED BY <1>1, PartsConsistent, PTL DEF ThreadsSpec, FramesInOrder, R!FramesInOrder
==============================================================================
