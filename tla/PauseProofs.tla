----------------------------- MODULE PauseProofs -----------------------------
(***************************************************************************)
(* Proofs about Pause: a pause stops the emulation at the end of a frame,  *)
(* and callbacks are called once and in order across pauses, traps, resets *)
(* and the monitor, for every bound.                                       *)
(***************************************************************************)
EXTENDS Pause, SequenceTheorems, TLAPS

Callback == Jobs \cup {pauseLoop}

\* An enter_monitor_while_paused that is set becomes one more trap.
TrapsBounded ==
  traps + (IF enterMonitor THEN 1 ELSE 0) <= MaxTraps + 1

\* The loop that sleeps is the one that is executed.
Asleep == pc = "sleep" => executing # <<>> /\ Head(executing) = pauseLoop

\* PauseHolds by place: traps count where they will be called with the pause on,
\* not once the monitor is open or the batch is done.
PauseHeld ==
  isPaused => \/ LoopAt # {}
              \/ pc \in {"run", "callbacks"} /\ traps > 0
              \/ pc = "traps" /\ batch > 0

PauseInv == TypeOK /\ TrapsBounded /\ Asleep /\ PauseHeld /\ CallbacksInOrder

-----------------------------------------------------------------------------
(* How the callbacks that wait change.                                     *)

LEMMA WaitingType ==
  ASSUME TypeOK
  PROVE  /\ Waiting \in Seq(Callback) /\ Len(Waiting) \in Nat
         /\ DOMAIN Waiting = 1 .. Len(Waiting)
         /\ \A i \in DOMAIN Waiting : Waiting[i] \in Callback
<1>1. Waiting \in Seq(Callback)
  BY ConcatProperties DEF TypeOK, Waiting, Callback
<1> QED BY <1>1, LenProperties, ElementOfSeq

\* A callback is queued.
Queued(c) ==
  /\ Waiting' \in Seq(Callback)
  /\ DOMAIN Waiting' = 1 .. Len(Waiting) + 1
  /\ \A i \in 1 .. Len(Waiting) : Waiting'[i] = Waiting[i]
  /\ Waiting'[Len(Waiting) + 1] = c

LEMMA QueueCallback ==
  ASSUME TypeOK, NEW c \in Callback, queue' = Append(queue, c), executing' = executing
  PROVE  Queued(c)
<1>1. queue \in Seq(Callback) /\ executing \in Seq(Callback)
  BY DEF TypeOK, Callback
<1>2. <<c>> \in Seq(Callback)
  OBVIOUS
<1>3. Waiting' = Append(Waiting, c)
  <2>1. queue' = queue \o <<c>>
    BY <1>1, AppendIsConcat
  <2>2. executing \o (queue \o <<c>>) = (executing \o queue) \o <<c>>
    <3>1. \A s, t, u \in Seq(Callback) : (s \o t) \o u = s \o (t \o u)
      BY ConcatAssociative
    <3> QED BY <1>1, <1>2, <3>1, Zenon
  <2>3. Append(Waiting, c) = Waiting \o <<c>>
    BY WaitingType, AppendIsConcat, Zenon
  <2> QED BY <2>1, <2>2, <2>3 DEF Waiting
<1>4. /\ Append(Waiting, c) \in Seq(Callback)
      /\ Len(Append(Waiting, c)) = Len(Waiting) + 1
      /\ \A i \in 1 .. Len(Waiting) : Append(Waiting, c)[i] = Waiting[i]
      /\ Append(Waiting, c)[Len(Waiting) + 1] = c
  <2>1. Waiting \in Seq(Callback)
    BY WaitingType
  <2> QED BY <2>1, AppendProperties
<1>5. DOMAIN Append(Waiting, c) = 1 .. Len(Waiting) + 1
  BY <1>4, LenProperties, Zenon
<1> QED BY <1>3, <1>4, <1>5, Zenon DEF Queued

\* The first callback is taken off.
Taken(c) ==
  /\ Waiting' \in Seq(Callback)
  /\ Len(Waiting) \in Nat \ {0}
  /\ DOMAIN Waiting' = 1 .. Len(Waiting) - 1
  /\ \A i \in 1 .. Len(Waiting) - 1 : Waiting'[i] = Waiting[i + 1]
  /\ Waiting[1] = c

LEMMA TakeCallback ==
  ASSUME TypeOK, executing # <<>>, executing' = Tail(executing), queue' = queue
  PROVE  Head(executing) \in Callback /\ Taken(Head(executing))
<1> DEFINE e == Len(executing)
           q == Len(queue)
<1>1. queue \in Seq(Callback) /\ executing \in Seq(Callback)
  BY DEF TypeOK, Callback
<1>2. /\ e \in Nat \ {0} /\ q \in Nat
      /\ Head(executing) = executing[1] /\ Head(executing) \in Callback
      /\ executing' \in Seq(Callback) /\ Len(executing') = e - 1
      /\ \A i \in 1 .. e - 1 : executing'[i] = executing[i + 1]
  BY <1>1, LenProperties, EmptySeq, HeadTailProperties
<1>3. /\ Len(Waiting) = e + q
      /\ \A i \in 1 .. e + q : Waiting[i] = IF i <= e THEN executing[i] ELSE queue[i - e]
  BY <1>1, ConcatProperties DEF Waiting
<1>4. /\ Waiting' \in Seq(Callback)
      /\ Len(Waiting') = (e - 1) + q
      /\ \A i \in 1 .. (e - 1) + q :
           Waiting'[i] = IF i <= e - 1 THEN executing'[i] ELSE queue[i - (e - 1)]
  <2> DEFINE t == executing'
  <2>1. t \in Seq(Callback) /\ Len(t) = e - 1 /\ Waiting' = t \o queue
    BY <1>2 DEF Waiting
  <2> HIDE DEF t
  <2>2. /\ t \o queue \in Seq(Callback)
        /\ Len(t \o queue) = Len(t) + q
        /\ \A i \in 1 .. Len(t) + q :
             (t \o queue)[i] = IF i <= Len(t) THEN t[i] ELSE queue[i - Len(t)]
    BY <1>1, <2>1, ConcatProperties
  <2> QED BY <2>1, <2>2 DEF t
<1> HIDE DEF e, q
<1>5. DOMAIN Waiting' = 1 .. Len(Waiting) - 1
  <2>1. DOMAIN Waiting' = 1 .. (e - 1) + q
    BY <1>4, LenProperties
  <2>2. (e - 1) + q = Len(Waiting) - 1
    BY <1>2, <1>3
  <2> QED BY <2>1, <2>2
<1>6. ASSUME NEW i \in 1 .. Len(Waiting) - 1
      PROVE  Waiting'[i] = Waiting[i + 1]
  <2>1. i \in 1 .. (e - 1) + q /\ i + 1 \in 1 .. e + q
    BY <1>2, <1>3
  <2>2. CASE i <= e - 1
    <3>1. Waiting'[i] = executing'[i] /\ Waiting[i + 1] = executing[i + 1]
      BY <1>2, <1>3, <1>4, <2>1, <2>2
    <3> QED BY <1>2, <2>1, <2>2, <3>1
  <2>3. CASE ~ (i <= e - 1)
    <3>1. Waiting'[i] = queue[i - (e - 1)] /\ Waiting[i + 1] = queue[(i + 1) - e]
      BY <1>2, <1>3, <1>4, <2>1, <2>3
    <3>2. i - (e - 1) = (i + 1) - e
      BY <1>2, <2>1
    <3> QED BY <3>1, <3>2
  <2> QED BY <2>2, <2>3
<1>7. Len(Waiting) \in Nat \ {0} /\ Waiting[1] = Head(executing)
  BY <1>2, <1>3
<1> QED BY <1>2, <1>4, <1>5, <1>6, <1>7 DEF Taken

-----------------------------------------------------------------------------
(* What that means for the loops and for the order of the jobs.            *)

Same == UNCHANGED <<queue, executing, asked, called>>

LEMMA SameKeeps ==
  ASSUME CallbacksInOrder, Same
  PROVE  CallbacksInOrder' /\ LoopAt' = LoopAt
BY DEF CallbacksInOrder, Same, Waiting, JobAt, LoopAt

LEMMA QueuedLoopKeeps ==
  ASSUME TypeOK, CallbacksInOrder, Queued(pauseLoop), UNCHANGED <<asked, called>>
  PROVE  CallbacksInOrder' /\ LoopAt' # {}
<1> DEFINE n == Len(Waiting)
<1>1. n \in Nat /\ DOMAIN Waiting = 1 .. n /\ pauseLoop \notin Jobs
  BY WaitingType, PauseAssumption DEF Jobs, pauseLoop
<1>2. JobAt' = JobAt /\ \A i \in JobAt : Waiting'[i] = Waiting[i]
  <2> HIDE DEF n
  <2>1. \A i : i \in 1 .. n + 1 <=> i \in 1 .. n \/ i = n + 1
    BY <1>1
  <2> QED BY <1>1, <2>1 DEF JobAt, Queued, n
<1>3. CallbacksInOrder'
  BY <1>2 DEF CallbacksInOrder
<1>4. n + 1 \in LoopAt'
  BY <1>1 DEF LoopAt, Queued
<1> QED BY <1>3, <1>4

LEMMA QueuedJobKeeps ==
  ASSUME TypeOK, CallbacksInOrder, asked < MaxCalls, Queued(asked + 1),
         asked' = asked + 1, called' = called
  PROVE  CallbacksInOrder' /\ (LoopAt # {} => LoopAt' # {})
<1> DEFINE n == Len(Waiting)
<1>1. /\ n \in Nat /\ DOMAIN Waiting = 1 .. n
      /\ asked \in Nat /\ asked + 1 \in Jobs /\ Len(called) \in Nat
      /\ \A i \in 1 .. n + 1 : i \in 1 .. n \/ i = n + 1
  BY WaitingType, PauseAssumption, LenProperties DEF Jobs, TypeOK
<1>2. /\ JobAt' = JobAt \cup {n + 1} /\ n + 1 \notin JobAt
      /\ \A i \in JobAt : Waiting'[i] = Waiting[i]
      /\ \A i \in JobAt : i \in 1 .. n /\ i < n + 1
      /\ Waiting'[n + 1] = asked + 1
  <2> HIDE DEF n
  <2>1. \A i : i \in 1 .. n + 1 <=> i \in 1 .. n \/ i = n + 1
    BY <1>1
  <2> QED BY <1>1, <2>1 DEF JobAt, Queued, n
<1> HIDE DEF n
<1>3. /\ called = [k \in 1 .. Len(called) |-> k] /\ Len(called) <= asked
      /\ {Waiting[i] : i \in JobAt} = Len(called) + 1 .. asked
      /\ \A i, j \in JobAt : i < j => Waiting[i] < Waiting[j]
  BY DEF CallbacksInOrder
<1>4. {Waiting'[i] : i \in JobAt'} = Len(called') + 1 .. asked'
  <2>1. {Waiting'[i] : i \in JobAt'} = {Waiting[i] : i \in JobAt} \cup {asked + 1}
    BY <1>2
  <2>2. \A a, b \in Nat : a <= b => (a + 1 .. b) \cup {b + 1} = a + 1 .. b + 1
    OBVIOUS
  <2>3. (Len(called) + 1 .. asked) \cup {asked + 1} = Len(called) + 1 .. asked + 1
    BY <1>1, <1>3, <2>2
  <2> QED BY <1>3, <2>1, <2>3, Zenon
<1>5. \A i, j \in JobAt' : i < j => Waiting'[i] < Waiting'[j]
  <2> SUFFICES ASSUME NEW i \in JobAt', NEW j \in JobAt', i < j
               PROVE  Waiting'[i] < Waiting'[j]
    OBVIOUS
  <2>1. i \in JobAt
    BY <1>1, <1>2
  <2>2. CASE j \in JobAt
    BY <1>2, <1>3, <2>1, <2>2
  <2>3. CASE j = n + 1
    <3>1. Waiting[i] \in Len(called) + 1 .. asked
      BY <1>3, <2>1
    <3> QED BY <1>1, <1>2, <2>1, <2>3, <3>1
  <2> QED BY <1>2, <2>2, <2>3
<1>6. CallbacksInOrder'
  BY <1>1, <1>3, <1>4, <1>5 DEF CallbacksInOrder
<1>7. ASSUME NEW i \in LoopAt PROVE i \in LoopAt'
  <2>1. i \in 1 .. n /\ i \in 1 .. n + 1 /\ Waiting[i] = pauseLoop
    BY <1>1 DEF LoopAt
  <2> QED BY <2>1 DEF LoopAt, Queued, n
<1> QED BY <1>6, <1>7

LEMMA TakenLoopKeeps ==
  ASSUME TypeOK, CallbacksInOrder, Taken(pauseLoop), UNCHANGED <<asked, called>>
  PROVE  CallbacksInOrder'
<1> DEFINE n == Len(Waiting)
<1>1. n \in Nat \ {0} /\ DOMAIN Waiting = 1 .. n /\ DOMAIN Waiting' = 1 .. n - 1
      /\ pauseLoop \notin Jobs
  BY WaitingType, PauseAssumption DEF Jobs, pauseLoop, Taken
<1>2. \A i \in JobAt' : i + 1 \in JobAt /\ Waiting'[i] = Waiting[i + 1]
  <2> HIDE DEF n
  <2> QED BY <1>1 DEF JobAt, Taken, n
<1>3. \A k \in JobAt : k \in 2 .. n /\ k - 1 \in JobAt' /\ Waiting'[k - 1] = Waiting[k]
  <2> SUFFICES ASSUME NEW k \in JobAt
               PROVE  k \in 2 .. n /\ k - 1 \in JobAt' /\ Waiting'[k - 1] = Waiting[k]
    OBVIOUS
  <2>1. k \in 1 .. n /\ k # 1
    BY <1>1 DEF JobAt, Taken
  <2>2. k \in 2 .. n /\ k - 1 \in 1 .. n - 1 /\ (k - 1) + 1 = k
    BY <1>1, <2>1
  <2>3. Waiting'[k - 1] = Waiting[k]
    BY <2>2 DEF Taken
  <2> QED BY <1>1, <2>2, <2>3 DEF JobAt
<1> HIDE DEF n
<1>4. {Waiting'[i] : i \in JobAt'} = {Waiting[i] : i \in JobAt}
  BY <1>2, <1>3
<1>5. \A i, j \in JobAt' : i < j => Waiting'[i] < Waiting'[j]
  <2> SUFFICES ASSUME NEW i \in JobAt', NEW j \in JobAt', i < j
               PROVE  Waiting'[i] < Waiting'[j]
    OBVIOUS
  <2>1. i + 1 \in JobAt /\ j + 1 \in JobAt /\ i + 1 < j + 1
    BY <1>1, <1>2 DEF JobAt
  <2> QED BY <1>2, <2>1 DEF CallbacksInOrder
<1> QED BY <1>4, <1>5 DEF CallbacksInOrder

\* The job that is taken is the next one.
LEMMA TakenJobKeeps ==
  ASSUME TypeOK, CallbacksInOrder, NEW c \in Jobs, Taken(c),
         called' = Append(called, c), asked' = asked
  PROVE  CallbacksInOrder' /\ (LoopAt # {} => LoopAt' # {})
<1> DEFINE n == Len(Waiting)
           d == Len(called)
<1>1. n \in Nat \ {0} /\ DOMAIN Waiting = 1 .. n /\ DOMAIN Waiting' = 1 .. n - 1
      /\ pauseLoop \notin Jobs /\ d \in Nat /\ asked \in Nat /\ Jobs \subseteq Nat
  BY WaitingType, PauseAssumption, LenProperties DEF Jobs, pauseLoop, Taken, TypeOK
<1>2. \A i \in JobAt' : i + 1 \in JobAt /\ i + 1 # 1 /\ Waiting'[i] = Waiting[i + 1]
  <2> HIDE DEF n
  <2> QED BY <1>1 DEF JobAt, Taken, n
<1>3. \A k \in 2 .. n : k - 1 \in 1 .. n - 1 /\ Waiting'[k - 1] = Waiting[k]
  <2> SUFFICES ASSUME NEW k \in 2 .. n
               PROVE  k - 1 \in 1 .. n - 1 /\ Waiting'[k - 1] = Waiting[k]
    OBVIOUS
  <2>1. k - 1 \in 1 .. n - 1 /\ (k - 1) + 1 = k
    BY <1>1
  <2> QED BY <2>1 DEF Taken
<1>4. 1 \in JobAt /\ Waiting[1] = c
  BY <1>1 DEF JobAt, Taken
<1>5. \A k \in JobAt : k # 1 => k \in 2 .. n /\ k - 1 \in JobAt'
  <2> SUFFICES ASSUME NEW k \in JobAt, k # 1 PROVE k \in 2 .. n /\ k - 1 \in JobAt'
    OBVIOUS
  <2>1. k \in 2 .. n
    BY <1>1 DEF JobAt
  <2> QED BY <1>1, <1>3, <2>1 DEF JobAt
<1> HIDE DEF n, d
<1>6. /\ called = [k \in 1 .. d |-> k] /\ d <= asked
      /\ {Waiting[i] : i \in JobAt} = d + 1 .. asked
      /\ \A i, j \in JobAt : i < j => Waiting[i] < Waiting[j]
  BY DEF CallbacksInOrder, d
<1>7. c = d + 1 /\ c <= asked
  <2>1. c \in d + 1 .. asked
    BY <1>4, <1>6
  <2>2. d + 1 \in d + 1 .. asked
    BY <1>1, <2>1
  <2>3. PICK k \in JobAt : Waiting[k] = d + 1
    BY <1>6, <2>2
  <2>4. k = 1 \/ 1 < k
    BY <1>1, <1>5
  <2>5. k # 1 => c < d + 1
    BY <1>4, <1>6, <2>3, <2>4
  <2> QED BY <1>1, <1>4, <2>1, <2>3, <2>5
<1>8. Len(called') = d + 1 /\ called' = [k \in 1 .. d + 1 |-> k]
  <2>1. /\ called' \in Seq(Jobs) /\ Len(called') = d + 1
        /\ \A k \in 1 .. d : called'[k] = called[k]
        /\ called'[d + 1] = c
    BY AppendProperties DEF TypeOK, d
  <2>2. called' \in [1 .. d + 1 -> Jobs]
    BY <2>1, LenProperties
  <2>3. \A k \in 1 .. d + 1 : called'[k] = k
    <3> SUFFICES ASSUME NEW k \in 1 .. d + 1 PROVE called'[k] = k
      OBVIOUS
    <3>1. CASE k = d + 1
      BY <1>7, <2>1, <3>1
    <3>2. CASE k # d + 1
      <4>1. k \in 1 .. d
        BY <1>1, <3>2
      <4> QED BY <1>6, <2>1, <4>1
    <3> QED BY <3>1, <3>2
  <2> QED BY <2>1, <2>2, <2>3
<1>9. {Waiting'[i] : i \in JobAt'} = Len(called') + 1 .. asked'
  <2>1. ASSUME NEW i \in JobAt' PROVE Waiting'[i] \in d + 2 .. asked
    <3>1. i + 1 \in JobAt /\ 1 < i + 1
      BY <1>1, <1>2 DEF JobAt
    <3>2. Waiting[i + 1] \in d + 1 .. asked /\ d + 1 < Waiting[i + 1]
      BY <1>4, <1>6, <1>7, <3>1
    <3> QED BY <1>1, <1>2, <3>2
  <2>2. ASSUME NEW v \in d + 2 .. asked PROVE \E i \in JobAt' : Waiting'[i] = v
    <3>1. v \in d + 1 .. asked /\ v # d + 1
      BY <1>1, <2>2
    <3>2. PICK k \in JobAt : Waiting[k] = v
      BY <1>6, <3>1
    <3>3. k # 1
      BY <1>4, <1>7, <3>1, <3>2
    <3> QED BY <1>3, <1>5, <3>2, <3>3
  <2>3. {Waiting'[i] : i \in JobAt'} = d + 2 .. asked
    BY <2>1, <2>2
  <2>4. (d + 1) + 1 = d + 2
    BY <1>1
  <2> QED BY <1>8, <2>3, <2>4
<1>10. \A i, j \in JobAt' : i < j => Waiting'[i] < Waiting'[j]
  <2> SUFFICES ASSUME NEW i \in JobAt', NEW j \in JobAt', i < j
               PROVE  Waiting'[i] < Waiting'[j]
    OBVIOUS
  <2>1. i + 1 \in JobAt /\ j + 1 \in JobAt /\ i + 1 < j + 1
    BY <1>1, <1>2 DEF JobAt
  <2> QED BY <1>2, <1>6, <2>1
<1>11. CallbacksInOrder'
  <2>1. Len(called') <= asked'
    BY <1>7, <1>8
  <2> QED BY <1>8, <1>9, <1>10, <2>1 DEF CallbacksInOrder
<1>12. ASSUME NEW k \in LoopAt PROVE k - 1 \in LoopAt'
  <2>1. k \in 1 .. n /\ k # 1 /\ Waiting[k] = pauseLoop
    BY <1>1, <1>4 DEF LoopAt
  <2>2. k \in 2 .. n
    BY <1>1, <2>1
  <2> QED BY <1>1, <1>3, <2>1, <2>2 DEF LoopAt
<1> QED BY <1>11, <1>12

\* pause_loop() is taken off and queued again.
LEMMA RotateKeeps ==
  ASSUME TypeOK, CallbacksInOrder, executing # <<>>, Head(executing) = pauseLoop,
         executing' = Tail(executing), queue' = Append(queue, pauseLoop),
         UNCHANGED <<asked, called>>
  PROVE  CallbacksInOrder' /\ LoopAt' # {}
<1> DEFINE e == Len(executing)
           q == Len(queue)
           n == Len(Waiting)
<1>1. queue \in Seq(Callback) /\ executing \in Seq(Callback) /\ pauseLoop \in Callback
      /\ pauseLoop \notin Jobs
  BY DEF TypeOK, Callback, Jobs, pauseLoop
<1>2. /\ e \in Nat \ {0} /\ q \in Nat /\ executing[1] = pauseLoop
      /\ executing' \in Seq(Callback) /\ Len(executing') = e - 1
      /\ \A i \in 1 .. e - 1 : executing'[i] = executing[i + 1]
  BY <1>1, LenProperties, EmptySeq, HeadTailProperties
<1>3. /\ queue' \in Seq(Callback) /\ Len(queue') = q + 1
      /\ \A i \in 1 .. q : queue'[i] = queue[i]
      /\ queue'[q + 1] = pauseLoop
  BY <1>1, AppendProperties
<1>4. /\ n = e + q
      /\ \A i \in 1 .. e + q : Waiting[i] = IF i <= e THEN executing[i] ELSE queue[i - e]
  BY <1>1, ConcatProperties DEF Waiting
<1>5. /\ Waiting' \in Seq(Callback)
      /\ Len(Waiting') = (e - 1) + (q + 1)
      /\ \A i \in 1 .. (e - 1) + (q + 1) :
           Waiting'[i] = IF i <= e - 1 THEN executing'[i] ELSE queue'[i - (e - 1)]
  <2> DEFINE t == executing'
             u == queue'
  <2>1. t \in Seq(Callback) /\ Len(t) = e - 1 /\ u \in Seq(Callback) /\ Len(u) = q + 1
        /\ Waiting' = t \o u
    BY <1>2, <1>3 DEF Waiting
  <2> HIDE DEF t, u
  <2>2. /\ t \o u \in Seq(Callback)
        /\ Len(t \o u) = Len(t) + Len(u)
        /\ \A i \in 1 .. Len(t) + Len(u) :
             (t \o u)[i] = IF i <= Len(t) THEN t[i] ELSE u[i - Len(t)]
    BY <2>1, ConcatProperties
  <2> QED BY <2>1, <2>2 DEF t, u
<1> HIDE DEF e, q
<1>6. DOMAIN Waiting' = 1 .. n /\ DOMAIN Waiting = 1 .. n /\ n \in Nat \ {0}
  <2>1. DOMAIN Waiting' = 1 .. (e - 1) + (q + 1)
    BY <1>5, LenProperties
  <2>2. (e - 1) + (q + 1) = n /\ n \in Nat \ {0}
    BY <1>2, <1>4
  <2> QED BY <2>1, <2>2, WaitingType
<1>7. ASSUME NEW i \in 1 .. n - 1
      PROVE  Waiting'[i] = Waiting[i + 1]
  <2>1. i \in 1 .. (e - 1) + (q + 1) /\ i + 1 \in 1 .. e + q
    BY <1>2, <1>4
  <2>2. CASE i <= e - 1
    <3>1. Waiting'[i] = executing'[i] /\ Waiting[i + 1] = executing[i + 1]
      BY <1>2, <1>4, <1>5, <2>1, <2>2
    <3> QED BY <1>2, <2>1, <2>2, <3>1
  <2>3. CASE ~ (i <= e - 1)
    <3>0. ~ (i + 1 <= e)
      BY <1>2, <2>1, <2>3
    <3>1. Waiting'[i] = queue'[i - (e - 1)] /\ Waiting[i + 1] = queue[(i + 1) - e]
      BY <1>4, <1>5, <2>1, <2>3, <3>0, Zenon
    <3>2. i - (e - 1) = (i + 1) - e /\ (i + 1) - e \in 1 .. q
      BY <1>2, <1>4, <2>1, <2>3
    <3> QED BY <1>3, <3>1, <3>2
  <2> QED BY <2>2, <2>3
<1>8. Waiting'[n] = pauseLoop /\ Waiting[1] = pauseLoop
  <2>1. n \in 1 .. (e - 1) + (q + 1) /\ ~ (n <= e - 1) /\ n - (e - 1) = q + 1
        /\ 1 \in 1 .. e + q /\ 1 <= e
    BY <1>2, <1>4
  <2> QED BY <1>2, <1>3, <1>4, <1>5, <2>1
<1> HIDE DEF n
<1>9. \A i \in JobAt' : i \in 1 .. n - 1 /\ i + 1 \in JobAt /\ Waiting'[i] = Waiting[i + 1]
  <2> SUFFICES ASSUME NEW i \in JobAt'
               PROVE  i \in 1 .. n - 1 /\ i + 1 \in JobAt /\ Waiting'[i] = Waiting[i + 1]
    OBVIOUS
  <2>1. i \in 1 .. n /\ i # n
    BY <1>1, <1>6, <1>8 DEF JobAt
  <2>2. i \in 1 .. n - 1 /\ i + 1 \in 1 .. n
    BY <1>6, <2>1
  <2> QED BY <1>6, <1>7, <2>2 DEF JobAt
<1>10. \A k \in JobAt : k - 1 \in JobAt' /\ Waiting'[k - 1] = Waiting[k]
  <2> SUFFICES ASSUME NEW k \in JobAt
               PROVE  k - 1 \in JobAt' /\ Waiting'[k - 1] = Waiting[k]
    OBVIOUS
  <2>1. k \in 1 .. n /\ k # 1
    BY <1>1, <1>6, <1>8 DEF JobAt
  <2>2. k - 1 \in 1 .. n - 1 /\ k - 1 \in 1 .. n /\ (k - 1) + 1 = k
    BY <1>6, <2>1
  <2>3. Waiting'[k - 1] = Waiting[k]
    BY <1>7, <2>2
  <2> QED BY <1>6, <2>2, <2>3 DEF JobAt
<1>11. {Waiting'[i] : i \in JobAt'} = {Waiting[i] : i \in JobAt}
  <2>1. \A i \in JobAt' : \E k \in JobAt : Waiting'[i] = Waiting[k]
    BY <1>9
  <2>2. \A k \in JobAt : \E i \in JobAt' : Waiting[k] = Waiting'[i]
    BY <1>10
  <2> QED BY <2>1, <2>2
<1>12. \A i, j \in JobAt' : i < j => Waiting'[i] < Waiting'[j]
  <2> SUFFICES ASSUME NEW i \in JobAt', NEW j \in JobAt', i < j
               PROVE  Waiting'[i] < Waiting'[j]
    OBVIOUS
  <2>1. i + 1 \in JobAt /\ j + 1 \in JobAt /\ i + 1 < j + 1
    BY <1>6, <1>9
  <2> QED BY <1>9, <2>1 DEF CallbacksInOrder
<1>13. CallbacksInOrder'
  BY <1>11, <1>12 DEF CallbacksInOrder
<1>14. n \in LoopAt'
  BY <1>6, <1>8 DEF LoopAt
<1> QED BY <1>13, <1>14

-----------------------------------------------------------------------------
(* The inductive invariant.                                                *)

\* Nothing is paused, queued or pending; the emulation runs or is in the monitor.
Quiet ==
  /\ isPaused = FALSE /\ enterMonitor = FALSE
  /\ pausePending = FALSE /\ shouldPause = FALSE
  /\ queue = <<>> /\ executing = <<>>
  /\ traps = 0 /\ batch = 0 /\ reset = FALSE
  /\ caller = "vsync" /\ pc \in {"run", "monitor"}
  /\ asked = 0 /\ called = <<>>

LEMMA QuietKeeps == Quiet => PauseInv
<1> SUFFICES ASSUME Quiet PROVE PauseInv
  OBVIOUS
<1>1. Waiting = <<>>
  BY DEF Quiet, Waiting
<1>2. LoopAt = {} /\ JobAt = {} /\ called = <<>> /\ asked = 0 /\ Len(called) = 0
  BY <1>1 DEF Quiet, LoopAt, JobAt
<1>3. CallbacksInOrder
  BY <1>2 DEF CallbacksInOrder
<1>4. TypeOK
  <2>1. {queue, executing} \subseteq Seq(Jobs \cup {pauseLoop}) /\ called \in Seq(Jobs)
    BY DEF Quiet
  <2>2. {traps, batch} \subseteq 0 .. MaxTraps + 1 /\ asked \in 0 .. MaxCalls
    BY PauseAssumption DEF Quiet
  <2> QED BY <2>1, <2>2 DEF Quiet, TypeOK
<1>5. TrapsBounded /\ Asleep /\ PauseHeld
  BY PauseAssumption DEF Quiet, TrapsBounded, Asleep, PauseHeld
<1> QED BY <1>3, <1>4, <1>5 DEF PauseInv

LEMMA PauseInit == Init => PauseInv
BY QuietKeeps DEF Init, Quiet

\* What ui_pause_enable() does to the queue.
LEMMA PauseEnableKeeps ==
  ASSUME TypeOK, CallbacksInOrder, PauseHeld, PauseEnable,
         UNCHANGED <<executing, asked, called>>
  PROVE  /\ queue' \in Seq(Callback) /\ isPaused' = TRUE
         /\ CallbacksInOrder'
         /\ IF isPaused THEN LoopAt' = LoopAt ELSE LoopAt' # {}
<1>1. pauseLoop \in Callback /\ queue \in Seq(Callback)
  BY DEF Callback, TypeOK
<1>2. CASE isPaused
  BY <1>1, <1>2, SameKeeps DEF PauseEnable, Same
<1>3. CASE ~ isPaused
  <2>1. queue' = Append(queue, pauseLoop)
    BY <1>3 DEF PauseEnable
  <2>2. Queued(pauseLoop)
    BY <1>1, <2>1, QueueCallback
  <2>3. queue' \in Seq(Callback)
    BY <1>1, <2>1, AppendProperties
  <2> QED BY <1>3, <2>2, <2>3, QueuedLoopKeeps DEF PauseEnable
<1> QED BY <1>2, <1>3

\* The UI's actions.
LEMMA UserKeeps ==
  ASSUME PauseInv, User
  PROVE  PauseInv'
<1> USE PauseAssumption DEF PauseInv
<1>1. CASE PauseToggle
  <2>1. UNCHANGED <<enterMonitor, pausePending, shouldPause, executing, cpu, caller,
                    pc, history>>
    BY <1>1 DEF PauseToggle
  <2>2. CASE isPaused
    <3>1. isPaused' = FALSE /\ Same
      BY <1>1, <2>1, <2>2 DEF PauseToggle, Same, history
    <3>2. CallbacksInOrder'
      BY <3>1, SameKeeps
    <3> QED BY <2>1, <3>1, <3>2 DEF Same, TypeOK, TrapsBounded, Asleep, PauseHeld, cpu, history
  <2>3. CASE ~ isPaused
    <3>1. PauseEnable
      BY <1>1, <2>3 DEF PauseToggle
    <3>2. queue' \in Seq(Callback) /\ isPaused' = TRUE /\ CallbacksInOrder' /\ LoopAt' # {}
      BY <2>1, <2>3, <3>1, PauseEnableKeeps DEF history
    <3> QED BY <2>1, <3>2 DEF Callback, TypeOK, TrapsBounded, Asleep, PauseHeld, cpu, history
  <2> QED BY <2>2, <2>3
<1>2. CASE AdvanceFrame
  <2>1. UNCHANGED <<enterMonitor, shouldPause, executing, cpu, caller, pc, history>>
    BY <1>2 DEF AdvanceFrame
  <2>2. CASE isPaused
    <3>1. isPaused' = FALSE /\ pausePending' = TRUE /\ Same
      BY <1>2, <2>1, <2>2 DEF AdvanceFrame, Same, history
    <3>2. CallbacksInOrder'
      BY <3>1, SameKeeps
    <3> QED BY <2>1, <3>1, <3>2 DEF Same, TypeOK, TrapsBounded, Asleep, PauseHeld, cpu, history
  <2>3. CASE ~ isPaused
    <3>1. PauseEnable /\ pausePending' = pausePending
      BY <1>2, <2>3 DEF AdvanceFrame
    <3>2. queue' \in Seq(Callback) /\ isPaused' = TRUE /\ CallbacksInOrder' /\ LoopAt' # {}
      BY <2>1, <2>3, <3>1, PauseEnableKeeps DEF history
    <3> QED BY <2>1, <3>1, <3>2
            DEF Callback, TypeOK, TrapsBounded, Asleep, PauseHeld, cpu, history
  <2> QED BY <2>2, <2>3
<1>3. CASE MonitorOpen
  <2>1. /\ UNCHANGED <<isPaused, pausePending, shouldPause, batch, reset, caller, pc>>
        /\ Same /\ traps < MaxTraps
        /\ IF isPaused THEN enterMonitor' = TRUE /\ UNCHANGED traps
                       ELSE StartupTrap /\ UNCHANGED enterMonitor
    BY <1>3 DEF MonitorOpen, Same, history, Bounded
  <2>2. CallbacksInOrder' /\ LoopAt' = LoopAt
    BY <2>1, SameKeeps
  <2>3. TypeOK' /\ TrapsBounded' /\ traps <= traps'
    <3>1. traps \in 0 .. MaxTraps + 1 /\ enterMonitor \in BOOLEAN /\ traps < MaxTraps
      BY <2>1 DEF TypeOK
    <3>2. CASE isPaused
      <4>1. enterMonitor' = TRUE /\ traps' = traps
        BY <2>1, <3>2, Zenon
      <4> QED BY <2>1, <3>1, <4>1 DEF Same, TypeOK, TrapsBounded
    <3>3. CASE ~ isPaused
      <4>1. traps' \in {traps, traps + 1} /\ enterMonitor' = enterMonitor
        BY <2>1, <3>3, Zenon DEF StartupTrap
      <4> QED BY <2>1, <3>1, <4>1 DEF Same, TypeOK, TrapsBounded
    <3> QED BY <3>2, <3>3
  <2> QED BY <2>1, <2>2, <2>3 DEF Same, Asleep, PauseHeld, TypeOK
<1>4. CASE MachineReset
  <2>1. /\ UNCHANGED <<enterMonitor, pausePending, shouldPause, traps, batch, caller, pc>>
        /\ Same /\ reset' = TRUE /\ isPaused' \in {isPaused, FALSE}
    BY <1>4 DEF MachineReset, Same, history
  <2>2. CallbacksInOrder' /\ LoopAt' = LoopAt
    BY <2>1, SameKeeps
  <2>3. isPaused \in BOOLEAN
    BY DEF TypeOK
  <2>4. isPaused' \in BOOLEAN /\ (isPaused' => isPaused)
    <3>1. isPaused' = isPaused \/ isPaused' = FALSE
      BY <2>1
    <3>2. CASE isPaused' = isPaused
      BY <2>3, <3>2, Zenon
    <3>3. CASE isPaused' = FALSE
      BY <3>3, Zenon
    <3> QED BY <3>1, <3>2, <3>3
  <2> QED BY <2>1, <2>2, <2>4 DEF Same, TypeOK, TrapsBounded, Asleep, PauseHeld
<1>5. CASE OnVsyncDo
  <2>1. /\ UNCHANGED <<isPaused, enterMonitor, pausePending, shouldPause, executing,
                       traps, batch, reset, caller, pc, called>>
        /\ asked < MaxCalls /\ asked' = asked + 1 /\ queue' = Append(queue, asked + 1)
    BY <1>5 DEF OnVsyncDo, ui, cpu
  <2>2. asked + 1 \in Jobs /\ asked' \in 0 .. MaxCalls
    BY <2>1 DEF Jobs, TypeOK
  <2>3. CallbacksInOrder' /\ (LoopAt # {} => LoopAt' # {})
    BY <2>1, <2>2, QueueCallback, QueuedJobKeeps DEF Callback
  <2>4. queue' \in Seq(Callback)
    BY <2>1, <2>2, AppendProperties DEF Callback, TypeOK
  <2> QED BY <2>1, <2>2, <2>3, <2>4
          DEF Callback, TypeOK, TrapsBounded, Asleep, PauseHeld
<1>6. CASE Go
  <2>1. /\ UNCHANGED <<enterMonitor, pausePending, executing, traps, batch, reset, caller,
                       asked, called>>
        /\ pc = "monitor" /\ pc' \in {"monLoop", "run", "traps"} /\ shouldPause' = FALSE
    BY <1>6 DEF Go, cpu, history, MonitorReturns
  <2>2. CASE shouldPause \/ isPaused
    <3>1. PauseEnable
      BY <1>6, <2>2 DEF Go
    <3>2. queue' \in Seq(Callback) /\ isPaused' = TRUE /\ CallbacksInOrder'
          /\ IF isPaused THEN LoopAt' = LoopAt ELSE LoopAt' # {}
      BY <2>1, <3>1, PauseEnableKeeps
    <3> QED BY <2>1, <3>2 DEF Callback, TypeOK, TrapsBounded, Asleep, PauseHeld
  <2>3. CASE ~ (shouldPause \/ isPaused)
    <3>1. isPaused' = FALSE /\ Same
      BY <1>6, <2>1, <2>3 DEF Go, Same, TypeOK
    <3>2. CallbacksInOrder'
      BY <3>1, SameKeeps
    <3> QED BY <2>1, <3>1, <3>2 DEF Same, TypeOK, TrapsBounded, Asleep, PauseHeld
  <2> QED BY <2>2, <2>3
<1>7. CASE LeaveUnpaused
  <2>1. /\ UNCHANGED <<isPaused, enterMonitor, pausePending, shouldPause, traps, batch,
                       caller>>
        /\ Same /\ pc = "monitor" /\ pc' \in {"run", "traps"} /\ reset' \in BOOLEAN
    BY <1>7 DEF LeaveUnpaused, Same, ui, history, MonitorReturns, TypeOK
  <2>2. CallbacksInOrder' /\ LoopAt' = LoopAt
    BY <2>1, SameKeeps
  <2> QED BY <2>1, <2>2 DEF Same, TypeOK, TrapsBounded, Asleep, PauseHeld
<1> QED BY <1>1, <1>2, <1>3, <1>4, <1>5, <1>6, <1>7 DEF User

\* The steps of the emulation at the end of a frame.
LEMMA VsyncKeeps ==
  ASSUME PauseInv,
         DoVsync \/ Flip \/ CallJob \/ PauseLoop \/ SleepEnds \/ CallbacksEnd
  PROVE  PauseInv'
<1> USE PauseAssumption DEF PauseInv
<1>1. queue \in Seq(Callback) /\ executing \in Seq(Callback) /\ pauseLoop \in Callback
  BY DEF TypeOK, Callback
<1>2. CASE DoVsync
  <2>1. /\ UNCHANGED <<enterMonitor, shouldPause, executing, traps, batch, reset,
                       asked, called>>
        /\ pc = "run" /\ pc' = "callbacks" /\ caller' = "vsync" /\ pausePending' = FALSE
    BY <1>2 DEF DoVsync, cpu, history
  <2>2. CASE pausePending
    <3>1. PauseEnable
      BY <1>2, <2>2 DEF DoVsync
    <3>2. queue' \in Seq(Callback) /\ isPaused' = TRUE /\ CallbacksInOrder'
          /\ IF isPaused THEN LoopAt' = LoopAt ELSE LoopAt' # {}
      BY <2>1, <3>1, PauseEnableKeeps
    <3> QED BY <2>1, <3>2 DEF Callback, TypeOK, TrapsBounded, Asleep, PauseHeld
  <2>3. CASE ~ pausePending
    <3>1. isPaused' = isPaused /\ Same
      BY <1>2, <2>1, <2>3 DEF DoVsync, Same
    <3>2. CallbacksInOrder' /\ LoopAt' = LoopAt
      BY <3>1, SameKeeps
    <3> QED BY <2>1, <3>1, <3>2 DEF Same, TypeOK, TrapsBounded, Asleep, PauseHeld
  <2> QED BY <2>2, <2>3
<1>3. CASE Flip
  <2>1. /\ UNCHANGED <<isPaused, enterMonitor, pausePending, shouldPause, traps, batch,
                       reset, caller, pc, asked, called>>
        /\ executing = <<>> /\ executing' = queue /\ queue' = <<>> /\ pc = "callbacks"
    BY <1>3 DEF Flip, ui, cpu, history
  <2>2. Waiting' = Waiting
    BY <1>1, <2>1, ConcatEmptySeq DEF Waiting
  <2>3. CallbacksInOrder' /\ LoopAt' = LoopAt
    BY <2>1, <2>2 DEF CallbacksInOrder, LoopAt, JobAt
  <2> QED BY <1>1, <2>1, <2>3 DEF TypeOK, TrapsBounded, Asleep, PauseHeld
<1>4. CASE CallJob
  <2>1. /\ UNCHANGED <<isPaused, enterMonitor, pausePending, shouldPause, queue, traps,
                       batch, reset, caller, pc, asked>>
        /\ executing # <<>> /\ executing' = Tail(executing) /\ Head(executing) \in Jobs
        /\ called' = Append(called, Head(executing)) /\ pc = "callbacks"
    BY <1>4 DEF CallJob, ui, cpu
  <2>2. Taken(Head(executing))
    BY <2>1, TakeCallback
  <2>3. CallbacksInOrder' /\ (LoopAt # {} => LoopAt' # {})
    BY <2>1, <2>2, TakenJobKeeps
  <2>4. executing' \in Seq(Callback) /\ called' \in Seq(Jobs)
    BY <1>1, <2>1, HeadTailProperties, AppendProperties DEF TypeOK
  <2> QED BY <1>1, <2>1, <2>3, <2>4 DEF Callback, TypeOK, TrapsBounded, Asleep, PauseHeld
<1>5. CASE PauseLoop
  <2>1. /\ UNCHANGED <<isPaused, pausePending, shouldPause, queue, batch, reset, caller,
                       asked, called>>
        /\ executing # <<>> /\ Head(executing) = pauseLoop /\ pc = "callbacks"
    BY <1>5 DEF PauseLoop, history
  <2>2. CASE isPaused /\ enterMonitor
    <3>1. traps' = traps + 1 /\ enterMonitor' = FALSE /\ executing' = Tail(executing)
          /\ pc' = pc
      BY <1>5, <2>1, <2>2 DEF PauseLoop, StartupTrap
    <3>2. executing' \in Seq(Callback)
      BY <1>1, <2>1, <3>1, HeadTailProperties
    <3>3. CallbacksInOrder'
      BY <2>1, <3>1, TakeCallback, TakenLoopKeeps
    <3>4. traps' \in 0 .. MaxTraps + 1 /\ traps' > 0 /\ TrapsBounded'
      BY <2>2, <3>1 DEF TypeOK, TrapsBounded
    <3> QED BY <1>1, <2>1, <3>1, <3>2, <3>3, <3>4 DEF Callback, TypeOK, Asleep, PauseHeld
  <2>3. CASE isPaused /\ ~ enterMonitor
    <3>1. UNCHANGED <<traps, enterMonitor, executing>> /\ pc' = "sleep"
      BY <1>5, <2>3 DEF PauseLoop
    <3>2. CallbacksInOrder' /\ LoopAt' = LoopAt
      BY <2>1, <3>1, SameKeeps DEF Same
    <3>3. LoopAt # {}
      <4>1. 1 \in DOMAIN Waiting /\ Waiting[1] = Head(executing)
        <5>1. /\ Len(executing) \in Nat \ {0} /\ Len(queue) \in Nat
              /\ Head(executing) = executing[1]
          BY <1>1, <2>1, EmptySeq, LenProperties, HeadTailProperties
        <5>2. /\ Len(Waiting) = Len(executing) + Len(queue)
              /\ \A i \in 1 .. Len(executing) + Len(queue) :
                   Waiting[i] = IF i <= Len(executing) THEN executing[i]
                                ELSE queue[i - Len(executing)]
          BY <1>1, ConcatProperties DEF Waiting
        <5>3. DOMAIN Waiting = 1 .. Len(Waiting)
          BY WaitingType
        <5> QED BY <5>1, <5>2, <5>3
      <4> QED BY <2>1, <4>1 DEF LoopAt
    <3> QED BY <2>1, <3>1, <3>2, <3>3 DEF TypeOK, TrapsBounded, Asleep, PauseHeld
  <2>4. CASE ~ isPaused
    <3>1. UNCHANGED <<traps, enterMonitor, pc>> /\ executing' = Tail(executing)
      BY <1>5, <2>4 DEF PauseLoop
    <3>2. executing' \in Seq(Callback)
      BY <1>1, <2>1, <3>1, HeadTailProperties
    <3>3. CallbacksInOrder'
      BY <2>1, <3>1, TakeCallback, TakenLoopKeeps
    <3> QED BY <2>1, <2>4, <3>1, <3>2, <3>3
            DEF Callback, TypeOK, TrapsBounded, Asleep, PauseHeld
  <2> QED BY <2>2, <2>3, <2>4
<1>6. CASE SleepEnds
  <2>1. /\ UNCHANGED <<isPaused, enterMonitor, pausePending, shouldPause, traps, batch,
                       reset, caller, asked, called>>
        /\ pc = "sleep" /\ pc' = "callbacks"
        /\ executing # <<>> /\ Head(executing) = pauseLoop /\ executing' = Tail(executing)
        /\ queue' = IF isPaused THEN Append(queue, pauseLoop) ELSE queue
    BY <1>6 DEF SleepEnds, ui, cpu, history, Asleep
  <2>2. executing' \in Seq(Callback) /\ queue' \in Seq(Callback)
    BY <1>1, <2>1, HeadTailProperties, AppendProperties
  <2>3. CallbacksInOrder' /\ (isPaused => LoopAt' # {})
    <3>1. CASE isPaused
      BY <2>1, <3>1, RotateKeeps
    <3>2. CASE ~ isPaused
      BY <2>1, <3>2, TakeCallback, TakenLoopKeeps
    <3> QED BY <3>1, <3>2
  <2> QED BY <2>1, <2>2, <2>3 DEF Callback, TypeOK, TrapsBounded, Asleep, PauseHeld
<1>7. CASE CallbacksEnd
  <2>1. /\ UNCHANGED <<isPaused, enterMonitor, pausePending, shouldPause, traps, batch,
                       caller>>
        /\ Same /\ pc = "callbacks" /\ pc' = "run" /\ reset' \in BOOLEAN
    BY <1>7 DEF CallbacksEnd, Same, ui, history, TypeOK
  <2>2. CallbacksInOrder' /\ LoopAt' = LoopAt
    BY <2>1, SameKeeps
  <2> QED BY <2>1, <2>2 DEF Same, TypeOK, TrapsBounded, Asleep, PauseHeld
<1> QED BY <1>2, <1>3, <1>4, <1>5, <1>6, <1>7

\* Traps, resets and the monitor.
LEMMA TrapsKeep ==
  ASSUME PauseInv,
         \/ Interrupt \/ MonitorTrap \/ Breakpoint \/ MonitorPause
         \/ MonitorSleepEnds \/ TrapsEnd
  PROVE  PauseInv'
<1> USE PauseAssumption DEF PauseInv
<1>1. Same /\ pausePending' = pausePending
  BY DEF Interrupt, MonitorTrap, Breakpoint, MonitorPause, MonitorSleepEnds, TrapsEnd,
         MonitorStartup, Same, ui, cpu, history
<1>2. CallbacksInOrder' /\ LoopAt' = LoopAt
  BY <1>1, SameKeeps
<1>3. CASE Interrupt
  BY <1>1, <1>2, <1>3
     DEF Interrupt, ui, Same, TypeOK, TrapsBounded, Asleep, PauseHeld
<1>4. CASE MonitorTrap
  <2>1. /\ batch' \in 0 .. MaxTraps + 1 /\ isPaused' = FALSE /\ pc' = "monitor"
        /\ shouldPause' \in BOOLEAN /\ UNCHANGED <<enterMonitor, traps, reset, caller>>
    BY <1>4 DEF MonitorTrap, MonitorStartup, TypeOK
  <2> QED BY <1>1, <1>2, <2>1 DEF Same, TypeOK, TrapsBounded, Asleep, PauseHeld
<1>5. CASE Breakpoint
  <2>1. /\ isPaused' = FALSE /\ pc' = "monitor" /\ caller' = "breakpoint"
        /\ shouldPause' \in BOOLEAN /\ UNCHANGED <<enterMonitor, traps, batch, reset>>
    BY <1>5 DEF Breakpoint, MonitorStartup, TypeOK, cpu
  <2> QED BY <1>1, <1>2, <2>1 DEF Same, TypeOK, TrapsBounded, Asleep, PauseHeld
<1>6. CASE MonitorPause
  <2>1. /\ pc = "monLoop" /\ pc' \in {"monSleep", "run", "traps"}
        /\ UNCHANGED <<isPaused, shouldPause, batch, reset, caller>>
    BY <1>6 DEF MonitorPause, MonitorReturns
  <2>2. CASE isPaused /\ enterMonitor
    <3>1. traps' = traps + 1 /\ enterMonitor' = FALSE
      BY <1>6, <2>1, <2>2 DEF MonitorPause, StartupTrap
    <3>2. traps' \in 0 .. MaxTraps + 1 /\ TrapsBounded'
      BY <2>2, <3>1 DEF TypeOK, TrapsBounded
    <3> QED BY <1>1, <1>2, <2>1, <3>1, <3>2 DEF Same, TypeOK, Asleep, PauseHeld
  <2>3. CASE ~ (isPaused /\ enterMonitor)
    <3>1. UNCHANGED <<traps, enterMonitor>>
      BY <1>6, <2>3 DEF MonitorPause
    <3> QED BY <1>1, <1>2, <2>1, <3>1 DEF Same, TypeOK, TrapsBounded, Asleep, PauseHeld
  <2> QED BY <2>2, <2>3
<1>7. CASE MonitorSleepEnds
  BY <1>1, <1>2, <1>7
     DEF MonitorSleepEnds, ui, cpu, Same, TypeOK, TrapsBounded, Asleep, PauseHeld
<1>8. CASE TrapsEnd
  <2>1. /\ pc = "traps" /\ batch = 0 /\ reset' = FALSE
        /\ UNCHANGED <<isPaused, enterMonitor, shouldPause, batch>>
        /\ traps' \in {0, traps} /\ pc' \in {"run", "callbacks"}
        /\ caller' \in {caller, "reset"}
    BY <1>8 DEF TrapsEnd, ui
  <2>2. traps' \in 0 .. MaxTraps + 1 /\ TrapsBounded'
    BY <2>1 DEF TypeOK, TrapsBounded
  <2>3. PauseHeld' /\ Asleep'
    BY <1>2, <2>1 DEF PauseHeld, Asleep
  <2>4. TypeOK'
    BY <1>1, <2>1, <2>2 DEF Same, TypeOK
  <2> QED BY <1>2, <2>2, <2>3, <2>4
<1> QED BY <1>3, <1>4, <1>5, <1>6, <1>7, <1>8

-----------------------------------------------------------------------------

\* Every step of either thread keeps the invariant.
LEMMA PauseStepKeeps ==
  ASSUME PauseInv, [Next]_vars
  PROVE  PauseInv'
<1>1. CASE Next
  BY <1>1, UserKeeps, VsyncKeeps, TrapsKeep DEF Next, Step
<1>2. CASE UNCHANGED vars
  <2>1. UNCHANGED <<isPaused, enterMonitor, pausePending, shouldPause, traps, batch,
                    reset, caller, pc>> /\ Same
    BY <1>2 DEF vars, ui, cpu, history, Same
  <2>2. CallbacksInOrder' /\ LoopAt' = LoopAt
    BY <2>1, SameKeeps DEF PauseInv
  <2> QED BY <2>1, <2>2 DEF Same, PauseInv, TypeOK, TrapsBounded, Asleep, PauseHeld
<1> QED BY <1>1, <1>2

\* The inductive invariant of the pause.
THEOREM PauseConsistent == Spec => []PauseInv
<1>1. PauseInv /\ [Next]_vars => PauseInv'
  BY PauseStepKeeps
<1> QED BY <1>1, PauseInit, PTL DEF Spec

\* Every variable keeps its type; at most one trap more than the UI may ask for is
\* pending.
THEOREM TypeCorrect == Spec => []TypeOK
<1>1. PauseInv => TypeOK
  BY DEF PauseInv
<1> QED BY <1>1, PauseConsistent, PTL

\* While is_paused is set a pause_loop() is queued or asleep, or the monitor is on
\* its way: the emulation does not run past the end of the frame.
THEOREM PauseAlwaysHolds == Spec => []PauseHolds
<1>1. PauseInv => PauseHolds
  BY DEF PauseInv, PauseHeld, PauseHolds
<1> QED BY <1>1, PauseConsistent, PTL

\* vsync_on_vsync_do() calls each callback once and in the order they were queued,
\* whatever pauses, resets and monitors come between.
THEOREM CallbacksAlwaysInOrder == Spec => []CallbacksInOrder
<1>1. PauseInv => CallbacksInOrder
  BY DEF PauseInv
<1> QED BY <1>1, PauseConsistent, PTL
=============================================================================
