------------------------------- MODULE Kbdbuf -------------------------------
(***************************************************************************)
(* Feeding text to the emulated machine (src/vice/src/kbdbuf.c).  Text is  *)
(* queued in a ring and flushed, once per frame and after each feed, into  *)
(* the KERNAL's keyboard buffer in emulated memory.  When a command is     *)
(* fed for autostart, RETURN is held back and delivered by an alarm.       *)
(***************************************************************************)
EXTENDS Integers, Sequences

CONSTANTS
  Char,          \* characters; "zero" is what the ring holds at first, "key"
                 \* one that is typed
  Text,          \* texts that are fed, sequences of characters
  CmdlineText,   \* the -keybuf text, <<>> when there is none
  KbdbufDelay,   \* BOOLEAN: -keybuf-delay is given
  QueueSize,     \* QUEUE_SIZE
  BufferSize,    \* buffer_size
  Word,          \* 2^(bits of unsigned int)
  MaxFeeds,      \* bound: texts fed in a behaviour
  MaxResets,     \* bound: resets in a behaviour
  MaxKeys,       \* bound: keys typed on the emulated keyboard
  InDelay        \* of {"reset", "reinit", "type"}: what may happen while a
                 \* RETURN is held back

VARIABLES
  queue,         \* queue: 0 .. QueueSize - 1 -> character
  headIdx,       \* head_idx
  numPending,    \* num_pending
  enabled,       \* kbd_buf_enabled
  cmdline,       \* kbd_buf_cmdline
  useAlarm,      \* use_kbdbuf_flush_alarm
  delayed,       \* kbdbuf_flush_alarm_time # 0: a RETURN is held back
  alarm,         \* kbdbuf_flush_alarm is pending
  orphan,        \* so is an alarm that kbdbuf_init() has replaced
  ready,         \* maincpu_clk >= kernal_init_cycles
  buffer,        \* the KERNAL's buffer, what was written behind it included
  feeds,         \* number of texts fed so far
  resets,        \* number of resets so far
  keys           \* number of keys typed so far

ring == <<queue, headIdx, numPending>>
alarms == <<delayed, alarm, orphan>>
config == <<enabled, ready>>
counts == <<feeds, resets, keys>>
vars == <<ring, cmdline, useAlarm, alarms, buffer, config, counts>>

ASSUME KbdbufAssumption ==
  /\ QueueSize \in Nat \ {0} /\ BufferSize \in Nat \ {0}
  /\ Word \in Nat /\ Word > QueueSize
  /\ {"return", "zero", "key"} \subseteq Char
  /\ Text \subseteq Seq(Char) /\ CmdlineText \in Seq(Char)
  /\ KbdbufDelay \in BOOLEAN
  /\ InDelay \subseteq {"reset", "reinit", "type"}
  /\ MaxFeeds \in Nat /\ MaxResets \in Nat /\ MaxKeys \in Nat

RETURN == "return"

-----------------------------------------------------------------------------

\* Mutant: the KERNAL's buffer need not be empty.
FlushFromAlways(q, h, num, useAlarm1) ==
  LET n == (IF num > BufferSize THEN BufferSize ELSE num) % Word
      at(i) == q[(h + i) % QueueSize]
      held == {i \in 0 .. n - 1 : useAlarm1 /\ at(i) = RETURN}
      k == IF held = {} THEN n ELSE CHOOSE i \in held : \A j \in held : i <= j
  IN  IF enabled /\ num # 0 /\ ready /\ ~ delayed
        THEN /\ buffer' = buffer \o [i \in 1 .. k |-> at(i - 1)]
             /\ numPending' = num - k
             /\ headIdx' = (h + k) % QueueSize
             /\ delayed' = (held # {})
             /\ alarm' = (alarm \/ held # {})
             /\ cmdline' = (cmdline /\ held # {})
             /\ UNCHANGED orphan
        ELSE /\ numPending' = num
             /\ headIdx' = h
             /\ UNCHANGED <<buffer, alarms, cmdline>>

\* kbdbuf_flush() on a ring q with head h and num characters.  n is unsigned;
\* the loop stops at a RETURN that has to be delayed.
FlushFrom(q, h, num, useAlarm1) ==
  LET n == (IF num > BufferSize THEN BufferSize ELSE num) % Word
      at(i) == q[(h + i) % QueueSize]
      held == {i \in 0 .. n - 1 : useAlarm1 /\ at(i) = RETURN}
      k == IF held = {} THEN n ELSE CHOOSE i \in held : \A j \in held : i <= j
  IN  IF enabled /\ num # 0 /\ buffer = <<>> /\ ready /\ ~ delayed
        THEN /\ buffer' = buffer \o [i \in 1 .. k |-> at(i - 1)]
             /\ numPending' = num - k
             /\ headIdx' = (h + k) % QueueSize
             /\ delayed' = (held # {})
             /\ alarm' = (alarm \/ held # {})
             /\ cmdline' = (cmdline /\ held # {})
             /\ UNCHANGED orphan
        ELSE /\ numPending' = num
             /\ headIdx' = h
             /\ UNCHANGED <<buffer, alarms, cmdline>>

\* Mutant: without the check for room.
StringToQueueUnchecked(text, useAlarm1) ==
  LET tail == (headIdx + numPending) % QueueSize
      offset(p) == (p - tail) % QueueSize
      q == [p \in 0 .. QueueSize - 1 |->
              IF offset(p) < Len(text) THEN text[offset(p) + 1] ELSE queue[p]]
  IN  /\ queue' = q
      /\ FlushFrom(q, headIdx, numPending + Len(text), useAlarm1)

\* string_to_queue()
StringToQueue(text, useAlarm1) ==
  LET tail == (headIdx + numPending) % QueueSize
      offset(p) == (p - tail) % QueueSize
      q == [p \in 0 .. QueueSize - 1 |->
              IF offset(p) < Len(text) THEN text[offset(p) + 1] ELSE queue[p]]
  IN  IF numPending + Len(text) > QueueSize \/ ~ enabled
        THEN UNCHANGED <<ring, alarms, cmdline, buffer>>
        ELSE /\ queue' = q
             /\ FlushFrom(q, headIdx, numPending + Len(text), useAlarm1)

\* kbdbuf_feed() (paste, monitor) and kbdbuf_feed_runcmd() (autostart)
Feed ==
  /\ feeds < MaxFeeds
  /\ \E text \in Text, runcmd \in BOOLEAN :
       /\ useAlarm' = runcmd
       /\ StringToQueue(text, runcmd)
  /\ feeds' = feeds + 1
  /\ UNCHANGED <<config, resets, keys>>

\* kbdbuf_feed_cmdline(), at start or when the autostart has finished
FeedCmdline ==
  /\ feeds < MaxFeeds
  /\ CmdlineText # <<>>
  /\ useAlarm' = KbdbufDelay
  /\ StringToQueue(CmdlineText, KbdbufDelay)
  /\ feeds' = feeds + 1
  /\ UNCHANGED <<config, resets, keys>>

\* kbdbuf_flush(), called by vsync_do_vsync() in every frame
Flush ==
  /\ FlushFrom(queue, headIdx, numPending, useAlarm)
  /\ UNCHANGED <<queue, useAlarm, config, counts>>

\* Mutants: RETURN stays in the queue; the time of the alarm is not cleared.
ReturnTwice ==
  /\ alarm' = FALSE
  /\ delayed' = FALSE
  /\ buffer' = Append(buffer, RETURN)
  /\ UNCHANGED <<ring, orphan, cmdline, useAlarm, config, counts>>

ReturnStillDelayed ==
  /\ alarm' = FALSE
  /\ buffer' = Append(buffer, RETURN)
  /\ numPending' = numPending - 1
  /\ headIdx' = (headIdx + 1) % QueueSize
  /\ UNCHANGED <<queue, delayed, orphan, cmdline, useAlarm, config, counts>>

\* kbdbuf_flush_alarm_triggered(): RETURN behind what the buffer holds.
Return ==
  /\ alarm' = FALSE
  /\ delayed' = FALSE
  /\ buffer' = Append(buffer, RETURN)
  /\ numPending' = numPending - 1
  /\ headIdx' = (headIdx + 1) % QueueSize
  /\ UNCHANGED <<queue, orphan, cmdline, useAlarm, config, counts>>

\* alarm_unset() in the callback does not reach an alarm that was replaced: it
\* stays pending.
AlarmTriggered == (alarm \/ orphan) /\ Return

\* machine_reset(): kbdbuf_abort(); the clock starts again.
Reset ==
  /\ resets < MaxResets
  /\ delayed => "reset" \in InDelay
  /\ numPending' = IF cmdline THEN numPending ELSE 0
  /\ ready' = FALSE
  /\ resets' = resets + 1
  /\ UNCHANGED <<queue, headIdx, enabled, cmdline, useAlarm, alarms, buffer,
                 feeds, keys>>

\* kbdbuf_reset(): the C128 changes its mode.
Relocate ==
  /\ resets < MaxResets
  /\ enabled' \in BOOLEAN
  /\ ready' \in BOOLEAN
  /\ buffer' = <<>>
  /\ resets' = resets + 1
  /\ UNCHANGED <<ring, cmdline, useAlarm, alarms, feeds, keys>>

\* kbdbuf_init() again: a PET or CBM-II loads a ROM or a snapshot.  The alarm is
\* a new one; what was fed to the first kbdbuf_init() is not fed again.
Reinit ==
  /\ resets < MaxResets
  /\ delayed => "reinit" \in InDelay
  /\ alarm' = FALSE
  /\ orphan' = (orphan \/ alarm)
  /\ enabled' \in BOOLEAN
  /\ ready' \in BOOLEAN
  /\ buffer' = <<>>
  /\ resets' = resets + 1
  /\ UNCHANGED <<ring, cmdline, useAlarm, delayed, feeds, keys>>

\* The emulated machine: the KERNAL clears its buffer, reads from it, and puts
\* in it what is typed, up to its size.
KernalInit ==
  /\ ~ ready
  /\ ready' = TRUE
  /\ buffer' = <<>>
  /\ UNCHANGED <<ring, cmdline, useAlarm, alarms, enabled, counts>>

KernalRead ==
  /\ buffer # <<>>
  /\ buffer' = Tail(buffer)
  /\ UNCHANGED <<ring, cmdline, useAlarm, alarms, config, counts>>

Type ==
  /\ keys < MaxKeys
  /\ delayed => "type" \in InDelay
  /\ Len(buffer) < BufferSize
  /\ buffer' = Append(buffer, "key")
  /\ keys' = keys + 1
  /\ UNCHANGED <<ring, cmdline, useAlarm, alarms, config, feeds, resets>>

-----------------------------------------------------------------------------

Init ==
  /\ queue = [p \in 0 .. QueueSize - 1 |-> "zero"]
  /\ headIdx = 0 /\ numPending = 0
  /\ enabled = TRUE /\ ready = FALSE
  /\ cmdline = (CmdlineText # <<>>)
  /\ useAlarm = FALSE /\ delayed = FALSE /\ alarm = FALSE /\ orphan = FALSE
  /\ buffer = <<>>
  /\ feeds = 0 /\ resets = 0 /\ keys = 0

Next ==
  \/ Feed \/ FeedCmdline \/ Flush \/ AlarmTriggered
  \/ Reset \/ Relocate \/ Reinit
  \/ KernalInit \/ KernalRead \/ Type

Spec == Init /\ [][Next]_vars

\* Frames pass, alarms are dispatched, the KERNAL reads its keyboard.
FairSpec ==
  Spec /\ WF_vars(Flush) /\ WF_vars(AlarmTriggered) /\ WF_vars(KernalInit)
       /\ WF_vars(KernalRead)

-----------------------------------------------------------------------------
(* What makes the keyboard buffer correct.                                 *)

\* Every variable keeps its type and the ring its bounds.
TypeOK ==
  /\ queue \in [0 .. QueueSize - 1 -> Char]
  /\ headIdx \in 0 .. QueueSize - 1
  /\ numPending \in 0 .. QueueSize
  /\ {enabled, ready, cmdline, useAlarm, delayed, alarm, orphan} \subseteq BOOLEAN
  /\ buffer \in Seq(Char)

\* buffer_size, "Maximum number of characters that fit in the buffer"
\* (kbdbuf.c:69): nothing is written behind it.
NoOverrun == Len(buffer) <= BufferSize

\* A RETURN that is held back is the next character of the queue, else the
\* alarm would deliver it in place of another.
HeldReturn == delayed => numPending > 0 /\ queue[headIdx] = RETURN

\* The queue delivers what was fed, in order and once.
Pending == [i \in 1 .. numPending |-> queue[(headIdx + i - 1) % QueueSize]]

Fifo == INSTANCE KbdbufSpec WITH pending <- Pending,
                                 Text <- Text \cup {CmdlineText}

ImplementsFifo == Fifo!Spec

\* What was fed is delivered, as long as the machine has a buffer to fill.
Drained == numPending > 0 ~> numPending = 0 \/ ~ enabled
=============================================================================
