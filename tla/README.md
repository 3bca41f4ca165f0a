# VICE in TLA+

Specifications, model-checking runs and machine-checked proofs for the parts of
VICE (the Versatile Commodore Emulator, `src/vice/src`) in which the order of
events matters: the scheduling of the emulated devices, the interrupt lines and
traps, the timers and interrupts of the CIA, the lock, the pause and the frames
shared by the user interface and the emulation, the keyboard buffer and netplay. All paths below are relative to `src/vice/src`.

## 1. Inventory

VICE emulates nine machines. In the GTK3 build a process has a UI thread, a
*VICE thread* that runs the emulation, a sound back end and render threads. The
VICE thread executes 6502 instructions; before each it calls the devices whose
*alarms* are due, serves interrupts, and calls *traps*, functions that other
parts want run between two instructions. At the end of each video frame it
calls the vsync hooks (netplay, keyboard buffer, autostart, vsync callbacks)
and yields the main lock to the UI.

| Component | State | Operations | Interacts with | Hard behaviour | Correct when |
|---|---|---|---|---|---|
| Alarm contexts (`alarm.c`, `alarm.h`) | pending array, back indexes, cached earliest clock | new, destroy, set, unset, dispatch | CPU loop calls it; every chip sets alarms, from callbacks too | callbacks change the agenda that is being walked | no alarm lost, late, early or given to another device |
| Interrupt lines and traps (`interrupt.c`, `interrupt.h`) | who pulls IRQ and NMI, counters, flags, trap queue | set/release a line, trigger, reset, snapshot | chips, CPU core, UI (through traps), snapshots | several chips on a line; alarms inside an interrupt sequence; traps that trigger traps | counters follow the lines; NMI not lost; traps called once and in order |
| Main CPU (`6510core.c`, `maincpu.c`) | registers, clock, JAM | instruction, DO_INTERRUPT, reset, JAM | all of the above | where other code runs in the loop | the three above are driven at the right places |
| Main lock (`mainlock.c`, `archdep_exit.c`, `main.c`) | owner, nesting depth, waiting flags, keep-alive | obtain, release, yield, sleep, exit | UI and VICE threads | unfair mutex, lost and spurious wake-ups, exits from both sides | exclusion, no starvation, a shutdown ends |
| Keyboard buffer (`kbdbuf.c`) | ring, held RETURN, alarm, KERNAL buffer | feed, flush, alarm, abort, relocate, init | autostart, `-keybuf`, paste, the emulated KERNAL, alarms | reset, typing and re-init while a RETURN is held back | text arrives in order, once, and nothing is written behind the buffer |
| Netplay (`network.c`, `socket.c`) | mode, sockets, ring of event lists, suspension | start, connect, the connect traps, the frame hook, suspend, disconnect | event recording, vsync, UI, snapshots, traps | two processes in lockstep over TCP, broken connections | both machines play the same inputs in the same frame |
| Event history (`event.c`) | list, cursor, mode, milestone | record, play back, milestones | every input, snapshots, alarms | playback against recorded clocks; a snapshot in the middle | playback repeats the recording |
| Vsync and pause (`vsync.c`, `arch/gtk3/ui.c`, `vsyncarch.c`) | two callback queues, pause flags | queue, execute, pause loop, advance a frame, open and leave the monitor, reset | UI thread, monitor, traps, screenshots, netplay | the pause is itself a callback that sleeps and queues itself; flag and queue are changed from both threads | the pause holds and ends; each callback is called once, in order, also during a pause |
| Render queue (`arch/gtk3/render_queue.c`, `render_thread.c`, `opengl_renderer.c`) | pool of back buffers, queue, jobs | take, draw, enqueue, push a job, dequeue, return, shut down, join | VICE thread, UI thread, render thread | the lock is given up while a frame is drawn; jobs and frames are queued apart; shutdown | a buffer has one owner; frames are shown in order and none waits for the next |
| Autostart (`autostart.c`) | state machine, saved resources | advance, inject, reset | kbdbuf, attach, snapshots, traps | prompts awaited, resets, failures in the middle | settings restored in the end |
| Datasette (`datasette/datasette.c`) | motor, mode, alarms | keys, motor, bits | alarms, event recording | delayed motor stop | the tape position follows the motor |
| Monitor (`monitor/`) | checkpoints, binary protocol | break, step, commands | traps, sockets | commands of two clients | a hit stops once |
| Fliplist, attach, vdrive (`fliplist.c`, `attach.c`, `vdrive/`) | lists, channels, BAM | attach, open, write, close | image formats | a failure in the middle of a file operation | the BAM agrees with the files |
| Snapshots, resources (`snapshot.c`, `resources.c`) | modules, settings | read, write, set | everything | one of many modules fails | all or nothing |
| CIA timers and interrupts (`core/ciatimer.h`, `core/ciacore.c`) | counters, latches, pipeline bits, ICR and mask, delay line, three alarms | register accesses, timer and idle alarms | alarms, CPU, IRQ and NMI lines | computed rarely, in jumps; alarms skipped; several alarms and an access in one cycle | reads and the line are those of a chip computed in every cycle |
| Other timers, ports (`core/`), drives (`drive/`), IEC bus | registers, alarms, clocks | store, read, catch up | alarms, CPU | devices that run behind the CPU and catch up | reads see the present |
| Video, sound, cartridges, image formats, peripherals, tools, dialogs | | | | registers, pixels and formats | out of scope, see 7 |

## 2. Modules

| Module | Role |
|---|---|
| `AlarmSpec` | what an alarm context promises: an agenda |
| `Alarm` | the context and PROCESS_ALARMS; implements `AlarmSpec` |
| `AlarmProofs` | its invariants and the refinement, proved |
| `Interrupt` | lines, traps, DO_INTERRUPT, JAM, reset, snapshots |
| `InterruptProofs` | its safety invariants, proved |
| `Mainlock` | the lock and the shutdown |
| `KbdbufSpec` | what feeding promises: a queue |
| `Kbdbuf` | the ring, flush and the RETURN alarm; implements `KbdbufSpec` |
| `KbdbufProofs` | its safety invariants and the refinement, proved |
| `Netplay` | server and client over TCP |
| `NetplayProofs` | its safety invariants, proved |
| `PauseParams`, `Pause` | vsync callbacks, the pause, and the monitor and resets around it |
| `PauseProofs` | its safety invariants, proved |
| `RenderQueueParams`, `RenderQueue` | back buffers and jobs between VICE, UI and render thread |
| `CiaTimer` | one CIA timer as `ciatimer.h` computes it: operators only |
| `Cia` | two timers, the ICR and the alarms, beside the chip computed cycle by cycle |
| `CiaProofs` | its types, `OncePerCycle`, `AlarmIsFirstUnderflow`, `TimersExact` and that the jumps are exact, proved |
| `CiaIrqProofs` | `ReadsExact` and `LineExact` for programs in which B never counts A, proved |
| `MCAlarm`, `MCInterrupt`, `MCKbdbuf`, `MCNetplay`, `MCCia` | instances for TLC |
| `MCThreads` | instance of `Mainlock`, `Pause` and `RenderQueue` for TLC |
| `ThreadsProofs` | the lock's safety invariants, the render queue's and the order of its frames, proved; and what is proved of `Mainlock`, `Pause` and `RenderQueue`, proved of that instance |

Names are the source's where there are any. A definition whose comment begins
with "Mutant:" is not part of the specification: it is the definition after it
with a plausible mistake, kept to show that a property notices the mistake.
The constants of `Pause` and `RenderQueue` and what is assumed of them are in
modules of their own: `MCThreads` extends these, so that TLC evaluates the
assumptions, and instantiates the components.

### Alarm
`pendingAlarm`, `pendingClk` and `numPending` are `pending_alarms[]`,
`pendingIdx` is each alarm's `pending_idx`, `nextClk`/`nextIdx` the cache.
`AlarmSet` has the two branches of `alarm_set()` (`AddPending`,
`ModifyPending`) and its refusal when the array is full; `AlarmUnset` has the
move of the last entry into the hole. `Dispatch` is
`alarm_context_dispatch()`; it enters `callback`, where the code of the device
calls any operation any number of times, its own destruction included, before
`Return`. `CpuReset` sets the clock back.

### Interrupt
`global` is `global_pending_int`, `ik` the value the CPU loop read into `ik`.
`pc` is where the CPU is: `run` between and within instructions, `tail` at the
end of the loop, `serve` in DO_INTERRUPT, `vector` between entry and the choice
of the vector (alarms run there), `traps`/`trapfn` in `interrupt_do_trap()`,
`monitor`, `jam`. Devices pull and release lines wherever other code runs
(`Outside`). Clocks are reduced to the comparisons the code makes.

Snapshots are saved and loaded at the places in `SnapshotPoints`: by a trap, from
the monitor or the dialog of a JAM, and in a pause, whose loop runs in an alarm, so
between instructions and at `vector` too. A load is made of its parts: the CPU's
module sets every source to none and reads counters and flags, then the chips'
modules set their sources. Those in `Restores` use `interrupt_restore_irq()`; those
in `Pullers` (`aciacore.c`) pull the line anew; others (the C64DTV's DMA and
blitter) do neither. `LoadSnapshot` reads all of them. `LoadFails` stops anywhere in
the CPU's module or with any set of chips read, and asks for a reset. The run has
`run` and `trapfn` for `SnapshotPoints`, the proofs all places. Four
history variables tell what a machine has come from: `origin` is `whole`, `half`
(after a failed load) or `parts` (some line was not restored), and is kept in a
snapshot; `deaf` says that the lines were saved by a CPU that a JAM had made ignore
them; `loadedAt` is the last trap triggered before flags were overwritten; `forNmi` is
forgotten when another machine is loaded. `MaxSavedLines` bounds the lines counted
in a snapshot: without it a machine with stuck lines, saved and loaded again, counts
without end.

`MCInterrupt` checks two instances in one run, for lines and traps together only
multiply the states: `part` is chosen at the start, and devices pull lines in one,
trigger traps and call the monitor in the other (`PartOK`). CPU, resets, JAMs and
snapshots are in both. The runs of findings 1 and 6 are of `Interrupt` itself.

### Mainlock
`vice`, `ui` and `phase` are program counters. A section under `internal_lock`
takes no other lock and is one step. The UI's handlers nest to `MaxDepth`;
`mainlock_obtain()` is `Obtain`, `Wait`, `Awake`, `Lock`, `HasLock`, and
`mainlock_yield_begin()` is `YieldBegin`, `HandOver`. `ViceExit` is an exit
asked on the VICE thread (`archdep_vice_exit()`), `UiExit` the one of the menu.

### Kbdbuf
`queue`, `headIdx`, `numPending` are the ring; `delayed` is "the alarm's time
is set", `alarm` and `orphan` tell whether the current and a replaced alarm are
in the agenda; `buffer` is the KERNAL's buffer in emulated memory, emptied by
`KernalRead`, filled by `Type` (both external). `Word` is the width of the
unsigned length of a flush. `Char` is the set of characters: the model tells
RETURN from the others, and names what the ring holds at first and what is typed.

### Netplay
`socket`, `listen` and `mode` are the pointers and the mode; a closed socket is
"closed", not "none", since the code keeps the pointer. `link` is what the TCP
of each side knows: up, eof, reset. `HookSend` is the first half of
`network_hook()` and the part of the second up to its wait; `SkipReceive`,
`ReceiveSuspended`, `ReceiveFrame`, `ReceiveFails` and `Spin` are the ways the
second ends. The machine is the sequence of played inputs; a sync test carries
it, as the code's carries five registers, and since these may be equal when the
machines are not, a difference ends the session or goes unnoticed. An event list
is its events and the sync test when that comes first: the code looks at no
other one, and plays none (`event_playback_event_list()`). The UI acts only while the VICE thread
runs or is about to run a connect trap, for the lock is held otherwise. `spin`
is the endless loop of `network_recv_buffer()` when `recv()` returns 0, `abort`
a failed assertion, `crash` a write through the unallocated frame list.

### Pause
`pc` says where the VICE thread is: in a frame (`run`), calling callbacks, in
the sleep of a pause (`sleep`; `monSleep` for the loop at the end of
`monitor_startup()`), in a trap, at the monitor's prompt. `queue` and
`executing` are the two queues of `vsync.c`; `pauseLoop` is the callback
`pause_loop()`, other callbacks are numbered. UI actions hold `main_lock`, so
they happen where the VICE thread has yielded it (`UiRuns`); in `run` that is
the sleep between two frames or one in the sound code. `DoVsync` is
`vsync_do_vsync()` with `vsyncarch_postsync()`; `PauseLoop` and `SleepEnds` are
`pause_loop()` before and after its sleep; `TrapsEnd` is DO_INTERRUPT after the
traps, where `cpu_reset()` empties the trap queue and calls the callbacks.

### RenderQueue
`pool`, `queue` and `drawing` are the three places of a back buffer, `jobs` the
jobs that wait in GLib's thread pool, `render` where the render thread is. What
is under the canvas lock is one step: `GetFromPool` and `Drawn` are the two
locked parts of `vice_opengl_refresh_rect()`, `Upload` that of `render()`.
`frame`, `content` and `texture` number the frames. `Join` drops waiting jobs as
`g_thread_pool_free(..., TRUE, TRUE)` does.

### CiaTimer and Cia
Clocks are relative to the present cycle: `lag` is how far a timer is behind
(`clk_ptr - ciat->clk`), `due` how far its alarm is ahead, `ifr` how far the
interrupt logic is behind (`rclk - ifr_clock`; -1 when this cycle has been run).
The bits of `ciat_tstate_t`, `ifr_delay` and the registers are sets of names.
`Advance` has the branches of `ciat_update()`, `Round` is one round of its loop
and `CatchUp` the loop, a function of the number of rounds that does nothing once
the timer is up to date; `IfrRound` and `IfrCycles` are the same for
`cia_ifr_catchup()`. `NextUnderflow` is the walk of `ciat_set_alarm()`, four
steps at most: the delays of the pipeline are over then, which the lemma
`WalkIsShort` proves. `Accesses` is what a program may do to the chip; the
assumptions are that programs do nothing else, that a counter is two bytes of
`LoSize` values each, and that `Gap` and `MaxIdle` are at least 1. `line` is what `interrupt_set_irq()` has been told: `next`
is an assertion for the next cycle, which the code makes a cycle early. An
access and the alarms of a cycle come in the order of the program, the access
first (`ciacore.c`, comment before `cia_set_irq_flag()`), but an alarm that is due
may also run before the CPU gets to its access.

`ref` is the abstract chip: the same rules for one cycle (`Settle`,
`RunIfrCycle`), applied in every cycle, with no jump, no alarm and no look
ahead. The properties compare the two in each cycle: a mistake in when and how
far the emulation computes shows, one in the rules of a single cycle does not.
`TimersExact` compares timer A at any time, and timer B unless the program makes it
count A; `ReadsExact` timer B and the ICR at the CPU's turn, `LineExact` the interrupt line at the end of a cycle. The bit `COUNT`
is compared nowhere: no register shows it, and after a latch of zero the two
chips may differ in it.

### MCThreads
The three parts share no variable (each UI action takes the lock as a whole), so
their product would only multiply states. `part` chooses one of them at the
start and the others rest: the run has the sum of their behaviours. The part
`quiet` is the lock again, without spurious wake-ups, of which the freedom from
starvation is claimed.

## 3. Runs

| Run | Shows | Bounds, and why they are enough |
|---|---|---|
| `alarm` | types, `IndexesAgree`, `NextIsEarliest`, `ImplementsAgenda` | 4 alarms for 3 slots: the array fills up and refuses; a hole can be before, at and after the cached index; clocks 0..2 give ties, past and future |
| `interrupt` | lines: types, `CountsAgree`, `IrqVisible`, `FailedLoadResets`, `NmiKept` | 2 sources share both lines; reset, JAM; snapshots of up to one line are saved and loaded between instructions, over machines that pull up to four; loads fail at any point |
| | traps: `TrapsInOrder`, `TrapFlagged`, `TrapsServed` | 3 traps: one running, one waiting, one nested; only the first of a batch triggers; snapshots saved and loaded by traps and outside of them |
| `interrupt_nested_traps` | violated `TrapsInOrder` | 4 traps; the second of a batch triggers too |
| `interrupt_paused_load` | violated `TrapNextCycle` | 1 trap, snapshots outside of traps |
| `threads` | types of the three parts; lock: `Exclusive`, `NoLostWakeup`, `ShutdownEnds`, `WaitingUiServed`, `YieldingViceResumes` | handlers nest to 2; spurious wake-ups; exits of both threads |
| | pause: `PauseHolds`, `CallbacksInOrder`, `CallbacksServed`, `Resumes` | 2 other callbacks, 2 pause loops and a trap queued before the UI adds another: a pause ended and begun in one sleep, a callback between two loops, a trap before a reset |
| | render queue: `OneOwner`, `FramesInOrder`, `FramesHaveJobs` | 2 buffers, 5 frames, 3 jobs: the pool is empty and full, buffers are used again, a shutdown comes at any moment |
| `mainlock_exit_race` | violated `ExitNeverReturns` | both threads exit |
| `kbdbuf` | types, `NoOverrun`, `HeldReturn`, `ImplementsFifo`, `Drained` | ring of 5, KERNAL buffer of 2, texts longer than the buffer and with RETURN inside, 3 feeds, 2 resets, 2 keys: the ring wraps and fills |
| `kbdbuf_overrun` | violated `NoOverrun` | a reset while a RETURN is held back |
| `netplay` | types, `Lockstep`, `BoundedSkew`, `WaitEnds` | delay of 2 frames, 3 frames in a session (one more than the ring), an event of either user in any frame, suspension in the first, 2 sessions, disconnection and a break at any moment |
| `netplay_double_close` | violated `NoDoubleClose` | one session |
| `cia` | types, `OncePerCycle`, `TimersExact`, `ReadsExact`, `LineExact`, `AlarmIsFirstUnderflow` | counters of 4 values in 2 bytes of 2, an access in any cycle or none, an idle alarm every 3 cycles, which makes the timers catch up over several underflows of the short periods; six programs: one timer in every mode, two with B counting A, interrupts of A on both chips, of B on the old chip with its bug |
| `cia_stale_step` | violated `CountsWhatItShould` | B counts A and is stopped and started, accesses 4 cycles apart |

Deadlock is checked for Alarm, Interrupt, Kbdbuf and Cia; the threads end with the
program, and Netplay's bounds (and its failed processes) stop it.

Bounds are constants named in each module. They bound how often something
happens (feeds, resets, keys, sessions, frames, events), never what the code
keeps; sizes (`MaxPending`, `QueueSize`, `BufferSize`, `Delta`) are the
program's own, made small.

## 4. Fairness

* `Interrupt!FairSpec`: the CPU goes on executing (`WF(Cpu)`). Nothing is
  assumed of devices.
* `Mainlock!FairSpec`: each thread that can run runs; handlers return and the UI
  processes its queue (strong, since other events come between); the mutex is
  *not* fair, which is the point of the hand-over protocol. `ShutdownEnds` has a
  fair mutex (`FairMutex`) as its premise, for there is no hand-over left then.
* `Pause!Fairness`: the VICE thread goes on (`WF(Step)`); frames end and pending
  interrupts are served (strong, since the UI may act in between). Nothing is
  assumed of the user: a pause may last, the monitor may stay at its prompt.
* `Kbdbuf!FairSpec`: frames follow each other, alarms fire, the KERNAL starts
  and reads its buffer. Nothing is assumed of who feeds, types or resets.
* `Netplay!FairSpec`: a VICE thread that is neither paused nor waiting runs, on
  both sides. Users need not do anything; the connection need not last.

With a spurious wake-up of `pthread_cond_wait()`, which is not in a loop
(`mainlock.c:179`, `mainlock.c:240`), exclusion and the shutdown hold; freedom
from starvation is checked without. `RenderQueue` and `Cia` have safety
properties only.

## 5. Proofs

TLAPS proves, for every value of the constants allowed by the modules'
assumptions:

* **Alarm** (`AlarmProofs`): `TypeOK`, `IndexesAgree` and `NextIsEarliest` are
  inductive only together (`IInv`): moving an entry needs the indexes, the cache
  needs the clocks of the entries in use. One lemma per operation on the array
  (`AddPendingKeeps`, `ModifyPendingKeeps`, `RemovePendingKeeps`, ...) shows
  what it keeps; `LastEarliestExists` shows that the scan of
  `alarm_context_update_next_pending()` finds an entry. `AlarmImplementsAgenda`
  proves the refinement: initial states map to initial states and every step to
  a step of the agenda or a stutter.
* **Interrupt** (`InterruptProofs`), wherever snapshots are saved and loaded:
  `LineInv` (types, counters, visibility, `FailedLoadResets`, and that a saved
  snapshot agrees with itself or holds the reset) for the lines, for any choice of
  `Restores` and `Pullers`; `CountsAgree` and `IrqVisible` speak of a machine that
  is `whole`, see 6 for the chips that make it less. `NmiInv` for the NMI.
  `TrapInv` for the queue, which adds where the running batch stands in the
  array (`TrapShape`), under `NestingTraps \subseteq {0}` (only the first trap
  of a batch triggers one). That last assumption is one the code needs and does
  not ensure: see 6.
  `FlagInv` for `TrapFlagged`: the flag is set whenever a trap is counted, at
  every program point, unless the last load has overwritten it and no trap has
  been triggered since. It needs no assumption: a trap that is triggered sets the
  flag for those that wait too. That they do wait until then is finding 6.
* **Mainlock** (in `ThreadsProofs`, first part): `MainlockInv` adds who owns the lock at each
  program point, what the flags say of the other thread and that the depth is
  the nesting.
* **RenderQueue** (in `ThreadsProofs`, second part; `R!` names its definitions): `QueueInv` has four parts. `Owned` says
  that pool, queue and the frame that is drawn hold every buffer, and that their
  lengths add up to the number of buffers: from this, and only from this, no
  buffer is in two places, which is how `OneOwner` is proved without induction
  over a queue. `InOrder` orders the contents of texture, queue and drawing.
  `Lifetime` says that nothing is queued before the widget is realized, and `Len(queue) <= Coming` that
  there is a job for each frame. `FramesInOrder` is an action property: only
  `Upload` changes the texture (`TextureAdvances`).
* **Pause** (`PauseProofs`): `PauseHolds` is not inductive: it does not say which
  pending trap will still be called. `PauseHeld` says, for each place of the
  VICE thread, who will end a pause: a loop that is queued or asleep, a trap
  that is pending before the batch is taken, the batch while it lasts.
  `PauseInv` adds the types, that the loop that sleeps is the one that is
  executed, that a request for the monitor has room for its trap, and
  `CallbacksInOrder`. It is proved for every number of callbacks, loops and
  traps; the lemmas on the two queues (`Waiting`) say how positions shift when a
  callback is queued, called or put back.
* **The run `threads`** (`ThreadsProofs`): in `MCThreads` one part moves while
  the others rest. `PartsStep` shows that each step of the whole is a step of
  each of `Mainlock`, `Pause` and `RenderQueue`, or leaves it alone; the three
  invariants hold then in the whole (`PartsConsistent`), and with them the
  properties that the run checks (`LockInThreads` for the lock's).
* **Kbdbuf** (`KbdbufProofs`): the lemmas on the ring come first: what a flush
  takes is a prefix of what waits (`RingTaken`), and a text that is stored goes
  behind it and overwrites nothing (`StoredBehind`); they rest on a few facts
  about `%`. Two invariants follow. `HeldInv` (types, the held RETURN is at the
  head of the queue, the pending alarm is the current one and there is one
  exactly while a RETURN is held) holds under `InDelay \subseteq {"type"}`,
  that is, when no reset and no second `kbdbuf_init()` comes while a RETURN is
  held back. `RoomInv` (`NoOverrun`, and room for a held RETURN) and the
  refinement `ImplementsFifo` hold under `InDelay = {}`, when nothing is typed
  in that time either. Typing breaks `RoomInv` but not `HeldInv`: the text
  survives, the place behind the buffer does not. The code ensures neither
  hypothesis (see 6); each is the weakest under which the theorem holds. The
  step lemmas prove the invariants and the step of the fifo together, since
  both follow from where the k characters of a flush go (`Flushed`).
* **Netplay** (`NetplayProofs`), for every `Delta` of two or more, every set of
  events, every choice of failures and any value of the bounds, so for sessions
  of any length. `LinkInv` says who holds which end of the connection,
  `OpeningInv` what is under way while a client joins, `ControlInv` where the
  VICE threads are: together they give that no frame of an old session reaches a
  new one. `DataInv` follows frame k by its number: it is in the sender's ring
  at place k % Delta until it is played (`OwnLists`), its messages are those of
  the lists not yet played, in order (`Channel`, with `Carries` naming the
  message of each list), the indexes of the ring count the frames played
  (`Ring`), nobody plays more than one frame more or less than he sent
  (`Counts`), and what has been played is the pair of both lists (`Same`, which
  is `Lockstep` from the moment the settings are under way). A step that
  touches no frame keeps all of it (`QuietStep`); the others have a lemma each.
  `BoundedSkew` follows: what a peer has played is a list the other has sent.

* **Cia** (`CiaProofs`), for counters of any width, any programs, any gap between
  accesses and any idle period. `AlarmIsFirstUnderflow` is the heart: an alarm is
  set from the state of one moment, and the timer is then computed again and
  again, in jumps, before the alarm runs. `Sound` names the states
  `ciat_update()` leaves (types; a running timer that is about to count is not at
  zero, since it would have been loaded), `Kept` that the first underflow, as the walk
  finds it from the present state, is where the alarm stands. `RoundUnderflow`
  shows that a round of the loop brings the underflow nearer by the cycles it
  takes, for each of the three jumps; `CatchUpFacts` adds the rounds up; and
  each handler and access has a lemma that says which of its timers end
  `Armed` (up to date, with an alarm that is not due). `CiaInv` adds that the
  idle alarm comes before a timer is more than `MaxIdle` cycles behind, that the
  interrupt logic has not run this cycle while a timer's alarm is due, and that
  it has not at the CPU's turn either: so nothing runs it twice in a cycle
  (`OncePerCycle`). The loops are recursive
  functions; an invariant of a loop is proved by induction over a set of numbers
  (`Induct`, from the library's well-foundedness of natural numbers), not over
  an operator.

  `JumpsAreExact` says that `ciat_update()` leaves what so many single cycles
  would (`Cycles`): the counter, the underflows and every bit but `COUNT`. It
  follows the cycles one by one beside a round of the loop, for each branch
  (`CountExact` with the periods of a counter that reloads, `ByTwoExact`,
  `Stands`, `CycleExact`). Its one exception, `Stalled`, is a timer that waits in a
  state taken for a lasting one although a step is pending: finding 5. From it
  follows `TimersExact`. `Seen` is a timer as it would look if it were computed
  now, with its toggle; every handler leaves that as it was (`Tells`), an access
  changes it in both chips alike (`AccessTwins`), and a cycle that passes for
  the emulated chip does to it what a computed cycle does to the other
  (`OlderTwins`). The same holds of timer B while it does not count A (`TellsB`,
  `AccessTwinsB`, `OlderTwinsB`), but for its toggle. So `RefInv`: the two chips
  are `Twins` in every state, and the alarms have no part in it: a skipped alarm
  cannot make such a timer wrong. `Stalled` does not come up, since nothing gives
  these timers a step. `Unchained` says that the program never sets the mode in
  which B counts A; timer A is exact without it.

  The interrupts and what is read (`CiaIrqProofs`), under `Unchained` too.
  `LineExact` and the ICR compare two registers that are never equal while the
  emulation runs: an underflow may not have been told yet, and the delays not have
  been drawn. `Reg` is the register as a value, `Elapse` a cycle of it and `Mark`
  what an underflow told does to it; `Past(c)` is the register with the cycles
  before this one drawn, `Present(c)` with this one and the underflows whose alarm
  is due, `Whole(c)` with those that nobody has told in time (`Late`). The code
  skips alarms only when it thinks that nobody can see it: `Harmless` says what
  that means for an underflow that is late (not masked in, or the line is asserted
  and stays so; not being acknowledged), and `Cover` that a timer whose alarm may
  be missing is in that state. `View` leaves out of a register what nobody can
  tell any more (a second assertion of an asserted line), and `NearElapse` shows that
  registers of equal view keep it over a cycle, `LateTold` that a harmless
  underflow told a cycle late gives the same view. Then every handler leaves the
  view of `Whole` (`TellsIrq`), every access does the same to both chips
  (`AccessAlike`), and a cycle that passes without being computed adds what the
  other chip computes (`OlderView`). `Prompt` covers the look ahead: the line has
  been asserted, or will be with the next cycle, or the idle alarm has been set to
  come then. `Bound` keeps the interrupt register less than `MaxIdle` cycles
  behind, which matters where the old chip's bug asks how long ago an ICR was
  read. `Pair` is all of it, and `IrqInv` that the two chips are such a pair. The
  model of the chip is a part of the program, which no step changes (`SamePair`).

  `ReadsAreExact` adds timer B's toggle. It has a second hypothesis, `Restart`: an
  access that stops B is at least two cycles before the next, or B is never
  stopped; without it `ReadsExact` is false (see 6). What is on its way through
  the pipeline of a B that has been stopped comes with the next cycle, and at an
  alarm, since writing CRB sets it: `Halted` follows it until that alarm has run, and
  gives that a start never finds an underflow that is owed. Every other access
  leaves the toggle as it shows (`AccessToggle`).

Only model-checked: liveness (`TrapsServed`, `WaitingUiServed`,
`YieldingViceResumes`, `ShutdownEnds`, `CallbacksServed`, `Resumes`, `Drained`,
`WaitEnds`), which is out of the prover's reach; and of `Cia` the programs in which
timer B counts A: for these `ReadsExact` and `LineExact` are not true of every
program (finding 5), and where they are it is because A's alarm comes at each of
its underflows.

## 6. Findings

With a run:

1. `interrupt_nested_traps`: `interrupt_maincpu_trigger_trap()`
   (`interrupt.c:327`) adds `traps_next` to `traps_count` while a batch runs,
   although `traps_count` still counts the traps that have run. From the second
   trap of a batch on, a trap triggered by a trap lands beyond its slot, and a
   slot never written is called.
2. `mainlock_exit_race`: when the UI is shutting down and the VICE thread calls
   `archdep_vice_exit()` before its next yield, `mainlock_initiate_shutdown()`
   returns and `assert(false)` fails (`archdep_exit.c:201`).
3. `kbdbuf_overrun`: a reset (`kbdbuf_abort()`) while a RETURN is held back
   makes `num_pending` negative; the next flush takes it as an unsigned length.
   The other members of `InDelay` break `NoOverrun` too: `"reinit"`, a second
   `kbdbuf_init()`, which replaces the alarm that is pending; and `"type"`, keys
   that fill the buffer before the alarm writes behind them. The run `kbdbuf`
   excludes the three.
4. `netplay_double_close`: `network_disconnect()` keeps the pointer to the socket
   it closes, and closes it again (`socket.c:1019`).

5. `cia_stale_step`: when timer B counts A and the CPU stops B in the cycle in
   which A underflows, the step A has given (`CIAT_STEP`) survives in the stopped
   timer (`ciatimer.h:303`), and B counts once too often when it is started
   again.
6. `interrupt_paused_load`: in a pause the UI saves and loads snapshots directly
   (`arch/gtk3/uisnapshot.c:366`, `:378`), and the flags of the snapshot overwrite
   the flag of traps that wait (`interrupt.c:459`). The traps stay in the queue and
   are called when another one is triggered, in a machine they were not meant for.

Seen while modelling, without a run of their own:

* When a pause is ended and begun again within one sleep, two pause loops are
  queued. If one of them takes the request to open the monitor
  (`arch/gtk3/ui.c:2648`), the other keeps the emulation in the pause: the trap,
  and with it the monitor, waits until the pause ends.
* A pause into which the monitor leaves sleeps inside the monitor's trap
  (`monitor/monitor.c:3448`): callbacks (screenshots, say) wait for its end,
  unlike in other pauses. `CallbacksServed` excepts it.
* `ciacore_store_internal()` takes a write to CRA or CRB for a start of the timer
  when the register had no START bit, but a one-shot timer that has stopped keeps
  its bit there: the toggle is not set again. Both chips of `Cia` do so.
* A write to CRB that starts timer B sets its toggle before `cia_update_tb()`
  (`ciacore.c:1071`), one to CRA after it (`ciacore.c:1011`). A B that is stopped and
  in the next cycle, in which it underflows, started again has its toggle turned
  back. It takes two writes to CRB in consecutive cycles, the first of which stops
  B; no single instruction makes them. With a program of timer B in every mode
  but counting A, with all latches, masks and reads, `ReadsExact` holds when `Gap`
  is 2 (171750 states) and is violated in this way when it is 1. `ReadsAreExact`
  proves that there is no other way.
* The flag of `-keybuf` (`kbdbuf.c:317`) is cleared by a completed flush only;
  until then a reset leaves a paste in the queue, unlike what the comment at
  `kbdbuf.c:315` says.
* `maincpu_jammed` is not in a snapshot of `maincpu.c`: interrupts are ignored after a
  snapshot has been loaded into a jammed machine, and one saved by a jammed machine
  lacks the flag of a line that is pulled. `IrqVisible` excepts both.
* Two kinds of modules do not restore the line they pulled. The ACIA's asserts it
  with `interrupt_set_int()` (`aciacore.c:873`) after the CPU's module has restored
  `nirq`: the line is counted twice, and the IRQ stays asserted when it is released.
  Those of the C64DTV's DMA and blitter (`c64dtv/c64dtvdma.c:572`) restore none:
  `nirq` counts a source that is not set, and that nobody can release. With a source
  in `Pullers`, or in neither set, "Number of active IRQ lines." (`interrupt.h:66`) is
  not true of `nirq` after `LoadSnapshot`; `CountsAgree` and `IrqVisible` speak of a
  machine that is `whole`.
* `machine_trigger_reset()` does nothing while events are played back
  (`machine.c:220`): a load that fails then leaves the parts of two states.
  `LoadFails` is a load outside of playback and netplay.
* In netplay a peer that closes leaves the other in an endless loop
  (`network.c:371`); a snapshot that cannot be written or read leaves the other
  waiting (`network.c:563`, `network.c:607`); settings that cannot be sent leave
  the server connected without frame lists (`network.c:554`). `WaitEnds` excepts
  the first two by name.

## 7. Not modelled

Opcodes, memory maps, video, sound, image formats, peripherals, cartridges and
tools are data transformations in one thread: tests reach them better. The
resources and command lines of the modelled parts, logging and messages are
left out. In Alarm, the two time-warp functions have no caller. In Pause, the timing of
frames. In RenderQueue, the drawing, and `render_skip`, which only the macOS
build sets. In Cia, the ports, the serial register, the time of day, FLAG and
CNT, reads of port B (which show the timers), the first store of a
read-modify-write instruction, which is made a cycle back in time
(`ciacore.c:1121`), snapshots, and the other timer
chips. In Netplay, the
transfer of images, the end of the program, and a second connection beside one
that a failed session left open. The other components of the inventory are in
the plan.

## 8. Plan

In order of what is hard to test in them:

1. *Done*: Alarm, Interrupt, Mainlock, Kbdbuf, Netplay, Pause, RenderQueue, Cia;
   proofs of all of them.
2. Cia: `ReadsExact` and `LineExact` for the programs in which timer B counts A
   and of which they are true: A's alarm at each of its underflows, and the step
   it gives to B.
3. Event history: recording and playback against an abstract log; milestones.
4. Autostart, composed with the interface of Kbdbuf (`KbdbufSpec`).
5. Datasette motor and the VIA's timers as clients of `AlarmSpec`.
6. The drive CPU catching up with the main CPU; fliplist and vdrive channels; the
   binary monitor.

Related runs are kept together, so that each component has one passing run where
its bounds allow it.
