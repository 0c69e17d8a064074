# TLA+ models of the PenguinScreen64 core

PenguinScreen64 is a Nintendo 64 emulator core: a fork of mupen64plus-core with
a VR video path.  Most of it is sequential arithmetic that unit tests and games
exercise well.  This directory is about the rest: the places where the result
depends on *when* things happen — timed events on a wrapping 32-bit clock,
interrupts that are masked and unmasked while they are pending, DMA engines that
wait for a completion event, signal-processor tasks that yield, resets in the
middle of all this, worker threads, savestates that a front-end asks for at any
moment, inputs that arrive over a network, and a headset whose runtime starts and
stops the session when it likes.

Paths below are relative to the repository; line numbers are those of the
`map` in `PROJECT.json`.

## 1. Inventory

### How the parts fit together

One thread, the *emulation thread*, runs the R4300 (an interpreter or a
recompiler) in blocks that end in a jump.  Register accesses of the program run
the handlers of the devices: these change device registers, **schedule events**
in the CP0 event queue (`add_interrupt_event`) and **signal interrupts** to MI.
At the end of a block, and in a few instructions, `cycle_count >= 0` calls
`gen_interrupt`, which handles **one** event: it calls the handler of a device,
takes an exception, carries out a reset, or loads or saves a state.  The
front-end's thread calls `CoreDoCommand`, which mostly leaves requests in global
variables for the emulation thread.  Native savestates are written by the worker
thread of the work queue.

| component | state | operations | talks to |
|---|---|---|---|
| event queue (`device/r4300/interrupt.c`, `cp0.c`) | list of [type, count], pool of 16 nodes, `next_interrupt`, `cycle_count` | add, remove, translate, init, save/load | all devices; Count, Compare |
| interrupts (`interrupt.c`, `cp0.c`, `mips_instructions.def`, `pure_interp.c`) | Status, Cause, Count, Compare, `skip_jump`, `interrupt_unsafe_state`, `reset_hard_job` | `gen_interrupt` and handlers, MTC0, ERET, jumps, idle loops | event queue, MI, savestates |
| MI (`device/rcp/mi`) | interrupt and mask registers | signal, clear, raise, mask | CP0 Cause |
| PI, SI, AI, SP DMA (`device/rcp`) | busy/full bits, FIFOs, directions, `last_read` | register writes, end-of-DMA events, resets | event queue, MI, PIF, audio plugin |
| RSP tasks, RDP | HALT/BROKE, `rsp_task_locked`, `do_on_unfreeze` | status writes, `do_SP_Task`, SP and DP events | RSP and video plugins, event queue |
| VI | registers, `delay`, field | `set_vi_vertical_interrupt`, vertical interrupt | event queue, `new_vi` (cheats, input, pause, VR camera) |
| work queue (`main/workqueue.c`) | list of work, list of sleeping workers | `queue_work`, worker loop, shutdown | savestates |
| savestates (`main/savestates.c`) | mailbox (job, type, fname), slot, files, lock | set/clear job, load, save, worker | gen_interrupt, work queue, front-end callbacks |
| front-end API (`api/frontend.c`, `main/main.c`) | initialised / ROM open / running flags | commands, startup, shutdown | everything |
| netplay (`main/netplay.c`) | per-player list of input events, counters, status | process, request (with a thread), send, sync | UDP/TCP server |
| VR (`vr/`, `api/vidext.c`) | OpenXR session, staged eye images, head pose, camera anchor, profiles | present, stage, recentre, session events, camera writes | OpenXR runtime, video plugin, RDRAM |
| recompilers, FPU, TLB, memory map | translated code, registers | instruction semantics | – |
| cartridge storage, PIF, controllers, paks, 64DD, GB carts | save memories, command state | register and joybus commands | file storage, input plugin |
| cheats, config, ROM database, OSD, debugger, screenshots, LIRC, plugins, OS layer | lists, files, tables | user interface and I/O | – |

`PROJECT.json` lists each of them with its sources, and the reason when it is
not modelled.

### What is hard

* **Wrap-around.** Count has 32 bits.  The queue stores absolute counts, so an
  event that is due *now* and one due in 2^32 cycles look the same; the code
  tells them apart by `cycle_count` and by moving Count ahead by one
  instruction for a moment.
* **Lateness.** Events are handled at block ends, one per call: several may be
  overdue at once, and new ones are inserted among them.
* **Masked interrupts.** A pending interrupt may be masked, unmasked, signalled
  again and acknowledged in any order; nobody looks at it unless a CHECK_INT
  event is queued.
* **Completion events.** A busy DMA engine refuses work until its event comes.
  Resets, a write to the PIF in the middle of a transfer and a pool without
  nodes can separate the two.
* **Threads.** Workers and `queue_work`; the front-end's requests and the
  emulation thread; the worker that rewrites a file and the load that reads it.
* **Failure.** Files that cannot be opened or written; memory that runs out;
  packets that are lost, repeated or late; a server or a headset that goes away.
* **State that outlives its owner.** A head pose after the session, what a plugin
  said of its swaps after the plugin, a request after the one who made it.

The list `hazards` of `PROJECT.json` has each at its line.

## 2. Modules

| module | models | theorems |
|---|---|---|
| `EventQueue` | operators on the queue: one per function of `interrupt.c` | `Cp0Proofs`, `Cp0OrderProofs` |
| `Cp0Interrupts` | the CPU that uses it: handlers, MTC0, ERET, jumps, resets, loads | `Cp0Proofs`, `Cp0OrderProofs` |
| `JobPool` | abstract: jobs handed over, started in order, each once | refined in `WorkqueueProofs` |
| `Workqueue` | `workqueue.c`, shown to implement `JobPool` | `WorkqueueProofs` |
| `Savestates` | `savestates.c` with the front-end's commands and the worker | `SavestatesProofs` |
| `RcpDma` | PI, SI, AI and SP DMA with both resets | `RcpDmaProofs` |
| `RspTask` | tasks of the RSP, interrupts of the RDP, freeze; resets, saves and loads among them | `RspTaskProofs` |
| `InputStream` | abstract: every player's inputs, in order, each once | refined in `NetplayProofs` |
| `Netplay` | the client's side of `netplay.c`, shown to implement `InputStream` | `NetplayProofs` |
| `VrSession` | the OpenXR session, the two eyes, the pose: `vr_video_vk.cpp`, `vr_pose.c`, `vidext.c` | `VrSessionProofs` |

`MC*` modules only give constants their values.  A definition whose name ends in
`_Something` after the name of another (`Sleep_Unlocked`, `Base_CountOnly`) is a
plausible bug in that operation, kept to show that the properties notice it.

### EventQueue and Cp0Interrupts

The CPU is one record, `r4300`; the operators of `EventQueue` map a CPU state to
a CPU state exactly as the C functions edit it, so that a handler is their
composition in the order of the calls.  Count and `cycle_count` are kept modulo
`Wrap` (2^32 in the code).  Each node has a history field `left`, the true
number of cycles until it is due, which no operation reads: the properties
compare what the code believes with it.

`InBlock(n)` lets a register access happen `n` instructions after the last one that
updated Count.  The devices are abstracted to what they ask of the CPU: an event type,
a delay, whether the handler schedules again and whether MI lets its interrupt through
(`Responses`; `Answers` are those that make a difference to the handler of the first
event).  MI is reduced to `rcp`, "an unmasked bit is set".  `vi` is `vi->delay`: 0
from power on until the game writes VI_V_SYNC, which a soft reset in between uses as
it is.  With `Hle`, the default, `nmi_int_handler` runs `pif_bootrom_hle_execute`,
which overwrites Status, so that ERL, just set, is clear again, and clears the
interrupts of RSP, PI and VI.  `Nearer` keeps the history `left` bounded for an event
that is late by whole laps.  A delay slot is the parameter `slot` of the instructions
that call `gen_interrupt` themselves; `skip` is `skip_jump # 0`.  `LoadSaved` joins a
save and a later load of that state: a load overwrites everything the save wrote, so
nothing in between matters to the fields of the model, `skip` excepted (§7).

Assumptions about use, each a constant that can be turned around: `ViRunning`
(the game has programmed the VI), `AtBoundary` (the first instruction of a block
touches the queue before Count moved), `SignalWhenDue` (an RCP interrupt is
signalled while an event is due), `Loads`, `Resets`.

### JobPool and Workqueue

One action of `Workqueue` is one critical section of `workqueue_mgmt.lock`.
`pc[t]` says where a worker is: on its way to the queue (`get`), in
`SDL_CondWait` (`waiting`), running work, or gone.  Spurious wake-ups are
allowed at any time, as SDL does.  The list `thread_queue` is kept in its order
(last to sleep, first to be woken).  The refinement mapping hides dismissals,
workers and sleeping: `pending` is the queue without dismissals, `running` what
the workers run.  This is the build with `M64P_PARALLEL`; without it
`queue_work` calls the function at once.

### Savestates

How the core is used is the variable `env`, chosen once from the set `Environments`:
who makes requests, whether writes fail, whether the slot moves on by itself.  One run
so covers several settings, and a property that the code only keeps in some of them
says which.  The mailbox is `job`; with `OtherThread` the three assignments of
`savestates_set_job` are three steps.  A load is the steps between which another
thread can act: probing for the file, taking the lock, reading, the callback, clearing
the mailbox.  The worker opens (which truncates), writes and closes the file in
separate steps under the lock.  SDL mutexes are recursive, so `lock` has a depth.  A
file's contents are the number of the save they came from and whether they are whole;
a file that was opened and not written yet has size 0, which `get_file_size` takes for
no file.  `emu.native` (history) says under which names the slot had a native file,
being rewritten or not, when its load began.

### RcpDma

The four engines share only the event queue, which here is a bag: completion
events may come in any order, since their delays depend on lengths and clocks.
`PoolFree` is the number of nodes other events leave.  Audio buffers are sets of
parts; `aiLeft` (history) are those not played yet, and `aiGlitch` says whether
one was played twice or skipped.  `siCut`, `aiCut` and `spCut` (history) say that a
soft reset stopped the engine in the middle of a transfer; `siCut` ends with the next
SI_INT, the others with a hard reset.  Status bits that only the program reads are
left out.

### RspTask

`do_SP_Task` runs the whole task in the RSP plugin and then hides HALT, BROKE and
the interrupts, which an SP_INT event brings back.  What the plugin does is
external: it ends the task or returns early (`MaxYields` times at most), and may
raise the SP and the DP interrupt.  `status`, `mi`, `frozen`, `unfreeze`, `locked`
and `unsafe` are the registers and flags of the code; `pending` counts the SP_INT
and DP_INT events, whose order and delays are left to `Cp0Interrupts`.  History
variables say what became of the task and what is owed to the program.
`Contract` is what the model asks of the program, and it is an assumption: a task
is started only when HALT has been seen, with INTR_BREAK set, and a running task
is not halted.  The boot code and `nmi_int_handler` are not bound by it.

### InputStream and Netplay

The n-th input of a player is the number n, and the server is how many it has
decided.  Packets are not kept: anything decided and not older than `MaxAge` may
arrive at any time, any number of times or never, which is what UDP promises.  The
numbers of the client wrap around at `Wrap`.  `netplay_get_input` is split where
the other thread can act: receiving, the decision to wait, the loop, the join;
`netplay_require_response` into its check, its request and its time-out.  The
model records for each event which input it came from, and the refinement mapping
measures the machine by the input it was handed last, so that a wrong or repeated
one is not a step of `InputStream`.  The speed limiter is on or off when the session
begins, as an earlier ROM or M64CMD_CORE_STATE_SET left it (`netplay_start` and
`main_run` do not touch it), and the front-end may set it at any time
(`CoreStateSet`), which `main_set_speedlimiter` refuses outside a fast-forward.
`resting` (history) is what it should be outside one.

### VrSession

One `VidExt_GL_SwapBuffers` is several steps: the swap, the event pump of
`StageEye` one event at a time, `StageEye`, again a pump, `PresentBoth`.  Between
any two the runtime may start, stop or lose the session and queue the event; the
program finds out only in a pump, or not at all when `xrPollEvent` fails: that is the
parameter `pollFails`, and `waitFails` that of `xrWaitFrame`, each chosen anew at every
call, whatever the state of the session.  Pictures
are `none`, `old` or `current`, by whether they belong to the game frame in hand.
The runtime (`rt`, `events`) and the plugin are external.  A dual plugin swaps
left then right, the left one with swap mode 1 or, as the comment in
`VidExt_GL_SwapBuffers` reports, sometimes 0; a mono plugin swaps and never calls
the setters.  That the dual plugin alternates strictly is an assumption: the plugin is
not in this repository, and `vidext.c:795-800` speaks of right swaps that follow each
other.  `Switches` says in which order a process loads plugins.
`DestroyAll`'s wait for STOPPING has one outcome whatever arrives, and is one step.

## 3. Runs

Bounds are chosen so that the interesting case happens and are named constants.

| run | question | bounds, and why they suffice |
|---|---|---|
| `event_timing` | Can any order of timer writes, Count writes, idle skips, device events, late blocks and loads make an event fire early, be overlooked, or lose a timer or arm it for a wrong Count? (`TypeOK`, `TimersArmed`, `NeverEarly`, `DueIsSeen`, `LoadRestoresQueue`) | Count of 24 values, so that it wraps many times; delays below half of it, as in the code; a pool of 4, which PI_INT, VI_INT and the two timers fill, so that a timer that is armed before its old node is freed is dropped |
| `interrupt_delivery` | Is `cycle_count` always that of the first event, and every pending unmasked interrupt queued? Are resets carried out? (`CycleCountInSync`, `NoLostInterrupt`, `HardResetHappens`, `SoftResetHappens`) | two Status values (all enabled; disabled, with RCP and reset unmasked), delay slots, signals at any time, also while an event is due; from power on with `vi->delay` 0, soft resets with the boot ROM emulated and hard resets from any state and during each other; Count of 6 values; a pool of 6, which CHECK_INT fills |
| `workqueue` | No lost wake-up, clean shutdown, progress, and the promise of `JobPool` (`IndInv`, `NoLostWakeup`, `ShutdownDrains`, `WorkIsRun`, `ShutdownReturns`, `ImplementsPool`) | three workers (the code has one; two are needed for a race for one item, three for a sleeper besides) and three items |
| `savestates` | Saves, loads and the worker (`SavesInOrder`, `SlotLoadSucceeds`, `LoadGetsNewest`, `ShutdownKeepsSaves`, `KeyRequestsAnswered`) | key handlers with three requests, enough for two overlapping saves and a load among them; another thread, callbacks, auto-increment and failing writes with two; two slots, one with a file under its old name and one with a file of PJ64, and names of every format |
| `save_lock_leak` | *violated*: a load is answered (`RequestsAnswered`) when a save before it failed | two requests |
| `save_torn_request` | *violated*: a named save goes to its file (`NamedSaveGoesThere`) when asked for by another thread | two requests |
| `rcp_dma` | Completion events, SI reads, SP transfers and audio samples (`RcpInv`, `CompletionPending`, `ReadNotForgotten`, `SpTransfersOnce`, `SamplesPlayedOnce`, `DmaCompletes`) | two events of a kind at once, buffers of 0 and 2 parts |
| `reset_busy` | *violated*: a soft reset does not strand a transfer (`ResetFinishesTransfers`) | one event of a kind |
| `rsp_task` | Is a save or a reset held back exactly while a task is unfinished, does every task go on and end, does a freeze lose anything? (`LockTracksTask`, `TaskMakesProgress`, `HaltMeansDone`, `FreezeLosesNothing`, `TaskCompletes`) | two yields per task, one DP_INT besides the one that is put off; every write of SP_STATUS that starts, acknowledges, raises or only touches signals |
| `netplay` | Does every read get the next input of the server, and return? (`ListSound`, `TakeFinds`, `LimiterRestored`, `InputsInOrder`, `ReadReturns`) | two players and five inputs over counters of four values, so that the numbers wrap; the server up to half the counter ahead and packets up to half of it late, the most the comparison of the code can bear |
| `vr_session` | Sessions that come and go between any two polls: does a valid pose belong to a session that the runtime has begun, or whose end is still to be read? do the eyes agree, do frames flow, is a recentring met? (`PoseNotOutlivesSession`, `EyesAgree`, `FramesFlow`, `RecenterMet`) | no bound is needed: pictures are told apart by age, and swaps, sessions and ROMs repeat without end; a mono plugin is not loaded after a dual one |
| `vr_mono_after_dual` | *violated*: a mono picture is seen by both eyes (`MonoOnBothEyes`) | as `vr_session`, with plugins in any order |

`TypeOK` of `Savestates` holds as well and may be added to its configuration;
those of `RspTask`, `Netplay` and `VrSession` are theorems (§5).

### Fairness

* `Cp0Interrupts`: blocks keep ending (the loop of `run_pure_interpreter` has no
  other exit than `stop`).  It is stated as "infinitely many `Run` steps, or
  stop", which is weak fairness because `Run` is enabled until the stop.
* `Workqueue`: every worker that is awake is scheduled; a shutdown that began
  goes on.  Nothing is assumed about spurious wake-ups or submitters.
* `Savestates`: the emulation thread reaches, again and again, a `gen_interrupt` with
  `interrupt_unsafe_state` 0, the worker is scheduled, and a thread inside
  `savestates_set_job` goes on.  None gets past a lock that is held.  That the RSP's
  unsafe state ends is `TaskCompletes` of `RspTask`.
* `RcpDma`: an event in the queue is handled in the end, which `DueIsSeen` and
  the progress of Count give.
* `RspTask`: SP_INT comes, and the program acknowledges the SP interrupt, as its
  interrupt handler must.  Nothing else is assumed to happen.
* `Netplay`: both threads are scheduled, and the clock reaches the ten seconds
  (strong fairness of the time-out, since the requester keeps asking meanwhile).
  Nothing is assumed of the network or of the server.
* `VrSession`: the game goes on swapping (`GameSpec`),
  and a frame that locates the head completely happens again and again while frames
  are presented at all (`FairSpec`).  The latter is an assumption about a headset that
  is worn.  The runtime need not do anything.

Deadlock is not checked in the instances that really stop (emulator stopped, all
requests made, work queue shut down).

## 4. Findings

* `save_lock_leak` — both error paths of `savestates_save_m64p_work` keep
  `savestates_lock`.
* `save_torn_request` — `savestates_set_job` publishes the job before its name.
* `reset_busy` — `nmi_int_handler` drops SI_INT and RSP_DMA_EVT and leaves the
  busy bits; `bootrom_hle.c:72,107` say that the boot ROM waits.
* `vr_mono_after_dual` — `VidExt_Quit` resets the latch of the dual plugin, but not
  `s_stereo_eye` and `s_swap_mode`, which a stock plugin never sets: after a dual
  ROM, a mono ROM is shown to the right eye alone, or, if the dual plugin ended on
  its stage-only swap, neither in the headset nor in the window
  (`vidext.c:51,229,758,770` say otherwise).

## 5. Proofs

Each theorem holds for every value of the constants that satisfies the named
assumptions of its module and, where it has one, its hypothesis.  The invariants
below were first checked with TLC on the instances of §3.

**Cp0Interrupts** (`Cp0Proofs`), for every even `Wrap`, every pool of two nodes or
more, every set of devices, delays below half a lap and blocks of any length.
`NeverEarly` and `TimersArmed` are not inductive.  The strengthening, `CpuOK`,
says of a CPU state:

* the count of each node agrees modulo `Wrap` with the true distance of its event
  (`Matches`), and no event but the timer is more than half a lap away (`Near`).
  Together they make the sign of `cycle_count` mean what the code takes it for
  (lemma `Due`), and so the next VI_INT, a frame after one that is due, is again
  within half a lap;
* no type but CHECK_INT is queued twice (`Singles`), both timers are queued
  (`Timers`), and outside a delay-slot exception `next_interrupt` and
  `cycle_count` are those of the first node (`Synced`).  A timer is armed again
  only where its node has just been freed, so that a full pool never drops it;
* each timer is queued for the right count (`Armed`): SPECIAL_INT for a multiple of
  half a lap, COMPARE_INT for Compare or, from a soft reset until it is armed again,
  for 0, since `nmi_int_handler` leaves Compare as it is;
* a pending and unmasked interrupt has its CHECK_INT (`NoneLost`), provided that
  the pool has a node for every type of event (`Room`; 16 nodes and 15 types,
  `cp0.h:143`, `interrupt.h:57-71`).  CHECK_INT may be queued many times and fill
  the pool; then it is in the queue, and if it is not, fewer nodes are in use than
  there are (`FullHasCheck`).

There is a lemma for each operator of `EventQueue`, for each handler and for each
instruction; the arithmetic modulo `Wrap` and the effect of inserting and removing
one node are lemmas of their own.  `LoadEventQueue` is a recursive function on the
saved nodes, and the induction over them is by a least counterexample
(`LeastNumber`).  Theorems: `TypeTheorem`, `TimersTheorem`, `CycleTheorem`,
`EarlyTheorem`, `DeliveryTheorem` (under `Room`).

**The order of the queue** (`Cp0OrderProofs`): `DueTheorem` and `LoadTheorem`, that
is `DueIsSeen` and `LoadRestoresQueue`.  Neither is inductive.  The invariant,
`SysOK`, says that the queue is sorted, but not by the true distances: the timer,
alone of all events, may be a lap away, and the code, which compares counts modulo
`Wrap`, may take it for due a lap early.  So

* `Seen(e, early)` is the distance of an event as the code takes it, the timer a lap
  early or not; `Placed(q, early, b)` has the queue sorted by it, all of it inside one
  lap from `b`, and no event more than a lap and an instruction away;
* `OrderOK(q)` says that this is so for some `early` and some `b` from half a lap
  before Count, less an instruction, to one instruction after it.  The upper end is
  needed because the four lines that arm the timer measure with Count moved one
  instruction ahead; the lower one because beyond it the sign of `cycle_count` turns;
* `Arranged` adds that a VI_INT is queued, which keeps some event less than half a lap
  away, and that no reset is pending.

Lemma `InsertPlaced` is the core: `before_event`, measured from `Base`, is the order of
`Seen` for events of one lap, so that an insertion keeps `Placed`.  From it follow one
lemma per operation: the two timers, a handler, a write of Count or Compare, an idle
jump, CHECK_INT in front of the queue, and a load.  The load is an induction over the
saved nodes (`LoadTurn`): `cycle_count` is not saved, but after the first node it
measures from the same event as when the state was saved (`LoadStart`).

The hypotheses are what the code needs and does not ensure:

* `Setting`, on the constants: the video interface runs, no resets, the queue is not
  touched before Count moved, no interrupt is signalled while an event is due, a pool
  of three nodes or more, a block has two instructions at least (a jump and its delay
  slot, which an idle loop runs) and is shorter than half a lap (2^31 cycles), those
  two shorter than a frame.  §7 has counterexamples;
* `Punctual`, on the execution: the next block does not bring the first event half a
  lap late nor the video interrupt a frame.  The emulator handles one event per block,
  so that nothing in the code alone bounds lateness;
* `Calm`, on the execution: no CHECK_INT is queued while the timer is a whole lap
  behind it, that is, in the instruction in which Compare was set to Count (§7).

In `MCEventTiming.cfg`, whose blocks are one instruction long and which queues no
CHECK_INT, TLC finds `SysOK`, `Punctual` and `Calm` in all of its 311,098 states.  With
`MaxOps = 2`, so that it satisfies `Setting`, and `Punctual` and `Calm` as a constraint,
`SysOK` and `DueIsSeen` hold in all of 491,438 states; with `Wrap = 14`, `ViDelay = 4`,
`CompareSteps = {0, 5}`, `Delays = {2}`, `CountValues = {5}`, `NmiDelay = 3`, `Loads =
FALSE` and `StatusValues <- MCDeliveryStatus` besides, so that CHECK_INT are queued, in
all of 547,238.

**Workqueue** (`WorkqueueProofs`), for every finite non-empty set of workers and
every set of work items.  `NoLostWakeup` is not inductive: when work is taken
by a worker that was awake anyway, nothing in it says who comes for the rest.
The strengthening is `IndInv`: types; every sleeper is in `thread_queue` exactly
once and nobody in it runs work; and `EnoughAwake` — while `thread_queue` is not
empty, at least as many workers *outside* it are on their way to the queue as
there are items.  `queue_work` moves one worker out of the list for the one item
it adds; a worker that takes an item lowers both sides by one, or leaves the
list and lowers one; a worker enters the list only when there are no items.
`AlwaysIndInv` proves it action by action; lemmas state what removing an element
and what `Tail` and cons do to the set of a list, and cardinality facts come from
`FiniteSetTheorems`.  `WorkqueueNoLostWakeup` follows: a sleeper is in the list,
so with work waiting the set of awake workers is not empty.

`WorkqueueDrains` adds `DrainInv`: the queue is work followed by dismissals, as
many dismissals were queued as are in it or have ended a worker, and no worker is
gone while work is queued.  `WorkqueueImplementsPool` is the refinement of
`JobPool` under the mapping of `Workqueue`, step by step: `queue_work` is
`HandOver`, taking work `Start`, finishing it `Finish`, the end of shutdown `Close`,
and all else stutters.

**RcpDma** (`RcpDmaProofs`), for all buffer lengths and bounds.  Four theorems have
two hypotheses: the pool has room (`PoolFree >= 4 * MaxPending`) and the boot ROM is
emulated at a high level (`Hle`); each is necessary, see §7.  `RcpInv` is proved
through `EngineInv`, a conjunction of one invariant per engine and one for the queue,
so that a step of one engine needs a proof for that engine and a frame lemma for each
other: `AlwaysRcpInv`, `CompletionAlwaysPending`, `AudioPlayedOnce`,
`ReadsNotForgotten`.  The last says of an accepted read that the registers still
record it, that no other transfer can have started, and that the SI_INT whose handler
copies it is queued.  For the audio the invariant `AudioLeft` is what carries the
argument: the parts not played are exactly the last `last_read` units of the first
buffer, so a read of AI_LEN and the end of the DMA split the rest between them.
`SpTransfersMadeOnce` needs neither hypothesis: no dropped event and no reset makes
the program lose count of the transfers in the FIFO.  A transfer that a soft reset cut
off (`siCut`, `aiCut`, `spCut`) is excused, and no other.

**RspTask** (`RspTaskProofs`), however often a plugin returns early.  None of the
properties is inductive alone; `TaskInv` is their conjunction with `Settled`, which
says where a task can be — halted with nothing under way; or running with its
SP_INT queued; or interrupted, with the acknowledgement to come that resumes it —
of the machine *and* of the state that was saved last, since a load brings that
back.  Theorems: `TypeTheorem`, `LockTheorem`, `ProgressTheorem`, `HaltTheorem`,
`FreezeTheorem`.

**Netplay** (`NetplayProofs`), for every set of players, every even size of the
counter and every buffer target.  `NetInv` relates the numbers of the protocol,
which wrap, to those of the inputs, which do not: what the network may bring is
within half a turn of the counter of what the client waits for (an assumption on
`Ahead` and `MaxAge`, which the comparison in the code needs), so that the counter
tells the inputs apart.  The reader's place in `netplay_get_input` is in it too: when the
requester has said yes, the event is in the list.  `LimiterTheorem` starts from a
limiter that is on or off: outside a fast-forward it is as the session found it until
the first one, and on after it.  `StreamTheorem` is the refinement
of `InputStream`: taking an event is `Give` of the next input.  Theorems:
`TypeTheorem`, `ListTheorem`, `TakeTheorem`, `LimiterTheorem`, `StreamTheorem`.

**VrSession** (`VrSessionProofs`).  For any order of plugins, `SessionInv` says what
the runtime has still to report in each of its states, and what the program
believes meanwhile; `PoseTheorem` and `TypeTheorem` follow.  `PoseTheorem` speaks of
the runtime's session, not only of the program's flag: a valid pose belongs to a
session that has begun and not ended, or of whose end a report waits to be read.
That the report is read is not promised (`PoseEndsWithSession`, §7).  `FrameInv`
follows the pictures of a game frame through the places of a swap, and what a plugin has said
of its swaps through the plugins of a process; `FramesFlowTheorem` and
`EyesAgreeTheorem` have the hypothesis that no stock plugin is loaded after a dual
one, and `vr_mono_after_dual` shows that it is necessary.

**Savestates** (`SavestatesProofs`), for any number of slots, requests and
environments.  `SaveInv` has the numbers of the saves ascend from the file through
the worker to the queue, the lock say who may touch a file, and each place of the
emulation thread inside a load or save know what it has seen.  Theorems:
`OrderTheorem`, `SlotLoadTheorem`, `NewestTheorem`, `ShutdownTheorem`, under
`NamesKeepFormat`: a name is not used both for native and for PJ64 saves.
`SlotLoadTheorem` has every load of a slot that had a native file when it began
succeed, being rewritten or not, but the one whose only file has the old name and is
being rewritten: that one fails (`OldNameUsed`, §7).  The
attempt to prove these without it, and without the restrictions now in
`SlotLoadSucceeds` and `LoadGetsNewest`, is where the first observations of §7
come from.

Only model-checked: the liveness properties (fairness and ENABLED are out of the
reach of the prover used here).  Of `DueIsSeen` and `LoadRestoresQueue`, the run has
them without `Punctual` and `Calm`, which its instance meets, the theorems under them.

## 6. Not modelled

Instruction semantics, recompilers, FPU, TLB: sequential arithmetic.  Contents
of transfers, of states and of files.  Timing of real time (speed limiter, audio
resampling).  Plugins, beyond the callbacks they make.  The interrupt bits of
MI one by one.  MTC0 Cause (`mips_instructions.def:1402-1405`), which sets IP0 and
IP1, the software interrupts, without looking whether they are unmasked: they are taken
only when something else calls `r4300_check_interrupt`, and `NoLostInterrupt` is about
the other three bits alone.  Threads calling resets while the emulation thread is inside the
queue: a data race that the API does not exclude, here a reset happens between
two instructions.  The head camera (`vr_camera.c`): arithmetic on floating-point
angles, behind an arming flag.  Of netplay, the transfers over TCP at the start and
the desync report; of VR, where the screen hangs, the Vulkan calls and the probes.
Cartridge storage, paks, 64DD: state machines that one access at a time drives,
which tests reach.  In this commit the files under `src/vr` lack the lines that
begin with an asterisk (ends of comments, stores through pointers), so statements
such as the one that fills in the result of `vr_pose_get` can only be inferred
from `tests/vr`; `VrSession` uses none of them.

## 7. Observations

Reproducible by changing a constant of a configuration:

* `LoadGetsNewest` is about slots without a file under the old name.  Without
  that restriction it fails: a save that is being written under the old name is
  empty for a moment; a second save then goes to the new name, and a later load
  picks the older state under the old one.
* `SlotLoadSucceeds` leaves out the slot whose only file has the old name and is being
  rewritten (`OldNameUsed`), and is about requests of the emulation thread.  Another
  thread that sets a new type between the probe for the file and the use of the type
  (`savestates.c:1463`) makes the load read the file in the wrong format.
* `SavesInOrder` fails when a name is used for a native save and then for a PJ64
  one: the second is written at once, and the worker writes the first over it.
* `OldNameUsed` fails as an invariant of `MCSavestates.cfg`: `savestates_generate_path`
  looks for the old-named file without the lock (`savestates.c:96-101`).  While the
  worker has just truncated it, a load passes on to the new name, then to PJ64's, and
  ends with "No Mupen64Plus/PJ64 state file found", although the comment at
  `savestates.c:95` says that the old-named file is used if it exists.
* `RequestsAnswered` fails in `MCSaveLockLeak.cfg` with `Environments <- Thread`, where
  no write fails: `savestates_clear_job` (`savestates.c:168`), the last act of a load or
  save, erases a request that another thread made meanwhile.  So it does, with
  `fromCallback`, with a request made inside the state callback.
* `DueIsSeen` fails with `ViRunning = FALSE` in `MCEventTiming.cfg`: without the
  video interrupt the next event can be half a lap away, where signed and
  unsigned distances disagree.
* `LoadRestoresQueue`, and after it `DueIsSeen`, fail with `AtBoundary = TRUE`:
  an event scheduled while Count still equals the Compare just written is compared
  with a timer that looks due now, and is queued behind it although the timer is a
  whole lap away.
* `DueIsSeen` fails with `StatusValues <- MCDeliveryStatus` in `MCEventTiming.cfg`, with
  `Loads` either way: Compare is set to Count, which arms the timer a lap away, and an
  interrupt is signalled before the next instruction.  While its CHECK_INT is overdue
  `before_event` measures from it, takes the timer for due at once, and queues the
  event of a device started in that block behind the timer, where it stays unseen.
  `Calm` (§5) excludes this.
* `TimerInOrder` fails as an invariant of `MCEventTiming.cfg`: when the timer fires at a
  Count at which another event is due too, `compare_int_handler` queues it anew right
  behind that event, and it fires again at the next block end.  The step by
  `count_per_op`, which is to avoid that (`interrupt.c:402`, `mips_instructions.def:1377`),
  makes the other event overdue, and `before_event` measures from its count, which
  equals Compare.
* `SoftResetHappens` without its condition `r4300.vi # 0` fails: see below.
* `PoseEndsWithSession` fails in `MCVrSession.cfg` with `SPECIFICATION GameSpec`: when the
  session is gone and `xrPollEvent` fails (`vr_video_vk.cpp:259`), and after it
  `xrWaitFrame` (`:599`), neither `s_session_running` nor the pose is reset, and the last
  pose stays valid until the ROM is closed, although four comments there (`:104`, `:110`,
  `:265`, `:288`) say that it must not outlive the session.
* `FramesFlow` fails with `Switches <- MCAnyOrder`, for the reason of
  `vr_mono_after_dual`.
* `EyesAgree` without `~joined` fails: when the session begins, or stops and begins
  again, between the left and the right swap of a game frame, the left eye has an
  older picture, or none, in one XR frame.
* `ViDelay` must exceed the lateness that handling one event per block can build
  up; with a smaller one events fall behind without bound.
* `CompletionPending` fails with a `PoolFree` of 3 (PI resets and restarts fill
  the pool), and with `Hle = FALSE` (a PI transfer is stranded by a soft reset).

From the models, allowed by every property: a soft reset before the game has written
VI_V_SYNC queues VI_INT with a `vi->delay` of 0, so that it is due again at the count
at which it is handled, and with the timer, armed for that count too, it stays ahead of
a second soft reset for ever; `nmi_int_handler` arms the timer for 0 and leaves Compare
as it is; a netplay session that begins with the limiter off cannot turn it on before
its first fast-forward is over; after a soft reset in the middle of a
task that yielded, `interrupt_unsafe_state` stays set, so loads, saves and hard
resets wait until the program runs its next task; a task that ends with INTR_BREAK
clear and raises no SP interrupt never shows HALT; a locked task goes on only when
the program writes SP_STATUS_REG; a client whose requester timed out stops even if
the input has arrived meanwhile; if the readback buffer of the compositor cannot be
allocated, the session stays up unused, and the next `VidExt_SetVideoMode` creates
another over it.

From reading, not covered by a run: an interrupt signalled while an event is overdue
puts CHECK_INT before it and sets `cycle_count` to 0 (`interrupt.c:364`), so that an
insertion in the same block can misjudge the overdue event (`SignalWhenDue = TRUE` has
it, but other orders violate `DueIsSeen` sooner); the front-end can set the limiter
between `netplay.c:396` and `:397`, where the model has one step; `netplay_stop` walks
`l_cin_compats`, a local array of `main_run`, also after that has returned
(`netplay.c:178`, `main.c:1648`); `SDL_CreateThread` may fail in
`netplay_ensure_valid`, which then waits without a time-out and reads `success`
uninitialised; the `static` state of `vr_camera_apply` stays armed while the pose is
invalid and across ROMs, so that values captured in one game may be written into the
next until its guards fail once; `savestates_save_pj64_zip` ignores failures of
`zipClose`, and the worker those of `gzclose`, and both report success;
`M64CMD_STATE_LOAD` is the only state command that does not require a running
emulation (`frontend.c:309`); `check_int_handler` takes an exception even when the
interrupt has been masked since; a load that is carried out while `skip_jump` is set
leaves it set.

## 8. Plan

Still to prove: `TypeOK` of `Savestates` as a theorem of its own; its proofs use the
parts of it they need.  And a bound on lateness from the lengths of blocks, delays and
frames, which would replace `Punctual` in the theorems of `Cp0OrderProofs`.

To model, should the code around them grow: the composition of `RcpDma` with
`EventQueue`, replacing the bag by the queue, and the arming of the head camera.
