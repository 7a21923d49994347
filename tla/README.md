# modbusrtuzcu102, in TLA+

The repository is a PetaLinux project for the ZCU102 board. Its own program is the Linux application of the Cortex-A53
cluster, under `src/project-spec/meta-user/recipes-apps/linux-app/files/` (called `files/` below). Next to it stand
the vendor's GPIO sample and `psu_init.c`, the code that brings the board up before anything else runs; most of that
file is tables of register values, but a few of its functions decide things, and those are here too. The rest is
Vivado output, kernel and boot configuration. The R5 firmware, the Modbus master, the STM32 nodes, the MQTT bridge and
the Qt dashboard of `ARCHITECTURE.md` and `architecturelinux.md` are designs without source here.

## 1. Inventory

| part | source | state | operations | modelled in |
|---|---|---|---|---|
| message queue | `core/msq_queue.c` | ring `buffer`, `head`, `tail`, `count`; `lock`, `cond` | init, push (never blocks), pop (blocks while empty), destroy | `MsgQueue`, abstractly `BoundedFifo` |
| RPMsg driver | `drivers/rpmsg_driver.c` | per context: descriptor, path, three counters | ctx_init, open, close, poll_ready, read_raw, recv_msg, write_raw, send_msg, reset_stats | `RpmsgDriver` |
| main | `main.c` | `g_is_running`, two queues, two threads | start-up with its failing paths, joins, clean-up, `signal_handler` | `LinuxApp` |
| RPMsg worker | `Threads/rpmsg.c` | its context, the message in hand | open, then: test the flag, poll 50 ms, receive, push; close | `LinuxApp` |
| GUI worker | `Threads/GUI.c` | the message in hand | test the flag, pop, show | `LinuxApp` |
| wire format | `core/data_types.h` | `app_msg_t` | none: nothing computes or verifies `crc32` | the length and the type of a message |
| boot sequence, PLLs, DDR PHY | `psu_init.c` | the stage, the status, the PLL control and lock bits, the PHY's modes | `psu_init`, `psu_init_ddr_self_refresh`, `psu_pll_init_data`, `mask_poll`, `psu_ddr_phybringup_data` | `PsuInit`, `DdrPhy` |
| serial lanes | `psu_init.c` | calibration codes, settings of the injection-locked loops, reference clocks, resets | `init_serdes`, `serdes_fixcal_code`, `serdes_illcalib`, `serdes_illcalib_pcie_gen1` | `InitSerdes`, `SerdesFixcal`, `IllCalibration` |
| gpio-demo | `recipes-apps/gpio-demo` | the pins exported, their direction and level | open, directions, set, get, patterns, close, `signal_handler` | `GpioDemo` |
| MQTT worker | `Threads/mqtt.c` | the file is empty | | not modelled |
| peek, poke | `recipes-apps/peekpoke` | none | one load or store each | not modelled |
| R5, kernel, hardware | not in the repository | the channel's datagrams, descriptors, pins; lock and done bits | start, stop, send; open, poll, read, write | environment of the modules |
| hardware design, kernel and boot configuration | `src/hardware`, `recipes-bsp`, `recipes-kernel` | | | not modelled |

How they interact:

```
 psu_init (first-stage boot loader): pins -> PLLs -> clocks -> DDR -> DDR PHY -> peripherals -> serial lanes -> ...
                                     every stage runs, the status is the conjunction of what they return
 then, under Linux:
 R5 --datagrams--> /dev/rpmsg0 --poll, read--> RPMsg worker --push--> rx_queue --pop--> GUI worker --> dashboard
                                                    ^                                      ^
 SIGINT, SIGTERM --signal_handler--> g_is_running --+--------------------------------------+
 main: installs the handler, makes the queues and the threads, joins the threads, destroys the queues
 tx_queue: made and destroyed by main, used by nobody (rpmsg.c:49-50 is a comment)
 gpio-demo: any number of instances, sharing the pins of a chip through sysfs
```

What is hard here, and what makes each part correct:

* **Message queue.** Several threads in critical sections of several statements; a condition variable whose signal
  is lost when nobody sleeps, which wakes one thread, and which may wake for no reason; indices that wrap; a life
  cycle. Correct means: it is a bounded FIFO, its three ring fields never disagree outside the mutex, no wakeup is
  lost, push never blocks.
* **RPMsg driver.** The R5 stops and restarts between any two system calls; descriptors are shared by the process;
  a reopen closes first; a datagram may be short, long or empty. Correct means: no descriptor is leaked, shared or
  used after its close; what a call answers is what happened; waits end.
* **Application.** Every creation may fail with something already running; the stop flag is polled at two places and
  one of the loops blocks between them; signals arrive at any moment; the R5 restarts under an open channel. Correct
  means: the queue is used only while it lives, nothing is left behind at exit, messages reach the dashboard in order
  or are dropped where the code drops them, and a stop request ends the process.
* **Boot.** Hardware that answers late or never; timeouts whose results nobody looks at; a failure that must survive
  the stages after it. Correct means: no clock of a PLL in reset is used, memory is handed over locked and trained
  only, success means memory.
* **Serial lanes.** A vote whose running maximum lives in the array it scans; a search for the middle of a run of
  passing settings, with a window that opens and closes at both ends of the range; registers and fields borrowed from
  one purpose for another. Correct means: what is forced or chosen is what the hardware reported as good, what was
  borrowed goes back, and nothing is tuned under a running peripheral.
* **gpio-demo.** Signals between any two pins, handlers inside handlers, instances that take pins from each other;
  two loops in opposite directions. Correct means: all pins are given back, values keep their bits in place.

`PROJECT.json` lists each hazard at its line with the properties that watch it.

## 2. The modules

| module | what it is |
|---|---|
| `BoundedFifo` | abstract: offer, accept, refuse only when full, take the oldest |
| `MsgQueue` | `msq_queue.c` statement by statement; properties and inductive invariant |
| `MsgQueueProofs` | proofs of the invariants, and that `MsgQueue` implements `BoundedFifo` |
| `RpmsgDriver` | `rpmsg_driver.c`, one action per system call, with kernel and R5 as environment |
| `RpmsgDriverProofs` | proofs of types, descriptor ownership, honest waits and honest answers |
| `Telemetry` | abstract: the messages of the R5 stand in one line to the dashboard; who may leave it, and when |
| `LinuxApp` | `main.c`, `Threads/rpmsg.c`, `Threads/GUI.c`; composes the two components, implements `Telemetry` |
| `LinuxAppProofs` | proofs about the composition; instances the proofs of the two components |
| `DdrPhy`, `PsuInit` | `psu_ddr_phybringup_data`; `psu_init` with the PLLs, extends `DdrPhy` |
| `PsuInitProofs` | proofs of both |
| `SerdesFixcal`, `IllCalibration` | the calibration vote; the search for the loop settings |
| `InitSerdes` | `init_serdes`: composes the two with the resets |
| `SerdesFixcalProofs`, `IllCalibrationProofs`, `InitSerdesProofs` | proofs of each, and of the composition from them |
| `GpioDemo` | `gpio-demo.c`, several instances on one chip |
| `GpioDemoProofs` | proofs of its types, of the pins given back and of the place of every bit |
| `MC...` | instances for TLC: symmetry sets, datagrams, the board's protocols, readings, patterns |

Operators marked "Fault:" are plausible mistakes in the definition that follows them. No specification uses them;
each shows that a property notices the mistake when it is put in the definition's place.

### MsgQueue

One action per statement between two points at which another thread may run, the statements inside a critical
section included, so that mutual exclusion is a result and not an assumption. `qpc[t]` is where thread `t` is:
`pushLock` (line 44), `pushTest` (46), `pushCount` (52), `pushSignal` (53), `pushUnlock` (54), and `popLock` (63 and
inside `cond_wait`), `popTest` (65), `popWait` (66), `popCount` (71), `popUnlock` (72). Storing the message and moving
`tail` (50-51) is one action, as is taking it and moving `head` (69-70): both fields belong to the holder of the mutex
and `RingConsistent` watches the third, `count`, that lags behind. `cond_wait` unlocks and sleeps in one step, as
POSIX says; a signal wakes one sleeper, which must take the mutex again; `SpuriousWakeup` wakes one at any time.
`QueueInit(made)` takes the set of objects whose creation succeeds, so both failures of `msg_queue_init` are there.
Clients follow two rules of POSIX: no call outside init .. destroy, and no init or destroy with a thread inside.
`LinuxApp` shows that the program keeps them (`QueueUsedByItsRules`). The three indices are C ints bounded by 100:
their width does not matter. The contents of the uninitialised buffer are `NoMsg`, so reading one would show.

### RpmsgDriver

`ctx` holds the fields of each `rpmsg_ctx_t`, `file` what each descriptor is open on (node, dead or alive, datagrams
waiting), `up` the nodes that exist, `call` where a context is inside a call of several system calls, `buf` and `ret`
what the caller has got. `rpmsg_open` is two steps (close and choose the path; open), `rpmsg_read_raw` three (the
call; poll; read), so the R5 and other contexts run in between. Calls that make one system call are one step, and
`rpmsg_recv_msg` is `rpmsg_read_raw` with its result translated by `RecvResult`. The environment, marked external in
`PROJECT.json`: `open` fails with `ENOENT` (no node), `EBUSY` (endpoint in use) or `EMFILE`, and otherwise returns
the lowest free descriptor; `poll` reports an error for an endpoint whose R5 is gone, which is tested before `POLLIN`
(line 99); `read` takes one datagram and cuts off what does not fit; `write` fails with `EPIPE` or `EAGAIN`, or takes
some of the bytes. NULL arguments return `-EINVAL` before anything changes and are left out, `ctx_init` is called on a
context that is not open, as the worker does. Paths are values; that `strncpy` cuts them at 63 bytes is left out.

### LinuxApp

`INSTANCE MsgQueue` with one producer and one consumer and `INSTANCE RpmsgDriver` with one context, one descriptor and
one node: every step of a component is a step of the thread that calls it, in conjunction with that thread's program
counter (`rpc`, `gpc`, `mainPc`). `Signal` is `signal_handler` with the System V semantics that `-std=c99`
(`Makefile:20`) selects: the handler is uninstalled as it runs; a signal without handler kills. `sent` numbers the
R5's messages and `shown` records the dashboard; both only observe. `tx_queue` is a flag: initialised or not.

`TelemetrySpec` compares all of it with `Telemetry`: a channel, and behind it one line of messages that ends at the
dashboard. The line is what the application has taken (`Taken`): the GUI worker's hands, the ring while it is
initialised, the RPMsg worker's hands. The channel is what the kernel still holds for a living endpoint (`Pending`); a
dead endpoint and a destroyed ring hold nothing, because nobody will ever get anything out of them. `Telemetry` allows
a message to be taken and dropped only if it is short; a message of the line to be given up only if it has come to the
front with a type nobody shows, or if at least `Capacity` messages stand before it (the ring is full, rpmsg.c:45); the
channel to be lost with the R5; and the channel or the line to be dropped after a stop request: rpmsg.c:54 closes the
one and main.c:126 destroys the other with what is in it. Everything else the threads do must leave both alone.
`LostOnlyForAReason` is closer: it names the step at which each loss may happen, so a ring destroyed with messages in
it while a worker still runs, or a message that vanishes at any other step after a stop request, violates it.

### PsuInit and DdrPhy

`Stages` is the order of calls of the two entry points, `at` the stage that runs, `status` their conjunction (`And` is
`&=`). A stage that writes a table of constants and returns 1 is one step (`Table`). The clock stage walks the five
PLLs; for each, one action per register write that matters: configuration, bypass on, reset on, reset off, the poll,
bypass off. `PllPoll` is `mask_poll`, one read of the status per step, `PollTime` reads at most, its result unused as
in the code. `DdrPhy` follows `psu_ddr_phybringup_data` wait by wait: up to ten tries at the lock with their record in
GPR0, the initialisations, the training with its error bits, the Vref training in static read mode, the eye training,
the hand-over to the controller. The hardware finishes what it was asked for, reports an error, or does neither, at any
time. The bits of PGSR0 are abstracted to three: what was awaited is done; an error stands of those that the checks of
lines 22402 and 22431 look at (bits 18 to 28, `error`); and one stands that only the exact comparison of the wait at
line 22400 looks at (16, 17, 29, 30, `other`), which can hold that wait up for ever and is never reported. The lanes'
stage is, here, only the status that `init_serdes` returns.

### SerdesFixcal, IllCalibration, InitSerdes

`FixcalRound` is one calibration: any member of `Readings` may be reported, and a value within its range is counted.
`FixcalScan` looks at one slot per step and keeps the running maximum in slot 0, as lines 23734-23754 do; `seen` keeps
the counts as they were, to judge by. `FixcalForce` writes the six registers, as sets of bits. `mask_poll` running out
is `FixcalTimeout`: status 0 and nothing forced.

`IllCalibration` takes the list of searches (`Jobs`) from the protocols and rates of the lanes, SATA lanes one by one
and then the PCIe lanes together. `IllTry` is one setting: store it, test every lane, and `Judge` the outcome, which is
any combination of passes and failures; `Judge` is the if-chain of lines 23177-23193, in the order of the code.
`IllBorrow` and `IllReturn` are what a SATA lane saves and gets back. `found` records what each search chose.

`InitSerdes` runs the two between `psu_resetin_init_data` and `psu_resetout_init_data`, whose order of releases is
`ReleaseOrder`. Locals of a function that has returned go back to their initial values, so that they add no states.

### GpioDemo

One step per pin: opening the pin's file, writing or reading it and closing it are one step, the kernel's action on
one pin; that a pin is given back between the open and the write of another instance is not seen. What the functions
that touch pins return is ignored by the program and here: an export may fail, and a write to a pin that another
instance has turned into an input is dropped by the kernel without a trace. `value` is a C int, a function from its
bits (`IntBits` of them, 32 in the program) to 0 and 1: `ToInt` is the conversion of what `strtoul` returned, `ShiftOut`
is `>>= 1`, which keeps the sign, `ShiftIn` is `<<= 1` and the addition of a bit, which loses the highest. `level` is
what the kernel drives each output to; `last` observes, for each pin, the number of whoever drove it last, and `seen`
the bits an instance has read. A signal with a handler sends the instance
to `close_gpio_channel` from wherever it was, including from the handler of another signal; one without kills it. A
pin is exported or not whoever asked, so an instance that gives a pin back takes it from the others.

## 3. What is checked

| run | instance | what it shows |
|---|---|---|
| `queue` | 2 producers, 2 consumers, 2 messages, capacity 2, symmetric | `TypeOK`, `RingConsistent`, `NoLostWakeup`, the inductive invariant `IInv`, and `FifoSpec`: the refinement of `BoundedFifo` |
| `queue_live` | 1 producer, 2 consumers, fair | `PushReturns`, `SleeperServed` |
| `driver_owners` | 2 contexts, 2 descriptors, 2 nodes, contexts symmetric | `DescriptorsOwned`, `ReadyMeansData` |
| `driver_recv` | 1 context, datagrams of all four lengths, 2 waiting, fair | `TypeOK`, `RecvHonest`, `WaitEnds` |
| `driver_rxcount` | | violated: `rx_count` also counts a datagram refused as short (`rpmsg_driver.h:48`) |
| `driver_nullpath` | | violated: a NULL path keeps the previous node (`rpmsg_driver.h:65`) |
| `app` | 3 messages, one of them short or of another type, ring of 2, 1 waiting in the kernel, fair | `TypeOK`, `NothingLeftBehind`, `InOrder`, `QueueUsedByItsRules`, `TelemetrySpec`: the refinement of `Telemetry`, `LostOnlyForAReason`, `DeadForGood`, `RpmsgStops`, `ShutdownUnlessIdle`, `QueuedIsShown` |
| `app_ctrlc` | 1 message, fair | violated: after Ctrl+C the GUI worker may sleep for ever (`main.c:114`) |
| `app_catch` | 1 message | violated: the second Ctrl+C kills the process (`main.c:28`) |
| `boot` | both entry points, cold and warm, 5 PLLs, polls of 3 reads, 10 retries, fair | `TypeOK`, `ResetIsBypassed`, `HandoverIsClean`, `RetriesAreCounted`, `SuccessMeansMemory`, `UsedLockedOrLate`, `BootEnds` |
| `serdes` | the board's protocols and rates, 3 calibrations with 12 readings, 8 settings | `TypeOK`, `VoteIsHonest`, `ChosenPassed`, `FieldsAreKept`, `LanesGivenBack`, `ForcedOnceAndWhole`, `TunedInReset` |
| `gpio` | 2 instances, 3 pins, ints of 2 bits, 2 signals, every option, one pattern of 2 entries, fair | `TypeOK`, `NothingLeftExported`, `BitsKeepTheirPlace`, `SignalEnds` |

**Bounds of the application.** `Capacity` is 100 in the program; 2 is the least at which a ring can be empty, partly
filled, full and wrapped, and at which one message can wait while another is counted. Two producers and two consumers
let a woken consumer be overtaken while another sleeps. Two contexts, two descriptors and two nodes let a context
receive the descriptor another has just closed, and fail with each error. `MsgSize` 2 has a whole, a short, a long and
an empty datagram; `CounterMod` is 2^32 in the program and small here, so that the counters do not make the state space
infinite. Three messages fill the ring and leave one in the worker's hands to be refused, or lie in three places at
once; the theorems lift this bound. `InboxSize` and `MaxSent` bound the environment only. In the application, boot,
lane and gpio runs deadlock is not checked: the process ends there, or hangs, which is what `ShutdownUnlessIdle`,
`CtrlCTerminates`, `BootEnds` and `SignalEnds` are about.

**Bounds of the boot.** The five PLLs and the ten retries are those of the code; a poll reads 1100000 times there and
3 times here, which still tells the last read from the one before. The code calibrates 11 times and tries 64 settings
8 apart; 3 calibrations let a code win, tie and be overtaken, with readings at both ends of a range, inside and outside
of it, and 8 settings (64 apart, so that they still cross from the low byte to the flag) hold every shape the search
distinguishes: a run of five or more at either end or in the middle, shorter runs, two runs, none, and the glitch at
the third setting. Protocols and rates are those that `psu_serdes_init_data` writes for this board. The theorems hold
for any number of rounds and settings and any protocols.

**Bounds of gpio-demo.** Two instances on three pins give every overlap of exporting, turning, using and giving back,
with a pin above and a pin below one that is taken away. An int of two bits is narrower than the chip, as 32 bits are
for the GPIO of this board: a read loses the bits of the highest pins, and a pin above the int is driven to its sign.
Of the four signals two are kept, the least with a handler inside a handler; `cylon` and `kit` run the same loop, so
one pattern stands for both.

**Fairness.** `queue_live`: a thread inside push or pop is scheduled (weak), and a thread that keeps asking for the
mutex gets it (strong on the lock steps): glibc's mutex is not fair step by step, but does not starve a thread for
ever against clients that do other work between calls, and Linux schedules every runnable thread. No fairness on
calls, on spurious wakeups or on the R5. `driver_recv`: a system call in progress returns when the kernel can answer.
`app`, `app_ctrlc`: main weakly, the workers strongly fair, for the same reasons; signals, failures and the R5 owe
nothing. A poll that returns is the only thing that bounds the RPMsg worker's wait, as in the code (line 41). `boot`:
only the processor is fair, because nothing else runs on the board yet; the hardware owes nothing, so `BootEnds` says
that the boot ends or stays for ever in one of the memory's unbounded loops. `gpio`: each instance is scheduled;
signals owe nothing.

**Findings.** The four violated runs are disagreements between the program and its own text. Two matter in use: with
an idle R5, or when the device could not be opened, the first Ctrl+C or `systemctl stop` leaves the process asleep, and
a second one kills it without any clean-up, which is what an operator will do. `ShutdownUnlessIdle` shows that the
sleeping GUI worker is the only obstacle to a shutdown: waking it when the flag is cleared repairs it. `DeadForGood`
states another limit, and no text denies it: after a restart of the R5 the application receives nothing until it is
restarted itself. Four smaller things met on the way need no run: `msq_queue.h:41` says that a push to a full queue
returns -1 where the code returns `-ENOSPC`; serdes_fixcal_code calibrates eleven times where its comment says ten; the
search can settle for a failed setting in one pattern (`EarlyGlitch`, in the statement of `ChosenPassed`); and a SATA
lane other than lane 3 would not get its reference clock back (`LanesGivenBack` says so; this board uses lane 3).

## 4. What is proved

All proofs are checked by TLAPS with SMT (Z3), Zenon and, for the temporal steps, LS4, for every value of the constants
that satisfies `QueueAssumption` (a capacity of at least one, finitely many threads, the two markers outside their
sets) or `DriverAssumption` (finitely many descriptors that are naturals, `NoPath` not a path, datagram lengths, a
positive message size and counter range). For the application the assumption is `AppAssumption` (message numbers and
sizes, capacity and markers; the components' assumptions follow from it), for the boot `PsuAssumption` and
`RetriesAssumption` (a sequence of PLLs, a poll length, at least one retry), for the lanes `FixcalAssumption` and
`IllAssumption` (at least one round; more than four settings that fit nine bits; protocols and rates in range), for
gpio-demo `GpioAssumption` (at least one pin, an int of at least one bit, naturals as values, no empty pattern).

* `MsgQueueProofs!InvariantHolds`: `Spec => []IInv`. `RingConsistent` alone is not inductive: the step that writes
  `count` is right only because nobody else is inside a critical section (`MutexInv`), because what the thread read
  of `count` still holds (`TestInv`) and because the roles and the life cycle hold (`RoleInv`, `UseInv`). `SleepInv`
  ties the wait set to the program counters; `StoredInv` says that a stored message is still there when it is
  counted. The arithmetic of wrapping indices is in `ModShift` and `ModUnshift`. `TypeCorrect` and
  `RingStaysConsistent` follow.
* `MsgQueueProofs!NoWakeupIsLost`: `Spec => []NoLostWakeup`, a counting argument on top of `IInv`: while somebody
  sleeps, there are at least as many awake consumers and unrung bells as messages to take. Each step moves one member
  between the finite sets counted.
* `MsgQueueProofs!RingRefinesFifo`: `Spec => FifoSpec`. The messages of the ring are a walk of `Unclaimed` slots
  from `head`; storing past the walk leaves it (`WalkStore`), raising `count` appends (`WalkOn`), moving `head` drops
  the first (`WalkLater`). A push takes effect when it raises `count`, a pop when it moves `head`; all other steps
  stutter.
* `RpmsgDriverProofs!InvariantHolds` with `TypeCorrect`, `DescriptorsStayOwned` and `WaitsAreHonest`. The
  strengthening is `StepInv`: a context in the middle of an open is closed, one in the middle of a read is open. It is
  why an open may take any free descriptor without orphaning one, and exclusive ownership is in turn why no other
  thread can drain the channel between a poll and its read.
* `RpmsgDriverProofs!RecvIsHonest`: `Spec => RecvHonest`, an action property from the same invariant.
* `LinuxAppProofs` puts the two components together. `ChannelIsDriven`: what the application and the R5 do to the
  channel is a behaviour of `RpmsgDriver`, so the driver's invariant holds inside the application. `AppInvariantHolds`:
  `AppInv` ties the position of main to what exists and which threads live (`MainInv`), the position of each worker to
  where it is inside the queue (`CallerInv`) and to its descriptor (`ChannelInv`); `NothingLeftBehind` follows, and
  `QueueIsUsedByItsRules`: `Spec => MsgQueue!Spec`, which `MsgQueue` needs as a rule for its clients and which no client
  can keep without the joins being in place on every path. From it the queue's theorems hold inside: `RxQueueIsFifo`,
  `GuiIsWoken`.
* `LinuxAppProofs!FlowInvariant`: the dashboard, the GUI worker's hands, the ring, the RPMsg worker's hands and the
  kernel's queue, put one after the other, are a rising sequence of numbers the R5 has sent. Order in the
  ring alone is not inductive: a message leaves one place and enters the next, and only the whole line tells. Every step
  is a `FlowStep`: it moves the first message of one place to the end of the next, sends one, drops one where the code
  says so, or changes nothing. `MessagesStayInOrder`, `NothingElseIsLost` (`LostOnlyForAReason`) and
  `DeadChannelsStayDead` (`DeadForGood`) follow from it. For the losses after a stop
  request `NothingElseIsLost` also needs where the workers are when main destroys the ring (`AppInv`), and that this, the
  closing of the channel and the end of a worker come only after the flag was cleared (`Stops`).
* `LinuxAppProofs!ApplicationIsALine`: `Spec => TelemetrySpec`. What a step does to one place is lifted to the whole line by lemmas on concatenation
  (`InTheMiddle`, `FrontPart`), and a message that the RPMsg worker takes crosses from the channel into the line. Two
  facts of other kinds are needed. A push that is
  refused sees `count = Capacity` under the mutex, which by `RingConsistent` are `Capacity` messages of the line, all
  before the refused one. And the worker closes a channel it has opened, and main destroys a ring that has been used, only after the
  flag was seen cleared, which nothing sets again (`Stops`).
* `LinuxAppProofs!StuckForGood`: the shape of the finding `app_ctrlc`, for any constants. Once the GUI worker sleeps on
  the empty ring with the RPMsg worker gone, every later state has it in `msg_queue_pop` and main in its joins: a
  spurious wakeup only sends it round the `while` of line 65, a signal with a handler only clears the flag again.
* `LinuxAppProofs!RpmsgRunsDown`: what `RpmsgStops` rests on besides fairness. Once the flag is clear the RPMsg worker
  has at most fourteen steps of its own before it (`RpmsgLeft`), a push in progress included, and no step of another
  thread, of a signal or of the R5 adds one. The GUI worker has no such bound, which is the point of `StuckForGood`.
* `PsuInitProofs!InvariantHolds` and its consequences, all safety properties of the `boot` run: in `DdrPhy` the
  strengthening relates retries to attempts at each point of the lock loop (`PhyCount`) and the modes to where the
  training is (`PhyFlags`); for the PLLs, what each step leaves for the next; for the status, that 0 is never forgotten.
* `PsuInitProofs!BootRunsDown`: what `BootEnds` rests on besides fairness. `StepsLeft` adds up what the memory bring-up,
  the PLLs and the stages have before them; every step of the processor lowers it, the hardware leaves it alone. So
  the processor makes at most 25 + 2 * `Retries` + (number of PLLs) * (`PollTime` + 6) steps, whatever the hardware
  answers. That only a wait without a bound can keep it from the next one is the part of `BootEnds` left to TLC.
* `SerdesFixcalProofs!VotesAreHonest`: the scan is right for any readings and any number of rounds. `Led` says what it
  maintains: slot 0 holds the largest count before `index`, the code is one that had it, the slots from `index` on are
  untouched. It fails as soon as the running maximum is written anywhere else.
* `SerdesFixcalProofs!ForcesOnceAndWhole`: `ForcedOnceAndWhole`, for any codes and any earlier contents of the six
  registers. The conjunct `Ended` says that the scans and the forcing are reached only after every round,
  none of them out of time. The bits of the codes are followed one by one: a mask drops exactly the field it makes room for (`FieldsAreCleared`), a stored slice of a
  code is that slice when it is read back (`StoredBits`, `FieldBits`, `FiveBits`).
* `IllCalibrationProofs!ChoicesPassed`, `FieldsStayKept`, `LanesComeBack`: for any number of settings and any protocols.
  `ChoicesPassed` is not that the setting chosen passed in every case: it says so of a search that found an eye (five
  neighbours passed, or two before a failure away from the beginning), and of a narrow eye with the exception of
  `EarlyGlitch`, the pattern in which the missing reset of psu_init.c:23181 makes the code settle for a setting that
  may have failed. Without an eye the code takes a default, and nothing is claimed.
  `Eye` describes what the counters of `Judge` mean after the first n settings: where the current run began, that no
  long run was passed over, that the second choice is a setting that passed, except after an early glitch.
  `LanesComeBack` needs SATA on lane 3 only, as its property says.
* `InitSerdesProofs`: the theorems of the two parts hold of every run of `init_serdes`, and `SerdesInReset`.
* `GpioDemoProofs!GpioInvariant` with `GpioTypes`, `PinsGivenBack` and `BitsStayInPlace`, for any number of instances,
  any width and any patterns. That nothing is exported at the end is not inductive, since instances take pins from and
  leave pins to each other. `OwedInv` is: for every exported pin some instance still owes it, because the instance's
  closing loop has yet to come past the pin, or has ended in one of the two ways that leave pins behind (`Owes`). A
  signal moves an instance back to the beginning of that loop, so it only adds to what is owed. `MovedInv` describes
  the two loops over the bits (`Moved`): while setting, `value` is the number shifted by as many places as pins were
  passed, its sign above it (`ShiftedOut`), whether or not the kernel took the bits; while reading, from the top pin
  down, `value` holds the bits seen as far as it reaches (`Holds`). `DrivenInv`, on the kernel's `level`, follows from
  the first, since a pin is driven to bit 0 of what is left. That a bit is 0 or 1 needs that 2^n is positive, which
  is here a theorem about subsets (`PowersOfTwo`), as induction is not at hand.
* `GpioDemoProofs!HandlersRunDown`: what `SignalEnds` rests on besides fairness. `StepsLeft(p)` counts the signals that
  may still interrupt a handler and the pins it has yet to come past; a step of `p` lowers it, no other instance
  touches it. `HandlerInv` is needed: an instance in a handler never gets back to the loop that was interrupted.

Only model-checked: liveness (`PushReturns`, `SleeperServed`, `WaitEnds`, `RpmsgStops`, `ShutdownUnlessIdle`,
`QueuedIsShown`, `BootEnds`, `SignalEnds`), since TLAPS does not reason about `ENABLED` and fairness; of `RpmsgStops`,
`BootEnds` and `SignalEnds` the measure that falls with every step is proved (the three theorems `...RunsDown` and
`...RunDown`), and what TLC adds is that a next step is possible and is taken. Every safety property of a passing run
is a theorem.

## 5. How to extend it

The modules were written in the order queue, driver, application, lanes, boot, gpio-demo, each checked before it was
proved. What would come next, when the code does:

1. The transmit path, once `rpmsg.c:49-50` is written: a producer for `tx_queue`, a second pop in the RPMsg worker,
   which would then sleep where it now polls; `RpmsgStops` is the property to watch.
2. The MQTT worker: a second consumer. The queue's theorems hold for any number of them; `InOrder` would have to become
   an order per consumer.
3. A reopen after the R5 has restarted: `DeadForGood` would be replaced by its opposite, and `InOrder` shown again.

## 6. What is not modelled

* The bytes of a message, `crc32` (never computed or checked), what is printed, allocation on the stack.
* The data race on `g_is_running` (a `volatile bool`) beyond reading it at any moment, and `printf` inside the signal
  handler, which is not async-signal-safe.
* Time: a timeout may fire whenever nothing is there to read.
* The register tables of `psu_init.c`: some 20000 lines that write one constant after another, with no decision, no
  state and no result but the registers. There is nothing in them that a model could get wrong other than by copying
  them; the steps `Table` stand for the calls. The file is in the repository twice, and `psu_init_gpl.c`, also twice, has
  the same functions; together with their headers of addresses and masks these copies are nearly all of the
  repository's lines of C, and one copy's functions are what is modelled.
* `serdes_illcalib_pcie_gen1` counts packets and errors of a self test; the model takes its verdict, pass or fail.
* `peek` and `poke` (one access and exit), the hardware design (generated wrappers around vendor blocks), kernel,
  device tree and boot configuration, and the parts without code (MQTT, Qt, R5, Modbus, STM32).
