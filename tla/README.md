# Verification of the micro:bit simulator

The simulator (`source/`, `inc/`) runs the MicroPython VM of the BBC micro:bit
on Linux against simulated hardware.  These modules model it in TLA+: TLC
checks them on small instances, and TLAPS proves their safety properties for
every value of the constants.

## 1. The system

| part | state | operations | works with |
|---|---|---|---|
| Two-thread core, `Main.cpp:64-308, 341-351, 1038-1396` | `code_lock`, `updates_file_lock`, `interrupt_waiting`, `suspend`, `shutdown`, `signal_pending_since`, `sigint_requested`, `suppress_pin_led_updates` | branch hook, `__WFI`, `signal_interrupt`, `handle_timerfd_event`, `fastforward_timer`, epoll loop | everything: it owns both threads |
| Device updates, `Main.cpp:353-609` | what each check last sent | six checks per macro tick, heartbeat, ack, bye | reads pins, LEDs, random, marker, radio; writes the updates pipe |
| Client events, `Main.cpp:669-1032` | none (the read buffer is local) | framing, JSON, one handler per event type | writes pins, sensors, radio queue, random; `resume` wakes the VM |
| Ticker, `ticker.cpp` | 16us tick count, macro ticks, four due times | set, clear, `fire_ticker` | called under `code_lock` by either thread |
| Serial port, `Hardware.cpp:52-159` | ring with head, tail and echo indices | `serial_add_byte`, `serial_getc`, `serial_putc` | main adds, VM reads and prints |
| GPIO, LEDs, sensors, `Hardware.cpp:525-777`, `pwm.cpp` | pin modes, voltages, LED brightness history | mode, read, write, strobe | VM, client events, checks |
| Random source, `Hardware.cpp:840-901` | injected choices, exhausted flag | inject, draw, report | client event, VM, check |
| Radio, `Hardware.cpp:903-975`, `PacketBuffer.h` | configuration, receive and transmit queues | enable, configure, send, receive | client event, VM, check |
| Marker failure, `Hardware.cpp:977-1004` | one category and message | set, get, clear | VM, check |
| Message bus, `MicroBitMessageBus.cpp` | listeners, event queue | listen, ignore, send, process | MicroBit runtime |
| MicroBit runtime, `MicroBit.cpp` | display modes, soft-reboot count | display, panic, reset | VM |
| JSON parser, `json/*.c` | none | parse, get, destroy | client events |
| Supervisor, `Main.cpp:1423-1519` | child process | fork, wait, restart on exit code 99 | the whole simulator |
| Stubs and declarations: fibers, `Unsupported.cpp`, `inc/mbed` | none | | |

The hard behaviours are those of the two-thread core.  The main thread wakes
the VM through one condition variable and waits for the delivery on a second;
neither wait tests a condition.  In fast mode the timer is gone: the code
thread runs the ticker itself and sleeps until the marker has answered an
update, while the main thread may fast-forward the same ticker.  State is read
under the lock, sent without it, and marked as sent later, so that the VM comes
between any two of these steps.  Around the core: counters that wrap (ticker), a
ring with no test for being full (serial), a message bus whose handlers call it
again while it walks its lists, configuration that changes while frames wait
(radio), a client's lines cut by reads of a bounded buffer, and a simulator
that is killed or restarted between them.  Each one is listed with its source
line in `PROJECT.json` under "hazards".

## 2. Modules

| module | models |
|---|---|
| `Simulator`, `MCSimulator` | the two threads (`Main.cpp`), the rounds of checks for its runs |
| `SimulatorProofs` | theorems about them: types, locks and the handshake; sleeps and resumes; heartbeats and the flush |
| `Ticker`, `MCTicker`, `TickerProofs` | `ticker.cpp` |
| `SerialFifo` | what the serial port promises |
| `SerialPort`, `MCSerialPort`, `SerialProofs` | the ring, the receive handler and the echo filter |
| `EventQueue` | what the queue of the message bus promises |
| `MessageBus`, `MCMessageBus`, `BusProofs` | listeners, the queue of events, handlers that call the bus; theorems |
| `Gpio`, `Radio`, `RandomSource` | one device each: state, operations, invariants |
| `Devices`, `MCDevices`, `DeviceProofs` | the devices composed with the rounds of checks that report them, theorems |
| `JsonParser`, `JsonWords` | the parser as operators on words, and the grammar it is compared with; every word of a family |
| `JsonProofs`, `JsonNestProofs` | theorems about the parser: strings, escapes and numbers; brackets to any depth and the order of elements |
| `ClientPipe` | reads, lines and events of the client, `main()` and its children |
| `Client`, `MCClient` | what lines come to (`process_client_json`), and the composition that TLC runs |
| `ClientProofs` | theorems about the pipe with any parser, and about the composition |

### Simulator

`pc[t]` is the point that thread `t` has reached.  A label stands for the code
up to the next point at which the other thread could tell the difference: a
mutex operation, a condition wait, a read or write of a shared variable outside
a lock.  A call leaves its return point in `sig_ret`, `tick_ret` or `w_ret`.

| action | code |
|---|---|
| `VMRuns`, `VMYields`, `Resume` | the VM between two unlocks of `code_lock`; the hook and `__WFI` begin with the unlock and end with the lock |
| `Hook`, `HookWoken` | `simulated_dal_micropy_vm_hook_loop` |
| `WFI`, `WFIWait`, `WFIWoken`, `WFIFlags` | `__wait_for_interrupt` |
| `Suspend`, `SuspendOver` | the wait for `suspend_wait` in both |
| `Signal`, `Delivered`, `Bounce` | `signal_interrupt` |
| `TickLock`, `Fire`, `Round`, `Check`, `Copy`, `Clear`, `Heartbeat`, `ReadTick`, `StoreTick` | `handle_timerfd_event` and the checks it calls; either thread |
| `Write`, `Written` | `write_to_updates`; either thread |
| `Loop`, `Epoll`, `HandleSigint`, ..., `Rearm` | the epoll loop, one action per section |
| `Stall`, `StallTest` | the watchdog of a Ctrl-C, with its two reads of `signal_pending_since` |
| `ReadClient`, `ProcessResume`, `InputLock`, `InputSet`, `Ack` | client events, the read that fills the buffer and is dropped among them (`Environment` says whether there is one); all that set device state share the shape of `process_client_button` |
| `FastForwardTimer`, `LastSignal` | `fastforward_timer`, flush and bye |

Data are abstracted to what the properties tell apart.  `dirty` holds the kinds
of device state that differ from what was last sent; the serial input is one
bit, `unread`; of the macro tick counter only differences are kept (`pending`,
`since_heartbeat`, `ff`, `stale`), each capped where the code stops looking.
The sections of `interrupt_signal_lock` and `suspend_lock` contain no other
blocking call, so each is one step.  The heartbeat is four steps, since it has
no lock: the test, the second read of the macro tick, its store in
`last_heartbeat` (`since_heartbeat` counts from there, `age[t]` is how old the
tick of thread `t` is when it is stored), and the write.  `untold` is history:
the macro ticks since a heartbeat was written, whoever wrote it.  `dropped` is
history too: a `resume` was in a read that filled the buffer.
The comparison at line 1050 reads the macro tick and a static that only rounds
store; it is one step, since the other thread can only move the first on, which
makes the round due all the more.  `n` counts branches, `quiet` counts ticker calls
without a macro tick.  How a client's bytes become events, and what a
full buffer loses, is in `ClientPipe`; what the checks compare is in `Devices`.

### Ticker

One action per function, each atomic because all callers hold `code_lock`.
`until[c]` is what each of the two callers passes to its next call.  The
counters wrap at `W`; `Horizon` bounds the tick count, and above `W` it is no
bound.  `since_macro` and `short` are history: the ticks since the last macro
tick, and by how much the delays that a callback has returned fall short of one
wait (`Shortfall`), summed since it was set.

### SerialPort

`serial_add_byte` is four steps (`Store`, `Load`, `Advance`, `Irq`) because one
of its callers does not hold the lock.  The VM is external: `setup` says whether
it has attached a handler, which takes each byte as it is added, or polls, and
whether the run is interactive; it echoes what it reads and starts a new prompt
after a control character.  `SerialFifo` is the promise: what was typed, once,
in order.  The refinement maps its queue to the bytes between tail and head, in
the setup that the promise is about (`Polled`).

### MessageBus

Listeners run on the stack of whoever sends, so `stack` holds the activations
in progress: `queueEvent()` walking the listeners for the urgent ones,
`idleTick()` walking them for the others, and handlers inside
`async_callback()`.  A handler may call `send()`, `listen()` and `ignore()`; so
may the VM with nothing in progress.

| action | code |
|---|---|
| `Send` | `send()` and `queueEvent()` up to the first urgent listener; the tail it has found is kept in `prev` |
| `Deliver` | the next listener in `process()`, and `async_callback()` up to the call of the handler |
| `CallbackReturns` | the rest of `async_callback()`: the next event queued for the listener, or BUSY cleared |
| `QueueEvent` | `queueEvent()` after `process()`: linked behind `prev`, dropped, or complete |
| `IdleTick`, `IdleContinues` | `idleTick()`: marked listeners deleted, the head taken and processed |
| `Listen`, `Ignore` | `listen()` with `add()`, and its own event; `ignore()` with `remove()` |

The queue is the linked list of the code, `qhead`, `qtail` and `qnext`, with
the events numbered by their call of `send()`; `Chain` follows it, and
`OrderedQueue` is the refinement of `EventQueue` with `Chain` as its queue.

### Devices

`Gpio`, `Radio` and `RandomSource` have the state and the operations of one device each;
the VM's calls and the client's events are their actions. `Devices` adds the sensors'
data-ready lines and the marker failure, and the rounds: a reporter copies the state of
a device under the lock (`Copy`), compares the copy with what it remembers and writes it
(`Write`), and remembers the copy (`Remember`), and any call of the VM or the client may
come between two of these.  The marker failure is set in two steps, category and message
(`SetFailure`, `CopyMessage`, under the lock; null pointers have the effect of two empty
texts), and reported in four: tested under the lock (`CheckMarker`), its category and
then its message read without it (`ReadCategory`, `WriteMarker`), cleared under it
(`ClearMarker`).  The radio queue gives one frame a round, taken under the lock
(`TakeFrame`) and written without it (`WriteFrame`); in between it is in `frame[t]`.
The devices share no state but the rounds, so that a behaviour exercises one of them
(`focus`) while the rounds go over all; a behaviour that exercised two would be an
interleaving of steps that commute. `lit` and `litFrame` count independently of the code
for how many ticks the pins have lit each LED.  The number of ticks becomes a brightness
in `ticks_to_brightness`.  `GpioPin::get_voltage()` of a floating input is noise, here a
set of voltages.

### ClientPipe and JsonParser

A client writes lines, each a word of tokens, whole or cut after one of `Cuts` tokens;
in the pipe a token is the number of its line and its place there, from which `Text`
recovers what was written.  A token is a character, or stands for several that the
parser does not tell apart (white space, a whole string, an escape).  `Read` takes what
is there, at most `BufSize` tokens, leaves the rest (`Left`), and drops what it took
when the buffer is full; `ProcessLine` cuts a line off the buffer, and its events go to
`hand`, from which `HandleEvent` handles one after the other; a child that is killed in
between has handled the first of them (`interrupted`).  Which events those are is a
parameter of the steps: `PipeSpec(parsed)` is the pipe with any function from pieces of
lines to events, so that its theorems need no parser.  `Client` gives it the real one,
`Parsed`, which is `json_parse_n` followed by `process_client_json`, on all `Pieces` of
its lines. The pipe is reported as long as something is in it, the file once per change
(`Reported`).  JSON that is not a list is used as one all the same: the values of an
object are taken for events (`Members`), and for a string, a number or `true` the
outcome is undefined (`GoAstray`: the child goes on or is killed).  `Fork`, `ForkFails`,
`Open`, `Watch`, `Return`, `Killed` and `Wait` are `main()` and the life of a child:
between `Open` and `Watch` it has emptied the file and does not yet watch it.
`WatchFails` is the return of `main_thread()` when it cannot: the child waits to join
its code thread.

`JsonParser` follows the functions of `json.c` and `lexer.c`.  The code recurs
from value to value; here what `parse_array()`, `parse_object()` and
`parse_string()` come to is a function of the place in the word at which they
stand, defined by what it is at later places (`NestedIn` by `NestedStep`,
`StringsOf` by `StringStep`).  A number is copied into a buffer of fixed size
and must fit into it (`Scanned`, `NumberSize`).  `IsText` is the grammar of RFC
7159 on the same tokens, written without a parser: texts, members and lists
between two places of the word (`IsTextIn`, `IsMemberIn`, `IsListIn`), strings
and numbers by what their tokens are.  The token `ctl` is a control character
without a short escape; a string that has one (`Controlled`) is none of the grammar's,
and `IsQuoted` is a string but for that.  `JsonWords` grows a word token by token
as long as the parser ran off its end, so that every word that the parser reads
to the end is met.  `Client` puts the two side by side for one run: a behaviour
is of the pipe or of the words (`part`).

## 3. Runs

| run | shows |
|---|---|
| `SimNormal` | normal mode with heartbeats, Ctrl-C, typed Ctrl-D, client events, spurious wake-ups and the marker check: `TypeOK`, locks, handshake; only the lock's holder touches serial input |
| `SimLive` | normal mode, fair: `signal_interrupt` returns, flags end the program, input wakes the VM |
| `SimFast` | fast mode, heartbeats, a stuck Ctrl-C, a client buffer that overflows, both threads in the ticker: no sleep without an answer on its way or dropped, at most two intervals and a tick between heartbeats, everything reported before bye |
| `SimFastLive` | fast mode, not interactive, fair: flags end the program, changes are reported |
| `TickerRate` | two fast timers, any delays, both callers, no wrap: macro ticks do not drift and are spaced, a callback is late by less than one wait and what its own delays were short of one |
| `Serial` | a polling VM and a user who leaves room: FIFO, exact echo filter; and a receive handler with the unlocked Ctrl-D: the indices stay in the ring |
| `Bus` | handlers that send, listen and ignore inside the walks: the linked list stays whole, in the order of sending and bounded (`EventQueue`), a listener is entered once at a time, queued events are processed |
| `Devices` | brightness, random numbers, radio and data-ready lines are exact; the client's picture ends as the state of the device, frames and failures are reported |
| `Client` | events are handled in order, once, and of a line all of them but after a kill in its middle; what is lost was cut, dropped or lost with a child; only exit code 99 restarts; the parser accepts the grammar's words and, but for the differences named below, no others |

These runs end in a counterexample, each a difference between the code and a
sentence in it (quoted in `PROJECT.json`, "findings"):

| run | what happens |
|---|---|
| `SerialInjected` | `__WFI` adds a Ctrl-D to the ring without `code_lock`, and the race with the main thread can lose it |
| `SimStaleResume` | one `resume` answers two updates |
| `TickerStandstill` | macro ticks stop for the whole range of the counter when it wraps, if a fast timer has moved the calls |

`TickerStandstill` keeps the remainder that the counter's range has modulo a
macro tick below one wait, as in the code (2^32 mod 375 = 46 < 75).

### Bounds

*Simulator*: one or two checks per round, `BranchLimit`, `HEARTBEAT_TICKS`,
`StallTicks`, `FastForward` and `FlushTicks` of 1, at most `MaxQuiet` (0 or 1) ticker
calls between macro ticks, and at most one client event waiting. `SimFast` has
heartbeats every two macro ticks and fast-forwards by four, so that the other thread can
go through more than a whole interval while one is at its heartbeat; the bound of
`HeartbeatInTime` is reached.  These are enough for every interleaving of the two
threads around a branch wait, a heartbeat, a stuck Ctrl-C and the flush: longer counts
repeat the same labels, since each count only guards one branch.  `Ended` stands for the
join of the code thread, so that a state in which main has finished and the code thread
has not is a deadlock, as is one in which both threads sleep and no event can come.

*Ticker*: delays of one less than a wait, a wait, and more than two; sixteen
ticks are two macro ticks and a half, in which the first timer can fall short
several times.

*Serial*: a ring of 4 slots wraps within a line of three bytes.  `unread` of a
setup is how many bytes the user lets wait.

*Bus*: five events, a queue of two, three calls of `listen()` and `ignore()`,
and calls by handlers on a stack of up to four activations: enough for an
urgent handler whose own events fill the queue before the event it was called
for, and for a listener reached again by an event that its handler sent.

*Devices*: four calls of the VM and the client between the steps of the rounds
(five for the matrix, which is two periods of light and a new frame), a matrix
of two rows and a column, three ticks, `INT32_MAX` of 4 with repeats below, at
and above 0, three frames.

*Client*: two lines out of four kinds (one event, two with a member between that is
none, a bare object, an empty list), cut after 4, 5 or 12 tokens or not at all, a buffer
of 27 tokens, so that one line fits and two do not, and two children.  Words have up to
nine tokens, which is an object of two pairs, and in strings eight, which is two
surrogate pairs and an escape in quotes.  `NumberSize` is 8 (1077 in the code), so that
there are numbers on both sides of it.  Names, digits and escapes are one or two members
of each class that the code distinguishes.

Deadlock is checked in all runs but two: `TickerRate` stops at its horizon, and
in `Client` a word is not continued when the parser has found its error.

### Fairness

`FairSpec` of `Simulator` assumes weak fairness of each thread's steps, of the
VM reaching its next jump or `__WFI`, of the armed timer, and of the marker
answering an update.  Nothing is assumed of what the VM does in between, of the
user or of the client's inputs.  Weak fairness of the main thread is enough
although it competes for `code_lock` with a VM that releases and retakes it for
ever: every `BranchLimit` branches the hook waits until the main thread has
signalled (normal mode), and the mutant `NotCounted` shows that
`signal_interrupt` need not return without that.  In fast mode the same holds of
the sleep on `suspend_wait`, which the heartbeats force and the marker ends;
that is why `SimFastLive` has heartbeats on.

`MessageBus`: handlers return, walks go on (`BusStep`), and the VM calls
`idleTick()` again and again, which it does in its idle loop; `idleTick()` may
leave its loop after any event.  `Devices`: each reporter goes on with its round
and begins another, since the timer, or the branch hook in fast mode, calls
`handle_timerfd_event` for ever.  `ClientPipe`: the main thread reads what epoll
reports and works off its buffer, and `main()` waits for its child; no child is
assumed to end, and none to be spared.

### Other differences

Met while modelling, and in no run because no property states them or the
wording leaves room.

- Ctrl-C that stays unanswered does not shut the simulator down: the comment at
  `Main.cpp:117-118` says it does, and lines 1194-1201 only fast-forward the ticker.
- A fast callback's result is said to be in microseconds (`ticker.cpp:41-43, 99-100`)
  and is added to a count of 16us ticks (133).  "This bounds the scheduling latency to
  1.5ms -- wrong, but not a problem" (`ticker.cpp:138-139`): it bounds it only for
  callbacks that ask for at least a wait (75 ticks, 1.2ms).  A callback runs once per
  call, so that one that asks for less, as the display does for its brightnesses (2, 4,
  8, ... ticks, `Main.cpp:427`), falls behind by the difference each time, without
  bound.  `LatencyBounded` is the bound that is left, with the sum of these differences
  in it.
- "10-tick heartbeats means the marker will be at most 60ms behind"
  (`Main.cpp:122-125`) is true in normal mode.  In fast mode a thread that
  has stored `last_heartbeat` and not yet written lets the other go on for a whole interval
  and one call: up to 21 macro ticks pass without a heartbeat
  (`HeartbeatInTime`: `2 * HEARTBEAT_TICKS + 1`).
- A `resume` in a read that fills the buffer (`Main.cpp:1008-1011`) is lost, and
  in fast mode the code thread then sleeps until another one comes or the program
  is ended; `NoLostResume` has that case (`dropped`).
- When `___client_events` cannot be watched (`Main.cpp:1144-1153`), `main_thread()`
  returns and `run_simulator()` waits in `pthread_join` for a code thread that nobody
  tells to end.
- A read of stdin as long as the ring (`Main.cpp:1216`, `Hardware.cpp:55`) is
  lost where no receive handler empties it, so that `Serial` has a user who
  leaves room; output between a typed byte and its echo makes pending echoes show
  twice, so that its echo properties are about a VM that echoes at once; a Ctrl-C
  added between lines 160 and 164 of the hook is taken for handled, against
  `Main.cpp:162-163`.
- `deleteMarkedListeners()` tests `!l->flags & BUSY`, which is 0 whenever a flag is
  set: a listener that `ignore()` has marked is never deleted, against the
  comment at `MicroBitMessageBus.cpp:231` (theorem `NoListenerDeleted`).  A
  listener that may block is never called, because `invoke()` is a stub here, and
  an event queued for a busy listener is given to it after `ignore()`.
- A marker failure set while another is being reported is lost (`Main.cpp:534`), or
  comes out mixed with it, as category and message are read from the VM's buffers
  one after the other and without the lock (514, 519); `FailureReported` and
  `WholeFailuresWritten` are about every other.  With two reporters one may write the
  failure that the other has cleared, which comes out empty.
- In fast mode both threads may be inside one check, whose static of what was
  last sent has no lock: with two `Reporters` `ClientSees` fails for the random
  state and the radio's configuration, as the older copy may be written last, and an
  update may be written twice; and of two frames taken by two threads the later may be
  written first (`NothingToldTwice`, `WholeFailuresWritten` and `ReportedHolds` are
  about one).
- A round sends one radio frame, and the flush before bye has a fixed number of
  rounds: a longer queue is not all sent.  `simulator_radio_receive` reports the
  length of the frame, though it may have copied less.
- A voltage set by the client while the pin is an output is refused, and
  acknowledged all the same (`Hardware.cpp:676`).
- JSON that is not a list is reported and then used as one (`Main.cpp:953-954`);
  white space alone between brackets is refused, against RFC 7159, which
  `json.c:2` names, and numbers with leading zeros pass.  A number that does not fit
  into the buffer of `parse_number()` (`json.c:130-147`) is refused, although a line may
  be longer.  Raw control characters are accepted in strings (`json.c:383-388`), against
  section 7 of the RFC, and accepted everywhere there.  `AcceptsTexts` states the four.
- When a read fills the buffer, the rest of what is in `___client_events` waits
  for the next change of the file.  A read that fails would write before the
  buffer (`Main.cpp:1012`); the modules have no such failure.
- A child that is killed counts as exit status 0 (`Main.cpp:1505`);
  `OnlyResetRestarts` states it.

## 4. Theorems

For every value of the constants that the named assumptions allow:

| theorem | statement |
|---|---|
| `SimulatorProofs!TypeCorrect` | `Spec => []TypeOK` |
| `SimulatorProofs!CodeNeverTicks` | in normal mode the code thread is never inside the ticker or an update |
| `SimulatorProofs!MutexesRespected` | `Spec => []LockInv` |
| `SimulatorProofs!HandshakeHolds` | `Spec => []HandshakeInv`, spurious wake-ups allowed |
| `SimulatorProofs!NoResumeIsLost` | `Spec => []NoLostResume`: no sleep on `suspend_wait` without a resume to come, or one dropped with a full buffer |
| `SimulatorProofs!SerialLocked` | interactive: serial input changes only under `code_lock` |
| `SimulatorProofs!HeartbeatsInTime` | `Spec => []HeartbeatInTime`: at most `HEARTBEAT_TICKS` macro ticks without a heartbeat, in fast mode twice that and one |
| `SimulatorProofs!NothingLeftAtBye` | `Spec => []FlushedAtBye` |
| `TickerProofs!TypeCorrect` | `Spec => []TypeOK`, wraps included |
| `TickerProofs!MacroRateHolds` | `NoWrap`: macro ticks never drift |
| `TickerProofs!LatencyHolds` | `NoWrap`: callbacks are never late by one wait and what their own delays were short of one |
| `TickerProofs!SpacingHolds` | `NoWrap`: macro ticks are a macro tick less one wait apart, the ticks of the call that makes the second counted |
| `SerialProofs!TypeCorrect` | `Spec => []TypeOK`: no index leaves the ring, in spite of the race |
| `SerialProofs!InOrder` | `Fits`: the ring implements `SerialFifo` |
| `SerialProofs!EchoIsHidden`, `OutputIsShown` | `Fits`: the echo filter drops the echoes and nothing else |
| `BusProofs!BusTypeCorrect` | `Spec => []TypeOK`, queue and stack bounded |
| `BusProofs!ListWhole` | `Spec => []ChainInv`: length, tail and every saved `prev` agree with the list |
| `BusProofs!HandlersSerial` | `Spec => []SerialInv` |
| `BusProofs!ListIsQueue` | the linked list implements `EventQueue` |
| `BusProofs!NoListenerDeleted` | no step takes a listener off its list |
| `DeviceProofs!ExceededHolds` | the exceeded flag of the random source is exact |
| `DeviceProofs!ReceivedHolds` | a received radio frame that waits fits the current configuration |
| `DeviceProofs!ReportedHolds` | one reporter: radio frames are reported in order, once, and as they were sent |
| `DeviceProofs!DataReadyHolds` | a data-ready line is low exactly while a reading waits |
| `DeviceProofs!BrightnessHolds` | the brightness of an LED is its ticks in the last complete frame |
| `DeviceProofs!TypesHold` | `Spec => []TypeOK`, any matrix, queues and reporters |
| `DeviceProofs!NothingToldTwice` | one reporter: no update repeats what the client was told last |
| `DeviceProofs!WholeFailuresWritten` | one reporter: a marker failure written is one that was set, unless the VM sets another meanwhile |
| `JsonProofs!EscapeIsInverted` | `WordSpec => []EscapeInverts`: strings of any length come back from their escaped form |
| `JsonNestProofs!TextsAccepted` | `WordSpec => []AcceptsTexts`: the parser and the grammar agree, nested to any depth, but for the four differences named above |
| `JsonNestProofs!ElementsInOrder` | `WordSpec => []OrderKept`: elements keep their order, the last of equal keys counts |
| `ClientProofs!OnlyAskedFor` | any parser: `PipeSpec(parser) => []OnlyResetRestarts` |
| `ClientProofs!LinesInOrder` | `Understood(parser)`: `PipeSpec(parser) => []EventsInOrder` |
| `ClientProofs!LossIsExplained` | `Understood(parser)`: `PipeSpec(parser) => []LostExplained` |
| `ClientProofs!ClientHandlesInOrder`, `ClientLossExplained`, `ClientRestarts` | `Spec => []EventsInOrder`, `[]LostExplained`, `[]OnlyResetRestarts`, with the real parser |
| `ClientProofs!ClientParses` | `Spec => [](AcceptsTexts /\ OrderKept /\ EscapeInverts)` |
| `ClientProofs!ClientTypes` | `Spec => []TypeOK`: no buffer that is processed is full, and what waits is of lines begun |

The arguments.  `TypeOK` is inductive by itself; the lemmas prove it in its
four parts (control, synchronisation, data, input), each with one step per
action.  `LockInv` is inductive together with `TypeOK` and `NormalInv`, which
says that in normal mode only the main thread runs the ticker: otherwise `Fire`
could send the code thread into `signal_interrupt`, which has no label for it.
`HandshakeInv` is inductive with `TypeOK`: `Signal` reads `interrupt_waiting`
and signals the code thread in one hold of the lock, and `WFIWoken` clears the
flag and signals main in another.  `MacroRate` is inductive with `TypeOK` and
the horizon, since a call never adds more than `STEP` ticks and `STEP < MACRO`,
so at most one multiple is passed; `LatencyBounded` follows because a due
callback is re-armed from when it was due, by at least `STEP` less what `short` grows by.

`MacroTickSpacing` needs one more conjunct, `Spaced`: since the last macro tick
there have been at least as many ticks as since it was due, and `MACRO - STEP`
more.

`NoLostResume` follows from the two conjuncts of `SuspendInv`: `suspend` is set only
while an answer is still to come, from an update that is being written, is unanswered,
or whose resume is in the client's pipe or in the batch at hand, or was dropped with a
full buffer; and the code thread sleeps unwoken only while it is set.  `BatchInv` is
needed with it, since a resume is at the front of the batch only if no other section
takes something off.

`HeartbeatInv` counts each thread by itself: while none is about to write a heartbeat
(`Telling`), at most `HEARTBEAT_TICKS - 1` macro ticks since the last one written were
seen by a test that sent none, and each thread may have one more in the round it is in
(`Late`).  While one thread is about to write, the other's tests count from what that
one has stored, and may let as many go by again; a second thread that is about to write
adds none.  In normal mode only main can.  `FlushedAtBye` rests on `StopInv` (the code
thread has left before the flush, which nobody suppresses, so that nothing changes
device state any more) and on `FlushInv`, which follows the last macro tick of the flush
through the round: the checks it has been through have nothing to report.  Both take
`HEARTBEAT_TICKS` and `FlushTicks` to be positive, as the constants of the code are
(`BoundAssumption`); with 0 ticks of flush there is no round at all.

The serial port's `TypeOK` needs that main, once inside `serial_add_byte`, has a
byte to add (`Sending`), and that a slot plus any count, modulo the size, is a
slot.  The other three are about the VM that polls (`PollInv`): what has been
typed and not read, is being added, or is read and not echoed is together at most
what the user lets wait, so that the slot `Store` writes is neither a byte that
waits nor the one the next echo is compared with.  This needs `Fits`, that the user
leaves room in the ring, because `serial_add_byte` has no test for a full one.
The rest is arithmetic of distances around a ring (`RingAppend`, `RingRound`).

The message bus (`BusInv`): `QueueInv` says that the list is linked, sorted by the
number of the send, and has `queueLength` items and the right tail.  `WalkInv` is what
makes linking behind `prev` right although handlers have sent, queued or dropped
other events since it was found: of the nested calls of `queueEvent()` each has a
later event than the one below it, none of them is on the list, and each has
its place right behind its `prev`, so that the event of an inner call goes
behind the place of an outer one.  An event is taken off only by `idleTick()`,
which is at the bottom of the stack when it is there at all.  Following a list is
a recursive function; where an induction over its length would be wanted, the
proofs take the least number with which it goes wrong (`Least`), which follows
from a theorem of the library on well-founded relations.  The refinement then maps
`QueueEvent` to `Accept` with the place `i` as its witness.  `SerialInv` needs
`PendingInv`, that only a listener that queues has events waiting.

`OnlyResetRestarts` needs of main's state what was last stored by `waitpid`
(`ChildInv`), and that a code and a signal cannot be confused (`ExitCodes`,
`SignalCodes`).  For the lines, `Stream` is what is in the buffer, in the pipe and still
to be written: every step drops a prefix of it or appends a line.  `InStep` says that
the tokens of a line follow one another in it and that the next line begins after a
newline; `WholeInv` that a line which no read has cut is in the buffer as a whole;
`HandledInv` that what is in the stream comes after the lines of the events that were
handled or are in hand, and that these are whole lines in order, `handled \o hand`, but
for those interrupted.  The hypothesis `Understood` is that the parser makes the
client's events of a whole line and none of any other piece.  `Client` gives the pipe
the real parser, and TLC evaluates the hypothesis for it and the run's lines
(`LinesUnderstood`), so that the invariants of pipe, children and words together
(`ClientInv`) are inductive for `Client!Spec`.  For its types `BoundInv` is added: a
buffer that is kept is not full, since a full one is dropped, and a child runs only
while one more may end.

The parser.  `StringsOf`, `NestedIn` and the grammar's `Lists` are recursive functions of
the place where a string, an element or a list begins.  That there is such a function
(`StringsExist`, `NestedExists`, `ListsExist`), and what it comes to, is an induction from
the end of the word; here too it is done without the library's induction theorems, by
the last place with which it would go wrong (`Greatest`).  A string is accepted exactly when
no backslash behind an odd number of others stands before a token that is no escape
(`IsQuoted`, which says nothing of control characters, as the parser looks for none):
`StringAccepted` goes from one place that no backslash claims to the next.
`EscapeLayout` says where each character of a string stands once it is escaped, and
`EscapeRead` that it is read from there.  `NumberPlaces` gives the two places of a number of
the grammar, the ends of its integer and of its fraction, which are those at which
`ParseNumber` stops.

For brackets, `NestedSound` says that where the loop of `parse_array()` or
`parse_object()` comes to an end it has read a list of the grammar, and `NestedComplete`
that a list and its closing bracket are read; neither needs that a list has one end
only.  `OrderKept` compares the value of a word with those of parts of it, so that its
proof needs that a stretch of tokens comes to the same in every word (`NestedMoved`).
Then the first element is joined to what the rest comes to behind a bracket of its own,
in front for an array and behind for an object, where `GetAppended` says which pair
`json_value_get()` finds.

The devices share no state, and lemma `Projection` says so: whatever step `Devices`
takes, rounds and several reporters included, it is for each device one of that device's
operations or leaves it alone.  Each invariant is proved of these operations only.
`ExceededExact` needs that `remaining_random` is what the injection granted less what
was drawn.  `ReceivedMatches` and `ReportedInOrder` are inductive with the types of the
queues; the second is for a single reporter, which moves the head of `radio_tx` to its
hand and from there behind what has been reported, so that the concatenation of the
three is what was sent (`FrameInv`).  `DataReadyLine` needs `SensorInv`: a line is an
input with its pull-up, driven to 0 with a reading and to 33 without, or not driven at
all.  It rests on the lines being no pins of the edge or the matrix (`GpioAssumption`,
`DevicesAssumption`).  `BrightnessExact` needs `MatrixInv`: the pins of the matrix are
all outputs, or all as they were at the start.  In the second case every row and column
reads high and no LED is on, so that configuring the pins, which does not call
`update()`, changes no LED.  `UpdateCounts` and `CalculateCounts` are the two lemmas
about `DisplayLed`; ticks are natural numbers here, see the note in `Gpio` on
differences across the wrap.

For the types of the devices each LED's count is bounded by the ticks that have gone by
(`LedTimes`), and a round is described by the place each reporter is at (`RoundType`).
`NothingToldTwice` rests on `ToldInv`: outside the step between
writing and remembering, what a single reporter remembers is what the client was told,
and at that step the client has the copy.  `WholeFailuresWritten` rests on `FailureInv`:
while the VM is not between the two halves of a failure, what is set is one of its
failures or none, and while the reporter has one in work it is one, since the VM sets
whole ones and only the reporter clears it.

Every invariant and action property of the passing runs is a theorem.  Model-checked
only is liveness under fairness, which is outside the prover's reach: `SignalReturns`,
`FlagsStop`, `InputWakes`, `ChangesReported`, `Delivered`, `ClientSees`,
`FramesReported`, `FailureReported` and `PipeEmptied`.  The other way round, `TypeOK` of
`Devices` and of `Client`, `NothingToldTwice`, `WholeFailuresWritten`, `CodeNeverTicks` and
`NoListenerDeleted` are proved and in no run: the runs spend their properties on the
hazards.

## 5. Plan

1. (done) `Simulator`, the two threads: everything else runs inside them.
2. (done) `Ticker`, the clock that the rounds, heartbeats and watchdog read.
3. (done) `SerialPort` against `SerialFifo`.
4. (done) `MessageBus` against `EventQueue`.
5. (done) `Gpio`, `Radio`, `RandomSource`, composed with the rounds in `Devices`.
6. (done) `ClientPipe` with `main()` and its children, and `JsonParser`.
7. (done) Theorems for every safety property of the passing runs: the two threads,
   the refinements of `SerialFifo` and `EventQueue`, the devices, the client's
   lines, `main()` with its children, the parser against its grammar, and the
   composition of pipe and parser.
8. (done) Type correctness of `Devices` and `Client`, and the safety half of what is
   model-checked as `ClientSees`: what a reporter remembers is what it wrote.
9. Open: the safety half of `SignalReturns` and `InputWakes` (a notified waiter
   is awake); the serial ring with a receive handler, whose bytes need no room; and
   `Understood` for lines in general, which needs that no piece of a list but the whole
   is a text.

## 6. Not modelled

The MicroPython VM (external: it may do anything that the hooks allow), the terminal's
mode, the format of the JSON that is written, the tests of the members of each client
event (an event that fails them is acknowledged or reported, and changes nothing), the
value of a number, `\u0000` in a string and failing allocations in the parser, the
convergence of the timer on real time (`Main.cpp:1258-1268`, which only scales the
sleep), the coordinate systems and headings of the sensors and the lists of components
in `MicroBit.cpp`, the stubs of `Unsupported.cpp` and `MicroBitFiber.cpp`, vendor
headers, logging, and the scripts in `utils/`.
