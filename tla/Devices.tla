------------------------------- MODULE Devices -------------------------------
(* The devices together, and the rounds that tell the client about them      *)
(* (check_*_updates() of source/Main.cpp, called by handle_timerfd_event()). *)
(* A check takes a copy under code_lock, unlocks, compares the copy with     *)
(* what it remembers from the last time, writes an update and remembers the  *)
(* copy; the VM or a client event may come between any two of these steps.   *)
(* In fast mode both threads run rounds: Reporters.                          *)
(*                                                                           *)
(* The devices share no state, so a behaviour exercises one of them (focus)  *)
(* while the rounds go over all.                                             *)
EXTENDS Gpio, Radio, RandomSource

Empty == ""         \* the empty text

CONSTANTS
  Reporters,       \* threads that run rounds
  Foci,            \* devices exercised
  Texts,           \* categories and messages of marker failures, the empty one included
  Failures,        \* what the VM passes to set_marker_failure_event()
  Readings,        \* what the client sets accelerometer and magnetometer to
  MaxCalls         \* bounds on the calls of the VM and the events of the client, by focus

ASSUME DevicesAssumption ==
  /\ Foci \subseteq {"pins", "leds", "random", "radio", "marker", "sensors"}
  /\ {"accel", "mag"} \subseteq Internal
  /\ MaxCalls \in [Foci -> Nat]
ASSUME FailuresAssumption ==
  Empty \in Texts /\ Failures \subseteq [category : Texts, message : Texts]

VARIABLES
  focus, calls,
  failure,         \* _marker_failure_category and _message
  copying,         \* the message that the VM, in set_marker_failure_event(), has yet to copy
  failures,        \* history: the failures the client has been told of
  withdrawn,       \* history: what the VM set last was no failure
  sensor,          \* what the client set: reading and gesture of each sensor
  unread,          \* history: sensors with a reading the VM has not taken
  gesture,         \* currentGesture
  at,              \* where each reporter is in its round
  copy,            \* the copy it has taken
  remembered,      \* the static prev_* variables
  client,          \* history: what the client was last told
  frame,           \* the frame of the radio each reporter has yet to write
  reported         \* history: the frames the client has been told of
txVars     == <<frame, reported>>
checkVars  == <<at, copy, remembered, client, txVars>>
markerVars == <<failure, copying, failures, withdrawn>>
sensorVars == <<sensor, unread, gesture>>
vars == <<gpioVars, radioVars, randomVars, focus, calls, markerVars, sensorVars, checkVars>>

None == "none"
NoFailure == [category |-> Empty, message |-> Empty]
Texted == [category : Texts, message : Texts]
\* The data-ready lines, low when there is a reading; pins of Internal.
ACCEL_INT1 == "accel"
MAG_INT1 == "mag"
Sensors == {ACCEL_INT1, MAG_INT1}

\* The checks of a round, in the order of handle_timerfd_event().
RoundWithoutTx == <<"leds", "pins", "random", "marker", "radio_config">>    \* mutant
Round == <<"leds", "pins", "random", "marker", "radio_tx", "radio_config">>
Compared == {"leds", "pins", "random", "radio_config"}
Idle == [check |-> 0, step |-> "copy"]

Pwm(p) == IF PinState(p) = <<"OUTPUT", "PWM">> THEN <<pin[p].duty, pin[p].period>> ELSE <<>>
\* What a check copies.
State(c) ==
  CASE c = "leds" -> <<c, [d \in Leds |-> ticks_to_brightness(led[d].b)]>>
    [] c = "pins" -> <<c, [p \in Edge |-> [state |-> PinState(p), pwm |-> Pwm(p)]]>>
    [] c = "random" -> <<c, has_exceeded_random_call_limit>>
    [] c = "radio_config" -> <<c, radio_config>>
\* leds_prev starts with a brightness, prev_channel with a channel that cannot be; the
\* pins with states that no input has.
NotYet == <<>>

Init ==
  /\ GpioInit /\ RadioInit /\ RandomInit
  /\ focus \in Foci /\ calls = 0
  /\ failure = NoFailure /\ copying = <<>> /\ failures = {} /\ withdrawn = FALSE
  /\ sensor = [s \in Sensors |-> None] /\ unread = {} /\ gesture = None
  /\ at = [t \in Reporters |-> Idle]
  /\ copy = [t \in Reporters |-> NotYet]
  /\ remembered = [c \in Compared |-> IF c = "random" THEN <<c, FALSE>> ELSE NotYet]
  /\ client = remembered
  /\ frame = [t \in Reporters |-> <<>>] /\ reported = <<>>

--------------------------------------------------------------------------
(* The VM and the client *)

\* code_lock is free, or held for an operation that is one step here.
Unlocked == copying = <<>>
\* get_marker_failure_event() finds a failure.
HasFailure == failure.category # Empty /\ failure.message # Empty

Call == calls < MaxCalls[focus] /\ calls' = calls + 1

\* set_marker_failure_event(category, message) by the VM, which holds code_lock: the category
\* is copied, then the message (CopyMessage).  Null pointers leave what two empty texts do.
SetFailure(f) ==
  /\ copying = <<>> /\ copying' = <<f.message>>
  /\ failure' = [failure EXCEPT !.category = f.category]
  /\ UNCHANGED <<failures, withdrawn>>
MarkerNext == \E f \in Failures : SetFailure(f)

\* set_accelerometer() or set_magnetometer(): the reading, and the line pulled low.
ClientReading(s, r) ==
  /\ sensor' = [sensor EXCEPT ![s] = r]
  /\ unread' = unread \cup {s}
  /\ ClientVoltage(s, 0)
  /\ UNCHANGED gesture

TakesQuietly(s) ==                             \* mutant: the line stays low
  unread' = unread \ {s} /\ gesture' = gesture /\ UNCHANGED <<sensor, gpioVars>>
\* get_accelerometer() in MicroBitAccelerometer::update(), which sends the gesture to the
\* message bus when it is another one, and get_magnetometer() in MicroBitCompass::idleTick().
TakeReading(s) ==
  /\ unread' = unread \ {s}
  /\ ClientVoltage(s, 33)
  /\ gesture' = IF s = ACCEL_INT1 THEN sensor[s] ELSE gesture
  /\ UNCHANGED sensor
DataReady(s) == ~IsHigh(pin[s])

SensorNext ==
  \E s \in Sensors : (\E r \in Readings : ClientReading(s, r)) \/ TakeReading(s)

Exercise ==
  /\ Call /\ UNCHANGED <<focus, checkVars>>
  /\ \/ focus = "pins"    /\ PinNext    /\ UNCHANGED <<radioVars, randomVars, markerVars, sensorVars>>
     \/ focus = "leds"    /\ MatrixNext /\ UNCHANGED <<radioVars, randomVars, markerVars, sensorVars>>
     \/ focus = "random"  /\ RandomNext /\ UNCHANGED <<gpioVars, radioVars, markerVars, sensorVars>>
     \/ focus = "radio"   /\ RadioNext  /\ UNCHANGED <<gpioVars, randomVars, markerVars, sensorVars>>
     \/ focus = "marker"  /\ MarkerNext /\ UNCHANGED <<gpioVars, radioVars, randomVars, sensorVars>>
     \/ focus = "sensors" /\ SensorNext /\ UNCHANGED <<radioVars, randomVars, markerVars>>

CopyMessage ==
  /\ copying # <<>> /\ copying' = <<>>
  /\ failure' = [failure EXCEPT !.message = Head(copying)]
  /\ withdrawn' = ~HasFailure'
  /\ UNCHANGED <<gpioVars, radioVars, randomVars, focus, calls, failures, sensorVars, checkVars>>

\* The ticker moves on while the matrix is driven.
Time == focus = "leds" /\ Tick /\ UNCHANGED <<radioVars, randomVars, focus, calls, markerVars,
                                             sensorVars, checkVars>>

--------------------------------------------------------------------------
(* A round of thread t *)

Check(t) == Round[at[t].check]
Goto(t, step) == at' = [at EXCEPT ![t].step = step]
NextCheck(t) ==
  at' = [at EXCEPT ![t] = [check |-> (at[t].check + 1) % (Len(Round) + 1), step |-> "copy"]]
devices == <<gpioVars, randomVars, sensorVars>>
Stepping(t, step) == at[t].check # 0 /\ at[t].step = step

StartRound(t) ==
  /\ at[t] = Idle /\ NextCheck(t)
  /\ UNCHANGED <<devices, radioVars, txVars, focus, calls, markerVars, copy, remembered, client>>

Copy(t) ==
  /\ Stepping(t, "copy") /\ Check(t) \in Compared /\ Unlocked
  /\ copy' = [copy EXCEPT ![t] = State(Check(t))]
  /\ Goto(t, "write")
  /\ UNCHANGED <<devices, radioVars, txVars, focus, calls, markerVars, remembered, client>>

Write(t) ==
  /\ Stepping(t, "write") /\ Check(t) \in Compared
  /\ LET c == Check(t)
     IN  IF copy[t] # remembered[c]
         THEN client' = [client EXCEPT ![c] = copy[t]] /\ Goto(t, "remember")
         ELSE NextCheck(t) /\ UNCHANGED client
  /\ UNCHANGED <<devices, radioVars, txVars, focus, calls, markerVars, copy, remembered>>

RememberState(t) == remembered' = [remembered EXCEPT ![Check(t)] = State(Check(t))]   \* mutant
RememberCopy(t) == remembered' = [remembered EXCEPT ![Check(t)] = copy[t]]
Remember(t) ==
  /\ Stepping(t, "remember")
  /\ RememberCopy(t)
  /\ NextCheck(t)
  /\ UNCHANGED <<devices, radioVars, txVars, focus, calls, markerVars, copy, client>>

\* check_radio_tx(): one frame a round, taken under the lock and written without it.
TakeFrame(t) ==
  /\ Stepping(t, "copy") /\ Check(t) = "radio_tx" /\ Unlocked
  /\ \/ radio_tx = <<>> /\ NextCheck(t) /\ UNCHANGED <<radioVars, frame>>
     \/ /\ simulator_radio_get_tx /\ Goto(t, "write")
        /\ frame' = [frame EXCEPT ![t] = <<FrameSent>>]
  /\ UNCHANGED <<devices, reported, focus, calls, markerVars, copy, remembered, client>>
WriteFrame(t) ==
  /\ Stepping(t, "write") /\ Check(t) = "radio_tx"
  /\ reported' = reported \o frame[t] /\ frame' = [frame EXCEPT ![t] = <<>>]
  /\ NextCheck(t)
  /\ UNCHANGED <<devices, radioVars, focus, calls, markerVars, copy, remembered, client>>

\* check_marker_failure_updates(): is there a failure?  Its category and its message are then
\* read from the VM's own buffers, one after the other, without the lock; they are written,
\* and cleared under the lock once more.
ClearAtOnce(t) ==                              \* mutant: cleared with the copy
  /\ Stepping(t, "copy") /\ Check(t) = "marker" /\ Unlocked /\ failure' = NoFailure
  /\ IF HasFailure THEN Goto(t, "category") ELSE NextCheck(t)
  /\ UNCHANGED <<devices, radioVars, txVars, focus, calls, copying, failures, withdrawn, copy, remembered, client>>
CheckMarker(t) ==
  /\ Stepping(t, "copy") /\ Check(t) = "marker" /\ Unlocked
  /\ IF HasFailure THEN Goto(t, "category") ELSE NextCheck(t)
  /\ UNCHANGED <<devices, radioVars, txVars, focus, calls, markerVars, copy, remembered, client>>
ReadCategory(t) ==
  /\ Stepping(t, "category")
  /\ copy' = [copy EXCEPT ![t] = <<Check(t), failure.category>>]
  /\ Goto(t, "write")
  /\ UNCHANGED <<devices, radioVars, txVars, focus, calls, markerVars, remembered, client>>
Report(t) == [category |-> copy[t][2], message |-> failure.message]
WriteMarker(t) ==
  /\ Stepping(t, "write") /\ Check(t) = "marker"
  /\ failures' = failures \cup {Report(t)}
  /\ Goto(t, "clear")
  /\ UNCHANGED <<devices, radioVars, txVars, focus, calls, failure, copying, withdrawn, copy, remembered, client>>
ClearMarker(t) ==
  /\ Stepping(t, "clear") /\ Unlocked
  /\ failure' = NoFailure
  /\ NextCheck(t)
  /\ UNCHANGED <<devices, radioVars, txVars, focus, calls, copying, failures, withdrawn, copy, remembered, client>>

RoundStep(t) ==
  \/ StartRound(t) \/ Copy(t) \/ Write(t) \/ Remember(t)
  \/ TakeFrame(t) \/ WriteFrame(t)
  \/ CheckMarker(t) \/ ReadCategory(t) \/ WriteMarker(t) \/ ClearMarker(t)

Next == Exercise \/ CopyMessage \/ Time \/ \E t \in Reporters : RoundStep(t)

\* A macro tick comes again and again, and with it a round; strncpy() ends.
Spec == Init /\ [][Next]_vars /\ WF_vars(CopyMessage) /\ \A t \in Reporters : WF_vars(RoundStep(t))

--------------------------------------------------------------------------
(* Properties *)

\* A failure that changes between the reading of its halves is written mixed, or empty.
TypeOK ==
  /\ GpioType /\ RadioType /\ RandomType
  /\ focus \in Foci /\ calls \in 0..MaxCalls[focus]
  /\ failure \in Texted /\ failures \subseteq Texted /\ withdrawn \in BOOLEAN
  /\ copying = <<>> \/ \E m \in Texts : copying = <<m>>
  /\ sensor \in [Sensors -> Readings \cup {None}]
  /\ unread \subseteq Sensors /\ gesture \in Readings \cup {None}
  /\ at \in [Reporters -> [check : 0..Len(Round),
                            step : {"copy", "category", "write", "remember", "clear"}]]
  /\ reported \in Seq(Frames) /\ frame \in [Reporters -> Seq(Frames)]

Current(c) == client[c] = State(c)

\* "If it's changed since the last update, send update": once a device is left alone, the
\* client's picture of it is and stays the state of the device, whatever the VM did between
\* the copy, the write and the remembering.
ClientSees == \A c \in Compared : <>[]Current(c)

\* Every frame sent is reported, although a round reports one.
FramesReported == <>[](radio_tx = <<>> /\ \A t \in Reporters : frame[t] = <<>>)

\* With the rounds in one thread, the client is told of every frame sent, in order and with
\* the address that was configured when it was sent; or the thread has taken it and not yet
\* written it, or it still waits in the queue.  (Two threads may take two frames and write
\* them in the other order.)
ReportedInOrder == \A t \in Reporters : sent = reported \o frame[t] \o radio_tx

\* A failure set outside of a report is reported, if the VM does not set another or clear it.
\* (One set between the reading of its message and the clearing is lost: Main.cpp:534.)
Reporting == \E t \in Reporters : at[t].step \in {"category", "write", "clear"} /\ Check(t) = "marker"
FailureReported ==
  \A f \in Failures :
    [](failure = f /\ HasFailure /\ Unlocked /\ ~Reporting
         => <>(f \in failures \/ failure \notin {f, NoFailure} \/ withdrawn))

\* A data-ready line is low as long as a reading waits for the VM, and only then.
DataReadyLine == \A s \in Sensors : DataReady(s) <=> s \in unread
==============================================================================
