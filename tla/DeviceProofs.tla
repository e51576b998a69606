---------------------------- MODULE DeviceProofs ----------------------------
(* Theorems about the devices.  A device is changed by its own operations    *)
(* only (Projection), so each invariant is proved of these and carried over  *)
(* to Spec, rounds and all.                                                  *)
EXTENDS Devices, SequenceTheorems, TLAPS

\* What a step of the whole system is for each device.
LEMMA Projection ==
  ASSUME [Next]_vars
  PROVE  /\ RandomNext \/ UNCHANGED randomVars
         /\ RadioNext \/ simulator_radio_get_tx \/ UNCHANGED radioVars
         /\ \/ PinNext /\ UNCHANGED sensorVars
            \/ MatrixNext /\ UNCHANGED sensorVars
            \/ Tick /\ UNCHANGED sensorVars
            \/ SensorNext
            \/ UNCHANGED gpioVars /\ UNCHANGED sensorVars
<1>1. CASE Exercise
  BY <1>1 DEF Exercise
<1>2. CASE Time
  BY <1>2 DEF Time
<1>3. ASSUME NEW t \in Reporters, RoundStep(t)
      PROVE  /\ UNCHANGED devices
             /\ simulator_radio_get_tx \/ UNCHANGED radioVars
  <2>1. CASE StartRound(t) \/ Copy(t) \/ Write(t) \/ Remember(t)
    BY <2>1 DEF StartRound, Copy, Write, Remember
  <2>2. CASE TakeFrame(t) \/ WriteFrame(t)
    BY <2>2 DEF TakeFrame, WriteFrame, radioVars
  <2>3. CASE CheckMarker(t) \/ ReadCategory(t) \/ WriteMarker(t) \/ ClearMarker(t)
    BY <2>3 DEF CheckMarker, ReadCategory, WriteMarker, ClearMarker
  <2> QED BY <1>3, <2>1, <2>2, <2>3 DEF RoundStep
<1>4. CASE UNCHANGED vars
  BY <1>4 DEF vars
<1>5. CASE CopyMessage
  BY <1>5 DEF CopyMessage
<1> QED BY <1>1, <1>2, <1>3, <1>4, <1>5 DEF Next, devices

--------------------------------------------------------------------------
(* Random numbers *)

RandomInv ==
  /\ granted \in Int /\ drawn \in Int
  /\ remaining_random = granted - drawn

LEMMA RandomStep == RandomInv /\ (RandomNext \/ UNCHANGED randomVars) => RandomInv'
<1> SUFFICES ASSUME RandomInv, RandomNext \/ UNCHANGED randomVars PROVE RandomInv'
  OBVIOUS
<1> USE DEF RandomInv
<1>1. ASSUME NEW r \in Repeats, InjectRandom(r) PROVE RandomInv'
  BY <1>1, RandomAssumption DEF InjectRandom, Allowed
<1>2. CASE StopInjecting
  BY <1>2 DEF StopInjecting
<1>3. CASE get_random
  BY <1>3 DEF get_random
<1>4. ASSUME NEW n \in {0, 1}, set_random_choice(n) PROVE RandomInv'
  BY <1>4 DEF set_random_choice
<1>5. CASE UNCHANGED randomVars
  BY <1>5 DEF randomVars
<1> QED BY <1>1, <1>2, <1>3, <1>4, <1>5 DEF RandomNext

\* For every sequence of injections and draws the exceeded flag (Hardware.cpp:884) says whether
\* more numbers were drawn from the last injection than it allows.
THEOREM ExceededHolds == Spec => []ExceededExact
<1>1. Init => RandomInv
  BY DEF Init, RandomInit, RandomInv
<1>2. RandomInv /\ [Next]_vars => RandomInv'
  BY Projection, RandomStep
<1>3. RandomInv => ExceededExact
  BY DEF RandomInv, ExceededExact, has_exceeded_random_call_limit
<1> QED BY <1>1, <1>2, <1>3, PTL DEF Spec

--------------------------------------------------------------------------
(* The radio *)

LEMMA RadioTypeStep ==
  RadioType /\ (RadioNext \/ simulator_radio_get_tx \/ UNCHANGED radioVars) => RadioType'
<1> SUFFICES ASSUME RadioType, RadioNext \/ simulator_radio_get_tx \/ UNCHANGED radioVars
             PROVE  RadioType'
  OBVIOUS
<1> USE DEF RadioType
<1>1. ASSUME NEW c \in RadioConfigs, simulator_radio_config(c) PROVE RadioType'
  BY <1>1 DEF simulator_radio_config
<1>2. ASSUME NEW p \in Payloads, simulator_radio_send(p) PROVE RadioType'
  BY <1>2 DEF simulator_radio_send, Frames, RadioConfigs
<1>3. CASE simulator_radio_receive
  BY <1>3 DEF simulator_radio_receive
<1>4. ASSUME NEW f \in Frames, simulator_radio_add_rx(f) PROVE RadioType'
  BY <1>4 DEF simulator_radio_add_rx
<1>5. CASE simulator_radio_get_tx
  BY <1>5 DEF simulator_radio_get_tx
<1>6. CASE UNCHANGED radioVars
  BY <1>6 DEF radioVars
<1> QED BY <1>1, <1>2, <1>3, <1>4, <1>5, <1>6 DEF RadioNext

LEMMA ReceivedStep ==
  RadioType /\ ReceivedMatches /\ (RadioNext \/ simulator_radio_get_tx \/ UNCHANGED radioVars)
    => ReceivedMatches'
<1> SUFFICES ASSUME RadioType, ReceivedMatches,
                    RadioNext \/ simulator_radio_get_tx \/ UNCHANGED radioVars
             PROVE  ReceivedMatches'
  OBVIOUS
<1> USE DEF RadioType, ReceivedMatches
<1>1. ASSUME NEW c \in RadioConfigs, simulator_radio_config(c) PROVE ReceivedMatches'
  BY <1>1 DEF simulator_radio_config
<1>2. ASSUME NEW p \in Payloads, simulator_radio_send(p) PROVE ReceivedMatches'
  BY <1>2 DEF simulator_radio_send
<1>3. CASE simulator_radio_receive
  BY <1>3 DEF simulator_radio_receive
<1>4. ASSUME NEW f \in Frames, simulator_radio_add_rx(f) PROVE ReceivedMatches'
  BY <1>4 DEF simulator_radio_add_rx
<1>5. CASE simulator_radio_get_tx
  BY <1>5 DEF simulator_radio_get_tx
<1>6. CASE UNCHANGED radioVars
  BY <1>6 DEF radioVars
<1> QED BY <1>1, <1>2, <1>3, <1>4, <1>5, <1>6 DEF RadioNext

\* For any number of frames and addresses: what waits to be received is for the address
\* configured now (Hardware.cpp:914-922, 970-975).
THEOREM ReceivedHolds == Spec => []ReceivedMatches
<1>1. Init => RadioType /\ ReceivedMatches
  BY DEF Init, RadioInit, RadioType, RadioConfigs, ReceivedMatches
<1>2. RadioType /\ ReceivedMatches /\ [Next]_vars => (RadioType /\ ReceivedMatches)'
  BY Projection, RadioTypeStep, ReceivedStep
<1> QED BY <1>1, <1>2, PTL DEF Spec

--------------------------------------------------------------------------
(* Pins *)

PinsOK == pin \in [Pins -> PinRecords]
GpioStep == PinNext \/ MatrixNext \/ Tick \/ SensorNext \/ UNCHANGED gpioVars

LEMMA PinOperations ==
  ASSUME NEW g \in PinRecords
  PROVE  /\ \A pull \in Pulls : AsInput(g, pull) \in PinRecords
         /\ AsOutput(g) \in PinRecords
         /\ \A duty \in Nat : AsPwm(g, duty) \in PinRecords
         /\ \A d \in BOOLEAN : Driven(g, d) \in PinRecords
         /\ \A v \in Int : Sourced(g, v) \in PinRecords
         /\ \A us \in Nat : [g EXCEPT !.period = us] \in PinRecords
<1> USE DEF PinRecords, Pulls
<1>1. AsOutput(g) \in PinRecords
  BY DEF AsOutput
<1>2. \A duty \in Nat : AsPwm(g, duty) \in PinRecords
  BY DEF AsPwm, AsOutput
<1>3. \A pull \in Pulls : AsInput(g, pull) \in PinRecords
  BY DEF AsInput
<1>4. \A d \in BOOLEAN : Driven(g, d) \in PinRecords
  BY DEF Driven
<1>5. \A v \in Int : Sourced(g, v) \in PinRecords
  BY DEF Sourced
<1>6. \A us \in Nat : [g EXCEPT !.period = us] \in PinRecords
  OBVIOUS
<1> QED BY <1>1, <1>2, <1>3, <1>4, <1>5, <1>6

\* A call of MicroBitPin or an event of the client sets one pin of the edge.
LEMMA PinNextSets ==
  ASSUME PinsOK, PinNext
  PROVE  \E p \in Edge, g \in PinRecords : SetPin(p, g)
<1>1. PICK p \in Edge :
        \/ \E d \in BOOLEAN : setDigitalValue(p, d)
        \/ getDigitalValue(p) \/ getAnalogValue(p)
        \/ \E v \in {0, 1} : setAnalogValue(p, v)
        \/ \E us \in Periods : setAnalogPeriod(p, us)
        \/ \E pull \in Pulls : DigitalInMode(p, pull)
        \/ \E v \in Voltages : ClientVoltage(p, v)
  BY DEF PinNext
<1>2. pin[p] \in PinRecords
  BY DEF PinsOK, Pins
<1>3. ASSUME NEW d \in BOOLEAN, setDigitalValue(p, d) PROVE \E g \in PinRecords : SetPin(p, g)
  BY <1>2, <1>3, PinOperations DEF setDigitalValue
<1>4. CASE getDigitalValue(p) \/ getAnalogValue(p)
  <2>1. "PullDown" \in Pulls /\ "PullNone" \in Pulls
    BY DEF Pulls
  <2> QED BY <1>2, <1>4, <2>1, PinOperations DEF getDigitalValue, getAnalogValue
<1>5. ASSUME NEW v \in {0, 1}, setAnalogValue(p, v) PROVE \E g \in PinRecords : SetPin(p, g)
  <2>1. CASE v = 0
    BY <1>2, <1>5, <2>1, PinOperations DEF setAnalogValue
  <2>2. CASE v # 0
    <3>1. v \in Nat
      OBVIOUS
    <3> QED BY <1>2, <1>5, <2>2, <3>1, PinOperations DEF setAnalogValue
  <2> QED BY <2>1, <2>2
<1>6. ASSUME NEW us \in Periods, setAnalogPeriod(p, us) PROVE \E g \in PinRecords : SetPin(p, g)
  <2>1. us \in Nat
    BY GpioAssumption
  <2> QED BY <1>2, <1>6, <2>1, PinOperations DEF setAnalogPeriod
<1>7. ASSUME NEW pull \in Pulls, DigitalInMode(p, pull) PROVE \E g \in PinRecords : SetPin(p, g)
  BY <1>2, <1>7, PinOperations DEF DigitalInMode
<1>8. ASSUME NEW v \in Voltages, ClientVoltage(p, v) PROVE \E g \in PinRecords : SetPin(p, g)
  <2>1. v \in Int
    BY GpioAssumption
  <2> QED BY <1>2, <1>8, <2>1, PinOperations DEF ClientVoltage
<1> QED BY <1>1, <1>3, <1>4, <1>5, <1>6, <1>7, <1>8

\* So does a reading of a sensor, set or taken.
LEMMA SensorSets ==
  ASSUME PinsOK, SensorNext
  PROVE  \E s \in Sensors, g \in PinRecords : SetPin(s, g)
<1>1. PICK s \in Sensors : (\E r \in Readings : ClientReading(s, r)) \/ TakeReading(s)
  BY DEF SensorNext
<1>2. s \in Pins
  BY DevicesAssumption DEF Sensors, ACCEL_INT1, MAG_INT1, Pins
<1>3. ClientVoltage(s, 0) \/ ClientVoltage(s, 33)
  BY <1>1 DEF ClientReading, TakeReading
<1>4. Sourced(pin[s], 0) \in PinRecords /\ Sourced(pin[s], 33) \in PinRecords
  <2>1. pin[s] \in PinRecords
    BY <1>2 DEF PinsOK
  <2> QED BY <2>1 DEF Sourced, PinRecords
<1> QED BY <1>3, <1>4 DEF ClientVoltage

LEMMA PinsStep == PinsOK /\ GpioStep => PinsOK'
<1> SUFFICES ASSUME PinsOK, GpioStep PROVE PinsOK'
  OBVIOUS
<1>1. ASSUME NEW p \in Pins, NEW g \in PinRecords, SetPin(p, g) PROVE PinsOK'
  BY <1>1 DEF SetPin, PinsOK
<1>2. CASE PinNext
  BY <1>1, <1>2, PinNextSets DEF Pins
<1>3. CASE SensorNext
  <2>1. Sensors \subseteq Pins
    BY DevicesAssumption DEF Sensors, ACCEL_INT1, MAG_INT1, Pins
  <2>2. PICK s \in Sensors, g \in PinRecords : SetPin(s, g)
    BY <1>3, SensorSets
  <2> QED BY <1>1, <2>1, <2>2
<1>4. ASSUME NEW mask, NEW d \in BOOLEAN PROVE Set(mask, d) \in [Pins -> PinRecords]
  BY PinOperations DEF PinsOK, Set
<1>5. CASE MatrixNext
  <2>1. CASE nrf_gpio_range_cfg_output
    BY <2>1, PinOperations DEF nrf_gpio_range_cfg_output, PinsOK
  <2>2. ASSUME NEW mask \in SUBSET (Rows \cup Cols), NEW d \in BOOLEAN, nrf_gpio_pins(mask, d)
        PROVE  PinsOK'
    BY <1>4, <2>2 DEF nrf_gpio_pins, PinsOK
  <2>3. ASSUME NEW p \in Rows \cup Cols, nrf_gpio_pin_clear(p)
        PROVE  PinsOK'
    BY <1>4, <2>3 DEF nrf_gpio_pin_clear, PinsOK
  <2> QED BY <1>5, <2>1, <2>2, <2>3 DEF MatrixNext
<1>6. CASE Tick \/ UNCHANGED gpioVars
  BY <1>6 DEF Tick, gpioVars, PinsOK
<1> QED BY <1>2, <1>3, <1>5, <1>6 DEF GpioStep

LEMMA PinsInit == Init => PinsOK
BY DEF Init, GpioInit, PinsOK, PinRecords, Pulls, Disconnected

--------------------------------------------------------------------------
(* The data-ready lines *)

\* A line is an input with a pull-up that nothing has driven, or the client or the VM has.
SensorInv ==
  \A s \in Sensors :
    /\ ~pin[s].is_output /\ pin[s].pull = "PullUp" /\ pin[s].analog \in {Disconnected, 0, 33}
    /\ s \in unread <=> pin[s].analog = 0

LEMMA SensorsApart ==
  /\ Sensors \subseteq Pins
  /\ Sensors \cap Edge = {} /\ Sensors \cap (Rows \cup Cols) = {}
BY DevicesAssumption, GpioAssumption DEF Sensors, ACCEL_INT1, MAG_INT1, Pins

\* What leaves the lines alone preserves the invariant.
LEMMA SensorsLeft ==
  ASSUME SensorInv, \A s \in Sensors : pin'[s] = pin[s], UNCHANGED sensorVars
  PROVE  SensorInv'
BY DEF SensorInv, sensorVars

LEMMA SensorSteps ==
  ASSUME PinsOK, SensorInv, NEW s \in Sensors,
         (\E r \in Readings : ClientReading(s, r)) \/ TakeReading(s)
  PROVE  SensorInv'
<1>1. \/ pin' = [pin EXCEPT ![s] = Sourced(pin[s], 0)] /\ unread' = unread \cup {s}
      \/ pin' = [pin EXCEPT ![s] = Sourced(pin[s], 33)] /\ unread' = unread \ {s}
  BY DEF ClientReading, TakeReading, ClientVoltage, SetPin
<1>2. /\ s \in Pins /\ pin[s] \in PinRecords
      /\ \A v \in {0, 33} : Sourced(pin[s], v) = [pin[s] EXCEPT !.analog = v]
  BY SensorsApart DEF PinsOK, SensorInv, Sourced
<1>3. ASSUME NEW q \in Sensors, q # s
      PROVE  pin'[q] = pin[q] /\ (q \in unread' <=> q \in unread)
  BY <1>1, <1>3, SensorsApart DEF PinsOK
<1>4. /\ ~pin'[s].is_output /\ pin'[s].pull = "PullUp" /\ pin'[s].analog \in {0, 33}
      /\ s \in unread' <=> pin'[s].analog = 0
  BY <1>1, <1>2 DEF PinsOK, PinRecords, SensorInv
<1> QED BY <1>3, <1>4 DEF SensorInv

LEMMA SensorStep == PinsOK /\ SensorInv /\ [Next]_vars => SensorInv'
<1> SUFFICES ASSUME PinsOK, SensorInv, [Next]_vars PROVE SensorInv'
  OBVIOUS
<1>1. CASE PinNext /\ UNCHANGED sensorVars
  <2>1. PICK p \in Edge, g \in PinRecords : SetPin(p, g)
    BY <1>1, PinNextSets
  <2>2. \A s \in Sensors : pin'[s] = pin[s]
    BY <2>1, SensorsApart DEF SetPin, PinsOK
  <2> QED BY <1>1, <2>2, SensorsLeft
<1>2. CASE MatrixNext /\ UNCHANGED sensorVars
  <2>1. \A s \in Sensors : pin'[s] = pin[s]
    BY <1>2, SensorsApart
       DEF MatrixNext, nrf_gpio_range_cfg_output, nrf_gpio_pins, nrf_gpio_pin_clear, Set, PinsOK
  <2> QED BY <1>2, <2>1, SensorsLeft
<1>3. CASE SensorNext
  BY <1>3, SensorSteps DEF SensorNext
<1>4. CASE (Tick \/ UNCHANGED gpioVars) /\ UNCHANGED sensorVars
  BY <1>4, SensorsLeft DEF Tick, gpioVars
<1> QED BY <1>1, <1>2, <1>3, <1>4, Projection

LEMMA SensorLevel == PinsOK /\ SensorInv => DataReadyLine
<1> SUFFICES ASSUME PinsOK, SensorInv, NEW s \in Sensors
             PROVE  DataReady(s) <=> s \in unread
  BY DEF DataReadyLine
<1>1. CASE pin[s].analog = Disconnected
  BY <1>1 DEF SensorInv, DataReady, IsHigh, Voltage, Disconnected
<1>2. CASE pin[s].analog = 0
  BY <1>2 DEF SensorInv, DataReady, IsHigh, Voltage, Disconnected
<1>3. CASE pin[s].analog = 33
  BY <1>3 DEF SensorInv, DataReady, IsHigh, Voltage, Disconnected
<1> QED BY <1>1, <1>2, <1>3 DEF SensorInv

\* A data-ready line is low exactly while a reading waits for the VM (Hardware.cpp:786-824),
\* whatever the VM does with the edge connector and the matrix.
THEOREM DataReadyHolds == Spec => []DataReadyLine
<1>1. Init => PinsOK /\ SensorInv
  <2>1. Init => SensorInv
    BY SensorsApart DEF Init, GpioInit, SensorInv, Disconnected
  <2> QED BY <2>1, PinsInit
<1>2. PinsOK /\ SensorInv /\ [Next]_vars => (PinsOK /\ SensorInv)'
  BY Projection, PinsStep, SensorStep DEF GpioStep
<1> QED BY <1>1, <1>2, SensorLevel, PTL DEF Spec

--------------------------------------------------------------------------
(* The brightness of the LEDs *)

Matrix == Rows \cup Cols
LedInts == [state : BOOLEAN, b : Int, on_ticks : Int, duration : Int]

\* The matrix is configured as a whole: until then its pins are as they were at the start.
MatrixInv ==
  \/ \A p \in Matrix :
       ~pin[p].is_output /\ pin[p].pull = "PullUp" /\ pin[p].analog = Disconnected
         /\ ~pin[p].output
  \/ \A p \in Matrix : pin[p].is_output

LightOK ==
  /\ led \in [Leds -> LedInts] /\ ticks \in Int
  /\ lit \in [Leds -> Int] /\ litFrame \in [Leds -> Int]

LightInv == LightOK /\ BrightnessExact

LEMMA LedPins ==
  \A d \in Leds : d[1] \in Rows /\ d[2] \in Cols
BY GpioAssumption

\* update() keeps the count of the frame and b, and makes the state that of the pins.
LEMMA UpdateCounts ==
  ASSUME LightInv, NEW d \in Leds, NEW ps
  PROVE  /\ Updated(d, ps) \in LedInts
         /\ Updated(d, ps).state <=> IsOn(d, ps)
         /\ Updated(d, ps).b = led[d].b
         /\ OnFor(Updated(d, ps)) = lit[d]
<1>1. /\ led[d] \in LedInts /\ ticks \in Int /\ lit[d] \in Int
      /\ OnFor(led[d]) = lit[d]
  BY DEF LightInv, LightOK, BrightnessExact, OnFor
<1>2. IsOn(d, ps) \in BOOLEAN
  BY DEF IsOn, IsHigh
<1>3. CASE IsOn(d, ps) = led[d].state
  BY <1>1, <1>2, <1>3 DEF Updated
<1>4. CASE IsOn(d, ps) # led[d].state /\ led[d].state
  <2>1. Updated(d, ps) = [state |-> FALSE, b |-> led[d].b, on_ticks |-> led[d].on_ticks,
                          duration |-> led[d].duration + ticks - led[d].on_ticks]
    BY <1>1, <1>2, <1>4 DEF Updated, LedInts
  <2>2. lit[d] = led[d].duration + (ticks - led[d].on_ticks)
    BY <1>1, <1>4 DEF OnFor
  <2>3. led[d].duration \in Int /\ led[d].on_ticks \in Int /\ led[d].b \in Int
    BY <1>1 DEF LedInts
  <2>4. Updated(d, ps) \in LedInts
    BY <1>1, <2>1, <2>3 DEF LedInts
  <2>5. OnFor(Updated(d, ps)) = led[d].duration + ticks - led[d].on_ticks + 0
    BY <2>1 DEF OnFor
  <2>6. OnFor(Updated(d, ps)) = lit[d]
    BY <1>1, <2>2, <2>3, <2>5
  <2>7. ~IsOn(d, ps)
    BY <1>1, <1>2, <1>4 DEF LedInts
  <2>8. ~Updated(d, ps).state /\ Updated(d, ps).b = led[d].b
    BY <2>1
  <2> QED BY <2>4, <2>6, <2>7, <2>8
<1>5. CASE IsOn(d, ps) # led[d].state /\ ~led[d].state
  <2>1. Updated(d, ps) = [state |-> TRUE, b |-> led[d].b, on_ticks |-> ticks,
                          duration |-> led[d].duration]
    BY <1>1, <1>2, <1>5 DEF Updated, LedInts
  <2>2. lit[d] = led[d].duration + 0
    BY <1>1, <1>5 DEF OnFor
  <2> QED BY <1>1, <1>2, <1>5, <2>1, <2>2 DEF LedInts, OnFor
<1> QED BY <1>1, <1>2, <1>3, <1>4, <1>5 DEF LedInts

\* calculate() hands the count over to b and starts anew.
LEMMA CalculateCounts ==
  ASSUME NEW l \in LedInts, ticks \in Int
  PROVE  /\ Calculated(l) \in LedInts
         /\ Calculated(l).state = l.state
         /\ Calculated(l).b = OnFor(l)
         /\ OnFor(Calculated(l)) = 0
BY DEF Calculated, OnFor, OnSince, LedInts

\* A step that keeps the LEDs, the counts and the pins' levels keeps the invariant.
LEMMA LevelsLeft ==
  ASSUME LightInv, UNCHANGED <<led, ticks, lit, litFrame>>,
         \A d \in Leds : IsOn(d, pin') = IsOn(d, pin)
  PROVE  LightInv'
BY DEF LightInv, LightOK, BrightnessExact, OnFor

LEMMA MatrixPinsLeft ==
  ASSUME \A p \in Matrix : pin'[p] = pin[p]
  PROVE  /\ \A d \in Leds : IsOn(d, pin') = IsOn(d, pin)
         /\ MatrixInv => MatrixInv'
BY LedPins DEF MatrixInv, Matrix, IsOn

LEMMA ConfigureStep ==
  ASSUME PinsOK, MatrixInv, LightInv, nrf_gpio_range_cfg_output
  PROVE  MatrixInv' /\ LightInv'
<1>1. \A p \in Matrix : pin'[p] = AsOutput(pin[p]) /\ pin[p] \in PinRecords
  BY DEF nrf_gpio_range_cfg_output, PinsOK, Matrix, Pins
<1>2. \A p \in Matrix : pin'[p].is_output /\ pin'[p].output = pin[p].output
  BY <1>1 DEF AsOutput, PinRecords
<1>3. ASSUME NEW d \in Leds PROVE IsOn(d, pin') = IsOn(d, pin)
  <2>1. d[1] \in Matrix /\ d[2] \in Matrix
    BY LedPins DEF Matrix
  <2>2. CASE \A p \in Matrix : pin[p].is_output
    <3>1. \A p \in Matrix : IsHigh(pin'[p]) = IsHigh(pin[p])
      BY <1>2, <2>2 DEF IsHigh, Voltage
    <3> QED BY <2>1, <3>1 DEF IsOn
  <2>3. CASE \A p \in Matrix : ~pin[p].is_output /\ pin[p].pull = "PullUp"
                                 /\ pin[p].analog = Disconnected /\ ~pin[p].output
    <3>1. \A p \in Matrix : ~IsHigh(pin'[p])
      BY <1>2, <2>3 DEF IsHigh, Voltage
    <3>2. \A p \in Matrix : IsHigh(pin[p])
      BY <2>3 DEF IsHigh, Voltage
    <3> QED BY <2>1, <3>1, <3>2 DEF IsOn
  <2> QED BY <2>2, <2>3 DEF MatrixInv
<1> QED BY <1>2, <1>3, LevelsLeft DEF nrf_gpio_range_cfg_output, MatrixInv

\* Driving pins of the matrix leaves it configured, or not, as it was.
LEMMA SetKeeps ==
  ASSUME PinsOK, MatrixInv, NEW mask, NEW d \in BOOLEAN, pin' = Set(mask, d)
  PROVE  MatrixInv'
<1>1. \A p \in Matrix : pin'[p] = IF p \in mask THEN Driven(pin[p], d) ELSE pin[p]
  BY DEF Set, Matrix, Pins
<1>2. \A p \in Matrix : pin[p] \in PinRecords
  BY DEF PinsOK, Matrix, Pins
<1>3. CASE \A p \in Matrix : pin[p].is_output
  <2>1. \A p \in Matrix : pin'[p].is_output
    BY <1>1, <1>2, <1>3 DEF Driven, PinRecords
  <2> QED BY <2>1 DEF MatrixInv
<1>4. CASE \A p \in Matrix : ~pin[p].is_output /\ pin[p].pull = "PullUp"
                               /\ pin[p].analog = Disconnected /\ ~pin[p].output
  <2>1. \A p \in Matrix : pin'[p] = pin[p]
    BY <1>1, <1>4 DEF Driven
  <2> QED BY <2>1, MatrixPinsLeft
<1> QED BY <1>3, <1>4 DEF MatrixInv

LEMMA PinsOn ==
  ASSUME LightInv, NEW mask, NEW d, nrf_gpio_pins(mask, d)
  PROVE  LightInv'
<1>1. /\ ticks' = ticks /\ lit' = lit /\ litFrame' = litFrame
      /\ led' = [x \in Leds |-> Updated(x, pin')]
  BY DEF nrf_gpio_pins
<1>2. /\ ticks \in Int /\ lit \in [Leds -> Int] /\ litFrame \in [Leds -> Int]
      /\ \A x \in Leds : led[x].b = litFrame[x]
  BY DEF LightInv, LightOK, BrightnessExact
<1>3. ASSUME NEW x \in Leds
      PROVE  /\ led'[x] \in LedInts /\ (led'[x].state <=> IsOn(x, pin'))
             /\ led'[x].b = litFrame[x] /\ OnFor(led'[x]) = lit[x]
  BY <1>1, <1>2, UpdateCounts
<1>4. \A x \in Leds : led'[x].duration + (IF led'[x].state THEN ticks - led'[x].on_ticks
                                                            ELSE 0) = lit[x]
  BY <1>3 DEF OnFor
<1>5. led' \in [Leds -> LedInts]
  BY <1>1, <1>3
<1>6. LightOK'
  BY <1>1, <1>2, <1>5 DEF LightOK
<1> QED BY <1>1, <1>3, <1>4, <1>6 DEF LightInv, BrightnessExact, OnFor

LEMMA PinClears ==
  ASSUME LightInv, NEW p, nrf_gpio_pin_clear(p)
  PROVE  LightInv'
<1> DEFINE new == NewFrame(p, pin')
           Before(x) == Updated(x, pin')
<1>1. /\ ticks' = ticks
      /\ led' = [x \in Leds |-> IF new THEN Calculated(Before(x)) ELSE Before(x)]
      /\ litFrame' = IF new THEN lit ELSE litFrame
      /\ lit' = IF new THEN [x \in Leds |-> 0] ELSE lit
  BY DEF nrf_gpio_pin_clear
<1>2. /\ ticks \in Int /\ lit \in [Leds -> Int] /\ litFrame \in [Leds -> Int]
      /\ \A x \in Leds : led[x].b = litFrame[x]
  BY DEF LightInv, LightOK, BrightnessExact
<1>3. ASSUME NEW x \in Leds
      PROVE  /\ Before(x) \in LedInts /\ (Before(x).state <=> IsOn(x, pin'))
             /\ Before(x).b = litFrame[x] /\ OnFor(Before(x)) = lit[x]
  BY <1>2, UpdateCounts
<1>4. ASSUME NEW x \in Leds
      PROVE  /\ Calculated(Before(x)) \in LedInts
             /\ Calculated(Before(x)).state <=> IsOn(x, pin')
             /\ Calculated(Before(x)).b = lit[x] /\ OnFor(Calculated(Before(x))) = 0
  BY <1>2, <1>3, CalculateCounts
<1> HIDE DEF new, Before
<1>5. ASSUME NEW x \in Leds
      PROVE  /\ led'[x] \in LedInts /\ (led'[x].state <=> IsOn(x, pin'))
             /\ led'[x].b = litFrame'[x] /\ OnFor(led'[x]) = lit'[x]
  <2>1. CASE new
    BY <1>1, <1>4, <2>1
  <2>2. CASE ~new
    BY <1>1, <1>3, <2>2
  <2> QED BY <2>1, <2>2
<1>6. \A x \in Leds : led'[x].duration + (IF led'[x].state THEN ticks - led'[x].on_ticks
                                                            ELSE 0) = lit'[x]
  BY <1>5 DEF OnFor
<1>7. led' \in [Leds -> LedInts]
  BY <1>1, <1>5
<1>8. LightOK'
  BY <1>1, <1>2, <1>7 DEF LightOK
<1> QED BY <1>1, <1>5, <1>6, <1>8 DEF LightInv, BrightnessExact, OnFor

\* What is lit counts, and so does the difference of the ticks.
LEMMA TickCounts == LightInv /\ Tick => LightInv'
<1> SUFFICES ASSUME LightInv, Tick PROVE LightInv'
  OBVIOUS
<1>1. /\ ticks \in Int /\ lit \in [Leds -> Int] /\ litFrame \in [Leds -> Int]
      /\ led \in [Leds -> LedInts]
  BY DEF LightInv, LightOK
<1>2. /\ ticks' = ticks + 1 /\ led' = led /\ pin' = pin /\ litFrame' = litFrame
      /\ lit' = [x \in Leds |-> IF IsOn(x, pin) THEN lit[x] + 1 ELSE lit[x]]
  BY DEF Tick
<1>3. LightOK'
  BY <1>1, <1>2 DEF LightOK
<1>4. ASSUME NEW x \in Leds
      PROVE  led[x].duration + (IF led[x].state THEN ticks' - led[x].on_ticks ELSE 0) = lit'[x]
  <2>1. /\ led[x].state <=> IsOn(x, pin)
        /\ led[x].duration + (IF led[x].state THEN ticks - led[x].on_ticks ELSE 0) = lit[x]
    BY DEF LightInv, BrightnessExact, OnFor
  <2>2. led[x].duration \in Int /\ led[x].on_ticks \in Int /\ lit[x] \in Int
    BY <1>1 DEF LedInts
  <2>3. CASE led[x].state
    <3>1. lit'[x] = lit[x] + 1
      BY <1>2, <2>1, <2>3
    <3> QED BY <1>1, <1>2, <2>1, <2>2, <2>3, <3>1
  <2>4. CASE ~led[x].state
    <3>1. lit'[x] = lit[x]
      BY <1>2, <2>1, <2>4
    <3> QED BY <2>1, <2>4, <3>1
  <2> QED BY <2>3, <2>4
<1>5. \A x \in Leds : led[x].b = litFrame[x] /\ (led[x].state <=> IsOn(x, pin))
  BY DEF LightInv, BrightnessExact
<1> QED BY <1>2, <1>3, <1>4, <1>5 DEF LightInv, BrightnessExact, OnFor

LightStepInv == PinsOK /\ MatrixInv /\ LightInv

LEMMA LightStep == LightStepInv /\ [Next]_vars => (MatrixInv /\ LightInv)'
<1> SUFFICES ASSUME PinsOK, MatrixInv, LightInv, [Next]_vars PROVE MatrixInv' /\ LightInv'
  BY DEF LightStepInv
<1>1. ASSUME NEW p \in Edge \cup Sensors, NEW g, SetPin(p, g) PROVE MatrixInv' /\ LightInv'
  <2>1. p \notin Matrix
    BY GpioAssumption, SensorsApart DEF Matrix
  <2>2. \A q \in Matrix : pin'[q] = pin[q]
    BY <1>1, <2>1 DEF SetPin, PinsOK, Matrix, Pins
  <2> QED BY <1>1, <2>2, MatrixPinsLeft, LevelsLeft DEF SetPin
<1>2. CASE PinNext
  BY <1>1, <1>2, PinNextSets
<1>3. CASE SensorNext
  BY <1>1, <1>3, SensorSets
<1>4. CASE nrf_gpio_range_cfg_output
  BY <1>4, ConfigureStep
<1>5. ASSUME NEW mask, NEW d \in BOOLEAN, nrf_gpio_pins(mask, d) PROVE MatrixInv' /\ LightInv'
  BY <1>5, SetKeeps, PinsOn DEF nrf_gpio_pins
<1>6. ASSUME NEW p, nrf_gpio_pin_clear(p) PROVE MatrixInv' /\ LightInv'
  BY <1>6, SetKeeps, PinClears DEF nrf_gpio_pin_clear
<1>7. CASE Tick
  BY <1>7, MatrixPinsLeft, TickCounts DEF Tick
<1>8. CASE UNCHANGED gpioVars
  BY <1>8, MatrixPinsLeft, LevelsLeft DEF gpioVars
<1> QED BY <1>2, <1>3, <1>4, <1>5, <1>6, <1>7, <1>8, Projection DEF MatrixNext

LEMMA LightStart == Init => MatrixInv /\ LightInv
<1> SUFFICES ASSUME GpioInit PROVE MatrixInv /\ LightInv
  BY DEF Init
<1>1. /\ pin = [p \in Pins |-> [is_output |-> FALSE, output |-> FALSE, is_pwm |-> FALSE,
                                pull |-> "PullUp", analog |-> Disconnected, duty |-> 0,
                                period |-> 1000]]
      /\ led = [d \in Leds |-> [state |-> FALSE, b |-> 0, on_ticks |-> 0, duration |-> 0]]
      /\ ticks = 0 /\ lit = [d \in Leds |-> 0] /\ litFrame = [d \in Leds |-> 0]
  BY DEF GpioInit
<1>2. \A p \in Matrix : ~pin[p].is_output /\ pin[p].pull = "PullUp"
                         /\ pin[p].analog = Disconnected /\ ~pin[p].output
  BY <1>1 DEF Matrix, Pins
<1>3. \A p \in Matrix : IsHigh(pin[p])
  BY <1>2 DEF IsHigh, Voltage
<1>4. \A d \in Leds : ~IsOn(d, pin)
  BY <1>3, LedPins DEF IsOn, Matrix
<1>5. LightOK
  BY <1>1 DEF LightOK, LedInts
<1>6. MatrixInv
  BY <1>2 DEF MatrixInv
<1>7. ASSUME NEW d \in Leds
      PROVE  /\ led[d] = [state |-> FALSE, b |-> 0, on_ticks |-> 0, duration |-> 0]
             /\ lit[d] = 0 /\ litFrame[d] = 0
  BY <1>1
<1>8. \A d \in Leds : /\ ~led[d].state /\ led[d].b = 0 /\ led[d].duration = 0
                      /\ lit[d] = 0 /\ litFrame[d] = 0
  BY <1>7
<1>9. BrightnessExact
  BY <1>4, <1>8 DEF BrightnessExact, OnFor
<1> QED BY <1>5, <1>6, <1>9 DEF LightInv

\* The brightness reported of an LED (Hardware.cpp:440-464, 560-605) is the number of ticks that
\* it was on in the last complete frame, however the VM switches the matrix.
THEOREM BrightnessHolds == Spec => []BrightnessExact
<1>1. Init => LightStepInv
  BY PinsInit, LightStart DEF LightStepInv
<1>2. LightStepInv /\ [Next]_vars => LightStepInv'
  <2>1. LightStepInv /\ [Next]_vars => PinsOK'
    BY Projection, PinsStep DEF GpioStep, LightStepInv
  <2> QED BY <2>1, LightStep DEF LightStepInv
<1>3. LightStepInv => BrightnessExact
  BY DEF LightStepInv, LightInv
<1> QED BY <1>1, <1>2, <1>3, PTL DEF Spec

--------------------------------------------------------------------------
(* Types *)

\* The times that an LED went on are past.
LedTimes ==
  /\ led \in [Leds -> LedRecords] /\ ticks \in Nat
  /\ lit \in [Leds -> Nat] /\ litFrame \in [Leds -> Nat]
  /\ \A d \in Leds : led[d].on_ticks <= ticks

LEMMA LedRecordsKept ==
  ASSUME LedTimes, NEW d \in Leds, NEW ps
  PROVE  /\ Updated(d, ps) \in LedRecords /\ Updated(d, ps).on_ticks <= ticks
         /\ Calculated(Updated(d, ps)) \in LedRecords /\ Calculated(Updated(d, ps)).on_ticks <= ticks
<1>1. led[d] \in LedRecords /\ led[d].on_ticks <= ticks /\ ticks \in Nat
  BY DEF LedTimes
<1>2. IsOn(d, ps) \in BOOLEAN
  BY DEF IsOn, IsHigh
<1>3. Updated(d, ps) \in LedRecords /\ Updated(d, ps).on_ticks <= ticks
  <2> DEFINE l == led[d]
  <2>1. /\ l \in LedRecords /\ l.state \in BOOLEAN /\ l.on_ticks \in Nat /\ l.duration \in Nat
        /\ l.on_ticks <= ticks
    BY <1>1 DEF LedRecords
  <2>2. Updated(d, ps) =
          IF IsOn(d, ps) = l.state THEN l
          ELSE IF l.state THEN [l EXCEPT !.state = FALSE, !.duration = l.duration + ticks - l.on_ticks]
          ELSE [l EXCEPT !.state = TRUE, !.on_ticks = ticks]
    BY DEF Updated
  <2> HIDE DEF l
  <2>3. l.duration + ticks - l.on_ticks \in Nat
    BY <1>1, <2>1
  <2>4. \A n \in Nat : [l EXCEPT !.state = FALSE, !.duration = n] \in LedRecords
                      /\ [l EXCEPT !.state = FALSE, !.duration = n].on_ticks = l.on_ticks
    BY <2>1 DEF LedRecords
  <2>5. [l EXCEPT !.state = TRUE, !.on_ticks = ticks] \in LedRecords
        /\ [l EXCEPT !.state = TRUE, !.on_ticks = ticks].on_ticks = ticks
    BY <1>1, <2>1 DEF LedRecords
  <2>6. CASE IsOn(d, ps) = l.state
    BY <2>1, <2>2, <2>6
  <2>7. CASE IsOn(d, ps) # l.state /\ l.state
    BY <2>1, <2>2, <2>3, <2>4, <2>7
  <2>8. CASE IsOn(d, ps) # l.state /\ ~ l.state
    BY <1>1, <2>1, <2>2, <2>5, <2>8
  <2> QED BY <2>6, <2>7, <2>8
<1>4. ASSUME NEW l \in LedRecords, l.on_ticks <= ticks
      PROVE  Calculated(l) \in LedRecords /\ Calculated(l).on_ticks <= ticks
  BY <1>1, <1>4 DEF Calculated, OnFor, OnSince, LedRecords
<1> QED BY <1>3, <1>4

LEMMA LedTimesStep == LedTimes /\ [Next]_vars => LedTimes'
<1> SUFFICES ASSUME LedTimes, [Next]_vars PROVE LedTimes'
  OBVIOUS
<1>1. ASSUME UNCHANGED <<led, ticks, lit, litFrame>> PROVE LedTimes'
  BY <1>1 DEF LedTimes
<1>2. ASSUME NEW p, NEW g, SetPin(p, g) PROVE LedTimes'
  BY <1>1, <1>2 DEF SetPin
<1>3. CASE PinNext
  BY <1>2, <1>3 DEF PinNext, setDigitalValue, getDigitalValue, getAnalogValue, setAnalogValue,
                    setAnalogPeriod, DigitalInMode, ClientVoltage
<1>4. CASE SensorNext
  BY <1>2, <1>4 DEF SensorNext, ClientReading, TakeReading, ClientVoltage
<1>5. CASE nrf_gpio_range_cfg_output \/ UNCHANGED gpioVars
  BY <1>1, <1>5 DEF nrf_gpio_range_cfg_output, gpioVars
<1>6. ASSUME NEW mask, NEW d, nrf_gpio_pins(mask, d) PROVE LedTimes'
  <2>1. \A x \in Leds : Updated(x, Set(mask, d)) \in LedRecords /\ Updated(x, Set(mask, d)).on_ticks <= ticks
    BY LedRecordsKept
  <2>2. led' = [x \in Leds |-> Updated(x, Set(mask, d))] /\ UNCHANGED <<ticks, lit, litFrame>>
    BY <1>6 DEF nrf_gpio_pins
  <2> QED BY <2>1, <2>2 DEF LedTimes
<1>7. ASSUME NEW p, nrf_gpio_pin_clear(p) PROVE LedTimes'
  <2> DEFINE ps == Set({p}, FALSE)
             new == NewFrame(p, ps)
             next == [x \in Leds |-> IF new THEN Calculated(Updated(x, ps)) ELSE Updated(x, ps)]
  <2>1. /\ led' = next /\ ticks' = ticks
        /\ litFrame' = (IF new THEN lit ELSE litFrame)
        /\ lit' = IF new THEN [x \in Leds |-> 0] ELSE lit
    BY <1>7 DEF nrf_gpio_pin_clear
  <2>2. \A x \in Leds : next[x] \in LedRecords /\ next[x].on_ticks <= ticks
    BY LedRecordsKept
  <2> HIDE DEF new
  <2>3. next \in [Leds -> LedRecords]
    BY <2>2
  <2> HIDE DEF next
  <2> QED BY <2>1, <2>2, <2>3 DEF LedTimes
<1>8. CASE Tick
  <2>1. /\ ticks' = ticks + 1 /\ led' = led /\ litFrame' = litFrame
        /\ lit' = [x \in Leds |-> IF IsOn(x, pin) THEN lit[x] + 1 ELSE lit[x]]
    BY <1>8 DEF Tick
  <2>2. lit' \in [Leds -> Nat]
    BY <2>1 DEF LedTimes
  <2>3. \A d \in Leds : led[d].on_ticks \in Nat
    BY DEF LedTimes, LedRecords
  <2> QED BY <2>1, <2>2, <2>3 DEF LedTimes
<1> QED BY <1>3, <1>4, <1>5, <1>6, <1>7, <1>8, Projection DEF MatrixNext

LEMMA RandomTypeStep == RandomType /\ (RandomNext \/ UNCHANGED randomVars) => RandomType'
<1> SUFFICES ASSUME RandomType, RandomNext \/ UNCHANGED randomVars PROVE RandomType'
  OBVIOUS
<1> USE DEF RandomType
<1>1. ASSUME NEW r \in Repeats, InjectRandom(r) PROVE RandomType'
  BY <1>1, RandomAssumption DEF InjectRandom, Allowed
<1>2. CASE StopInjecting
  BY <1>2 DEF StopInjecting
<1>3. CASE get_random
  BY <1>3 DEF get_random
<1>4. ASSUME NEW n \in {0, 1}, set_random_choice(n) PROVE RandomType'
  BY <1>4 DEF set_random_choice
<1>5. CASE UNCHANGED randomVars
  BY <1>5 DEF randomVars
<1> QED BY <1>1, <1>2, <1>3, <1>4, <1>5 DEF RandomNext

Steps == {"copy", "category", "write", "remember", "clear"}
Places == [check : 0..Len(Round), step : Steps]

\* What the rounds and the calls are about.
RoundType ==
  /\ focus \in Foci /\ calls \in 0..MaxCalls[focus]
  /\ failure \in Texted /\ failures \subseteq Texted /\ withdrawn \in BOOLEAN
  /\ copying = <<>> \/ \E m \in Texts : copying = <<m>>
  /\ sensor \in [Sensors -> Readings \cup {None}]
  /\ unread \subseteq Sensors /\ gesture \in Readings \cup {None}
  /\ at \in [Reporters -> Places]

\* What a reporter holds between two of its steps.
HandType ==
  /\ reported \in Seq(Frames) /\ frame \in [Reporters -> Seq(Frames)]
  /\ DOMAIN copy = Reporters
  /\ \A t \in Reporters : at[t].step = "write" /\ Check(t) = "marker" => copy[t][2] \in Texts

LEMMA RoundTypeInit == Init => RoundType
<1>1. \A f \in Foci : 0 \in 0..MaxCalls[f]
  BY DevicesAssumption
<1>2. Idle \in Places
  BY DEF Idle, Places, Round, Steps
<1>3. NoFailure \in Texted
  BY FailuresAssumption DEF NoFailure, Texted
<1> QED BY <1>1, <1>2, <1>3 DEF Init, RoundType

LEMMA HandTypeInit == Init => HandType
BY DEF Init, HandType, Idle

LEMMA PlacesKept ==
  ASSUME at \in [Reporters -> Places], NEW t \in Reporters
  PROVE  /\ NextCheck(t) => at' \in [Reporters -> Places]
         /\ \A step \in Steps : Goto(t, step) => at' \in [Reporters -> Places]
<1>1. Len(Round) = 6 /\ at[t] \in Places
  BY DEF Round
<1>2. (at[t].check + 1) % (Len(Round) + 1) \in 0..Len(Round)
  BY <1>1 DEF Places
<1>3. [check |-> (at[t].check + 1) % (Len(Round) + 1), step |-> "copy"] \in Places
  BY <1>2 DEF Places, Steps
<1>4. ASSUME NEW step \in Steps, Goto(t, step)
      PROVE  at' \in [Reporters -> Places]
  BY <1>4 DEF Goto, Places
<1> QED BY <1>3, <1>4 DEF NextCheck

LEMMA CheckKept ==
  ASSUME RoundType, NEW t \in Reporters, NEW step, Goto(t, step)
  PROVE  /\ at'[t].step = step /\ (Check(t))' = Check(t)
         /\ \A u \in Reporters \ {t} : at'[u] = at[u] /\ (Check(u))' = Check(u)
<1>1. at \in [Reporters -> Places]
  BY DEF RoundType
<1>2. at'[t] = [at[t] EXCEPT !.step = step] /\ at[t] \in Places
  BY <1>1 DEF Goto
<1>3. at'[t].step = step /\ at'[t].check = at[t].check
  BY <1>2 DEF Places
<1>4. \A u \in Reporters \ {t} : at'[u] = at[u]
  BY <1>1 DEF Goto
<1> QED BY <1>3, <1>4 DEF Check

LEMMA CheckMoved ==
  ASSUME RoundType, NEW t \in Reporters, NextCheck(t)
  PROVE  /\ at'[t].step = "copy"
         /\ \A u \in Reporters \ {t} : at'[u] = at[u] /\ (Check(u))' = Check(u)
BY DEF RoundType, NextCheck, Check

\* A step of a round moves one reporter.
LEMMA OneMoves ==
  ASSUME RoundType, NEW t \in Reporters, RoundStep(t)
  PROVE  NextCheck(t) \/ \E step \in Steps \ {"copy"} : Goto(t, step)
<1> USE DEF Steps
<1>1. CASE StartRound(t) \/ Copy(t) \/ Write(t) \/ Remember(t)
  BY <1>1 DEF StartRound, Copy, Write, Remember
<1>2. CASE TakeFrame(t) \/ WriteFrame(t)
  BY <1>2 DEF TakeFrame, WriteFrame
<1>3. CASE CheckMarker(t) \/ ReadCategory(t) \/ WriteMarker(t) \/ ClearMarker(t)
  BY <1>3 DEF CheckMarker, ReadCategory, WriteMarker, ClearMarker
<1> QED BY <1>1, <1>2, <1>3 DEF RoundStep

LEMMA RoundTypeStep == RoundType /\ HandType /\ [Next]_vars => RoundType'
<1> SUFFICES ASSUME RoundType, HandType, [Next]_vars PROVE RoundType'
  OBVIOUS
<1>1. CASE Exercise
  <2>1. calls' \in 0..MaxCalls[focus] /\ focus' = focus /\ at' = at
    <3>1. MaxCalls[focus] \in Nat
      BY DevicesAssumption DEF RoundType
    <3> QED BY <1>1, <3>1 DEF Exercise, Call, RoundType, checkVars
  <2>2. CASE UNCHANGED sensorVars /\ UNCHANGED markerVars
    BY <2>1, <2>2 DEF RoundType, sensorVars, markerVars
  <2>3. CASE MarkerNext /\ UNCHANGED sensorVars
    <3>1. PICK f \in Failures : SetFailure(f)
      BY <2>3 DEF MarkerNext
    <3>2. f.category \in Texts /\ f.message \in Texts
      BY FailuresAssumption
    <3> QED BY <2>1, <2>3, <3>1, <3>2 DEF RoundType, sensorVars, SetFailure, Texted
  <2>4. CASE SensorNext /\ UNCHANGED markerVars
    <3>1. PICK s \in Sensors : (\E r \in Readings : ClientReading(s, r)) \/ TakeReading(s)
      BY <2>4 DEF SensorNext
    <3>2. /\ sensor' \in [Sensors -> Readings \cup {None}]
          /\ unread' \subseteq Sensors /\ gesture' \in Readings \cup {None}
      BY <3>1 DEF ClientReading, TakeReading, RoundType
    <3> QED BY <2>1, <2>4, <3>2 DEF RoundType, markerVars
  <2> QED BY <1>1, <2>2, <2>3, <2>4 DEF Exercise
<1>2. CASE Time \/ UNCHANGED vars
  BY <1>2 DEF Time, vars, markerVars, sensorVars, checkVars, RoundType
<1>3. CASE CopyMessage
  <2>1. PICK m \in Texts : copying = <<m>>
    BY <1>3 DEF CopyMessage, RoundType
  <2>2. failure' \in Texted /\ withdrawn' \in BOOLEAN
    BY <1>3, <2>1 DEF CopyMessage, RoundType, Texted
  <2> QED BY <1>3, <2>2 DEF CopyMessage, RoundType, sensorVars, checkVars
<1>4. ASSUME NEW t \in Reporters, RoundStep(t) PROVE RoundType'
  <2>1. at' \in [Reporters -> Places]
    BY <1>4, PlacesKept, OneMoves DEF RoundType
  <2>2. UNCHANGED <<sensorVars, focus, calls, copying, withdrawn>>
    <3>1. CASE StartRound(t) \/ Copy(t) \/ Write(t) \/ Remember(t)
      BY <3>1 DEF StartRound, Copy, Write, Remember, devices, markerVars
    <3>2. CASE TakeFrame(t) \/ WriteFrame(t)
      BY <3>2 DEF TakeFrame, WriteFrame, devices, markerVars
    <3>3. CASE CheckMarker(t) \/ ReadCategory(t) \/ WriteMarker(t) \/ ClearMarker(t)
      BY <3>3 DEF CheckMarker, ReadCategory, WriteMarker, ClearMarker, devices, markerVars
    <3> QED BY <1>4, <3>1, <3>2, <3>3 DEF RoundStep
  <2>3. failure' \in Texted /\ failures' \subseteq Texted
    <3>1. NoFailure \in Texted
      BY FailuresAssumption DEF NoFailure, Texted
    <3>2. CASE WriteMarker(t)
      <4>1. Report(t) \in Texted
        BY <3>2 DEF WriteMarker, Stepping, Report, HandType, RoundType, Texted
      <4> QED BY <3>2, <4>1 DEF WriteMarker, RoundType
    <3>3. CASE ClearMarker(t)
      BY <3>1, <3>3 DEF ClearMarker, RoundType
    <3>4. CASE StartRound(t) \/ Copy(t) \/ Write(t) \/ Remember(t)
      BY <3>4 DEF StartRound, Copy, Write, Remember, markerVars, RoundType
    <3>5. CASE TakeFrame(t) \/ WriteFrame(t) \/ CheckMarker(t) \/ ReadCategory(t)
      BY <3>5 DEF TakeFrame, WriteFrame, CheckMarker, ReadCategory, markerVars, RoundType
    <3> QED BY <1>4, <3>2, <3>3, <3>4, <3>5 DEF RoundStep
  <2> QED BY <2>1, <2>2, <2>3 DEF RoundType, sensorVars
<1> QED BY <1>1, <1>2, <1>3, <1>4 DEF Next

LEMMA HandTypeStep == RadioType /\ RoundType /\ HandType /\ [Next]_vars => HandType'
<1> SUFFICES ASSUME RadioType, RoundType, HandType, [Next]_vars PROVE HandType'
  OBVIOUS
<1>1. CASE Exercise \/ CopyMessage \/ Time \/ UNCHANGED vars
  BY <1>1 DEF Exercise, CopyMessage, Time, vars, checkVars, txVars, HandType, Check
<1>2. ASSUME NEW t \in Reporters, RoundStep(t) PROVE HandType'
  <2>1. reported' \in Seq(Frames) /\ frame' \in [Reporters -> Seq(Frames)]
    <3>1. CASE TakeFrame(t)
      <4>1. radio_tx # <<>> => FrameSent \in Frames
        BY DEF FrameSent, RadioType
      <4>2. reported' = reported
        BY <3>1 DEF TakeFrame
      <4>3. CASE radio_tx = <<>>
        BY <3>1, <4>2, <4>3 DEF TakeFrame, HandType, simulator_radio_get_tx
      <4>4. CASE radio_tx # <<>>
        <5>1. <<FrameSent>> \in Seq(Frames)
          BY <4>1, <4>4
        <5>2. frame' = [frame EXCEPT ![t] = <<FrameSent>>]
          BY <3>1, <4>4 DEF TakeFrame
        <5> QED BY <4>2, <5>1, <5>2 DEF HandType
      <4> QED BY <4>3, <4>4
    <3>2. CASE WriteFrame(t)
      BY <3>2 DEF WriteFrame, HandType
    <3>3. CASE StartRound(t) \/ Copy(t) \/ Write(t) \/ Remember(t)
      BY <3>3 DEF StartRound, Copy, Write, Remember, txVars, HandType
    <3>4. CASE CheckMarker(t) \/ ReadCategory(t) \/ WriteMarker(t) \/ ClearMarker(t)
      BY <3>4 DEF CheckMarker, ReadCategory, WriteMarker, ClearMarker, txVars, HandType
    <3> QED BY <1>2, <3>1, <3>2, <3>3, <3>4 DEF RoundStep
  <2>2. /\ DOMAIN copy' = Reporters
        /\ \A u \in Reporters \ {t} : copy'[u] = copy[u]
    <3>1. CASE Copy(t) \/ ReadCategory(t)
      BY <3>1 DEF Copy, ReadCategory, HandType
    <3>2. CASE StartRound(t) \/ Write(t) \/ Remember(t) \/ TakeFrame(t) \/ WriteFrame(t)
      BY <3>2 DEF StartRound, Write, Remember, TakeFrame, WriteFrame, HandType
    <3>3. CASE CheckMarker(t) \/ WriteMarker(t) \/ ClearMarker(t)
      BY <3>3 DEF CheckMarker, WriteMarker, ClearMarker, HandType
    <3> QED BY <1>2, <3>1, <3>2, <3>3 DEF RoundStep
  <2>3. ASSUME NEW u \in Reporters \ {t}, at'[u].step = "write", (Check(u))' = "marker"
        PROVE  copy'[u][2] \in Texts
    BY <1>2, <2>2, <2>3, OneMoves, CheckKept, CheckMoved DEF HandType
  <2>4. ASSUME at'[t].step = "write", (Check(t))' = "marker"
        PROVE  copy'[t][2] \in Texts
    <3>1. ~NextCheck(t)
      BY <2>4, CheckMoved
    <3>2. \A step : Goto(t, step) => step = "write" /\ Check(t) = "marker"
      BY <2>4, CheckKept
    <3>3. ReadCategory(t)
      <4>1. ~StartRound(t) /\ ~Copy(t) /\ ~Write(t) /\ ~Remember(t)
        BY <3>1, <3>2 DEF StartRound, Copy, Write, Remember, Compared
      <4>2. ~TakeFrame(t) /\ ~WriteFrame(t)
        BY <3>1, <3>2 DEF TakeFrame, WriteFrame
      <4>3. ~CheckMarker(t) /\ ~WriteMarker(t) /\ ~ClearMarker(t)
        BY <3>1, <3>2 DEF CheckMarker, WriteMarker, ClearMarker
      <4> QED BY <1>2, <4>1, <4>2, <4>3 DEF RoundStep
    <3> QED BY <3>3 DEF ReadCategory, RoundType, HandType, Texted
  <2> QED BY <2>1, <2>2, <2>3, <2>4 DEF HandType
<1> QED BY <1>1, <1>2 DEF Next

\* No operation of a device and no check takes a variable out of its type.
THEOREM TypesHold == Spec => []TypeOK
<1> DEFINE Inv == PinsOK /\ LedTimes /\ RadioType /\ RandomType /\ RoundType /\ HandType
<1>1. Init => Inv
  <2>1. Init => LedTimes
    BY DEF Init, GpioInit, LedTimes, LedRecords
  <2>2. Init => RadioType
    BY DEF Init, RadioInit, RadioType, RadioConfigs
  <2>3. Init => RandomType
    <3>1. Init => inject_random \in BOOLEAN /\ remaining_random = 0 /\ choice_count = -1 /\ granted = 0 /\ drawn = 0
      BY DEF Init, RandomInit
    <3>2. -1 \in Int /\ 0 \in Int /\ 0 \in Nat
      OBVIOUS
    <3> QED BY <3>1, <3>2, Zenon DEF RandomType
  <2> QED BY <2>1, <2>2, <2>3, RoundTypeInit, HandTypeInit, PinsInit
<1>2. Inv /\ [Next]_vars => Inv'
  <2>1. PinsOK /\ [Next]_vars => PinsOK'
    BY Projection, PinsStep DEF GpioStep
  <2> QED BY <2>1, LedTimesStep, RadioTypeStep, RandomTypeStep, RoundTypeStep, HandTypeStep, Projection
<1>3. Inv => TypeOK
  BY DEF TypeOK, PinsOK, LedTimes, GpioType, RoundType, HandType, Places, Steps
<1> QED BY <1>1, <1>2, <1>3, PTL DEF Spec

--------------------------------------------------------------------------
(* What a single reporter tells the client *)

\* Its memory is what the client was last told, but between the writing of an update and the
\* remembering.
ToldInv(t) ==
  /\ DOMAIN client = Compared /\ DOMAIN remembered = Compared
  /\ \A c \in Compared : client[c] = remembered[c] \/ (at[t].step = "remember" /\ Check(t) = c)
  /\ at[t].step = "remember" => Check(t) \in Compared /\ client[Check(t)] = copy[t]

\* A frame in its hand is on the way from the queue to the client.
FrameInv(t) ==
  /\ ReportedInOrder
  /\ frame[t] # <<>> => at[t].step = "write" /\ Check(t) = "radio_tx"

\* While it reports a failure, that failure or one that the VM has set since is there.
FailureInv(t) ==
  /\ copying = <<>> =>
       /\ failure \in Failures \cup {NoFailure}
       /\ at[t].step \in {"category", "write"} /\ Check(t) = "marker" => failure \in Failures
  /\ copying # <<>> => [failure EXCEPT !.message = Head(copying)] \in Failures

LEMMA ToldInit == ASSUME NEW t, Reporters = {t} PROVE Init => ToldInv(t) /\ FrameInv(t) /\ FailureInv(t)
<1> SUFFICES ASSUME Init PROVE ToldInv(t) /\ FrameInv(t) /\ FailureInv(t)
  OBVIOUS
<1>1. /\ at[t].step = "copy" /\ client = remembered /\ DOMAIN remembered = Compared
      /\ failure = NoFailure /\ copying = <<>>
  BY DEF Init, Idle
<1>2. reported = <<>> /\ sent = <<>> /\ radio_tx = <<>> /\ \A u \in Reporters : frame[u] = <<>>
  BY DEF Init, RadioInit
<1>3. ReportedInOrder
  BY <1>2 DEF ReportedInOrder
<1> QED BY <1>1, <1>2, <1>3 DEF ToldInv, FrameInv, FailureInv

LEMMA ToldRounds ==
  ASSUME NEW t \in Reporters, RoundType, ToldInv(t), RoundStep(t)
  PROVE  ToldInv(t)'
<1>1. /\ DOMAIN client = Compared /\ DOMAIN remembered = Compared
      /\ \A c \in Compared : client[c] = remembered[c] \/ (at[t].step = "remember" /\ Check(t) = c)
      /\ at[t].step = "remember" => Check(t) \in Compared /\ client[Check(t)] = copy[t]
  BY DEF ToldInv
<1>2. NextCheck(t) => at'[t].step = "copy"
  BY CheckMoved
<1>3. \A step : Goto(t, step) => at'[t].step = step /\ (Check(t))' = Check(t)
  BY CheckKept
\* A step from a place where client and memory agree to one where they have to.
<1>4. ASSUME at[t].step # "remember", UNCHANGED <<client, remembered>>, at'[t].step # "remember"
      PROVE  ToldInv(t)'
  BY <1>1, <1>4 DEF ToldInv
<1>5. CASE StartRound(t) \/ Copy(t)
  <2>1. /\ at[t].step = "copy"
        /\ NextCheck(t) \/ Goto(t, "write")
        /\ UNCHANGED <<client, remembered>>
    BY <1>5 DEF StartRound, Copy, Stepping, Idle
  <2> QED BY <1>2, <1>3, <1>4, <2>1
<1>6. CASE Write(t)
  <2>1. /\ at[t].step = "write" /\ Check(t) \in Compared /\ UNCHANGED <<remembered, copy>>
        /\ IF copy[t] # remembered[Check(t)]
           THEN client' = [client EXCEPT ![Check(t)] = copy[t]] /\ Goto(t, "remember")
           ELSE NextCheck(t) /\ UNCHANGED client
    BY <1>6 DEF Write, Stepping
  <2>2. CASE copy[t] # remembered[Check(t)]
    <3>1. /\ at'[t].step = "remember" /\ (Check(t))' = Check(t)
          /\ DOMAIN client' = Compared /\ client'[Check(t)] = copy[t]
          /\ \A c \in Compared \ {Check(t)} : client'[c] = client[c]
      BY <1>1, <1>3, <2>1, <2>2
    <3> QED BY <1>1, <2>1, <3>1 DEF ToldInv
  <2>3. CASE copy[t] = remembered[Check(t)]
    BY <1>2, <1>4, <2>1, <2>3
  <2> QED BY <2>2, <2>3
<1>7. CASE Remember(t)
  <2>1. /\ at[t].step = "remember" /\ remembered' = [remembered EXCEPT ![Check(t)] = copy[t]]
        /\ NextCheck(t) /\ UNCHANGED client
    BY <1>7 DEF Remember, Stepping, RememberCopy
  <2>2. DOMAIN remembered' = Compared /\ \A c \in Compared : client[c] = remembered'[c]
    BY <1>1, <2>1
  <2> QED BY <1>1, <1>2, <2>1, <2>2 DEF ToldInv
<1>8. CASE TakeFrame(t) \/ WriteFrame(t)
  <2>1. /\ at[t].step \in {"copy", "write"} /\ UNCHANGED <<client, remembered>>
        /\ NextCheck(t) \/ Goto(t, "write")
    BY <1>8 DEF TakeFrame, WriteFrame, Stepping
  <2> QED BY <1>2, <1>3, <1>4, <2>1
<1>9. CASE CheckMarker(t) \/ ReadCategory(t) \/ WriteMarker(t) \/ ClearMarker(t)
  <2>1. /\ at[t].step \in {"copy", "category", "write", "clear"} /\ UNCHANGED <<client, remembered>>
        /\ NextCheck(t) \/ \E step \in Steps \ {"copy", "remember"} : Goto(t, step)
    BY <1>9 DEF CheckMarker, ReadCategory, WriteMarker, ClearMarker, Stepping, Steps
  <2> QED BY <1>2, <1>3, <1>4, <2>1
<1> QED BY <1>5, <1>6, <1>7, <1>8, <1>9 DEF RoundStep

\* Sending puts a frame at the end of what is told, in hand and waiting; no other operation
\* of the radio changes these.
LEMMA SendingOrdered ==
  ASSUME RadioType, HandType, NEW t \in Reporters, sent = reported \o frame[t] \o radio_tx,
         RadioNext \/ UNCHANGED radioVars
  PROVE  sent' = reported \o frame[t] \o radio_tx'
<1> DEFINE told == reported \o frame[t]
<1>1. told \in Seq(Frames) /\ radio_tx \in Seq(Frames)
  BY DEF HandType, RadioType
<1>2. ASSUME NEW p \in Payloads, simulator_radio_send(p) PROVE sent' = told \o radio_tx'
  <2>1. PICK f \in Frames : radio_tx' = Append(radio_tx, f) /\ sent' = Append(sent, f)
    BY <1>2 DEF simulator_radio_send, Frames, RadioType, RadioConfigs
  <2>2. Append(told \o radio_tx, f) = told \o Append(radio_tx, f)
    <3> HIDE DEF told
    <3>1. told \o radio_tx \in Seq(Frames) /\ <<f>> \in Seq(Frames)
      BY <1>1
    <3>2. Append(told \o radio_tx, f) = (told \o radio_tx) \o <<f>>
      BY <3>1, AppendIsConcat
    <3>3. Append(radio_tx, f) = radio_tx \o <<f>>
      BY <1>1, <3>1, AppendIsConcat
    <3>4. (told \o radio_tx) \o <<f>> = told \o (radio_tx \o <<f>>)
      BY <1>1, <3>1, ConcatAssociative
    <3> QED BY <3>2, <3>3, <3>4
  <2> QED BY <2>1, <2>2, Zenon
<1>3. ASSUME UNCHANGED <<sent, radio_tx>> PROVE sent' = told \o radio_tx'
  BY <1>3
<1> QED BY <1>2, <1>3 DEF RadioNext, simulator_radio_config, simulator_radio_receive, simulator_radio_add_rx,
                          radioVars

\* Taking the oldest frame and writing the frame in hand move it towards the client.
LEMMA TakingOrdered ==
  ASSUME RadioType, HandType, NEW t \in Reporters, sent = reported \o frame[t] \o radio_tx,
         frame[t] = <<>>, radio_tx # <<>>
  PROVE  sent = reported \o <<FrameSent>> \o Tail(radio_tx)
<1>1. radio_tx \in Seq(Frames) /\ reported \in Seq(Frames)
  BY DEF RadioType, HandType
<1>2. /\ FrameSent \in Frames /\ Tail(radio_tx) \in Seq(Frames)
      /\ radio_tx = <<FrameSent>> \o Tail(radio_tx)
  BY <1>1 DEF FrameSent
<1>3. reported \o frame[t] = reported
  BY <1>1
<1>4. reported \o (<<FrameSent>> \o Tail(radio_tx)) = (reported \o <<FrameSent>>) \o Tail(radio_tx)
  BY <1>1, <1>2, ConcatAssociative
<1> QED BY <1>2, <1>3, <1>4

LEMMA FrameRounds ==
  ASSUME NEW t, Reporters = {t}, RadioType, RoundType, HandType, FrameInv(t), RoundStep(t)
  PROVE  FrameInv(t)'
<1> t \in Reporters
  OBVIOUS
<1>1. /\ sent = reported \o frame[t] \o radio_tx
      /\ frame[t] # <<>> => at[t].step = "write" /\ Check(t) = "radio_tx"
      /\ DOMAIN frame = Reporters /\ reported \in Seq(Frames) /\ frame[t] \in Seq(Frames)
  BY DEF FrameInv, ReportedInOrder, HandType
<1>2. \A step : Goto(t, step) => at'[t].step = step /\ (Check(t))' = Check(t)
  BY CheckKept
<1>3. SUFFICES /\ sent' = reported' \o frame'[t] \o radio_tx'
               /\ frame'[t] # <<>> => at'[t].step = "write" /\ (Check(t))' = "radio_tx"
  BY DEF FrameInv, ReportedInOrder
<1>4. ASSUME UNCHANGED <<radioVars, txVars>>, at[t].step # "write" \/ Check(t) # "radio_tx"
      PROVE  /\ sent' = reported' \o frame'[t] \o radio_tx'
             /\ frame'[t] # <<>> => at'[t].step = "write" /\ (Check(t))' = "radio_tx"
  BY <1>1, <1>4 DEF radioVars, txVars
<1>5. CASE StartRound(t) \/ Copy(t) \/ Write(t) \/ Remember(t)
  BY <1>4, <1>5 DEF StartRound, Copy, Write, Remember, Stepping, Idle, Compared
<1>6. CASE CheckMarker(t) \/ ReadCategory(t) \/ WriteMarker(t) \/ ClearMarker(t)
  BY <1>4, <1>6 DEF CheckMarker, ReadCategory, WriteMarker, ClearMarker, Stepping
<1>7. CASE TakeFrame(t)
  <2>1. at[t].step = "copy" /\ Check(t) = "radio_tx" /\ frame[t] = <<>> /\ reported' = reported
    BY <1>1, <1>7 DEF TakeFrame, Stepping
  <2>2. CASE radio_tx = <<>> /\ UNCHANGED <<radioVars, frame>>
    BY <1>1, <2>1, <2>2 DEF radioVars
  <2>3. CASE /\ simulator_radio_get_tx /\ Goto(t, "write")
             /\ frame' = [frame EXCEPT ![t] = <<FrameSent>>]
    <3>1. frame'[t] = <<FrameSent>> /\ radio_tx' = Tail(radio_tx) /\ sent' = sent /\ radio_tx # <<>>
      BY <1>1, <2>3 DEF simulator_radio_get_tx
    <3>2. sent = reported \o <<FrameSent>> \o Tail(radio_tx)
      BY <1>1, <2>1, <3>1, TakingOrdered
    <3> QED BY <1>2, <2>1, <2>3, <3>1, <3>2
  <2> QED BY <1>7, <2>2, <2>3 DEF TakeFrame
<1>8. CASE WriteFrame(t)
  <2>1. /\ reported' = reported \o frame[t] /\ frame'[t] = <<>>
        /\ radio_tx' = radio_tx /\ sent' = sent
    BY <1>1, <1>8 DEF WriteFrame, radioVars
  <2>2. reported' \o <<>> = reported'
    BY <1>1, <2>1
  <2> QED BY <1>1, <2>1, <2>2
<1> QED BY <1>5, <1>6, <1>7, <1>8 DEF RoundStep

LEMMA FailureRounds ==
  ASSUME NEW t \in Reporters, RoundType, FailureInv(t), RoundStep(t)
  PROVE  FailureInv(t)'
<1>1. NextCheck(t) => at'[t].step = "copy"
  BY CheckMoved
<1>2. \A step : Goto(t, step) => at'[t].step = step /\ (Check(t))' = Check(t)
  BY CheckKept
<1>3. CASE StartRound(t) \/ Write(t) \/ Remember(t)
  <2>1. UNCHANGED markerVars /\ (NextCheck(t) \/ Goto(t, "remember"))
    BY <1>3 DEF StartRound, Write, Remember
  <2> QED BY <1>1, <1>2, <2>1 DEF FailureInv, markerVars
<1>4. CASE Copy(t)
  <2>1. UNCHANGED markerVars /\ Goto(t, "write") /\ Check(t) # "marker"
    BY <1>4 DEF Copy, Compared
  <2> QED BY <1>2, <2>1 DEF FailureInv, markerVars
<1>5. CASE TakeFrame(t) \/ WriteFrame(t)
  <2>1. UNCHANGED markerVars /\ (NextCheck(t) \/ Goto(t, "write")) /\ Check(t) # "marker"
    BY <1>5 DEF TakeFrame, WriteFrame
  <2> QED BY <1>1, <1>2, <2>1 DEF FailureInv, markerVars
<1>6. CASE CheckMarker(t)
  <2>1. UNCHANGED markerVars /\ IF HasFailure THEN Goto(t, "category") ELSE NextCheck(t)
    BY <1>6 DEF CheckMarker
  <2>2. HasFailure => failure # NoFailure
    BY DEF HasFailure, NoFailure
  <2> QED BY <1>1, <1>2, <2>1, <2>2 DEF FailureInv, markerVars
<1>7. CASE ReadCategory(t)
  <2>1. UNCHANGED markerVars /\ Goto(t, "write") /\ at[t].step = "category"
    BY <1>7 DEF ReadCategory, Stepping
  <2> QED BY <1>2, <2>1 DEF FailureInv, markerVars
<1>8. CASE WriteMarker(t) \/ ClearMarker(t)
  <2>1. /\ copying' = copying /\ failure' \in {failure, NoFailure}
        /\ copying # <<>> => failure' = failure
        /\ NextCheck(t) \/ Goto(t, "clear")
    BY <1>8 DEF WriteMarker, ClearMarker, Unlocked
  <2> QED BY <1>1, <1>2, <2>1 DEF FailureInv
<1> QED BY <1>3, <1>4, <1>5, <1>6, <1>7, <1>8 DEF RoundStep

ReporterInv(t) == RadioType /\ RoundType /\ HandType /\ ToldInv(t) /\ FrameInv(t)

LEMMA ReporterStep ==
  ASSUME NEW t, Reporters = {t}
  PROVE  ReporterInv(t) /\ [Next]_vars => ReporterInv(t)'
<1> SUFFICES ASSUME ReporterInv(t), [Next]_vars PROVE ReporterInv(t)'
  OBVIOUS
<1> USE DEF ReporterInv
<1>1. (RadioType /\ RoundType /\ HandType)'
  BY Projection, RadioTypeStep, RoundTypeStep, HandTypeStep
<1>2. ASSUME UNCHANGED checkVars, RadioNext \/ UNCHANGED radioVars PROVE (ToldInv(t) /\ FrameInv(t))'
  <2>1. sent = reported \o frame[t] \o radio_tx
    BY DEF FrameInv, ReportedInOrder
  <2>2. sent' = reported' \o frame'[t] \o radio_tx'
    BY <1>2, <2>1, SendingOrdered DEF checkVars, txVars
  <2> QED BY <1>2, <2>2 DEF ToldInv, FrameInv, ReportedInOrder, checkVars, txVars, Check
<1>3. ASSUME Exercise PROVE (ToldInv(t) /\ FrameInv(t))'
  BY <1>2, <1>3 DEF Exercise
<1>4. ASSUME CopyMessage \/ Time \/ UNCHANGED vars PROVE (ToldInv(t) /\ FrameInv(t))'
  BY <1>2, <1>4 DEF CopyMessage, Time, vars
<1>5. ASSUME \E u \in Reporters : RoundStep(u) PROVE (ToldInv(t) /\ FrameInv(t))'
  BY <1>5, ToldRounds, FrameRounds
<1> QED BY <1>1, <1>2, <1>3, <1>4, <1>5 DEF Next

LEMMA ReporterAlways == ASSUME NEW t, Reporters = {t} PROVE Spec => []ReporterInv(t)
<1>1. Init => ReporterInv(t)
  <2>1. Init => RadioType
    BY DEF Init, RadioInit, RadioType, RadioConfigs
  <2> QED BY <2>1, RoundTypeInit, HandTypeInit, ToldInit DEF ReporterInv
<1>2. ReporterInv(t) /\ [Next]_vars => ReporterInv(t)'
  BY ReporterStep
<1> QED BY <1>1, <1>2, PTL DEF Spec

\* With the rounds in one thread, as in normal mode, the client is told of every frame once, in
\* the order and with the address with which it was sent; or it is in the thread's hand, taken
\* (Main.cpp:544) and not written (568), or it still waits (Hardware.cpp:935-968).
THEOREM ReportedHolds == ASSUME NEW t, Reporters = {t} PROVE Spec => []ReportedInOrder
<1>1. ReporterInv(t) => ReportedInOrder
  BY DEF ReporterInv, FrameInv
<1>2. Spec => []ReporterInv(t)
  BY ReporterAlways
<1> QED BY <1>1, <1>2, PTL

LEMMA FailureStep ==
  ASSUME NEW t, Reporters = {t}
  PROVE  ReporterInv(t) /\ FailureInv(t) /\ [Next]_vars => FailureInv(t)'
<1> SUFFICES ASSUME ReporterInv(t), FailureInv(t), [Next]_vars PROVE FailureInv(t)'
  OBVIOUS
<1>1. CASE UNCHANGED <<markerVars, at>>
  BY <1>1 DEF FailureInv, markerVars, Check
<1>2. ASSUME NEW f \in Failures, SetFailure(f) PROVE FailureInv(t)'
  <2>1. failure \in Texted /\ f \in [category : Texts, message : Texts]
    BY FailuresAssumption DEF ReporterInv, RoundType
  <2>2. copying' # <<>> /\ Head(copying') = f.message /\ failure' = [failure EXCEPT !.category = f.category]
    BY <1>2 DEF SetFailure
  <2>3. [failure' EXCEPT !.message = f.message] = f
    BY <2>1, <2>2 DEF Texted
  <2> QED BY <2>2, <2>3 DEF FailureInv
<1>3. CASE Exercise
  BY <1>1, <1>2, <1>3 DEF Exercise, MarkerNext, checkVars
<1>4. CASE CopyMessage
  BY <1>4 DEF CopyMessage, FailureInv
<1>5. CASE Time \/ UNCHANGED vars
  BY <1>1, <1>5 DEF Time, vars, checkVars
<1>6. CASE \E u \in Reporters : RoundStep(u)
  BY <1>6, FailureRounds DEF ReporterInv
<1> QED BY <1>3, <1>4, <1>5, <1>6 DEF Next

\* With the rounds in one thread, as in normal mode, no update repeats what the client was told
\* last of the same device, whatever the VM does between the copy, the comparison, the write and
\* the remembering (Main.cpp:353-609).
TellsNews == \A t \in Reporters : Write(t) /\ Goto(t, "remember") => client' # client
NothingTwice == [][TellsNews]_vars
THEOREM NothingToldTwice == ASSUME NEW t, Reporters = {t} PROVE Spec => NothingTwice
<1>1. ASSUME RoundType, ToldInv(t), Write(t), Goto(t, "remember") PROVE client' # client
  <2>1. /\ at[t].step = "write" /\ Check(t) \in Compared
        /\ IF copy[t] # remembered[Check(t)] THEN client' = [client EXCEPT ![Check(t)] = copy[t]]
           ELSE NextCheck(t)
    BY <1>1 DEF Write, Stepping
  <2>2. at'[t].step = "remember"
    BY <1>1, CheckKept
  <2>3. ~ NextCheck(t)
    BY <1>1, <2>2 DEF NextCheck, RoundType
  <2>4. client[Check(t)] = remembered[Check(t)] /\ DOMAIN client = Compared
    BY <1>1, <2>1 DEF ToldInv
  <2>5. client'[Check(t)] = copy[t] /\ copy[t] # client[Check(t)]
    BY <2>1, <2>3, <2>4
  <2> QED BY <2>5
<1>2. ReporterInv(t) => [TellsNews]_vars
  <2> SUFFICES ASSUME ReporterInv(t), NEW u \in Reporters, Write(u), Goto(u, "remember")
               PROVE  client' # client
    BY DEF TellsNews
  <2>1. u = t
    OBVIOUS
  <2>2. Write(t) /\ Goto(t, "remember")
    BY <2>1
  <2> QED BY <1>1, <2>2 DEF ReporterInv
<1>3. Spec => []ReporterInv(t)
  BY ReporterAlways
<1> QED BY <1>2, <1>3, PTL DEF NothingTwice

\* With the rounds in one thread, a marker failure that it writes is one that the VM has set;
\* but when the VM is at setting another, or has changed the category since it was read
\* (Main.cpp:505-534: the two halves are read without the lock).
WritesWhole ==
  \A t \in Reporters :
    WriteMarker(t) /\ Unlocked /\ copy[t][2] = failure.category => Report(t) \in Failures
FailuresWhole == [][WritesWhole]_vars
THEOREM WholeFailuresWritten == ASSUME NEW t, Reporters = {t} PROVE Spec => FailuresWhole
<1>1. Init => FailureInv(t)
  BY ToldInit
<1>2. ReporterInv(t) /\ FailureInv(t) /\ [Next]_vars => FailureInv(t)'
  BY FailureStep
<1>3. ReporterInv(t) /\ FailureInv(t) => [WritesWhole]_vars
  <2> SUFFICES ASSUME ReporterInv(t), FailureInv(t), WriteMarker(t), Unlocked, copy[t][2] = failure.category
               PROVE  Report(t) \in Failures
    BY DEF WritesWhole
  <2>1. failure \in Failures /\ failure \in Texted
    BY DEF WriteMarker, Stepping, Unlocked, FailureInv, ReporterInv, RoundType
  <2>2. Report(t) = failure
    BY <2>1 DEF Report, Texted
  <2> QED BY <2>1, <2>2
<1>4. Spec => []ReporterInv(t)
  BY ReporterAlways
<1> QED BY <1>1, <1>2, <1>3, <1>4, PTL DEF Spec, FailuresWhole
=============================================================================
