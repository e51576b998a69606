-------------------------------- MODULE Gpio --------------------------------
(* The pins and the LED matrix (source/Hardware.cpp:405-480, 510-775, with   *)
(* MicroBitPin in source/MicroBit.cpp and source/pwm.cpp).  A voltage is in  *)
(* tenths of a volt.  Ticks are counted without bound here; the code's       *)
(* uint32_t differences are the same across the wrap as long as a frame is   *)
(* shorter than 2^32 ticks.                                                  *)
EXTENDS Integers, FiniteSets
CONSTANTS
  Rows, Cols,      \* pins ROW1..ROW3 and COL1..COL9
  ROW3,            \* the last row
  Edge,            \* the other pins of the edge connector
  Internal,        \* pins that are not on it
  Leds,            \* pairs of a row and a column: led_pin_map
  Voltages,        \* what a client may drive a pin to
  Periods,         \* periods of the PWM
  MaxTicks         \* bound on the ticks

Pins == Rows \cup Cols \cup Edge \cup Internal
Disconnected == -1                             \* NAN, before any voltage is set
ASSUME GpioAssumption ==
  /\ ROW3 \in Rows /\ Leds \subseteq Rows \X Cols
  /\ Voltages \subseteq Nat /\ Periods \subseteq Nat /\ MaxTicks \in Nat
  /\ (Rows \cup Cols) \cap (Edge \cup Internal) = {} /\ Edge \cap Internal = {}

VARIABLES
  pin,             \* the GpioPin objects
  led,             \* the DisplayLed objects
  ticks,           \* get_ticks()
  lit, litFrame    \* history: ticks each LED has been on in this frame, and in the last
gpioVars == <<pin, led, ticks, lit, litFrame>>

Pulls == {"PullNone", "PullUp", "PullDown"}

GpioInit ==
  /\ pin = [p \in Pins |-> [is_output |-> FALSE, output |-> FALSE, is_pwm |-> FALSE,
                            pull |-> "PullUp", analog |-> Disconnected, duty |-> 0,
                            period |-> 1000]]
  /\ led = [d \in Leds |-> [state |-> FALSE, b |-> 0, on_ticks |-> 0, duration |-> 0]]
  /\ ticks = 0
  /\ lit = [d \in Leds |-> 0] /\ litFrame = [d \in Leds |-> 0]

--------------------------------------------------------------------------
(* GpioPin *)

\* get_voltage() of the pin g: one of these.  A floating input reads as noise between 1.07
\* and 2.07 volts; the pins of the matrix never float, and the state of a floating pin of
\* the edge does not depend on it.
Voltage(g) ==
  IF g.is_output THEN {IF g.output THEN 33 ELSE 0}
  ELSE IF g.analog # Disconnected THEN {g.analog}
  ELSE IF g.pull = "PullUp" THEN {33}
  ELSE IF g.pull = "PullDown" THEN {0}
  ELSE 11..21
IsHigh(g) == \E v \in Voltage(g) : v > 20      \* may read high
IsLow(g) == \E v \in Voltage(g) : v < 10

AsInput(g, pull) == [g EXCEPT !.is_output = FALSE, !.is_pwm = FALSE, !.pull = pull]
AsOutput(g) == [g EXCEPT !.is_output = TRUE, !.is_pwm = FALSE, !.pull = "PullNone"]
AsPwm(g, duty) == [AsOutput(g) EXCEPT !.is_pwm = TRUE, !.duty = duty]
Driven(g, d) == IF g.is_output THEN [g EXCEPT !.output = d] ELSE g
Sourced(g, v) == IF g.is_output THEN g ELSE [g EXCEPT !.analog = v]

SetPin(p, g) == pin' = [pin EXCEPT ![p] = g] /\ UNCHANGED <<led, ticks, lit, litFrame>>

\* What get_state() says of the pin p.
PinState(p) ==
  LET g == pin[p]
      level == IF IsHigh(g) THEN "HIGH" ELSE "LOW"
  IN  IF p \in Rows \cup Cols THEN <<"RESERVED">>
      ELSE IF g.is_output
           THEN IF g.is_pwm THEN <<"OUTPUT", "PWM">> ELSE <<"OUTPUT", level>>
      ELSE IF g.pull = "PullNone" /\ g.analog = Disconnected THEN <<"INPUT", "FLOATING">>
      ELSE <<"INPUT", g.pull, level>>

\* The VM's MicroBitPin: a read makes the pin an input, a write an output.
setDigitalValue(p, d) == SetPin(p, Driven(AsOutput(pin[p]), d))
getDigitalValue(p) == SetPin(p, AsInput(pin[p], "PullDown"))
getAnalogValue(p) == SetPin(p, AsInput(pin[p], "PullNone"))
setAnalogValue(p, v) == SetPin(p, IF v = 0 THEN Driven(AsOutput(pin[p]), FALSE)
                                           ELSE AsPwm(pin[p], v))
setAnalogPeriod(p, us) == SetPin(p, [pin[p] EXCEPT !.period = us])
DigitalInMode(p, pull) == SetPin(p, AsInput(pin[p], pull))

\* process_client_pins() and process_client_button(): lost when the pin is an output.
ClientVoltage(p, v) == SetPin(p, Sourced(pin[p], v))

PinNext ==
  \E p \in Edge :
    \/ \E d \in BOOLEAN : setDigitalValue(p, d)
    \/ getDigitalValue(p) \/ getAnalogValue(p)
    \/ \E v \in {0, 1} : setAnalogValue(p, v)
    \/ \E us \in Periods : setAnalogPeriod(p, us)
    \/ \E pull \in Pulls : DigitalInMode(p, pull)
    \/ \E v \in Voltages : ClientVoltage(p, v)

--------------------------------------------------------------------------
(* DisplayLed *)

\* is_on() when the pins are ps: the row is high and the column is not.
IsOn(d, ps) == IsHigh(ps[d[1]]) /\ ~IsHigh(ps[d[2]])

\* update(), now that the pins are ps.
Updated(d, ps) ==
  LET l == led[d]
  IN  IF IsOn(d, ps) = l.state THEN l
      ELSE IF l.state
      THEN [l EXCEPT !.state = FALSE, !.duration = @ + ticks - l.on_ticks]
      ELSE [l EXCEPT !.state = TRUE, !.on_ticks = ticks]

\* ticks(): the time that the LED with the record l has been on in this frame.
OnFor(l) == l.duration + (IF l.state THEN ticks - l.on_ticks ELSE 0)
OnSince(l) == IF l.state THEN ticks ELSE l.on_ticks

NotReset(l) ==                                 \* mutant: the next frame counts on
  [state |-> l.state, b |-> OnFor(l), on_ticks |-> OnSince(l), duration |-> OnFor(l)]
\* calculate(), which also starts the count of the next frame.
Calculated(l) ==
  [state |-> l.state, b |-> OnFor(l), on_ticks |-> OnSince(l), duration |-> 0]

--------------------------------------------------------------------------
(* The calls that MicroPython drives the matrix with *)

nrf_gpio_range_cfg_output ==
  /\ pin' = [p \in Pins |-> IF p \in Rows \cup Cols THEN AsOutput(pin[p]) ELSE pin[p]]
  /\ UNCHANGED <<led, ticks, lit, litFrame>>

Set(mask, d) == [p \in Pins |-> IF p \in mask THEN Driven(pin[p], d) ELSE pin[p]]

nrf_gpio_pins(mask, d) ==
  /\ pin' = Set(mask, d)
  /\ led' = [x \in Leds |-> Updated(x, Set(mask, d))]
  /\ UNCHANGED <<ticks, lit, litFrame>>

\* A new frame: ROW3 has just been cleared, no column is low and no row high.
NewFrame(p, ps) ==
  /\ p = ROW3
  /\ \A c \in Cols : ~IsLow(ps[c])
  /\ \A r \in Rows : ~IsHigh(ps[r])

nrf_gpio_pin_clear(p) ==
  LET ps == Set({p}, FALSE)
      new == NewFrame(p, ps)
      After(x) == Updated(x, ps)
  IN  /\ pin' = ps
      /\ led' = [x \in Leds |-> IF new THEN Calculated(After(x)) ELSE After(x)]
      /\ litFrame' = IF new THEN lit ELSE litFrame
      /\ lit' = IF new THEN [x \in Leds |-> 0] ELSE lit
      /\ UNCHANGED ticks

\* Time passes; what is lit is what the pins say.
Tick ==
  /\ ticks < MaxTicks
  /\ ticks' = ticks + 1
  /\ lit' = [x \in Leds |-> IF IsOn(x, pin) THEN lit[x] + 1 ELSE lit[x]]
  /\ UNCHANGED <<pin, led, litFrame>>

MatrixNext ==
  \/ nrf_gpio_range_cfg_output
  \/ \E mask \in SUBSET (Rows \cup Cols), d \in BOOLEAN : mask # {} /\ nrf_gpio_pins(mask, d)
  \/ \E p \in Rows \cup Cols : nrf_gpio_pin_clear(p)

\* ticks_to_brightness(): the scale of 0 to 9.
Limits == <<0, 2, 4, 8, 15, 28, 53, 102, 199, 375>>
ticks_to_brightness(t) == Cardinality({i \in DOMAIN Limits : Limits[i] <= t}) - 1

--------------------------------------------------------------------------
PinRecords ==
  [is_output : BOOLEAN, output : BOOLEAN, is_pwm : BOOLEAN, pull : Pulls, analog : Int,
   duty : Nat, period : Nat]
LedRecords == [state : BOOLEAN, b : Nat, on_ticks : Nat, duration : Nat]
GpioType ==
  /\ pin \in [Pins -> PinRecords] /\ led \in [Leds -> LedRecords]
  /\ ticks \in Nat /\ lit \in [Leds -> Nat] /\ litFrame \in [Leds -> Nat]

\* What check_led_updates() reads is the number of ticks that the LED was on in the last
\* complete frame ("a number of ticks that it was turned on for the last complete frame"),
\* however the VM switches rows and columns and wherever the frame cuts a period of light.
BrightnessExact ==
  \A d \in Leds :
    LET l == led[d]
    IN  /\ l.b = litFrame[d]
        /\ l.state <=> IsOn(d, pin)
        /\ OnFor(l) = lit[d]
=============================================================================
