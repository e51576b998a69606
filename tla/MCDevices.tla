---- MODULE MCDevices ----
EXTENDS Devices
\* Two rows and a column; the LED of the last row starts the new frame.
MCLeds == {<<"row1", "col1">>, <<"row3", "col1">>}
\* Nothing, half and all of the supply.
MCVoltages == {0, 15, 33}
MCRepeats == {-1, 0, 2}
\* Two failures with nothing in common, one without a message, and null pointers.
MCTexts == {"", "c1", "c2", "m1", "m2"}
MCFailures ==
  {[category |-> c, message |-> m] : c \in {"c1"}, m \in {"m1", ""}}
    \cup {[category |-> "c2", message |-> "m2"], [category |-> "", message |-> ""]}
\* Two periods of light and a frame of the matrix take five calls.
MCCalls == [f \in Foci |-> CASE f = "leds" -> 5 [] f = "pins" -> 3 [] OTHER -> 4]
====
