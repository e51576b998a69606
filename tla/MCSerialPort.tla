---------------------------- MODULE MCSerialPort ----------------------------
(***************************************************************************)
(* The alphabet of the serial port's runs: a letter, a newline and Ctrl-C. *)
(***************************************************************************)
EXTENDS SerialPort

Keys == {"a", "nl", "ctrl_c"}
Text == {"a", "b"}

\* The VM polls, or a receive handler is attached and __WFI adds a Ctrl-D; and
\* a program that is not interactive and has no handler.
BothSetups == {[attached |-> FALSE, interactive |-> TRUE, unread |-> 3],
               [attached |-> TRUE, interactive |-> FALSE, unread |-> 1]}
Inline == {[attached |-> FALSE, interactive |-> FALSE, unread |-> 2]}
=============================================================================
