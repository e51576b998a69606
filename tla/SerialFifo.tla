----------------------------- MODULE SerialFifo -----------------------------
(***************************************************************************)
(* What the serial port promises (source/Hardware.cpp:52-159): the VM      *)
(* reads what the user typed, each byte once and in the order typed, with  *)
(* a newline turned into the carriage return that MicroPython expects.     *)
(***************************************************************************)
EXTENDS Sequences

CONSTANT Bytes

VARIABLES
    input,      \* typed, and not yet given to serial_add_byte
    queue,      \* given to serial_add_byte, and not yet read by the VM
    got         \* what serial_getc last returned

vars == <<input, queue, got>>

AsAdded(c) == IF c = "nl" THEN "cr" ELSE c

Init == input = <<>> /\ queue = <<>> /\ got = "none"

Type == input = <<>> /\ input' \in Seq(Bytes) /\ UNCHANGED <<queue, got>>

Add ==
    /\ input # <<>> /\ input' = Tail(input)
    /\ queue' = Append(queue, AsAdded(Head(input)))
    /\ UNCHANGED got

Get ==
    /\ queue # <<>> /\ queue' = Tail(queue) /\ got' = Head(queue)
    /\ UNCHANGED input

Next == Type \/ Add \/ Get
Spec == Init /\ [][Next]_vars
=============================================================================
